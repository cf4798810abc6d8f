-------------------------------- MODULE Valuation --------------------------------
(***************************************************************************)
(* Figures that are computed again for every answer from what is stored    *)
(* and the date: the straight-line depreciation of an asset                *)
(* (depreciation.py) and the status of a software licence, written three   *)
(* times, as a value, as an expression of the database and as a filter     *)
(* (license_status.py).                                                    *)
(*                                                                         *)
(* A calendar of short months of unequal length; money in cents, rates in  *)
(* fractions of Unit.  Amounts are rational numbers until they are         *)
(* rounded: they are held multiplied by the length of the plan and Unit    *)
(* (the code divides with 28 digits).                                      *)
(* Definitions marked "Mutant" are wrong on purpose and nothing uses them. *)
(***************************************************************************)
EXTENDS Integers, Sequences, FiniteSets

CONSTANTS
    MonthLength,    \* days of each month of the calendar
    Year,           \* months in a year
    Unit,           \* rates are multiples of 1 / Unit
    Amounts, Terms, Rates,
    Warning,        \* days before its end in which a licence is expiring
    MaxEdits        \* bound

VARIABLES
    today,          \* number of the day
    asset,          \* amount, start, years, rate
    expiry,         \* end of the licence, or 0
    last,           \* the figures of the day before, if nothing was edited since
    edits

vars == <<today, asset, expiry, last, edits>>

\* A month has a day, a year has a month, and rates are fractions.
ValueConstants ==
    /\ MonthLength \in Seq(Nat \ {0}) /\ MonthLength # <<>>
    /\ Year \in Nat \ {0} /\ Unit \in Nat \ {0}
    /\ Amounts \subseteq Nat /\ Terms \subseteq Nat /\ Rates \subseteq Nat
    /\ Warning \in Nat

Months == DOMAIN MonthLength

\* The last day of a month.
End[m \in 0 .. Len(MonthLength)] == IF m = 0 THEN 0 ELSE End[m - 1] + MonthLength[m]
LastDay == End[Len(MonthLength)]
Days == 1 .. LastDay

MonthOf(d) == CHOOSE m \in Months : End[m - 1] < d /\ d <= End[m]
DayOf(d) == d - End[MonthOf(d) - 1]

-----------------------------------------------------------------------------
(* Depreciation                                                              *)

None == 0

\* validate_depreciation_configuration: complete, or empty.
Configurations ==
    [amount : Amounts, start : Days, years : Terms, rate : Rates]
Complete(c) == c.amount > 0 /\ c.years > 0 /\ c.rate >= 0 /\ c.rate <= Unit
Unconfigured == [amount |-> None, start |-> None, years |-> None, rate |-> None]

\* Mutant: a month counts from its first day.
CalendarMonths(start, day) == MonthOf(day) - MonthOf(start)

\* elapsed_months: whole months, by the day of the month.
Elapsed(start, day) ==
    LET n == MonthOf(day) - MonthOf(start) - (IF DayOf(day) < DayOf(start) THEN 1 ELSE 0)
    IN IF n < 0 THEN 0 ELSE n

Total(c) == c.years * Year
Scale(c) == Total(c) * Unit

\* Exact values, times Scale(c).
Original(c) == c.amount * Scale(c)
Residual(c) == c.amount * c.rate * Total(c)
Depreciable(c) == Original(c) - Residual(c)
Accumulated(c, day) ==
    LET n == Elapsed(c.start, day) IN
    IF day < c.start THEN 0
    ELSE IF n >= Total(c) THEN Depreciable(c)
    ELSE (Depreciable(c) \div Total(c)) * n

\* quantize(0.01, ROUND_HALF_UP)
Rounded(x, scale) == (2 * x + scale) \div (2 * scale)

Status(c, day) ==
    CASE day < c.start -> "not_started"
      [] day >= c.start /\ Elapsed(c.start, day) >= Total(c) -> "fully_depreciated"
      [] OTHER -> "depreciating"

\* calculate_depreciation
Figures(c, day) ==
    IF c = Unconfigured \/ ~Complete(c) THEN [status |-> "unconfigured"]
    ELSE LET worth == Original(c) - Accumulated(c, day)
             net == IF worth < Residual(c) THEN Residual(c) ELSE worth
         IN [status |-> Status(c, day), original |-> Rounded(Original(c), Scale(c)),
             residual |-> Rounded(Residual(c), Scale(c)),
             accumulated |-> Rounded(Accumulated(c, day), Scale(c)), net |-> Rounded(net, Scale(c)),
             months |-> IF day < c.start THEN 0 ELSE Elapsed(c.start, day)]

-----------------------------------------------------------------------------
(* The status of a licence                                                   *)

\* license_status_value
StatusValue(e, day) ==
    IF e # None /\ e < day THEN "expired"
    ELSE IF e # None /\ e <= day + Warning THEN "expiring"
    ELSE "normal"

\* license_status_expression, license_status_counts: a comparison with NULL is false.
StatusExpression(e, day) ==
    CASE e # None /\ e < day -> "expired"
      [] e # None /\ e >= day /\ e <= day + Warning -> "expiring"
      [] OTHER -> "normal"

\* filter_licenses_by_status
Filtered(status, e, day) ==
    CASE status = "expired" -> e # None /\ e < day
      [] status = "expiring" -> e # None /\ e >= day /\ e <= day + Warning
      [] status = "normal" -> e = None \/ e > day + Warning

-----------------------------------------------------------------------------
Now == [figures |-> Figures(asset, today), licence |-> StatusValue(expiry, today)]
Nothing == [figures |-> [status |-> "unconfigured"], licence |-> "normal"]

Init ==
    /\ today = 1 /\ edits = 0 /\ last = Nothing
    /\ asset \in {c \in Configurations : Complete(c)} \cup {Unconfigured}
    /\ expiry \in {None, 1, LastDay}

\* The configuration or the purchase is edited, the licence renewed.
Edit ==
    /\ edits < MaxEdits /\ edits' = edits + 1
    /\ last' = Nothing /\ UNCHANGED today
    /\ \/ asset' \in {c \in Configurations : Complete(c)} \cup {Unconfigured} /\ UNCHANGED expiry
       \/ expiry' \in {None} \cup Days /\ UNCHANGED asset

NextDay ==
    /\ today < LastDay /\ today' = today + 1
    /\ last' = Now
    /\ UNCHANGED <<asset, expiry, edits>>

Next == Edit \/ NextDay

Spec == Init /\ [][Next]_vars

-----------------------------------------------------------------------------
(* Properties *)

Order(status) == CASE status = "not_started" -> 1 [] status = "depreciating" -> 2 [] OTHER -> 3

\* The monthly dates after the start that today has reached; a month too short to
\* have the day reaches it with the first of the next.
Anniversaries(start) ==
    {k \in Months : \/ MonthOf(start) + k < MonthOf(today)
                    \/ MonthOf(start) + k = MonthOf(today) /\ DayOf(start) <= DayOf(today)}

\* From day to day, across months of unequal length, what an asset is worth never
\* rises and what is written off never falls, by one month's part with every monthly
\* date of its start; it stays between its price and its residual value, which it has exactly
\* when its term is over, and what is shown adds up to a cent.
FiguresAreSteady ==
    LET f == Now.figures  l == last.figures IN
    /\ f.status # "unconfigured" =>
        /\ f.months = Cardinality(Anniversaries(asset.start))
        /\ f.residual <= f.net /\ f.net <= f.original
        /\ f.net + f.accumulated - f.original \in {0, 1}
        /\ f.status = "fully_depreciated" => f.net = f.residual
        /\ f.status = "not_started" => f.net = f.original
    /\ (l.status # "unconfigured" /\ f.status # "unconfigured") =>
        /\ f.net <= l.net /\ f.accumulated >= l.accumulated
        /\ f.months - l.months \in {0, 1} /\ Order(f.status) >= Order(l.status)

\* The three readings of a licence's status agree and one of them holds; it does not
\* go back while nobody renews the licence.
LicencesAgree ==
    LET s == StatusValue(expiry, today) IN
    /\ s = StatusExpression(expiry, today)
    /\ \A x \in {"normal", "expiring", "expired"} : Filtered(x, expiry, today) <=> x = s
    /\ last.licence = "expired" => s = "expired"
    /\ last.licence = "expiring" => s # "normal"

\* What is computed for every answer is right from day to day.
ValuesAreSteady == FiguresAreSteady /\ LicencesAgree
=============================================================================
