--------------------------------- MODULE Alerts ---------------------------------
(***************************************************************************)
(* The reminders of reporting/alerts.py: what is due is read from five     *)
(* tables, each query is cut at ALERT_LIMIT, the results are merged and    *)
(* cut again, and the summary is counted by queries of its own.  Users see *)
(* the part that their role and scope allow; the daily digest is written   *)
(* for the whole company.                                                  *)
(*                                                                         *)
(* An alert is urgent by its level and its date; names tell only which of  *)
(* two equally urgent ones comes first.                                    *)
(* Definitions marked "Mutant" are wrong on purpose and nothing uses them. *)
(***************************************************************************)
EXTENDS Integers, FiniteSets, FiniteSetsExt

CONSTANTS
    Slots,          \* kind and primary key of the rows there may be
    LastDay,        \* bound: days
    Windows,        \* expiry_days that an administrator may choose
    Limit,          \* ALERT_LIMIT
    Audiences,      \* users with their role and scope, and the company
    MaxEdits,       \* bound: rows and settings that change
    NoDate

VARIABLES
    today,
    row,            \* what a row says that makes an alert of it
    policy,         \* NotificationPolicy
    edits

vars == <<today, row, policy, edits>>

Days == 0 .. LastDay
AlertKinds == {"maintenance", "license", "fault", "inventory", "spare"}

\* A window is max(0, days); names and ranks stand for the columns that end in the
\* primary key, so no two rows of a table have one name, and no two rows one rank.
AlertConstants ==
    /\ LastDay \in Nat /\ Limit \in Nat /\ Windows \subseteq Nat
    /\ IsFiniteSet(Slots)
    /\ \A s \in Slots : s.kind \in AlertKinds /\ s.name \in Nat /\ s.rank \in Nat
    /\ \A s, t \in Slots : s # t => s.rank # t.rank /\ (s.kind = t.kind => s.name # t.name)

\* Expiry of a contract or a license, begin of an open fault, end of a running
\* count; for a part whether its stock is below its safety stock.
Contents(kind) ==
    CASE kind = "license" -> [over : BOOLEAN, date : Days \cup {NoDate}]
      [] kind = "spare" -> [over : BOOLEAN, date : {NoDate}]
      [] OTHER -> [over : {FALSE}, date : Days \cup {NoDate}]

Of(kind) == {s \in Slots : s.kind = kind}

-----------------------------------------------------------------------------
(* Who sees what                                                             *)

\* _authorized, scoped; licenses and parts have no place of their own.
Authorized(a) == {s \in Slots : s.kind \in {"license", "spare"} \/ s \in a.scope}

\* alerts_overview, and include_spares of build_alerts_payload
Included(a, kind) == kind \in a.may /\ (kind = "spare" => a.stock)

\* The switches of the settings; a license over its limit cannot be muted.
On(kind) == kind \in policy.on

Sees(a, s) == s \in Authorized(a) /\ Included(a, s.kind)

-----------------------------------------------------------------------------
(* The alerts of a table                                                     *)

Alert(s, state, level, key) == [slot |-> s, state |-> state, level |-> level, key |-> key]

\* _due_alert_state
Due(s) == IF row[s].date < today THEN Alert(s, "expired", 0, row[s].date)
                                 ELSE Alert(s, "expiring", 1, row[s].date)

Near(s, days) == row[s].date # NoDate /\ row[s].date <= today + days

\* _maintenance_alerts
MaintenanceAlerts(a) ==
    IF ~On("maintenance") THEN {}
    ELSE {Due(s) : s \in {s \in Of("maintenance") : Sees(a, s) /\ Near(s, policy.days.maintenance)}}

\* _license_alerts: two queries
OverLimit(a) == {Alert(s, "over_limit", 0, -1) : s \in {s \in Of("license") : Sees(a, s) /\ row[s].over}}
LicenseAlerts(a) ==
    IF ~On("license") THEN {}
    ELSE {Due(s) : s \in {s \in Of("license") : Sees(a, s) /\ Near(s, policy.days.license)}}

\* _fault_alerts
FaultAlerts(a) ==
    IF ~On("fault") THEN {}
    ELSE {Alert(s, "open", 0, row[s].date) : s \in {s \in Of("fault") : Sees(a, s) /\ row[s].date # NoDate}}

\* _inventory_alerts
InventoryAlerts(a) ==
    IF ~On("inventory") THEN {}
    ELSE {Alert(s, "overdue", 0, row[s].date) :
              s \in {s \in Of("inventory") : Sees(a, s) /\ row[s].date # NoDate /\ row[s].date < today}}

\* _spare_alerts
SpareAlerts(a) ==
    IF ~On("spare") THEN {}
    ELSE {Alert(s, "below_safety_stock", 1, s.name) : s \in {s \in Of("spare") : Sees(a, s) /\ row[s].over}}

-----------------------------------------------------------------------------
(* Cut, merged and cut again                                                 *)

\* Mutant: a table is read in the order of its names.
BeforeByName(x, y) == x.slot.name < y.slot.name

\* order_by: the date, then the name
Before(x, y) == x.key < y.key \/ (x.key = y.key /\ x.slot.name < y.slot.name)

Query(alerts) == {x \in alerts : Cardinality({y \in alerts : Before(y, x)}) < Limit}

\* _alert_sort_key
SortsBefore(x, y) ==
    \/ x.level < y.level
    \/ x.level = y.level /\ x.key < y.key
    \/ x.level = y.level /\ x.key = y.key /\ x.slot.rank < y.slot.rank

\* build_alerts_payload
Shown(a) ==
    LET all == Query(MaintenanceAlerts(a)) \cup Query(OverLimit(a)) \cup Query(LicenseAlerts(a))
               \cup Query(FaultAlerts(a)) \cup Query(InventoryAlerts(a)) \cup Query(SpareAlerts(a))
    IN {x \in all : Cardinality({y \in all : SortsBefore(y, x)}) < Limit}

\* _alert_counts
Count(a, kind, some) == Cardinality({s \in Of(kind) \cap some : Sees(a, s)})
Switched(kind, n) == IF On(kind) THEN n ELSE 0
Dated == {s \in Slots : row[s].date # NoDate}
Past == {s \in Dated : row[s].date < today}
Ahead(days) == {s \in Dated : row[s].date >= today /\ row[s].date <= today + days}
Flagged == {s \in Slots : row[s].over}

Critical(a) ==
    Switched("maintenance", Count(a, "maintenance", Past)) + Count(a, "license", Flagged)
    + Switched("license", Count(a, "license", Past)) + Switched("fault", Count(a, "fault", Dated))
    + Switched("inventory", Count(a, "inventory", Past))

Warning(a) ==
    Switched("maintenance", Count(a, "maintenance", Ahead(policy.days.maintenance)))
    + Switched("license", Count(a, "license", Ahead(policy.days.license)))
    + Switched("spare", Count(a, "spare", Flagged))

Total(a) == Critical(a) + Warning(a)

\* digest_content: "First 100 items shown".
Truncated(a) == Total(a) > Cardinality(Shown(a))

-----------------------------------------------------------------------------
Init ==
    /\ today = 0 /\ edits = 0
    /\ row = [s \in Slots |-> [over |-> FALSE, date |-> NoDate]]
    /\ policy = [on |-> AlertKinds, days |-> [maintenance |-> 1, license |-> 1]]

\* Somebody writes a row that the alerts are read from.
EditRow ==
    /\ edits < MaxEdits /\ edits' = edits + 1
    /\ \E s \in Slots : \E c \in Contents(s.kind) \ {row[s]} : row' = [row EXCEPT ![s] = c]
    /\ UNCHANGED <<today, policy>>

\* The switches and the windows of the settings.
EditPolicy ==
    /\ edits < MaxEdits /\ edits' = edits + 1
    /\ \/ \E k \in AlertKinds : policy' = [policy EXCEPT !.on = (@ \ {k}) \cup ({k} \ @)]
       \/ \E k \in {"maintenance", "license"}, n \in Windows : policy' = [policy EXCEPT !.days[k] = n]
    /\ UNCHANGED <<today, row>>

NextDay == today < LastDay /\ today' = today + 1 /\ UNCHANGED <<row, policy, edits>>

Next == EditRow \/ EditPolicy \/ NextDay

Spec == Init /\ [][Next]_vars

-----------------------------------------------------------------------------
(* Properties *)

\* What is due to an audience, whatever the limit.
AllDue(a) ==
    MaintenanceAlerts(a) \cup OverLimit(a) \cup LicenseAlerts(a)
    \cup FaultAlerts(a) \cup InventoryAlerts(a) \cup SpareAlerts(a)

\* However the queries are cut, no reminder that is left out is more urgent than
\* one that is shown, as many are shown as the limit allows, and the summary, the
\* badge and the note of the digest count all of them, and only what the audience
\* may see.
AlertsAreTrue ==
    \A a \in Audiences :
        LET shown == Shown(a)  all == AllDue(a) IN
        /\ shown \subseteq all /\ Cardinality(shown) = Min({Limit, Cardinality(all)})
        /\ \A x \in shown, y \in all \ shown :
            \/ x.level < y.level
            \/ x.level = y.level /\ (x.key <= y.key \/ "spare" \in {x.slot.kind, y.slot.kind})
        /\ Critical(a) = Cardinality({x \in all : x.level = 0})
        /\ Warning(a) = Cardinality({x \in all : x.level = 1})
        /\ Truncated(a) <=> all \ shown # {}
=============================================================================
