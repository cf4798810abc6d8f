----------------------------- MODULE RackPlanning -----------------------------
(***************************************************************************)
(* plan_rack_capacity of assets/rack_planning.py: where to put a batch of  *)
(* devices of one height.  The plan is followed, one single-asset write    *)
(* after another, and compared with a user who places freely.              *)
(* Definitions marked "Mutant" are wrong on purpose and nothing uses them. *)
(***************************************************************************)
EXTENDS RackUnits, Sequences, FiniteSets

CONSTANTS MaxTotal, MaxHeight, MaxQuantity      \* bounds of the inputs

VARIABLES
    total, height, quantity,    \* the inputs
    start,                      \* spans in the rack when the plan is made
    followed,                   \* the plan is followed, or ignored
    rows                        \* spans in the rack now

inputs == <<total, height, quantity, start, followed>>
vars == <<inputs, rows>>

-----------------------------------------------------------------------------
Length(range) == range.hi - range.lo + 1

\* available_ranges: the runs of free U.
AvailableRanges(taken, n) ==
    LET free == FreeUnits(taken, n)
        from == {u \in free : u - 1 \notin free}
        to == {u \in free : u + 1 \notin free}
    IN {x \in {[lo |-> a, hi |-> b] : a \in from, b \in to} :
          x.lo <= x.hi /\ Units(x) \subseteq free}

Bounded(range, n) == range.lo > 1 /\ range.hi < n

\* Mutant: a range at the end of the rack counts as bounded.
CapacityMean(range, n, h) ==
    IF h = 1 /\ (range.lo > 1 \/ range.hi < n)
    THEN Length(range) - 1 ELSE Length(range) \div h

Capacity(range, n, h) ==
    IF h = 1 /\ Bounded(range, n) THEN Length(range) - 1 ELSE Length(range) \div h

\* Mutant: always from the lowest U.
PackUpwards(range, n, h, i) == Span(range.lo + (i - 1) * h, h)

\* The i-th device of a range, from the end that has a neighbour.
Pack(range, n, h, i) ==
    IF range.lo = 1 /\ range.hi < n THEN Span(range.hi - i * h + 1, h)
    ELSE Span(range.lo + (i - 1) * h, h)

\* The devices that the ranges have room for: the i-th of a range.
Places(taken, n, h) ==
    UNION {{<<x, i>> : i \in 1 .. Capacity(x, n, h)} : x \in AvailableRanges(taken, n)}

\* The capacities of all ranges together.
MaximumOf(taken, n, h) == Cardinality(Places(taken, n, h))

\* The loop takes the ranges in ascending order; how many devices come before s.
Earlier(s, t) == s[1].lo < t[1].lo \/ (s[1] = t[1] /\ s[2] < t[2])
Rank(s, places) == Cardinality({t \in places : Earlier(t, s)})

\* The spans of the first q of them.
Plan(taken, n, h, q) ==
    LET places == Places(taken, n, h)
        chosen == {s \in places : Rank(s, places) < q}
        next(k) == CHOOSE s \in chosen : Rank(s, places) = k - 1
    IN [k \in 1 .. Cardinality(chosen) |-> Pack(next(k)[1], n, h, next(k)[2])]

-----------------------------------------------------------------------------
\* Every rack of n U: each U is empty, the first of a device, or one more of it.
Devices(n) ==
    LET labels == {f \in [1 .. n -> {"empty", "first", "more"}] :
                     \A u \in 1 .. n : f[u] = "more" => u > 1 /\ f[u - 1] # "empty"}
        device(f, x) == /\ x.lo <= x.hi /\ f[x.lo] = "first"
                        /\ \A u \in x.lo + 1 .. x.hi : f[u] = "more"
                        /\ x.hi < n => f[x.hi + 1] # "more"
    IN {{x \in {[lo |-> a, hi |-> b] : a, b \in 1 .. n} : device(f, x)} : f \in labels}

ThePlan == Plan(start, total, height, quantity)
Placed == Cardinality(rows) - Cardinality(start)

Init ==
    /\ total \in 1 .. MaxTotal /\ height \in 1 .. MaxHeight /\ quantity \in 1 .. MaxQuantity
    /\ start \in Devices(total)
    /\ followed \in BOOLEAN
    /\ rows = start

PlacePlanned ==
    /\ followed /\ Placed < Len(ThePlan)
    /\ Fits(ThePlan[Placed + 1], rows, total)
    /\ rows' = rows \cup {ThePlan[Placed + 1]}
    /\ UNCHANGED inputs

PlaceFreely ==
    /\ ~followed
    /\ \E lo \in 1 .. total :
        /\ Fits(Span(lo, height), rows, total)
        /\ rows' = rows \cup {Span(lo, height)}
    /\ UNCHANGED inputs

Next == PlacePlanned \/ PlaceFreely

Spec == Init /\ [][Next]_vars

-----------------------------------------------------------------------------
(* Properties *)

\* Each device of the plan is a legal single-asset write when its turn comes:
\* no device of the plan turns the place of a later one into a gap.
PlanIsExecutable ==
    followed /\ Placed < Len(ThePlan) => Fits(ThePlan[Placed + 1], rows, total)

\* The reported capacity is the largest number of such devices that any order
\* of legal writes gets into the rack, and the plan holds as many as were asked
\* for and can be.
CapacityIsMaximal ==
    LET most == MaximumOf(start, total, height) IN
    /\ Placed <= most
    /\ Len(ThePlan) = IF most <= quantity THEN most ELSE quantity

\* The plan can be carried out as it stands, and no plan does better.
PlanIsBest == PlanIsExecutable /\ CapacityIsMaximal
=============================================================================
