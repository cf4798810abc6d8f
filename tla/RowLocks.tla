------------------------------- MODULE RowLocks -------------------------------
(***************************************************************************)
(* Row locks of concurrent transactions: SELECT ... FOR UPDATE, held until *)
(* the transaction ends.  A lock is a pair <<table, key>>.                 *)
(***************************************************************************)
EXTENDS Integers

CONSTANT Workers        \* server processes, each with one transaction at a time

VARIABLES
    want,           \* locks that each worker has yet to take in this stage
    held            \* locks it holds

locks == <<want, held>>

NoLocks ==
    /\ want = [w \in Workers |-> {}]
    /\ held = [w \in Workers |-> {}]

\* The order of the code: table by table, rows of one table by key.
Before(x, y) == x[1] < y[1] \/ (x[1] = y[1] /\ x[2] < y[2])

Free(x, w) == \A v \in Workers \ {w} : x \notin held[v]

Ready(w) == want[w] = {}

\* w goes on to a stage that needs these locks; those it holds are not waited for.
Ask(w, needed) ==
    /\ want' = [want EXCEPT ![w] = needed \ held[w]]
    /\ UNCHANGED held

\* It takes the next of them, in order.
Take(w) ==
    \E x \in want[w] :
        /\ \A y \in want[w] \ {x} : Before(x, y)
        /\ Free(x, w)
        /\ held' = [held EXCEPT ![w] = @ \cup {x}]
        /\ want' = [want EXCEPT ![w] = @ \ {x}]

\* Commit or rollback.
Drop(w) ==
    /\ want' = [want EXCEPT ![w] = {}]
    /\ held' = [held EXCEPT ![w] = {}]

Claims(w) == held[w] \cup want[w]

Exclusive == \A v, w \in Workers : v # w => held[v] \cap held[w] = {}

\* w waits for a lock that v holds.
WaitsFor(w, v) ==
    \E x \in want[w] : x \in held[v] /\ \A y \in want[w] \ {x} : Before(x, y)

\* Every set of transactions has one that waits for none of the others.
NoRing ==
    \A ring \in (SUBSET Workers) \ {{}} : \E w \in ring : \A v \in ring \ {w} : ~WaitsFor(w, v)

\* What w still wants comes after everything it holds.
InOrder(w) == \A x \in held[w], y \in want[w] : Before(x, y)
=============================================================================
