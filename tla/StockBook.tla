------------------------------ MODULE StockBook ------------------------------
(***************************************************************************)
(* What stock keeping promises, without locks, transactions or retries:    *)
(* each intent is applied at one instant and at most once, and the book is *)
(* sound after every step.                                                 *)
(***************************************************************************)
EXTENDS StockMoves

VARIABLES
    balance,        \* quantity by part and place
    receipts,       \* intents that were applied
    centersOn, roomsOn, parent,     \* open centers, open rooms, center of each room
    finished,       \* the repair takes no more parts
    wish            \* the movement of each intent

vars == <<balance, receipts, centersOn, roomsOn, parent, finished, wish>>

OnHand(p, l) == IF <<p, l>> \in DOMAIN balance THEN balance[<<p, l>>] ELSE 0

\* No balance is negative, and stock lies in open places that still exist as
\* they are recorded.
Sound ==
    \A x \in DOMAIN balance :
        /\ balance[x] >= 0
        /\ balance[x] > 0 =>
             x[2][1] \in centersOn /\ (x[2][2] # NoRoom => x[2][2] \in roomsOn)
        /\ x[2][2] # NoRoom => parent[x[2][2]] = x[2][1]

Init ==
    /\ balance = <<>>
    /\ receipts = {}
    /\ centersOn = Centers /\ roomsOn = Rooms
    /\ parent \in [Rooms -> Centers]
    /\ finished = FALSE
    /\ wish \in [Keys -> Movements]

Apply(k) ==
    /\ k \notin receipts
    /\ wish[k].kind = "usage" => ~finished
    /\ receipts' = receipts \cup {k}
    /\ LET rows == {<<wish[k].part, l>> : l \in Touched(wish[k])} IN
       balance' = [x \in DOMAIN balance \cup rows |->
                     OnHand(x[1], x[2]) + IF x \in rows THEN Delta(wish[k], x[2]) ELSE 0]
    /\ UNCHANGED <<centersOn, roomsOn, parent, finished, wish>>

\* Facilities are opened, closed and moved; the balances stay.
Rearrange ==
    /\ centersOn' \subseteq Centers /\ roomsOn' \subseteq Rooms
    /\ parent' \in [Rooms -> Centers]
    /\ UNCHANGED <<balance, receipts, finished, wish>>

Finish ==
    /\ finished' = TRUE
    /\ UNCHANGED <<balance, receipts, centersOn, roomsOn, parent, wish>>

Next == (Rearrange \/ Finish \/ \E k \in Keys : Apply(k)) /\ Sound'

Spec == Init /\ [][Next]_vars
=============================================================================
