----------------------------- MODULE StockMoves ------------------------------
(***************************************************************************)
(* Places, movements and usages of spare parts: the vocabulary that        *)
(* StockBook and StockLedger share.                                        *)
(***************************************************************************)
EXTENDS Integers

CONSTANTS
    Parts, Centers, Rooms,  \* primary keys
    Keys,                   \* idempotency keys: one for each intent of a user
    Movements               \* the movements users ask for

NoRoom == 0                     \* normalized_server_room_id of a center's own stock
NoPlace == <<0, 0>>             \* a movement from or to nowhere
Places == Centers \X (Rooms \cup {NoRoom})

\* An inbound movement has no source, an outbound one no target; an adjustment
\* has a target only and may be negative; a usage consumes for the repair.
AllMovements ==
    [kind : {"movement", "usage"}, part : Parts,
     source : Places \cup {NoPlace}, target : Places \cup {NoPlace}, amount : Int]

ASSUME PrimaryKeys == Parts \subseteq Nat /\ Centers \subseteq Nat \ {0} /\ Rooms \subseteq Nat \ {0}

\* validate_stock_movement, validate_repair_usage and the refusal of a transfer
\* from a place to itself.
ASSUME MovementsAssumption ==
    /\ Movements \subseteq AllMovements
    /\ \A m \in Movements :
        /\ m.source # m.target
        /\ m.source # NoPlace => m.amount > 0
        /\ m.kind = "usage" => m.target = NoPlace

\* What a movement adds to a place.
Delta(m, l) == (IF l = m.target THEN m.amount ELSE 0) - (IF l = m.source THEN m.amount ELSE 0)

Touched(m) == {m.source, m.target} \ {NoPlace}
=============================================================================
