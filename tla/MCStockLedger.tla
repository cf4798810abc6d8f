---------------------------- MODULE MCStockLedger ----------------------------
(* Small instances of the stock ledger: two centers, a room in the first.     *)
EXTENDS StockLedger, TLC

Home == 11 :> 1
InRoom == <<1, 11>>
InSecond == <<2, NoRoom>>

Move(kind, part, source, target, amount) ==
    [kind |-> kind, part |-> part, source |-> source, target |-> target, amount |-> amount]

Inbound == Move("movement", 1, NoPlace, InRoom, 2)
Outbound == Move("movement", 1, InRoom, NoPlace, 1)
Transfer == Move("movement", 1, InRoom, InSecond, 1)
TransferBack == Move("movement", 2, InSecond, InRoom, 1)
Adjustment == Move("movement", 1, NoPlace, InRoom, -1)
Usage == Move("usage", 1, InRoom, NoPlace, 2)

StockMoves == {Inbound, Outbound, Transfer, TransferBack, Adjustment, Usage}

Symmetry == Permutations(Workers)
=============================================================================
