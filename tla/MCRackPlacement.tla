--------------------------- MODULE MCRackPlacement ----------------------------
(* Small instances of rack placement: two centers with a room each.           *)
EXTENDS RackPlacement, TLC

HomeCenters == 11 :> 1 @@ 12 :> 2
HomeRooms == 21 :> 11

Place(a, lo, hi, consume) ==
    [kind |-> "place", asset |-> a, rack |-> 21, lo |-> lo, hi |-> hi, consume |-> consume]
PatchRack(r, n, use) == [kind |-> "rack", rack |-> 21, room |-> r, size |-> n, use |-> use]
PatchRoom(r, c, use) == [kind |-> "room", room |-> r, center |-> c, use |-> use]
Hold(kind, lo, hi) == [kind |-> kind, rack |-> 21, lo |-> lo, hi |-> hi]
Remove(a, to) == [kind |-> "remove", asset |-> a, to |-> to]

\* Mounting, while the rack changes room and the room changes center.
MoveRequests ==
    {Place(31, 1, 1, FALSE), Remove(31, KeepCenter),
     PatchRack(11, 3, TRUE), PatchRack(12, 3, TRUE), PatchRoom(12, 1, TRUE), PatchRoom(12, 2, FALSE),
     [kind |-> "center", center |-> 2, use |-> FALSE]}

\* Two devices, a hold of two U, a rack that shrinks, a device that is retired.
UnitRequests ==
    {Place(31, 3, 4, FALSE), Place(31, 1, 2, TRUE),
     Place(32, 2, 2, FALSE), Place(32, 2, 2, TRUE), Remove(31, 2),
     PatchRack(11, 3, TRUE), Hold("reserve", 1, 2), Hold("reserve", 3, 4), Hold("release", 1, 2),
     [kind |-> "retire", asset |-> 31]}

RackRequests == MoveRequests \cup UnitRequests

Symmetry == Permutations(Workers)
=============================================================================
