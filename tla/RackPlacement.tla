---------------------------- MODULE RackPlacement -----------------------------
(***************************************************************************)
(* Where assets are: assets/physical_location.py with the U holds of       *)
(* assets/rack_reservations.py, and the retirement of assets/lifecycle.py. *)
(*                                                                         *)
(* Every request is one transaction.  It reads the ancestry of its rows    *)
(* without locks, locks the graph it saw, ends its locking with a query    *)
(* that joins the rows' present parents FOR UPDATE, checks, and commits.   *)
(* Definitions marked "Mutant" are wrong on purpose and nothing uses them. *)
(***************************************************************************)
EXTENDS RowLocks, RackUnits

CONSTANTS
    Centers, Rooms, Racks, Assets,  \* primary keys
    HomeCenter, HomeRoom,           \* first parents of rooms and racks
    HomeSize,                       \* first total_u of the racks
    Requests,                       \* what users ask for
    MaxRequests                     \* bound: requests that start

NoCenter == 0           \* asset_data_center is null
KeepCenter == -1        \* an unracked asset keeps its center
Unmounted == [rack |-> 0, lo |-> 0, hi |-> 0]

ASSUME RackKeys ==
    /\ Centers \subseteq Nat \ {0} /\ Rooms \subseteq Nat \ {0}
    /\ Racks \subseteq Nat \ {0} /\ Assets \subseteq Nat \ {0}
    /\ HomeCenter \in [Rooms -> Centers] /\ HomeRoom \in [Racks -> Rooms]
    /\ HomeSize \in Nat \ {0} /\ MaxRequests \in Nat

\* A place request may name the hold it consumes; a patch of a rack or room
\* gives all its fields; a removal says what becomes of asset_data_center.
AllRequests ==
    [kind : {"place"}, asset : Assets, rack : Racks, lo : Int, hi : Int, consume : BOOLEAN]
      \cup [kind : {"remove"}, asset : Assets, to : Centers \cup {NoCenter, KeepCenter}]
      \cup [kind : {"retire"}, asset : Assets]
      \cup [kind : {"rack"}, rack : Racks, room : Rooms, size : Nat \ {0}, use : BOOLEAN]
      \cup [kind : {"room"}, room : Rooms, center : Centers, use : BOOLEAN]
      \cup [kind : {"center"}, center : Centers, use : BOOLEAN]
      \cup [kind : {"reserve", "release"}, rack : Racks, lo : Int, hi : Int]

ASSUME RequestsAssumption == Requests \subseteq AllRequests

VARIABLES
    center,         \* ServerRoom.data_center
    room,           \* Rack.room
    size,           \* Rack.total_u
    inUse,          \* centers, rooms and racks that are active, by their locks
    alloc,          \* RackUnitAllocation of each asset, or Unmounted
    located,        \* Asset.asset_data_center
    retired,        \* assets whose status is retired
    holds,          \* active U reservations
    job, pc,        \* what each worker is doing and how far it is
    seen,           \* the center each worker read for its asset
    requests        \* requests started

facilities == <<center, room, size, inUse>>
placement == <<alloc, located, retired, holds>>
vars == <<facilities, placement, job, pc, seen, requests, locks>>

Idle == [kind |-> "none"]

CenterLock(c) == <<1, c>>
RoomLock(r) == <<2, r>>
RackLock(k) == <<3, k>>
AllocLock(a) == <<4, a>>
AssetLock(a) == <<5, a>>

Facilities ==
    {CenterLock(c) : c \in Centers} \cup {RoomLock(r) : r \in Rooms} \cup {RackLock(k) : k \in Racks}

Mounted(a) == alloc[a] # Unmounted
On(k) == {a \in Assets : alloc[a].rack = k}
In(r) == {k \in Racks : room[k] = r}
CenterOf(k) == center[room[k]]
Held(k) == {h \in holds : h.rack = k}

-----------------------------------------------------------------------------
(* Locking                                                                   *)

Advance(w, stage, needed) == pc' = [pc EXCEPT ![w] = stage] /\ Ask(w, needed)

At(w, kinds, stage) == job[w].kind \in kinds /\ pc[w] = stage /\ Ready(w)

End(w) ==
    /\ pc' = [pc EXCEPT ![w] = "idle"]
    /\ job' = [job EXCEPT ![w] = Idle]
    /\ seen' = [seen EXCEPT ![w] = NoCenter]
    /\ Drop(w)

Acquire(w) ==
    /\ Take(w)
    /\ UNCHANGED <<facilities, placement, job, pc, seen, requests>>

\* A refusal, a deadlock victim, a lost connection, a crash.
Abort(w) ==
    /\ pc[w] # "idle"
    /\ End(w)
    /\ UNCHANGED <<facilities, placement, requests>>

\* _rack_location_ids
Ancestry(racks) ==
    UNION {{RackLock(k), RoomLock(room[k]), CenterLock(CenterOf(k))} : k \in racks}

CurrentRack(a) == {k \in Racks : a \in On(k)}
KnownCenters(ids) == {CenterLock(c) : c \in ids \cap Centers}

\* What a request locks first, as it reads the graph without locks.
Graph(q) ==
    CASE q.kind = "place" ->
           Ancestry(CurrentRack(q.asset) \cup {q.rack}) \cup KnownCenters({located[q.asset]})
      [] q.kind = "remove" ->
           Ancestry(CurrentRack(q.asset)) \cup KnownCenters({located[q.asset], q.to})
      [] q.kind = "retire" -> Ancestry(CurrentRack(q.asset)) \cup KnownCenters({located[q.asset]})
      [] q.kind = "rack" ->
           Ancestry({q.rack}) \cup {RoomLock(q.room), CenterLock(center[q.room])}
      [] q.kind = "room" ->
           {CenterLock(center[q.room]), CenterLock(q.center), RoomLock(q.room)}
             \cup {RackLock(k) : k \in In(q.room)}
      [] q.kind = "center" -> {CenterLock(q.center)}
      [] q.kind \in {"reserve", "release"} -> Ancestry({q.rack})

Start(w) ==
    \E q \in Requests :
        /\ pc[w] = "idle" /\ requests < MaxRequests
        /\ requests' = requests + 1
        /\ job' = [job EXCEPT ![w] = q]
        /\ Advance(w, "graph", Graph(q))
        /\ UNCHANGED <<facilities, placement, seen>>

OnLockedRacks(w) == UNION {On(k) : k \in {j \in Racks : RackLock(j) \in held[w]}}

AssetLocks(assets) == {AllocLock(a) : a \in assets} \cup {AssetLock(a) : a \in assets}

\* The allocations on the locked racks, their assets, and the asset asked for.
LockAssets(w) ==
    /\ At(w, {"place", "remove", "retire", "rack", "room", "reserve", "release"}, "graph")
    /\ Advance(w, "assets", AssetLocks(OnLockedRacks(w)) \cup
           IF job[w].kind \in {"place", "remove", "retire"} THEN {AssetLock(job[w].asset)} ELSE {})
    /\ UNCHANGED <<facilities, placement, job, seen, requests>>

\* select_for_update().select_related("room__data_center"): the room the rack
\* is in now, then its center now.  A patch also loads its new room like this.
JoinRoom(w) ==
    /\ At(w, {"place", "rack", "reserve", "release"}, "assets")
    /\ Advance(w, "room", {RoomLock(room[job[w].rack])})
    /\ UNCHANGED <<facilities, placement, job, seen, requests>>

JoinCenter(w) ==
    /\ \/ At(w, {"place", "rack", "reserve", "release"}, "room")
       \/ At(w, {"room"}, "assets")
    /\ Advance(w, "center",
           IF job[w].kind = "room" THEN {CenterLock(center[job[w].room])}
           ELSE {CenterLock(CenterOf(job[w].rack))} \cup
                IF job[w].kind = "rack" THEN {CenterLock(center[job[w].room])} ELSE {})
    /\ UNCHANGED <<facilities, placement, job, seen, requests>>

-----------------------------------------------------------------------------
(* Assets                                                                    *)

Usable(k) == {RackLock(k), RoomLock(room[k]), CenterLock(CenterOf(k))} \subseteq inUse

\* Spans in a rack: devices, all but asset a, and active holds.
Rows(k, a) == {alloc[b] : b \in On(k) \ {a}} \cup Held(k)

Wanted(q) == [rack |-> q.rack, lo |-> q.lo, hi |-> q.hi]

\* Mutant: a part of a hold is enough.
ConsumedByPart(q) ==
    IF q.consume THEN {h \in holds : h.rack = q.rack /\ Overlap(h, q)} ELSE {}

\* consume_units takes the whole hold, so it no longer counts below.
Consumed(q) == IF q.consume THEN {Wanted(q)} ELSE {}

\* Mutant: a retired asset is placed like any other.
PlaceableRetired(q) ==
    /\ Usable(q.rack)
    /\ q.lo <= q.hi
    /\ Consumed(q) \subseteq holds
    /\ Units(q) \subseteq FreeUnits(Rows(q.rack, q.asset) \ Consumed(q), size[q.rack])

\* The checks of place_asset once everything is locked.
Placeable(q) ==
    /\ q.asset \notin retired
    /\ Usable(q.rack)
    /\ q.lo <= q.hi
    /\ Consumed(q) \subseteq holds
    /\ Units(q) \subseteq FreeUnits(Rows(q.rack, q.asset) \ Consumed(q), size[q.rack])

\* Mutant: the center of the rack is read before the joining query.
CheckPlaceEarly(w) ==
    /\ At(w, {"place"}, "assets") /\ Placeable(job[w])
    /\ seen' = [seen EXCEPT ![w] = CenterOf(job[w].rack)]
    /\ Advance(w, "commit", {})
    /\ UNCHANGED <<facilities, placement, job, requests>>

CheckPlace(w) ==
    /\ At(w, {"place"}, "center") /\ Placeable(job[w])
    /\ seen' = [seen EXCEPT ![w] = CenterOf(job[w].rack)]
    /\ Advance(w, "commit", {})
    /\ UNCHANGED <<facilities, placement, job, requests>>

\* The allocation, the copy of the center, and the hold that is used up.
CommitPlace(w) ==
    /\ At(w, {"place"}, "commit")
    /\ alloc' = [alloc EXCEPT ![job[w].asset] = Wanted(job[w])]
    /\ located' = [located EXCEPT ![job[w].asset] = seen[w]]
    /\ holds' = holds \ Consumed(job[w])
    /\ End(w)
    /\ UNCHANGED <<facilities, retired, requests>>

\* unrack_asset, clear_asset_placement and set_direct_asset_placement
CommitRemove(w) ==
    /\ At(w, {"remove"}, "assets")
    /\ job[w].to \in Centers => CenterLock(job[w].to) \in inUse
    /\ alloc' = [alloc EXCEPT ![job[w].asset] = Unmounted]
    /\ located' = IF job[w].to = KeepCenter THEN located
                  ELSE [located EXCEPT ![job[w].asset] = job[w].to]
    /\ End(w)
    /\ UNCHANGED <<facilities, retired, holds, requests>>

CommitRetire(w) ==
    /\ At(w, {"retire"}, "assets")
    /\ ~Mounted(job[w].asset)
    /\ retired' = retired \cup {job[w].asset}
    /\ End(w)
    /\ UNCHANGED <<facilities, alloc, located, holds, requests>>

-----------------------------------------------------------------------------
(* Facilities                                                                *)

SetUse(lock, use) == inUse' = IF use THEN inUse \cup {lock} ELSE inUse \ {lock}

Highest(k) == {x.hi : x \in {alloc[a] : a \in On(k)} \cup Held(k)}

\* Mutant: the capacity is compared with the devices, not with the holds.
ShrinkableOverHolds(q) == \A u \in {alloc[a].hi : a \in On(q.rack)} : u <= q.size

\* RackSerializer.validate
Shrinkable(q) == \A u \in Highest(q.rack) : u <= q.size

RackAllowed(q) ==
    /\ Shrinkable(q)
    /\ q.room # room[q.rack] => {RoomLock(q.room), CenterLock(center[q.room])} \subseteq inUse

CheckRack(w) ==
    /\ At(w, {"rack"}, "center") /\ RackAllowed(job[w])
    /\ seen' = [seen EXCEPT ![w] = center[job[w].room]]
    /\ Advance(w, "commit", {})
    /\ UNCHANGED <<facilities, placement, job, requests>>

\* _synchronize_asset_location_hierarchy_locked
Relocate(assets, c) == located' = [a \in Assets |-> IF a \in assets THEN c ELSE located[a]]

CommitRack(w) ==
    /\ At(w, {"rack"}, "commit")
    /\ LET q == job[w] IN
       /\ Relocate(IF q.room # room[q.rack] THEN On(q.rack) ELSE {}, seen[w])
       /\ room' = [room EXCEPT ![q.rack] = q.room]
       /\ size' = [size EXCEPT ![q.rack] = q.size]
       /\ SetUse(RackLock(q.rack), q.use)
    /\ End(w)
    /\ UNCHANGED <<center, alloc, retired, holds, requests>>

AssetsIn(r) == UNION {On(k) : k \in In(r)}

\* The room is saved; the assets on its racks, as they are now, are locked too.
CheckRoom(w) ==
    /\ At(w, {"room"}, "center")
    /\ job[w].center # center[job[w].room] => CenterLock(job[w].center) \in inUse
    /\ Advance(w, "commit", {AssetLock(a) : a \in AssetsIn(job[w].room)})
    /\ UNCHANGED <<facilities, placement, job, seen, requests>>

\* Mutant: the assets that were locked at first are synchronized, not those of
\* the racks that are in the room by now.
CommitRoomLocked(w) ==
    /\ At(w, {"room"}, "commit")
    /\ LET q == job[w] IN
       /\ Relocate(OnLockedRacks(w), q.center)
       /\ center' = [center EXCEPT ![q.room] = q.center]
       /\ SetUse(RoomLock(q.room), q.use)
    /\ End(w)
    /\ UNCHANGED <<room, size, alloc, retired, holds, requests>>

CommitRoom(w) ==
    /\ At(w, {"room"}, "commit")
    /\ LET q == job[w] IN
       /\ Relocate(IF q.center # center[q.room] THEN AssetsIn(q.room) ELSE {}, q.center)
       /\ center' = [center EXCEPT ![q.room] = q.center]
       /\ SetUse(RoomLock(q.room), q.use)
    /\ End(w)
    /\ UNCHANGED <<room, size, alloc, retired, holds, requests>>

CommitCenter(w) ==
    /\ At(w, {"center"}, "graph")
    /\ SetUse(CenterLock(job[w].center), job[w].use)
    /\ End(w)
    /\ UNCHANGED <<center, room, size, placement, requests>>

-----------------------------------------------------------------------------
(* Holds                                                                     *)

\* lock_rack_capacity, the checks of reserve_units and its insert
Reserve(w) ==
    /\ At(w, {"reserve"}, "center")
    /\ LET q == job[w] IN
       /\ Usable(q.rack) /\ q.lo <= q.hi
       /\ Units(q) \subseteq FreeUnits(Rows(q.rack, 0), size[q.rack])
       /\ holds' = holds \cup {Wanted(q)}
    /\ End(w)
    /\ UNCHANGED <<facilities, alloc, located, retired, requests>>

Release(w) ==
    /\ At(w, {"release"}, "center") /\ Wanted(job[w]) \in holds
    /\ holds' = holds \ {Wanted(job[w])}
    /\ End(w)
    /\ UNCHANGED <<facilities, alloc, located, retired, requests>>

-----------------------------------------------------------------------------
Init ==
    /\ center = HomeCenter /\ room = HomeRoom /\ size = [k \in Racks |-> HomeSize]
    /\ inUse = Facilities
    /\ alloc = [a \in Assets |-> Unmounted] /\ located = [a \in Assets |-> NoCenter]
    /\ retired = {} /\ holds = {}
    /\ job = [w \in Workers |-> Idle] /\ pc = [w \in Workers |-> "idle"]
    /\ seen = [w \in Workers |-> NoCenter]
    /\ requests = 0
    /\ NoLocks

Step(w) ==
    \/ Start(w) \/ Acquire(w) \/ LockAssets(w) \/ JoinRoom(w) \/ JoinCenter(w)
    \/ CheckPlace(w) \/ CommitPlace(w) \/ CommitRemove(w) \/ CommitRetire(w)
    \/ CheckRack(w) \/ CommitRack(w) \/ CheckRoom(w) \/ CommitRoom(w) \/ CommitCenter(w)
    \/ Reserve(w) \/ Release(w) \/ Abort(w)

Next == \E w \in Workers : Step(w)

Spec == Init /\ [][Next]_vars

-----------------------------------------------------------------------------
(* Properties *)

TypeOK ==
    /\ center \in [Rooms -> Centers] /\ room \in [Racks -> Rooms]
    /\ size \in [Racks -> Nat \ {0}]
    /\ inUse \subseteq Facilities
    /\ alloc \in [Assets -> [rack : Racks \cup {0}, lo : Int, hi : Int]]
    /\ located \in [Assets -> Centers \cup {NoCenter}]
    /\ retired \subseteq Assets
    /\ holds \subseteq [rack : Racks, lo : Int, hi : Int]
    /\ job \in [Workers -> Requests \cup {Idle}]
    /\ pc \in [Workers -> {"idle", "graph", "assets", "room", "center", "commit"}]
    /\ seen \in [Workers -> Centers \cup {NoCenter}]
    /\ requests \in 0 .. MaxRequests
    /\ DOMAIN want = Workers /\ DOMAIN held = Workers

\* The copy of the center on a mounted asset is the center of its rack, whatever
\* racks and rooms moved while it was mounted.
LocatedByRack ==
    \A a \in Assets : Mounted(a) => located[a] = CenterOf(alloc[a].rack)

\* Devices and holds of a rack share no U and lie within its capacity, whatever
\* is mounted, reserved or shrunk at the same time; and a retired asset takes no
\* U: a placement and a retirement that both checked first do not both go through.
UnitsAreExclusive ==
    /\ TypeOK
    /\ \A a \in retired : ~Mounted(a)
    /\ \A k \in Racks :
        /\ Covered({alloc[a] : a \in On(k)} \cup Held(k)) \subseteq 1 .. size[k]
        /\ \A a, b \in On(k) : a # b => ~Overlap(alloc[a], alloc[b])
        /\ \A a \in On(k), h \in Held(k) : ~Overlap(alloc[a], h)
        /\ \A g, h \in Held(k) : g # h => ~Overlap(g, h)

\* Who is in a rack has its U for itself and is where the rack is.
PlacementIsSound == UnitsAreExclusive /\ LocatedByRack

\* A device is mounted only where rack, room and center are in use by then.
MountedInUse ==
    \A a \in Assets : alloc'[a] \notin {alloc[a], Unmounted} => Usable(alloc'[a].rack)

\* A hold ends by a release, or by the device that takes exactly its span.
HoldHonoured ==
    \A h \in holds \ holds' : alloc' = alloc \/ \E a \in Assets : alloc'[a] = h

\* What was checked before the locks of a mount still holds when it commits: no
\* device moves into a facility closed meanwhile, none takes the U of a hold by
\* halves, and no hold is lost to a mount that had no right to it.
MovesAreAllowed == [][MountedInUse /\ HoldHonoured]_vars

-----------------------------------------------------------------------------
(* The abstract map of racks                                                 *)

\* Devices and holds whose span has U u of rack k.
OwnersOf(k, u) ==
    {<<"device", a, a>> : a \in {b \in On(k) : u \in Units(alloc[b])}}
      \cup {<<"hold", h.lo, h.hi>> : h \in {g \in Held(k) : u \in Units(g)}}

OwnerOf(k, u) ==
    LET owners == OwnersOf(k, u) IN
    IF owners = {} THEN <<"nobody", 0, 0>> ELSE CHOOSE x \in owners : TRUE

Row(k) == [u \in 1..size[k] |-> OwnerOf(k, u)]

Map == INSTANCE RackMap WITH
    Sizes <- {q.size : q \in {p \in Requests : p.kind = "rack"}},
    units <- [k \in Racks |-> Row(k)],
    site <- [k \in Racks |-> CenterOf(k)],
    open <- {k \in Racks : Usable(k)},
    found <- located

\* Transactions on spans implement the map: each commit is one step of it.
MapSpec == Map!Spec
=============================================================================
