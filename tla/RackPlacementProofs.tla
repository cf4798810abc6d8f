------------------------- MODULE RackPlacementProofs --------------------------
(***************************************************************************)
(* Proofs about rack placement, for any facilities, assets, requests and   *)
(* server processes.                                                       *)
(***************************************************************************)
EXTENDS RackPlacement, TLAPS

\* The rows a request names itself, which it locks with its graph.
Named(q) ==
    CASE q.kind \in {"place", "reserve", "release"} -> {RackLock(q.rack)}
      [] q.kind = "rack" -> {RackLock(q.rack), RoomLock(q.room)}
      [] q.kind = "room" -> {RoomLock(q.room)}
      [] q.kind = "center" -> {CenterLock(q.center)}
      [] q.kind \in {"remove", "retire"} -> {}

OnRack == {"place", "rack", "reserve", "release"}
OfAsset == {"place", "remove", "retire"}

\* What a transaction holds, or has yet to take, at each stage: the rows that it
\* names, its asset, and at last the parents that its rack has by then.
StageHolds(w) ==
    /\ pc[w] = "graph" => Named(job[w]) \subseteq Claims(w)
    /\ pc[w] \in {"assets", "room", "center", "commit"} => Named(job[w]) \subseteq held[w]
    /\ pc[w] = "assets" /\ job[w].kind \in OfAsset => AssetLock(job[w].asset) \in Claims(w)
    /\ pc[w] \in {"room", "center", "commit"} /\ job[w].kind \in OfAsset =>
         AssetLock(job[w].asset) \in held[w]
    /\ pc[w] = "room" /\ job[w].kind \in OnRack => RoomLock(room[job[w].rack]) \in Claims(w)
    /\ pc[w] = "center" /\ job[w].kind \in OnRack =>
         /\ RoomLock(room[job[w].rack]) \in held[w]
         /\ CenterLock(CenterOf(job[w].rack)) \in Claims(w)
    /\ pc[w] = "commit" /\ job[w].kind = "place" =>
         {RoomLock(room[job[w].rack]), CenterLock(CenterOf(job[w].rack))} \subseteq held[w]

\* What a transaction has checked and read stays true until it commits.
Settled(w) ==
    pc[w] = "commit" =>
        /\ job[w].kind = "place" => Placeable(job[w]) /\ seen[w] = CenterOf(job[w].rack)
        /\ job[w].kind = "rack" => Shrinkable(job[w]) /\ seen[w] = center[job[w].room]

\* A device or a hold has a U, and a rack unless it is unmounted.
Spans ==
    /\ \A a \in Assets : Mounted(a) => alloc[a].rack \in Racks /\ alloc[a].lo <= alloc[a].hi
    /\ \A h \in holds : h.lo <= h.hi

\* The part of UnitsAreExclusive about one rack, with bounds in place of sets.
RackSound(k) ==
    /\ \A a \in On(k) : 1 <= alloc[a].lo /\ alloc[a].hi <= size[k]
    /\ \A h \in Held(k) : 1 <= h.lo /\ h.hi <= size[k]
    /\ \A a, b \in On(k) : a # b => ~Overlap(alloc[a], alloc[b])
    /\ \A a \in On(k), h \in Held(k) : ~Overlap(alloc[a], h)
    /\ \A g, h \in Held(k) : g # h => ~Overlap(g, h)

\* What PlacementIsSound says of the tables.
Sound ==
    /\ Spans
    /\ \A a \in retired : ~Mounted(a)
    /\ \A k \in Racks : RackSound(k)
    /\ LocatedByRack

\* The strengthening of PlacementIsSound.
PlacementInv ==
    /\ TypeOK /\ Sound
    /\ Exclusive
    /\ \A w \in Workers : StageHolds(w) /\ Settled(w)

-----------------------------------------------------------------------------
(* Requests and units                                                        *)

\* What the fields of a request are.
LEMMA RequestFields ==
  ASSUME NEW q \in Requests
  PROVE  /\ q.kind \in {"place", "remove", "retire", "rack", "room", "center", "reserve", "release"}
         /\ q.kind \in OfAsset => q.asset \in Assets
         /\ q.kind \in OnRack => q.rack \in Racks
         /\ q.kind \in {"place", "reserve", "release"} => q.lo \in Int /\ q.hi \in Int
         /\ q.kind = "rack" => q.room \in Rooms /\ q.size \in Nat \ {0}
         /\ q.kind = "room" => q.room \in Rooms /\ q.center \in Centers
         /\ q.kind = "center" => q.center \in Centers
         /\ q.kind = "remove" => q.to \in Centers \cup {NoCenter, KeepCenter}
<1>1. q \in AllRequests BY RequestsAssumption
<1> QED BY <1>1 DEF AllRequests, OfAsset, OnRack

\* A worker that is at a stage of some kind of request has such a request.
LEMMA AtRequest ==
  ASSUME TypeOK, NEW w \in Workers, NEW kinds, NEW stage, At(w, kinds, stage), Idle.kind \notin kinds
  PROVE  job[w] \in Requests /\ job[w].kind \in kinds /\ pc[w] = stage /\ want[w] = {}
BY DEF TypeOK, At, Ready

\* Free units stay free when other spans go: a gap that appears lies where they were.
LEMMA FewerRows ==
  ASSUME NEW rows, NEW some \in SUBSET rows, NEW total
  PROVE  FreeUnits(rows, total) \subseteq FreeUnits(some, total)
<1>1. Covered(some) \subseteq Covered(rows) BY DEF Covered
<1>2. GapUnits(some) \subseteq GapUnits(rows) \cup Covered(rows) BY DEF GapUnits
<1> QED BY <1>1, <1>2 DEF FreeUnits

\* A span of free units overlaps none of the rows and lies in the rack.
LEMMA FreeIsDisjoint ==
  ASSUME NEW rows, NEW total \in Int, NEW x, x.lo \in Int, x.hi \in Int, x.lo <= x.hi,
         Units(x) \subseteq FreeUnits(rows, total)
  PROVE  /\ Units(x) \subseteq 1 .. total
         /\ \A y \in rows : y.lo \in Int /\ y.hi \in Int /\ y.lo <= y.hi => ~Overlap(x, y) /\ ~Overlap(y, x)
<1>1. Units(x) \subseteq 1 .. total /\ Units(x) \cap Covered(rows) = {} BY DEF FreeUnits
<1>2. ASSUME NEW y \in rows, y.lo \in Int, y.hi \in Int, y.lo <= y.hi, Overlap(x, y) \/ Overlap(y, x)
      PROVE  FALSE
  <2>1. Units(y) \subseteq Covered(rows) BY DEF Covered
  <2>2. x.lo <= y.hi /\ y.lo <= x.hi BY <1>2 DEF Overlap
  <2>3. x.lo \in Units(y) \/ y.lo \in Units(x) BY <1>2, <2>2 DEF Units
  <2>4. x.lo \in Units(x) /\ y.lo \in Units(y) BY <1>2 DEF Units
  <2> QED BY <1>1, <2>1, <2>3, <2>4
<1> QED BY <1>1, <1>2

-----------------------------------------------------------------------------
(* Types                                                                     *)

\* Beginning a request and taking locks keep the types.
LEMMA LockingType ==
  ASSUME TypeOK, NEW w \in Workers,
         \/ Start(w) \/ Acquire(w) \/ LockAssets(w) \/ JoinRoom(w) \/ JoinCenter(w)
         \/ CheckRoom(w) \/ Abort(w)
  PROVE  TypeOK'
<1> USE RackKeys DEF TypeOK, facilities, placement, locks, Advance, Ask, End, Drop
<1>1. CASE Start(w) BY <1>1 DEF Start
<1>2. CASE Acquire(w) BY <1>2 DEF Acquire, Take
<1>3. CASE LockAssets(w) BY <1>3 DEF LockAssets
<1>4. CASE JoinRoom(w) BY <1>4 DEF JoinRoom
<1>5. CASE JoinCenter(w) BY <1>5 DEF JoinCenter
<1>6. CASE CheckRoom(w) BY <1>6 DEF CheckRoom
<1>7. CASE Abort(w) BY <1>7 DEF Abort
<1> QED BY <1>1, <1>2, <1>3, <1>4, <1>5, <1>6, <1>7

\* Checking and committing keep them.
LEMMA WritingType ==
  ASSUME TypeOK, NEW w \in Workers,
         \/ CheckPlace(w) \/ CommitPlace(w) \/ CommitRemove(w) \/ CommitRetire(w) \/ CheckRack(w)
         \/ CommitRack(w) \/ CommitRoom(w) \/ CommitCenter(w) \/ Reserve(w) \/ Release(w)
  PROVE  TypeOK'
<1>1. PICK q : q = job[w] OBVIOUS
<1>2. /\ q \in Requests \cup {Idle}
      /\ q \in Requests \/ q.kind = "none"
  BY <1>1 DEF TypeOK, Idle
<1> USE RackKeys DEF TypeOK, facilities, placement, locks, Advance, Ask, End, Drop, At
<1>3. CASE CheckPlace(w)
  <2>1. q \in Requests /\ q.rack \in Racks BY <1>1, <1>2, <1>3, RequestFields DEF CheckPlace, OnRack
  <2>2. CenterOf(q.rack) \in Centers BY <2>1 DEF CenterOf
  <2> QED BY <1>1, <1>3, <2>2 DEF CheckPlace
<1>4. CASE CommitPlace(w)
  <2>1. q \in Requests /\ q.asset \in Assets /\ q.rack \in Racks /\ q.lo \in Int /\ q.hi \in Int
    BY <1>1, <1>2, <1>4, RequestFields DEF CommitPlace, OnRack, OfAsset
  <2>2. Wanted(q) \in [rack : Racks \cup {0}, lo : Int, hi : Int] BY <2>1 DEF Wanted
  <2> QED BY <1>1, <1>4, <2>1, <2>2 DEF CommitPlace
<1>5. CASE CommitRemove(w)
  <2>1. q \in Requests /\ q.asset \in Assets /\ q.to \in Centers \cup {NoCenter, KeepCenter}
    BY <1>1, <1>2, <1>5, RequestFields DEF CommitRemove, OfAsset
  <2>2. Unmounted \in [rack : Racks \cup {0}, lo : Int, hi : Int] BY DEF Unmounted
  <2> QED BY <1>1, <1>5, <2>1, <2>2 DEF CommitRemove
<1>6. CASE CommitRetire(w)
  <2>1. q \in Requests /\ q.asset \in Assets
    BY <1>1, <1>2, <1>6, RequestFields DEF CommitRetire, OfAsset
  <2> QED BY <1>1, <1>6, <2>1 DEF CommitRetire
<1>7. CASE CheckRack(w)
  <2>1. q \in Requests /\ q.room \in Rooms BY <1>1, <1>2, <1>7, RequestFields DEF CheckRack
  <2> QED BY <1>1, <1>7, <2>1 DEF CheckRack
<1>8. CASE CommitRack(w)
  <2>1. q \in Requests /\ q.room \in Rooms /\ q.rack \in Racks /\ q.size \in Nat \ {0}
    BY <1>1, <1>2, <1>8, RequestFields DEF CommitRack, OnRack
  <2>2. RackLock(q.rack) \in Facilities BY <2>1 DEF Facilities
  <2>3. inUse' \subseteq Facilities BY <1>1, <1>8, <2>2 DEF CommitRack, SetUse
  <2>4. located' \in [Assets -> Centers \cup {NoCenter}] BY <1>8 DEF CommitRack, Relocate
  <2> QED BY <1>1, <1>8, <2>1, <2>3, <2>4 DEF CommitRack
<1>9. CASE CommitRoom(w)
  <2>1. q \in Requests /\ q.room \in Rooms /\ q.center \in Centers
    BY <1>1, <1>2, <1>9, RequestFields DEF CommitRoom
  <2>2. RoomLock(q.room) \in Facilities BY <2>1 DEF Facilities
  <2>3. inUse' \subseteq Facilities BY <1>1, <1>9, <2>2 DEF CommitRoom, SetUse
  <2>4. located' \in [Assets -> Centers \cup {NoCenter}] BY <1>1, <1>9, <2>1 DEF CommitRoom, Relocate
  <2> QED BY <1>1, <1>9, <2>1, <2>3, <2>4 DEF CommitRoom
<1>10. CASE CommitCenter(w)
  <2>1. q \in Requests /\ q.center \in Centers BY <1>1, <1>2, <1>10, RequestFields DEF CommitCenter
  <2>2. CenterLock(q.center) \in Facilities BY <2>1 DEF Facilities
  <2>3. inUse' \subseteq Facilities BY <1>1, <1>10, <2>2 DEF CommitCenter, SetUse
  <2> QED BY <1>10, <2>3 DEF CommitCenter
<1>11. CASE Reserve(w)
  <2>1. q \in Requests /\ q.rack \in Racks /\ q.lo \in Int /\ q.hi \in Int
    BY <1>1, <1>2, <1>11, RequestFields DEF Reserve, OnRack
  <2>2. Wanted(q) \in [rack : Racks, lo : Int, hi : Int] BY <2>1 DEF Wanted
  <2> QED BY <1>1, <1>11, <2>2 DEF Reserve
<1>12. CASE Release(w) BY <1>12 DEF Release
<1> QED BY <1>3, <1>4, <1>5, <1>6, <1>7, <1>8, <1>9, <1>10, <1>11, <1>12

\* Every action keeps the variables in their types.
LEMMA TypeStep == ASSUME TypeOK, NEW w \in Workers, Step(w) PROVE TypeOK'
BY LockingType, WritingType DEF Step

-----------------------------------------------------------------------------
(* Locks                                                                     *)

\* A step of one worker leaves the stages, requests, locks and readings of the others.
LEMMA Frame ==
  ASSUME TypeOK, NEW v \in Workers, Step(v), NEW u \in Workers, u # v
  PROVE  /\ pc'[u] = pc[u] /\ job'[u] = job[u] /\ want'[u] = want[u]
         /\ held'[u] = held[u] /\ seen'[u] = seen[u]
<1> USE DEF TypeOK, locks, Advance, Ask, End, Drop
<1>1. CASE Start(v) \/ Acquire(v) \/ LockAssets(v) \/ JoinRoom(v) \/ JoinCenter(v) \/ CheckRoom(v) \/ Abort(v)
  BY <1>1 DEF Start, Acquire, Take, LockAssets, JoinRoom, JoinCenter, CheckRoom, Abort
<1>2. CASE CheckPlace(v) \/ CommitPlace(v) \/ CommitRemove(v) \/ CommitRetire(v) \/ CheckRack(v)
  BY <1>2 DEF CheckPlace, CommitPlace, CommitRemove, CommitRetire, CheckRack
<1>3. CASE CommitRack(v) \/ CommitRoom(v) \/ CommitCenter(v) \/ Reserve(v) \/ Release(v)
  BY <1>3 DEF CommitRack, CommitRoom, CommitCenter, Reserve, Release
<1> QED BY <1>1, <1>2, <1>3 DEF Step

\* A step takes at most free locks that it wants, or keeps or frees what it has.
LEMMA LocksStep ==
  ASSUME TypeOK, NEW v \in Workers, Step(v)
  PROVE  held'[v] \subseteq held[v] \cup {x \in want[v] : Free(x, v)}
<1> USE DEF TypeOK, locks, Advance, Ask, End, Drop
<1>1. CASE Start(v) \/ Acquire(v) \/ LockAssets(v) \/ JoinRoom(v) \/ JoinCenter(v) \/ CheckRoom(v) \/ Abort(v)
  BY <1>1 DEF Start, Acquire, Take, LockAssets, JoinRoom, JoinCenter, CheckRoom, Abort
<1>2. CASE CheckPlace(v) \/ CommitPlace(v) \/ CommitRemove(v) \/ CommitRetire(v) \/ CheckRack(v)
  BY <1>2 DEF CheckPlace, CommitPlace, CommitRemove, CommitRetire, CheckRack
<1>3. CASE CommitRack(v) \/ CommitRoom(v) \/ CommitCenter(v) \/ Reserve(v) \/ Release(v)
  BY <1>3 DEF CommitRack, CommitRoom, CommitCenter, Reserve, Release
<1> QED BY <1>1, <1>2, <1>3 DEF Step

\* Two workers never hold the same lock.
LEMMA ExclusiveStep == ASSUME TypeOK, Exclusive, NEW a \in Workers, Step(a) PROVE Exclusive'
<1>1. SUFFICES ASSUME NEW v \in Workers, NEW w \in Workers, v # w, NEW x, x \in held'[v], x \in held'[w]
               PROVE  FALSE
  BY DEF Exclusive
<1>2. CASE a # v /\ a # w BY <1>1, <1>2, Frame DEF Exclusive
<1>3. CASE a = v
  <2>1. held'[w] = held[w] BY <1>1, <1>3, Frame
  <2> QED BY <1>1, <1>3, <2>1, LocksStep DEF Exclusive, Free
<1>4. CASE a = w
  <2>1. held'[v] = held[v] BY <1>1, <1>4, Frame
  <2> QED BY <1>1, <1>4, <2>1, LocksStep DEF Exclusive, Free
<1> QED BY <1>2, <1>3, <1>4

\* The steps that write tables.
LEMMA TableWriters ==
  ASSUME NEW w \in Workers, Step(w)
  PROVE  \/ UNCHANGED <<facilities, placement>>
         \/ CommitPlace(w) \/ CommitRemove(w) \/ CommitRetire(w)
         \/ CommitRack(w) \/ CommitRoom(w) \/ CommitCenter(w) \/ Reserve(w) \/ Release(w)
BY DEF Step, Start, Acquire, LockAssets, JoinRoom, JoinCenter, CheckPlace, CheckRack, CheckRoom, Abort

\* A worker that has all the locks of its stage holds the rows it names, and its asset.
LEMMA HoldsNamed ==
  ASSUME PlacementInv, NEW w \in Workers, Ready(w)
  PROVE  /\ pc[w] # "idle" => Named(job[w]) \subseteq held[w]
         /\ pc[w] \notin {"idle", "graph"} /\ job[w].kind \in OfAsset => AssetLock(job[w].asset) \in held[w]
<1>1. Claims(w) = held[w] BY DEF Ready, Claims
<1>2. pc[w] \in {"idle", "graph", "assets", "room", "center", "commit"}
  BY DEF PlacementInv, TypeOK
<1> QED BY <1>1, <1>2 DEF PlacementInv, StageHolds

\* What a request writes is what it names.
LEMMA NamedLocks ==
  ASSUME NEW q
  PROVE  /\ q.kind \in OnRack => RackLock(q.rack) \in Named(q)
         /\ q.kind \in {"rack", "room"} => RoomLock(q.room) \in Named(q)
         /\ q.kind = "center" => CenterLock(q.center) \in Named(q)
BY DEF Named, OnRack

\* A row that one worker has locked is not changed by another; devices may leave a
\* rack that is locked, but none is put into it.
LEMMA LockedRowsStay ==
  ASSUME PlacementInv, NEW v \in Workers, Step(v), NEW u \in Workers, u # v
  PROVE  /\ \A k \in Racks : RackLock(k) \in held[u] =>
              /\ room'[k] = room[k] /\ size'[k] = size[k]
              /\ Held(k)' = Held(k)
              /\ RackLock(k) \in inUse => RackLock(k) \in inUse'
              /\ \A a \in On(k)' : a \in On(k) /\ alloc'[a] = alloc[a]
         /\ \A r \in Rooms : RoomLock(r) \in held[u] =>
              /\ center'[r] = center[r]
              /\ RoomLock(r) \in inUse => RoomLock(r) \in inUse'
         /\ \A c \in Centers : CenterLock(c) \in held[u] =>
              (CenterLock(c) \in inUse => CenterLock(c) \in inUse')
         /\ \A a \in Assets : AssetLock(a) \in held[u] => (a \in retired' => a \in retired)
<1>1. TypeOK BY DEF PlacementInv
<1>2. \A x \in held[u] : x \notin held[v] BY DEF PlacementInv, Exclusive
<1>3. PICK q : q = job[v] OBVIOUS
<1> USE DEF RackLock, RoomLock, CenterLock, AssetLock, On, Held
<1>4. CASE UNCHANGED <<facilities, placement>> BY <1>4 DEF facilities, placement
<1>5. CASE CommitPlace(v)
  <2>1. q.kind = "place" /\ RackLock(q.rack) \in held[v]
    BY <1>3, <1>5, HoldsNamed, NamedLocks DEF CommitPlace, At, OnRack
  <2>2. \A k \in Racks : RackLock(k) \in held[u] => k # q.rack BY <1>2, <2>1
  <2>3. /\ alloc' = [alloc EXCEPT ![q.asset] = Wanted(q)] /\ holds' = holds \ Consumed(q)
        /\ UNCHANGED <<facilities, retired>>
    BY <1>3, <1>5 DEF CommitPlace
  <2>4. \A h \in Consumed(q) : h.rack = q.rack BY DEF Consumed, Wanted
  <2>5. Wanted(q).rack = q.rack BY DEF Wanted
  <2>6. \A a \in Assets : alloc'[a] = alloc[a] \/ alloc'[a].rack = q.rack BY <1>1, <2>3, <2>5 DEF TypeOK
  <2>7. \A k \in Racks : RackLock(k) \in held[u] => Held(k)' = Held(k) BY <2>2, <2>3, <2>4
  <2>8. \A k \in Racks : RackLock(k) \in held[u] => \A a \in On(k)' : a \in On(k) /\ alloc'[a] = alloc[a]
    BY <2>2, <2>6
  <2> QED BY <2>3, <2>7, <2>8 DEF facilities
<1>6. CASE CommitRemove(v)
  <2>1. alloc' = [alloc EXCEPT ![q.asset] = Unmounted] /\ UNCHANGED <<facilities, retired, holds>>
    BY <1>3, <1>6 DEF CommitRemove
  <2>2. \A a \in Assets : alloc'[a] = alloc[a] \/ alloc'[a].rack = 0 BY <1>1, <2>1 DEF TypeOK, Unmounted
  <2>3. \A k \in Racks : k # 0 BY RackKeys
  <2> QED BY <2>1, <2>2, <2>3 DEF facilities
<1>7. CASE CommitRetire(v)
  <2>1. AssetLock(q.asset) \in held[v]
    BY <1>3, <1>7, HoldsNamed DEF CommitRetire, At, OfAsset
  <2>2. retired' = retired \cup {q.asset} /\ UNCHANGED <<facilities, alloc, holds>>
    BY <1>3, <1>7 DEF CommitRetire
  <2> QED BY <1>2, <2>1, <2>2 DEF facilities
<1>8. CASE CommitRack(v)
  <2>1. RackLock(q.rack) \in held[v] BY <1>3, <1>8, HoldsNamed, NamedLocks DEF CommitRack, At, OnRack
  <2>2. /\ room' = [room EXCEPT ![q.rack] = q.room] /\ size' = [size EXCEPT ![q.rack] = q.size]
        /\ inUse' \in {inUse \cup {RackLock(q.rack)}, inUse \ {RackLock(q.rack)}}
        /\ UNCHANGED <<center, alloc, retired, holds>>
    BY <1>3, <1>8 DEF CommitRack, SetUse
  <2>3. \A k \in Racks : RackLock(k) \in held[u] => k # q.rack BY <1>2, <2>1
  <2> QED BY <1>1, <2>2, <2>3 DEF TypeOK
<1>9. CASE CommitRoom(v)
  <2>1. RoomLock(q.room) \in held[v] BY <1>3, <1>9, HoldsNamed, NamedLocks DEF CommitRoom, At
  <2>2. /\ center' = [center EXCEPT ![q.room] = q.center]
        /\ inUse' \in {inUse \cup {RoomLock(q.room)}, inUse \ {RoomLock(q.room)}}
        /\ UNCHANGED <<room, size, alloc, retired, holds>>
    BY <1>3, <1>9 DEF CommitRoom, SetUse
  <2>3. \A r \in Rooms : RoomLock(r) \in held[u] => r # q.room BY <1>2, <2>1
  <2> QED BY <1>1, <2>2, <2>3 DEF TypeOK
<1>10. CASE CommitCenter(v)
  <2>1. CenterLock(q.center) \in held[v] BY <1>3, <1>10, HoldsNamed, NamedLocks DEF CommitCenter, At
  <2>2. /\ inUse' \in {inUse \cup {CenterLock(q.center)}, inUse \ {CenterLock(q.center)}}
        /\ UNCHANGED <<center, room, size, placement>>
    BY <1>3, <1>10 DEF CommitCenter, SetUse
  <2> QED BY <1>2, <2>1, <2>2 DEF placement
<1>11. CASE Reserve(v) \/ Release(v)
  <2>1. RackLock(q.rack) \in held[v]
    BY <1>3, <1>11, HoldsNamed, NamedLocks DEF Reserve, Release, At, OnRack
  <2>2. holds' \in {holds \cup {Wanted(q)}, holds \ {Wanted(q)}} /\ UNCHANGED <<facilities, alloc, retired>>
    BY <1>3, <1>11 DEF Reserve, Release
  <2>3. Wanted(q).rack = q.rack BY DEF Wanted
  <2>4. \A k \in Racks : RackLock(k) \in held[u] => k # q.rack BY <1>2, <2>1
  <2>5. \A k \in Racks : RackLock(k) \in held[u] => Held(k)' = Held(k) BY <2>2, <2>3, <2>4
  <2> QED BY <2>2, <2>5 DEF facilities
<1> QED BY <1>4, <1>5, <1>6, <1>7, <1>8, <1>9, <1>10, <1>11, TableWriters

-----------------------------------------------------------------------------
(* The others                                                                *)

\* The fields of the request a worker has.
LEMMA JobFields ==
  ASSUME TypeOK, NEW w \in Workers
  PROVE  /\ job[w].kind \in OnRack => job[w] \in Requests /\ job[w].rack \in Racks
         /\ job[w].kind \in OfAsset => job[w] \in Requests /\ job[w].asset \in Assets
         /\ job[w].kind \in {"rack", "room"} => job[w].room \in Rooms
<1>1. job[w] \in Requests \/ job[w].kind = "none" BY DEF TypeOK, Idle
<1> QED BY <1>1, RequestFields DEF OnRack, OfAsset

\* The others keep their stage, and the parents of the racks that they hold.
LEMMA OtherStage ==
  ASSUME PlacementInv, NEW v \in Workers, Step(v), NEW u \in Workers, u # v
  PROVE  StageHolds(u)'
<1>1. TypeOK BY DEF PlacementInv
<1>2. /\ pc'[u] = pc[u] /\ job'[u] = job[u] /\ want'[u] = want[u] /\ held'[u] = held[u]
      /\ StageHolds(u)
  BY <1>1, Frame DEF PlacementInv
<1>3. PICK q : q = job[u] OBVIOUS
<1>4. Claims(u)' = Claims(u) BY <1>2 DEF Claims
<1>5. pc[u] \in {"room", "center", "commit"} /\ q.kind \in OnRack =>
        q.rack \in Racks /\ RackLock(q.rack) \in held[u]
  BY <1>1, <1>2, <1>3, JobFields, NamedLocks DEF StageHolds
<1>6. pc[u] \in {"room", "center", "commit"} /\ q.kind \in OnRack => room'[q.rack] = room[q.rack]
  BY <1>5, LockedRowsStay
<1>7. pc[u] \in {"center", "commit"} /\ q.kind \in OnRack /\ RoomLock(room[q.rack]) \in held[u] =>
        center'[room[q.rack]] = center[room[q.rack]]
  BY <1>1, <1>5, LockedRowsStay DEF TypeOK
<1>8. q.kind = "place" => q.kind \in OnRack BY DEF OnRack
<1> QED BY <1>2, <1>3, <1>4, <1>6, <1>7, <1>8 DEF StageHolds, CenterOf

\* What they have checked and read stays true.
LEMMA OtherSettled ==
  ASSUME PlacementInv, NEW v \in Workers, Step(v), NEW u \in Workers, u # v
  PROVE  Settled(u)'
<1>1. TypeOK BY DEF PlacementInv
<1>2. /\ pc'[u] = pc[u] /\ job'[u] = job[u] /\ seen'[u] = seen[u]
      /\ StageHolds(u) /\ Settled(u)
  BY <1>1, Frame DEF PlacementInv
<1>3. SUFFICES ASSUME pc[u] = "commit" PROVE Settled(u)' BY <1>2 DEF Settled
<1>4. PICK q : q = job[u] OBVIOUS
<1>5. Named(q) \subseteq held[u] BY <1>2, <1>3, <1>4 DEF StageHolds
<1>6. ASSUME q.kind = "place" PROVE Placeable(q)' /\ seen[u] = CenterOf(q.rack)'
  <2>1. Placeable(q) /\ seen[u] = CenterOf(q.rack) BY <1>2, <1>3, <1>4, <1>6 DEF Settled
  <2>2. /\ q.rack \in Racks /\ q.asset \in Assets
        /\ RackLock(q.rack) \in held[u] /\ AssetLock(q.asset) \in held[u]
        /\ RoomLock(room[q.rack]) \in held[u] /\ CenterLock(CenterOf(q.rack)) \in held[u]
    BY <1>1, <1>2, <1>3, <1>4, <1>5, <1>6, JobFields, NamedLocks DEF StageHolds, OnRack, OfAsset
  <2>3. room[q.rack] \in Rooms /\ CenterOf(q.rack) \in Centers BY <1>1, <2>2 DEF TypeOK, CenterOf
  <2>4. /\ room'[q.rack] = room[q.rack] /\ center'[room[q.rack]] = center[room[q.rack]]
        /\ size'[q.rack] = size[q.rack]
        /\ Held(q.rack)' = Held(q.rack)
        /\ \A a \in On(q.rack)' : a \in On(q.rack) /\ alloc'[a] = alloc[a]
    BY <2>2, <2>3, LockedRowsStay
  <2>5. CenterOf(q.rack)' = CenterOf(q.rack) BY <2>4 DEF CenterOf
  <2>6. Usable(q.rack)'
    <3>1. {RackLock(q.rack), RoomLock(room[q.rack]), CenterLock(CenterOf(q.rack))} \subseteq inUse
      BY <2>1 DEF Placeable, Usable
    <3>2. {RackLock(q.rack), RoomLock(room[q.rack]), CenterLock(CenterOf(q.rack))} \subseteq inUse'
      BY <2>2, <2>3, <3>1, LockedRowsStay
    <3> QED BY <2>4, <2>5, <3>2 DEF Usable
  <2>7. q.asset \notin retired' BY <2>1, <2>2, LockedRowsStay DEF Placeable
  <2>8. Consumed(q) \subseteq holds' BY <2>1, <2>4 DEF Placeable, Consumed, Wanted, Held
  <2>9. Rows(q.rack, q.asset)' \ Consumed(q) \subseteq Rows(q.rack, q.asset) \ Consumed(q)
    BY <2>4 DEF Rows
  <2>10. Units(q) \subseteq FreeUnits(Rows(q.rack, q.asset)' \ Consumed(q), size[q.rack])
    BY <2>1, <2>9, FewerRows DEF Placeable
  <2>11. Consumed(q)' = Consumed(q) BY DEF Consumed
  <2>12. Placeable(q)'
    BY <2>1, <2>4, <2>6, <2>7, <2>8, <2>10 DEF Placeable
  <2> QED BY <2>1, <2>5, <2>12
<1>7. ASSUME q.kind = "rack" PROVE Shrinkable(q)' /\ seen[u] = center'[q.room]
  <2>1. Shrinkable(q) /\ seen[u] = center[q.room] BY <1>2, <1>3, <1>4, <1>7 DEF Settled
  <2>2. /\ q.rack \in Racks /\ q.room \in Rooms
        /\ RackLock(q.rack) \in held[u] /\ RoomLock(q.room) \in held[u]
    BY <1>1, <1>4, <1>5, <1>7, JobFields, NamedLocks DEF OnRack
  <2>3. /\ Held(q.rack)' = Held(q.rack)
        /\ \A a \in On(q.rack)' : a \in On(q.rack) /\ alloc'[a] = alloc[a]
        /\ center'[q.room] = center[q.room]
    BY <2>2, LockedRowsStay
  <2>4. Highest(q.rack)' \subseteq Highest(q.rack) BY <2>3 DEF Highest
  <2> QED BY <2>1, <2>3, <2>4 DEF Shrinkable
<1> QED BY <1>2, <1>3, <1>4, <1>6, <1>7 DEF Settled

-----------------------------------------------------------------------------
(* The one that steps                                                        *)

\* The graph of a request contains the rows that the request names.
LEMMA NamedInGraph == ASSUME NEW q \in Requests PROVE Named(q) \subseteq Graph(q)
<1>1. \A racks : \A k \in racks : RackLock(k) \in Ancestry(racks) BY DEF Ancestry
<1>2. q.kind \in {"place", "remove", "retire", "rack", "room", "center", "reserve", "release"}
  BY RequestFields
<1>3. CASE q.kind = "place" BY <1>1, <1>3 DEF Named, Graph
<1>4. CASE q.kind \in {"reserve", "release"} BY <1>1, <1>4 DEF Named, Graph
<1>5. CASE q.kind = "rack" BY <1>1, <1>5 DEF Named, Graph
<1>6. CASE q.kind \in {"room", "center", "remove", "retire"} BY <1>6 DEF Named, Graph
<1> QED BY <1>2, <1>3, <1>4, <1>5, <1>6

\* Whoever goes on to a stage claims what the stage needs.
LEMMA OwnStage == ASSUME PlacementInv, NEW w \in Workers, Step(w) PROVE StageHolds(w)'
<1>1. TypeOK /\ StageHolds(w) BY DEF PlacementInv
<1> USE <1>1 DEF TypeOK, Advance, Ask, End, Drop, At, Ready, StageHolds, Claims
<1>2. CASE Start(w)
  <2>1. PICK q \in Requests :
          /\ job' = [job EXCEPT ![w] = q] /\ pc' = [pc EXCEPT ![w] = "graph"]
          /\ want' = [want EXCEPT ![w] = Graph(q) \ held[w]] /\ UNCHANGED held
    BY <1>2 DEF Start
  <2>2. job'[w] = q /\ pc'[w] = "graph" BY <2>1
  <2>3. Claims(w)' = held[w] \cup Graph(q) BY <2>1
  <2> QED BY <2>2, <2>3, NamedInGraph
<1>3. CASE Acquire(w)
  <2>1. /\ UNCHANGED <<job, pc, room, center>> /\ held[w] \subseteq held'[w]
        /\ Claims(w)' = Claims(w)
    BY <1>3 DEF Acquire, Take, facilities
  <2> QED BY <2>1 DEF CenterOf
<1>4. CASE LockAssets(w) BY <1>4 DEF LockAssets, OfAsset
<1>5. CASE JoinRoom(w) BY <1>5 DEF JoinRoom, facilities
<1>6. CASE JoinCenter(w)
  <2>1. /\ UNCHANGED <<job, room, center>> /\ pc'[w] = "center"
        /\ held'[w] = held[w] /\ want[w] = {}
        /\ \/ pc[w] = "room" /\ job[w].kind \in OnRack
           \/ pc[w] = "assets" /\ job[w].kind = "room"
    BY <1>6 DEF JoinCenter, facilities, OnRack
  <2>2. job[w].kind \in OnRack => CenterLock(CenterOf(job[w].rack)) \in Claims(w)'
    BY <1>6 DEF JoinCenter, OnRack
  <2>3. "room" \notin OnRack /\ "room" \notin OfAsset BY DEF OnRack, OfAsset
  <2> QED BY <2>1, <2>2, <2>3 DEF CenterOf
<1>7. CASE CheckPlace(w) BY <1>7 DEF CheckPlace, facilities, OnRack, OfAsset, CenterOf
<1>8. CASE CheckRack(w) BY <1>8 DEF CheckRack, OnRack, OfAsset
<1>9. CASE CheckRoom(w) BY <1>9 DEF CheckRoom, OnRack, OfAsset
<1>10. CASE CommitPlace(w) \/ CommitRemove(w) \/ CommitRetire(w) \/ CommitRack(w) \/ CommitRoom(w)
            \/ CommitCenter(w) \/ Reserve(w) \/ Release(w) \/ Abort(w)
  <2>1. pc'[w] = "idle"
    BY <1>10
    DEF CommitPlace, CommitRemove, CommitRetire, CommitRack, CommitRoom, CommitCenter, Reserve,
        Release, Abort
  <2> QED BY <2>1
<1> QED BY <1>2, <1>3, <1>4, <1>5, <1>6, <1>7, <1>8, <1>9, <1>10 DEF Step

\* What it checks is what it has checked when it goes on to its commit.
LEMMA OwnSettled == ASSUME PlacementInv, NEW w \in Workers, Step(w) PROVE Settled(w)'
<1>1. TypeOK /\ Settled(w) BY DEF PlacementInv
<1> USE <1>1 DEF TypeOK, Advance, Ask, End, Drop, At, Ready
<1>2. CASE CheckPlace(w)
  <2>1. /\ UNCHANGED <<facilities, placement, job>> /\ job[w].kind = "place"
        /\ Placeable(job[w]) /\ seen'[w] = CenterOf(job[w].rack)
    BY <1>2 DEF CheckPlace
  <2>2. PICK q : q = job[w] OBVIOUS
  <2>3. /\ UNCHANGED <<center, room, size, inUse, alloc, retired, holds>>
        /\ Placeable(q)
    BY <2>1, <2>2 DEF facilities, placement
  <2>4. Rows(q.rack, q.asset)' = Rows(q.rack, q.asset) BY ONLY <2>3 DEF Rows, On, Held
  <2>5. CenterOf(q.rack)' = CenterOf(q.rack) BY ONLY <2>3 DEF CenterOf
  <2>6. Usable(q.rack)' BY ONLY <2>3, <2>5 DEF Placeable, Usable
  <2>7. Consumed(q)' = Consumed(q) BY ONLY <2>3 DEF Consumed
  <2>8. Placeable(q)' BY ONLY <2>3, <2>4, <2>6, <2>7 DEF Placeable
  <2> QED BY <2>1, <2>2, <2>5, <2>8 DEF Settled
<1>3. CASE CheckRack(w)
  <2>1. /\ UNCHANGED <<facilities, placement, job>> /\ job[w].kind = "rack"
        /\ Shrinkable(job[w]) /\ seen'[w] = center[job[w].room]
    BY <1>3 DEF CheckRack, RackAllowed
  <2>2. PICK q : q = job[w] OBVIOUS
  <2>3. Shrinkable(q)' BY <2>1, <2>2 DEF facilities, placement, Shrinkable, Highest, On, Held
  <2> QED BY <2>1, <2>2, <2>3 DEF Settled, facilities
<1>4. CASE CheckRoom(w) BY <1>4 DEF CheckRoom, Settled
<1>5. CASE Acquire(w)
  <2>1. UNCHANGED <<facilities, placement, job, pc, seen>> BY <1>5 DEF Acquire
  <2> QED BY <2>1 DEF Settled, facilities, placement, Placeable, Usable, CenterOf, Consumed, Wanted, Rows,
                      On, Held, Shrinkable, Highest
<1>6. CASE Start(w) \/ LockAssets(w) \/ JoinRoom(w) \/ JoinCenter(w)
  <2>1. pc'[w] # "commit" BY <1>6 DEF Start, LockAssets, JoinRoom, JoinCenter
  <2> QED BY <2>1 DEF Settled
<1>7. CASE CommitPlace(w) \/ CommitRemove(w) \/ CommitRetire(w) \/ CommitRack(w) \/ CommitRoom(w)
            \/ CommitCenter(w) \/ Reserve(w) \/ Release(w) \/ Abort(w)
  <2>1. pc'[w] = "idle"
    BY <1>7
    DEF CommitPlace, CommitRemove, CommitRetire, CommitRack, CommitRoom, CommitCenter, Reserve,
        Release, Abort
  <2> QED BY <2>1 DEF Settled
<1> QED BY <1>2, <1>3, <1>4, <1>5, <1>6, <1>7 DEF Step

-----------------------------------------------------------------------------
(* Units                                                                     *)

\* Bounds and sets of units say the same.
LEMMA SoundPlacement ==
  ASSUME TypeOK, Sound
  PROVE  PlacementIsSound
<1>1. ASSUME NEW k \in Racks
      PROVE  Covered({alloc[a] : a \in On(k)} \cup Held(k)) \subseteq 1 .. size[k]
             <=> /\ \A a \in On(k) : 1 <= alloc[a].lo /\ alloc[a].hi <= size[k]
                 /\ \A h \in Held(k) : 1 <= h.lo /\ h.hi <= size[k]
  <2> DEFINE all == {alloc[a] : a \in On(k)} \cup Held(k)
  <2>1. size[k] \in Int /\ k # 0 BY RackKeys DEF TypeOK
  <2>2. \A x \in all : x.lo \in Int /\ x.hi \in Int /\ x.lo <= x.hi
    BY <2>1 DEF TypeOK, Sound, Spans, On, Held, Mounted, Unmounted
  <2>3. Covered(all) \subseteq 1 .. size[k] <=> \A x \in all : Units(x) \subseteq 1 .. size[k]
    BY DEF Covered
  <2>4. \A x \in all : Units(x) \subseteq 1 .. size[k] <=> 1 <= x.lo /\ x.hi <= size[k]
    <3> SUFFICES ASSUME NEW x \in all
                 PROVE  Units(x) \subseteq 1 .. size[k] <=> 1 <= x.lo /\ x.hi <= size[k]
      OBVIOUS
    <3>1. PICK lo, hi : lo = x.lo /\ hi = x.hi OBVIOUS
    <3>2. lo \in Int /\ hi \in Int /\ lo <= hi BY <2>2, <3>1
    <3>3. lo .. hi \subseteq 1 .. size[k] <=> 1 <= lo /\ hi <= size[k] BY <2>1, <3>2
    <3> QED BY <3>1, <3>3 DEF Units
  <2>5. Covered(all) \subseteq 1 .. size[k] <=> \A x \in all : 1 <= x.lo /\ x.hi <= size[k]
    BY <2>3, <2>4
  <2> QED BY <2>5
<1> QED BY <1>1 DEF PlacementIsSound, UnitsAreExclusive, Sound, RackSound

\* The span of a device that may be placed is free of devices and of the holds
\* that it does not use up.
LEMMA PlaceIsFree ==
  ASSUME TypeOK, Spans, \A k \in Racks : RackSound(k),
         NEW q \in Requests, q.kind = "place", Placeable(q)
  PROVE  /\ 1 <= q.lo /\ q.hi <= size[q.rack]
         /\ \A b \in On(q.rack) \ {q.asset} : ~Overlap(q, alloc[b]) /\ ~Overlap(alloc[b], q)
         /\ \A h \in Held(q.rack) \ Consumed(q) : ~Overlap(q, h) /\ ~Overlap(h, q)
<1>1. q.rack \in Racks /\ q.asset \in Assets /\ q.lo \in Int /\ q.hi \in Int /\ q.lo <= q.hi
  BY RequestFields DEF OnRack, OfAsset, Placeable
<1>2. size[q.rack] \in Int /\ q.rack # 0
  <2>1. \A k \in Racks : size[k] \in Int /\ k # 0 BY RackKeys DEF TypeOK
  <2> QED BY <1>1, <2>1
<1> DEFINE rows == Rows(q.rack, q.asset) \ Consumed(q)
<1>3. /\ Units(q) \subseteq 1 .. size[q.rack]
      /\ \A y \in rows : y.lo \in Int /\ y.hi \in Int /\ y.lo <= y.hi => ~Overlap(q, y) /\ ~Overlap(y, q)
  BY <1>1, <1>2, FreeIsDisjoint DEF Placeable
<1>4. q.lo \in Units(q) /\ q.hi \in Units(q) BY <1>1 DEF Units
<1>5. \A b \in On(q.rack) : alloc[b].lo \in Int /\ alloc[b].hi \in Int /\ alloc[b].lo <= alloc[b].hi
  BY <1>2 DEF TypeOK, Spans, On, Mounted, Unmounted
<1>6. \A h \in holds : h.lo \in Int /\ h.hi \in Int /\ h.lo <= h.hi BY DEF TypeOK, Spans
<1>7. ASSUME NEW b \in On(q.rack) PROVE alloc[b] \notin Consumed(q)
  <2>1. SUFFICES ASSUME alloc[b] \in Consumed(q) PROVE FALSE OBVIOUS
  <2>2. alloc[b] \in Held(q.rack) BY <2>1 DEF Placeable, Held, On
  <2>3. ~Overlap(alloc[b], alloc[b]) BY <1>1, <2>2 DEF RackSound
  <2> QED BY <1>5, <2>3 DEF Overlap
<1>8. \A b \in On(q.rack) \ {q.asset} : alloc[b] \in rows BY <1>7 DEF Rows
<1>9. \A h \in Held(q.rack) \ Consumed(q) : h \in rows /\ h \in holds BY DEF Rows, Held
<1>10. 1 <= q.lo /\ q.hi <= size[q.rack]
  <2>1. q.lo \in 1 .. size[q.rack] /\ q.hi \in 1 .. size[q.rack] BY <1>3, <1>4
  <2> QED BY <1>1, <1>2, <2>1
<1>11. \A b \in On(q.rack) \ {q.asset} : ~Overlap(q, alloc[b]) /\ ~Overlap(alloc[b], q)
  BY <1>3, <1>5, <1>8
<1>12. \A h \in Held(q.rack) \ Consumed(q) : ~Overlap(q, h) /\ ~Overlap(h, q)
  BY <1>3, <1>6, <1>9
<1> QED BY <1>10, <1>11, <1>12

\* A placement that commits takes free units and carries the center of its rack.
LEMMA PlaceSound ==
  ASSUME TypeOK, Sound, NEW w \in Workers, CommitPlace(w), Settled(w)
  PROVE  Sound'
<1>1. PICK q : q = job[w] OBVIOUS
<1>2. q.kind = "place" /\ pc[w] = "commit" BY <1>1 DEF CommitPlace, At
<1>3. q \in Requests /\ q.rack \in Racks /\ q.asset \in Assets /\ q.lo \in Int /\ q.hi \in Int
  BY <1>1, <1>2, JobFields, RequestFields DEF OnRack, OfAsset
<1>4. Placeable(q) /\ seen[w] = CenterOf(q.rack) BY <1>1, <1>2 DEF Settled
<1>5. /\ alloc' = [alloc EXCEPT ![q.asset] = Wanted(q)]
      /\ located' = [located EXCEPT ![q.asset] = seen[w]]
      /\ holds' = holds \ Consumed(q)
      /\ UNCHANGED <<facilities, retired>>
  BY <1>1 DEF CommitPlace
<1>6. /\ alloc'[q.asset] = Wanted(q) /\ located'[q.asset] = CenterOf(q.rack)
      /\ \A a \in Assets \ {q.asset} : alloc'[a] = alloc[a] /\ located'[a] = located[a]
  BY <1>3, <1>4, <1>5 DEF TypeOK
<1>7. Wanted(q).rack = q.rack /\ Wanted(q).lo = q.lo /\ Wanted(q).hi = q.hi BY DEF Wanted
<1>8. q.lo <= q.hi /\ q.asset \notin retired BY <1>4 DEF Placeable
<1>9. Spans' BY <1>3, <1>5, <1>6, <1>7, <1>8 DEF Sound, Spans, Mounted
<1>10. (\A a \in retired : ~Mounted(a))' BY <1>5, <1>6, <1>8 DEF Sound, Mounted, TypeOK
<1>11. LocatedByRack'
  BY <1>5, <1>6, <1>7 DEF Sound, LocatedByRack, Mounted, CenterOf, facilities
<1>12. ASSUME NEW k \in Racks PROVE RackSound(k)'
  <2>1. RackSound(k) BY DEF Sound
  <2>2. size'[k] = size[k] BY <1>5 DEF facilities
  <2>3. Held(k)' \subseteq Held(k) /\ Held(q.rack)' = Held(q.rack) \ Consumed(q)
    BY <1>5 DEF Held, Consumed
  <2>4. \A a \in On(k)' : a # q.asset => a \in On(k) /\ alloc'[a] = alloc[a] BY <1>6 DEF On
  <2>5. CASE q.asset \notin On(k)' BY <2>1, <2>2, <2>3, <2>4, <2>5 DEF RackSound
  <2>6. CASE q.asset \in On(k)'
    <3>1. k = q.rack BY <1>6, <1>7, <2>6 DEF On
    <3>2. /\ 1 <= q.lo /\ q.hi <= size[k]
          /\ \A b \in On(k) \ {q.asset} : ~Overlap(q, alloc[b]) /\ ~Overlap(alloc[b], q)
          /\ \A h \in Held(k) \ Consumed(q) : ~Overlap(q, h)
      BY <1>2, <1>3, <1>4, <3>1, PlaceIsFree DEF Sound
    <3>3. \A x : (Overlap(Wanted(q), x) <=> Overlap(q, x)) /\ (Overlap(x, Wanted(q)) <=> Overlap(x, q))
      BY <1>7 DEF Overlap
    <3>4. \A h \in Held(k)' : ~Overlap(Wanted(q), h) BY <2>3, <3>1, <3>2, <3>3
    <3>5. \A b \in On(k)' : b # q.asset =>
            ~Overlap(Wanted(q), alloc'[b]) /\ ~Overlap(alloc'[b], Wanted(q))
      BY <2>4, <3>2, <3>3
    <3>6. \A a \in On(k)' : 1 <= alloc'[a].lo /\ alloc'[a].hi <= size'[k]
      BY <1>6, <1>7, <2>1, <2>2, <2>4, <3>2 DEF RackSound
    <3>7. \A a, b \in On(k)' : a # b => ~Overlap(alloc'[a], alloc'[b])
      BY <1>6, <2>1, <2>4, <3>5 DEF RackSound
    <3>8. \A a \in On(k)', h \in Held(k)' : ~Overlap(alloc'[a], h)
      BY <1>6, <2>1, <2>3, <2>4, <3>4 DEF RackSound
    <3>9. /\ \A h \in Held(k)' : 1 <= h.lo /\ h.hi <= size'[k]
          /\ \A g, h \in Held(k)' : g # h => ~Overlap(g, h)
      BY <2>1, <2>2, <2>3 DEF RackSound
    <3> QED BY <3>6, <3>7, <3>8, <3>9 DEF RackSound
  <2> QED BY <2>5, <2>6
<1> QED BY <1>9, <1>10, <1>11, <1>12 DEF Sound

\* A removal frees units, and a retirement is of a device that is not mounted.
LEMMA RemoveSound ==
  ASSUME TypeOK, Sound, NEW w \in Workers, CommitRemove(w) \/ CommitRetire(w)
  PROVE  Sound'
<1>1. PICK q : q = job[w] OBVIOUS
<1>2. CASE CommitRemove(w)
  <2>1. /\ alloc' = [alloc EXCEPT ![q.asset] = Unmounted]
        /\ located' = IF q.to = KeepCenter THEN located ELSE [located EXCEPT ![q.asset] = q.to]
        /\ UNCHANGED <<facilities, retired, holds>>
    BY <1>1, <1>2 DEF CommitRemove
  <2>2. \A a \in Assets : Mounted(a)' => Mounted(a) /\ alloc'[a] = alloc[a] /\ located'[a] = located[a]
    BY <2>1 DEF TypeOK, Mounted
  <2>3. \A k \in Racks : \A a \in On(k)' : a \in On(k) /\ alloc'[a] = alloc[a]
    <3>1. \A a \in Assets : alloc'[a] = alloc[a] \/ alloc'[a].rack = 0 BY <2>1 DEF TypeOK, Unmounted
    <3>2. \A k \in Racks : k # 0 BY RackKeys
    <3> QED BY <3>1, <3>2 DEF On
  <2>4. Spans' BY <2>1, <2>2 DEF Sound, Spans
  <2>5. (\A a \in retired : ~Mounted(a))' BY <2>1, <2>2 DEF Sound, TypeOK
  <2>6. \A k \in Racks : RackSound(k)' BY <2>1, <2>3 DEF Sound, RackSound, facilities, Held
  <2>7. LocatedByRack' BY <2>1, <2>2 DEF Sound, LocatedByRack, CenterOf, facilities
  <2> QED BY <2>4, <2>5, <2>6, <2>7 DEF Sound
<1>3. CASE CommitRetire(w)
  <2>1. /\ ~Mounted(q.asset) /\ retired' = retired \cup {q.asset}
        /\ UNCHANGED <<facilities, alloc, located, holds>>
    BY <1>1, <1>3 DEF CommitRetire
  <2>2. (\A a \in retired : ~Mounted(a))' BY <2>1 DEF Sound, Mounted
  <2> QED BY <2>1, <2>2 DEF Sound, Spans, RackSound, LocatedByRack, facilities, Mounted, On, Held, CenterOf
<1> QED BY <1>2, <1>3

\* A rack keeps room for what it holds, and its devices follow it.
LEMMA RackSaved ==
  ASSUME TypeOK, Sound, NEW w \in Workers, CommitRack(w), Settled(w)
  PROVE  Sound'
<1>1. PICK q : q = job[w] OBVIOUS
<1>2. q.kind = "rack" /\ pc[w] = "commit" BY <1>1 DEF CommitRack, At
<1>3. q \in Requests /\ q.rack \in Racks /\ q.room \in Rooms /\ q.size \in Nat \ {0}
  BY <1>1, <1>2, JobFields, RequestFields DEF OnRack
<1>4. Shrinkable(q) /\ seen[w] = center[q.room] BY <1>1, <1>2 DEF Settled
<1>5. /\ located' = [a \in Assets |-> IF a \in (IF q.room # room[q.rack] THEN On(q.rack) ELSE {})
                                      THEN seen[w] ELSE located[a]]
      /\ room' = [room EXCEPT ![q.rack] = q.room]
      /\ size' = [size EXCEPT ![q.rack] = q.size]
      /\ UNCHANGED <<center, alloc, retired, holds>>
  BY <1>1 DEF CommitRack, Relocate
<1>6. Spans' /\ (\A a \in retired : ~Mounted(a))' BY <1>5 DEF Sound, Spans, Mounted
<1>7. LocatedByRack'
  <2>1. SUFFICES ASSUME NEW a \in Assets, Mounted(a) PROVE located'[a] = center[room'[alloc[a].rack]]
    BY <1>5 DEF LocatedByRack, Mounted, CenterOf
  <2>2. alloc[a].rack \in Racks /\ located[a] = center[room[alloc[a].rack]]
    BY <2>1 DEF Sound, Spans, LocatedByRack, CenterOf
  <2>3. CASE alloc[a].rack # q.rack
    <3>1. a \notin On(q.rack) BY <2>3 DEF On
    <3>2. room'[alloc[a].rack] = room[alloc[a].rack] BY <1>5, <2>2, <2>3 DEF TypeOK
    <3> QED BY <1>5, <2>2, <3>1, <3>2
  <2>4. CASE alloc[a].rack = q.rack
    <3>1. a \in On(q.rack) BY <2>4 DEF On
    <3>2. room'[q.rack] = q.room BY <1>3, <1>5 DEF TypeOK
    <3> QED BY <1>4, <1>5, <2>2, <2>4, <3>1, <3>2
  <2> QED BY <2>3, <2>4
<1>8. ASSUME NEW k \in Racks PROVE RackSound(k)'
  <2>1. On(k)' = On(k) /\ Held(k)' = Held(k) /\ RackSound(k) BY <1>5 DEF On, Held, Sound
  <2>2. CASE k # q.rack
    <3>1. size'[k] = size[k] BY <1>5, <2>2 DEF TypeOK
    <3> QED BY <1>5, <2>1, <3>1 DEF RackSound
  <2>3. CASE k = q.rack
    <3>1. size'[k] = q.size BY <1>3, <1>5, <2>3 DEF TypeOK
    <3>2. \A a \in On(k) : alloc[a].hi <= q.size BY <1>4, <2>3 DEF Shrinkable, Highest
    <3>3. \A h \in Held(k) : h.hi <= q.size BY <1>4, <2>3 DEF Shrinkable, Highest
    <3> QED BY <1>5, <2>1, <3>1, <3>2, <3>3 DEF RackSound
  <2> QED BY <2>2, <2>3
<1> QED BY <1>6, <1>7, <1>8 DEF Sound

\* The devices in the racks of a room, as they are at the commit, follow the room.
LEMMA RoomSaved ==
  ASSUME TypeOK, Sound, NEW w \in Workers, CommitRoom(w) \/ CommitCenter(w)
  PROVE  Sound'
<1>1. PICK q : q = job[w] OBVIOUS
<1>2. CASE CommitRoom(w)
  <2>1. q.room \in Rooms BY <1>1, <1>2, JobFields DEF CommitRoom, At
  <2>2. /\ located' = [a \in Assets |-> IF a \in (IF q.center # center[q.room] THEN AssetsIn(q.room) ELSE {})
                                        THEN q.center ELSE located[a]]
        /\ center' = [center EXCEPT ![q.room] = q.center]
        /\ UNCHANGED <<room, size, alloc, retired, holds>>
    BY <1>1, <1>2 DEF CommitRoom, Relocate
  <2>3. LocatedByRack'
    <3>1. SUFFICES ASSUME NEW a \in Assets, Mounted(a) PROVE located'[a] = center'[room[alloc[a].rack]]
      BY <2>2 DEF LocatedByRack, Mounted, CenterOf
    <3>2. PICK r \in Rooms : r = room[alloc[a].rack] BY <3>1 DEF Sound, Spans, TypeOK
    <3>3. alloc[a].rack \in Racks /\ located[a] = center[r]
      BY <3>1, <3>2 DEF Sound, Spans, LocatedByRack, CenterOf
    <3>4. a \in AssetsIn(q.room) <=> r = q.room
      <4>1. a \in AssetsIn(q.room) <=> \E k \in Racks : room[k] = q.room /\ alloc[a].rack = k
        BY DEF AssetsIn, In, On
      <4> QED BY <3>2, <3>3, <4>1
    <3>5. CASE r # q.room
      <4>1. center'[r] = center[r] BY <2>2, <3>5 DEF TypeOK
      <4> QED BY <2>2, <3>2, <3>3, <3>4, <3>5, <4>1
    <3>6. CASE r = q.room
      <4>1. center'[r] = q.center BY <2>1, <2>2, <3>6 DEF TypeOK
      <4> QED BY <2>2, <3>2, <3>3, <3>4, <3>6, <4>1
    <3> QED BY <3>5, <3>6
  <2> QED BY <2>2, <2>3 DEF Sound, Spans, RackSound, Mounted, On, Held
<1>3. CASE CommitCenter(w)
  BY <1>3 DEF CommitCenter, placement, Sound, Spans, RackSound, LocatedByRack, Mounted, On, Held, CenterOf
<1> QED BY <1>2, <1>3

\* A hold is made of free units; a release frees them.
LEMMA HoldSound ==
  ASSUME TypeOK, Sound, NEW w \in Workers, Reserve(w) \/ Release(w)
  PROVE  Sound'
<1>1. PICK q : q = job[w] OBVIOUS
<1>2. UNCHANGED <<facilities, alloc, located, retired>> BY DEF Reserve, Release
<1>3. LocatedByRack' /\ (\A a \in retired : ~Mounted(a))'
  BY <1>2 DEF Sound, LocatedByRack, Mounted, CenterOf, facilities
<1>4. CASE Release(w)
  <2>1. holds' \subseteq holds BY <1>4 DEF Release
  <2>2. \A k \in Racks : RackSound(k)'
    BY <1>2, <2>1 DEF Sound, RackSound, On, Held, facilities
  <2> QED BY <1>2, <1>3, <2>1, <2>2 DEF Sound, Spans, Mounted
<1>5. CASE Reserve(w)
  <2>1. q.kind = "reserve" BY <1>1, <1>5 DEF Reserve, At
  <2>2. q \in Requests /\ q.rack \in Racks /\ q.lo \in Int /\ q.hi \in Int
    BY <1>1, <2>1, JobFields, RequestFields DEF OnRack
  <2>3. /\ q.lo <= q.hi /\ Units(q) \subseteq FreeUnits(Rows(q.rack, 0), size[q.rack])
        /\ holds' = holds \cup {Wanted(q)}
    BY <1>1, <1>5 DEF Reserve
  <2>4. Wanted(q).rack = q.rack /\ Wanted(q).lo = q.lo /\ Wanted(q).hi = q.hi BY DEF Wanted
  <2>5. Spans' BY <1>2, <2>3, <2>4 DEF Sound, Spans, Mounted
  <2>6. ASSUME NEW k \in Racks PROVE RackSound(k)'
    <3>1. /\ On(k)' = On(k) /\ alloc' = alloc /\ size'[k] = size[k] /\ RackSound(k)
      BY <1>2 DEF On, Sound, facilities
    <3>2. CASE k # q.rack
      <4>1. Held(k)' = Held(k) BY <2>3, <2>4, <3>2 DEF Held
      <4> QED BY <3>1, <4>1 DEF RackSound
    <3>3. CASE k = q.rack
      <4>1. Held(k)' = Held(k) \cup {Wanted(q)} BY <2>3, <2>4, <3>3 DEF Held
      <4>2. size[k] \in Int /\ k # 0 BY RackKeys DEF TypeOK
      <4>3. \A y \in Rows(k, 0) : y.lo \in Int /\ y.hi \in Int /\ y.lo <= y.hi
        BY <4>2 DEF Rows, TypeOK, Sound, Spans, On, Held, Mounted, Unmounted
      <4>4. /\ Units(q) \subseteq 1 .. size[k]
            /\ \A y \in Rows(k, 0) : ~Overlap(q, y) /\ ~Overlap(y, q)
        BY <2>2, <2>3, <3>3, <4>2, <4>3, FreeIsDisjoint
      <4>5. q.lo \in 1 .. size[k] /\ q.hi \in 1 .. size[k]
        <5>1. q.lo \in Units(q) /\ q.hi \in Units(q) BY <2>2, <2>3 DEF Units
        <5> QED BY <4>4, <5>1
      <4>6. 1 <= q.lo /\ q.hi <= size[k] BY <2>2, <4>2, <4>5
      <4>7. 0 \notin Assets BY RackKeys
      <4>8. /\ \A a \in On(k) : alloc[a] \in Rows(k, 0)
            /\ \A h \in Held(k) : h \in Rows(k, 0)
        BY <4>7 DEF Rows, On
      <4>9. \A y \in Rows(k, 0) : ~Overlap(Wanted(q), y) /\ ~Overlap(y, Wanted(q))
        BY <2>4, <4>4 DEF Overlap
      <4> QED BY <2>4, <3>1, <4>1, <4>6, <4>8, <4>9 DEF RackSound
    <3> QED BY <3>2, <3>3
  <2> QED BY <1>3, <2>5, <2>6 DEF Sound
<1> QED BY <1>4, <1>5

-----------------------------------------------------------------------------
(* The invariant                                                             *)

\* The types, the locks and what rests on them are inductive.
LEMMA PlacementStep == ASSUME PlacementInv, [Next]_vars PROVE PlacementInv'
<1>1. CASE UNCHANGED vars
  <2>1. UNCHANGED <<facilities, placement, job, pc, seen, requests, want, held>> BY <1>1 DEF vars, locks
  <2> USE <2>1 DEF facilities, placement, PlacementInv
  <2>2. TypeOK' BY DEF TypeOK
  <2>3. Sound' BY DEF Sound, Spans, RackSound, LocatedByRack, CenterOf, On, Held, Mounted
  <2>4. Exclusive' BY DEF Exclusive
  <2>5. ASSUME NEW w \in Workers PROVE StageHolds(w)' BY DEF StageHolds, Claims, CenterOf
  <2>6. ASSUME NEW w \in Workers PROVE Settled(w)'
    <3>1. PICK q : q = job[w] OBVIOUS
    <3>2. Placeable(q)' <=> Placeable(q)
      BY DEF Placeable, Usable, CenterOf, Rows, On, Held
    <3>3. Shrinkable(q)' <=> Shrinkable(q) BY DEF Shrinkable, Highest, On, Held
    <3> QED BY <3>1, <3>2, <3>3 DEF Settled, CenterOf
  <2> QED BY <2>2, <2>3, <2>4, <2>5, <2>6
<1>2. ASSUME NEW v \in Workers, Step(v) PROVE PlacementInv'
  <2>1. TypeOK /\ Sound /\ Settled(v) /\ Exclusive BY DEF PlacementInv
  <2>2. Sound'
    <3>1. CASE UNCHANGED <<facilities, placement>>
      BY <2>1, <3>1
      DEF facilities, placement, Sound, Spans, RackSound, LocatedByRack, CenterOf, On, Held, Mounted
    <3> QED BY <1>2, <2>1, <3>1, TableWriters, PlaceSound, RemoveSound, RackSaved, RoomSaved, HoldSound
  <2>3. TypeOK' /\ Exclusive' BY <1>2, <2>1, TypeStep, ExclusiveStep
  <2>4. ASSUME NEW w \in Workers PROVE StageHolds(w)' /\ Settled(w)'
    BY <1>2, OwnStage, OwnSettled, OtherStage, OtherSettled
  <2> QED BY <2>2, <2>3, <2>4 DEF PlacementInv
<1> QED BY <1>1, <1>2 DEF Next

\* The locks, and what a transaction may rely on, for every set of requests.
THEOREM PlacementInvariant == Spec => []PlacementInv
<1>1. Init => PlacementInv
  <2> SUFFICES ASSUME Init PROVE PlacementInv OBVIOUS
  <2>1. \A a \in Assets : alloc[a] = Unmounted BY DEF Init
  <2>2. TypeOK
    <3>1. /\ center \in [Rooms -> Centers] /\ room \in [Racks -> Rooms] /\ size \in [Racks -> Nat \ {0}]
          /\ requests \in 0 .. MaxRequests
      BY RackKeys DEF Init
    <3>2. alloc \in [Assets -> [rack : Racks \cup {0}, lo : Int, hi : Int]] BY DEF Init, Unmounted
    <3> QED BY <3>1, <3>2 DEF Init, TypeOK, NoLocks
  <2>3. \A k \in Racks : k # 0 BY RackKeys
  <2>4. Sound
    BY <2>1, <2>3 DEF Init, Sound, Spans, RackSound, LocatedByRack, Mounted, On, Held, Unmounted
  <2>5. Exclusive /\ \A w \in Workers : StageHolds(w) /\ Settled(w)
    BY DEF Init, NoLocks, Exclusive, StageHolds, Settled
  <2> QED BY <2>2, <2>4, <2>5 DEF PlacementInv
<1>2. PlacementInv /\ [Next]_vars => PlacementInv' BY PlacementStep
<1> QED BY <1>1, <1>2, PTL DEF Spec

\* However placements, removals, retirements, holds and patches of racks, rooms
\* and centers interleave, no U has two owners, none lies outside its rack, and a
\* mounted device is in the center of its rack.
THEOREM PlacementSound == Spec => []PlacementIsSound
<1>1. PlacementInv => PlacementIsSound BY SoundPlacement DEF PlacementInv
<1> QED BY <1>1, PlacementInvariant, PTL

\* A mount that was checked commits only where rack, room and center are still in use.
LEMMA MountsWhereInUse ==
  ASSUME PlacementInv, NEW w \in Workers, Step(w)
  PROVE  MountedInUse
<1> USE DEF MountedInUse
<1>1. TypeOK /\ Settled(w) BY DEF PlacementInv
<1>2. CASE CommitPlace(w)
  <2>1. PICK q : q = job[w] OBVIOUS
  <2>2. Usable(q.rack) BY <1>1, <1>2, <2>1 DEF CommitPlace, At, Settled, Placeable
  <2>3. alloc' = [alloc EXCEPT ![q.asset] = Wanted(q)] BY <1>2, <2>1 DEF CommitPlace
  <2>4. Wanted(q).rack = q.rack BY DEF Wanted
  <2> QED BY <1>1, <2>2, <2>3, <2>4 DEF TypeOK
<1>3. CASE CommitRemove(w)
  <2>1. alloc' = [alloc EXCEPT ![job[w].asset] = Unmounted] BY <1>3 DEF CommitRemove
  <2> QED BY <1>1, <2>1 DEF TypeOK
<1>4. CASE ~CommitPlace(w) /\ ~CommitRemove(w)
  <2>1. alloc' = alloc
    BY <1>4, TableWriters
    DEF placement, CommitRetire, CommitRack, CommitRoom, CommitCenter, Reserve, Release
  <2> QED BY <2>1
<1> QED BY <1>2, <1>3, <1>4

\* Only a release, or the device that takes all of its units, ends a hold.
LEMMA HoldsHonoured ==
  ASSUME PlacementInv, NEW w \in Workers, Step(w)
  PROVE  HoldHonoured
<1> USE DEF HoldHonoured
<1>1. TypeOK BY DEF PlacementInv
<1>2. CASE CommitPlace(w)
  <2>1. PICK q : q = job[w] OBVIOUS
  <2>2. q.asset \in Assets BY <1>1, <1>2, <2>1, JobFields DEF CommitPlace, At, OfAsset
  <2>3. alloc' = [alloc EXCEPT ![q.asset] = Wanted(q)] /\ holds' = holds \ Consumed(q)
    BY <1>2, <2>1 DEF CommitPlace
  <2>4. alloc'[q.asset] = Wanted(q) BY <1>1, <2>2, <2>3 DEF TypeOK
  <2> QED BY <2>2, <2>3, <2>4 DEF Consumed
<1>3. CASE ~CommitPlace(w)
  <2>1. holds' = holds \/ alloc' = alloc \/ holds \subseteq holds'
    BY <1>3, TableWriters
    DEF placement, CommitRemove, CommitRetire, CommitRack, CommitRoom, CommitCenter, Reserve, Release
  <2> QED BY <2>1
<1> QED BY <1>2, <1>3

\* However mounts, releases and patches of facilities interleave, a mount commits
\* only into a rack, room and center still in use, and only a release or the
\* device that takes all of its units ends a hold.
THEOREM MovesAllowed == Spec => MovesAreAllowed
<1>1. PlacementInv /\ [Next]_vars => [MountedInUse /\ HoldHonoured]_vars
  BY MountsWhereInUse, HoldsHonoured DEF Next
<1> QED BY <1>1, PlacementInvariant, PTL DEF Spec, MovesAreAllowed
-----------------------------------------------------------------------------
(* The map of racks                                                          *)

\* A U is said to be of the one that has it, if there is one.
OwnersKnown ==
    \A k \in Racks, u \in Int :
        OwnersOf(k, u) = IF OwnerOf(k, u) = Map!Nobody THEN {} ELSE {OwnerOf(k, u)}

\* Who has a U of a rack, in terms of spans.
LEMMA OwnersAre ==
  ASSUME NEW k, NEW u, NEW x
  PROVE  x \in OwnersOf(k, u) <=>
           \/ \E a \in On(k) : x = Map!Device(a) /\ u \in Units(alloc[a])
           \/ \E h \in Held(k) : x = Map!Hold(h.lo, h.hi) /\ u \in Units(h)
BY DEF OwnersOf, Map!Device, Map!Hold

\* The spans of a rack are bounded, and two that share a U are the same.
LEMMA SpansOf ==
  ASSUME TypeOK, Sound, NEW k \in Racks
  PROVE  /\ size[k] \in Int
         /\ \A a \in On(k) : /\ alloc[a].lo \in Int /\ alloc[a].hi \in Int
                             /\ 1 <= alloc[a].lo /\ alloc[a].lo <= alloc[a].hi /\ alloc[a].hi <= size[k]
         /\ \A h \in Held(k) : /\ h.lo \in Int /\ h.hi \in Int
                               /\ 1 <= h.lo /\ h.lo <= h.hi /\ h.hi <= size[k]
         /\ \A a \in On(k) : Mounted(a)
<1>1. size[k] \in Int /\ k # 0 BY RackKeys DEF TypeOK
<1>2. \A a \in On(k) : Mounted(a) BY <1>1 DEF On, Mounted, Unmounted
<1> QED BY <1>1, <1>2 DEF TypeOK, Sound, Spans, RackSound, On, Held

LEMMA OwnersAreKnown == ASSUME TypeOK, Sound PROVE OwnersKnown
<1> SUFFICES ASSUME NEW k \in Racks, NEW u \in Int
             PROVE  OwnersOf(k, u) = IF OwnerOf(k, u) = Map!Nobody THEN {} ELSE {OwnerOf(k, u)}
  BY DEF OwnersKnown
<1> DEFINE owners == OwnersOf(k, u)
<1>1. ASSUME NEW x \in owners, NEW y \in owners PROVE x = y
  <2>1. RackSound(k) BY DEF Sound
  <2>2. \A a, b \in On(k) : u \in Units(alloc[a]) /\ u \in Units(alloc[b]) => a = b
    BY <2>1, SpansOf DEF RackSound, Overlap, Units
  <2>3. \A a \in On(k), h \in Held(k) : ~(u \in Units(alloc[a]) /\ u \in Units(h))
    BY <2>1, SpansOf DEF RackSound, Overlap, Units
  <2>4. \A g, h \in Held(k) : u \in Units(g) /\ u \in Units(h) => g = h
    BY <2>1, SpansOf DEF RackSound, Overlap, Units
  <2> QED BY <2>2, <2>3, <2>4, OwnersAre
<1>2. Map!Nobody \notin owners BY OwnersAre DEF Map!Nobody, Map!Device, Map!Hold
<1>3. OwnerOf(k, u) = IF owners = {} THEN Map!Nobody ELSE CHOOSE x \in owners : TRUE
  BY DEF OwnerOf, Map!Nobody
<1>4. CASE owners = {} BY <1>3, <1>4
<1>5. CASE owners # {}
  <2>1. OwnerOf(k, u) \in owners BY <1>3, <1>5
  <2> QED BY <1>1, <1>2, <2>1
<1> QED BY <1>4, <1>5

\* A row has a device, or a hold, when it is in the rack.
LEMMA RowHas ==
  ASSUME TypeOK, Sound, NEW k \in Racks
  PROVE  /\ \A a : Map!Has(Row(k), Map!Device(a)) <=> a \in On(k)
         /\ \A h \in Held(k) : Map!Has(Row(k), Map!Hold(h.lo, h.hi))
<1>1. \A u \in Int : \A x : x # Map!Nobody => (OwnerOf(k, u) = x <=> x \in OwnersOf(k, u))
  BY OwnersAreKnown DEF OwnersKnown
<1>2. DOMAIN Row(k) = 1..size[k] /\ \A u \in 1..size[k] : u \in Int /\ Row(k)[u] = OwnerOf(k, u)
  BY SpansOf DEF Row
<1>3. \A x : x # Map!Nobody => (Map!Has(Row(k), x) <=> \E u \in 1..size[k] : x \in OwnersOf(k, u))
  BY <1>1, <1>2 DEF Map!Has
<1>4. \A a : a \in On(k) => alloc[a].lo \in 1..size[k] /\ alloc[a].lo \in Units(alloc[a])
  BY SpansOf DEF Units
<1>5. \A h \in Held(k) : h.lo \in 1..size[k] /\ h.lo \in Units(h)
  BY SpansOf DEF Units
<1>6. \A a : Map!Device(a) # Map!Nobody BY DEF Map!Device, Map!Nobody
<1>7. \A lo, hi : Map!Hold(lo, hi) # Map!Nobody BY DEF Map!Hold, Map!Nobody
<1>8. \A a, u : Map!Device(a) \in OwnersOf(k, u) => a \in On(k)
  BY OwnersAre DEF Map!Device, Map!Hold
<1>9. \A a \in On(k) : Map!Device(a) \in OwnersOf(k, alloc[a].lo) BY <1>4, OwnersAre
<1>10. \A h \in Held(k) : Map!Hold(h.lo, h.hi) \in OwnersOf(k, h.lo) BY <1>5, OwnersAre
<1>11. ASSUME NEW a PROVE Map!Has(Row(k), Map!Device(a)) <=> a \in On(k)
  BY <1>3, <1>4, <1>6, <1>8, <1>9
<1>12. ASSUME NEW h \in Held(k) PROVE Map!Has(Row(k), Map!Hold(h.lo, h.hi))
  BY <1>3, <1>5, <1>7, <1>10
<1> QED BY <1>11, <1>12

\* Units that are free by the spans of a rack are available by its row.
LEMMA FreeIsAvailable ==
  ASSUME TypeOK, Sound, NEW k \in Racks, NEW lo \in Int, NEW hi \in Int, lo <= hi, NEW mine, NEW rows,
         \A u \in Int : \A x \in OwnersOf(k, u) \ mine :
             \E y \in rows : y.lo \in Int /\ y.hi \in Int /\ u \in Units(y),
         lo..hi \subseteq FreeUnits(rows, size[k])
  PROVE  Map!Available(Row(k), lo, hi, mine) /\ lo \in 1..size[k] /\ hi \in 1..size[k]
<1>1. size[k] \in Int BY SpansOf
<1>2. DOMAIN Row(k) = 1..size[k] /\ \A u \in 1..size[k] : Row(k)[u] = OwnerOf(k, u)
  BY DEF Row
<1> DEFINE Taken(u) == u \in DOMAIN Row(k) /\ Row(k)[u] \notin mine \cup {Map!Nobody}
<1>3. ASSUME NEW u \in Int, Taken(u)
      PROVE  \E y \in rows : y.lo \in Int /\ y.hi \in Int /\ u \in Units(y)
  <2>1. OwnerOf(k, u) \in OwnersOf(k, u) \ mine BY <1>2, <1>3, OwnersAreKnown DEF OwnersKnown
  <2> QED BY <2>1
<1>4. ASSUME NEW u \in lo..hi PROVE ~Taken(u) /\ ~(Taken(u - 1) /\ Taken(u + 1))
  <2>1. u \in Int /\ u \notin Covered(rows) /\ u \notin GapUnits(rows) BY DEF FreeUnits
  <2>2. ~Taken(u) BY <1>3, <2>1 DEF Covered
  <2>3. ASSUME Taken(u - 1), Taken(u + 1) PROVE FALSE
    <3>1. PICK y \in rows : y.lo \in Int /\ y.hi \in Int /\ u - 1 \in Units(y) BY <1>3, <2>1, <2>3
    <3>2. PICK z \in rows : z.lo \in Int /\ z.hi \in Int /\ u + 1 \in Units(z) BY <1>3, <2>1, <2>3
    <3>3. u \notin Units(y) /\ u \notin Units(z) BY <2>1 DEF Covered
    <3>4. y.hi + 1 = u BY <2>1, <3>1, <3>3 DEF Units
    <3>5. z.lo = y.hi + 2 BY <2>1, <3>1, <3>2, <3>3, <3>4 DEF Units
    <3> QED BY <2>1, <3>4, <3>5 DEF GapUnits
  <2> QED BY <2>2, <2>3
<1>5. lo..hi \subseteq 1..size[k] BY DEF FreeUnits
<1> QED BY <1>1, <1>2, <1>4, <1>5 DEF Map!Available

\* Tables as they are mapped.  A step that leaves the facilities, leaves the sites
\* and the racks in use.
LEMMA SameSites ==
  ASSUME UNCHANGED facilities
  PROVE  /\ [k \in Racks |-> CenterOf(k)]' = [k \in Racks |-> CenterOf(k)]
         /\ {k \in Racks : Usable(k)}' = {k \in Racks : Usable(k)}
BY DEF facilities, CenterOf, Usable

\* A step that leaves the owners of each U, leaves the rows.
LEMMA SameRows ==
  ASSUME UNCHANGED <<size, alloc, holds>>
  PROVE  [k \in Racks |-> Row(k)]' = [k \in Racks |-> Row(k)]
<1>1. \A k \in Racks : \A u : OwnersOf(k, u)' = OwnersOf(k, u) BY DEF OwnersOf, On, Held
<1>2. ASSUME NEW k \in Racks, NEW u PROVE OwnerOf(k, u)' = OwnerOf(k, u)
  <2> DEFINE Sole(S) == IF S = {} THEN Map!Nobody ELSE CHOOSE x \in S : TRUE
  <2>1. OwnerOf(k, u) = Sole(OwnersOf(k, u)) /\ OwnerOf(k, u)' = Sole(OwnersOf(k, u)')
    BY DEF OwnerOf, Map!Nobody
  <2> HIDE DEF Sole
  <2> QED BY <1>1, <2>1
<1> QED BY <1>2 DEF Row

\* The row that a step leaves of a rack is known from who has each U after it.
LEMMA RowAfter ==
  ASSUME OwnersKnown', NEW k \in Racks, size'[k] \in Int, NEW row,
         row = [u \in 1..size'[k] |-> row[u]],
         \A u \in 1..size'[k] : OwnersOf(k, u)' = IF row[u] = Map!Nobody THEN {} ELSE {row[u]}
  PROVE  Row(k)' = row
<1>1. ASSUME NEW u \in 1..size'[k] PROVE OwnerOf(k, u)' = row[u]
  <2>1. OwnersOf(k, u)' = IF OwnerOf(k, u)' = Map!Nobody THEN {} ELSE {OwnerOf(k, u)'}
    BY DEF OwnersKnown
  <2> QED BY <2>1
<1>2. Row(k)' = [u \in 1..size'[k] |-> OwnerOf(k, u)'] BY DEF Row
<1> QED BY <1>1, <1>2

\* A placement that commits mounts the device in U that are available to it.
LEMMA PlaceMaps ==
  ASSUME PlacementInv, OwnersKnown, OwnersKnown', NEW w \in Workers, CommitPlace(w)
  PROVE  \E a \in Assets, k \in Racks : \E lo, hi \in DOMAIN Row(k) : Map!Mount(a, k, lo, hi)
<1>1. PICK q : q = job[w] OBVIOUS
<1>2. TypeOK /\ Sound /\ Settled(w) BY DEF PlacementInv
<1>3. q.kind = "place" /\ pc[w] = "commit" BY <1>1 DEF CommitPlace, At
<1>4. q \in Requests /\ q.rack \in Racks /\ q.asset \in Assets /\ q.lo \in Int /\ q.hi \in Int
  BY <1>1, <1>2, <1>3, JobFields, RequestFields DEF OnRack, OfAsset
<1>5. Placeable(q) /\ seen[w] = CenterOf(q.rack) BY <1>1, <1>2, <1>3 DEF Settled
<1>6. /\ alloc' = [alloc EXCEPT ![q.asset] = Wanted(q)]
      /\ located' = [located EXCEPT ![q.asset] = CenterOf(q.rack)]
      /\ holds' = holds \ Consumed(q)
      /\ UNCHANGED <<facilities, retired>>
  BY <1>1, <1>5 DEF CommitPlace
<1>7. q.lo <= q.hi /\ Usable(q.rack) /\ q.asset \notin retired
      /\ Units(q) \subseteq FreeUnits(Rows(q.rack, q.asset) \ Consumed(q), size[q.rack])
  BY <1>5 DEF Placeable
<1> DEFINE k == q.rack  a == q.asset  lo == q.lo  hi == q.hi
           mine == {Map!Device(a), Map!Hold(lo, hi)}
<1>8. Map!Available(Row(k), lo, hi, mine) /\ lo \in 1..size[k] /\ hi \in 1..size[k]
  <2> DEFINE rows == Rows(k, a) \ Consumed(q)
  <2>1. ASSUME NEW u \in Int, NEW x \in OwnersOf(k, u) \ mine
        PROVE  \E y \in rows : y.lo \in Int /\ y.hi \in Int /\ u \in Units(y)
    <3>1. CASE \E b \in On(k) : x = Map!Device(b) /\ u \in Units(alloc[b])
      <4>1. PICK b \in On(k) : x = Map!Device(b) /\ u \in Units(alloc[b]) BY <3>1
      <4>2. b # a BY <4>1
      <4>3. alloc[b] \in Rows(k, a) BY <4>2 DEF Rows
      <4>4. alloc[b] \notin Consumed(q)
        <5>1. SUFFICES ASSUME alloc[b] \in Consumed(q) PROVE FALSE OBVIOUS
        <5>2. alloc[b] \in Held(k) BY <1>5, <5>1 DEF Placeable, Held, On
        <5>3. ~Overlap(alloc[b], alloc[b]) BY <1>2, <1>4, <5>2 DEF Sound, RackSound
        <5> QED BY <1>2, <1>4, <5>3, SpansOf DEF Overlap
      <4> QED BY <1>2, <1>4, <4>1, <4>3, <4>4, SpansOf
    <3>2. CASE \E h \in Held(k) : x = Map!Hold(h.lo, h.hi) /\ u \in Units(h)
      <4>1. PICK h \in Held(k) : x = Map!Hold(h.lo, h.hi) /\ u \in Units(h) BY <3>2
      <4>2. h \notin Consumed(q) BY <4>1 DEF Consumed, Wanted
      <4> QED BY <1>2, <1>4, <4>1, <4>2, SpansOf DEF Rows
    <3> QED BY <3>1, <3>2, OwnersAre
  <2>2. lo..hi \subseteq FreeUnits(rows, size[k]) BY <1>7 DEF Units
  <2> HIDE DEF rows, mine
  <2> QED BY <1>2, <1>4, <1>7, <2>1, <2>2, FreeIsAvailable
<1>9. size' = size /\ Map!Device(a) # Map!Nobody BY <1>6 DEF facilities, Map!Device, Map!Nobody
<1>10. alloc'[a] = Wanted(q) /\ \A b \in Assets \ {a} : alloc'[b] = alloc[b] BY <1>2, <1>4, <1>6 DEF TypeOK
<1>11. Wanted(q).rack = k /\ Units(Wanted(q)) = lo..hi BY DEF Wanted, Units
<1>12. ASSUME NEW j \in Racks, NEW u \in Int
       PROVE  OwnersOf(j, u)' = IF j = k /\ u \in lo..hi THEN {Map!Device(a)}
                                ELSE OwnersOf(j, u) \ {Map!Device(a)}
  <2> DEFINE mineNow == j = k /\ u \in lo..hi
             left == OwnersOf(j, u) \ {Map!Device(a)}
  <2>1. ASSUME NEW x
        PROVE  x \in OwnersOf(j, u)' <=>
                 \/ \E b \in On(j)' : x = Map!Device(b) /\ u \in Units(alloc'[b])
                 \/ \E h \in Held(j)' : x = Map!Hold(h.lo, h.hi) /\ u \in Units(h)
    BY DEF OwnersOf, Map!Device, Map!Hold
  <2>2. Map!Device(a) \in OwnersOf(j, u)' <=> mineNow
    <3>1. Map!Device(a) \in OwnersOf(j, u)' <=> a \in On(j)' /\ u \in Units(alloc'[a])
      BY <2>1 DEF Map!Device, Map!Hold
    <3> QED BY <1>4, <1>10, <1>11, <3>1 DEF On
  <2>3. CASE mineNow
    <3>1. OwnersOf(j, u)' = IF OwnerOf(j, u)' = Map!Nobody THEN {} ELSE {OwnerOf(j, u)'}
      BY DEF OwnersKnown
    <3> QED BY <2>2, <2>3, <3>1
  <2>4. CASE ~mineNow
    <3>1. ASSUME NEW b \in Assets \ {a} PROVE b \in On(j)' <=> b \in On(j) BY <1>10 DEF On
    <3>2. ASSUME NEW h, u \in Units(h) PROVE h \in Held(j)' <=> h \in Held(j)
      BY <1>6, <1>11, <2>4, <3>2 DEF Held, Consumed
    <3>3. ASSUME NEW x, x # Map!Device(a) PROVE x \in OwnersOf(j, u)' <=> x \in OwnersOf(j, u)
      <4>1. (\E b \in On(j)' : x = Map!Device(b) /\ u \in Units(alloc'[b]))
            <=> \E b \in On(j) : x = Map!Device(b) /\ u \in Units(alloc[b])
        BY <1>10, <3>1, <3>3 DEF On
      <4>2. (\E h \in Held(j)' : x = Map!Hold(h.lo, h.hi) /\ u \in Units(h))
            <=> \E h \in Held(j) : x = Map!Hold(h.lo, h.hi) /\ u \in Units(h)
        BY <3>2
      <4> QED BY <2>1, <4>1, <4>2, OwnersAre
    <3> QED BY <2>2, <2>4, <3>3
  <2> QED BY <2>3, <2>4
<1>13. ASSUME NEW j \in Racks
       PROVE  Row(j)' = IF j = k THEN Map!With(Map!Without(Row(k), Map!Device(a)), lo, hi, Map!Device(a))
                        ELSE Map!Without(Row(j), Map!Device(a))
  <2> DEFINE row == IF j = k THEN Map!With(Map!Without(Row(k), Map!Device(a)), lo, hi, Map!Device(a))
                     ELSE Map!Without(Row(j), Map!Device(a))
  <2>1. DOMAIN Row(j) = 1..size[j] /\ size[j] \in Int BY <1>2, SpansOf DEF Row
  <2>2. row = [u \in 1..size[j] |-> row[u]] BY <2>1 DEF Map!With, Map!Without
  <2>3. \A u \in 1..size[j] : OwnersOf(j, u)' = IF row[u] = Map!Nobody THEN {} ELSE {row[u]}
    <3> SUFFICES ASSUME NEW u \in 1..size[j]
                 PROVE  OwnersOf(j, u)' = IF row[u] = Map!Nobody THEN {} ELSE {row[u]}
      OBVIOUS
    <3>1. row[u] = IF j = k /\ u \in lo..hi THEN Map!Device(a)
                   ELSE IF OwnerOf(j, u) = Map!Device(a) THEN Map!Nobody ELSE OwnerOf(j, u)
      BY <2>1 DEF Row, Map!With, Map!Without
    <3>2. u \in Int BY <2>1
    <3>3. OwnersOf(j, u) = IF OwnerOf(j, u) = Map!Nobody THEN {} ELSE {OwnerOf(j, u)}
      BY <3>2 DEF OwnersKnown
    <3> QED BY <1>9, <1>12, <3>1, <3>2, <3>3
  <2> HIDE DEF row
  <2>4. Row(j)' = row BY <1>9, <2>1, <2>2, <2>3, RowAfter
  <2> QED BY <2>4 DEF row
<1>14. \A j \in Racks : CenterOf(j)' = CenterOf(j) /\ (Usable(j)' <=> Usable(j))
  BY <1>6 DEF facilities, CenterOf, Usable
<1>15. Map!Mount(a, k, lo, hi)
  BY <1>4, <1>6, <1>7, <1>8, <1>13, <1>14 DEF Map!Mount
<1>16. lo \in DOMAIN Row(k) /\ hi \in DOMAIN Row(k) BY <1>8 DEF Row
<1> QED BY <1>4, <1>15, <1>16

\* A removal unmounts the device, wherever it says that it is now.
LEMMA RemoveMaps ==
  ASSUME PlacementInv, OwnersKnown, OwnersKnown', NEW w \in Workers, CommitRemove(w)
  PROVE  \E a \in Assets : Map!Unmount(a)
<1>1. TypeOK BY DEF PlacementInv
<1>2. PICK a \in Assets : a = job[w].asset BY <1>1, JobFields DEF CommitRemove, At, OfAsset
<1>3. /\ alloc' = [alloc EXCEPT ![a] = Unmounted]
      /\ \A b \in Assets \ {a} : located'[b] = located[b]
      /\ UNCHANGED <<facilities, retired, holds>>
  BY <1>1, <1>2 DEF CommitRemove, TypeOK
<1>4. \A k \in Racks : k # 0 BY RackKeys
<1>5. ASSUME NEW k \in Racks, NEW u \in Int
      PROVE  OwnersOf(k, u)' = OwnersOf(k, u) \ {Map!Device(a)}
  <2>1. On(k)' = On(k) \ {a} /\ \A b \in On(k) \ {a} : alloc'[b] = alloc[b]
    BY <1>1, <1>3, <1>4 DEF On, Unmounted, TypeOK
  <2>2. Held(k)' = Held(k) BY <1>3 DEF Held
  <2>3. ASSUME NEW x
        PROVE  x \in OwnersOf(k, u)' <=>
                 \/ \E b \in On(k)' : x = Map!Device(b) /\ u \in Units(alloc'[b])
                 \/ \E h \in Held(k)' : x = Map!Hold(h.lo, h.hi) /\ u \in Units(h)
    BY DEF OwnersOf, Map!Device, Map!Hold
  <2>4. \A b : Map!Device(b) = Map!Device(a) <=> b = a BY DEF Map!Device
  <2>5. \A lo, hi : Map!Hold(lo, hi) # Map!Device(a) BY DEF Map!Device, Map!Hold
  <2>6. ASSUME NEW x PROVE x \in OwnersOf(k, u)' <=> x \in OwnersOf(k, u) /\ x # Map!Device(a)
    BY <2>1, <2>2, <2>3, <2>4, <2>5, OwnersAre
  <2> QED BY <2>6
<1>6. ASSUME NEW k \in Racks PROVE Row(k)' = Map!Without(Row(k), Map!Device(a))
  <2> DEFINE row == Map!Without(Row(k), Map!Device(a))
  <2>1. DOMAIN Row(k) = 1..size[k] /\ size[k] \in Int /\ size' = size BY <1>1, <1>3 DEF Row, TypeOK, facilities
  <2>2. row = [u \in 1..size[k] |-> row[u]] BY <2>1 DEF Map!Without
  <2>3. \A u \in 1..size[k] : OwnersOf(k, u)' = IF row[u] = Map!Nobody THEN {} ELSE {row[u]}
    <3> SUFFICES ASSUME NEW u \in 1..size[k]
                 PROVE  OwnersOf(k, u)' = IF row[u] = Map!Nobody THEN {} ELSE {row[u]}
      OBVIOUS
    <3>1. row[u] = IF OwnerOf(k, u) = Map!Device(a) THEN Map!Nobody ELSE OwnerOf(k, u)
      BY <2>1 DEF Row, Map!Without
    <3>2. u \in Int BY <2>1
    <3>3. OwnersOf(k, u) = IF OwnerOf(k, u) = Map!Nobody THEN {} ELSE {OwnerOf(k, u)}
      BY <3>2 DEF OwnersKnown
    <3> QED BY <1>5, <3>1, <3>2, <3>3
  <2> HIDE DEF row
  <2>4. Row(k)' = row BY <2>1, <2>2, <2>3, RowAfter
  <2> QED BY <2>4 DEF row
<1>7. [k \in Racks |-> Row(k)]' = [k \in Racks |-> Map!Without([j \in Racks |-> Row(j)][k], Map!Device(a))]
  BY <1>6
<1> QED BY <1>2, <1>3, <1>7, SameSites DEF Map!Unmount

\* A retirement is of a device that has no U.
LEMMA RetireMaps ==
  ASSUME PlacementInv, NEW w \in Workers, CommitRetire(w)
  PROVE  \E a \in Assets : Map!Retire(a)
<1>1. TypeOK /\ Sound BY DEF PlacementInv
<1>2. PICK a \in Assets : a = job[w].asset BY <1>1, JobFields DEF CommitRetire, At, OfAsset
<1>3. /\ ~Mounted(a) /\ retired' = retired \cup {a}
      /\ UNCHANGED <<facilities, alloc, located, holds>>
  BY <1>2 DEF CommitRetire
<1>4. \A k \in Racks : a \notin On(k) BY <1>1, <1>3, SpansOf
<1>5. \A k \in Racks : ~Map!Has(Row(k), Map!Device(a)) BY <1>1, <1>4, RowHas
<1>6. [k \in Racks |-> Row(k)]' = [k \in Racks |-> Row(k)] BY <1>3, SameRows DEF facilities
<1> QED BY <1>2, <1>3, <1>5, <1>6, SameSites DEF Map!Retire

\* A hold takes available U, and a release gives back all that it had.
LEMMA HoldMaps ==
  ASSUME PlacementInv, OwnersKnown, OwnersKnown', NEW w \in Workers, Reserve(w) \/ Release(w)
  PROVE  \E k \in Racks : \E lo, hi \in DOMAIN Row(k) : Map!Reserve(k, lo, hi) \/ Map!Release(k, lo, hi)
<1>1. TypeOK /\ Sound BY DEF PlacementInv
<1>2. PICK q : q = job[w] OBVIOUS
<1>3. q.kind \in {"reserve", "release"} BY <1>2 DEF Reserve, Release, At
<1>4. q \in Requests /\ q.rack \in Racks /\ q.lo \in Int /\ q.hi \in Int
  BY <1>1, <1>2, <1>3, JobFields, RequestFields DEF OnRack
<1> DEFINE k == q.rack  lo == q.lo  hi == q.hi  x == Map!Hold(lo, hi)
<1>5. UNCHANGED <<facilities, alloc, located, retired>> /\ size' = size
  BY DEF Reserve, Release, facilities
<1>6. /\ Wanted(q).rack = k /\ Wanted(q).lo = lo /\ Wanted(q).hi = hi /\ Units(Wanted(q)) = lo..hi
  BY DEF Wanted, Units
<1>7. x # Map!Nobody BY DEF Map!Hold, Map!Nobody
<1>8. \A j \in Racks : On(j)' = On(j) BY <1>5 DEF On
<1>9. \A j \in Racks, u \in Int : \A y :
        y \in OwnersOf(j, u)' <=>
           \/ \E b \in On(j) : y = Map!Device(b) /\ u \in Units(alloc[b])
           \/ \E h \in Held(j)' : y = Map!Hold(h.lo, h.hi) /\ u \in Units(h)
  BY <1>5, <1>8 DEF OwnersOf, Map!Device, Map!Hold
<1>10. \A b : Map!Device(b) # x BY DEF Map!Device, Map!Hold
<1>11. \A h \in holds \cup holds' : x = Map!Hold(h.lo, h.hi) /\ h.rack = k => h = Wanted(q)
  <2>1. holds' \subseteq holds \cup {Wanted(q)} BY <1>2 DEF Reserve, Release
  <2>2. \A h \in holds \cup holds' : h = [rack |-> h.rack, lo |-> h.lo, hi |-> h.hi]
    BY <1>1, <2>1 DEF TypeOK, Wanted
  <2> QED BY <2>2 DEF Map!Hold, Wanted
<1>12. CASE Reserve(w)
  <2>1. /\ Usable(k) /\ lo <= hi /\ Units(q) \subseteq FreeUnits(Rows(k, 0), size[k])
        /\ holds' = holds \cup {Wanted(q)}
    BY <1>2, <1>12 DEF Reserve
  <2>2. Map!Available(Row(k), lo, hi, {}) /\ lo \in 1..size[k] /\ hi \in 1..size[k]
    <3> DEFINE rows == Rows(k, 0)  mine == {}
    <3>1. ASSUME NEW u \in Int, NEW y \in OwnersOf(k, u) \ mine
          PROVE  \E z \in rows : z.lo \in Int /\ z.hi \in Int /\ u \in Units(z)
      <4>1. 0 \notin Assets BY RackKeys
      <4>2. /\ \A b \in On(k) : alloc[b] \in rows /\ alloc[b].lo \in Int /\ alloc[b].hi \in Int
            /\ \A h \in Held(k) : h \in rows /\ h.lo \in Int /\ h.hi \in Int
        BY <1>1, <1>4, <4>1, SpansOf DEF Rows, On
      <4> QED BY <4>2, OwnersAre
    <3>2. lo..hi \subseteq FreeUnits(rows, size[k]) BY <2>1 DEF Units
    <3> HIDE DEF rows, mine
    <3>3. Map!Available(Row(k), lo, hi, mine) /\ lo \in 1..size[k] /\ hi \in 1..size[k]
      BY <1>1, <1>4, <2>1, <3>1, <3>2, FreeIsAvailable
    <3> QED BY <3>3 DEF mine
  <2>3. ASSUME NEW j \in Racks, NEW u \in Int
        PROVE  OwnersOf(j, u)' = IF j = k /\ u \in lo..hi THEN {x} ELSE OwnersOf(j, u) \ {}
    <3>1. CASE j = k /\ u \in lo..hi
      <4>1. Wanted(q) \in Held(j)' /\ u \in Units(Wanted(q)) BY <1>6, <2>1, <3>1 DEF Held
      <4>2. x \in OwnersOf(j, u)' BY <1>6, <1>9, <4>1
      <4>3. OwnersOf(j, u)' = IF OwnerOf(j, u)' = Map!Nobody THEN {} ELSE {OwnerOf(j, u)'}
        BY DEF OwnersKnown
      <4> QED BY <3>1, <4>2, <4>3
    <3>2. CASE ~(j = k /\ u \in lo..hi)
      <4>1. ASSUME NEW h, u \in Units(h) PROVE h \in Held(j)' <=> h \in Held(j)
        BY <1>6, <2>1, <3>2, <4>1 DEF Held
      <4>2. ASSUME NEW y PROVE y \in OwnersOf(j, u)' <=> y \in OwnersOf(j, u)
        BY <1>9, <4>1, OwnersAre
      <4> QED BY <3>2, <4>2
    <3> QED BY <3>1, <3>2
  <2>4. ASSUME NEW j \in Racks
        PROVE  Row(j)' = IF j = k THEN Map!With(Row(k), lo, hi, x) ELSE Row(j)
    <3> DEFINE row == IF j = k THEN Map!With(Row(k), lo, hi, x) ELSE Row(j)
    <3>1. DOMAIN Row(j) = 1..size[j] /\ size[j] \in Int BY <1>1, SpansOf DEF Row
    <3>2. row = [u \in 1..size[j] |-> row[u]] BY <3>1 DEF Row, Map!With
    <3>3. \A u \in 1..size[j] : OwnersOf(j, u)' = IF row[u] = Map!Nobody THEN {} ELSE {row[u]}
      <4> SUFFICES ASSUME NEW u \in 1..size[j]
                   PROVE  OwnersOf(j, u)' = IF row[u] = Map!Nobody THEN {} ELSE {row[u]}
        OBVIOUS
      <4>1. row[u] = IF j = k /\ u \in lo..hi THEN x ELSE OwnerOf(j, u)
        BY <3>1 DEF Row, Map!With
      <4>2. u \in Int BY <3>1
      <4>3. OwnersOf(j, u) = IF OwnerOf(j, u) = Map!Nobody THEN {} ELSE {OwnerOf(j, u)}
        BY <4>2 DEF OwnersKnown
      <4> HIDE DEF row, x
      <4> QED BY <1>7, <2>3, <4>1, <4>2, <4>3
    <3> HIDE DEF row
    <3>4. Row(j)' = row BY <1>5, <3>1, <3>2, <3>3, RowAfter
    <3> QED BY <3>4 DEF row
  <2>5. [j \in Racks |-> Row(j)]' =
          [[j \in Racks |-> Row(j)] EXCEPT ![k] = Map!With(@, lo, hi, Map!Hold(lo, hi))]
    BY <1>4, <2>4
  <2>6. Map!Reserve(k, lo, hi)
    BY <1>4, <1>5, <2>1, <2>2, <2>5, SameSites DEF Map!Reserve
  <2> QED BY <1>4, <2>2, <2>6 DEF Row
<1>13. CASE Release(w)
  <2>1. Wanted(q) \in holds /\ holds' = holds \ {Wanted(q)} BY <1>2, <1>13 DEF Release
  <2>2. Wanted(q) \in Held(k) BY <1>6, <2>1 DEF Held
  <2>3. Map!Has(Row(k), x) /\ lo \in 1..size[k] /\ hi \in 1..size[k]
    BY <1>1, <1>4, <1>6, <2>2, RowHas, SpansOf
  <2>4. ASSUME NEW j \in Racks, NEW u \in Int
        PROVE  OwnersOf(j, u)' = OwnersOf(j, u) \ (IF j = k THEN {x} ELSE {})
    <3>1. CASE j # k
      <4>1. Held(j)' = Held(j) BY <1>6, <2>1, <3>1 DEF Held
      <4>2. \A y : y \in OwnersOf(j, u)' <=> y \in OwnersOf(j, u) BY <1>9, <4>1, OwnersAre
      <4> QED BY <3>1, <4>2
    <3>2. CASE j = k
      <4>1. Held(j)' = Held(j) \ {Wanted(q)} BY <2>1 DEF Held
      <4>2. \A h \in Held(j) : x = Map!Hold(h.lo, h.hi) <=> h = Wanted(q)
        BY <1>6, <1>11, <3>2 DEF Held
      <4>3. ASSUME NEW y PROVE y \in OwnersOf(j, u)' <=> y \in OwnersOf(j, u) /\ y # x
        BY <1>9, <1>10, <4>1, <4>2, OwnersAre
      <4> QED BY <3>2, <4>3
    <3> QED BY <3>1, <3>2
  <2>5. ASSUME NEW j \in Racks
        PROVE  Row(j)' = IF j = k THEN Map!Without(Row(k), x) ELSE Row(j)
    <3> DEFINE row == IF j = k THEN Map!Without(Row(k), x) ELSE Row(j)
    <3>1. DOMAIN Row(j) = 1..size[j] /\ size[j] \in Int BY <1>1, SpansOf DEF Row
    <3>2. row = [u \in 1..size[j] |-> row[u]] BY <3>1 DEF Row, Map!Without
    <3>3. \A u \in 1..size[j] : OwnersOf(j, u)' = IF row[u] = Map!Nobody THEN {} ELSE {row[u]}
      <4> SUFFICES ASSUME NEW u \in 1..size[j]
                   PROVE  OwnersOf(j, u)' = IF row[u] = Map!Nobody THEN {} ELSE {row[u]}
        OBVIOUS
      <4>1. row[u] = IF j = k /\ OwnerOf(j, u) = x THEN Map!Nobody ELSE OwnerOf(j, u)
        BY <3>1 DEF Row, Map!Without
      <4>2. u \in Int BY <3>1
      <4>3. OwnersOf(j, u) = IF OwnerOf(j, u) = Map!Nobody THEN {} ELSE {OwnerOf(j, u)}
        BY <4>2 DEF OwnersKnown
      <4> HIDE DEF row, x
      <4> QED BY <1>7, <2>4, <4>1, <4>2, <4>3
    <3> HIDE DEF row
    <3>4. Row(j)' = row BY <1>5, <3>1, <3>2, <3>3, RowAfter
    <3> QED BY <3>4 DEF row
  <2>6. [j \in Racks |-> Row(j)]' =
          [[j \in Racks |-> Row(j)] EXCEPT ![k] = Map!Without(@, Map!Hold(lo, hi))]
    BY <1>4, <2>5
  <2>7. Map!Release(k, lo, hi)
    BY <1>4, <1>5, <2>3, <2>6, SameSites DEF Map!Release
  <2> QED BY <1>4, <2>3, <2>7 DEF Row
<1> QED BY <1>12, <1>13

\* A patch of a rack cuts its row where no one has a U, and carries its devices along.
LEMMA RackMaps ==
  ASSUME PlacementInv, OwnersKnown, OwnersKnown', size' \in [Racks -> Nat \ {0}],
         NEW w \in Workers, CommitRack(w)
  PROVE  \E k \in Racks, c \in Centers :
           \E n \in {q.size : q \in {p \in Requests : p.kind = "rack"}} : Map!Refit(k, n, c)
<1>1. TypeOK /\ Sound /\ Settled(w) BY DEF PlacementInv
<1>2. PICK q : q = job[w] OBVIOUS
<1>3. q.kind = "rack" /\ pc[w] = "commit" BY <1>2 DEF CommitRack, At
<1>4. q \in Requests /\ q.rack \in Racks /\ q.room \in Rooms /\ q.size \in Nat \ {0}
  BY <1>1, <1>2, <1>3, JobFields, RequestFields DEF OnRack
<1>5. Shrinkable(q) /\ seen[w] = center[q.room] BY <1>1, <1>2, <1>3 DEF Settled
<1> DEFINE k == q.rack  n == q.size  c == center[q.room]
<1>6. /\ located' = [a \in Assets |-> IF q.room # room[k] /\ a \in On(k) THEN c ELSE located[a]]
      /\ room' = [room EXCEPT ![k] = q.room]
      /\ size' = [size EXCEPT ![k] = n]
      /\ UNCHANGED <<center, alloc, retired, holds>>
  BY <1>2, <1>5 DEF CommitRack, Relocate
<1>7. c \in Centers BY <1>1, <1>4 DEF TypeOK
<1>8. size'[k] = n /\ room'[k] = q.room /\ \A j \in Racks \ {k} : size'[j] = size[j] /\ room'[j] = room[j]
  BY <1>1, <1>4, <1>6 DEF TypeOK
<1>9. \A j \in Racks : \A u : OwnersOf(j, u)' = OwnersOf(j, u) BY <1>6 DEF OwnersOf, On, Held
<1>10. \A u \in 1..size[k] : u > n => OwnersOf(k, u) = {}
  <2>1. size[k] \in Int /\ n \in Int BY <1>1, <1>4, SpansOf
  <2>2. /\ \A a \in On(k) : alloc[a].hi \in Int /\ alloc[a].hi <= n
        /\ \A h \in Held(k) : h.hi \in Int /\ h.hi <= n
    BY <1>1, <1>4, <1>5, SpansOf DEF Shrinkable, Highest
  <2>3. ASSUME NEW u \in 1..size[k], u > n, NEW x \in OwnersOf(k, u) PROVE FALSE
    <3>1. u \in Int BY <2>1
    <3>2. CASE \E a \in On(k) : u \in Units(alloc[a]) BY <1>1, <1>4, <2>1, <2>2, <2>3, <3>1, <3>2, SpansOf DEF Units
    <3>3. CASE \E h \in Held(k) : u \in Units(h) BY <1>1, <1>4, <2>1, <2>2, <2>3, <3>1, <3>3, SpansOf DEF Units
    <3> QED BY <2>3, <3>2, <3>3, OwnersAre
  <2> QED BY <2>3
<1>11. \A u \in Int : u \notin 1..size[k] => OwnersOf(k, u) = {}
  <2>1. ASSUME NEW u \in Int, u \notin 1..size[k], NEW x \in OwnersOf(k, u) PROVE FALSE
    BY <1>1, <1>4, <2>1, OwnersAre, SpansOf DEF Units
  <2> QED BY <2>1
<1>12. \A u \in DOMAIN Row(k) : u > n => Row(k)[u] = Map!Nobody
  <2>1. DOMAIN Row(k) = 1..size[k] /\ \A u \in 1..size[k] : u \in Int /\ Row(k)[u] = OwnerOf(k, u)
    BY <1>1, <1>4, SpansOf DEF Row
  <2> QED BY <1>4, <1>10, <2>1 DEF OwnersKnown
<1>13. ASSUME NEW j \in Racks PROVE Row(j)' = IF j = k THEN Map!Resized(Row(k), n) ELSE Row(j)
  <2> DEFINE row == IF j = k THEN Map!Resized(Row(k), n) ELSE Row(j)
  <2>1. /\ DOMAIN Row(j) = 1..size[j] /\ size[j] \in Int
        /\ size'[j] = (IF j = k THEN n ELSE size[j]) /\ size'[j] \in Int
    BY <1>1, <1>4, <1>8, SpansOf DEF Row
  <2>2. row = [u \in 1..size'[j] |-> row[u]] BY <2>1 DEF Row, Map!Resized
  <2>3. \A u \in 1..size'[j] : OwnersOf(j, u)' = IF row[u] = Map!Nobody THEN {} ELSE {row[u]}
    <3> SUFFICES ASSUME NEW u \in 1..size'[j]
                 PROVE  OwnersOf(j, u) = IF row[u] = Map!Nobody THEN {} ELSE {row[u]}
      BY <1>9
    <3>1. row[u] = IF u \in 1..size[j] THEN OwnerOf(j, u) ELSE Map!Nobody
      BY <2>1 DEF Row, Map!Resized
    <3>2. u \in Int BY <2>1
    <3>3. OwnersOf(j, u) = IF OwnerOf(j, u) = Map!Nobody THEN {} ELSE {OwnerOf(j, u)}
      BY <3>2 DEF OwnersKnown
    <3>4. u \in 1..size[j] \/ (j = k /\ OwnersOf(k, u) = {}) BY <1>11, <2>1, <3>2
    <3> HIDE DEF row
    <3> QED BY <3>1, <3>3, <3>4
  <2> HIDE DEF row
  <2>4. Row(j)' = row BY <2>1, <2>2, <2>3, RowAfter
  <2> QED BY <2>4 DEF row
<1>14. [j \in Racks |-> Row(j)]' =
         [[j \in Racks |-> Row(j)] EXCEPT ![k] = Map!Resized(@, n)]
  BY <1>4, <1>13
<1>15. [j \in Racks |-> CenterOf(j)]' = [j \in Racks |-> IF j \in {k} THEN c ELSE CenterOf(j)]
  BY <1>6, <1>8 DEF CenterOf
<1>16. located' = [a \in Assets |-> IF \E j \in {k} : Map!Has(Row(j), Map!Device(a)) THEN c ELSE located[a]]
  <2>1. \A a \in Assets : Map!Has(Row(k), Map!Device(a)) <=> a \in On(k) BY <1>1, <1>4, RowHas
  <2>2. \A a \in On(k) : located[a] = center[room[k]]
    BY <1>1, <1>4, SpansOf DEF Sound, LocatedByRack, On, CenterOf
  <2> QED BY <1>6, <2>1, <2>2
<1>17. Map!Carry({k}, c)
  BY <1>4, <1>6, <1>15, <1>16 DEF Map!Carry
<1>18. Map!Refit(k, n, c) BY <1>4, <1>12, <1>14, <1>17 DEF Map!Refit
<1> QED BY <1>3, <1>4, <1>7, <1>18

\* A patch of a room, or of a center, leaves the rows and moves what is in its racks.
LEMMA RoomMaps ==
  ASSUME PlacementInv, NEW w \in Workers, CommitRoom(w) \/ CommitCenter(w)
  PROVE  \E racks \in SUBSET Racks, c \in Centers : Map!Rearrange(racks, c)
<1>1. TypeOK /\ Sound BY DEF PlacementInv
<1>2. PICK q : q = job[w] OBVIOUS
<1>3. UNCHANGED <<room, size, alloc, retired, holds>>
  BY DEF CommitRoom, CommitCenter, placement
<1>4. [k \in Racks |-> Row(k)]' = [k \in Racks |-> Row(k)] BY <1>3, SameRows
<1>5. CASE CommitRoom(w)
  <2>1. q.kind = "room" /\ q \in Requests /\ q.room \in Rooms /\ q.center \in Centers
    <3>1. q.kind = "room" BY <1>2, <1>5 DEF CommitRoom, At
    <3>2. q \in Requests BY <1>1, <1>2, <3>1 DEF TypeOK, Idle
    <3> QED BY <3>1, <3>2, RequestFields
  <2> DEFINE racks == In(q.room)  c == q.center
  <2>2. /\ located' = [a \in Assets |-> IF c # center[q.room] /\ a \in AssetsIn(q.room)
                                        THEN c ELSE located[a]]
        /\ center' = [center EXCEPT ![q.room] = c]
    BY <1>2, <1>5 DEF CommitRoom, Relocate
  <2>3. \A k \in Racks : room[k] \in Rooms BY <1>1 DEF TypeOK
  <2>4. [k \in Racks |-> CenterOf(k)]' = [k \in Racks |-> IF k \in racks THEN c ELSE CenterOf(k)]
    BY <1>1, <1>3, <2>1, <2>2, <2>3 DEF CenterOf, In, TypeOK
  <2>5. \A a \in Assets : (\E k \in racks : Map!Has(Row(k), Map!Device(a))) <=> a \in AssetsIn(q.room)
    BY <1>1, RowHas DEF In, AssetsIn
  <2>6. \A a \in AssetsIn(q.room) : located[a] = center[q.room]
    BY <1>1, SpansOf DEF Sound, LocatedByRack, AssetsIn, On, In, CenterOf
  <2>7. located' = [a \in Assets |-> IF \E k \in racks : Map!Has(Row(k), Map!Device(a)) THEN c ELSE located[a]]
    BY <2>2, <2>5, <2>6
  <2>8. \A k \in racks : k \in Racks BY DEF In
  <2>9. Map!Carry(racks, c)
    BY <1>3, <2>4, <2>7, <2>8 DEF Map!Carry
  <2>10. Map!Rearrange(racks, c) BY <1>4, <2>9 DEF Map!Rearrange
  <2> QED BY <2>1, <2>8, <2>10
<1>6. CASE CommitCenter(w)
  <2>1. q.center \in Centers
    <3>1. q.kind = "center" BY <1>2, <1>6 DEF CommitCenter, At
    <3>2. q \in Requests BY <1>1, <1>2, <3>1 DEF TypeOK, Idle
    <3> QED BY <3>1, <3>2, RequestFields
  <2>2. UNCHANGED <<center, room, located, retired>> BY <1>6 DEF CommitCenter, placement
  <2>3. located' = [a \in Assets |-> located[a]] BY <1>1, <2>2 DEF TypeOK
  <2>4. \A k \in Racks : CenterOf(k)' = CenterOf(k) BY <2>2 DEF CenterOf
  <2>5. Map!Carry({}, q.center) BY <2>2, <2>3, <2>4 DEF Map!Carry
  <2>6. Map!Rearrange({}, q.center) BY <1>4, <2>5 DEF Map!Rearrange
  <2> QED BY <2>1, <2>6
<1> QED BY <1>5, <1>6

\* Every behaviour of the transactions on spans is one of the map of racks: each
\* commit is one step of it, and the steps before leave it as it is.
THEOREM ImplementsMap == Spec => MapSpec
<1>1. Init => Map!Init
  <2> SUFFICES ASSUME Init PROVE Map!Init OBVIOUS
  <2>1. \A k \in Racks : k # 0 BY RackKeys
  <2>2. \A k \in Racks : \A u : OwnersOf(k, u) = {}
    BY <2>1 DEF Init, OwnersOf, On, Held, Unmounted
  <2>3. \A k \in Racks : \A u \in DOMAIN Row(k) : Row(k)[u] = Map!Nobody
    BY <2>2 DEF Row, OwnerOf, Map!Nobody
  <2>4. \A k \in Racks : room[k] \in Rooms /\ center[room[k]] \in Centers BY RackKeys DEF Init
  <2>5. \A k \in Racks : Usable(k) BY <2>4 DEF Init, Usable, CenterOf, Facilities
  <2> QED BY <2>3, <2>5 DEF Init, Map!Init
<1>2. PlacementInv => OwnersKnown BY OwnersAreKnown DEF PlacementInv
<1>3. PlacementInv /\ PlacementInv' /\ OwnersKnown /\ OwnersKnown' /\ [Next]_vars
      => [Map!Next]_(Map!vars)
  <2> SUFFICES ASSUME PlacementInv, PlacementInv', OwnersKnown, OwnersKnown', [Next]_vars
               PROVE  Map!Next \/ UNCHANGED Map!vars
    OBVIOUS
  <2>1. CASE UNCHANGED <<facilities, placement>>
    <3>1. [k \in Racks |-> Row(k)]' = [k \in Racks |-> Row(k)]
      BY <2>1, SameRows DEF facilities, placement
    <3> QED BY <2>1, <3>1, SameSites DEF placement, Map!vars
  <2>2. CASE UNCHANGED vars BY <2>1, <2>2 DEF vars
  <2>3. CASE \E w \in Workers : Step(w)
    <3>1. PICK w \in Workers : Step(w) BY <2>3
    <3>2. size' \in [Racks -> Nat \ {0}] BY DEF PlacementInv, TypeOK
    <3> DEFINE Mounts == \E a \in Assets, k \in Racks : \E lo, hi \in DOMAIN Row(k) : Map!Mount(a, k, lo, hi)
               Holds == \E k \in Racks : \E lo, hi \in DOMAIN Row(k) :
                          Map!Reserve(k, lo, hi) \/ Map!Release(k, lo, hi)
               Refits == \E k \in Racks, c \in Centers :
                           \E n \in {q.size : q \in {p \in Requests : p.kind = "rack"}} : Map!Refit(k, n, c)
               Rearranges == \E racks \in SUBSET Racks, c \in Centers : Map!Rearrange(racks, c)
               Leaves == \E a \in Assets : Map!Unmount(a) \/ Map!Retire(a)
    <3>3. UNCHANGED <<facilities, placement>> \/ Mounts \/ Holds \/ Refits \/ Rearranges \/ Leaves
      BY <3>1, <3>2, TableWriters, PlaceMaps, RemoveMaps, RetireMaps, HoldMaps, RackMaps, RoomMaps
    <3>4. Mounts \/ Holds \/ Refits \/ Rearranges \/ Leaves => Map!Next \/ UNCHANGED Map!vars
      BY DEF Map!Next
    <3> QED BY <2>1, <3>3, <3>4
  <2> QED BY <2>2, <2>3 DEF Next
<1> QED BY <1>1, <1>2, <1>3, PlacementInvariant, PTL DEF Spec, MapSpec, Map!Spec
=============================================================================
