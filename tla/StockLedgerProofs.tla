-------------------------- MODULE StockLedgerProofs --------------------------
(***************************************************************************)
(* Proofs about the stock ledger, for any parts, places, movements, users' *)
(* intents and server processes.                                           *)
(***************************************************************************)
EXTENDS StockLedger, FiniteSetTheorems, WellFoundedInduction, TLAPS

\* A movement touches places.
LEMMA TouchedPlaces == \A m \in Movements : m.part \in Parts /\ Touched(m) \subseteq Places
BY MovementsAssumption DEF AllMovements, Touched

\* What the movement of a key adds to a place is an integer.
LEMMA DeltaInt == \A m \in Movements : \A l : Delta(m, l) \in Int
BY MovementsAssumption DEF AllMovements, Delta

\* The balance at a place is an integer, whether or not its row exists.
LEMMA OnHandInt == ASSUME TypeOK PROVE \A p, l : OnHand(p, l) \in Int
BY DEF TypeOK, OnHand

\* Beginning a call or a write keeps the types.
LEMMA StartType == ASSUME TypeOK, NEW w \in Workers, Start(w) PROVE TypeOK'
<1> USE BoundsAssumption DEF TypeOK, Stages, tables, Advance, Ask
<1>1. ASSUME NEW k \in Keys, Call(w, k) PROVE TypeOK' BY <1>1 DEF Call
<1>2. ASSUME NEW r \in Rooms, NEW change \in RoomChanges, NEW c \in Centers, PatchRoom(w, r, change, c)
      PROVE  TypeOK'
  BY <1>2 DEF PatchRoom, Begin
<1>3. ASSUME NEW c \in Centers, NEW change \in CenterChanges, PatchCenter(w, c, change)
      PROVE  TypeOK'
  BY <1>3 DEF PatchCenter, Begin
<1>4. CASE StartFinish(w) BY <1>4 DEF StartFinish, Begin
<1> QED BY <1>1, <1>2, <1>3, <1>4 DEF Start

\* The commit of a call keeps the types.
LEMMA CommitType == ASSUME TypeOK, StockInv, NEW w \in Workers, Commit(w) PROVE TypeOK'
<1> DEFINE m == Wish(w)
<1>1. KeyOf(w) \in Keys /\ m \in Movements
  BY DEF Commit, At, Ready, StockInv, StageHolds, TypeOK, Wish
<1>2. Saved(m) \subseteq Parts \X Places
  BY <1>1, TouchedPlaces DEF Saved
<1>3. seen[w] = [l \in Touched(m) |-> OnHand(m.part, l)]
  BY DEF Commit, At, Ready, StockInv, Settled
<1>4. \A x \in Saved(m) : seen[w][x[2]] \in Int /\ Delta(m, x[2]) \in Int
  BY <1>1, <1>3, OnHandInt, DeltaInt DEF Saved
<1>5. /\ DOMAIN balance' = DOMAIN balance \cup Saved(m)
      /\ \A x \in DOMAIN balance' :
           balance'[x] = IF x \in Saved(m) THEN seen[w][x[2]] + Delta(m, x[2]) ELSE balance[x]
  BY DEF Commit
<1>6. DOMAIN balance' \subseteq Parts \X Places /\ \A x \in DOMAIN balance' : balance'[x] \in Int
  <2>1. DOMAIN balance \subseteq Parts \X Places /\ \A x \in DOMAIN balance : balance[x] \in Int
    BY DEF TypeOK
  <2>2. DOMAIN balance' \subseteq Parts \X Places BY <1>2, <1>5, <2>1
  <2>3. \A x \in DOMAIN balance' : balance'[x] \in Int BY <1>4, <1>5, <2>1
  <2> QED BY <2>2, <2>3
<1>7. ledger' \in Seq([key : Keys, move : Movements, before : Int])
  <2>1. MainPlace(m) \in Touched(m)
    BY <1>1, MovementsAssumption DEF MainPlace, Touched
  <2>2. seen[w][MainPlace(m)] \in Int BY <1>3, <2>1, OnHandInt
  <2> QED BY <1>1, <2>2 DEF Commit, TypeOK
<1> QED BY <1>1, <1>6, <1>7 DEF Commit, TypeOK, Answer, End, Drop, Stages

\* Going on with a call or a write keeps the types.
LEMMA ProgressType == ASSUME TypeOK, StockInv, NEW w \in Workers, Progress(w) PROVE TypeOK'
<1> USE DEF TypeOK, Stages, tables, locks, Advance, Ask, End, Drop, At, Ready
<1>1. CASE Acquire(w) BY <1>1 DEF Acquire, Take
<1>2. CASE Replay(w) BY <1>2 DEF Replay, Answer
<1>3. CASE LockPart(w) BY <1>3 DEF LockPart
<1>4. CASE LockPlaces(w) BY <1>4 DEF LockPlaces
<1>5. CASE Settle(w) BY <1>5 DEF Settle
<1>6. CASE Commit(w) BY <1>6, CommitType
<1>7. CASE JoinCenter(w) BY <1>7 DEF JoinCenter
<1>8. CASE OpenRoom(w) BY <1>8 DEF OpenRoom, StockInv, StageHolds
<1>9. CASE CloseRoom(w) BY <1>9 DEF CloseRoom
<1>10. CASE MoveRoom(w) BY <1>10 DEF MoveRoom
<1>11. CASE OpenCenter(w) BY <1>11 DEF OpenCenter, StockInv, StageHolds
<1>12. CASE CloseCenter(w) BY <1>12 DEF CloseCenter
<1>13. CASE Finish(w) BY <1>13 DEF Finish
<1>14. CASE Refuse(w) BY <1>14 DEF Refuse
<1> QED BY <1>1, <1>2, <1>3, <1>4, <1>5, <1>6, <1>7, <1>8, <1>9, <1>10, <1>11, <1>12, <1>13,
           <1>14 DEF Progress

\* Every action keeps the variables in their types.
LEMMA TypeStep == ASSUME TypeOK, StockInv, [Next]_vars PROVE TypeOK'
<1>1. ASSUME NEW w \in Workers, Abort(w) PROVE TypeOK'
  BY <1>1 DEF TypeOK, Abort, End, Drop, Stages, tables
<1>2. CASE UNCHANGED vars BY <1>2 DEF TypeOK, vars, tables, locks
<1> QED BY <1>1, <1>2, StartType, ProgressType DEF Next

\* A step of one process leaves the stages, jobs, locks and readings of the others.
LEMMA Frame ==
  ASSUME TypeOK, NEW v \in Workers, Start(v) \/ Progress(v) \/ Abort(v), NEW u \in Workers, u # v
  PROVE  /\ pc'[u] = pc[u] /\ job'[u] = job[u] /\ want'[u] = want[u]
         /\ held'[u] = held[u] /\ seen'[u] = seen[u]
<1> USE DEF TypeOK, locks, Advance, Ask, End, Drop, Begin
<1>1. CASE Start(v) BY <1>1 DEF Start, Call, PatchRoom, PatchCenter, StartFinish
<1>2. CASE Acquire(v) \/ Replay(v) \/ LockPart(v) \/ LockPlaces(v) \/ Settle(v) \/ Commit(v)
  BY <1>2 DEF Acquire, Take, Replay, LockPart, LockPlaces, Settle, Commit
<1>3. CASE JoinCenter(v) \/ OpenRoom(v) \/ CloseRoom(v) \/ MoveRoom(v) \/ OpenCenter(v)
           \/ CloseCenter(v) \/ Finish(v) \/ Refuse(v)
  BY <1>3 DEF JoinCenter, OpenRoom, CloseRoom, MoveRoom, OpenCenter, CloseCenter, Finish, Refuse
<1>4. CASE Abort(v) BY <1>4 DEF Abort
<1> QED BY <1>1, <1>2, <1>3, <1>4 DEF Progress

\* What was wished for never changes.
LEMMA WishStays == ASSUME Next PROVE wish' = wish
BY DEF Next, Start, Call, PatchRoom, PatchCenter, StartFinish, Begin, Progress, Acquire, Take, Replay,
       LockPart, LockPlaces, Settle, Commit, JoinCenter, OpenRoom, CloseRoom, MoveRoom, OpenCenter,
       CloseCenter, Finish, Refuse, Abort

\* A step of v takes at most one lock, which is free, or keeps or frees them all.
LEMMA LocksStep ==
  ASSUME TypeOK, NEW v \in Workers, Start(v) \/ Progress(v) \/ Abort(v)
  PROVE  held'[v] \subseteq held[v] \cup {x \in want[v] : Free(x, v)}
<1> USE DEF TypeOK, locks, Advance, Ask, End, Drop, Begin
<1>1. CASE Acquire(v) BY <1>1 DEF Acquire, Take
<1>2. CASE Start(v) BY <1>2 DEF Start, Call, PatchRoom, PatchCenter, StartFinish
<1>3. CASE Replay(v) \/ LockPart(v) \/ LockPlaces(v) \/ Settle(v) \/ Commit(v)
  BY <1>3 DEF Replay, LockPart, LockPlaces, Settle, Commit
<1>4. CASE JoinCenter(v) \/ OpenRoom(v) \/ CloseRoom(v) \/ MoveRoom(v) \/ OpenCenter(v)
           \/ CloseCenter(v) \/ Finish(v) \/ Refuse(v)
  BY <1>4 DEF JoinCenter, OpenRoom, CloseRoom, MoveRoom, OpenCenter, CloseCenter, Finish, Refuse
<1>5. CASE Abort(v) BY <1>5 DEF Abort
<1> QED BY <1>1, <1>2, <1>3, <1>4, <1>5 DEF Progress

\* Two processes never hold the same lock.
LEMMA ExclusiveStep == ASSUME TypeOK, Exclusive, Next PROVE Exclusive'
<1>1. PICK a \in Workers : Start(a) \/ Progress(a) \/ Abort(a) BY DEF Next
<1>2. SUFFICES ASSUME NEW v \in Workers, NEW w \in Workers, v # w, NEW x, x \in held'[v], x \in held'[w]
               PROVE  FALSE
  BY DEF Exclusive
<1>3. CASE a # v /\ a # w BY <1>1, <1>2, <1>3, Frame DEF Exclusive
<1>4. CASE a = v
  <2>1. held'[w] = held[w] BY <1>1, <1>2, <1>4, Frame
  <2> QED BY <1>1, <1>2, <1>4, <2>1, LocksStep DEF Exclusive, Free
<1>5. CASE a = w
  <2>1. held'[v] = held[v] BY <1>1, <1>2, <1>5, Frame
  <2> QED BY <1>1, <1>2, <1>5, <2>1, LocksStep DEF Exclusive, Free
<1> QED BY <1>3, <1>4, <1>5

\* The process that steps has, in its new stage, the locks of that stage.
LEMMA OwnStage ==
  ASSUME TypeOK, StockInv, Next, NEW w \in Workers, Start(w) \/ Progress(w) \/ Abort(w)
  PROVE  StageHolds(w)'
<1> USE WishStays DEF TypeOK, locks, tables, Advance, Ask, End, Drop, Begin, At, Ready, StockInv, StageHolds, Claims, KeyOf, Wish
<1>1. CASE Acquire(w) BY <1>1 DEF Acquire, Take
<1>2. ASSUME NEW k \in Keys, Call(w, k) PROVE StageHolds(w)' BY <1>2 DEF Call
<1>3. ASSUME NEW r \in Rooms, NEW change \in RoomChanges, NEW c \in Centers, PatchRoom(w, r, change, c)
      PROVE  StageHolds(w)'
  BY <1>3 DEF PatchRoom
<1>4. ASSUME NEW c \in Centers, NEW change \in CenterChanges, PatchCenter(w, c, change)
      PROVE  StageHolds(w)'
  BY <1>4 DEF PatchCenter
<1>5. CASE StartFinish(w) BY <1>5 DEF StartFinish
<1>6. CASE LockPart(w) BY <1>6 DEF LockPart
<1>7. CASE LockPlaces(w) BY <1>7 DEF LockPlaces
<1>8. CASE Settle(w) BY <1>8 DEF Settle, PlaceLocks
<1>9. CASE JoinCenter(w) BY <1>9 DEF JoinCenter
<1>10. CASE Replay(w) \/ Commit(w) \/ Refuse(w) \/ Abort(w)
  BY <1>10 DEF Replay, Commit, Refuse, Abort
<1>11. CASE OpenRoom(w) \/ CloseRoom(w) \/ MoveRoom(w) \/ OpenCenter(w) \/ CloseCenter(w) \/ Finish(w)
  BY <1>11 DEF OpenRoom, CloseRoom, MoveRoom, OpenCenter, CloseCenter, Finish
<1> QED BY <1>1, <1>2, <1>3, <1>4, <1>5, <1>6, <1>7, <1>8, <1>9, <1>10, <1>11 DEF Start, Progress

\* The steps that write a table.
LEMMA TableWriters ==
  ASSUME NEW w \in Workers, Start(w) \/ Progress(w) \/ Abort(w)
  PROVE  \/ UNCHANGED tables
         \/ Commit(w) \/ OpenRoom(w) \/ CloseRoom(w) \/ MoveRoom(w)
         \/ OpenCenter(w) \/ CloseCenter(w) \/ Finish(w)
BY DEF Start, Progress, Call, PatchRoom, PatchCenter, StartFinish, Begin, Acquire, Take, Replay,
       LockPart, LockPlaces, Settle, JoinCenter, Refuse, Abort

\* The others keep their stage: a receipt that appears is not theirs.
LEMMA OtherStage ==
  ASSUME TypeOK, StockInv, Next, NEW v \in Workers, Start(v) \/ Progress(v) \/ Abort(v),
         NEW u \in Workers, u # v
  PROVE  StageHolds(u)'
<1>1. /\ pc'[u] = pc[u] /\ job'[u] = job[u] /\ want'[u] = want[u] /\ held'[u] = held[u]
      /\ wish' = wish
  BY Frame, WishStays
<1>2. pc[u] \in {"part", "places", "commit"} => KeyOf(u) \notin receipts'
  <2>1. CASE Commit(v)
    <3>1. receipts' = receipts \cup {KeyOf(v)} BY <2>1 DEF Commit
    <3>2. pc[v] = "commit" BY <2>1 DEF Commit, At, Ready
    <3>3. KeyLock(KeyOf(v)) \in held[v] BY <3>2 DEF StockInv, StageHolds
    <3>4. pc[u] \in {"part", "places", "commit"} => KeyOf(u) # KeyOf(v)
      BY <3>3 DEF StockInv, StageHolds, Exclusive
    <3> QED BY <3>1, <3>4 DEF StockInv, StageHolds
  <2>2. CASE ~Commit(v)
    <3>1. receipts' = receipts
      BY <2>2, TableWriters
      DEF tables, OpenRoom, CloseRoom, MoveRoom, OpenCenter, CloseCenter, Finish
    <3> QED BY <3>1 DEF StockInv, StageHolds
  <2> QED BY <2>1, <2>2
<1> QED BY <1>1, <1>2 DEF StockInv, StageHolds, Claims, KeyOf, Wish

\* A settled call and a write of another process touch different rows.
LEMMA SettledStep ==
  ASSUME TypeOK, StockInv, Next, NEW v \in Workers, Start(v) \/ Progress(v) \/ Abort(v),
         NEW u \in Workers, u # v
  PROVE  Settled(u)'
<1>1. /\ pc'[u] = pc[u] /\ job'[u] = job[u] /\ seen'[u] = seen[u] /\ wish' = wish
  BY Frame, WishStays
<1>2. SUFFICES ASSUME pc[u] = "commit" PROVE Settled(u)'
  BY <1>1 DEF Settled
<1>a. PICK m : m = Wish(u) OBVIOUS
<1>3. PartLock(m.part) \in held[u] /\ PlaceLocks(m) \subseteq held[u]
  BY <1>2, <1>a DEF StockInv, StageHolds
<1>4. /\ Admissible(m)
      /\ seen[u] = [l \in Touched(m) |-> OnHand(m.part, l)]
  BY <1>2, <1>a DEF StockInv, Settled
<1>5. Wish(u)' = m BY <1>1, <1>a DEF Wish, KeyOf
<1>6. SUFFICES /\ \A l \in Touched(m) : PlaceOpen(l)'
               /\ \A l \in Touched(m) : OnHand(m.part, l)' = OnHand(m.part, l)
               /\ m.kind = "usage" => finished' = finished
  BY <1>1, <1>4, <1>5 DEF Settled, Admissible
<1>7. \A l \in Touched(m) :
        /\ PlaceOpen(l)
        /\ CenterLock(l[1]) \in held[u]
        /\ l[2] # NoRoom => RoomLock(l[2]) \in held[u]
  BY <1>3, <1>4 DEF Admissible, PlaceLocks
<1>8. m.kind = "usage" => FaultLock \in held[u] BY <1>3 DEF PlaceLocks
<1>9. \A x \in held[u] : x \notin held[v] BY DEF StockInv, Exclusive
<1>10. CASE UNCHANGED tables BY <1>7, <1>10 DEF tables, PlaceOpen, OnHand
<1>11. CASE Commit(v)
  <2>1. Wish(v).part # m.part
    <3>1. PartLock(Wish(v).part) \in held[v] BY <1>11 DEF Commit, At, Ready, StockInv, StageHolds
    <3> QED BY <1>3, <1>9, <3>1
  <2>2. \A l \in Touched(m) : OnHand(m.part, l)' = OnHand(m.part, l)
    <3>1. \A l : <<m.part, l>> \notin Saved(Wish(v)) BY <2>1 DEF Saved
    <3>2. \A l : <<m.part, l>> \in DOMAIN balance' <=> <<m.part, l>> \in DOMAIN balance
      BY <1>11, <3>1 DEF Commit
    <3>3. \A l : <<m.part, l>> \in DOMAIN balance => balance'[<<m.part, l>>] = balance[<<m.part, l>>]
      BY <1>11, <3>1 DEF Commit
    <3> QED BY <3>2, <3>3 DEF OnHand
  <2> QED BY <1>7, <1>11, <2>2 DEF Commit, PlaceOpen
<1>12. CASE OpenRoom(v) \/ OpenCenter(v)
  BY <1>7, <1>12 DEF OpenRoom, OpenCenter, PlaceOpen, OnHand
<1>13. CASE CloseRoom(v) \/ MoveRoom(v)
  <2>1. RoomLock(job[v].room) \in held[v]
    BY <1>13 DEF CloseRoom, MoveRoom, At, Ready, StockInv, StageHolds
  <2>2. \A l \in Touched(m) : l[2] # NoRoom => l[2] # job[v].room BY <1>7, <1>9, <2>1
  <2> QED BY <1>7, <1>13, <2>2 DEF CloseRoom, MoveRoom, PlaceOpen, OnHand, TypeOK
<1>14. CASE CloseCenter(v)
  <2>1. CenterLock(job[v].center) \in held[v]
    BY <1>14 DEF CloseCenter, At, Ready, StockInv, StageHolds, Claims
  <2>2. \A l \in Touched(m) : l[1] # job[v].center BY <1>7, <1>9, <2>1
  <2> QED BY <1>7, <1>14, <2>2 DEF CloseCenter, PlaceOpen, OnHand
<1>15. CASE Finish(v)
  <2>1. FaultLock \in held[v] BY <1>15 DEF Finish, At, Ready, StockInv, StageHolds, Claims
  <2> QED BY <1>7, <1>8, <1>9, <1>15, <2>1 DEF Finish, PlaceOpen, OnHand
<1> QED BY <1>10, <1>11, <1>12, <1>13, <1>14, <1>15, TableWriters

\* A call that settles reads what it has checked.
LEMMA OwnSettled ==
  ASSUME TypeOK, StockInv, Next, NEW w \in Workers, Start(w) \/ Progress(w) \/ Abort(w)
  PROVE  Settled(w)'
<1> USE DEF TypeOK, Settled, locks, tables, Advance, Ask, End, Drop, Begin, At, Ready
<1>1. CASE Settle(w)
  <2>1. CASE Admissible(Wish(w))
    <3>1. /\ job' = job /\ wish' = wish /\ balance' = balance /\ finished' = finished
          /\ centersOn' = centersOn /\ roomsOn' = roomsOn /\ parent' = parent
      BY <1>1, <2>1 DEF Settle
    <3>2. PICK m : m = Wish(w) OBVIOUS
    <3>3. Wish(w)' = m BY <3>1, <3>2 DEF Wish, KeyOf
    <3>4. Admissible(m)' BY <2>1, <3>1, <3>2 DEF Admissible, PlaceOpen, OnHand
    <3>5. seen'[w] = [l \in Touched(m) |-> OnHand(m.part, l)]
      BY <1>1, <2>1, <3>2 DEF Settle
    <3>6. \A l : OnHand(m.part, l)' = OnHand(m.part, l) BY <3>1 DEF OnHand
    <3> QED BY <3>3, <3>4, <3>5, <3>6
  <2>2. CASE ~Admissible(Wish(w)) BY <1>1, <2>2 DEF Settle
  <2> QED BY <2>1, <2>2
<1>2. CASE Acquire(w)
  BY <1>2 DEF Acquire, Take, StockInv, Admissible, PlaceOpen, OnHand, Wish, KeyOf
<1>3. CASE Start(w) BY <1>3 DEF Start, Call, PatchRoom, PatchCenter, StartFinish
<1>4. CASE Replay(w) \/ LockPart(w) \/ LockPlaces(w) \/ Commit(w) \/ Abort(w)
  BY <1>4 DEF Replay, LockPart, LockPlaces, Commit, Abort
<1>5. CASE JoinCenter(w) \/ OpenRoom(w) \/ CloseRoom(w) \/ MoveRoom(w) \/ OpenCenter(w)
           \/ CloseCenter(w) \/ Finish(w) \/ Refuse(w)
  BY <1>5 DEF JoinCenter, OpenRoom, CloseRoom, MoveRoom, OpenCenter, CloseCenter, Finish, Refuse
<1> QED BY <1>1, <1>2, <1>3, <1>4, <1>5 DEF Progress

\* A commit writes what its movement makes of the balances, all of them checked.
LEMMA CommitBalances ==
  ASSUME TypeOK, StockInv, NEW w \in Workers, Commit(w)
  PROVE  \E m \in Movements :
           /\ m = Wish(w) /\ Admissible(m)
           /\ Saved(m) = {<<m.part, l>> : l \in Touched(m)}
           /\ Touched(m) \subseteq Places /\ m.part \in Parts
           /\ DOMAIN balance' = DOMAIN balance \cup Saved(m)
           /\ \A x \in DOMAIN balance \ Saved(m) : balance'[x] = balance[x]
           /\ \A l \in Touched(m) : balance'[<<m.part, l>>] = OnHand(m.part, l) + Delta(m, l)
<1>1. PICK m \in Movements : m = Wish(w)
  BY DEF Commit, At, Ready, StockInv, StageHolds, TypeOK, Wish
<1>2. Admissible(m) /\ seen[w] = [l \in Touched(m) |-> OnHand(m.part, l)]
  BY <1>1 DEF Commit, At, Ready, StockInv, Settled
<1>3. Saved(m) = {<<m.part, l>> : l \in Touched(m)} BY DEF Saved
<1>4. /\ DOMAIN balance' = DOMAIN balance \cup Saved(m)
      /\ \A x \in DOMAIN balance' :
           balance'[x] = IF x \in Saved(m) THEN seen[w][x[2]] + Delta(m, x[2]) ELSE balance[x]
  BY <1>1 DEF Commit
<1>5. \A l \in Touched(m) : balance'[<<m.part, l>>] = OnHand(m.part, l) + Delta(m, l)
  BY <1>2, <1>3, <1>4
<1> QED BY <1>1, <1>2, <1>3, <1>4, <1>5, TouchedPlaces

\* Balances stay nonnegative and in open places, and rows in the center of their room.
LEMMA SoundStep ==
  ASSUME TypeOK, StockInv, Next
  PROVE  NeverNegative' /\ StockInOpenPlaces' /\ StockFollowsRoom'
<1> USE DEF NeverNegative, StockInOpenPlaces, StockFollowsRoom
<1>1. PICK w \in Workers : Start(w) \/ Progress(w) \/ Abort(w) BY DEF Next
<1>2. CASE UNCHANGED tables BY <1>2 DEF tables, StockInv
<1>3. CASE Commit(w)
  <2>1. PICK m \in Movements :
           /\ m = Wish(w) /\ Admissible(m)
           /\ Saved(m) = {<<m.part, l>> : l \in Touched(m)}
           /\ Touched(m) \subseteq Places /\ m.part \in Parts
           /\ DOMAIN balance' = DOMAIN balance \cup Saved(m)
           /\ \A x \in DOMAIN balance \ Saved(m) : balance'[x] = balance[x]
           /\ \A l \in Touched(m) : balance'[<<m.part, l>>] = OnHand(m.part, l) + Delta(m, l)
    BY <1>3, CommitBalances
  <2>2. centersOn' = centersOn /\ roomsOn' = roomsOn /\ parent' = parent BY <1>3 DEF Commit
  <2>3. \A l \in Touched(m) : PlaceOpen(l) /\ OnHand(m.part, l) + Delta(m, l) >= 0
    BY <2>1 DEF Admissible
  <2>4. \A x \in Saved(m) :
          /\ balance'[x] >= 0
          /\ x[2][1] \in centersOn
          /\ x[2][2] # NoRoom => x[2][2] \in roomsOn /\ parent[x[2][2]] = x[2][1]
    BY <2>1, <2>3 DEF PlaceOpen
  <2>5. \A x \in DOMAIN balance \ Saved(m) :
          /\ balance'[x] >= 0
          /\ balance'[x] > 0 => x[2][1] \in centersOn /\ (x[2][2] # NoRoom => x[2][2] \in roomsOn)
          /\ x[2][2] # NoRoom => parent[x[2][2]] = x[2][1]
    BY <2>1 DEF StockInv
  <2> QED BY <2>1, <2>2, <2>4, <2>5
<1>4. CASE OpenRoom(w) \/ OpenCenter(w) \/ Finish(w)
  BY <1>4 DEF OpenRoom, OpenCenter, Finish, StockInv
<1>5. CASE CloseRoom(w) BY <1>5 DEF CloseRoom, Stocked, RowsOfRoom, StockInv
<1>6. CASE CloseCenter(w) BY <1>6 DEF CloseCenter, Stocked, RowsOfCenter, StockInv
<1>7. CASE MoveRoom(w)
  <2>1. \A x \in DOMAIN balance : x[2][2] # job[w].room
    BY <1>7 DEF MoveRoom, Movable, RowsOfRoom
  <2> QED BY <1>7, <2>1 DEF MoveRoom, StockInv, TypeOK
<1> QED BY <1>1, <1>2, <1>3, <1>4, <1>5, <1>6, <1>7, TableWriters

\* The types and the invariant are inductive.
LEMMA StockStep == ASSUME TypeOK, StockInv, [Next]_vars PROVE StockInv'
<1>1. CASE Next
  <2>1. PICK v \in Workers : Start(v) \/ Progress(v) \/ Abort(v) BY <1>1 DEF Next
  <2>2. \A w \in Workers : StageHolds(w)'
    BY <1>1, <2>1, OwnStage, OtherStage
  <2>3. \A w \in Workers : Settled(w)'
    BY <1>1, <2>1, OwnSettled, SettledStep
  <2> QED BY <1>1, <2>2, <2>3, SoundStep, ExclusiveStep DEF StockInv
<1>2. CASE UNCHANGED vars
  BY <1>2
  DEF vars, tables, locks, StockInv, NeverNegative, StockInOpenPlaces, StockFollowsRoom, Exclusive,
      StageHolds, Claims, Settled, Admissible, PlaceOpen, OnHand, Wish, KeyOf
<1> QED BY <1>1, <1>2

\* No balance below zero, no stock in a closed place, no row outside the center
\* of its room, whatever calls, retries, aborts and facility writes interleave.
THEOREM StockInvariant == Spec => [](TypeOK /\ StockInv)
<1>1. Init => TypeOK /\ StockInv
  <2> SUFFICES ASSUME Init PROVE TypeOK /\ StockInv
    OBVIOUS
  <2>1. DOMAIN balance = {} BY DEF Init, NoLocks
  <2>2. TypeOK
    <3>1. ledger \in Seq([key : Keys, move : Movements, before : Int]) BY DEF Init, NoLocks
    <3>2. parent \in [Rooms -> Centers] BY FacilitiesAssumption DEF Init, NoLocks
    <3>3. calls \in [Keys -> 0..MaxCalls] /\ writes \in 0..MaxWrites BY BoundsAssumption DEF Init, NoLocks
    <3>4. /\ pc \in [Workers -> Stages] /\ DOMAIN job = Workers /\ DOMAIN seen = Workers
          /\ DOMAIN want = Workers /\ DOMAIN held = Workers
      BY DEF Init, NoLocks, Stages
    <3> QED BY <2>1, <3>1, <3>2, <3>3, <3>4 DEF Init, NoLocks, TypeOK
  <2>3. NeverNegative /\ StockInOpenPlaces /\ StockFollowsRoom
    BY <2>1 DEF NeverNegative, StockInOpenPlaces, StockFollowsRoom
  <2>4. Exclusive /\ \A w \in Workers : StageHolds(w) /\ Settled(w)
    BY DEF Init, NoLocks, Exclusive, StageHolds, Settled
  <2> QED BY <2>2, <2>3, <2>4 DEF StockInv
<1>2. TypeOK /\ StockInv /\ [Next]_vars => (TypeOK /\ StockInv)'
  BY TypeStep, StockStep
<1> QED BY <1>1, <1>2, PTL DEF Spec

\* Concurrent movements and usages never drive a balance below zero, a movement
\* into a place and the deactivation of the place cannot both succeed, and no
\* reparenting leaves a stock row in the center its room has left.
THEOREM StockSound == Spec => []StockIsSound
<1>1. StockInv => StockIsSound BY DEF StockInv, StockIsSound
<1> QED BY <1>1, StockInvariant, PTL

\* Each intent enters the ledger at most once, however often it is retried, and
\* whoever saw a success finds it there.
THEOREM IntentsAppliedOnce == Spec => []AppliedOnce
<1>1. Init => AppliedOnce BY DEF Init, NoLocks, AppliedOnce
<1>2. TypeOK /\ StockInv /\ AppliedOnce /\ [Next]_vars => AppliedOnce'
  <2> SUFFICES ASSUME TypeOK, StockInv, AppliedOnce, [Next]_vars PROVE AppliedOnce'
    OBVIOUS
  <2>1. CASE UNCHANGED vars BY <2>1 DEF vars, tables, AppliedOnce
  <2>2. ASSUME NEW w \in Workers, Commit(w) PROVE AppliedOnce'
    <3>1. KeyOf(w) \notin receipts /\ KeyOf(w) \in Keys
      BY <2>2 DEF Commit, At, Ready, StockInv, StageHolds
    <3>2. /\ Len(ledger) \in Nat /\ DOMAIN ledger = 1..Len(ledger)
          /\ DOMAIN ledger' = 1..(Len(ledger) + 1)
          /\ \A n \in DOMAIN ledger : ledger'[n] = ledger[n]
          /\ ledger'[Len(ledger) + 1].key = KeyOf(w)
      BY <2>2 DEF Commit, TypeOK
    <3>3. receipts' = receipts \cup {KeyOf(w)} /\ acked' \subseteq acked \cup {KeyOf(w)}
      BY <2>2 DEF Commit, Answer
    <3> QED BY <3>1, <3>2, <3>3 DEF AppliedOnce
  <2>3. ASSUME NEW w \in Workers, Start(w) \/ Progress(w) \/ Abort(w), ~Commit(w)
        PROVE  AppliedOnce'
    <3>1. ledger' = ledger /\ receipts' = receipts
      BY <2>3, TableWriters
      DEF tables, OpenRoom, CloseRoom, MoveRoom, OpenCenter, CloseCenter, Finish
    <3>2. acked' \subseteq acked \cup receipts
      BY <2>3
      DEF Start, Progress, Call, PatchRoom, PatchCenter, StartFinish, Begin, Acquire, Take, Replay, Answer,
          LockPart, LockPlaces, Settle, JoinCenter, OpenRoom, CloseRoom, MoveRoom, OpenCenter,
          CloseCenter, Finish, Refuse, Abort
    <3> QED BY <3>1, <3>2 DEF AppliedOnce
  <2> QED BY <2>1, <2>2, <2>3 DEF Next
<1> QED BY <1>1, <1>2, StockInvariant, PTL DEF Spec

\* No usage is recorded once the repair is finished.
THEOREM NoPartsAfterFinish == Spec => FinishedTakesNoParts
<1> DEFINE NoUsage ==
      finished => \A n \in DOMAIN ledger' \ DOMAIN ledger : ledger'[n].move.kind # "usage"
<1>1. TypeOK /\ StockInv /\ [Next]_vars => [NoUsage]_vars
  <2> SUFFICES ASSUME TypeOK, StockInv, Next PROVE NoUsage
    OBVIOUS
  <2>1. ASSUME NEW w \in Workers, Commit(w) PROVE NoUsage
    <3>1. Wish(w).kind = "usage" => ~finished
      BY <2>1 DEF Commit, At, Ready, StockInv, Settled, Admissible
    <3>2. \A n \in DOMAIN ledger' \ DOMAIN ledger : ledger'[n].move = Wish(w)
      <4>1. /\ Len(ledger) \in Nat /\ DOMAIN ledger = 1..Len(ledger)
            /\ DOMAIN ledger' = 1..(Len(ledger) + 1)
            /\ ledger'[Len(ledger) + 1].move = Wish(w)
        BY <2>1 DEF Commit, TypeOK
      <4> QED BY <4>1
    <3> QED BY <3>1, <3>2
  <2>2. ASSUME NEW w \in Workers, Start(w) \/ Progress(w) \/ Abort(w), ~Commit(w)
        PROVE  ledger' = ledger
    BY <2>2, TableWriters
    DEF tables, OpenRoom, CloseRoom, MoveRoom, OpenCenter, CloseCenter, Finish
  <2> QED BY <2>1, <2>2 DEF Next
<1> QED BY <1>1, StockInvariant, PTL DEF Spec, FinishedTakesNoParts

\* Calls behind locks and receipts implement the book: every commit applies one
\* intent at one instant, and every other step leaves the book alone or
\* rearranges facilities without touching stock.
THEOREM ImplementsBook == Spec => BookSpec
<1>1. Init => Book!Init
  BY FacilitiesAssumption DEF Init, NoLocks, Book!Init
<1>2. TypeOK /\ StockInv /\ TypeOK' /\ StockInv' /\ [Next]_vars => [Book!Next]_(Book!vars)
  <2> SUFFICES ASSUME TypeOK, StockInv, TypeOK', StockInv', Next
               PROVE  Book!Next \/ UNCHANGED Book!vars
    BY DEF vars, tables, Book!vars
  <2>1. Book!Sound'
    BY DEF StockInv, NeverNegative, StockInOpenPlaces, StockFollowsRoom, Book!Sound, NoRoom, Book!NoRoom
  <2>2. PICK w \in Workers : Start(w) \/ Progress(w) \/ Abort(w) BY DEF Next
  <2>3. wish' = wish BY WishStays
  <2>4. CASE UNCHANGED tables BY <2>3, <2>4 DEF tables, Book!vars
  <2>5. CASE Commit(w)
    <3>1. PICK m \in Movements :
           /\ m = Wish(w) /\ Admissible(m)
           /\ Saved(m) = {<<m.part, l>> : l \in Touched(m)}
           /\ Touched(m) \subseteq Places /\ m.part \in Parts
           /\ DOMAIN balance' = DOMAIN balance \cup Saved(m)
           /\ \A x \in DOMAIN balance \ Saved(m) : balance'[x] = balance[x]
           /\ \A l \in Touched(m) : balance'[<<m.part, l>>] = OnHand(m.part, l) + Delta(m, l)
      BY <2>5, CommitBalances
    <3>2. PICK k \in Keys : k = KeyOf(w) /\ k \notin receipts
      BY <2>5 DEF Commit, At, Ready, StockInv, StageHolds
    <3>3. wish[k] = m BY <3>1, <3>2 DEF Wish
    <3>4. balance' = [x \in DOMAIN balance \cup Saved(m) |->
                        Book!OnHand(x[1], x[2]) + IF x \in Saved(m) THEN Book!Delta(m, x[2]) ELSE 0]
      <4>1. \A x \in DOMAIN balance \cup Saved(m) :
              balance'[x] = Book!OnHand(x[1], x[2]) + IF x \in Saved(m) THEN Book!Delta(m, x[2]) ELSE 0
        <5>1. ASSUME NEW x \in Saved(m)
              PROVE  balance'[x] = Book!OnHand(x[1], x[2]) + Book!Delta(m, x[2])
          BY <3>1 DEF OnHand, Delta, Book!OnHand, Book!Delta
        <5>2. ASSUME NEW x \in DOMAIN balance \ Saved(m)
              PROVE  balance'[x] = Book!OnHand(x[1], x[2]) + 0
          <6>1. x = <<x[1], x[2]>> /\ balance[x] \in Int BY DEF TypeOK
          <6> QED BY <3>1, <6>1 DEF Book!OnHand
        <5> QED BY <5>1, <5>2
      <4>2. balance' = [x \in DOMAIN balance' |-> balance'[x]] BY <2>5 DEF Commit
      <4> QED BY <3>1, <4>1, <4>2
    <3>5. {<<wish[k].part, l>> : l \in Book!Touched(wish[k])} = Saved(m)
      BY <3>1, <3>3 DEF Touched, Book!Touched, NoPlace, Book!NoPlace
    <3>6. Book!Apply(k)
      BY <2>3, <2>5, <3>1, <3>2, <3>3, <3>4, <3>5 DEF Commit, Admissible, Book!Apply
    <3> QED BY <2>1, <3>6 DEF Book!Next
  <2>6. CASE OpenRoom(w) \/ CloseRoom(w) \/ MoveRoom(w) \/ OpenCenter(w) \/ CloseCenter(w)
    <3>1. UNCHANGED <<balance, receipts, finished, wish>>
      BY <2>6 DEF OpenRoom, CloseRoom, MoveRoom, OpenCenter, CloseCenter
    <3>2. Book!Rearrange BY <3>1 DEF TypeOK, Book!Rearrange
    <3> QED BY <2>1, <3>2 DEF Book!Next
  <2>7. CASE Finish(w)
    <3>1. Book!Finish BY <2>7 DEF Finish, Book!Finish
    <3> QED BY <2>1, <3>1 DEF Book!Next
  <2> QED BY <2>2, <2>4, <2>5, <2>6, <2>7, TableWriters
<1> QED BY <1>1, <1>2, StockInvariant, PTL DEF Spec, BookSpec, Book!Spec
-----------------------------------------------------------------------------
(* Waiting.  Transactions that wait for each other in a ring would await     *)
(* locks that come later and later in the order, with no end to it.          *)

\* The order of locks, without that of the idempotency keys: a process takes
\* one of those, and first.
Sooner(x, y) == x[1] < y[1] \/ (x[1] = y[1] /\ x[1] # 1 /\ x[2] < y[2])

\* What w still wants comes after what it holds, unless it joins the center of
\* its room; at each stage it asks for later tables than before.
InTurn(w) ==
    /\ pc[w] = "idle" => held[w] = {} /\ want[w] = {}
    /\ \A x \in Claims(w) : x[1] \in 1..6 /\ (x[1] # 1 => x[2] \in Nat)
    /\ pc[w] = "key" =>
         Claims(w) = {KeyLock(KeyOf(w))} /\ (held[w] = {} \/ want[w] = {})
    /\ pc[w] # "key" => \A y \in want[w] : y[1] # 1
    /\ pc[w] = "part" => \A x \in Claims(w) : x[1] <= 2
    /\ pc[w] # "joined" => \A x \in held[w], y \in want[w] : Sooner(x, y)

Busy == {w \in Workers : pc[w] # "idle"}

TurnInv == IsFiniteSet(Busy) /\ \A w \in Workers : InTurn(w)

\* The locks that a call takes at its places come after its key and its part.
LEMMA PlaceLocksAreLate ==
  \A m \in Movements : \A x \in PlaceLocks(m) : x[1] \in 3..6 /\ x[2] \in Nat
<1> SUFFICES ASSUME NEW m \in Movements, NEW x \in PlaceLocks(m) PROVE x[1] \in 3..6 /\ x[2] \in Nat
  OBVIOUS
<1>1. \A l \in Touched(m) : l[1] \in Nat /\ l[2] \in Nat
  <2> SUFFICES ASSUME NEW l \in Touched(m) PROVE l[1] \in Nat /\ l[2] \in Nat
    OBVIOUS
  <2>1. l \in Centers \X (Rooms \cup {0}) BY TouchedPlaces DEF Places, NoRoom
  <2>2. l[1] \in Centers /\ l[2] \in Rooms \cup {0} BY <2>1
  <2>3. Centers \subseteq Nat /\ Rooms \cup {0} \subseteq Nat BY PrimaryKeys
  <2> QED BY <2>2, <2>3
<1> QED BY <1>1 DEF PlaceLocks, CenterLock, RoomLock, FaultLock, AssetLock

\* The process that steps asks for locks in turn.
LEMMA OwnTurn ==
  ASSUME TypeOK, StockInv, NEW w \in Workers, InTurn(w), Start(w) \/ Progress(w) \/ Abort(w)
  PROVE  InTurn(w)'
<1> USE DEF TypeOK, locks, Advance, Ask, End, Drop, Begin, At, Ready, Claims, InTurn, Sooner
<1> USE DEF KeyLock, PartLock, CenterLock, RoomLock, FaultLock, AssetLock
<1>1. CASE Acquire(w)
  <2>1. PICK x \in want[w] :
          /\ \A y \in want[w] \ {x} : Before(x, y)
          /\ held' = [held EXCEPT ![w] = @ \cup {x}] /\ want' = [want EXCEPT ![w] = @ \ {x}]
    BY <1>1 DEF Acquire, Take
  <2>2. /\ pc' = pc /\ job' = job
        /\ held'[w] = held[w] \cup {x} /\ want'[w] = want[w] \ {x} /\ Claims(w)' = Claims(w)
    BY <1>1, <2>1 DEF Acquire
  <2>3. pc[w] = "key" => held'[w] = {} \/ want'[w] = {} BY <2>2
  <2>4. pc[w] # "key" => \A y \in want'[w] : Sooner(x, y) BY <2>1, <2>2 DEF Before
  <2>5. pc[w] # "joined" => \A z \in held'[w], y \in want'[w] : Sooner(z, y)
    BY <2>2, <2>3, <2>4
  <2> QED BY <2>2, <2>3, <2>5 DEF KeyOf
<1>2. ASSUME NEW k \in Keys, Call(w, k) PROVE InTurn(w)' BY <1>2 DEF Call, KeyOf
<1>3. ASSUME NEW r \in Rooms, NEW change \in RoomChanges, NEW c \in Centers, PatchRoom(w, r, change, c)
      PROVE  InTurn(w)'
  <2>1. r \in Nat /\ c \in Nat /\ parent[r] \in Nat BY PrimaryKeys
  <2>2. /\ pc'[w] = "room" /\ held'[w] = {} /\ held[w] = {}
        /\ want'[w] = {CenterLock(parent[r]), CenterLock(c), RoomLock(r), AssetLock}
    BY <1>3 DEF PatchRoom
  <2> QED BY <2>1, <2>2
<1>4. ASSUME NEW c \in Centers, NEW change \in CenterChanges, PatchCenter(w, c, change)
      PROVE  InTurn(w)'
  BY <1>4, PrimaryKeys DEF PatchCenter
<1>5. CASE StartFinish(w) BY <1>5 DEF StartFinish
<1>6. CASE LockPart(w)
  <2>1. Wish(w).part \in Nat
    BY <1>6, TouchedPlaces, PrimaryKeys DEF LockPart, StockInv, StageHolds, Wish
  <2> QED BY <1>6, <2>1 DEF LockPart, KeyOf
<1>7. CASE LockPlaces(w)
  <2>1. \A x \in PlaceLocks(Wish(w)) : x[1] \in 3..6 /\ x[2] \in Nat
    BY <1>7, PlaceLocksAreLate DEF LockPlaces, StockInv, StageHolds, Wish
  <2>2. CASE pc'[w] = "places"
    <3>1. /\ pc[w] = "part" /\ want[w] = {}
          /\ held'[w] = held[w] /\ want'[w] = PlaceLocks(Wish(w)) \ held[w]
      BY <1>7, <2>2 DEF LockPlaces
    <3> QED BY <2>1, <2>2, <3>1
  <2>3. CASE pc'[w] # "places" BY <1>7, <2>3 DEF LockPlaces
  <2> QED BY <2>2, <2>3
<1>8. CASE Settle(w) BY <1>8 DEF Settle
<1>9. CASE JoinCenter(w)
  <2>1. parent[job[w].room] \in Nat
    BY <1>9, PrimaryKeys DEF JoinCenter, StockInv, StageHolds
  <2> QED BY <1>9, <2>1 DEF JoinCenter
<1>10. CASE Replay(w) \/ Commit(w) \/ Refuse(w) \/ Abort(w)
  BY <1>10 DEF Replay, Commit, Refuse, Abort
<1>11. CASE OpenRoom(w) \/ CloseRoom(w) \/ MoveRoom(w) \/ OpenCenter(w) \/ CloseCenter(w) \/ Finish(w)
  BY <1>11 DEF OpenRoom, CloseRoom, MoveRoom, OpenCenter, CloseCenter, Finish
<1> QED BY <1>1, <1>2, <1>3, <1>4, <1>5, <1>6, <1>7, <1>8, <1>9, <1>10, <1>11 DEF Start, Progress

\* Every action leaves all processes in turn, and finitely many of them busy.
LEMMA TurnStep == ASSUME TypeOK, StockInv, TurnInv, [Next]_vars PROVE TurnInv'
<1>1. CASE Next
  <2>1. PICK w \in Workers : Start(w) \/ Progress(w) \/ Abort(w) BY <1>1 DEF Next
  <2>2. \A u \in Workers \ {w} : pc'[u] = pc[u] /\ InTurn(u)'
    <3> SUFFICES ASSUME NEW u \in Workers, u # w PROVE pc'[u] = pc[u] /\ InTurn(u)'
      OBVIOUS
    <3>1. pc'[u] = pc[u] /\ job'[u] = job[u] /\ want'[u] = want[u] /\ held'[u] = held[u]
      BY <2>1, Frame
    <3> QED BY <3>1 DEF TurnInv, InTurn, Claims, KeyOf
  <2>3. InTurn(w)' BY <2>1, OwnTurn DEF TurnInv
  <2>4. Busy' \in SUBSET (Busy \cup {w}) BY <2>2 DEF Busy
  <2>5. IsFiniteSet(Busy') BY <2>4, FS_AddElement, FS_Subset DEF TurnInv
  <2> QED BY <2>2, <2>3, <2>5 DEF TurnInv
<1>2. CASE UNCHANGED vars
  <2>1. Busy' = Busy BY <1>2 DEF vars, Busy
  <2> QED BY <1>2, <2>1 DEF vars, locks, TurnInv, InTurn, Claims, KeyOf
<1> QED BY <1>1, <1>2

\* A finite set has a member that none of its members exceeds, in any strict order.
LEMMA Maximal ==
  ASSUME NEW S, IsFiniteSet(S), S # {}, NEW Less, \A x \in S : <<x, x>> \notin Less,
         \A x, y, z \in S : <<x, y>> \in Less /\ <<y, z>> \in Less => <<x, z>> \in Less
  PROVE  \E x \in S : \A y \in S : <<x, y>> \notin Less
<1> DEFINE Above(x) == {y \in S : <<x, y>> \in Less}
           Sizes == {Cardinality(Above(x)) : x \in S}
<1>1. \A x \in S : IsFiniteSet(Above(x)) /\ Cardinality(Above(x)) \in Nat
  BY FS_Subset, FS_CardinalityType
<1>2. \E n \in Sizes : \A k \in Sizes : ~(k < n)
  <2>1. Sizes \subseteq Nat /\ Sizes # {}
    <3> HIDE DEF Above
    <3> QED BY <1>1
  <2>2. PICK n \in Sizes : \A k \in Sizes : <<k, n>> \notin OpToRel(<, Nat)
    <3> HIDE DEF Sizes
    <3> QED BY <2>1, WFMin, NatLessThanWellFounded
  <2>3. \A k \in Sizes : ~(k < n)
    <3> HIDE DEF Sizes
    <3> QED BY <2>1, <2>2 DEF OpToRel
  <2> QED BY <2>3
<1>3. PICK n \in Sizes : \A k \in Sizes : ~(k < n) BY <1>2
<1>4. PICK x \in S : n = Cardinality(Above(x)) BY <1>3
<1>5. \A y \in S : <<x, y>> \notin Less
  <2> SUFFICES ASSUME NEW y \in S, <<x, y>> \in Less PROVE FALSE
    OBVIOUS
  <2>1. Above(y) \subseteq Above(x) /\ y \in Above(x) /\ y \notin Above(y) BY <1>4
  <2>2. Cardinality(Above(y)) <= n /\ Cardinality(Above(y)) # n
    BY <1>1, <1>4, <2>1, FS_Subset
  <2>3. Cardinality(Above(y)) < n BY <1>1, <1>4, <2>2
  <2>4. Cardinality(Above(y)) \in Sizes OBVIOUS
  <2> QED BY <1>3, <2>3, <2>4
<1> QED BY <1>5

\* Locks that are held in turn keep processes from waiting for each other in a ring.
LEMMA NoRingInTurn == ASSUME TypeOK, TurnInv PROVE RingsNeedAMove
<1> SUFFICES ASSUME NEW ring \in SUBSET Workers, ring # {},
                    \A w \in ring : \E v \in ring \ {w} : WaitsFor(w, v),
                    \A w \in ring : ~(pc[w] = "joined" /\ ~Ready(w))
             PROVE  FALSE
  BY DEF RingsNeedAMove
<1> DEFINE lock(w) == CHOOSE x \in want[w] : \E v \in ring : x \in held[v]
           Less == {e \in ring \X ring : Sooner(lock(e[1]), lock(e[2]))}
<1>1. \A w \in ring : lock(w) \in want[w] /\ \E v \in ring : lock(w) \in held[v]
  BY DEF WaitsFor
<1>2. \A w \in ring : pc[w] # "joined" BY <1>1 DEF Ready
<1>3. \A w \in ring : lock(w)[1] \in Int /\ (lock(w)[1] # 1 => lock(w)[2] \in Nat)
  BY <1>1 DEF TurnInv, InTurn, Claims
<1>4. IsFiniteSet(ring)
  <2>1. ring \in SUBSET Busy BY <1>1 DEF TurnInv, InTurn, Busy
  <2> QED BY <2>1, FS_Subset DEF TurnInv
<1>5. \A w \in ring : \E v \in ring : Sooner(lock(w), lock(v))
  <2> SUFFICES ASSUME NEW w \in ring PROVE \E v \in ring : Sooner(lock(w), lock(v))
    OBVIOUS
  <2>1. PICK v \in ring : lock(w) \in held[v] BY <1>1
  <2>2. lock(v) \in want[v] BY <1>1
  <2>3. \A x \in held[v], y \in want[v] : Sooner(x, y) BY <1>2 DEF TurnInv, InTurn
  <2> QED BY <2>1, <2>2, <2>3
<1> HIDE DEF lock
<1>6. \A u \in ring : <<u, u>> \notin Less BY <1>3 DEF Sooner
<1>7. \A u, v, w \in ring : <<u, v>> \in Less /\ <<v, w>> \in Less => <<u, w>> \in Less
  BY <1>3 DEF Sooner
<1>8. \E w \in ring : \A v \in ring : <<w, v>> \notin Less
  <2> HIDE DEF Less
  <2> QED BY <1>4, <1>6, <1>7, Maximal
<1> QED BY <1>5, <1>8

\* Calls, facility writes and completions never wait for each other in a ring,
\* however many processes run them, unless one joins a center its room moved to.
THEOREM RingsNeedMoves == Spec => []RingsNeedAMove
<1>1. Init => TurnInv
  <2>1. Init => Busy = {} BY DEF Init, Busy
  <2>2. ASSUME Init, NEW w \in Workers PROVE InTurn(w)
    BY <2>2 DEF Init, NoLocks, InTurn, Claims
  <2> QED BY <2>1, <2>2, FS_EmptySet DEF TurnInv
<1>2. TypeOK /\ StockInv /\ TurnInv /\ [Next]_vars => TurnInv' BY TurnStep
<1>3. TypeOK /\ TurnInv => RingsNeedAMove BY NoRingInTurn
<1> QED BY <1>1, <1>2, <1>3, StockInvariant, PTL DEF Spec
-----------------------------------------------------------------------------
(* The ledger.  Sums are unfolded by induction on the number of terms: the   *)
(* set of numbers for which a statement holds is all of Nat.                 *)

\* A set of numbers with 0, and with the successor of each of its members, has all.
LEMMA AllNumbers ==
  ASSUME NEW S \in SUBSET Nat, 0 \in S, \A n \in S : n + 1 \in S
  PROVE  S = Nat
<1> SUFFICES ASSUME Nat \ S # {} PROVE FALSE
  OBVIOUS
<1>1. PICK n \in Nat \ S : \A k \in Nat \ S : <<k, n>> \notin OpToRel(<, Nat)
  BY WFMin, NatLessThanWellFounded
<1>2. n - 1 \in Nat /\ n - 1 < n /\ n = (n - 1) + 1
  <2>1. n \in Nat /\ n # 0 OBVIOUS
  <2> QED BY <2>1
<1>3. n - 1 \in S BY <1>1, <1>2 DEF OpToRel
<1> QED BY <1>1, <1>2, <1>3

\* There is a function with the running sums of any amounts.
LEMMA SumsExist ==
  ASSUME NEW a, NEW n \in Nat, \A i \in 1..n : a[i] \in Int
  PROVE  \E f \in [0..n -> Int] :
           f = [i \in 0..n |-> IF i = 0 THEN 0 ELSE f[i - 1] + a[i]]
<1> DEFINE IsSum(f, m) == \A i \in 0..m : f[i] = IF i = 0 THEN 0 ELSE f[i - 1] + a[i]
           Summed == {m \in Nat : m <= n => \E f \in [0..m -> Int] : IsSum(f, m)}
<1>1. 0 \in Summed
  <2>1. [i \in 0..0 |-> 0] \in [0..0 -> Int] /\ IsSum([i \in 0..0 |-> 0], 0) OBVIOUS
  <2> QED BY <2>1
<1>2. \A m \in Summed : m + 1 \in Summed
  <2> SUFFICES ASSUME NEW m \in Summed PROVE m + 1 \in Summed
    OBVIOUS
  <2>a. m \in Nat /\ m + 1 \in Nat OBVIOUS
  <2> SUFFICES ASSUME m + 1 <= n PROVE \E g \in [0..(m + 1) -> Int] : IsSum(g, m + 1)
    BY <2>a
  <2>b. m <= n BY <2>a
  <2>1. PICK f \in [0..m -> Int] : IsSum(f, m) BY <2>b
  <2>2. PICK g : g = [i \in 0..(m + 1) |-> IF i <= m THEN f[i] ELSE f[m] + a[m + 1]] OBVIOUS
  <2>3. a[m + 1] \in Int /\ f[m] \in Int BY m + 1 \in 1..n
  <2>4. g \in [0..(m + 1) -> Int] BY <2>1, <2>2, <2>3
  <2>5. IsSum(g, m + 1) BY <2>1, <2>2
  <2> QED BY <2>4, <2>5
<1>3. Summed = Nat
  <2> HIDE DEF Summed
  <2>1. Summed \in SUBSET Nat BY DEF Summed
  <2> QED BY <1>1, <1>2, <2>1, AllNumbers
<1>4. PICK f \in [0..n -> Int] : IsSum(f, n)
  <2>1. n \in Summed BY <1>3
  <2> QED BY <2>1
<1>5. f = [i \in 0..n |-> f[i]] OBVIOUS
<1> QED BY <1>4, <1>5

\* What Total computes: nothing of no terms, and term by term.
LEMMA TotalIs ==
  ASSUME NEW a, NEW n \in Nat, \A i \in 1..n : a[i] \in Int
  PROVE  \E f \in [0..n -> Int] :
           /\ \A i \in 0..n : f[i] = IF i = 0 THEN 0 ELSE f[i - 1] + a[i]
           /\ Total(a, n) = f[n]
<1>1. PICK f \in [0..n -> Int] : f = [i \in 0..n |-> IF i = 0 THEN 0 ELSE f[i - 1] + a[i]]
  BY SumsExist
<1> DEFINE sum == CHOOSE g : g = [i \in 0..n |-> IF i = 0 THEN 0 ELSE g[i - 1] + a[i]]
<1>2. sum = [i \in 0..n |-> IF i = 0 THEN 0 ELSE sum[i - 1] + a[i]] BY <1>1
<1>3. Total(a, n) = sum[n] BY DEF Total
<1> HIDE DEF sum
<1>4. PICK g : g = sum OBVIOUS
<1>5. DOMAIN g = 0..n /\ \A i \in 0..n : g[i] = IF i = 0 THEN 0 ELSE g[i - 1] + a[i]
  BY <1>2, <1>4
<1> DEFINE Same == {m \in Nat : m <= n => g[m] = f[m]}
<1>6. 0 \in Same BY <1>1, <1>5
<1>7. \A m \in Same : m + 1 \in Same
  <2> SUFFICES ASSUME NEW m \in Same, m + 1 <= n PROVE g[m + 1] = f[m + 1]
    OBVIOUS
  <2>1. g[m] = f[m] OBVIOUS
  <2>2. g[m + 1] = g[m] + a[m + 1] /\ f[m + 1] = f[m] + a[m + 1] BY <1>1, <1>5
  <2> QED BY <2>1, <2>2
<1>8. Same = Nat
  <2>1. Same \in SUBSET Nat OBVIOUS
  <2> HIDE DEF Same
  <2> QED BY <1>6, <1>7, <2>1, AllNumbers
<1>9. g[n] = f[n] BY <1>8
<1> QED BY <1>1, <1>3, <1>4, <1>9

\* The first terms alone decide their sum.
LEMMA TotalSame ==
  ASSUME NEW a, NEW b, NEW n \in Nat, \A i \in 1..n : a[i] \in Int /\ b[i] = a[i]
  PROVE  Total(b, n) = Total(a, n) /\ Total(a, n) \in Int
<1>1. PICK f \in [0..n -> Int] :
         (\A i \in 0..n : f[i] = IF i = 0 THEN 0 ELSE f[i - 1] + a[i]) /\ Total(a, n) = f[n]
  BY TotalIs
<1>2. PICK g \in [0..n -> Int] :
         (\A i \in 0..n : g[i] = IF i = 0 THEN 0 ELSE g[i - 1] + b[i]) /\ Total(b, n) = g[n]
  BY TotalIs
<1> DEFINE Same == {m \in Nat : m <= n => g[m] = f[m]}
<1>3. 0 \in Same BY <1>1, <1>2
<1>4. \A m \in Same : m + 1 \in Same
  <2> SUFFICES ASSUME NEW m \in Same, m + 1 <= n PROVE g[m + 1] = f[m + 1]
    OBVIOUS
  <2>1. g[m] = f[m] OBVIOUS
  <2>2. g[m + 1] = g[m] + b[m + 1] /\ f[m + 1] = f[m] + a[m + 1] /\ a[m + 1] = b[m + 1]
    BY <1>1, <1>2
  <2> QED BY <2>1, <2>2
<1>5. Same = Nat
  <2>1. Same \in SUBSET Nat OBVIOUS
  <2> HIDE DEF Same
  <2> QED BY <1>3, <1>4, <2>1, AllNumbers
<1>6. g[n] = f[n] BY <1>5
<1> QED BY <1>1, <1>2, <1>6

\* One more term adds itself.
LEMMA TotalNext ==
  ASSUME NEW a, NEW n \in Nat, \A i \in 1..(n + 1) : a[i] \in Int
  PROVE  Total(a, 0) = 0 /\ Total(a, n + 1) = Total(a, n) + a[n + 1]
<1>1. Total(a, 0) = 0 BY TotalIs
<1>a. n + 1 \in Nat /\ \A i \in 1..n : a[i] \in Int OBVIOUS
<1>2. PICK g \in [0..(n + 1) -> Int] :
         /\ \A i \in 0..(n + 1) : g[i] = IF i = 0 THEN 0 ELSE g[i - 1] + a[i]
         /\ Total(a, n + 1) = g[n + 1]
  BY <1>a, TotalIs
<1>3. PICK f \in [0..n -> Int] :
         (\A i \in 0..n : f[i] = IF i = 0 THEN 0 ELSE f[i - 1] + a[i]) /\ Total(a, n) = f[n]
  BY <1>a, TotalIs
<1> DEFINE Same == {m \in Nat : m <= n => g[m] = f[m]}
<1>4. 0 \in Same BY <1>2, <1>3
<1>5. \A m \in Same : m + 1 \in Same
  <2> SUFFICES ASSUME NEW m \in Same, m + 1 <= n PROVE g[m + 1] = f[m + 1]
    OBVIOUS
  <2>1. g[m] = f[m] OBVIOUS
  <2>2. g[m + 1] = g[m] + a[m + 1] /\ f[m + 1] = f[m] + a[m + 1] BY <1>2, <1>3
  <2> QED BY <2>1, <2>2
<1>6. Same = Nat
  <2>1. Same \in SUBSET Nat OBVIOUS
  <2> HIDE DEF Same
  <2> QED BY <1>4, <1>5, <2>1, AllNumbers
<1>7. g[n] = f[n] /\ g[n + 1] = g[n] + a[n + 1] BY <1>2, <1>6
<1> QED BY <1>1, <1>2, <1>3, <1>7

\* What the rows of the ledger add is integers.
LEMMA ChangesType ==
  ASSUME TypeOK, NEW p, NEW l
  PROVE  /\ Len(ledger) \in Nat /\ DOMAIN ledger = 1..Len(ledger)
         /\ DOMAIN Changes(p, l) = 1..Len(ledger)
         /\ \A n \in 1..Len(ledger) : Changes(p, l)[n] \in Int
<1>1. Len(ledger) \in Nat /\ DOMAIN ledger = 1..Len(ledger) BY DEF TypeOK
<1>2. \A n \in 1..Len(ledger) : ledger[n].move \in Movements
  <2>1. ledger \in Seq([key : Keys, move : Movements, before : Int]) BY DEF TypeOK
  <2>2. \A R : ledger \in Seq(R) => \A n \in 1..Len(ledger) : ledger[n] \in R
    BY <1>1
  <2>3. \A n \in 1..Len(ledger) : ledger[n] \in [key : Keys, move : Movements, before : Int]
    BY <2>1, <2>2
  <2> QED BY <2>3
<1>3. \A n \in 1..Len(ledger) : Delta(ledger[n].move, l) \in Int BY <1>2, DeltaInt
<1> QED BY <1>1, <1>3 DEF Changes

\* A commit adds one row and leaves what the rows before it add up to.
LEMMA CommitReplays ==
  ASSUME TypeOK, TypeOK', StockInv, NEW w \in Workers, Commit(w), NEW p, NEW l
  PROVE  /\ Len(ledger') = Len(ledger) + 1
         /\ \A n \in 0..Len(ledger) : Replayed(n, p, l)' = Replayed(n, p, l)
         /\ Replayed(Len(ledger), p, l)' = Replayed(Len(ledger), p, l)
              + IF Wish(w).part = p THEN Delta(Wish(w), l) ELSE 0
<1>1. /\ Len(ledger) \in Nat /\ Len(ledger') = Len(ledger) + 1
      /\ \A n \in 1..Len(ledger) : ledger'[n] = ledger[n]
      /\ ledger'[Len(ledger) + 1].move = Wish(w)
  BY DEF Commit, TypeOK
<1> DEFINE a == Changes(p, l)  b == Changes(p, l)'
<1>2. \A n \in 1..Len(ledger) : a[n] \in Int BY ChangesType
<1>4. \A n \in 1..Len(ledger) : b[n] = a[n]
  <2>1. \A n \in 1..Len(ledger) : n \in DOMAIN ledger /\ n \in DOMAIN ledger'
    BY <1>1, ChangesType DEF TypeOK
  <2> QED BY <1>1, <2>1 DEF Changes
<1>5. b[Len(ledger) + 1] = IF Wish(w).part = p THEN Delta(Wish(w), l) ELSE 0
  <2>1. Len(ledger) + 1 \in DOMAIN ledger' BY <1>1 DEF TypeOK
  <2> QED BY <1>1, <2>1 DEF Changes
<1>3. \A n \in 1..(Len(ledger) + 1) : b[n] \in Int
  <2>1. PICK m \in Movements : m = Wish(w) BY CommitBalances
  <2>2. b[Len(ledger) + 1] \in Int BY <1>5, <2>1, DeltaInt
  <2> HIDE DEF a, b
  <2> QED BY <1>1, <1>2, <1>4, <2>2
<1> HIDE DEF a, b
<1>6. \A n \in 0..Len(ledger) : Total(b, n) = Total(a, n) BY <1>1, <1>2, <1>4, TotalSame
<1>7. Total(b, Len(ledger) + 1) = Total(b, Len(ledger)) + b[Len(ledger) + 1]
  BY <1>1, <1>3, TotalNext
<1> QED BY <1>1, <1>5, <1>6, <1>7 DEF Replayed, a, b

\* What stands in the ledger adds up to the balances, before and after any step.
LEMMA LedgerStep ==
  ASSUME TypeOK, TypeOK', StockInv, LedgerExplainsStock, [Next]_vars
  PROVE  LedgerExplainsStock'
<1>1. ASSUME ledger' = ledger, balance' = balance PROVE LedgerExplainsStock'
  BY <1>1 DEF LedgerExplainsStock, OnHand, Replayed, Changes
<1>2. ASSUME NEW w \in Workers, Commit(w) PROVE LedgerExplainsStock'
  <2>1. PICK m \in Movements :
          /\ m = Wish(w)
          /\ Saved(m) = {<<m.part, l>> : l \in Touched(m)}
          /\ Touched(m) \subseteq Places /\ m.part \in Parts
          /\ DOMAIN balance' = DOMAIN balance \cup Saved(m)
          /\ \A x \in DOMAIN balance \ Saved(m) : balance'[x] = balance[x]
          /\ \A l \in Touched(m) : balance'[<<m.part, l>>] = OnHand(m.part, l) + Delta(m, l)
    BY <1>2, CommitBalances
  <2>2. \A p, l : /\ Len(ledger') = Len(ledger) + 1
                  /\ \A n \in 0..Len(ledger) : Replayed(n, p, l)' = Replayed(n, p, l)
                  /\ Replayed(Len(ledger), p, l)' = Replayed(Len(ledger), p, l)
                       + IF m.part = p THEN Delta(m, l) ELSE 0
    BY <1>2, <2>1, CommitReplays
  <2>3. ASSUME NEW p \in Parts, NEW l \in Places
        PROVE  OnHand(p, l)' = OnHand(p, l) + IF m.part = p THEN Delta(m, l) ELSE 0
    <3>1. OnHand(p, l) \in Int BY OnHandInt
    <3>2. CASE p = m.part /\ l \in Touched(m) BY <2>1, <3>1, <3>2 DEF OnHand
    <3>3. CASE p # m.part \/ l \notin Touched(m)
      <4>1. <<p, l>> \notin Saved(m) BY <2>1, <3>3
      <4>2. <<p, l>> \in DOMAIN balance' <=> <<p, l>> \in DOMAIN balance BY <2>1, <4>1
      <4>3. OnHand(p, l)' = OnHand(p, l) BY <2>1, <4>1, <4>2 DEF OnHand
      <4>4. p = m.part => Delta(m, l) = 0
        <5>1. l # NoPlace BY PrimaryKeys DEF Places, NoPlace
        <5>2. p = m.part => l # m.source /\ l # m.target BY <3>3, <5>1 DEF Touched
        <5> QED BY <5>2 DEF Delta
      <4> QED BY <3>1, <4>3, <4>4
    <3> QED BY <3>2, <3>3
  <2>4. \A p \in Parts, l \in Places : OnHand(p, l)' = Replayed(Len(ledger), p, l)'
    BY <2>2, <2>3 DEF LedgerExplainsStock
  <2>5. /\ Len(ledger) \in Nat /\ DOMAIN ledger = 1..Len(ledger)
        /\ DOMAIN ledger' = 1..(Len(ledger) + 1)
        /\ \A n \in DOMAIN ledger : ledger'[n] = ledger[n]
        /\ ledger'[Len(ledger) + 1].move = m
        /\ ledger'[Len(ledger) + 1].before = seen[w][MainPlace(m)]
    BY <1>2, <2>1 DEF Commit, TypeOK
  <2>6. seen[w][MainPlace(m)] = OnHand(m.part, MainPlace(m)) /\ MainPlace(m) \in Places
    <3>1. MainPlace(m) \in Touched(m) BY <2>1, MovementsAssumption DEF MainPlace, Touched
    <3>2. seen[w] = [l \in Touched(m) |-> OnHand(m.part, l)]
      BY <1>2, <2>1 DEF Commit, At, Ready, StockInv, Settled
    <3> QED BY <2>1, <3>1, <3>2
  <2>7. ASSUME NEW n \in DOMAIN ledger'
        PROVE  ledger'[n].before = Replayed(n - 1, ledger[n].move.part, MainPlace(ledger[n].move))'
    <3>1. CASE n \in DOMAIN ledger
      <4>1. ledger[n].before = Replayed(n - 1, ledger[n].move.part, MainPlace(ledger[n].move))
        BY <3>1 DEF LedgerExplainsStock
      <4>2. n - 1 \in 0..Len(ledger) BY <2>5, <3>1
      <4> QED BY <2>2, <2>5, <3>1, <4>1, <4>2
    <3>2. CASE n = Len(ledger) + 1
      <4>1. OnHand(m.part, MainPlace(m)) = Replayed(Len(ledger), m.part, MainPlace(m))
        BY <2>1, <2>6 DEF LedgerExplainsStock
      <4>2. n - 1 = Len(ledger) /\ n - 1 \in 0..Len(ledger) BY <2>5, <3>2
      <4> QED BY <2>2, <2>5, <2>6, <3>2, <4>1, <4>2
    <3> QED BY <2>5, <3>1, <3>2
  <2> QED BY <2>4, <2>7 DEF LedgerExplainsStock, MainPlace
<1>3. ASSUME NEW w \in Workers, Start(w) \/ Progress(w) \/ Abort(w), ~Commit(w)
      PROVE  ledger' = ledger /\ balance' = balance
  BY <1>3, TableWriters
  DEF tables, OpenRoom, CloseRoom, MoveRoom, OpenCenter, CloseCenter, Finish
<1>4. UNCHANGED vars => ledger' = ledger /\ balance' = balance BY DEF vars, tables
<1> QED BY <1>1, <1>2, <1>3, <1>4 DEF Next

\* No update is lost: whatever interleaves, the ledger adds up to every balance,
\* and each of its rows recorded the balance that the rows before it add up to.
THEOREM LedgerExplains == Spec => []LedgerExplainsStock
<1>1. Init /\ TypeOK => LedgerExplainsStock
  <2> SUFFICES ASSUME Init, TypeOK PROVE LedgerExplainsStock
    OBVIOUS
  <2>1. ledger = <<>> /\ balance = <<>> BY DEF Init, NoLocks
  <2>2. Len(ledger) = 0 /\ DOMAIN ledger = {} /\ DOMAIN balance = {} BY <2>1
  <2>3. \A p, l : Replayed(0, p, l) = 0
    <3>1. \A a : Total(a, 0) = 0 BY TotalIs
    <3> QED BY <3>1 DEF Replayed
  <2> QED BY <2>2, <2>3 DEF LedgerExplainsStock, OnHand
<1>2. TypeOK /\ TypeOK' /\ StockInv /\ LedgerExplainsStock /\ [Next]_vars => LedgerExplainsStock'
  BY LedgerStep
<1> QED BY <1>1, <1>2, StockInvariant, PTL DEF Spec
=============================================================================
