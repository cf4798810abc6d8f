----------------------------- MODULE StockLedger -----------------------------
(***************************************************************************)
(* Spare-part stock: assets/stock.py behind assets/idempotency.py, with    *)
(* the facility writes of assets/views.py and assets/physical_location.py  *)
(* that compete for the same rows.                                         *)
(*                                                                         *)
(* Every call is one database transaction (READ COMMITTED).  Its actions   *)
(* are the row locks it waits for, its unlocked reads, and its commit; a   *)
(* rollback may come anywhere.  A call that is refused under its locks is  *)
(* refused once it has all of them: the code gives up earlier, holding     *)
(* fewer.  The row of a balance is locked by the holder of its part only,  *)
(* so that lock never waits and is not modelled.                           *)
(* Definitions marked "Mutant" are wrong on purpose and nothing uses them. *)
(***************************************************************************)
EXTENDS StockMoves, RowLocks, Sequences, FiniteSets

CONSTANTS
    HomeCenter,             \* the center of each room at first
    RoomChanges,            \* what facility managers do to rooms
    CenterChanges,          \* and to centers
    MaxCalls,               \* bound: calls per key, the first one included
    MaxWrites               \* bound: facility writes and repair completions

ASSUME FacilitiesAssumption ==
    /\ HomeCenter \in [Rooms -> Centers]
    /\ RoomChanges \subseteq {"open", "close", "move"}
    /\ CenterChanges \subseteq {"open", "close"}
ASSUME BoundsAssumption == MaxCalls \in Nat /\ MaxWrites \in Nat

VARIABLES
    balance,        \* SpareStock: quantity of the rows that exist, by part and place
    ledger,         \* SpareStockTransaction, in the order of creation
    receipts,       \* keys whose IdempotentMutation row is committed
    centersOn,      \* DataCenter.is_active
    roomsOn,        \* ServerRoom.is_active
    parent,         \* ServerRoom.data_center
    finished,       \* the repair that usages refer to is finished
    wish,           \* what the user of each key asked for
    calls,          \* calls sent with each key
    acked,          \* keys whose user has seen a success
    job,            \* what each worker is doing
    pc,             \* and how far it is
    seen,           \* balances it read under its locks
    writes          \* facility writes and completions started

tables == <<balance, ledger, receipts, centersOn, roomsOn, parent, finished>>
vars == <<tables, wish, calls, acked, job, pc, locks, seen, writes>>

Idle == [kind |-> "none"]

-----------------------------------------------------------------------------
(* Locks, each with its place in the order the doc strings promise: part,   *)
(* centers, rooms, then fault and asset.                                     *)

KeyLock(k) == <<1, k>>
PartLock(p) == <<2, p>>
CenterLock(c) == <<3, c>>
RoomLock(r) == <<4, r>>
FaultLock == <<5, 0>>
AssetLock == <<6, 0>>

\* The next lock of a stage is taken, in the sorted order of the code.
Acquire(w) ==
    /\ Take(w)
    /\ UNCHANGED <<tables, wish, calls, acked, job, pc, seen, writes>>

At(w, stage) == pc[w] = stage /\ Ready(w)

Advance(w, stage, needed) == pc' = [pc EXCEPT ![w] = stage] /\ Ask(w, needed)

\* The transaction of w is over, committed or rolled back.
End(w) ==
    /\ pc' = [pc EXCEPT ![w] = "idle"]
    /\ job' = [job EXCEPT ![w] = Idle]
    /\ Drop(w)
    /\ seen' = [seen EXCEPT ![w] = <<>>]

\* A deadlock victim, a lock wait that timed out, a lost connection, a crash.
Abort(w) ==
    /\ pc[w] # "idle"
    /\ End(w)
    /\ UNCHANGED <<tables, wish, calls, acked, writes>>

-----------------------------------------------------------------------------
(* What the transactions read                                                *)

OnHand(p, l) == IF <<p, l>> \in DOMAIN balance THEN balance[<<p, l>>] ELSE 0

\* _spare_location, and again _validate_locked_spare_location
PlaceOpen(l) ==
    /\ l[1] \in centersOn
    /\ l[2] # NoRoom => l[2] \in roomsOn /\ parent[l[2]] = l[1]

PlaceLocks(m) ==
    {CenterLock(l[1]) : l \in Touched(m)}
        \cup {RoomLock(l[2]) : l \in {n \in Touched(m) : n[2] # NoRoom}}
        \cup IF m.kind = "usage" THEN {FaultLock, AssetLock} ELSE {}

\* Mutants: places are not validated again, quantities not compared with the
\* balance, the repair not looked at.
AdmissibleAnywhere(m) ==
    /\ \A l \in Touched(m) : OnHand(m.part, l) + Delta(m, l) >= 0
    /\ m.kind = "usage" => ~finished
AdmissibleUnchecked(m) ==
    /\ \A l \in Touched(m) : PlaceOpen(l)
    /\ m.kind = "usage" => ~finished
AdmissibleForever(m) ==
    \A l \in Touched(m) : PlaceOpen(l) /\ OnHand(m.part, l) + Delta(m, l) >= 0

\* The checks made once the rows are locked.
Admissible(m) ==
    /\ \A l \in Touched(m) : PlaceOpen(l) /\ OnHand(m.part, l) + Delta(m, l) >= 0
    /\ m.kind = "usage" => ~finished

\* before_quantity is that of the source, or of the target if there is no source.
MainPlace(m) == IF m.source # NoPlace THEN m.source ELSE m.target

RowsOfRoom(r) == {x \in DOMAIN balance : x[2][2] = r}
RowsOfCenter(c) == {x \in DOMAIN balance : x[2][1] = c}
Stocked(rows) == \E x \in rows : balance[x] > 0

-----------------------------------------------------------------------------
(* A keyed call: execute_once around a movement or a usage                   *)

KeyOf(w) == job[w].key
Wish(w) == wish[KeyOf(w)]

\* The answer reaches the browser or is lost.
Answer(k) == acked' \in {acked, acked \cup {k}}

\* A call or a retry; prepareIdempotency keeps the key until the answer arrives.
Call(w, k) ==
    /\ pc[w] = "idle"
    /\ k \notin acked /\ calls[k] < MaxCalls
    /\ calls' = [calls EXCEPT ![k] = @ + 1]
    /\ job' = [job EXCEPT ![w] = [kind |-> "stock", key |-> k]]
    /\ Advance(w, "key", {KeyLock(k)})
    /\ UNCHANGED <<tables, wish, acked, seen, writes>>

\* The insert fails on a committed row: the stored response is the answer.
Replay(w) ==
    /\ At(w, "key") /\ KeyOf(w) \in receipts
    /\ Answer(KeyOf(w))
    /\ End(w)
    /\ UNCHANGED <<tables, wish, calls, writes>>

\* Mutant: no unique row stands in the way of a duplicate.
LockPartUnkeyed(w) ==
    /\ At(w, "key")
    /\ Advance(w, "part", {PartLock(Wish(w).part)})
    /\ UNCHANGED <<tables, wish, calls, acked, job, seen, writes>>

\* Mutant: a usage starts with the fault and its asset.
LockPartAndFault(w) ==
    /\ At(w, "key") /\ KeyOf(w) \notin receipts
    /\ Advance(w, "part", {PartLock(Wish(w).part)} \cup
           IF Wish(w).kind = "usage" THEN {FaultLock, AssetLock} ELSE {})
    /\ UNCHANGED <<tables, wish, calls, acked, job, seen, writes>>

\* The insert succeeds and the mutation starts with the part.
LockPart(w) ==
    /\ At(w, "key") /\ KeyOf(w) \notin receipts
    /\ Advance(w, "part", {PartLock(Wish(w).part)})
    /\ UNCHANGED <<tables, wish, calls, acked, job, seen, writes>>

\* The places are read without locks; a closed one refuses the call.
LockPlaces(w) ==
    /\ At(w, "part")
    /\ IF \A l \in Touched(Wish(w)) : PlaceOpen(l)
       THEN Advance(w, "places", PlaceLocks(Wish(w))) /\ UNCHANGED <<job, seen>>
       ELSE End(w)
    /\ UNCHANGED <<tables, wish, calls, acked, writes>>

Settle(w) ==
    /\ At(w, "places")
    /\ IF Admissible(Wish(w))
       THEN /\ pc' = [pc EXCEPT ![w] = "commit"]
            /\ seen' = [seen EXCEPT ![w] =
                          [l \in Touched(Wish(w)) |-> OnHand(Wish(w).part, l)]]
            /\ UNCHANGED <<job, locks>>
       ELSE End(w)
    /\ UNCHANGED <<tables, wish, calls, acked, writes>>

\* Mutant: target_stock.save() is forgotten.
SavedFirst(m) == {<<m.part, MainPlace(m)>>}

Saved(m) == {<<m.part, l>> : l \in Touched(m)}

\* Balances, ledger row and receipt, all or nothing.
Commit(w) ==
    /\ At(w, "commit")
    /\ LET m == Wish(w) IN
       /\ balance' = [x \in DOMAIN balance \cup Saved(m) |->
                         IF x \in Saved(m) THEN seen[w][x[2]] + Delta(m, x[2]) ELSE balance[x]]
       /\ ledger' = Append(ledger, [key |-> KeyOf(w), move |-> m,
                                    before |-> seen[w][MainPlace(m)]])
    /\ receipts' = receipts \cup {KeyOf(w)}
    /\ Answer(KeyOf(w))
    /\ End(w)
    /\ UNCHANGED <<centersOn, roomsOn, parent, finished, wish, calls, writes>>

-----------------------------------------------------------------------------
(* Facilities and the repair                                                 *)

\* A write begins: the job and the locks it asks for.
Begin(w, j, stage, needed) ==
    /\ pc[w] = "idle" /\ writes < MaxWrites
    /\ writes' = writes + 1
    /\ job' = [job EXCEPT ![w] = j]
    /\ Advance(w, stage, needed)
    /\ UNCHANGED <<tables, wish, calls, acked, seen>>

\* lock_server_room_location for a patch of is_active, or of data_center to c;
\* the present center of the room is read without a lock.
PatchRoom(w, r, change, c) ==
    /\ change = "move" \/ c = parent[r]
    /\ Begin(w, [kind |-> "room", room |-> r, change |-> change, to |-> c], "room",
             {CenterLock(parent[r]), CenterLock(c), RoomLock(r), AssetLock})

\* Its last query joins the center the room has now, FOR UPDATE.
JoinCenter(w) ==
    /\ At(w, "room")
    /\ Advance(w, "joined", {CenterLock(parent[job[w].room])})
    /\ UNCHANGED <<tables, wish, calls, acked, job, seen, writes>>

OpenRoom(w) ==
    /\ At(w, "joined") /\ job[w].change = "open"
    /\ roomsOn' = roomsOn \cup {job[w].room}
    /\ End(w)
    /\ UNCHANGED <<balance, ledger, receipts, centersOn, parent, finished, wish, calls, acked, writes>>

CloseRoom(w) ==
    /\ At(w, "joined") /\ job[w].change = "close"
    /\ ~Stocked(RowsOfRoom(job[w].room))
    /\ roomsOn' = roomsOn \ {job[w].room}
    /\ End(w)
    /\ UNCHANGED <<balance, ledger, receipts, centersOn, parent, finished, wish, calls, acked, writes>>

\* Mutant: rows with a zero balance do not keep the room.
MovableIfEmpty(r) == ~Stocked(RowsOfRoom(r))

\* _validate_server_room_target_data_center
Movable(r) == RowsOfRoom(r) = {}

MoveRoom(w) ==
    /\ At(w, "joined") /\ job[w].change = "move"
    /\ job[w].to \in centersOn /\ Movable(job[w].room)
    /\ parent' = [parent EXCEPT ![job[w].room] = job[w].to]
    /\ End(w)
    /\ UNCHANGED <<balance, ledger, receipts, centersOn, roomsOn, finished, wish, calls, acked, writes>>

PatchCenter(w, c, change) ==
    Begin(w, [kind |-> "center", center |-> c, change |-> change], "center", {CenterLock(c)})

OpenCenter(w) ==
    /\ At(w, "center") /\ job[w].change = "open"
    /\ centersOn' = centersOn \cup {job[w].center}
    /\ End(w)
    /\ UNCHANGED <<balance, ledger, receipts, roomsOn, parent, finished, wish, calls, acked, writes>>

CloseCenter(w) ==
    /\ At(w, "center") /\ job[w].change = "close"
    /\ ~Stocked(RowsOfCenter(job[w].center))
    /\ centersOn' = centersOn \ {job[w].center}
    /\ End(w)
    /\ UNCHANGED <<balance, ledger, receipts, roomsOn, parent, finished, wish, calls, acked, writes>>

\* The repair is completed under the locks of its fault and asset.
StartFinish(w) == ~finished /\ Begin(w, [kind |-> "finish"], "finish", {FaultLock, AssetLock})

Finish(w) ==
    /\ At(w, "finish")
    /\ finished' = TRUE
    /\ End(w)
    /\ UNCHANGED <<balance, ledger, receipts, centersOn, roomsOn, parent, wish, calls, acked, writes>>

\* A stale revision, a missing grant, or a guard above refuses the write.
Refuse(w) ==
    /\ At(w, "joined") \/ At(w, "center") \/ At(w, "finish")
    /\ End(w)
    /\ UNCHANGED <<tables, wish, calls, acked, writes>>

-----------------------------------------------------------------------------
Init ==
    /\ balance = <<>> /\ ledger = <<>> /\ receipts = {}
    /\ centersOn = Centers /\ roomsOn = Rooms /\ parent = HomeCenter
    /\ finished = FALSE
    /\ wish \in [Keys -> Movements]
    /\ calls = [k \in Keys |-> 0] /\ acked = {}
    /\ job = [w \in Workers |-> Idle] /\ pc = [w \in Workers |-> "idle"]
    /\ NoLocks
    /\ seen = [w \in Workers |-> <<>>]
    /\ writes = 0

Start(w) ==
    \/ \E k \in Keys : Call(w, k)
    \/ \E r \in Rooms, change \in RoomChanges, c \in Centers : PatchRoom(w, r, change, c)
    \/ \E c \in Centers, change \in CenterChanges : PatchCenter(w, c, change)
    \/ StartFinish(w)

Progress(w) ==
    \/ Acquire(w)
    \/ Replay(w) \/ LockPart(w) \/ LockPlaces(w) \/ Settle(w) \/ Commit(w)
    \/ JoinCenter(w) \/ OpenRoom(w) \/ CloseRoom(w) \/ MoveRoom(w)
    \/ OpenCenter(w) \/ CloseCenter(w) \/ Finish(w) \/ Refuse(w)

Next == \E w \in Workers : Start(w) \/ Progress(w) \/ Abort(w)

Spec == Init /\ [][Next]_vars

-----------------------------------------------------------------------------
(* Properties *)

Stages == {"idle", "key", "part", "places", "commit", "room", "joined", "center", "finish"}

TypeOK ==
    /\ DOMAIN balance \subseteq Parts \X Places
    /\ \A x \in DOMAIN balance : balance[x] \in Int
    /\ ledger \in Seq([key : Keys, move : Movements, before : Int])
    /\ receipts \subseteq Keys /\ acked \subseteq Keys
    /\ centersOn \subseteq Centers /\ roomsOn \subseteq Rooms
    /\ parent \in [Rooms -> Centers]
    /\ finished \in BOOLEAN
    /\ wish \in [Keys -> Movements]
    /\ calls \in [Keys -> 0..MaxCalls]
    /\ pc \in [Workers -> Stages]
    /\ DOMAIN job = Workers /\ DOMAIN seen = Workers
    /\ DOMAIN want = Workers /\ DOMAIN held = Workers
    /\ writes \in 0..MaxWrites

\* No interleaving of movements, usages and retries drives a balance below zero.
NeverNegative == \A x \in DOMAIN balance : balance[x] >= 0

\* Stock lies in open centers and rooms only: a deactivation and a movement that
\* both checked first cannot both go through.
StockInOpenPlaces ==
    \A x \in DOMAIN balance : balance[x] > 0 =>
        x[2][1] \in centersOn /\ (x[2][2] # NoRoom => x[2][2] \in roomsOn)

\* The center of a stock row is the center of its room, whatever is reparented.
StockFollowsRoom ==
    \A x \in DOMAIN balance : x[2][2] # NoRoom => parent[x[2][2]] = x[2][1]

\* What no interleaving of movements, usages, retries and facility writes breaks.
StockIsSound == NeverNegative /\ StockInOpenPlaces /\ StockFollowsRoom

\* The sum of the first n of a sequence of amounts.
Total(amounts, n) ==
    LET sum[i \in 0..n] == IF i = 0 THEN 0 ELSE sum[i - 1] + amounts[i] IN sum[n]

\* What each row of the ledger adds to part p at l.
Changes(p, l) ==
    [n \in DOMAIN ledger |-> IF ledger[n].move.part = p THEN Delta(ledger[n].move, l) ELSE 0]

\* The ledger replayed over the first n rows.
Replayed(n, p, l) == Total(Changes(p, l), n)

\* The immutable ledger accounts for every balance, and each row recorded the
\* balance that the rows before it add up to: no update is lost.
LedgerExplainsStock ==
    /\ TypeOK
    /\ \A p \in Parts, l \in Places : OnHand(p, l) = Replayed(Len(ledger), p, l)
    /\ \A n \in DOMAIN ledger :
           ledger[n].before = Replayed(n - 1, ledger[n].move.part, MainPlace(ledger[n].move))

\* Duplicates and retries apply an intent once, and a user who was told of
\* success finds it in the ledger.
AppliedOnce ==
    /\ \A n, k \in DOMAIN ledger : ledger[n].key = ledger[k].key => n = k
    /\ receipts = {ledger[n].key : n \in DOMAIN ledger}
    /\ acked \subseteq receipts

\* A repair that is finished takes no more parts.
FinishedTakesNoParts ==
    [][finished => \A n \in DOMAIN ledger' \ DOMAIN ledger : ledger'[n].move.kind # "usage"]_vars

\* Transactions wait for each other in a ring, usages and completions included,
\* only if one of them joins the center that its room was moved to meanwhile.
RingsNeedAMove ==
    \A ring \in (SUBSET Workers) \ {{}} :
        \/ \E w \in ring : \A v \in ring \ {w} : ~WaitsFor(w, v)
        \/ \E w \in ring : pc[w] = "joined" /\ ~Ready(w)

\* What the doc string of physical_location.py says: locks of the location
\* graph are taken in one order, the one of Before.
LockedInOrder == \A w \in Workers : InOrder(w)

\* Locks at work.  The strengthening of the invariants above says what each
\* stage holds, or has yet to take, and what its holder may rely on.
StageHolds(w) ==
    /\ pc[w] \in {"key", "part", "places", "commit"} =>
         job[w].kind = "stock" /\ KeyOf(w) \in Keys
    /\ pc[w] = "key" => KeyLock(KeyOf(w)) \in Claims(w)
    /\ pc[w] \in {"part", "places", "commit"} =>
         KeyLock(KeyOf(w)) \in held[w] /\ KeyOf(w) \notin receipts
    /\ pc[w] = "part" => PartLock(Wish(w).part) \in Claims(w)
    /\ pc[w] \in {"places", "commit"} => PartLock(Wish(w).part) \in held[w]
    /\ pc[w] = "places" => PlaceLocks(Wish(w)) \subseteq Claims(w)
    /\ pc[w] = "commit" => PlaceLocks(Wish(w)) \subseteq held[w]
    /\ pc[w] \in {"room", "joined"} => job[w].room \in Rooms /\ job[w].to \in Centers
    /\ pc[w] = "room" => RoomLock(job[w].room) \in Claims(w)
    /\ pc[w] = "joined" => RoomLock(job[w].room) \in held[w]
    /\ pc[w] = "center" => job[w].center \in Centers /\ CenterLock(job[w].center) \in Claims(w)
    /\ pc[w] = "finish" => FaultLock \in Claims(w)

\* What a call has checked and read stays true until it commits.
Settled(w) ==
    pc[w] = "commit" =>
        /\ Admissible(Wish(w))
        /\ seen[w] = [l \in Touched(Wish(w)) |-> OnHand(Wish(w).part, l)]

StockInv ==
    /\ NeverNegative /\ StockInOpenPlaces /\ StockFollowsRoom
    /\ Exclusive
    /\ \A w \in Workers : StageHolds(w) /\ Settled(w)

\* Calls implement the book: each commit is one step of it.
Book == INSTANCE StockBook

BookSpec == Book!Spec
=============================================================================
