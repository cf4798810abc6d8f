--------------------------- MODULE RepairLifecycle ----------------------------
(***************************************************************************)
(* Faults, repair rounds and the status of their assets:                   *)
(* assets/repair_writes.py, with the status writes of assets/lifecycle.py  *)
(* and assets/asset_writes.py and the part usages of assets/stock.py.      *)
(*                                                                         *)
(* A request is one transaction.  It locks its fault (and the rounds of    *)
(* it), checks, locks the asset, reads the other faults of the asset, and  *)
(* commits fault, rounds and asset together.  What it wrote before it      *)
(* waits for the asset is seen by others only at that commit.              *)
(* Definitions marked "Mutant" are wrong on purpose and nothing uses them. *)
(***************************************************************************)
EXTENDS RowLocks, Sequences

CONSTANTS
    Assets, Faults,         \* primary keys
    AssetOf,                \* FaultEvent.asset
    Normal,                 \* ASSET_REPAIR_RESTORE_STATUS_VALUES
    FirstStatus,            \* status in which assets are created
    Requests,               \* what users ask for
    MaxRequests             \* bound: requests that start

NoStatus == "none"      \* status_before_repair is null
AnyRound == 0           \* a usage request without repair_id

RepairConstants ==
    /\ Assets \subseteq Nat /\ Faults \subseteq Nat
    /\ AssetOf \in [Faults -> Assets]
    /\ Normal \cap {NoStatus, "repair", "retired"} = {} /\ FirstStatus \in Normal
    /\ MaxRequests \in Nat

\* A request names the round its client read by round_number; a recorded round
\* may be finished at once.
AllRequests ==
    [kind : {"create", "touch", "delete"}, fault : Faults]
      \cup [kind : {"record"}, fault : Faults, finish : BOOLEAN]
      \cup [kind : {"edit"}, fault : Faults, round : Nat, finish : BOOLEAN]
      \cup [kind : {"drop", "reopen", "use"}, fault : Faults, round : Nat]
      \cup [kind : {"status"}, asset : Assets, to : Normal]
      \cup [kind : {"retire", "archive", "restore"}, asset : Assets]

RepairRequests == Requests \subseteq AllRequests

VARIABLES
    status, snapshot,       \* Asset.status and Asset.status_before_repair
    archived,               \* Asset.archived_at is set
    faults,                 \* FaultEvent: "none", "open", "closed", "deleted"
    rounds,                 \* RepairRecord rows of a fault by round_number
    normal,                 \* history: the status last set by the user
    job, pc,                \* what each worker is doing and how far it is
    seen,                   \* what it read under the lock of the asset
    requests                \* requests started

assets == <<status, snapshot, archived, normal>>
repairs == <<faults, rounds>>
vars == <<assets, repairs, job, pc, seen, requests, locks>>

Idle == [kind |-> "none"]
Nothing == [open |-> FALSE, unfinished |-> FALSE]

FaultLock(f) == <<1, f>>
AssetLock(a) == <<2, a>>

FaultJobs == {"touch", "delete", "record", "edit", "drop", "reopen", "use"}
AssetJobs == {"status", "retire", "archive", "restore"}

AssetFor(q) == IF q.kind \in AssetJobs THEN q.asset ELSE AssetOf[q.fault]
Exists(f) == faults[f] \in {"open", "closed"}
FaultsOf(a) == {f \in Faults : AssetOf[f] = a}
OpenFaults(a) == {f \in FaultsOf(a) : faults[f] = "open"}

\* FaultEvent.repair: the latest round is the current one.
Current(f) == rounds[f][Len(rounds[f])]
Unfinished(f) == rounds[f] # <<>> /\ ~Current(f).finished
InRepair(a) == \E f \in FaultsOf(a) : \E n \in DOMAIN rounds[f] : ~rounds[f][n].finished

-----------------------------------------------------------------------------
(* Locking                                                                   *)

Advance(w, stage, needed) == pc' = [pc EXCEPT ![w] = stage] /\ Ask(w, needed)

End(w) ==
    /\ pc' = [pc EXCEPT ![w] = "idle"]
    /\ job' = [job EXCEPT ![w] = Idle]
    /\ seen' = [seen EXCEPT ![w] = Nothing]
    /\ Drop(w)

Acquire(w) ==
    /\ Take(w)
    /\ UNCHANGED <<assets, repairs, job, pc, seen, requests>>

\* A refusal, a lost connection, a crash.
Abort(w) ==
    /\ pc[w] # "idle"
    /\ End(w)
    /\ UNCHANGED <<assets, repairs, requests>>

\* Mutant: the asset first, as a handler that starts from the asset would.
AssetBeforeFault(w, q) ==
    IF q.kind = "delete" THEN Advance(w, "fault", {AssetLock(AssetFor(q))})
    ELSE IF q.kind \in FaultJobs THEN Advance(w, "fault", {FaultLock(q.fault)})
    ELSE Advance(w, "asset", {AssetLock(AssetFor(q))})

\* _lock_fault and _lock_repair, or active_asset_for_update
FirstLock(w, q) ==
    IF q.kind \in FaultJobs THEN Advance(w, "fault", {FaultLock(q.fault)})
    ELSE Advance(w, "asset", {AssetLock(AssetFor(q))})

Start(w) ==
    \E q \in Requests :
        /\ pc[w] = "idle" /\ requests < MaxRequests
        /\ requests' = requests + 1
        /\ job' = [job EXCEPT ![w] = q]
        /\ FirstLock(w, q)
        /\ UNCHANGED <<assets, repairs, seen>>

-----------------------------------------------------------------------------
(* What each handler checks of its fault once it has locked it               *)

\* validate_fault_write and the guards of delete_fault
MayTouch(f) == faults[f] = "open"
MayDelete(f) == faults[f] = "open" /\ rounds[f] = <<>>

\* create_repair completes the draft that a usage opened, and no other round.
MayRecord(f) == Exists(f) /\ (rounds[f] # <<>> => Current(f).draft)

\* validate_repair_write: finished and historical rounds are read only.
MayEdit(f, n) == n \in DOMAIN rounds[f] /\ n = Len(rounds[f]) /\ ~rounds[f][n].finished

\* Mutant: the round's usages are not looked at.
DropUsed(f, n) == n = 1 /\ n \in DOMAIN rounds[f] /\ ~rounds[f][n].finished

MayDrop(f, n) ==
    n = 1 /\ n \in DOMAIN rounds[f] /\ ~rounds[f][n].finished /\ ~rounds[f][n].used

MayReopen(f, n) == n \in DOMAIN rounds[f] /\ rounds[f][n].finished /\ n = Len(rounds[f])

\* create_repair_part_usage, when its fault is locked
MayUse(f, n) ==
    /\ faults[f] = "open" /\ n \in {AnyRound, Len(rounds[f])}
    /\ rounds[f] # <<>> => Unfinished(f)

Allowed(q) ==
    \/ q.kind = "touch" /\ MayTouch(q.fault)
    \/ q.kind = "delete" /\ MayDelete(q.fault)
    \/ q.kind = "record" /\ MayRecord(q.fault)
    \/ q.kind = "edit" /\ MayEdit(q.fault, q.round)
    \/ q.kind = "drop" /\ MayDrop(q.fault, q.round)
    \/ q.kind = "reopen" /\ MayReopen(q.fault, q.round)
    \/ q.kind = "use" /\ MayUse(q.fault, q.round)

Admit(w) ==
    /\ pc[w] = "fault" /\ Ready(w) /\ Allowed(job[w])
    /\ Advance(w, "asset", {FaultLock(job[w].fault), AssetLock(AssetFor(job[w]))})
    /\ UNCHANGED <<assets, repairs, job, seen, requests>>

\* Mutant: the other faults are read while the asset is still to be locked.
LooksEarly(w) == pc[w] = "asset"

\* active_asset_for_update has returned: the asset is locked.
HasAsset(w) == pc[w] = "asset" /\ Ready(w)

\* active_asset_for_update refuses archived assets; restore_asset does not use it.
InLedger(q) == archived[AssetFor(q)] => q.kind = "restore"

\* What the transaction reads of the faults of its asset.  Its own fault is
\* left out: what it has written there is added when it commits.
Look(w) ==
    LET a == AssetFor(job[w])
        own == IF job[w].kind \in AssetJobs THEN {} ELSE {job[w].fault}
    IN  /\ HasAsset(w)
        /\ InLedger(job[w])
        /\ seen' = [seen EXCEPT ![w] =
               [open |-> OpenFaults(a) \ own # {}, unfinished |-> InRepair(a)]]
        /\ pc' = [pc EXCEPT ![w] = "look"]
        /\ UNCHANGED <<assets, repairs, job, requests, locks>>

-----------------------------------------------------------------------------
(* Commits                                                                   *)

Doing(w, kind) == pc[w] = "look" /\ Ready(w) /\ job[w].kind = kind

\* The first open fault of an asset keeps the status to come back to.
TakeSnapshot(a, others) ==
    snapshot' = [snapshot EXCEPT ![a] = IF ~others /\ @ = NoStatus THEN status[a] ELSE @]

\* Mutant: the restored status is not forgotten.
KeepSnapshot(a) == UNCHANGED snapshot

ForgetSnapshot(a) == snapshot' = [snapshot EXCEPT ![a] = NoStatus]

\* sync_asset_fault_status: "open" says that the asset has an open fault, and
\* "others" that it has one besides the caller's.  A retired asset refuses.
Sync(a, open, others) ==
    \/ /\ open /\ status[a] \in Normal
       /\ status' = [status EXCEPT ![a] = "repair"]
       /\ TakeSnapshot(a, others)
    \/ /\ open /\ status[a] = "repair"
       /\ UNCHANGED <<status, snapshot>>
    \/ /\ ~open /\ status[a] = "repair" /\ snapshot[a] \in Normal
       /\ status' = [status EXCEPT ![a] = snapshot[a]]
       /\ ForgetSnapshot(a)
    \/ /\ ~open /\ status[a] = "repair" /\ snapshot[a] = NoStatus
       /\ UNCHANGED <<status, snapshot>>
    \/ /\ ~open /\ status[a] # "repair"
       /\ ForgetSnapshot(a)
       /\ UNCHANGED status

SetFault(f, state) == faults' = [faults EXCEPT ![f] = state]
SetRounds(f, rows) == rounds' = [rounds EXCEPT ![f] = rows]

CreateFault(w) ==
    LET f == job[w].fault a == AssetOf[f] IN
    /\ Doing(w, "create") /\ faults[f] = "none"
    /\ SetFault(f, "open") /\ UNCHANGED rounds
    /\ Sync(a, TRUE, seen[w].open)
    /\ End(w)
    /\ UNCHANGED <<archived, normal, requests>>

\* update_fault passes no fault_id: every open fault counts as another one.
UpdateFault(w) ==
    /\ Doing(w, "touch")
    /\ Sync(AssetFor(job[w]), TRUE, TRUE)
    /\ End(w)
    /\ UNCHANGED <<archived, normal, repairs, requests>>

DeleteFault(w) ==
    /\ Doing(w, "delete")
    /\ SetFault(job[w].fault, "deleted") /\ UNCHANGED rounds
    /\ Sync(AssetFor(job[w]), seen[w].open, seen[w].open)
    /\ End(w)
    /\ UNCHANGED <<archived, normal, requests>>

\* sync_fault_completion: the fault is closed when its current round is finished.
Complete(w, finish) ==
    LET f == job[w].fault IN
    /\ SetFault(f, IF finish THEN "closed" ELSE "open")
    /\ Sync(AssetOf[f], seen[w].open \/ ~finish, seen[w].open)
    /\ End(w)
    /\ UNCHANGED <<archived, normal, requests>>

CreateRepair(w) ==
    LET q == job[w]
        used == rounds[q.fault] # <<>> /\ Current(q.fault).used
    IN  /\ Doing(w, "record")
        /\ SetRounds(q.fault, <<[finished |-> q.finish, draft |-> FALSE, used |-> used]>>)
        /\ Complete(w, q.finish)

UpdateRepair(w) ==
    LET q == job[w] IN
    /\ Doing(w, "edit")
    /\ SetRounds(q.fault, [rounds[q.fault] EXCEPT ![q.round].finished = q.finish,
                                                  ![q.round].draft = FALSE])
    /\ Complete(w, q.finish)

DeleteRepair(w) ==
    /\ Doing(w, "drop")
    /\ SetRounds(job[w].fault, <<>>)
    /\ Complete(w, FALSE)

\* Mutant: the new round is added, and fault and asset are left as they were.
ReopenOnlyRound(w) ==
    LET f == job[w].fault IN
    /\ Doing(w, "reopen")
    /\ SetRounds(f, Append(rounds[f], [finished |-> FALSE, draft |-> FALSE, used |-> FALSE]))
    /\ End(w)
    /\ UNCHANGED <<assets, faults, requests>>

ReopenRepair(w) ==
    LET f == job[w].fault IN
    /\ Doing(w, "reopen")
    /\ SetRounds(f, Append(rounds[f], [finished |-> FALSE, draft |-> FALSE, used |-> FALSE]))
    /\ Complete(w, FALSE)

\* create_repair_part_usage and begin_usage_round: the first usage of a fault
\* opens a draft round.
UsePart(w) ==
    LET f == job[w].fault n == Len(rounds[f]) IN
    /\ Doing(w, "use") /\ status[AssetOf[f]] # "retired"
    /\ SetRounds(f, IF n = 0 THEN <<[finished |-> FALSE, draft |-> TRUE, used |-> TRUE]>>
                    ELSE [rounds[f] EXCEPT ![n].used = TRUE])
    /\ End(w)
    /\ UNCHANGED <<assets, faults, requests>>

\* update_asset with a status: validate_asset_status_transition, source direct
EditStatus(w) ==
    LET q == job[w] IN
    /\ Doing(w, "status")
    /\ q.to # status[q.asset] => status[q.asset] \in Normal /\ ~seen[w].open
    /\ status' = [status EXCEPT ![q.asset] = q.to]
    /\ normal' = [normal EXCEPT ![q.asset] = q.to]
    /\ End(w)
    /\ UNCHANGED <<snapshot, archived, repairs, requests>>

\* validate_asset_retirement
MayRetire(w) == status[job[w].asset] # "retired" /\ ~seen[w].open /\ ~seen[w].unfinished

Retire(w) ==
    /\ Doing(w, "retire") /\ MayRetire(w)
    /\ status' = [status EXCEPT ![job[w].asset] = "retired"]
    /\ End(w)
    /\ UNCHANGED <<snapshot, archived, normal, repairs, requests>>

\* _archive_locked_asset
Archive(w) ==
    /\ Doing(w, "archive") /\ ~seen[w].open /\ ~seen[w].unfinished
    /\ archived' = [archived EXCEPT ![job[w].asset] = TRUE]
    /\ End(w)
    /\ UNCHANGED <<status, snapshot, normal, repairs, requests>>

Restore(w) ==
    /\ Doing(w, "restore")
    /\ archived' = [archived EXCEPT ![job[w].asset] = FALSE]
    /\ End(w)
    /\ UNCHANGED <<status, snapshot, normal, repairs, requests>>

-----------------------------------------------------------------------------
(* Specification                                                             *)

Init ==
    /\ status = [a \in Assets |-> FirstStatus]
    /\ snapshot = [a \in Assets |-> NoStatus]
    /\ archived = [a \in Assets |-> FALSE]
    /\ normal = status
    /\ faults = [f \in Faults |-> "none"]
    /\ rounds = [f \in Faults |-> <<>>]
    /\ job = [w \in Workers |-> Idle]
    /\ pc = [w \in Workers |-> "idle"]
    /\ seen = [w \in Workers |-> Nothing]
    /\ requests = 0
    /\ NoLocks

Commit(w) ==
    \/ CreateFault(w) \/ UpdateFault(w) \/ DeleteFault(w)
    \/ CreateRepair(w) \/ UpdateRepair(w) \/ DeleteRepair(w) \/ ReopenRepair(w)
    \/ UsePart(w)
    \/ EditStatus(w) \/ Retire(w) \/ Archive(w) \/ Restore(w)

Next == \E w \in Workers :
    Start(w) \/ Acquire(w) \/ Admit(w) \/ Look(w) \/ Commit(w) \/ Abort(w)

Spec == Init /\ [][Next]_vars

-----------------------------------------------------------------------------
(* Properties                                                                *)

Statuses == Normal \cup {"repair", "retired"}
Rounds == [finished : BOOLEAN, draft : BOOLEAN, used : BOOLEAN]

\* Types of the rows and of the transactions.
TypeOK ==
    /\ status \in [Assets -> Statuses] /\ snapshot \in [Assets -> Normal \cup {NoStatus}]
    /\ archived \in [Assets -> BOOLEAN] /\ normal \in [Assets -> Normal]
    /\ faults \in [Faults -> {"none", "open", "closed", "deleted"}]
    /\ rounds \in [Faults -> Seq(Rounds)]
    /\ job \in [Workers -> Requests \cup {Idle}]
    /\ pc \in [Workers -> {"idle", "fault", "asset", "look"}]
    /\ seen \in [Workers -> [open : BOOLEAN, unfinished : BOOLEAN]]
    /\ requests \in 0..MaxRequests

\* An asset is "in repair" exactly while one of its faults is open, although
\* two faults of it may open, close or vanish in transactions that cannot see
\* each other's rows (sync_asset_fault_status).  An asset that is retired or
\* archived has no open fault and no unfinished repair: neither comes to be while
\* the other is being checked (validate_asset_retirement, _archive_locked_asset).
StatusFollowsFaults ==
    /\ TypeOK
    /\ \A a \in Assets :
        /\ status[a] = "repair" <=> OpenFaults(a) # {}
        /\ status[a] = "retired" \/ archived[a] => OpenFaults(a) = {} /\ ~InRepair(a)

\* An asset in repair remembers the status that its users gave it last, and it
\* has that status again when its last fault is closed or deleted, however many
\* faults came in between (status_before_repair).
RestoresStatus ==
    \A a \in Assets :
        /\ status[a] = "repair" => snapshot[a] = normal[a]
        /\ status[a] \in Normal => status[a] = normal[a] /\ snapshot[a] = NoStatus

\* A fault is closed exactly when it has a finished round and no round after
\* it; so no earlier round is left unfinished (sync_fault_completion).
FaultMirrorsRounds ==
    \A f \in Faults :
        /\ faults[f] = "closed" <=> rounds[f] # <<>> /\ Current(f).finished
        /\ \A n \in 1..(Len(rounds[f]) - 1) : rounds[f][n].finished
        /\ rounds[f] # <<>> => Exists(f)

\* A finished round stays, finished, with the parts it had; a round that has
\* used parts stays (finished_repair_immutable, repair_round_history_protected).
KeepsRounds ==
    \A f \in Faults : \A n \in DOMAIN rounds[f] :
        rounds[f][n].finished \/ rounds[f][n].used =>
            /\ n \in DOMAIN rounds'[f]
            /\ rounds[f][n].finished => rounds'[f][n] = rounds[f][n]
            /\ rounds[f][n].used => rounds'[f][n].used
HistoryIsKept == [][KeepsRounds]_vars

\* Assets, faults and rounds agree, however their transactions overlap.
RepairsAgree == StatusFollowsFaults /\ RestoresStatus /\ FaultMirrorsRounds

\* Fault, then repair, then asset: no two transactions wait for each other.
RepairsDoNotDeadlock == NoRing
=============================================================================
