--------------------------- MODULE OperationsProofs ----------------------------
(***************************************************************************)
(* Proofs about what is kept and told of the equipment, for any number of  *)
(* workers, requests and days: each study of module Operations by itself.  *)
(***************************************************************************)
EXTENDS Operations, SequenceTheorems, FiniteSetTheorems, FunctionTheorems, WellFoundedInduction, TLAPS

-----------------------------------------------------------------------------
(* RepairLifecycle: the invariant                                            *)

\* What the lock of a fault and the lock of an asset are for a request.
FL(q) == Repair!FaultLock(q.fault)
AL(q) == Repair!AssetLock(Repair!AssetFor(q))
ByFault(q) == q.kind \in Repair!FaultJobs
Needed(q) == IF ByFault(q) THEN {FL(q), AL(q)} ELSE {AL(q)}

Locks == ({1} \X Faults) \cup ({2} \X Assets)

\* What a worker holds and wants at each stage.
RepairLocks(w) ==
    /\ held[w] \cap want[w] = {}
    /\ pc[w] = "idle" => held[w] = {} /\ want[w] = {}
    /\ pc[w] # "idle" => job[w] \in LifeRequests
    /\ pc[w] = "fault" => ByFault(job[w]) /\ held[w] \cup want[w] = {FL(job[w])}
    /\ pc[w] \in {"asset", "look"} =>
         held[w] \cup want[w] = Needed(job[w]) /\ want[w] \subseteq {AL(job[w])}
    /\ pc[w] = "look" => want[w] = {}

\* An asset has an open fault, besides those in "but".
HasOpen(a, but) == \E f \in Faults \ but : SameAsset[f] = a /\ faults[f] = "open"

\* What a worker has checked and read stays true until it commits.
OwnFault(q) == IF q.kind \in Repair!AssetJobs THEN {} ELSE {q.fault}
RepairReads(w) ==
    /\ pc[w] \in {"asset", "look"} /\ ByFault(job[w]) => Repair!Allowed(job[w])
    /\ pc[w] = "look" =>
         LET a == Repair!AssetFor(job[w]) IN
         /\ archived[a] => job[w].kind = "restore"
         /\ seen[w].open <=> HasOpen(a, OwnFault(job[w]))
         /\ seen[w].unfinished <=> Repair!InRepair(a)

\* Rows of one fault, and of one asset.
Fits(state, rds) ==
    /\ state = "closed" <=> rds # <<>> /\ rds[Len(rds)].finished
    /\ \A n \in 1 .. Len(rds) - 1 : rds[n].finished
    /\ rds # <<>> => state \in {"open", "closed"}
    /\ \A n \in 1 .. Len(rds) : rds[n].draft => Len(rds) = 1 /\ ~rds[n].finished
FaultFits(f) == Fits(faults[f], rounds[f])

AssetFits(a) ==
    /\ status[a] = "repair" <=> HasOpen(a, {})
    /\ status[a] = "retired" \/ archived[a] => ~HasOpen(a, {})
    /\ status[a] = "repair" => snapshot[a] = normal[a]
    /\ status[a] \in Normal => status[a] = normal[a] /\ snapshot[a] = Repair!NoStatus

RowsFit ==
    /\ status \in [Assets -> Repair!Statuses] /\ snapshot \in [Assets -> Normal \cup {Repair!NoStatus}]
    /\ archived \in [Assets -> BOOLEAN] /\ normal \in [Assets -> Normal]
    /\ faults \in [Faults -> {"none", "open", "closed", "deleted"}]
    /\ rounds \in [Faults -> Seq(Repair!Rounds)]
    /\ \A f \in Faults : FaultFits(f)
    /\ \A a \in Assets : AssetFits(a)

RepairTypes ==
    /\ Repair!TypeOK
    /\ held \in [Workers -> SUBSET Locks] /\ want \in [Workers -> SUBSET Locks]

RepairInv ==
    /\ RepairTypes /\ Repair!Exclusive
    /\ \A w \in Workers : RepairLocks(w) /\ RepairReads(w)
    /\ RowsFit

-----------------------------------------------------------------------------
(* RepairLifecycle: requests and locks                                       *)

LEMMA RequestShape ==
  ASSUME NEW q \in LifeRequests
  PROVE  /\ q.kind \in {"create", "touch", "delete", "record", "edit", "drop", "reopen", "use",
                       "status", "retire", "archive", "restore"}
         /\ q.kind \notin Repair!AssetJobs => q.fault \in Faults /\ SameAsset[q.fault] \in Assets
         /\ q.kind \in Repair!AssetJobs => q.asset \in Assets
         /\ q.kind = "status" => q.to \in Normal
         /\ q.kind \in {"record", "edit"} => q.finish \in BOOLEAN
         /\ Repair!AssetFor(q) \in Assets
<1>1. q \in Repair!AllRequests BY OperationsConstants DEF Repair!RepairRequests
<1>2. SameAsset \in [Faults -> Assets] BY OperationsConstants DEF Repair!RepairConstants
<1> QED BY <1>1, <1>2 DEF Repair!AllRequests, Repair!AssetJobs, Repair!AssetFor

\* Locks of requests are numbers of a table and a row.
LEMMA LockShape ==
  ASSUME NEW q \in LifeRequests
  PROVE  /\ AL(q) \in Locks /\ (ByFault(q) => FL(q) \in Locks) /\ FL(q) # AL(q)
         /\ AL(q)[1] = 2 /\ FL(q)[1] = 1
BY RequestShape
DEF AL, FL, ByFault, Locks, Repair!FaultLock, Repair!AssetLock, Repair!FaultJobs, Repair!AssetJobs

\* A transaction that ends lets go of everything.
LEMMA CommitEnds ==
  ASSUME NEW w \in Workers, Repair!Commit(w)
  PROVE  /\ Repair!End(w) /\ requests' = requests
         /\ pc[w] = "look" /\ want[w] = {}
BY DEF Repair!Commit, Repair!CreateFault, Repair!UpdateFault, Repair!DeleteFault, Repair!CreateRepair,
       Repair!UpdateRepair, Repair!DeleteRepair, Repair!ReopenRepair, Repair!UsePart, Repair!EditStatus,
       Repair!Retire, Repair!Archive, Repair!Restore, Repair!Complete, Repair!Doing, Repair!Ready

RepairStepOf(w) ==
    \/ Repair!Start(w) \/ Repair!Acquire(w) \/ Repair!Admit(w)
    \/ Repair!Look(w) \/ Repair!Commit(w) \/ Repair!Abort(w)

\* The rows change at commits only.
RowsStay == UNCHANGED <<status, snapshot, archived, normal, faults, rounds>>

LEMMA LocksKept ==
  ASSUME RepairInv, NEW w \in Workers, RepairStepOf(w)
  PROVE  /\ held' \in [Workers -> SUBSET Locks] /\ want' \in [Workers -> SUBSET Locks]
         /\ Repair!Exclusive'
         /\ \A v \in Workers : RepairLocks(v)'
         /\ job' \in [Workers -> LifeRequests \cup {Repair!Idle}]
         /\ pc' \in [Workers -> {"idle", "fault", "asset", "look"}]
         /\ seen' \in [Workers -> [open : BOOLEAN, unfinished : BOOLEAN]]
         /\ requests' \in 0 .. MaxRequests
         /\ \A v \in Workers \ {w} : /\ pc'[v] = pc[v] /\ job'[v] = job[v] /\ seen'[v] = seen[v]
                                     /\ held'[v] = held[v] /\ want'[v] = want[v]
<1> DEFINE Goal == /\ held' \in [Workers -> SUBSET Locks] /\ want' \in [Workers -> SUBSET Locks]
                   /\ Repair!Exclusive'
                   /\ \A v \in Workers : RepairLocks(v)'
                   /\ job' \in [Workers -> LifeRequests \cup {Repair!Idle}]
                   /\ pc' \in [Workers -> {"idle", "fault", "asset", "look"}]
                   /\ seen' \in [Workers -> [open : BOOLEAN, unfinished : BOOLEAN]]
                   /\ requests' \in 0 .. MaxRequests
                   /\ \A v \in Workers \ {w} : /\ pc'[v] = pc[v] /\ job'[v] = job[v] /\ seen'[v] = seen[v]
                                               /\ held'[v] = held[v] /\ want'[v] = want[v]
<1>1. /\ RepairTypes /\ Repair!TypeOK /\ Repair!Exclusive /\ \A v \in Workers : RepairLocks(v)
      /\ MaxRequests \in Nat
  BY OperationsConstants DEF RepairInv, RepairTypes, Repair!RepairConstants
<1> USE <1>1 DEF RepairTypes, Repair!TypeOK
<1>2. CASE Repair!Start(w)
  <2> PICK q \in LifeRequests :
        /\ pc[w] = "idle" /\ requests < MaxRequests /\ requests' = requests + 1
        /\ job' = [job EXCEPT ![w] = q] /\ seen' = seen /\ held' = held
        /\ \/ ByFault(q) /\ pc' = [pc EXCEPT ![w] = "fault"] /\ want' = [want EXCEPT ![w] = {FL(q)} \ held[w]]
           \/ ~ByFault(q) /\ pc' = [pc EXCEPT ![w] = "asset"] /\ want' = [want EXCEPT ![w] = {AL(q)} \ held[w]]
    BY <1>2 DEF Repair!Start, Repair!FirstLock, Repair!Advance, Repair!Ask, FL, AL, ByFault
  <2>1. held[w] = {} BY DEF RepairLocks
  <2>2. held' \in [Workers -> SUBSET Locks] /\ want' \in [Workers -> SUBSET Locks] BY LockShape
  <2>3. Repair!Exclusive' BY DEF Repair!Exclusive
  <2>4. \A v \in Workers : RepairLocks(v)' BY <2>1 DEF RepairLocks, Needed
  <2> QED BY <2>2, <2>3, <2>4
<1>3. CASE Repair!Acquire(w)
  <2> PICK x \in want[w] :
        /\ \A v \in Workers \ {w} : x \notin held[v]
        /\ held' = [held EXCEPT ![w] = @ \cup {x}] /\ want' = [want EXCEPT ![w] = @ \ {x}]
        /\ UNCHANGED <<job, pc, seen, requests>>
    BY <1>3 DEF Repair!Acquire, Repair!Take, Repair!Free
  <2>1. held' \in [Workers -> SUBSET Locks] /\ want' \in [Workers -> SUBSET Locks] OBVIOUS
  <2>2. Repair!Exclusive' BY DEF Repair!Exclusive
  <2>3. \A v \in Workers : RepairLocks(v)' BY DEF RepairLocks
  <2> QED BY <2>1, <2>2, <2>3
<1>4. CASE Repair!Admit(w)
  <2>1. /\ pc[w] = "fault" /\ want[w] = {} /\ pc' = [pc EXCEPT ![w] = "asset"]
        /\ want' = [want EXCEPT ![w] = {FL(job[w]), AL(job[w])} \ held[w]]
        /\ UNCHANGED <<held, job, seen, requests>>
    BY <1>4 DEF Repair!Admit, Repair!Advance, Repair!Ask, Repair!Ready, FL, AL
  <2>2. held[w] = {FL(job[w])} /\ job[w] \in LifeRequests /\ ByFault(job[w]) BY <2>1 DEF RepairLocks
  <2>3. want'[w] = {AL(job[w])} BY <2>1, <2>2, LockShape
  <2>4. want' \in [Workers -> SUBSET Locks] BY <2>1, <2>2, LockShape
  <2>5. \A v \in Workers : RepairLocks(v)'
    <3> SUFFICES ASSUME NEW v \in Workers PROVE RepairLocks(v)' OBVIOUS
    <3>1. CASE v = w
      <4>1. FL(job[w]) # AL(job[w]) BY <2>2, LockShape
      <4> QED BY <2>1, <2>2, <2>3, <3>1, <4>1 DEF RepairLocks, Needed
    <3>2. CASE v # w BY <2>1, <3>2 DEF RepairLocks
    <3> QED BY <3>1, <3>2
  <2>6. Repair!Exclusive' BY <2>1 DEF Repair!Exclusive
  <2> QED BY <2>1, <2>4, <2>5, <2>6
<1>5. CASE Repair!Look(w)
  <2>1. /\ pc[w] = "asset" /\ want[w] = {} /\ pc' = [pc EXCEPT ![w] = "look"]
        /\ seen' \in [Workers -> [open : BOOLEAN, unfinished : BOOLEAN]]
        /\ \A v \in Workers \ {w} : seen'[v] = seen[v]
        /\ UNCHANGED <<held, want, job, requests>>
    BY <1>5 DEF Repair!Look, Repair!HasAsset, Repair!Ready, Repair!locks, Repair!InRepair
  <2>2. \A v \in Workers : RepairLocks(v)' BY <2>1 DEF RepairLocks
  <2>3. Repair!Exclusive' BY <2>1 DEF Repair!Exclusive
  <2> QED BY <2>1, <2>2, <2>3
<1>6. CASE Repair!Commit(w) \/ Repair!Abort(w)
  <2>1. /\ pc' = [pc EXCEPT ![w] = "idle"] /\ job' = [job EXCEPT ![w] = Repair!Idle]
        /\ seen' = [seen EXCEPT ![w] = Repair!Nothing]
        /\ want' = [want EXCEPT ![w] = {}] /\ held' = [held EXCEPT ![w] = {}] /\ requests' = requests
    BY <1>6, CommitEnds DEF Repair!Abort, Repair!End, Repair!Drop
  <2>2. \A v \in Workers : RepairLocks(v)' BY <2>1 DEF RepairLocks
  <2>3. Repair!Exclusive' BY <2>1 DEF Repair!Exclusive
  <2> QED BY <2>1, <2>2, <2>3 DEF Repair!Nothing
<1> QED BY <1>2, <1>3, <1>4, <1>5, <1>6 DEF RepairStepOf

\* A worker that waits for an asset waits for one that waits for nobody; one that
\* waits for a fault waits at most for one that waits for an asset.
LEMMA LocksInOrder ==
  ASSUME RepairInv
  PROVE  Repair!NoRing
<1>1. \A w \in Workers : RepairLocks(w) BY DEF RepairInv
<1>2. ASSUME NEW v \in Workers, NEW x \in held[v], x[1] = 2
      PROVE  want[v] = {}
  <2>1. CASE pc[v] \in {"fault", "asset", "look"}
    BY <1>1, <1>2, <2>1, LockShape DEF RepairLocks, Needed
  <2>2. pc[v] \in {"idle", "fault", "asset", "look"} BY DEF RepairInv, RepairTypes, Repair!TypeOK
  <2> QED BY <1>1, <2>1, <2>2 DEF RepairLocks
<1>3. ASSUME NEW w \in Workers, NEW x \in want[w], pc[w] # "fault"
      PROVE  x[1] = 2
  <2>1. pc[w] \in {"idle", "fault", "asset", "look"} BY DEF RepairInv, RepairTypes, Repair!TypeOK
  <2> QED BY <1>1, <1>3, <2>1, LockShape DEF RepairLocks
<1>4. SUFFICES ASSUME NEW ring \in SUBSET Workers, ring # {},
                      \A w \in ring : \E v \in ring : \E x \in want[w] : x \in held[v]
               PROVE  FALSE
  BY DEF Repair!NoRing, Repair!WaitsFor
<1> PICK w \in ring : TRUE BY <1>4
<1> PICK v \in ring : \E x \in want[w] : x \in held[v] BY <1>4
<1> PICK u \in ring : \E x \in want[v] : x \in held[u] BY <1>4
<1>5. want[v] # {} /\ want[u] # {} BY <1>4
<1>6. pc[w] = "fault" BY <1>2, <1>3, <1>5
<1>7. pc[v] = "fault" BY <1>2, <1>3, <1>5
<1>8. held[v] \cup want[v] = {FL(job[v])} /\ held[v] \cap want[v] = {} BY <1>1, <1>7 DEF RepairLocks
<1> QED BY <1>5, <1>8

-----------------------------------------------------------------------------
(* RepairLifecycle: what a commit does to the rows                           *)

\* One fault changes: who else is open on the assets.
LEMMA OneFaultChanges ==
  ASSUME RowsFit, NEW f \in Faults, NEW state, faults' = [faults EXCEPT ![f] = state], NEW b
  PROVE  /\ HasOpen(b, {})' <=> (SameAsset[f] = b /\ state = "open") \/ HasOpen(b, {f})
         /\ SameAsset[f] # b => (HasOpen(b, {f}) <=> HasOpen(b, {}))
         /\ HasOpen(b, {f}) => HasOpen(b, {})
BY DEF RowsFit, HasOpen

\* sync_asset_fault_status, with a right view of the other faults, leaves the
\* asset as its faults and its users want it.
LEMMA SyncFits ==
  ASSUME RowsFit, NEW f \in Faults, NEW state \in {"open", "closed", "deleted"}, NEW rds \in Seq(Repair!Rounds),
         Fits(state, rds),
         faults' = [faults EXCEPT ![f] = state], rounds' = [rounds EXCEPT ![f] = rds],
         NEW a \in Assets, a = SameAsset[f], ~archived[a],
         NEW open \in BOOLEAN, open <=> state = "open" \/ HasOpen(a, {f}),
         NEW others \in BOOLEAN, others => HasOpen(a, {}),
         Repair!Sync(a, open, others),
         UNCHANGED <<archived, normal>>
  PROVE  RowsFit'
<1>0. Normal \cap {Repair!NoStatus, "repair", "retired"} = {}
  BY OperationsConstants DEF Repair!RepairConstants
<1> USE DEF RowsFit
<1>1. \A g \in Faults : FaultFits(g)' BY DEF FaultFits
<1>2. HasOpen(a, {})' <=> open BY OneFaultChanges
<1>3. \A b \in Assets \ {a} : HasOpen(b, {})' <=> HasOpen(b, {}) BY OneFaultChanges
<1>4. /\ status' \in [Assets -> Repair!Statuses]
      /\ snapshot' \in [Assets -> Normal \cup {Repair!NoStatus}]
  BY DEF Repair!Sync, Repair!TakeSnapshot, Repair!ForgetSnapshot, Repair!Statuses
<1>5. \A b \in Assets \ {a} : status'[b] = status[b] /\ snapshot'[b] = snapshot[b]
  BY DEF Repair!Sync, Repair!TakeSnapshot, Repair!ForgetSnapshot
<1>6. AssetFits(a)'
  <2>0. AssetFits(a) /\ status[a] \in Repair!Statuses OBVIOUS
  <2> USE <1>0, <1>2, <2>0 DEF AssetFits, Repair!Statuses
  <2>1. CASE open /\ status[a] \in Normal /\ status' = [status EXCEPT ![a] = "repair"] /\ Repair!TakeSnapshot(a, others)
    BY <2>1 DEF Repair!TakeSnapshot
  <2>2. CASE open /\ status[a] = "repair" /\ UNCHANGED <<status, snapshot>>
    BY <2>2
  <2>3. CASE ~open /\ status[a] = "repair" /\ snapshot[a] \in Normal
             /\ status' = [status EXCEPT ![a] = snapshot[a]] /\ Repair!ForgetSnapshot(a)
    BY <2>3 DEF Repair!ForgetSnapshot
  <2>4. CASE ~open /\ status[a] = "repair" /\ snapshot[a] = Repair!NoStatus /\ UNCHANGED <<status, snapshot>>
    BY <2>4
  <2>5. CASE ~open /\ status[a] # "repair" /\ Repair!ForgetSnapshot(a) /\ UNCHANGED status
    BY <2>5 DEF Repair!ForgetSnapshot
  <2> QED BY <2>1, <2>2, <2>3, <2>4, <2>5 DEF Repair!Sync
<1>7. \A b \in Assets : AssetFits(b)' BY <1>3, <1>5, <1>6 DEF AssetFits
<1> QED BY <1>1, <1>4, <1>7

\* What a transaction of a fault may rely on when it commits.
LEMMA AtCommit ==
  ASSUME RepairInv, NEW w \in Workers, Repair!Commit(w)
  PROVE  LET q == job[w] a == Repair!AssetFor(q) IN
         /\ q \in LifeRequests /\ a \in Assets
         /\ archived[a] => q.kind = "restore"
         /\ q.kind \notin Repair!AssetJobs =>
              /\ q.fault \in Faults /\ a = SameAsset[q.fault]
              /\ seen[w].open <=> HasOpen(a, {q.fault})
         /\ q.kind \in Repair!AssetJobs =>
              /\ a = q.asset
              /\ seen[w].open <=> HasOpen(a, {})
         /\ ByFault(q) => Repair!Allowed(q)
         /\ seen[w].open \in BOOLEAN /\ held[w] = Needed(q)
<1> PICK q : q = job[w] OBVIOUS
<1>1. pc[w] = "look" /\ want[w] = {} BY CommitEnds
<1>2. RepairLocks(w) /\ RepairReads(w) /\ Repair!TypeOK BY DEF RepairInv, RepairTypes
<1>3. q \in LifeRequests /\ held[w] = Needed(q) BY <1>1, <1>2 DEF RepairLocks
<1>4. seen[w].open \in BOOLEAN BY <1>2 DEF Repair!TypeOK
<1> QED
  BY <1>1, <1>2, <1>3, <1>4, RequestShape
  DEF RepairReads, OwnFault, Repair!AssetFor

\* Opening, deleting and editing faults.
LEMMA FaultCommits ==
  ASSUME RepairInv, NEW w \in Workers, Repair!Commit(w),
         Repair!CreateFault(w) \/ Repair!UpdateFault(w) \/ Repair!DeleteFault(w)
  PROVE  RowsFit'
<1> PICK q : q = job[w] OBVIOUS
<1> PICK a : a = Repair!AssetFor(q) OBVIOUS
<1>0. /\ a \in Assets
      /\ archived[a] => q.kind = "restore"
      /\ q.kind \notin Repair!AssetJobs =>
           /\ q.fault \in Faults /\ a = SameAsset[q.fault]
           /\ seen[w].open <=> HasOpen(a, {q.fault})
      /\ ByFault(q) => Repair!Allowed(q)
      /\ seen[w].open \in BOOLEAN
  BY AtCommit
<1>1. RowsFit BY DEF RepairInv
<1>2. CASE Repair!CreateFault(w)
  <2>1. /\ q.kind = "create" /\ faults[q.fault] = "none" /\ faults' = [faults EXCEPT ![q.fault] = "open"]
        /\ rounds' = rounds /\ UNCHANGED <<archived, normal>>
        /\ Repair!Sync(SameAsset[q.fault], TRUE, seen[w].open)
    BY <1>2 DEF Repair!CreateFault, Repair!Doing, Repair!SetFault
  <2>2. q.fault \in Faults /\ a \in Assets /\ a = SameAsset[q.fault] /\ ~archived[a]
    BY <1>0, <2>1 DEF Repair!AssetJobs
  <2>3. rounds[q.fault] = <<>> BY <1>1, <2>1, <2>2 DEF RowsFit, FaultFits, Fits
  <2>4. Fits("open", <<>>) BY DEF Fits
  <2>5. rounds' = [rounds EXCEPT ![q.fault] = <<>>] BY <1>1, <2>1, <2>3 DEF RowsFit
  <2>6. /\ seen[w].open => HasOpen(a, {})
        /\ seen[w].open \in BOOLEAN
    BY <1>0, <2>1 DEF Repair!AssetJobs, HasOpen
  <2>7. <<>> \in Seq(Repair!Rounds) OBVIOUS
  <2> QED BY <1>1, <2>1, <2>2, <2>4, <2>5, <2>6, <2>7, SyncFits
<1>3. CASE Repair!UpdateFault(w)
  <2>1. /\ q.kind = "touch" /\ UNCHANGED <<faults, rounds, archived, normal>> /\ Repair!Sync(a, TRUE, TRUE)
    BY <1>3 DEF Repair!UpdateFault, Repair!Doing, Repair!repairs
  <2>2. /\ q.fault \in Faults /\ a \in Assets /\ a = SameAsset[q.fault] /\ ~archived[a]
        /\ faults[q.fault] = "open"
    BY <1>0, <2>1 DEF Repair!AssetJobs, ByFault, Repair!FaultJobs, Repair!Allowed, Repair!MayTouch
  <2>3. status[a] = "repair" BY <1>1, <2>2 DEF RowsFit, AssetFits, HasOpen
  <2>4. UNCHANGED <<status, snapshot>>
    BY <2>1, <2>3, OperationsConstants DEF Repair!Sync, Repair!RepairConstants
  <2> QED BY <1>1, <2>1, <2>4 DEF RowsFit, FaultFits, AssetFits, HasOpen
<1>4. CASE Repair!DeleteFault(w)
  <2>1. /\ q.kind = "delete" /\ faults' = [faults EXCEPT ![q.fault] = "deleted"]
        /\ rounds' = rounds /\ UNCHANGED <<archived, normal>>
        /\ Repair!Sync(a, seen[w].open, seen[w].open)
    BY <1>4 DEF Repair!DeleteFault, Repair!Doing, Repair!SetFault
  <2>2. /\ q.fault \in Faults /\ a \in Assets /\ a = SameAsset[q.fault] /\ ~archived[a]
        /\ rounds[q.fault] = <<>>
    BY <1>0, <2>1 DEF Repair!AssetJobs, ByFault, Repair!FaultJobs, Repair!Allowed, Repair!MayDelete
  <2>4. Fits("deleted", <<>>) BY DEF Fits
  <2>5. rounds' = [rounds EXCEPT ![q.fault] = <<>>] BY <1>1, <2>1, <2>2 DEF RowsFit
  <2>6. /\ seen[w].open <=> HasOpen(a, {q.fault})
        /\ seen[w].open => HasOpen(a, {})
        /\ seen[w].open \in BOOLEAN
    BY <1>0, <2>1 DEF Repair!AssetJobs, HasOpen
  <2>7. <<>> \in Seq(Repair!Rounds) OBVIOUS
  <2> QED BY <1>1, <2>1, <2>2, <2>4, <2>5, <2>6, <2>7, SyncFits
<1> QED BY <1>2, <1>3, <1>4

\* sync_fault_completion after any change of the rounds.
LEMMA CompleteFits ==
  ASSUME RepairInv, NEW w \in Workers, Repair!Commit(w), job[w].kind \notin Repair!AssetJobs,
         NEW rds \in Seq(Repair!Rounds), Repair!SetRounds(job[w].fault, rds),
         NEW finish \in BOOLEAN, Repair!Complete(w, finish),
         Fits(IF finish THEN "closed" ELSE "open", rds)
  PROVE  RowsFit'
<1> PICK q : q = job[w] OBVIOUS
<1> PICK a : a = SameAsset[q.fault] OBVIOUS
<1>1. RowsFit BY DEF RepairInv
<1>2. /\ faults' = [faults EXCEPT ![q.fault] = IF finish THEN "closed" ELSE "open"]
      /\ rounds' = [rounds EXCEPT ![q.fault] = rds]
      /\ Repair!Sync(a, seen[w].open \/ ~finish, seen[w].open)
      /\ UNCHANGED <<archived, normal>>
  BY DEF Repair!Complete, Repair!SetFault, Repair!SetRounds
<1>3. /\ q.fault \in Faults /\ a \in Assets /\ ~archived[a]
      /\ seen[w].open <=> HasOpen(a, {q.fault})
      /\ seen[w].open => HasOpen(a, {})
      /\ seen[w].open \in BOOLEAN
  BY AtCommit DEF Repair!AssetJobs, HasOpen
<1>4. (seen[w].open \/ ~finish) <=> (IF finish THEN "closed" ELSE "open") = "open" \/ HasOpen(a, {q.fault})
  BY <1>3
<1> QED BY <1>1, <1>2, <1>3, <1>4, SyncFits

\* Rounds that are recorded, edited, dropped and reopened.
LEMMA RoundCommits ==
  ASSUME RepairInv, NEW w \in Workers, Repair!Commit(w),
         \/ Repair!CreateRepair(w) \/ Repair!UpdateRepair(w)
         \/ Repair!DeleteRepair(w) \/ Repair!ReopenRepair(w)
  PROVE  RowsFit'
<1> PICK q : q = job[w] OBVIOUS
<1> PICK rs : rs = rounds[q.fault] OBVIOUS
<1>1. q.kind \in {"record", "edit", "drop", "reopen"}
  BY DEF Repair!CreateRepair, Repair!UpdateRepair, Repair!DeleteRepair, Repair!ReopenRepair, Repair!Doing
<1>2. /\ q \in LifeRequests /\ q.fault \in Faults /\ q.kind \notin Repair!AssetJobs /\ Repair!Allowed(q)
  BY <1>1, AtCommit DEF Repair!AssetJobs, ByFault, Repair!FaultJobs
<1>3. rs \in Seq(Repair!Rounds) /\ Fits(faults[q.fault], rs)
  BY <1>2 DEF RepairInv, RowsFit, FaultFits
<1>4. \A n \in 1 .. Len(rs) : rs[n] \in Repair!Rounds BY <1>3
<1>5. CASE Repair!CreateRepair(w)
  <2>1. q.kind = "record" BY <1>5 DEF Repair!CreateRepair, Repair!Doing
  <2>2. q.finish \in BOOLEAN BY <1>2, <2>1, RequestShape
  <2> DEFINE used == rounds[q.fault] # <<>> /\ Repair!Current(q.fault).used
             new == <<[finished |-> q.finish, draft |-> FALSE, used |-> used]>>
  <2>3. used \in BOOLEAN OBVIOUS
  <2>4. new \in Seq(Repair!Rounds) BY <2>2, <2>3 DEF Repair!Rounds
  <2>5. Fits(IF q.finish THEN "closed" ELSE "open", new) BY <2>2 DEF Fits
  <2>6. Repair!SetRounds(q.fault, new) /\ Repair!Complete(w, q.finish)
    BY <1>5 DEF Repair!CreateRepair
  <2> HIDE DEF new
  <2> QED BY <1>2, <2>2, <2>4, <2>5, <2>6, CompleteFits
<1>6. CASE Repair!UpdateRepair(w)
  <2>1. q.kind = "edit" BY <1>6 DEF Repair!UpdateRepair, Repair!Doing
  <2>2. q.finish \in BOOLEAN BY <1>2, <2>1, RequestShape
  <2>3. q.round = Len(rs) /\ q.round \in 1 .. Len(rs)
    BY <1>2, <1>3, <2>1 DEF Repair!Allowed, Repair!MayEdit
  <2> DEFINE new == [rs EXCEPT ![q.round].finished = q.finish, ![q.round].draft = FALSE]
             line == [rs[q.round] EXCEPT !.finished = q.finish, !.draft = FALSE]
  <2>4. line \in Repair!Rounds BY <1>4, <2>2, <2>3 DEF Repair!Rounds
  <2>5. new = [rs EXCEPT ![q.round] = line] BY <1>3, <2>3
  <2> HIDE DEF new, line
  <2>6. new \in Seq(Repair!Rounds) /\ Len(new) = Len(rs) BY <1>3, <2>3, <2>4, <2>5, ExceptSeq
  <2>7. \A n \in 1 .. Len(rs) : new[n] = IF n = q.round THEN line ELSE rs[n]
    BY <1>3, <2>3, <2>4, <2>5, ExceptSeq
  <2>8. line.finished = q.finish /\ line.draft = FALSE BY <1>4, <2>3 DEF Repair!Rounds, line
  <2>9. Repair!SetRounds(q.fault, new) /\ Repair!Complete(w, q.finish)
    BY <1>6 DEF Repair!UpdateRepair, new
  <2>10. Fits(IF q.finish THEN "closed" ELSE "open", new)
    <3>1. new # <<>> BY <2>3, <2>6
    <3>2. new[Len(new)].finished = q.finish BY <2>3, <2>6, <2>7, <2>8
    <3>3. \A n \in 1 .. Len(new) - 1 : new[n].finished BY <1>3, <2>3, <2>6, <2>7 DEF Fits
    <3>4. \A n \in 1 .. Len(new) : new[n].draft => Len(new) = 1 /\ ~new[n].finished
      <4> SUFFICES ASSUME NEW n \in 1 .. Len(new), new[n].draft
                   PROVE  Len(new) = 1 /\ ~new[n].finished
        OBVIOUS
      <4>1. n # q.round /\ new[n] = rs[n] BY <2>6, <2>7, <2>8
      <4> QED BY <1>3, <2>6, <4>1 DEF Fits
    <3> QED BY <2>2, <3>1, <3>2, <3>3, <3>4 DEF Fits
  <2> QED BY <1>2, <2>2, <2>6, <2>9, <2>10, CompleteFits
<1>7. CASE Repair!DeleteRepair(w)
  <2>1. Repair!SetRounds(q.fault, <<>>) /\ Repair!Complete(w, FALSE)
    BY <1>7 DEF Repair!DeleteRepair
  <2>2. <<>> \in Seq(Repair!Rounds) /\ Fits("open", <<>>) BY DEF Fits
  <2> QED BY <1>2, <2>1, <2>2, CompleteFits
<1>8. CASE Repair!ReopenRepair(w)
  <2> DEFINE line == [finished |-> FALSE, draft |-> FALSE, used |-> FALSE]
             new == Append(rs, line)
  <2>1. q.kind = "reopen" /\ Repair!SetRounds(q.fault, new) /\ Repair!Complete(w, FALSE)
    BY <1>8 DEF Repair!ReopenRepair, Repair!Doing
  <2>2. Len(rs) \in Nat \ {0} /\ rs[Len(rs)].finished
    BY <1>2, <1>3, <2>1 DEF Repair!Allowed, Repair!MayReopen
  <2>3. line \in Repair!Rounds BY DEF Repair!Rounds
  <2>4. /\ new \in Seq(Repair!Rounds) /\ Len(new) = Len(rs) + 1
        /\ \A n \in 1 .. Len(rs) + 1 : new[n] = IF n = Len(rs) + 1 THEN line ELSE rs[n]
    BY <1>3, <2>3
  <2>5. line.finished = FALSE /\ line.draft = FALSE OBVIOUS
  <2> HIDE DEF new, line
  <2>6. Fits("open", new)
    <3>1. ~new[Len(new)].finished BY <2>2, <2>4, <2>5
    <3>2. \A n \in 1 .. Len(new) - 1 : new[n] = rs[n] BY <2>2, <2>4
    <3>3. \A n \in 1 .. Len(rs) : rs[n].finished BY <1>3, <2>2 DEF Fits
    <3>4. \A n \in 1 .. Len(rs) : ~rs[n].draft BY <1>3, <3>3 DEF Fits
    <3>5. \A n \in 1 .. Len(new) : ~new[n].draft BY <2>2, <2>4, <2>5, <3>4
    <3> QED BY <2>2, <2>4, <3>1, <3>2, <3>3, <3>5 DEF Fits
  <2> QED BY <1>2, <2>1, <2>4, <2>6, CompleteFits
<1> QED BY <1>5, <1>6, <1>7, <1>8

\* What a part usage does to the rounds of its fault.
LEMMA UsedRounds ==
  ASSUME RepairInv, NEW w \in Workers, Repair!Commit(w), Repair!UsePart(w),
         NEW f \in Faults, f = job[w].fault, NEW rs, rs = rounds[f]
  PROVE  \E new \in Seq(Repair!Rounds) :
           /\ rounds' = [rounds EXCEPT ![f] = new]
           /\ Fits("open", new) /\ faults[f] = "open"
           /\ Len(new) >= Len(rs)
           /\ \A n \in 1 .. Len(rs) :
                new[n].used = (n = Len(rs) \/ rs[n].used) /\ (n # Len(rs) => new[n] = rs[n])
           /\ Len(rs) # 0 => ~rs[Len(rs)].finished
<1>1. job[w].kind = "use" BY DEF Repair!UsePart, Repair!Doing
<1>2. Repair!MayUse(f, job[w].round)
  BY <1>1, AtCommit DEF ByFault, Repair!FaultJobs, Repair!Allowed
<1>3. rs \in Seq(Repair!Rounds) /\ Fits("open", rs) /\ faults[f] = "open"
  BY <1>2 DEF RepairInv, RowsFit, FaultFits, Repair!MayUse
<1>4. Len(rs) \in Nat /\ \A n \in 1 .. Len(rs) : rs[n] \in Repair!Rounds BY <1>3
<1>5. CASE Len(rs) = 0
  <2> DEFINE new == <<[finished |-> FALSE, draft |-> TRUE, used |-> TRUE]>>
  <2>1. rounds' = [rounds EXCEPT ![f] = new] BY <1>5 DEF Repair!UsePart, Repair!SetRounds
  <2>2. new \in Seq(Repair!Rounds) /\ Len(new) = 1 BY DEF Repair!Rounds
  <2>3. Fits("open", new) BY DEF Fits
  <2> HIDE DEF new
  <2>4. new \in Seq(Repair!Rounds) BY <2>2
  <2> WITNESS new \in Seq(Repair!Rounds)
  <2> QED BY <1>3, <1>5, <2>1, <2>2, <2>3
<1>6. CASE Len(rs) # 0
  <2> DEFINE line == [rs[Len(rs)] EXCEPT !.used = TRUE]
             new == [rs EXCEPT ![Len(rs)] = line]
  <2>1. rounds' = [rounds EXCEPT ![f] = new] BY <1>6 DEF Repair!UsePart, Repair!SetRounds
  <2>2. line \in Repair!Rounds /\ line.used = TRUE /\ line.draft = rs[Len(rs)].draft /\ line.finished = rs[Len(rs)].finished
    <3>1. rs[Len(rs)] \in Repair!Rounds BY <1>4, <1>6
    <3> QED BY <3>1 DEF Repair!Rounds
  <2> HIDE DEF line
  <2>3. Len(rs) \in 1 .. Len(rs) BY <1>4, <1>6
  <2>4. /\ new \in Seq(Repair!Rounds) /\ Len(new) = Len(rs)
        /\ \A n \in 1 .. Len(rs) : new[n] = IF n = Len(rs) THEN line ELSE rs[n]
    BY <1>3, <2>2, <2>3, ExceptSeq
  <2> HIDE DEF new
  <2>5. ~rs[Len(rs)].finished
    BY <1>2, <1>6 DEF Repair!MayUse, Repair!Unfinished, Repair!Current
  <2>6. Fits("open", new)
    <3>1. \A n \in 1 .. Len(rs) : new[n].finished = rs[n].finished /\ new[n].draft = rs[n].draft
      BY <2>2, <2>4
    <3> QED BY <1>3, <1>4, <2>3, <2>4, <2>5, <3>1 DEF Fits
  <2>7. \A n \in 1 .. Len(rs) :
          new[n].used = (n = Len(rs) \/ rs[n].used) /\ (n # Len(rs) => new[n] = rs[n])
    BY <1>4, <2>2, <2>4 DEF Repair!Rounds
  <2>8. new \in Seq(Repair!Rounds) BY <2>4
  <2> WITNESS new \in Seq(Repair!Rounds)
  <2> QED BY <1>3, <1>4, <2>1, <2>4, <2>5, <2>6, <2>7
<1> QED BY <1>5, <1>6

LEMMA UseCommits ==
  ASSUME RepairInv, NEW w \in Workers, Repair!Commit(w), Repair!UsePart(w)
  PROVE  RowsFit'
<1>1. job[w].kind = "use" /\ UNCHANGED <<status, snapshot, archived, normal, faults>>
  BY DEF Repair!UsePart, Repair!Doing, Repair!assets
<1>2. job[w].fault \in Faults BY <1>1, AtCommit DEF Repair!AssetJobs
<1> PICK new \in Seq(Repair!Rounds) :
      rounds' = [rounds EXCEPT ![job[w].fault] = new] /\ Fits("open", new) /\ faults[job[w].fault] = "open"
  BY <1>2, UsedRounds
<1>3. RowsFit BY DEF RepairInv
<1>4. \A f \in Faults : FaultFits(f)' BY <1>1, <1>2, <1>3 DEF RowsFit, FaultFits
<1>5. \A a \in Assets : AssetFits(a)' BY <1>1, <1>3 DEF RowsFit, AssetFits, HasOpen
<1>6. rounds' \in [Faults -> Seq(Repair!Rounds)] BY <1>2, <1>3 DEF RowsFit
<1> QED BY <1>1, <1>3, <1>4, <1>5, <1>6 DEF RowsFit

\* Status edits, retirement, archiving and restoring.
LEMMA AssetCommits ==
  ASSUME RepairInv, NEW w \in Workers, Repair!Commit(w),
         Repair!EditStatus(w) \/ Repair!Retire(w) \/ Repair!Archive(w) \/ Repair!Restore(w)
  PROVE  RowsFit'
<1> PICK q : q = job[w] OBVIOUS
<1> PICK a : a = q.asset OBVIOUS
<1>1. UNCHANGED <<faults, rounds, snapshot>> /\ q.kind \in Repair!AssetJobs
  BY DEF Repair!EditStatus, Repair!Retire, Repair!Archive, Repair!Restore, Repair!repairs, Repair!Doing,
         Repair!AssetJobs
<1>2. /\ a \in Assets /\ (archived[a] => q.kind = "restore") /\ (seen[w].open <=> HasOpen(a, {}))
      /\ q \in LifeRequests
  BY <1>1, AtCommit
<1>3. RowsFit /\ \A b \in Assets : AssetFits(b) BY DEF RepairInv, RowsFit
<1>4. \A f \in Faults : FaultFits(f)' BY <1>1, <1>3 DEF RowsFit, FaultFits
<1>5. \A b : HasOpen(b, {})' <=> HasOpen(b, {}) BY <1>1 DEF HasOpen
<1>6. Normal \cap {Repair!NoStatus, "repair", "retired"} = {}
  BY OperationsConstants DEF Repair!RepairConstants
<1>7. \A b \in Assets : status[b] \in Repair!Statuses BY <1>3 DEF RowsFit
<1>8. CASE Repair!EditStatus(w)
  <2>1. /\ q.kind = "status" /\ status' = [status EXCEPT ![a] = q.to] /\ normal' = [normal EXCEPT ![a] = q.to]
        /\ q.to # status[a] => status[a] \in Normal /\ ~seen[w].open
        /\ archived' = archived
    BY <1>8 DEF Repair!EditStatus, Repair!Doing
  <2>2. q.to \in Normal BY <1>2, <2>1, RequestShape
  <2>3. \A b \in Assets : AssetFits(b)'
    BY <1>1, <1>2, <1>3, <1>5, <1>6, <2>1, <2>2 DEF RowsFit, AssetFits
  <2> QED BY <1>1, <1>3, <1>4, <2>1, <2>2, <2>3 DEF RowsFit, Repair!Statuses
<1>9. CASE Repair!Retire(w)
  <2>1. status' = [status EXCEPT ![a] = "retired"] /\ ~seen[w].open /\ UNCHANGED <<archived, normal>>
    BY <1>9 DEF Repair!Retire, Repair!MayRetire
  <2>2. \A b \in Assets : AssetFits(b)'
    BY <1>1, <1>2, <1>3, <1>5, <1>6, <2>1 DEF RowsFit, AssetFits
  <2> QED BY <1>1, <1>3, <1>4, <2>1, <2>2 DEF RowsFit, Repair!Statuses
<1>10. CASE Repair!Archive(w)
  <2>1. archived' = [archived EXCEPT ![a] = TRUE] /\ ~seen[w].open /\ UNCHANGED <<status, normal>>
    BY <1>10 DEF Repair!Archive
  <2>2. \A b \in Assets : AssetFits(b)'
    BY <1>1, <1>2, <1>3, <1>5, <1>6, <2>1 DEF RowsFit, AssetFits
  <2> QED BY <1>1, <1>3, <1>4, <2>1, <2>2 DEF RowsFit
<1>11. CASE Repair!Restore(w)
  <2>1. archived' = [archived EXCEPT ![a] = FALSE] /\ UNCHANGED <<status, normal>>
    BY <1>11 DEF Repair!Restore
  <2>2. \A b \in Assets : AssetFits(b)'
    BY <1>1, <1>2, <1>3, <1>5, <1>6, <2>1 DEF RowsFit, AssetFits
  <2> QED BY <1>1, <1>3, <1>4, <2>1, <2>2 DEF RowsFit
<1> QED BY <1>8, <1>9, <1>10, <1>11

\* A commit writes rows of its own asset, and of a fault that it has locked or makes.
LEMMA CommitWrites ==
  ASSUME RepairInv, NEW w \in Workers, Repair!Commit(w)
  PROVE  /\ \A f \in Faults :
              \/ faults'[f] = faults[f] /\ rounds'[f] = rounds[f]
              \/ /\ Repair!AssetLock(SameAsset[f]) \in held[w]
                 /\ Repair!FaultLock(f) \in held[w] \/ faults[f] = "none"
         /\ \A a \in Assets : archived'[a] = archived[a] \/ Repair!AssetLock(a) \in held[w]
<1> PICK q : q = job[w] OBVIOUS
<1>1. held[w] = Needed(q) /\ RowsFit BY AtCommit DEF RepairInv
<1>2. CASE \/ Repair!CreateFault(w) \/ Repair!UpdateFault(w) \/ Repair!DeleteFault(w)
           \/ Repair!CreateRepair(w) \/ Repair!UpdateRepair(w) \/ Repair!DeleteRepair(w)
           \/ Repair!ReopenRepair(w) \/ Repair!UsePart(w)
  <2>1. /\ archived' = archived
        /\ q.kind \notin Repair!AssetJobs
        /\ ByFault(q) \/ faults[q.fault] = "none"
        /\ faults' = faults \/ \E state : faults' = [faults EXCEPT ![q.fault] = state]
        /\ rounds' = rounds \/ \E new : rounds' = [rounds EXCEPT ![q.fault] = new]
    BY <1>2
    DEF Repair!CreateFault, Repair!UpdateFault, Repair!DeleteFault, Repair!CreateRepair,
        Repair!UpdateRepair, Repair!DeleteRepair, Repair!ReopenRepair, Repair!UsePart, Repair!Complete,
        Repair!SetFault, Repair!SetRounds, Repair!assets, Repair!repairs, Repair!Doing, Repair!AssetJobs,
        Repair!FaultJobs, ByFault
  <2>2. AL(q) = Repair!AssetLock(SameAsset[q.fault]) BY <2>1 DEF AL, Repair!AssetFor
  <2> QED BY <1>1, <2>1, <2>2 DEF Needed, FL, RowsFit
<1>3. CASE Repair!EditStatus(w) \/ Repair!Retire(w) \/ Repair!Archive(w) \/ Repair!Restore(w)
  <2>1. /\ UNCHANGED <<faults, rounds>> /\ q.kind \in Repair!AssetJobs
        /\ archived' = archived \/ \E b \in BOOLEAN : archived' = [archived EXCEPT ![q.asset] = b]
    BY <1>3
    DEF Repair!EditStatus, Repair!Retire, Repair!Archive, Repair!Restore, Repair!repairs, Repair!Doing,
        Repair!AssetJobs
  <2>2. AL(q) \in held[w] /\ AL(q) = Repair!AssetLock(q.asset)
    BY <1>1, <2>1 DEF Needed, AL, Repair!AssetFor
  <2> QED BY <1>1, <2>1, <2>2 DEF RowsFit
<1> QED BY <1>2, <1>3 DEF Repair!Commit

LEMMA RowsKept ==
  ASSUME RepairInv, NEW w \in Workers, RepairStepOf(w)
  PROVE  RowsFit'
<1>1. CASE Repair!Commit(w)
  BY <1>1, FaultCommits, RoundCommits, UseCommits, AssetCommits DEF Repair!Commit
<1>2. CASE ~Repair!Commit(w)
  <2>1. RowsStay
    BY <1>2
    DEF RowsStay, RepairStepOf, Repair!Start, Repair!Acquire, Repair!Admit, Repair!Look, Repair!Abort,
        Repair!assets, Repair!repairs
  <2>2. RowsFit BY DEF RepairInv
  <2> QED BY <2>1, <2>2 DEF RowsStay, RowsFit, FaultFits, AssetFits, HasOpen
<1> QED BY <1>1, <1>2

-----------------------------------------------------------------------------
(* RepairLifecycle: what was read stays true                                 *)

\* A check of a fault looks at that fault only.
LEMMA AllowedStays ==
  ASSUME NEW q, ByFault(q), Repair!Allowed(q), faults'[q.fault] = faults[q.fault], rounds'[q.fault] = rounds[q.fault]
  PROVE  Repair!Allowed(q)'
BY DEF ByFault, Repair!FaultJobs, Repair!Allowed, Repair!MayTouch, Repair!MayDelete, Repair!MayRecord,
       Repair!MayEdit, Repair!MayDrop, Repair!MayReopen, Repair!MayUse, Repair!Exists, Repair!Current,
       Repair!Unfinished

\* What is allowed of a fault supposes that there is one.
LEMMA AllowedExists ==
  ASSUME RowsFit, NEW q, q.fault \in Faults, ByFault(q), Repair!Allowed(q)
  PROVE  faults[q.fault] # "none"
<1>1. rounds[q.fault] # <<>> => faults[q.fault] # "none" BY DEF RowsFit, FaultFits, Fits
<1>2. rounds[q.fault] \in Seq(Repair!Rounds) BY DEF RowsFit
<1>3. rounds[q.fault] = <<>> => DOMAIN rounds[q.fault] = {} BY <1>2
<1> QED
  BY <1>1, <1>3
  DEF ByFault, Repair!FaultJobs, Repair!Allowed, Repair!MayTouch, Repair!MayDelete, Repair!MayRecord,
      Repair!MayEdit, Repair!MayDrop, Repair!MayReopen, Repair!MayUse, Repair!Exists

\* Parts of RepairReads.
ChecksOf(v) == pc[v] \in {"asset", "look"} /\ ByFault(job[v]) => Repair!Allowed(job[v])
LooksOf(v) ==
    pc[v] = "look" =>
        /\ archived[Repair!AssetFor(job[v])] => job[v].kind = "restore"
        /\ seen[v].open <=> HasOpen(Repair!AssetFor(job[v]), OwnFault(job[v]))
        /\ seen[v].unfinished <=> Repair!InRepair(Repair!AssetFor(job[v]))

LEMMA ReadsAre == ASSUME NEW v PROVE RepairReads(v) <=> ChecksOf(v) /\ LooksOf(v)
BY DEF RepairReads, ChecksOf, LooksOf

\* Whoever commits holds none of the locks that another one relies on.
LEMMA OthersReads ==
  ASSUME RepairInv, NEW w \in Workers, Repair!Commit(w), NEW v \in Workers, v # w
  PROVE  ChecksOf(v)' /\ LooksOf(v)'
<1>1. /\ RepairTypes /\ Repair!TypeOK /\ RowsFit /\ RepairLocks(v) /\ ChecksOf(v) /\ LooksOf(v)
  BY ReadsAre DEF RepairInv, RepairTypes
<1>2. pc'[v] = pc[v] /\ job'[v] = job[v] /\ seen'[v] = seen[v] BY LocksKept DEF RepairStepOf
<1>3. held[v] \cap held[w] = {} BY DEF RepairInv, Repair!Exclusive
<1> PICK q : q = job[v] OBVIOUS
<1> PICK a : a = Repair!AssetFor(q) OBVIOUS
<1>4. ChecksOf(v)'
  <2> SUFFICES ASSUME pc[v] \in {"asset", "look"}, ByFault(q) PROVE Repair!Allowed(q)'
    BY <1>2 DEF ChecksOf, ByFault
  <2>1. q \in LifeRequests /\ q.fault \in Faults
    BY <1>1, RequestShape DEF RepairLocks, ByFault, Repair!FaultJobs, Repair!AssetJobs
  <2>2. FL(q) \in held[v] BY <1>1, <2>1, LockShape DEF RepairLocks, Needed
  <2>3. Repair!Allowed(q) BY <1>1 DEF ChecksOf
  <2>4. faults[q.fault] # "none" BY <1>1, <2>1, <2>3, AllowedExists
  <2>5. Repair!FaultLock(q.fault) \notin held[w] BY <1>3, <2>2 DEF FL
  <2>6. faults'[q.fault] = faults[q.fault] /\ rounds'[q.fault] = rounds[q.fault]
    BY <2>1, <2>4, <2>5, CommitWrites
  <2> QED BY <2>3, <2>6, AllowedStays
<1>5. LooksOf(v)'
  <2> SUFFICES ASSUME pc[v] = "look"
               PROVE  /\ archived'[a] => q.kind = "restore"
                      /\ seen[v].open <=> HasOpen(a, OwnFault(q))'
                      /\ seen[v].unfinished <=> Repair!InRepair(a)'
    BY <1>2 DEF LooksOf, Repair!AssetFor, OwnFault
  <2>1. q \in LifeRequests /\ a \in Assets BY <1>1, RequestShape DEF RepairLocks
  <2>2. Repair!AssetLock(a) \in held[v] BY <1>1 DEF RepairLocks, Needed, AL
  <2>3. \A f \in Faults : SameAsset[f] = a => faults'[f] = faults[f] /\ rounds'[f] = rounds[f]
    BY <1>3, <2>2, CommitWrites
  <2>4. archived'[a] = archived[a] BY <1>3, <2>1, <2>2, CommitWrites
  <2>5. HasOpen(a, OwnFault(q))' <=> HasOpen(a, OwnFault(q)) BY <2>3 DEF HasOpen
  <2>6. Repair!InRepair(a)' <=> Repair!InRepair(a) BY <2>3 DEF Repair!InRepair, Repair!FaultsOf
  <2> QED BY <1>1, <2>4, <2>5, <2>6 DEF LooksOf
<1> QED BY <1>4, <1>5

LEMMA ReadsKept ==
  ASSUME RepairInv, NEW w \in Workers, RepairStepOf(w), NEW v \in Workers
  PROVE  ChecksOf(v)' /\ LooksOf(v)'
<1>1. Repair!TypeOK /\ RepairLocks(v) /\ ChecksOf(v) /\ LooksOf(v)
  BY ReadsAre DEF RepairInv, RepairTypes
<1>2. CASE Repair!Commit(w) /\ v # w BY <1>2, OthersReads
<1>3. CASE pc'[v] = "idle" BY <1>3 DEF ChecksOf, LooksOf
<1>4. CASE RowsStay /\ pc'[v] = pc[v] /\ job'[v] = job[v] /\ seen'[v] = seen[v]
  <2>1. ChecksOf(v)'
    BY <1>1, <1>4
    DEF RowsStay, ChecksOf, ByFault, Repair!Allowed, Repair!MayTouch, Repair!MayDelete, Repair!MayRecord,
        Repair!MayEdit, Repair!MayDrop, Repair!MayReopen, Repair!MayUse, Repair!Exists, Repair!Current,
        Repair!Unfinished
  <2>2. LooksOf(v)'
    BY <1>1, <1>4 DEF RowsStay, LooksOf, HasOpen, OwnFault, Repair!InRepair, Repair!FaultsOf, Repair!AssetFor
  <2> QED BY <2>1, <2>2
<1>5. CASE v = w /\ Repair!Start(w)
  <2>1. (pc'[v] = "fault") \/ (pc'[v] = "asset" /\ ~ByFault(job'[v]))
    BY <1>1, <1>5 DEF Repair!Start, Repair!FirstLock, Repair!Advance, ByFault, Repair!TypeOK
  <2> QED BY <2>1 DEF ChecksOf, LooksOf, ByFault
<1>6. CASE v = w /\ Repair!Admit(w)
  <2>1. pc'[v] = "asset" /\ job'[v] = job[v] /\ Repair!Allowed(job[v])
        /\ UNCHANGED <<faults, rounds>>
    BY <1>1, <1>6 DEF Repair!Admit, Repair!Advance, Repair!repairs, Repair!TypeOK
  <2>2. ByFault(job[v]) => Repair!Allowed(job[v])' BY <2>1, AllowedStays
  <2> QED BY <2>1, <2>2 DEF ChecksOf, LooksOf, ByFault
<1>7. CASE v = w /\ Repair!Look(w)
  <2> PICK q : q = job[v] OBVIOUS
  <2> PICK a : a = Repair!AssetFor(q) OBVIOUS
  <2>1. /\ pc[v] = "asset" /\ pc'[v] = "look" /\ job' = job /\ UNCHANGED <<faults, rounds, archived>>
        /\ archived[a] => q.kind = "restore"
        /\ seen'[v] = [open |-> Repair!OpenFaults(a) \ OwnFault(q) # {}, unfinished |-> Repair!InRepair(a)]
    BY <1>1, <1>7
    DEF Repair!Look, Repair!HasAsset, Repair!InLedger, Repair!repairs, Repair!assets, Repair!TypeOK, OwnFault
  <2>2. Repair!OpenFaults(a) \ OwnFault(q) # {} <=> HasOpen(a, OwnFault(q))
    BY DEF Repair!OpenFaults, Repair!FaultsOf, HasOpen
  <2>3. ByFault(q) => Repair!Allowed(q)' BY <1>1, <2>1, AllowedStays DEF ChecksOf
  <2>4. HasOpen(a, OwnFault(q))' <=> HasOpen(a, OwnFault(q)) BY <2>1 DEF HasOpen
  <2>5. Repair!InRepair(a)' <=> Repair!InRepair(a) BY <2>1 DEF Repair!InRepair, Repair!FaultsOf
  <2>6. (seen'[v].open <=> HasOpen(a, OwnFault(q))) /\ (seen'[v].unfinished <=> Repair!InRepair(a))
    <3>1. seen'[v].open = (Repair!OpenFaults(a) \ OwnFault(q) # {}) BY <2>1
    <3>2. seen'[v].unfinished = Repair!InRepair(a) BY <2>1 DEF Repair!InRepair
    <3> QED BY <2>2, <3>1, <3>2
  <2>7. ChecksOf(v)' BY <2>1, <2>3 DEF ChecksOf, ByFault
  <2>8. LooksOf(v)' BY <2>1, <2>4, <2>5, <2>6 DEF LooksOf, Repair!AssetFor, OwnFault
  <2> QED BY <2>7, <2>8
<1>8. CASE v = w /\ (Repair!Commit(w) \/ Repair!Abort(w))
  BY <1>1, <1>3, <1>8, CommitEnds DEF Repair!Abort, Repair!End, Repair!TypeOK
<1>9. \/ v # w /\ RowsStay
      \/ v = w /\ Repair!Acquire(w) /\ RowsStay /\ UNCHANGED <<pc, job, seen>>
      \/ v = w /\ (Repair!Start(w) \/ Repair!Admit(w) \/ Repair!Look(w) \/ Repair!Abort(w))
      \/ Repair!Commit(w)
  BY DEF RowsStay, RepairStepOf, Repair!Start, Repair!Acquire, Repair!Admit, Repair!Look, Repair!Abort,
         Repair!assets, Repair!repairs
<1> QED BY <1>2, <1>4, <1>5, <1>6, <1>7, <1>8, <1>9, LocksKept

-----------------------------------------------------------------------------
(* RepairLifecycle: the theorems                                             *)

LEMMA RepairStepKeepsInv == ASSUME RepairInv, Repair!Next PROVE RepairInv'
<1> PICK w \in Workers : RepairStepOf(w) BY DEF Repair!Next, RepairStepOf
<1>1. RowsFit' BY RowsKept
<1>2. RepairTypes' /\ Repair!Exclusive' /\ \A v \in Workers : RepairLocks(v)'
  BY <1>1, LocksKept DEF RepairTypes, Repair!TypeOK, RowsFit
<1>3. \A v \in Workers : RepairReads(v)'
  <2> SUFFICES ASSUME NEW v \in Workers PROVE RepairReads(v)' OBVIOUS
  <2>1. ChecksOf(v)' /\ LooksOf(v)' BY ReadsKept
  <2> QED BY <2>1 DEF RepairReads, ChecksOf, LooksOf
<1> QED BY <1>1, <1>2, <1>3 DEF RepairInv

LEMMA RepairInitInv == ASSUME Repair!Init PROVE RepairInv
<1>0. /\ FirstStatus \in Normal /\ MaxRequests \in Nat
      /\ Normal \cap {Repair!NoStatus, "repair", "retired"} = {}
  BY OperationsConstants DEF Repair!RepairConstants
<1> USE DEF Repair!Init, Repair!NoLocks, Repair!Nothing
<1>1. RowsFit
  <2>1. <<>> \in Seq(Repair!Rounds) OBVIOUS
  <2>2. rounds \in [Faults -> Seq(Repair!Rounds)] BY <2>1
  <2>3. \A f \in Faults : FaultFits(f) BY DEF FaultFits, Fits
  <2>4. \A a \in Assets : AssetFits(a) BY <1>0 DEF AssetFits, HasOpen
  <2> QED BY <1>0, <2>2, <2>3, <2>4 DEF RowsFit, Repair!Statuses
<1>2. RepairTypes BY <1>0, <1>1 DEF RowsFit, RepairTypes, Repair!TypeOK
<1>3. Repair!Exclusive BY DEF Repair!Exclusive
<1>4. \A w \in Workers : RepairLocks(w) /\ RepairReads(w) BY DEF RepairLocks, RepairReads
<1> QED BY <1>1, <1>2, <1>3, <1>4 DEF RepairInv

LEMMA RepairStutters == ASSUME RepairInv, UNCHANGED repairVars PROVE RepairInv'
<1> USE DEF repairVars
<1>1. RowsFit' BY DEF RepairInv, RowsFit, FaultFits, AssetFits, HasOpen
<1>2. RepairTypes' BY DEF RepairInv, RepairTypes, Repair!TypeOK
<1>3. Repair!Exclusive' BY DEF RepairInv, Repair!Exclusive
<1>4. \A w \in Workers : RepairLocks(w)' BY DEF RepairInv, RepairLocks
<1>5. \A w \in Workers : RepairReads(w)'
  <2> SUFFICES ASSUME NEW w \in Workers PROVE RepairReads(w)' OBVIOUS
  <2>1. ChecksOf(w) /\ LooksOf(w) BY ReadsAre DEF RepairInv
  <2>2. ChecksOf(w)'
    BY <2>1
    DEF ChecksOf, ByFault, Repair!Allowed, Repair!MayTouch, Repair!MayDelete, Repair!MayRecord,
        Repair!MayEdit, Repair!MayDrop, Repair!MayReopen, Repair!MayUse, Repair!Exists, Repair!Current,
        Repair!Unfinished
  <2>3. LooksOf(w)'
    BY <2>1 DEF LooksOf, HasOpen, OwnFault, Repair!InRepair, Repair!FaultsOf, Repair!AssetFor
  <2> QED BY <2>2, <2>3 DEF RepairReads, ChecksOf, LooksOf
<1> QED BY <1>1, <1>2, <1>3, <1>4, <1>5 DEF RepairInv

\* Locks are held in one order and by one worker, what a transaction has checked
\* and read stays true until it commits, and so the rows fit together, for any
\* number of workers and requests.
THEOREM RepairInvariant == Spec => [](study = "repair" => RepairInv)
<1>1. Init => (study = "repair" => RepairInv) BY RepairInitInv DEF Init
<1>2. (study = "repair" => RepairInv) /\ [Next]_vars => (study = "repair" => RepairInv)'
  <2> SUFFICES ASSUME study = "repair" => RepairInv, [Next]_vars, study' = "repair"
               PROVE  RepairInv'
    OBVIOUS
  <2>1. CASE RepairStep BY <2>1, RepairStepKeepsInv DEF RepairStep
  <2>2. CASE PlanStep \/ DigestStep \/ AlertStep \/ TimelineStep \/ ValueStep
    BY <2>2 DEF PlanStep, DigestStep, AlertStep, TimelineStep, ValueStep
  <2>3. CASE UNCHANGED vars
    <3>1. RepairInv /\ UNCHANGED repairVars BY <2>3 DEF vars
    <3> QED BY <3>1, RepairStutters
  <2> QED BY <2>1, <2>2, <2>3 DEF Next
<1> QED BY <1>1, <1>2, PTL DEF Spec

\* An asset without an open fault has no unfinished round.
LEMMA OpenWhileUnfinished ==
  ASSUME RowsFit, NEW a, Repair!InRepair(a)
  PROVE  HasOpen(a, {})
<1> PICK f \in Faults : SameAsset[f] = a /\ \E n \in DOMAIN rounds[f] : ~rounds[f][n].finished
  BY DEF Repair!InRepair, Repair!FaultsOf
<1> PICK n \in DOMAIN rounds[f] : ~rounds[f][n].finished OBVIOUS
<1>1. rounds[f] \in Seq(Repair!Rounds) /\ Fits(faults[f], rounds[f]) BY DEF RowsFit, FaultFits
<1>2. n \in 1 .. Len(rounds[f]) /\ rounds[f] # <<>> BY <1>1
<1>3. n = Len(rounds[f]) BY <1>1, <1>2 DEF Fits
<1>4. faults[f] = "open" BY <1>1, <1>2, <1>3 DEF Fits
<1> QED BY <1>4 DEF HasOpen

\* An asset is in repair while it has an open fault, has its users' status back
\* afterwards, and a fault is closed when its last round is finished, however
\* the transactions of repair_writes.py overlap.
THEOREM AssetsFollowTheirFaults == Spec => []RepairsAgree
<1>1. ASSUME RepairInv PROVE Repair!RepairsAgree
  <2>1. RowsFit /\ Repair!TypeOK BY <1>1 DEF RepairInv, RepairTypes
  <2>2. \A a : Repair!OpenFaults(a) # {} <=> HasOpen(a, {})
    BY DEF Repair!OpenFaults, Repair!FaultsOf, HasOpen
  <2>3. Repair!StatusFollowsFaults
    BY <2>1, <2>2, OpenWhileUnfinished DEF RowsFit, AssetFits, Repair!StatusFollowsFaults
  <2>4. Repair!RestoresStatus BY <2>1 DEF RowsFit, AssetFits, Repair!RestoresStatus
  <2>5. Repair!FaultMirrorsRounds
    BY <2>1 DEF RowsFit, FaultFits, Fits, Repair!FaultMirrorsRounds, Repair!Current, Repair!Exists
  <2> QED BY <2>3, <2>4, <2>5 DEF Repair!RepairsAgree
<1>2. (study = "repair" => RepairInv) => RepairsAgree BY <1>1 DEF RepairsAgree
<1> QED BY <1>2, RepairInvariant, PTL

\* Transactions of repairs never wait for each other in a ring: fault before
\* asset, one of each (repair_writes.py, _lock_fault and active_asset_for_update).
THEOREM NoRepairDeadlock == Spec => []RepairsDoNotDeadlock
<1>1. (study = "repair" => RepairInv) => RepairsDoNotDeadlock
  BY LocksInOrder DEF RepairsDoNotDeadlock, Repair!RepairsDoNotDeadlock
<1> QED BY <1>1, RepairInvariant, PTL

-----------------------------------------------------------------------------
(* RepairLifecycle: what is kept of the rounds                               *)

\* KeepsRounds, for the rounds of one fault.
Kept(old, new) ==
    \A n \in DOMAIN old : old[n].finished \/ old[n].used =>
        /\ n \in DOMAIN new
        /\ old[n].finished => new[n] = old[n]
        /\ old[n].used => new[n].used

LEMMA OneFaultKept ==
  ASSUME RowsFit, NEW f \in Faults, NEW new, Repair!SetRounds(f, new), Kept(rounds[f], new)
  PROVE  Repair!KeepsRounds
<1>1. rounds'[f] = new /\ \A g \in Faults \ {f} : rounds'[g] = rounds[g]
  BY DEF RowsFit, Repair!SetRounds
<1> QED BY <1>1 DEF Kept, Repair!KeepsRounds

LEMMA RoundsKept ==
  ASSUME RepairInv, NEW w \in Workers, Repair!Commit(w),
         \/ Repair!CreateRepair(w) \/ Repair!UpdateRepair(w)
         \/ Repair!DeleteRepair(w) \/ Repair!ReopenRepair(w)
  PROVE  Repair!KeepsRounds
<1> PICK q : q = job[w] OBVIOUS
<1> PICK rs : rs = rounds[q.fault] OBVIOUS
<1>1. q.kind \in {"record", "edit", "drop", "reopen"}
  BY DEF Repair!CreateRepair, Repair!UpdateRepair, Repair!DeleteRepair, Repair!ReopenRepair, Repair!Doing
<1>2. /\ q \in LifeRequests /\ q.fault \in Faults /\ Repair!Allowed(q)
  BY <1>1, AtCommit DEF Repair!AssetJobs, ByFault, Repair!FaultJobs
<1>3. RowsFit /\ rs \in Seq(Repair!Rounds) /\ Fits(faults[q.fault], rs)
  BY <1>2 DEF RepairInv, RowsFit, FaultFits
<1>4. DOMAIN rs = 1 .. Len(rs) /\ Len(rs) \in Nat /\ \A n \in 1 .. Len(rs) : rs[n] \in Repair!Rounds
  BY <1>3
<1>5. CASE Repair!CreateRepair(w)
  <2> DEFINE used == rs # <<>> /\ rs[Len(rs)].used
             new == <<[finished |-> q.finish, draft |-> FALSE, used |-> used]>>
  <2>1. q.kind = "record" /\ Repair!SetRounds(q.fault, new)
    BY <1>5 DEF Repair!CreateRepair, Repair!Doing, Repair!Current
  <2>2. rs # <<>> => Len(rs) = 1 /\ ~rs[1].finished
    BY <1>2, <1>3, <1>4, <2>1 DEF Repair!Allowed, Repair!MayRecord, Repair!Current, Fits
  <2>3. DOMAIN new = {1} /\ new[1].used = used OBVIOUS
  <2> HIDE DEF new
  <2>4. Kept(rs, new)
    <3> SUFFICES ASSUME NEW n \in DOMAIN rs
                 PROVE  n = 1 /\ ~rs[n].finished /\ (rs[n].used => new[n].used)
      BY <2>3 DEF Kept
    <3>1. rs # <<>> /\ n = 1 BY <1>4, <2>2
    <3> QED BY <2>2, <2>3, <3>1
  <2> QED BY <1>2, <1>3, <2>1, <2>4, OneFaultKept
<1>6. CASE Repair!UpdateRepair(w)
  <2> DEFINE new == [rs EXCEPT ![q.round].finished = q.finish, ![q.round].draft = FALSE]
  <2>1. q.kind = "edit" /\ Repair!SetRounds(q.fault, new)
    BY <1>6 DEF Repair!UpdateRepair, Repair!Doing
  <2>2. q.round \in DOMAIN rs /\ ~rs[q.round].finished
    BY <1>2, <2>1 DEF Repair!Allowed, Repair!MayEdit
  <2>3. /\ DOMAIN new = DOMAIN rs /\ \A n \in DOMAIN rs \ {q.round} : new[n] = rs[n]
        /\ new[q.round].used = rs[q.round].used
    <3> PICK r : r = q.round OBVIOUS
    <3> PICK line : line = rs[r] OBVIOUS
    <3>1. line \in Repair!Rounds BY <1>4, <2>2
    <3>2. [[line EXCEPT !.finished = q.finish] EXCEPT !.draft = FALSE].used = line.used
      BY <3>1 DEF Repair!Rounds
    <3>3. new = [rs EXCEPT ![r] = [[line EXCEPT !.finished = q.finish] EXCEPT !.draft = FALSE]]
      BY <1>4, <2>2
    <3>4. DOMAIN new = DOMAIN rs BY <3>3
    <3> HIDE DEF new
    <3> QED BY <1>4, <2>2, <3>2, <3>3, <3>4
  <2> HIDE DEF new
  <2>4. Kept(rs, new)
    <3> SUFFICES ASSUME NEW n \in DOMAIN rs
                 PROVE  /\ n \in DOMAIN new
                        /\ rs[n].finished => new[n] = rs[n]
                        /\ rs[n].used => new[n].used
      BY DEF Kept
    <3> QED BY <2>2, <2>3
  <2> QED BY <1>2, <1>3, <2>1, <2>4, OneFaultKept
<1>7. CASE Repair!DeleteRepair(w)
  <2>1. q.kind = "drop" /\ Repair!SetRounds(q.fault, <<>>)
    BY <1>7 DEF Repair!DeleteRepair, Repair!Doing
  <2>2. q.round = 1 /\ 1 \in DOMAIN rs /\ ~rs[1].finished /\ ~rs[1].used
    BY <1>2, <2>1 DEF Repair!Allowed, Repair!MayDrop
  <2>3. \A n \in DOMAIN rs : n = 1
    <3>0. \A n \in 1 .. Len(rs) - 1 : rs[n].finished BY <1>3 DEF Fits
    <3>1. Len(rs) <= 1
      <4> SUFFICES ASSUME Len(rs) > 1 PROVE FALSE BY <1>4
      <4>1. 1 \in 1 .. Len(rs) - 1 BY <1>4
      <4> QED BY <2>2, <3>0, <4>1
    <3> QED BY <1>4, <3>1
  <2>4. Kept(rs, <<>>) BY <2>2, <2>3 DEF Kept
  <2> QED BY <1>2, <1>3, <2>1, <2>4, OneFaultKept
<1>8. CASE Repair!ReopenRepair(w)
  <2> DEFINE new == Append(rs, [finished |-> FALSE, draft |-> FALSE, used |-> FALSE])
  <2>1. Repair!SetRounds(q.fault, new) BY <1>8 DEF Repair!ReopenRepair
  <2>2. DOMAIN new = 1 .. Len(rs) + 1 /\ \A n \in 1 .. Len(rs) : new[n] = rs[n] BY <1>3
  <2> HIDE DEF new
  <2>3. Kept(rs, new) BY <1>4, <2>2 DEF Kept
  <2> QED BY <1>2, <1>3, <2>1, <2>3, OneFaultKept
<1> QED BY <1>5, <1>6, <1>7, <1>8

LEMMA UsageKept ==
  ASSUME RepairInv, NEW w \in Workers, Repair!Commit(w), Repair!UsePart(w)
  PROVE  Repair!KeepsRounds
<1> PICK f : f = job[w].fault OBVIOUS
<1>1. f \in Faults BY AtCommit DEF Repair!UsePart, Repair!Doing, Repair!AssetJobs
<1> PICK rs : rs = rounds[f] OBVIOUS
<1> PICK new \in Seq(Repair!Rounds) :
      /\ rounds' = [rounds EXCEPT ![f] = new]
      /\ Len(new) >= Len(rs)
      /\ \A n \in 1 .. Len(rs) :
           new[n].used = (n = Len(rs) \/ rs[n].used) /\ (n # Len(rs) => new[n] = rs[n])
      /\ Len(rs) # 0 => ~rs[Len(rs)].finished
  BY <1>1, UsedRounds
<1>2. RowsFit /\ rs \in Seq(Repair!Rounds) BY <1>1 DEF RepairInv, RowsFit
<1>3. DOMAIN rs = 1 .. Len(rs) /\ DOMAIN new = 1 .. Len(new) /\ Len(rs) \in Nat /\ Len(new) \in Nat BY <1>2
<1>4. Kept(rs, new)
  <2> SUFFICES ASSUME NEW n \in 1 .. Len(rs)
               PROVE  /\ n \in DOMAIN new
                      /\ rs[n].finished => new[n] = rs[n]
                      /\ rs[n].used => new[n].used
    BY <1>3 DEF Kept
  <2>1. n \in DOMAIN new BY <1>3
  <2>2. rs[n].finished => n # Len(rs) BY <1>3
  <2>3. rs[n].used => new[n].used BY <1>3
  <2> QED BY <2>1, <2>2, <2>3
<1> QED BY <1>1, <1>2, <1>4, OneFaultKept DEF Repair!SetRounds

\* A finished round is never changed or lost, and a round that has used parts
\* stays, whoever records, edits, drops or reopens rounds at the same time.
THEOREM RoundsAreKept == Spec => HistoryIsKept
<1>1. ASSUME study = "repair" => RepairInv, [Next]_vars
      PROVE  [study = "repair" => Repair!KeepsRounds]_vars
  <2> SUFFICES ASSUME study = "repair", UNCHANGED vars \/ Next, vars' # vars PROVE Repair!KeepsRounds
    BY <1>1
  <2>1. RepairInv /\ Repair!Next
    BY <1>1 DEF Next, RepairStep, PlanStep, DigestStep, AlertStep, TimelineStep, ValueStep
  <2> PICK w \in Workers : RepairStepOf(w) BY <2>1 DEF Repair!Next, RepairStepOf
  <2>2. CASE \/ Repair!CreateRepair(w) \/ Repair!UpdateRepair(w)
             \/ Repair!DeleteRepair(w) \/ Repair!ReopenRepair(w)
    BY <2>1, <2>2, RoundsKept DEF Repair!Commit
  <2>3. CASE Repair!UsePart(w) BY <2>1, <2>3, UsageKept DEF Repair!Commit
  <2>4. CASE rounds' = rounds BY <2>4 DEF Repair!KeepsRounds
  <2>5. \/ rounds' = rounds \/ Repair!UsePart(w)
        \/ Repair!CreateRepair(w) \/ Repair!UpdateRepair(w)
        \/ Repair!DeleteRepair(w) \/ Repair!ReopenRepair(w)
    BY DEF RepairStepOf, Repair!Start, Repair!Acquire, Repair!Admit, Repair!Look, Repair!Abort,
           Repair!Commit, Repair!CreateFault, Repair!UpdateFault, Repair!DeleteFault, Repair!EditStatus,
           Repair!Retire, Repair!Archive, Repair!Restore, Repair!repairs
  <2> QED BY <2>2, <2>3, <2>4, <2>5
<1> QED BY <1>1, RepairInvariant, PTL DEF Spec, HistoryIsKept

-----------------------------------------------------------------------------
(* NotificationDigest: the invariant                                         *)

\* A run has claimed a row and not yet written down what came of it.
Sending == {"send", "sent", "refused", "lost"}
Flying(p) == at[p] \in Sending

\* Every run is younger than the suppression date, and writes a day between that
\* date and today.
RunsInTime ==
    /\ suppressed <= Digest!Today
    /\ \A p \in Runs :
        /\ at[p] # "idle" => suppressed < Digest!Today
        /\ at[p] \notin {"idle", "prepare"} => suppressed < day[p] /\ day[p] <= Digest!Today
        /\ Flying(p) => current[p] \in Recipients

\* A claimed row says so, and has one run.
RowsClaimed ==
    /\ \A p \in Runs : Flying(p) => rows[day[p]][current[p]].status = "sending"
    /\ \A p, q \in Runs : p # q /\ Flying(p) /\ Flying(q) => day[p] # day[q] \/ current[p] # current[q]

\* Rows of days after the suppression date tell the truth of what was tried and sent.
RowTells(d, r) ==
    /\ tries[d][r] <= rows[d][r].attempts
    /\ rows[d][r].status \in {"pending", "failed"} => accepted[d][r] = 0
RowsTell ==
    /\ \A d \in Digest!Days, r \in Recipients : d > suppressed => RowTells(d, r)
    /\ \A p \in Runs :
        /\ at[p] = "send" =>
             /\ accepted[day[p]][current[p]] = 0
             /\ tries[day[p]][current[p]] + 1 <= rows[day[p]][current[p]].attempts
        /\ at[p] = "refused" => accepted[day[p]][current[p]] = 0

\* Nothing is known of a day before it comes.
FutureIsBlank ==
    \A d \in Digest!Days, r \in Recipients : d > Digest!Today =>
        /\ rows[d][r] = Digest!NoRow /\ saved[d][r] = Digest!NoRow
        /\ tries[d][r] = 0 /\ accepted[d][r] = 0

OnceADay == \A d \in Digest!Days, r \in Recipients : accepted[d][r] <= 1 /\ tries[d][r] <= Digest!MaxAttempts

DigestInv ==
    /\ Digest!TypeOK /\ clock < Hours * (DigestDays + 1)
    /\ RunsInTime /\ RowsClaimed /\ RowsTell /\ FutureIsBlank /\ OnceADay

-----------------------------------------------------------------------------
(* NotificationDigest: days                                                  *)

LEMMA Division ==
  ASSUME NEW H \in Nat \ {0}, NEW x \in Nat
  PROVE  x \div H \in Int /\ H * (x \div H) <= x /\ x < H * (x \div H) + H
OBVIOUS

LEMMA Scaled ==
  ASSUME NEW H \in Nat \ {0}, NEW a \in Int, NEW b \in Int, a + 1 <= b
  PROVE  H * a + H <= H * b
OBVIOUS

\* The hours up to the bound belong to its days.
LEMMA DayInside ==
  ASSUME NEW H \in Nat \ {0}, NEW x \in Nat, NEW L \in Nat, x < H * (L + 1)
  PROVE  x \div H \in 0 .. L
<1> PICK q \in Int : q = x \div H /\ H * q <= x /\ x < H * q + H BY Division
<1>1. q <= L
  <2> SUFFICES ASSUME L + 1 <= q PROVE FALSE OBVIOUS
  <2>1. H * (L + 1) <= H * q OBVIOUS
  <2> QED BY <2>1
<1>2. q >= 0
  <2> SUFFICES ASSUME q + 1 <= 0 PROVE FALSE OBVIOUS
  <2>1. H * q + H <= H * 0 BY Scaled
  <2> QED BY <2>1
<1> QED BY <1>1, <1>2

\* Days only pass.
LEMMA DaysPass ==
  ASSUME NEW H \in Nat \ {0}, NEW x \in Nat
  PROVE  x \div H <= (x + 1) \div H
<1> PICK q \in Int : q = x \div H /\ H * q <= x /\ x < H * q + H BY Division
<1> PICK r \in Int : r = (x + 1) \div H /\ H * r <= x + 1 /\ x + 1 < H * r + H BY Division
<1> SUFFICES ASSUME r + 1 <= q PROVE FALSE OBVIOUS
<1>1. H * r + H <= H * q BY Scaled
<1> QED BY <1>1

LEMMA DigestBasics ==
  ASSUME DigestInv
  PROVE  /\ Hours \in Nat \ {0} /\ DigestDays \in Nat
         /\ Digest!Today \in Digest!Days /\ Digest!Days \subseteq Int
         /\ Digest!TypeOK /\ Digest!MaxAttempts = 3 /\ Digest!Never = -1
         /\ suppressed \in Int
<1>1. Hours \in Nat \ {0} /\ DigestDays \in Nat /\ Digest!TypeOK
  BY OperationsConstants DEF Digest!DigestConstants, DigestInv
<1>2. Digest!Today \in Digest!Days
  BY <1>1, DayInside DEF Digest!Today, Digest!Days, DigestInv, Digest!TypeOK
<1>3. Digest!Days \subseteq Int BY <1>1 DEF Digest!Days
<1>4. suppressed \in Int BY <1>1, <1>3 DEF Digest!TypeOK, Digest!Never
<1> QED BY <1>1, <1>2, <1>3, <1>4 DEF Digest!MaxAttempts, Digest!Never

-----------------------------------------------------------------------------
(* NotificationDigest: its surroundings                                      *)

LEMMA TickStep == ASSUME DigestInv, Digest!Tick PROVE DigestInv'
<1> USE DEF Digest!Tick, Digest!runVars
<1>1. /\ Digest!Today \in Digest!Days /\ Digest!Days \subseteq Int /\ Digest!TypeOK
      /\ suppressed \in Int /\ Hours \in Nat \ {0} /\ DigestDays \in Nat
  BY DigestBasics
<1>2. clock' \in Nat /\ clock' < Hours * (DigestDays + 1) BY <1>1 DEF Digest!TypeOK
<1>3. Digest!Today' \in Digest!Days BY <1>1, <1>2, DayInside DEF Digest!Today, Digest!Days
<1>4. Digest!Today <= Digest!Today' BY <1>1, DaysPass DEF Digest!Today, Digest!TypeOK
<1>5. Digest!TypeOK' BY <1>1, <1>2 DEF Digest!TypeOK
<1>6. RunsInTime'
  <2>1. day \in [Runs -> Int] BY <1>1 DEF Digest!TypeOK
  <2> QED BY <1>1, <1>3, <1>4, <2>1 DEF DigestInv, RunsInTime, Flying
<1>7. RowsClaimed' BY DEF DigestInv, RowsClaimed, Flying
<1>8. RowsTell' BY DEF DigestInv, RowsTell, RowTells
<1>9. FutureIsBlank' BY <1>1, <1>3, <1>4 DEF DigestInv, FutureIsBlank
<1>10. OnceADay' BY DEF DigestInv, OnceADay
<1> QED BY <1>2, <1>5, <1>6, <1>7, <1>8, <1>9, <1>10 DEF DigestInv

LEMMA BackupStepOfDay == ASSUME DigestInv, Digest!Backup \/ Digest!Restore PROVE DigestInv'
<1> USE DEF Digest!Backup, Digest!Restore, Digest!runVars
<1>1. /\ Digest!Today \in Digest!Days /\ Digest!Days \subseteq Int /\ Digest!TypeOK
      /\ suppressed \in Int
  BY DigestBasics
<1>2. \A p \in Runs : at[p] = "idle" /\ at' = at BY DEF Digest!Quiet
<1>3. /\ clock' = clock /\ Digest!Today' = Digest!Today
      /\ suppressed' \in {suppressed, Digest!Today} /\ suppressed <= Digest!Today
      /\ rows' \in {rows, saved} /\ (rows' = rows \/ suppressed' = Digest!Today)
      /\ saved' \in {rows, saved}
      /\ UNCHANGED <<accepted, tries, at, day, todo, current>>
  BY DEF Digest!Today, DigestInv, RunsInTime
<1>4. Digest!TypeOK' BY <1>1, <1>3 DEF Digest!TypeOK
<1>5. RunsInTime' BY <1>1, <1>2, <1>3 DEF RunsInTime, Flying, Sending
<1>6. RowsClaimed' BY <1>2 DEF RowsClaimed, Flying, Sending
<1>7. FutureIsBlank' BY <1>3 DEF DigestInv, FutureIsBlank
<1>8. RowsTell'
  <2>1. \A d \in Digest!Days, r \in Recipients : d > suppressed' => RowTells(d, r)'
    <3> SUFFICES ASSUME NEW d \in Digest!Days, NEW r \in Recipients, d > suppressed'
                 PROVE  RowTells(d, r)'
      OBVIOUS
    <3>1. CASE rows' = rows /\ suppressed' = suppressed
      BY <1>3, <3>1 DEF DigestInv, RowsTell, RowTells
    <3>2. CASE suppressed' = Digest!Today
      BY <1>1, <1>3, <1>7, <3>2 DEF FutureIsBlank, RowTells, Digest!NoRow
    <3> QED BY <3>1, <3>2
  <2> QED BY <1>2, <2>1 DEF RowsTell
<1>9. OnceADay' BY <1>3 DEF DigestInv, OnceADay
<1> QED BY <1>3, <1>4, <1>5, <1>6, <1>7, <1>8, <1>9 DEF DigestInv

-----------------------------------------------------------------------------
(* NotificationDigest: the runs                                              *)

\* A run that starts, gets its day or ends touches no row.
LEMMA IdleSteps ==
  ASSUME DigestInv, NEW p \in Runs, Digest!Start(p) \/ Digest!Prepare(p) \/ Digest!End(p)
  PROVE  DigestInv'
<1> USE DEF Digest!Start, Digest!Prepare, Digest!End, Digest!Go
<1>1. /\ Digest!Today \in Digest!Days /\ Digest!Days \subseteq Int /\ Digest!TypeOK
      /\ suppressed \in Int
  BY DigestBasics
<1>2. /\ UNCHANGED <<clock, rows, saved, suppressed, accepted, tries>> /\ Digest!Today' = Digest!Today
      /\ at'[p] \in {"prepare", "next", "idle"} /\ \A q \in Runs \ {p} : at'[q] = at[q]
      /\ \A q \in Runs \ {p} : day'[q] = day[q] /\ current'[q] = current[q]
      /\ current'[p] \in {current[p], Digest!Nobody}
  BY <1>1 DEF Digest!Today, Digest!TypeOK
<1>3. Digest!TypeOK'
  BY <1>1 DEF Digest!TypeOK
<1>4. RunsInTime'
  <2>1. RunsInTime BY DEF DigestInv
  <2>2. suppressed <= Digest!Today BY DEF DigestInv, RunsInTime
  <2>3. Digest!Start(p) => suppressed < Digest!Today BY <1>1, <2>2
  <2>4. Digest!Prepare(p) => suppressed < Digest!Today /\ day'[p] = Digest!Today
    BY <1>1, <2>1 DEF RunsInTime, Digest!TypeOK
  <2>5. /\ at'[p] # "idle" => suppressed < Digest!Today
        /\ at'[p] \notin {"idle", "prepare"} => day'[p] = Digest!Today
        /\ at'[p] \notin Sending
    BY <1>1, <1>2, <2>3, <2>4 DEF Digest!TypeOK, Sending
  <2> SUFFICES ASSUME NEW q \in Runs
               PROVE  /\ at'[q] # "idle" => suppressed < Digest!Today
                      /\ at'[q] \notin {"idle", "prepare"} => suppressed < day'[q] /\ day'[q] <= Digest!Today
                      /\ Flying(q)' => current'[q] \in Recipients
    BY <1>2, <2>2 DEF RunsInTime
  <2>6. CASE q = p BY <1>1, <2>5, <2>6 DEF Flying
  <2>7. CASE q # p BY <1>2, <2>1, <2>7 DEF RunsInTime, Flying
  <2> QED BY <2>6, <2>7
<1>5. RowsClaimed' BY <1>2 DEF DigestInv, RowsClaimed, Flying, Sending
<1>6. RowsTell' BY <1>2 DEF DigestInv, RowsTell, RowTells
<1>7. FutureIsBlank' BY <1>2 DEF DigestInv, FutureIsBlank
<1>8. OnceADay' BY <1>2 DEF DigestInv, OnceADay
<1> QED BY <1>2, <1>3, <1>4, <1>5, <1>6, <1>7, <1>8 DEF DigestInv

\* A run claims a row that nobody has claimed, or passes it over.
LEMMA ClaimStep == ASSUME DigestInv, NEW p \in Runs, Digest!Claim(p) PROVE DigestInv'
<1>1. /\ Digest!Days \subseteq Int /\ Digest!TypeOK /\ suppressed \in Int /\ Digest!MaxAttempts = 3
      /\ Digest!Today \in Int
  BY DigestBasics
<1> PICK r \in todo[p] :
      LET old == rows[day[p]][r] IN
      /\ at[p] = "next"
      /\ todo' = [todo EXCEPT ![p] = @ \ {r}]
      /\ \/ /\ Digest!MayClaim(old)
            /\ Digest!SetRow(p, r, [status |-> "sending", attempts |-> old.attempts + 1, at |-> clock])
            /\ current' = [current EXCEPT ![p] = r]
            /\ Digest!Go(p, "send")
         \/ /\ ~Digest!MayClaim(old)
            /\ UNCHANGED <<rows, current, at>>
      /\ UNCHANGED <<clock, saved, suppressed, day, accepted, tries, starts>>
  BY DEF Digest!Claim
<1> PICK d : d = day[p] OBVIOUS
<1> PICK old : old = rows[d][r] OBVIOUS
<1>2. /\ r \in Recipients /\ d \in Digest!Days /\ suppressed < d /\ d <= Digest!Today
      /\ old \in Digest!RowType /\ Digest!Today' = Digest!Today
  <2>1. todo[p] \subseteq Recipients /\ d \in Digest!Days BY <1>1 DEF Digest!TypeOK
  <2>2. suppressed < d /\ d <= Digest!Today BY DEF DigestInv, RunsInTime
  <2>3. old \in Digest!RowType BY <1>1, <2>1 DEF Digest!TypeOK
  <2> QED BY <2>1, <2>2, <2>3 DEF Digest!Today
<1>3. CASE Digest!MayClaim(old)
  <2> DEFINE claimed == [status |-> "sending", attempts |-> old.attempts + 1, at |-> clock]
  <2>1. /\ rows' = [rows EXCEPT ![d][r] = claimed]
        /\ current' = [current EXCEPT ![p] = r] /\ at' = [at EXCEPT ![p] = "send"]
        /\ at[p] = "next"
        /\ old.status \notin {"sent", "sending", "unknown"} /\ old.attempts < Digest!MaxAttempts
    BY <1>3 DEF Digest!SetRow, Digest!Go, Digest!MayClaim
  <2>2. old.attempts \in 0 .. 2 /\ old.status \in {"pending", "failed"}
    BY <1>1, <1>2, <2>1 DEF Digest!RowType
  <2>3. claimed \in Digest!RowType /\ claimed.attempts = old.attempts + 1 /\ claimed.status = "sending"
    BY <1>1, <2>2 DEF Digest!RowType, Digest!TypeOK
  <2> HIDE DEF claimed
  <2>4. /\ rows'[d][r] = claimed
        /\ \A e \in Digest!Days, t \in Recipients : e # d \/ t # r => rows'[e][t] = rows[e][t]
        /\ rows' \in [Digest!Days -> [Recipients -> Digest!RowType]]
    BY <1>1, <1>2, <2>1, <2>3 DEF Digest!TypeOK
  <2>5. /\ at'[p] = "send" /\ current'[p] = r /\ day' = day
        /\ \A q \in Runs \ {p} : at'[q] = at[q] /\ current'[q] = current[q]
    BY <1>1, <2>1 DEF Digest!TypeOK
  <2>6. Digest!TypeOK' BY <1>1, <1>2, <2>1, <2>4 DEF Digest!TypeOK
  <2>7. \A q \in Runs \ {p} : Flying(q) => day[q] # d \/ current[q] # r
    BY <2>2 DEF DigestInv, RowsClaimed
  <2>8. \A q \in Runs : Flying(q) => current[q] \in Recipients /\ day[q] \in Digest!Days
    BY <1>1 DEF DigestInv, RunsInTime, Digest!TypeOK
  <2>9. RunsInTime'
    <3>1. RunsInTime BY DEF DigestInv
    <3> SUFFICES ASSUME NEW q \in Runs
                 PROVE  /\ at'[q] # "idle" => suppressed < Digest!Today
                        /\ at'[q] \notin {"idle", "prepare"} => suppressed < day[q] /\ day[q] <= Digest!Today
                        /\ Flying(q)' => current'[q] \in Recipients
      BY <1>2, <2>5, <3>1 DEF RunsInTime
    <3>2. CASE q = p BY <1>2, <2>1, <2>5, <3>1, <3>2 DEF RunsInTime
    <3>3. CASE q # p BY <2>5, <3>1, <3>3 DEF RunsInTime, Flying
    <3> QED BY <3>2, <3>3
  <2>10. RowsClaimed'
    <3>1. \A q \in Runs \ {p} : Flying(q)' => Flying(q) BY <2>5 DEF Flying
    <3>2. \A q \in Runs : Flying(q)' => rows'[day'[q]][current'[q]].status = "sending"
      BY <2>3, <2>4, <2>5, <2>7, <2>8, <3>1 DEF DigestInv, RowsClaimed
    <3>3. \A q, o \in Runs : q # o /\ Flying(q)' /\ Flying(o)' => day'[q] # day'[o] \/ current'[q] # current'[o]
      BY <2>5, <2>7, <3>1 DEF DigestInv, RowsClaimed
    <3> QED BY <3>2, <3>3 DEF RowsClaimed
  <2>11. RowsTell'
    <3>1. tries[d][r] <= old.attempts /\ accepted[d][r] = 0
      BY <1>2, <2>2 DEF DigestInv, RowsTell, RowTells
    <3>2. tries[d][r] \in Nat BY <1>1, <1>2 DEF Digest!TypeOK, Digest!Counts
    <3>3. \A e \in Digest!Days, t \in Recipients : e > suppressed => RowTells(e, t)'
      <4> SUFFICES ASSUME NEW e \in Digest!Days, NEW t \in Recipients, e > suppressed
                   PROVE  RowTells(e, t)'
        OBVIOUS
      <4>1. CASE e = d /\ t = r BY <2>2, <2>3, <2>4, <3>1, <3>2, <4>1 DEF RowTells
      <4>2. CASE e # d \/ t # r BY <2>4, <4>2 DEF DigestInv, RowsTell, RowTells
      <4> QED BY <4>1, <4>2
    <3>4. \A q \in Runs :
            /\ at'[q] = "send" =>
                 /\ accepted[day[q]][current'[q]] = 0
                 /\ tries[day[q]][current'[q]] + 1 <= rows'[day[q]][current'[q]].attempts
            /\ at'[q] = "refused" => accepted[day[q]][current'[q]] = 0
      <4> SUFFICES ASSUME NEW q \in Runs
                   PROVE  /\ at'[q] = "send" =>
                               /\ accepted[day[q]][current'[q]] = 0
                               /\ tries[day[q]][current'[q]] + 1 <= rows'[day[q]][current'[q]].attempts
                          /\ at'[q] = "refused" => accepted[day[q]][current'[q]] = 0
        OBVIOUS
      <4>1. CASE q = p BY <2>2, <2>3, <2>4, <2>5, <3>1, <3>2, <4>1
      <4>2. CASE q # p
        BY <2>4, <2>5, <2>7, <2>8, <4>2 DEF DigestInv, RowsTell, Flying, Sending
      <4> QED BY <4>1, <4>2
    <3> QED BY <3>3, <3>4, <2>5 DEF RowsTell
  <2>12. FutureIsBlank'
    <3>1. \A e \in Digest!Days : e > Digest!Today => e # d BY <1>1, <1>2
    <3> QED BY <1>2, <2>4, <3>1 DEF DigestInv, FutureIsBlank
  <2>13. OnceADay' BY DEF DigestInv, OnceADay
  <2> QED BY <2>6, <2>9, <2>10, <2>11, <2>12, <2>13 DEF DigestInv
<1>4. CASE UNCHANGED <<rows, current, at>>
  <2>1. Digest!TypeOK' BY <1>1, <1>4 DEF Digest!TypeOK
  <2>2. RunsInTime' BY <1>2, <1>4 DEF DigestInv, RunsInTime, Flying
  <2>3. RowsClaimed' BY <1>4 DEF DigestInv, RowsClaimed, Flying
  <2>4. RowsTell' BY <1>4 DEF DigestInv, RowsTell, RowTells
  <2>5. FutureIsBlank' BY <1>2, <1>4 DEF DigestInv, FutureIsBlank
  <2>6. OnceADay' BY DEF DigestInv, OnceADay
  <2> QED BY <2>1, <2>2, <2>3, <2>4, <2>5, <2>6 DEF DigestInv
<1> QED BY <1>3, <1>4

\* The server is contacted for a claimed row, and its answer comes or does not.
LEMMA ContactStep == ASSUME DigestInv, NEW p \in Runs, Digest!Contact(p) PROVE DigestInv'
<1>1. /\ Digest!Days \subseteq Int /\ Digest!TypeOK /\ suppressed \in Int /\ Digest!MaxAttempts = 3
      /\ Digest!Today \in Int
  BY DigestBasics
<1> PICK d : d = day[p] OBVIOUS
<1> PICK r : r = current[p] OBVIOUS
<1>2. /\ at[p] = "send" /\ tries' = [tries EXCEPT ![d][r] = @ + 1]
      /\ \E to \in {"sent", "refused", "lost"} :
           /\ at' = [at EXCEPT ![p] = to]
           /\ accepted' \in {accepted, [accepted EXCEPT ![d][r] = @ + 1]}
           /\ to = "refused" => accepted' = accepted
      /\ UNCHANGED <<clock, rows, saved, suppressed, day, todo, current, starts>>
      /\ Digest!Today' = Digest!Today
  BY DEF Digest!Contact, Digest!Go, Digest!Today
<1>3. Flying(p) /\ r \in Recipients /\ d \in Digest!Days /\ suppressed < d /\ d <= Digest!Today
  BY <1>1, <1>2 DEF DigestInv, RunsInTime, Flying, Sending, Digest!TypeOK
<1>4. accepted[d][r] = 0 /\ tries[d][r] \in Nat /\ tries[d][r] + 1 <= rows[d][r].attempts
  BY <1>1, <1>2, <1>3 DEF DigestInv, RowsTell, Digest!TypeOK, Digest!Counts
<1>5. rows[d][r] \in Digest!RowType /\ rows[d][r].status = "sending"
  BY <1>1, <1>3 DEF DigestInv, RowsClaimed, Digest!TypeOK
<1>6. rows[d][r].attempts \in 0 .. 3 BY <1>1, <1>5 DEF Digest!RowType
<1>7. /\ tries'[d][r] = tries[d][r] + 1 /\ accepted'[d][r] \in {0, 1}
      /\ \A e \in Digest!Days, t \in Recipients : e # d \/ t # r =>
           tries'[e][t] = tries[e][t] /\ accepted'[e][t] = accepted[e][t]
      /\ tries' \in Digest!Counts /\ accepted' \in Digest!Counts
      /\ at'[p] = "refused" => accepted'[d][r] = 0
  <2>1. /\ tries \in [Digest!Days -> [Recipients -> Nat]]
        /\ accepted \in [Digest!Days -> [Recipients -> Nat]]
    BY <1>1 DEF Digest!TypeOK, Digest!Counts
  <2>2. /\ tries'[d][r] = tries[d][r] + 1 /\ tries' \in [Digest!Days -> [Recipients -> Nat]]
        /\ \A e \in Digest!Days, t \in Recipients : e # d \/ t # r => tries'[e][t] = tries[e][t]
    BY <1>2, <1>3, <2>1
  <2>3. CASE accepted' = accepted BY <1>4, <2>1, <2>2, <2>3 DEF Digest!Counts
  <2>4. CASE accepted' = [accepted EXCEPT ![d][r] = @ + 1] /\ at'[p] # "refused"
    <3>1. /\ accepted'[d][r] = 1 /\ accepted' \in [Digest!Days -> [Recipients -> Nat]]
          /\ \A e \in Digest!Days, t \in Recipients : e # d \/ t # r => accepted'[e][t] = accepted[e][t]
      BY <1>3, <1>4, <2>1, <2>4
    <3> QED BY <2>2, <2>4, <3>1 DEF Digest!Counts
  <2>5. at'[p] = "refused" => accepted' = accepted BY <1>1, <1>2 DEF Digest!TypeOK
  <2> QED BY <1>2, <2>3, <2>4, <2>5
<1>8. at'[p] \in {"sent", "refused", "lost"} /\ \A q \in Runs \ {p} : at'[q] = at[q]
  BY <1>1, <1>2 DEF Digest!TypeOK
<1>9. Digest!TypeOK' BY <1>1, <1>2, <1>7 DEF Digest!TypeOK
<1>10. \A q \in Runs : Flying(q)' <=> Flying(q) BY <1>3, <1>8 DEF Flying, Sending
<1>11. RunsInTime'
  <2>1. \A q \in Runs : /\ at'[q] # "idle" <=> at[q] # "idle"
                        /\ at'[q] \notin {"idle", "prepare"} <=> at[q] \notin {"idle", "prepare"}
    BY <1>2, <1>8
  <2> QED BY <1>2, <1>10, <2>1 DEF DigestInv, RunsInTime
<1>12. RowsClaimed' BY <1>2, <1>10 DEF DigestInv, RowsClaimed
<1>13. \A q \in Runs \ {p} : Flying(q) =>
         /\ day[q] # d \/ current[q] # r
         /\ day[q] \in Digest!Days /\ current[q] \in Recipients
  BY <1>1, <1>3 DEF DigestInv, RowsClaimed, RunsInTime, Digest!TypeOK
<1>14. RowsTell'
  <2>1. \A e \in Digest!Days, t \in Recipients : e > suppressed => RowTells(e, t)'
    <3> SUFFICES ASSUME NEW e \in Digest!Days, NEW t \in Recipients, e > suppressed
                 PROVE  RowTells(e, t)'
      OBVIOUS
    <3>1. CASE e = d /\ t = r BY <1>2, <1>4, <1>5, <1>7, <3>1 DEF RowTells
    <3>2. CASE e # d \/ t # r BY <1>2, <1>7, <3>2 DEF DigestInv, RowsTell, RowTells
    <3> QED BY <3>1, <3>2
  <2>2. \A q \in Runs :
          /\ at'[q] = "send" =>
               /\ accepted'[day[q]][current[q]] = 0
               /\ tries'[day[q]][current[q]] + 1 <= rows[day[q]][current[q]].attempts
          /\ at'[q] = "refused" => accepted'[day[q]][current[q]] = 0
    <3> SUFFICES ASSUME NEW q \in Runs
                 PROVE  /\ at'[q] = "send" =>
                             /\ accepted'[day[q]][current[q]] = 0
                             /\ tries'[day[q]][current[q]] + 1 <= rows[day[q]][current[q]].attempts
                        /\ at'[q] = "refused" => accepted'[day[q]][current[q]] = 0
      OBVIOUS
    <3>1. CASE q = p BY <1>7, <1>8, <3>1
    <3>2. CASE q # p
      BY <1>7, <1>8, <1>13, <3>2 DEF DigestInv, RowsTell, Flying, Sending
    <3> QED BY <3>1, <3>2
  <2> QED BY <1>2, <2>1, <2>2 DEF RowsTell
<1>15. FutureIsBlank'
  <2>0. d \in Int /\ d <= Digest!Today /\ Digest!Today \in Int BY <1>1, <1>3
  <2>1. \A e \in Digest!Days : e > Digest!Today => e # d BY <2>0
  <2> QED BY <1>2, <1>7, <2>1 DEF DigestInv, FutureIsBlank
<1>16. OnceADay'
  <2> SUFFICES ASSUME NEW e \in Digest!Days, NEW t \in Recipients
               PROVE  accepted'[e][t] <= 1 /\ tries'[e][t] <= Digest!MaxAttempts
    BY DEF OnceADay, Digest!MaxAttempts
  <2>1. CASE e = d /\ t = r BY <1>1, <1>4, <1>6, <1>7, <2>1
  <2>2. CASE e # d \/ t # r BY <1>7, <2>2 DEF DigestInv, OnceADay
  <2> QED BY <2>1, <2>2
<1> QED BY <1>2, <1>9, <1>11, <1>12, <1>14, <1>15, <1>16 DEF DigestInv

\* What came of a claim is written down.
LEMMA SaveStep == ASSUME DigestInv, NEW p \in Runs, Digest!Save(p) PROVE DigestInv'
<1>1. /\ Digest!Days \subseteq Int /\ Digest!TypeOK /\ suppressed \in Int /\ Digest!MaxAttempts = 3
      /\ Digest!Today \in Int
  BY DigestBasics
<1> PICK d : d = day[p] OBVIOUS
<1> PICK r : r = current[p] OBVIOUS
<1> PICK old : old = rows[d][r] OBVIOUS
<1> DEFINE done == [old EXCEPT !.status = Digest!Outcome(at[p])]
<1>2. /\ at[p] \in {"sent", "refused", "lost"} /\ rows' = [rows EXCEPT ![d][r] = done]
      /\ current' = [current EXCEPT ![p] = Digest!Nobody] /\ at' = [at EXCEPT ![p] = "next"]
      /\ UNCHANGED <<clock, saved, suppressed, day, todo, accepted, tries, starts>>
      /\ Digest!Today' = Digest!Today
  BY DEF Digest!Save, Digest!Go, Digest!SetRow, Digest!Row, Digest!Today
<1>3. Flying(p) /\ r \in Recipients /\ d \in Digest!Days /\ suppressed < d /\ d <= Digest!Today
  BY <1>1, <1>2 DEF DigestInv, RunsInTime, Flying, Sending, Digest!TypeOK
<1>4. old \in Digest!RowType BY <1>1, <1>3 DEF Digest!TypeOK
<1>5. /\ done \in Digest!RowType /\ done.attempts = old.attempts
      /\ done.status \in {"pending", "failed"} => at[p] = "refused"
  <2>1. Digest!Outcome(at[p]) \in {"sent", "failed", "unknown"}
        /\ (Digest!Outcome(at[p]) = "failed" => at[p] = "refused")
    BY <1>2 DEF Digest!Outcome
  <2> QED BY <1>4, <2>1 DEF Digest!RowType
<1> HIDE DEF done
<1>6. /\ rows'[d][r] = done
      /\ \A e \in Digest!Days, t \in Recipients : e # d \/ t # r => rows'[e][t] = rows[e][t]
      /\ rows' \in [Digest!Days -> [Recipients -> Digest!RowType]]
  BY <1>1, <1>2, <1>3, <1>5 DEF Digest!TypeOK
<1>7. /\ at'[p] = "next" /\ \A q \in Runs \ {p} : at'[q] = at[q] /\ current'[q] = current[q]
      /\ ~Flying(p)'
  BY <1>1, <1>2 DEF Digest!TypeOK, Flying, Sending
<1>8. Digest!TypeOK' BY <1>1, <1>2, <1>6 DEF Digest!TypeOK
<1>9. RunsInTime'
  <2>1. RunsInTime BY DEF DigestInv
  <2> SUFFICES ASSUME NEW q \in Runs
               PROVE  /\ at'[q] # "idle" => suppressed < Digest!Today
                      /\ at'[q] \notin {"idle", "prepare"} => suppressed < day[q] /\ day[q] <= Digest!Today
                      /\ Flying(q)' => current'[q] \in Recipients
    BY <1>2, <2>1 DEF RunsInTime
  <2>2. CASE q = p BY <1>2, <1>3, <1>7, <2>1, <2>2 DEF RunsInTime
  <2>3. CASE q # p BY <1>7, <2>1, <2>3 DEF RunsInTime, Flying
  <2> QED BY <2>2, <2>3
<1>10. \A q \in Runs \ {p} : Flying(q) =>
         /\ day[q] # d \/ current[q] # r
         /\ day[q] \in Digest!Days /\ current[q] \in Recipients
  BY <1>1, <1>3 DEF DigestInv, RowsClaimed, RunsInTime, Digest!TypeOK
<1>11. \A q \in Runs : Flying(q)' => q # p /\ Flying(q) BY <1>7 DEF Flying
<1>12. RowsClaimed'
  <2>1. \A q \in Runs : Flying(q)' => rows'[day'[q]][current'[q]].status = "sending"
    BY <1>2, <1>6, <1>7, <1>10, <1>11 DEF DigestInv, RowsClaimed
  <2>2. \A q, o \in Runs : q # o /\ Flying(q)' /\ Flying(o)' => day'[q] # day'[o] \/ current'[q] # current'[o]
    BY <1>2, <1>7, <1>11 DEF DigestInv, RowsClaimed
  <2> QED BY <2>1, <2>2 DEF RowsClaimed
<1>13. RowsTell'
  <2>1. at[p] = "refused" => accepted[d][r] = 0 BY DEF DigestInv, RowsTell
  <2>2. \A e \in Digest!Days, t \in Recipients : e > suppressed => RowTells(e, t)'
    <3> SUFFICES ASSUME NEW e \in Digest!Days, NEW t \in Recipients, e > suppressed
                 PROVE  RowTells(e, t)'
      OBVIOUS
    <3>1. RowTells(e, t) BY DEF DigestInv, RowsTell
    <3>2. CASE e = d /\ t = r BY <1>2, <1>5, <1>6, <2>1, <3>1, <3>2 DEF RowTells
    <3>3. CASE e # d \/ t # r BY <1>2, <1>6, <3>1, <3>3 DEF RowTells
    <3> QED BY <3>2, <3>3
  <2>3. \A q \in Runs :
          /\ at'[q] = "send" =>
               /\ accepted[day[q]][current'[q]] = 0
               /\ tries[day[q]][current'[q]] + 1 <= rows'[day[q]][current'[q]].attempts
          /\ at'[q] = "refused" => accepted[day[q]][current'[q]] = 0
    <3> SUFFICES ASSUME NEW q \in Runs, q # p, Flying(q)
                 PROVE  /\ at[q] = "send" =>
                             /\ accepted[day[q]][current[q]] = 0
                             /\ tries[day[q]][current[q]] + 1 <= rows'[day[q]][current[q]].attempts
                        /\ at[q] = "refused" => accepted[day[q]][current[q]] = 0
      BY <1>7 DEF Flying, Sending
    <3> QED BY <1>6, <1>10 DEF DigestInv, RowsTell
  <2> QED BY <1>2, <2>2, <2>3 DEF RowsTell
<1>14. FutureIsBlank'
  <2>0. d \in Int /\ d <= Digest!Today /\ Digest!Today \in Int BY <1>1, <1>3
  <2>1. \A e \in Digest!Days : e > Digest!Today => e # d BY <2>0
  <2> QED BY <1>2, <1>6, <2>1 DEF DigestInv, FutureIsBlank
<1>15. OnceADay' BY <1>2 DEF DigestInv, OnceADay
<1> QED BY <1>2, <1>8, <1>9, <1>12, <1>13, <1>14, <1>15 DEF DigestInv

-----------------------------------------------------------------------------
(* NotificationDigest: the theorems                                          *)

LEMMA DigestStepKeepsInv == ASSUME DigestInv, Digest!Next PROVE DigestInv'
BY TickStep, BackupStepOfDay, IdleSteps, ClaimStep, ContactStep, SaveStep
DEF Digest!Next, Digest!RunStep

LEMMA DigestInitInv == ASSUME Digest!Init PROVE DigestInv
<1>1. Hours \in Nat \ {0} /\ DigestDays \in Nat BY OperationsConstants DEF Digest!DigestConstants
<1> USE DEF Digest!Init, Digest!NoCounts, Digest!NoRow, Digest!Never
<1>2. clock \in Nat /\ clock < Hours * (DigestDays + 1)
  <2> PICK n \in Int : n = DigestDays + 1 /\ 0 + 1 <= n BY <1>1
  <2>1. Hours * 0 + Hours <= Hours * n BY <1>1, Scaled
  <2> PICK all \in Int : all = Hours * n BY <1>1
  <2>2. 0 < all BY <1>1, <2>1
  <2> QED BY <2>2
<1>3. Digest!Today \in Digest!Days BY <1>1, <1>2, DayInside DEF Digest!Today, Digest!Days
<1>4. 0 \in Digest!Days /\ Digest!Days \subseteq Nat BY <1>1 DEF Digest!Days
<1>5. Digest!TypeOK
  <2>1. rows \in [Digest!Days -> [Recipients -> Digest!RowType]] /\ saved = rows
    BY DEF Digest!RowType, Digest!MaxAttempts
  <2>2. accepted \in Digest!Counts /\ tries \in Digest!Counts BY DEF Digest!Counts
  <2>3. suppressed \in Digest!Days \cup {Digest!Never} OBVIOUS
  <2>4. /\ at \in [Runs -> {"idle", "prepare", "next", "send", "sent", "refused", "lost"}]
        /\ day \in [Runs -> Digest!Days] /\ todo \in [Runs -> SUBSET Recipients]
        /\ current \in [Runs -> Recipients \cup {Digest!Nobody}]
    BY <1>4
  <2> QED BY <1>2, <2>1, <2>2, <2>3, <2>4 DEF Digest!TypeOK
<1>6. RunsInTime BY <1>3, <1>4 DEF RunsInTime, Flying, Sending
<1>7. RowsClaimed BY DEF RowsClaimed, Flying, Sending
<1>8. RowsTell BY DEF RowsTell, RowTells
<1>9. FutureIsBlank BY DEF FutureIsBlank
<1>10. OnceADay BY DEF OnceADay, Digest!MaxAttempts
<1> QED BY <1>2, <1>5, <1>6, <1>7, <1>8, <1>9, <1>10 DEF DigestInv

LEMMA DigestStutters == ASSUME DigestInv, UNCHANGED digestVars PROVE DigestInv'
<1> USE DEF digestVars
<1>1. Digest!TypeOK' /\ Digest!Today' = Digest!Today BY DEF DigestInv, Digest!TypeOK, Digest!Today
<1>2. RunsInTime' BY <1>1 DEF DigestInv, RunsInTime, Flying
<1>3. RowsClaimed' BY DEF DigestInv, RowsClaimed, Flying
<1>4. RowsTell' BY DEF DigestInv, RowsTell, RowTells
<1>5. FutureIsBlank' BY <1>1 DEF DigestInv, FutureIsBlank
<1>6. OnceADay' BY DEF DigestInv, OnceADay
<1> QED BY <1>1, <1>2, <1>3, <1>4, <1>5, <1>6 DEF DigestInv

\* A claimed row has one run, every run is younger than the suppression date, and
\* the rows after that date tell the truth of what was tried and sent.
THEOREM DigestInvariant == Spec => [](study = "digest" => DigestInv)
<1>1. Init => (study = "digest" => DigestInv) BY DigestInitInv DEF Init
<1>2. (study = "digest" => DigestInv) /\ [Next]_vars => (study = "digest" => DigestInv)'
  <2> SUFFICES ASSUME study = "digest" => DigestInv, [Next]_vars, study' = "digest"
               PROVE  DigestInv'
    OBVIOUS
  <2>1. CASE DigestStep BY <2>1, DigestStepKeepsInv DEF DigestStep
  <2>2. CASE RepairStep \/ PlanStep \/ AlertStep \/ TimelineStep \/ ValueStep
    BY <2>2 DEF RepairStep, PlanStep, AlertStep, TimelineStep, ValueStep
  <2>3. CASE UNCHANGED vars
    <3>1. DigestInv /\ UNCHANGED digestVars BY <2>3 DEF vars
    <3> QED BY <3>1, DigestStutters
  <2> QED BY <2>1, <2>2, <2>3 DEF Next
<1> QED BY <1>1, <1>2, PTL DEF Spec

\* Nobody gets the digest of a day twice, and the server is contacted three times
\* for it at most, for any number of overlapping, dying and restored runs
\* (notification_delivery.py, send_digest).
THEOREM DigestOnceADay == Spec => []AtMostOneDigest
<1>1. (study = "digest" => DigestInv) => AtMostOneDigest
  BY DEF AtMostOneDigest, Digest!AtMostOneDigest, DigestInv, OnceADay
<1> QED BY <1>1, DigestInvariant, PTL

-----------------------------------------------------------------------------
(* Timeline: the invariant                                                   *)

\* Rows of the asset itself: with its places and owners, from a version without
\* owners, or about its status alone.
AssetEntry(e) ==
    \/ \A n \in e.snaps : ~History!Has(n, "center") /\ ~History!Has(n, "dept")
    \/ /\ \A n \in e.snaps : History!Has(n, "center") /\ History!Has(n, "dept")
       /\ e.about.pairs = {History!Pair(n.center, n.dept) : n \in e.snaps}
       /\ e.about.stock = {} /\ e.about.task = e.task
    \/ \E n \in e.snaps :
        /\ e.snaps = {n} /\ History!Has(n, "center") /\ ~History!Has(n, "dept")
        /\ e.about.pairs = {History!Pair(n.center, d) : d \in History!Owners}
        /\ e.about.stock = {} /\ e.about.task = Nowhere /\ e.task = Nowhere

\* Rows of all else, with what was frozen when they were written.
StocksOf(e) ==
    IF e.type = "transaction" THEN UNION {{n.source, n.target} \ {Nowhere} : n \in e.snaps}
    ELSE IF e.evidence.stock.vendor THEN {} ELSE {e.evidence.stock.center}
FrozenEntry(e) ==
    /\ e.about.stock = StocksOf(e)
    /\ e.type = "transaction" => e.evidence.stock.vendor
    /\ IF e.type = "item"
       THEN /\ e.about.pairs = {e.evidence.at} \cup ({n.seen : n \in e.snaps} \ {Nowhere})
            /\ e.about.task \in {1, 2} /\ e.evidence.task = e.about.task
            /\ e.task \in {Nowhere, e.about.task}
       ELSE e.about.pairs = {e.evidence.at} /\ e.about.task = Nowhere /\ e.task = Nowhere

EntryFits(e) ==
    /\ e.snaps # {}
    /\ IF e.type = "asset" THEN AssetEntry(e) ELSE e.evidence.known => FrozenEntry(e)

CountFits == count # Nowhere => DOMAIN count = {"task", "snap", "seen"} /\ count.task \in {1, 2}

TimelineInv == CountFits /\ \A e \in log : EntryFits(e)

-----------------------------------------------------------------------------
(* Timeline: what is written                                                 *)

\* asset_audit_snapshot, before and after.
LEMMA AssetRowFits ==
  ASSUME NEW task
  PROVE  EntryFits(History!AssetRow(task))
<1> DEFINE e == History!AssetRow(task)
           x == [center |-> asset.center, dept |-> asset.dept, person |-> asset.person]
           y == [center |-> asset'.center, dept |-> asset'.dept, person |-> asset'.person]
<1> USE DEF History!AssetRow, History!Row, History!AssetSnapshot, History!About, History!Here,
            History!Pair, History!Has
<1>1. /\ e.type = "asset" /\ e.snaps = {x, y} /\ e.task = task
      /\ e.about.pairs = {History!Pair(x.center, x.dept), History!Pair(y.center, y.dept)}
      /\ e.about.stock = {} /\ e.about.task = task
  OBVIOUS
<1>2. \A n \in e.snaps : History!Has(n, "center") /\ History!Has(n, "dept") BY <1>1
<1>3. e.about.pairs = {History!Pair(n.center, n.dept) : n \in e.snaps} BY <1>1
<1> QED BY <1>1, <1>2, <1>3 DEF EntryFits, AssetEntry

\* A text about where the asset is now.
LEMMA EventRowFits ==
  ASSUME NEW type, type \notin {"asset", "item", "transaction"}, asset' = asset,
         NEW snap
  PROVE  EntryFits(History!Row(type, {snap}, History!Evidence(Nowhere, History!Vendor), Nowhere,
                               History!About({History!Here}, {}, Nowhere)))
BY DEF History!Row, History!Evidence, History!Vendor, History!About, History!Here, EntryFits, FrozenEntry,
       StocksOf

LEMMA StatusRowFits ==
  EntryFits(History!Row("asset", {[status |-> "x"]}, History!NoEvidence, Nowhere,
                        History!About({History!Here}, {}, Nowhere)))
BY DEF History!Row, History!About, History!Has, EntryFits, AssetEntry

\* A part out of a stock: the usage and its transaction.
LEMMA StockRowsFit ==
  ASSUME NEW c \in Centers, asset' = asset
  PROVE  LET about == History!About({History!Here}, {c}, Nowhere) IN
         /\ EntryFits(History!Row("usage", {[from |-> c]},
                        History!Evidence(Nowhere, [vendor |-> FALSE, center |-> c]), Nowhere, about))
         /\ EntryFits(History!Row("transaction", {[source |-> c, target |-> Nowhere]},
                        History!Evidence(Nowhere, History!Vendor), Nowhere, about))
<1>0. c # Nowhere BY OperationsConstants
<1> USE DEF History!Row, History!Evidence, History!Vendor, History!About, History!Here
<1>1. EntryFits(History!Row("usage", {[from |-> c]},
         History!Evidence(Nowhere, [vendor |-> FALSE, center |-> c]), Nowhere,
         History!About({History!Here}, {c}, Nowhere)))
  BY DEF EntryFits, FrozenEntry, StocksOf
<1> DEFINE move == [source |-> c, target |-> Nowhere]
           e == History!Row("transaction", {move}, History!Evidence(Nowhere, History!Vendor), Nowhere,
                            History!About({History!Here}, {c}, Nowhere))
<1>2. /\ e.type = "transaction" /\ e.snaps = {move} /\ e.evidence.known /\ e.evidence.stock.vendor
      /\ e.about.stock = {c} /\ e.about.pairs = {e.evidence.at}
      /\ e.about.task = Nowhere /\ e.task = Nowhere
  OBVIOUS
<1>3. UNION {{n.source, n.target} \ {Nowhere} : n \in {move}} = {c}
  <2>1. {move.source, move.target} \ {Nowhere} = {c} BY <1>0
  <2>2. {{n.source, n.target} \ {Nowhere} : n \in {move}} = {{move.source, move.target} \ {Nowhere}} OBVIOUS
  <2> QED BY <2>1, <2>2
<1> HIDE DEF e
<1>4. StocksOf(e) = {c} BY <1>2, <1>3 DEF StocksOf
<1>5. EntryFits(e) BY <1>2, <1>4 DEF EntryFits, FrozenEntry
<1> QED BY <1>1, <1>5 DEF e

\* Rows of a stock count.
LEMMA ItemRowFits ==
  ASSUME CountFits, count # Nowhere, NEW snaps, snaps # {}, NEW task \in {Nowhere, count.task}
  PROVE  EntryFits(History!ItemRow(snaps, task))
BY DEF CountFits, History!ItemRow, History!Row, History!Evidence, History!Vendor, History!About, EntryFits,
       FrozenEntry, StocksOf

\* Every operation writes rows that fit.
LEMMA TimelineStepKeepsInv == ASSUME TimelineInv, History!Next PROVE TimelineInv'
<1>1. CountFits /\ \A e \in log : EntryFits(e) BY DEF TimelineInv
<1>2. SUFFICES (\A e \in log' : EntryFits(e)) /\ CountFits' BY DEF TimelineInv
<1>3. count' = count => CountFits' BY <1>1 DEF CountFits
<1>4. CASE History!ChangeAsset
  <2>1. log' = log \cup {History!AssetRow(Nowhere)} /\ UNCHANGED count
    BY <1>4 DEF History!ChangeAsset, History!Write
  <2>2. EntryFits(History!AssetRow(Nowhere)) BY AssetRowFits
  <2> QED BY <1>1, <1>3, <2>1, <2>2
<1>5. CASE History!MoveRack
  <2>1. log' = log \cup {} /\ UNCHANGED count BY <1>5 DEF History!MoveRack
  <2> QED BY <1>1, <1>3, <2>1
<1>6. CASE History!WriteEvent
  <2> PICK type \in {"fault", "repair", "attachment", "repair attachment"} :
        log' = log \cup {History!Row(type, {[text |-> TRUE]}, History!Evidence(Nowhere, History!Vendor), Nowhere,
                                     History!About({History!Here}, {}, Nowhere))}
    BY <1>6 DEF History!WriteEvent, History!Write
  <2>1. UNCHANGED <<asset, count>> BY <1>6 DEF History!WriteEvent
  <2>2. EntryFits(History!Row(type, {[text |-> TRUE]}, History!Evidence(Nowhere, History!Vendor), Nowhere,
                              History!About({History!Here}, {}, Nowhere)))
    BY <2>1, EventRowFits
  <2> QED BY <1>1, <1>3, <2>1, <2>2
<1>7. CASE History!SyncStatus
  BY <1>1, <1>3, <1>7, StatusRowFits DEF History!SyncStatus, History!Write
<1>8. CASE History!UsePart
  <2>1. UNCHANGED <<asset, count>> BY <1>8 DEF History!UsePart
  <2> DEFINE bought == History!Row("usage", {[from |-> Nowhere]}, History!Evidence(Nowhere, History!Vendor),
                                   Nowhere, History!About({History!Here}, {}, Nowhere))
  <2>2. EntryFits(bought) BY <2>1, EventRowFits
  <2>3. CASE log' = log \cup {bought}
    <3> HIDE DEF bought
    <3> QED BY <1>1, <1>3, <2>1, <2>2, <2>3
  <2>4. CASE \E c \in Centers :
               LET about == History!About({History!Here}, {c}, Nowhere) IN
               log' = log \cup
                 {History!Row("usage", {[from |-> c]},
                     History!Evidence(Nowhere, [vendor |-> FALSE, center |-> c]), Nowhere, about),
                  History!Row("transaction", {[source |-> c, target |-> Nowhere]},
                     History!Evidence(Nowhere, History!Vendor), Nowhere, about)}
    BY <1>1, <1>3, <2>1, <2>4, StockRowsFit
  <2> QED BY <1>8, <2>3, <2>4 DEF History!UsePart, History!Write
<1>9. CASE History!StartCount
  <2>1. log' = log \cup {} BY <1>9 DEF History!StartCount
  <2>2. CountFits' BY <1>9 DEF History!StartCount, CountFits
  <2> QED BY <1>1, <2>1, <2>2
<1>10. CASE History!Observe
  <2> DEFINE snaps == {[seen |-> count.seen], [seen |-> count'.seen]}
  <2>1. count # Nowhere /\ log' = log \cup {History!ItemRow(snaps, Nowhere)}
        /\ \E c : count' = [count EXCEPT !.seen = c]
    BY <1>10 DEF History!Observe, History!Write
  <2>2. EntryFits(History!ItemRow(snaps, Nowhere)) BY <1>1, <2>1, ItemRowFits
  <2>3. CountFits' BY <1>1, <2>1 DEF CountFits
  <2> QED BY <1>1, <2>1, <2>2, <2>3
<1>11. CASE History!Resolve
  <2> DEFINE item == History!ItemRow({[seen |-> count.seen]}, count.task)
             moved == History!AssetRow(count.task)
  <2>1. /\ count # Nowhere /\ UNCHANGED count
        /\ log' = log \cup {item} \/ log' = log \cup {item, moved}
    BY <1>11 DEF History!Resolve, History!Write
  <2>2. EntryFits(item) BY <1>1, <2>1, ItemRowFits
  <2>3. EntryFits(moved) BY AssetRowFits
  <2> HIDE DEF item, moved
  <2> QED BY <1>1, <1>3, <2>1, <2>2, <2>3
<1>12. CASE History!DeleteTask
  <2>1. log' = log \cup {} /\ CountFits' BY <1>12 DEF History!DeleteTask, CountFits
  <2> QED BY <1>1, <2>1
<1> QED
  BY <1>4, <1>5, <1>6, <1>7, <1>8, <1>9, <1>10, <1>11, <1>12 DEF History!Next

\* Rows of an older version.
LEMMA TimelineInitInv == ASSUME History!Init PROVE TimelineInv
<1> DEFINE text == History!Row("fault", {[text |-> TRUE]}, History!NoEvidence, Nowhere,
                               History!About({History!Here}, {}, Nowhere))
           snap == [center |-> asset.center, person |-> Nowhere]
           old == History!Row("asset", {snap}, History!NoEvidence, Nowhere,
                    History!About({History!Pair(asset.center, d) : d \in History!Owners}, {}, Nowhere))
<1>1. CountFits /\ log \in {{}, {text}, {old}}
  BY DEF History!Init, CountFits, History!LegacyRows
<1>2. EntryFits(text) BY DEF EntryFits, History!Row, History!NoEvidence
<1>3. EntryFits(old)
  <2>1. /\ old.type = "asset" /\ old.snaps = {snap} /\ old.task = Nowhere /\ old.about.task = Nowhere
        /\ old.about.pairs = {History!Pair(snap.center, d) : d \in History!Owners} /\ old.about.stock = {}
    BY DEF History!Row, History!About
  <2>2. History!Has(snap, "center") /\ ~History!Has(snap, "dept") BY DEF History!Has
  <2> HIDE DEF old, snap
  <2> QED BY <2>1, <2>2 DEF EntryFits, AssetEntry
<1> HIDE DEF text, old
<1> QED BY <1>1, <1>2, <1>3 DEF TimelineInv

-----------------------------------------------------------------------------
(* Timeline: what is shown                                                   *)

LEMMA ShownIfVisible ==
  ASSUME NEW e, EntryFits(e), NEW s
  PROVE  /\ History!Changes(e, s).snaps # {} <=> History!DetailsVisible(e, s)
         /\ \A d \in History!Changes(e, s).persons : History!ContainsDepartment(s, d)
BY DEF EntryFits, History!Changes, History!PersonsShown

\* Whose rules cover all departments and the unowned of a centre sees all of it.
LEMMA FullAccessCovers ==
  ASSUME NEW s, NEW c
  PROVE  ~s.global =>
           (History!FullAccess(s, c) =>
              \A d \in History!Owners : History!ContainsAsset(s, History!Pair(c, d)))
<1> SUFFICES ASSUME ~s.global, History!FullAccess(s, c), NEW d \in History!Owners
             PROVE  \E r \in s.rules : c \in r.centers /\ History!OfRule(r, d)
  BY DEF History!ContainsAsset, History!Pair
<1> PICK r \in s.rules : c \in r.centers /\ r.all BY DEF History!FullAccess
<1> PICK q \in s.rules : c \in q.centers /\ Nowhere \in q.depts BY DEF History!FullAccess
<1> QED BY DEF History!OfRule

LEMMA AssetRowsTell ==
  ASSUME NEW e, EntryFits(e), e.type = "asset", NEW s
  PROVE  /\ History!DetailsVisible(e, s) => s.global \/ History!Covers(s, e.about)
         /\ History!Covers(s, e.about) => History!DetailsVisible(e, s) \/ History!Incomplete(e)
<1>1. e.snaps # {} /\ AssetEntry(e) BY DEF EntryFits
<1>2. History!DetailsVisible(e, s) <=>
        \/ s.global
        \/ /\ \A n \in e.snaps : History!SnapshotVisible(n, s)
           /\ e.task # Nowhere => History!TaskVisible(s, e.task)
  BY <1>1 DEF History!DetailsVisible
<1>3. CASE \A n \in e.snaps : ~History!Has(n, "center") /\ ~History!Has(n, "dept")
  <2>1. \A n \in e.snaps : ~History!SnapshotVisible(n, s) BY <1>3 DEF History!SnapshotVisible
  <2>2. History!Incomplete(e) BY <1>1, <1>3 DEF History!Incomplete
  <2> QED BY <1>1, <1>2, <2>1, <2>2
<1>4. CASE /\ \A n \in e.snaps : History!Has(n, "center") /\ History!Has(n, "dept")
           /\ e.about.pairs = {History!Pair(n.center, n.dept) : n \in e.snaps}
           /\ e.about.stock = {} /\ e.about.task = e.task
  <2>1. \A n \in e.snaps : History!SnapshotVisible(n, s) <=>
                             History!ContainsAsset(s, History!Pair(n.center, n.dept))
    BY <1>4 DEF History!SnapshotVisible
  <2>2. (\A n \in e.snaps : History!SnapshotVisible(n, s)) <=>
          (\A p \in e.about.pairs : History!ContainsAsset(s, p))
    BY <1>4, <2>1
  <2> QED BY <1>2, <1>4, <2>2 DEF History!Covers
<1>5. ASSUME NEW n \in e.snaps,
             e.snaps = {n} /\ History!Has(n, "center") /\ ~History!Has(n, "dept"),
             e.about.pairs = {History!Pair(n.center, d) : d \in History!Owners},
             e.about.stock = {} /\ e.about.task = Nowhere /\ e.task = Nowhere
      PROVE  /\ History!DetailsVisible(e, s) => s.global \/ History!Covers(s, e.about)
             /\ History!Covers(s, e.about) => History!DetailsVisible(e, s) \/ History!Incomplete(e)
  <2>1. History!Incomplete(e) BY <1>5 DEF History!Incomplete
  <2>2. History!SnapshotVisible(n, s) => History!FullAccess(s, n.center)
    BY <1>5 DEF History!SnapshotVisible
  <2>3. ~s.global /\ History!FullAccess(s, n.center) =>
          \A d \in History!Owners : History!ContainsAsset(s, History!Pair(n.center, d))
    BY FullAccessCovers
  <2>4. ~s.global /\ History!FullAccess(s, n.center) => History!Covers(s, e.about)
    BY <1>5, <2>3 DEF History!Covers
  <2> QED BY <1>2, <1>5, <2>1, <2>2, <2>4
<1> QED BY <1>1, <1>3, <1>4, <1>5 DEF AssetEntry

LEMMA FrozenRowsTell ==
  ASSUME NEW e, EntryFits(e), e.type # "asset", NEW s
  PROVE  /\ History!DetailsVisible(e, s) => s.global \/ History!Covers(s, e.about)
         /\ History!Covers(s, e.about) => History!DetailsVisible(e, s) \/ History!Incomplete(e)
<1>1. e.snaps # {} /\ (e.evidence.known => FrozenEntry(e)) BY DEF EntryFits
<1>2. History!DetailsVisible(e, s) <=>
        s.global \/ (History!EvidenceVisible(e, s) /\ (e.task # Nowhere => History!TaskVisible(s, e.task)))
  BY <1>1 DEF History!DetailsVisible
<1>3. CASE ~e.evidence.known
  BY <1>2, <1>3 DEF History!EvidenceVisible, History!Incomplete
<1>4. CASE e.evidence.known /\ e.type = "item"
  <2>1. FrozenEntry(e) /\ e.about.task # Nowhere /\ e.evidence.task = e.about.task
        /\ e.task \in {Nowhere, e.about.task}
        /\ e.about.pairs = {e.evidence.at} \cup ({n.seen : n \in e.snaps} \ {Nowhere})
    BY <1>1, <1>4, OperationsConstants DEF FrozenEntry
  <2>2. e.about.stock = IF e.evidence.stock.vendor THEN {} ELSE {e.evidence.stock.center}
    BY <1>4, <2>1 DEF FrozenEntry, StocksOf
  <2>3. (\A p \in e.about.pairs : History!ContainsAsset(s, p)) <=>
          /\ History!ContainsAsset(s, e.evidence.at)
          /\ \A n \in e.snaps : n.seen = Nowhere \/ History!ContainsAsset(s, n.seen)
    BY <2>1
  <2>4. (\A c \in e.about.stock : History!Contains(s, c)) <=>
          e.evidence.stock.vendor \/ History!Contains(s, e.evidence.stock.center)
    BY <2>2
  <2>5. History!EvidenceVisible(e, s) <=> History!Covers(s, e.about)
    BY <1>4, <2>1, <2>3, <2>4 DEF History!EvidenceVisible, History!PlaceThen, History!Covers
  <2> QED BY <1>2, <2>1, <2>5 DEF History!Covers
<1>5. CASE e.evidence.known /\ e.type # "item"
  <2>1. /\ e.about.pairs = {e.evidence.at} /\ e.about.task = Nowhere /\ e.task = Nowhere
        /\ e.about.stock = StocksOf(e) /\ (e.type = "transaction" => e.evidence.stock.vendor)
    BY <1>1, <1>5 DEF FrozenEntry
  <2>2. (\A c \in e.about.stock : History!Contains(s, c)) <=>
          /\ e.evidence.stock.vendor \/ History!Contains(s, e.evidence.stock.center)
          /\ e.type = "transaction" =>
               \A n \in e.snaps : \A c \in {n.source, n.target} \ {Nowhere} : History!Contains(s, c)
    <3>1. CASE e.type = "transaction"
      <4>1. e.about.stock = UNION {{n.source, n.target} \ {Nowhere} : n \in e.snaps}
        BY <2>1, <3>1 DEF StocksOf
      <4> QED BY <2>1, <3>1, <4>1
    <3>2. CASE e.type # "transaction"
      <4>1. e.about.stock = IF e.evidence.stock.vendor THEN {} ELSE {e.evidence.stock.center}
        BY <2>1, <3>2 DEF StocksOf
      <4> QED BY <3>2, <4>1
    <3> QED BY <3>1, <3>2
  <2>3. History!EvidenceVisible(e, s) <=> History!Covers(s, e.about)
    BY <1>5, <2>1, <2>2 DEF History!EvidenceVisible, History!PlaceThen, History!Covers
  <2> QED BY <1>2, <2>1, <2>3
<1> QED BY <1>3, <1>4, <1>5

-----------------------------------------------------------------------------
(* Timeline: the theorems                                                    *)

\* Every row of the audit log says or has frozen all that it was about.
THEOREM TimelineInvariant == Spec => [](study = "timeline" => TimelineInv)
<1>1. Init => (study = "timeline" => TimelineInv) BY TimelineInitInv DEF Init
<1>2. (study = "timeline" => TimelineInv) /\ [Next]_vars => (study = "timeline" => TimelineInv)'
  <2> SUFFICES ASSUME study = "timeline" => TimelineInv, [Next]_vars, study' = "timeline"
               PROVE  TimelineInv'
    OBVIOUS
  <2>1. CASE TimelineStep BY <2>1, TimelineStepKeepsInv DEF TimelineStep
  <2>2. CASE RepairStep \/ PlanStep \/ DigestStep \/ AlertStep \/ ValueStep
    BY <2>2 DEF RepairStep, PlanStep, DigestStep, AlertStep, ValueStep
  <2>3. CASE UNCHANGED vars BY <2>3 DEF vars, timelineVars, TimelineInv, CountFits
  <2> QED BY <2>1, <2>2, <2>3 DEF Next
<1> QED BY <1>1, <1>2, PTL DEF Spec

\* The details of an event are shown to whoever's scope of today holds all that the
\* event was about when it was written, and to nobody else, wherever the asset, its
\* rack and its count have gone since (timeline_scope.py, details_visible).
THEOREM DetailsAreScoped == Spec => []DetailsFollowTheEvent
<1>1. ASSUME TimelineInv PROVE History!DetailsFollowTheEvent
  <2> SUFFICES ASSUME NEW e \in log, NEW s
               PROVE  LET shown == History!Changes(e, s).snaps # {} IN
                      /\ shown => s.global \/ History!Covers(s, e.about)
                      /\ History!Covers(s, e.about) => shown \/ History!Incomplete(e)
                      /\ \A d \in History!Changes(e, s).persons : History!ContainsDepartment(s, d)
    BY DEF History!DetailsFollowTheEvent
  <2>1. EntryFits(e) BY <1>1 DEF TimelineInv
  <2>2. /\ History!DetailsVisible(e, s) => s.global \/ History!Covers(s, e.about)
        /\ History!Covers(s, e.about) => History!DetailsVisible(e, s) \/ History!Incomplete(e)
    BY <2>1, AssetRowsTell, FrozenRowsTell
  <2> QED BY <2>1, <2>2, ShownIfVisible
<1>2. (study = "timeline" => TimelineInv) => DetailsFollowTheEvent BY <1>1 DEF DetailsFollowTheEvent
<1> QED BY <1>2, TimelineInvariant, PTL

-----------------------------------------------------------------------------
(* The first of a set                                                        *)

\* R is a strict total order of S; what comes before x; the first n of S.
Orders(R, S) ==
    /\ \A x \in S : <<x, x>> \notin R
    /\ \A x, y \in S : x # y => <<x, y>> \in R \/ <<y, x>> \in R
    /\ \A x, y, z \in S : <<x, y>> \in R /\ <<y, z>> \in R => <<x, z>> \in R
Ahead(R, S, x) == {y \in S : <<y, x>> \in R}
First(R, S, n) == {x \in S : Cardinality(Ahead(R, S, x)) < n}
Merged(R, parts, n) == UNION {First(R, part, n) : part \in parts}
Least(m, n) == IF m <= n THEN m ELSE n

\* The elements of a finite set that is ordered have different ranks in it, from 0 on.
LEMMA Ranks ==
  ASSUME NEW S, IsFiniteSet(S), NEW R, Orders(R, S)
  PROVE  /\ Cardinality(S) \in Nat
         /\ \A x \in S : Cardinality(Ahead(R, S, x)) \in 0 .. Cardinality(S) - 1
         /\ \A x, y \in S : <<x, y>> \in R => Cardinality(Ahead(R, S, x)) < Cardinality(Ahead(R, S, y))
<1>1. Cardinality(S) \in Nat BY FS_CardinalityType
<1>2. ASSUME NEW x \in S PROVE IsFiniteSet(Ahead(R, S, x)) /\ Cardinality(Ahead(R, S, x)) \in Nat
  <2>1. Ahead(R, S, x) \in SUBSET S BY DEF Ahead
  <2> QED BY <2>1, FS_Subset, FS_CardinalityType
<1>3. ASSUME NEW x \in S PROVE Cardinality(Ahead(R, S, x)) <= Cardinality(S) - 1
  <2>1. IsFiniteSet(S \ {x}) /\ Cardinality(S \ {x}) = Cardinality(S) - 1 BY FS_RemoveElement
  <2>2. Ahead(R, S, x) \in SUBSET (S \ {x}) BY DEF Ahead, Orders
  <2> QED BY <2>1, <2>2, FS_Subset
<1>4. ASSUME NEW x \in S, NEW y \in S, <<x, y>> \in R
      PROVE  Cardinality(Ahead(R, S, x)) < Cardinality(Ahead(R, S, y))
  <2>1. Ahead(R, S, x) \in SUBSET Ahead(R, S, y) BY <1>4 DEF Ahead, Orders
  <2>2. x \in Ahead(R, S, y) /\ x \notin Ahead(R, S, x) BY <1>4 DEF Ahead, Orders
  <2>3. /\ Cardinality(Ahead(R, S, x)) <= Cardinality(Ahead(R, S, y))
        /\ Cardinality(Ahead(R, S, y)) # Cardinality(Ahead(R, S, x))
    BY <1>2, <2>1, <2>2, FS_Subset
  <2> QED BY <1>2, <2>3
<1> QED BY <1>1, <1>2, <1>3, <1>4

\* The first n of a set are n of them, or all, and come before all others.
LEMMA FirstAre ==
  ASSUME NEW S, IsFiniteSet(S), NEW R, Orders(R, S), NEW n \in Nat
  PROVE  /\ First(R, S, n) \subseteq S
         /\ Cardinality(First(R, S, n)) = Least(n, Cardinality(S))
         /\ \A x \in First(R, S, n), y \in S \ First(R, S, n) : <<x, y>> \in R
<1> DEFINE card == Cardinality(S)
           m == Least(n, card)
           some == First(R, S, n)
           f == [x \in S |-> Cardinality(Ahead(R, S, x))]
<1>1. /\ card \in Nat /\ m \in Nat /\ m <= card /\ m <= n /\ m \in {n, card}
      /\ some \in SUBSET S
  BY Ranks DEF Least, First
<1>2. f \in Injection(S, 0 .. card - 1)
  <2>1. \A x \in S : f[x] \in 0 .. card - 1 BY Ranks
  <2>2. \A x, y \in S : f[x] = f[y] => x = y
    <3> SUFFICES ASSUME NEW x \in S, NEW y \in S, f[x] = f[y], x # y PROVE FALSE
      OBVIOUS
    <3>1. f[x] < f[y] \/ f[y] < f[x] BY Ranks DEF Orders
    <3>2. f[x] \in Int /\ f[y] \in Int BY <2>1
    <3> QED BY <3>1, <3>2
  <2> QED BY <2>1, <2>2, Fun_IsInj
<1>3. f \in Surjection(S, 0 .. card - 1)
  <2>1. \A c \in Nat : IsFiniteSet(0 .. c - 1) /\ Cardinality(0 .. c - 1) = c BY FS_Interval
  <2>2. IsFiniteSet(0 .. card - 1) /\ Cardinality(0 .. card - 1) = card BY <1>1, <2>1
  <2> HIDE DEF f
  <2> QED BY <1>2, <2>2, FS_Injection
<1>4. \A i \in 0 .. card - 1 : \E x \in S : f[x] = i
  <2> DEFINE T == 0 .. card - 1
  <2>1. f \in Surjection(S, T) BY <1>3
  <2> HIDE DEF f, T
  <2>2. \A i \in T : \E x \in S : f[x] = i BY <2>1, Fun_SurjectionProperties
  <2> QED BY <2>2 DEF T
<1>5. some = {x \in S : f[x] < m}
  <2>1. ASSUME NEW x \in S PROVE f[x] < n <=> f[x] < m
    <3>1. f[x] \in 0 .. card - 1 BY Ranks
    <3> QED BY <1>1, <3>1
  <2> QED BY <2>1 DEF First
<1>6. Cardinality(some) = m
  <2> DEFINE g == [x \in some |-> f[x]]
  <2>1. g \in [some -> 0 .. m - 1]
    <3> SUFFICES ASSUME NEW x \in some PROVE f[x] \in 0 .. m - 1 OBVIOUS
    <3>1. f[x] \in 0 .. card - 1 /\ f[x] < m BY <1>5, Ranks
    <3> QED BY <1>1, <3>1
  <2>2. \A x, y \in some : g[x] = g[y] => x = y BY <1>1, <1>2, Fun_InjectionProperties
  <2>3. \A i \in 0 .. m - 1 : \E x \in some : g[x] = i
    <3> SUFFICES ASSUME NEW i \in 0 .. m - 1 PROVE \E x \in some : g[x] = i OBVIOUS
    <3>1. i \in 0 .. card - 1 /\ i < m BY <1>1
    <3>2. PICK x \in S : f[x] = i BY <1>4, <3>1
    <3> QED BY <1>5, <3>1, <3>2
  <2>4. g \in Bijection(some, 0 .. m - 1) BY <2>1, <2>2, <2>3, Fun_IsBij
  <2>5. IsFiniteSet(some) BY <1>1, FS_Subset
  <2>6. Cardinality(0 .. m - 1) = m BY <1>1, FS_Interval
  <2>7. ExistsBijection(some, 0 .. m - 1) BY <2>4 DEF ExistsBijection
  <2> QED BY <2>5, <2>6, <2>7, FS_Bijection
<1>7. ASSUME NEW x \in some, NEW y \in S \ some PROVE <<x, y>> \in R
  <2>1. f[x] \in Int /\ f[y] \in Int /\ f[x] < m /\ ~(f[y] < m) BY <1>1, <1>5, Ranks
  <2>2. x \in S /\ x # y BY <1>1
  <2>3. <<y, x>> \in R => f[y] < f[x] BY <2>2, Ranks
  <2> QED BY <1>1, <2>1, <2>2, <2>3 DEF Orders
<1> QED BY <1>1, <1>6, <1>7

\* A set that comes in parts: B orders each part, R the whole, and W is what the two
\* orders have in common.
InParts(parts, R, B, W) ==
    /\ IsFiniteSet(UNION parts) /\ Orders(R, UNION parts) /\ \A part \in parts : Orders(B, part)
    /\ \A x, y \in UNION parts : <<x, y>> \in R => <<x, y>> \in W
    /\ \A part \in parts : \A x, y \in part : <<x, y>> \in B => <<x, y>> \in W
    /\ \A x, y, z \in UNION parts : <<x, y>> \in W /\ <<y, z>> \in W => <<x, z>> \in W

\* The first n of such a set are among the first n of its parts: cut first by the order
\* that each part has for itself, then by that of the whole.
LEMMA FirstOfParts ==
  ASSUME NEW parts, NEW R, NEW B, NEW W, InParts(parts, R, B, W), NEW n \in Nat
  PROVE  /\ First(R, Merged(B, parts, n), n) \subseteq UNION parts
         /\ Cardinality(First(R, Merged(B, parts, n), n)) = Least(n, Cardinality(UNION parts))
         /\ \A x \in First(R, Merged(B, parts, n), n), y \in (UNION parts) \ First(R, Merged(B, parts, n), n) :
              <<x, y>> \in W
<1> DEFINE all == UNION parts
<1> DEFINE merged == Merged(B, parts, n)
           shown == First(R, merged, n)
<1> USE DEF Merged, InParts
<1>1. merged \in SUBSET all BY DEF First
<1>2. /\ IsFiniteSet(merged) /\ Cardinality(merged) \in Nat /\ Cardinality(all) \in Nat
      /\ Cardinality(merged) <= Cardinality(all)
  BY <1>1, FS_Subset, FS_CardinalityType
<1>3. Orders(R, merged) BY <1>1 DEF Orders
<1>4. /\ shown \in SUBSET merged
      /\ Cardinality(shown) = Least(n, Cardinality(merged))
      /\ \A x \in shown, y \in merged \ shown : <<x, y>> \in R
  BY <1>2, <1>3, FirstAre
<1>5. ASSUME NEW part \in parts
      PROVE  /\ IsFiniteSet(part) /\ First(B, part, n) \in SUBSET part /\ First(B, part, n) \in SUBSET merged
             /\ Cardinality(First(B, part, n)) = Least(n, Cardinality(part))
             /\ \A x \in First(B, part, n), y \in part \ First(B, part, n) : <<x, y>> \in B
  <2>1. part \in SUBSET all OBVIOUS
  <2>2. IsFiniteSet(part) BY <2>1, FS_Subset
  <2> QED BY <2>2, FirstAre
\* A part that is cut fills the limit by itself.
<1>6. ASSUME NEW part \in parts, First(B, part, n) # part
      PROVE  Cardinality(First(B, part, n)) = n
  <2>1. Cardinality(First(B, part, n)) # Cardinality(part) BY <1>5, <1>6, FS_Subset
  <2> QED BY <1>5, <2>1 DEF Least
<1>7. Cardinality(shown) = Least(n, Cardinality(all))
  <2>1. CASE \A part \in parts : First(B, part, n) = part
    <3>1. merged = all BY <2>1
    <3> QED BY <1>4, <3>1
  <2>2. CASE \E part \in parts : First(B, part, n) # part
    <3>1. PICK part \in parts : First(B, part, n) # part BY <2>2
    <3>2. n <= Cardinality(merged)
      <4>1. Cardinality(First(B, part, n)) = n BY <1>6, <3>1
      <4> QED BY <1>2, <1>5, <4>1, FS_Subset
    <3> QED BY <1>2, <1>4, <3>2 DEF Least
  <2> QED BY <2>1, <2>2
<1>8. ASSUME NEW x \in shown, NEW y \in all \ shown PROVE <<x, y>> \in W
  <2>1. x \in all BY <1>1, <1>4
  <2>2. CASE y \in merged BY <1>4, <2>1, <2>2
  <2>3. CASE y \notin merged
    <3>1. PICK part \in parts : y \in part OBVIOUS
    <3>2. y \in part \ First(B, part, n) BY <1>5, <2>3, <3>1
    <3>3. \A z \in First(B, part, n) : <<z, y>> \in B /\ z \in part BY <1>5, <3>2
    <3>4. CASE x \in First(B, part, n) BY <3>1, <3>3, <3>4
    <3>5. CASE x \notin First(B, part, n)
      <4>1. Cardinality(First(B, part, n)) = n BY <1>6, <3>1, <3>2
      <4>2. x \in merged /\ Cardinality(Ahead(R, merged, x)) < n BY <1>4 DEF First
      <4>3. PICK z \in First(B, part, n) : z \notin Ahead(R, merged, x)
        <5>1. SUFFICES ASSUME First(B, part, n) \in SUBSET Ahead(R, merged, x) PROVE FALSE
          OBVIOUS
        <5>2. Ahead(R, merged, x) \in SUBSET merged BY DEF Ahead
        <5>3. IsFiniteSet(Ahead(R, merged, x)) /\ Cardinality(Ahead(R, merged, x)) \in Nat
          BY <1>2, <5>2, FS_Subset, FS_CardinalityType
        <5>4. n <= Cardinality(Ahead(R, merged, x)) BY <4>1, <5>1, <5>3, FS_Subset
        <5> QED BY <4>2, <5>3, <5>4
      <4>4. z \in merged /\ z # x BY <1>5, <3>1, <3>5, <4>3
      <4>5. <<x, z>> \in R BY <1>3, <4>2, <4>3, <4>4 DEF Orders, Ahead
      <4>6. z \in all /\ <<x, z>> \in W /\ <<z, y>> \in W BY <1>1, <2>1, <3>1, <3>3, <4>4, <4>5
      <4> QED BY <2>1, <4>6
    <3> QED BY <3>4, <3>5
  <2> QED BY <2>2, <2>3
<1> QED BY <1>1, <1>4, <1>7, <1>8

-----------------------------------------------------------------------------
(* Alerts                                                                    *)

AlertInv ==
    /\ today \in Nat
    /\ row \in [Slots -> [over : BOOLEAN, date : (0 .. MaxDay) \cup {NoDate}]]
    /\ policy \in [on : SUBSET Reminders!AlertKinds, days : [{"maintenance", "license"} -> Nat]]

\* The alerts of each query.
Tables(a) ==
    {Reminders!MaintenanceAlerts(a), Reminders!OverLimit(a), Reminders!LicenseAlerts(a),
     Reminders!FaultAlerts(a), Reminders!InventoryAlerts(a), Reminders!SpareAlerts(a)}

\* The alerts of one query are of different rows of one kind, and the sooner is as urgent.
IsTable(alerts, kind) ==
    /\ \A x \in alerts : x.slot \in Slots /\ x.slot.kind = kind /\ x.level \in {0, 1} /\ x.key \in Int
    /\ \A x, y \in alerts : x.slot = y.slot => x = y
    /\ \A x, y \in alerts : x.key <= y.key => x.level <= y.level

\* The fields of an alert.
LEMMA AlertFields ==
  ASSUME NEW s, NEW state, NEW level, NEW key
  PROVE  /\ Reminders!Alert(s, state, level, key).slot = s
         /\ Reminders!Alert(s, state, level, key).level = level
         /\ Reminders!Alert(s, state, level, key).key = key
         /\ Reminders!Alert(s, state, level, key).state = state
BY DEF Reminders!Alert

\* A row that has a date has a day; what is due by it is critical once it is past.
LEMMA DueFields ==
  ASSUME AlertInv, NEW s \in Slots, row[s].date # NoDate
  PROVE  /\ row[s].date \in Nat /\ today \in Nat
         /\ Reminders!Due(s).slot = s /\ Reminders!Due(s).key = row[s].date
         /\ Reminders!Due(s).level = IF row[s].date < today THEN 0 ELSE 1
<1>1. row[s].date \in Nat /\ today \in Nat BY OperationsConstants DEF AlertInv, Reminders!AlertConstants
<1> QED BY <1>1, AlertFields DEF Reminders!Due

LEMMA AlertTables ==
  ASSUME AlertInv, NEW a
  PROVE  /\ IsTable(Reminders!MaintenanceAlerts(a), "maintenance")
         /\ IsTable(Reminders!OverLimit(a), "license")
         /\ IsTable(Reminders!LicenseAlerts(a), "license")
         /\ IsTable(Reminders!FaultAlerts(a), "fault")
         /\ IsTable(Reminders!InventoryAlerts(a), "inventory")
         /\ IsTable(Reminders!SpareAlerts(a), "spare")
         /\ \A x \in Reminders!OverLimit(a) : x.key = -1
         /\ \A x \in Reminders!LicenseAlerts(a) : x.key \in Nat
<1>1. \A kind, s : s \in Reminders!Of(kind) <=> s \in Slots /\ s.kind = kind BY DEF Reminders!Of
<1>2. \A n : \A s \in Slots : Reminders!Near(s, n) => row[s].date # NoDate BY DEF Reminders!Near
<1>3. ASSUME NEW kind, NEW some, \A s \in some : s \in Slots /\ s.kind = kind /\ row[s].date # NoDate
      PROVE  IsTable({Reminders!Due(s) : s \in some}, kind) /\ \A x \in {Reminders!Due(s) : s \in some} : x.key \in Nat
  <2>1. \A s \in some : /\ row[s].date \in Nat /\ today \in Nat
                        /\ Reminders!Due(s).slot = s /\ Reminders!Due(s).key = row[s].date
                        /\ Reminders!Due(s).level = IF row[s].date < today THEN 0 ELSE 1
    BY <1>3, DueFields
  <2> QED BY <1>3, <2>1 DEF IsTable
<1>4. \A kind : IsTable({}, kind) BY DEF IsTable
<1>5. IsTable(Reminders!MaintenanceAlerts(a), "maintenance")
  BY <1>1, <1>2, <1>3, <1>4 DEF Reminders!MaintenanceAlerts
<1>6. IsTable(Reminders!LicenseAlerts(a), "license") /\ \A x \in Reminders!LicenseAlerts(a) : x.key \in Nat
  <2> DEFINE some == {s \in Reminders!Of("license") :
                        Reminders!Sees(a, s) /\ Reminders!Near(s, policy.days.license)}
  <2>1. \A s \in some : s \in Slots /\ s.kind = "license" /\ row[s].date # NoDate BY <1>1, <1>2
  <2>2. Reminders!LicenseAlerts(a) \in {{}, {Reminders!Due(s) : s \in some}} BY DEF Reminders!LicenseAlerts
  <2> HIDE DEF some
  <2> QED BY <1>3, <1>4, <2>1, <2>2
<1>7. IsTable(Reminders!OverLimit(a), "license") /\ \A x \in Reminders!OverLimit(a) : x.key = -1
  <2>1. \A s : /\ Reminders!Alert(s, "over_limit", 0, -1).slot = s
               /\ Reminders!Alert(s, "over_limit", 0, -1).level = 0
               /\ Reminders!Alert(s, "over_limit", 0, -1).key = -1
    BY AlertFields
  <2> QED BY <1>1, <2>1 DEF Reminders!OverLimit, IsTable
<1>8. \A s \in Slots : row[s].date # NoDate => row[s].date \in Int BY DueFields
<1>9. IsTable(Reminders!FaultAlerts(a), "fault")
  <2>1. \A s \in Slots : /\ Reminders!Alert(s, "open", 0, row[s].date).slot = s
                         /\ Reminders!Alert(s, "open", 0, row[s].date).level = 0
                         /\ Reminders!Alert(s, "open", 0, row[s].date).key = row[s].date
    BY AlertFields
  <2> QED BY <1>1, <1>4, <1>8, <2>1 DEF Reminders!FaultAlerts, IsTable
<1>10. IsTable(Reminders!InventoryAlerts(a), "inventory")
  <2>1. \A s \in Slots : /\ Reminders!Alert(s, "overdue", 0, row[s].date).slot = s
                         /\ Reminders!Alert(s, "overdue", 0, row[s].date).level = 0
                         /\ Reminders!Alert(s, "overdue", 0, row[s].date).key = row[s].date
    BY AlertFields
  <2> QED BY <1>1, <1>4, <1>8, <2>1 DEF Reminders!InventoryAlerts, IsTable
<1>11. IsTable(Reminders!SpareAlerts(a), "spare")
  <2>1. \A s \in Slots : s.name \in Int BY OperationsConstants DEF Reminders!AlertConstants
  <2>2. \A s : /\ Reminders!Alert(s, "below_safety_stock", 1, s.name).slot = s
               /\ Reminders!Alert(s, "below_safety_stock", 1, s.name).level = 1
               /\ Reminders!Alert(s, "below_safety_stock", 1, s.name).key = s.name
    BY AlertFields
  <2> QED BY <1>1, <1>4, <2>1, <2>2 DEF Reminders!SpareAlerts, IsTable
<1> QED BY <1>5, <1>6, <1>7, <1>9, <1>10, <1>11

\* Queries of alerts, as sets that are ordered by pairs.
Pairs(all) == {p \in all \X all : Reminders!Before(p[1], p[2])}
Sorted(all) == {p \in all \X all : Reminders!SortsBefore(p[1], p[2])}
NotLater(all) ==
    {p \in all \X all : p[1].level < p[2].level \/ (p[1].level = p[2].level /\ p[1].key <= p[2].key)}

LEMMA SameCardinality == ASSUME NEW S PROVE Reminders!Cardinality(S) = Cardinality(S)
BY DEF Reminders!Cardinality, Cardinality

LEMMA LeastIsMin ==
  ASSUME NEW m \in Nat, NEW n \in Nat
  PROVE  Reminders!Min({m, n}) = Least(m, n)
BY DEF Reminders!Min, Least

\* A table is ordered by its query, and in this order the sooner is as urgent.
LEMMA TableOrder ==
  ASSUME NEW alerts, NEW kind, IsTable(alerts, kind), NEW all, alerts \subseteq all
  PROVE  /\ Orders(Pairs(all), alerts)
         /\ \A x, y \in alerts : <<x, y>> \in Pairs(all) => <<x, y>> \in NotLater(all)
         /\ Reminders!Query(alerts) = First(Pairs(all), alerts, Limit)
<1>1. \A x, y \in alerts : /\ <<x, y>> \in Pairs(all) <=> Reminders!Before(x, y)
                           /\ <<x, y>> \in NotLater(all) <=>
                                x.level < y.level \/ (x.level = y.level /\ x.key <= y.key)
  BY DEF Pairs, NotLater
<1>2. \A x, y \in alerts : x # y => x.slot.name \in Nat /\ y.slot.name \in Nat /\ x.slot.name # y.slot.name
  BY OperationsConstants DEF IsTable, Reminders!AlertConstants
<1>3. \A x \in alerts : x.slot.name \in Nat /\ x.key \in Int
  BY OperationsConstants DEF IsTable, Reminders!AlertConstants
<1>4. Orders(Pairs(all), alerts)
  <2>1. \A x \in alerts : <<x, x>> \notin Pairs(all) BY <1>1, <1>3 DEF Reminders!Before
  <2>2. \A x, y \in alerts : x # y => <<x, y>> \in Pairs(all) \/ <<y, x>> \in Pairs(all)
    BY <1>1, <1>2, <1>3 DEF Reminders!Before
  <2>3. \A x, y, z \in alerts : <<x, y>> \in Pairs(all) /\ <<y, z>> \in Pairs(all) => <<x, z>> \in Pairs(all)
    BY <1>1, <1>3 DEF Reminders!Before
  <2> QED BY <2>1, <2>2, <2>3 DEF Orders
<1>5. ASSUME NEW x \in alerts, NEW y \in alerts, Reminders!Before(x, y)
      PROVE  x.level < y.level \/ (x.level = y.level /\ x.key <= y.key)
  <2>1. x.key <= y.key BY <1>3, <1>5 DEF Reminders!Before
  <2> QED BY <2>1 DEF IsTable
<1>6. \A x \in alerts : {y \in alerts : Reminders!Before(y, x)} = Ahead(Pairs(all), alerts, x)
  BY <1>1 DEF Ahead
<1>7. Reminders!Query(alerts) = First(Pairs(all), alerts, Limit)
  BY <1>6, SameCardinality DEF Reminders!Query, First
<1> QED BY <1>1, <1>4, <1>5, <1>7

\* Two alerts of one row, with the same key, are one: a license that is over its limit
\* has a key that is no date.
LEMMA AlertsDiffer ==
  ASSUME AlertInv, NEW a, NEW x \in Reminders!AllDue(a), NEW y \in Reminders!AllDue(a),
         x.slot = y.slot, x.key = y.key
  PROVE  x = y
<1> USE AlertTables DEF Reminders!AllDue, IsTable
<1>1. CASE x.slot.kind = "maintenance" BY <1>1
<1>2. CASE x.slot.kind = "license" BY <1>2
<1>3. CASE x.slot.kind = "fault" BY <1>3
<1>4. CASE x.slot.kind = "inventory" BY <1>4
<1>5. CASE x.slot.kind = "spare" BY <1>5
<1> QED BY <1>1, <1>2, <1>3, <1>4, <1>5

\* All that is due is ordered by urgency.
LEMMA AlertOrder ==
  ASSUME AlertInv, NEW a, NEW all, all = Reminders!AllDue(a)
  PROVE  /\ Orders(Sorted(all), all)
         /\ \A x, y \in all : <<x, y>> \in Sorted(all) => <<x, y>> \in NotLater(all)
         /\ \A x, y, z \in all : <<x, y>> \in NotLater(all) /\ <<y, z>> \in NotLater(all) => <<x, z>> \in NotLater(all)
<1>1. \A x, y \in all : /\ <<x, y>> \in Sorted(all) <=> Reminders!SortsBefore(x, y)
                        /\ <<x, y>> \in NotLater(all) <=>
                             x.level < y.level \/ (x.level = y.level /\ x.key <= y.key)
  BY DEF Sorted, NotLater
<1>2. \A x \in all : x.slot \in Slots /\ x.level \in {0, 1} /\ x.key \in Int
  BY AlertTables DEF Reminders!AllDue, IsTable
<1>3. /\ \A x \in all : x.slot.rank \in Nat
      /\ \A x, y \in all : x.slot # y.slot => x.slot.rank # y.slot.rank
  BY <1>2, OperationsConstants DEF Reminders!AlertConstants
<1>4. \A x, y \in all : x # y => x.slot # y.slot \/ x.key # y.key BY AlertsDiffer
<1> USE DEF Reminders!SortsBefore
<1>5. \A x \in all : <<x, x>> \notin Sorted(all) BY <1>1, <1>2, <1>3
<1>6. \A x, y \in all : x # y => <<x, y>> \in Sorted(all) \/ <<y, x>> \in Sorted(all)
  BY <1>1, <1>2, <1>3, <1>4
<1>7. \A x, y, z \in all : <<x, y>> \in Sorted(all) /\ <<y, z>> \in Sorted(all) => <<x, z>> \in Sorted(all)
  BY <1>1, <1>2, <1>3
<1>8. \A x, y, z \in all : <<x, y>> \in NotLater(all) /\ <<y, z>> \in NotLater(all) => <<x, z>> \in NotLater(all)
  BY <1>1, <1>2
<1> QED BY <1>1, <1>2, <1>5, <1>6, <1>7, <1>8 DEF Orders

\* A table has one alert of a row at most, so that it can be counted by its rows.
LEMMA TableSize ==
  ASSUME NEW alerts, NEW kind, IsTable(alerts, kind), NEW some, IsFiniteSet(some),
         \A x \in alerts : x.slot \in some, \A s \in some : \E x \in alerts : x.slot = s
  PROVE  IsFiniteSet(alerts) /\ Cardinality(alerts) = Cardinality(some)
<1> DEFINE f == [x \in alerts |-> x.slot]
<1>1. f \in [alerts -> some] OBVIOUS
<1>2. \A x, y \in alerts : f[x] = f[y] => x = y BY DEF IsTable
<1>3. \A s \in some : \E x \in alerts : f[x] = s OBVIOUS
<1>4. f \in Bijection(alerts, some) BY <1>1, <1>2, <1>3, Fun_IsBij
<1>5. f \in Injection(alerts, some) BY <1>1, <1>2, Fun_IsInj
<1>6. ExistsBijection(alerts, some) BY <1>4 DEF ExistsBijection
<1> HIDE DEF f
<1>7. IsFiniteSet(alerts) BY <1>5, FS_Injection
<1> QED BY <1>6, <1>7, FS_Bijection

\* A table is finite, for there are so many rows.
LEMMA TableFinite ==
  ASSUME NEW alerts, NEW kind, IsTable(alerts, kind)
  PROVE  IsFiniteSet(alerts)
<1> DEFINE some == {s \in Slots : \E x \in alerts : x.slot = s}
<1>1. some \in SUBSET Slots OBVIOUS
<1>0. IsFiniteSet(Slots)
  BY OperationsConstants DEF Reminders!AlertConstants, Reminders!IsFiniteSet, IsFiniteSet
<1>2. IsFiniteSet(some) BY <1>0, <1>1, FS_Subset
<1>3. /\ \A x \in alerts : x.slot \in some
      /\ \A s \in some : \E x \in alerts : x.slot = s
  BY DEF IsTable
<1> HIDE DEF some
<1> QED BY <1>2, <1>3, TableSize

LEMMA AllIsTables ==
  ASSUME NEW a
  PROVE  Reminders!AllDue(a) = UNION Tables(a)
BY DEF Reminders!AllDue, Tables

LEMMA AllIsFinite ==
  ASSUME AlertInv, NEW a
  PROVE  IsFiniteSet(Reminders!AllDue(a)) /\ Cardinality(Reminders!AllDue(a)) \in Nat
<1>1. /\ IsFiniteSet(Reminders!MaintenanceAlerts(a)) /\ IsFiniteSet(Reminders!OverLimit(a))
      /\ IsFiniteSet(Reminders!LicenseAlerts(a)) /\ IsFiniteSet(Reminders!FaultAlerts(a))
      /\ IsFiniteSet(Reminders!InventoryAlerts(a)) /\ IsFiniteSet(Reminders!SpareAlerts(a))
  BY AlertTables, TableFinite
<1>2. IsFiniteSet(Reminders!AllDue(a)) BY <1>1, FS_Union DEF Reminders!AllDue
<1> QED BY <1>2, FS_CardinalityType

\* What is shown is the first of the first of the tables.
LEMMA ShownIsFirst ==
  ASSUME AlertInv, NEW a, NEW all, all = Reminders!AllDue(a),
         NEW merged, merged = Merged(Pairs(all), Tables(a), Limit)
  PROVE  Reminders!Shown(a) = First(Sorted(all), merged, Limit)
<1>1. \A part \in Tables(a) : /\ part \subseteq all
                              /\ Reminders!Query(part) = First(Pairs(all), part, Limit)
  <2>1. \A part \in Tables(a) : part \subseteq all BY DEF Reminders!AllDue, Tables
  <2>2. \A part \in Tables(a) : \E kind : IsTable(part, kind) BY AlertTables DEF Tables
  <2> QED BY <2>1, <2>2, TableOrder
<1>2. merged = UNION {Reminders!Query(part) : part \in Tables(a)} BY <1>1 DEF Merged
<1>3. merged = Reminders!Query(Reminders!MaintenanceAlerts(a)) \cup Reminders!Query(Reminders!OverLimit(a))
               \cup Reminders!Query(Reminders!LicenseAlerts(a)) \cup Reminders!Query(Reminders!FaultAlerts(a))
               \cup Reminders!Query(Reminders!InventoryAlerts(a)) \cup Reminders!Query(Reminders!SpareAlerts(a))
  BY <1>2 DEF Tables
<1>4. merged \in SUBSET all BY <1>1 DEF First, Merged
<1>5. \A x, y \in merged : <<y, x>> \in Sorted(all) <=> Reminders!SortsBefore(y, x) BY <1>4 DEF Sorted
<1>6. \A x \in merged : {y \in merged : Reminders!SortsBefore(y, x)} = Ahead(Sorted(all), merged, x)
  BY <1>5 DEF Ahead
<1>7. Reminders!Shown(a) =
        {x \in merged : Reminders!Cardinality({y \in merged : Reminders!SortsBefore(y, x)}) < Limit}
  BY <1>3 DEF Reminders!Shown
<1> QED BY <1>6, <1>7, SameCardinality DEF First

\* What is shown is due, as much as the limit allows, and nothing more urgent is left out.
LEMMA ShownAreFirst ==
  ASSUME AlertInv, NEW a, NEW all, all = Reminders!AllDue(a), NEW shown, shown = Reminders!Shown(a)
  PROVE  /\ shown \subseteq all /\ Cardinality(shown) = Least(Limit, Cardinality(all))
         /\ \A x \in shown, y \in all \ shown : <<x, y>> \in NotLater(all)
<1> DEFINE merged == Merged(Pairs(all), Tables(a), Limit)
<1>1. all = UNION Tables(a) /\ IsFiniteSet(all) BY AllIsTables, AllIsFinite
<1>2. Limit \in Nat BY OperationsConstants DEF Reminders!AlertConstants
<1>3. \A part \in Tables(a) : \E kind : IsTable(part, kind) BY AlertTables DEF Tables
<1>4. \A part \in Tables(a) :
        /\ Orders(Pairs(all), part)
        /\ \A x, y \in part : <<x, y>> \in Pairs(all) => <<x, y>> \in NotLater(all)
  BY <1>1, <1>3, TableOrder
<1>5. shown = First(Sorted(all), merged, Limit) BY ShownIsFirst
<1>6. /\ Orders(Sorted(all), all)
      /\ \A x, y \in all : <<x, y>> \in Sorted(all) => <<x, y>> \in NotLater(all)
      /\ \A x, y, z \in all : <<x, y>> \in NotLater(all) /\ <<y, z>> \in NotLater(all) => <<x, z>> \in NotLater(all)
  BY AlertOrder
<1> HIDE DEF merged
<1>7. InParts(Tables(a), Sorted(all), Pairs(all), NotLater(all)) BY <1>1, <1>4, <1>6 DEF InParts
<1>8. shown = First(Sorted(all), Merged(Pairs(all), Tables(a), Limit), Limit) BY <1>5 DEF merged
<1> DEFINE first == First(Sorted(all), Merged(Pairs(all), Tables(a), Limit), Limit)
<1>9. first \subseteq UNION Tables(a) /\ Cardinality(first) = Least(Limit, Cardinality(UNION Tables(a)))
  BY ONLY <1>2, <1>7, FirstOfParts
<1>10. \A x \in first, y \in (UNION Tables(a)) \ first : <<x, y>> \in NotLater(all)
  BY ONLY <1>2, <1>7, FirstOfParts
<1> QED BY <1>1, <1>8, <1>9, <1>10

-----------------------------------------------------------------------------
(* The summary                                                               *)

AtLevel(alerts, level) == {x \in alerts : x.level = level}

LEMMA DisjointSum ==
  ASSUME NEW S, IsFiniteSet(S), NEW T, IsFiniteSet(T), \A x \in S : x \notin T
  PROVE  /\ IsFiniteSet(S \cup T) /\ Cardinality(S) \in Nat /\ Cardinality(T) \in Nat
         /\ Cardinality(S \cup T) = Cardinality(S) + Cardinality(T)
<1>1. S \cap T = {} OBVIOUS
<1>2. Cardinality(S \cap T) = 0 BY <1>1, FS_EmptySet
<1> QED BY <1>2, FS_Union, FS_CardinalityType

\* A count of rows is the number of alerts that are made of them.
LEMMA CountIs ==
  ASSUME NEW a, NEW kind, NEW some, NEW alerts, NEW level, IsTable(alerts, kind),
         \A x \in AtLevel(alerts, level) : x.slot \in some /\ Reminders!Sees(a, x.slot),
         \A s \in Slots : s.kind = kind /\ s \in some /\ Reminders!Sees(a, s)
                             => \E x \in AtLevel(alerts, level) : x.slot = s
  PROVE  Reminders!Count(a, kind, some) = Cardinality(AtLevel(alerts, level))
<1> DEFINE listed == {s \in Reminders!Of(kind) \cap some : Reminders!Sees(a, s)}
           part == AtLevel(alerts, level)
<1>0. IsFiniteSet(Slots)
  BY OperationsConstants DEF Reminders!AlertConstants, Reminders!IsFiniteSet, IsFiniteSet
<1>1. listed \in SUBSET Slots BY DEF Reminders!Of
<1>2. IsFiniteSet(listed) BY <1>0, <1>1, FS_Subset
<1>3. part \subseteq alerts BY DEF AtLevel
<1>4. IsTable(part, kind) BY <1>3 DEF IsTable
<1>5. \A x \in part : x.slot \in listed BY <1>3 DEF IsTable, Reminders!Of
<1>6. \A s \in listed : \E x \in part : x.slot = s BY DEF Reminders!Of
<1>7. Reminders!Count(a, kind, some) = Cardinality(listed) BY SameCardinality DEF Reminders!Count
<1> HIDE DEF listed, part
<1>8. Cardinality(part) = Cardinality(listed) BY <1>2, <1>4, <1>5, <1>6, TableSize
<1> QED BY <1>7, <1>8 DEF part

\* No row makes two critical alerts, or two warnings, of one query; nor do two queries
\* give the same alert.
LEMMA LevelSum ==
  ASSUME AlertInv, NEW a, NEW level
  PROVE  /\ Cardinality(AtLevel(Reminders!MaintenanceAlerts(a), level)) \in Nat
         /\ Cardinality(AtLevel(Reminders!OverLimit(a), level)) \in Nat
         /\ Cardinality(AtLevel(Reminders!LicenseAlerts(a), level)) \in Nat
         /\ Cardinality(AtLevel(Reminders!FaultAlerts(a), level)) \in Nat
         /\ Cardinality(AtLevel(Reminders!InventoryAlerts(a), level)) \in Nat
         /\ Cardinality(AtLevel(Reminders!SpareAlerts(a), level)) \in Nat
         /\ Cardinality(AtLevel(Reminders!AllDue(a), level)) =
              Cardinality(AtLevel(Reminders!MaintenanceAlerts(a), level))
              + Cardinality(AtLevel(Reminders!OverLimit(a), level))
              + Cardinality(AtLevel(Reminders!LicenseAlerts(a), level))
              + Cardinality(AtLevel(Reminders!FaultAlerts(a), level))
              + Cardinality(AtLevel(Reminders!InventoryAlerts(a), level))
              + Cardinality(AtLevel(Reminders!SpareAlerts(a), level))
<1> DEFINE M == AtLevel(Reminders!MaintenanceAlerts(a), level)
           O == AtLevel(Reminders!OverLimit(a), level)
           L == AtLevel(Reminders!LicenseAlerts(a), level)
           F == AtLevel(Reminders!FaultAlerts(a), level)
           I == AtLevel(Reminders!InventoryAlerts(a), level)
           P == AtLevel(Reminders!SpareAlerts(a), level)
<1>1. \A alerts, kind : IsTable(alerts, kind) => IsTable(AtLevel(alerts, level), kind)
  BY DEF IsTable, AtLevel
<1>2. /\ IsTable(M, "maintenance") /\ IsTable(O, "license") /\ IsTable(L, "license")
      /\ IsTable(F, "fault") /\ IsTable(I, "inventory") /\ IsTable(P, "spare")
  BY <1>1, AlertTables
<1>3. /\ IsFiniteSet(M) /\ IsFiniteSet(O) /\ IsFiniteSet(L) /\ IsFiniteSet(F) /\ IsFiniteSet(I) /\ IsFiniteSet(P)
  BY <1>2, TableFinite
<1>4. \A x \in O : x \notin L BY AlertTables DEF AtLevel
<1>5. AtLevel(Reminders!AllDue(a), level) = ((((M \cup O) \cup L) \cup F) \cup I) \cup P
  BY DEF Reminders!AllDue, AtLevel
<1>6. /\ \A x \in M : x.slot.kind = "maintenance"
      /\ \A x \in O : x.slot.kind = "license"
      /\ \A x \in L : x.slot.kind = "license"
      /\ \A x \in F : x.slot.kind = "fault"
      /\ \A x \in I : x.slot.kind = "inventory"
      /\ \A x \in P : x.slot.kind = "spare"
  BY <1>2 DEF IsTable
<1> HIDE DEF M, O, L, F, I, P
<1>7. /\ IsFiniteSet(M \cup O) /\ Cardinality(M) \in Nat /\ Cardinality(O) \in Nat
      /\ Cardinality(M \cup O) = Cardinality(M) + Cardinality(O)
  <2>1. \A x \in M : x \notin O BY <1>6
  <2> QED BY <1>3, <2>1, DisjointSum
<1>8. /\ IsFiniteSet((M \cup O) \cup L) /\ Cardinality(L) \in Nat
      /\ Cardinality((M \cup O) \cup L) = Cardinality(M) + Cardinality(O) + Cardinality(L)
  <2>1. \A x \in M \cup O : x \notin L BY <1>4, <1>6
  <2> QED BY <1>3, <1>7, <2>1, DisjointSum
<1>9. /\ IsFiniteSet(((M \cup O) \cup L) \cup F) /\ Cardinality(F) \in Nat
      /\ Cardinality(((M \cup O) \cup L) \cup F) =
           Cardinality(M) + Cardinality(O) + Cardinality(L) + Cardinality(F)
  <2>1. \A x \in (M \cup O) \cup L : x \notin F BY <1>6
  <2> QED BY <1>3, <1>8, <2>1, DisjointSum
<1>10. /\ IsFiniteSet((((M \cup O) \cup L) \cup F) \cup I) /\ Cardinality(I) \in Nat
       /\ Cardinality((((M \cup O) \cup L) \cup F) \cup I) =
            Cardinality(M) + Cardinality(O) + Cardinality(L) + Cardinality(F) + Cardinality(I)
  <2>1. \A x \in ((M \cup O) \cup L) \cup F : x \notin I BY <1>6
  <2> QED BY <1>3, <1>9, <2>1, DisjointSum
<1>11. /\ Cardinality(P) \in Nat
       /\ Cardinality(((((M \cup O) \cup L) \cup F) \cup I) \cup P) =
            Cardinality(M) + Cardinality(O) + Cardinality(L) + Cardinality(F) + Cardinality(I) + Cardinality(P)
  <2>1. \A x \in (((M \cup O) \cup L) \cup F) \cup I : x \notin P BY <1>6
  <2> QED BY <1>3, <1>10, <2>1, DisjointSum
<1> QED BY <1>5, <1>7, <1>8, <1>9, <1>10, <1>11 DEF M, O, L, F, I, P

\* What the rows of each table add to the summary.
LEMMA DueCounts ==
  ASSUME AlertInv, NEW a, NEW kind, NEW days \in Nat, NEW alerts,
         IsTable(alerts, kind),
         alerts = {Reminders!Due(s) : s \in {s \in Reminders!Of(kind) : Reminders!Sees(a, s) /\ Reminders!Near(s, days)}}
  PROVE  /\ Reminders!Count(a, kind, Reminders!Past) = Cardinality(AtLevel(alerts, 0))
         /\ Reminders!Count(a, kind, Reminders!Ahead(days)) = Cardinality(AtLevel(alerts, 1))
<1> DEFINE listed == {s \in Slots : s.kind = kind /\ Reminders!Sees(a, s) /\ Reminders!Near(s, days)}
<1>1. alerts = {Reminders!Due(s) : s \in listed} BY DEF Reminders!Of
<1>2. \A s \in listed : /\ s \in Slots /\ s.kind = kind /\ Reminders!Sees(a, s)
                      /\ row[s].date # NoDate /\ row[s].date <= today + days
  BY DEF Reminders!Near
<1>3. \A s \in Slots : s.kind = kind /\ Reminders!Sees(a, s) /\ row[s].date # NoDate /\ row[s].date <= today + days
                          => s \in listed
  BY DEF Reminders!Near
<1> HIDE DEF listed
<1>4. \A s \in Slots : row[s].date # NoDate =>
        /\ row[s].date \in Nat /\ today \in Nat
        /\ Reminders!Due(s).slot = s
        /\ Reminders!Due(s).level = IF row[s].date < today THEN 0 ELSE 1
  BY DueFields
<1>5. /\ \A s : s \in Reminders!Past <=> s \in Slots /\ row[s].date # NoDate /\ row[s].date < today
      /\ \A s : s \in Reminders!Ahead(days) <=>
                  s \in Slots /\ row[s].date # NoDate /\ row[s].date >= today /\ row[s].date <= today + days
  BY DEF Reminders!Past, Reminders!Ahead, Reminders!Dated
<1>6. \A x \in alerts : \E s \in listed : x = Reminders!Due(s) BY <1>1
<1>7. Reminders!Count(a, kind, Reminders!Past) = Cardinality(AtLevel(alerts, 0))
  <2>1. \A x \in AtLevel(alerts, 0) : x.slot \in Reminders!Past /\ Reminders!Sees(a, x.slot)
    BY <1>2, <1>4, <1>5, <1>6 DEF AtLevel
  <2>2. ASSUME NEW s \in Slots, s.kind = kind, s \in Reminders!Past, Reminders!Sees(a, s)
        PROVE  \E x \in AtLevel(alerts, 0) : x.slot = s
    <3>1. row[s].date # NoDate /\ row[s].date < today /\ row[s].date <= today + days
      BY <1>4, <1>5, <2>2
    <3>2. Reminders!Due(s) \in AtLevel(alerts, 0) BY <1>1, <1>3, <1>4, <2>2, <3>1 DEF AtLevel
    <3> QED BY <1>4, <3>1, <3>2
  <2> QED BY <2>1, <2>2, CountIs
<1>8. Reminders!Count(a, kind, Reminders!Ahead(days)) = Cardinality(AtLevel(alerts, 1))
  <2>1. \A x \in AtLevel(alerts, 1) : x.slot \in Reminders!Ahead(days) /\ Reminders!Sees(a, x.slot)
    BY <1>2, <1>4, <1>5, <1>6 DEF AtLevel
  <2>2. ASSUME NEW s \in Slots, s.kind = kind, s \in Reminders!Ahead(days), Reminders!Sees(a, s)
        PROVE  \E x \in AtLevel(alerts, 1) : x.slot = s
    <3>1. row[s].date # NoDate /\ ~(row[s].date < today) /\ row[s].date <= today + days
      BY <1>4, <1>5, <2>2
    <3>2. Reminders!Due(s) \in AtLevel(alerts, 1) BY <1>1, <1>3, <1>4, <2>2, <3>1 DEF AtLevel
    <3> QED BY <1>4, <3>1, <3>2
  <2> QED BY <2>1, <2>2, CountIs
<1> QED BY <1>7, <1>8

\* Alerts that are all of one level.
LEMMA OneLevel ==
  ASSUME NEW alerts, NEW level, \A x \in alerts : x.level = level
  PROVE  /\ AtLevel(alerts, level) = alerts
         /\ \A other : other # level => Cardinality(AtLevel(alerts, other)) = 0
<1>1. AtLevel(alerts, level) = alerts BY DEF AtLevel
<1>2. \A other : other # level => AtLevel(alerts, other) = {} BY DEF AtLevel
<1> QED BY <1>1, <1>2, FS_EmptySet

\* A count of rows is the number of alerts of one level that are made of them.
LEMMA PlainCount ==
  ASSUME NEW a, NEW kind, NEW some, NEW level, NEW alerts, IsTable(alerts, kind),
         \A x \in alerts : /\ x.level = level /\ x.slot \in some /\ Reminders!Sees(a, x.slot),
         \A s \in Slots : s.kind = kind /\ s \in some /\ Reminders!Sees(a, s) => \E x \in alerts : x.slot = s
  PROVE  /\ Reminders!Count(a, kind, some) = Cardinality(AtLevel(alerts, level))
         /\ \A other : other # level => Cardinality(AtLevel(alerts, other)) = 0
<1>1. AtLevel(alerts, level) = alerts /\ \A other : other # level => Cardinality(AtLevel(alerts, other)) = 0
  BY OneLevel
<1>2. \A x \in AtLevel(alerts, level) : x.slot \in some /\ Reminders!Sees(a, x.slot) BY <1>1
<1>3. \A s \in Slots : s.kind = kind /\ s \in some /\ Reminders!Sees(a, s)
                         => \E x \in AtLevel(alerts, level) : x.slot = s
  BY <1>1
<1>4. Reminders!Count(a, kind, some) = Cardinality(AtLevel(alerts, level)) BY <1>2, <1>3, CountIs
<1> QED BY <1>1, <1>4

\* No alerts, no count.
LEMMA NothingDue ==
  ASSUME NEW alerts, \A x : x \notin alerts
  PROVE  Cardinality(AtLevel(alerts, 0)) = 0 /\ Cardinality(AtLevel(alerts, 1)) = 0
<1>1. AtLevel(alerts, 0) = {} BY DEF AtLevel
<1>2. AtLevel(alerts, 1) = {} BY DEF AtLevel
<1> QED BY <1>1, <1>2, FS_EmptySet

\* What each query adds to the summary.
LEMMA Counts ==
  ASSUME AlertInv, NEW a
  PROVE  /\ Reminders!Switched("maintenance", Reminders!Count(a, "maintenance", Reminders!Past))
              = Cardinality(AtLevel(Reminders!MaintenanceAlerts(a), 0))
         /\ Reminders!Switched("maintenance", Reminders!Count(a, "maintenance", Reminders!Ahead(policy.days.maintenance)))
              = Cardinality(AtLevel(Reminders!MaintenanceAlerts(a), 1))
         /\ Reminders!Count(a, "license", Reminders!Flagged) = Cardinality(AtLevel(Reminders!OverLimit(a), 0))
         /\ Cardinality(AtLevel(Reminders!OverLimit(a), 1)) = 0
         /\ Reminders!Switched("license", Reminders!Count(a, "license", Reminders!Past))
              = Cardinality(AtLevel(Reminders!LicenseAlerts(a), 0))
         /\ Reminders!Switched("license", Reminders!Count(a, "license", Reminders!Ahead(policy.days.license)))
              = Cardinality(AtLevel(Reminders!LicenseAlerts(a), 1))
         /\ Reminders!Switched("fault", Reminders!Count(a, "fault", Reminders!Dated))
              = Cardinality(AtLevel(Reminders!FaultAlerts(a), 0))
         /\ Cardinality(AtLevel(Reminders!FaultAlerts(a), 1)) = 0
         /\ Reminders!Switched("inventory", Reminders!Count(a, "inventory", Reminders!Past))
              = Cardinality(AtLevel(Reminders!InventoryAlerts(a), 0))
         /\ Cardinality(AtLevel(Reminders!InventoryAlerts(a), 1)) = 0
         /\ Reminders!Switched("spare", Reminders!Count(a, "spare", Reminders!Flagged))
              = Cardinality(AtLevel(Reminders!SpareAlerts(a), 1))
         /\ Cardinality(AtLevel(Reminders!SpareAlerts(a), 0)) = 0
<1>1. \A kind, n : /\ Reminders!On(kind) => Reminders!Switched(kind, n) = n
                   /\ ~Reminders!On(kind) => Reminders!Switched(kind, n) = 0
  BY DEF Reminders!Switched
<1>2. policy.days.maintenance \in Nat /\ policy.days.license \in Nat BY DEF AlertInv
<1>3. \A kind, s : s \in Reminders!Of(kind) <=> s \in Slots /\ s.kind = kind BY DEF Reminders!Of
<1>4. /\ Reminders!Switched("maintenance", Reminders!Count(a, "maintenance", Reminders!Past))
           = Cardinality(AtLevel(Reminders!MaintenanceAlerts(a), 0))
      /\ Reminders!Switched("maintenance", Reminders!Count(a, "maintenance", Reminders!Ahead(policy.days.maintenance)))
           = Cardinality(AtLevel(Reminders!MaintenanceAlerts(a), 1))
  <2>1. CASE Reminders!On("maintenance")
    <3> DEFINE alerts == Reminders!MaintenanceAlerts(a)
    <3>1. alerts = {Reminders!Due(s) : s \in {s \in Reminders!Of("maintenance") :
                      Reminders!Sees(a, s) /\ Reminders!Near(s, policy.days.maintenance)}}
      BY <2>1 DEF Reminders!MaintenanceAlerts
    <3>2. IsTable(alerts, "maintenance") BY AlertTables
    <3> HIDE DEF alerts
    <3>3. ASSUME NEW days \in Nat, days = policy.days.maintenance
          PROVE  /\ Reminders!Count(a, "maintenance", Reminders!Past) = Cardinality(AtLevel(alerts, 0))
                 /\ Reminders!Count(a, "maintenance", Reminders!Ahead(days)) = Cardinality(AtLevel(alerts, 1))
      <4>1. alerts = {Reminders!Due(s) : s \in {s \in Reminders!Of("maintenance") :
                        Reminders!Sees(a, s) /\ Reminders!Near(s, days)}}
        BY <3>1, <3>3
      <4> QED BY ONLY AlertInv, <3>2, <4>1, days \in Nat, DueCounts
    <3> QED BY <1>1, <1>2, <2>1, <3>3 DEF alerts
  <2>2. CASE ~Reminders!On("maintenance")
    <3>1. Reminders!MaintenanceAlerts(a) = {} BY <2>2 DEF Reminders!MaintenanceAlerts
    <3>2. Cardinality(AtLevel(Reminders!MaintenanceAlerts(a), 0)) = 0 /\ Cardinality(AtLevel(Reminders!MaintenanceAlerts(a), 1)) = 0
      BY <3>1, NothingDue
    <3> QED BY <1>1, <2>2, <3>2
  <2> QED BY <2>1, <2>2
<1>5. /\ Reminders!Switched("license", Reminders!Count(a, "license", Reminders!Past))
           = Cardinality(AtLevel(Reminders!LicenseAlerts(a), 0))
      /\ Reminders!Switched("license", Reminders!Count(a, "license", Reminders!Ahead(policy.days.license)))
           = Cardinality(AtLevel(Reminders!LicenseAlerts(a), 1))
  <2>1. CASE Reminders!On("license")
    <3> DEFINE alerts == Reminders!LicenseAlerts(a)
    <3>1. alerts = {Reminders!Due(s) : s \in {s \in Reminders!Of("license") :
                      Reminders!Sees(a, s) /\ Reminders!Near(s, policy.days.license)}}
      BY <2>1 DEF Reminders!LicenseAlerts
    <3>2. IsTable(alerts, "license") BY AlertTables
    <3> HIDE DEF alerts
    <3>3. ASSUME NEW days \in Nat, days = policy.days.license
          PROVE  /\ Reminders!Count(a, "license", Reminders!Past) = Cardinality(AtLevel(alerts, 0))
                 /\ Reminders!Count(a, "license", Reminders!Ahead(days)) = Cardinality(AtLevel(alerts, 1))
      <4>1. alerts = {Reminders!Due(s) : s \in {s \in Reminders!Of("license") :
                        Reminders!Sees(a, s) /\ Reminders!Near(s, days)}}
        BY <3>1, <3>3
      <4> QED BY ONLY AlertInv, <3>2, <4>1, days \in Nat, DueCounts
    <3> QED BY <1>1, <1>2, <2>1, <3>3 DEF alerts
  <2>2. CASE ~Reminders!On("license")
    <3>1. Reminders!LicenseAlerts(a) = {} BY <2>2 DEF Reminders!LicenseAlerts
    <3>2. Cardinality(AtLevel(Reminders!LicenseAlerts(a), 0)) = 0 /\ Cardinality(AtLevel(Reminders!LicenseAlerts(a), 1)) = 0
      BY <3>1, NothingDue
    <3> QED BY <1>1, <2>2, <3>2
  <2> QED BY <2>1, <2>2
<1>6. /\ Reminders!Count(a, "license", Reminders!Flagged) = Cardinality(AtLevel(Reminders!OverLimit(a), 0))
      /\ Cardinality(AtLevel(Reminders!OverLimit(a), 1)) = 0
  <2> DEFINE alerts == Reminders!OverLimit(a)
  <2>1. \A s : /\ Reminders!Alert(s, "over_limit", 0, -1).slot = s
               /\ Reminders!Alert(s, "over_limit", 0, -1).level = 0
    BY AlertFields
  <2>2. \A x \in alerts : x.level = 0 /\ x.slot \in Reminders!Flagged /\ Reminders!Sees(a, x.slot)
    BY <1>3, <2>1 DEF Reminders!OverLimit, Reminders!Flagged
  <2>3. \A s \in Slots : s.kind = "license" /\ s \in Reminders!Flagged /\ Reminders!Sees(a, s)
                           => \E x \in alerts : x.slot = s
    BY <1>3, <2>1 DEF Reminders!OverLimit, Reminders!Flagged
  <2> QED BY <2>2, <2>3, PlainCount, AlertTables
<1>7. /\ Reminders!Switched("fault", Reminders!Count(a, "fault", Reminders!Dated))
           = Cardinality(AtLevel(Reminders!FaultAlerts(a), 0))
      /\ Cardinality(AtLevel(Reminders!FaultAlerts(a), 1)) = 0
  <2> DEFINE alerts == Reminders!FaultAlerts(a)
  <2>1. CASE Reminders!On("fault")
    <3>1. \A s : /\ Reminders!Alert(s, "open", 0, row[s].date).slot = s
                 /\ Reminders!Alert(s, "open", 0, row[s].date).level = 0
      BY AlertFields
    <3>2. \A x \in alerts : x.level = 0 /\ x.slot \in Reminders!Dated /\ Reminders!Sees(a, x.slot)
      BY <1>3, <2>1, <3>1 DEF Reminders!FaultAlerts, Reminders!Dated
    <3>3. \A s \in Slots : s.kind = "fault" /\ s \in Reminders!Dated /\ Reminders!Sees(a, s)
                             => \E x \in alerts : x.slot = s
      BY <1>3, <2>1, <3>1 DEF Reminders!FaultAlerts, Reminders!Dated
    <3> QED BY <1>1, <2>1, <3>2, <3>3, PlainCount, AlertTables
  <2>2. CASE ~Reminders!On("fault")
    <3>1. Reminders!FaultAlerts(a) = {} BY <2>2 DEF Reminders!FaultAlerts
    <3>2. Cardinality(AtLevel(Reminders!FaultAlerts(a), 0)) = 0 /\ Cardinality(AtLevel(Reminders!FaultAlerts(a), 1)) = 0
      BY <3>1, NothingDue
    <3> QED BY <1>1, <2>2, <3>2
  <2> QED BY <2>1, <2>2
<1>8. /\ Reminders!Switched("inventory", Reminders!Count(a, "inventory", Reminders!Past))
           = Cardinality(AtLevel(Reminders!InventoryAlerts(a), 0))
      /\ Cardinality(AtLevel(Reminders!InventoryAlerts(a), 1)) = 0
  <2> DEFINE alerts == Reminders!InventoryAlerts(a)
  <2>1. CASE Reminders!On("inventory")
    <3>1. \A s : /\ Reminders!Alert(s, "overdue", 0, row[s].date).slot = s
                 /\ Reminders!Alert(s, "overdue", 0, row[s].date).level = 0
      BY AlertFields
    <3>2. \A x \in alerts : x.level = 0 /\ x.slot \in Reminders!Past /\ Reminders!Sees(a, x.slot)
      BY <1>3, <2>1, <3>1 DEF Reminders!InventoryAlerts, Reminders!Past, Reminders!Dated
    <3>3. \A s \in Slots : s.kind = "inventory" /\ s \in Reminders!Past /\ Reminders!Sees(a, s)
                             => \E x \in alerts : x.slot = s
      BY <1>3, <2>1, <3>1 DEF Reminders!InventoryAlerts, Reminders!Past, Reminders!Dated
    <3> QED BY <1>1, <2>1, <3>2, <3>3, PlainCount, AlertTables
  <2>2. CASE ~Reminders!On("inventory")
    <3>1. Reminders!InventoryAlerts(a) = {} BY <2>2 DEF Reminders!InventoryAlerts
    <3>2. Cardinality(AtLevel(Reminders!InventoryAlerts(a), 0)) = 0 /\ Cardinality(AtLevel(Reminders!InventoryAlerts(a), 1)) = 0
      BY <3>1, NothingDue
    <3> QED BY <1>1, <2>2, <3>2
  <2> QED BY <2>1, <2>2
<1>9. /\ Reminders!Switched("spare", Reminders!Count(a, "spare", Reminders!Flagged))
           = Cardinality(AtLevel(Reminders!SpareAlerts(a), 1))
      /\ Cardinality(AtLevel(Reminders!SpareAlerts(a), 0)) = 0
  <2> DEFINE alerts == Reminders!SpareAlerts(a)
  <2>1. CASE Reminders!On("spare")
    <3>1. \A s : /\ Reminders!Alert(s, "below_safety_stock", 1, s.name).slot = s
                 /\ Reminders!Alert(s, "below_safety_stock", 1, s.name).level = 1
      BY AlertFields
    <3>2. \A x \in alerts : x.level = 1 /\ x.slot \in Reminders!Flagged /\ Reminders!Sees(a, x.slot)
      BY <1>3, <2>1, <3>1 DEF Reminders!SpareAlerts, Reminders!Flagged
    <3>3. \A s \in Slots : s.kind = "spare" /\ s \in Reminders!Flagged /\ Reminders!Sees(a, s)
                             => \E x \in alerts : x.slot = s
      BY <1>3, <2>1, <3>1 DEF Reminders!SpareAlerts, Reminders!Flagged
    <3> QED BY <1>1, <2>1, <3>2, <3>3, PlainCount, AlertTables
  <2>2. CASE ~Reminders!On("spare")
    <3>1. Reminders!SpareAlerts(a) = {} BY <2>2 DEF Reminders!SpareAlerts
    <3>2. Cardinality(AtLevel(Reminders!SpareAlerts(a), 0)) = 0 /\ Cardinality(AtLevel(Reminders!SpareAlerts(a), 1)) = 0
      BY <3>1, NothingDue
    <3> QED BY <1>1, <2>2, <3>2
  <2> QED BY <2>1, <2>2
<1> QED BY <1>4, <1>5, <1>6, <1>7, <1>8, <1>9

\* The summary counts what is due.
LEMMA SummaryIsTrue ==
  ASSUME AlertInv, NEW a
  PROVE  /\ Reminders!Critical(a) = Cardinality(AtLevel(Reminders!AllDue(a), 0))
         /\ Reminders!Warning(a) = Cardinality(AtLevel(Reminders!AllDue(a), 1))
         /\ Reminders!Total(a) = Cardinality(Reminders!AllDue(a))
<1>1. Reminders!Critical(a) = Cardinality(AtLevel(Reminders!AllDue(a), 0))
  <2>1. Cardinality(AtLevel(Reminders!AllDue(a), 0)) =
          Cardinality(AtLevel(Reminders!MaintenanceAlerts(a), 0))
          + Cardinality(AtLevel(Reminders!OverLimit(a), 0))
          + Cardinality(AtLevel(Reminders!LicenseAlerts(a), 0))
          + Cardinality(AtLevel(Reminders!FaultAlerts(a), 0))
          + Cardinality(AtLevel(Reminders!InventoryAlerts(a), 0))
    BY LevelSum, Counts
  <2> QED BY <2>1, Counts DEF Reminders!Critical
<1>2. Reminders!Warning(a) = Cardinality(AtLevel(Reminders!AllDue(a), 1))
  <2>1. Cardinality(AtLevel(Reminders!AllDue(a), 1)) =
          Cardinality(AtLevel(Reminders!MaintenanceAlerts(a), 1))
          + Cardinality(AtLevel(Reminders!LicenseAlerts(a), 1))
          + Cardinality(AtLevel(Reminders!SpareAlerts(a), 1))
    BY LevelSum, Counts
  <2> QED BY <2>1, Counts DEF Reminders!Warning
<1>3. Cardinality(AtLevel(Reminders!AllDue(a), 0)) + Cardinality(AtLevel(Reminders!AllDue(a), 1))
        = Cardinality(Reminders!AllDue(a))
  <2> DEFINE all == Reminders!AllDue(a)
             red == AtLevel(all, 0)
             yellow == AtLevel(all, 1)
  <2>1. \A x \in all : x.level \in {0, 1} BY AlertTables DEF Reminders!AllDue, IsTable
  <2>2. all = red \cup yellow /\ \A x \in red : x \notin yellow BY <2>1 DEF AtLevel
  <2>3. red \in SUBSET all /\ yellow \in SUBSET all BY DEF AtLevel
  <2>4. IsFiniteSet(red) /\ IsFiniteSet(yellow) BY <2>3, AllIsFinite, FS_Subset
  <2> HIDE DEF all, red, yellow
  <2>5. Cardinality(all) = Cardinality(red) + Cardinality(yellow) BY <2>2, <2>4, DisjointSum
  <2> QED BY <2>5 DEF all, red, yellow
<1> QED BY <1>1, <1>2, <1>3 DEF Reminders!Total

-----------------------------------------------------------------------------
(* Alerts: the theorems                                                      *)

\* What is edited is an alert's row or the settings; days go by.
LEMMA AlertStepKeepsInv == ASSUME AlertInv, Reminders!Next PROVE AlertInv'
<1> DEFINE Rows == [over : BOOLEAN, date : (0 .. MaxDay) \cup {NoDate}]
<1>1. CASE Reminders!EditRow
  <2>1. \A s \in Slots : Reminders!Contents(s.kind) \subseteq Rows
    <3> SUFFICES ASSUME NEW s \in Slots, NEW c \in Reminders!Contents(s.kind) PROVE c \in Rows OBVIOUS
    <3>1. CASE s.kind = "license" BY <3>1 DEF Reminders!Contents, Reminders!Days
    <3>2. CASE s.kind = "spare" BY <3>2 DEF Reminders!Contents, Reminders!Days
    <3>3. CASE s.kind # "license" /\ s.kind # "spare" BY <3>3 DEF Reminders!Contents, Reminders!Days
    <3> QED BY <3>1, <3>2, <3>3
  <2>2. PICK s \in Slots : \E c \in Reminders!Contents(s.kind) : row' = [row EXCEPT ![s] = c]
    BY <1>1 DEF Reminders!EditRow
  <2>3. row' \in [Slots -> Rows]
    <3> HIDE DEF Rows
    <3>1. row \in [Slots -> Rows] BY DEF AlertInv, Rows
    <3> QED BY <2>1, <2>2, <3>1
  <2> QED BY <1>1, <2>3 DEF AlertInv, Reminders!EditRow
<1>2. CASE Reminders!EditPolicy
  <2>1. policy' \in [on : SUBSET Reminders!AlertKinds, days : [{"maintenance", "license"} -> Nat]]
    <3>1. CASE \E k \in Reminders!AlertKinds : policy' = [policy EXCEPT !.on = (@ \ {k}) \cup ({k} \ @)]
      BY <3>1 DEF AlertInv
    <3>2. CASE \E k \in {"maintenance", "license"}, n \in Windows : policy' = [policy EXCEPT !.days[k] = n]
      BY <3>2, OperationsConstants DEF AlertInv, Reminders!AlertConstants
    <3> QED BY <1>2, <3>1, <3>2 DEF Reminders!EditPolicy
  <2> QED BY <1>2, <2>1 DEF AlertInv, Reminders!EditPolicy
<1>3. CASE Reminders!NextDay BY <1>3 DEF AlertInv, Reminders!NextDay
<1> QED BY <1>1, <1>2, <1>3 DEF Reminders!Next

LEMMA AlertInitInv == ASSUME Reminders!Init PROVE AlertInv
<1>1. policy \in [on : SUBSET Reminders!AlertKinds, days : [{"maintenance", "license"} -> Nat]]
  BY DEF Reminders!Init
<1>2. row \in [Slots -> [over : BOOLEAN, date : (0 .. MaxDay) \cup {NoDate}]] BY DEF Reminders!Init
<1> QED BY <1>1, <1>2 DEF Reminders!Init, AlertInv

\* The rows, the settings and the day that the reminders are read from have their types.
THEOREM AlertsInvariant == Spec => [](study = "alerts" => AlertInv)
<1>1. Init => (study = "alerts" => AlertInv) BY AlertInitInv DEF Init
<1>2. (study = "alerts" => AlertInv) /\ [Next]_vars => (study = "alerts" => AlertInv)'
  <2> SUFFICES ASSUME study = "alerts" => AlertInv, [Next]_vars, study' = "alerts"
               PROVE  AlertInv'
    OBVIOUS
  <2>1. CASE AlertStep BY <2>1, AlertStepKeepsInv DEF AlertStep
  <2>2. CASE RepairStep \/ PlanStep \/ DigestStep \/ TimelineStep \/ ValueStep
    BY <2>2 DEF RepairStep, PlanStep, DigestStep, TimelineStep, ValueStep
  <2>3. CASE UNCHANGED vars BY <2>3 DEF vars, alertVars, AlertInv
  <2> QED BY <2>1, <2>2, <2>3 DEF Next
<1> QED BY <1>1, <1>2, PTL DEF Spec

\* However the queries of the reminders are cut, what is shown is due and comes first by
\* urgency, there is as much of it as the limit allows, and the summary counts all that is
\* due to the audience, whatever is shown of it (reporting/alerts.py, build_alerts_payload
\* and _alert_counts).
THEOREM AlertsHold == Spec => []AlertsAreTrue
<1>1. ASSUME AlertInv PROVE Reminders!AlertsAreTrue
  <2> SUFFICES ASSUME NEW a \in Audiences, NEW shown, shown = Reminders!Shown(a),
                      NEW all, all = Reminders!AllDue(a)
               PROVE  /\ shown \subseteq all
                      /\ Reminders!Cardinality(shown) = Reminders!Min({Limit, Reminders!Cardinality(all)})
                      /\ \A x \in shown, y \in all \ shown :
                          \/ x.level < y.level
                          \/ x.level = y.level /\ (x.key <= y.key \/ "spare" \in {x.slot.kind, y.slot.kind})
                      /\ Reminders!Critical(a) = Reminders!Cardinality({x \in all : x.level = 0})
                      /\ Reminders!Warning(a) = Reminders!Cardinality({x \in all : x.level = 1})
                      /\ Reminders!Truncated(a) <=> all \ shown # {}
    BY DEF Reminders!AlertsAreTrue
  <2>1. /\ shown \subseteq all /\ Cardinality(shown) = Least(Limit, Cardinality(all))
        /\ \A x \in shown, y \in all \ shown : <<x, y>> \in NotLater(all)
    BY <1>1, ShownAreFirst
  <2>2. /\ IsFiniteSet(all) /\ Cardinality(all) \in Nat /\ Limit \in Nat
        /\ IsFiniteSet(shown) /\ Cardinality(shown) \in Nat
    <3>1. IsFiniteSet(all) /\ Cardinality(all) \in Nat BY <1>1, AllIsFinite
    <3>2. IsFiniteSet(shown) BY <2>1, <3>1, FS_Subset
    <3> QED BY <3>1, <3>2, FS_CardinalityType, OperationsConstants DEF Reminders!AlertConstants
  <2>3. Reminders!Cardinality(shown) = Reminders!Min({Limit, Reminders!Cardinality(all)})
    BY <2>1, <2>2, SameCardinality, LeastIsMin
  <2>4. \A x \in shown, y \in all \ shown :
          x.level < y.level \/ (x.level = y.level /\ x.key <= y.key)
    <3> SUFFICES ASSUME NEW x \in shown, NEW y \in all \ shown
                 PROVE  x.level < y.level \/ (x.level = y.level /\ x.key <= y.key)
      OBVIOUS
    <3>1. <<x, y>> \in NotLater(all) BY <2>1
    <3> QED BY <3>1 DEF NotLater
  <2>5. /\ Reminders!Critical(a) = Cardinality({x \in all : x.level = 0})
        /\ Reminders!Warning(a) = Cardinality({x \in all : x.level = 1})
        /\ Reminders!Total(a) = Cardinality(all)
    BY <1>1, SummaryIsTrue DEF AtLevel
  <2>6. Reminders!Truncated(a) <=> all \ shown # {}
    <3>1. Reminders!Truncated(a) <=> Cardinality(all) > Cardinality(shown)
      BY <2>5, SameCardinality DEF Reminders!Truncated
    <3>2. Cardinality(shown) <= Cardinality(all) /\ (Cardinality(shown) = Cardinality(all) => shown = all)
      BY <2>1, <2>2, FS_Subset
    <3>3. all \ shown # {} <=> shown # all BY <2>1
    <3> QED BY <2>2, <3>1, <3>2, <3>3
  <2> QED BY <2>1, <2>3, <2>4, <2>5, <2>6, SameCardinality
<1>2. (study = "alerts" => AlertInv) => AlertsAreTrue BY <1>1 DEF AlertsAreTrue
<1> QED BY <1>2, AlertsInvariant, PTL

-----------------------------------------------------------------------------
(* Valuation: the calendar                                                   *)

\* Every number is reached from 0.
LEMMA NumbersAreReached ==
  ASSUME NEW S \in SUBSET Nat, 0 \in S, \A n \in S : n + 1 \in S
  PROVE  S = Nat
<1> SUFFICES ASSUME Nat \ S # {} PROVE FALSE
  OBVIOUS
<1>1. PICK n \in Nat \ S : \A k \in Nat \ S : <<k, n>> \notin OpToRel(<, Nat)
  BY WFMin, NatLessThanWellFounded
<1>2. n - 1 \in Nat /\ n - 1 < n /\ n = (n - 1) + 1
  <2>1. n \in Nat /\ n # 0 OBVIOUS
  <2> QED BY <2>1
<1>3. n - 1 \in S BY <1>1, <1>2 DEF OpToRel
<1> QED BY <1>1, <1>2, <1>3

\* There are the running sums of the lengths of the months.
LEMMA SumsOfMonths ==
  ASSUME NEW a, NEW n \in Nat, \A i \in 1 .. n : a[i] \in Int
  PROVE  \E f \in [0 .. n -> Int] :
           f = [i \in 0 .. n |-> IF i = 0 THEN 0 ELSE f[i - 1] + a[i]]
<1> DEFINE IsSum(f, m) == \A i \in 0 .. m : f[i] = IF i = 0 THEN 0 ELSE f[i - 1] + a[i]
           Summed == {m \in Nat : m <= n => \E f \in [0 .. m -> Int] : IsSum(f, m)}
<1>1. 0 \in Summed
  <2>1. [i \in 0 .. 0 |-> 0] \in [0 .. 0 -> Int] /\ IsSum([i \in 0 .. 0 |-> 0], 0) OBVIOUS
  <2> QED BY <2>1
<1>2. \A m \in Summed : m + 1 \in Summed
  <2> SUFFICES ASSUME NEW m \in Summed PROVE m + 1 \in Summed
    OBVIOUS
  <2>1. m \in Nat /\ m + 1 \in Nat OBVIOUS
  <2> SUFFICES ASSUME m + 1 <= n PROVE \E g \in [0 .. (m + 1) -> Int] : IsSum(g, m + 1)
    BY <2>1
  <2>2. m <= n BY <2>1
  <2>3. PICK f \in [0 .. m -> Int] : IsSum(f, m) BY <2>2
  <2>4. PICK g : g = [i \in 0 .. (m + 1) |-> IF i <= m THEN f[i] ELSE f[m] + a[m + 1]] OBVIOUS
  <2>5. a[m + 1] \in Int /\ f[m] \in Int BY m + 1 \in 1 .. n
  <2>6. g \in [0 .. (m + 1) -> Int] BY <2>3, <2>4, <2>5
  <2>7. IsSum(g, m + 1) BY <2>3, <2>4
  <2> QED BY <2>6, <2>7
<1>3. Summed = Nat
  <2> HIDE DEF Summed
  <2>1. Summed \in SUBSET Nat BY DEF Summed
  <2> QED BY <1>1, <1>2, <2>1, NumbersAreReached
<1>4. PICK f \in [0 .. n -> Int] : IsSum(f, n)
  <2>1. n \in Summed BY <1>3
  <2> QED BY <2>1
<1>5. f = [i \in 0 .. n |-> f[i]] OBVIOUS
<1> QED BY <1>4, <1>5

Last == Len(MonthLength)

\* The months are numbered, and each ends its own length after the one before.
LEMMA MonthsAre ==
  /\ Last \in Nat \ {0} /\ Value!Months = 1 .. Last
  /\ \A m \in 0 .. Last : Value!End[m] \in Int
  /\ Value!End[0] = 0
  /\ \A m \in 1 .. Last : /\ MonthLength[m] \in Nat \ {0}
                          /\ Value!End[m] = Value!End[m - 1] + MonthLength[m]
                          /\ Value!End[m - 1] < Value!End[m]
<1> DEFINE n == Last
<1>1. MonthLength \in Seq(Nat \ {0}) /\ MonthLength # <<>>
  BY OperationsConstants DEF Value!ValueConstants
<1>2. n \in Nat \ {0} /\ Value!Months = 1 .. n /\ \A m \in 1 .. n : MonthLength[m] \in Nat \ {0}
  BY <1>1 DEF Value!Months, Last
<1>3. PICK f \in [0 .. n -> Int] : f = [i \in 0 .. n |-> IF i = 0 THEN 0 ELSE f[i - 1] + MonthLength[i]]
  <2>1. n \in Nat /\ \A i \in 1 .. n : MonthLength[i] \in Int BY <1>2
  <2> HIDE DEF n
  <2> QED BY <2>1, SumsOfMonths
<1> DEFINE sum == CHOOSE g : g = [i \in 0 .. n |-> IF i = 0 THEN 0 ELSE g[i - 1] + MonthLength[i]]
<1>4. sum = [i \in 0 .. n |-> IF i = 0 THEN 0 ELSE sum[i - 1] + MonthLength[i]] BY <1>3
<1>5. Value!End = sum BY DEF Value!End, Last
<1> HIDE DEF sum
<1>6. PICK g : g = sum OBVIOUS
<1>7. DOMAIN g = 0 .. n /\ \A i \in 0 .. n : g[i] = IF i = 0 THEN 0 ELSE g[i - 1] + MonthLength[i]
  BY <1>4, <1>6
<1>8. \A i \in 0 .. n : g[i] \in Int
  <2> DEFINE Known == {i \in Nat : i <= n => g[i] \in Int}
  <2>1. 0 \in Known BY <1>2, <1>7
  <2>2. ASSUME NEW i \in Known PROVE i + 1 \in Known
    <3>1. i \in Nat /\ i + 1 \in Nat OBVIOUS
    <3> SUFFICES ASSUME i + 1 <= n PROVE g[i + 1] \in Int BY <3>1
    <3>2. i + 1 \in 1 .. n /\ i + 1 \in 0 .. n /\ i <= n /\ i + 1 # 0 /\ (i + 1) - 1 = i BY <1>2, <3>1
    <3>3. g[i] \in Int /\ MonthLength[i + 1] \in Int BY <1>2, <3>2
    <3>4. g[i + 1] = g[i] + MonthLength[i + 1] BY <1>7, <3>2
    <3> QED BY <3>3, <3>4
  <2>3. Known = Nat
    <3>1. Known \in SUBSET Nat OBVIOUS
    <3> HIDE DEF Known
    <3> QED BY <2>1, <2>2, <3>1, NumbersAreReached
  <2> QED BY <1>2, <2>3
<1>9. ASSUME NEW m \in 1 .. n
      PROVE  /\ MonthLength[m] \in Nat \ {0} /\ g[m] = g[m - 1] + MonthLength[m] /\ g[m - 1] < g[m]
  <2>1. m \in 0 .. n /\ m # 0 /\ m - 1 \in 0 .. n BY <1>2
  <2>2. g[m] = g[m - 1] + MonthLength[m] BY <1>7, <2>1
  <2>3. g[m - 1] \in Int /\ MonthLength[m] \in Nat \ {0} BY <1>2, <1>8, <2>1
  <2> QED BY <2>2, <2>3
<1>10. g[0] = 0 BY <1>2, <1>7
<1> QED BY <1>2, <1>5, <1>6, <1>8, <1>9, <1>10

\* A later month ends later.
LEMMA MonthsGrow ==
  ASSUME NEW m \in 0 .. Last, NEW k \in 0 .. Last, m < k
  PROVE  Value!End[m] < Value!End[k]
<1> DEFINE Later == {i \in Nat : (m + 1) + i <= Last => Value!End[m] < Value!End[(m + 1) + i]}
<1>1. 0 \in Later
  <2>1. m + 1 \in 1 .. Last /\ (m + 1) - 1 = m /\ (m + 1) + 0 = m + 1 BY MonthsAre
  <2> QED BY <2>1, MonthsAre
<1>2. ASSUME NEW i \in Later PROVE i + 1 \in Later
  <2>1. i \in Nat /\ i + 1 \in Nat OBVIOUS
  <2> SUFFICES ASSUME (m + 1) + (i + 1) <= Last PROVE Value!End[m] < Value!End[(m + 1) + (i + 1)]
    BY <2>1
  <2> PICK j : j = (m + 1) + (i + 1) OBVIOUS
  <2>2. j \in 1 .. Last /\ j - 1 = (m + 1) + i /\ j - 1 \in 0 .. Last /\ (m + 1) + i <= Last
    BY <2>1, MonthsAre
  <2>3. Value!End[m] < Value!End[j - 1] BY <2>2
  <2>4. Value!End[j - 1] < Value!End[j] BY <2>2, MonthsAre
  <2>5. Value!End[m] \in Int /\ Value!End[j - 1] \in Int /\ Value!End[j] \in Int BY <2>2, MonthsAre
  <2> QED BY <2>3, <2>4, <2>5
<1>3. Later = Nat
  <2>1. Later \in SUBSET Nat OBVIOUS
  <2> HIDE DEF Later
  <2> QED BY <1>1, <1>2, <2>1, NumbersAreReached
<1>4. PICK i : i = k - (m + 1) OBVIOUS
<1>5. i \in Nat /\ (m + 1) + i = k /\ k <= Last
  <2>1. Last \in Nat BY MonthsAre
  <2> QED BY <1>4, <2>1
<1>6. i \in Later BY <1>3, <1>5
<1> QED BY <1>5, <1>6

\* Every day is in one month.
LEMMA MonthIs ==
  ASSUME NEW d \in Value!Days
  PROVE  /\ Value!MonthOf(d) \in 1 .. Last
         /\ Value!End[Value!MonthOf(d) - 1] < d /\ d <= Value!End[Value!MonthOf(d)]
         /\ \A m \in 1 .. Last : Value!End[m - 1] < d /\ d <= Value!End[m] => m = Value!MonthOf(d)
<1> DEFINE Found == {i \in Nat : i <= Last /\ d <= Value!End[i]
                                   => \E m \in 1 .. Last : Value!End[m - 1] < d /\ d <= Value!End[m]}
<1>0. d \in Nat \ {0} /\ d <= Value!End[Last]
  <2>1. Value!End[Last] \in Int BY MonthsAre
  <2> QED BY <2>1 DEF Value!Days, Value!LastDay, Last
<1>1. 0 \in Found BY <1>0, MonthsAre
<1>2. ASSUME NEW i \in Found PROVE i + 1 \in Found
  <2>1. i \in Nat /\ i + 1 \in Nat OBVIOUS
  <2> SUFFICES ASSUME i + 1 <= Last, d <= Value!End[i + 1]
               PROVE  \E m \in 1 .. Last : Value!End[m - 1] < d /\ d <= Value!End[m]
    BY <2>1
  <2>2. i + 1 \in 1 .. Last /\ (i + 1) - 1 = i /\ i \in 0 .. Last /\ i <= Last BY <2>1, MonthsAre
  <2>3. Value!End[i] \in Int BY <2>2, MonthsAre
  <2>4. CASE d <= Value!End[i] BY <2>2, <2>4
  <2>5. CASE Value!End[i] < d BY <2>2, <2>5
  <2> QED BY <1>0, <2>3, <2>4, <2>5
<1>3. Found = Nat
  <2>1. Found \in SUBSET Nat OBVIOUS
  <2> HIDE DEF Found
  <2> QED BY <1>1, <1>2, <2>1, NumbersAreReached
<1>4. \E m \in 1 .. Last : Value!End[m - 1] < d /\ d <= Value!End[m]
  <2>1. Last \in Found /\ Last <= Last BY <1>3, MonthsAre
  <2> QED BY <1>0, <2>1
<1>5. /\ Value!MonthOf(d) \in 1 .. Last
      /\ Value!End[Value!MonthOf(d) - 1] < d /\ d <= Value!End[Value!MonthOf(d)]
  BY <1>4, MonthsAre DEF Value!MonthOf
<1>6. ASSUME NEW m \in 1 .. Last, NEW k \in 1 .. Last,
             Value!End[m - 1] < d, d <= Value!End[m], Value!End[k - 1] < d, d <= Value!End[k], m < k
      PROVE  FALSE
  <2>0. Last \in Nat BY MonthsAre
  <2>1. m \in 0 .. Last /\ k - 1 \in 0 .. Last /\ m <= k - 1 BY <1>6, <2>0
  <2>2. Value!End[m] <= Value!End[k - 1]
    <3>1. CASE m = k - 1 BY <2>1, <3>1, MonthsAre
    <3>2. CASE m < k - 1
      <4>1. Value!End[m] < Value!End[k - 1] BY <2>1, <3>2, MonthsGrow
      <4> QED BY <2>1, <4>1, MonthsAre
    <3> QED BY <2>1, <3>1, <3>2
  <2>3. Value!End[m] \in Int /\ Value!End[k - 1] \in Int BY <2>1, MonthsAre
  <2> QED BY <1>0, <1>6, <2>2, <2>3
<1>7. \A m \in 1 .. Last : Value!End[m - 1] < d /\ d <= Value!End[m] => m = Value!MonthOf(d)
  <2> PICK k \in 1 .. Last : k = Value!MonthOf(d) BY <1>5
  <2>1. ASSUME NEW m \in 1 .. Last, Value!End[m - 1] < d, d <= Value!End[m] PROVE m = k
    <3>1. ~(m < k) /\ ~(k < m) BY <1>5, <1>6, <2>1
    <3> QED BY <3>1, MonthsAre
  <2> QED BY <2>1
<1> QED BY <1>5, <1>7

\* Days are counted from the first of their month.
LEMMA DayIs ==
  ASSUME NEW d \in Value!Days
  PROVE  /\ d \in Nat \ {0} /\ Value!MonthOf(d) \in 1 .. Last /\ Value!MonthOf(d) \in Nat \ {0}
         /\ Value!MonthOf(d) <= Last
         /\ Value!DayOf(d) \in Nat \ {0} /\ Value!DayOf(d) <= MonthLength[Value!MonthOf(d)]
         /\ d = Value!End[Value!MonthOf(d) - 1] + Value!DayOf(d)
<1> PICK m \in 1 .. Last : m = Value!MonthOf(d) BY MonthIs
<1>1. Last \in Nat BY MonthsAre
<1>2. m - 1 \in 0 .. Last /\ m \in Nat \ {0} BY <1>1
<1>3. /\ Value!End[m - 1] \in Int /\ Value!End[Last] \in Int /\ MonthLength[m] \in Nat
      /\ Value!End[m] = Value!End[m - 1] + MonthLength[m]
  BY <1>1, <1>2, MonthsAre
<1>4. d \in Nat \ {0} BY <1>3 DEF Value!Days, Value!LastDay, Last
<1>5. Value!End[m - 1] < d /\ d <= Value!End[m] BY MonthIs
<1> QED BY <1>1, <1>2, <1>3, <1>4, <1>5 DEF Value!DayOf

\* From day to day: the next of the month, or the first of the next month.
LEMMA NextDayIs ==
  ASSUME NEW d \in Value!Days, d + 1 \in Value!Days
  PROVE  \/ Value!MonthOf(d + 1) = Value!MonthOf(d) /\ Value!DayOf(d + 1) = Value!DayOf(d) + 1
         \/ Value!MonthOf(d + 1) = Value!MonthOf(d) + 1 /\ Value!DayOf(d + 1) = 1
<1> PICK m : m = Value!MonthOf(d) OBVIOUS
<1> PICK e : e = d + 1 OBVIOUS
<1>1. Last \in Nat BY MonthsAre
<1>2. m \in 1 .. Last /\ m \in Nat \ {0} /\ m <= Last /\ d \in Nat BY DayIs
<1>3. m \in 0 .. Last /\ m - 1 \in 0 .. Last BY <1>1, <1>2
<1>4. Value!End[m - 1] \in Int /\ Value!End[m] \in Int BY <1>3, MonthsAre
<1>5. Value!End[m - 1] < d /\ d <= Value!End[m] BY MonthIs
<1>6. e \in Value!Days OBVIOUS
<1>7. CASE d < Value!End[m]
  <2>1. Value!End[m - 1] < e /\ e <= Value!End[m] BY <1>2, <1>4, <1>5, <1>7
  <2>2. Value!MonthOf(e) = m BY <1>2, <1>6, <2>1, MonthIs
  <2> QED BY <1>2, <1>4, <2>2 DEF Value!DayOf
<1>8. CASE d = Value!End[m]
  <2>1. m # Last
    <3> SUFFICES ASSUME m = Last PROVE FALSE OBVIOUS
    <3>1. e <= Value!End[m] BY <1>4, <1>6 DEF Value!Days, Value!LastDay, Last
    <3> QED BY <1>2, <1>4, <1>8, <3>1
  <2>2. PICK k : k = m + 1 OBVIOUS
  <2>3. k \in 1 .. Last /\ k \in 0 .. Last /\ k - 1 = m BY <1>1, <1>2, <2>1, <2>2
  <2>4. Value!End[k] \in Int /\ Value!End[m] < Value!End[k] BY <2>3, MonthsAre
  <2>5. Value!End[k - 1] < e /\ e <= Value!End[k] BY <1>2, <1>4, <1>8, <2>3, <2>4
  <2>6. Value!MonthOf(e) = k BY <1>6, <2>3, <2>5, MonthIs
  <2>7. Value!DayOf(e) = e - Value!End[m] BY <2>3, <2>6 DEF Value!DayOf
  <2>8. Value!DayOf(e) = 1
    <3>1. d \in Int /\ d = Value!End[m] BY <1>2, <1>8
    <3> QED BY <2>7, <3>1
  <2> QED BY <2>2, <2>6, <2>8
<1> QED BY <1>2, <1>4, <1>5, <1>7, <1>8

\* Later days are in later months, or later in the month.
LEMMA DaysInOrder ==
  ASSUME NEW d \in Value!Days, NEW e \in Value!Days, d < e
  PROVE  \/ Value!MonthOf(d) < Value!MonthOf(e)
         \/ Value!MonthOf(d) = Value!MonthOf(e) /\ Value!DayOf(d) < Value!DayOf(e)
<1> PICK m, k : m = Value!MonthOf(d) /\ k = Value!MonthOf(e) OBVIOUS
<1>1. Last \in Nat BY MonthsAre
<1>2. /\ m \in 1 .. Last /\ m \in Nat \ {0} /\ m <= Last /\ d \in Nat
      /\ k \in 1 .. Last /\ k \in Nat \ {0} /\ k <= Last /\ e \in Nat
  BY DayIs
<1>3. m - 1 \in 0 .. Last /\ k \in 0 .. Last /\ m - 1 \in Int BY <1>1, <1>2
<1>4. Value!End[m - 1] \in Int /\ Value!End[k] \in Int BY <1>3, MonthsAre
<1>5. CASE m = k BY <1>2, <1>4, <1>5 DEF Value!DayOf
<1>6. CASE m > k
  <2>1. Value!End[k] <= Value!End[m - 1]
    <3>1. CASE k = m - 1 BY <1>4, <3>1
    <3>2. CASE k < m - 1
      <4>1. Value!End[k] < Value!End[m - 1] BY <1>3, <3>2, MonthsGrow
      <4> QED BY <1>4, <4>1
    <3> QED BY <1>2, <1>6, <3>1, <3>2
  <2>2. Value!End[m - 1] < d /\ e <= Value!End[k] BY MonthIs
  <2> QED BY <1>2, <1>4, <2>1, <2>2
<1> QED BY <1>2, <1>5, <1>6

\* Whole months: none up to the start, and one more at most with every day.
LEMMA ElapsedGrows ==
  ASSUME NEW s \in Value!Days, NEW d \in Value!Days
  PROVE  /\ Value!Elapsed(s, d) \in Nat
         /\ d <= s => Value!Elapsed(s, d) = 0
         /\ d + 1 \in Value!Days => Value!Elapsed(s, d + 1) - Value!Elapsed(s, d) \in {0, 1}
<1> PICK ms, ds : ms = Value!MonthOf(s) /\ ds = Value!DayOf(s) OBVIOUS
<1> PICK m, x : m = Value!MonthOf(d) /\ x = Value!DayOf(d) OBVIOUS
<1>1. ms \in Nat /\ ds \in Nat \ {0} /\ m \in Nat /\ x \in Nat \ {0} /\ s \in Nat /\ d \in Nat BY DayIs
<1>2. Value!Elapsed(s, d) \in Nat BY <1>1 DEF Value!Elapsed
<1>3. ASSUME d <= s PROVE Value!Elapsed(s, d) = 0
  <2>1. m <= ms
    <3>1. CASE d = s BY <1>1, <3>1
    <3>2. CASE d < s BY <1>1, <3>2, DaysInOrder
    <3> QED BY <1>1, <1>3, <3>1, <3>2
  <2> QED BY <1>1, <2>1 DEF Value!Elapsed
<1>4. ASSUME d + 1 \in Value!Days PROVE Value!Elapsed(s, d + 1) - Value!Elapsed(s, d) \in {0, 1}
  <2> PICK n, y : n = Value!MonthOf(d + 1) /\ y = Value!DayOf(d + 1) OBVIOUS
  <2>1. (n = m /\ y = x + 1) \/ (n = m + 1 /\ y = 1) BY <1>4, NextDayIs
  <2> QED BY <1>1, <2>1 DEF Value!Elapsed
<1> QED BY <1>2, <1>3, <1>4

\* The months are the monthly dates that have come.
LEMMA MonthsAreDates ==
  ASSUME NEW s \in Value!Days, date \in Value!Days
  PROVE  Cardinality(Value!Anniversaries(s)) = Value!Elapsed(s, date)
<1> PICK n : n = Value!Elapsed(s, date) OBVIOUS
<1> PICK ms, ds : ms = Value!MonthOf(s) /\ ds = Value!DayOf(s) OBVIOUS
<1> PICK m, x : m = Value!MonthOf(date) /\ x = Value!DayOf(date) OBVIOUS
<1>1. /\ ms \in Nat \ {0} /\ ds \in Nat \ {0} /\ m \in Nat \ {0} /\ x \in Nat \ {0} /\ m <= Last /\ Last \in Nat
      /\ Value!Months = 1 .. Last
  BY DayIs, MonthsAre
<1>2. n \in Nat BY ElapsedGrows
<1>3. Value!Anniversaries(s) = 1 .. n
  <2>1. \A k : k \in Value!Anniversaries(s) <=> k \in 1 .. Last /\ (ms + k < m \/ (ms + k = m /\ ds <= x))
    BY <1>1 DEF Value!Anniversaries
  <2>2. \A k : k \in 1 .. n <=> k \in 1 .. Last /\ (ms + k < m \/ (ms + k = m /\ ds <= x))
    BY <1>1, <1>2 DEF Value!Elapsed
  <2> QED BY <2>1, <2>2
<1>4. \A k \in Nat : Cardinality(1 .. k) = k BY FS_Interval
<1> QED BY <1>2, <1>3, <1>4

-----------------------------------------------------------------------------
(* Valuation: amounts                                                        *)

\* Division, by what it leaves.
LEMMA Quotient ==
  ASSUME NEW D \in Nat \ {0}, NEW x \in Int
  PROVE  x \div D \in Int /\ D * (x \div D) <= x /\ x < D * (x \div D) + D
OBVIOUS

\* A product divided by its factor.
LEMMA QuotientIs ==
  ASSUME NEW D \in Nat \ {0}, NEW q \in Int
  PROVE  (D * q) \div D = q
<1> PICK p \in Int : p = (D * q) \div D /\ D * p <= D * q /\ D * q < D * p + D
  <2>1. D * q \in Int OBVIOUS
  <2> QED BY <2>1, Quotient
<1>1. ~(p < q)
  <2> SUFFICES ASSUME p + 1 <= q PROVE FALSE OBVIOUS
  <2>1. D * p + D <= D * q BY Scaled
  <2> QED BY <2>1
<1>2. ~(q < p)
  <2> SUFFICES ASSUME q + 1 <= p PROVE FALSE OBVIOUS
  <2>1. D * q + D <= D * p BY Scaled
  <2> QED BY <2>1
<1> QED BY <1>1, <1>2

\* Products keep an order.
LEMMA ProductsGrow ==
  ASSUME NEW P \in Nat, NEW a \in Int, NEW b \in Int, a <= b
  PROVE  P * a \in Int /\ P * b \in Int /\ P * a <= P * b
OBVIOUS

\* What rounding half up leaves.
LEMMA RoundedIs ==
  ASSUME NEW S \in Nat \ {0}, NEW x \in Int
  PROVE  /\ Value!Rounded(x, S) \in Int
         /\ (2 * S) * Value!Rounded(x, S) <= 2 * x + S
         /\ 2 * x + S < (2 * S) * Value!Rounded(x, S) + 2 * S
<1>1. 2 * S \in Nat \ {0} /\ 2 * x + S \in Int OBVIOUS
<1> DEFINE D == 2 * S
           y == 2 * x + S
<1>2. D \in Nat \ {0} /\ y \in Int BY <1>1
<1>3. Value!Rounded(x, S) = y \div D BY DEF Value!Rounded
<1> HIDE DEF D, y
<1>4. y \div D \in Int /\ D * (y \div D) <= y /\ y < D * (y \div D) + D BY <1>2, Quotient
<1> QED BY <1>3, <1>4 DEF D, y

\* Rounding keeps an order.
LEMMA RoundingGrows ==
  ASSUME NEW S \in Nat \ {0}, NEW x \in Int, NEW y \in Int, x <= y
  PROVE  Value!Rounded(x, S) <= Value!Rounded(y, S)
<1> PICK p, q : p = Value!Rounded(x, S) /\ q = Value!Rounded(y, S) OBVIOUS
<1>1. p \in Int /\ q \in Int BY RoundedIs
<1>2. (2 * S) * p <= 2 * x + S /\ 2 * y + S < (2 * S) * q + 2 * S BY RoundedIs
<1> SUFFICES ASSUME q + 1 <= p PROVE FALSE BY <1>1
<1>3. (2 * S) * q + 2 * S <= (2 * S) * p
  <2>1. 2 * S \in Nat \ {0} OBVIOUS
  <2> QED BY <1>1, <2>1, Scaled
<1>4. (2 * S) * p \in Int /\ (2 * S) * q \in Int BY <1>1
<1> QED BY <1>2, <1>3, <1>4

\* A whole number of cents is rounded to itself.
LEMMA CentsStay ==
  ASSUME NEW S \in Nat \ {0}, NEW n \in Int
  PROVE  Value!Rounded(n * S, S) = n
<1> PICK p : p = Value!Rounded(n * S, S) OBVIOUS
<1> PICK D \in Nat \ {0} : D = 2 * S OBVIOUS
<1>1. n * S \in Int /\ 2 * (n * S) = D * n OBVIOUS
<1>2. p \in Int /\ D * p <= D * n + S /\ D * n + S < D * p + D BY <1>1, RoundedIs
<1>3. D * p \in Int /\ D * n \in Int /\ S < D BY <1>2
<1>4. ~(p < n)
  <2> SUFFICES ASSUME p + 1 <= n PROVE FALSE BY <1>2
  <2>1. D * p + D <= D * n BY <1>2, Scaled
  <2> QED BY <1>2, <1>3, <2>1
<1>5. ~(n < p)
  <2> SUFFICES ASSUME n + 1 <= p PROVE FALSE BY <1>2
  <2>1. D * n + D <= D * p BY <1>2, Scaled
  <2> QED BY <1>2, <1>3, <2>1
<1> QED BY <1>2, <1>4, <1>5

\* Two parts of such a number, each rounded, add up to it or to a cent more.
LEMMA PartsAddUp ==
  ASSUME NEW S \in Nat \ {0}, NEW n \in Int, NEW y \in Int
  PROVE  Value!Rounded(n * S - y, S) + Value!Rounded(y, S) - n \in {0, 1}
<1> PICK p, q : p = Value!Rounded(n * S - y, S) /\ q = Value!Rounded(y, S) OBVIOUS
<1> PICK D \in Nat \ {0} : D = 2 * S OBVIOUS
<1>1. n * S - y \in Int /\ 2 * (n * S - y) = D * n - 2 * y /\ D * n \in Int OBVIOUS
<1>2. /\ p \in Int /\ D * p <= D * n - 2 * y + S /\ D * n - 2 * y + S < D * p + D
      /\ q \in Int /\ D * q <= 2 * y + S /\ 2 * y + S < D * q + D
  BY <1>1, RoundedIs
<1>3. PICK r \in Int : r = p + q - n BY <1>2
<1>4. D * r = D * p + D * q - D * n /\ D * p \in Int /\ D * q \in Int /\ D * r \in Int BY <1>2, <1>3
<1>5. D * r <= D /\ -D < D * r
  <2>1. D * p + D * q <= D * n + D BY <1>1, <1>2, <1>4
  <2>2. D * n + D < D * p + D * q + D + D BY <1>1, <1>2, <1>4
  <2> QED BY <1>1, <1>4, <2>1, <2>2
<1>6. ~(r > 1)
  <2> SUFFICES ASSUME 1 + 1 <= r PROVE FALSE OBVIOUS
  <2>1. D * 1 + D <= D * r BY Scaled
  <2> QED BY <1>4, <1>5, <2>1
<1>7. ~(r < 0)
  <2> SUFFICES ASSUME r + 1 <= 0 PROVE FALSE OBVIOUS
  <2>1. D * r + D <= D * 0 BY Scaled
  <2> QED BY <1>4, <1>5, <2>1
<1> QED BY <1>3, <1>6, <1>7

-----------------------------------------------------------------------------
(* Valuation: the figures of a day                                           *)

\* The months that are written off, and what one of them is worth.
Steps(c, d) ==
    IF d < c.start THEN 0
    ELSE IF Value!Elapsed(c.start, d) >= Value!Total(c) THEN Value!Total(c)
    ELSE Value!Elapsed(c.start, d)
Part(c) == c.amount * (Unit - c.rate)

IsPlan(c) == c \in Value!Configurations /\ Value!Complete(c)

\* The amounts of a plan: what is written off is so many months' parts, and what is left
\* of the price when all are written off is the residual value.
LEMMA AmountsAre ==
  ASSUME NEW c, IsPlan(c), NEW d \in Value!Days
  PROVE  /\ Value!Total(c) \in Nat \ {0} /\ Value!Scale(c) \in Nat \ {0} /\ c.amount \in Nat
         /\ Part(c) \in Nat /\ Steps(c, d) \in 0 .. Value!Total(c)
         /\ Value!Original(c) = c.amount * Value!Scale(c) /\ Value!Original(c) \in Int
         /\ Value!Residual(c) = Value!Original(c) - Part(c) * Value!Total(c)
         /\ Value!Accumulated(c, d) = Part(c) * Steps(c, d)
<1> PICK A, Y, r : A = c.amount /\ Y = c.years /\ r = c.rate OBVIOUS
<1>1. /\ A \in Nat \ {0} /\ Y \in Nat \ {0} /\ r \in Nat /\ r <= Unit /\ c.start \in Value!Days
      /\ Unit \in Nat \ {0} /\ Year \in Nat \ {0}
  BY OperationsConstants DEF IsPlan, Value!Configurations, Value!Complete, Value!ValueConstants
<1> PICK T : T = Value!Total(c) OBVIOUS
<1>2. T \in Nat \ {0} BY <1>1 DEF Value!Total
<1> PICK u \in Nat : u = Unit - r BY <1>1
<1> PICK P \in Nat : P = A * u /\ P = Part(c) BY <1>1 DEF Part
<1>3. Value!Scale(c) = T * Unit /\ Value!Scale(c) \in Nat \ {0} BY <1>1, <1>2 DEF Value!Scale
<1>4. Value!Original(c) = A * (T * Unit) /\ Value!Original(c) \in Int /\ Value!Residual(c) = A * r * T
  BY <1>1, <1>2, <1>3 DEF Value!Original, Value!Residual
<1>5. A * (T * Unit) - A * r * T = T * P
  <2>1. P = A * Unit - A * r BY <1>1
  <2>2. T * P = T * (A * Unit) - T * (A * r) BY <1>1, <1>2, <2>1
  <2>3. A * (T * Unit) = T * (A * Unit) /\ A * r * T = T * (A * r) BY <1>1, <1>2
  <2> QED BY <2>2, <2>3
<1>6. Value!Depreciable(c) = T * P BY <1>4, <1>5 DEF Value!Depreciable
<1>7. Value!Depreciable(c) \div T = P BY <1>2, <1>6, QuotientIs
<1>8. Value!Elapsed(c.start, d) \in Nat BY <1>1, ElapsedGrows
<1>9. Steps(c, d) \in 0 .. T BY <1>2, <1>8 DEF Steps
<1>10. Value!Accumulated(c, d) = P * Steps(c, d)
  <2>1. CASE d < c.start
    <3>1. P * 0 = 0 OBVIOUS
    <3> QED BY <2>1, <3>1 DEF Value!Accumulated, Steps
  <2>2. CASE ~(d < c.start) /\ Value!Elapsed(c.start, d) >= T
    <3>1. T * P = P * T BY <1>2
    <3> QED BY <1>6, <2>2, <3>1 DEF Value!Accumulated, Steps
  <2>3. CASE ~(d < c.start) /\ ~(Value!Elapsed(c.start, d) >= T)
    BY <1>7, <2>3 DEF Value!Accumulated, Steps
  <2> QED BY <2>1, <2>2, <2>3
<1>11. A * (T * Unit) - P * T = A * r * T
  <2>1. P * T = T * P BY <1>2
  <2>2. A * (T * Unit) \in Int /\ A * r * T \in Int /\ T * P \in Int BY <1>1, <1>2
  <2> QED BY <1>5, <2>1, <2>2
<1> QED BY <1>1, <1>2, <1>3, <1>4, <1>9, <1>10, <1>11

\* The figures of a plan, by the months that are written off.
LEMMA FiguresAre ==
  ASSUME NEW c, IsPlan(c), NEW d \in Value!Days, NEW f, f = Value!Figures(c, d)
  PROVE  LET S == Value!Scale(c)  left == c.amount * S - Part(c) * Steps(c, d) IN
         /\ f.status = Value!Status(c, d) /\ f.months = Value!Elapsed(c.start, d)
         /\ f.original = c.amount
         /\ f.residual = Value!Rounded(c.amount * S - Part(c) * Value!Total(c), S)
         /\ f.accumulated = Value!Rounded(Part(c) * Steps(c, d), S)
         /\ f.net = Value!Rounded(left, S)
<1> DEFINE S == Value!Scale(c)
           left == c.amount * S - Part(c) * Steps(c, d)
<1> USE AmountsAre
<1>1. c \in Value!Configurations /\ Value!Complete(c) /\ c.start \in Value!Days /\ c.start \in Nat /\ d \in Nat
  BY DayIs DEF IsPlan, Value!Configurations
<1>2. c # Value!Unconfigured BY <1>1 DEF Value!Complete, Value!Unconfigured, Value!None
<1>3. Value!Original(c) - Value!Accumulated(c, d) = left OBVIOUS
<1>4. ~(left < Value!Residual(c))
  <2>1. Part(c) * Steps(c, d) \in Int /\ Part(c) * Value!Total(c) \in Int
        /\ Part(c) * Steps(c, d) <= Part(c) * Value!Total(c)
    BY ProductsGrow
  <2>2. Value!Residual(c) = c.amount * S - Part(c) * Value!Total(c) /\ c.amount * S \in Int OBVIOUS
  <2> QED BY <2>1, <2>2
<1>5. (IF d < c.start THEN 0 ELSE Value!Elapsed(c.start, d)) = Value!Elapsed(c.start, d)
  BY <1>1, ElapsedGrows
<1>6. Value!Rounded(Value!Original(c), S) = c.amount
  <2>1. S \in Nat \ {0} /\ c.amount \in Int /\ Value!Original(c) = c.amount * S OBVIOUS
  <2> HIDE DEF S
  <2> QED BY ONLY <2>1, CentsStay
<1>7. f = [status |-> Value!Status(c, d), original |-> Value!Rounded(Value!Original(c), S),
           residual |-> Value!Rounded(Value!Residual(c), S),
           accumulated |-> Value!Rounded(Value!Accumulated(c, d), S), net |-> Value!Rounded(left, S),
           months |-> Value!Elapsed(c.start, d)]
  BY ONLY f = Value!Figures(c, d), <1>1, <1>2, <1>3, <1>4, <1>5 DEF Value!Figures
<1> QED BY <1>6, <1>7

\* Statuses by what is written off; a later status on a later day.
LEMMA StatusIs ==
  ASSUME NEW c, IsPlan(c), NEW d \in Value!Days
  PROVE  LET s == Value!Status(c, d) IN
         /\ s \in {"not_started", "depreciating", "fully_depreciated"}
         /\ s = "not_started" <=> d < c.start
         /\ s = "not_started" => Steps(c, d) = 0
         /\ s = "fully_depreciated" => Steps(c, d) = Value!Total(c)
         /\ s = "fully_depreciated" <=> d >= c.start /\ Value!Elapsed(c.start, d) >= Value!Total(c)
<1>1. c.start \in Nat /\ d \in Nat BY DayIs DEF IsPlan, Value!Configurations
<1>2. CASE d < c.start BY <1>1, <1>2 DEF Value!Status, Steps
<1>3. CASE d >= c.start /\ Value!Elapsed(c.start, d) >= Value!Total(c) BY <1>1, <1>3 DEF Value!Status, Steps
<1>4. CASE d >= c.start /\ ~(Value!Elapsed(c.start, d) >= Value!Total(c)) BY <1>1, <1>4 DEF Value!Status, Steps
<1> QED BY <1>1, <1>2, <1>3, <1>4

\* The figures of a day fit together.
LEMMA FiguresFit ==
  ASSUME NEW c, IsPlan(c), NEW d \in Value!Days, NEW f, f = Value!Figures(c, d)
  PROVE  /\ f.status # "unconfigured" /\ f.months = Value!Elapsed(c.start, d)
         /\ f.residual <= f.net /\ f.net <= f.original
         /\ f.net + f.accumulated - f.original \in {0, 1}
         /\ f.status = "fully_depreciated" => f.net = f.residual
         /\ f.status = "not_started" => f.net = f.original
<1> PICK S, A, P, T, k : /\ S = Value!Scale(c) /\ A = c.amount /\ P = Part(c)
                         /\ T = Value!Total(c) /\ k = Steps(c, d)
  OBVIOUS
<1>1. S \in Nat \ {0} /\ A \in Nat /\ P \in Nat /\ T \in Nat /\ k \in 0 .. T BY AmountsAre
<1>2. /\ f.status = Value!Status(c, d) /\ f.months = Value!Elapsed(c.start, d)
      /\ f.original = A /\ f.residual = Value!Rounded(A * S - P * T, S)
      /\ f.accumulated = Value!Rounded(P * k, S) /\ f.net = Value!Rounded(A * S - P * k, S)
  BY FiguresAre
<1>3. /\ A * S \in Int /\ P * k \in Int /\ P * T \in Int /\ P * k <= P * T /\ 0 <= P * k
      /\ A * S - P * T \in Int /\ A * S - P * k \in Int
  <2>1. k \in Int /\ T \in Int /\ k <= T /\ 0 <= k BY <1>1
  <2>2. P * k \in Int /\ P * T \in Int /\ P * k <= P * T /\ P * 0 <= P * k /\ P * 0 = 0
    BY <1>1, <2>1, ProductsGrow
  <2>3. A * S \in Int BY <1>1
  <2> QED BY <2>2, <2>3
<1>4. Value!Rounded(A * S, S) = A
  <2>1. S \in Nat \ {0} /\ A \in Int BY <1>1
  <2> QED BY ONLY <2>1, CentsStay
<1>5. f.residual <= f.net
  <2>1. A * S - P * T <= A * S - P * k BY <1>3
  <2> QED BY <1>1, <1>2, <1>3, <2>1, RoundingGrows
<1>6. f.net <= f.original
  <2>1. A * S - P * k <= A * S BY <1>3
  <2>2. Value!Rounded(A * S - P * k, S) <= Value!Rounded(A * S, S)
    BY <1>1, <1>3, <2>1, RoundingGrows
  <2> QED BY <1>2, <1>4, <2>2
<1>7. f.net + f.accumulated - f.original \in {0, 1}
  <2>1. Value!Rounded(A * S - P * k, S) + Value!Rounded(P * k, S) - A \in {0, 1}
    <3> PICK y : y = P * k OBVIOUS
    <3>1. S \in Nat \ {0} /\ A \in Int /\ y \in Int BY <1>1, <1>3
    <3>2. Value!Rounded(A * S - y, S) + Value!Rounded(y, S) - A \in {0, 1} BY ONLY <3>1, PartsAddUp
    <3> QED BY <3>2
  <2> QED BY <1>2, <2>1
<1>8. f.status = "fully_depreciated" => f.net = f.residual BY <1>2, StatusIs
<1>9. f.status = "not_started" => f.net = f.original
  <2> SUFFICES ASSUME f.status = "not_started" PROVE f.net = f.original OBVIOUS
  <2>1. k = 0 BY <1>2, StatusIs
  <2>2. A * S - P * k = A * S BY <1>1, <1>3, <2>1
  <2> QED BY <1>2, <1>4, <2>2
<1>10. f.status # "unconfigured" BY <1>2, StatusIs
<1> QED BY <1>2, <1>5, <1>6, <1>7, <1>8, <1>9, <1>10

\* From day to day what is written off grows by a month's part at most.
LEMMA FiguresGrow ==
  ASSUME NEW c, IsPlan(c), NEW d \in Value!Days, d + 1 \in Value!Days,
         NEW l, l = Value!Figures(c, d), NEW f, f = Value!Figures(c, d + 1)
  PROVE  /\ f.net <= l.net /\ f.accumulated >= l.accumulated
         /\ f.months - l.months \in {0, 1} /\ Value!Order(f.status) >= Value!Order(l.status)
<1> PICK e : e = d + 1 OBVIOUS
<1> PICK S, A, P, T : S = Value!Scale(c) /\ A = c.amount /\ P = Part(c) /\ T = Value!Total(c)
  OBVIOUS
<1> PICK j, k : j = Steps(c, d) /\ k = Steps(c, e) OBVIOUS
<1> PICK m, n : m = Value!Elapsed(c.start, d) /\ n = Value!Elapsed(c.start, e) OBVIOUS
<1>1. /\ S \in Nat \ {0} /\ A \in Nat /\ P \in Nat /\ T \in Nat \ {0} /\ j \in 0 .. T /\ k \in 0 .. T
      /\ e \in Value!Days
  BY AmountsAre
<1>2. c.start \in Value!Days /\ c.start \in Nat /\ d \in Nat BY DayIs DEF IsPlan, Value!Configurations
<1>3. m \in Nat /\ n \in Nat /\ n - m \in {0, 1} BY <1>1, <1>2, ElapsedGrows
<1>4. /\ l.status = Value!Status(c, d) /\ f.status = Value!Status(c, e)
      /\ l.months = m /\ f.months = n
      /\ l.accumulated = Value!Rounded(P * j, S) /\ l.net = Value!Rounded(A * S - P * j, S)
      /\ f.accumulated = Value!Rounded(P * k, S) /\ f.net = Value!Rounded(A * S - P * k, S)
  BY <1>1, FiguresAre
<1>5. j <= k BY <1>1, <1>2, <1>3 DEF Steps
<1>6. /\ A * S \in Int /\ P * j \in Int /\ P * k \in Int /\ P * j <= P * k
      /\ A * S - P * j \in Int /\ A * S - P * k \in Int /\ A * S - P * k <= A * S - P * j
  <2>1. j \in Int /\ k \in Int BY <1>1
  <2>2. P * j \in Int /\ P * k \in Int /\ P * j <= P * k BY <1>1, <1>5, <2>1, ProductsGrow
  <2>3. A * S \in Int BY <1>1
  <2> QED BY <2>2, <2>3
<1>7. f.net <= l.net BY <1>1, <1>4, <1>6, RoundingGrows
<1>8. l.accumulated <= f.accumulated /\ l.accumulated \in Int /\ f.accumulated \in Int
  <2>1. Value!Rounded(P * j, S) <= Value!Rounded(P * k, S) BY <1>1, <1>6, RoundingGrows
  <2>2. Value!Rounded(P * j, S) \in Int BY <1>1, <1>6, RoundedIs
  <2>3. Value!Rounded(P * k, S) \in Int BY <1>1, <1>6, RoundedIs
  <2> QED BY <1>4, <2>1, <2>2, <2>3
<1>9. Value!Order(f.status) >= Value!Order(l.status)
  <2> PICK s, t : s = l.status /\ t = f.status OBVIOUS
  <2>1. /\ s \in {"not_started", "depreciating", "fully_depreciated"}
        /\ t \in {"not_started", "depreciating", "fully_depreciated"}
        /\ s = "not_started" <=> d < c.start
        /\ t = "not_started" <=> e < c.start
        /\ s = "fully_depreciated" <=> d >= c.start /\ m >= T
        /\ t = "fully_depreciated" <=> e >= c.start /\ n >= T
    BY <1>1, <1>4, StatusIs
  <2>2. /\ t = "not_started" => s = "not_started"
        /\ s = "fully_depreciated" => t = "fully_depreciated"
    BY <1>1, <1>2, <1>3, <2>1
  <2>3. /\ Value!Order("not_started") = 1 /\ Value!Order("depreciating") = 2
        /\ Value!Order("fully_depreciated") = 3
    BY DEF Value!Order
  <2> QED BY <2>1, <2>2, <2>3
<1> QED BY <1>3, <1>4, <1>7, <1>8, <1>9

-----------------------------------------------------------------------------
(* Valuation: the theorems                                                   *)

\* What was computed a day ago was computed from what is stored now.
ValueInv ==
    /\ date \in Value!Days
    /\ configured = Value!Unconfigured \/ IsPlan(configured)
    /\ expiry \in Nat
    /\ \/ last = Value!Nothing
       \/ /\ date - 1 \in Value!Days
          /\ last = [figures |-> Value!Figures(configured, date - 1),
                     licence |-> Value!StatusValue(expiry, date - 1)]

\* There is a first day.
LEMMA DaysAre == Value!Days \subseteq Nat \ {0} /\ 1 \in Value!Days /\ Value!LastDay \in Nat
<1>1. Last \in Nat \ {0} /\ Value!End[0] = 0 /\ Value!End[Last] \in Int BY MonthsAre
<1>2. 0 \in 0 .. Last /\ Last \in 0 .. Last /\ 0 < Last BY <1>1
<1>3. Value!End[0] < Value!End[Last] BY <1>2, MonthsGrow
<1> QED BY <1>1, <1>3 DEF Value!Days, Value!LastDay, Last

LEMMA ValueStepKeepsInv == ASSUME ValueInv, Value!Next PROVE ValueInv'
<1>1. CASE Value!Edit
  <2>1. configured' = Value!Unconfigured \/ IsPlan(configured')
    BY <1>1 DEF Value!Edit, ValueInv, IsPlan
  <2>2. expiry' \in Nat
    <3>1. expiry' = expiry \/ expiry' \in {Value!None} \cup Value!Days BY <1>1 DEF Value!Edit
    <3>2. expiry \in Nat /\ Value!None \in Nat /\ Value!Days \subseteq Nat
      BY DaysAre DEF ValueInv, Value!None
    <3> QED BY <3>1, <3>2
  <2> QED BY <1>1, <2>1, <2>2 DEF Value!Edit, ValueInv, IsPlan
<1>2. CASE Value!NextDay
  <2>1. date \in Nat \ {0} /\ Value!LastDay \in Nat BY DaysAre DEF ValueInv
  <2>2. date' = date + 1 /\ date' \in Value!Days /\ date' - 1 = date
    BY <1>2, <2>1 DEF Value!NextDay, Value!Days
  <2>3. last' = [figures |-> Value!Figures(configured, date), licence |-> Value!StatusValue(expiry, date)]
    BY <1>2 DEF Value!NextDay, Value!Now
  <2>4. configured' = configured /\ expiry' = expiry BY <1>2 DEF Value!NextDay
  <2> QED BY <2>2, <2>3, <2>4 DEF ValueInv, IsPlan
<1> QED BY <1>1, <1>2 DEF Value!Next

LEMMA ValueInitInv == ASSUME Value!Init PROVE ValueInv
BY DaysAre DEF Value!Init, ValueInv, IsPlan, Value!None

\* What was computed a day ago is that of the plan and of the licence of today.
THEOREM ValueInvariant == Spec => [](study = "value" => ValueInv)
<1>1. Init => (study = "value" => ValueInv) BY ValueInitInv DEF Init
<1>2. (study = "value" => ValueInv) /\ [Next]_vars => (study = "value" => ValueInv)'
  <2> SUFFICES ASSUME study = "value" => ValueInv, [Next]_vars, study' = "value"
               PROVE  ValueInv'
    OBVIOUS
  <2>1. CASE ValueStep BY <2>1, ValueStepKeepsInv DEF ValueStep
  <2>2. CASE RepairStep \/ PlanStep \/ DigestStep \/ AlertStep \/ TimelineStep
    BY <2>2 DEF RepairStep, PlanStep, DigestStep, AlertStep, TimelineStep
  <2>3. CASE UNCHANGED vars BY <2>3 DEF vars, valueVars, ValueInv, IsPlan
  <2> QED BY <2>1, <2>2, <2>3 DEF Next
<1> QED BY <1>1, <1>2, PTL DEF Spec

\* For any amounts, terms, rates and calendar: the months are the monthly dates of the start
\* that have come, what an asset is worth falls from its price to its residual value and
\* never rises, what is shown adds up to a cent (depreciation.py), and the three readings of
\* a licence's status agree (license_status.py).
THEOREM ValuesHold == Spec => []ValuesAreSteady
<1>1. ASSUME ValueInv PROVE Value!FiguresAreSteady
  <2> PICK f, l : f = Value!Now.figures /\ l = last.figures OBVIOUS
  <2>1. f = Value!Figures(configured, date) BY DEF Value!Now
  <2>2. date \in Value!Days BY <1>1 DEF ValueInv
  <2>3. f.status # "unconfigured" => IsPlan(configured)
    <3> SUFFICES ASSUME configured = Value!Unconfigured PROVE f.status = "unconfigured"
      BY <1>1 DEF ValueInv
    <3>1. f = [status |-> "unconfigured"] BY <2>1 DEF Value!Figures
    <3> QED BY <3>1
  <2>4. ASSUME f.status # "unconfigured"
        PROVE  /\ f.months = Value!Cardinality(Value!Anniversaries(configured.start))
               /\ f.residual <= f.net /\ f.net <= f.original
               /\ f.net + f.accumulated - f.original \in {0, 1}
               /\ f.status = "fully_depreciated" => f.net = f.residual
               /\ f.status = "not_started" => f.net = f.original
    <3>1. IsPlan(configured) BY <2>3, <2>4
    <3>2. configured.start \in Value!Days BY <3>1 DEF IsPlan, Value!Configurations
    <3>3. Value!Cardinality(Value!Anniversaries(configured.start)) = Value!Elapsed(configured.start, date)
      BY <2>2, <3>2, MonthsAreDates DEF Value!Cardinality, Cardinality
    <3> QED BY <2>1, <2>2, <3>1, <3>3, FiguresFit
  <2>5. ASSUME l.status # "unconfigured", f.status # "unconfigured"
        PROVE  /\ f.net <= l.net /\ f.accumulated >= l.accumulated
               /\ f.months - l.months \in {0, 1} /\ Value!Order(f.status) >= Value!Order(l.status)
    <3>1. last # Value!Nothing BY <2>5 DEF Value!Nothing
    <3>2. date - 1 \in Value!Days /\ l = Value!Figures(configured, date - 1) BY <1>1, <3>1 DEF ValueInv
    <3>3. date \in Nat /\ (date - 1) + 1 = date BY <2>2, DaysAre
    <3>4. IsPlan(configured) BY <2>3, <2>5
    <3> PICK d : d = date - 1 OBVIOUS
    <3>5. d \in Value!Days /\ d + 1 \in Value!Days /\ l = Value!Figures(configured, d)
          /\ f = Value!Figures(configured, d + 1)
      BY <2>1, <2>2, <3>2, <3>3
    <3> QED BY <3>4, <3>5, FiguresGrow
  <2> QED BY <2>4, <2>5 DEF Value!FiguresAreSteady
<1>2. ASSUME ValueInv PROVE Value!LicencesAgree
  <2> PICK s : s = Value!StatusValue(expiry, date) OBVIOUS
  <2>1. date \in Nat /\ expiry \in Nat /\ Notice \in Nat
    BY <1>2, DaysAre, OperationsConstants DEF ValueInv, Value!ValueConstants
  <2>2. s \in {"normal", "expiring", "expired"} /\ s = Value!StatusExpression(expiry, date)
    BY <2>1 DEF Value!StatusValue, Value!StatusExpression
  <2>3. \A x \in {"normal", "expiring", "expired"} : Value!Filtered(x, expiry, date) <=> x = s
    <3>1. Value!Filtered("normal", expiry, date) <=> "normal" = s
      BY <2>1 DEF Value!StatusValue, Value!Filtered
    <3>2. Value!Filtered("expiring", expiry, date) <=> "expiring" = s
      BY <2>1 DEF Value!StatusValue, Value!Filtered
    <3>3. Value!Filtered("expired", expiry, date) <=> "expired" = s
      BY <2>1 DEF Value!StatusValue, Value!Filtered
    <3> QED BY <3>1, <3>2, <3>3
  <2>4. last.licence = "normal" \/ last.licence = Value!StatusValue(expiry, date - 1)
    BY <1>2 DEF ValueInv, Value!Nothing
  <2>5. last.licence = "expired" => s = "expired" BY <2>1, <2>4 DEF Value!StatusValue
  <2>6. last.licence = "expiring" => s # "normal" BY <2>1, <2>4 DEF Value!StatusValue
  <2> QED BY <2>2, <2>3, <2>5, <2>6 DEF Value!LicencesAgree
<1>3. (study = "value" => ValueInv) => ValuesAreSteady
  BY <1>1, <1>2 DEF ValuesAreSteady, Value!ValuesAreSteady
<1> QED BY <1>3, ValueInvariant, PTL
-----------------------------------------------------------------------------
(* RackPlanning: free U and ranges                                           *)

\* The spans of a rack of n U; a U is covered by one of them.
SpansOf(n) == {x \in [lo : Int, hi : Int] : 1 <= x.lo /\ x.lo <= x.hi /\ x.hi <= n}
Taken(S, n) == IsFiniteSet(S) /\ S \subseteq SpansOf(n)
Covers(S, u) == \E x \in S : x.lo <= u /\ u <= x.hi
Free(S, n, u) == u \in Plan!FreeUnits(S, n)

\* A U is free when no span covers it and it is no gap between two spans.
LEMMA FreeIs ==
  ASSUME NEW S \in SUBSET [lo : Int, hi : Int], NEW n \in Int, NEW u \in Int
  PROVE  Free(S, n, u) <=> /\ 1 <= u /\ u <= n /\ ~Covers(S, u)
                           /\ ~\E y, z \in S : y.hi = u - 1 /\ z.lo = u + 1
<1>1. \A x \in S : x.lo \in Int /\ x.hi \in Int OBVIOUS
<1>2. u \in Plan!Covered(S) <=> Covers(S, u)
  BY <1>1 DEF Plan!Covered, Plan!Units, Covers
<1>3. u \in Plan!GapUnits(S) <=> ~Covers(S, u) /\ \E y, z \in S : y.hi = u - 1 /\ z.lo = u + 1
  BY <1>1, <1>2 DEF Plan!GapUnits
<1> QED BY <1>2, <1>3 DEF Free, Plan!FreeUnits

\* Nothing becomes free by what is placed.
LEMMA FreeShrinks ==
  ASSUME NEW R \in SUBSET [lo : Int, hi : Int], NEW S \in SUBSET R, NEW n \in Int, NEW u \in Int, Free(R, n, u)
  PROVE  Free(S, n, u)
<1>1. S \in SUBSET [lo : Int, hi : Int] OBVIOUS
<1> QED BY <1>1, FreeIs DEF Covers

\* A range is a longest run of free U, between the ends of the rack and its devices.
LEMMA RangeIs ==
  ASSUME NEW n \in Nat, NEW S, Taken(S, n), NEW x \in Plan!AvailableRanges(S, n)
  PROVE  /\ x \in SpansOf(n)
         /\ \A u \in x.lo .. x.hi : Free(S, n, u)
         /\ ~Free(S, n, x.lo - 1) /\ ~Free(S, n, x.hi + 1)
         /\ x.lo > 1 => Covers(S, x.lo - 1)
         /\ x.hi < n => Covers(S, x.hi + 1)
         /\ x.lo > 1 => \E y \in S : y.hi = x.lo - 1
         /\ x.hi < n => \E z \in S : z.lo = x.hi + 1
<1> DEFINE free == Plan!FreeUnits(S, n)
<1>1. S \in SUBSET [lo : Int, hi : Int] /\ \A y \in S : y.lo \in Int /\ y.hi \in Int /\ y.lo <= y.hi
  BY DEF Taken, SpansOf
<1>2. free \subseteq 1 .. n BY DEF Plan!FreeUnits
<1>3. PICK a, b \in free : x = [lo |-> a, hi |-> b] /\ a - 1 \notin free /\ b + 1 \notin free
                           /\ a <= b /\ a .. b \subseteq free
  BY DEF Plan!AvailableRanges, Plan!Units
<1>4. a \in Int /\ b \in Int /\ 1 <= a /\ b <= n /\ x.lo = a /\ x.hi = b BY <1>2, <1>3
<1>5. /\ \A u \in a .. b : Free(S, n, u)
      /\ ~Free(S, n, a - 1) /\ ~Free(S, n, b + 1)
  BY <1>3 DEF Free
<1>6. ~Covers(S, a) /\ ~Covers(S, b) BY <1>1, <1>3, <1>4, <1>5, FreeIs
<1>7. ASSUME a > 1 PROVE \E y \in S : y.hi = a - 1
  <2>1. CASE Covers(S, a - 1)
    <3>1. PICK y \in S : y.lo <= a - 1 /\ a - 1 <= y.hi BY <2>1 DEF Covers
    <3>2. ~(y.lo <= a /\ a <= y.hi) BY <1>6 DEF Covers
    <3> QED BY <1>1, <1>4, <3>1, <3>2
  <2>2. CASE ~Covers(S, a - 1)
    <3>1. PICK y, z \in S : y.hi = (a - 1) - 1 /\ z.lo = (a - 1) + 1
      BY <1>1, <1>3, <1>4, <1>5, <1>7, <2>2, FreeIs
    <3>2. ~(z.lo <= a /\ a <= z.hi) BY <1>6 DEF Covers
    <3> QED BY <1>1, <1>4, <3>1, <3>2
  <2> QED BY <2>1, <2>2
<1>8. ASSUME b < n PROVE \E z \in S : z.lo = b + 1
  <2>1. CASE Covers(S, b + 1)
    <3>1. PICK z \in S : z.lo <= b + 1 /\ b + 1 <= z.hi BY <2>1 DEF Covers
    <3>2. ~(z.lo <= b /\ b <= z.hi) BY <1>6 DEF Covers
    <3> QED BY <1>1, <1>4, <3>1, <3>2
  <2>2. CASE ~Covers(S, b + 1)
    <3>1. PICK y, z \in S : y.hi = (b + 1) - 1 /\ z.lo = (b + 1) + 1
      BY <1>1, <1>3, <1>4, <1>5, <1>8, <2>2, FreeIs
    <3>2. ~(y.lo <= b /\ b <= y.hi) BY <1>6 DEF Covers
    <3> QED BY <1>1, <1>4, <3>1, <3>2
  <2> QED BY <2>1, <2>2
<1>9. (a > 1 => Covers(S, a - 1)) /\ (b < n => Covers(S, b + 1))
  BY <1>1, <1>7, <1>8 DEF Covers
<1> QED BY <1>3, <1>4, <1>5, <1>7, <1>8, <1>9 DEF SpansOf

\* Ranges have no U in common.
LEMMA RangesApart ==
  ASSUME NEW n \in Nat, NEW S, Taken(S, n), NEW x \in Plan!AvailableRanges(S, n),
         NEW y \in Plan!AvailableRanges(S, n), NEW u \in x.lo .. x.hi, u \in y.lo .. y.hi
  PROVE  x = y
<1>1. /\ x \in SpansOf(n) /\ y \in SpansOf(n)
      /\ \A v \in x.lo .. x.hi : Free(S, n, v)
      /\ \A v \in y.lo .. y.hi : Free(S, n, v)
      /\ ~Free(S, n, x.lo - 1) /\ ~Free(S, n, x.hi + 1) /\ ~Free(S, n, y.lo - 1) /\ ~Free(S, n, y.hi + 1)
  BY RangeIs
<1>2. x.lo - 1 \notin y.lo .. y.hi /\ x.hi + 1 \notin y.lo .. y.hi
      /\ y.lo - 1 \notin x.lo .. x.hi /\ y.hi + 1 \notin x.lo .. x.hi BY <1>1
<1>3. x.lo = y.lo /\ x.hi = y.hi BY <1>1, <1>2 DEF SpansOf
<1> QED BY <1>1, <1>3 DEF SpansOf

\* A set of numbers has a smallest.
LEMMA Smallest ==
  ASSUME NEW T \in SUBSET Nat, NEW t \in T
  PROVE  \E x \in T : \A y \in T : x <= y
<1>1. PICK x \in T : \A y \in T : <<y, x>> \notin OpToRel(<, Nat) BY WFMin, NatLessThanWellFounded
<1>2. ASSUME NEW y \in T, y < x PROVE <<y, x>> \in OpToRel(<, Nat) BY <1>2 DEF OpToRel
<1>3. ASSUME NEW y \in T PROVE ~(y < x) BY <1>1, <1>2, Zenon
<1> QED BY <1>3

\* Every free U lies in a range.
LEMMA InARange ==
  ASSUME NEW n \in Nat, NEW S, Taken(S, n), NEW u \in Int, Free(S, n, u)
  PROVE  \E x \in Plan!AvailableRanges(S, n) : u \in x.lo .. x.hi
<1> DEFINE free == Plan!FreeUnits(S, n)
           A == {a \in Nat : a <= u /\ a .. u \subseteq free}
           B == {c \in Nat : u <= n - c /\ u .. n - c \subseteq free}
<1>1. free \subseteq 1 .. n /\ u \in free BY DEF Plan!FreeUnits, Free
<1>2. u \in A /\ n - u \in B BY <1>1
<1>3. PICK a \in A : \A d \in A : a <= d
  <2>1. A \in SUBSET Nat OBVIOUS
  <2> HIDE DEF A
  <2> QED BY <1>2, <2>1, Smallest
<1>4. PICK c \in B : \A d \in B : c <= d
  <2>1. B \in SUBSET Nat OBVIOUS
  <2> HIDE DEF B
  <2> QED BY <1>2, <2>1, Smallest
<1>5. a - 1 \notin free
  <2> SUFFICES ASSUME a - 1 \in free PROVE a - 1 \in A BY <1>3
  <2>1. a - 1 \in Nat BY <1>1
  <2>2. \A v \in a - 1 .. u : v = a - 1 \/ v \in a .. u OBVIOUS
  <2> QED BY <1>3, <2>1, <2>2
<1>6. (n - c) + 1 \notin free
  <2> SUFFICES ASSUME (n - c) + 1 \in free PROVE c - 1 \in B BY <1>4
  <2>1. c - 1 \in Nat /\ n - (c - 1) = (n - c) + 1 BY <1>1
  <2>2. \A v \in u .. n - (c - 1) : v = (n - c) + 1 \/ v \in u .. n - c OBVIOUS
  <2> QED BY <1>4, <2>1, <2>2
<1> PICK x : x = [lo |-> a, hi |-> n - c] OBVIOUS
<1>7. a .. n - c \subseteq free /\ a \in free /\ n - c \in free /\ a <= n - c
  <2>1. \A v \in a .. n - c : v \in a .. u \/ v \in u .. n - c OBVIOUS
  <2> QED BY <1>3, <1>4, <2>1
<1>8. x \in Plan!AvailableRanges(S, n) BY <1>5, <1>6, <1>7 DEF Plan!AvailableRanges, Plan!Units
<1> QED BY <1>8

\* So does every span that fits.
LEMMA SpanInARange ==
  ASSUME NEW n \in Nat, NEW S, Taken(S, n), NEW a \in Int, NEW b \in Int, a <= b,
         \A u \in a .. b : Free(S, n, u)
  PROVE  \E x \in Plan!AvailableRanges(S, n) : x \in SpansOf(n) /\ x.lo <= a /\ b <= x.hi
<1>1. PICK x \in Plan!AvailableRanges(S, n) : a \in x.lo .. x.hi BY InARange
<1>2. x \in SpansOf(n) /\ ~Free(S, n, x.hi + 1) BY RangeIs
<1>3. x.hi + 1 \notin a .. b BY <1>2
<1> QED BY <1>1, <1>2, <1>3 DEF SpansOf

-----------------------------------------------------------------------------
(* RackPlanning: the places of a plan                                        *)

\* Multiples of a height.
LEMMA Multiples ==
  ASSUME NEW h \in Nat \ {0}, NEW a \in Int, NEW b \in Int
  PROVE  /\ a * h \in Int /\ (a - 1) * h = a * h - h /\ (a + 1) * h = a * h + h
         /\ a <= b => a * h <= b * h
         /\ a < b => a * h + h <= b * h
         /\ a >= 0 => a * h >= 0
OBVIOUS

Size(x) == x.hi - x.lo + 1
Packed(x, n, h, i) == Plan!Pack(x, n, h, i)

\* As many devices as a range has room for, but one less if they are of 1U and both of
\* its ends have a neighbour.
LEMMA CapacityIs ==
  ASSUME NEW n \in Nat, NEW x \in SpansOf(n), NEW h \in Nat \ {0}
  PROVE  \E c \in Nat : /\ Plan!Capacity(x, n, h) = c
                        /\ c * h <= Size(x) /\ c <= Size(x)
                        /\ h = 1 => c = IF Plan!Bounded(x, n) THEN Size(x) - 1 ELSE Size(x)
                        /\ h # 1 => Size(x) < c * h + h
<1> DEFINE L == Size(x)
<1>1. L \in Nat \ {0} BY DEF Size, SpansOf
<1> HIDE DEF L
<1>2. Plan!Length(x) = L BY DEF L, Size, Plan!Length
<1>3. CASE h = 1
  <2> PICK c : c = IF Plan!Bounded(x, n) THEN L - 1 ELSE L OBVIOUS
  <2>1. L \div 1 = L BY <1>1
  <2>2. Plan!Capacity(x, n, h) = c BY <1>2, <1>3, <2>1 DEF Plan!Capacity
  <2>3. c \in Nat /\ c <= L /\ c * 1 = c BY <1>1
  <2> QED BY <1>1, <1>3, <2>2, <2>3 DEF L
<1>4. CASE h # 1
  <2> PICK c \in Int : c = L \div h /\ h * c <= L /\ L < h * c + h BY <1>1, Division
  <2>1. Plan!Capacity(x, n, h) = c BY <1>2, <1>4 DEF Plan!Capacity
  <2>2. c >= 0
    <3> SUFFICES ASSUME c + 1 <= 0 PROVE FALSE OBVIOUS
    <3>1. h * c + h <= h * 0 BY Scaled
    <3> QED BY <1>1, <3>1
  <2>3. c * h = h * c /\ c <= c * h BY <2>2
  <2> QED BY <1>1, <1>4, <2>1, <2>2, <2>3 DEF L
<1> QED BY <1>3, <1>4

\* Downwards from the device above, or upwards.
Down(x, n) == x.lo = 1 /\ x.hi < n

\* The devices of a range lie in it and do not overlap.
LEMMA PackIs ==
  ASSUME NEW n \in Nat, NEW x \in SpansOf(n), NEW h \in Nat \ {0}, NEW i \in 1 .. Plan!Capacity(x, n, h)
  PROVE  /\ Packed(x, n, h, i) \in [lo : Int, hi : Int]
         /\ Packed(x, n, h, i).lo = IF Down(x, n) THEN x.hi - i * h + 1 ELSE x.lo + (i - 1) * h
         /\ Packed(x, n, h, i).hi = Packed(x, n, h, i).lo + h - 1
         /\ x.lo <= Packed(x, n, h, i).lo /\ Packed(x, n, h, i).hi <= x.hi
<1> PICK c \in Nat : c = Plan!Capacity(x, n, h) /\ c * h <= Size(x) BY CapacityIs
<1> DEFINE p == Packed(x, n, h, i)
           low == IF Down(x, n) THEN x.hi - i * h + 1 ELSE x.lo + (i - 1) * h
<1>1. x.lo \in Int /\ x.hi \in Int /\ i \in Int /\ i <= c /\ i >= 1 BY DEF SpansOf
<1>2. i * h <= c * h /\ i * h \in Int /\ (i - 1) * h = i * h - h /\ (i - 1) * h >= 0
  BY <1>1, Multiples
<1>3. p = [lo |-> low, hi |-> low + h - 1]
  BY <1>1, <1>2 DEF Packed, Plan!Pack, Plan!Span, Down
<1>4. low \in Int BY <1>1, <1>2
<1>5. x.lo <= low /\ low + h - 1 <= x.hi BY <1>1, <1>2 DEF Size
<1> HIDE DEF low
<1>6. p \in [lo : Int, hi : Int] /\ p.lo = low /\ p.hi = p.lo + h - 1 /\ x.lo <= p.lo /\ p.hi <= x.hi
  BY <1>3, <1>4, <1>5
<1> QED BY <1>6 DEF low

LEMMA PacksApart ==
  ASSUME NEW n \in Nat, NEW x \in SpansOf(n), NEW h \in Nat \ {0},
         NEW i \in 1 .. Plan!Capacity(x, n, h), NEW j \in 1 .. Plan!Capacity(x, n, h), i # j
  PROVE  \/ Packed(x, n, h, i).hi < Packed(x, n, h, j).lo
         \/ Packed(x, n, h, j).hi < Packed(x, n, h, i).lo
<1>1. Plan!Capacity(x, n, h) \in Nat BY CapacityIs
<1>2. i \in Int /\ j \in Int /\ x.lo \in Int /\ x.hi \in Int BY <1>1 DEF SpansOf
<1>3. /\ i * h \in Int /\ j * h \in Int /\ (i - 1) * h = i * h - h /\ (j - 1) * h = j * h - h
      /\ i < j => i * h + h <= j * h
      /\ j < i => j * h + h <= i * h
  BY <1>2, Multiples
<1>4. i < j \/ j < i BY <1>2
<1> PICK a, b : a = Packed(x, n, h, i).lo /\ b = Packed(x, n, h, j).lo OBVIOUS
<1>5. /\ a = IF Down(x, n) THEN x.hi - i * h + 1 ELSE x.lo + (i - 1) * h
      /\ b = IF Down(x, n) THEN x.hi - j * h + 1 ELSE x.lo + (j - 1) * h
      /\ Packed(x, n, h, i).hi = a + h - 1 /\ Packed(x, n, h, j).hi = b + h - 1
  BY PackIs
<1>6. CASE Down(x, n)
  <2>1. a = x.hi - i * h + 1 /\ b = x.hi - j * h + 1 BY <1>5, <1>6
  <2>2. a + h <= b \/ b + h <= a BY <1>2, <1>3, <1>4, <2>1
  <2> QED BY <1>2, <1>3, <1>5, <2>1, <2>2
<1>7. CASE ~Down(x, n)
  <2>1. a = x.lo + (i * h - h) /\ b = x.lo + (j * h - h) BY <1>3, <1>5, <1>7
  <2>2. a + h <= b \/ b + h <= a BY <1>2, <1>3, <1>4, <2>1
  <2> QED BY <1>2, <1>3, <1>5, <2>1, <2>2
<1> QED BY <1>6, <1>7

LEMMA PlanCardinality == ASSUME NEW S PROVE Plan!Cardinality(S) = Cardinality(S)
BY DEF Plan!Cardinality, Cardinality

\* The order of the places.
Sooner(S) == {p \in S \X S : Plan!Earlier(p[1], p[2])}
RankIn(P, s) == Cardinality(Ahead(Sooner(P), P, s))

LEMMA SoonerIs ==
  ASSUME NEW P, NEW s \in P, NEW t \in P
  PROVE  <<s, t>> \in Sooner(P) <=> s[1].lo < t[1].lo \/ (s[1] = t[1] /\ s[2] < t[2])
BY DEF Sooner, Plan!Earlier

\* There are finitely many places, each a range with the number of a device of it, and
\* they come one after the other.
LEMMA PlacesAre ==
  ASSUME NEW n \in Nat, NEW S, Taken(S, n), NEW h \in Nat \ {0}, NEW P, P = Plan!Places(S, n, h)
  PROVE  /\ \A x \in Plan!AvailableRanges(S, n) : \A i \in 1 .. Plan!Capacity(x, n, h) : <<x, i>> \in P
         /\ \A s \in P : /\ s[1] \in Plan!AvailableRanges(S, n) /\ s[1] \in SpansOf(n)
                         /\ s[2] \in 1 .. Plan!Capacity(s[1], n, h) /\ s[2] \in Int /\ s[2] >= 1
                         /\ s = <<s[1], s[2]>>
         /\ IsFiniteSet(P)
         /\ Orders(Sooner(P), P)
<1> DEFINE ranges == Plan!AvailableRanges(S, n)
<1>1. ASSUME NEW x \in ranges PROVE x \in SpansOf(n) /\ Plan!Capacity(x, n, h) \in 0 .. n
  <2>1. x \in SpansOf(n) BY RangeIs
  <2>2. PICK c \in Nat : Plan!Capacity(x, n, h) = c /\ c <= Size(x) BY <2>1, CapacityIs
  <2>3. Size(x) <= n /\ Size(x) \in Int BY <2>1 DEF Size, SpansOf
  <2> QED BY <2>1, <2>2, <2>3
<1>2. \A x \in ranges : \A i \in 1 .. Plan!Capacity(x, n, h) : <<x, i>> \in P BY DEF Plan!Places
<1>3. ASSUME NEW s \in P
      PROVE  /\ s[1] \in ranges /\ s[1] \in SpansOf(n)
             /\ s[2] \in 1 .. Plan!Capacity(s[1], n, h) /\ s[2] \in Int /\ s[2] >= 1 /\ s[2] <= n
             /\ s = <<s[1], s[2]>>
  <2>1. PICK x \in ranges : \E i \in 1 .. Plan!Capacity(x, n, h) : s = <<x, i>> BY DEF Plan!Places
  <2>2. PICK i \in 1 .. Plan!Capacity(x, n, h) : s = <<x, i>> BY <2>1
  <2>3. i \in Int /\ i >= 1 /\ i <= n BY <1>1
  <2> QED BY <1>1, <2>2, <2>3
<1>4. IsFiniteSet(P)
  <2> DEFINE T == 1 .. n
             code == [s \in P |-> <<s[1].lo, s[2]>>]
  <2>1. code \in [P -> T \X T]
    <3> SUFFICES ASSUME NEW s \in P PROVE s[1].lo \in T /\ s[2] \in T OBVIOUS
    <3> QED BY <1>3 DEF SpansOf
  <2>2. ASSUME NEW s \in P, NEW t \in P, code[s] = code[t] PROVE s = t
    <3>1. s[1].lo = t[1].lo /\ s[2] = t[2] BY <2>2
    <3>2. s[1].lo \in s[1].lo .. s[1].hi /\ s[1].lo \in t[1].lo .. t[1].hi BY <1>3, <3>1 DEF SpansOf
    <3>3. s[1] = t[1] BY <1>3, <3>2, RangesApart
    <3> QED BY <1>3, <3>1, <3>3
  <2>3. IsFiniteSet(T) BY FS_Interval
  <2> HIDE DEF T, code
  <2>4. IsFiniteSet(T \X T) BY <2>3, FS_Product
  <2>5. code \in Injection(P, T \X T) BY <2>1, <2>2, Fun_IsInj
  <2> QED BY <2>4, <2>5, FS_Injection
<1>5. Orders(Sooner(P), P)
  <2>1. ASSUME NEW s \in P, NEW t \in P, s # t PROVE <<s, t>> \in Sooner(P) \/ <<t, s>> \in Sooner(P)
    <3>1. /\ s[1].lo \in Int /\ t[1].lo \in Int /\ s[2] \in Int /\ t[2] \in Int
          /\ s[1].lo \in s[1].lo .. s[1].hi /\ t[1].lo \in t[1].lo .. t[1].hi
      BY <1>3 DEF SpansOf
    <3>2. CASE s[1].lo = t[1].lo
      <4>1. s[1] = t[1] BY <1>3, <3>1, <3>2, RangesApart
      <4>2. s[2] # t[2] BY <1>3, <2>1, <4>1
      <4>3. s[2] < t[2] \/ t[2] < s[2] BY <3>1, <4>2
      <4> QED BY <4>1, <4>3, SoonerIs
    <3>3. CASE s[1].lo # t[1].lo
      <4>1. s[1].lo < t[1].lo \/ t[1].lo < s[1].lo BY <3>1, <3>3
      <4> QED BY <4>1, SoonerIs
    <3> QED BY <3>2, <3>3
  <2>2. ASSUME NEW s \in P PROVE <<s, s>> \notin Sooner(P)
    <3>1. s[1].lo \in Int /\ s[2] \in Int BY <1>3 DEF SpansOf
    <3> QED BY <3>1, SoonerIs
  <2>3. ASSUME NEW s \in P, NEW t \in P, NEW v \in P, <<s, t>> \in Sooner(P), <<t, v>> \in Sooner(P)
        PROVE  <<s, v>> \in Sooner(P)
    <3>1. /\ s[1].lo \in Int /\ t[1].lo \in Int /\ v[1].lo \in Int
          /\ s[2] \in Int /\ t[2] \in Int /\ v[2] \in Int
      BY <1>3 DEF SpansOf
    <3>2. s[1].lo < t[1].lo \/ (s[1] = t[1] /\ s[2] < t[2]) BY <2>3, SoonerIs
    <3>3. t[1].lo < v[1].lo \/ (t[1] = v[1] /\ t[2] < v[2]) BY <2>3, SoonerIs
    <3>4. s[1].lo < v[1].lo \/ (s[1] = v[1] /\ s[2] < v[2]) BY <3>1, <3>2, <3>3
    <3> QED BY <3>4, SoonerIs
  <2> QED BY <2>1, <2>2, <2>3 DEF Orders
<1> QED BY <1>2, <1>3, <1>4, <1>5

\* The ranks of the places that are filled.
LEMMA RanksFilled ==
  ASSUME NEW P, IsFiniteSet(P), Orders(Sooner(P), P), NEW s \in P
  PROVE  /\ RankIn(P, s) \in Nat
         /\ Plan!Rank(s, P) = RankIn(P, s)
         /\ \A t \in P : RankIn(P, s) = RankIn(P, t) => s = t
         /\ \A t \in P : <<s, t>> \in Sooner(P) => RankIn(P, s) < RankIn(P, t)
<1>1. /\ \A x \in P : RankIn(P, x) \in 0 .. Cardinality(P) - 1
      /\ \A x, y \in P : <<x, y>> \in Sooner(P) => RankIn(P, x) < RankIn(P, y)
  BY Ranks DEF RankIn
<1>2. \A x \in P : RankIn(P, x) \in Nat
  <2>1. Cardinality(P) \in Nat BY FS_CardinalityType
  <2> QED BY <1>1, <2>1
<1>3. Plan!Rank(s, P) = RankIn(P, s)
  <2>1. {t \in P : Plan!Earlier(t, s)} = Ahead(Sooner(P), P, s) BY DEF Ahead, Sooner
  <2> QED BY <2>1, PlanCardinality DEF Plan!Rank, RankIn
<1>4. ASSUME NEW t \in P, RankIn(P, s) = RankIn(P, t) PROVE s = t
  <2> SUFFICES ASSUME s # t PROVE FALSE OBVIOUS
  <2>1. RankIn(P, s) < RankIn(P, t) \/ RankIn(P, t) < RankIn(P, s) BY <1>1 DEF Orders
  <2> QED BY <1>2, <1>4, <2>1
<1> QED BY <1>1, <1>2, <1>3, <1>4

\* The plan has as many spans as were asked for, or as there are places, and the k-th is
\* the span of the place that comes after k - 1 others.
LEMMA PlanIs ==
  ASSUME NEW n \in Nat, NEW S, Taken(S, n), NEW h \in Nat \ {0}, NEW q \in Nat,
         NEW P, P = Plan!Places(S, n, h)
  PROVE  /\ Cardinality(P) \in Nat
         /\ Plan!Len(Plan!Plan(S, n, h, q)) = Least(q, Cardinality(P))
         /\ \A k \in 1 .. Least(q, Cardinality(P)) :
              \E s \in P : /\ RankIn(P, s) = k - 1
                           /\ Plan!Plan(S, n, h, q)[k] = Packed(s[1], n, h, s[2])
<1> DEFINE chosen == {s \in P : Plan!Rank(s, P) < q}
           next(k) == CHOOSE s \in chosen : Plan!Rank(s, P) = k - 1
           m == Least(q, Cardinality(P))
<1>1. IsFiniteSet(P) /\ Orders(Sooner(P), P) BY PlacesAre
<1>2. Cardinality(P) \in Nat /\ m \in Nat /\ m <= q BY <1>1, FS_CardinalityType DEF Least
<1>3. Cardinality(chosen) = m
  <2>1. chosen = First(Sooner(P), P, q) BY <1>1, RanksFilled DEF First, RankIn
  <2> QED BY <1>1, <2>1, FirstAre
<1>4. Plan!Plan(S, n, h, q) = [k \in 1 .. m |-> Packed(next(k)[1], n, h, next(k)[2])]
  <2>1. Plan!Cardinality(chosen) = m BY <1>3, PlanCardinality
  <2> QED BY <2>1 DEF Plan!Plan, Packed
<1>5. ASSUME NEW k \in 1 .. m PROVE next(k) \in P /\ RankIn(P, next(k)) = k - 1
  <2> DEFINE f == [s \in chosen |-> RankIn(P, s)]
  <2>1. f \in Injection(chosen, 0 .. m - 1)
    <3>1. ASSUME NEW s \in chosen PROVE f[s] \in 0 .. m - 1
      <4>1. RankIn(P, s) < q BY <1>1, RanksFilled
      <4>2. RankIn(P, s) \in 0 .. Cardinality(P) - 1 BY <1>1, Ranks DEF RankIn
      <4> QED BY <1>2, <4>1, <4>2 DEF Least
    <3>2. \A s, t \in chosen : f[s] = f[t] => s = t BY <1>1, RanksFilled
    <3> QED BY <3>1, <3>2, Fun_IsInj
  <2>2. \A c \in Nat : IsFiniteSet(0 .. c - 1) /\ Cardinality(0 .. c - 1) = c BY FS_Interval
  <2> DEFINE T == 0 .. m - 1
  <2>3. f \in Surjection(chosen, T)
    <3>1. IsFiniteSet(T) /\ Cardinality(T) = m BY <1>2, <2>2
    <3> HIDE DEF f, chosen, m
    <3> QED BY <1>3, <2>1, <3>1, FS_Injection
  <2>4. \E s \in chosen : f[s] = k - 1
    <3>1. k - 1 \in T BY <1>2
    <3> HIDE DEF f, chosen, T
    <3> QED BY <2>3, <3>1, Fun_SurjectionProperties
  <2>5. \E s \in chosen : Plan!Rank(s, P) = k - 1 BY <1>1, <2>4, RanksFilled
  <2>6. next(k) \in chosen /\ Plan!Rank(next(k), P) = k - 1 BY <2>5
  <2> QED BY <1>1, <2>6, RanksFilled
<1>6. Plan!Len(Plan!Plan(S, n, h, q)) = m BY <1>2, <1>4
<1> QED BY <1>2, <1>4, <1>5, <1>6

-----------------------------------------------------------------------------
(* RackPlanning: the invariant                                               *)

Added == spans \ start
ThePlaces == Plan!Places(start, total, height)

\* The devices placed so far have one height and were put where U was free, each apart
\* from the others; with 1U devices a range between two neighbours keeps a free U; and
\* who follows the plan has filled its first places.
PlanTyped ==
    /\ total \in Nat /\ height \in Nat \ {0} /\ quantity \in Nat /\ followed \in BOOLEAN
    /\ Taken(start, total) /\ start \subseteq spans /\ IsFiniteSet(spans)
NewFits ==
    \A s \in Added : /\ s \in [lo : Int, hi : Int] /\ s.hi = s.lo + height - 1
                   /\ \A u \in s.lo .. s.hi : Free(start, total, u)
NewApart == \A s, t \in Added : s # t => s.hi < t.lo \/ t.hi < s.lo
OneIsKept ==
    height = 1 => \A x \in Plan!AvailableRanges(start, total) :
                     Plan!Bounded(x, total) => \E g \in x.lo .. x.hi : ~Covers(spans, g)
PlanFollowed ==
    followed => Added = {Packed(s[1], total, height, s[2]) :
                          s \in {t \in ThePlaces : RankIn(ThePlaces, t) < Cardinality(Added)}}

PlanInv == PlanTyped /\ NewFits /\ NewApart /\ OneIsKept /\ PlanFollowed

\* All spans lie in the rack.
LEMMA SpansInside ==
  ASSUME PlanTyped, NewFits
  PROVE  /\ spans \subseteq SpansOf(total) /\ spans \in SUBSET [lo : Int, hi : Int]
         /\ start \in SUBSET [lo : Int, hi : Int] /\ start \in SUBSET spans
         /\ \A s \in Added : s.lo <= s.hi /\ s.lo \in Int /\ s.hi \in Int
         /\ Cardinality(Added) \in Nat /\ IsFiniteSet(Added)
         /\ Plan!Placed = Cardinality(Added)
<1>1. start \in SUBSET SpansOf(total) /\ start \in SUBSET [lo : Int, hi : Int]
  BY DEF PlanTyped, Taken, SpansOf
<1>2. ASSUME NEW s \in Added PROVE s \in SpansOf(total)
  <2>1. s \in [lo : Int, hi : Int] /\ s.lo \in Int /\ s.hi \in Int /\ s.lo <= s.hi
    BY DEF NewFits, PlanTyped
  <2>2. Free(start, total, s.lo) /\ Free(start, total, s.hi) BY <2>1 DEF NewFits
  <2>3. 1 <= s.lo /\ s.hi <= total BY <1>1, <2>1, <2>2, FreeIs DEF PlanTyped
  <2> QED BY <2>1, <2>3 DEF SpansOf
<1>3. spans \subseteq SpansOf(total) BY <1>1, <1>2 DEF Added
<1>4. spans \in SUBSET [lo : Int, hi : Int] BY <1>3 DEF SpansOf
<1>5. \A s \in Added : s.lo <= s.hi /\ s.lo \in Int /\ s.hi \in Int BY <1>2 DEF SpansOf
<1>6. /\ IsFiniteSet(Added) /\ Cardinality(Added) \in Nat
      /\ Cardinality(Added) = Cardinality(spans) - Cardinality(start)
  <2>1. IsFiniteSet(spans) /\ IsFiniteSet(start) /\ spans \cap start = start BY DEF PlanTyped, Taken
  <2>2. IsFiniteSet(Added) /\ Cardinality(Added) = Cardinality(spans) - Cardinality(spans \cap start)
    BY <2>1, FS_Difference DEF Added
  <2> QED BY <2>1, <2>2, FS_CardinalityType
<1>7. Plan!Placed = Cardinality(Added) BY <1>6, PlanCardinality DEF Plan!Placed
<1> QED BY <1>1, <1>3, <1>4, <1>5, <1>6, <1>7 DEF PlanTyped

\* What is covered now and was free when the plan was made is covered by a new span.
LEMMA CoveredByNew ==
  ASSUME PlanTyped, NewFits, NEW u \in Int, Free(start, total, u), Covers(spans, u)
  PROVE  \E s \in Added : s.lo <= u /\ u <= s.hi
<1>1. ~Covers(start, u) BY SpansInside, FreeIs DEF PlanTyped
<1> QED BY <1>1 DEF Covers, Added

LEMMA SameDistance ==
  ASSUME NEW a \in Int, NEW b \in Int, NEW c \in Int, a - c + 1 = b - c + 1
  PROVE  a = b
OBVIOUS

\* No order of writes gets more devices into the rack than its ranges have places.
LEMMA PlacedBounded ==
  ASSUME PlanTyped, NewFits, NewApart, OneIsKept
  PROVE  IsFiniteSet(ThePlaces) /\ Cardinality(Added) <= Cardinality(ThePlaces)
<1> DEFINE ranges == Plan!AvailableRanges(start, total)
           In(s, x) == x \in SpansOf(total) /\ x.lo <= s.lo /\ s.hi <= x.hi
           range(s) == CHOOSE x \in ranges : In(s, x)
           hole(x) == CHOOSE g \in x.lo .. x.hi : ~Covers(spans, g)
           number(s) ==
             IF height # 1 THEN (s.lo - range(s).lo) \div height + 1
             ELSE IF Plan!Bounded(range(s), total) /\ s.lo = range(s).hi THEN hole(range(s)) - range(s).lo + 1
             ELSE s.lo - range(s).lo + 1
           f == [s \in Added |-> <<range(s), number(s)>>]
<1>1. total \in Nat /\ height \in Nat \ {0} /\ Taken(start, total) BY DEF PlanTyped
<1>2. ASSUME NEW s \in Added
      PROVE  /\ range(s) \in ranges /\ In(s, range(s))
             /\ range(s).lo \in Int /\ range(s).hi \in Int /\ range(s).lo <= range(s).hi
             /\ s.lo \in Int /\ s.hi \in Int /\ s.hi = s.lo + height - 1
  <2>1. s.lo \in Int /\ s.hi \in Int /\ s.lo <= s.hi /\ s.hi = s.lo + height - 1
        /\ \A u \in s.lo .. s.hi : Free(start, total, u)
    BY SpansInside DEF NewFits
  <2>2. \E x \in ranges : In(s, x) BY <1>1, <2>1, SpanInARange
  <2>3. range(s) \in ranges /\ In(s, range(s)) BY <2>2
  <2> HIDE DEF range
  <2> QED BY <2>1, <2>3 DEF SpansOf
<1>3. ASSUME NEW s \in Added, height = 1, Plan!Bounded(range(s), total)
      PROVE  hole(range(s)) \in range(s).lo .. range(s).hi /\ ~Covers(spans, hole(range(s)))
  <2> DEFINE x == range(s)
  <2>1. \E g \in x.lo .. x.hi : ~Covers(spans, g) BY <1>2, <1>3 DEF OneIsKept
  <2> HIDE DEF x
  <2>2. hole(x) \in x.lo .. x.hi /\ ~Covers(spans, hole(x)) BY <2>1
  <2> QED BY <2>2 DEF x
<1>4. ASSUME NEW s \in Added PROVE Covers(spans, s.lo) /\ Covers(spans, s.hi)
  <2>1. s.lo <= s.hi /\ s.lo \in Int /\ s.hi \in Int BY SpansInside
  <2> QED BY <2>1 DEF Covers, Added
<1> HIDE DEF range, hole
<1>5. ASSUME NEW s \in Added, height # 1
      PROVE  \E q \in Nat : /\ number(s) = q + 1 /\ height * q <= s.lo - range(s).lo
                            /\ s.lo - range(s).lo < height * q + height
                            /\ q + 1 <= Plan!Capacity(range(s), total, height)
  <2> PICK d \in Nat : d = s.lo - range(s).lo BY <1>2
  <2> PICK q \in Int : q = d \div height /\ height * q <= d /\ d < height * q + height BY <1>1, Division
  <2>1. q >= 0
    <3> SUFFICES ASSUME q + 1 <= 0 PROVE FALSE OBVIOUS
    <3>1. height * q + height <= height * 0 BY <1>1, Scaled
    <3> QED BY <1>1, <3>1
  <2> PICK c \in Nat : /\ Plan!Capacity(range(s), total, height) = c
                       /\ Size(range(s)) < c * height + height
    BY <1>1, <1>2, <1>5, CapacityIs
  <2>2. q < c
    <3> SUFFICES ASSUME c <= q PROVE FALSE OBVIOUS
    <3>1. c * height <= q * height BY <1>1, Multiples
    <3>2. q * height = height * q /\ height * q \in Int /\ c * height \in Int BY <1>1
    <3> PICK x : x = range(s) OBVIOUS
    <3>3. d = s.lo - x.lo /\ s.lo + height - 1 <= x.hi /\ x.lo \in Int /\ x.hi \in Int /\ s.lo \in Int
      BY <1>2
    <3>4. Size(x) \in Int /\ d + height <= Size(x) BY <1>1, <3>3 DEF Size
    <3> QED BY <1>1, <3>1, <3>2, <3>3, <3>4
  <2>3. number(s) = q + 1 BY <1>5
  <2> HIDE DEF number
  <2> QED BY <2>1, <2>2, <2>3
<1>6. ASSUME NEW s \in Added PROVE number(s) \in 1 .. Plan!Capacity(range(s), total, height)
  <2> PICK c \in Nat : /\ Plan!Capacity(range(s), total, height) = c
                       /\ height = 1 => c = IF Plan!Bounded(range(s), total) THEN Size(range(s)) - 1 ELSE Size(range(s))
    BY <1>1, <1>2, CapacityIs
  <2>1. CASE height # 1
    <3> HIDE DEF number
    <3> QED BY <1>5, <2>1
  <2>2. CASE height = 1 /\ ~Plan!Bounded(range(s), total)
    <3>1. number(s) = s.lo - range(s).lo + 1 BY <2>2
    <3> HIDE DEF number
    <3> QED BY <1>2, <2>2, <3>1 DEF Size
  <2>3. CASE height = 1 /\ Plan!Bounded(range(s), total) /\ s.lo = range(s).hi
    <3>1. number(s) = hole(range(s)) - range(s).lo + 1 BY <2>3
    <3>2. hole(range(s)) # range(s).hi BY <1>3, <1>4, <2>3
    <3> HIDE DEF number
    <3> QED BY <1>2, <1>3, <2>3, <3>1, <3>2 DEF Size
  <2>4. CASE height = 1 /\ Plan!Bounded(range(s), total) /\ s.lo # range(s).hi
    <3>1. number(s) = s.lo - range(s).lo + 1 BY <2>4
    <3> HIDE DEF number
    <3> QED BY <1>2, <2>4, <3>1 DEF Size
  <2> QED BY <2>1, <2>2, <2>3, <2>4
<1>7. ASSUME NEW s \in Added, NEW t \in Added, range(s) = range(t), number(s) = number(t) PROVE s = t
  <2> PICK x : x = range(s) /\ x = range(t) BY <1>7
  <2>1. CASE height # 1
    <3> HIDE DEF number
    <3> PICK q \in Nat : number(s) = q + 1 /\ height * q <= s.lo - x.lo /\ s.lo - x.lo < height * q + height
      BY <1>5, <2>1
    <3> PICK r \in Nat : number(t) = r + 1 /\ height * r <= t.lo - x.lo /\ t.lo - x.lo < height * r + height
      BY <1>5, <2>1
    <3>1. q = r BY <1>7
    <3> PICK hq \in Int : hq = height * q BY <1>1
    <3>2. ~(s.hi < t.lo) /\ ~(t.hi < s.lo) BY <1>1, <1>2, <3>1
    <3> QED BY <3>2 DEF NewApart
  <2>2. CASE height = 1
    <3>1. s.hi = s.lo /\ t.hi = t.lo /\ s.lo \in Int /\ t.lo \in Int /\ x.lo \in Int /\ x.hi \in Int
      BY <1>2, <2>2
    <3>2. Plan!Bounded(x, total) => hole(x) \in Int /\ hole(x) # s.lo /\ hole(x) # t.lo
      BY <1>3, <1>4, <2>2
    <3>3. number(s) = IF Plan!Bounded(x, total) /\ s.lo = x.hi THEN hole(x) - x.lo + 1 ELSE s.lo - x.lo + 1
      BY <2>2
    <3>4. number(t) = IF Plan!Bounded(x, total) /\ t.lo = x.hi THEN hole(x) - x.lo + 1 ELSE t.lo - x.lo + 1
      BY <2>2
    <3> HIDE DEF number
    <3> PICK a \in Int, b \in Int, lo \in Int, hi \in Int : a = s.lo /\ b = t.lo /\ lo = x.lo /\ hi = x.hi
      BY <3>1
    <3>5. ASSUME ~Plan!Bounded(x, total) PROVE a = b
      <4>1. a - lo + 1 = b - lo + 1 BY <1>7, <3>3, <3>4, <3>5
      <4> QED BY <4>1, SameDistance
    <3>6. ASSUME Plan!Bounded(x, total) PROVE a = b
      <4> PICK g \in Int : g = hole(x) /\ g # a /\ g # b BY <3>2, <3>6
      <4>1. (IF a = hi THEN g - lo + 1 ELSE a - lo + 1) = IF b = hi THEN g - lo + 1 ELSE b - lo + 1
        BY <1>7, <3>3, <3>4, <3>6
      <4> QED BY <4>1
    <3>7. s.lo = t.lo BY <3>5, <3>6
    <3> QED BY <3>1, <3>7 DEF NewApart
  <2> QED BY <2>1, <2>2
<1> HIDE DEF number
<1>8. IsFiniteSet(ThePlaces)
      /\ \A x \in ranges : \A i \in 1 .. Plan!Capacity(x, total, height) : <<x, i>> \in ThePlaces
  BY <1>1, PlacesAre DEF ThePlaces
<1>9. f \in Injection(Added, ThePlaces)
  <2>1. \A s \in Added : f[s] \in ThePlaces BY <1>2, <1>6, <1>8
  <2>2. \A s, t \in Added : f[s] = f[t] => s = t BY <1>7
  <2> QED BY <2>1, <2>2, Fun_IsInj
<1> HIDE DEF f
<1> QED BY <1>8, <1>9, FS_Injection

\* Each device of the plan is a legal write when its turn comes.
LEMMA NextIsLegal ==
  ASSUME PlanTyped, NewFits, PlanFollowed, followed,
         NEW s \in ThePlaces, RankIn(ThePlaces, s) = Cardinality(Added)
  PROVE  Plan!Fits(Packed(s[1], total, height, s[2]), spans, total)
<1> DEFINE ranges == Plan!AvailableRanges(start, total)
<1> PICK x, i, p : x = s[1] /\ i = s[2] /\ p = Packed(x, total, height, i) OBVIOUS
<1>1. total \in Nat /\ height \in Nat \ {0} /\ Taken(start, total) BY DEF PlanTyped
<1>2. /\ x \in ranges /\ x \in SpansOf(total) /\ i \in 1 .. Plan!Capacity(x, total, height) /\ i \in Int
      /\ x.lo \in Int /\ x.hi \in Int /\ s = <<x, i>>
  BY <1>1, PlacesAre DEF ThePlaces, SpansOf
<1>3. /\ p \in [lo : Int, hi : Int] /\ p.lo \in Int /\ p.hi \in Int
      /\ p.lo = IF Down(x, total) THEN x.hi - i * height + 1 ELSE x.lo + (i - 1) * height
      /\ p.hi = p.lo + height - 1 /\ x.lo <= p.lo /\ p.hi <= x.hi /\ p.lo <= p.hi
  BY <1>1, <1>2, PackIs
<1>4. \A u \in x.lo .. x.hi : Free(start, total, u) BY <1>1, <1>2, RangeIs
<1>5. ASSUME NEW t \in Added, NEW u \in x.lo .. x.hi, t.lo <= u, u <= t.hi
      PROVE  \E j \in 1 .. i - 1 : /\ t = Packed(x, total, height, j)
                                   /\ j \in 1 .. Plan!Capacity(x, total, height)
  <2> PICK v \in ThePlaces : RankIn(ThePlaces, v) < RankIn(ThePlaces, s) /\ t = Packed(v[1], total, height, v[2])
    BY DEF PlanFollowed
  <2>1. /\ v[1] \in ranges /\ v[1] \in SpansOf(total) /\ v[2] \in 1 .. Plan!Capacity(v[1], total, height)
        /\ v[2] \in Int /\ v[2] >= 1 /\ v = <<v[1], v[2]>>
    BY <1>1, PlacesAre DEF ThePlaces
  <2>2. v[1].lo <= t.lo /\ t.hi <= v[1].hi /\ t.lo \in Int /\ t.hi \in Int BY <1>1, <2>1, PackIs
  <2>3. u \in v[1].lo .. v[1].hi BY <1>2, <1>5, <2>1, <2>2 DEF SpansOf
  <2>4. v[1] = x BY <1>1, <1>2, <2>1, <2>3, RangesApart
  <2>5. IsFiniteSet(ThePlaces) /\ Orders(Sooner(ThePlaces), ThePlaces) BY <1>1, PlacesAre DEF ThePlaces
  <2>6. ~(i <= v[2])
    <3> SUFFICES ASSUME i <= v[2] PROVE FALSE OBVIOUS
    <3>1. RankIn(ThePlaces, s) \in Nat /\ RankIn(ThePlaces, v) \in Nat BY <2>5, RanksFilled
    <3>2. CASE i = v[2]
      <4>1. s = v BY <1>2, <2>1, <2>4, <3>2
      <4> QED BY <3>1, <4>1
    <3>3. CASE i < v[2]
      <4>1. <<s, v>> \in Sooner(ThePlaces) BY <2>4, <3>3, SoonerIs
      <4>2. RankIn(ThePlaces, s) < RankIn(ThePlaces, v) BY <2>5, <4>1, RanksFilled
      <4> QED BY <3>1, <4>2
    <3> QED BY <1>2, <2>1, <3>2, <3>3
  <2> QED BY <1>2, <2>1, <2>4, <2>6
<1>6. ASSUME NEW u \in p.lo .. p.hi PROVE ~Covers(spans, u)
  <2> SUFFICES ASSUME Covers(spans, u) PROVE FALSE OBVIOUS
  <2>1. u \in x.lo .. x.hi BY <1>2, <1>3
  <2> PICK t \in Added : t.lo <= u /\ u <= t.hi BY <1>4, <2>1, CoveredByNew
  <2> PICK j \in 1 .. i - 1 : /\ t = Packed(x, total, height, j)
                              /\ j \in 1 .. Plan!Capacity(x, total, height)
    BY <1>5, <2>1
  <2>2. j # i BY <1>2
  <2>3. t.hi < p.lo \/ p.hi < t.lo BY <1>1, <1>2, <2>2, PacksApart
  <2>4. t.lo \in Int /\ t.hi \in Int BY SpansInside
  <2> QED BY <1>3, <2>3, <2>4
<1>7. ASSUME height = 1, NEW w \in x.lo .. x.hi, w = IF Down(x, total) THEN p.lo - 1 ELSE p.lo + 1
      PROVE  ~Covers(spans, w)
  <2> SUFFICES ASSUME Covers(spans, w) PROVE FALSE OBVIOUS
  <2> PICK t \in Added : t.lo <= w /\ w <= t.hi BY <1>4, CoveredByNew
  <2> PICK j \in 1 .. i - 1 : /\ t = Packed(x, total, height, j)
                              /\ j \in 1 .. Plan!Capacity(x, total, height)
    BY <1>5
  <2>1. /\ t.lo = IF Down(x, total) THEN x.hi - j * height + 1 ELSE x.lo + (j - 1) * height
        /\ t.hi = t.lo + height - 1
    BY <1>1, <1>2, PackIs
  <2>2. j \in Int /\ j < i /\ j * 1 = j /\ i * 1 = i /\ (j - 1) * 1 = j - 1 /\ (i - 1) * 1 = i - 1 BY <1>2
  <2>3. CASE Down(x, total)
    <3>1. t.lo = x.hi - j + 1 /\ t.hi = t.lo /\ p.lo = x.hi - i + 1 /\ w = p.lo - 1
      BY <1>2, <1>3, <1>7, <2>1, <2>2, <2>3
    <3> QED BY <1>2, <2>2, <3>1
  <2>4. CASE ~Down(x, total)
    <3>1. t.lo = x.lo + j - 1 /\ t.hi = t.lo /\ p.lo = x.lo + i - 1 /\ w = p.lo + 1
      BY <1>2, <1>3, <1>7, <2>1, <2>2, <2>4
    <3> QED BY <1>2, <2>2, <3>1
  <2> QED BY <2>3, <2>4
<1>8. \A y \in spans : y.lo \in Int /\ y.hi \in Int /\ 1 <= y.lo /\ y.lo <= y.hi /\ y.hi <= total
  BY SpansInside DEF SpansOf
<1>9. ASSUME NEW u \in p.lo .. p.hi, NEW y \in spans, NEW z \in spans, y.hi = u - 1, z.lo = u + 1
      PROVE  FALSE
  <2>1. Covers(spans, u - 1) /\ Covers(spans, u + 1) BY <1>8, <1>9 DEF Covers
  <2>2. CASE height # 1
    <3>1. u - 1 \in p.lo .. p.hi \/ u + 1 \in p.lo .. p.hi BY <1>1, <1>3, <2>2
    <3> QED BY <1>6, <2>1, <3>1
  <2>3. CASE height = 1
    <3>1. u = p.lo /\ u = p.hi BY <1>3, <2>3
    <3>2. CASE Down(x, total)
      <4>1. u - 1 \notin x.lo .. x.hi BY <1>7, <2>1, <2>3, <3>1, <3>2
      <4>2. u - 1 = 0 BY <1>2, <1>3, <3>1, <3>2, <4>1 DEF Down
      <4> QED BY <1>8, <1>9, <4>2
    <3>3. CASE ~Down(x, total)
      <4>1. u + 1 \notin x.lo .. x.hi BY <1>7, <2>1, <2>3, <3>1, <3>3
      <4>2. u = x.hi BY <1>2, <1>3, <3>1, <4>1
      <4> PICK c \in Nat : /\ Plan!Capacity(x, total, height) = c
                           /\ c = IF Plan!Bounded(x, total) THEN Size(x) - 1 ELSE Size(x)
        BY <1>1, <1>2, <2>3, CapacityIs
      <4>3. (i - 1) * 1 = i - 1 BY <1>2
      <4>4. p.lo = x.lo + (i - 1) BY <1>3, <2>3, <3>3, <4>3
      <4>5. i = Size(x) /\ i <= c BY <1>2, <3>1, <4>2, <4>4 DEF Size
      <4>6. ~Plan!Bounded(x, total) BY <1>2, <4>5
      <4>7. x.hi = total BY <1>1, <1>2, <3>3, <4>6 DEF Down, Plan!Bounded, SpansOf
      <4> QED BY <1>1, <1>8, <1>9, <4>2, <4>7
    <3> QED BY <3>2, <3>3
  <2> QED BY <2>2, <2>3
<1>10. ASSUME NEW u \in p.lo .. p.hi PROVE Free(spans, total, u)
  <2>1. 1 <= u /\ u <= total /\ u \in Int BY <1>1, <1>2, <1>3 DEF SpansOf
  <2>2. spans \in SUBSET [lo : Int, hi : Int] BY SpansInside
  <2> QED BY <1>1, <1>6, <1>9, <2>1, <2>2, FreeIs
<1> QED BY <1>3, <1>10 DEF Plan!Fits, Plan!Units, Free

-----------------------------------------------------------------------------
(* RackPlanning: one more device                                             *)

\* Where a device of 1U fills a range up to its last free U, that U has become a gap.
LEMMA LastIsGap ==
  ASSUME PlanTyped, NewFits, height = 1, NEW x \in Plan!AvailableRanges(start, total),
         Plan!Bounded(x, total), NEW g \in x.lo .. x.hi, ~Covers(spans, g),
         \A u \in x.lo .. x.hi : u # g => Covers(spans, u)
  PROVE  ~Free(spans, total, g)
<1>1. total \in Nat /\ Taken(start, total) BY DEF PlanTyped
<1>2. /\ x \in SpansOf(total) /\ x.lo \in Int /\ x.hi \in Int /\ g \in Int
      /\ \E y \in start : y.hi = x.lo - 1
      /\ \E z \in start : z.lo = x.hi + 1
  <2>1. x \in SpansOf(total) BY <1>1, RangeIs
  <2>2. x.lo > 1 /\ x.hi < total BY DEF Plan!Bounded
  <2> QED BY <1>1, <2>1, <2>2, RangeIs DEF SpansOf
<1>3. \A y \in spans : y.lo \in Int /\ y.hi \in Int BY SpansInside
<1>4. start \subseteq spans BY DEF PlanTyped
<1>5. \E y \in spans : y.hi = g - 1
  <2>1. CASE g = x.lo BY <1>2, <1>4, <2>1
  <2>2. CASE g # x.lo
    <3>1. g - 1 \in x.lo .. x.hi /\ g - 1 # g BY <1>2, <2>2
    <3>2. PICK y \in spans : y.lo <= g - 1 /\ g - 1 <= y.hi BY <3>1 DEF Covers
    <3>3. ~(y.lo <= g /\ g <= y.hi) BY DEF Covers
    <3> QED BY <1>2, <1>3, <3>2, <3>3
  <2> QED BY <2>1, <2>2
<1>6. \E z \in spans : z.lo = g + 1
  <2>1. CASE g = x.hi BY <1>2, <1>4, <2>1
  <2>2. CASE g # x.hi
    <3>1. g + 1 \in x.lo .. x.hi /\ g + 1 # g BY <1>2, <2>2
    <3>2. PICK z \in spans : z.lo <= g + 1 /\ g + 1 <= z.hi BY <3>1 DEF Covers
    <3>3. ~(z.lo <= g /\ g <= z.hi) BY DEF Covers
    <3> QED BY <1>2, <1>3, <3>2, <3>3
  <2> QED BY <2>1, <2>2
<1>7. spans \in SUBSET [lo : Int, hi : Int] BY SpansInside
<1> QED BY <1>1, <1>2, <1>5, <1>6, <1>7, FreeIs

\* A legal write keeps what the plan relies on.
LEMMA OneMore ==
  ASSUME PlanTyped, NewFits, NewApart, OneIsKept,
         NEW a \in Int, NEW r, r = Plan!Span(a, height), Plan!Fits(r, spans, total),
         spans' = spans \cup {r}, UNCHANGED <<total, height, quantity, start, followed>>
  PROVE  /\ PlanTyped' /\ NewFits' /\ NewApart' /\ OneIsKept'
         /\ Added' = Added \cup {r} /\ Cardinality(Added') = Cardinality(Added) + 1
<1>1. /\ total \in Nat /\ height \in Nat \ {0} /\ Taken(start, total)
      /\ start \in SUBSET spans /\ spans \in SUBSET [lo : Int, hi : Int]
      /\ Cardinality(Added) \in Nat /\ IsFiniteSet(Added)
  BY SpansInside DEF PlanTyped
<1>2. r \in [lo : Int, hi : Int] /\ r.lo = a /\ r.hi = a + height - 1 /\ r.lo <= r.hi /\ r.lo \in Int /\ r.hi \in Int
  BY <1>1 DEF Plan!Span
<1>3. \A u \in r.lo .. r.hi : Free(spans, total, u) BY DEF Plan!Fits, Plan!Units, Free
<1>4. \A u \in r.lo .. r.hi : ~Covers(spans, u) /\ Free(start, total, u)
  BY <1>1, <1>2, <1>3, FreeIs, FreeShrinks
<1>5. \A y \in spans : y.hi < r.lo \/ r.hi < y.lo
  <2> SUFFICES ASSUME NEW y \in spans, ~(y.hi < r.lo), ~(r.hi < y.lo) PROVE FALSE OBVIOUS
  <2>1. y \in SpansOf(total) BY SpansInside
  <2>2. y.lo \in Int /\ y.hi \in Int /\ y.lo <= y.hi BY <2>1 DEF SpansOf
  <2>3. ~Covers(spans, r.lo) /\ (y.lo \in r.lo .. r.hi => ~Covers(spans, y.lo)) BY <1>2, <1>4
  <2>4. ~(y.lo <= r.lo /\ r.lo <= y.hi) BY <2>3 DEF Covers
  <2>5. y.lo \in r.lo .. r.hi BY <1>2, <2>2, <2>4
  <2> QED BY <2>2, <2>3, <2>5 DEF Covers
<1>6. r \notin spans
  <2>1. ~(r.hi < r.lo) BY <1>2
  <2> QED BY <1>5, <2>1
<1>7. Added' = Added \cup {r} /\ r \notin Added BY <1>1, <1>6 DEF Added
<1>8. Cardinality(Added') = Cardinality(Added) + 1 BY <1>1, <1>7, FS_AddElement
<1>9. PlanTyped'
  <2>1. IsFiniteSet(spans') BY FS_AddElement DEF PlanTyped
  <2> QED BY <2>1 DEF PlanTyped
<1>10. NewFits' BY <1>2, <1>4, <1>7 DEF NewFits
<1>11. NewApart' BY <1>5, <1>7 DEF NewApart, Added
<1>12. OneIsKept'
  <2> SUFFICES ASSUME height = 1, NEW x \in Plan!AvailableRanges(start, total), Plan!Bounded(x, total)
               PROVE  \E g \in x.lo .. x.hi : ~Covers(spans', g)
    BY DEF OneIsKept
  <2>1. PICK g \in x.lo .. x.hi : ~Covers(spans, g) BY DEF OneIsKept
  <2>2. ASSUME NEW u \in x.lo .. x.hi, Covers(spans', u), ~Covers(spans, u) PROVE u = r.lo
    <3>1. r.lo <= u /\ u <= r.hi BY <2>2 DEF Covers
    <3>2. r.hi = r.lo BY <1>2
    <3> QED BY <1>2, <3>1, <3>2
  <2>3. CASE \A u \in x.lo .. x.hi : u # g => Covers(spans, u)
    <3>1. ~Free(spans, total, g) BY <2>1, <2>3, LastIsGap
    <3>2. Free(spans, total, r.lo) BY <1>2, <1>3
    <3> QED BY <2>1, <2>2, <3>1, <3>2
  <2>4. CASE ~\A u \in x.lo .. x.hi : u # g => Covers(spans, u)
    <3> PICK u \in x.lo .. x.hi : u # g /\ ~Covers(spans, u) BY <2>4
    <3> QED BY <2>1, <2>2
  <2> QED BY <2>3, <2>4
<1> QED BY <1>7, <1>8, <1>9, <1>10, <1>11, <1>12

\* The next span of a plan that is followed.
LEMMA NextOfPlan ==
  ASSUME PlanTyped, NewFits, Plan!Placed < Plan!Len(Plan!ThePlan)
  PROVE  \E s \in ThePlaces : /\ RankIn(ThePlaces, s) = Cardinality(Added)
                              /\ Plan!ThePlan[Plan!Placed + 1] = Packed(s[1], total, height, s[2])
                              /\ \E a \in Int : Packed(s[1], total, height, s[2]) = Plan!Span(a, height)
<1> DEFINE m == Least(quantity, Cardinality(ThePlaces))
           k == Cardinality(Added)
<1>1. total \in Nat /\ height \in Nat \ {0} /\ quantity \in Nat /\ Taken(start, total) BY DEF PlanTyped
<1>2. /\ Cardinality(ThePlaces) \in Nat
      /\ Plan!Len(Plan!ThePlan) = m
      /\ \A j \in 1 .. m : \E s \in ThePlaces :
           RankIn(ThePlaces, s) = j - 1 /\ Plan!ThePlan[j] = Packed(s[1], total, height, s[2])
  BY <1>1, PlanIs DEF ThePlaces, Plan!ThePlan
<1>3. k \in Nat /\ Plan!Placed = k BY SpansInside
<1>4. m \in Nat /\ k < m BY <1>1, <1>2, <1>3 DEF Least
<1>5. k + 1 \in 1 .. m /\ (k + 1) - 1 = k BY <1>3, <1>4
<1>6. PICK s \in ThePlaces : RankIn(ThePlaces, s) = k /\ Plan!ThePlan[k + 1] = Packed(s[1], total, height, s[2])
  <2> HIDE DEF m, k
  <2> QED BY <1>2, <1>5
<1>7. s[1] \in SpansOf(total) /\ s[2] \in 1 .. Plan!Capacity(s[1], total, height)
  BY <1>1, PlacesAre DEF ThePlaces
<1> PICK p : p = Packed(s[1], total, height, s[2]) OBVIOUS
<1>8. p \in [lo : Int, hi : Int] /\ p.hi = p.lo + height - 1 BY <1>1, <1>7, PackIs
<1>9. p.lo \in Int /\ p = Plan!Span(p.lo, height) BY <1>8 DEF Plan!Span
<1> QED BY <1>3, <1>6, <1>9

LEMMA PlanStart == ASSUME Plan!Init PROVE PlanInv
<1>1. /\ total \in Nat /\ height \in Nat \ {0} /\ quantity \in Nat /\ followed \in BOOLEAN
      /\ start \in Plan!Devices(total) /\ spans = start
  BY DEF Plan!Init
<1>2. start \subseteq SpansOf(total)
  <2>1. \A x \in start : x.lo <= x.hi /\ \E a, b \in 1 .. total : x = [lo |-> a, hi |-> b]
    BY <1>1 DEF Plan!Devices
  <2>2. ASSUME NEW x \in start PROVE x \in SpansOf(total)
    <3> PICK a \in 1 .. total, b \in 1 .. total : x = [lo |-> a, hi |-> b] BY <2>1
    <3> QED BY <2>1 DEF SpansOf
  <2> QED BY <2>2
<1>3. IsFiniteSet(start)
  <2> DEFINE T == 1 .. total
             ends == [x \in start |-> <<x.lo, x.hi>>]
  <2>1. ends \in [start -> T \X T]
    <3> SUFFICES ASSUME NEW x \in start PROVE x.lo \in T /\ x.hi \in T OBVIOUS
    <3>1. x.lo \in Int /\ x.hi \in Int /\ 1 <= x.lo /\ x.lo <= x.hi /\ x.hi <= total BY <1>2 DEF SpansOf
    <3> QED BY <1>1, <3>1
  <2>2. ASSUME NEW x \in start, NEW y \in start, ends[x] = ends[y] PROVE x = y
    <3>1. x.lo = y.lo /\ x.hi = y.hi BY <2>2
    <3> QED BY <1>2, <3>1 DEF SpansOf
  <2>3. IsFiniteSet(T) BY <1>1, FS_Interval
  <2> HIDE DEF T, ends
  <2>4. IsFiniteSet(T \X T) BY <2>3, FS_Product
  <2>5. ends \in Injection(start, T \X T) BY <2>1, <2>2, Fun_IsInj
  <2> QED BY <2>4, <2>5, FS_Injection
<1>4. Added = {} BY <1>1 DEF Added
<1>5. PlanTyped BY <1>1, <1>2, <1>3 DEF PlanTyped, Taken
<1>6. NewFits /\ NewApart BY <1>4 DEF NewFits, NewApart
<1>7. OneIsKept
  <2> SUFFICES ASSUME NEW x \in Plan!AvailableRanges(start, total)
               PROVE  \E g \in x.lo .. x.hi : ~Covers(spans, g)
    BY DEF OneIsKept
  <2>1. x \in SpansOf(total) /\ \A u \in x.lo .. x.hi : Free(start, total, u)
    BY <1>1, <1>5, RangeIs DEF PlanTyped
  <2>2. x.lo \in Int /\ x.lo \in x.lo .. x.hi /\ Free(start, total, x.lo) BY <2>1 DEF SpansOf
  <2>3. start \in SUBSET [lo : Int, hi : Int] BY <1>2 DEF SpansOf
  <2> QED BY <1>1, <2>2, <2>3, FreeIs
<1>8. PlanFollowed
  <2>1. Cardinality(Added) = 0 BY <1>4, FS_EmptySet
  <2>2. ASSUME NEW t \in ThePlaces PROVE ~(RankIn(ThePlaces, t) < 0)
    <3>1. IsFiniteSet(ThePlaces) /\ Orders(Sooner(ThePlaces), ThePlaces)
      BY <1>1, <1>5, PlacesAre DEF ThePlaces, PlanTyped
    <3>2. RankIn(ThePlaces, t) \in Nat BY <3>1, RanksFilled
    <3> QED BY <3>2
  <2> QED BY <1>4, <2>1, <2>2 DEF PlanFollowed
<1> QED BY <1>5, <1>6, <1>7, <1>8 DEF PlanInv

LEMMA PlanGrows == ASSUME PlanInv, Plan!Next PROVE PlanInv'
<1> USE DEF PlanInv
<1>1. ThePlaces' = ThePlaces /\ UNCHANGED <<total, height, quantity, start, followed>>
  BY DEF Plan!Next, Plan!PlacePlanned, Plan!PlaceFreely, Plan!inputs, ThePlaces
<1>2. CASE Plan!PlaceFreely
  <2> PICK a \in 1 .. total : /\ Plan!Fits(Plan!Span(a, height), spans, total)
                              /\ spans' = spans \cup {Plan!Span(a, height)}
    BY <1>2 DEF Plan!PlaceFreely
  <2>1. ~followed' BY <1>1, <1>2 DEF Plan!PlaceFreely
  <2>2. PlanTyped' /\ NewFits' /\ NewApart' /\ OneIsKept' BY <1>1, OneMore
  <2> QED BY <2>1, <2>2 DEF PlanFollowed
<1>3. CASE Plan!PlacePlanned
  <2>1. /\ followed /\ Plan!Placed < Plan!Len(Plan!ThePlan)
        /\ Plan!Fits(Plan!ThePlan[Plan!Placed + 1], spans, total)
        /\ spans' = spans \cup {Plan!ThePlan[Plan!Placed + 1]}
    BY <1>3 DEF Plan!PlacePlanned
  <2> PICK k : k = Cardinality(Added) OBVIOUS
  <2>2. PICK s \in ThePlaces : /\ RankIn(ThePlaces, s) = k
                               /\ Plan!ThePlan[Plan!Placed + 1] = Packed(s[1], total, height, s[2])
                               /\ \E a \in Int : Packed(s[1], total, height, s[2]) = Plan!Span(a, height)
    BY <2>1, NextOfPlan
  <2> PICK r : r = Packed(s[1], total, height, s[2]) OBVIOUS
  <2>3. /\ PlanTyped' /\ NewFits' /\ NewApart' /\ OneIsKept'
        /\ Added' = Added \cup {r} /\ Cardinality(Added') = k + 1
    BY <1>1, <2>1, <2>2, OneMore
  <2>4. k \in Nat BY SpansInside
  <2>5. IsFiniteSet(ThePlaces) /\ Orders(Sooner(ThePlaces), ThePlaces)
    BY PlacesAre DEF ThePlaces, PlanTyped
  <2>6. \A t \in ThePlaces : RankIn(ThePlaces, t) < k + 1 <=> t = s \/ RankIn(ThePlaces, t) < k
    <3> SUFFICES ASSUME NEW t \in ThePlaces
                 PROVE  RankIn(ThePlaces, t) < k + 1 <=> t = s \/ RankIn(ThePlaces, t) < k
      OBVIOUS
    <3>1. RankIn(ThePlaces, t) \in Nat /\ (RankIn(ThePlaces, s) = RankIn(ThePlaces, t) => s = t)
      BY <2>5, RanksFilled
    <3> QED BY <2>2, <2>4, <3>1
  <2>7. Added = {Packed(t[1], total, height, t[2]) : t \in {v \in ThePlaces : RankIn(ThePlaces, v) < k}}
    BY <2>1 DEF PlanFollowed
  <2>8. Added' = {Packed(t[1], total, height, t[2]) : t \in {v \in ThePlaces : RankIn(ThePlaces, v) < k + 1}}
    BY <2>3, <2>6, <2>7
  <2>9. PlanFollowed' BY <1>1, <2>3, <2>8 DEF PlanFollowed
  <2> QED BY <2>3, <2>9
<1> QED BY <1>2, <1>3 DEF Plan!Next

\* The invariant of rack planning.
THEOREM PlanInvariant == Spec => [](study = "plan" => PlanInv)
<1>1. Init => (study = "plan" => PlanInv) BY PlanStart DEF Init
<1>2. (study = "plan" => PlanInv) /\ [Next]_vars => (study = "plan" => PlanInv)'
  <2> SUFFICES ASSUME study = "plan" => PlanInv, [Next]_vars, study' = "plan" PROVE PlanInv'
    OBVIOUS
  <2>1. CASE PlanStep BY <2>1, PlanGrows DEF PlanStep
  <2>2. CASE UNCHANGED <<study, planVars>>
    BY <2>2 DEF planVars, PlanInv, PlanTyped, NewFits, NewApart, OneIsKept, PlanFollowed, Added, ThePlaces
  <2> QED BY <2>1, <2>2
      DEF Next, vars, RepairStep, DigestStep, AlertStep, TimelineStep, ValueStep
<1> QED BY <1>1, <1>2, PTL DEF Spec

\* For racks, heights and batches of any size: each device of a plan is a legal write when
\* its turn comes, the plan holds as many as were asked for and can be, and no order of
\* legal writes gets more of them into the rack than the plan reports (plan_rack_capacity).
THEOREM PlanHolds == Spec => []PlanIsBest
<1>1. ASSUME PlanInv PROVE Plan!PlanIsExecutable
  <2> USE DEF PlanInv
  <2> SUFFICES ASSUME followed, Plan!Placed < Plan!Len(Plan!ThePlan)
               PROVE  Plan!Fits(Plan!ThePlan[Plan!Placed + 1], spans, total)
    BY DEF Plan!PlanIsExecutable
  <2>1. PICK s \in ThePlaces : /\ RankIn(ThePlaces, s) = Cardinality(Added)
                               /\ Plan!ThePlan[Plan!Placed + 1] = Packed(s[1], total, height, s[2])
    BY <1>1, NextOfPlan
  <2> QED BY <1>1, <2>1, NextIsLegal
<1>2. ASSUME PlanInv PROVE Plan!CapacityIsMaximal
  <2> USE DEF PlanInv
  <2>1. total \in Nat /\ height \in Nat \ {0} /\ quantity \in Nat /\ Taken(start, total)
    BY <1>2 DEF PlanTyped
  <2>2. /\ Cardinality(ThePlaces) \in Nat
        /\ Plan!Len(Plan!ThePlan) = Least(quantity, Cardinality(ThePlaces))
    BY <2>1, PlanIs DEF ThePlaces, Plan!ThePlan
  <2>3. Plan!MaximumOf(start, total, height) = Cardinality(ThePlaces)
    BY PlanCardinality DEF Plan!MaximumOf, ThePlaces
  <2>4. Plan!Placed = Cardinality(Added) /\ Cardinality(Added) <= Cardinality(ThePlaces)
    BY <1>2, SpansInside, PlacedBounded
  <2>5. Least(quantity, Cardinality(ThePlaces)) =
          IF Cardinality(ThePlaces) <= quantity THEN Cardinality(ThePlaces) ELSE quantity
    BY <2>1, <2>2 DEF Least
  <2> QED BY <2>2, <2>3, <2>4, <2>5 DEF Plan!CapacityIsMaximal
<1>3. (study = "plan" => PlanInv) => PlanIsBest
  BY <1>1, <1>2 DEF PlanIsBest, Plan!PlanIsBest
<1> QED BY <1>3, PlanInvariant, PTL
=============================================================================
