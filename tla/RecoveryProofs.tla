---------------------------- MODULE RecoveryProofs -----------------------------
(***************************************************************************)
(* Proofs about the maintenance of the whole site, for any files, archives *)
(* and processes and however often it fails or is killed.                  *)
(***************************************************************************)
EXTENDS Recovery, Sequences, FiniteSetTheorems, TLAPS

-----------------------------------------------------------------------------
(* BackupRestore: the invariant                                              *)

Stages ==
    {"idle", "admit", "refs", "dump", "publish", "record", "stage", "mark_media", "mark_database",
     "swap_out", "swap_in", "import", "importing", "verify", "post", "finish", "roll_back", "leave"}

\* Stages before the safety backup exists, after a restore has begun, and those
\* that only a dirty marker allows.
Saving == {"refs", "dump", "publish"}
Restoring == Stages \ (Saving \cup {"idle", "admit", "leave"})
Replacing == {"swap_out", "swap_in", "import", "importing", "verify", "post", "finish", "roll_back"}

\* An archive holds what there was before the first failed restore.
Keeps(a) ==
    a \in stored /\ archive[a].db = original.db /\ archive[a].media = original.media

\* Nothing has been replaced.
Whole ==
    /\ db # Backup!Torn /\ db \subseteq Backup!Tree(media) /\ ~sessions
    /\ clients = {}

\* What the database holds from the end of the import.
Imported ==
    /\ db = archive[target].db
    /\ job = "recover" => db = original.db

BackupTypes ==
    /\ Backup!TypeOK
    /\ pc \in Stages
    /\ refs \subseteq Files /\ dumped \subseteq Files
    /\ runs \in 0 .. MaxRuns /\ (pc \in Saving => runs > 0)
    /\ job # "recover" /\ pc # "idle" => runs > 0

\* What the marker, the memory of the run and its stage say of the data.
BackupPhases ==
    /\ marker # "dirty" => Whole
    /\ marker # "dirty" /\ pc # "idle" => original = [db |-> db, media |-> media]
    /\ marker = "dirty" => Keeps(safety)
    /\ pc \notin {"idle", "leave"} => (dirty <=> marker = "dirty")
    /\ pc \in Saving =>
         marker # "dirty" /\ (job = "backup" \/ (job = "restore" /\ target \in Backup!Archives))
    /\ pc = "admit" => (marker = "dirty" <=> job = "recover") /\ job # "none"
    /\ pc = "dump" => refs = db
    /\ pc = "publish" => refs = db /\ dumped = db
    /\ pc = "record" => Keeps(mine)
    /\ pc \in {"stage", "mark_media", "mark_database"} => Keeps(safety)
    /\ pc \in Restoring =>
         /\ job \in {"restore", "recover"} /\ target \in Backup!Archives
         /\ job = "recover" => target = safety /\ (pc = "record" => mine = safety)
    /\ pc \in Replacing => marker = "dirty"
    /\ clients # {} => pc \in {"idle", "importing"}
    /\ pc = "importing" => clients \subseteq {target}
    /\ pc \in {"verify", "post", "finish"} => Imported
    /\ pc \in {"post", "finish"} => db \subseteq Backup!Tree(media)
    /\ pc = "finish" => ~sessions
    /\ pc = "leave" /\ marker = "dirty" /\ ~dirty => Whole /\ job \in {"restore", "recover"} /\ Imported

BackupInv == BackupTypes /\ Backup!ArchivesCanBeRestored /\ BackupPhases

-----------------------------------------------------------------------------
(* BackupRestore: users and the way in                                       *)

\* Users change whole data only, and leave them whole.
LEMMA UserStep ==
  ASSUME BackupInv, Backup!Upload \/ Backup!Discard \/ Backup!DeleteBackup \/ Backup!ClearStale
  PROVE  BackupInv'
<1>1. /\ pc = "idle" /\ marker # "dirty" /\ Whole
  BY DEF BackupInv, BackupPhases, Backup!Upload, Backup!Discard, Backup!DeleteBackup, Backup!ClearStale,
         Backup!Edit, Backup!CanEdit, Backup!Open
<1>2. Backup!Torn \notin SUBSET Files /\ Backup!Absent \notin SUBSET Files
  BY RecoveryConstants DEF Backup!BackupConstants, Backup!Torn, Backup!Absent
<1> USE DEF Backup!state, Backup!memory, Backup!backups
<1>3. CASE Backup!Upload \/ Backup!Discard
  <2>1. UNCHANGED <<sessions, aside, stored, archive, marker, safety, job, target, dirty, refs, dumped,
                    mine, pc, clients, original, runs>>
    BY <1>3 DEF Backup!Upload, Backup!Discard, Backup!Edit
  <2>2. /\ db' \in SUBSET Files /\ media' \in SUBSET Files
        /\ db' \subseteq Backup!Tree(media)'
    <3>1. db \in SUBSET Files /\ media \in (SUBSET Files) \cup {Backup!Absent} /\ db \subseteq Backup!Tree(media)
      BY <1>1 DEF BackupInv, BackupTypes, Backup!TypeOK, Whole
    <3>2. CASE Backup!Upload
      BY <1>2, <3>1, <3>2 DEF Backup!Upload, Backup!Tree
    <3>3. CASE Backup!Discard
      BY <1>2, <3>1, <3>3 DEF Backup!Discard, Backup!Tree
    <3> QED BY <1>3, <3>2, <3>3
  <2>3. BackupTypes' BY <2>1, <2>2 DEF BackupInv, BackupTypes, Backup!TypeOK
  <2>4. Backup!ArchivesCanBeRestored' BY <2>1 DEF BackupInv, Backup!ArchivesCanBeRestored
  <2>5. Whole' BY <1>1, <1>2, <2>1, <2>2 DEF Whole
  <2>6. BackupPhases'
    BY <1>1, <2>1, <2>5 DEF BackupInv, BackupPhases, Saving, Restoring, Replacing
  <2> QED BY <2>3, <2>4, <2>6 DEF BackupInv
<1>4. CASE Backup!DeleteBackup
  <2>1. /\ UNCHANGED <<db, sessions, media, aside, archive, marker, safety, job, target, dirty, refs,
                       dumped, mine, pc, clients, original, runs>>
        /\ stored' \subseteq stored
    BY <1>4 DEF Backup!DeleteBackup, Backup!data, Backup!bounds
  <2>2. BackupTypes' BY <2>1 DEF BackupInv, BackupTypes, Backup!TypeOK
  <2>3. Backup!ArchivesCanBeRestored' BY <2>1 DEF BackupInv, Backup!ArchivesCanBeRestored, Backup!Tree
  <2>4. BackupPhases'
    BY <1>1, <2>1 DEF BackupInv, BackupPhases, Whole, Backup!Tree, Saving, Restoring, Replacing
  <2> QED BY <2>2, <2>3, <2>4 DEF BackupInv
<1>5. CASE Backup!ClearStale
  <2>1. /\ UNCHANGED <<db, sessions, media, aside, stored, archive, job, target, dirty, refs,
                       dumped, mine, pc, clients, original, runs>>
        /\ marker' = "absent" /\ safety' = Backup!NoArchive
    BY <1>5 DEF Backup!ClearStale, Backup!data, Backup!bounds
  <2>2. BackupTypes' BY <2>1 DEF BackupInv, BackupTypes, Backup!TypeOK
  <2>3. Backup!ArchivesCanBeRestored' BY <2>1 DEF BackupInv, Backup!ArchivesCanBeRestored
  <2>4. BackupPhases'
    BY <1>1, <2>1 DEF BackupInv, BackupPhases, Whole, Backup!Tree, Saving, Restoring, Replacing
  <2> QED BY <2>2, <2>3, <2>4 DEF BackupInv
<1> QED BY <1>3, <1>4, <1>5

\* A run finds whole data, or data that only a recovery may touch.
LEMMA StartStep ==
  ASSUME BackupInv,
         \/ Backup!StartRun("backup", Backup!NoArchive)
         \/ \E j \in {"restore", "recover"}, a \in Backup!Archives : Backup!StartRun(j, a)
  PROVE  BackupInv'
<1> PICK j \in {"backup", "restore", "recover"}, a \in Backup!Archives \cup {Backup!NoArchive} :
      Backup!StartRun(j, a)
  OBVIOUS
<1>1. /\ UNCHANGED <<db, sessions, media, aside, stored, archive, safety, refs, dumped, mine, clients>>
      /\ pc = "idle" /\ pc' = "admit" /\ clients = {}
      /\ marker = "dirty" <=> j = "recover"
      /\ job' = j /\ target' = a
      /\ dirty' = (marker = "dirty")
      /\ marker' = IF marker = "dirty" THEN "dirty" ELSE "clean"
      /\ original' = IF marker = "dirty" THEN original ELSE [db |-> db, media |-> media]
  BY DEF Backup!StartRun, Backup!NoRun, Backup!data, Backup!backups
<1>2. runs' \in 0 .. MaxRuns /\ (j # "recover" => runs' > 0)
  BY RecoveryConstants DEF Backup!StartRun, BackupInv, BackupTypes, Backup!BackupConstants
<1>3. BackupTypes'
  BY <1>1, <1>2 DEF BackupInv, BackupTypes, Backup!TypeOK, Stages, Saving
<1>4. Backup!ArchivesCanBeRestored' BY <1>1 DEF BackupInv, Backup!ArchivesCanBeRestored
<1>5. BackupPhases'
  <2>1. CASE marker = "dirty"
    BY <1>1, <2>1 DEF BackupInv, BackupPhases, Keeps, Saving, Restoring, Replacing
  <2>2. CASE marker # "dirty"
    <3>1. Whole' BY <1>1, <2>2 DEF BackupInv, BackupPhases, Whole, Backup!Tree
    <3> QED BY <1>1, <2>2, <3>1 DEF BackupInv, BackupPhases, Saving, Restoring, Replacing
  <2> QED BY <2>1, <2>2
<1> QED BY <1>3, <1>4, <1>5 DEF BackupInv

-----------------------------------------------------------------------------
(* BackupRestore: the steps of a run                                         *)

\* Until the safety backup is recorded the data are only read.
LEMMA SavingStep ==
  ASSUME BackupInv,
         Backup!Admit \/ Backup!ReadReferences \/ Backup!Dump \/ Backup!Publish \/ Backup!RecordSafety
  PROVE  BackupInv'
<1> USE DEF BackupInv, Backup!Go, Backup!data, Backup!backups, Backup!memory, Backup!bounds, Backup!state
<1>1. CASE Backup!Admit
  <2>1. BackupTypes' BY <1>1 DEF Backup!Admit, BackupTypes, Backup!TypeOK, Stages, Saving
  <2>2. Backup!ArchivesCanBeRestored' BY <1>1 DEF Backup!Admit, Backup!ArchivesCanBeRestored
  <2>3. BackupPhases'
    BY <1>1 DEF Backup!Admit, BackupTypes, Backup!TypeOK, BackupPhases, Whole, Backup!Tree, Keeps, Saving, Restoring, Replacing, Stages
  <2> QED BY <2>1, <2>2, <2>3
<1>2. CASE Backup!ReadReferences
  <2>1. db \subseteq Files
    BY <1>2 DEF Backup!ReadReferences, BackupTypes, Backup!TypeOK, BackupPhases, Saving, Whole
  <2>2. BackupTypes' BY <1>2, <2>1 DEF Backup!ReadReferences, BackupTypes, Backup!TypeOK, Stages, Saving
  <2>3. Backup!ArchivesCanBeRestored' BY <1>2 DEF Backup!ReadReferences, Backup!ArchivesCanBeRestored
  <2>4. BackupPhases'
    BY <1>2 DEF Backup!ReadReferences, BackupPhases, Whole, Backup!Tree, Saving, Restoring, Replacing
  <2> QED BY <2>2, <2>3, <2>4
<1>3. CASE Backup!Dump
  <2>1. db \subseteq Files
    BY <1>3 DEF Backup!Dump, BackupTypes, Backup!TypeOK, BackupPhases, Saving, Whole
  <2>2. BackupTypes' BY <1>3, <2>1 DEF Backup!Dump, BackupTypes, Backup!TypeOK, Stages, Saving
  <2>3. Backup!ArchivesCanBeRestored' BY <1>3 DEF Backup!Dump, Backup!ArchivesCanBeRestored
  <2>4. BackupPhases'
    BY <1>3 DEF Backup!Dump, BackupPhases, Whole, Backup!Tree, Saving, Restoring, Replacing
  <2> QED BY <2>2, <2>3, <2>4
<1>4. CASE Backup!Publish
  <2>1. /\ refs = db /\ dumped = db /\ Whole /\ marker # "dirty" /\ job # "recover"
        /\ original = [db |-> db, media |-> media]
    BY <1>4 DEF Backup!Publish, BackupPhases, Saving
  <2>2. runs \in Backup!Archives
    BY <1>4, RecoveryConstants
    DEF Backup!Publish, BackupTypes, Saving, Backup!Archives, Backup!BackupConstants
  <2>3. /\ archive'[runs] = [db |-> db, refs |-> db, media |-> media]
        /\ \A a \in Backup!Archives \ {runs} : archive'[a] = archive[a]
        /\ stored' = stored \cup {runs} /\ mine' = runs
        /\ UNCHANGED <<db, sessions, media, aside, marker, safety, job, target, dirty, refs, dumped,
                       clients, original, edits, runs, faults>>
    BY <1>4, <2>1, <2>2 DEF Backup!Publish, BackupTypes, Backup!TypeOK
  <2>4. BackupTypes'
    <3>1. [db |-> db, refs |-> db, media |-> media] \in
            [db : SUBSET Files, refs : SUBSET Files, media : (SUBSET Files) \cup {Backup!Absent}]
      BY <2>1 DEF BackupTypes, Backup!TypeOK, Whole
    <3> QED
      BY <1>4, <2>1, <2>2, <2>3, <3>1 DEF Backup!Publish, BackupTypes, Backup!TypeOK, Stages, Saving
  <2>5. Backup!ArchivesCanBeRestored'
    <3>1. archive'[runs].db = db /\ archive'[runs].refs = db /\ archive'[runs].media = media
      BY <2>3
    <3>2. \A a \in stored : a \in Backup!Archives BY DEF BackupTypes, Backup!TypeOK
    <3> QED
      BY <2>1, <2>2, <2>3, <3>1, <3>2 DEF Backup!ArchivesCanBeRestored, Whole, Backup!Tree
  <2>6. Keeps(mine)' BY <2>1, <2>2, <2>3 DEF Keeps
  <2>7. Whole' BY <2>1, <2>3 DEF Whole, Backup!Tree
  <2> QED
    BY <1>4, <2>1, <2>3, <2>4, <2>5, <2>6, <2>7
    DEF Backup!Publish, BackupPhases, BackupTypes, Backup!TypeOK, Saving, Restoring, Replacing
<1>5. CASE Backup!RecordSafety
  <2>1. BackupTypes' BY <1>5 DEF Backup!RecordSafety, BackupTypes, Backup!TypeOK, Stages, Saving
  <2>2. Backup!ArchivesCanBeRestored' BY <1>5 DEF Backup!RecordSafety, Backup!ArchivesCanBeRestored
  <2>3. BackupPhases'
    BY <1>5 DEF Backup!RecordSafety, BackupPhases, Whole, Backup!Tree, Keeps, Saving, Restoring, Replacing, Stages
  <2> QED BY <2>1, <2>2, <2>3
<1> QED BY <1>1, <1>2, <1>3, <1>4, <1>5

\* What these steps have in common: they make no archive and start no run.
ArchivesStay == UNCHANGED <<stored, archive, job, target, refs, dumped, mine, original, edits, runs>>

LEMMA ArchivesStayWhole ==
  ASSUME BackupInv, ArchivesStay
  PROVE  Backup!ArchivesCanBeRestored'
BY DEF BackupInv, ArchivesStay, Backup!ArchivesCanBeRestored, Backup!Tree

\* The data are replaced only under a dirty marker.
LEMMA ReplacingStep ==
  ASSUME BackupInv,
         \/ Backup!StageMedia \/ Backup!MarkMedia \/ Backup!MarkDatabase
         \/ Backup!SwapOut \/ Backup!SwapIn \/ Backup!StartImport
  PROVE  BackupInv'
<1> USE DEF Backup!Go, Backup!data, Backup!backups, Backup!memory, Backup!bounds, Backup!state
<1>1. /\ ArchivesStay
      /\ UNCHANGED <<safety, sessions, faults>>
      /\ pc \in Restoring /\ pc' \in Restoring
  BY DEF ArchivesStay, Backup!StageMedia, Backup!MarkMedia, Backup!MarkDatabase, Backup!Mark,
         Backup!SwapOut, Backup!SwapIn, Backup!StartImport, Restoring, Stages, Saving
<1>2. Backup!ArchivesCanBeRestored' BY <1>1, ArchivesStayWhole
<1>3. /\ Backup!TypeOK /\ BackupTypes /\ BackupPhases /\ target \in Backup!Archives
      /\ archive[target] \in
           [db : SUBSET Files, refs : SUBSET Files, media : (SUBSET Files) \cup {Backup!Absent}]
  BY <1>1 DEF BackupInv, BackupTypes, BackupPhases, Backup!TypeOK
<1>4. BackupTypes'
  <2>1. CASE Backup!StageMedia \/ Backup!MarkMedia \/ Backup!MarkDatabase
    BY <1>1, <1>3, <2>1
    DEF ArchivesStay, Backup!StageMedia, Backup!MarkMedia, Backup!MarkDatabase, Backup!Mark,
        BackupTypes, Backup!TypeOK, Restoring, Saving
  <2>2. CASE Backup!SwapOut
    BY <1>1, <1>3, <2>2 DEF ArchivesStay, Backup!SwapOut, BackupTypes, Backup!TypeOK, Restoring, Saving
  <2>3. CASE Backup!SwapIn
    BY <1>1, <1>3, <2>3
    DEF ArchivesStay, Backup!SwapIn, Backup!Chosen, BackupTypes, Backup!TypeOK, Restoring, Saving
  <2>4. CASE Backup!StartImport
    BY <1>1, <1>3, <2>4 DEF ArchivesStay, Backup!StartImport, BackupTypes, Backup!TypeOK, Restoring, Saving
  <2> QED BY <2>1, <2>2, <2>3, <2>4
<1>5. BackupPhases'
  <2> USE <1>1, <1>3 DEF ArchivesStay, BackupPhases, Keeps
  <2>1. CASE Backup!StageMedia
    BY <2>1 DEF Backup!StageMedia, Whole, Backup!Tree, Restoring, Replacing, Saving
  <2>2. CASE Backup!MarkMedia \/ Backup!MarkDatabase
    BY <2>2 DEF Backup!MarkMedia, Backup!MarkDatabase, Backup!Mark, Whole, Restoring, Replacing, Saving
  <2>3. CASE Backup!SwapOut \/ Backup!SwapIn
    BY <2>3 DEF Backup!SwapOut, Backup!SwapIn, Restoring, Replacing, Saving
  <2>4. CASE Backup!StartImport
    BY <2>4 DEF Backup!StartImport, Restoring, Replacing, Saving
  <2> QED BY <2>1, <2>2, <2>3, <2>4
<1> QED BY <1>2, <1>4, <1>5 DEF BackupInv

\* An import ends, perhaps long after its run has died.
LEMMA ImportEnds ==
  ASSUME BackupInv, Backup!EndImport
  PROVE  BackupInv'
<1> USE DEF Backup!data, Backup!backups, Backup!memory, Backup!bounds, Backup!state
<1> PICK c \in clients :
      /\ db' = archive[c].db /\ sessions' = TRUE
      /\ clients' = clients \ {c}
      /\ pc' = IF pc = "importing" /\ c = target THEN "verify" ELSE pc
      /\ UNCHANGED <<media, aside, stored, archive, marker, safety, job, target, dirty, refs, dumped,
                     mine, original, edits, runs, faults>>
  BY DEF Backup!EndImport
<1>1. ArchivesStay BY DEF ArchivesStay
<1>2. Backup!ArchivesCanBeRestored' BY <1>1, ArchivesStayWhole
<1>3. /\ BackupTypes /\ Backup!TypeOK /\ BackupPhases
      /\ archive[c].db \in SUBSET Files /\ pc \in {"idle", "importing"}
  BY DEF BackupInv, BackupTypes, Backup!TypeOK, BackupPhases
<1>4. BackupTypes' BY <1>3 DEF BackupTypes, Backup!TypeOK, Stages, Saving
<1>5. marker = "dirty" BY <1>3 DEF BackupPhases, Whole
<1>6. BackupPhases'
  <2>1. CASE pc = "idle"
    BY <1>3, <1>5, <2>1 DEF BackupPhases, Keeps, Saving, Restoring, Replacing
  <2>2. CASE pc = "importing"
    <3>1. c = target /\ pc' = "verify" /\ clients' = {} BY <1>3, <2>2 DEF BackupPhases
    <3>2. Imported'
      BY <1>3, <1>5, <2>2, <3>1 DEF BackupPhases, Imported, Keeps, Restoring, Stages, Saving
    <3> QED
      BY <1>3, <1>5, <2>2, <3>1, <3>2 DEF BackupPhases, Keeps, Stages, Saving, Restoring, Replacing
  <2> QED BY <1>3, <2>1, <2>2
<1> QED BY <1>2, <1>4, <1>6 DEF BackupInv

\* A restore clears its marker only after its checks.
LEMMA EndingStep ==
  ASSUME BackupInv,
         Backup!Verify \/ Backup!PostRestore \/ Backup!Finish \/ Backup!RollBack \/ Backup!Refuse
  PROVE  BackupInv'
<1> USE DEF Backup!Go, Backup!data, Backup!backups, Backup!memory, Backup!bounds, Backup!state
<1>1. /\ ArchivesStay
      /\ UNCHANGED <<db, clients, marker, safety, faults>> /\ clients = {}
      /\ pc' \in Stages /\ pc' \notin Saving /\ pc # "idle"
  BY DEF ArchivesStay, Backup!Verify, Backup!PostRestore, Backup!Finish, Backup!RollBack, Backup!Refuse,
         BackupInv, BackupPhases, Stages, Saving
<1>2. Backup!ArchivesCanBeRestored' BY <1>1, ArchivesStayWhole
<1>3. BackupTypes /\ Backup!TypeOK /\ BackupPhases BY DEF BackupInv, BackupTypes
<1>4. BackupTypes'
  <2>1. CASE Backup!Verify \/ Backup!PostRestore \/ Backup!Finish \/ Backup!Refuse
    BY <1>1, <1>3, <2>1
    DEF ArchivesStay, Backup!Verify, Backup!PostRestore, Backup!Finish, Backup!Refuse, BackupTypes, Backup!TypeOK
  <2>2. CASE Backup!RollBack
    BY <1>1, <1>3, <2>2 DEF ArchivesStay, Backup!RollBack, BackupTypes, Backup!TypeOK
  <2> QED BY <2>1, <2>2
<1>5. BackupPhases'
  <2> USE <1>1, <1>3 DEF ArchivesStay, BackupPhases, Keeps, Restoring, Replacing, Saving, Stages
  <2>1. CASE Backup!Verify BY <2>1 DEF Backup!Verify, Imported, Backup!Tree
  <2>2. CASE Backup!PostRestore BY <2>2 DEF Backup!PostRestore, Imported, Backup!Tree
  <2>3. CASE Backup!Finish
    <3>1. Whole' /\ Imported'
      <4>1. db # Backup!Torn
        BY <2>3, RecoveryConstants
        DEF Backup!Finish, Imported, Backup!TypeOK, Backup!BackupConstants, Backup!Torn
      <4> QED BY <2>3, <4>1 DEF Backup!Finish, Imported, Whole, Backup!Tree
    <3> QED BY <2>3, <3>1 DEF Backup!Finish
  <2>4. CASE Backup!RollBack BY <2>4 DEF Backup!RollBack
  <2>5. CASE Backup!Refuse BY <2>5 DEF Backup!Refuse, Whole, Backup!Tree
  <2> QED BY <2>1, <2>2, <2>3, <2>4, <2>5
<1> QED BY <1>2, <1>4, <1>5 DEF BackupInv

\* The window opens again: the marker goes unless the data may be damaged.
LEMMA LeavingStep ==
  ASSUME BackupInv, Backup!Leave
  PROVE  BackupInv'
<1> USE DEF Backup!Go, Backup!data, Backup!backups, Backup!memory, Backup!bounds, Backup!state
<1>1. /\ ArchivesStay
      /\ UNCHANGED <<db, sessions, media, aside, clients, faults, dirty>>
      /\ pc = "leave" /\ pc' = "idle"
      /\ IF dirty THEN UNCHANGED <<marker, safety>> ELSE marker' = "absent" /\ safety' = Backup!NoArchive
  BY DEF ArchivesStay, Backup!Leave
<1>2. Backup!ArchivesCanBeRestored' BY <1>1, ArchivesStayWhole
<1>3. BackupTypes /\ Backup!TypeOK /\ BackupPhases BY DEF BackupInv, BackupTypes
<1>4. BackupTypes' BY <1>1, <1>3 DEF ArchivesStay, BackupTypes, Backup!TypeOK, Stages, Saving
<1>5. BackupPhases'
  <2> USE <1>1, <1>3 DEF ArchivesStay, BackupPhases, Keeps, Saving, Restoring, Replacing, Whole, Backup!Tree
  <2>1. CASE dirty BY <2>1
  <2>2. CASE ~dirty BY <2>2
  <2> QED BY <2>1, <2>2
<1> QED BY <1>2, <1>4, <1>5 DEF BackupInv

-----------------------------------------------------------------------------
(* BackupRestore: errors and crashes                                         *)

\* A failure leaves the data as they are, or under a dirty marker.
LEMMA FailingStep ==
  ASSUME BackupInv, Backup!FaultStep
  PROVE  BackupInv'
<1> USE DEF Backup!Go, Backup!Fault, Backup!data, Backup!backups, Backup!memory, Backup!bounds, Backup!state
<1>1. /\ ArchivesStay
      /\ UNCHANGED <<db, sessions, marker, safety>>
      /\ clients' \subseteq clients
  BY DEF ArchivesStay, Backup!FaultStep, Backup!FailEarly, Backup!FailToMark, Backup!FailToSwap,
         Backup!FailToImport, Backup!FailToVerify, Backup!FailToAudit, Backup!FailToRollBack, Backup!Crash
<1>2. Backup!ArchivesCanBeRestored' BY <1>1, ArchivesStayWhole
<1>3. BackupTypes /\ Backup!TypeOK /\ BackupPhases BY DEF BackupInv, BackupTypes
<1>4. \/ /\ pc' \in {"leave", "idle"} /\ pc # "idle"
         /\ clients # {} => marker = "dirty"
      \/ Backup!FailToImport
      \/ Backup!FailToVerify /\ pc' = "roll_back" /\ UNCHANGED <<aside, media, dirty, clients>>
  BY <1>3
  DEF Backup!FaultStep, Backup!FailEarly, Backup!FailToMark, Backup!FailToSwap, Backup!FailToImport,
      Backup!FailToVerify, Backup!FailToAudit, Backup!FailToRollBack, Backup!Crash, BackupPhases, Whole
<1>5. pc' \in Stages /\ pc' \notin Saving /\ (pc' # "idle" => pc # "idle")
  <2>1. CASE Backup!FailToImport
    <3>1. clients # {} /\ (pc' = pc \/ (pc = "importing" /\ pc' = "roll_back"))
      BY <2>1 DEF Backup!FailToImport
    <3> QED BY <1>3, <3>1 DEF BackupTypes, BackupPhases, Stages, Saving
  <2>2. CASE pc' \in {"leave", "idle"} /\ pc # "idle" BY <2>2 DEF Stages, Saving
  <2>3. CASE Backup!FailToVerify /\ pc' = "roll_back"
    BY <2>3 DEF Backup!FailToVerify, Stages, Saving
  <2> QED BY <1>4, <2>1, <2>2, <2>3
<1>6. BackupTypes'
  <2>1. media' \in (SUBSET Files) \cup {Backup!Absent} /\ aside' \in (SUBSET Files) \cup {Backup!Absent}
    <3>1. CASE Backup!FailToRollBack
      <4>1. Backup!Tree(media) \subseteq Files BY <1>3 DEF Backup!Tree, Backup!TypeOK
      <4> QED BY <3>1, <4>1 DEF Backup!FailToRollBack
    <3>2. CASE \/ Backup!FailEarly \/ Backup!FailToMark \/ Backup!FailToSwap \/ Backup!FailToImport
               \/ Backup!FailToVerify \/ Backup!FailToAudit \/ Backup!Crash
      BY <1>3, <3>2
      DEF Backup!FailEarly, Backup!FailToMark, Backup!FailToSwap, Backup!FailToImport,
          Backup!FailToVerify, Backup!FailToAudit, Backup!Crash, Backup!TypeOK
    <3> QED BY <3>1, <3>2 DEF Backup!FaultStep
  <2>2. dirty' \in BOOLEAN
    BY <1>3
    DEF Backup!FaultStep, Backup!FailEarly, Backup!FailToMark, Backup!FailToSwap, Backup!FailToImport,
        Backup!FailToVerify, Backup!FailToAudit, Backup!FailToRollBack, Backup!Crash, Backup!TypeOK
  <2> QED BY <1>1, <1>3, <1>5, <2>1, <2>2 DEF ArchivesStay, BackupTypes, Backup!TypeOK
<1>7. BackupPhases'
  <2>1. marker # "dirty" => UNCHANGED <<media, clients>> /\ pc \notin Replacing
    BY <1>3
    DEF BackupPhases, Whole, Replacing, Backup!FaultStep, Backup!FailEarly, Backup!FailToMark, Backup!FailToSwap,
        Backup!FailToImport, Backup!FailToVerify, Backup!FailToAudit, Backup!FailToRollBack, Backup!Crash
  <2>2. marker # "dirty" => Whole'
    BY <1>1, <1>3, <2>1 DEF BackupPhases, Whole, Backup!Tree
  <2>3. marker = "dirty" => Keeps(safety)'
    BY <1>1, <1>3 DEF ArchivesStay, BackupPhases, Keeps
  <2>4. marker # "dirty" /\ pc' # "idle" => original' = [db |-> db', media |-> media']
    BY <1>1, <1>3, <1>5, <2>1 DEF ArchivesStay, BackupPhases
  <2>5. CASE pc' \in {"leave", "idle"}
    <3>1. clients' # {} => pc' \in {"idle", "importing"}
      BY <1>3, <2>5
      DEF Backup!FaultStep, Backup!FailEarly, Backup!FailToMark, Backup!FailToSwap, Backup!FailToImport,
        Backup!FailToVerify, Backup!FailToAudit, Backup!FailToRollBack, Backup!Crash, BackupPhases
    <3>2. pc' = "leave" /\ marker = "dirty" => dirty'
      BY <1>3, <2>5
      DEF Backup!FaultStep, Backup!FailEarly, Backup!FailToMark, Backup!FailToSwap, Backup!FailToImport,
        Backup!FailToVerify, Backup!FailToAudit, Backup!FailToRollBack, Backup!Crash, BackupPhases
    <3> QED
      BY <1>1, <2>2, <2>3, <2>4, <2>5, <3>1, <3>2 DEF BackupPhases, Saving, Restoring, Replacing, Stages
  <2>6. CASE Backup!FailToImport /\ pc' \notin {"leave", "idle"}
    <3>1. /\ pc = "importing" /\ pc' \in {"importing", "roll_back"}
          /\ pc' = "roll_back" => clients' = {}
          /\ UNCHANGED <<media, aside, dirty>>
      BY <1>3, <2>6 DEF Backup!FailToImport, BackupPhases
    <3> QED
      BY <1>1, <1>3, <2>3, <3>1 DEF ArchivesStay, BackupPhases, Saving, Restoring, Replacing, Stages
  <2>7. CASE Backup!FailToVerify /\ pc' = "roll_back" /\ UNCHANGED <<aside, media, dirty, clients>>
    BY <1>1, <1>3, <2>3, <2>7
    DEF Backup!FailToVerify, ArchivesStay, BackupPhases, Saving, Restoring, Replacing, Stages
  <2> QED BY <1>4, <2>5, <2>6, <2>7
<1> QED BY <1>2, <1>6, <1>7 DEF BackupInv

-----------------------------------------------------------------------------
(* BackupRestore: the theorems                                               *)

LEMMA BackupStepKeepsInv == ASSUME BackupInv, Backup!Next PROVE BackupInv'
BY UserStep, StartStep, SavingStep, ReplacingStep, ImportEnds, EndingStep, LeavingStep, FailingStep
DEF Backup!Next, Backup!Step

LEMMA BackupInitInv == ASSUME Backup!Init PROVE BackupInv
<1> USE DEF Backup!Init, Backup!NoFile, Backup!NoArchive, Backup!Archives
<1>1. BackupTypes
  <2>1. archive \in [Backup!Archives -> [db : SUBSET Files, refs : SUBSET Files,
                       media : (SUBSET Files) \cup {Backup!Absent}]]
    OBVIOUS
  <2>2. runs \in 0 .. MaxRuns /\ pc = "idle"
    BY RecoveryConstants DEF Backup!BackupConstants
  <2> QED BY <2>1, <2>2 DEF BackupTypes, Backup!TypeOK, Stages, Saving
<1>2. Backup!ArchivesCanBeRestored BY DEF Backup!ArchivesCanBeRestored
<1>3. BackupPhases
  BY DEF BackupPhases, Whole, Backup!Torn, Backup!Tree, Saving, Restoring, Replacing, Stages
<1> QED BY <1>1, <1>2, <1>3 DEF BackupInv

\* Whatever has failed or died, the stage of the run, the marker and the data
\* fit together; each study keeps to itself.
THEOREM BackupInvariant == Spec => [](study = "backup" => BackupInv)
<1>1. Init => (study = "backup" => BackupInv) BY BackupInitInv DEF Init
<1>2. (study = "backup" => BackupInv) /\ [Next]_vars => (study = "backup" => BackupInv)'
  <2> SUFFICES ASSUME study = "backup" => BackupInv, [Next]_vars, study' = "backup"
               PROVE  BackupInv'
    OBVIOUS
  <2>1. CASE BackupStep BY <2>1, BackupStepKeepsInv DEF BackupStep
  <2>2. CASE WebStep \/ ResetStep BY <2>2 DEF WebStep, ResetStep
  <2>3. CASE UNCHANGED vars
    <3>1. BackupInv /\ UNCHANGED backupVars BY <2>3 DEF vars
    <3>2. BackupTypes' BY <3>1 DEF backupVars, BackupInv, BackupTypes, Backup!TypeOK
    <3>3. Backup!ArchivesCanBeRestored'
      BY <3>1 DEF backupVars, BackupInv, Backup!ArchivesCanBeRestored, Backup!Tree
    <3>4. BackupPhases'
      BY <3>1 DEF backupVars, BackupInv, BackupPhases, Whole, Keeps, Imported, Backup!Tree
    <3> QED BY <3>2, <3>3, <3>4 DEF BackupInv
  <2> QED BY <2>1, <2>2, <2>3 DEF Next
<1> QED BY <1>1, <1>2, PTL DEF Spec

\* Users are never let in to a database that an import has torn, that refers to
\* files that are not there, or that knows sessions out of a backup, however
\* often backups.py fails or is killed (maintenance_gate.py, _reject_active).
THEOREM OpensWhole == Spec => []OpenIsWhole
<1>1. (study = "backup" => BackupInv) => OpenIsWhole
  BY DEF OpenIsWhole, Backup!OpenIsWhole, Backup!Open, BackupInv, BackupTypes, BackupPhases, Whole
<1> QED BY <1>1, BackupInvariant, PTL

\* Every archive that backups.py has published can be restored, and the safety
\* backup that a dirty marker names holds what was there before the failure.
THEOREM NothingSavedIsLost == Spec => []ArchivesAreWhole
<1>1. (study = "backup" => BackupInv) => ArchivesAreWhole
  BY DEF ArchivesAreWhole, Backup!ArchivesAreWhole, Backup!SafetyIsKept, BackupInv, BackupPhases, Keeps
<1> QED BY <1>1, BackupInvariant, PTL

\* The marker of a dirty site goes only when the data are those of the archive
\* that was asked for; a recovery brings back those from before the failure.
THEOREM OpensAgainAsAsked == Spec => ReopensAsAsked
<1>1. (study = "backup" => BackupInv) /\ [Next]_vars =>
        [study = "backup" => Backup!Reopening]_vars
  <2> SUFFICES ASSUME study = "backup", BackupInv, [Next]_vars, marker = "dirty", marker' # "dirty"
               PROVE  Backup!Reopening
    BY DEF Backup!Reopening
  <2> USE DEF Backup!Go, Backup!data, Backup!backups, Backup!memory, Backup!bounds, Backup!state
  <2>1. Backup!Next BY DEF Next, BackupStep, WebStep, ResetStep, vars, backupVars
  <2>2. ~(Backup!Upload \/ Backup!Discard \/ Backup!DeleteBackup \/ Backup!ClearStale)
    BY DEF Backup!Upload, Backup!Discard, Backup!Edit, Backup!CanEdit, Backup!DeleteBackup,
           Backup!ClearStale, Backup!Open
  <2>3. \A j, a : ~Backup!StartRun(j, a) BY DEF Backup!StartRun
  <2>4. ~Backup!FaultStep
    BY DEF Backup!FaultStep, Backup!Fault, Backup!FailEarly, Backup!FailToMark, Backup!FailToSwap,
           Backup!FailToImport, Backup!FailToVerify, Backup!FailToAudit, Backup!FailToRollBack, Backup!Crash
  <2>5. ~(Backup!Admit \/ Backup!ReadReferences \/ Backup!Dump \/ Backup!Publish)
    BY DEF Backup!Admit, Backup!ReadReferences, Backup!Dump, Backup!Publish
  <2>6. ~Backup!RecordSafety BY DEF Backup!RecordSafety, BackupInv, BackupPhases
  <2>7. ~(Backup!StageMedia \/ Backup!MarkMedia \/ Backup!MarkDatabase \/ Backup!SwapOut
          \/ Backup!SwapIn \/ Backup!StartImport \/ Backup!EndImport)
    BY DEF Backup!StageMedia, Backup!MarkMedia, Backup!MarkDatabase, Backup!Mark, Backup!SwapOut,
           Backup!SwapIn, Backup!StartImport, Backup!EndImport
  <2>8. ~(Backup!Verify \/ Backup!PostRestore \/ Backup!Finish \/ Backup!RollBack \/ Backup!Refuse)
    BY DEF Backup!Verify, Backup!PostRestore, Backup!Finish, Backup!RollBack, Backup!Refuse
  <2>9. Backup!Leave /\ ~dirty
    BY <2>1, <2>2, <2>3, <2>4, <2>5, <2>6, <2>7, <2>8 DEF Backup!Next, Backup!Step, Backup!Leave
  <2> QED
    BY <2>9
    DEF Backup!Reopening, Backup!Leave, Backup!Chosen, BackupInv, BackupPhases, Whole, Imported
<1> QED BY <1>1, BackupInvariant, PTL DEF Spec, ReopensAsAsked

-----------------------------------------------------------------------------
(* WebMaintenance: the invariant                                             *)

\* Who has the description of web-operation.lock open.
Serving(c) == client[c] \in {"reserved", "queued", "answering"}
Alive(op) == worker[op] \in Web!Working \cup {"spawned", "succeeding", "failing"}
Concluding(p) == page[p] = "holding"

\* The lock belongs to one submission and the worker that it has started, or to
\* one page.
LockInv ==
    /\ \A c \in Clients : <<"client", c>> \in holders <=> Serving(c)
    /\ \A op \in Web!Ops : <<"worker", op>> \in holders <=> Alive(op)
    /\ \A p \in Pages : <<"page", p>> \in holders <=> Concluding(p)
    /\ \A c, d \in Clients : Serving(c) /\ Serving(d) => c = d
    /\ \A op, other \in Web!Ops : Alive(op) /\ Alive(other) => op = other
    /\ \A p, q \in Pages : Concluding(p) /\ Concluding(q) => p = q
    /\ \A c \in Clients, op \in Web!Ops :
         Serving(c) /\ Alive(op) => client[c] = "answering" /\ asked[c] = op
    /\ \A p \in Pages :
         Concluding(p) => (\A c \in Clients : ~Serving(c)) /\ (\A op \in Web!Ops : ~Alive(op))

\* A receipt, its worker and the submission that wrote it.
ReceiptFits(op) ==
    /\ \/ begun[op] = 0
       \/ begun[op] = 1 /\ worker[op] \notin {"none", "spawned", "running", "draining"}
    /\ receipt[op] = "absent" => worker[op] = "none"
    /\ worker[op] = "spawned" => receipt[op] = "queued"
    /\ worker[op] \in Web!Working \cup {"succeeding", "failing"} => receipt[op] = "running"
    /\ worker[op] = "succeeding" \/ receipt[op] = "succeeded" => op \in finished

SubmissionFits(c) ==
    /\ client[c] # "idle" => asked[c] \in Web!Ops
    /\ client[c] = "queued" => receipt[asked[c]] = "queued" /\ worker[asked[c]] = "none"

\* The window and the worker that is in it.
WindowInv ==
    /\ \A op \in Web!Ops :
         /\ worker[op] \in Web!InWindow => controller = op /\ window.closed
         /\ worker[op] = "swapping" => window.dirty
    /\ window.dirty => window.closed

WebInv ==
    /\ Web!TypeOK /\ LockInv /\ WindowInv
    /\ \A op \in Web!Ops : ReceiptFits(op)
    /\ \A c \in Clients : SubmissionFits(c)

-----------------------------------------------------------------------------
(* WebMaintenance: submissions                                               *)

LEMMA ServeStep ==
  ASSUME WebInv, NEW c \in Clients,
         Web!Serve(c) \/ Web!ClientDies(c) \/ \E op \in Web!Ops : Web!Submit(c, op)
  PROVE  WebInv'
<1> USE DEF Web!web, Web!browser, Web!gate, Web!history, Web!bounds
<1>1. /\ UNCHANGED <<page, controller, window, begun, finished, shells>>
      /\ Web!TypeOK /\ LockInv /\ WindowInv
      /\ \A op \in Web!Ops : ReceiptFits(op)
      /\ \A d \in Clients : SubmissionFits(d)
  BY DEF WebInv, Web!Serve, Web!Submit, Web!Reserve, Web!Queue, Web!Spawn, Web!SpawnFails, Web!Answer,
         Web!ClientDies
<1>2. CASE \E op \in Web!Ops : Web!Submit(c, op)
  <2> PICK op \in Web!Ops : Web!Submit(c, op) BY <1>2
  <2>1. Web!TypeOK' BY <1>1 DEF Web!TypeOK, Web!Submit
  <2>2. LockInv' BY <1>1 DEF Web!TypeOK, Web!Submit, LockInv, Serving, Alive, Concluding
  <2>3. WindowInv' BY <1>1 DEF Web!Submit, WindowInv
  <2>4. \A o \in Web!Ops : ReceiptFits(o)' BY <1>1 DEF Web!Submit, ReceiptFits
  <2>5. \A d \in Clients : SubmissionFits(d)' BY <1>1 DEF Web!TypeOK, Web!Submit, SubmissionFits
  <2> QED BY <2>1, <2>2, <2>3, <2>4, <2>5 DEF WebInv
<1>3. CASE Web!Reserve(c)
  <2>1. Web!TypeOK' BY <1>1, <1>3 DEF Web!TypeOK, Web!Reserve, Web!Done, Web!Processes
  <2>2. LockInv'
    <3>1. CASE holders = {}
      BY <1>1, <1>3, <3>1 DEF Web!TypeOK, Web!Reserve, LockInv, Serving, Alive, Concluding
    <3>2. CASE holders # {}
      BY <1>1, <1>3, <3>2 DEF Web!TypeOK, Web!Reserve, Web!Done, LockInv, Serving, Alive, Concluding
    <3> QED BY <3>1, <3>2
  <2>3. WindowInv' BY <1>1, <1>3 DEF Web!Reserve, WindowInv
  <2>4. \A o \in Web!Ops : ReceiptFits(o)' BY <1>1, <1>3 DEF Web!Reserve, ReceiptFits
  <2>5. \A d \in Clients : SubmissionFits(d)'
    BY <1>1, <1>3 DEF Web!TypeOK, Web!Reserve, Web!Done, SubmissionFits
  <2> QED BY <2>1, <2>2, <2>3, <2>4, <2>5 DEF WebInv
<1>4. CASE Web!Queue(c)
  <2>1. Web!TypeOK'
    BY <1>1, <1>4 DEF Web!TypeOK, Web!Queue, Web!Release, Web!Done, Web!Unfinished
  <2>2. LockInv'
    BY <1>1, <1>4 DEF Web!TypeOK, Web!Queue, Web!Release, Web!Done, LockInv, Serving, Alive, Concluding
  <2>3. WindowInv' BY <1>1, <1>4 DEF Web!Queue, WindowInv
  <2>4. \A o \in Web!Ops : ReceiptFits(o)'
    BY <1>1, <1>4 DEF Web!TypeOK, Web!Queue, ReceiptFits
  <2>5. \A d \in Clients : SubmissionFits(d)'
    <3> SUFFICES ASSUME NEW d \in Clients PROVE SubmissionFits(d)' OBVIOUS
    <3>1. CASE d = c
      BY <1>1, <1>4, <3>1 DEF Web!TypeOK, Web!Queue, Web!Done, SubmissionFits, ReceiptFits
    <3>2. CASE d # c
      BY <1>1, <1>4, <3>2 DEF Web!TypeOK, Web!Queue, Web!Done, SubmissionFits, ReceiptFits
    <3> QED BY <3>1, <3>2
  <2> QED BY <2>1, <2>2, <2>3, <2>4, <2>5 DEF WebInv
<1>5. CASE Web!Spawn(c)
  <2>1. asked[c] \in Web!Ops /\ worker[asked[c]] = "none" /\ receipt[asked[c]] = "queued"
    BY <1>1, <1>5 DEF Web!Spawn, SubmissionFits
  <2>2. Web!TypeOK' BY <1>1, <1>5, <2>1 DEF Web!TypeOK, Web!Spawn, Web!Processes
  <2>3. LockInv'
    BY <1>1, <1>5, <2>1
    DEF Web!TypeOK, Web!Spawn, LockInv, Serving, Alive, Concluding, Web!Working, Web!InWindow
  <2>4. WindowInv' BY <1>1, <1>5, <2>1 DEF Web!TypeOK, Web!Spawn, WindowInv, Web!InWindow
  <2>5. \A o \in Web!Ops : ReceiptFits(o)'
    BY <1>1, <1>5, <2>1 DEF Web!TypeOK, Web!Spawn, ReceiptFits, Web!Working, Web!InWindow
  <2>6. \A d \in Clients : SubmissionFits(d)'
    BY <1>1, <1>5, <2>1 DEF Web!TypeOK, Web!Spawn, LockInv, Serving, SubmissionFits
  <2> QED BY <2>2, <2>3, <2>4, <2>5, <2>6 DEF WebInv
<1>6. CASE Web!SpawnFails(c)
  <2>1. asked[c] \in Web!Ops /\ worker[asked[c]] = "none" /\ receipt[asked[c]] = "queued"
    BY <1>1, <1>6 DEF Web!SpawnFails, SubmissionFits
  <2>2. Web!TypeOK'
    BY <1>1, <1>6, <2>1 DEF Web!TypeOK, Web!SpawnFails, Web!Release, Web!Done, Web!Final
  <2>3. LockInv'
    BY <1>1, <1>6, <2>1
    DEF Web!TypeOK, Web!SpawnFails, Web!Release, Web!Done, LockInv, Serving, Alive, Concluding
  <2>4. WindowInv' BY <1>1, <1>6 DEF Web!SpawnFails, WindowInv
  <2>5. \A o \in Web!Ops : ReceiptFits(o)'
    BY <1>1, <1>6, <2>1 DEF Web!TypeOK, Web!SpawnFails, ReceiptFits, Web!Working, Web!InWindow
  <2>6. \A d \in Clients : SubmissionFits(d)'
    BY <1>1, <1>6, <2>1 DEF Web!TypeOK, Web!SpawnFails, Web!Done, LockInv, Serving, SubmissionFits
  <2> QED BY <2>2, <2>3, <2>4, <2>5, <2>6 DEF WebInv
<1>7. CASE Web!Answer(c) \/ Web!ClientDies(c)
  <2>1. /\ Serving(c) /\ Web!Release({<<"client", c>>}) /\ Web!Done(c)
        /\ UNCHANGED <<receipt, worker>>
    BY <1>7 DEF Web!Answer, Web!ClientDies, Serving
  <2>2. Web!TypeOK' BY <1>1, <2>1 DEF Web!TypeOK, Web!Release, Web!Done
  <2>3. LockInv'
    BY <1>1, <2>1 DEF Web!TypeOK, Web!Release, Web!Done, LockInv, Serving, Alive, Concluding
  <2>4. WindowInv' BY <1>1, <2>1 DEF WindowInv
  <2>5. \A o \in Web!Ops : ReceiptFits(o)' BY <1>1, <2>1 DEF ReceiptFits
  <2>6. \A d \in Clients : SubmissionFits(d)' BY <1>1, <2>1 DEF Web!TypeOK, Web!Done, SubmissionFits
  <2> QED BY <2>2, <2>3, <2>4, <2>5, <2>6 DEF WebInv
<1> QED BY <1>2, <1>3, <1>4, <1>5, <1>6, <1>7 DEF Web!Serve

-----------------------------------------------------------------------------
(* WebMaintenance: workers                                                   *)

LEMMA WorkStep ==
  ASSUME WebInv, NEW op \in Web!Ops, Web!Work(op) \/ Web!WorkerDies(op)
  PROVE  WebInv'
<1> USE DEF Web!web, Web!browser, Web!gate, Web!history, Web!bounds, Web!At, Web!Become, Web!InWindow
<1>1. /\ UNCHANGED <<client, asked, page, shells>>
      /\ Web!TypeOK /\ LockInv /\ WindowInv
      /\ \A o \in Web!Ops : ReceiptFits(o)
      /\ \A c \in Clients : SubmissionFits(c)
      /\ Alive(op)
  BY DEF WebInv, Web!Work, Web!Run, Web!Enter, Web!Authorize, Web!Overwrite, Web!Finish, Web!Fail,
         Web!Report, Web!WorkerDies, Web!TypeOK, Alive, Web!Working
<1>2. \A c \in Clients : client[c] # "queued"
  BY <1>1 DEF LockInv, Serving
<1>3. CASE Web!Run(op)
  <2>1. Web!TypeOK' BY <1>1, <1>3 DEF Web!TypeOK, Web!Run, Web!Unfinished, Web!Working
  <2>2. LockInv'
    BY <1>1, <1>3 DEF Web!TypeOK, Web!Run, LockInv, Serving, Alive, Concluding, Web!Working
  <2>3. WindowInv' BY <1>1, <1>3 DEF Web!TypeOK, Web!Run, WindowInv
  <2>4. \A o \in Web!Ops : ReceiptFits(o)'
    BY <1>1, <1>3 DEF Web!TypeOK, Web!Run, ReceiptFits, Web!Working
  <2>5. \A c \in Clients : SubmissionFits(c)' BY <1>1, <1>2, <1>3 DEF Web!Run, SubmissionFits
  <2> QED BY <2>1, <2>2, <2>3, <2>4, <2>5 DEF WebInv
<1>4. CASE Web!Enter(op)
  <2>1. Web!TypeOK' BY <1>1, <1>4 DEF Web!TypeOK, Web!Enter, Web!Open, Web!Working
  <2>2. LockInv'
    BY <1>1, <1>4 DEF Web!TypeOK, Web!Enter, LockInv, Serving, Alive, Concluding, Web!Working
  <2>3. WindowInv'
    BY <1>1, <1>4 DEF Web!TypeOK, Web!Enter, Web!Open, WindowInv, LockInv, Alive, Web!Working
  <2>4. \A o \in Web!Ops : ReceiptFits(o)'
    BY <1>1, <1>4 DEF Web!TypeOK, Web!Enter, ReceiptFits, Web!Working
  <2>5. \A c \in Clients : SubmissionFits(c)' BY <1>1, <1>2, <1>4 DEF Web!Enter, SubmissionFits
  <2> QED BY <2>1, <2>2, <2>3, <2>4, <2>5 DEF WebInv
<1>5. CASE Web!Authorize(op)
  <2>1. Web!TypeOK' BY <1>1, <1>5 DEF Web!TypeOK, Web!Authorize, Web!Working
  <2>2. LockInv'
    BY <1>1, <1>5 DEF Web!TypeOK, Web!Authorize, LockInv, Serving, Alive, Concluding, Web!Working
  <2>3. WindowInv' BY <1>1, <1>5 DEF Web!TypeOK, Web!Authorize, WindowInv
  <2>4. \A o \in Web!Ops : ReceiptFits(o)'
    BY <1>1, <1>5 DEF Web!TypeOK, Web!Authorize, ReceiptFits, Web!Working
  <2>5. \A c \in Clients : SubmissionFits(c)' BY <1>1, <1>2, <1>5 DEF Web!Authorize, SubmissionFits
  <2> QED BY <2>1, <2>2, <2>3, <2>4, <2>5 DEF WebInv
<1>6. CASE Web!Overwrite(op)
  <2>1. Web!TypeOK' BY <1>1, <1>6 DEF Web!TypeOK, Web!Overwrite, Web!Working
  <2>2. LockInv'
    BY <1>1, <1>6 DEF Web!TypeOK, Web!Overwrite, LockInv, Serving, Alive, Concluding, Web!Working
  <2>3. WindowInv' BY <1>1, <1>6 DEF Web!TypeOK, Web!Overwrite, WindowInv
  <2>4. \A o \in Web!Ops : ReceiptFits(o)'
    BY <1>1, <1>6 DEF Web!TypeOK, Web!Overwrite, ReceiptFits, Web!Working
  <2>5. \A c \in Clients : SubmissionFits(c)' BY <1>1, <1>2, <1>6 DEF Web!Overwrite, SubmissionFits
  <2> QED BY <2>1, <2>2, <2>3, <2>4, <2>5 DEF WebInv
<1>7. CASE Web!Finish(op)
  <2>1. worker[op] \in {"body", "swapping"} BY <1>7 DEF Web!Finish
  <2>2. Web!TypeOK' BY <1>1, <1>7 DEF Web!TypeOK, Web!Finish, Web!Open
  <2>3. LockInv'
    BY <1>1, <1>7, <2>1 DEF Web!TypeOK, Web!Finish, LockInv, Serving, Alive, Concluding, Web!Working
  <2>4. WindowInv'
    BY <1>1, <1>7, <2>1 DEF Web!TypeOK, Web!Finish, Web!Open, WindowInv, LockInv, Alive, Web!Working
  <2>5. \A o \in Web!Ops : ReceiptFits(o)'
    BY <1>1, <1>7, <2>1 DEF Web!TypeOK, Web!Finish, ReceiptFits, Web!Working
  <2>6. \A c \in Clients : SubmissionFits(c)' BY <1>1, <1>2, <1>7 DEF Web!Finish, SubmissionFits
  <2> QED BY <2>2, <2>3, <2>4, <2>5, <2>6 DEF WebInv
<1>8. CASE Web!Fail(op)
  <2>1. Web!TypeOK' BY <1>1, <1>8 DEF Web!TypeOK, Web!Fail, Web!Leave, Web!Open
  <2>2. LockInv'
    BY <1>1, <1>8 DEF Web!TypeOK, Web!Fail, LockInv, Serving, Alive, Concluding, Web!Working
  <2>3. WindowInv'
    BY <1>1, <1>8
    DEF Web!TypeOK, Web!Fail, Web!Leave, Web!Open, WindowInv, LockInv, Alive, Web!Working
  <2>4. \A o \in Web!Ops : ReceiptFits(o)'
    BY <1>1, <1>8 DEF Web!TypeOK, Web!Fail, ReceiptFits, Web!Working
  <2>5. \A c \in Clients : SubmissionFits(c)' BY <1>1, <1>2, <1>8 DEF Web!Fail, SubmissionFits
  <2> QED BY <2>1, <2>2, <2>3, <2>4, <2>5 DEF WebInv
<1>9. CASE Web!Report(op)
  <2>1. Web!TypeOK' BY <1>1, <1>9 DEF Web!TypeOK, Web!Report, Web!Release, Web!Final
  <2>2. LockInv'
    BY <1>1, <1>9
    DEF Web!TypeOK, Web!Report, Web!Release, LockInv, Serving, Alive, Concluding, Web!Working
  <2>3. WindowInv' BY <1>1, <1>9 DEF Web!TypeOK, Web!Report, WindowInv
  <2>4. \A o \in Web!Ops : ReceiptFits(o)'
    BY <1>1, <1>9 DEF Web!TypeOK, Web!Report, ReceiptFits, Web!Working
  <2>5. \A c \in Clients : SubmissionFits(c)' BY <1>1, <1>2, <1>9 DEF Web!Report, SubmissionFits
  <2> QED BY <2>1, <2>2, <2>3, <2>4, <2>5 DEF WebInv
<1>10. CASE Web!WorkerDies(op)
  <2>1. Web!TypeOK' BY <1>1, <1>10, RecoveryConstants DEF Web!TypeOK, Web!WorkerDies, Web!Release
  <2>2. LockInv'
    BY <1>1, <1>10
    DEF Web!TypeOK, Web!WorkerDies, Web!Release, LockInv, Serving, Alive, Concluding, Web!Working
  <2>3. WindowInv' BY <1>1, <1>10 DEF Web!TypeOK, Web!WorkerDies, WindowInv
  <2>4. \A o \in Web!Ops : ReceiptFits(o)'
    BY <1>1, <1>10 DEF Web!TypeOK, Web!WorkerDies, ReceiptFits, Web!Working
  <2>5. \A c \in Clients : SubmissionFits(c)' BY <1>1, <1>2, <1>10 DEF Web!WorkerDies, SubmissionFits
  <2> QED BY <2>1, <2>2, <2>3, <2>4, <2>5 DEF WebInv
<1> QED BY <1>3, <1>4, <1>5, <1>6, <1>7, <1>8, <1>9, <1>10 DEF Web!Work

-----------------------------------------------------------------------------
(* WebMaintenance: pages, the shell and other requests                       *)

LEMMA WatchStep ==
  ASSUME WebInv, NEW p \in Pages, Web!Watch(p) \/ Web!PageDies(p)
  PROVE  WebInv'
<1> USE DEF Web!web, Web!browser, Web!gate, Web!history, Web!bounds, Web!Turn
<1>1. /\ UNCHANGED <<client, asked, worker, controller, begun, finished, shells>>
      /\ Web!TypeOK /\ LockInv /\ WindowInv
      /\ \A o \in Web!Ops : ReceiptFits(o)
      /\ \A c \in Clients : SubmissionFits(c)
  BY DEF WebInv, Web!Watch, Web!Poll, Web!TryLock, Web!Conclude, Web!Publish, Web!PageDies
<1>2. PagesWatch[p] \in Web!Ops BY RecoveryConstants DEF Web!WebConstants
<1>3. CASE Web!Poll(p) \/ Web!Publish(p)
  <2>1. /\ UNCHANGED <<receipt, holders>> /\ ~Concluding(p)
        /\ \E stage \in {"polling", "answering", "idle"} : page' = [page EXCEPT ![p] = stage]
        /\ window' = window \/ (~window.dirty /\ controller = Web!None /\ window' = Web!Open)
    BY <1>3 DEF Web!Poll, Web!Publish, Web!Abandoned, Concluding
  <2>2. Web!TypeOK'
    <3>1. page' \in [Pages -> {"idle", "polling", "holding", "answering"}]
      BY <1>1, <2>1 DEF Web!TypeOK
    <3>2. window' \in [closed : BOOLEAN, op : Web!Ops \cup {Web!None}, dirty : BOOLEAN]
      <4>1. Web!Open \in [closed : BOOLEAN, op : Web!Ops \cup {Web!None}, dirty : BOOLEAN]
        BY DEF Web!Open
      <4>2. CASE window' = window BY <1>1, <4>2 DEF Web!TypeOK
      <4>3. CASE window' = Web!Open BY <4>1, <4>3
      <4> QED BY <2>1, <4>2, <4>3
    <3> QED BY <1>1, <2>1, <3>1, <3>2 DEF Web!TypeOK
  <2>3. LockInv' BY <1>1, <2>1 DEF Web!TypeOK, LockInv, Serving, Alive, Concluding
  <2>4. WindowInv'
    <3>1. \A op \in Web!Ops : op # Web!None BY RecoveryConstants DEF Web!WebConstants
    <3> QED BY <1>1, <2>1, <3>1 DEF WindowInv, Web!Open, Web!InWindow
  <2>5. \A o \in Web!Ops : ReceiptFits(o)' BY <1>1, <2>1 DEF ReceiptFits
  <2>6. \A c \in Clients : SubmissionFits(c)' BY <1>1, <2>1 DEF SubmissionFits
  <2> QED BY <2>2, <2>3, <2>4, <2>5, <2>6 DEF WebInv
<1>4. CASE Web!TryLock(p)
  <2>1. Web!TypeOK' BY <1>1, <1>4 DEF Web!TypeOK, Web!TryLock, Web!Processes
  <2>2. LockInv'
    <3> USE <1>1, <1>4 DEF Web!TypeOK, Web!TryLock, LockInv, Serving, Alive, Concluding
    <3>1. CASE holders = {} BY <3>1
    <3>2. CASE holders # {} BY <3>2
    <3> QED BY <3>1, <3>2
  <2>3. WindowInv' BY <1>1, <1>4 DEF Web!TryLock, WindowInv
  <2>4. \A o \in Web!Ops : ReceiptFits(o)' BY <1>1, <1>4 DEF Web!TryLock, ReceiptFits
  <2>5. \A c \in Clients : SubmissionFits(c)' BY <1>1, <1>4 DEF Web!TryLock, SubmissionFits
  <2> QED BY <2>1, <2>2, <2>3, <2>4, <2>5 DEF WebInv
<1>5. CASE Web!Conclude(p)
  <2>1. \A c \in Clients : client[c] # "queued" BY <1>1, <1>5 DEF Web!Conclude, LockInv, Concluding, Serving
  <2>2. \A o \in Web!Ops : ~Alive(o) BY <1>1, <1>5 DEF Web!Conclude, LockInv, Concluding
  <2>3. /\ receipt' = [receipt EXCEPT ![PagesWatch[p]] =
                         IF receipt[PagesWatch[p]] \in Web!Unfinished THEN "failed" ELSE receipt[PagesWatch[p]]]
        /\ \E stage \in {"answering", "idle"} : page' = [page EXCEPT ![p] = stage]
        /\ Web!Release({<<"page", p>>}) /\ UNCHANGED window /\ Concluding(p)
    BY <1>5 DEF Web!Conclude, Concluding
  <2>4. Web!TypeOK' BY <1>1, <1>2, <2>3 DEF Web!TypeOK, Web!Release, Web!Final
  <2>5. LockInv' BY <1>1, <2>3 DEF Web!TypeOK, Web!Release, LockInv, Serving, Alive, Concluding
  <2>6. WindowInv' BY <1>1, <2>3 DEF WindowInv
  <2>7. \A o \in Web!Ops : ReceiptFits(o)'
    BY <1>1, <1>2, <2>2, <2>3 DEF Web!TypeOK, ReceiptFits, Alive, Web!Working, Web!Unfinished
  <2>8. \A c \in Clients : SubmissionFits(c)' BY <1>1, <2>1, <2>3 DEF SubmissionFits
  <2> QED BY <2>4, <2>5, <2>6, <2>7, <2>8 DEF WebInv
<1>6. CASE Web!PageDies(p)
  <2>1. Web!TypeOK' BY <1>1, <1>6 DEF Web!TypeOK, Web!PageDies, Web!Release
  <2>2. LockInv'
    BY <1>1, <1>6 DEF Web!TypeOK, Web!PageDies, Web!Release, LockInv, Serving, Alive, Concluding
  <2>3. WindowInv' BY <1>1, <1>6 DEF Web!PageDies, WindowInv
  <2>4. \A o \in Web!Ops : ReceiptFits(o)' BY <1>1, <1>6 DEF Web!PageDies, ReceiptFits
  <2>5. \A c \in Clients : SubmissionFits(c)' BY <1>1, <1>6 DEF Web!PageDies, SubmissionFits
  <2> QED BY <2>1, <2>2, <2>3, <2>4, <2>5 DEF WebInv
<1> QED BY <1>3, <1>4, <1>5, <1>6 DEF Web!Watch

LEMMA OtherStep ==
  ASSUME WebInv, Web!Reject \/ Web!CliEnters \/ Web!CliLeaves
  PROVE  WebInv'
<1> USE DEF Web!web, Web!browser, Web!gate, Web!history, Web!bounds
<1>1. /\ UNCHANGED <<receipt, holders, client, asked, page, worker, begun, finished>>
      /\ Web!TypeOK /\ LockInv /\ WindowInv
      /\ \A o \in Web!Ops : ReceiptFits(o)
      /\ \A c \in Clients : SubmissionFits(c)
  BY DEF WebInv, Web!Reject, Web!CliEnters, Web!CliLeaves
<1>2. \A op \in Web!Ops : op # Web!None /\ op # Web!Cli BY RecoveryConstants DEF Web!WebConstants
<1>3. Web!TypeOK'
  <2>1. Web!Open \in [closed : BOOLEAN, op : Web!Ops \cup {Web!None}, dirty : BOOLEAN]
    BY DEF Web!Open
  <2>2. [Web!Open EXCEPT !.closed = TRUE]
          \in [closed : BOOLEAN, op : Web!Ops \cup {Web!None}, dirty : BOOLEAN]
    BY DEF Web!Open
  <2>3. controller' \in Web!Ops \cup {Web!None, Web!Cli}
    BY <1>1 DEF Web!TypeOK, Web!Reject, Web!CliEnters, Web!CliLeaves
  <2>4. window' \in {window, Web!Open, [Web!Open EXCEPT !.closed = TRUE]}
    BY DEF Web!Reject, Web!CliEnters, Web!CliLeaves
  <2> QED BY <1>1, <2>1, <2>2, <2>3, <2>4 DEF Web!TypeOK
<1>4. LockInv' BY <1>1 DEF LockInv, Serving, Alive, Concluding
<1>5. WindowInv'
  BY <1>1, <1>2
  DEF Web!TypeOK, Web!Reject, Web!CliEnters, Web!CliLeaves, Web!Abandoned, Web!Open, WindowInv, Web!InWindow
<1>6. \A o \in Web!Ops : ReceiptFits(o)' BY <1>1 DEF ReceiptFits
<1>7. \A c \in Clients : SubmissionFits(c)' BY <1>1 DEF SubmissionFits
<1> QED BY <1>3, <1>4, <1>5, <1>6, <1>7 DEF WebInv

-----------------------------------------------------------------------------
(* WebMaintenance: the theorems                                              *)

LEMMA WebStepKeepsInv == ASSUME WebInv, Web!Next PROVE WebInv'
BY ServeStep, WorkStep, WatchStep, OtherStep DEF Web!Next

LEMMA WebInitInv == ASSUME Web!Init PROVE WebInv
<1> USE RecoveryConstants DEF Web!Init, Web!Open
<1>1. Web!TypeOK
  BY DEF Web!TypeOK, Web!Unfinished, Web!Final, Web!Working
<1>2. LockInv BY DEF LockInv, Serving, Alive, Concluding, Web!Working, Web!InWindow
<1>3. WindowInv BY DEF WindowInv, Web!InWindow
<1>4. \A o \in Web!Ops : ReceiptFits(o) BY DEF ReceiptFits, Web!Working, Web!InWindow
<1>5. \A c \in Clients : SubmissionFits(c) BY DEF SubmissionFits
<1> QED BY <1>1, <1>2, <1>3, <1>4, <1>5 DEF WebInv

\* However processes of web_maintenance.py interleave and die, the operation
\* lock, the receipts, the workers and the window fit together.
THEOREM WebInvariant == Spec => [](study = "web" => WebInv)
<1>1. Init => (study = "web" => WebInv) BY WebInitInv DEF Init
<1>2. (study = "web" => WebInv) /\ [Next]_vars => (study = "web" => WebInv)'
  <2> SUFFICES ASSUME study = "web" => WebInv, [Next]_vars, study' = "web"
               PROVE  WebInv'
    OBVIOUS
  <2>1. CASE WebStep BY <2>1, WebStepKeepsInv DEF WebStep
  <2>2. CASE BackupStep \/ ResetStep BY <2>2 DEF BackupStep, ResetStep
  <2>3. CASE UNCHANGED vars
    <3>1. WebInv /\ UNCHANGED webVars BY <2>3 DEF vars
    <3>2. Web!TypeOK' BY <3>1 DEF webVars, WebInv, Web!TypeOK
    <3>3. LockInv' BY <3>1 DEF webVars, WebInv, LockInv, Serving, Alive, Concluding
    <3>4. WindowInv' BY <3>1 DEF webVars, WebInv, WindowInv
    <3>5. \A o \in Web!Ops : ReceiptFits(o)' BY <3>1 DEF webVars, WebInv, ReceiptFits
    <3>6. \A c \in Clients : SubmissionFits(c)' BY <3>1 DEF webVars, WebInv, SubmissionFits
    <3> QED BY <3>2, <3>3, <3>4, <3>5, <3>6 DEF WebInv
  <2> QED BY <2>1, <2>2, <2>3 DEF Next
<1> QED BY <1>1, <1>2, PTL DEF Spec

\* The operator that the instance brings along is the one of the library.
LEMMA SameCardinality == ASSUME NEW S PROVE Web!Cardinality(S) = Cardinality(S)
BY DEF Web!Cardinality, Cardinality

\* An operation of web_maintenance.py begins at most once, one worker at a time
\* touches the data, and a receipt says what has become of its operation.
THEOREM ReceiptsTellTheTruth == Spec => []ReceiptsAreTrue
<1>1. (study = "web" => WebInv) => ReceiptsAreTrue
  <2> SUFFICES ASSUME WebInv PROVE Web!ReceiptsAreTrue BY DEF ReceiptsAreTrue
  <2>1. \A op \in Web!Ops :
          /\ begun[op] <= 1
          /\ receipt[op] \in Web!Final => worker[op] \in {"none", "ended"}
          /\ receipt[op] = "succeeded" => op \in finished
          /\ Web!At(op, "swapping") => window.dirty
    BY DEF WebInv, ReceiptFits, WindowInv, Web!Final, Web!At, Web!TypeOK
  <2>2. Cardinality({op \in Web!Ops : worker[op] \in Web!Working}) <= 1
    <3> DEFINE S == {op \in Web!Ops : worker[op] \in Web!Working}
    <3>1. \A op, other \in S : op = other BY DEF WebInv, LockInv, Alive
    <3>2. CASE S = {} BY <3>2, FS_EmptySet
    <3>3. CASE S # {}
      <4> PICK op \in S : S = {op} BY <3>1, <3>3
      <4>1. Cardinality({op}) = 1 BY FS_Singleton
      <4> QED BY <4>1
    <3> QED BY <3>2, <3>3
  <2>3. Web!TypeOK /\ (window.dirty => window.closed) BY DEF WebInv, WindowInv
  <2>4. Web!Cardinality({op \in Web!Ops : worker[op] \in Web!Working}) <= 1
    BY <2>2, SameCardinality
  <2> QED BY <2>1, <2>3, <2>4 DEF Web!ReceiptsAreTrue
<1> QED BY <1>1, WebInvariant, PTL

\* A final receipt is never overwritten, and no receipt disappears: only a page
\* that holds the operation lock, and the worker itself, conclude.
THEOREM FinalReceiptsStay == Spec => ReceiptsStay
<1>1. (study = "web" => WebInv) /\ [Next]_vars => [study = "web" => Web!Keeping]_vars
  <2> SUFFICES ASSUME WebInv, Web!Next, NEW op \in Web!Ops
               PROVE  /\ receipt[op] \in Web!Final => receipt'[op] = receipt[op]
                      /\ receipt[op] # "absent" => receipt'[op] # "absent"
    BY DEF Next, BackupStep, WebStep, ResetStep, Web!Keeping
  <2> USE DEF Web!web, Web!Final, Web!Unfinished
  <2>1. Web!TypeOK /\ \A o \in Web!Ops : ReceiptFits(o) BY DEF WebInv
  <2>2. ASSUME NEW c \in Clients,
               Web!Serve(c) \/ Web!ClientDies(c) \/ \E o \in Web!Ops : Web!Submit(c, o)
        PROVE  /\ receipt[op] \in Web!Final => receipt'[op] = receipt[op]
               /\ receipt[op] # "absent" => receipt'[op] # "absent"
    <3>1. client[c] = "queued" => receipt[asked[c]] = "queued" BY DEF WebInv, SubmissionFits
    <3> QED
      BY <2>1, <2>2, <3>1
      DEF Web!Serve, Web!Submit, Web!Reserve, Web!Queue, Web!Spawn, Web!SpawnFails, Web!Answer,
          Web!ClientDies, Web!TypeOK
  <2>3. ASSUME NEW o \in Web!Ops, Web!Work(o) \/ Web!WorkerDies(o)
        PROVE  /\ receipt[op] \in Web!Final => receipt'[op] = receipt[op]
               /\ receipt[op] # "absent" => receipt'[op] # "absent"
    BY <2>1, <2>3
    DEF Web!Work, Web!Run, Web!Enter, Web!Authorize, Web!Overwrite, Web!Finish, Web!Fail, Web!Report,
        Web!WorkerDies, Web!TypeOK, ReceiptFits, Web!Become, Web!At
  <2>4. ASSUME NEW p \in Pages, Web!Watch(p) \/ Web!PageDies(p)
        PROVE  /\ receipt[op] \in Web!Final => receipt'[op] = receipt[op]
               /\ receipt[op] # "absent" => receipt'[op] # "absent"
    BY <2>1, <2>4 DEF Web!Watch, Web!Poll, Web!TryLock, Web!Conclude, Web!Publish, Web!PageDies, Web!TypeOK
  <2>5. ASSUME Web!Reject \/ Web!CliEnters \/ Web!CliLeaves
        PROVE  receipt' = receipt
    BY <2>5 DEF Web!Reject, Web!CliEnters, Web!CliLeaves
  <2> QED BY <2>2, <2>3, <2>4, <2>5 DEF Web!Next
<1> QED BY <1>1, WebInvariant, PTL DEF Spec, ReceiptsStay

-----------------------------------------------------------------------------
(* SystemReset: the order in which the tables are emptied                    *)

Emptied ==
    {"deliveries", "mutations", "audit_logs", "items", "counts", "usages", "attachments", "repairs",
    "faults", "assignments", "allocations", "reservations", "addresses", "custom_values", "asset_tags",
    "procurements", "contracts", "disposals", "assets", "models", "licenses", "transactions", "stocks",
    "parts", "categories", "fieldset_items", "field_options", "types", "fieldsets", "fields", "racks",
    "rooms", "centers", "tags", "manufacturers", "people", "departments", "identities", "tokens",
    "users"}

LEMMA HistoryIs ==
    /\ Len(Reset!History) = 10 /\ Reset!History[1] = "deliveries" /\ Reset!History[2] = "mutations"
    /\ Reset!History[3] = "audit_logs" /\ Reset!History[4] = "items" /\ Reset!History[5] = "counts"
    /\ Reset!History[6] = "usages" /\ Reset!History[7] = "attachments" /\ Reset!History[8] = "repairs"
    /\ Reset!History[9] = "faults" /\ Reset!History[10] = "assignments"
BY DEF Reset!History

LEMMA ObjectsIs ==
    /\ Len(Reset!Objects) = 30 /\ Reset!Objects[1] = "allocations" /\ Reset!Objects[2] = "reservations"
    /\ Reset!Objects[3] = "addresses" /\ Reset!Objects[4] = "custom_values"
    /\ Reset!Objects[5] = "asset_tags" /\ Reset!Objects[6] = "procurements"
    /\ Reset!Objects[7] = "contracts" /\ Reset!Objects[8] = "disposals" /\ Reset!Objects[9] = "assets"
    /\ Reset!Objects[10] = "models" /\ Reset!Objects[11] = "licenses"
    /\ Reset!Objects[12] = "transactions" /\ Reset!Objects[13] = "stocks" /\ Reset!Objects[14] = "parts"
    /\ Reset!Objects[15] = "categories" /\ Reset!Objects[16] = "fieldset_items"
    /\ Reset!Objects[17] = "field_options" /\ Reset!Objects[18] = "types"
    /\ Reset!Objects[19] = "fieldsets" /\ Reset!Objects[20] = "fields" /\ Reset!Objects[21] = "racks"
    /\ Reset!Objects[22] = "rooms" /\ Reset!Objects[23] = "centers" /\ Reset!Objects[24] = "tags"
    /\ Reset!Objects[25] = "manufacturers" /\ Reset!Objects[26] = "people"
    /\ Reset!Objects[27] = "departments" /\ Reset!Objects[28] = "identities"
    /\ Reset!Objects[29] = "tokens" /\ Reset!Objects[30] = "users"
BY DEF Reset!Objects

LEMMA Joined ==
    ASSUME NEW S, NEW s \in Seq(S), NEW t \in Seq(S)
    PROVE  /\ Len(s \o t) = Len(s) + Len(t)
           /\ \A i \in 1 .. Len(s) : (s \o t)[i] = s[i]
           /\ \A i \in 1 .. Len(t) : (s \o t)[Len(s) + i] = t[i]
OBVIOUS

LEMMA OrderIs ==
    /\ Len(Reset!Order) = 40 /\ Reset!Order[1] = "deliveries" /\ Reset!Order[2] = "mutations"
    /\ Reset!Order[3] = "audit_logs" /\ Reset!Order[4] = "items" /\ Reset!Order[5] = "counts"
    /\ Reset!Order[6] = "usages" /\ Reset!Order[7] = "attachments" /\ Reset!Order[8] = "repairs"
    /\ Reset!Order[9] = "faults" /\ Reset!Order[10] = "assignments" /\ Reset!Order[11] = "allocations"
    /\ Reset!Order[12] = "reservations" /\ Reset!Order[13] = "addresses"
    /\ Reset!Order[14] = "custom_values" /\ Reset!Order[15] = "asset_tags"
    /\ Reset!Order[16] = "procurements" /\ Reset!Order[17] = "contracts"
    /\ Reset!Order[18] = "disposals" /\ Reset!Order[19] = "assets" /\ Reset!Order[20] = "models"
    /\ Reset!Order[21] = "licenses" /\ Reset!Order[22] = "transactions" /\ Reset!Order[23] = "stocks"
    /\ Reset!Order[24] = "parts" /\ Reset!Order[25] = "categories" /\ Reset!Order[26] = "fieldset_items"
    /\ Reset!Order[27] = "field_options" /\ Reset!Order[28] = "types" /\ Reset!Order[29] = "fieldsets"
    /\ Reset!Order[30] = "fields" /\ Reset!Order[31] = "racks" /\ Reset!Order[32] = "rooms"
    /\ Reset!Order[33] = "centers" /\ Reset!Order[34] = "tags" /\ Reset!Order[35] = "manufacturers"
    /\ Reset!Order[36] = "people" /\ Reset!Order[37] = "departments" /\ Reset!Order[38] = "identities"
    /\ Reset!Order[39] = "tokens" /\ Reset!Order[40] = "users"
<1>1. Reset!History \in Seq(Emptied) /\ Reset!Objects \in Seq(Emptied)
  BY DEF Reset!History, Reset!Objects, Emptied
<1>2. /\ Len(Reset!Order) = 40
      /\ \A i \in 1 .. 10 : Reset!Order[i] = Reset!History[i]
      /\ \A i \in 1 .. 30 : Reset!Order[10 + i] = Reset!Objects[i]
  <2>1. Len(Reset!History) = 10 /\ Len(Reset!Objects) = 30 BY HistoryIs, ObjectsIs
  <2>2. Reset!Order = Reset!History \o Reset!Objects BY DEF Reset!Order
  <2> HIDE DEF Reset!History, Reset!Objects
  <2>3. /\ Len(Reset!History \o Reset!Objects) = Len(Reset!History) + Len(Reset!Objects)
        /\ \A i \in 1 .. Len(Reset!History) : (Reset!History \o Reset!Objects)[i] = Reset!History[i]
        /\ \A i \in 1 .. Len(Reset!Objects) :
             (Reset!History \o Reset!Objects)[Len(Reset!History) + i] = Reset!Objects[i]
    BY <1>1, Joined
  <2>4. Len(Reset!Order) = 40 BY ONLY <2>1, <2>2, <2>3
  <2>5. \A i \in 1 .. 10 : Reset!Order[i] = Reset!History[i] BY ONLY <2>1, <2>2, <2>3
  <2>6. \A i \in 1 .. 30 : Reset!Order[10 + i] = Reset!Objects[i] BY ONLY <2>1, <2>2, <2>3
  <2> QED BY ONLY <2>4, <2>5, <2>6
<1>3. \A i \in 11 .. 40 : Reset!Order[i] = Reset!Objects[i - 10]
  <2> TAKE i \in 11 .. 40
  <2>1. i - 10 \in 1 .. 30 /\ 10 + (i - 10) = i OBVIOUS
  <2> QED BY <1>2, <2>1
<1> QED BY <1>2, <1>3, HistoryIs, ObjectsIs

\* Where a table stands.
Place(t) == CHOOSE i \in 1 .. 40 : Reset!Order[i] = t

LEMMA PlaceIs ==
    /\ Place("deliveries") = 1 /\ Place("mutations") = 2 /\ Place("audit_logs") = 3
    /\ Place("items") = 4 /\ Place("counts") = 5 /\ Place("usages") = 6 /\ Place("attachments") = 7
    /\ Place("repairs") = 8 /\ Place("faults") = 9 /\ Place("assignments") = 10
    /\ Place("allocations") = 11 /\ Place("reservations") = 12 /\ Place("addresses") = 13
    /\ Place("custom_values") = 14 /\ Place("asset_tags") = 15 /\ Place("procurements") = 16
    /\ Place("contracts") = 17 /\ Place("disposals") = 18 /\ Place("assets") = 19
    /\ Place("models") = 20 /\ Place("licenses") = 21 /\ Place("transactions") = 22
    /\ Place("stocks") = 23 /\ Place("parts") = 24 /\ Place("categories") = 25
    /\ Place("fieldset_items") = 26 /\ Place("field_options") = 27 /\ Place("types") = 28
    /\ Place("fieldsets") = 29 /\ Place("fields") = 30 /\ Place("racks") = 31 /\ Place("rooms") = 32
    /\ Place("centers") = 33 /\ Place("tags") = 34 /\ Place("manufacturers") = 35
    /\ Place("people") = 36 /\ Place("departments") = 37 /\ Place("identities") = 38
    /\ Place("tokens") = 39 /\ Place("users") = 40
<1>1. \A i \in 1 .. 40 :
        /\ (Reset!Order[i] = "deliveries" <=> i = 1) /\ (Reset!Order[i] = "mutations" <=> i = 2)
        /\ (Reset!Order[i] = "audit_logs" <=> i = 3) /\ (Reset!Order[i] = "items" <=> i = 4)
        /\ (Reset!Order[i] = "counts" <=> i = 5) /\ (Reset!Order[i] = "usages" <=> i = 6)
        /\ (Reset!Order[i] = "attachments" <=> i = 7) /\ (Reset!Order[i] = "repairs" <=> i = 8)
        /\ (Reset!Order[i] = "faults" <=> i = 9) /\ (Reset!Order[i] = "assignments" <=> i = 10)
        /\ (Reset!Order[i] = "allocations" <=> i = 11) /\ (Reset!Order[i] = "reservations" <=> i = 12)
        /\ (Reset!Order[i] = "addresses" <=> i = 13) /\ (Reset!Order[i] = "custom_values" <=> i = 14)
        /\ (Reset!Order[i] = "asset_tags" <=> i = 15) /\ (Reset!Order[i] = "procurements" <=> i = 16)
        /\ (Reset!Order[i] = "contracts" <=> i = 17) /\ (Reset!Order[i] = "disposals" <=> i = 18)
        /\ (Reset!Order[i] = "assets" <=> i = 19) /\ (Reset!Order[i] = "models" <=> i = 20)
        /\ (Reset!Order[i] = "licenses" <=> i = 21) /\ (Reset!Order[i] = "transactions" <=> i = 22)
        /\ (Reset!Order[i] = "stocks" <=> i = 23) /\ (Reset!Order[i] = "parts" <=> i = 24)
        /\ (Reset!Order[i] = "categories" <=> i = 25) /\ (Reset!Order[i] = "fieldset_items" <=> i = 26)
        /\ (Reset!Order[i] = "field_options" <=> i = 27) /\ (Reset!Order[i] = "types" <=> i = 28)
        /\ (Reset!Order[i] = "fieldsets" <=> i = 29) /\ (Reset!Order[i] = "fields" <=> i = 30)
        /\ (Reset!Order[i] = "racks" <=> i = 31) /\ (Reset!Order[i] = "rooms" <=> i = 32)
        /\ (Reset!Order[i] = "centers" <=> i = 33) /\ (Reset!Order[i] = "tags" <=> i = 34)
        /\ (Reset!Order[i] = "manufacturers" <=> i = 35) /\ (Reset!Order[i] = "people" <=> i = 36)
        /\ (Reset!Order[i] = "departments" <=> i = 37) /\ (Reset!Order[i] = "identities" <=> i = 38)
        /\ (Reset!Order[i] = "tokens" <=> i = 39) /\ (Reset!Order[i] = "users" <=> i = 40)
  BY OrderIs
<1> QED BY <1>1 DEF Place

LEMMA PlaceOfOrder ==
    /\ \A i \in 1 .. 40 : Reset!Order[i] \in Emptied /\ Place(Reset!Order[i]) = i
    /\ \A t \in Emptied : Place(t) \in 1 .. 40 /\ Reset!Order[Place(t)] = t
<1>1. \A i \in 1 .. 40 : Reset!Order[i] \in Emptied /\ Place(Reset!Order[i]) = i
  BY OrderIs, PlaceIs DEF Emptied
<1>2. \A t \in Emptied : Place(t) \in 1 .. 40 /\ Reset!Order[Place(t)] = t
  BY OrderIs, PlaceIs DEF Emptied
<1> QED BY <1>1, <1>2

-----------------------------------------------------------------------------
(* SystemReset: the references                                               *)

CascadeParents ==
    {"racks", "fieldsets", "fields", "assets", "counts", "users", "scopes", "scope_rules", "centers",
     "departments"}
CascadeChildren ==
    {"reservations", "fieldset_items", "field_options", "custom_values", "asset_tags", "addresses",
     "allocations", "procurements", "contracts", "attachments", "items", "mutations", "scopes",
     "scope_rules", "grants", "profiles", "tokens"}

\* What the proofs use of a reference: cascades end after three links, and what
\* protects others is emptied after them and never swept away by a cascade.
RefFits(r) ==
    /\ r[3] \in {"protect", "restrict", "cascade", "null"} /\ r[1] # "users"
    /\ r[3] = "cascade" =>
         /\ r[1] \in CascadeChildren /\ r[2] \in CascadeParents
         /\ r[1] = "scopes" => r[2] = "users"
         /\ r[1] = "scope_rules" => r[2] = "scopes"
    /\ r[3] = "protect" =>
         /\ r[2] \notin CascadeChildren /\ {r[1], r[2]} \subseteq Emptied
         /\ (r[1] = r[2] /\ r[1] = "departments") \/ Place(r[1]) < Place(r[2])
    /\ r[3] = "restrict" => r[1] = r[2]
    /\ r[1] = "identities" => r[2] = "users" /\ r[3] = "protect"
    /\ {r[1], r[2]} \subseteq Emptied \cup {"profiles", "scopes", "scope_rules", "grants"}

LEMMA RefsFit == \A r \in Reset!Refs : RefFits(r)
<1> USE DEF RefFits, CascadeParents, CascadeChildren, Emptied
<1>1. \A r \in Reset!FacilityRefs : RefFits(r) BY PlaceIs DEF Reset!To, Reset!FacilityRefs
<1>2. \A r \in Reset!CatalogRefs : RefFits(r) BY PlaceIs DEF Reset!To, Reset!CatalogRefs
<1>3. \A r \in Reset!StockRefs : RefFits(r) BY PlaceIs DEF Reset!To, Reset!StockRefs
<1>4. \A r \in Reset!LicenseRefs : RefFits(r) BY PlaceIs DEF Reset!To, Reset!LicenseRefs
<1>5. \A r \in Reset!PersonRefs : RefFits(r) BY PlaceIs DEF Reset!To, Reset!PersonRefs
<1>6. \A r \in Reset!AssetRefs : RefFits(r) BY PlaceIs DEF Reset!To, Reset!AssetRefs
<1>7. \A r \in Reset!PastRefs : RefFits(r) BY PlaceIs DEF Reset!To, Reset!PastRefs
<1>8. \A r \in Reset!PartOfAssetRefs : RefFits(r) BY PlaceIs DEF Reset!To, Reset!PartOfAssetRefs
<1>9. \A r \in Reset!RepairRefs : RefFits(r) BY PlaceIs DEF Reset!To, Reset!RepairRefs
<1>10. \A r \in Reset!AttachmentRefs : RefFits(r) BY PlaceIs DEF Reset!To, Reset!AttachmentRefs
<1>11. \A r \in Reset!CountRefs : RefFits(r) BY PlaceIs DEF Reset!To, Reset!CountRefs
<1>12. \A r \in Reset!ItemRefs : RefFits(r) BY PlaceIs DEF Reset!To, Reset!ItemRefs
<1>13. \A r \in Reset!AccountRefs : RefFits(r) BY PlaceIs DEF Reset!To, Reset!AccountRefs
<1> HIDE DEF RefFits
<1> QED
  BY <1>1, <1>2, <1>3, <1>4, <1>5, <1>6, <1>7, <1>8, <1>9, <1>10, <1>11, <1>12, <1>13 DEF Reset!Refs

-----------------------------------------------------------------------------
(* SystemReset: the invariant                                                *)

FirstRows == {Reset!Old(t) : t \in Reset!Tables} \cup Reset!KeptRows \cup {Reset!Actor}

LinkFits(l) == RefFits(<<l[1].table, l[2].table, l[3]>>)

\* The rows, and between which of them there are links.
LinksFit ==
    /\ \A r \in rows : r.tag = "new" \/ r \in FirstRows
    /\ \A l \in links :
         /\ l[1] \in rows /\ l[2] \in rows /\ LinkFits(l)
         /\ l[1].tag = "new" \/ l \in Reset!FirstLinks
    /\ \A l \in loose : l[3] = "null" \/ (l[1].table = "departments" /\ l[2].table = "departments")

\* What the transaction sees refers to nothing that it has deleted.
LinksHold == \A l \in links \ loose : l[1] \in Reset!Visible => l[2] \in Reset!Visible

\* The rows of before the reset, and their links, as long as they are committed.
FirstsStay ==
    outcome # "done" =>
        /\ \A t \in Reset!Tables : Reset!Old(t) \in rows
        /\ \A l \in Reset!FirstLinks : l[1] \in rows => l \in links
        /\ inserts = 0 => rows = FirstRows /\ links = Reset!FirstLinks

\* The administrators who are kept, with what belongs to them.
KeptFit ==
    /\ kept \subseteq {Reset!Kept("users"), Reset!Actor} /\ kept \cap gone = {}
    /\ Reset!Kept("users") \in rows =>
         /\ at > 0 => Reset!Kept("users") \in kept
         /\ {Reset!Kept("identities"), Reset!Kept("profiles")} \subseteq Reset!Visible

\* The tables that have been emptied stay so, whatever is inserted behind the reset.
EmptiedStay ==
    outcome # "failed" =>
        /\ \A i \in 1 .. 40 : i < at =>
             /\ Reset!Old(Reset!Order[i]) \notin Reset!Visible
             /\ Reset!Order[i] = "tokens" => Reset!Kept("tokens") \notin Reset!Visible
        /\ at > 40 => \A t \in Reset!Tables : Reset!Old(t) \notin Reset!Visible

ResetPhases ==
    /\ at \in 0 .. 41 /\ inserts \in Nat /\ outcome \in {"none", "done", "failed"}
    /\ at = 0 => outcome = "none" /\ kept = {}
    /\ at = 0 \/ outcome # "none" => gone = {} /\ loose = {}
    /\ outcome = "done" => at = 41 /\ kept \subseteq rows
    /\ outcome = "failed" => inserts > 0

ResetInv ==
    /\ LinksFit /\ LinksHold /\ FirstsStay /\ KeptFit /\ EmptiedStay /\ ResetPhases

-----------------------------------------------------------------------------
(* SystemReset: the first rows and links, and cascades                       *)

LEMMA RowIs ==
    ASSUME NEW t, NEW tag, NEW n
    PROVE  /\ Reset!Row(t, tag, n).table = t /\ Reset!Row(t, tag, n).tag = tag
           /\ Reset!Row(t, tag, n).n = n
BY DEF Reset!Row

LEMMA KeptRefs ==
    ASSUME NEW r \in Reset!AccountRefs, Reset!Kept(r[1]) \in Reset!KeptRows
    PROVE  /\ r[1] \in {"identities", "profiles", "scopes", "tokens"}
           /\ r[2] = "users" /\ r[3] \in {"cascade", "protect"}
<1>1. r[1] \in {"users", "identities", "profiles", "scopes", "tokens"}
  BY RowIs DEF Reset!KeptRows, Reset!Kept
<1> QED BY <1>1 DEF Reset!AccountRefs, Reset!To

\* A first link joins two old rows, or what belongs to the other administrator
\* with the account.
LEMMA FirstLinksFit ==
    ASSUME NEW l \in Reset!FirstLinks
    PROVE  /\ LinkFits(l) /\ l[1] \in FirstRows /\ l[2] \in FirstRows
           /\ \/ /\ l[1].tag = "old" /\ l[2].tag = "old"
                 /\ l[1] = Reset!Old(l[1].table) /\ l[2] = Reset!Old(l[2].table)
              \/ /\ l[1].tag = "kept" /\ l[1] = Reset!Kept(l[1].table)
                 /\ l[2] = Reset!Kept("users") /\ l[3] \in {"cascade", "protect"}
<1>1. ASSUME NEW r \in Reset!Refs, l = <<Reset!Old(r[1]), Reset!Old(r[2]), r[3]>>
      PROVE  /\ LinkFits(l) /\ l[1] \in FirstRows /\ l[2] \in FirstRows
             /\ l[1].tag = "old" /\ l[2].tag = "old"
             /\ l[1] = Reset!Old(l[1].table) /\ l[2] = Reset!Old(l[2].table)
  <2>1. l[1] = Reset!Old(r[1]) /\ l[2] = Reset!Old(r[2]) /\ l[3] = r[3] BY <1>1
  <2>2. l[1].table = r[1] /\ l[2].table = r[2] /\ l[1].tag = "old" /\ l[2].tag = "old"
    BY <2>1, RowIs DEF Reset!Old
  <2>3. LinkFits(l) BY <2>1, <2>2, RefsFit DEF LinkFits, RefFits
  <2>4. r[1] \in Reset!Tables /\ r[2] \in Reset!Tables BY DEF Reset!Tables
  <2> QED BY <2>1, <2>2, <2>3, <2>4 DEF FirstRows
<1>2. ASSUME NEW r \in Reset!AccountRefs, Reset!Kept(r[1]) \in Reset!KeptRows,
             l = <<Reset!Kept(r[1]), Reset!Kept(r[2]), r[3]>>
      PROVE  /\ LinkFits(l) /\ l[1] \in FirstRows /\ l[2] \in FirstRows
             /\ l[1].tag = "kept" /\ l[1] = Reset!Kept(l[1].table)
             /\ l[2] = Reset!Kept("users") /\ l[3] \in {"cascade", "protect"}
  <2>1. l[1] = Reset!Kept(r[1]) /\ l[2] = Reset!Kept(r[2]) /\ l[3] = r[3] BY <1>2
  <2>2. l[1].table = r[1] /\ l[2].table = r[2] /\ l[1].tag = "kept" BY <2>1, RowIs DEF Reset!Kept
  <2>3. LinkFits(l) BY <2>1, <2>2, RefsFit DEF LinkFits, RefFits, Reset!Refs
  <2>4. r[2] = "users" /\ r[3] \in {"cascade", "protect"} BY <1>2, KeptRefs
  <2>5. Reset!Kept("users") \in Reset!KeptRows BY DEF Reset!KeptRows
  <2> QED BY <1>2, <2>1, <2>2, <2>3, <2>4, <2>5 DEF FirstRows
<1> QED BY <1>1, <1>2 DEF Reset!FirstLinks

LEMMA SomeFirstLinks ==
    /\ <<Reset!Kept("identities"), Reset!Kept("users"), "protect">> \in Reset!FirstLinks
    /\ <<Reset!Old("profiles"), Reset!Old("users"), "cascade">> \in Reset!FirstLinks
    /\ <<Reset!Old("scopes"), Reset!Old("users"), "cascade">> \in Reset!FirstLinks
    /\ <<Reset!Old("scope_rules"), Reset!Old("scopes"), "cascade">> \in Reset!FirstLinks
    /\ <<Reset!Old("grants"), Reset!Old("scope_rules"), "cascade">> \in Reset!FirstLinks
<1>1. /\ <<"identities", "users", "protect", "must">> \in Reset!AccountRefs
      /\ <<"profiles", "users", "cascade", "must">> \in Reset!AccountRefs
      /\ <<"scopes", "users", "cascade", "must">> \in Reset!AccountRefs
      /\ <<"scope_rules", "scopes", "cascade", "must">> \in Reset!AccountRefs
      /\ <<"grants", "scope_rules", "cascade", "must">> \in Reset!AccountRefs
  BY DEF Reset!AccountRefs, Reset!To
<1>2. Reset!AccountRefs \subseteq Reset!Refs BY DEF Reset!Refs
<1>3. Reset!Kept("identities") \in Reset!KeptRows BY DEF Reset!KeptRows
<1> QED BY <1>1, <1>2, <1>3 DEF Reset!FirstLinks

LEMMA CascadeStays ==
    ASSUME NEW seen, NEW deleted, NEW S, deleted \subseteq S,
           \A l \in seen : l[3] = "cascade" /\ l[2] \in S => l[1] \in S
    PROVE  deleted \subseteq Reset!Cascade(seen, deleted) /\ Reset!Cascade(seen, deleted) \subseteq S
<1>1. ASSUME NEW D, D \subseteq S PROVE D \subseteq Reset!With(seen, D) /\ Reset!With(seen, D) \subseteq S
  BY <1>1 DEF Reset!With
<1> QED BY <1>1 DEF Reset!Cascade

\* Three steps are enough for every cascade of the schema.
LEMMA CascadeCloses ==
    ASSUME NEW seen, NEW deleted, \A l \in seen : LinkFits(l),
           NEW link \in seen, link[3] = "cascade", link[2] \in Reset!Cascade(seen, deleted)
    PROVE  link[1] \in Reset!Cascade(seen, deleted)
<1> DEFINE one == Reset!With(seen, deleted)
           two == Reset!With(seen, one)
           three == Reset!With(seen, two)
<1>1. ASSUME NEW D PROVE
        /\ D \subseteq Reset!With(seen, D)
        /\ \A l \in seen : l[3] = "cascade" /\ l[2] \in D => l[1] \in Reset!With(seen, D)
        /\ \A r \in Reset!With(seen, D) : r \in D \/ \E l \in seen : l[3] = "cascade" /\ l[2] \in D /\ l[1] = r
  BY DEF Reset!With
<1>2. Reset!Cascade(seen, deleted) = three BY DEF Reset!Cascade
<1> HIDE DEF one, two, three
<1>3. CASE link[2] \in two BY <1>1, <1>2, <1>3 DEF three
<1>4. CASE link[2] \notin two
  <2>1. PICK c \in seen : c[3] = "cascade" /\ c[2] \in two /\ c[1] = link[2] BY <1>1, <1>2, <1>4 DEF three
  <2>2. c[2] \notin one BY <1>1, <1>4, <2>1 DEF two
  <2>3. PICK b \in seen : b[3] = "cascade" /\ b[2] \in one /\ b[1] = c[2] BY <1>1, <2>1, <2>2 DEF two
  <2>4. b[2] \notin deleted BY <1>1, <2>2, <2>3 DEF one
  <2>5. PICK a \in seen : a[3] = "cascade" /\ a[1] = b[2] BY <1>1, <2>3, <2>4 DEF one
  <2>6. LinkFits(a) /\ LinkFits(b) /\ LinkFits(c) /\ LinkFits(link) BY <2>1, <2>3, <2>5
  <2>7. /\ a[1].table = b[2].table /\ b[1].table = c[2].table /\ c[1].table = link[2].table
    BY <2>1, <2>3, <2>5
  <2> QED
    BY ONLY <2>1, <2>3, <2>5, <2>6, <2>7, link[3] = "cascade"
    DEF LinkFits, RefFits, CascadeParents, CascadeChildren
<1> QED BY <1>3, <1>4

-----------------------------------------------------------------------------
(* SystemReset: its steps                                                    *)

\* What tells the first rows apart.
LEMMA FirstRowsFit ==
    /\ \A r \in FirstRows : r.tag \in {"old", "kept", "actor"}
    /\ \A r \in FirstRows : r.tag = "old" => r = Reset!Old(r.table) /\ r.table \in Reset!Tables
    /\ \A r \in FirstRows : r.tag \in {"kept", "actor"} /\ r.table = "users"
                            => r \in {Reset!Kept("users"), Reset!Actor}
<1>1. \A r \in {Reset!Old(t) : t \in Reset!Tables} :
        r.tag = "old" /\ r = Reset!Old(r.table) /\ r.table \in Reset!Tables
  BY RowIs DEF Reset!Old
<1>2. \A r \in Reset!KeptRows : r.tag = "kept" /\ r = Reset!Kept(r.table)
  BY RowIs DEF Reset!Kept, Reset!KeptRows
<1>3. Reset!Actor.tag = "actor" BY RowIs DEF Reset!Actor
<1> QED BY <1>1, <1>2, <1>3 DEF FirstRows

LEMMA ResetInitInv == ASSUME Reset!Init PROVE ResetInv
<1>1. rows = FirstRows /\ links = Reset!FirstLinks /\ at = 0 /\ gone = {} /\ loose = {}
      /\ kept = {} /\ outcome = "none" /\ inserts = 0
  BY DEF Reset!Init, FirstRows
<1>2. LinksFit BY <1>1, FirstLinksFit DEF LinksFit
<1>3. LinksHold BY <1>1, <1>2 DEF LinksHold, LinksFit, Reset!Visible
<1>4. FirstsStay BY <1>1 DEF FirstsStay, FirstRows
<1>5. KeptFit
  <2>1. {Reset!Kept("identities"), Reset!Kept("profiles")} \subseteq rows
    BY <1>1 DEF FirstRows, Reset!KeptRows
  <2> QED BY <1>1, <2>1 DEF KeptFit, Reset!Visible
<1>6. EmptiedStay /\ ResetPhases BY <1>1 DEF EmptiedStay, ResetPhases
<1> QED BY <1>2, <1>3, <1>4, <1>5, <1>6 DEF ResetInv

\* The snapshot of the administrators.
LEMMA StartResetStep == ASSUME ResetInv, Reset!StartReset PROVE ResetInv'
<1>1. /\ at = 0 /\ at' = 1 /\ UNCHANGED <<rows, links, gone, loose, outcome, inserts>>
      /\ kept' = {r \in rows : r.table = "users" /\ r.tag \in {"kept", "actor"}}
  BY DEF Reset!StartReset
<1>2. outcome = "none" /\ gone = {} /\ loose = {} BY <1>1 DEF ResetInv, ResetPhases
<1>3. LinksFit' BY <1>1 DEF ResetInv, LinksFit
<1>4. LinksHold' BY <1>1 DEF ResetInv, LinksHold, Reset!Visible
<1>5. FirstsStay' BY <1>1 DEF ResetInv, FirstsStay
<1>6. KeptFit'
  <2>1. kept' \subseteq {Reset!Kept("users"), Reset!Actor}
    BY <1>1, FirstRowsFit DEF ResetInv, LinksFit
  <2>2. Reset!Kept("users") \in rows => Reset!Kept("users") \in kept' BY <1>1, RowIs DEF Reset!Kept
  <2> QED BY <1>1, <1>2, <2>1, <2>2 DEF ResetInv, KeptFit, Reset!Visible
<1>7. EmptiedStay' BY <1>1 DEF EmptiedStay
<1>8. ResetPhases' BY <1>1, <1>2 DEF ResetInv, ResetPhases
<1> QED BY <1>3, <1>4, <1>5, <1>6, <1>7, <1>8 DEF ResetInv

\* A row that another request inserts refers to rows that the transaction sees.
LEMMA InsertStep == ASSUME ResetInv, Reset!Insert PROVE ResetInv'
<1>1. inserts' = inserts + 1 /\ UNCHANGED <<at, gone, loose, kept, outcome>> BY DEF Reset!Insert
<1>2. PICK t \in Inserted, all \in BOOLEAN, tag \in {"old", "kept", "new"} :
        LET needed == {r \in Reset!Refs : r[1] = t /\ (all \/ r[4] = "must")}
            row == Reset!Row(t, "new", inserts')
            There(p) == {r \in Reset!Visible : r.table = p /\ r.tag = tag}
            Target(p) == IF There(p) = {} THEN Reset!Old(p) ELSE CHOOSE r \in There(p) : TRUE IN
        /\ \A r \in needed : Target(r[2]) \in Reset!Visible
        /\ rows' = rows \cup {row}
        /\ links' = links \cup {<<row, Target(r[2]), r[3]>> : r \in needed}
  BY DEF Reset!Insert
<1> DEFINE row == Reset!Row(t, "new", inserts')
           There(p) == {r \in Reset!Visible : r.table = p /\ r.tag = tag}
           Target(p) == IF There(p) = {} THEN Reset!Old(p) ELSE CHOOSE r \in There(p) : TRUE
<1>3. rows' = rows \cup {row} /\ row.tag = "new" /\ row.table = t BY <1>2, RowIs
<1>4. \A p : Target(p).table = p BY RowIs DEF Reset!Old
<1>5. \A l \in links' : l \in links \/ \E r \in Reset!Refs : /\ l = <<row, Target(r[2]), r[3]>>
                                                        /\ r[1] = t /\ Target(r[2]) \in Reset!Visible
  BY <1>2
<1>6. links \subseteq links' BY <1>2
<1> HIDE DEF row, Target
<1>7. \A l \in links' : l \in links \/ (l[1] = row /\ l[2] \in Reset!Visible /\ LinkFits(l))
  <2> SUFFICES ASSUME NEW l \in links', l \notin links, NEW r \in Reset!Refs,
                      l = <<row, Target(r[2]), r[3]>>, r[1] = t, Target(r[2]) \in Reset!Visible
               PROVE  l[1] = row /\ l[2] \in Reset!Visible /\ LinkFits(l)
    BY <1>5
  <2>1. l[1] = row /\ l[2] = Target(r[2]) /\ l[3] = r[3] OBVIOUS
  <2>2. l[1].table = r[1] /\ l[2].table = r[2] BY <2>1, <1>3, <1>4
  <2> QED BY <2>1, <2>2, RefsFit DEF LinkFits, RefFits
<1>8. /\ \A r \in Reset!Visible' : r \in Reset!Visible \/ r = row
      /\ Reset!Visible \subseteq Reset!Visible' /\ Reset!Visible \subseteq rows
  BY <1>1, <1>3 DEF Reset!Visible
<1>9. /\ \A x : Reset!Old(x) # row /\ Reset!Kept(x) # row
      /\ \A l \in Reset!FirstLinks : l[1] # row
  BY <1>3, RowIs, FirstLinksFit DEF Reset!Old, Reset!Kept
<1>10. LinksFit' BY <1>1, <1>3, <1>7, <1>8 DEF ResetInv, LinksFit
<1>11. LinksHold'
  <2> SUFFICES ASSUME NEW l \in links' \ loose, l[1] \in Reset!Visible' PROVE l[2] \in Reset!Visible'
    BY <1>1 DEF LinksHold
  <2>1. CASE l \in links
    <3>1. l[1] \in Reset!Visible BY <2>1, <1>1 DEF ResetInv, LinksFit, Reset!Visible
    <3> QED BY <2>1, <3>1, <1>8 DEF ResetInv, LinksHold
  <2>2. CASE l \notin links BY <2>2, <1>7, <1>8
  <2> QED BY <2>1, <2>2
<1>12. FirstsStay'
  <2>1. inserts' # 0 BY <1>1 DEF ResetInv, ResetPhases
  <2> QED BY <1>1, <1>3, <1>6, <1>9, <2>1 DEF ResetInv, FirstsStay
<1>13. KeptFit' BY <1>1, <1>3, <1>8, <1>9 DEF ResetInv, KeptFit
<1>14. EmptiedStay' BY <1>1, <1>8, <1>9 DEF ResetInv, EmptiedStay
<1>15. ResetPhases' BY <1>1, <1>3 DEF ResetInv, ResetPhases
<1> QED BY <1>10, <1>11, <1>12, <1>13, <1>14, <1>15 DEF ResetInv

\* An administrator who is deleted from a shell takes no old row along.
LEMMA DeleteAdministratorStep == ASSUME ResetInv, Reset!DeleteAdministrator PROVE ResetInv'
<1> DEFINE deleted == Reset!Cascade(links, {Reset!Kept("users"), Reset!Kept("identities")})
<1>1. /\ inserts' = inserts + 1 /\ at <= 40 /\ Reset!Kept("users") \in rows
      /\ ~Reset!Held({l \in links : l[1] \notin deleted}, deleted)
      /\ rows' = rows \ deleted /\ links' = {l \in links : l[1] \notin deleted /\ l[2] \notin deleted}
      /\ UNCHANGED <<at, gone, loose, kept, outcome>>
  BY OrderIs DEF Reset!DeleteAdministrator
<1> DEFINE S == {r \in rows : r.tag # "old"}
<1>2. {Reset!Kept("users"), Reset!Kept("identities")} \subseteq S
  BY <1>1, RowIs DEF ResetInv, KeptFit, Reset!Visible, Reset!Kept
<1>3. \A l \in links : l[3] = "cascade" /\ l[2] \in S => l[1] \in S
  BY FirstLinksFit DEF ResetInv, LinksFit
<1>4. {Reset!Kept("users"), Reset!Kept("identities")} \subseteq deleted /\ deleted \subseteq S
  <2> HIDE DEF S
  <2> QED BY <1>2, <1>3, CascadeStays
<1>5. \A l \in links : LinkFits(l) BY DEF ResetInv, LinksFit
<1>6. \A l \in links : l[3] = "cascade" /\ l[2] \in deleted => l[1] \in deleted
  BY <1>5, CascadeCloses
<1>7. \A l \in links : l[3] = "protect" /\ l[2] \in deleted => l[1] \in deleted
  BY <1>1 DEF Reset!Held
<1> HIDE DEF deleted
<1>8. Reset!Visible' \subseteq Reset!Visible BY <1>1 DEF Reset!Visible
<1>9. \A x : Reset!Old(x) \notin deleted BY <1>4, RowIs DEF Reset!Old
<1>10. LinksFit' BY <1>1 DEF ResetInv, LinksFit
<1>11. LinksHold' BY <1>1 DEF ResetInv, LinksHold, LinksFit, Reset!Visible
<1>12. FirstsStay'
  <2>1. inserts' # 0 BY <1>1 DEF ResetInv, ResetPhases
  <2>2. outcome # "done" BY <1>1 DEF ResetInv, ResetPhases
  <2>3. \A x \in Reset!Tables : Reset!Old(x) \in rows' BY <1>1, <1>9, <2>2 DEF ResetInv, FirstsStay
  <2>4. ASSUME NEW l \in Reset!FirstLinks, l[1] \in rows' PROVE l \in links'
    <3>1. l \in links /\ l[1] \notin deleted BY <1>1, <2>2, <2>4 DEF ResetInv, FirstsStay
    <3>2. l[2] \notin deleted BY <3>1, <1>6, <1>7, <1>9, FirstLinksFit
    <3> QED BY <1>1, <3>1, <3>2
  <2> QED BY <2>1, <2>3, <2>4 DEF FirstsStay
<1>13. KeptFit' BY <1>1, <1>4 DEF ResetInv, KeptFit
<1>14. EmptiedStay' BY <1>1, <1>8 DEF ResetInv, EmptiedStay
<1>15. ResetPhases' BY <1>1 DEF ResetInv, ResetPhases
<1> QED BY <1>10, <1>11, <1>12, <1>13, <1>14, <1>15 DEF ResetInv

\* The end of the transaction, or its failure because an administrator is missing.
LEMMA CommitStep == ASSUME ResetInv, Reset!Commit PROVE ResetInv'
<1>1. /\ at = 41 /\ outcome = "none" /\ gone' = {} /\ loose' = {} /\ UNCHANGED <<at, kept, inserts>>
      /\ \/ /\ kept \subseteq rows /\ outcome' = "done" /\ rows' = rows \ gone
            /\ links' = {l \in links \ loose : l[1] \notin gone}
         \/ ~(kept \subseteq rows) /\ outcome' = "failed" /\ UNCHANGED <<rows, links>>
  BY OrderIs DEF Reset!Commit, Reset!Running, ResetInv, ResetPhases
<1>2. CASE outcome' = "done"
  <2>1. /\ kept \subseteq rows /\ rows' = rows \ gone
        /\ links' = {l \in links \ loose : l[1] \notin gone}
    BY <1>1, <1>2
  <2>2. Reset!Visible' = Reset!Visible /\ rows' = Reset!Visible BY <1>1, <2>1 DEF Reset!Visible
  <2>3. \A l \in links' : l \in links \ loose /\ l[1] \in Reset!Visible /\ l[2] \in Reset!Visible
    BY <2>1 DEF ResetInv, LinksFit, LinksHold, Reset!Visible
  <2>4. LinksFit' BY <1>1, <2>1, <2>2, <2>3 DEF ResetInv, LinksFit
  <2>5. LinksHold' BY <2>2, <2>3 DEF LinksHold
  <2>6. FirstsStay' BY <1>2 DEF FirstsStay
  <2>7. KeptFit' BY <1>1, <2>1, <2>2 DEF ResetInv, KeptFit
  <2>8. EmptiedStay' BY <1>1, <2>2 DEF ResetInv, EmptiedStay
  <2>9. ResetPhases'
    <3>1. kept \subseteq rows \ gone BY <2>1 DEF ResetInv, KeptFit
    <3> QED BY <1>1, <1>2, <2>1, <3>1 DEF ResetInv, ResetPhases
  <2> QED BY <2>4, <2>5, <2>6, <2>7, <2>8, <2>9 DEF ResetInv
<1>3. CASE outcome' = "failed"
  <2>1. ~(kept \subseteq rows) /\ UNCHANGED <<rows, links>> BY <1>1, <1>3
  <2>2. Reset!Visible' = rows BY <1>1, <2>1 DEF Reset!Visible
  <2>3. inserts > 0
    <3> SUFFICES ASSUME inserts = 0 PROVE FALSE BY DEF ResetInv, ResetPhases
    <3>1. rows = FirstRows BY <1>1 DEF ResetInv, FirstsStay
    <3> QED BY <2>1, <3>1 DEF ResetInv, KeptFit, FirstRows, Reset!KeptRows
  <2>4. LinksFit' BY <1>1, <2>1 DEF ResetInv, LinksFit
  <2>5. LinksHold' BY <2>1, <2>2 DEF ResetInv, LinksFit, LinksHold
  <2>6. FirstsStay' BY <1>1, <2>1 DEF ResetInv, FirstsStay
  <2>7. KeptFit' BY <1>1, <2>1, <2>2 DEF ResetInv, KeptFit, Reset!Visible
  <2>8. EmptiedStay' BY <1>3 DEF EmptiedStay
  <2>9. ResetPhases' BY <1>1, <1>3, <2>3 DEF ResetInv, ResetPhases
  <2> QED BY <2>4, <2>5, <2>6, <2>7, <2>8, <2>9 DEF ResetInv
<1> QED BY <1>1, <1>2, <1>3

-----------------------------------------------------------------------------
(* SystemReset: a table is emptied                                           *)

Emptying == Reset!Order[at]
Deleted == Reset!Cascade(Reset!Pointing, Reset!Condemned(Emptying))

\* What the deletion of a table sweeps away is visible, never an administrator
\* nor the identity and the profile, and nothing else that refers to it by a
\* cascade stays.
LEMMA DeletedFits ==
    ASSUME ResetInv, at \in 1 .. 40, outcome = "none"
    PROVE  /\ Reset!Condemned(Emptying) \subseteq Deleted /\ Deleted \subseteq Reset!Visible
           /\ Deleted \cap kept = {}
           /\ Reset!Kept("users") \in rows =>
                Reset!Kept("identities") \notin Deleted /\ Reset!Kept("profiles") \notin Deleted
           /\ \A l \in Reset!Pointing : l[3] = "cascade" /\ l[2] \in Deleted => l[1] \in Deleted
           /\ \A r \in Deleted : r \in Reset!Condemned(Emptying) \/ r.table \in CascadeChildren
<1>1. \A l \in Reset!Pointing :
        /\ l \in links /\ l \notin loose /\ LinkFits(l) /\ l[1] \in Reset!Visible /\ l[2] \in Reset!Visible
        /\ l[1].tag = "new" \/ l \in Reset!FirstLinks
  BY DEF Reset!Pointing, ResetInv, LinksFit, LinksHold
<1>2. Emptying \in Emptied BY PlaceOfOrder DEF Emptying
<1>3. Reset!Condemned(Emptying) \subseteq Reset!Visible BY DEF Reset!Condemned
<1> DEFINE Own == IF Reset!Kept("users") \in rows
                  THEN {Reset!Kept("identities"), Reset!Kept("profiles")} ELSE {}
           S == Reset!Visible \ (kept \cup Own)
           T == {r \in Reset!Visible : r \in Reset!Condemned(Emptying) \/ r.table \in CascadeChildren}
<1>4. Reset!Condemned(Emptying) \subseteq S
  <2>1. \A r \in Reset!Condemned(Emptying) : r.table = Emptying /\ r \in Reset!Visible /\ ~Reset!Preserved(r)
    BY DEF Reset!Condemned
  <2>2. \A r \in kept : Reset!Preserved(r) BY DEF Reset!Preserved
  <2>3. ASSUME Reset!Kept("users") \in rows
        PROVE  Reset!Preserved(Reset!Kept("identities")) /\ Reset!Kept("profiles").table # Emptying
    <3> DEFINE link == <<Reset!Kept("identities"), Reset!Kept("users"), "protect">>
    <3>1. link[1] = Reset!Kept("identities") /\ link[2] = Reset!Kept("users") /\ link[3] = "protect"
      OBVIOUS
    <3>2. link \in Reset!FirstLinks BY SomeFirstLinks
    <3> HIDE DEF link
    <3>3. Reset!Kept("identities") \in Reset!Visible /\ Reset!Kept("users") \in kept
      BY <2>3 DEF ResetInv, KeptFit
    <3>4. link \in links BY <3>1, <3>2, <3>3 DEF ResetInv, FirstsStay, Reset!Visible
    <3>5. link \notin loose BY <3>1, RowIs DEF ResetInv, LinksFit, Reset!Kept
    <3>6. link \in Reset!Pointing BY <3>1, <3>3, <3>4, <3>5 DEF Reset!Pointing
    <3>7. Reset!Preserved(Reset!Kept("identities"))
      BY <3>1, <3>3, <3>6, RowIs DEF Reset!Preserved, Reset!Kept
    <3> QED BY <3>7, <1>2, RowIs DEF Reset!Kept, Emptied
  <2> QED BY <2>1, <2>2, <2>3
<1>5. \A l \in Reset!Pointing : l[3] = "cascade" /\ l[2] \in S => l[1] \in S
  <2> SUFFICES ASSUME NEW l \in Reset!Pointing, l[3] = "cascade", l[2] \in S PROVE l[1] \in S
    OBVIOUS
  <2>1. l[1].table \notin {"users", "identities"}
    BY <1>1 DEF LinkFits, RefFits
  <2>2. l[1] \notin kept BY <2>1, RowIs DEF ResetInv, KeptFit, Reset!Kept, Reset!Actor
  <2>3. l[1] # Reset!Kept("identities") BY <2>1, RowIs DEF Reset!Kept
  <2>4. ASSUME l[1] = Reset!Kept("profiles"), Reset!Kept("users") \in rows PROVE FALSE
    <3>1. l[2] = Reset!Kept("users") BY <1>1, <2>4, RowIs, FirstLinksFit DEF Reset!Kept
    <3> QED BY <2>4, <3>1 DEF ResetInv, KeptFit
  <2> QED BY <1>1, <2>2, <2>3, <2>4
<1>6. \A l \in Reset!Pointing : l[3] = "cascade" /\ l[2] \in T => l[1] \in T
  BY <1>1 DEF LinkFits, RefFits
<1>7. Reset!Condemned(Emptying) \subseteq Deleted /\ Deleted \subseteq S
  <2> HIDE DEF S
  <2> QED BY <1>4, <1>5, CascadeStays DEF Deleted
<1>8. Deleted \subseteq T
  <2>1. Reset!Condemned(Emptying) \subseteq T BY <1>3
  <2> HIDE DEF T
  <2> QED BY <1>6, <2>1, CascadeStays DEF Deleted
<1>9. \A l \in Reset!Pointing : l[3] = "cascade" /\ l[2] \in Deleted => l[1] \in Deleted
  BY <1>1, CascadeCloses DEF Deleted
<1> QED BY <1>7, <1>8, <1>9

\* Undisturbed, the schema and the order never refuse a deletion.
LEMMA NothingHolds ==
    ASSUME ResetInv, at \in 1 .. 40, outcome = "none", inserts = 0
    PROVE  ~Reset!Held(Reset!Pointing \ Reset!Cut(Emptying), Deleted)
<1> SUFFICES ASSUME NEW l \in Reset!Pointing, l \notin Reset!Cut(Emptying), l[2] \in Deleted,
                    l[3] = "protect" \/ (l[3] = "restrict" /\ l[1] \notin Deleted)
             PROVE  FALSE
  BY DEF Reset!Held
<1>1. /\ l \in Reset!FirstLinks /\ l \in links /\ l[1] \in Reset!Visible /\ LinkFits(l)
  BY DEF Reset!Pointing, ResetInv, FirstsStay, LinksFit
<1>2. CASE l[3] = "restrict"
  <2>1. l[1].table = l[2].table BY <1>1, <1>2 DEF LinkFits, RefFits
  <2>2. l[1].tag = "old" /\ l[1] = Reset!Old(l[1].table) /\ l[2] = Reset!Old(l[2].table)
    BY <1>1, <1>2, FirstLinksFit
  <2> QED BY <1>2, <2>1, <2>2
<1>3. CASE l[3] = "protect"
  <2>1. l[2].table \notin CascadeChildren BY <1>1, <1>3 DEF LinkFits, RefFits
  <2>2. l[2] \in Reset!Condemned(Emptying) BY <2>1, DeletedFits
  <2>3. l[2].table = Emptying /\ l[2] \notin kept BY <2>2 DEF Reset!Condemned, Reset!Preserved
  <2>4. CASE l[2] = Reset!Kept("users") 
    <3>1. l[2] \in rows BY <1>1, DeletedFits DEF Reset!Visible
    <3> QED BY <2>3, <2>4, <3>1 DEF ResetInv, KeptFit
  <2>5. CASE l[2] # Reset!Kept("users")
    <3>1. l[1] = Reset!Old(l[1].table) BY <1>1, <2>5, FirstLinksFit
    <3>2. \/ l[1].table = l[2].table /\ l[1].table = "departments"
          \/ /\ Place(l[1].table) < Place(l[2].table) /\ {l[1].table, l[2].table} \subseteq Emptied
      BY <1>1, <1>3 DEF LinkFits, RefFits
    <3>3. ~(l[1].table = l[2].table /\ l[1].table = "departments")
      BY <1>1, <2>3 DEF Reset!Cut
    <3>4. Place(l[2].table) = at BY <2>3, PlaceOfOrder DEF Emptying
    <3>5. /\ Place(l[1].table) \in 1 .. 40 /\ Place(l[1].table) < at
          /\ Reset!Order[Place(l[1].table)] = l[1].table
      BY <3>2, <3>3, <3>4, PlaceOfOrder
    <3>6. Reset!Old(l[1].table) \notin Reset!Visible BY <3>5 DEF ResetInv, EmptiedStay
    <3> QED BY <1>1, <3>1, <3>6
  <2> QED BY <2>4, <2>5
<1> QED BY <1>2, <1>3

LEMMA TablesFit ==
    \A t \in Reset!Tables : t \in Emptied \cup {"profiles", "scopes", "scope_rules", "grants"}
<1>1. \A t \in {"deliveries"} : t \in Emptied BY DEF Emptied
<1>2. \A r \in Reset!Refs : {r[1], r[2]} \subseteq Emptied \cup {"profiles", "scopes", "scope_rules", "grants"}
  BY RefsFit DEF RefFits
<1> HIDE DEF Emptied
<1> QED BY <1>1, <1>2 DEF Reset!Tables, Reset!Alone

LEMMA DeleteTableStep == ASSUME ResetInv, Reset!DeleteTable PROVE ResetInv'
<1>1. /\ at \in 1 .. 40 /\ outcome = "none" /\ UNCHANGED <<rows, links, kept, inserts>>
      /\ IF Reset!Held(Reset!Pointing \ Reset!Cut(Emptying), Deleted)
         THEN outcome' = "failed" /\ gone' = {} /\ loose' = {} /\ UNCHANGED at
         ELSE /\ gone' = gone \cup Deleted /\ at' = at + 1
              /\ loose' = loose \cup {l \in Reset!Pointing : l[3] = "null" /\ l[2] \in Deleted}
                                \cup Reset!Cut(Emptying)
              /\ UNCHANGED outcome
  BY OrderIs DEF Reset!DeleteTable, Reset!Running, ResetInv, ResetPhases, Emptying, Deleted
<1>2. CASE Reset!Held(Reset!Pointing \ Reset!Cut(Emptying), Deleted)
  <2>1. outcome' = "failed" /\ gone' = {} /\ loose' = {} /\ UNCHANGED at BY <1>1, <1>2
  <2>2. Reset!Visible' = rows BY <1>1, <2>1 DEF Reset!Visible
  <2>3. inserts > 0 BY <1>1, <1>2, NothingHolds DEF ResetInv, ResetPhases
  <2>4. LinksFit' BY <1>1, <2>1 DEF ResetInv, LinksFit
  <2>5. LinksHold' BY <1>1, <2>1, <2>2 DEF ResetInv, LinksFit, LinksHold
  <2>6. FirstsStay' BY <1>1, <2>1 DEF ResetInv, FirstsStay
  <2>7. KeptFit' BY <1>1, <2>1, <2>2 DEF ResetInv, KeptFit, Reset!Visible
  <2>8. EmptiedStay' BY <2>1 DEF EmptiedStay
  <2>9. ResetPhases' BY <1>1, <2>1, <2>3 DEF ResetInv, ResetPhases
  <2> QED BY <2>4, <2>5, <2>6, <2>7, <2>8, <2>9 DEF ResetInv
<1>3. CASE ~Reset!Held(Reset!Pointing \ Reset!Cut(Emptying), Deleted)
  <2>1. /\ gone' = gone \cup Deleted /\ at' = at + 1 /\ UNCHANGED outcome
        /\ loose' = loose \cup {l \in Reset!Pointing : l[3] = "null" /\ l[2] \in Deleted}
                          \cup Reset!Cut(Emptying)
    BY <1>1, <1>3
  <2>2. Reset!Visible' = Reset!Visible \ Deleted BY <1>1, <2>1 DEF Reset!Visible
  <2>3. LinksFit' BY <1>1, <2>1 DEF ResetInv, LinksFit, Reset!Cut
  <2>4. LinksHold'
    <3> SUFFICES ASSUME NEW l \in links, l \notin loose', l[1] \in Reset!Visible', l[2] \in Deleted
                 PROVE  FALSE
      BY <1>1, <2>1, <2>2 DEF ResetInv, LinksHold
    <3>1. l \in Reset!Pointing /\ l \notin Reset!Cut(Emptying) /\ l[1] \notin Deleted
      BY <2>1, <2>2 DEF Reset!Pointing
    <3>2. l[3] # "null" BY <2>1, <3>1
    <3>3. l[3] # "cascade" BY <1>1, <3>1, DeletedFits
    <3>4. l[3] # "protect" /\ l[3] # "restrict" BY <1>3, <3>1 DEF Reset!Held
    <3> QED BY <3>2, <3>3, <3>4 DEF ResetInv, LinksFit, LinkFits, RefFits
  <2>5. FirstsStay' BY <1>1, <2>1 DEF ResetInv, FirstsStay
  <2>6. KeptFit' BY <1>1, <2>1, <2>2, DeletedFits DEF ResetInv, KeptFit
  <2>7. Reset!Old(Emptying) \notin Reset!Visible'
    <3> SUFFICES ASSUME Reset!Old(Emptying) \in Reset!Visible,
                        ~(Reset!Old(Emptying) \in Reset!Condemned(Emptying))
                 PROVE  FALSE
      BY <1>1, <2>2, DeletedFits
    <3>1. Reset!Preserved(Reset!Old(Emptying)) BY RowIs DEF Reset!Condemned, Reset!Old
    <3>2. \A r \in kept : r.tag # "old" BY RowIs DEF ResetInv, KeptFit, Reset!Kept, Reset!Actor
    <3>3. Reset!Old(Emptying).tag = "old" BY RowIs DEF Reset!Old
    <3>4. PICK l \in Reset!Pointing : l[1] = Reset!Old(Emptying) /\ l[2] \in kept
      BY <3>1, <3>2, <3>3 DEF Reset!Preserved
    <3>5. l \in Reset!FirstLinks BY <3>3, <3>4 DEF Reset!Pointing, ResetInv, LinksFit
    <3>6. l[2].tag = "old" BY <3>3, <3>4, <3>5, FirstLinksFit
    <3> QED BY <3>2, <3>4, <3>6
  <2>8. Emptying = "tokens" => Reset!Kept("tokens") \notin Reset!Visible'
    <3> SUFFICES ASSUME Emptying = "tokens", Reset!Kept("tokens") \in Reset!Visible,
                        ~(Reset!Kept("tokens") \in Reset!Condemned(Emptying))
                 PROVE  FALSE
      BY <1>1, <2>2, DeletedFits
    <3>1. Reset!Preserved(Reset!Kept("tokens")) BY RowIs DEF Reset!Condemned, Reset!Kept
    <3> QED BY <3>1, RowIs DEF Reset!Preserved, ResetInv, KeptFit, Reset!Kept, Reset!Actor
  <2>9. ASSUME NEW i \in 1 .. 40, i < at'
        PROVE  /\ Reset!Old(Reset!Order[i]) \notin Reset!Visible'
               /\ Reset!Order[i] = "tokens" => Reset!Kept("tokens") \notin Reset!Visible'
    <3>1. i < at \/ i = at BY <1>1, <2>1, <2>9
    <3>2. CASE i < at BY <1>1, <2>2, <3>2 DEF ResetInv, EmptiedStay
    <3>3. CASE i = at BY <2>7, <2>8, <3>3 DEF Emptying
    <3> QED BY <3>1, <3>2, <3>3
  <2>10. ASSUME at' > 40, NEW t \in Reset!Tables PROVE Reset!Old(t) \notin Reset!Visible'
    <3>1. \A s \in Emptied : Reset!Old(s) \notin Reset!Visible'
      <4>1. at' = 41 BY <1>1, <2>1, <2>10
      <4> QED BY <2>9, <4>1, PlaceOfOrder
    <3>2. ASSUME NEW s, NEW p, <<Reset!Old(s), Reset!Old(p), "cascade">> \in Reset!FirstLinks,
                 s \notin Emptied, Reset!Old(p) \notin Reset!Visible'
          PROVE  Reset!Old(s) \notin Reset!Visible'
      <4> DEFINE link == <<Reset!Old(s), Reset!Old(p), "cascade">>
      <4>1. link[1] = Reset!Old(s) /\ link[2] = Reset!Old(p) /\ link[3] = "cascade" OBVIOUS
      <4>2. link \in Reset!FirstLinks BY <3>2
      <4> HIDE DEF link
      <4> SUFFICES ASSUME Reset!Old(s) \in Reset!Visible' PROVE FALSE OBVIOUS
      <4>3. Reset!Old(s) \in rows' BY DEF Reset!Visible
      <4>4. link \in links' BY <1>1, <2>1, <2>5, <4>1, <4>2, <4>3 DEF FirstsStay
      <4>5. link \notin loose' BY <2>3, <3>2, <4>1, RowIs DEF LinksFit, Reset!Old, Emptied
      <4> QED BY <2>4, <3>2, <4>1, <4>4, <4>5 DEF LinksHold
    <3>3. Reset!Old("users") \notin Reset!Visible' BY <3>1 DEF Emptied
    <3>4. /\ "profiles" \notin Emptied /\ "scopes" \notin Emptied
          /\ "scope_rules" \notin Emptied /\ "grants" \notin Emptied
      BY DEF Emptied
    <3>5. /\ Reset!Old("profiles") \notin Reset!Visible' /\ Reset!Old("scopes") \notin Reset!Visible'
      BY <3>2, <3>3, <3>4, SomeFirstLinks
    <3>6. Reset!Old("scope_rules") \notin Reset!Visible' BY <3>2, <3>4, <3>5, SomeFirstLinks
    <3>7. Reset!Old("grants") \notin Reset!Visible' BY <3>2, <3>4, <3>6, SomeFirstLinks
    <3> QED BY <3>1, <3>5, <3>6, <3>7, TablesFit
  <2>11. EmptiedStay' BY <2>9, <2>10 DEF EmptiedStay
  <2>12. ResetPhases' BY <1>1, <2>1 DEF ResetInv, ResetPhases
  <2> QED BY <2>3, <2>4, <2>5, <2>6, <2>11, <2>12 DEF ResetInv
<1> QED BY <1>2, <1>3

-----------------------------------------------------------------------------
(* SystemReset: the theorems                                                 *)

LEMMA ResetStepKeepsInv == ASSUME ResetInv, Reset!Next PROVE ResetInv'
BY StartResetStep, DeleteTableStep, CommitStep, InsertStep, DeleteAdministratorStep DEF Reset!Next

\* At every step of system_reset.py, whatever other requests insert: no visible
\* row refers to a deleted one, the tables that were emptied hold no row of before,
\* and the administrators keep what belongs to them.
THEOREM ResetInvariant == Spec => [](study = "reset" => ResetInv)
<1>1. Init => (study = "reset" => ResetInv) BY ResetInitInv DEF Init
<1>2. (study = "reset" => ResetInv) /\ [Next]_vars => (study = "reset" => ResetInv)'
  <2> SUFFICES ASSUME study = "reset" => ResetInv, [Next]_vars, study' = "reset"
               PROVE  ResetInv'
    OBVIOUS
  <2>1. CASE ResetStep BY <2>1, ResetStepKeepsInv DEF ResetStep
  <2>2. CASE BackupStep \/ WebStep BY <2>2 DEF BackupStep, WebStep
  <2>3. CASE UNCHANGED vars
    <3>1. ResetInv /\ UNCHANGED resetVars BY <2>3 DEF vars
    <3>2. Reset!Visible' = Reset!Visible BY <3>1 DEF resetVars, Reset!Visible
    <3> QED
      BY <3>1, <3>2
      DEF resetVars, ResetInv, LinksFit, LinksHold, FirstsStay, KeptFit, EmptiedStay, ResetPhases
  <2> QED BY <2>1, <2>2, <2>3 DEF Next
<1> QED BY <1>1, <1>2, PTL DEF Spec

\* A reset (system_reset.py) that commits leaves no row of before it but those of
\* the administrators and no reference into the void, however many rows other
\* requests insert meanwhile and into whatever tables; it fails only when it is
\* disturbed, and then has changed no old row: for the whole schema and order.
THEOREM ResetLeavesWhole == Spec => []ResetIsWhole
<1>1. (study = "reset" => ResetInv) => ResetIsWhole
  <2> SUFFICES ASSUME ResetInv PROVE Reset!ResetIsWhole BY DEF ResetIsWhole
  <2>1. ASSUME outcome = "done"
        PROVE  /\ \A r \in rows : r.tag # "old"
               /\ Reset!Kept("tokens") \notin rows /\ kept \subseteq rows
               /\ Reset!Kept("users") \in kept => {Reset!Kept("identities"), Reset!Kept("profiles")} \subseteq rows
               /\ \A l \in links : l[1] \in rows /\ l[2] \in rows
    <3>1. at = 41 /\ kept \subseteq rows /\ Reset!Visible = rows
      BY <2>1 DEF ResetInv, ResetPhases, Reset!Visible
    <3>2. \A r \in rows : r.tag # "old"
      BY <2>1, <3>1, FirstRowsFit DEF ResetInv, EmptiedStay, LinksFit
    <3>3. Reset!Kept("tokens") \notin rows BY <2>1, <3>1, OrderIs DEF ResetInv, EmptiedStay
    <3>4. \A l \in links : l[1] \in rows /\ l[2] \in rows BY DEF ResetInv, LinksFit
    <3> QED BY <3>1, <3>2, <3>3, <3>4 DEF ResetInv, KeptFit
  <2>2. outcome = "failed" => inserts > 0 /\ \A t \in Reset!Tables : Reset!Old(t) \in rows
    BY DEF ResetInv, ResetPhases, FirstsStay
  <2> QED BY <2>1, <2>2 DEF Reset!ResetIsWhole
<1> QED BY <1>1, ResetInvariant, PTL
=============================================================================
