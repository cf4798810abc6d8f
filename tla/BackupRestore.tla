---------------------------- MODULE BackupRestore -----------------------------
(***************************************************************************)
(* Backup, restore and recovery of assets/backups.py: two stores, the      *)
(* database and the tree of uploaded files, that no transaction spans, an  *)
(* archive directory, and the durable marker of assets/maintenance_gate.py *)
(* through which a killed restore is found again.                          *)
(*                                                                         *)
(* One action is one step after which a crash leaves something different.  *)
(* That a run is alone is the gate's doing (module MaintenanceGate): here  *)
(* users act only while the site is open, and there is one run at a time.  *)
(* Definitions marked "Mutant" are wrong on purpose and nothing uses them. *)
(***************************************************************************)
EXTENDS Integers, FiniteSets

CONSTANTS
    Files,                  \* attachments that users may upload
    MaxEdits, MaxRuns,      \* bounds: uploads and deletions; backups and restores
    MaxFaults               \* bound: errors and crashes

BackupConstants ==
    /\ MaxEdits \in Nat /\ MaxRuns \in Nat /\ MaxFaults \in Nat
    /\ "torn" \notin Files /\ "absent" \notin Files

Archives == 1..MaxRuns  \* the archive that each backup or restore makes

Torn == {"torn"}        \* a database whose import has not ended
Absent == {"absent"}    \* there is no such directory
NoArchive == 0
NoFile == [db |-> {}, refs |-> {}, media |-> Absent]    \* no archive has this name yet

VARIABLES
    db,             \* the attachments that the database refers to
    sessions,       \* it holds sessions that came with an import
    media,          \* MEDIA_ROOT
    aside,          \* the tree that a restore has moved aside: rollback_path
    stored,         \* the archives that exist
    archive,        \* what they hold
    marker,         \* state.json: "absent", "clean" or "dirty"
    safety,         \* the safety backup that it names
    job, target,    \* what the run does, and with which archive
    pc, dirty,      \* how far it is; MaintenanceOperation.state["dirty"]
    refs, dumped,   \* what it read: media references, dump of the database
    mine,           \* safety_filename: the safety backup that it goes by
    clients,        \* the archives that MariaDB clients are importing
    original,       \* history: the data before the first failed restore
    edits, runs, faults

data == <<db, sessions, media>>
backups == <<stored, archive>>
state == <<marker, safety>>
memory == <<job, target, dirty, refs, dumped, mine>>
bounds == <<edits, runs, faults>>
vars == <<data, aside, backups, state, memory, pc, clients, original, bounds>>

Tree(m) == IF m = Absent THEN {} ELSE m
Chosen == archive[target]

\* Business is admitted: nobody is in the window, the data is not marked dirty.
Open == marker # "dirty" /\ pc = "idle"

-----------------------------------------------------------------------------
(* Users                                                                     *)

\* Mutant: business goes on while a backup is taken.
OpenInBackup == marker # "dirty" /\ (pc = "idle" \/ job = "backup")

CanEdit == Open

Edit ==
    /\ CanEdit /\ edits < MaxEdits
    /\ edits' = edits + 1
    /\ UNCHANGED <<sessions, aside, backups, state, memory, pc, clients, original, runs, faults>>

\* The file is written first; a worker that dies leaves it without its row.
Upload == \E f \in Files \ db :
    /\ Edit
    /\ media' = Tree(media) \cup {f}
    /\ db' \in {db, db \cup {f}}

\* The file goes after the commit; a worker that dies leaves it.
Discard == \E f \in db :
    /\ Edit
    /\ db' = db \ {f}
    /\ media' \in {media, media \ {f}}

DeleteBackup == \E a \in stored :
    /\ Open
    /\ stored' = stored \ {a}
    /\ UNCHANGED <<data, aside, archive, state, memory, pc, clients, original, bounds>>

\* An arrival unlinks a clean marker that nobody owns (_reject_active).
ClearStale ==
    /\ Open /\ marker = "clean"
    /\ marker' = "absent" /\ safety' = NoArchive
    /\ UNCHANGED <<data, aside, backups, memory, pc, clients, original, bounds>>

-----------------------------------------------------------------------------
(* A run                                                                     *)

Go(from, to) == pc = from /\ pc' = to

\* Mutant: clients do not inherit controller.lock (no pass_fds).
NoRunIgnoringClient == pc = "idle"

\* Both locks are free.  An orphaned client holds controller.lock.
NoRun == pc = "idle" /\ clients = {}

\* maintenance_window, until the run has the site to itself.  A dirty marker
\* admits only a recovery; recover=True without one is an ordinary restore.
StartRun(j, a) ==
    /\ NoRun /\ pc' = "admit"
    /\ marker = "dirty" <=> j = "recover"
    /\ j # "recover" => runs < MaxRuns
    /\ runs' = IF j = "recover" THEN runs ELSE runs + 1
    /\ job' = j /\ target' = a
    /\ dirty' = (marker = "dirty")
    /\ marker' = IF marker = "dirty" THEN "dirty" ELSE "clean"
    /\ original' = IF marker = "dirty" THEN original ELSE [db |-> db, media |-> media]
    /\ UNCHANGED <<data, aside, backups, safety, refs, dumped, mine, clients, edits, faults>>

\* Mutant: a recovery may use any archive.
AdmitAnyRecovery ==
    /\ job # "backup" => target \in stored
    /\ Go("admit", IF job = "recover" THEN "record" ELSE "refs")
    /\ mine' = safety
    /\ UNCHANGED <<data, aside, backups, state, job, target, dirty, refs, dumped, clients, original, bounds>>

\* Mutant: a recovery begins with a safety backup of its own.
AdmitWithBackup ==
    /\ job # "backup" => target \in stored
    /\ job = "recover" => target = safety
    /\ Go("admit", "refs")
    /\ mine' = safety
    /\ UNCHANGED <<data, aside, backups, state, job, target, dirty, refs, dumped, clients, original, bounds>>

\* A recovery uses the recorded safety backup, and makes no other one.
Admit ==
    /\ job # "backup" => target \in stored
    /\ job = "recover" => target = safety
    /\ Go("admit", IF job = "recover" THEN "record" ELSE "refs")
    /\ mine' = safety
    /\ UNCHANGED <<data, aside, backups, state, job, target, dirty, refs, dumped, clients, original, bounds>>

\* _referenced_media: every reference has its file.
ReadReferences ==
    /\ Go("refs", "dump")
    /\ db \subseteq Tree(media)
    /\ refs' = db
    /\ UNCHANGED <<data, aside, backups, state, job, target, dirty, dumped, mine, clients, original, bounds>>

Dump ==
    /\ Go("dump", "publish")
    /\ dumped' = db
    /\ UNCHANGED <<data, aside, backups, state, job, target, dirty, refs, mine, clients, original, bounds>>

\* The tree is copied and verified, and the archive renamed into place, under
\* a new name: here the number of the run.
Publish ==
    /\ Go("publish", IF job = "backup" THEN "leave" ELSE "record")
    /\ refs \subseteq Tree(media)
    /\ stored' = stored \cup {runs}
    /\ archive' = [archive EXCEPT ![runs] = [db |-> dumped, refs |-> refs, media |-> media]]
    /\ mine' = runs
    /\ UNCHANGED <<data, aside, state, job, target, dirty, refs, dumped, clients, original, bounds>>

\* stage("backup_validated", safety_backup=...)
RecordSafety ==
    /\ Go("record", "stage")
    /\ marker' = (IF dirty THEN "dirty" ELSE "clean") /\ safety' = mine
    /\ UNCHANGED <<data, aside, backups, memory, clients, original, bounds>>

\* The archive's tree, if it has one, is copied beside MEDIA_ROOT.
StageMedia ==
    /\ Go("stage", IF Chosen.media = Absent THEN "mark_database" ELSE "mark_media")
    /\ UNCHANGED <<data, aside, backups, state, memory, clients, original, bounds>>

\* Mutant: the marker is written with the stage, and not as dirty.
MarkClean(from, to) ==
    /\ Go(from, to)
    /\ UNCHANGED <<data, aside, backups, state, memory, clients, original, bounds>>

\* mark_dirty
Mark(from, to) ==
    /\ Go(from, to)
    /\ dirty' = TRUE /\ marker' = "dirty"
    /\ UNCHANGED <<data, aside, backups, safety, job, target, refs, dumped, mine, clients, original, bounds>>

MarkMedia == Mark("mark_media", "swap_out")
MarkDatabase == Mark("mark_database", "import")

\* _replace_media_tree: two renames
SwapOut ==
    /\ Go("swap_out", "swap_in")
    /\ aside' = media /\ media' = Absent
    /\ UNCHANGED <<db, sessions, backups, state, memory, clients, original, bounds>>

SwapIn ==
    /\ Go("swap_in", "mark_database")
    /\ media' = Chosen.media
    /\ UNCHANGED <<db, sessions, aside, backups, state, memory, clients, original, bounds>>

StartImport ==
    /\ Go("import", "importing")
    /\ clients' = clients \cup {target} /\ db' = Torn
    /\ UNCHANGED <<sessions, media, aside, backups, state, memory, original, bounds>>

\* The client has read the whole dump; its run may be dead by then.
EndImport == \E c \in clients :
    /\ db' = archive[c].db /\ sessions' = TRUE
    /\ clients' = clients \ {c}
    /\ pc' = IF pc = "importing" /\ c = target THEN "verify" ELSE pc
    /\ UNCHANGED <<media, aside, backups, state, memory, original, bounds>>

\* The restored references have their files and are those of the manifest.
Verify ==
    /\ Go("verify", "post")
    /\ db \subseteq Tree(media) /\ db = Chosen.refs
    /\ UNCHANGED <<data, aside, backups, state, memory, clients, original, bounds>>

\* Mutant: sessions that cannot be deleted are a warning, as the cache is.
PostRestoreWarns ==
    /\ Go("post", "finish")
    /\ sessions' \in {FALSE, sessions}
    /\ UNCHANGED <<db, media, aside, backups, state, memory, clients, original, bounds>>

\* _post_restore
PostRestore ==
    /\ Go("post", "finish")
    /\ sessions' = FALSE
    /\ UNCHANGED <<db, media, aside, backups, state, memory, clients, original, bounds>>

\* The tree moved aside is removed, the audit written, complete() called.
Finish ==
    /\ Go("finish", "leave")
    /\ aside' = Absent /\ dirty' = FALSE
    /\ UNCHANGED <<data, backups, state, job, target, refs, dumped, mine, clients, original, bounds>>

\* The finally clause of maintenance_window.
Leave ==
    /\ Go("leave", "idle")
    /\ IF dirty THEN UNCHANGED state ELSE marker' = "absent" /\ safety' = NoArchive
    /\ UNCHANGED <<data, aside, backups, memory, clients, original, bounds>>

-----------------------------------------------------------------------------
(* Errors and crashes                                                        *)

Fault == faults < MaxFaults /\ faults' = faults + 1

\* Nothing has been replaced yet: the run ends.
FailEarly ==
    /\ Fault /\ pc \in {"admit", "refs", "dump", "publish", "record", "stage"}
    /\ pc' = "leave"
    /\ UNCHANGED <<data, aside, backups, state, memory, clients, original, edits, runs>>

\* The marker cannot be written.  This is no BackupServiceError: the finally
\* clause of the restore removes the tree that was moved aside.
FailToMark ==
    /\ Fault /\ pc \in {"mark_media", "mark_database"}
    /\ pc' = "leave" /\ dirty' = TRUE
    /\ aside' = Absent
    /\ UNCHANGED <<data, backups, state, job, target, refs, dumped, mine, clients, original, edits, runs>>

\* A rename fails; the tree moved aside may come back, or stay there unknown.
FailToSwap ==
    /\ Fault /\ pc \in {"swap_out", "swap_in"}
    /\ pc' = "leave"
    /\ pc = "swap_in" => media' \in {aside, Absent}
    /\ pc = "swap_out" => media' = media
    /\ aside' = Absent
    /\ UNCHANGED <<db, sessions, backups, state, memory, clients, original, edits, runs>>

\* The client fails: a prefix of the dump is imported.
FailToImport == \E c \in clients :
    /\ Fault
    /\ clients' = clients \ {c}
    /\ pc' = IF pc = "importing" /\ c = target THEN "roll_back" ELSE pc
    /\ UNCHANGED <<data, aside, backups, state, memory, original, edits, runs>>

\* A check fails (BackupServiceError), or the database cannot be read at all,
\* which removes the tree that was moved aside.
FailToVerify ==
    /\ Fault /\ pc \in {"verify", "post"}
    /\ \/ pc' = "roll_back" /\ UNCHANGED aside
       \/ pc' = "leave" /\ aside' = Absent
    /\ UNCHANGED <<data, backups, state, memory, clients, original, edits, runs>>

\* A check that cannot pass fails without any fault.
Refuse ==
    /\ \/ /\ pc = "admit" /\ pc' = "leave"
          /\ job # "backup"
          /\ target \notin stored \/ (job = "recover" /\ target # safety)
       \/ pc = "refs" /\ ~db \subseteq Tree(media) /\ pc' = "leave"
       \/ pc = "publish" /\ ~refs \subseteq Tree(media) /\ pc' = "leave"
       \/ pc = "verify" /\ ~(db \subseteq Tree(media) /\ db = Chosen.refs) /\ pc' = "roll_back"
    /\ UNCHANGED <<data, aside, backups, state, memory, clients, original, bounds>>

\* The audit of a restore fails: its data stay, and so does the marker.
FailToAudit ==
    /\ Fault /\ pc = "finish"
    /\ pc' = "leave" /\ aside' = Absent
    /\ UNCHANGED <<data, backups, state, memory, clients, original, edits, runs>>

\* _rollback_media: the present tree is removed, the other one renamed back.
RollBack ==
    /\ Go("roll_back", "leave")
    /\ media' = IF aside = Absent THEN media ELSE aside
    /\ aside' = Absent
    /\ UNCHANGED <<db, sessions, backups, state, memory, clients, original, bounds>>

FailToRollBack ==
    /\ Fault /\ Go("roll_back", "leave")
    /\ aside # Absent
    /\ \E rest \in SUBSET Tree(media) : media' \in {rest, Absent}
    /\ aside' = Absent
    /\ UNCHANGED <<db, sessions, backups, state, memory, clients, original, edits, runs>>

\* The process dies; its client goes on importing.
Crash ==
    /\ Fault /\ pc # "idle"
    /\ pc' = "idle" /\ dirty' = FALSE
    /\ aside' = Absent
    /\ UNCHANGED <<data, backups, state, job, target, refs, dumped, mine, clients, original, edits, runs>>

-----------------------------------------------------------------------------
(* Specification                                                             *)

Init ==
    /\ db = {} /\ sessions = FALSE /\ media = Absent /\ aside = Absent
    /\ stored = {} /\ archive = [a \in Archives |-> NoFile]
    /\ marker = "absent" /\ safety = NoArchive
    /\ job = "none" /\ target = NoArchive /\ dirty = FALSE
    /\ refs = {} /\ dumped = {} /\ mine = NoArchive
    /\ pc = "idle" /\ clients = {}
    /\ original = [db |-> {}, media |-> Absent]
    /\ edits = 0 /\ runs = 0 /\ faults = 0

Step ==
    \/ Admit \/ ReadReferences \/ Dump \/ Publish \/ RecordSafety
    \/ StageMedia \/ MarkMedia \/ SwapOut \/ SwapIn \/ MarkDatabase
    \/ StartImport \/ EndImport \/ Verify \/ PostRestore \/ Finish
    \/ RollBack \/ Refuse \/ Leave

FaultStep ==
    \/ FailEarly \/ FailToMark \/ FailToSwap \/ FailToImport \/ FailToVerify
    \/ FailToAudit \/ FailToRollBack \/ Crash

Next ==
    \/ Upload \/ Discard \/ DeleteBackup \/ ClearStale
    \/ StartRun("backup", NoArchive)
    \/ \E j \in {"restore", "recover"}, a \in Archives : StartRun(j, a)
    \/ Step \/ FaultStep

Spec == Init /\ [][Next]_vars

\* Runs go on, and the operator of a closed site tries, among other recoveries,
\* again and again the one with the backup that its marker names.
FairSpec == Spec /\ WF_vars(Step) /\ SF_vars(StartRun("recover", safety))

-----------------------------------------------------------------------------
(* Properties                                                                *)

\* Types of the stores, the marker and the run.
TypeOK ==
    /\ db \in (SUBSET Files) \cup {Torn} /\ sessions \in BOOLEAN
    /\ {media, aside} \subseteq (SUBSET Files) \cup {Absent}
    /\ stored \subseteq Archives /\ archive \in [Archives -> [db : SUBSET Files,
           refs : SUBSET Files, media : (SUBSET Files) \cup {Absent}]]
    /\ marker \in {"absent", "clean", "dirty"} /\ {safety, mine} \subseteq Archives \cup {NoArchive}
    /\ job \in {"none", "backup", "restore", "recover"} /\ dirty \in BOOLEAN
    /\ target \in Archives \cup {NoArchive} /\ clients \subseteq Archives

\* Whenever users are let in, the database is whole, every file it refers to
\* is there, and nobody is logged in by a session out of a backup, whatever
\* failed or died before.
OpenIsWhole == TypeOK /\ (Open => db # Torn /\ db \subseteq Tree(media) /\ ~sessions)

\* An archive can be restored: its files are those that its database refers
\* to, and its manifest says so.
ArchivesCanBeRestored ==
    \A a \in stored : archive[a].db = archive[a].refs /\ archive[a].db \subseteq Tree(archive[a].media)

\* As long as data may be half restored, the backup that the marker names is
\* there and holds what there was before: nothing is lost by failing again.
SafetyIsKept ==
    marker = "dirty" =>
        /\ safety \in stored
        /\ archive[safety].db = original.db /\ archive[safety].media = original.media

\* Nothing that was saved is lost: every archive can be restored, and what was
\* there before the first failed restore can be had again.
ArchivesAreWhole == ArchivesCanBeRestored /\ SafetyIsKept

\* A site that was dirty opens again with the data asked for: those of the
\* archive of the restore, or, by a recovery, those from before it.
Reopening ==
    marker = "dirty" /\ marker' # "dirty" =>
        /\ job = "restore" => db = Chosen.db
        /\ job = "recover" => db = original.db
        /\ db \subseteq Tree(media)
ReopensAsAsked == [][Reopening]_vars

\* No failure leaves a site that its recovery cannot open, however often the
\* recovery itself fails.
AlwaysRecoverable == marker = "dirty" ~> Open
=============================================================================
