-------------------------------- MODULE Recovery --------------------------------
(***************************************************************************)
(* The maintenance of the whole site: backups and restores, the receipts   *)
(* of those that the browser starts, and the reset.  Each is a study of    *)
(* its own: a behaviour belongs to one of them from its beginning, and the *)
(* variables of the others are unused in it.                               *)
(***************************************************************************)
EXTENDS Naturals, TLC

CONSTANTS
    Studies,
    Files, MaxEdits, MaxRuns, MaxFaults,                            \* BackupRestore
    Clients, Pages, Backups, Restores, MaxCrashes, MaxCli,          \* WebMaintenance
    Inserted, MaxInserts                                            \* SystemReset

VARIABLES
    study,
    db, sessions, media, aside, stored, archive, marker, safety, job, target, pc, dirty,
    refs, dumped, mine, clients, original, edits, runs, faults,
    receipt, holders, client, asked, page, worker, controller, window, begun, finished, crashes, shells,
    rows, links, at, gone, loose, kept, outcome, inserts

\* A backup and a restore, each watched by a page.
PagesWatch == "p1" :> "b" @@ "p2" :> "r"

Backup == INSTANCE BackupRestore
Web == INSTANCE WebMaintenance WITH Watched <- PagesWatch
Reset == INSTANCE SystemReset

ASSUME RecoveryConstants ==
    /\ Studies \subseteq {"backup", "web", "reset"}
    /\ Backup!BackupConstants /\ Web!WebConstants

backupVars == <<db, sessions, media, aside, stored, archive, marker, safety, job, target, pc, dirty,
                refs, dumped, mine, clients, original, edits, runs, faults>>
webVars == <<receipt, holders, client, asked, page, worker, controller, window, begun, finished,
             crashes, shells>>
resetVars == <<rows, links, at, gone, loose, kept, outcome, inserts>>
vars == <<study, backupVars, webVars, resetVars>>

-----------------------------------------------------------------------------
Unused == "unused"

NoBackup ==
    /\ db = Unused /\ sessions = Unused /\ media = Unused /\ aside = Unused /\ stored = Unused
    /\ archive = Unused /\ marker = Unused /\ safety = Unused /\ job = Unused /\ target = Unused
    /\ pc = Unused /\ dirty = Unused /\ refs = Unused /\ dumped = Unused /\ mine = Unused
    /\ clients = Unused /\ original = Unused /\ edits = Unused /\ runs = Unused /\ faults = Unused
NoWeb ==
    /\ receipt = Unused /\ holders = Unused /\ client = Unused /\ asked = Unused /\ page = Unused
    /\ worker = Unused /\ controller = Unused /\ window = Unused /\ begun = Unused
    /\ finished = Unused /\ crashes = Unused /\ shells = Unused
NoReset ==
    /\ rows = Unused /\ links = Unused /\ at = Unused /\ gone = Unused /\ loose = Unused
    /\ kept = Unused /\ outcome = Unused /\ inserts = Unused

Init ==
    /\ study \in Studies
    /\ \/ study = "backup" /\ Backup!Init /\ NoWeb /\ NoReset
       \/ study = "web" /\ Web!Init /\ NoBackup /\ NoReset
       \/ study = "reset" /\ Reset!Init /\ NoBackup /\ NoWeb

BackupStep == study = "backup" /\ Backup!Next /\ UNCHANGED <<study, webVars, resetVars>>
WebStep == study = "web" /\ Web!Next /\ UNCHANGED <<study, backupVars, resetVars>>
ResetStep == study = "reset" /\ Reset!Next /\ UNCHANGED <<study, backupVars, webVars>>

Next == BackupStep \/ WebStep \/ ResetStep

\* The fairness of each study: BackupRestore!FairSpec, WebMaintenance!Fairness.
Fairness ==
    /\ WF_backupVars(study = "backup" /\ Backup!Step)
    /\ SF_backupVars(study = "backup" /\ Backup!StartRun("recover", safety))
    /\ \A c \in Clients : WF_webVars(study = "web" /\ Web!Serve(c))
    /\ \A op \in Backups \cup Restores : WF_webVars(study = "web" /\ Web!Work(op))
    /\ \A p \in Pages : WF_webVars(study = "web" /\ Web!Watch(p))
    /\ WF_webVars(study = "web" /\ Web!CliLeaves)

Spec == Init /\ [][Next]_vars /\ Fairness

-----------------------------------------------------------------------------
(* Properties *)

\* BackupRestore: whenever users are let in, the database is whole, with its files
\* and without sessions of the past, whatever failed or died before.
OpenIsWhole == study = "backup" => Backup!OpenIsWhole

\* BackupRestore: every archive can be restored, and as long as data may be half
\* restored the backup that the marker names holds what there was before.
ArchivesAreWhole == study = "backup" => Backup!ArchivesAreWhole

\* BackupRestore: a dirty site opens again with the data that were asked for.
ReopensAsAsked == [][study = "backup" => Backup!Reopening]_vars

\* BackupRestore: no failure leaves a site that its recovery cannot open.
AlwaysRecoverable == (study = "backup" /\ marker = "dirty") ~> (study = "backup" /\ Backup!Open)

\* WebMaintenance: an operation begins once, one works at a time, and a receipt
\* says what has become of it, however requests are replayed and processes die.
ReceiptsAreTrue == study = "web" => Web!ReceiptsAreTrue

\* WebMaintenance: what a page has once read as final stays.
ReceiptsStay == [][study = "web" => Web!Keeping]_vars

\* WebMaintenance: whatever dies, a page that watches an operation learns its
\* outcome, and the window of one that touched nothing opens again.
OutcomeIsLearned ==
    \A p \in Pages :
        LET In(statuses) == study = "web" /\ receipt[PagesWatch[p]] \in statuses
            closed == study = "web" /\ Web!WindowOf(PagesWatch[p])
        IN (In(Web!Unfinished) ~> In(Web!Final)) /\ (closed ~> ~closed)

\* SystemReset: a reset that commits leaves nothing of before it but the
\* administrators, no reference into the void, and one that fails changes nothing.
ResetIsWhole == study = "reset" => Reset!ResetIsWhole
=============================================================================
