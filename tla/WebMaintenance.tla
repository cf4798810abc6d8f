---------------------------- MODULE WebMaintenance ----------------------------
(***************************************************************************)
(* Backups and restores that are asked for in the browser:                 *)
(* assets/web_maintenance.py, around the window of maintenance_gate.py.    *)
(*                                                                         *)
(* A submission writes a receipt and starts a detached worker, which       *)
(* inherits its descriptor of web-operation.lock; pages poll the receipt,  *)
(* without session or database.  flock belongs to the open description:    *)
(* it is held as long as any of `holders`, which share it, is alive.       *)
(* What the operation does inside the window is BackupRestore's subject.   *)
(* Definitions marked "Mutant" are wrong on purpose and nothing uses them. *)
(***************************************************************************)
EXTENDS Naturals, FiniteSets

CONSTANTS
    Clients,            \* HTTP workers that serve submissions
    Pages,              \* pages that poll
    Backups, Restores,  \* operation ids, chosen by the browser
    Watched,            \* the operation of each page
    MaxCrashes, MaxCli  \* bounds: killed processes; operations from the shell

Ops == Backups \cup Restores
None == "none"
Cli == "cli"

WebConstants ==
    /\ Watched \in [Pages -> Ops] /\ Backups \cap Restores = {} /\ {None, Cli} \cap Ops = {}
    /\ MaxCrashes \in Nat /\ MaxCli \in Nat

VARIABLES
    receipt,            \* web-<id>.json: its status
    holders,            \* who holds web-operation.lock
    client, asked,      \* stage and operation of each submission
    page,               \* stage of each poll: it answers once it knows of a failure
    worker,             \* stage of the worker of each operation
    controller,         \* who holds controller.lock
    window,             \* state.json: closed by whom, dirty
    begun, finished,    \* history: bodies begun, operations that got to their end
    crashes, shells     \* bounds

web == <<receipt, holders>>
browser == <<client, asked, page>>
gate == <<controller, window>>
history == <<begun, finished>>
bounds == <<crashes, shells>>
vars == <<web, browser, worker, gate, history, bounds>>

Open == [closed |-> FALSE, op |-> None, dirty |-> FALSE]
Unfinished == {"queued", "running"}
Final == {"succeeded", "failed"}
InWindow == {"draining", "body", "swapping"}
Working == InWindow \cup {"running"}

Release(ps) == holders' = holders \ ps

Done(c) == client' = [client EXCEPT ![c] = "idle"] /\ asked' = [asked EXCEPT ![c] = None]

-----------------------------------------------------------------------------
(* submit_operation                                                          *)

\* A replay of a submission whose receipt exists is answered from the receipt.
Submit(c, op) ==
    /\ client[c] = "idle" /\ receipt[op] = "absent"
    /\ client' = [client EXCEPT ![c] = "reserving"]
    /\ asked' = [asked EXCEPT ![c] = op]
    /\ UNCHANGED <<web, page, worker, gate, history, bounds>>

\* flock(LOCK_NB), or 409
Reserve(c) ==
    /\ client[c] = "reserving"
    /\ IF holders = {}
       THEN /\ holders' = {<<"client", c>>}
            /\ client' = [client EXCEPT ![c] = "reserved"]
            /\ UNCHANGED asked
       ELSE Done(c) /\ UNCHANGED holders
    /\ UNCHANGED <<receipt, page, worker, gate, history, bounds>>

Queue(c) ==
    /\ client[c] = "reserved"
    /\ IF receipt[asked[c]] = "absent"
       THEN /\ receipt' = [receipt EXCEPT ![asked[c]] = "queued"]
            /\ client' = [client EXCEPT ![c] = "queued"]
            /\ UNCHANGED <<holders, asked>>
       ELSE /\ Release({<<"client", c>>})
            /\ Done(c)
            /\ UNCHANGED receipt
    /\ UNCHANGED <<page, worker, gate, history, bounds>>

\* Mutant: Popen without pass_fds.
SpawnUnlocked(c) ==
    /\ client[c] = "queued"
    /\ worker' = [worker EXCEPT ![asked[c]] = "spawned"]
    /\ client' = [client EXCEPT ![c] = "answering"]
    /\ UNCHANGED <<web, asked, page, gate, history, bounds>>

Spawn(c) ==
    /\ client[c] = "queued"
    /\ worker' = [worker EXCEPT ![asked[c]] = "spawned"]
    /\ holders' = holders \cup {<<"worker", asked[c]>>}
    /\ client' = [client EXCEPT ![c] = "answering"]
    /\ UNCHANGED <<receipt, asked, page, gate, history, bounds>>

SpawnFails(c) ==
    /\ client[c] = "queued"
    /\ receipt' = [receipt EXCEPT ![asked[c]] = "failed"]
    /\ Release({<<"client", c>>})
    /\ Done(c)
    /\ UNCHANGED <<page, worker, gate, history, bounds>>

Answer(c) ==
    /\ client[c] = "answering"
    /\ Release({<<"client", c>>})
    /\ Done(c)
    /\ UNCHANGED <<receipt, page, worker, gate, history, bounds>>

-----------------------------------------------------------------------------
(* execute_operation                                                         *)

At(op, stage) == worker[op] = stage
Become(op, stage) == worker' = [worker EXCEPT ![op] = stage]

\* It reads its receipt and says that it runs; nobody else can write it now.
Run(op) ==
    /\ At(op, "spawned") /\ receipt[op] = "queued"
    /\ receipt' = [receipt EXCEPT ![op] = "running"]
    /\ Become(op, "running")
    /\ UNCHANGED <<holders, browser, gate, history, bounds>>

\* maintenance_window: refused while somebody else is in it, or after a restore
\* that was interrupted; what an earlier operation left clean is overwritten.
Enter(op) ==
    /\ At(op, "running")
    /\ IF controller = None /\ ~window.dirty
       THEN /\ controller' = op /\ window' = [Open EXCEPT !.closed = TRUE]
            /\ Become(op, "draining")
       ELSE Become(op, "failing") /\ UNCHANGED gate
    /\ UNCHANGED <<web, browser, history, bounds>>

Leave == controller' = None /\ window' = IF window.dirty THEN window ELSE Open

\* authorize marks the window as its own, and reads the account again.
Authorize(op) ==
    /\ At(op, "draining")
    /\ window' = [window EXCEPT !.op = op]
    /\ begun' = [begun EXCEPT ![op] = @ + 1]
    /\ Become(op, "body")
    /\ UNCHANGED <<web, browser, controller, finished, bounds>>

\* mark_dirty: from here on the data are neither the old nor the new.
Overwrite(op) ==
    /\ At(op, "body") /\ op \in Restores
    /\ window' = [window EXCEPT !.dirty = TRUE]
    /\ Become(op, "swapping")
    /\ UNCHANGED <<web, browser, controller, history, bounds>>

Finish(op) ==
    /\ IF op \in Restores THEN At(op, "swapping") ELSE At(op, "body")
    /\ controller' = None /\ window' = Open
    /\ finished' = finished \cup {op}
    /\ Become(op, "succeeding")
    /\ UNCHANGED <<web, browser, begun, bounds>>

\* Draining takes too long, the account has lost its rights, the operation fails.
Fail(op) ==
    /\ worker[op] \in InWindow
    /\ Leave
    /\ Become(op, "failing")
    /\ UNCHANGED <<web, browser, history, bounds>>

Report(op) ==
    /\ worker[op] \in {"succeeding", "failing"}
    /\ receipt' = [receipt EXCEPT ![op] = IF At(op, "succeeding") THEN "succeeded" ELSE "failed"]
    /\ Release({<<"worker", op>>})
    /\ Become(op, "ended")
    /\ UNCHANGED <<browser, gate, history, bounds>>

-----------------------------------------------------------------------------
(* operation_status                                                          *)

Turn(p, stage) == page' = [page EXCEPT ![p] = stage]

Poll(p) ==
    /\ page[p] = "idle"
    /\ receipt[Watched[p]] \in Unfinished \cup {"failed"}
    /\ Turn(p, IF receipt[Watched[p]] = "failed" THEN "answering" ELSE "polling")
    /\ UNCHANGED <<web, client, asked, worker, gate, history, bounds>>

\* Mutant: a poll only reads.
NeverTries(p) ==
    /\ page[p] = "polling"
    /\ Turn(p, "idle")
    /\ UNCHANGED <<web, client, asked, worker, gate, history, bounds>>

TryLock(p) ==
    /\ page[p] = "polling"
    /\ IF holders = {}
       THEN holders' = {<<"page", p>>} /\ Turn(p, "holding")
       ELSE Turn(p, "idle") /\ UNCHANGED holders
    /\ UNCHANGED <<receipt, client, asked, worker, gate, history, bounds>>

\* Mutant: the receipt is not read again under the lock.
ConcludeAsRead(p) ==
    /\ page[p] = "holding"
    /\ receipt' = [receipt EXCEPT ![Watched[p]] = "failed"]
    /\ Release({<<"page", p>>})
    /\ Turn(p, "answering")
    /\ UNCHANGED <<client, asked, worker, gate, history, bounds>>

\* With the lock free the worker is gone; what it did not publish has failed.
Conclude(p) ==
    /\ page[p] = "holding"
    /\ LET now == receipt[Watched[p]] then == IF now \in Unfinished THEN "failed" ELSE now IN
         /\ receipt' = [receipt EXCEPT ![Watched[p]] = then]
         /\ Turn(p, IF then = "failed" THEN "answering" ELSE "idle")
    /\ Release({<<"page", p>>})
    /\ UNCHANGED <<client, asked, worker, gate, history, bounds>>

Abandoned == controller = None /\ window.closed /\ ~window.dirty

\* _public opens again what an operation that failed has left closed but clean.
Publish(p) ==
    /\ page[p] = "answering"
    /\ window' = IF window.op = Watched[p] /\ Abandoned THEN Open ELSE window
    /\ Turn(p, "idle")
    /\ UNCHANGED <<web, client, asked, worker, controller, history, bounds>>

-----------------------------------------------------------------------------
(* The rest of the system                                                    *)

\* Any other request opens an abandoned window (_reject_active).
Reject ==
    /\ Abandoned
    /\ window' = Open
    /\ UNCHANGED <<web, browser, worker, controller, history, bounds>>

\* create_backup, restore_backup and restore_backup --recover from a shell;
\* a recovery keeps the mark of the operation it recovers.
CliEnters ==
    /\ controller = None /\ shells < MaxCli
    /\ controller' = Cli
    /\ window' = IF window.dirty THEN window ELSE [Open EXCEPT !.closed = TRUE]
    /\ shells' = shells + 1
    /\ UNCHANGED <<web, browser, worker, history, crashes>>

CliLeaves ==
    /\ controller = Cli
    /\ controller' = None
    /\ window' \in {Open, IF window.dirty THEN window ELSE Open}
    /\ UNCHANGED <<web, browser, worker, history, bounds>>

Crash == crashes < MaxCrashes /\ crashes' = crashes + 1

ClientDies(c) ==
    /\ client[c] \in {"reserved", "queued", "answering"} /\ Crash
    /\ Release({<<"client", c>>})
    /\ Done(c)
    /\ UNCHANGED <<receipt, page, worker, gate, history, shells>>

PageDies(p) ==
    /\ page[p] = "holding" /\ Crash
    /\ Release({<<"page", p>>})
    /\ Turn(p, "idle")
    /\ UNCHANGED <<receipt, client, asked, worker, gate, history, shells>>

WorkerDies(op) ==
    /\ worker[op] \notin {"none", "ended"} /\ Crash
    /\ Release({<<"worker", op>>})
    /\ controller' = IF controller = op THEN None ELSE controller
    /\ Become(op, "ended")
    /\ UNCHANGED <<receipt, browser, window, history, shells>>

-----------------------------------------------------------------------------

Init ==
    /\ receipt = [op \in Ops |-> "absent"] /\ holders = {}
    /\ client = [c \in Clients |-> "idle"] /\ asked = [c \in Clients |-> None]
    /\ page = [p \in Pages |-> "idle"]
    /\ worker = [op \in Ops |-> "none"]
    /\ controller = None /\ window = Open
    /\ begun = [op \in Ops |-> 0] /\ finished = {}
    /\ crashes = 0 /\ shells = 0

Serve(c) == Reserve(c) \/ Queue(c) \/ Spawn(c) \/ SpawnFails(c) \/ Answer(c)

Work(op) ==
    \/ Run(op) \/ Enter(op) \/ Authorize(op)
    \/ Overwrite(op) \/ Finish(op) \/ Fail(op) \/ Report(op)

Watch(p) == Poll(p) \/ TryLock(p) \/ Conclude(p) \/ Publish(p)

Next ==
    \/ \E c \in Clients : Serve(c) \/ ClientDies(c) \/ \E op \in Ops : Submit(c, op)
    \/ \E op \in Ops : Work(op) \/ WorkerDies(op)
    \/ \E p \in Pages : Watch(p) \/ PageDies(p)
    \/ Reject \/ CliEnters \/ CliLeaves

\* Processes that live go on; a page polls until its receipt is final and the
\* window it knows of is open (useBackupOperations.ts).
Fairness ==
    /\ \A c \in Clients : WF_vars(Serve(c))
    /\ \A op \in Ops : WF_vars(Work(op))
    /\ \A p \in Pages : WF_vars(Watch(p))
    /\ WF_vars(CliLeaves)

Spec == Init /\ [][Next]_vars
FairSpec == Spec /\ Fairness

-----------------------------------------------------------------------------
(* Properties                                                                *)

Processes == ({"client"} \X Clients) \cup ({"page"} \X Pages) \cup ({"worker"} \X Ops)

TypeOK ==
    /\ receipt \in [Ops -> {"absent"} \cup Unfinished \cup Final]
    /\ holders \subseteq Processes
    /\ client \in [Clients -> {"idle", "reserving", "reserved", "queued", "answering"}]
    /\ asked \in [Clients -> Ops \cup {None}]
    /\ page \in [Pages -> {"idle", "polling", "holding", "answering"}]
    /\ worker \in [Ops -> Working \cup {"none", "spawned", "succeeding", "failing", "ended"}]
    /\ controller \in Ops \cup {None, Cli}
    /\ window \in [closed : BOOLEAN, op : Ops \cup {None}, dirty : BOOLEAN]
    /\ begun \in [Ops -> Nat] /\ finished \subseteq Ops

\* However submissions are replayed, polls interleave and processes die: an
\* operation begins once, one worker works at a time, a final receipt means
\* that its worker has stopped touching the data, "succeeded" that the
\* operation got to its end, and data that are half replaced stay closed.
ReceiptsAreTrue ==
    /\ TypeOK
    /\ \A op \in Ops :
         /\ begun[op] <= 1
         /\ receipt[op] \in Final => worker[op] \in {"none", "ended"}
         /\ receipt[op] = "succeeded" => op \in finished
         /\ At(op, "swapping") => window.dirty
    /\ Cardinality({op \in Ops : worker[op] \in Working}) <= 1
    /\ window.dirty => window.closed

\* A receipt is never taken back: what a page has once read as final stays.
Keeping ==
    \A op \in Ops :
        /\ receipt[op] \in Final => receipt'[op] = receipt[op]
        /\ receipt[op] # "absent" => receipt'[op] # "absent"
ReceiptsStay == [][Keeping]_vars

\* The window is closed for an operation that has not touched the data.
WindowOf(op) == window.closed /\ window.op = op /\ ~window.dirty

\* Whatever dies, somebody who watches an operation learns its outcome, and the
\* window of an operation that died before it touched the data opens again.
OutcomeIsLearned ==
    \A p \in Pages :
        /\ receipt[Watched[p]] \in Unfinished ~> receipt[Watched[p]] \in Final
        /\ WindowOf(Watched[p]) ~> ~WindowOf(Watched[p])
=============================================================================
