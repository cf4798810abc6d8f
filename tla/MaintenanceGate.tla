--------------------------- MODULE MaintenanceGate ---------------------------
(***************************************************************************)
(* The single-host admission barrier of assets/maintenance_gate.py: three  *)
(* files, state.json (the durable marker), controller.lock and access.lock *)
(* (both flock'ed), shared by gunicorn workers and maintenance processes.  *)
(*                                                                         *)
(* One action is one system call that another process can observe.  The    *)
(* marker is read and rewritten without a lock in between only by the      *)
(* holder of controller.lock, so such a pair is one action.                *)
(***************************************************************************)
EXTENDS Naturals

CONSTANTS
    Requests,     \* callers of business_access: API requests, the digest command
    Runs,         \* processes that call maintenance_window
    None,         \* no holder
    MaxKills      \* bound: how many processes are killed in a behaviour

ASSUME ActorsAssumption ==
    /\ Requests \cap Runs = {}
    /\ None \notin Requests \cup Runs
ASSUME KillsAssumption == MaxKills \in Nat

\* maintenance_window("backup"), ("restore") and ("restore", recover=True)
Jobs == {"backup", "restore", "recover"}

VARIABLES
    marker,       \* state.json: absent, clean (dirty = false) or dirty
    controller,   \* holder of the exclusive flock on controller.lock
    exclusive,    \* holder of the exclusive flock on access.lock
    shared,       \* holders of a shared flock on access.lock
    reqPc,        \* where each request is in business_access
    runPc,        \* where each run is in maintenance_window
    job,          \* what each run was asked to do
    dirty,        \* runs whose MaintenanceOperation.state["dirty"] is set
    clients,      \* runs whose MariaDB client is alive; it holds controller.lock too
    kills         \* processes killed so far

reqVars == <<shared, reqPc>>
runVars == <<exclusive, runPc, job, dirty, clients>>
vars == <<marker, controller, exclusive, shared, reqPc, runPc, job, dirty, clients, kills>>

Admitted == {r \in Requests : reqPc[r] = "admitted"}

TypeOK ==
    /\ marker \in {"absent", "clean", "dirty"}
    /\ controller \in Requests \cup Runs \cup {None}
    /\ exclusive \in Runs \cup {None}
    /\ shared \subseteq Requests
    /\ reqPc \in [Requests -> {"away", "read", "probe", "recheck", "pass",
                               "refuse", "lock", "admitted"}]
    /\ runPc \in [Runs -> {"away", "opening", "draining", "window", "closing",
                           "closed", "releasing", "dead"}]
    /\ job \in [Runs -> Jobs]
    /\ dirty \subseteq Runs
    /\ clients \subseteq Runs
    /\ kills \in 0..MaxKills

Init ==
    /\ marker = "absent"
    /\ controller = None
    /\ exclusive = None
    /\ shared = {}
    /\ reqPc = [r \in Requests |-> "away"]
    /\ runPc = [o \in Runs |-> "away"]
    /\ job \in [Runs -> {"backup"}]
    /\ dirty = {}
    /\ clients = {}
    /\ kills = 0

-----------------------------------------------------------------------------
(* business_access.  _reject_active runs twice: before the shared lock is   *)
(* asked for and again once it is held; a request in `shared` is in the     *)
(* second call.                                                             *)

GoReq(r, pc) == reqPc' = [reqPc EXCEPT ![r] = pc]

\* The call of _reject_active returns.
Accept(r) ==
    /\ GoReq(r, IF r \in shared THEN "admitted" ELSE "lock")
    /\ shared' = shared

\* MaintenanceUnavailable: the finally clause closes access.lock.
Reject(r) ==
    /\ GoReq(r, "away")
    /\ shared' = shared \ {r}

Arrive(r) ==
    /\ reqPc[r] = "away"
    /\ GoReq(r, "read")
    /\ UNCHANGED <<marker, controller, shared, kills, runVars>>

\* Mutant: the first reading overlooks a marker that is not dirty.
ReadMarkerLate(r) ==
    /\ reqPc[r] = "read"
    /\ IF marker = "dirty" THEN Reject(r) ELSE Accept(r)
    /\ UNCHANGED <<marker, controller, kills, runVars>>

ReadMarker(r) ==
    /\ reqPc[r] = "read"
    /\ \/ marker = "absent" /\ Accept(r)
       \/ marker = "clean" /\ GoReq(r, "probe") /\ shared' = shared
       \/ marker = "dirty" /\ Reject(r)
    /\ UNCHANGED <<marker, controller, kills, runVars>>

\* Mutant: a clean marker is taken for stale without asking for the lock.
ProbeControllerBlind(r) ==
    /\ reqPc[r] = "probe"
    /\ marker' = IF marker = "clean" THEN "absent" ELSE marker
    /\ Accept(r)
    /\ UNCHANGED <<controller, kills, runVars>>

\* A clean marker is stale if nobody holds controller.lock.
ProbeController(r) ==
    /\ reqPc[r] = "probe"
    /\ \/ /\ controller = None
          /\ controller' = r
          /\ GoReq(r, "recheck")
          /\ shared' = shared
       \/ /\ controller # None
          /\ Reject(r)
          /\ UNCHANGED controller
    /\ UNCHANGED <<marker, kills, runVars>>

\* Mutant: the stale marker is recognised but left in place.
RecheckMarkerOnly(r) ==
    /\ reqPc[r] = "recheck"
    /\ GoReq(r, IF marker = "absent" THEN "pass" ELSE "refuse")
    /\ UNCHANGED <<marker, controller, shared, kills, runVars>>

\* Read again under controller.lock; a clean marker is unlinked.
RecheckMarker(r) ==
    /\ reqPc[r] = "recheck"
    /\ marker' = IF marker = "clean" THEN "absent" ELSE marker
    /\ GoReq(r, IF marker = "dirty" THEN "refuse" ELSE "pass")
    /\ UNCHANGED <<controller, shared, kills, runVars>>

CloseProbe(r) ==
    /\ controller' = None
    /\ \/ reqPc[r] = "pass" /\ Accept(r)
       \/ reqPc[r] = "refuse" /\ Reject(r)
    /\ UNCHANGED <<marker, kills, runVars>>

\* Mutant: the marker is not read again under the shared lock.
TakeSharedOnce(r) ==
    /\ reqPc[r] = "lock"
    /\ \/ exclusive = None /\ shared' = shared \cup {r} /\ GoReq(r, "admitted")
       \/ exclusive # None /\ Reject(r)
    /\ UNCHANGED <<marker, controller, kills, runVars>>

TakeShared(r) ==
    /\ reqPc[r] = "lock"
    /\ \/ exclusive = None /\ shared' = shared \cup {r} /\ GoReq(r, "read")
       \/ exclusive # None /\ Reject(r)
    /\ UNCHANGED <<marker, controller, kills, runVars>>

\* MaintenanceAdmissionMiddleware.release, after the last byte of a stream.
Finish(r) ==
    /\ reqPc[r] = "admitted"
    /\ Reject(r)
    /\ UNCHANGED <<marker, controller, kills, runVars>>

\* The worker dies: the kernel closes its descriptors.
KillRequest(r) ==
    /\ reqPc[r] # "away"
    /\ kills < MaxKills
    /\ kills' = kills + 1
    /\ Reject(r)
    /\ controller' = IF controller = r THEN None ELSE controller
    /\ UNCHANGED <<marker, runVars>>

-----------------------------------------------------------------------------
(* maintenance_window *)

GoRun(o, pc) == runPc' = [runPc EXCEPT ![o] = pc]

\* A busy controller.lock refuses the run, which changes nothing.
StartRun(o, j) ==
    /\ runPc[o] = "away"
    /\ controller = None
    /\ controller' = o
    /\ job' = [job EXCEPT ![o] = j]
    /\ GoRun(o, "opening")
    /\ UNCHANGED <<marker, exclusive, dirty, clients, kills, reqVars>>

\* Mutant: the next run starts from a marker that forgot it was dirty.
OpenWindowFresh(o) ==
    /\ runPc[o] = "opening"
    /\ marker' = "clean"
    /\ GoRun(o, "draining")
    /\ UNCHANGED <<controller, exclusive, job, dirty, clients, kills, reqVars>>

\* A dirty marker admits only a recovery; otherwise MaintenanceOperation
\* carries the previous dirty flag over and writes the marker "draining";
\* when the write raises, the finally clause follows.
OpenWindow(o) ==
    /\ runPc[o] = "opening"
    /\ \/ /\ marker = "dirty" /\ job[o] # "recover"
          /\ GoRun(o, "away")
          /\ controller' = None
          /\ UNCHANGED <<marker, dirty>>
       \/ /\ marker = "dirty" => job[o] = "recover"
          /\ dirty' = IF marker = "dirty" THEN dirty \cup {o} ELSE dirty
          /\ \/ marker' = (IF marker = "dirty" THEN "dirty" ELSE "clean") /\ GoRun(o, "draining")
             \/ UNCHANGED marker /\ GoRun(o, "closing")
          /\ UNCHANGED controller
    /\ UNCHANGED <<exclusive, job, clients, kills, reqVars>>

\* One poll of access.lock that succeeds; the polls that fail change nothing.
Drain(o) ==
    /\ runPc[o] = "draining"
    /\ shared = {} /\ exclusive = None
    /\ exclusive' = o
    /\ GoRun(o, "window")
    /\ UNCHANGED <<marker, controller, job, dirty, clients, kills, reqVars>>

\* INFRIX_MAINTENANCE_DRAIN_SECONDS have passed at a failing poll.
DrainTimeout(o) ==
    /\ runPc[o] = "draining"
    /\ shared # {}
    /\ GoRun(o, "closing")
    /\ UNCHANGED <<marker, controller, exclusive, job, dirty, clients, kills, reqVars>>

InBody(o) == runPc[o] = "window" /\ o \notin clients

\* mark_dirty; when writing the marker raises, the memory alone is dirty.
MarkDirty(o) ==
    /\ InBody(o)
    /\ job[o] # "backup"
    /\ dirty' = dirty \cup {o}
    /\ \/ marker' = "dirty" /\ UNCHANGED runPc
       \/ UNCHANGED marker /\ GoRun(o, "closing")
    /\ UNCHANGED <<controller, exclusive, job, clients, kills, reqVars>>

\* subprocess.run(**maintenance_subprocess_options()): dump or import.
SpawnClient(o) ==
    /\ InBody(o)
    /\ clients' = clients \cup {o}
    /\ UNCHANGED <<marker, controller, exclusive, runPc, job, dirty, kills, reqVars>>

\* The client ends; the orphan of a dead run was the last holder of the lock.
ClientExit(o) ==
    /\ o \in clients
    /\ clients' = clients \ {o}
    /\ IF runPc[o] = "dead"
       THEN GoRun(o, "away") /\ controller' = None
       ELSE UNCHANGED <<runPc, controller>>
    /\ UNCHANGED <<marker, exclusive, job, dirty, kills, reqVars>>

\* complete() and the return of a verified restore.
Complete(o) ==
    /\ InBody(o)
    /\ job[o] # "backup"
    /\ dirty' = dirty \ {o}
    /\ GoRun(o, "closing")
    /\ UNCHANGED <<marker, controller, exclusive, job, clients, kills, reqVars>>

\* The return of a backup, or an exception in the body of any run.
LeaveBody(o) ==
    /\ InBody(o)
    /\ GoRun(o, "closing")
    /\ UNCHANGED <<marker, controller, exclusive, job, dirty, clients, kills, reqVars>>

\* Mutant: the finally clause always removes the marker.
ClearMarkerAlways(o) ==
    /\ runPc[o] = "closing"
    /\ marker' = "absent"
    /\ GoRun(o, "closed")
    /\ UNCHANGED <<controller, exclusive, job, dirty, clients, kills, reqVars>>

\* The finally clause, call by call.
ClearMarker(o) ==
    /\ runPc[o] = "closing"
    /\ marker' = IF o \in dirty THEN marker ELSE "absent"
    /\ GoRun(o, "closed")
    /\ UNCHANGED <<controller, exclusive, job, dirty, clients, kills, reqVars>>

CloseAccess(o) ==
    /\ runPc[o] = "closed"
    /\ exclusive' = IF exclusive = o THEN None ELSE exclusive
    /\ GoRun(o, "releasing")
    /\ UNCHANGED <<marker, controller, job, dirty, clients, kills, reqVars>>

CloseController(o) ==
    /\ runPc[o] = "releasing"
    /\ controller' = None
    /\ dirty' = dirty \ {o}
    /\ GoRun(o, "away")
    /\ UNCHANGED <<marker, exclusive, job, clients, kills, reqVars>>

\* Mutant: clients do not inherit controller.lock (no pass_fds).
KillRunFreesLock(o) ==
    /\ runPc[o] \notin {"away", "dead"}
    /\ kills < MaxKills
    /\ kills' = kills + 1
    /\ exclusive' = IF exclusive = o THEN None ELSE exclusive
    /\ dirty' = dirty \ {o}
    /\ GoRun(o, IF o \in clients THEN "dead" ELSE "away")
    /\ controller' = None
    /\ UNCHANGED <<marker, job, clients, reqVars>>

\* The run is killed; a living client keeps controller.lock.
KillRun(o) ==
    /\ runPc[o] \notin {"away", "dead"}
    /\ kills < MaxKills
    /\ kills' = kills + 1
    /\ exclusive' = IF exclusive = o THEN None ELSE exclusive
    /\ dirty' = dirty \ {o}
    /\ IF o \in clients
       THEN GoRun(o, "dead") /\ UNCHANGED controller
       ELSE GoRun(o, "away") /\ controller' = None
    /\ UNCHANGED <<marker, job, clients, reqVars>>

-----------------------------------------------------------------------------
\* Steps that a living process takes on its own.
RequestStep(r) ==
    \/ ReadMarker(r) \/ ProbeController(r) \/ RecheckMarker(r)
    \/ CloseProbe(r) \/ TakeShared(r) \/ Finish(r)

RunStep(o) ==
    \/ OpenWindow(o) \/ Drain(o) \/ Complete(o) \/ LeaveBody(o)
    \/ ClearMarker(o) \/ CloseAccess(o) \/ CloseController(o)

RequestNext(r) == Arrive(r) \/ RequestStep(r) \/ KillRequest(r)

RunNext(o) ==
    \/ \E j \in Jobs : StartRun(o, j)
    \/ RunStep(o) \/ DrainTimeout(o) \/ MarkDirty(o) \/ SpawnClient(o)
    \/ ClientExit(o) \/ KillRun(o)

Next == (\E r \in Requests : RequestNext(r)) \/ (\E o \in Runs : RunNext(o))

Spec == Init /\ [][Next]_vars

(* Running processes keep running and database clients end; people browse   *)
(* the site, so requests keep arriving.  Nobody is obliged to start a run,  *)
(* and neither the drain deadline nor a kill ever has to come.              *)
Fairness ==
    /\ \A r \in Requests : WF_vars(Arrive(r)) /\ WF_vars(RequestStep(r))
    /\ \A o \in Runs : WF_vars(RunStep(o)) /\ WF_vars(ClientExit(o))

FairSpec == Spec /\ Fairness

-----------------------------------------------------------------------------
(* Properties *)

\* While a request does business, no run has its window, no dump or import
\* is running (not even one whose parent was killed) and the data is not
\* marked half restored.
AdmittedIsSafe ==
    Admitted # {} => exclusive = None /\ clients = {} /\ marker # "dirty"

\* From the announcement of a run until it clears it, the marker is there: no
\* arrival takes the marker of a living run, or of a client that outlived its
\* run, for a stale one.
LiveMarkerStays ==
    \A o \in Runs : runPc[o] \in {"draining", "window", "dead"} => marker # "absent"

\* A dirty marker goes away only by the verified end of a restore that has the
\* site to itself: not by a backup, an arrival, a timeout or a crash.
DirtyUntilVerified ==
    [][marker = "dirty" /\ marker' # "dirty" =>
         /\ marker' = "absent"
         /\ exclusive \in Runs
         /\ job[exclusive] # "backup"
         /\ exclusive \notin dirty]_vars

\* Arrivals cannot starve a draining run: once its marker is there, the shared
\* locks die out and the run gets its window (unless it gives up or is killed).
DrainNotStarved ==
    \A o \in Runs : runPc[o] = "draining" ~> runPc[o] # "draining"

\* A clean marker that nobody owns any more does not keep the site closed.
StaleMarkerCleared ==
    (marker = "clean" /\ controller = None) ~> (marker # "clean" \/ controller \in Runs)

\* Neither arrivals nor a marker left by a crash keep a run or the users out for good.
NobodyWaitsForEver == DrainNotStarved /\ StaleMarkerCleared

(* The strengthening that makes AdmittedIsSafe and LiveMarkerStays inductive: *)
(* who holds which file at which line of the code.                           *)

ProbeHolds ==
    \A r \in Requests : reqPc[r] \in {"recheck", "pass", "refuse"} <=> controller = r

RunHolds ==
    \A o \in Runs : runPc[o] # "away" <=> controller = o

SharedHeld ==
    \A r \in Requests :
        /\ r \in shared => reqPc[r] \notin {"away", "lock"}
        /\ reqPc[r] = "admitted" => r \in shared

ExclusiveHeld ==
    /\ exclusive # None => shared = {}
    /\ \A o \in Runs : exclusive = o => runPc[o] \in {"window", "closing", "closed"}
    /\ \A o \in Runs : runPc[o] = "window" => exclusive = o

ClientsOwned ==
    \A o \in Runs :
        /\ o \in clients => runPc[o] \in {"window", "dead"}
        /\ runPc[o] = "dead" => o \in clients

\* A probe that may return found, or left, no marker.
PassedIsAbsent ==
    \A r \in Requests : reqPc[r] = "pass" => marker = "absent"

\* The memory of a run and the marker agree where it matters: a run that finds
\* or makes the marker dirty knows, until it has completed a restore.
DirtyKnown ==
    marker = "dirty" =>
        \A o \in Runs \ dirty :
            /\ runPc[o] \notin {"draining", "window"}
            /\ runPc[o] = "closing" => exclusive = o /\ job[o] # "backup"

GateInv ==
    /\ AdmittedIsSafe /\ LiveMarkerStays
    /\ ProbeHolds /\ RunHolds /\ SharedHeld /\ ExclusiveHeld
    /\ ClientsOwned /\ PassedIsAbsent /\ DirtyKnown

\* The gate is the barrier.
Barrier == INSTANCE MaintenanceBarrier WITH
    inside <- Admitted, window <- exclusive, working <- clients, closed <- (marker = "dirty")

BarrierSpec == Barrier!Spec
=============================================================================
