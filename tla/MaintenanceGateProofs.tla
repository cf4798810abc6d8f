------------------------ MODULE MaintenanceGateProofs ------------------------
(***************************************************************************)
(* Proofs about the maintenance gate, for any sets of requests and runs    *)
(* and any number of kills.                                                *)
(***************************************************************************)
EXTENDS MaintenanceGate, TLAPS

\* Every action keeps the variables in their types.
LEMMA TypeStep == ASSUME TypeOK, [Next]_vars PROVE TypeOK'
<1> USE ActorsAssumption, KillsAssumption DEF TypeOK, Jobs
<1>1. ASSUME NEW r \in Requests, RequestNext(r) PROVE TypeOK'
  <2>1. CASE Arrive(r) BY <2>1 DEF Arrive, GoReq, runVars
  <2>2. CASE RequestStep(r)
    BY <2>2 DEF RequestStep, ReadMarker, ProbeController, RecheckMarker, CloseProbe,
                TakeShared, Finish, Accept, Reject, GoReq, runVars
  <2>3. CASE KillRequest(r) BY <2>3 DEF KillRequest, Reject, GoReq, runVars
  <2> QED BY <1>1, <2>1, <2>2, <2>3 DEF RequestNext
<1>2. ASSUME NEW o \in Runs, RunNext(o) PROVE TypeOK'
  <2>1. ASSUME NEW j \in Jobs, StartRun(o, j) PROVE TypeOK'
    BY <2>1 DEF StartRun, GoRun, reqVars
  <2>2. CASE RunStep(o)
    BY <2>2 DEF RunStep, OpenWindow, Drain, Complete, LeaveBody, ClearMarker,
                CloseAccess, CloseController, InBody, GoRun, reqVars
  <2>3. CASE DrainTimeout(o) \/ MarkDirty(o) \/ SpawnClient(o)
    BY <2>3 DEF DrainTimeout, MarkDirty, SpawnClient, InBody, GoRun, reqVars
  <2>4. CASE ClientExit(o) \/ KillRun(o)
    BY <2>4 DEF ClientExit, KillRun, GoRun, reqVars
  <2> QED BY <1>2, <2>1, <2>2, <2>3, <2>4 DEF RunNext
<1>3. CASE UNCHANGED vars BY <1>3 DEF vars
<1> QED BY <1>1, <1>2, <1>3 DEF Next

\* The steps of a request keep the invariant.
LEMMA RequestStepInv ==
  ASSUME TypeOK, GateInv, NEW r \in Requests, RequestNext(r)
  PROVE  GateInv'
<1> USE ActorsAssumption DEF TypeOK, GateInv, AdmittedIsSafe, Admitted, LiveMarkerStays,
        ProbeHolds, RunHolds, SharedHeld, ExclusiveHeld, ClientsOwned, PassedIsAbsent,
        DirtyKnown, GoReq, Accept, Reject, runVars
<1>1. CASE Arrive(r) BY <1>1 DEF Arrive
<1>2. CASE ReadMarker(r) BY <1>2 DEF ReadMarker
<1>3. CASE ProbeController(r) BY <1>3 DEF ProbeController
<1>4. CASE RecheckMarker(r) BY <1>4 DEF RecheckMarker
<1>5. CASE CloseProbe(r) BY <1>5 DEF CloseProbe
<1>6. CASE TakeShared(r) BY <1>6 DEF TakeShared
<1>7. CASE Finish(r) BY <1>7 DEF Finish
<1>8. CASE KillRequest(r) BY <1>8 DEF KillRequest
<1> QED BY <1>1, <1>2, <1>3, <1>4, <1>5, <1>6, <1>7, <1>8 DEF RequestNext, RequestStep

\* The steps of a maintenance run keep the invariant.
LEMMA RunStepInv ==
  ASSUME TypeOK, GateInv, NEW o \in Runs, RunNext(o)
  PROVE  GateInv'
<1> USE ActorsAssumption DEF TypeOK, GateInv, AdmittedIsSafe, Admitted, LiveMarkerStays,
        ProbeHolds, RunHolds, SharedHeld, ExclusiveHeld, ClientsOwned, PassedIsAbsent,
        DirtyKnown, GoRun, InBody, reqVars
<1>1. ASSUME NEW j \in Jobs, StartRun(o, j) PROVE GateInv' BY <1>1 DEF StartRun
<1>2. CASE OpenWindow(o) BY <1>2 DEF OpenWindow
<1>3. CASE Drain(o) BY <1>3 DEF Drain
<1>4. CASE DrainTimeout(o) BY <1>4 DEF DrainTimeout
<1>5. CASE MarkDirty(o) BY <1>5 DEF MarkDirty
<1>6. CASE SpawnClient(o) BY <1>6 DEF SpawnClient
<1>7. CASE ClientExit(o) BY <1>7 DEF ClientExit
<1>8. CASE Complete(o) BY <1>8 DEF Complete
<1>9. CASE LeaveBody(o) BY <1>9 DEF LeaveBody
<1>10. CASE ClearMarker(o) BY <1>10 DEF ClearMarker
<1>11. CASE CloseAccess(o) BY <1>11 DEF CloseAccess
<1>12. CASE CloseController(o) BY <1>12 DEF CloseController
<1>13. CASE KillRun(o) BY <1>13 DEF KillRun
<1> QED BY <1>1, <1>2, <1>3, <1>4, <1>5, <1>6, <1>7, <1>8, <1>9, <1>10, <1>11, <1>12, <1>13
        DEF RunNext, RunStep

\* The types of the gate's state.
THEOREM TypeCorrect == Spec => []TypeOK
<1>1. Init => TypeOK
  BY ActorsAssumption, KillsAssumption DEF Init, TypeOK, Jobs
<1>2. TypeOK /\ [Next]_vars => TypeOK' BY TypeStep
<1> QED BY <1>1, <1>2, PTL DEF Spec

\* The inductive invariant of the gate holds in every reachable state.
THEOREM GateInvariant == Spec => []GateInv
<1>1. Init => GateInv
  BY ActorsAssumption
  DEF Init, GateInv, AdmittedIsSafe, Admitted, LiveMarkerStays, ProbeHolds, RunHolds,
      SharedHeld, ExclusiveHeld, ClientsOwned, PassedIsAbsent, DirtyKnown
<1>2. TypeOK /\ GateInv /\ [Next]_vars => GateInv'
  <2> SUFFICES ASSUME TypeOK, GateInv, [Next]_vars PROVE GateInv'
    OBVIOUS
  <2>1. CASE \E r \in Requests : RequestNext(r) BY <2>1, RequestStepInv
  <2>2. CASE \E o \in Runs : RunNext(o) BY <2>2, RunStepInv
  <2>3. CASE UNCHANGED vars
    BY <2>3
    DEF vars, GateInv, AdmittedIsSafe, Admitted, LiveMarkerStays, ProbeHolds, RunHolds,
        SharedHeld, ExclusiveHeld, ClientsOwned, PassedIsAbsent, DirtyKnown
  <2> QED BY <2>1, <2>2, <2>3 DEF Next
<1> QED BY <1>1, <1>2, TypeCorrect, PTL DEF Spec

\* No request does business during a maintenance window, beside a dump or an
\* import, or on data that is marked half restored: the admission rule of
\* business_access and maintenance_window.
THEOREM AdmissionSafe == Spec => []AdmittedIsSafe
<1>1. GateInv => AdmittedIsSafe BY DEF GateInv
<1> QED BY <1>1, GateInvariant, PTL

\* The stale-marker probe of _reject_active never removes a live marker.
THEOREM MarkerSafe == Spec => []LiveMarkerStays
<1>1. GateInv => LiveMarkerStays BY DEF GateInv
<1> QED BY <1>1, GateInvariant, PTL

\* Only the verified end of a restore reopens a site that is marked dirty.
THEOREM DirtyStays == Spec => DirtyUntilVerified
<1> DEFINE Reopens ==
      marker = "dirty" /\ marker' # "dirty" =>
         /\ marker' = "absent"
         /\ exclusive \in Runs
         /\ job[exclusive] # "backup"
         /\ exclusive \notin dirty
<1>1. TypeOK /\ GateInv /\ [Next]_vars => [Reopens]_vars
  <2> SUFFICES ASSUME TypeOK, GateInv, Next PROVE Reopens
    OBVIOUS
  <2>1. ASSUME NEW r \in Requests, RequestNext(r) PROVE Reopens
    BY <2>1
    DEF RequestNext, RequestStep, Arrive, ReadMarker, ProbeController, RecheckMarker,
        CloseProbe, TakeShared, Finish, KillRequest
  <2>2. ASSUME NEW o \in Runs, RunNext(o) PROVE Reopens
    <3>1. CASE ClearMarker(o)
      BY <2>2, <3>1 DEF ClearMarker, GateInv, DirtyKnown, TypeOK
    <3>2. CASE ~ClearMarker(o)
      BY <2>2, <3>2
      DEF RunNext, RunStep, StartRun, OpenWindow, Drain, DrainTimeout, MarkDirty,
          SpawnClient, ClientExit, Complete, LeaveBody, CloseAccess, CloseController, KillRun
    <3> QED BY <3>1, <3>2
  <2> QED BY <2>1, <2>2 DEF Next
<1> QED BY <1>1, TypeCorrect, GateInvariant, PTL DEF Spec, DirtyUntilVerified

\* The gate implements the barrier: admissions, windows, client processes and
\* reopenings of the locks, marker and probes are those the barrier allows.
THEOREM ImplementsBarrier == Spec => BarrierSpec
<1>1. Init => Barrier!Init
  BY DEF Init, Barrier!Init, Admitted
<1>2. TypeOK /\ GateInv /\ TypeOK' /\ GateInv' /\ [Next]_vars => [Barrier!Next]_(Barrier!vars)
  <2> SUFFICES ASSUME TypeOK, GateInv, TypeOK', GateInv', Next
               PROVE  Barrier!Next \/ UNCHANGED Barrier!vars
    BY DEF vars, Barrier!vars, Admitted
  <2> USE ActorsAssumption DEF TypeOK, Barrier!vars, Admitted
  <2>1. ASSUME NEW r \in Requests, RequestNext(r)
        PROVE  Barrier!Admit(r) \/ Barrier!Leave(r) \/ UNCHANGED Barrier!vars
    <3> USE DEF GateInv, AdmittedIsSafe, LiveMarkerStays, RunHolds, SharedHeld, ExclusiveHeld,
                ClientsOwned, PassedIsAbsent, Barrier!Admit, Barrier!Leave,
                Accept, Reject, GoReq, runVars
    <3>1. CASE Arrive(r) BY <3>1 DEF Arrive
    <3>2. CASE ReadMarker(r) BY <3>2 DEF ReadMarker
    <3>3. CASE ProbeController(r) BY <3>3 DEF ProbeController
    <3>4. CASE RecheckMarker(r) BY <3>4 DEF RecheckMarker
    <3>5. CASE CloseProbe(r) BY <3>5 DEF CloseProbe
    <3>6. CASE TakeShared(r) BY <3>6 DEF TakeShared
    <3>7. CASE Finish(r) BY <3>7 DEF Finish
    <3>8. CASE KillRequest(r) BY <3>8 DEF KillRequest
    <3> QED BY <2>1, <3>1, <3>2, <3>3, <3>4, <3>5, <3>6, <3>7, <3>8 DEF RequestNext, RequestStep
  <2>2. ASSUME NEW o \in Runs, RunNext(o)
        PROVE  \/ Barrier!Open(o) \/ Barrier!Judge(o) \/ Barrier!StartWork(o)
               \/ Barrier!EndWork(o) \/ Barrier!Close(o) \/ UNCHANGED Barrier!vars
    <3> USE DEF GoRun, InBody, reqVars
    <3>1. ASSUME NEW j \in Jobs, StartRun(o, j) PROVE UNCHANGED Barrier!vars
      BY <3>1 DEF StartRun
    <3>2. CASE OpenWindow(o) BY <3>2 DEF OpenWindow
    <3>3. CASE Drain(o)
      BY <3>3 DEF Drain, Barrier!Open, GateInv, RunHolds, SharedHeld, ClientsOwned
    <3>4. CASE DrainTimeout(o) BY <3>4 DEF DrainTimeout
    <3>5. CASE MarkDirty(o) BY <3>5 DEF MarkDirty, Barrier!Judge, GateInv, ExclusiveHeld
    <3>6. CASE SpawnClient(o)
      BY <3>6 DEF SpawnClient, Barrier!StartWork, GateInv, RunHolds, ExclusiveHeld, ClientsOwned
    <3>7. CASE ClientExit(o) BY <3>7 DEF ClientExit, Barrier!EndWork
    <3>8. CASE Complete(o) BY <3>8 DEF Complete
    <3>9. CASE LeaveBody(o) BY <3>9 DEF LeaveBody
    <3>10. CASE ClearMarker(o)
      BY <3>10 DEF ClearMarker, Barrier!Judge, GateInv, DirtyKnown
    <3>11. CASE CloseAccess(o) BY <3>11 DEF CloseAccess, Barrier!Close
    <3>12. CASE CloseController(o) BY <3>12 DEF CloseController
    <3>13. CASE KillRun(o) BY <3>13 DEF KillRun, Barrier!Close
    <3> QED BY <2>2, <3>1, <3>2, <3>3, <3>4, <3>5, <3>6, <3>7, <3>8, <3>9, <3>10, <3>11,
               <3>12, <3>13 DEF RunNext, RunStep
  <2> QED BY <2>1, <2>2 DEF Next, Barrier!Next
<1> QED BY <1>1, <1>2, TypeCorrect, GateInvariant, PTL DEF Spec, BarrierSpec, Barrier!Spec
=============================================================================
