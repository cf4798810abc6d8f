------------------------- MODULE MaintenanceBarrier -------------------------
(***************************************************************************)
(* What the maintenance gate promises, without locks, markers or probes:   *)
(* requests and maintenance windows exclude each other, a window whose     *)
(* data may be half replaced keeps the site closed until a later window    *)
(* repairs it, and nobody is let in while a database client that outlived  *)
(* its window is still at work.                                            *)
(***************************************************************************)
CONSTANTS
    Requests,   \* HTTP requests and the scheduled digest command
    Runs,       \* processes that open a maintenance window
    None        \* "nobody"

VARIABLES
    inside,     \* requests doing business
    window,     \* the run that has the site to itself, or None
    working,    \* runs whose database client is alive, dead runs included
    closed      \* the data may be inconsistent

vars == <<inside, window, working, closed>>

Init ==
    /\ inside = {}
    /\ window = None
    /\ working = {}
    /\ closed = FALSE

Admit(r) ==
    /\ window = None
    /\ working = {}
    /\ ~closed
    /\ inside' = inside \cup {r}
    /\ UNCHANGED <<window, working, closed>>

Leave(r) ==
    /\ r \in inside
    /\ inside' = inside \ {r}
    /\ UNCHANGED <<window, working, closed>>

Open(o) ==
    /\ inside = {}
    /\ window = None
    /\ working = {}
    /\ window' = o
    /\ UNCHANGED <<inside, working, closed>>

\* Data is replaced, or found good again, only by the run inside its window.
Judge(o) ==
    /\ window = o
    /\ closed' \in BOOLEAN
    /\ UNCHANGED <<inside, window, working>>

StartWork(o) ==
    /\ window = o
    /\ working' = {o}
    /\ UNCHANGED <<inside, window, closed>>

EndWork(o) ==
    /\ o \in working
    /\ working' = working \ {o}
    /\ UNCHANGED <<inside, window, closed>>

\* The end of a window, orderly or by the death of its process.
Close(o) ==
    /\ window = o
    /\ window' = None
    /\ UNCHANGED <<inside, working, closed>>

Next ==
    \/ \E r \in Requests : Admit(r) \/ Leave(r)
    \/ \E o \in Runs : Open(o) \/ Judge(o) \/ StartWork(o) \/ EndWork(o) \/ Close(o)

Spec == Init /\ [][Next]_vars
=============================================================================
