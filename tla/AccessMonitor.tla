---------------------------- MODULE AccessMonitor -----------------------------
(***************************************************************************)
(* What account data scopes promise, without row locks, transactions or    *)
(* cached scopes: a session reads and changes only rows that one rule of   *)
(* its user's grant covers, and a grant changes only while that user has   *)
(* no session.                                                             *)
(***************************************************************************)
CONSTANTS
    Sessions,       \* server processes, each with one request at a time
    Users,
    Rows,           \* keys of rows
    Nobody          \* the user of a session that is not open

VARIABLES
    granted,        \* the rules of each user
    inside,         \* the user each session serves, or Nobody
    shown,          \* the places of the rows that a session's response shows
    data            \* the place of each row and the rest of it, or Absent

vars == <<granted, inside, shown, data>>

Absent == [place |-> <<>>, rest |-> <<>>]

\* A rule names centers and departments to read and to write.  A place is a
\* center with a department, and one rule must name both.
Writes(rule, place) == place[1] \in rule.writeCenters /\ place[2] \in rule.writeDepartments
Reads(rule, place) ==
    Writes(rule, place) \/ (place[1] \in rule.readCenters /\ place[2] \in rule.readDepartments)

MayWrite(rules, place) == \E rule \in rules : Writes(rule, place)
MayRead(rules, place) == \E rule \in rules : Reads(rule, place)

Init ==
    /\ inside = [s \in Sessions |-> Nobody]
    /\ shown = [s \in Sessions |-> {}]

Enter(s) ==
    /\ inside[s] = Nobody
    /\ \E u \in Users : inside' = [inside EXCEPT ![s] = u]
    /\ UNCHANGED <<granted, shown, data>>

Show(s) ==
    /\ inside[s] # Nobody
    /\ shown' = [shown EXCEPT ![s] = shown'[s]]
    /\ \A place \in shown'[s] : MayRead(granted[inside[s]], place)
    /\ UNCHANGED <<granted, inside, data>>

Leave(s) ==
    /\ inside[s] # Nobody
    /\ inside' = [inside EXCEPT ![s] = Nobody]
    /\ shown' = [shown EXCEPT ![s] = {}]

\* A change of rows may end the session that makes it.
Change(s) ==
    /\ inside[s] # Nobody
    /\ \A r \in Rows : data'[r] # data[r] =>
        /\ data[r] = Absent \/ MayWrite(granted[inside[s]], data[r].place)
        /\ data'[r] # Absent /\ MayWrite(granted[inside[s]], data'[r].place)
    /\ UNCHANGED granted
    /\ (UNCHANGED <<inside, shown>> \/ Leave(s))

\* The session of the administrator who does it ends.
Regrant(s) ==
    \E u \in Users :
        /\ \A t \in Sessions \ {s} : inside[t] # u
        /\ granted' = [granted EXCEPT ![u] = granted'[u]]
        /\ Leave(s)
        /\ UNCHANGED data

Next == \E s \in Sessions : Enter(s) \/ Show(s) \/ Change(s) \/ Regrant(s)

Spec == Init /\ [][Next]_vars
=============================================================================
