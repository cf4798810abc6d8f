---------------------------- MODULE AssetRegister -----------------------------
(***************************************************************************)
(* The asset records: assets/asset_writes.py with the batches of           *)
(* asset_batches.py and the import of imports.py, the persons they name,   *)
(* and the data scopes of data_scope.py under which users reach them.      *)
(*                                                                         *)
(* A request takes the shared lock of its user's scope and reads the scope *)
(* once.  A write then is one transaction for each asset of the request:   *)
(* it locks its rows, checks, and commits.  A read answers from a snapshot *)
(* taken under the scope lock.  New grants take the lock exclusively.      *)
(* Definitions marked "Mutant" are wrong on purpose and nothing uses them. *)
(***************************************************************************)
EXTENDS Integers, Sequences, FiniteSets

CONSTANTS
    Workers,                        \* server processes
    Users, Managers,                \* accounts; Managers hold organization.manage
    Assets, Racks, People,          \* primary keys
    Centers, Departments,
    Grants, FirstGrant,             \* sets of rules that are saved, and the first
    FirstAssets,                    \* rows at the start
    HomeCenter, HomeDepartment,     \* center of a rack, department of a person
    Requests,                       \* what users ask for
    MaxRequests                     \* bound: requests that start

Nowhere == 0        \* no data center, no rack, no department, no person
Keep == -1          \* a field that an edit leaves alone

ASSUME RegisterKeys ==
    /\ Managers \subseteq Users
    /\ Centers \cup Departments \cup Racks \cup People \subseteq Nat \ {0}
    /\ HomeCenter \in [Racks -> Centers]
    /\ HomeDepartment \in [People -> Departments \cup {Nowhere}]
    /\ FirstGrant \in Grants /\ MaxRequests \in Nat

Rules == [readCenters : SUBSET (Centers \cup {Nowhere}),
          readDepartments : SUBSET (Departments \cup {Nowhere}),
          writeCenters : SUBSET (Centers \cup {Nowhere}),
          writeDepartments : SUBSET (Departments \cup {Nowhere})]

ASSUME GrantsAssumption == \A g \in Grants : g \subseteq Rules

Statuses == {"in_stock", "in_use", "retired"}

AssetRows ==
    [in : BOOLEAN, archived : BOOLEAN, center : Centers \cup {Nowhere}, rack : Racks \cup {Nowhere},
     department : Departments \cup {Nowhere}, holder : People \cup {Nowhere},
     status : Statuses, note : Int, rev : Nat]

Missing == [in |-> FALSE, archived |-> FALSE, center |-> Nowhere, rack |-> Nowhere,
            department |-> Nowhere, holder |-> Nowhere, status |-> "in_stock", note |-> 0, rev |-> 0]

\* The register begins with assets that nobody was given and none was disposed of.
ASSUME FirstRecords ==
    /\ FirstAssets \in [Assets -> AssetRows]
    /\ \A a \in Assets :
        LET row == FirstAssets[a] IN
        /\ row.in \/ row = Missing
        /\ row.holder = Nowhere /\ row.status # "retired"
        /\ row.archived => row.rack = Nowhere
        /\ row.rack # Nowhere => row.center = HomeCenter[row.rack]

NewAssets == [asset : Assets, center : Centers \cup {Nowhere}, rack : Racks \cup {Nowhere},
              department : Departments \cup {Nowhere}, holder : People \cup {Nowhere}]
Batches == Seq(Assets) \ {<<>>}

\* The grant of a manager has no effect.
AllRequests ==
    [kind : {"read"}, user : Users]
      \cup [kind : {"edit"}, user : Users, assets : Batches, match : BOOLEAN,
            center : Centers \cup {Nowhere, Keep}, department : Departments \cup {Nowhere, Keep}, note : Int]
      \cup [kind : {"place"}, user : Users, assets : Batches, match : BOOLEAN, rack : Racks \cup {Nowhere}]
      \cup [kind : {"clear", "return", "dispose", "archive", "restore"}, user : Users, assets : Batches]
      \cup [kind : {"assign", "transfer"}, user : Users, assets : Batches, person : People]
      \cup [kind : {"create"}, user : Users, rows : SUBSET NewAssets]
      \cup [kind : {"rack"}, user : Users, rack : Racks, to : Centers]
      \cup [kind : {"person"}, user : Users, person : People, to : {"active", "inactive", "gone"}]
      \cup [kind : {"grant"}, user : Users, of : Users \ Managers, rules : Grants]

NoUser == "nobody"

\* A revision goes with one asset, never with a batch.
ASSUME RequestForms ==
    /\ Requests \subseteq AllRequests
    /\ \A q \in Requests : q.kind \in {"edit", "place"} /\ q.match => Len(q.assets) = 1
    /\ NoUser \notin Users

VARIABLES
    grant,          \* UserDataScope: rules and revision
    assets,         \* Asset with its RackUnitAllocation
    center,         \* of each rack, through its room
    person,         \* "active", "inactive" or "gone"
    history,        \* AssetAssignmentEvent rows of each asset: from and to
    disposals,      \* assets with an AssetDisposal
    job, pc,        \* request of each worker and how far it is
    scope,          \* the rules it works under
    base,           \* what its client had read when it was written
    todo,           \* assets of a batch that are left
    held,           \* row locks
    shown,          \* places in the response of a read
    requests        \* requests started

records == <<assets, center, person, history, disposals>>
server == <<job, pc, scope, base, todo, held, shown>>
vars == <<grant, records, server, requests>>

Idle == [kind |-> "none", user |-> NoUser]

-----------------------------------------------------------------------------
(* Scopes                                                                    *)

Everything == [readCenters |-> Centers \cup {Nowhere}, readDepartments |-> Departments \cup {Nowhere},
               writeCenters |-> Centers \cup {Nowhere}, writeDepartments |-> Departments \cup {Nowhere}]

\* scope_for
ScopeOf(u) == IF u \in Managers THEN {Everything} ELSE grant[u].rules

\* contains_asset: one rule has both; to read, its write part serves as well.
WriteRule(rule, c, d) == c \in rule.writeCenters /\ d \in rule.writeDepartments
ReadRule(rule, c, d) == c \in rule.readCenters /\ d \in rule.readDepartments

\* Mutant: the center from one rule and the department from another.
CoversByFacet(rules, c, d) ==
    /\ \E rule \in rules : c \in rule.writeCenters
    /\ \E rule \in rules : d \in rule.writeDepartments

Covers(rules, c, d) == \E rule \in rules : WriteRule(rule, c, d)

Visible(rules, c, d) == \E rule \in rules : WriteRule(rule, c, d) \/ ReadRule(rule, c, d)

\* contains, contains_department: facets, for rows that are not assets.
CenterIn(rules, c) == \E rule \in rules : c \in rule.writeCenters
DepartmentSeen(rules, d) == \E rule \in rules : d \in rule.writeDepartments \cup rule.readDepartments
DepartmentIn(rules, d) == \E rule \in rules : d \in rule.writeDepartments

\* _asset_coordinates
CenterOf(row) == IF row.rack = Nowhere THEN row.center ELSE center[row.rack]
Place(row) == <<CenterOf(row), row.department>>

Mine(w, row) == Covers(scope[w], CenterOf(row), row.department)

-----------------------------------------------------------------------------
(* Requests                                                                  *)

AssetKinds == {"edit", "place", "clear", "assign", "return", "transfer", "dispose", "archive", "restore"}

On(k) == {a \in Assets : assets[a].in /\ assets[a].rack = k}

\* The worker is done: its locks are dropped and its scope lock is released.
Done(w) ==
    /\ pc' = [pc EXCEPT ![w] = "idle"]
    /\ job' = [job EXCEPT ![w] = Idle]
    /\ scope' = [scope EXCEPT ![w] = {}]
    /\ base' = [base EXCEPT ![w] = Missing]
    /\ todo' = [todo EXCEPT ![w] = <<>>]
    /\ held' = [held EXCEPT ![w] = {}]
    /\ shown' = [shown EXCEPT ![w] = {}]

\* One transaction of a batch is over, committed or not; the next one follows.
NextItem(w) ==
    IF Len(todo[w]) <= 1 THEN Done(w)
    ELSE /\ todo' = [todo EXCEPT ![w] = Tail(@)]
         /\ pc' = [pc EXCEPT ![w] = "begun"]
         /\ held' = [held EXCEPT ![w] = {}]
         /\ UNCHANGED <<job, scope, base, shown>>

\* admit: the shared lock of the scope, then the scope.  An edit that carries
\* If-Match goes back to a record that its client has read.
Begin(w) ==
    \E q \in Requests :
        /\ pc[w] = "idle" /\ requests < MaxRequests
        /\ requests' = requests + 1
        /\ job' = [job EXCEPT ![w] = q]
        /\ pc' = [pc EXCEPT ![w] = "begun"]
        /\ scope' = [scope EXCEPT ![w] = ScopeOf(q.user)]
        /\ todo' = [todo EXCEPT ![w] = IF q.kind \in AssetKinds THEN q.assets ELSE <<>>]
        /\ base' = [base EXCEPT ![w] =
               IF q.kind \in {"edit", "place"} THEN assets[q.assets[1]]
               ELSE IF q.kind = "grant" THEN [Missing EXCEPT !.rev = grant[q.of].rev] ELSE Missing]
        /\ UNCHANGED <<grant, records, held, shown>>

\* A refusal, a lost connection, a crash: the transaction is rolled back.
Abort(w) ==
    /\ pc[w] # "idle"
    /\ Done(w)
    /\ UNCHANGED <<grant, records, requests>>

\* GET: _read_response_snapshot, scoped, and the response that streams it.
Read(w) ==
    /\ pc[w] = "begun" /\ job[w].kind = "read"
    /\ shown' = [shown EXCEPT ![w] =
           {Place(row) : row \in {x \in {assets[a] : a \in Assets} :
               x.in /\ ~x.archived /\ Visible(scope[w], CenterOf(x), x.department)}}]
    /\ pc' = [pc EXCEPT ![w] = "answering"]
    /\ UNCHANGED <<grant, records, job, scope, base, todo, held, requests>>

Answer(w) ==
    /\ pc[w] = "answering"
    /\ Done(w)
    /\ UNCHANGED <<grant, records, requests>>

-----------------------------------------------------------------------------
(* Grants                                                                    *)

\* A manager's requests do not take the scope lock.
Admitted(u) == {w \in Workers : pc[w] # "idle" /\ job[w].user = u /\ u \notin Managers}

\* Mutant: the exclusive lock is not taken.
SaveGrantUnlocked(w) ==
    LET q == job[w] IN
    /\ pc[w] = "begun" /\ q.kind = "grant"
    /\ base[w].rev = grant[q.of].rev
    /\ grant' = [grant EXCEPT ![q.of] = [rules |-> q.rules, rev |-> @.rev + 1]]
    /\ Done(w)
    /\ UNCHANGED <<records, requests>>

\* replace_account_scope: it waits until the user's requests have gone.
SaveGrant(w) ==
    LET q == job[w] IN
    /\ pc[w] = "begun" /\ q.kind = "grant"
    /\ Admitted(q.of) = {}
    /\ base[w].rev = grant[q.of].rev
    /\ grant' = [grant EXCEPT ![q.of] = [rules |-> q.rules, rev |-> @.rev + 1]]
    /\ Done(w)
    /\ UNCHANGED <<records, requests>>

-----------------------------------------------------------------------------
(* Locks                                                                     *)

AssetRow(a) == <<"asset", a>>
RackRow(k) == <<"rack", k>>
PersonRow(p) == <<"person", p>>

\* lock_asset_location: the racks it leaves and goes to, with what is on them.
PlaceRows(a, k) ==
    LET racks == {assets[a].rack, k} \ {Nowhere} IN
    {AssetRow(a)} \cup {RackRow(j) : j \in racks} \cup {AssetRow(b) : b \in UNION {On(j) : j \in racks}}

\* Mutant: the person who is named is read without a lock.
NobodyLocked(q) == {}

\* _locked_person
PeopleLocked(q) ==
    (CASE q.kind \in {"assign", "transfer"} -> {q.person}
       [] q.kind = "create" -> {row.holder : row \in q.rows}
       [] OTHER -> {}) \ {Nowhere}

\* A new asset_no is guarded by its unique index.
LockedRows(w) ==
    LET q == job[w] IN
    {PersonRow(p) : p \in PeopleLocked(q)} \cup
    CASE q.kind = "place" -> PlaceRows(Head(todo[w]), q.rack)
      [] q.kind \in {"clear", "dispose", "archive", "restore"} -> PlaceRows(Head(todo[w]), Nowhere)
      [] q.kind = "edit" /\ q.center # Keep -> PlaceRows(Head(todo[w]), Nowhere)
      [] q.kind = "edit" /\ q.center = Keep -> {AssetRow(Head(todo[w]))}
      [] q.kind \in {"assign", "return", "transfer"} -> {AssetRow(Head(todo[w]))}
      [] q.kind = "create" -> UNION {PlaceRows(row.asset, row.rack) : row \in q.rows}
      [] q.kind = "rack" -> {RackRow(q.rack)} \cup {AssetRow(a) : a \in On(q.rack)}
      [] q.kind = "person" -> {PersonRow(q.person)}

Lock(w) ==
    /\ pc[w] = "begun" /\ job[w].kind \notin {"read", "grant"}
    /\ \A v \in Workers \ {w} : LockedRows(w) \cap held[v] = {}
    /\ held' = [held EXCEPT ![w] = LockedRows(w)]
    /\ pc' = [pc EXCEPT ![w] = "locked"]
    /\ UNCHANGED <<grant, records, job, scope, base, todo, shown, requests>>

-----------------------------------------------------------------------------
(* Checks, once everything is locked                                         *)

\* active_asset_for_update
Active(w, a) == assets[a].in /\ ~assets[a].archived /\ Mine(w, assets[a])

\* check_asset_revision
Current(w, a) == job[w].match => assets[a].rev = base[w].rev

\* The row an edit leaves: the center of a mounted asset is its rack's.
Edited(row, q) ==
    [row EXCEPT !.center = IF q.center = Keep THEN @ ELSE q.center,
                !.department = IF q.department = Keep THEN @ ELSE q.department,
                !.note = q.note, !.rev = @ + 1]

\* update_asset, with both ends of checked_asset_transition
MayEdit(w, a) ==
    LET q == job[w]  row == assets[a] IN
    /\ Active(w, a) /\ Current(w, a)
    /\ row.rack # Nowhere /\ q.center # Keep => q.center = center[row.rack]
    /\ Mine(w, Edited(row, q))

\* change_asset_placement and lock_asset_location, where a rack is asked for
MayPlace(w, a) ==
    LET q == job[w]  row == assets[a] IN
    /\ Active(w, a) /\ Current(w, a)
    /\ q.rack # Nowhere =>
        /\ CenterIn(scope[w], center[q.rack]) /\ Covers(scope[w], center[q.rack], row.department)
        /\ row.status = "retired" => row.rack = q.rack

MayClear(w, a) == Active(w, a) /\ Covers(scope[w], Nowhere, assets[a].department)

MayHold(w, p) == person[p] = "active" /\ DepartmentSeen(scope[w], HomeDepartment[p])

\* _change_asset_assignment
MayAssign(w, a) ==
    LET q == job[w]  row == assets[a] IN
    /\ Active(w, a)
    /\ q.kind \in {"assign", "transfer"} => row.status # "retired" /\ MayHold(w, q.person)
    /\ (row.holder = Nowhere) = (q.kind = "assign")
    /\ q.kind = "transfer" => row.holder # q.person

MayDispose(w, a) ==
    LET row == assets[a] IN
    /\ Active(w, a) /\ row.status # "retired" /\ a \notin disposals
    /\ row.holder = Nowhere /\ row.rack = Nowhere

MayArchive(w, a) ==
    Active(w, a) /\ assets[a].holder = Nowhere /\ assets[a].rack = Nowhere

MayRestore(w, a) == assets[a].in /\ Mine(w, assets[a])

\* create_asset; all the rows of an import, or none
MayCreate(w) ==
    \A new \in job[w].rows :
        /\ ~assets[new.asset].in
        /\ DepartmentIn(scope[w], new.department)
        /\ Covers(scope[w], IF new.rack = Nowhere THEN new.center ELSE center[new.rack], new.department)
        /\ new.holder # Nowhere => MayHold(w, new.holder)

\* Mutant: the assets on the rack are not looked at.
MayMoveRackAlone(w) ==
    CenterIn(scope[w], center[job[w].rack]) /\ CenterIn(scope[w], job[w].to)

\* lock_rack_location
MayMoveRack(w) ==
    LET q == job[w] IN
    /\ CenterIn(scope[w], center[q.rack]) /\ CenterIn(scope[w], q.to)
    /\ \A a \in On(q.rack) :
        Mine(w, assets[a]) /\ Covers(scope[w], q.to, assets[a].department)

\* save_reference, delete_reference: global access, validate_person,
\* _protect_delete and the protected foreign key.
MaySetPerson(w) ==
    LET q == job[w] IN
    /\ person[q.person] # "gone"
    /\ Everything \in scope[w]
    /\ q.to # "active" => \A a \in Assets :
        assets[a].holder = q.person => assets[a].archived /\ q.to = "inactive"

Allowed(w) ==
    LET kind == job[w].kind IN
    CASE kind = "edit" -> MayEdit(w, Head(todo[w]))
      [] kind = "place" -> MayPlace(w, Head(todo[w]))
      [] kind = "clear" -> MayClear(w, Head(todo[w]))
      [] kind \in {"assign", "return", "transfer"} -> MayAssign(w, Head(todo[w]))
      [] kind = "dispose" -> MayDispose(w, Head(todo[w]))
      [] kind = "archive" -> MayArchive(w, Head(todo[w]))
      [] kind = "restore" -> MayRestore(w, Head(todo[w]))
      [] kind = "create" -> MayCreate(w)
      [] kind = "rack" -> MayMoveRack(w)
      [] kind = "person" -> MaySetPerson(w)

Check(w) ==
    /\ pc[w] = "locked" /\ Allowed(w)
    /\ pc' = [pc EXCEPT ![w] = "checked"]
    /\ UNCHANGED <<grant, records, job, scope, base, todo, held, shown, requests>>

\* In a batch a refusal is a line of the result, and the next asset follows.
Refuse(w) ==
    /\ pc[w] = "locked" /\ ~Allowed(w)
    /\ NextItem(w)
    /\ UNCHANGED <<grant, records, requests>>

-----------------------------------------------------------------------------
(* Writes                                                                    *)

At(w, kinds) == pc[w] = "checked" /\ job[w].kind \in kinds

\* Asset.save and AssetQuerySet.update: every write of the row advances its
\* revision, by as much as there are writes; one is enough to tell it apart.
Save(a, row) == assets' = [assets EXCEPT ![a] = [row EXCEPT !.rev = assets[a].rev + 1]]

CommitEdit(w) ==
    LET a == Head(todo[w]) IN
    /\ At(w, {"edit"})
    /\ Save(a, Edited(assets[a], job[w]))
    /\ NextItem(w)
    /\ UNCHANGED <<grant, center, person, history, disposals, requests>>

\* The same place again writes nothing.  The copy of the center stays when an
\* asset is taken out of its rack.
CommitPlace(w) ==
    LET a == Head(todo[w])  row == assets[a]  k == job[w].rack IN
    /\ At(w, {"place"})
    /\ IF row.rack = k THEN UNCHANGED assets
       ELSE Save(a, [row EXCEPT !.rack = k, !.center = IF k = Nowhere THEN @ ELSE center[k]])
    /\ NextItem(w)
    /\ UNCHANGED <<grant, center, person, history, disposals, requests>>

CommitClear(w) ==
    LET a == Head(todo[w]) IN
    /\ At(w, {"clear"})
    /\ Save(a, [assets[a] EXCEPT !.rack = Nowhere, !.center = Nowhere])
    /\ NextItem(w)
    /\ UNCHANGED <<grant, center, person, history, disposals, requests>>

Event(from, to) == [from |-> from, to |-> to]

\* _apply_assignment_status: retired stays, and a transfer changes nothing.
StatusAfter(row, kind) ==
    CASE kind = "assign" -> "in_use"
      [] kind = "return" /\ row.status # "retired" -> "in_stock"
      [] OTHER -> row.status

CommitAssign(w) ==
    LET a == Head(todo[w])  row == assets[a]  kind == job[w].kind
        to == IF kind = "return" THEN Nowhere ELSE job[w].person
    IN /\ At(w, {"assign", "return", "transfer"})
       /\ Save(a, [row EXCEPT !.holder = to, !.status = StatusAfter(row, kind)])
       /\ history' = [history EXCEPT ![a] = Append(@, Event(row.holder, to))]
       /\ NextItem(w)
       /\ UNCHANGED <<grant, center, person, disposals, requests>>

CommitDispose(w) ==
    LET a == Head(todo[w]) IN
    /\ At(w, {"dispose"})
    /\ Save(a, [assets[a] EXCEPT !.status = "retired"])
    /\ disposals' = disposals \cup {a}
    /\ NextItem(w)
    /\ UNCHANGED <<grant, center, person, history, requests>>

\* _archive_locked_asset, restore_asset
CommitArchive(w) ==
    LET a == Head(todo[w])  wanted == job[w].kind = "archive" IN
    /\ At(w, {"archive", "restore"})
    /\ IF assets[a].archived = wanted THEN UNCHANGED assets
       ELSE Save(a, [assets[a] EXCEPT !.archived = wanted])
    /\ NextItem(w)
    /\ UNCHANGED <<grant, center, person, history, disposals, requests>>

Created(new) ==
    [Missing EXCEPT !.in = TRUE, !.rack = new.rack, !.department = new.department, !.rev = 1,
        !.center = IF new.rack = Nowhere THEN new.center ELSE center[new.rack],
        !.holder = new.holder, !.status = IF new.holder = Nowhere THEN @ ELSE "in_use"]

CommitCreate(w) ==
    LET new(a) == {row \in job[w].rows : row.asset = a} IN
    /\ At(w, {"create"})
    /\ assets' = [a \in Assets |-> IF new(a) = {} THEN assets[a] ELSE Created(CHOOSE row \in new(a) : TRUE)]
    /\ history' = [a \in Assets |->
           IF assets'[a] = assets[a] \/ assets'[a].holder = Nowhere THEN history[a]
           ELSE <<Event(Nowhere, assets'[a].holder)>>]
    /\ Done(w)
    /\ UNCHANGED <<grant, center, person, disposals, requests>>

\* Mutant: the revision stays, as with a plain UPDATE.
RecentredSilently(row, c) == [row EXCEPT !.center = c]

Recentred(row, c) == [row EXCEPT !.center = c, !.rev = @ + 1]

\* _synchronize_asset_location_hierarchy_locked
CommitMoveRack(w) ==
    LET q == job[w] IN
    /\ At(w, {"rack"})
    /\ center' = [center EXCEPT ![q.rack] = q.to]
    /\ assets' = [a \in Assets |->
           IF a \in On(q.rack) /\ assets[a].center # q.to THEN Recentred(assets[a], q.to) ELSE assets[a]]
    /\ Done(w)
    /\ UNCHANGED <<grant, person, history, disposals, requests>>

CommitPerson(w) ==
    /\ At(w, {"person"})
    /\ person' = [person EXCEPT ![job[w].person] = job[w].to]
    /\ Done(w)
    /\ UNCHANGED <<grant, assets, center, history, disposals, requests>>

-----------------------------------------------------------------------------
Init ==
    /\ grant = [u \in Users \ Managers |-> [rules |-> FirstGrant, rev |-> 1]]
    /\ assets = FirstAssets
    /\ center = HomeCenter
    /\ person = [p \in People |-> "active"]
    /\ history = [a \in Assets |-> <<>>]
    /\ disposals = {}
    /\ job = [w \in Workers |-> Idle] /\ pc = [w \in Workers |-> "idle"]
    /\ scope = [w \in Workers |-> {}] /\ base = [w \in Workers |-> Missing]
    /\ todo = [w \in Workers |-> <<>>] /\ held = [w \in Workers |-> {}]
    /\ shown = [w \in Workers |-> {}]
    /\ requests = 0

Step(w) ==
    \/ Begin(w) \/ Read(w) \/ Answer(w) \/ SaveGrant(w)
    \/ Lock(w) \/ Check(w) \/ Refuse(w)
    \/ CommitEdit(w) \/ CommitPlace(w) \/ CommitClear(w) \/ CommitAssign(w) \/ CommitDispose(w)
    \/ CommitArchive(w) \/ CommitCreate(w) \/ CommitMoveRack(w) \/ CommitPerson(w)
    \/ Abort(w)

Next == \E w \in Workers : Step(w)

Spec == Init /\ [][Next]_vars

-----------------------------------------------------------------------------
(* Properties *)

TypeOK ==
    /\ DOMAIN grant = Users \ Managers /\ \A u \in DOMAIN grant : grant[u].rules \in Grants
    /\ \A a \in Assets :
        /\ assets[a].center \in Centers \cup {Nowhere} /\ assets[a].rack \in Racks \cup {Nowhere}
        /\ assets[a].department \in Departments \cup {Nowhere}
        /\ assets[a].holder \in People \cup {Nowhere} /\ assets[a].status \in Statuses
    /\ center \in [Racks -> Centers]
    /\ person \in [People -> {"active", "inactive", "gone"}]
    /\ disposals \subseteq Assets
    /\ \A w \in Workers : job[w] \in Requests \cup {Idle}
    /\ requests \in 0 .. MaxRequests

LastHolder(a) == IF history[a] = <<>> THEN Nowhere ELSE history[a][Len(history[a])].to

\* The records agree, whatever is assigned, returned, deactivated, disposed of
\* and archived at the same time: the holder of an asset is the one its last
\* event names, events follow on each other, a holder is an active person, an
\* asset is retired exactly if its disposal was recorded, and one that is
\* retired or archived has neither a holder nor a place in a rack.
RecordsAgree ==
    /\ TypeOK
    /\ \A a \in Assets :
        LET row == assets[a]  events == history[a] IN
        /\ row.holder = LastHolder(a)
        /\ \A i \in 2 .. Len(events) : events[i].from = events[i - 1].to
        /\ row.holder # Nowhere => person[row.holder] = "active"
        /\ (row.status = "retired") = (a \in disposals)
        /\ row.status = "retired" \/ row.archived => row.holder = Nowhere /\ row.rack = Nowhere

\* An edit that carries a revision changes the record that its client had read:
\* nothing that another request wrote in between is overwritten unseen.
EditsSeeEveryChange ==
    [][\A w \in Workers :
        At(w, {"edit", "place"}) /\ job[w].match /\ assets' # assets =>
            [assets[Head(todo[w])] EXCEPT !.rev = 0] = [base[w] EXCEPT !.rev = 0]]_vars

\* What the data scopes promise.
Monitor == INSTANCE AccessMonitor WITH
    Sessions <- Workers, Rows <- Assets, Nobody <- NoUser,
    granted <- [u \in Users |-> ScopeOf(u)],
    inside <- [w \in Workers |-> job[w].user],
    data <- [a \in Assets |->
        IF assets[a].in THEN [place |-> Place(assets[a]), rest |-> <<assets[a], history[a], a \in disposals>>]
        ELSE [place |-> <<>>, rest |-> <<>>]]

\* No response shows, and no write touches or produces, an asset that one rule
\* of its user's present grant does not cover, however grants, racks, owners
\* and batches change meanwhile; and a grant waits for its user's requests.
MonitorSpec == Monitor!Spec
=============================================================================
