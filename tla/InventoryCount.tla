---------------------------- MODULE InventoryCount ----------------------------
(***************************************************************************)
(* Counting: assets/inventory_writes.py, with the moves and archivals that *)
(* compete with it (assets/physical_location.py, assets/asset_writes.py).  *)
(*                                                                         *)
(* One task, created once, and the items it froze, one per asset.  A       *)
(* request reads what it needs to name its locks, takes them all (Admit),  *)
(* checks under them, and writes (a commit).  Everybody who writes an item *)
(* holds the row of its task, so items have no locks of their own here.    *)
(* A rack stands for one range of U in it: it carries one asset.  That a   *)
(* mounted asset is in the center of its rack is RackPlacement's doing.    *)
(* Definitions marked "Mutant" are wrong on purpose and nothing uses them. *)
(***************************************************************************)
EXTENDS Integers, FiniteSets

CONSTANTS
    Workers,                    \* server processes, one transaction each
    Assets, Racks, Rooms, Centers,
    FirstRoom, FirstCenter,     \* where racks and rooms are at first
    FirstPlace,                 \* where assets are at first
    Requests,                   \* what users ask for
    MaxRequests, MaxMoves       \* bounds: requests and facility writes

Unlocated == "unlocated"
Unclear == "unclear"            \* actual_placement is blank
Nowhere == "nowhere"            \* no room, no center
Task == "task"                  \* the row of the task

Places == Racks \cup Centers \cup {Unlocated}
Observable == Places \cup {Unclear}

ASSUME InventoryConstants ==
    /\ FirstRoom \in [Racks -> Rooms] /\ FirstCenter \in [Rooms -> Centers]
    /\ FirstPlace \in [Assets -> Places]
    /\ MaxRequests \in Nat /\ MaxMoves \in Nat

ASSUME InventoryNames ==
    /\ Racks \cap Centers = {} /\ Rooms \cap Centers = {}
    /\ {Unlocated, Unclear, Nowhere, "all_assets"} \cap (Racks \cup Rooms \cup Centers) = {}

Exceptions == {"location_mismatch", "not_found", "other"}
Statuses == Exceptions \cup {"pending", "normal"}
Resolutions == {"update_asset", "keep_asset", "confirm_missing", "ignore"}

AllRequests ==
    [kind : {"observe"}, asset : Assets, status : Statuses, at : Observable]
      \cup [kind : {"confirm", "archive", "restore"}, asset : Assets]
      \cup [kind : {"resolve"}, asset : Assets, action : Resolutions]
      \cup [kind : {"place"}, asset : Assets, at : Places]
      \cup [kind : {"create"}, scope : {"all_assets"} \cup Centers \cup Rooms]
      \cup [kind : {"complete", "reopen", "delete"}]

ASSUME InventoryRequests == Requests \subseteq AllRequests

VARIABLES
    place, archived, assetRev,  \* Asset: where it is, archived_at, revision
    roomOf, centerOf, closed,   \* Rack.room, ServerRoom.data_center, inactive racks
    task,                       \* InventoryTask: status, scope, the center it was created in
    items,                      \* InventoryItem of each asset
    judged,                     \* history: the observation that was last resolved
    job, pc, held,              \* request, stage and row locks of each worker
    seen,                       \* what its client or its first queries read; for the
                                \* properties, what was archived when it listed its scope
    requests, moves             \* bounds

ledger == <<place, archived, assetRev>>
facilities == <<roomOf, centerOf, closed>>
count == <<task, items, judged>>
process == <<job, pc, held, seen>>
vars == <<ledger, facilities, count, process, requests, moves>>

Site(p) ==
    CASE p \in Racks -> [room |-> roomOf[p], center |-> centerOf[roomOf[p]]]
      [] p \in Centers -> [room |-> Nowhere, center |-> p]
      [] OTHER -> [room |-> Nowhere, center |-> Nowhere]

Sites == [room : Rooms \cup {Nowhere}, center : Centers \cup {Nowhere}]

NoItem == [status |-> "none"]
NoTask == [status |-> "none", scope |-> "all_assets", center |-> Nowhere]
DeletedTask == [NoTask EXCEPT !.status = "deleted"]
Item == [system : Places, systemSite : Sites, status : Statuses, at : Observable, site : Sites,
         resolution : {"not_required", "pending", "resolved"}, rev : Nat]

Members == {a \in Assets : items[a] # NoItem}
Idle == [kind |-> "none"]
Unread == [rev |-> 0, assetRev |-> 0, members |-> {}, away |-> {}]
ItemJobs == {"observe", "confirm", "resolve"}

-----------------------------------------------------------------------------
(* Locks                                                                     *)

Parents(p) == {Site(p).room, Site(p).center} \ {Nowhere}

\* lock_asset_location: the parents of where the asset is and of where it goes.
LocationRows(a, targets) ==
    LET ps == (targets \cup {place[a]}) \cap (Racks \cup Centers)
    IN  {a} \cup ps \cup UNION {Parents(p) : p \in ps}

\* Mutant: the scope is read, not locked.
ScopeUnlocked(scope, center) == {}

\* lock_inventory_scope
ScopeRows(scope, center) == IF scope = "all_assets" THEN {} ELSE {scope, center} \ {Nowhere}

Target(q) ==
    CASE q.kind = "confirm" \/ (q.kind = "observe" /\ q.status = "normal") -> {items[q.asset].system}
      [] q.kind = "observe" /\ q.status # "normal" -> {q.at}
      [] q.kind = "resolve" -> IF q.action = "update_asset" THEN {items[q.asset].at} ELSE {}
      [] q.kind = "place" -> {q.at}
      [] OTHER -> {}

\* get_inventory_scope_assets
InScope(scope) ==
    {a \in Assets \ archived :
        \/ scope = "all_assets"
        \/ scope \in Rooms /\ place[a] \in Racks \ closed /\ roomOf[place[a]] = scope
        \/ scope \in Centers /\ place[a] = scope
        \/ scope \in Centers /\ place[a] \in Racks \ closed /\ Site(place[a]).center = scope}

ScopeCenter(scope) == IF scope \in Rooms THEN centerOf[scope] ELSE IF scope \in Centers THEN scope ELSE Nowhere

\* The rows that a request is going to lock, as it finds them before.
Rows(q) ==
    CASE q.kind \in ItemJobs -> LocationRows(q.asset, Target(q)) \cup {Task}
      [] q.kind \in {"archive", "restore", "place"} -> LocationRows(q.asset, Target(q))
      [] q.kind = "create" -> ScopeRows(q.scope, ScopeCenter(q.scope))
      [] OTHER -> ScopeRows(task.scope, task.center) \cup Members \cup {Task}

\* Mutant: the rack is read without its room and its center.
NotJoined(q) == {}

\* place_asset locks the parents that the rack has once the rack is locked.
Joined(q) ==
    IF q.kind = "place" \/ (q.kind = "resolve" /\ q.action = "update_asset")
    THEN UNION {Parents(p) : p \in Target(q) \cap Racks} ELSE {}

Free(rows, w) == \A v \in Workers \ {w} : rows \cap held[v] = {}
Unlocked(rows) == \A v \in Workers : rows \cap held[v] = {}

-----------------------------------------------------------------------------
(* Requests                                                                  *)

\* A request on an item or a task that is gone ends with 404 at once.
Named(q) ==
    /\ q.kind \in ItemJobs => q.asset \in Members
    /\ q.kind \in {"complete", "reopen", "delete"} => task \notin {NoTask, DeletedTask}
    /\ q.kind = "create" => task = NoTask /\ \A w \in Workers : job[w].kind # "create"   \* bound

\* Clients send the revisions they last read; the other reads are unlocked queries.
Start(w) ==
    \E q \in Requests :
        /\ pc[w] = "idle" /\ requests < MaxRequests /\ Named(q)
        /\ requests' = requests + 1
        /\ job' = [job EXCEPT ![w] = q]
        /\ pc' = [pc EXCEPT ![w] = "waits"]
        /\ seen' = [seen EXCEPT ![w] =
               [rev |-> IF q.kind \in ItemJobs THEN items[q.asset].rev ELSE 0,
                assetRev |-> IF q.kind \in ItemJobs THEN assetRev[q.asset] ELSE 0,
                members |-> Rows(q), away |-> {}]]
        /\ UNCHANGED <<ledger, facilities, count, held, moves>>

End(w) ==
    /\ pc' = [pc EXCEPT ![w] = "idle"]
    /\ job' = [job EXCEPT ![w] = Idle]
    /\ held' = [held EXCEPT ![w] = {}]
    /\ seen' = [seen EXCEPT ![w] = Unread]

\* A refusal, a deadlock victim, a lost connection, a crash.
Abort(w) ==
    /\ pc[w] # "idle"
    /\ End(w)
    /\ UNCHANGED <<ledger, facilities, count, requests, moves>>

\* inventory_snapshot_location: the frozen rack is still where it was, and in use.
SnapshotHolds(it) == it.system \in Racks => Site(it.system) = it.systemSite /\ it.system \notin closed

\* validate_inventory_observation: the rack that is recorded is in use.
MayRecord(q, it, w) ==
    /\ task.status # "completed"
    /\ it.rev = seen[w].rev
    /\ q.status = "normal" => SnapshotHolds(it)
    /\ q.status \in {"location_mismatch", "other"} => q.at \notin closed

\* confirm_inventory_item_normal(require_pending), as the bulk action calls it
MayConfirm(it) == task.status = "in_progress" /\ it.status = "pending" /\ SnapshotHolds(it)

\* place_asset or set_direct_asset_placement
Fits(a, p) == p \in Racks => p \notin closed /\ \A b \in Assets \ {a} : place[b] # p

\* Mutant: the parents of the observed rack are not compared with the observation.
ResolveMoved(q, it, w) ==
    /\ it.rev = seen[w].rev
    /\ it.status \in Exceptions /\ it.resolution = "pending"
    /\ q.action = "confirm_missing" => it.status = "not_found"
    /\ q.action = "update_asset" =>
          /\ assetRev[q.asset] = seen[w].assetRev
          /\ it.status = "location_mismatch" /\ it.at # Unclear
          /\ Fits(q.asset, it.at)

MayResolve(q, it, w) ==
    /\ it.rev = seen[w].rev
    /\ it.status \in Exceptions /\ it.resolution = "pending"
    /\ q.action = "confirm_missing" => it.status = "not_found"
    /\ q.action = "update_asset" =>
          /\ assetRev[q.asset] = seen[w].assetRev
          /\ it.status = "location_mismatch" /\ it.at # Unclear
          /\ it.at \in Racks => Site(it.at) = it.site
          /\ Fits(q.asset, it.at)

AllowedItem(q, w) ==
    /\ q.asset \in Members /\ q.asset \notin archived
    /\ \/ q.kind = "observe" /\ MayRecord(q, items[q.asset], w)
       \/ q.kind = "confirm" /\ MayConfirm(items[q.asset])
       \/ q.kind = "resolve" /\ MayResolve(q, items[q.asset], w)

\* A room task whose room has left its center is refused (lock_inventory_scope).
ScopeStands(scope, center) == scope \in Rooms => centerOf[scope] = center

MayReopen == task.status = "completed" /\ Members \cap archived = {}

MayComplete == task.status = "in_progress" /\ \A a \in Members : items[a].status # "pending"

\* inventory_task_delete_block_reason
MayDelete ==
    /\ task.status = "in_progress"
    /\ \A a \in Members : items[a].status = "pending" /\ items[a].resolution # "resolved"

AllowedTask(q) ==
    /\ task # DeletedTask /\ ScopeStands(task.scope, task.center)
    /\ \/ q.kind = "complete" /\ MayComplete
       \/ q.kind = "reopen" /\ MayReopen
       \/ q.kind = "delete" /\ MayDelete

\* _archive_locked_asset; holding the person, faults and repairs of an asset
\* against its archival is RepairLifecycle's subject.
MayArchive(a) ==
    /\ a \notin archived /\ place[a] \notin Racks
    /\ ~(task.status = "in_progress" /\ a \in Members)

AllowedAsset(q) ==
    \/ q.kind = "archive" /\ MayArchive(q.asset)
    \/ q.kind = "restore" /\ q.asset \in archived
    \/ q.kind = "place" /\ q.asset \notin archived /\ Fits(q.asset, q.at)

\* What was in the scope and still is when the assets are locked too.
Counted(q, w) == InScope(q.scope) \cap seen[w].members

Allowed(q, w) ==
    \/ q.kind \in ItemJobs /\ AllowedItem(q, w)
    \/ q.kind \in {"complete", "reopen", "delete"} /\ AllowedTask(q)
    \/ q.kind \in {"archive", "restore", "place"} /\ AllowedAsset(q)
    \/ /\ q.kind = "create" /\ Counted(q, w) # {}
       /\ q.scope \in Rooms => centerOf[q.scope] \in seen[w].members

\* create_inventory_task lists the assets while it holds the scope alone.
ListScope(w) ==
    /\ pc[w] = "waits" /\ job[w].kind = "create"
    /\ Free(seen[w].members, w)
    /\ held' = [held EXCEPT ![w] = seen[w].members]
    /\ seen' = [seen EXCEPT ![w].members = @ \cup InScope(job[w].scope), ![w].away = archived]
    /\ pc' = [pc EXCEPT ![w] = "listed"]
    /\ UNCHANGED <<ledger, facilities, count, job, requests, moves>>

\* The locks are granted and the checks made under them pass.
Admit(w) ==
    /\ pc[w] = IF job[w].kind = "create" THEN "listed" ELSE "waits"
    /\ Free(seen[w].members, w)
    /\ Allowed(job[w], w)
    /\ Free(Joined(job[w]), w)
    /\ held' = [held EXCEPT ![w] = seen[w].members \cup Joined(job[w])]
    /\ pc' = [pc EXCEPT ![w] = "checked"]
    /\ UNCHANGED <<ledger, facilities, count, job, seen, requests, moves>>

-----------------------------------------------------------------------------
(* Commits                                                                   *)

Doing(w, kinds) == pc[w] = "checked" /\ job[w].kind \in kinds

Write(a, it) == items' = [items EXCEPT ![a] = [it EXCEPT !.rev = @ + 1]]

\* What a status leaves of the place a client sent with it.
Recorded(q) == IF q.status \in {"pending", "not_found"} THEN Unclear ELSE q.at

\* InventoryItem.save: the site is frozen with the result it belongs to.
Frozen(it, status, p) == IF it.status = status /\ it.at = p THEN it.site ELSE Site(p)

\* Mutant: only going back to pending or normal reopens the exception.
KeepResolution(it, status, p) ==
    IF status \in {"pending", "normal"} THEN "not_required"
    ELSE IF it.resolution = "not_required" THEN "pending" ELSE it.resolution

\* reset_inventory_resolution: a result that changes has to be resolved again.
NextResolution(it, status, p) ==
    IF status \in {"pending", "normal"} THEN "not_required"
    ELSE IF it.status = status /\ it.at = p THEN it.resolution ELSE "pending"

\* record_inventory_observation
Observe(w) ==
    /\ Doing(w, {"observe"}) /\ job[w].status # "normal"
    /\ LET q == job[w] it == items[q.asset] p == Recorded(q) IN
         Write(q.asset, [it EXCEPT !.status = q.status, !.at = p, !.site = Frozen(it, q.status, p),
                                   !.resolution = NextResolution(it, q.status, p)])
    /\ End(w)
    /\ UNCHANGED <<ledger, facilities, task, judged, requests, moves>>

\* confirm_inventory_item_normal, in bulk or for a result "normal"
Confirm(w) ==
    /\ Doing(w, {"observe", "confirm"})
    /\ job[w].kind = "observe" => job[w].status = "normal"
    /\ LET a == job[w].asset it == items[a] IN
         Write(a, [it EXCEPT !.status = "normal", !.at = it.system, !.site = it.systemSite,
                             !.resolution = "not_required"])
    /\ End(w)
    /\ UNCHANGED <<ledger, facilities, task, judged, requests, moves>>

Moved(a, p) ==
    /\ place' = [place EXCEPT ![a] = p]
    /\ assetRev' = [assetRev EXCEPT ![a] = IF place[a] = p THEN @ ELSE @ + 1]

\* resolve_inventory_item
Resolve(w) ==
    /\ Doing(w, {"resolve"})
    /\ LET q == job[w] a == q.asset it == items[a] IN
         /\ Write(a, [it EXCEPT !.resolution = "resolved"])
         /\ judged' = [judged EXCEPT ![a] = <<it.status, it.at>>]
         /\ IF q.action = "update_asset" THEN Moved(a, it.at) ELSE UNCHANGED <<place, assetRev>>
    /\ End(w)
    /\ UNCHANGED <<archived, facilities, task, requests, moves>>

\* create_inventory_task; _inventory_snapshot freezes where each asset is.
CreateTask(w) ==
    /\ Doing(w, {"create"})
    /\ LET q == job[w] IN
         /\ task' = [status |-> "in_progress", scope |-> q.scope, center |-> ScopeCenter(q.scope)]
         /\ items' = [a \in Assets |->
                IF a \in Counted(q, w)
                THEN [system |-> place[a], systemSite |-> Site(place[a]), status |-> "pending",
                      at |-> Unclear, site |-> Site(Unclear), resolution |-> "not_required", rev |-> 1]
                ELSE NoItem]
    /\ End(w)
    /\ UNCHANGED <<ledger, facilities, judged, requests, moves>>

\* change_inventory_task_status
ChangeTask(w) ==
    /\ Doing(w, {"complete", "reopen"})
    /\ task' = [task EXCEPT !.status = IF job[w].kind = "complete" THEN "completed" ELSE "in_progress"]
    /\ End(w)
    /\ UNCHANGED <<ledger, facilities, items, judged, requests, moves>>

\* delete_inventory_task
DeleteTask(w) ==
    /\ Doing(w, {"delete"})
    /\ task' = DeletedTask
    /\ items' = [a \in Assets |-> NoItem]
    /\ End(w)
    /\ UNCHANGED <<ledger, facilities, judged, requests, moves>>

\* archive_asset and restore_asset
Archive(w) ==
    /\ Doing(w, {"archive", "restore"})
    /\ LET a == job[w].asset IN
         /\ archived' = IF job[w].kind = "archive" THEN archived \cup {a} ELSE archived \ {a}
         /\ assetRev' = [assetRev EXCEPT ![a] = @ + 1]
    /\ End(w)
    /\ UNCHANGED <<place, facilities, count, requests, moves>>

\* change_asset_placement, an asset edit: any other write of a place
PlaceAsset(w) ==
    /\ Doing(w, {"place"})
    /\ Moved(job[w].asset, job[w].at)
    /\ End(w)
    /\ UNCHANGED <<archived, facilities, count, requests, moves>>

-----------------------------------------------------------------------------
(* Facility writes, each in one step in which nobody holds its rows.         *)

Mounted(rs) == {a \in Assets : place[a] \in rs}

\* update_rack
MoveRack(r) ==
    \E m \in Rooms \ {roomOf[r]} :
        /\ moves < MaxMoves
        /\ Unlocked({r, m, roomOf[r], centerOf[m], centerOf[roomOf[r]]} \cup Mounted({r}))
        /\ roomOf' = [roomOf EXCEPT ![r] = m]
        /\ moves' = moves + 1
        /\ UNCHANGED <<ledger, centerOf, closed, count, process, requests>>

\* Mutant: a room moves although it is being counted.
RoomIsFree(m) == TRUE

\* _validate_server_room_target_data_center
RoomMayMove(m) == ~(task.status = "in_progress" /\ task.scope = m)

\* update_server_room
MoveRoom(m) ==
    \E c \in Centers \ {centerOf[m]} :
        LET below == {r \in Racks : roomOf[r] = m} IN
        /\ moves < MaxMoves
        /\ Unlocked({m, c, centerOf[m]} \cup below \cup Mounted(below))
        /\ RoomMayMove(m)
        /\ centerOf' = [centerOf EXCEPT ![m] = c]
        /\ moves' = moves + 1
        /\ UNCHANGED <<ledger, roomOf, closed, count, process, requests>>

\* Rack.is_active is cleared
CloseRack(r) ==
    /\ moves < MaxMoves /\ r \notin closed
    /\ Unlocked({r, roomOf[r], centerOf[roomOf[r]]} \cup Mounted({r}))
    /\ closed' = closed \cup {r}
    /\ moves' = moves + 1
    /\ UNCHANGED <<ledger, roomOf, centerOf, count, process, requests>>

-----------------------------------------------------------------------------

Init ==
    /\ place = FirstPlace /\ archived = {} /\ assetRev = [a \in Assets |-> 1]
    /\ roomOf = FirstRoom /\ centerOf = FirstCenter /\ closed = {}
    /\ task = NoTask /\ items = [a \in Assets |-> NoItem]
    /\ judged = [a \in Assets |-> <<"none", Unclear>>]
    /\ job = [w \in Workers |-> Idle] /\ pc = [w \in Workers |-> "idle"]
    /\ held = [w \in Workers |-> {}] /\ seen = [w \in Workers |-> Unread]
    /\ requests = 0 /\ moves = 0

Step(w) ==
    \/ Start(w) \/ ListScope(w) \/ Admit(w) \/ Abort(w)
    \/ Observe(w) \/ Confirm(w) \/ Resolve(w)
    \/ CreateTask(w) \/ ChangeTask(w) \/ DeleteTask(w)
    \/ Archive(w) \/ PlaceAsset(w)

Next ==
    \/ \E w \in Workers : Step(w)
    \/ \E r \in Racks : MoveRack(r) \/ CloseRack(r)
    \/ \E m \in Rooms : MoveRoom(m)

Spec == Init /\ [][Next]_vars

-----------------------------------------------------------------------------
(* Properties                                                                *)

TypeOK ==
    /\ place \in [Assets -> Places] /\ archived \subseteq Assets /\ assetRev \in [Assets -> Nat]
    /\ roomOf \in [Racks -> Rooms] /\ centerOf \in [Rooms -> Centers] /\ closed \subseteq Racks
    /\ task \in [status : {"none", "in_progress", "completed", "deleted"},
                 scope : {"all_assets"} \cup Centers \cup Rooms, center : Centers \cup {Nowhere}]
    /\ items \in [Assets -> Item \cup {NoItem}]
    /\ judged \in [Assets -> (Statuses \cup {"none"}) \X Observable]

\* A completed task has no item left to count.
CompletedIsCounted == task.status = "completed" => \A a \in Members : items[a].status # "pending"

\* An exception is resolved only as it was observed when somebody resolved it.
ResolutionsAreCurrent ==
    \A a \in Members :
        /\ items[a].resolution = "not_required" <=> items[a].status \in {"pending", "normal"}
        /\ items[a].resolution = "resolved" => judged[a] = <<items[a].status, items[a].at>>

\* What is being counted is in the ledger, and a counted room in its center.
OpenTaskStands ==
    task.status = "in_progress" =>
        /\ Members \cap archived = {}
        /\ task.scope \in Rooms => centerOf[task.scope] = task.center

\* Whatever the order in which observations, completions, archivals and moves
\* of rooms commit, a count is complete, its resolutions are about what was
\* seen, and an open task can be finished where it was begun.
CountIsSound == TypeOK /\ CompletedIsCounted /\ ResolutionsAreCurrent /\ OpenTaskStands

Result(it) == <<it.system, it.systemSite, it.status, it.at, it.site>>

\* A task holds what is in its room or center.  An asset that comes back from
\* the archive while the task is created may be missing; none comes back to a room.
ScopeIsCounted(scope, w) ==
    /\ Members' \subseteq InScope(scope)
    /\ scope \in Centers => InScope(scope) \ Members' \subseteq seen[w].away
    /\ scope \in Rooms => InScope(scope) = Members'

\* Results are evidence: a task of a room or a center misses nothing that is in
\* it, what it froze never changes, nothing changes while it is completed, and
\* only a task that nobody has counted is deleted.
EvidenceIsKept ==
    [][/\ \A w \in Workers : CreateTask(w) => ScopeIsCounted(job[w].scope, w)
       /\ \A a \in Members :
        /\ a \in Members' => items'[a].system = items[a].system /\ items'[a].systemSite = items[a].systemSite
        /\ task.status = "completed" => a \in Members' /\ Result(items'[a]) = Result(items[a])
        /\ a \notin Members' => items[a].status = "pending"]_vars

Corrected(a) ==
    \E w \in Workers : Resolve(w) /\ job[w].asset = a /\ job[w].action = "update_asset"

\* A correction of the ledger, however long ago the place was observed, puts
\* the asset into that rack while it still is in that room and carries nobody
\* else; and a result is "normal" only while the frozen rack has not moved.
CorrectionsAreSeen ==
    [][\A a \in Members :
        /\ Corrected(a) =>
              /\ place'[a] = items[a].at
              /\ place'[a] \in Racks =>
                    roomOf[place'[a]] = items[a].site.room /\ \A b \in Assets \ {a} : place[b] # place'[a]
        /\ a \in Members' /\ items'[a].status = "normal" /\ items[a].status # "normal" =>
              (items[a].system \in Racks => roomOf[items[a].system] = items[a].systemSite.room)]_vars

\* The answer to a stale correction is to record the place again; recording
\* it again should then freeze where the rack is now.
RecordingRefreshes ==
    [][\A w \in Workers :
        Observe(w) /\ job[w].at \in Racks /\ job[w].status = "location_mismatch" =>
            items'[job[w].asset].site = Site(job[w].at)]_vars
=============================================================================
