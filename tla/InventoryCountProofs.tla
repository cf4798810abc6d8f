------------------------- MODULE InventoryCountProofs -------------------------
(***************************************************************************)
(* Proofs about inventory counts, for any assets, facilities, requests and *)
(* server processes.                                                       *)
(***************************************************************************)
EXTENDS InventoryCount, TLAPS

TaskJobs == {"complete", "reopen", "delete"}
AssetJobs == {"archive", "restore", "place"}
Corrects(q) == q.kind = "resolve" /\ q.action = "update_asset"
AsFrozen(q) == q.kind = "confirm" \/ (q.kind = "observe" /\ q.status = "normal")

\* What rows are named by.
Row == Assets \cup Racks \cup Rooms \cup Centers \cup {Task}
Reads == [rev : Nat, assetRev : Nat, members : SUBSET Row, away : SUBSET Assets]

Types ==
    /\ TypeOK
    /\ job \in [Workers -> Requests \cup {Idle}]
    /\ pc \in [Workers -> {"idle", "waits", "listed", "checked"}]
    /\ held \in [Workers -> SUBSET Row] /\ seen \in [Workers -> Reads]

Exclusive == \A v, w \in Workers : v # w => held[v] \cap held[w] = {}

\* The task is created once, and what has no task has no items.
Lifecycle ==
    /\ task.status = "none" => task = NoTask
    /\ task.status \in {"none", "deleted"} => Members = {}

\* The stages of a transaction, and when a job of its kind can be under way.
Stages(w) ==
    /\ pc[w] = "idle" => job[w] = Idle
    /\ pc[w] # "idle" => job[w] \in Requests
    /\ pc[w] = "listed" => job[w].kind = "create"
    /\ pc[w] = "listed" /\ job[w].scope \in Rooms \cup Centers => job[w].scope \in held[w]
    /\ pc[w] = "checked" => seen[w].members \subseteq held[w]
    /\ job[w].kind = "create" =>
         task = NoTask /\ \A v \in Workers \ {w} : job[v].kind # "create"
    /\ job[w].kind \in ItemJobs \cup TaskJobs => task # NoTask

\* What the rows a transaction asked for, at its start, are to the tables now.
Asked(w) ==
    LET q == job[w]  rows == seen[w].members IN
    pc[w] # "idle" =>
        /\ q.kind \in ItemJobs => {q.asset, Task} \subseteq rows
        /\ q.kind \in ItemJobs /\ q.asset \in Members =>
             /\ seen[w].rev <= items[q.asset].rev
             /\ AsFrozen(q) /\ items[q.asset].system \in Racks => items[q.asset].system \in rows
             /\ Corrects(q) /\ items[q.asset].rev = seen[w].rev
                  /\ items[q.asset].at \in Racks \cup Centers => items[q.asset].at \in rows
        /\ q.kind \in AssetJobs => q.asset \in rows
        /\ q.kind = "place" /\ q.at \in Racks \cup Centers => q.at \in rows
        /\ q.kind \in TaskJobs =>
             /\ {Task} \cup Members \subseteq rows
             /\ task.scope \in Rooms => task.scope \in rows
        /\ q.kind = "create" /\ q.scope \in Rooms \cup Centers => q.scope \in rows

\* An asset that goes to a rack finds it empty and has its parents locked.
Waiting(w, a, p) ==
    p \in Racks => Parents(p) \subseteq held[w] /\ \A b \in Assets \ {a} : place[b] # p

\* The room of the rack is the one that was frozen.
SameRoom(p, site) == p \in Racks => roomOf[p] = site.room

\* What a transaction has checked stays true until it commits.
Settled(w) ==
    LET q == job[w] IN
    pc[w] = "checked" =>
        /\ q.kind \in ItemJobs => q.asset \in Members /\ q.asset \notin archived
        /\ q.kind \in {"observe", "confirm"} => task.status # "completed"
        /\ AsFrozen(q) => SameRoom(items[q.asset].system, items[q.asset].systemSite)
        /\ q.kind = "resolve" => items[q.asset].status \in Exceptions
        /\ Corrects(q) =>
             LET it == items[q.asset] IN
             /\ it.rev = seen[w].rev /\ it.at # Unclear
             /\ SameRoom(it.at, it.site) /\ Waiting(w, q.asset, it.at)
        /\ q.kind = "place" => q.asset \notin archived /\ Waiting(w, q.asset, q.at)
        /\ q.kind = "archive" =>
             place[q.asset] \notin Racks /\ ~(task.status = "in_progress" /\ q.asset \in Members)
        /\ q.kind = "complete" => MayComplete
        /\ q.kind = "reopen" => MayReopen /\ ScopeStands(task.scope, task.center)
        /\ q.kind = "delete" => MayDelete

\* Where the assets of a scope are, archived or not.
Inside(scope) ==
    {a \in Assets :
        \/ scope \in Rooms /\ place[a] \in Racks \ closed /\ roomOf[place[a]] = scope
        \/ scope \in Centers /\ place[a] = scope
        \/ scope \in Centers /\ place[a] \in Racks \ closed /\ Site(place[a]).center = scope}

\* While a task is created nothing enters its scope.
Counting(w) ==
    job[w].kind = "create" /\ pc[w] \in {"listed", "checked"} =>
        LET s == job[w].scope IN
        /\ s \in Rooms => Inside(s) \subseteq seen[w].members
        /\ s \in Centers => Inside(s) \subseteq seen[w].members \cup seen[w].away

ArchivedAreUnmounted == \A a \in archived : place[a] \notin Racks

CountInv ==
    /\ Types /\ Exclusive /\ Lifecycle /\ ArchivedAreUnmounted
    /\ \A w \in Workers : Stages(w) /\ Asked(w) /\ Settled(w) /\ Counting(w)
    /\ CompletedIsCounted /\ ResolutionsAreCurrent /\ OpenTaskStands

-----------------------------------------------------------------------------
(* Requests and rows                                                         *)

\* What the fields of a request are.
LEMMA RequestFields ==
  ASSUME NEW q \in Requests
  PROVE  /\ q.kind \in ItemJobs \cup AssetJobs \cup TaskJobs \cup {"create"}
         /\ q.kind \in ItemJobs \cup AssetJobs => q.asset \in Assets
         /\ q.kind = "observe" => q.status \in Statuses /\ q.at \in Observable
         /\ q.kind = "place" => q.at \in Places
         /\ q.kind = "create" => q.scope \in {"all_assets"} \cup Centers \cup Rooms
<1>1. q \in AllRequests BY InventoryRequests
<1>2. CASE q \in [kind : {"observe"}, asset : Assets, status : Statuses, at : Observable]
  BY <1>2 DEF ItemJobs, AssetJobs
<1>3. CASE q \in [kind : {"confirm", "archive", "restore"}, asset : Assets]
  BY <1>3 DEF ItemJobs, AssetJobs
<1>4. CASE q \in [kind : {"resolve"}, asset : Assets, action : Resolutions]
  BY <1>4 DEF ItemJobs, AssetJobs
<1>5. CASE q \in [kind : {"place"}, asset : Assets, at : Places]
  BY <1>5 DEF ItemJobs, AssetJobs
<1>6. CASE q \in [kind : {"create"}, scope : {"all_assets"} \cup Centers \cup Rooms]
  BY <1>6 DEF ItemJobs, AssetJobs, TaskJobs
<1>7. CASE q \in [kind : {"complete", "reopen", "delete"}]
  BY <1>7 DEF ItemJobs, AssetJobs, TaskJobs
<1> QED BY <1>1, <1>2, <1>3, <1>4, <1>5, <1>6, <1>7 DEF AllRequests

\* The site of a place.
LEMMA SiteTyped ==
  ASSUME TypeOK, NEW p
  PROVE  Site(p) \in Sites
<1>1. CASE p \in Racks BY <1>1 DEF Site, Sites, TypeOK
<1>2. CASE p \notin Racks BY <1>2 DEF Site, Sites
<1> QED BY <1>1, <1>2

\* The parents of a place are rooms and centers.
LEMMA ParentsTyped ==
  ASSUME TypeOK, NEW p
  PROVE  Parents(p) \subseteq Rooms \cup Centers
<1>1. Site(p) \in Sites BY SiteTyped
<1> QED BY <1>1 DEF Parents, Sites

\* The rows of a location, with the asset and what it goes to.
LEMMA LocationRowsTyped ==
  ASSUME TypeOK, NEW a \in Assets, NEW T
  PROVE  /\ LocationRows(a, T) \subseteq Row
         /\ a \in LocationRows(a, T)
         /\ T \cap (Racks \cup Centers) \subseteq LocationRows(a, T)
<1> DEFINE ps == (T \cup {place[a]}) \cap (Racks \cup Centers)
           above == UNION {Parents(p) : p \in ps}
<1>1. LocationRows(a, T) = {a} \cup ps \cup above BY DEF LocationRows
<1>2. \A p \in ps : Parents(p) \subseteq Rooms \cup Centers BY ParentsTyped
<1>3. above \subseteq Rooms \cup Centers BY <1>2
<1>4. ps \subseteq Racks \cup Centers /\ T \cap (Racks \cup Centers) \subseteq ps OBVIOUS
<1> HIDE DEF ps, above
<1>5. {a} \cup ps \cup above \subseteq Row BY <1>3, <1>4 DEF Row
<1>6. a \in {a} \cup ps \cup above /\ T \cap (Racks \cup Centers) \subseteq {a} \cup ps \cup above
  BY <1>4
<1> QED BY <1>1, <1>5, <1>6

\* What a request on an asset, on the task or for a new task asks for.
LEMMA RowsTyped ==
  ASSUME TypeOK, NEW q \in Requests
  PROVE  /\ Rows(q) \subseteq Row
         /\ q.kind \in ItemJobs => {q.asset, Task} \subseteq Rows(q)
         /\ q.kind \in AssetJobs => q.asset \in Rows(q)
         /\ q.kind \in ItemJobs \cup AssetJobs =>
              Target(q) \cap (Racks \cup Centers) \subseteq Rows(q)
         /\ q.kind \in TaskJobs =>
              /\ {Task} \cup Members \subseteq Rows(q)
              /\ task.scope \in Rooms => task.scope \in Rows(q)
         /\ q.kind = "create" /\ q.scope \in Rooms \cup Centers => q.scope \in Rows(q)
<1>1. CASE q.kind \in ItemJobs
  <2>1. q.asset \in Assets BY <1>1, RequestFields
  <2>2. q.kind \notin TaskJobs /\ q.kind # "create" /\ q.kind \notin AssetJobs
    BY <1>1 DEF ItemJobs, TaskJobs, AssetJobs
  <2>3. Rows(q) = LocationRows(q.asset, Target(q)) \cup {Task}
    BY <1>1, <2>2 DEF Rows, AssetJobs
  <2> QED BY <2>1, <2>2, <2>3, LocationRowsTyped DEF Row
<1>2. CASE q.kind \in AssetJobs
  <2>1. q.asset \in Assets BY <1>2, RequestFields
  <2>2. q.kind \notin ItemJobs /\ q.kind \notin TaskJobs /\ q.kind # "create"
    BY <1>2 DEF ItemJobs, TaskJobs, AssetJobs
  <2>3. Rows(q) = LocationRows(q.asset, Target(q)) BY <1>2, <2>2 DEF Rows, AssetJobs
  <2> QED BY <2>1, <2>2, <2>3, LocationRowsTyped
<1>3. CASE q.kind \in TaskJobs
  <2>1. q.kind \notin ItemJobs /\ q.kind \notin AssetJobs /\ q.kind # "create"
    BY <1>3 DEF ItemJobs, TaskJobs, AssetJobs
  <2>2. Rows(q) = ScopeRows(task.scope, task.center) \cup Members \cup {Task}
    BY <1>3 DEF Rows, ItemJobs, TaskJobs
  <2>3. /\ ScopeRows(task.scope, task.center) \subseteq Row
        /\ task.scope \in Rooms => task.scope \in ScopeRows(task.scope, task.center)
    BY InventoryNames DEF TypeOK, ScopeRows, Row
  <2> QED BY <2>1, <2>2, <2>3 DEF Row, Members
<1>4. CASE q.kind = "create"
  <2>1. q.kind \notin ItemJobs /\ q.kind \notin AssetJobs /\ q.kind \notin TaskJobs
    BY <1>4 DEF ItemJobs, TaskJobs, AssetJobs
  <2>2. Rows(q) = ScopeRows(q.scope, ScopeCenter(q.scope)) BY <1>4, <2>1 DEF Rows
  <2>3. q.scope \in {"all_assets"} \cup Centers \cup Rooms BY <1>4, RequestFields
  <2>4. ScopeCenter(q.scope) \in Centers \cup {Nowhere} BY DEF ScopeCenter, TypeOK
  <2>5. /\ ScopeRows(q.scope, ScopeCenter(q.scope)) \subseteq Row
        /\ q.scope \in Rooms \cup Centers => q.scope \in ScopeRows(q.scope, ScopeCenter(q.scope))
    BY <2>3, <2>4, InventoryNames DEF ScopeRows, Row
  <2> QED BY <1>4, <2>1, <2>2, <2>5
<1> QED BY <1>1, <1>2, <1>3, <1>4, RequestFields

-----------------------------------------------------------------------------
(* Items                                                                     *)

\* A member is an asset with an item.
LEMMA MembersTyped ==
  ASSUME TypeOK
  PROVE  Members \subseteq Assets /\ \A a \in Assets : a \in Members <=> items[a] \in Item
<1>1. NoItem \notin Item BY DEF NoItem, Item, Statuses, Exceptions
<1> QED BY <1>1 DEF Members, TypeOK

\* An item is its fields.
LEMMA ItemFields ==
  ASSUME NEW it \in Item
  PROVE  /\ it = [system |-> it.system, systemSite |-> it.systemSite, status |-> it.status, at |-> it.at,
                  site |-> it.site, resolution |-> it.resolution, rev |-> it.rev]
         /\ it.system \in Places /\ it.systemSite \in Sites /\ it.status \in Statuses
         /\ it.at \in Observable /\ it.site \in Sites /\ it.rev \in Nat
         /\ it.resolution \in {"not_required", "pending", "resolved"}
BY DEF Item

\* An item after a write.
Written(it, status, p, site, res) ==
    [system |-> it.system, systemSite |-> it.systemSite, status |-> status, at |-> p,
     site |-> site, resolution |-> res, rev |-> it.rev + 1]

\* A written item is an item.
LEMMA NextItem ==
  ASSUME NEW it \in Item, NEW s \in Statuses, NEW p \in Observable, NEW site \in Sites,
         NEW r \in {"not_required", "pending", "resolved"}
  PROVE  Written(it, s, p, site, r) \in Item
BY ItemFields DEF Written, Item

\* A job that is checked holds what it asked for.
LEMMA CheckedHolds ==
  ASSUME CountInv, NEW w \in Workers, pc[w] = "checked"
  PROVE  /\ job[w] \in Requests /\ job[w] # Idle /\ seen[w].members \subseteq held[w]
         /\ job[w].kind \in ItemJobs => {job[w].asset, Task} \subseteq held[w]
         /\ job[w].kind \in AssetJobs => job[w].asset \in held[w]
         /\ job[w].kind \in TaskJobs =>
              {Task} \cup Members \subseteq held[w] /\ (task.scope \in Rooms => task.scope \in held[w])
<1>1. Stages(w) /\ Asked(w) /\ Types BY DEF CountInv
<1>2. job[w] \in Requests /\ seen[w].members \subseteq held[w] BY <1>1 DEF Stages
<1>3. job[w] # Idle
  <2>1. job[w].kind \in ItemJobs \cup AssetJobs \cup TaskJobs \cup {"create"}
    BY <1>2, RequestFields
  <2> QED BY <2>1 DEF Idle, ItemJobs, AssetJobs, TaskJobs
<1> QED BY <1>1, <1>2, <1>3 DEF Asked

\* What a write of an item leaves of it.
Revised(a, old, new) ==
    /\ a \in Members /\ old = items[a] /\ old \in Item /\ new \in Item
    /\ items' = [items EXCEPT ![a] = new]
    /\ new.rev = old.rev + 1 /\ new.system = old.system /\ new.systemSite = old.systemSite

\* An observation writes the item of its asset, and never makes it normal.
LEMMA ObserveRevises ==
  ASSUME CountInv, NEW w \in Workers, Observe(w)
  PROVE  LET q == job[w]  old == items[q.asset]  new == items'[q.asset] IN
         /\ Revised(q.asset, old, new)
         /\ new.status = q.status /\ new.status # "normal" /\ new.at = Recorded(q)
         /\ new.resolution = NextResolution(old, q.status, Recorded(q))
<1>1. Types /\ Settled(w) BY DEF CountInv
<1>2. PICK q : q = job[w] OBVIOUS
<1>3. PICK old : old = items[q.asset] OBVIOUS
<1>4. pc[w] = "checked" /\ q.kind = "observe" /\ q.status # "normal" BY <1>2 DEF Observe, Doing
<1>5. q \in Requests BY <1>2, <1>4, CheckedHolds
<1>6. q.asset \in Assets /\ q.status \in Statuses /\ q.at \in Observable
  BY <1>4, <1>5, RequestFields DEF ItemJobs
<1>7. q.asset \in Members BY <1>1, <1>2, <1>4 DEF Settled, ItemJobs
<1>8. old \in Item BY <1>1, <1>3, <1>6, <1>7, MembersTyped DEF Types
<1>9. PICK p : p = Recorded(q) OBVIOUS
<1>10. p \in Observable BY <1>6, <1>9 DEF Recorded, Observable
<1>11. PICK s : s = Frozen(old, q.status, p) OBVIOUS
<1>12. s \in Sites BY <1>1, <1>8, <1>11, SiteTyped DEF Frozen, Item, Types
<1>13. PICK r : r = NextResolution(old, q.status, p) OBVIOUS
<1>14. r \in {"not_required", "pending", "resolved"} BY <1>8, <1>13 DEF NextResolution, Item
<1>15. PICK new : new = Written(old, q.status, p, s, r) OBVIOUS
<1>16. new \in Item BY <1>6, <1>8, <1>10, <1>12, <1>14, <1>15, NextItem
<1>17. new = [[old EXCEPT !.status = q.status, !.at = p, !.site = s, !.resolution = r] EXCEPT !.rev = @ + 1]
  <2>1. PICK x1 : x1 = [old EXCEPT !.status = q.status] OBVIOUS
  <2>2. PICK x2 : x2 = [x1 EXCEPT !.at = p] OBVIOUS
  <2>3. PICK x3 : x3 = [x2 EXCEPT !.site = s] OBVIOUS
  <2>4. PICK x4 : x4 = [x3 EXCEPT !.resolution = r] OBVIOUS
  <2>5. x1 = [system |-> old.system, systemSite |-> old.systemSite, status |-> q.status, at |-> old.at,
             site |-> old.site, resolution |-> old.resolution, rev |-> old.rev]
    BY <1>8, <2>1, ItemFields
  <2>6. x2 = [system |-> old.system, systemSite |-> old.systemSite, status |-> q.status, at |-> p,
             site |-> old.site, resolution |-> old.resolution, rev |-> old.rev]
    BY <2>2, <2>5
  <2>7. x3 = [system |-> old.system, systemSite |-> old.systemSite, status |-> q.status, at |-> p,
             site |-> s, resolution |-> old.resolution, rev |-> old.rev]
    BY <2>3, <2>6
  <2>8. x4 = [system |-> old.system, systemSite |-> old.systemSite, status |-> q.status, at |-> p,
             site |-> s, resolution |-> r, rev |-> old.rev]
    BY <2>4, <2>7
  <2>9. new = [x4 EXCEPT !.rev = @ + 1] BY <2>8, <1>15 DEF Written
  <2> QED BY <2>1, <2>2, <2>3, <2>4, <2>9
<1>18. items' = [items EXCEPT ![q.asset] = new]
  BY <1>2, <1>3, <1>9, <1>11, <1>13, <1>17 DEF Observe, Write
<1>19. items'[q.asset] = new BY <1>1, <1>6, <1>18 DEF Types, TypeOK
<1>20. Revised(q.asset, old, new) BY <1>3, <1>7, <1>8, <1>15, <1>16, <1>18 DEF Revised, Written
<1>21. new.status = q.status /\ new.at = p /\ new.resolution = r BY <1>15 DEF Written
<1> QED BY <1>2, <1>3, <1>4, <1>9, <1>13, <1>19, <1>20, <1>21

\* A confirmation makes the item normal.
LEMMA ConfirmRevises ==
  ASSUME CountInv, NEW w \in Workers, Confirm(w)
  PROVE  LET q == job[w]  old == items[q.asset]  new == items'[q.asset] IN
         /\ Revised(q.asset, old, new) /\ AsFrozen(q)
         /\ new.status = "normal" /\ new.resolution = "not_required"
<1>1. Types /\ Settled(w) BY DEF CountInv
<1>2. PICK q : q = job[w] OBVIOUS
<1>3. PICK old : old = items[q.asset] OBVIOUS
<1>4. pc[w] = "checked" /\ q.kind \in {"observe", "confirm"} /\ AsFrozen(q)
  BY <1>2 DEF Confirm, Doing, AsFrozen
<1>5. q \in Requests BY <1>2, <1>4, CheckedHolds
<1>6. q.asset \in Assets BY <1>4, <1>5, RequestFields DEF ItemJobs
<1>7. q.asset \in Members BY <1>1, <1>2, <1>4 DEF Settled, ItemJobs
<1>8. old \in Item BY <1>1, <1>3, <1>6, <1>7, MembersTyped DEF Types
<1>9. PICK new : new = Written(old, "normal", old.system, old.systemSite, "not_required") OBVIOUS
<1>10. old.system \in Observable /\ old.systemSite \in Sites /\ "normal" \in Statuses
  BY <1>8, ItemFields DEF Observable, Statuses
<1>11. new \in Item BY <1>8, <1>9, <1>10, NextItem
<1>12. new = [[old EXCEPT !.status = "normal", !.at = old.system, !.site = old.systemSite,
                          !.resolution = "not_required"] EXCEPT !.rev = @ + 1]
  <2>1. PICK x1 : x1 = [old EXCEPT !.status = "normal"] OBVIOUS
  <2>2. PICK x2 : x2 = [x1 EXCEPT !.at = old.system] OBVIOUS
  <2>3. PICK x3 : x3 = [x2 EXCEPT !.site = old.systemSite] OBVIOUS
  <2>4. PICK x4 : x4 = [x3 EXCEPT !.resolution = "not_required"] OBVIOUS
  <2>5. x1 = [system |-> old.system, systemSite |-> old.systemSite, status |-> "normal", at |-> old.at,
             site |-> old.site, resolution |-> old.resolution, rev |-> old.rev]
    BY <1>8, <2>1, ItemFields
  <2>6. x2 = [system |-> old.system, systemSite |-> old.systemSite, status |-> "normal", at |-> old.system,
             site |-> old.site, resolution |-> old.resolution, rev |-> old.rev]
    BY <2>2, <2>5
  <2>7. x3 = [system |-> old.system, systemSite |-> old.systemSite, status |-> "normal", at |-> old.system,
             site |-> old.systemSite, resolution |-> old.resolution, rev |-> old.rev]
    BY <2>3, <2>6
  <2>8. x4 = [system |-> old.system, systemSite |-> old.systemSite, status |-> "normal", at |-> old.system,
             site |-> old.systemSite, resolution |-> "not_required", rev |-> old.rev]
    BY <2>4, <2>7
  <2>9. new = [x4 EXCEPT !.rev = @ + 1] BY <2>8, <1>9 DEF Written
  <2> QED BY <2>1, <2>2, <2>3, <2>4, <2>9
<1>13. items' = [items EXCEPT ![q.asset] = new] BY <1>2, <1>3, <1>12 DEF Confirm, Write
<1>14. items'[q.asset] = new BY <1>1, <1>6, <1>13 DEF Types, TypeOK
<1>15. Revised(q.asset, old, new) BY <1>3, <1>7, <1>8, <1>9, <1>11, <1>13 DEF Revised, Written
<1>16. new.status = "normal" /\ new.resolution = "not_required" BY <1>9 DEF Written
<1> QED BY <1>2, <1>3, <1>4, <1>14, <1>15, <1>16

\* A resolution leaves the result and says which observation it judged.
LEMMA ResolveRevises ==
  ASSUME CountInv, NEW w \in Workers, Resolve(w)
  PROVE  LET q == job[w]  old == items[q.asset]  new == items'[q.asset] IN
         /\ Revised(q.asset, old, new)
         /\ new = Written(old, old.status, old.at, old.site, "resolved")
         /\ old.status \in Exceptions
         /\ judged' = [judged EXCEPT ![q.asset] = <<old.status, old.at>>]
<1>1. Types /\ Settled(w) BY DEF CountInv
<1>2. PICK q : q = job[w] OBVIOUS
<1>3. PICK old : old = items[q.asset] OBVIOUS
<1>4. pc[w] = "checked" /\ q.kind = "resolve" BY <1>2 DEF Resolve, Doing
<1>5. q \in Requests BY <1>2, <1>4, CheckedHolds
<1>6. q.asset \in Assets BY <1>4, <1>5, RequestFields DEF ItemJobs
<1>7. q.asset \in Members /\ old.status \in Exceptions BY <1>1, <1>2, <1>3, <1>4 DEF Settled, ItemJobs
<1>8. old \in Item BY <1>1, <1>3, <1>6, <1>7, MembersTyped DEF Types
<1>9. PICK new : new = Written(old, old.status, old.at, old.site, "resolved") OBVIOUS
<1>10. new \in Item BY <1>8, <1>9, ItemFields, NextItem
<1>11. new = [[old EXCEPT !.resolution = "resolved"] EXCEPT !.rev = @ + 1]
  <2>1. PICK x : x = [old EXCEPT !.resolution = "resolved"] OBVIOUS
  <2>2. x = [system |-> old.system, systemSite |-> old.systemSite, status |-> old.status, at |-> old.at,
             site |-> old.site, resolution |-> "resolved", rev |-> old.rev]
    BY <1>8, <2>1, ItemFields
  <2>3. new = [x EXCEPT !.rev = @ + 1] BY <1>9, <2>2 DEF Written
  <2> QED BY <2>1, <2>3
<1>12. items' = [items EXCEPT ![q.asset] = new] BY <1>2, <1>3, <1>11 DEF Resolve, Write
<1>13. items'[q.asset] = new BY <1>1, <1>6, <1>12 DEF Types, TypeOK
<1>14. judged' = [judged EXCEPT ![q.asset] = <<old.status, old.at>>] BY <1>2, <1>3 DEF Resolve
<1>15. Revised(q.asset, old, new) BY <1>3, <1>7, <1>8, <1>9, <1>10, <1>12 DEF Revised, Written
<1> QED BY <1>2, <1>3, <1>7, <1>9, <1>13, <1>14, <1>15

\* A new task has what is listed of its scope, as it stands.
LEMMA CreateMakes ==
  ASSUME CountInv, NEW w \in Workers, CreateTask(w)
  PROVE  LET q == job[w]  new == Counted(q, w) IN
         /\ pc[w] = "checked" /\ q.kind = "create" /\ q \in Requests
         /\ task = NoTask /\ Members = {}
         /\ task' = [status |-> "in_progress", scope |-> q.scope, center |-> ScopeCenter(q.scope)]
         /\ Members' = new /\ new \subseteq held[w] /\ new \subseteq InScope(q.scope)
         /\ items' \in [Assets -> Item \cup {NoItem}]
         /\ \A a \in Members' : items'[a].status = "pending" /\ items'[a].resolution = "not_required"
<1>1. Types /\ Stages(w) /\ Lifecycle BY DEF CountInv
<1>2. PICK q : q = job[w] OBVIOUS
<1>3. pc[w] = "checked" /\ q.kind = "create" BY <1>2 DEF CreateTask, Doing
<1>4. q \in Requests /\ seen[w].members \subseteq held[w] BY <1>2, <1>3, CheckedHolds
<1>5. task = NoTask BY <1>1, <1>2, <1>3 DEF Stages
<1>6. Members = {} BY <1>1, <1>5 DEF Lifecycle, NoTask
<1>7. PICK new : new = Counted(q, w) OBVIOUS
<1>8. new \subseteq held[w] /\ new \subseteq InScope(q.scope) /\ new \subseteq Assets
  BY <1>4, <1>7 DEF Counted, InScope
<1>9. DEFINE fresh(a) == [system |-> place[a], systemSite |-> Site(place[a]), status |-> "pending",
                          at |-> Unclear, site |-> Site(Unclear), resolution |-> "not_required", rev |-> 1]
<1>10. items' = [a \in Assets |-> IF a \in new THEN fresh(a) ELSE NoItem]
  BY <1>2, <1>7 DEF CreateTask
<1>11. ASSUME NEW a \in Assets PROVE fresh(a) \in Item
  <2>1. place[a] \in Places BY <1>1 DEF Types, TypeOK
  <2>2. Site(place[a]) \in Sites /\ Site(Unclear) \in Sites BY <1>1, SiteTyped DEF Types
  <2>3. "pending" \in Statuses /\ Unclear \in Observable BY DEF Statuses, Observable
  <2> QED BY <2>1, <2>2, <2>3 DEF Item
<1>12. NoItem \notin Item BY DEF NoItem, Item, Statuses, Exceptions
<1>13. \A a \in Assets : a \in new => fresh(a) # NoItem BY <1>11, <1>12
<1>14. \A a \in Assets : items'[a] = IF a \in new THEN fresh(a) ELSE NoItem BY <1>10
<1>15. \A a \in Assets : fresh(a).status = "pending" /\ fresh(a).resolution = "not_required" OBVIOUS
<1>16. items' \in [Assets -> Item \cup {NoItem}] BY <1>10, <1>11
<1> HIDE DEF fresh
<1>17. Members' = new BY <1>8, <1>13, <1>14 DEF Members
<1>18. \A a \in new : items'[a].status = "pending" /\ items'[a].resolution = "not_required"
  BY <1>8, <1>14, <1>15
<1>19. task' = [status |-> "in_progress", scope |-> q.scope, center |-> ScopeCenter(q.scope)]
  BY <1>2 DEF CreateTask
<1> QED BY <1>2, <1>3, <1>4, <1>5, <1>6, <1>7, <1>8, <1>16, <1>17, <1>18, <1>19

\* A task that is deleted leaves no items.
LEMMA DeleteMakes ==
  ASSUME CountInv, NEW w \in Workers, DeleteTask(w)
  PROVE  /\ task' = DeletedTask /\ DeletedTask # NoTask /\ Members' = {}
         /\ items' \in [Assets -> Item \cup {NoItem}]
         /\ Task \in held[w] /\ task.status = "in_progress"
         /\ \A a \in Members : items[a].status = "pending"
<1>1. Settled(w) /\ pc[w] = "checked" /\ job[w].kind = "delete"
  BY DEF CountInv, DeleteTask, Doing
<1>2. Task \in held[w] BY <1>1, CheckedHolds DEF TaskJobs
<1>3. MayDelete BY <1>1 DEF Settled
<1>4. task' = DeletedTask /\ items' = [a \in Assets |-> NoItem] BY DEF DeleteTask
<1>5. Members' = {} BY <1>4 DEF Members
<1> QED BY <1>2, <1>3, <1>4, <1>5 DEF MayDelete, DeletedTask, NoTask

\* The transaction is over.
LEMMA EndTyped ==
  ASSUME Types, NEW w \in Workers, End(w)
  PROVE  /\ job' \in [Workers -> Requests \cup {Idle}]
         /\ pc' \in [Workers -> {"idle", "waits", "listed", "checked"}]
         /\ held' \in [Workers -> SUBSET Row] /\ seen' \in [Workers -> Reads]
         /\ job'[w] = Idle /\ pc'[w] = "idle" /\ held'[w] = {}
         /\ \A v \in Workers \ {w} : job'[v] = job[v] /\ pc'[v] = pc[v] /\ held'[v] = held[v] /\ seen'[v] = seen[v]
<1>1. Unread \in Reads BY DEF Unread, Reads
<1> QED BY <1>1 DEF Types, End

-----------------------------------------------------------------------------
(* Types                                                                     *)

\* What a request reads first.
LEMMA StartTyped ==
  ASSUME CountInv, NEW w \in Workers, NEW q \in Requests, Named(q)
  PROVE  [rev |-> IF q.kind \in ItemJobs THEN items[q.asset].rev ELSE 0,
          assetRev |-> IF q.kind \in ItemJobs THEN assetRev[q.asset] ELSE 0,
          members |-> Rows(q), away |-> {}] \in Reads
<1>1. Types BY DEF CountInv
<1>2. Rows(q) \in SUBSET Row BY <1>1, RowsTyped DEF Types
<1>3. q.kind \in ItemJobs => items[q.asset].rev \in Nat /\ assetRev[q.asset] \in Nat
  <2>1. SUFFICES ASSUME q.kind \in ItemJobs PROVE items[q.asset].rev \in Nat /\ assetRev[q.asset] \in Nat
    OBVIOUS
  <2>2. q.asset \in Assets BY <2>1, RequestFields
  <2>3. items[q.asset] \in Item BY <1>1, <2>1, <2>2, MembersTyped DEF Named, Types
  <2> QED BY <1>1, <2>2, <2>3, ItemFields DEF Types, TypeOK
<1> QED BY <1>2, <1>3 DEF Reads

\* A transaction keeps the types.
LEMMA TypesStep == ASSUME CountInv, NEW w \in Workers, Step(w) PROVE Types'
<1>1. Types /\ Stages(w) BY DEF CountInv
<1>2. CASE Start(w)
  <2>1. PICK q \in Requests :
          /\ Named(q) /\ job' = [job EXCEPT ![w] = q] /\ pc' = [pc EXCEPT ![w] = "waits"]
          /\ seen' = [seen EXCEPT ![w] =
               [rev |-> IF q.kind \in ItemJobs THEN items[q.asset].rev ELSE 0,
                assetRev |-> IF q.kind \in ItemJobs THEN assetRev[q.asset] ELSE 0,
                members |-> Rows(q), away |-> {}]]
          /\ UNCHANGED <<ledger, facilities, count, held>>
    BY <1>2 DEF Start
  <2>2. PICK r \in Reads : seen' = [seen EXCEPT ![w] = r] BY <2>1, StartTyped
  <2>3. TypeOK' BY <1>1, <2>1 DEF Types, TypeOK, ledger, facilities, count
  <2>4. /\ job' \in [Workers -> Requests \cup {Idle}] /\ seen' \in [Workers -> Reads]
        /\ pc' \in [Workers -> {"idle", "waits", "listed", "checked"}]
    BY <1>1, <2>1, <2>2 DEF Types
  <2> QED BY <1>1, <2>1, <2>3, <2>4 DEF Types
<1>3. CASE ListScope(w)
  <2>1. PICK r : r = [seen[w] EXCEPT !.members = @ \cup InScope(job[w].scope), !.away = archived] OBVIOUS
  <2>2. r = [rev |-> seen[w].rev, assetRev |-> seen[w].assetRev,
             members |-> seen[w].members \cup InScope(job[w].scope), away |-> archived]
    <3>1. PICK x : x = [seen[w] EXCEPT !.members = @ \cup InScope(job[w].scope)] OBVIOUS
    <3>2. x = [rev |-> seen[w].rev, assetRev |-> seen[w].assetRev,
               members |-> seen[w].members \cup InScope(job[w].scope), away |-> seen[w].away]
      BY <1>1, <3>1 DEF Types, Reads
    <3>3. r = [x EXCEPT !.away = archived] BY <2>1, <3>1
    <3> QED BY <3>2, <3>3
  <2>3. InScope(job[w].scope) \subseteq Row BY DEF InScope, Row
  <2>4. r \in Reads BY <1>1, <2>2, <2>3 DEF Types, TypeOK, Reads
  <2>5. seen' = [seen EXCEPT ![w] = r] BY <1>1, <1>3, <2>1 DEF ListScope, Types, Reads
  <2>6. seen[w].members \in SUBSET Row BY <1>1 DEF Types, Reads
  <2>7. TypeOK' BY <1>1, <1>3 DEF ListScope, Types, TypeOK, ledger, facilities, count
  <2>8. seen' \in [Workers -> Reads] /\ held' \in [Workers -> SUBSET Row]
    BY <1>1, <1>3, <2>4, <2>5, <2>6 DEF ListScope, Types
  <2>9. UNCHANGED job /\ pc' \in [Workers -> {"idle", "waits", "listed", "checked"}]
    BY <1>1, <1>3 DEF ListScope, Types
  <2> QED BY <1>1, <2>7, <2>8, <2>9 DEF Types
<1>4. CASE Admit(w)
  <2>1. Joined(job[w]) \subseteq Row
    <3>1. \A p : Parents(p) \subseteq Rooms \cup Centers BY <1>1, ParentsTyped DEF Types
    <3>2. UNION {Parents(p) : p \in Target(job[w]) \cap Racks} \subseteq Rooms \cup Centers BY <3>1
    <3> QED BY <3>2 DEF Joined, Row
  <2>2. seen[w].members \cup Joined(job[w]) \in SUBSET Row BY <1>1, <2>1 DEF Types, Reads
  <2> QED BY <1>1, <1>4, <2>2 DEF Admit, Types, TypeOK, ledger, facilities, count
<1>5. CASE Abort(w)
  BY <1>1, <1>5, EndTyped DEF Abort, Types, TypeOK, ledger, facilities, count
<1>6. CASE Observe(w) \/ Confirm(w)
  <2>1. PICK a, old, new : Revised(a, old, new) BY <1>6, ObserveRevises, ConfirmRevises
  <2>2. items' \in [Assets -> Item \cup {NoItem}] BY <1>1, <2>1 DEF Revised, Types, TypeOK
  <2>3. End(w) /\ UNCHANGED <<ledger, facilities, task, judged>> BY <1>6 DEF Observe, Confirm
  <2> QED BY <1>1, <2>2, <2>3, EndTyped DEF Types, TypeOK, ledger, facilities
<1>7. CASE Resolve(w)
  <2>1. PICK a, old, new :
          /\ a = job[w].asset /\ Revised(a, old, new)
          /\ old.status \in Exceptions /\ judged' = [judged EXCEPT ![a] = <<old.status, old.at>>]
    BY <1>7, ResolveRevises
  <2>2. items' \in [Assets -> Item \cup {NoItem}] BY <1>1, <2>1 DEF Revised, Types, TypeOK
  <2>3. <<old.status, old.at>> \in (Statuses \cup {"none"}) \X Observable
    BY <2>1, ItemFields DEF Revised
  <2>4. judged' \in [Assets -> (Statuses \cup {"none"}) \X Observable]
    BY <1>1, <2>1, <2>3 DEF Types, TypeOK
  <2>5. End(w) /\ UNCHANGED <<archived, facilities, task>> BY <1>7 DEF Resolve
  <2>6. a \in Assets BY <1>1, <2>1, MembersTyped DEF Revised, Types
  <2>7. place' \in [Assets -> Places] /\ assetRev' \in [Assets -> Nat]
    <3>1. CASE Corrects(job[w])
      <4>1. Moved(a, old.at) BY <1>7, <2>1, <3>1 DEF Resolve, Corrects, Revised
      <4>2. old.at \in Places
        <5>1. Settled(w) /\ pc[w] = "checked" BY <1>7 DEF CountInv, Resolve, Doing
        <5>2. old.at # Unclear BY <2>1, <3>1, <5>1 DEF Settled, Revised
        <5> QED BY <2>1, <5>2, ItemFields DEF Revised, Observable
      <4> QED BY <1>1, <2>6, <4>1, <4>2 DEF Moved, Types, TypeOK
    <3>2. CASE ~Corrects(job[w])
      <4>1. UNCHANGED <<place, assetRev>> BY <1>7, <3>2 DEF Resolve, Corrects, Doing
      <4> QED BY <1>1, <4>1 DEF Types, TypeOK
    <3> QED BY <3>1, <3>2
  <2> QED BY <1>1, <2>2, <2>4, <2>5, <2>7, EndTyped DEF Types, TypeOK, facilities
<1>8. CASE CreateTask(w)
  <2>1. job[w].scope \in {"all_assets"} \cup Centers \cup Rooms BY <1>8, CreateMakes, RequestFields
  <2>2. ScopeCenter(job[w].scope) \in Centers \cup {Nowhere} BY <1>1 DEF ScopeCenter, Types, TypeOK
  <2>3. End(w) /\ UNCHANGED <<ledger, facilities, judged>> BY <1>8 DEF CreateTask
  <2>4. items' \in [Assets -> Item \cup {NoItem}]
        /\ task' = [status |-> "in_progress", scope |-> job[w].scope, center |-> ScopeCenter(job[w].scope)]
    BY <1>8, CreateMakes
  <2> QED BY <1>1, <2>1, <2>2, <2>3, <2>4, EndTyped DEF Types, TypeOK, ledger, facilities
<1>9. CASE ChangeTask(w)
  BY <1>1, <1>9, EndTyped DEF ChangeTask, Types, TypeOK, ledger, facilities
<1>10. CASE DeleteTask(w)
  <2>1. End(w) /\ UNCHANGED <<ledger, facilities, judged>> BY <1>10 DEF DeleteTask
  <2>2. items' \in [Assets -> Item \cup {NoItem}] /\ task' = DeletedTask BY <1>10, DeleteMakes
  <2>3. task' \in [status : {"none", "in_progress", "completed", "deleted"},
                   scope : {"all_assets"} \cup Centers \cup Rooms, center : Centers \cup {Nowhere}]
    BY <2>2 DEF DeletedTask, NoTask
  <2> QED BY <1>1, <2>1, <2>2, <2>3, EndTyped DEF Types, TypeOK, ledger, facilities
<1>11. CASE Archive(w)
  <2>1. job[w].asset \in Assets
    BY <1>11, CheckedHolds, RequestFields DEF Archive, Doing, AssetJobs
  <2> QED BY <1>1, <1>11, <2>1, EndTyped DEF Archive, Types, TypeOK, facilities, count
<1>12. CASE PlaceAsset(w)
  <2>1. job[w].asset \in Assets /\ job[w].at \in Places
    BY <1>12, CheckedHolds, RequestFields DEF PlaceAsset, Doing, AssetJobs
  <2> QED BY <1>1, <1>12, <2>1, EndTyped DEF PlaceAsset, Moved, Types, TypeOK, facilities, count
<1> QED BY <1>2, <1>3, <1>4, <1>5, <1>6, <1>7, <1>8, <1>9, <1>10, <1>11, <1>12 DEF Step

-----------------------------------------------------------------------------
(* What one transaction does to the tables, by the locks that it holds       *)

\* An asset goes nowhere, and neither leaves nor joins the archive, unless the
\* one who does it holds it, and the rack it goes to with its parents.
AssetEffect(w) ==
    /\ \A a \in Assets : place'[a] # place[a] =>
         /\ a \in held[w] /\ a \notin archived /\ a \notin archived'
         /\ place'[a] \in Racks \cup Centers => place'[a] \in held[w]
         /\ Waiting(w, a, place'[a])
    /\ \A a \in archived' \ archived :
         a \in held[w] /\ place[a] \notin Racks /\ ~(task.status = "in_progress" /\ a \in Members)
    /\ \A a \in archived \ archived' : a \in held[w]

\* The task and its items change under the lock of the task, once it is there.
TaskEffect(w) ==
    /\ task = NoTask =>
         \/ UNCHANGED <<task, items>>
         \/ job[w].kind = "create" /\ Members' \subseteq held[w]
    /\ task # NoTask =>
         /\ task' # NoTask /\ Members' \subseteq Members
         /\ Task \notin held[w] => UNCHANGED <<task, items>>
         /\ task' # task => Members \subseteq held[w]
         /\ task'.scope \in Rooms => task'.scope = task.scope
         /\ \A a \in Members' :
              /\ items[a].rev <= items'[a].rev /\ items'[a].system = items[a].system
              /\ items'[a].rev = items[a].rev => items'[a] = items[a]

Effect(w) ==
    /\ UNCHANGED facilities /\ AssetEffect(w) /\ TaskEffect(w)
    /\ \A v \in Workers \ {w} :
         job'[v] = job[v] /\ pc'[v] = pc[v] /\ held'[v] = held[v] /\ seen'[v] = seen[v]

\* A step that moves no asset.
LEMMA NoAssetEffect ==
  ASSUME CountInv, NEW w \in Workers, UNCHANGED <<place, archived>>
  PROVE  AssetEffect(w)
BY DEF AssetEffect

\* A step that leaves the task and its items.
LEMMA NoTaskEffect ==
  ASSUME CountInv, NEW w \in Workers, UNCHANGED <<task, items>>
  PROVE  TaskEffect(w)
<1>1. Members' = Members BY DEF Members
<1>2. \A a \in Members : items[a].rev \in Nat
  BY MembersTyped, ItemFields DEF CountInv, Types
<1> QED BY <1>1, <1>2 DEF TaskEffect

\* A write of an item is under the lock of the task.
LEMMA RevisionEffect ==
  ASSUME CountInv, NEW w \in Workers, NEW a, NEW old, NEW new, Revised(a, old, new),
         UNCHANGED task, Task \in held[w]
  PROVE  TaskEffect(w) /\ Members' = Members
<1>1. Types /\ Lifecycle BY DEF CountInv
<1>2. a \in Assets /\ new # NoItem /\ items[a] # NoItem
  BY <1>1, MembersTyped DEF Revised, Types, Members, NoItem, Item, Statuses, Exceptions
<1>3. items'[a] = new /\ \A b \in Assets \ {a} : items'[b] = items[b]
  BY <1>1, <1>2 DEF Revised, Types, TypeOK
<1>4. Members' = Members BY <1>2, <1>3 DEF Members
<1>5. task # NoTask BY <1>1 DEF Lifecycle, Revised, NoTask
<1>6. \A b \in Members : items[b].rev \in Nat BY <1>1, MembersTyped, ItemFields DEF Types
<1>7. \A b \in Members' :
        /\ items[b].rev <= items'[b].rev /\ items'[b].system = items[b].system
        /\ items'[b].rev = items[b].rev => items'[b] = items[b]
  <2>1. TAKE b \in Members'
  <2>2. CASE b = a BY <1>3, <1>6, <2>2 DEF Revised
  <2>3. CASE b # a BY <1>3, <1>4, <1>6, <2>3 DEF Members
  <2> QED BY <2>2, <2>3
<1> QED BY <1>4, <1>5, <1>7 DEF TaskEffect

\* Every step of a transaction has only the effects its locks allow.
LEMMA StepEffect == ASSUME CountInv, NEW w \in Workers, Step(w) PROVE Effect(w)
<1>1. Types /\ Settled(w) /\ Asked(w) /\ Stages(w) /\ Lifecycle BY DEF CountInv
<1>2. CASE Start(w) \/ ListScope(w) \/ Admit(w) \/ Abort(w)
  <2>1. UNCHANGED <<ledger, facilities, count>> BY <1>2 DEF Start, ListScope, Admit, Abort
  <2>2. AssetEffect(w) /\ TaskEffect(w) BY <2>1, NoAssetEffect, NoTaskEffect DEF ledger, count
  <2>3. \A v \in Workers \ {w} :
          job'[v] = job[v] /\ pc'[v] = pc[v] /\ held'[v] = held[v] /\ seen'[v] = seen[v]
    BY <1>1, <1>2 DEF Start, ListScope, Admit, Abort, End, Types
  <2> QED BY <2>1, <2>2, <2>3 DEF Effect
<1>3. CASE Observe(w) \/ Confirm(w)
  <2>1. PICK a, old, new : Revised(a, old, new) BY <1>3, ObserveRevises, ConfirmRevises
  <2>2. End(w) /\ UNCHANGED <<ledger, facilities, task>> BY <1>3 DEF Observe, Confirm
  <2>3. pc[w] = "checked" /\ job[w].kind \in ItemJobs BY <1>3 DEF Observe, Confirm, Doing, ItemJobs
  <2>4. Task \in held[w] BY <2>3, CheckedHolds
  <2> QED BY <1>1, <2>1, <2>2, <2>4, NoAssetEffect, RevisionEffect, EndTyped DEF Effect, ledger
<1>4. CASE Resolve(w)
  <2>1. PICK a, old, new : a = job[w].asset /\ Revised(a, old, new) BY <1>4, ResolveRevises
  <2>2. End(w) /\ UNCHANGED <<archived, facilities, task>> BY <1>4 DEF Resolve
  <2>3. pc[w] = "checked" /\ job[w].kind = "resolve" /\ job[w].kind \in ItemJobs
    BY <1>4 DEF Resolve, Doing, ItemJobs
  <2>4. Task \in held[w] /\ a \in held[w] /\ seen[w].members \subseteq held[w] BY <2>1, <2>3, CheckedHolds
  <2>5. TaskEffect(w) BY <2>1, <2>2, <2>4, RevisionEffect
  <2>6. a \in Assets /\ a \in Members /\ old = items[a] BY <1>1, <2>1, MembersTyped DEF Revised, Types
  <2>7. AssetEffect(w)
    <3>1. CASE Corrects(job[w])
      <4>1. Moved(a, old.at) BY <1>4, <2>1, <3>1, <2>6 DEF Resolve, Corrects
      <4>2. a \notin archived /\ Waiting(w, a, old.at) /\ old.rev = seen[w].rev
        BY <1>1, <2>1, <2>3, <2>6, <3>1 DEF Settled
      <4>3. old.at \in Racks \cup Centers => old.at \in held[w]
        BY <1>1, <2>1, <2>3, <2>4, <2>6, <3>1, <4>2 DEF Asked
      <4>4. place'[a] = old.at /\ \A b \in Assets \ {a} : place'[b] = place[b]
        BY <1>1, <2>6, <4>1 DEF Moved, Types, TypeOK
      <4> QED BY <2>2, <2>4, <2>6, <4>2, <4>3, <4>4 DEF AssetEffect
    <3>2. CASE ~Corrects(job[w])
      <4>1. UNCHANGED place BY <1>4, <2>3, <3>2 DEF Resolve, Corrects
      <4> QED BY <2>2, <4>1, NoAssetEffect
    <3> QED BY <3>1, <3>2
  <2> QED BY <1>1, <2>2, <2>5, <2>7, EndTyped DEF Effect
<1>5. CASE CreateTask(w)
  <2>1. End(w) /\ UNCHANGED <<ledger, facilities>> BY <1>5 DEF CreateTask
  <2>2. TaskEffect(w) BY <1>5, CreateMakes DEF TaskEffect
  <2> QED BY <1>1, <2>1, <2>2, NoAssetEffect, EndTyped DEF Effect, ledger
<1>6. CASE ChangeTask(w)
  <2>1. End(w) /\ UNCHANGED <<ledger, facilities, items>> BY <1>6 DEF ChangeTask
  <2>2. pc[w] = "checked" /\ job[w].kind \in TaskJobs BY <1>6 DEF ChangeTask, Doing, TaskJobs
  <2>3. {Task} \cup Members \subseteq held[w] /\ task # NoTask BY <1>1, <2>2, CheckedHolds DEF Stages
  <2>4. task'.scope = task.scope /\ task'.status # "none"
    BY <1>1, <1>6 DEF ChangeTask, Types, TypeOK
  <2>5. Members' = Members BY <2>1 DEF Members
  <2>6. \A a \in Members : items[a].rev \in Nat BY <1>1, MembersTyped, ItemFields DEF Types
  <2>7. TaskEffect(w) BY <2>1, <2>3, <2>4, <2>5, <2>6 DEF TaskEffect, NoTask
  <2> QED BY <1>1, <2>1, <2>7, NoAssetEffect, EndTyped DEF Effect, ledger
<1>7. CASE DeleteTask(w)
  <2>1. End(w) /\ UNCHANGED <<ledger, facilities>> BY <1>7 DEF DeleteTask
  <2>2. task' = DeletedTask /\ DeletedTask # NoTask /\ Members' = {} /\ Task \in held[w]
        /\ task.status = "in_progress"
    BY <1>7, DeleteMakes
  <2>3. task'.scope \notin Rooms BY <2>2, InventoryNames DEF DeletedTask, NoTask
  <2>4. Members \subseteq held[w] BY <1>7, CheckedHolds DEF DeleteTask, Doing, TaskJobs
  <2>5. TaskEffect(w) BY <2>2, <2>3, <2>4 DEF TaskEffect, NoTask
  <2> QED BY <1>1, <2>1, <2>5, NoAssetEffect, EndTyped DEF Effect, ledger
<1>8. CASE Archive(w)
  <2>1. End(w) /\ UNCHANGED <<place, facilities, count>> BY <1>8 DEF Archive
  <2>2. pc[w] = "checked" /\ job[w].kind \in {"archive", "restore"} BY <1>8 DEF Archive, Doing
  <2>3. job[w].asset \in held[w] BY <2>2, CheckedHolds DEF AssetJobs
  <2>4. archived' = IF job[w].kind = "archive" THEN archived \cup {job[w].asset} ELSE archived \ {job[w].asset}
    BY <1>8 DEF Archive
  <2>5. job[w].kind = "archive" =>
          place[job[w].asset] \notin Racks /\ ~(task.status = "in_progress" /\ job[w].asset \in Members)
    BY <1>1, <2>2 DEF Settled
  <2>6. AssetEffect(w) BY <2>1, <2>3, <2>4, <2>5 DEF AssetEffect
  <2> QED BY <1>1, <2>1, <2>6, NoTaskEffect, EndTyped DEF Effect, count
<1>9. CASE PlaceAsset(w)
  <2>1. End(w) /\ UNCHANGED <<archived, facilities, count>> BY <1>9 DEF PlaceAsset
  <2>2. PICK q : q = job[w] OBVIOUS
  <2>3. pc[w] = "checked" /\ q.kind = "place" BY <1>9, <2>2 DEF PlaceAsset, Doing
  <2>4. q.asset \in held[w] /\ seen[w].members \subseteq held[w] /\ q.asset \in Assets
    BY <2>2, <2>3, CheckedHolds, RequestFields DEF AssetJobs
  <2>5. q.asset \notin archived /\ Waiting(w, q.asset, q.at) BY <1>1, <2>2, <2>3 DEF Settled
  <2>6. q.at \in Racks \cup Centers => q.at \in held[w] BY <1>1, <2>2, <2>3, <2>4 DEF Asked
  <2>7. place'[q.asset] = q.at /\ \A b \in Assets \ {q.asset} : place'[b] = place[b]
    BY <1>1, <1>9, <2>2, <2>4 DEF PlaceAsset, Moved, Types, TypeOK
  <2>8. AssetEffect(w) BY <2>1, <2>4, <2>5, <2>6, <2>7 DEF AssetEffect
  <2> QED BY <1>1, <2>1, <2>8, NoTaskEffect, EndTyped DEF Effect, count
<1> QED BY <1>2, <1>3, <1>4, <1>5, <1>6, <1>7, <1>8, <1>9 DEF Step

-----------------------------------------------------------------------------
(* The other transactions                                                    *)

\* The stage of another transaction stays what it was.
LEMMA OtherStages ==
  ASSUME CountInv, NEW w \in Workers, NEW v \in Workers \ {w}, Step(w)
  PROVE  Stages(v)'
<1>1. Effect(w) BY StepEffect
<1>2. Stages(v) /\ Stages(w) /\ Types BY DEF CountInv
<1>3. job'[v] = job[v] /\ pc'[v] = pc[v] /\ held'[v] = held[v] /\ seen'[v] = seen[v] BY <1>1 DEF Effect
<1>4. job[v].kind \in ItemJobs \cup TaskJobs => task' # NoTask
  BY <1>1, <1>2 DEF Effect, TaskEffect, Stages
<1>5. job[v].kind = "create" => task' = NoTask /\ \A u \in Workers \ {v} : job'[u].kind # "create"
  <2>1. SUFFICES ASSUME job[v].kind = "create"
                 PROVE  task' = NoTask /\ \A u \in Workers \ {v} : job'[u].kind # "create"
    OBVIOUS
  <2>2. task = NoTask /\ \A u \in Workers \ {v} : job[u].kind # "create" BY <1>2, <2>1 DEF Stages
  <2>3. task' = NoTask BY <1>1, <2>2 DEF Effect, TaskEffect
  <2>4. job'[w].kind # "create"
    <3>1. CASE Start(w)
      <4>1. PICK q \in Requests : Named(q) /\ job' = [job EXCEPT ![w] = q] BY <3>1 DEF Start
      <4>2. q.kind # "create" BY <2>1, <4>1 DEF Named
      <4> QED BY <1>2, <4>1, <4>2 DEF Types
    <3>2. CASE ListScope(w) \/ Admit(w) BY <2>2, <3>2 DEF ListScope, Admit
    <3>3. CASE End(w) BY <1>2, <3>3, EndTyped DEF Idle
    <3> QED BY <3>1, <3>2, <3>3
        DEF Step, Abort, Observe, Confirm, Resolve, CreateTask, ChangeTask, DeleteTask, Archive, PlaceAsset
  <2>5. \A u \in Workers \ {v, w} : job'[u] = job[u] BY <1>1 DEF Effect
  <2> QED BY <2>2, <2>3, <2>4, <2>5
<1> QED BY <1>2, <1>3, <1>4, <1>5 DEF Stages

\* A request that is under way is of a user, and its asset is an asset.
LEMMA JobTyped ==
  ASSUME CountInv, NEW v \in Workers, pc[v] # "idle"
  PROVE  /\ job[v] \in Requests
         /\ job[v].kind \in ItemJobs \cup AssetJobs => job[v].asset \in Assets
BY RequestFields DEF CountInv, Stages

\* What another asked for still covers what it is about.
LEMMA OtherAsked ==
  ASSUME CountInv, NEW w \in Workers, NEW v \in Workers \ {w}, Step(w)
  PROVE  Asked(v)'
<1>1. Effect(w) BY StepEffect
<1>2. Stages(v) /\ Asked(v) /\ Types BY DEF CountInv
<1>3. PICK q : q = job[v] OBVIOUS
<1>4. job'[v] = q /\ pc'[v] = pc[v] /\ seen'[v] = seen[v] BY <1>1, <1>3 DEF Effect
<1>5. SUFFICES ASSUME pc[v] # "idle" PROVE Asked(v)' BY <1>4 DEF Asked
<1>6. q \in Requests BY <1>3, <1>5, JobTyped
<1>7. ASSUME q.kind \in ItemJobs, q.asset \in Members'
      PROVE  LET it == items'[q.asset] IN
             /\ seen[v].rev <= it.rev
             /\ AsFrozen(q) /\ it.system \in Racks => it.system \in seen[v].members
             /\ Corrects(q) /\ it.rev = seen[v].rev /\ it.at \in Racks \cup Centers =>
                  it.at \in seen[v].members
  <2>1. task # NoTask BY <1>2, <1>3, <1>7 DEF Stages
  <2>2. /\ q.asset \in Members /\ items[q.asset].rev <= items'[q.asset].rev
        /\ items'[q.asset].system = items[q.asset].system
        /\ items'[q.asset].rev = items[q.asset].rev => items'[q.asset] = items[q.asset]
    BY <1>1, <1>7, <2>1 DEF Effect, TaskEffect
  <2>3. seen[v].rev \in Nat /\ items[q.asset].rev \in Nat /\ items'[q.asset].rev \in Int
    <3>1. Types' BY TypesStep
    <3>2. items'[q.asset] \in Item
      BY <1>6, <1>7, <3>1, RequestFields DEF Types, TypeOK, Members
    <3> QED BY <1>2, <1>6, <1>7, <2>2, <3>2, RequestFields, MembersTyped, ItemFields DEF Types, Reads
  <2>4. /\ seen[v].rev <= items[q.asset].rev
        /\ AsFrozen(q) /\ items[q.asset].system \in Racks => items[q.asset].system \in seen[v].members
        /\ Corrects(q) /\ items[q.asset].rev = seen[v].rev /\ items[q.asset].at \in Racks \cup Centers =>
             items[q.asset].at \in seen[v].members
    BY <1>2, <1>3, <1>5, <1>7, <2>2 DEF Asked
  <2>5. seen[v].rev <= items'[q.asset].rev BY <2>2, <2>3, <2>4
  <2>6. items'[q.asset].rev = seen[v].rev => items'[q.asset].rev = items[q.asset].rev
    BY <2>2, <2>3, <2>4
  <2> QED BY <2>2, <2>4, <2>5, <2>6
<1>8. ASSUME q.kind \in TaskJobs
      PROVE  {Task} \cup Members' \subseteq seen[v].members
             /\ (task'.scope \in Rooms => task'.scope \in seen[v].members)
  <2>1. task # NoTask BY <1>2, <1>3, <1>8 DEF Stages
  <2>2. Members' \subseteq Members /\ (task'.scope \in Rooms => task'.scope = task.scope)
    BY <1>1, <2>1 DEF Effect, TaskEffect
  <2> QED BY <1>2, <1>3, <1>5, <1>8, <2>2 DEF Asked
<1>9. /\ q.kind \in ItemJobs => {q.asset, Task} \subseteq seen[v].members
      /\ q.kind \in AssetJobs => q.asset \in seen[v].members
      /\ q.kind = "place" /\ q.at \in Racks \cup Centers => q.at \in seen[v].members
      /\ q.kind = "create" /\ q.scope \in Rooms \cup Centers => q.scope \in seen[v].members
  BY <1>2, <1>3, <1>5 DEF Asked
<1> QED BY <1>4, <1>7, <1>8, <1>9 DEF Asked

\* What one holds, another does not move, archive or bring back.
LEMMA HeldStays ==
  ASSUME CountInv, NEW w \in Workers, NEW v \in Workers \ {w}, Step(w)
  PROVE  /\ \A a \in held[v] \cap Assets : place'[a] = place[a] /\ (a \in archived' <=> a \in archived)
         /\ Task \in held[v] /\ task # NoTask => UNCHANGED <<task, items>> /\ Members' = Members
<1>1. Effect(w) /\ held[v] \cap held[w] = {} BY StepEffect DEF CountInv, Exclusive
<1>2. \A a \in held[v] \cap Assets : place'[a] = place[a] /\ (a \in archived' <=> a \in archived)
  BY <1>1 DEF Effect, AssetEffect
<1>3. Task \in held[v] /\ task # NoTask => UNCHANGED <<task, items>>
  BY <1>1 DEF Effect, TaskEffect
<1>4. UNCHANGED items => Members' = Members BY DEF Members
<1> QED BY <1>2, <1>3, <1>4

\* A rack that is held and empty stays empty.
LEMMA WaitingStays ==
  ASSUME CountInv, NEW w \in Workers, NEW v \in Workers \ {w}, Step(w),
         NEW a \in Assets, NEW p, Waiting(v, a, p), p \in Racks => p \in held[v]
  PROVE  Waiting(v, a, p)'
<1>1. Effect(w) /\ held[v] \cap held[w] = {} BY StepEffect DEF CountInv, Exclusive
<1>2. UNCHANGED facilities /\ held'[v] = held[v] BY <1>1 DEF Effect
<1>3. Parents(p)' = Parents(p) BY <1>2 DEF Parents, Site, facilities
<1>4. ASSUME p \in Racks, NEW b \in Assets \ {a} PROVE place'[b] # p
  <2>1. place[b] # p /\ p \notin held[w] BY <1>1, <1>4 DEF Waiting
  <2> QED BY <1>1, <1>4, <2>1 DEF Effect, AssetEffect
<1> QED BY <1>2, <1>3, <1>4 DEF Waiting

\* What another has checked stays true, because it holds the rows.
LEMMA OtherSettled ==
  ASSUME CountInv, NEW w \in Workers, NEW v \in Workers \ {w}, Step(w)
  PROVE  Settled(v)'
<1>1. Effect(w) /\ held[v] \cap held[w] = {} BY StepEffect DEF CountInv, Exclusive
<1>2. Stages(v) /\ Asked(v) /\ Settled(v) /\ Types BY DEF CountInv
<1>3. PICK q : q = job[v] OBVIOUS
<1>4. job'[v] = q /\ pc'[v] = pc[v] /\ seen'[v] = seen[v] /\ held'[v] = held[v] /\ UNCHANGED facilities
  BY <1>1, <1>3 DEF Effect
<1>5. SUFFICES ASSUME pc[v] = "checked" PROVE Settled(v)' BY <1>4 DEF Settled
<1>6. q \in Requests /\ seen[v].members \subseteq held[v] BY <1>3, <1>5, CheckedHolds
<1>7. \A p, site : SameRoom(p, site)' <=> SameRoom(p, site) BY <1>4 DEF SameRoom, facilities
<1>8. CASE q.kind \in ItemJobs
  <2>1. q.asset \in Assets /\ {q.asset, Task} \subseteq held[v] /\ task # NoTask
    BY <1>2, <1>3, <1>5, <1>6, <1>8, CheckedHolds, RequestFields DEF Stages
  <2>2. UNCHANGED <<task, items>> /\ Members' = Members /\ (q.asset \in archived' <=> q.asset \in archived)
    BY <2>1, HeldStays
  <2>3. PICK it : it = items[q.asset] /\ it = items'[q.asset] BY <2>2
  <2>4. ASSUME Corrects(q) PROVE Waiting(v, q.asset, it.at)'
    <3>1. it.rev = seen[v].rev /\ Waiting(v, q.asset, it.at) /\ q.asset \in Members
      BY <1>2, <1>3, <1>5, <1>8, <2>3, <2>4 DEF Settled
    <3>2. it.at \in Racks => it.at \in held[v]
      BY <1>2, <1>3, <1>5, <1>6, <1>8, <2>3, <2>4, <3>1 DEF Asked
    <3> QED BY <2>1, <3>1, <3>2, WaitingStays
  <2>5. q.kind \notin AssetJobs /\ q.kind \notin TaskJobs BY <1>8 DEF ItemJobs, AssetJobs, TaskJobs
  <2>6. /\ q.asset \in Members /\ q.asset \notin archived
        /\ q.kind \in {"observe", "confirm"} => task.status # "completed"
        /\ AsFrozen(q) => SameRoom(it.system, it.systemSite)
        /\ q.kind = "resolve" => it.status \in Exceptions
        /\ Corrects(q) => it.rev = seen[v].rev /\ it.at # Unclear /\ SameRoom(it.at, it.site)
    BY <1>2, <1>3, <1>5, <1>8, <2>3 DEF Settled
  <2>7. AsFrozen(q) => SameRoom(it.system, it.systemSite)' BY <1>7, <2>6
  <2>8. Corrects(q) => SameRoom(it.at, it.site)' BY <1>7, <2>6
  <2> QED BY <1>4, <2>2, <2>3, <2>4, <2>5, <2>6, <2>7, <2>8 DEF Settled, AssetJobs, TaskJobs
<1>9. CASE q.kind \in AssetJobs
  <2>1. q.asset \in Assets /\ q.asset \in held[v]
    BY <1>3, <1>5, <1>6, <1>9, CheckedHolds, RequestFields
  <2>2. place'[q.asset] = place[q.asset] /\ (q.asset \in archived' <=> q.asset \in archived)
    BY <2>1, HeldStays
  <2>3. ASSUME q.kind = "place" PROVE q.asset \notin archived' /\ Waiting(v, q.asset, q.at)'
    <3>1. q.asset \notin archived /\ Waiting(v, q.asset, q.at) BY <1>2, <1>3, <1>5, <2>3 DEF Settled
    <3>2. q.at \in Racks => q.at \in held[v] BY <1>2, <1>3, <1>5, <1>6, <2>3 DEF Asked
    <3> QED BY <2>1, <2>2, <3>1, <3>2, WaitingStays
  <2>4. ASSUME q.kind = "archive"
        PROVE  place'[q.asset] \notin Racks /\ ~(task'.status = "in_progress" /\ q.asset \in Members')
    <3>1. place[q.asset] \notin Racks /\ ~(task.status = "in_progress" /\ q.asset \in Members)
      BY <1>2, <1>3, <1>5, <2>4 DEF Settled
    <3>2. q.asset \notin held[w] BY <1>1, <2>1
    <3>3. UNCHANGED <<task, items>> => Members' = Members BY DEF Members
    <3>4. task = NoTask => ~(task'.status = "in_progress" /\ q.asset \in Members')
      BY <1>1, <3>1, <3>2, <3>3 DEF Effect, TaskEffect
    <3>5. task # NoTask => ~(task'.status = "in_progress" /\ q.asset \in Members')
      BY <1>1, <3>1, <3>2 DEF Effect, TaskEffect
    <3> QED BY <2>2, <3>1, <3>4, <3>5
  <2>5. q.kind \notin ItemJobs /\ q.kind \notin TaskJobs /\ ~AsFrozen(q) /\ ~Corrects(q)
    BY <1>9 DEF ItemJobs, AssetJobs, TaskJobs, AsFrozen, Corrects
  <2> QED BY <1>4, <2>3, <2>4, <2>5 DEF Settled, ItemJobs, TaskJobs
<1>10. CASE q.kind \in TaskJobs
  <2>1. {Task} \cup Members \subseteq held[v] /\ task # NoTask
    BY <1>2, <1>3, <1>5, <1>10, CheckedHolds DEF Stages
  <2>2. UNCHANGED <<task, items>> /\ Members' = Members BY <2>1, HeldStays
  <2>3. Members \subseteq Assets /\ (Members \cap archived)' = Members \cap archived
    BY <1>2, <2>1, <2>2, HeldStays, MembersTyped DEF Types
  <2>4. /\ q.kind = "complete" => MayComplete
        /\ q.kind = "reopen" => MayReopen /\ ScopeStands(task.scope, task.center)
        /\ q.kind = "delete" => MayDelete
    BY <1>2, <1>3, <1>5 DEF Settled
  <2>5. /\ MayComplete => MayComplete'
        /\ MayDelete => MayDelete'
        /\ MayReopen => MayReopen'
    BY <2>2, <2>3 DEF MayComplete, MayDelete, MayReopen
  <2>6. ScopeStands(task.scope, task.center) => ScopeStands(task.scope, task.center)'
    BY <1>4, <2>2 DEF ScopeStands, facilities
  <2>7. q.kind \notin ItemJobs /\ q.kind \notin AssetJobs /\ ~AsFrozen(q) /\ ~Corrects(q)
    BY <1>10 DEF ItemJobs, AssetJobs, TaskJobs, AsFrozen, Corrects
  <2>8. /\ q.kind = "complete" => MayComplete'
        /\ q.kind = "reopen" => MayReopen' /\ ScopeStands(task.scope, task.center)'
        /\ q.kind = "delete" => MayDelete'
    BY <2>4, <2>5, <2>6
  <2>9. q.kind \notin {"observe", "confirm", "resolve", "place", "archive"}
    BY <1>10 DEF TaskJobs
  <2> QED BY <1>4, <2>7, <2>8, <2>9 DEF Settled
<1>11. CASE q.kind = "create"
  BY <1>4, <1>11 DEF Settled, ItemJobs, AsFrozen, Corrects
<1> QED BY <1>6, <1>8, <1>9, <1>10, <1>11, RequestFields

\* A scope that is held alone stays as it is.
LEMMA OtherCounting ==
  ASSUME CountInv, NEW w \in Workers, NEW v \in Workers \ {w}, Step(w)
  PROVE  Counting(v)'
<1>1. Effect(w) /\ held[v] \cap held[w] = {} BY StepEffect DEF CountInv, Exclusive
<1>2. Stages(v) /\ Asked(v) /\ Counting(v) /\ Types BY DEF CountInv
<1>3. PICK s : s = job[v].scope OBVIOUS
<1>4. job'[v] = job[v] /\ pc'[v] = pc[v] /\ seen'[v] = seen[v] /\ UNCHANGED facilities BY <1>1 DEF Effect
<1>5. SUFFICES ASSUME job[v].kind = "create", pc[v] \in {"listed", "checked"}, s \in Rooms \cup Centers
               PROVE  Inside(s)' \subseteq Inside(s)
  BY <1>2, <1>3, <1>4 DEF Counting
<1>6. s \in held[v] BY <1>2, <1>3, <1>5 DEF Stages, Asked
<1>7. s # Nowhere /\ s \notin held[w] BY <1>1, <1>5, <1>6, InventoryNames
<1>8. ASSUME NEW a \in Inside(s)', place'[a] # place[a] PROVE FALSE
  <2>1. PICK p : p = place'[a] OBVIOUS
  <2>2. a \in Assets BY <1>8 DEF Inside
  <2>3. /\ p \in Racks \cup Centers => p \in held[w]
        /\ p \in Racks => Parents(p) \subseteq held[w]
    BY <1>1, <1>8, <2>1, <2>2 DEF Effect, AssetEffect, Waiting
  <2>4. \/ s \in Rooms /\ p \in Racks /\ roomOf[p] = s
        \/ s \in Centers /\ p = s
        \/ s \in Centers /\ p \in Racks /\ Site(p).center = s
    BY <1>4, <1>8, <2>1 DEF Inside, facilities, Site
  <2>5. p \in Racks => Site(p).room = roomOf[p] BY InventoryNames DEF Site
  <2> QED BY <1>7, <2>3, <2>4, <2>5 DEF Parents
<1>9. ASSUME NEW a \in Inside(s)', place'[a] = place[a] PROVE a \in Inside(s)
  BY <1>4, <1>9 DEF Inside, facilities, Site
<1> QED BY <1>8, <1>9

-----------------------------------------------------------------------------
(* The transaction itself                                                    *)

Commits(w) ==
    \/ Abort(w) \/ Observe(w) \/ Confirm(w) \/ Resolve(w)
    \/ CreateTask(w) \/ ChangeTask(w) \/ DeleteTask(w) \/ Archive(w) \/ PlaceAsset(w)

\* A transaction that has ended has nothing left.
LEMMA OwnEnd ==
  ASSUME CountInv, NEW w \in Workers, Commits(w)
  PROVE  Stages(w)' /\ Asked(w)' /\ Settled(w)' /\ Counting(w)'
<1>1. End(w)
  BY DEF Commits, Abort, Observe, Confirm, Resolve, CreateTask, ChangeTask, DeleteTask, Archive, PlaceAsset
<1>2. job'[w] = Idle /\ pc'[w] = "idle" BY <1>1, EndTyped DEF CountInv
<1>3. Idle.kind = "none" BY DEF Idle
<1> QED BY <1>2, <1>3 DEF Stages, Asked, Settled, Counting, ItemJobs, TaskJobs

\* A transaction that starts asks for the rows it needs.
LEMMA OwnStart ==
  ASSUME CountInv, NEW w \in Workers, Start(w)
  PROVE  Stages(w)' /\ Asked(w)' /\ Settled(w)' /\ Counting(w)'
<1>1. Types /\ Lifecycle BY DEF CountInv
<1>2. PICK q \in Requests :
        /\ Named(q) /\ job' = [job EXCEPT ![w] = q] /\ pc' = [pc EXCEPT ![w] = "waits"]
        /\ seen' = [seen EXCEPT ![w] =
             [rev |-> IF q.kind \in ItemJobs THEN items[q.asset].rev ELSE 0,
              assetRev |-> IF q.kind \in ItemJobs THEN assetRev[q.asset] ELSE 0,
              members |-> Rows(q), away |-> {}]]
        /\ UNCHANGED <<ledger, facilities, count, held>>
  BY DEF Start
<1>3. job'[w] = q /\ pc'[w] = "waits" /\ \A v \in Workers \ {w} : job'[v] = job[v]
  BY <1>1, <1>2 DEF Types
<1>4. seen'[w].members = Rows(q) /\ (q.kind \in ItemJobs => seen'[w].rev = items[q.asset].rev)
  BY <1>1, <1>2 DEF Types
<1>5. UNCHANGED <<task, items>> /\ Members' = Members BY <1>2 DEF count, Members
<1>6. Stages(w)'
  <2>1. q.kind = "create" => task = NoTask /\ \A v \in Workers : job[v].kind # "create"
    BY <1>2 DEF Named
  <2>2. q.kind \in ItemJobs \cup TaskJobs => task # NoTask
    <3>1. q.kind \in ItemJobs => Members # {} BY <1>2 DEF Named
    <3>2. q.kind \in TaskJobs => task # NoTask BY <1>2 DEF Named, TaskJobs
    <3>3. task = NoTask => Members = {} BY <1>1 DEF Lifecycle, NoTask
    <3> QED BY <3>1, <3>2, <3>3
  <2> QED BY <1>3, <1>5, <2>1, <2>2 DEF Stages
<1>7. Asked(w)'
  <2>1. /\ q.kind \in ItemJobs => {q.asset, Task} \subseteq Rows(q)
        /\ q.kind \in AssetJobs => q.asset \in Rows(q)
        /\ q.kind \in ItemJobs \cup AssetJobs => Target(q) \cap (Racks \cup Centers) \subseteq Rows(q)
        /\ q.kind \in TaskJobs =>
             {Task} \cup Members \subseteq Rows(q) /\ (task.scope \in Rooms => task.scope \in Rows(q))
        /\ q.kind = "create" /\ q.scope \in Rooms \cup Centers => q.scope \in Rows(q)
    BY <1>1, RowsTyped DEF Types
  <2>2. q.kind = "place" /\ q.at \in Racks \cup Centers => q.at \in Rows(q)
    BY <2>1 DEF Target, AssetJobs
  <2>3. ASSUME q.kind \in ItemJobs, q.asset \in Members
        PROVE  LET it == items[q.asset] IN
               /\ it.rev <= it.rev
               /\ AsFrozen(q) /\ it.system \in Racks => it.system \in Rows(q)
               /\ Corrects(q) /\ it.at \in Racks \cup Centers => it.at \in Rows(q)
    <3>1. items[q.asset].rev \in Nat BY <1>1, <2>3, MembersTyped, ItemFields DEF Types
    <3>2. AsFrozen(q) => Target(q) = {items[q.asset].system} BY DEF AsFrozen, Target
    <3>3. Corrects(q) => Target(q) = {items[q.asset].at} BY DEF Corrects, Target
    <3> QED BY <2>1, <2>3, <3>1, <3>2, <3>3
  <2> QED BY <1>3, <1>4, <1>5, <2>1, <2>2, <2>3 DEF Asked
<1> QED BY <1>3, <1>6, <1>7 DEF Settled, Counting

\* A scope that is locked and listed is listed whole.
LEMMA OwnListScope ==
  ASSUME CountInv, NEW w \in Workers, ListScope(w)
  PROVE  Stages(w)' /\ Asked(w)' /\ Settled(w)' /\ Counting(w)'
<1>1. Types /\ Stages(w) /\ Asked(w) /\ ArchivedAreUnmounted BY DEF CountInv
<1>2. PICK q : q = job[w] OBVIOUS
<1>3. pc[w] = "waits" /\ q.kind = "create" /\ job' = job /\ pc'[w] = "listed" /\ held'[w] = seen[w].members
  BY <1>1, <1>2 DEF ListScope, Types
<1>4. UNCHANGED <<ledger, facilities, count>> BY DEF ListScope
<1>5. seen'[w].members = seen[w].members \cup InScope(q.scope) /\ seen'[w].away = archived
  BY <1>1, <1>2 DEF ListScope, Types, Reads
<1>6. q.scope \in Rooms \cup Centers => q.scope \in seen[w].members BY <1>1, <1>2, <1>3 DEF Asked
<1>7. Stages(w)' BY <1>1, <1>2, <1>3, <1>4, <1>6 DEF Stages, count, ItemJobs, TaskJobs
<1>8. Asked(w)'
  BY <1>2, <1>3, <1>5, <1>6 DEF Asked, ItemJobs, TaskJobs, AssetJobs, AsFrozen, Corrects
<1>9. Counting(w)'
  <2>1. Inside(q.scope)' = Inside(q.scope) BY <1>4 DEF Inside, Site, ledger, facilities
  <2>2. Inside(q.scope) \subseteq InScope(q.scope) \cup archived BY DEF Inside, InScope
  <2>3. q.scope \in Rooms => Inside(q.scope) \subseteq InScope(q.scope)
    <3>1. q.scope \in Rooms => q.scope \notin Centers BY InventoryNames
    <3>2. q.scope \in Rooms => \A a \in Inside(q.scope) : place[a] \in Racks BY <3>1 DEF Inside
    <3> QED BY <1>1, <2>2, <3>2 DEF ArchivedAreUnmounted
  <2> QED BY <1>2, <1>3, <1>5, <2>1, <2>2, <2>3 DEF Counting
<1> QED BY <1>3, <1>7, <1>8, <1>9 DEF Settled

\* What is checked under the locks is what is settled.
LEMMA OwnAdmit ==
  ASSUME CountInv, NEW w \in Workers, Admit(w)
  PROVE  Stages(w)' /\ Asked(w)' /\ Settled(w)' /\ Counting(w)'
<1>1. Types /\ Stages(w) /\ Asked(w) /\ Counting(w) BY DEF CountInv
<1>2. PICK q : q = job[w] OBVIOUS
<1>3. /\ job' = job /\ seen' = seen /\ pc'[w] = "checked" /\ pc[w] # "idle"
      /\ held'[w] = seen[w].members \cup Joined(q)
      /\ q.kind = "create" => pc[w] = "listed"
  BY <1>1, <1>2 DEF Admit, Types
<1>4. UNCHANGED <<ledger, facilities, count>> BY DEF Admit
<1>5. Members' = Members BY <1>4 DEF count, Members
<1>6. Stages(w)' BY <1>1, <1>2, <1>3, <1>4 DEF Stages, count
<1>7. Asked(w)' BY <1>1, <1>2, <1>3, <1>4, <1>5 DEF Asked, count
<1>8. Counting(w)'
  <2>1. \A s : Inside(s)' = Inside(s) BY <1>4 DEF Inside, Site, ledger, facilities
  <2> QED BY <1>1, <1>2, <1>3, <2>1 DEF Counting
<1>9. q \in Requests BY <1>1, <1>2, <1>3 DEF Stages
<1>10. Allowed(q, w) BY <1>2 DEF Admit
<1>11. \A a, p : Fits(a, p) /\ (p \in Racks => Parents(p) \subseteq Joined(q)) => Waiting(w, a, p)'
  <2>1. TAKE a, p
  <2>2. SUFFICES ASSUME Fits(a, p), p \in Racks, Parents(p) \subseteq Joined(q)
                 PROVE  Parents(p)' \subseteq held'[w] /\ \A b \in Assets \ {a} : place'[b] # p
    BY DEF Waiting
  <2>3. Parents(p)' = Parents(p) /\ UNCHANGED place
    BY <1>4 DEF Parents, Site, ledger, facilities
  <2> QED BY <1>3, <2>2, <2>3 DEF Fits
<1>12. ASSUME q.kind = "place" \/ Corrects(q), NEW p \in Target(q), p \in Racks
       PROVE  Parents(p) \subseteq Joined(q)
  BY <1>12 DEF Joined, Corrects
<1>13. CASE q.kind \in ItemJobs
  <2>1. PICK it : it = items[q.asset] OBVIOUS
  <2>2. q.kind \notin AssetJobs /\ q.kind \notin TaskJobs /\ q.kind # "create"
    BY <1>13 DEF ItemJobs, AssetJobs, TaskJobs
  <2>3. AllowedItem(q, w) BY <1>10, <1>13, <2>2 DEF Allowed, TaskJobs, AssetJobs
  <2>4. q.asset \in Members /\ q.asset \notin archived BY <2>3 DEF AllowedItem
  <2>5. /\ q.kind = "observe" => MayRecord(q, it, w)
        /\ q.kind = "confirm" => MayConfirm(it)
        /\ q.kind = "resolve" => MayResolve(q, it, w)
    BY <2>1, <2>3 DEF AllowedItem
  <2>6. q.kind \in {"observe", "confirm"} => task.status # "completed"
    BY <2>5 DEF MayRecord, MayConfirm
  <2>7. \A p \in Racks : Site(p).room = roomOf[p] BY InventoryNames DEF Site
  <2>8. AsFrozen(q) => SameRoom(it.system, it.systemSite)
    BY <2>5, <2>7 DEF AsFrozen, MayRecord, MayConfirm, SnapshotHolds, SameRoom
  <2>9. q.kind = "resolve" => it.status \in Exceptions BY <2>5 DEF MayResolve
  <2>10. ASSUME Corrects(q)
         PROVE  /\ it.rev = seen[w].rev /\ it.at # Unclear /\ SameRoom(it.at, it.site)
                /\ Waiting(w, q.asset, it.at)'
    <3>1. /\ it.rev = seen[w].rev /\ it.at # Unclear /\ Fits(q.asset, it.at)
          /\ it.at \in Racks => Site(it.at) = it.site
      BY <2>5, <2>10 DEF Corrects, MayResolve
    <3>2. it.at \in Target(q) BY <2>1, <2>10 DEF Corrects, Target
    <3>3. Waiting(w, q.asset, it.at)' BY <1>11, <1>12, <2>10, <3>1, <3>2
    <3> QED BY <2>7, <3>1, <3>3 DEF SameRoom
  <2>11. \A p, site : SameRoom(p, site)' <=> SameRoom(p, site) BY <1>4 DEF SameRoom, facilities
  <2>12. AsFrozen(q) => SameRoom(it.system, it.systemSite)' BY <2>8, <2>11
  <2>13. Corrects(q) => SameRoom(it.at, it.site)' BY <2>10, <2>11
  <2>14. UNCHANGED <<task, items, archived>> BY <1>4 DEF count, ledger
  <2>15. q.kind \notin {"place", "archive", "complete", "reopen", "delete"}
    BY <2>2 DEF AssetJobs, TaskJobs
  <2>16. Settled(w)'
    BY <1>2, <1>3, <1>5, <2>1, <2>4, <2>6, <2>9, <2>10, <2>12, <2>13, <2>14, <2>15 DEF Settled
  <2> QED BY <1>6, <1>7, <1>8, <2>16
<1>14. CASE q.kind \in AssetJobs
  <2>1. q.kind \notin ItemJobs /\ q.kind \notin TaskJobs /\ q.kind # "create" /\ ~AsFrozen(q) /\ ~Corrects(q)
    BY <1>14 DEF ItemJobs, AssetJobs, TaskJobs, AsFrozen, Corrects
  <2>2. AllowedAsset(q) BY <1>10, <2>1 DEF Allowed, TaskJobs
  <2>3. ASSUME q.kind = "place" PROVE q.asset \notin archived /\ Waiting(w, q.asset, q.at)'
    <3>1. q.asset \notin archived /\ Fits(q.asset, q.at) BY <2>2, <2>3 DEF AllowedAsset
    <3>2. q.at \in Target(q) BY <2>3 DEF Target
    <3> QED BY <1>11, <1>12, <2>3, <3>1, <3>2
  <2>4. q.kind = "archive" =>
          place[q.asset] \notin Racks /\ ~(task.status = "in_progress" /\ q.asset \in Members)
    BY <2>2 DEF AllowedAsset, MayArchive
  <2>5. UNCHANGED <<task, place, archived>> BY <1>4 DEF count, ledger
  <2>6. q.kind \notin {"observe", "confirm", "resolve", "complete", "reopen", "delete"}
    BY <2>1 DEF ItemJobs, TaskJobs
  <2>7. Settled(w)' BY <1>2, <1>3, <1>5, <2>1, <2>3, <2>4, <2>5, <2>6 DEF Settled
  <2> QED BY <1>6, <1>7, <1>8, <2>7
<1>15. CASE q.kind \in TaskJobs
  <2>1. q.kind \notin ItemJobs /\ q.kind \notin AssetJobs /\ q.kind # "create" /\ ~AsFrozen(q) /\ ~Corrects(q)
    BY <1>15 DEF ItemJobs, AssetJobs, TaskJobs, AsFrozen, Corrects
  <2>2. AllowedTask(q) BY <1>10, <2>1 DEF Allowed, AssetJobs
  <2>3. /\ q.kind = "complete" => MayComplete
        /\ q.kind = "reopen" => MayReopen /\ ScopeStands(task.scope, task.center)
        /\ q.kind = "delete" => MayDelete
    BY <2>2 DEF AllowedTask
  <2>4. /\ MayComplete => MayComplete'
        /\ MayDelete => MayDelete'
        /\ MayReopen => MayReopen'
        /\ ScopeStands(task.scope, task.center) => ScopeStands(task.scope, task.center)'
    BY <1>4, <1>5 DEF MayComplete, MayDelete, MayReopen, ScopeStands, count, ledger, facilities
  <2>5. /\ q.kind = "complete" => MayComplete'
        /\ q.kind = "reopen" => MayReopen' /\ ScopeStands(task.scope, task.center)'
        /\ q.kind = "delete" => MayDelete'
    BY <2>3, <2>4
  <2>6. q.kind \notin {"observe", "confirm", "resolve", "place", "archive"}
    BY <2>1 DEF ItemJobs, AssetJobs
  <2>7. Settled(w)' BY <1>2, <1>3, <2>1, <2>5, <2>6 DEF Settled
  <2> QED BY <1>6, <1>7, <1>8, <2>7
<1>16. CASE q.kind = "create"
  <2>1. Settled(w)' BY <1>2, <1>3, <1>16 DEF Settled, ItemJobs, AsFrozen, Corrects
  <2> QED BY <1>6, <1>7, <1>8, <2>1
<1> QED BY <1>9, <1>13, <1>14, <1>15, <1>16, RequestFields

\* Nobody takes a row that another holds.
LEMMA ExclusiveStep == ASSUME CountInv, NEW w \in Workers, Step(w) PROVE Exclusive'
<1>1. Exclusive /\ Types /\ Effect(w) BY StepEffect DEF CountInv
<1>2. \A v \in Workers \ {w} : held'[v] = held[v] BY <1>1 DEF Effect
<1>3. \A v \in Workers \ {w} : held'[w] \cap held[v] = {}
  <2>1. CASE Start(w) BY <1>1, <2>1 DEF Start, Exclusive
  <2>2. CASE ListScope(w) BY <1>1, <2>2 DEF ListScope, Free, Types
  <2>3. CASE Admit(w)
    <3>1. /\ held'[w] = seen[w].members \cup Joined(job[w])
          /\ Free(seen[w].members, w) /\ Free(Joined(job[w]), w)
      BY <1>1, <2>3 DEF Admit, Types
    <3> QED BY <3>1 DEF Free
  <2>4. CASE End(w) BY <1>1, <2>4, EndTyped
  <2> QED BY <2>1, <2>2, <2>3, <2>4
      DEF Step, Abort, Observe, Confirm, Resolve, CreateTask, ChangeTask, DeleteTask, Archive, PlaceAsset
<1> QED BY <1>1, <1>2, <1>3 DEF Exclusive

-----------------------------------------------------------------------------
(* The results                                                               *)

Results == Lifecycle /\ ArchivedAreUnmounted /\ CompletedIsCounted /\ ResolutionsAreCurrent /\ OpenTaskStands

\* A write of one item leaves the others and the membership alone.
LEMMA RevisedItems ==
  ASSUME CountInv, NEW w \in Workers, NEW a, NEW old, NEW new, Revised(a, old, new),
         UNCHANGED task, Task \in held[w]
  PROVE  /\ a \in Assets /\ Members' = Members
         /\ items'[a] = new /\ \A b \in Assets \ {a} : items'[b] = items[b]
<1>1. Types BY DEF CountInv
<1>2. a \in Assets BY <1>1, MembersTyped DEF Revised, Types
<1>3. items'[a] = new /\ \A b \in Assets \ {a} : items'[b] = items[b]
  BY <1>1, <1>2 DEF Revised, Types, TypeOK
<1> QED BY <1>2, <1>3, RevisionEffect

\* A transaction leaves results that are whole and current.
LEMMA ResultsStep == ASSUME CountInv, NEW w \in Workers, Step(w) PROVE Results'
<1>1. Types /\ Settled(w) /\ Results /\ Effect(w) BY StepEffect DEF CountInv, Results
<1>2. UNCHANGED facilities /\ AssetEffect(w) BY <1>1 DEF Effect
<1>3. ArchivedAreUnmounted'
  <2>1. archived' \subseteq Assets BY TypesStep DEF Types, TypeOK
  <2>2. ASSUME NEW a \in archived' PROVE place'[a] = place[a] /\ place[a] \notin Racks
    <3>1. place'[a] = place[a] BY <1>2, <2>1, <2>2 DEF AssetEffect
    <3>2. CASE a \in archived BY <1>1, <3>1, <3>2 DEF Results, ArchivedAreUnmounted
    <3>3. CASE a \notin archived BY <1>2, <2>2, <3>1, <3>3 DEF AssetEffect
    <3> QED BY <3>1, <3>2, <3>3
  <2> QED BY <2>2 DEF ArchivedAreUnmounted
<1>4. ASSUME UNCHANGED <<task, archived>>, Members' = Members PROVE OpenTaskStands' /\ Lifecycle'
  BY <1>1, <1>2, <1>4 DEF Results, OpenTaskStands, Lifecycle, facilities
<1>5. CASE UNCHANGED count
  <2>1. UNCHANGED <<task, items, judged>> BY <1>5 DEF count
  <2>2. Members' = Members BY <2>1 DEF Members
  <2>3. OpenTaskStands'
    BY <1>1, <1>2, <2>1, <2>2 DEF Results, OpenTaskStands, AssetEffect, facilities
  <2>4. Lifecycle' /\ CompletedIsCounted' /\ ResolutionsAreCurrent'
    BY <1>1, <2>1, <2>2 DEF Results, Lifecycle, CompletedIsCounted, ResolutionsAreCurrent
  <2> QED BY <1>3, <2>3, <2>4 DEF Results
<1>6. CASE Observe(w) \/ Confirm(w)
  <2>1. PICK a, old, new :
          /\ Revised(a, old, new)
          /\ \/ /\ new.resolution = NextResolution(old, new.status, new.at)
             \/ new.status = "normal" /\ new.resolution = "not_required"
    <3>1. CASE Observe(w) BY <3>1, ObserveRevises
    <3>2. CASE Confirm(w) BY <3>2, ConfirmRevises
    <3> QED BY <1>6, <3>1, <3>2
  <2>2. UNCHANGED <<task, judged, archived>> BY <1>6 DEF Observe, Confirm, ledger
  <2>3. pc[w] = "checked" /\ job[w].kind \in {"observe", "confirm"} BY <1>6 DEF Observe, Confirm, Doing
  <2>4. Task \in held[w] BY <2>3, CheckedHolds DEF ItemJobs
  <2>5. /\ a \in Assets /\ Members' = Members /\ items'[a] = new
        /\ \A b \in Assets \ {a} : items'[b] = items[b]
    BY <2>1, <2>2, <2>4, RevisedItems
  <2>6. CompletedIsCounted' BY <1>1, <2>2, <2>3 DEF Settled, CompletedIsCounted
  <2>7. /\ new.resolution = "not_required" <=> new.status \in {"pending", "normal"}
        /\ new.resolution = "resolved" => judged[a] = <<new.status, new.at>>
    <3>1. /\ old.resolution = "not_required" <=> old.status \in {"pending", "normal"}
          /\ old.resolution = "resolved" => judged[a] = <<old.status, old.at>>
      BY <1>1, <2>1 DEF Results, ResolutionsAreCurrent, Revised
    <3> QED BY <2>1, <3>1 DEF NextResolution
  <2>8. ResolutionsAreCurrent'
    <3>1. ASSUME NEW b \in Members, b # a PROVE items'[b] = items[b]
      BY <2>5, <3>1 DEF Members
    <3> QED BY <1>1, <2>2, <2>5, <2>7, <3>1 DEF Results, ResolutionsAreCurrent
  <2> QED BY <1>3, <1>4, <2>2, <2>5, <2>6, <2>8 DEF Results
<1>7. CASE Resolve(w)
  <2>1. PICK a, old, new :
          /\ Revised(a, old, new) /\ new = Written(old, old.status, old.at, old.site, "resolved")
          /\ old.status \in Exceptions /\ judged' = [judged EXCEPT ![a] = <<old.status, old.at>>]
    BY <1>7, ResolveRevises
  <2>2. UNCHANGED <<task, archived>> BY <1>7 DEF Resolve
  <2>3. Task \in held[w] BY <1>7, CheckedHolds DEF Resolve, Doing, ItemJobs
  <2>4. /\ a \in Assets /\ Members' = Members /\ items'[a] = new
        /\ \A b \in Assets \ {a} : items'[b] = items[b]
    BY <2>1, <2>2, <2>3, RevisedItems
  <2>5. new.status = old.status /\ new.at = old.at /\ new.resolution = "resolved" BY <2>1 DEF Written
  <2>6. judged'[a] = <<new.status, new.at>> /\ \A b \in Assets \ {a} : judged'[b] = judged[b]
    BY <1>1, <2>1, <2>4, <2>5 DEF Types, TypeOK
  <2>7. \A b \in Members : b = a \/ (b \in Assets \ {a} /\ items'[b] = items[b])
    BY <2>4 DEF Members
  <2>8. a \in Members /\ old = items[a] BY <2>1 DEF Revised
  <2>9. CompletedIsCounted'
    BY <1>1, <2>1, <2>2, <2>4, <2>5, <2>7, <2>8 DEF Results, CompletedIsCounted
  <2>10. ResolutionsAreCurrent'
    BY <1>1, <2>1, <2>4, <2>5, <2>6, <2>7 DEF Results, ResolutionsAreCurrent, Exceptions
  <2> QED BY <1>3, <1>4, <2>2, <2>4, <2>9, <2>10 DEF Results
<1>8. CASE CreateTask(w)
  <2>1. PICK q : q = job[w] OBVIOUS
  <2>2. /\ Members' \subseteq InScope(q.scope)
        /\ task' = [status |-> "in_progress", scope |-> q.scope, center |-> ScopeCenter(q.scope)]
        /\ \A a \in Members' : items'[a].status = "pending" /\ items'[a].resolution = "not_required"
    BY <1>8, <2>1, CreateMakes
  <2>3. UNCHANGED <<archived, centerOf>> BY <1>8 DEF CreateTask, ledger, facilities
  <2>4. Members' \cap archived' = {} BY <2>2, <2>3 DEF InScope
  <2>5. q.scope \in Rooms => ScopeCenter(q.scope) = centerOf'[q.scope] BY <2>3 DEF ScopeCenter
  <2>6. OpenTaskStands' BY <2>2, <2>4, <2>5 DEF OpenTaskStands
  <2> QED BY <1>3, <2>2, <2>6 DEF Results, Lifecycle, CompletedIsCounted, ResolutionsAreCurrent
<1>9. CASE ChangeTask(w)
  <2>1. UNCHANGED <<items, judged, archived, centerOf>> BY <1>9 DEF ChangeTask, ledger, facilities
  <2>2. Members' = Members BY <2>1 DEF Members
  <2>3. /\ task'.status = IF job[w].kind = "complete" THEN "completed" ELSE "in_progress"
        /\ task'.scope = task.scope /\ task'.center = task.center
    BY <1>1, <1>9 DEF ChangeTask, Types, TypeOK
  <2>4. /\ job[w].kind = "complete" => MayComplete
        /\ job[w].kind # "complete" => MayReopen /\ ScopeStands(task.scope, task.center)
    BY <1>1, <1>9 DEF ChangeTask, Doing, Settled
  <2>5. CompletedIsCounted' BY <2>1, <2>2, <2>3, <2>4 DEF CompletedIsCounted, MayComplete
  <2>6. OpenTaskStands' BY <2>1, <2>2, <2>3, <2>4 DEF OpenTaskStands, MayReopen, ScopeStands
  <2>7. ResolutionsAreCurrent' BY <1>1, <2>1, <2>2 DEF Results, ResolutionsAreCurrent
  <2> QED BY <1>3, <2>3, <2>5, <2>6, <2>7 DEF Results, Lifecycle
<1>10. CASE DeleteTask(w)
  <2>1. task' = DeletedTask /\ Members' = {} BY <1>10, DeleteMakes
  <2>2. task'.status = "deleted" BY <2>1 DEF DeletedTask, NoTask
  <2> QED BY <1>3, <2>1, <2>2
      DEF Results, Lifecycle, CompletedIsCounted, ResolutionsAreCurrent, OpenTaskStands
<1> QED BY <1>5, <1>6, <1>7, <1>8, <1>9, <1>10 DEF Step, Start, ListScope, Admit, Abort, Archive, PlaceAsset

-----------------------------------------------------------------------------
(* Facility writes                                                           *)

\* A rack or a room that moves is held by nobody, nor is what it moves to; and
\* a room that is being counted does not move.
FacilityEffect ==
    /\ UNCHANGED <<ledger, count, process>>
    /\ roomOf' \in [Racks -> Rooms] /\ centerOf' \in [Rooms -> Centers]
    /\ closed \subseteq closed' /\ closed' \subseteq Racks
    /\ \A p \in Racks : roomOf'[p] # roomOf[p] => Unlocked({p, roomOf'[p], centerOf'[roomOf'[p]]})
    /\ \A m \in Rooms : centerOf'[m] # centerOf[m] => Unlocked({m, centerOf'[m]}) /\ RoomMayMove(m)

\* Moves of racks and rooms and closures have this effect only.
LEMMA FacilitiesEffect ==
  ASSUME CountInv,
         (\E r \in Racks : MoveRack(r) \/ CloseRack(r)) \/ (\E n \in Rooms : MoveRoom(n))
  PROVE  FacilityEffect
<1>1. Types BY DEF CountInv
<1>2. roomOf \in [Racks -> Rooms] /\ centerOf \in [Rooms -> Centers] /\ closed \subseteq Racks
  BY <1>1 DEF Types, TypeOK
<1>3. ASSUME NEW r \in Racks, MoveRack(r) PROVE FacilityEffect
  <2>1. PICK m \in Rooms :
          /\ Unlocked({r, m, roomOf[r], centerOf[m], centerOf[roomOf[r]]} \cup Mounted({r}))
          /\ roomOf' = [roomOf EXCEPT ![r] = m]
          /\ UNCHANGED <<ledger, centerOf, closed, count, process>>
    BY <1>3 DEF MoveRack
  <2>2. Unlocked({r, m, centerOf[m]}) BY <2>1 DEF Unlocked
  <2>3. roomOf' \in [Racks -> Rooms] /\ roomOf'[r] = m /\ \A p \in Racks \ {r} : roomOf'[p] = roomOf[p]
    BY <1>2, <2>1
  <2> QED BY <1>2, <2>1, <2>2, <2>3 DEF FacilityEffect
<1>4. ASSUME NEW r \in Racks, CloseRack(r) PROVE FacilityEffect
  BY <1>2, <1>4 DEF CloseRack, FacilityEffect
<1>5. ASSUME NEW n \in Rooms, MoveRoom(n) PROVE FacilityEffect
  <2>1. PICK c \in Centers :
          /\ Unlocked({n, c, centerOf[n]} \cup {p \in Racks : roomOf[p] = n}
                      \cup Mounted({p \in Racks : roomOf[p] = n}))
          /\ RoomMayMove(n) /\ centerOf' = [centerOf EXCEPT ![n] = c]
          /\ UNCHANGED <<ledger, roomOf, closed, count, process>>
    BY <1>5 DEF MoveRoom
  <2>2. Unlocked({n, c}) BY <2>1 DEF Unlocked
  <2>3. centerOf' \in [Rooms -> Centers] /\ centerOf'[n] = c /\ \A m \in Rooms \ {n} : centerOf'[m] = centerOf[m]
    BY <1>2, <2>1
  <2> QED BY <1>2, <2>1, <2>2, <2>3 DEF FacilityEffect
<1> QED BY <1>3, <1>4, <1>5

\* A facility write keeps the invariant: what it changes is held by nobody.
LEMMA FacilityStep == ASSUME CountInv, FacilityEffect PROVE CountInv'
<1>1. Types /\ Exclusive /\ Results BY DEF CountInv, Results
<1>2. UNCHANGED <<place, archived, assetRev, task, items, judged, job, pc, held, seen>>
  BY DEF FacilityEffect, ledger, count, process
<1>3. Members' = Members BY <1>2 DEF Members
<1>4. Types' BY <1>1, <1>2 DEF Types, TypeOK, FacilityEffect
<1>5. Exclusive' BY <1>1, <1>2 DEF Exclusive
<1>6. Results'
  <2>1. OpenTaskStands'
    <3>1. task.status = "in_progress" /\ task.scope \in Rooms => centerOf'[task.scope] = centerOf[task.scope]
      BY DEF FacilityEffect, RoomMayMove
    <3> QED BY <1>1, <1>2, <1>3, <3>1 DEF Results, OpenTaskStands
  <2>2. Lifecycle' /\ ArchivedAreUnmounted' /\ CompletedIsCounted' /\ ResolutionsAreCurrent'
    BY <1>1, <1>2, <1>3
    DEF Results, Lifecycle, ArchivedAreUnmounted, CompletedIsCounted, ResolutionsAreCurrent
  <2> QED BY <2>1, <2>2 DEF Results
<1>7. ASSUME NEW v \in Workers PROVE Stages(v)' /\ Asked(v)' /\ Settled(v)' /\ Counting(v)'
  <2>1. Stages(v) /\ Asked(v) /\ Settled(v) /\ Counting(v) BY <1>7 DEF CountInv
  <2>2. Stages(v)' BY <1>2, <2>1 DEF Stages
  <2>3. Asked(v)' BY <1>2, <1>3, <2>1 DEF Asked
  <2>4. /\ \A p \in held[v] \cap Racks : roomOf'[p] = roomOf[p]
        /\ \A m \in held[v] \cap Rooms : centerOf'[m] = centerOf[m]
    BY DEF FacilityEffect, Unlocked
  <2>5. Settled(v)'
    <3>1. PICK q : q = job[v] OBVIOUS
    <3>2. SUFFICES ASSUME pc[v] = "checked" PROVE Settled(v)' BY <1>2 DEF Settled
    <3>3. q \in Requests /\ seen[v].members \subseteq held[v] BY <3>1, <3>2, CheckedHolds
    <3>4. ASSUME NEW a, NEW p, p \in held[v], Waiting(v, a, p) PROVE Waiting(v, a, p)'
      <4>1. SUFFICES ASSUME p \in Racks PROVE Parents(p)' = Parents(p)
        BY <1>2, <3>4 DEF Waiting
      <4>2. roomOf'[p] = roomOf[p] /\ roomOf[p] \in Rooms
        BY <1>1, <2>4, <3>4, <4>1 DEF Types, TypeOK
      <4>3. Site(p).room = roomOf[p] /\ roomOf[p] # Nowhere BY <4>1, <4>2, InventoryNames DEF Site
      <4>4. roomOf[p] \in held[v] BY <3>4, <4>1, <4>3 DEF Waiting, Parents
      <4>5. Site(p)' = Site(p) BY <2>4, <4>1, <4>2, <4>4 DEF Site
      <4> QED BY <4>5 DEF Parents
    <3>5. ASSUME q.kind \in ItemJobs
          PROVE  /\ AsFrozen(q) => SameRoom(items[q.asset].system, items[q.asset].systemSite)'
                 /\ Corrects(q) => /\ SameRoom(items[q.asset].at, items[q.asset].site)'
                                   /\ Waiting(v, q.asset, items[q.asset].at)'
      <4>1. PICK it : it = items[q.asset] OBVIOUS
      <4>2. q.asset \in Members BY <2>1, <3>1, <3>2, <3>5 DEF Settled
      <4>3. AsFrozen(q) => SameRoom(it.system, it.systemSite)
                           /\ (it.system \in Racks => it.system \in held[v])
        BY <2>1, <3>1, <3>2, <3>3, <3>5, <4>1, <4>2 DEF Settled, Asked
      <4>4. Corrects(q) =>
              /\ SameRoom(it.at, it.site) /\ Waiting(v, q.asset, it.at)
              /\ it.at \in Racks \cup Centers => it.at \in held[v]
        BY <2>1, <3>1, <3>2, <3>3, <3>5, <4>1, <4>2 DEF Settled, Asked
      <4>5. \A p, site : SameRoom(p, site) /\ (p \in Racks => p \in held[v]) => SameRoom(p, site)'
        BY <2>4 DEF SameRoom
      <4>6. AsFrozen(q) => SameRoom(it.system, it.systemSite)' BY <4>3, <4>5
      <4>7. Corrects(q) => SameRoom(it.at, it.site)' BY <4>4, <4>5
      <4>8. Corrects(q) => Waiting(v, q.asset, it.at)'
        <5>1. CASE it.at \in Racks BY <3>4, <4>4, <5>1
        <5>2. CASE it.at \notin Racks BY <5>2 DEF Waiting
        <5> QED BY <5>1, <5>2
      <4> QED BY <1>2, <4>1, <4>6, <4>7, <4>8
    <3>6. AsFrozen(q) \/ Corrects(q) => q.kind \in ItemJobs BY DEF AsFrozen, Corrects, ItemJobs
    <3>7. q.kind = "place" => Waiting(v, q.asset, q.at)'
      <4>1. SUFFICES ASSUME q.kind = "place" PROVE Waiting(v, q.asset, q.at)' OBVIOUS
      <4>2. CASE q.at \in Racks
        <5>1. q.at \in held[v] BY <2>1, <3>1, <3>2, <3>3, <4>1, <4>2 DEF Asked
        <5> QED BY <2>1, <3>1, <3>2, <3>4, <4>1, <5>1 DEF Settled
      <4>3. CASE q.at \notin Racks BY <4>3 DEF Waiting
      <4> QED BY <4>2, <4>3
    <3>8. q.kind = "reopen" => ScopeStands(task.scope, task.center)'
      <4>1. SUFFICES ASSUME q.kind = "reopen" PROVE ScopeStands(task.scope, task.center)' OBVIOUS
      <4>2. task.scope \in Rooms => task.scope \in held[v] BY <3>1, <3>2, <4>1, CheckedHolds DEF TaskJobs
      <4>3. ScopeStands(task.scope, task.center) BY <2>1, <3>1, <3>2, <4>1 DEF Settled
      <4> QED BY <1>2, <2>4, <4>2, <4>3 DEF ScopeStands
    <3>9. (MayComplete => MayComplete') /\ (MayReopen => MayReopen') /\ (MayDelete => MayDelete')
      BY <1>2, <1>3 DEF MayComplete, MayReopen, MayDelete
    <3>10. /\ q.kind = "complete" => MayComplete'
           /\ q.kind = "reopen" => MayReopen'
           /\ q.kind = "delete" => MayDelete'
      BY <2>1, <3>1, <3>2, <3>9 DEF Settled
    <3> QED BY <1>2, <1>3, <2>1, <3>1, <3>2, <3>5, <3>6, <3>7, <3>8, <3>10 DEF Settled
  <2>6. Counting(v)'
    <3>1. PICK s : s = job[v].scope OBVIOUS
    <3>2. SUFFICES ASSUME job[v].kind = "create", pc[v] \in {"listed", "checked"}, s \in Rooms \cup Centers
                   PROVE  Inside(s)' \subseteq Inside(s)
      BY <1>2, <2>1, <3>1 DEF Counting
    <3>3. s \in held[v] BY <2>1, <3>1, <3>2 DEF Stages, Asked
    <3>4. \A p \in Racks : roomOf'[p] = s => roomOf[p] = s
      BY <3>3 DEF FacilityEffect, Unlocked
    <3>5. ASSUME NEW p \in Racks, Site(p)'.center = s PROVE Site(p).center = s
      <4>1. centerOf'[roomOf'[p]] = s BY <3>5, InventoryNames DEF Site
      <4>2. roomOf'[p] = roomOf[p] BY <3>3, <4>1 DEF FacilityEffect, Unlocked
      <4>3. roomOf[p] \in Rooms BY <1>1 DEF Types, TypeOK
      <4>4. centerOf[roomOf[p]] = s BY <3>3, <4>1, <4>2, <4>3 DEF FacilityEffect, Unlocked
      <4> QED BY <4>4, InventoryNames DEF Site
    <3> QED BY <1>2, <3>4, <3>5 DEF Inside, FacilityEffect
  <2> QED BY <2>2, <2>3, <2>5, <2>6
<1> QED BY <1>4, <1>5, <1>6, <1>7 DEF CountInv, Results

-----------------------------------------------------------------------------
(* Theorems                                                                  *)

\* A transaction keeps the invariant.
LEMMA StepHolds == ASSUME CountInv, NEW w \in Workers, Step(w) PROVE CountInv'
<1>1. Types' /\ Exclusive' /\ Results' BY TypesStep, ExclusiveStep, ResultsStep
<1>2. Stages(w)' /\ Asked(w)' /\ Settled(w)' /\ Counting(w)'
  BY OwnEnd, OwnStart, OwnListScope, OwnAdmit DEF Step, Commits
<1>3. ASSUME NEW v \in Workers \ {w} PROVE Stages(v)' /\ Asked(v)' /\ Settled(v)' /\ Counting(v)'
  BY OtherStages, OtherAsked, OtherSettled, OtherCounting
<1> QED BY <1>1, <1>2, <1>3 DEF CountInv, Results

\* A step that changes nothing keeps it.
LEMMA StutterHolds == ASSUME CountInv, UNCHANGED vars PROVE CountInv'
<1>1. UNCHANGED <<place, archived, assetRev, roomOf, centerOf, closed, task, items, judged, job, pc, held, seen>>
  BY DEF vars, ledger, facilities, count, process
<1>2. FacilityEffect
  BY <1>1 DEF FacilityEffect, ledger, count, process, CountInv, Types, TypeOK
<1> QED BY <1>2, FacilityStep

\* Before anybody asks there is no task, and nobody holds anything.
LEMMA CountStarts == ASSUME Init PROVE CountInv
<1>1. /\ place = FirstPlace /\ archived = {} /\ assetRev = [a \in Assets |-> 1]
      /\ roomOf = FirstRoom /\ centerOf = FirstCenter /\ closed = {}
      /\ task = NoTask /\ items = [a \in Assets |-> NoItem]
      /\ judged = [a \in Assets |-> <<"none", Unclear>>]
      /\ job = [w \in Workers |-> Idle] /\ pc = [w \in Workers |-> "idle"]
      /\ held = [w \in Workers |-> {}] /\ seen = [w \in Workers |-> Unread]
  BY DEF Init
<1>2. Members = {} BY <1>1 DEF Members
<1>3. task.status = "none" /\ task.scope = "all_assets" /\ task.center = Nowhere BY <1>1 DEF NoTask
<1>4. Types
  <2>1. NoTask \in [status : {"none", "in_progress", "completed", "deleted"},
                    scope : {"all_assets"} \cup Centers \cup Rooms, center : Centers \cup {Nowhere}]
    BY DEF NoTask
  <2>2. Unread \in Reads BY DEF Unread, Reads
  <2>3. <<"none", Unclear>> \in (Statuses \cup {"none"}) \X Observable BY DEF Observable
  <2>4. TypeOK BY <1>1, <2>1, <2>3, InventoryConstants DEF TypeOK
  <2> QED BY <1>1, <2>2, <2>4 DEF Types
<1>5. Exclusive BY <1>1 DEF Exclusive
<1>6. Lifecycle /\ ArchivedAreUnmounted /\ CompletedIsCounted /\ ResolutionsAreCurrent /\ OpenTaskStands
  BY <1>1, <1>2, <1>3
  DEF Lifecycle, ArchivedAreUnmounted, CompletedIsCounted, ResolutionsAreCurrent, OpenTaskStands
<1>7. ASSUME NEW w \in Workers PROVE Stages(w) /\ Asked(w) /\ Settled(w) /\ Counting(w)
  <2>1. pc[w] = "idle" /\ job[w] = Idle /\ job[w].kind = "none" BY <1>1 DEF Idle
  <2> QED BY <2>1 DEF Stages, Asked, Settled, Counting, ItemJobs, TaskJobs
<1> QED BY <1>4, <1>5, <1>6, <1>7 DEF CountInv

\* The inductive invariant.
LEMMA CountInvHolds == Spec => []CountInv
<1>1. CountInv /\ [Next]_vars => CountInv'
  <2>1. SUFFICES ASSUME CountInv, [Next]_vars PROVE CountInv' OBVIOUS
  <2>2. CASE \E w \in Workers : Step(w) BY <2>1, <2>2, StepHolds
  <2>3. CASE (\E r \in Racks : MoveRack(r) \/ CloseRack(r)) \/ (\E n \in Rooms : MoveRoom(n))
    BY <2>1, <2>3, FacilitiesEffect, FacilityStep
  <2>4. CASE UNCHANGED vars BY <2>1, <2>4, StutterHolds
  <2> QED BY <2>1, <2>2, <2>3, <2>4 DEF Next
<1> QED BY <1>1, CountStarts, PTL DEF Spec

\* However observations, corrections, completions, deletions, archivals and
\* moves of assets, racks and rooms interleave, a completed count has no item
\* left to count, a resolved exception is the one that was judged, and an open
\* task has no archived asset and its room where it was.
THEOREM CountStaysSound == Spec => []CountIsSound
<1>1. CountInv => CountIsSound BY DEF CountInv, Types, CountIsSound
<1> QED BY <1>1, CountInvHolds, PTL

\* A task of a room or a center lists what is in it.
LEMMA CreateCounts ==
  ASSUME CountInv, NEW w \in Workers, CreateTask(w)
  PROVE  ScopeIsCounted(job[w].scope, w)
<1>1. PICK s : s = job[w].scope OBVIOUS
<1>2. /\ pc[w] = "checked" /\ job[w].kind = "create"
      /\ Members' = Counted(job[w], w)
  BY CreateMakes
<1>3. Members' = InScope(s) \cap seen[w].members BY <1>1, <1>2 DEF Counted
<1>4. /\ s \in Rooms => Inside(s) \subseteq seen[w].members
      /\ s \in Centers => Inside(s) \subseteq seen[w].members \cup seen[w].away
  BY <1>1, <1>2 DEF CountInv, Counting
<1>5. s \in Rooms \cup Centers => InScope(s) \subseteq Inside(s)
  BY InventoryNames DEF InScope, Inside
<1> QED BY <1>1, <1>3, <1>4, <1>5 DEF ScopeIsCounted

\* What a step leaves of an item that a task had.
ItemIsKept(a) ==
    /\ a \in Members' => items'[a].system = items[a].system /\ items'[a].systemSite = items[a].systemSite
    /\ task.status = "completed" => a \in Members' /\ Result(items'[a]) = Result(items[a])
    /\ a \notin Members' => items[a].status = "pending"

\* No step loses or rewrites evidence.
LEMMA ItemsKept == ASSUME CountInv, [Next]_vars, NEW a \in Members PROVE ItemIsKept(a)
<1>1. Types BY DEF CountInv
<1>2. CASE UNCHANGED items
  <2>1. Members' = Members BY <1>2 DEF Members
  <2> QED BY <1>2, <2>1 DEF ItemIsKept
<1>3. ASSUME NEW w \in Workers, Observe(w) \/ Confirm(w) PROVE ItemIsKept(a)
  <2>1. PICK b, old, new : Revised(b, old, new) BY <1>3, ObserveRevises, ConfirmRevises
  <2>2. pc[w] = "checked" /\ job[w].kind \in {"observe", "confirm"} /\ UNCHANGED task
    BY <1>3 DEF Observe, Confirm, Doing
  <2>3. Task \in held[w] BY <2>2, CheckedHolds DEF ItemJobs
  <2>4. /\ b \in Assets /\ Members' = Members /\ items'[b] = new
        /\ \A c \in Assets \ {b} : items'[c] = items[c]
    BY <2>1, <2>2, <2>3, RevisedItems
  <2>5. task.status # "completed" BY <2>2 DEF CountInv, Settled
  <2>6. CASE a = b BY <2>1, <2>4, <2>5, <2>6 DEF ItemIsKept, Revised
  <2>7. CASE a # b
    <3>1. items'[a] = items[a] BY <2>4, <2>7 DEF Members
    <3> QED BY <2>4, <2>5, <3>1 DEF ItemIsKept
  <2> QED BY <2>6, <2>7
<1>4. ASSUME NEW w \in Workers, Resolve(w) PROVE ItemIsKept(a)
  <2>1. PICK b, old, new :
          Revised(b, old, new) /\ new = Written(old, old.status, old.at, old.site, "resolved")
    BY <1>4, ResolveRevises
  <2>2. pc[w] = "checked" /\ job[w].kind \in ItemJobs /\ UNCHANGED task
    BY <1>4 DEF Resolve, Doing, ItemJobs
  <2>3. Task \in held[w] BY <2>2, CheckedHolds
  <2>4. /\ b \in Assets /\ Members' = Members /\ items'[b] = new
        /\ \A c \in Assets \ {b} : items'[c] = items[c]
    BY <2>1, <2>2, <2>3, RevisedItems
  <2>5. Result(new) = Result(old) BY <2>1 DEF Result, Written
  <2>6. CASE a = b BY <2>1, <2>4, <2>5, <2>6 DEF ItemIsKept, Revised
  <2>7. CASE a # b
    <3>1. items'[a] = items[a] BY <2>4, <2>7 DEF Members
    <3> QED BY <2>4, <3>1 DEF ItemIsKept
  <2> QED BY <2>6, <2>7
<1>5. ASSUME NEW w \in Workers, CreateTask(w) PROVE ItemIsKept(a)
  BY <1>5, CreateMakes
<1>6. ASSUME NEW w \in Workers, DeleteTask(w) PROVE ItemIsKept(a)
  <2>1. task.status = "in_progress" /\ Members' = {} /\ items[a].status = "pending" BY <1>6, DeleteMakes
  <2> QED BY <2>1 DEF ItemIsKept
<1>7. ASSUME NEW w \in Workers,
             Start(w) \/ ListScope(w) \/ Admit(w) \/ Abort(w) \/ ChangeTask(w) \/ Archive(w) \/ PlaceAsset(w)
      PROVE  UNCHANGED items
  BY <1>7 DEF Start, ListScope, Admit, Abort, ChangeTask, Archive, PlaceAsset, count
<1>8. ASSUME (\E r \in Racks : MoveRack(r) \/ CloseRack(r)) \/ (\E n \in Rooms : MoveRoom(n))
      PROVE  UNCHANGED items
  BY <1>8, FacilitiesEffect DEF FacilityEffect, count
<1>9. UNCHANGED vars => UNCHANGED items BY DEF vars, count
<1> QED BY <1>2, <1>3, <1>4, <1>5, <1>6, <1>7, <1>8, <1>9 DEF Next, Step

\* A task of a room or a center lists what is in it, since nothing can enter a
\* scope that is held; what it froze stays, a completed task stays whole, and
\* only items that nobody has counted are deleted.
THEOREM EvidenceStays == Spec => EvidenceIsKept
<1>1. CountInv /\ [Next]_vars =>
        /\ \A w \in Workers : CreateTask(w) => ScopeIsCounted(job[w].scope, w)
        /\ \A a \in Members :
            /\ a \in Members' => items'[a].system = items[a].system /\ items'[a].systemSite = items[a].systemSite
            /\ task.status = "completed" => a \in Members' /\ Result(items'[a]) = Result(items[a])
            /\ a \notin Members' => items[a].status = "pending"
  BY CreateCounts, ItemsKept DEF ItemIsKept
<1> QED BY <1>1, CountInvHolds, PTL DEF Spec, EvidenceIsKept

\* The ledger is corrected into a rack that stands where it was observed.
LEMMA CorrectionSeen ==
  ASSUME CountInv, NEW a \in Members, Corrected(a)
  PROVE  /\ place'[a] = items[a].at
         /\ place'[a] \in Racks =>
              roomOf[place'[a]] = items[a].site.room /\ \A b \in Assets \ {a} : place[b] # place'[a]
<1>1. Types BY DEF CountInv
<1>2. PICK w \in Workers : Resolve(w) /\ job[w].asset = a /\ job[w].action = "update_asset" BY DEF Corrected
<1>3. pc[w] = "checked" /\ Corrects(job[w]) BY <1>2 DEF Resolve, Doing, Corrects
<1>4. SameRoom(items[a].at, items[a].site) /\ Waiting(w, a, items[a].at)
  BY <1>2, <1>3 DEF CountInv, Settled
<1>5. Moved(a, items[a].at) BY <1>2 DEF Resolve
<1>6. a \in Assets BY DEF Members
<1>7. place'[a] = items[a].at BY <1>1, <1>5, <1>6 DEF Moved, Types, TypeOK
<1> QED BY <1>4, <1>7 DEF SameRoom, Waiting

\* An item becomes normal only in the room that was frozen.
LEMMA NormalSeen ==
  ASSUME CountInv, [Next]_vars, NEW a \in Members, a \in Members',
         items'[a].status = "normal", items[a].status # "normal"
  PROVE  SameRoom(items[a].system, items[a].systemSite)
<1>1. items'[a] # items[a] /\ a \in Assets BY DEF Members
<1>2. ASSUME NEW w \in Workers, Observe(w) PROVE FALSE
  <2>1. PICK b, old, new : Revised(b, old, new) /\ new = items'[b] /\ new.status # "normal"
    BY <1>2, ObserveRevises
  <2>2. items' = [items EXCEPT ![b] = new] /\ b # a BY <2>1 DEF Revised
  <2> QED BY <1>1, <2>2 DEF CountInv, Types, TypeOK
<1>3. ASSUME NEW w \in Workers, Resolve(w) PROVE FALSE
  <2>1. PICK b, old, new :
          Revised(b, old, new) /\ new = items'[b] /\ new = Written(old, old.status, old.at, old.site, "resolved")
    BY <1>3, ResolveRevises
  <2>2. items' = [items EXCEPT ![b] = new] /\ b # a BY <2>1 DEF Revised, Written
  <2> QED BY <1>1, <2>2 DEF CountInv, Types, TypeOK
<1>4. ASSUME NEW w \in Workers, Confirm(w) PROVE SameRoom(items[a].system, items[a].systemSite)
  <2>1. PICK q : q = job[w] OBVIOUS
  <2>2. AsFrozen(q) /\ items' = [items EXCEPT ![q.asset] = items'[q.asset]]
    BY <1>4, <2>1, ConfirmRevises DEF Revised
  <2>3. q.asset = a BY <1>1, <2>2 DEF CountInv, Types, TypeOK
  <2>4. pc[w] = "checked" BY <1>4 DEF Confirm, Doing
  <2> QED BY <2>1, <2>2, <2>3, <2>4 DEF CountInv, Settled
<1>5. ASSUME NEW w \in Workers, CreateTask(w) \/ DeleteTask(w) PROVE FALSE
  BY <1>5, CreateMakes, DeleteMakes
<1>6. ASSUME NEW w \in Workers,
             Start(w) \/ ListScope(w) \/ Admit(w) \/ Abort(w) \/ ChangeTask(w) \/ Archive(w) \/ PlaceAsset(w)
      PROVE  UNCHANGED items
  BY <1>6 DEF Start, ListScope, Admit, Abort, ChangeTask, Archive, PlaceAsset, count
<1>7. ASSUME (\E r \in Racks : MoveRack(r) \/ CloseRack(r)) \/ (\E n \in Rooms : MoveRoom(n))
      PROVE  UNCHANGED items
  BY <1>7, FacilitiesEffect DEF FacilityEffect, count
<1>8. UNCHANGED vars => UNCHANGED items BY DEF vars, count
<1> QED BY <1>1, <1>2, <1>3, <1>4, <1>5, <1>6, <1>7, <1>8 DEF Next, Step

\* Whatever happens between an observation and its correction, the asset is put
\* into a rack that still is in the room it was seen in and that carries nobody
\* else; and a result becomes normal only while the frozen rack has not moved.
THEOREM CorrectionsStaySeen == Spec => CorrectionsAreSeen
<1>1. CountInv /\ [Next]_vars =>
        \A a \in Members :
          /\ Corrected(a) =>
                /\ place'[a] = items[a].at
                /\ place'[a] \in Racks =>
                      roomOf[place'[a]] = items[a].site.room /\ \A b \in Assets \ {a} : place[b] # place'[a]
          /\ a \in Members' /\ items'[a].status = "normal" /\ items[a].status # "normal" =>
                (items[a].system \in Racks => roomOf[items[a].system] = items[a].systemSite.room)
  <2>1. SUFFICES ASSUME CountInv, [Next]_vars, NEW a \in Members
                 PROVE
          /\ Corrected(a) =>
                /\ place'[a] = items[a].at
                /\ place'[a] \in Racks =>
                      roomOf[place'[a]] = items[a].site.room /\ \A b \in Assets \ {a} : place[b] # place'[a]
          /\ a \in Members' /\ items'[a].status = "normal" /\ items[a].status # "normal" =>
                (items[a].system \in Racks => roomOf[items[a].system] = items[a].systemSite.room)
    OBVIOUS
  <2>2. a \in Members' /\ items'[a].status = "normal" /\ items[a].status # "normal" =>
          SameRoom(items[a].system, items[a].systemSite)
    BY <2>1, NormalSeen
  <2> QED BY <2>1, <2>2, CorrectionSeen DEF SameRoom
<1> QED BY <1>1, CountInvHolds, PTL DEF Spec, CorrectionsAreSeen
=============================================================================
