-------------------------------- MODULE Timeline --------------------------------
(***************************************************************************)
(* The timeline of one asset (timeline.py, timeline_scope.py): a view of   *)
(* the audit log.  When an event is written its place and owner are frozen *)
(* with it; when it is read they decide, against the scope that the reader *)
(* has now, whether the details are shown.  The asset, its rack, its owner *)
(* and the stock count that touched it may all have changed in between.    *)
(*                                                                         *)
(* Every writing operation holds the asset's row and is one step.          *)
(* Definitions marked "Mutant" are wrong on purpose and nothing uses them. *)
(***************************************************************************)
EXTENDS Naturals, FiniteSets

CONSTANTS
    Centers, Departments,
    None,           \* unlocated, not owned, nobody
    Readers,        \* scopes a reader may be given, [global, rules]
    MaxEvents       \* bound

VARIABLES
    asset,          \* centre, department, department of the assigned person
    count,          \* the inventory item of the asset: [task, snap, seen] or None
    log             \* entries of AuditLog about the asset

vars == <<asset, count, log>>

Places == Centers \cup {None}
Owners == Departments \cup {None}
Pair(center, dept) == [center |-> center, dept |-> dept]
Here == Pair(asset.center, asset.dept)

-----------------------------------------------------------------------------
(* Scopes                                                                    *)

\* Rules pair centres with departments; "all" is any department, not the unowned.
OfRule(rule, dept) == dept \in rule.depts \/ (rule.all /\ dept # None)

\* contains_asset, contains, contains_department
ContainsAsset(s, p) == s.global \/ \E r \in s.rules : p.center \in r.centers /\ OfRule(r, p.dept)
Contains(s, c) == s.global \/ \E r \in s.rules : c \in r.centers
ContainsDepartment(s, d) == s.global \/ \E r \in s.rules : OfRule(r, d)

\* full_department_access
FullAccess(s, c) ==
    LET matching == {r \in s.rules : c \in r.centers} IN
    s.global \/ ((\E r \in matching : r.all) /\ (\E r \in matching : None \in r.depts))

\* scoped(InventoryTask): the whole task or nothing of it.
TaskVisible(s, t) ==
    /\ count # None /\ count.task = t
    /\ s.global \/ /\ Contains(s, count.snap.center) /\ ContainsAsset(s, Here)
                   /\ ContainsAsset(s, count.snap)
                   /\ count.seen # None => ContainsAsset(s, count.seen)

-----------------------------------------------------------------------------
(* Writing                                                                   *)

\* capture_scope: where the asset is when the event is written.
Evidence(task, stock) == [known |-> TRUE, at |-> Here', task |-> task, stock |-> stock]
NoEvidence == [known |-> FALSE]

Vendor == [vendor |-> TRUE]                      \* a part that came from no stock

\* What the row really is about, whatever it says of it.
About(pairs, stock, task) == [pairs |-> pairs, stock |-> stock, task |-> task]

\* write_audit_log
Write(entries) ==
    /\ Cardinality(log) < MaxEvents
    /\ log' = log \cup entries

Row(type, snaps, evidence, task, about) ==
    [type |-> type, snaps |-> snaps, evidence |-> evidence, task |-> task, about |-> about]

\* asset_audit_snapshot
AssetSnapshot(a) == [center |-> a.center, dept |-> a.dept, person |-> a.person]

AssetRow(task) ==
    Row("asset", {AssetSnapshot(asset), AssetSnapshot(asset')}, NoEvidence, task,
        About({Here, Here'}, {}, task))

\* An operation on the asset itself: edit, transfer, mounting, batch.
ChangeAsset ==
    /\ \E c \in Places, d \in Owners, p \in Owners :
        /\ asset' = [center |-> c, dept |-> d, person |-> p]
        /\ asset' # asset
    /\ Write({AssetRow(None)})
    /\ UNCHANGED count

\* The rack is moved to another room: the assets in it write nothing.
MoveRack ==
    /\ \E c \in Centers : c # asset.center /\ asset.center # None /\ asset' = [asset EXCEPT !.center = c]
    /\ UNCHANGED <<count, log>>

\* _audit of faults and repairs, attachments of the asset: the text of the event.
WriteEvent ==
    /\ UNCHANGED <<asset, count>>
    /\ \E type \in {"fault", "repair", "attachment", "repair attachment"} :
        Write({Row(type, {[text |-> TRUE]}, Evidence(None, Vendor), None, About({Here}, {}, None))})

\* _write_fault_status_audit: two fields of the asset, without its place.
SyncStatus ==
    /\ UNCHANGED <<asset, count>>
    /\ Write({Row("asset", {[status |-> "x"]}, NoEvidence, None, About({Here}, {}, None))})

\* create_repair_part_usage: the usage and, from stock, its transaction.
UsePart ==
    /\ UNCHANGED <<asset, count>>
    /\ \/ Write({Row("usage", {[from |-> None]}, Evidence(None, Vendor), None, About({Here}, {}, None))})
       \/ \E c \in Centers :
            LET about == About({Here}, {c}, None) IN
            Write({Row("usage", {[from |-> c]}, Evidence(None, [vendor |-> FALSE, center |-> c]), None, about),
                   Row("transaction", {[source |-> c, target |-> None]}, Evidence(None, Vendor), None, about)})

\* The task freezes where its assets should be.
StartCount ==
    /\ count = None /\ asset.center # None
    /\ \E t \in {1, 2} :
        /\ \A e \in log : e.about.task # t
        /\ count' = [task |-> t, snap |-> Here, seen |-> None]
    /\ UNCHANGED <<asset, log>>

ItemRow(snaps, task) ==
    Row("item", snaps, Evidence(count.task, Vendor), task,
        About({Here'} \cup ({s.seen : s \in snaps} \ {None}), {}, count.task))

\* record_inventory_observation; the snapshot of what was seen keeps the owner.
Observe ==
    /\ count # None
    /\ \E c \in Places : count' = [count EXCEPT !.seen = Pair(c, asset.dept)]
    /\ UNCHANGED asset
    /\ Write({ItemRow({[seen |-> count.seen], [seen |-> count'.seen]}, None)})

\* resolve_inventory_item: the asset is moved to where it was seen.
Resolve ==
    /\ count # None /\ count.seen # None
    /\ UNCHANGED count
    /\ \/ /\ asset' = [asset EXCEPT !.center = count.seen.center]
          /\ Write({ItemRow({[seen |-> count.seen]}, count.task)}
                   \cup (IF asset' = asset THEN {} ELSE {AssetRow(count.task)}))
       \/ UNCHANGED asset /\ Write({ItemRow({[seen |-> count.seen]}, count.task)})

\* delete_inventory_task
DeleteTask == count # None /\ count' = None /\ UNCHANGED <<asset, log>>

-----------------------------------------------------------------------------
(* Reading                                                                   *)

\* asset_timeline_queryset: what is attached to a repair stays with the repair.
InTimeline(e) == e.type # "repair attachment"

Has(snap, field) == field \in DOMAIN snap

\* _asset_snapshot_visible; rows of an older version do not name the owner.
SnapshotVisible(snap, s) ==
    /\ Has(snap, "center")
    /\ IF Has(snap, "dept") THEN ContainsAsset(s, Pair(snap.center, snap.dept)) ELSE FullAccess(s, snap.center)

\* Mutant: the place is looked up when the event is read.
PlaceNow(e) == Here
PlaceThen(e) == e.evidence.at

\* details_visible, the branch of everything but the asset's own rows
EvidenceVisible(e, s) ==
    /\ e.evidence.known /\ ContainsAsset(s, PlaceThen(e))
    /\ e.evidence.stock.vendor \/ Contains(s, e.evidence.stock.center)
    /\ e.type = "transaction" =>
        \A snap \in e.snaps : \A c \in {snap.source, snap.target} \ {None} : Contains(s, c)
    /\ e.type = "item" =>
        /\ TaskVisible(s, e.evidence.task)
        /\ \A snap \in e.snaps : snap.seen = None \/ ContainsAsset(s, snap.seen)

\* details_visible
DetailsVisible(e, s) ==
    \/ s.global
    \/ /\ e.snaps # {}
       /\ IF e.type = "asset" THEN \A snap \in e.snaps : SnapshotVisible(snap, s) ELSE EvidenceVisible(e, s)
       /\ e.task # None => TaskVisible(s, e.task)

\* _redact_person, for each snapshot of an asset
PersonsShown(e, s) ==
    {snap.person : snap \in {n \in e.snaps : Has(n, "person") /\ ContainsDepartment(s, n.person)}}

\* timeline_event: nothing but its kind, time and actor is left of a restricted one.
Changes(e, s) ==
    IF ~DetailsVisible(e, s) THEN [snaps |-> {}, persons |-> {}]
    ELSE [snaps |-> e.snaps, persons |-> PersonsShown(e, s)]

-----------------------------------------------------------------------------
\* Rows of a version that froze nothing, or did not know of owners.
LegacyRows == {
    Row("fault", {[text |-> TRUE]}, NoEvidence, None, About({Here}, {}, None)),
    Row("asset", {[center |-> asset.center, person |-> None]}, NoEvidence, None,
        About({Pair(asset.center, d) : d \in Owners}, {}, None))}

Init ==
    /\ asset \in {[center |-> c, dept |-> d, person |-> None] : c \in Places, d \in Owners}
    /\ count = None
    /\ log \in {{}} \cup {{r} : r \in LegacyRows}

Next == ChangeAsset \/ MoveRack \/ WriteEvent \/ SyncStatus \/ UsePart \/ StartCount \/ Observe \/ Resolve \/ DeleteTask

Spec == Init /\ [][Next]_vars

-----------------------------------------------------------------------------
(* Properties *)

\* All that an event was about lies in what the reader may see now.
Covers(s, about) ==
    /\ \A p \in about.pairs : ContainsAsset(s, p)
    /\ \A c \in about.stock : Contains(s, c)
    /\ about.task # None => TaskVisible(s, about.task)

\* Rows of an older version, and the status rows that faults write without a place.
Incomplete(e) ==
    IF e.type = "asset" THEN \E snap \in e.snaps : ~Has(snap, "dept") ELSE ~e.evidence.known

\* The details of an event are shown only to a reader whose scope of today holds
\* every place, owner, stock and count that the event was about when it was
\* written, wherever the asset is now, and to every such reader; the person of
\* another department is never named.
DetailsFollowTheEvent ==
    \A e \in {e \in log : InTimeline(e)}, s \in Readers :
        LET shown == Changes(e, s).snaps # {} IN
        /\ shown => s.global \/ Covers(s, e.about)
        /\ Covers(s, e.about) => shown \/ Incomplete(e)
        /\ \A d \in Changes(e, s).persons : ContainsDepartment(s, d)
=============================================================================
