------------------------------- MODULE SystemReset -------------------------------
(***************************************************************************)
(* The reset of the application (system_reset.py): one transaction that    *)
(* empties table after table in an order that the references between the   *)
(* tables allow, and keeps the administrators.  It runs as an ordinary     *)
(* request: others go on inserting rows, which it meets as soon as they    *)
(* are committed.                                                          *)
(*                                                                         *)
(* A row is a member of a table and the rows it refers to; its other       *)
(* columns, and the settings (Settings), are not here.                     *)
(* Definitions marked "Mutant" are wrong on purpose and nothing uses them. *)
(***************************************************************************)
EXTENDS Naturals, Sequences, FiniteSets

CONSTANTS
    MaxInserts,     \* bound: rows that other requests insert
    Inserted        \* the tables they insert into

VARIABLES
    rows,           \* committed rows: [table, tag, n], tag "old", "kept", "actor" or "new"
    links,          \* <<row, row it refers to, what happens when that is deleted>>
    at,             \* the next table of the reset; 0 before it
    gone, loose,    \* rows and links it has deleted and not yet committed
    kept,           \* the administrators it has found
    outcome,        \* "none", "done", "failed"
    inserts

vars == <<rows, links, at, gone, loose, kept, outcome, inserts>>

-----------------------------------------------------------------------------
(* References: <<table, table it refers to, on_delete, whether it must exist>> *)

To(child, parents, rule, need) == {<<child, p, rule, need>> : p \in parents}

FacilityRefs ==
    To("departments", {"departments"}, "protect", "may")
    \cup To("rooms", {"centers"}, "protect", "must") \cup To("racks", {"rooms"}, "protect", "must")
    \cup To("reservations", {"racks"}, "cascade", "must")
    \cup To("reservations", {"users", "assets"}, "null", "may")

CatalogRefs ==
    To("types", {"fieldsets"}, "protect", "may")
    \cup To("models", {"manufacturers", "types"}, "protect", "must") \cup To("models", {"fieldsets"}, "protect", "may")
    \cup To("fieldset_items", {"fieldsets"}, "cascade", "must") \cup To("fieldset_items", {"fields"}, "protect", "must")
    \cup To("field_options", {"fields"}, "cascade", "must")

StockRefs ==
    To("parts", {"categories"}, "protect", "must") \cup To("parts", {"manufacturers"}, "null", "may")
    \cup To("stocks", {"parts", "centers"}, "protect", "must") \cup To("stocks", {"rooms"}, "protect", "may")
    \cup To("transactions", {"parts"}, "protect", "must") \cup To("transactions", {"centers", "rooms"}, "protect", "may")
    \cup To("transactions", {"users"}, "null", "may")

LicenseRefs == To("licenses", {"manufacturers"}, "protect", "may")

PersonRefs == To("people", {"users"}, "null", "may") \cup To("people", {"departments"}, "protect", "may")

AssetRefs ==
    To("assets", {"centers", "departments", "models", "manufacturers", "types", "people"}, "protect", "may")

PastRefs ==
    To("disposals", {"assets"}, "protect", "must") \cup To("disposals", {"users"}, "null", "may")
    \cup To("assignments", {"assets"}, "protect", "must") \cup To("assignments", {"people", "users"}, "null", "may")

PartOfAssetRefs ==
    To("custom_values", {"assets"}, "cascade", "must") \cup To("custom_values", {"fields"}, "protect", "must")
    \cup To("asset_tags", {"assets"}, "cascade", "must") \cup To("asset_tags", {"tags"}, "protect", "must")
    \cup To("addresses", {"assets"}, "cascade", "must") \cup To("allocations", {"assets"}, "cascade", "must")
    \cup To("allocations", {"racks"}, "protect", "must")
    \cup To("procurements", {"assets"}, "cascade", "must") \cup To("contracts", {"assets"}, "cascade", "must")

RepairRefs ==
    To("faults", {"assets"}, "protect", "must")
    \cup To("repairs", {"faults"}, "protect", "must") \cup To("repairs", {"repairs"}, "restrict", "may")
    \cup To("repairs", {"users"}, "null", "may")
    \cup To("usages", {"faults"}, "protect", "must") \cup To("usages", {"repairs", "parts", "stocks"}, "protect", "may")
    \cup To("usages", {"users"}, "null", "may")

AttachmentRefs ==
    To("attachments", {"assets"}, "cascade", "must") \cup To("attachments", {"repairs"}, "protect", "may")
    \cup To("attachments", {"users"}, "null", "may")

CountRefs ==
    To("counts", {"centers", "rooms"}, "protect", "may") \cup To("counts", {"users"}, "protect", "must")

ItemRefs ==
    To("items", {"counts"}, "cascade", "must") \cup To("items", {"assets"}, "protect", "must")
    \cup To("items", {"racks", "centers"}, "protect", "may") \cup To("items", {"users"}, "null", "may")

AccountRefs ==
    To("audit_logs", {"users"}, "null", "may") \cup To("mutations", {"users"}, "cascade", "must")
    \cup To("scopes", {"users"}, "cascade", "must") \cup To("scope_rules", {"scopes"}, "cascade", "must")
    \cup To("grants", {"scope_rules", "centers", "departments"}, "cascade", "must")
    \cup To("profiles", {"users"}, "cascade", "must") \cup To("tokens", {"users"}, "cascade", "must")
    \cup To("identities", {"users"}, "protect", "must")

Refs == FacilityRefs \cup CatalogRefs \cup StockRefs \cup LicenseRefs \cup PersonRefs
        \cup AssetRefs \cup PastRefs \cup PartOfAssetRefs \cup RepairRefs \cup AttachmentRefs
        \cup CountRefs \cup ItemRefs \cup AccountRefs

Alone == {"deliveries"}             \* refers to nothing
Tables == Alone \cup UNION {{r[1], r[2]} : r \in Refs}

\* Mutant: the repairs before the parts that were used in them.
RepairsFirst == <<"deliveries", "mutations", "audit_logs", "items", "counts", "repairs", "attachments",
    "usages", "faults", "assignments">>

\* _clear_mutable_data: the history.
History == <<"deliveries", "mutations", "audit_logs", "items", "counts", "usages", "attachments",
    "repairs", "faults", "assignments">>

\* The objects it is about; "departments" is emptied after its own links are cut.
Objects == <<
    "allocations", "reservations", "addresses", "custom_values", "asset_tags", "procurements", "contracts",
    "disposals", "assets", "models", "licenses", "transactions", "stocks", "parts", "categories",
    "fieldset_items", "field_options", "types", "fieldsets", "fields", "racks", "rooms", "centers", "tags",
    "manufacturers", "people", "departments", "identities", "tokens", "users">>

Order == History \o Objects

-----------------------------------------------------------------------------
(* Rows                                                                      *)

Row(t, tag, n) == [table |-> t, tag |-> tag, n |-> n]
Old(t) == Row(t, "old", 0)
Kept(t) == Row(t, "kept", 0)
Actor == Row("users", "actor", 0)

\* What belongs to another administrator who is kept.
KeptRows == {Kept(t) : t \in {"users", "identities", "profiles", "scopes", "tokens"}}

FirstLinks ==
    {<<Old(r[1]), Old(r[2]), r[3]>> : r \in Refs}
    \cup {<<Kept(r[1]), Kept(r[2]), r[3]>> : r \in {r \in AccountRefs : Kept(r[1]) \in KeptRows}}

Init ==
    /\ rows = {Old(t) : t \in Tables} \cup KeptRows \cup {Actor}
    /\ links = FirstLinks
    /\ at = 0 /\ gone = {} /\ loose = {} /\ kept = {} /\ outcome = "none" /\ inserts = 0

Running == at > 0 /\ outcome = "none"
Visible == rows \ gone              \* what the transaction of the reset sees
Pointing == {l \in links \ loose : l[1] \in Visible}

-----------------------------------------------------------------------------
(* The reset                                                                 *)

\* _reset_system_in_transaction, _preserved_admin_ids
StartReset ==
    /\ at = 0
    /\ at' = 1 /\ kept' = {r \in rows : r.table = "users" /\ r.tag \in {"kept", "actor"}}
    /\ UNCHANGED <<rows, links, gone, loose, outcome, inserts>>

\* An administrator found, or a directory identity of one.
Preserved(r) ==
    r \in kept \/ (r.table = "identities" /\ \E l \in Pointing : l[1] = r /\ l[2] \in kept)

\* The rows of a table that the reset deletes.
Condemned(t) == {r \in Visible : r.table = t /\ ~Preserved(r)}

\* What goes with a set of rows, as one transaction sees the links.
With(seen, deleted) == deleted \cup {l[1] : l \in {l \in seen : l[3] = "cascade" /\ l[2] \in deleted}}
Cascade(seen, deleted) == With(seen, With(seen, With(seen, deleted)))

\* Department.objects.update(parent=None)
Cut(t) == {l \in links : t = "departments" /\ l[1].table = t /\ l[2].table = t}

\* ProtectedError, RestrictedError or the constraint of the database
Held(seen, deleted) ==
    \E l \in seen :
        /\ l[2] \in deleted
        /\ l[3] = "protect" \/ (l[3] = "restrict" /\ l[1] \notin deleted)

\* _delete_queryset
DeleteTable ==
    /\ Running /\ at <= Len(Order)
    /\ LET t == Order[at]  deleted == Cascade(Pointing, Condemned(t)) IN
        IF Held(Pointing \ Cut(t), deleted)
        THEN outcome' = "failed" /\ gone' = {} /\ loose' = {} /\ UNCHANGED at
        ELSE /\ gone' = gone \cup deleted /\ at' = at + 1
             /\ loose' = loose \cup {l \in Pointing : l[3] = "null" /\ l[2] \in deleted} \cup Cut(t)
             /\ UNCHANGED outcome
    /\ UNCHANGED <<rows, links, kept, inserts>>

\* verify_role_bootstrap and the end of the transaction
Commit ==
    /\ Running /\ at > Len(Order)
    /\ IF kept \subseteq rows
       THEN /\ outcome' = "done" /\ rows' = rows \ gone
            /\ links' = {l \in links \ loose : l[1] \notin gone}
       ELSE outcome' = "failed" /\ UNCHANGED <<rows, links>>
    /\ gone' = {} /\ loose' = {}
    /\ UNCHANGED <<at, kept, inserts>>

-----------------------------------------------------------------------------
(* Other requests                                                            *)

\* A row waits for the rows it refers to when they are being deleted, and is then
\* refused; the links of rows that the reset has changed are the reset's own.
Insert ==
    /\ inserts < MaxInserts /\ inserts' = inserts + 1
    /\ \E t \in Inserted, all \in BOOLEAN, tag \in {"old", "kept", "new"} :
        LET needed == {r \in Refs : r[1] = t /\ (all \/ r[4] = "must")}
            row == Row(t, "new", inserts')
            There(p) == {r \in Visible : r.table = p /\ r.tag = tag}
            Target(p) == IF There(p) = {} THEN Old(p) ELSE CHOOSE r \in There(p) : TRUE IN
        /\ \A r \in needed : Target(r[2]) \in Visible
        /\ rows' = rows \cup {row}
        /\ links' = links \cup {<<row, Target(r[2]), r[3]>> : r \in needed}
    /\ UNCHANGED <<at, gone, loose, kept, outcome>>

\* An administrator who would be kept is deleted from a shell of the host (the
\* application refuses that), with the identity: as Django sees the committed rows,
\* waiting for those that the reset has deleted or changed.
DeleteAdministrator ==
    LET deleted == Cascade(links, {Kept("users"), Kept("identities")})
        touched == deleted \cup {l[1] : l \in {l \in links : l[2] \in deleted}} IN
    /\ inserts < MaxInserts /\ inserts' = inserts + 1
    /\ at <= Len(Order) /\ Kept("users") \in rows
    /\ ~Held({l \in links : l[1] \notin deleted}, deleted)
    /\ touched \cap (gone \cup {l[1] : l \in loose}) = {}
    /\ rows' = rows \ deleted
    /\ links' = {l \in links : l[1] \notin deleted /\ l[2] \notin deleted}
    /\ UNCHANGED <<at, gone, loose, kept, outcome>>

Next == StartReset \/ DeleteTable \/ Commit \/ Insert \/ DeleteAdministrator

Spec == Init /\ [][Next]_vars

-----------------------------------------------------------------------------
(* Properties *)

\* A reset that has committed has left no row of before it but the administrators
\* with their identities and profiles, and every row that is left refers to rows
\* that are there; one that nobody disturbs does not fail, and one that fails has
\* changed no row.
ResetIsWhole ==
    /\ outcome = "done" =>
        /\ \A r \in rows : r.tag # "old"
        /\ Kept("tokens") \notin rows /\ kept \subseteq rows
        /\ Kept("users") \in kept => {Kept("identities"), Kept("profiles")} \subseteq rows
        /\ \A l \in links : l[1] \in rows /\ l[2] \in rows
    /\ outcome = "failed" => inserts > 0 /\ \A t \in Tables : Old(t) \in rows
=============================================================================
