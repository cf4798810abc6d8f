-------------------------------- MODULE Catalog --------------------------------
(***************************************************************************)
(* Reference data: reference_writes.py and reference_rules.py.  Custom     *)
(* fields, their options and the sets that group them (fieldsets.py),      *)
(* which device types and asset models hand on to assets, the values that  *)
(* asset_configuration.py stores for an asset; departments, their imports  *)
(* (department_imports.py) and the people in them (people_imports.py).     *)
(*                                                                         *)
(* A request locks the rows it edits, checks, and commits.  What it reads  *)
(* besides is not locked: a check may be out of date when it is acted on.  *)
(* "raced" records that.  Revisions are left out: a stale one is a refusal *)
(* (Abort), and AssetRegister has what they protect.                       *)
(* Definitions marked "Mutant" are wrong on purpose and nothing uses them. *)
(***************************************************************************)
EXTENDS Integers

CONSTANTS
    Workers,                        \* server processes
    Fields, Sets, Types, Models,    \* rows; device types, asset models
    Assets, Values,                 \* what an option offers, or a text says
    Standard,                       \* asset -> its model, or None
    Standalone,                     \* asset without a model -> its device type
    Departments, People,
    FirstFields, FirstOptions, FirstItems, FirstSets, FirstOwn, FirstValues, FirstParents,
    Requests,                       \* what users ask for
    MaxRequests,                    \* bound: requests that start
    None                            \* no value, no set, no model, no department

FieldDefinition ==
    [in : {TRUE}, kind : {"text", "choice"}, shown : BOOLEAN, active : BOOLEAN, default : Values \cup {None}]

ItemList == [Fields -> {"in", "required", "out"}]
ModelRow == [set : Sets \cup {None}, type : Types]
ValueRow == [Fields -> {None} \cup [kind : {"text", "choice"}, value : Values]]

Part(from, to) == UNION {[some -> to] : some \in SUBSET from}

\* Requests as the serializers let them through.
WellFormed(q) ==
    /\ q.kind \in {"field", "new", "drop", "option", "items", "model", "type", "write", "archive",
                  "department", "import", "close", "person"}
    /\ q.kind \in {"field", "new", "drop", "option"} => q.field \in Fields
    /\ q.kind \in {"field", "new"} => q.new \in FieldDefinition
    /\ q.kind = "option" => q.value \in Values /\ q.op \in {"add", "set", "drop"}
    /\ q.kind = "option" /\ q.op # "drop" => q.to \in {"on", "off"}
    /\ q.kind = "items" => q.set \in Sets /\ q.items \in ItemList
    /\ q.kind = "model" => q.model \in Models /\ q.new \in ModelRow
    /\ q.kind = "type" => q.type \in Types /\ q.set \in Sets \cup {None}
    /\ q.kind \in {"write", "archive"} => q.asset \in Assets
    /\ q.kind = "write" => q.values \in Part(Fields, Values \cup {None})
    /\ q.kind = "archive" => q.to \in BOOLEAN
    /\ q.kind \in {"department", "close"} => q.department \in Departments
    /\ q.kind = "department" => q.to \in Departments \cup {None}
    /\ q.kind = "import" => q.rows \in Part(Departments, Departments \cup {None})
    /\ q.kind = "person" => q.person \in People /\ q.to \in Departments

CatalogKeys ==
    /\ Standard \in [Assets -> Models \cup {None}]
    /\ \A a \in Assets : Standard[a] = None => Standalone[a] \in Types
    /\ None \notin Values \cup Sets \cup Models \cup Departments \cup {"text", "choice", "gone"}
    /\ "gone" \notin Departments
    /\ \A q \in Requests : WellFormed(q)
    /\ MaxRequests \in Nat
    /\ FirstFields \in [Fields -> FieldDefinition]
    /\ FirstOptions \in [Fields -> [Values -> {"on", "off", "none"}]]
    /\ FirstItems \in [Sets -> ItemList]
    /\ FirstSets \in [Types -> Sets \cup {None}] /\ FirstOwn \in [Models -> ModelRow]
    /\ FirstValues \in [Assets -> ValueRow]
    /\ FirstParents \in [Departments -> Departments \cup {None, "gone"}]

VARIABLES
    fields,         \* CustomField
    options,        \* CustomFieldOption of each field and value: "on", "off", "none"
    items,          \* CustomFieldSetItem of each set and field: "in", "required", "out"
    typeSet,        \* DeviceType.default_fieldset
    own,            \* AssetModel: its own set and its device type
    values,         \* AssetCustomValue of each asset and field: kind and value
    archived,       \* Asset.archived_at
    parent,         \* Department.parent, or "gone"
    member,         \* Person.department
    job, pc,        \* request of each worker and how far it is
    held,           \* row locks
    plan,           \* values that a checked write is going to leave
    aside,          \* archived when the sets changed, and not edited since
    raced,          \* a commit rested on a check that was out of date
    requests        \* requests started

catalog == <<fields, options, items, typeSet, own>>
server == <<job, pc, held, plan>>
staff == <<parent, member>>
vars == <<catalog, values, archived, staff, server, aside, raced, requests>>

Idle == [kind |-> "none"]
NoField == [in |-> FALSE, kind |-> "text", shown |-> TRUE, active |-> TRUE, default |-> None]

-----------------------------------------------------------------------------
(* Sets and what they mean for an asset                                      *)

Members(its) == {f \in Fields : its[f] # "out"}
Required(its) == {f \in Fields : its[f] = "required"}
Empty == [f \in Fields |-> "out"]

ItemsOf(s) == IF s = None THEN Empty ELSE items[s]

\* resolve_fieldset
Effective(model) == IF model.set # None THEN model.set ELSE typeSet[model.type]
SetOf(a) == IF Standard[a] # None THEN Effective(own[Standard[a]]) ELSE typeSet[Standalone[a]]

Filled(a) == {f \in Fields : values[a][f] # None}

\* Asset.objects leaves archived assets out.
Live == {a \in Assets : ~archived[a]}

\* raise_if_fieldset_conflicts
NoConflict(some, its) == \A a \in some : Filled(a) \subseteq Members(its) /\ Required(its) \subseteq Filled(a)

\* assets_using_fieldset
UsersOf(s) == {a \in Live : SetOf(a) = s}

\* Mutant: models that inherit the set of their type are forgotten.
AffectedAlone(t) == {a \in Live : Standard[a] = None /\ Standalone[a] = t}

\* validate_device_type
Affected(t) ==
    {a \in Live : IF Standard[a] = None THEN Standalone[a] = t
                  ELSE own[Standard[a]].set = None /\ own[Standard[a]].type = t}

-----------------------------------------------------------------------------
(* Departments                                                               *)

There == {d \in Departments : parent[d] # "gone"}

\* A department and those above it.
Line(d) ==
    {e \in Departments :
        \A group \in SUBSET Departments :
            d \in group /\ (\A f \in group : parent[f] \in Departments => parent[f] \in group) =>
                e \in group}

\* _find_cycle_nodes finds none: in each group somebody's parent is outside.
Acyclic(up) == \A group \in (SUBSET Departments) \ {{}} : \E d \in group : up[d] \notin group

\* _analyze_rows: the whole graph as it will be; a blank parent keeps the old one.
Proposed(rows) ==
    [d \in Departments |->
        IF d \notin DOMAIN rows \/ (rows[d] = None /\ d \in There) THEN parent[d] ELSE rows[d]]

-----------------------------------------------------------------------------
(* Requests and locks                                                        *)

Done(w) ==
    /\ pc' = [pc EXCEPT ![w] = "idle"] /\ job' = [job EXCEPT ![w] = Idle]
    /\ held' = [held EXCEPT ![w] = {}] /\ plan' = [plan EXCEPT ![w] = <<>>]

Begin(w) ==
    \E q \in Requests :
        /\ pc[w] = "idle" /\ requests < MaxRequests
        /\ requests' = requests + 1
        /\ job' = [job EXCEPT ![w] = q] /\ pc' = [pc EXCEPT ![w] = "begun"]
        /\ UNCHANGED <<catalog, values, archived, staff, held, plan, aside, raced>>

FieldRow(f) == <<"field", f>>
SetRow(s) == <<"set", s>>
AssetRow(a) == <<"asset", a>>
DepartmentRow(d) == <<"department", d>>

\* Mutant: only the rows that change are locked.
NoHierarchyRow == {}

\* _lock_hierarchy: the settings row, for whatever changes the tree.
HierarchyRow == {<<"settings">>}

\* Mutant: an option is locked without its field.
OptionRowOnly(q) == {<<"option", q.field, q.value>>}

\* _lock_option_field: the field before its option.
OptionRows(q) == {FieldRow(q.field), <<"option", q.field, q.value>>}

\* replace_fieldset_items: the set, its fields and those to come.
ItemRows(q) == {SetRow(q.set)} \cup {FieldRow(f) : f \in Members(items[q.set]) \cup Members(q.items)}

LockedRows(q) ==
    CASE q.kind \in {"field", "new", "drop"} -> {FieldRow(q.field)}
      [] q.kind = "option" -> OptionRows(q)
      [] q.kind = "items" -> ItemRows(q)
      [] q.kind = "model" -> {<<"model", q.model>>}
      [] q.kind = "type" -> {<<"type", q.type>>}
      [] q.kind \in {"write", "archive"} -> {AssetRow(q.asset)}
      [] q.kind \in {"department", "close"} -> HierarchyRow \cup {DepartmentRow(q.department)}
      [] q.kind = "import" -> HierarchyRow \cup {DepartmentRow(d) : d \in There}
      [] q.kind = "person" -> {<<"person", q.person>>} \cup {DepartmentRow(d) : d \in q.locked}

Others(w) == UNION {held[v] : v \in Workers \ {w}}

Lock(w) ==
    /\ pc[w] = "begun"
    /\ LockedRows(job[w]) \cap Others(w) = {}
    /\ held' = [held EXCEPT ![w] = LockedRows(job[w])]
    /\ pc' = [pc EXCEPT ![w] = "locked"]
    /\ UNCHANGED <<catalog, values, archived, staff, job, plan, aside, raced, requests>>

-----------------------------------------------------------------------------
(* Checks                                                                    *)

\* _default_references_option
NamedAsDefault(f, v) == fields[f].kind = "choice" /\ fields[f].default = v

\* validate_custom_field: a default is one of the options that are active.
MayDefault(f, kind, v) == kind = "choice" /\ v # None => options[f][v] = "on"

MayEditField(q) ==
    LET f == q.field  old == fields[f] IN
    /\ old.in
    /\ old.shown /\ ~q.new.shown => \A s \in Sets : f \notin Required(items[s])
    /\ q.new.kind # old.kind =>
        /\ \A a \in Assets : values[a][f] = None
        /\ \A v \in Values : options[f][v] = "none"
    /\ MayDefault(f, q.new.kind, q.new.default)

MayAddField(q) == ~fields[q.field].in /\ MayDefault(q.field, q.new.kind, q.new.default)

\* _protect_delete of a field
MayDropField(q) ==
    /\ fields[q.field].in
    /\ \A a \in Assets : values[a][q.field] = None
    /\ \A s \in Sets : q.field \notin Members(items[s])
    /\ \A v \in Values : options[q.field][v] = "none"

\* validate_custom_field_option, and _protect_delete of an option
MayEditOption(q) ==
    LET now == options[q.field][q.value] IN
    /\ fields[q.field].in
    /\ (now = "none") = (q.op = "add")
    /\ q.op # "drop" => fields[q.field].kind = "choice"
    /\ q.op = "drop" \/ (q.op = "set" /\ q.to = "off") => ~NamedAsDefault(q.field, q.value)
    /\ q.op = "drop" => \A a \in Assets :
        values[a][q.field] # None => values[a][q.field].value # q.value

\* replace_fieldset_items, validate_fieldset_items
MayReplace(q) ==
    /\ \A f \in Members(q.items) : fields[f].in
    /\ \A f \in Required(q.items) : fields[f].shown
    /\ \A f \in Members(q.items) \ Members(items[q.set]) : fields[f].active
    /\ NoConflict(UsersOf(q.set), q.items)

\* validate_asset_model: only a change of the effective set matters.
MayEditModel(q) ==
    LET m == q.model IN
    Effective(q.new) # Effective(own[m]) =>
        NoConflict({a \in Live : Standard[a] = m}, ItemsOf(Effective(q.new)))

MayEditType(q) ==
    q.set # typeSet[q.type] => NoConflict(Affected(q.type), ItemsOf(q.set))

\* apply_asset_custom_values: what may be chosen, and what may be kept.
MayChoose(a, f, v) ==
    fields[f].kind = "choice" =>
        \/ options[f][v] = "on"
        \/ options[f][v] = "off" /\ values[a][f] # None /\ values[a][f].value = v

MayWrite(q) ==
    LET a == q.asset  its == ItemsOf(SetOf(a))  after(f) == IF f \in DOMAIN q.values THEN q.values[f]
                                                            ELSE values[a][f]
    IN /\ ~archived[a]
       /\ DOMAIN q.values \subseteq Members(its)
       /\ Filled(a) \subseteq Members(its) \/ q.discard
       /\ \A f \in Required(its) : fields[f].active => after(f) # None
       /\ \A f \in DOMAIN q.values :
           fields[f].active /\ (q.values[f] # None => MayChoose(a, f, q.values[f]))

\* validate_department_parent, when a department is edited
MayReparent(q) ==
    /\ q.to \in There \cup {None}
    /\ q.department \in There /\ q.to # None => q.department \notin Line(q.to)

MayImport(q) ==
    /\ \A d \in DOMAIN q.rows : q.rows[d] \in There \cup DOMAIN q.rows \cup {None}
    /\ Acyclic(Proposed(q.rows))

\* _protect_delete of a department, and the foreign key of its children
MayClose(q) ==
    /\ q.department \in There
    /\ \A p \in People : member[p] # q.department
    /\ \A d \in Departments : parent[d] # q.department

Allowed(q) ==
    CASE q.kind = "field" -> MayEditField(q)
      [] q.kind = "new" -> MayAddField(q)
      [] q.kind = "drop" -> MayDropField(q)
      [] q.kind = "option" -> MayEditOption(q)
      [] q.kind = "items" -> MayReplace(q)
      [] q.kind = "model" -> MayEditModel(q)
      [] q.kind = "type" -> MayEditType(q)
      [] q.kind = "write" -> MayWrite(q)
      [] q.kind = "archive" -> archived[q.asset] # q.to
      [] q.kind = "department" -> MayReparent(q)
      [] q.kind = "import" -> MayImport(q)
      [] q.kind = "close" -> MayClose(q)
      [] q.kind = "person" -> q.to \in There

\* The values that a write leaves, each in the column of the kind of its field.
Written(q) ==
    LET a == q.asset IN
    [f \in Fields |->
        IF f \in DOMAIN q.values
        THEN IF q.values[f] = None THEN None ELSE [kind |-> fields[f].kind, value |-> q.values[f]]
        ELSE IF f \in Members(ItemsOf(SetOf(a))) THEN values[a][f] ELSE None]

PlanOf(q) == IF q.kind = "write" THEN Written(q) ELSE <<>>

Check(w) ==
    /\ pc[w] = "locked" /\ Allowed(job[w])
    /\ plan' = [plan EXCEPT ![w] = PlanOf(job[w])]
    /\ pc' = [pc EXCEPT ![w] = "checked"]
    /\ UNCHANGED <<catalog, values, archived, staff, job, held, aside, raced, requests>>

\* A refusal, a lost connection, a crash: the transaction is rolled back.
Abort(w) ==
    /\ pc[w] # "idle"
    /\ Done(w)
    /\ UNCHANGED <<catalog, values, archived, staff, aside, raced, requests>>

-----------------------------------------------------------------------------
(* Writes                                                                    *)

At(w, kinds) == pc[w] = "checked" /\ job[w].kind \in kinds

\* The end of a transaction: is what was checked still so?
Commit(w) ==
    /\ raced' = (raced \/ ~Allowed(job[w]) \/ plan[w] # PlanOf(job[w]))
    /\ Done(w)
    /\ UNCHANGED requests

CommitField(w) ==
    LET q == job[w] IN
    /\ At(w, {"field", "new", "drop"})
    /\ fields' = [fields EXCEPT ![q.field] = IF q.kind = "drop" THEN NoField ELSE q.new]
    /\ Commit(w)
    /\ UNCHANGED <<options, items, typeSet, own, values, archived, staff, aside>>

CommitOption(w) ==
    LET q == job[w] IN
    /\ At(w, {"option"})
    /\ options' = [options EXCEPT ![q.field][q.value] = IF q.op = "drop" THEN "none" ELSE q.to]
    /\ Commit(w)
    /\ UNCHANGED <<fields, items, typeSet, own, values, archived, staff, aside>>

SetAside == aside' = aside \cup {a \in Assets : archived[a]}

CommitItems(w) ==
    LET q == job[w] IN
    /\ At(w, {"items"})
    /\ items' = [items EXCEPT ![q.set] = q.items]
    /\ SetAside
    /\ Commit(w)
    /\ UNCHANGED <<fields, options, typeSet, own, values, archived, staff>>

\* The foreign key locks the row of the set it names.
CommitModel(w) ==
    LET q == job[w] IN
    /\ At(w, {"model"})
    /\ SetRow(q.new.set) \notin Others(w)
    /\ own' = [own EXCEPT ![q.model] = q.new]
    /\ SetAside
    /\ Commit(w)
    /\ UNCHANGED <<fields, options, items, typeSet, values, archived, staff>>

CommitType(w) ==
    LET q == job[w] IN
    /\ At(w, {"type"})
    /\ SetRow(q.set) \notin Others(w)
    /\ typeSet' = [typeSet EXCEPT ![q.type] = q.set]
    /\ SetAside
    /\ Commit(w)
    /\ UNCHANGED <<fields, options, items, own, values, archived, staff>>

\* A value that is new inserts a row, whose foreign key locks its field.
CommitWrite(w) ==
    LET q == job[w]  new == {f \in Fields : values[q.asset][f] = None /\ plan[w][f] # None} IN
    /\ At(w, {"write"})
    /\ \A f \in new : FieldRow(f) \notin Others(w) /\ fields[f].in
    /\ values' = [values EXCEPT ![q.asset] = plan[w]]
    /\ aside' = aside \ {q.asset}
    /\ Commit(w)
    /\ UNCHANGED <<catalog, archived, staff>>

\* archive_asset, restore_asset
CommitArchive(w) ==
    LET q == job[w] IN
    /\ At(w, {"archive"})
    /\ archived' = [archived EXCEPT ![q.asset] = q.to]
    /\ Commit(w)
    /\ UNCHANGED <<catalog, values, staff, aside>>

Reparented(q) ==
    CASE q.kind = "department" -> [parent EXCEPT ![q.department] = q.to]
      [] q.kind = "close" -> [parent EXCEPT ![q.department] = "gone"]
      [] q.kind = "import" -> Proposed(q.rows)

\* The foreign key locks the row of the parent, and finds it.
CommitDepartments(w) ==
    /\ At(w, {"department", "close", "import"})
    /\ parent' = Reparented(job[w])
    /\ \A d \in Departments : parent'[d] \notin {parent[d], None, "gone"} =>
        DepartmentRow(parent'[d]) \notin Others(w) /\ parent'[parent'[d]] # "gone"
    /\ Commit(w)
    /\ UNCHANGED <<catalog, values, archived, member, aside>>

CommitPerson(w) ==
    LET q == job[w] IN
    /\ At(w, {"person"})
    /\ DepartmentRow(q.to) \notin Others(w) /\ q.to \in There
    /\ member' = [member EXCEPT ![q.person] = q.to]
    /\ Commit(w)
    /\ UNCHANGED <<catalog, values, archived, parent, aside>>

-----------------------------------------------------------------------------
Init ==
    /\ fields = FirstFields /\ options = FirstOptions /\ items = FirstItems
    /\ typeSet = FirstSets /\ own = FirstOwn /\ values = FirstValues
    /\ archived = [a \in Assets |-> FALSE]
    /\ parent = FirstParents /\ member = [p \in People |-> None]
    /\ job = [w \in Workers |-> Idle] /\ pc = [w \in Workers |-> "idle"]
    /\ held = [w \in Workers |-> {}] /\ plan = [w \in Workers |-> <<>>]
    /\ aside = {} /\ raced = FALSE /\ requests = 0

Next ==
    \E w \in Workers :
        \/ Begin(w) \/ Lock(w) \/ Check(w) \/ Abort(w)
        \/ CommitField(w) \/ CommitOption(w) \/ CommitItems(w) \/ CommitModel(w) \/ CommitType(w)
        \/ CommitWrite(w) \/ CommitArchive(w) \/ CommitDepartments(w) \/ CommitPerson(w)

Spec == Init /\ [][Next]_vars

-----------------------------------------------------------------------------
(* Properties *)

TypeOK ==
    /\ \A f \in Fields : fields[f].kind \in {"text", "choice"} /\ fields[f].default \in Values \cup {None}
    /\ options \in [Fields -> [Values -> {"on", "off", "none"}]]
    /\ items \in [Sets -> ItemList]
    /\ typeSet \in [Types -> Sets \cup {None}] /\ own \in [Models -> ModelRow]
    /\ values \in [Assets -> ValueRow]
    /\ archived \in [Assets -> BOOLEAN] /\ aside \subseteq Assets
    /\ parent \in [Departments -> Departments \cup {None, "gone"}]
    /\ member \in [People -> Departments \cup {None}]
    /\ \A w \in Workers : job[w] \in Requests \cup {Idle}
    /\ requests \in 0 .. MaxRequests

\* The definitions agree, whoever edits a field, its options and its sets at
\* once: the default of a choice is an option that is active, only choices have
\* options, and a set requires no field that is hidden or gone.
DefinitionsAgree ==
    /\ TypeOK
    /\ \A f \in Fields :
        /\ fields[f].kind = "choice" /\ fields[f].default # None => options[f][fields[f].default] = "on"
        /\ \A v \in Values : options[f][v] # "none" => fields[f].in /\ fields[f].kind = "choice"
    /\ \A s \in Sets :
        /\ \A f \in Members(items[s]) : fields[f].in
        /\ \A f \in Required(items[s]) : fields[f].shown

\* A value is in the column of its field's kind and names an option that is
\* there, and its field is in the asset's set, unless two requests overlapped so
\* that one checked what the other was about to change, or the set changed while
\* the asset was archived.  So the checks leave out no way by which a field, an
\* option, a set, a type or a model reaches the values of an asset.
MisfitsNeedARace ==
    raced \/ \A a \in Assets : \A f \in Filled(a) :
        /\ values[a][f].kind = fields[f].kind
        /\ fields[f].kind = "choice" => options[f][values[a][f].value] # "none"
        /\ a \in aside \/ f \in Members(ItemsOf(SetOf(a)))

\* However departments are moved, imported and removed at once, no department is
\* above itself, and no department or person hangs on one that is gone.
HierarchyIsATree ==
    /\ Acyclic(parent)
    /\ \A d \in There : parent[d] \in There \cup {None}
    /\ \A p \in People : member[p] \in There \cup {None}

\* The catalog, the values of the assets and the departments fit together.
CatalogIsSound == DefinitionsAgree /\ MisfitsNeedARace /\ HierarchyIsATree
=============================================================================
