---------------------------- MODULE MCAdministration ----------------------------
(***************************************************************************)
(* Administration on small instances, for the run Administration.cfg.      *)
(***************************************************************************)
EXTENDS Administration, TLC

CONSTANTS x, y, p1, ann, bob, cat, dan, e1, e2, uid, uuid, f1, f2, s1, s2, t1, m1, a1, a2, d1, d2, d3

-----------------------------------------------------------------------------
(* Accounts: two administrators, two users of the directory, one person. *)

Own(name, super) ==
    [name |-> name, super |-> super, role |-> "admin", active |-> TRUE, text |-> x, locale |-> "zh",
     password |-> "own", revision |-> 1, for |-> None]
MCAccounts == 1 :> Own(ann, TRUE) @@ 2 :> Own(bob, FALSE)
MCDirectory == e1 :> [login |-> cat, text |-> x, on |-> TRUE] @@ e2 :> [login |-> dan, text |-> y, on |-> TRUE]

Edit(by, u, set) == [kind |-> "edit", by |-> by, user |-> u, set |-> set]
Create(by, name, role) ==
    [kind |-> "create", by |-> by, name |-> name, role |-> role, text |-> x, person |-> p1]
MCAccountRequests ==
    {Edit(1, 2, [text |-> y]), Edit(1, 2, [role |-> "auditor"]), Edit(2, 3, [text |-> y]),
     Edit(2, 1, [active |-> FALSE]),
     [kind |-> "batch", by |-> 1, users |-> <<2, 3>>, active |-> FALSE],
     [kind |-> "batch", by |-> 1, users |-> <<3>>, active |-> TRUE],
     [kind |-> "profile", user |-> 2, set |-> [text |-> y]],
     [kind |-> "profile", user |-> 2, set |-> [locale |-> "en"]],
     [kind |-> "reset", by |-> 1, user |-> 3], [kind |-> "password", user |-> 2],
     [kind |-> "delete", by |-> 1, user |-> 2], [kind |-> "delete", by |-> 1, user |-> 3],
     Create(1, cat, "auditor"), Create(2, bob, "admin"), Create(2, dan, "admin"),
     [kind |-> "login", name |-> cat], [kind |-> "login", name |-> bob], [kind |-> "login", name |-> dan],
     [kind |-> "directory", by |-> 1, attr |-> uuid, enabled |-> TRUE],
     [kind |-> "directory", by |-> 2, attr |-> uid, enabled |-> FALSE]}

-----------------------------------------------------------------------------
(* Catalog: a choice and a text; a model that may have a set of its own, and   *)
(* an asset without a model, which have the set of their device type.         *)

Field(kind, shown, active, default) ==
    [in |-> TRUE, kind |-> kind, shown |-> shown, active |-> active, default |-> default]
Its(i, j) == f1 :> i @@ f2 :> j
Val(kind, v) == [kind |-> kind, value |-> v]

MCStandard == a1 :> m1 @@ a2 :> None
MCStandalone == a1 :> None @@ a2 :> t1
MCFields == f1 :> Field("choice", TRUE, TRUE, None) @@ f2 :> Field("text", TRUE, TRUE, None)
MCOptions == f1 :> (x :> "on" @@ y :> "off") @@ f2 :> (x :> "none" @@ y :> "none")
MCItems == s1 :> Its("in", "out") @@ s2 :> Its("in", "in")
MCSets == t1 :> s1
MCOwn == m1 :> [set |-> None, type |-> t1]
MCValues == a1 :> (f1 :> Val("choice", x) @@ f2 :> None) @@ a2 :> (f1 :> None @@ f2 :> None)
\* d3 is below d2.
MCParents == d1 :> None @@ d2 :> None @@ d3 :> d2

EditField(f, new) == [kind |-> "field", field |-> f, new |-> new]
Option(op, f, v, to) == [kind |-> "option", op |-> op, field |-> f, value |-> v, to |-> to]
Replace(s, its) == [kind |-> "items", set |-> s, items |-> its]
Reparent(d, to) == [kind |-> "department", department |-> d, to |-> to]
Write(a, new, discard) == [kind |-> "write", asset |-> a, values |-> new, discard |-> discard]

MCCatalogRequests ==
    {EditField(f1, Field("choice", TRUE, TRUE, x)), EditField(f1, Field("choice", FALSE, TRUE, None)),
     EditField(f1, Field("text", TRUE, TRUE, None)), EditField(f2, Field("choice", TRUE, TRUE, None)),
     EditField(f2, Field("text", TRUE, FALSE, x)),
     [kind |-> "drop", field |-> f2], [kind |-> "new", field |-> f2, new |-> Field("choice", TRUE, TRUE, None)],
     Option("set", f1, x, "off"), Option("drop", f1, x, "none"), Option("add", f2, x, "on"),
     Replace(s1, Its("required", "in")), Replace(s1, Its("out", "in")), Replace(s2, Its("required", "out")),
     [kind |-> "model", model |-> m1, new |-> [set |-> s2, type |-> t1]],
     [kind |-> "type", type |-> t1, set |-> s2], [kind |-> "type", type |-> t1, set |-> None],
     Write(a1, f1 :> None, FALSE), Write(a1, f2 :> x, TRUE), Write(a2, f1 :> x @@ f2 :> x, FALSE),
     Write(a2, f1 :> x, FALSE),
     [kind |-> "archive", asset |-> a1, to |-> TRUE], [kind |-> "archive", asset |-> a1, to |-> FALSE],
     Reparent(d1, d3), Reparent(d2, d1), Reparent(d1, d2),
     [kind |-> "import", rows |-> d1 :> d2 @@ d2 :> d3 @@ d3 :> None],
     [kind |-> "import", rows |-> d1 :> None @@ d2 :> d1],
     [kind |-> "close", department |-> d1],
     [kind |-> "person", person |-> p1, to |-> d1, locked |-> {}],
     [kind |-> "person", person |-> p1, to |-> d3, locked |-> {d3}]}

-----------------------------------------------------------------------------
Symmetry == Permutations(Workers) \cup Permutations(Sessions) \cup Permutations(Clients)
=============================================================================
