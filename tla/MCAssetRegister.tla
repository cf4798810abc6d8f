---------------------------- MODULE MCAssetRegister ----------------------------
(* A small register: a user with two rules, a manager, and their requests.     *)
EXTENDS AssetRegister, TLC

Rule(c, d) == [readCenters |-> {}, readDepartments |-> {}, writeCenters |-> {c}, writeDepartments |-> {d}]
Viewer == [readCenters |-> {1}, readDepartments |-> {1, 2}, writeCenters |-> {}, writeDepartments |-> {}]

\* Department 1 in center 1, department 2 in center 2; later only the former
\* with a look at the rest of center 1.
TwoRules == {Rule(1, 1), Rule(2, 2)}
OneRule == {Rule(1, 1), Viewer}
MCGrants == {TwoRules, OneRule}

Row(c, k, d) == [Missing EXCEPT !.in = TRUE, !.center = c, !.rack = k, !.department = d, !.rev = 1]
MCAssets == "a1" :> Row(1, 0, 1) @@ "a2" :> Missing
MCRackCenter == 21 :> 1
MCHomeDepartment == 31 :> 1

Edit(u, of, match, c, d, note) ==
    [kind |-> "edit", user |-> u, assets |-> of, match |-> match, center |-> c, department |-> d, note |-> note]
Place1(u, k) == [kind |-> "place", user |-> u, assets |-> <<"a1">>, match |-> TRUE, rack |-> k]
Do(u, kind, of) == [kind |-> kind, user |-> u, assets |-> of]
Give(u, kind, of, p) == [kind |-> kind, user |-> u, assets |-> of, person |-> p]
New(a, c, k, d, p) == [asset |-> a, center |-> c, rack |-> k, department |-> d, holder |-> p]

ScopedRequests ==
    {[kind |-> "read", user |-> "u"],
     Edit("u", <<"a1">>, TRUE, Keep, Keep, 1), Edit("u", <<"a1">>, TRUE, 2, 2, 2),
     Edit("u", <<"a1">>, TRUE, Keep, 2, 1), Edit("u", <<"a2", "a1">>, FALSE, Keep, Keep, 2),
     Place1("u", 21), Give("u", "assign", <<"a1">>, 31), Do("u", "return", <<"a1">>),
     Do("u", "dispose", <<"a1">>), Do("u", "archive", <<"a1", "a2">>),
     [kind |-> "create", user |-> "u", rows |-> {New("a2", 1, 0, 1, 31)}],
     [kind |-> "rack", user |-> "u", rack |-> 21, to |-> 2]}

ManagerRequests ==
    {Edit("m", <<"a1">>, TRUE, Keep, 2, 1), Place1("m", 0), Do("m", "clear", <<"a1", "a2">>),
     Give("m", "transfer", <<"a1">>, 31), Do("m", "restore", <<"a1">>),
     [kind |-> "create", user |-> "m", rows |-> {New("a2", 1, 21, 2, 0)}],
     [kind |-> "rack", user |-> "m", rack |-> 21, to |-> 2],
     [kind |-> "person", user |-> "m", person |-> 31, to |-> "inactive"],
     [kind |-> "person", user |-> "m", person |-> 31, to |-> "gone"],
     [kind |-> "grant", user |-> "m", of |-> "u", rules |-> OneRule],
     [kind |-> "grant", user |-> "m", of |-> "u", rules |-> TwoRules]}

RegisterRequests == ScopedRequests \cup ManagerRequests

Symmetry == Permutations(Workers)
=============================================================================
