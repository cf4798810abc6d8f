--------------------------- MODULE MCInventoryCount ---------------------------
(* A small data center: two racks in two rooms, two assets, one task.          *)
EXTENDS InventoryCount, TLC

Rack1 == "r1"
Rack2 == "r2"

InRooms == Rack1 :> "m1" @@ Rack2 :> "m2"
InCenters == "m1" :> "c1" @@ "m2" :> "c2"
AtFirst == "a1" :> Rack1 @@ "a2" :> "c2"

Seen(a, s, p) == [kind |-> "observe", asset |-> a, status |-> s, at |-> p]
On(kind, a) == [kind |-> kind, asset |-> a]
Solve(a, how) == [kind |-> "resolve", asset |-> a, action |-> how]
OnTask(kind) == [kind |-> kind]
Create(s) == [kind |-> "create", scope |-> s]
Put(a, p) == [kind |-> "place", asset |-> a, at |-> p]

CountRequests ==
    {Create("m1"), Create("c1"), Create("all_assets")}
      \cup {Seen("a1", "location_mismatch", Rack2), Seen("a1", "pending", Unclear),
            Seen("a1", "normal", Unclear), Seen("a1", "not_found", Unclear)}
      \cup {On("confirm", a) : a \in {"a1", "a2"}} \cup {On(k, "a2") : k \in {"archive", "restore"}}
      \cup {Solve("a1", k) : k \in {"update_asset", "keep_asset", "confirm_missing"}}
      \cup {OnTask(k) : k \in {"complete", "reopen", "delete"}}
      \cup {Put("a1", "c1"), Put("a2", "c1"), Put("a2", Rack2)}

Symmetry == Permutations(Workers)
=============================================================================
