------------------------------- MODULE RackMap --------------------------------
(***************************************************************************)
(* What the rack view promises, without spans, row locks or transactions:  *)
(* each U of a rack has one owner or none, devices take U that are free,   *)
(* and a device is where its rack is, after every step.                    *)
(***************************************************************************)
EXTENDS Integers

CONSTANTS
    Racks, Assets, Centers,
    Sizes           \* numbers of U that a rack may be given

VARIABLES
    units,          \* owner of each U of each rack
    site,           \* the center each rack is in
    open,           \* racks that may be used
    found,          \* the center where each asset is said to be
    retired         \* assets that are out of service

vars == <<units, site, open, found, retired>>

Nobody == <<"nobody", 0, 0>>
Device(a) == <<"device", a, a>>
Hold(lo, hi) == <<"hold", lo, hi>>

-----------------------------------------------------------------------------
(* A rack as a row of owners                                                 *)

Has(row, x) == \E u \in DOMAIN row : row[u] = x
Without(row, x) == [u \in DOMAIN row |-> IF row[u] = x THEN Nobody ELSE row[u]]
With(row, lo, hi, x) == [u \in DOMAIN row |-> IF u \in lo..hi THEN x ELSE row[u]]
Resized(row, n) == [u \in 1..n |-> IF u \in DOMAIN row THEN row[u] ELSE Nobody]

\* The U from lo to hi are there, have no owner but those of mine, and none of
\* them is the single U between two neighbours.
Available(row, lo, hi, mine) ==
    LET Taken(u) == u \in DOMAIN row /\ row[u] \notin mine \cup {Nobody} IN
    /\ lo <= hi /\ lo..hi \subseteq DOMAIN row
    /\ \A u \in lo..hi : ~Taken(u) /\ ~(Taken(u - 1) /\ Taken(u + 1))

-----------------------------------------------------------------------------
Init ==
    /\ \A k \in Racks : \A u \in DOMAIN units[k] : units[k][u] = Nobody
    /\ open = Racks /\ retired = {}

\* A device may take the U that are held for it, and leaves those it had.
Mount(a, k, lo, hi) ==
    /\ a \notin retired /\ k \in open
    /\ Available(units[k], lo, hi, {Device(a), Hold(lo, hi)})
    /\ units' = [j \in Racks |->
                   IF j = k THEN With(Without(units[k], Device(a)), lo, hi, Device(a))
                            ELSE Without(units[j], Device(a))]
    /\ found' = [found EXCEPT ![a] = site[k]]
    /\ UNCHANGED <<site, open, retired>>

Unmount(a) ==
    /\ units' = [k \in Racks |-> Without(units[k], Device(a))]
    /\ \A b \in Assets \ {a} : found'[b] = found[b]
    /\ UNCHANGED <<site, open, retired>>

Retire(a) ==
    /\ \A k \in Racks : ~Has(units[k], Device(a))
    /\ retired' = retired \cup {a}
    /\ UNCHANGED <<units, site, open, found>>

Reserve(k, lo, hi) ==
    /\ k \in open /\ Available(units[k], lo, hi, {})
    /\ units' = [units EXCEPT ![k] = With(@, lo, hi, Hold(lo, hi))]
    /\ UNCHANGED <<site, open, found, retired>>

Release(k, lo, hi) ==
    /\ Has(units[k], Hold(lo, hi))
    /\ units' = [units EXCEPT ![k] = Without(@, Hold(lo, hi))]
    /\ UNCHANGED <<site, open, found, retired>>

\* Racks come to be in center c, and what is mounted in them with them.
Carry(racks, c) ==
    /\ site' = [k \in Racks |-> IF k \in racks THEN c ELSE site[k]]
    /\ found' = [a \in Assets |->
                   IF \E k \in racks : Has(units[k], Device(a)) THEN c ELSE found[a]]
    /\ open' \subseteq Racks
    /\ UNCHANGED retired

\* A rack gets n U, and perhaps another place; the U it loses have no owner.
Refit(k, n, c) ==
    /\ \A u \in DOMAIN units[k] : u > n => units[k][u] = Nobody
    /\ units' = [units EXCEPT ![k] = Resized(@, n)]
    /\ Carry({k}, c)

\* Rooms move, and rooms and centers are opened and closed.
Rearrange(racks, c) == UNCHANGED units /\ Carry(racks, c)

\* A step that changes nothing is left to the specification.
Next ==
    /\ vars' # vars
    /\ \/ \E c \in Centers : \/ \E racks \in SUBSET Racks : Rearrange(racks, c)
                             \/ \E k \in Racks, n \in Sizes : Refit(k, n, c)
       \/ \E a \in Assets : Unmount(a) \/ Retire(a)
       \/ \E k \in Racks : \E lo, hi \in DOMAIN units[k] :
             (\E a \in Assets : Mount(a, k, lo, hi)) \/ Reserve(k, lo, hi) \/ Release(k, lo, hi)

Spec == Init /\ [][Next]_vars
=============================================================================
