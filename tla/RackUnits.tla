------------------------------ MODULE RackUnits -------------------------------
(***************************************************************************)
(* The capacity rule of a rack: rack_position_ranges of                    *)
(* assets/physical_location.py.  A span is a record with its lowest and    *)
(* highest U, lo and hi; rows are the spans of devices and active holds.   *)
(***************************************************************************)
EXTENDS Integers

Units(row) == row.lo .. row.hi

Covered(rows) == UNION {Units(x) : x \in rows}

Overlap(x, y) == x.lo <= y.hi /\ y.lo <= x.hi

\* A single U between two neighbours stays empty.
GapUnits(rows) ==
    {x.hi + 1 : x \in {y \in rows : \E z \in rows : z.lo = y.hi + 2}} \ Covered(rows)

\* Mutant (nothing uses it): a gap between neighbours is free as well.
FreeUnitsInGaps(rows, total) == (1 .. total) \ Covered(rows)

FreeUnits(rows, total) == (1 .. total) \ (Covered(rows) \cup GapUnits(rows))

\* The span of a device of some height that starts at lo.
Span(lo, height) == [lo |-> lo, hi |-> lo + height - 1]

Fits(row, rows, total) == Units(row) # {} /\ Units(row) \subseteq FreeUnits(rows, total)
=============================================================================
