\* Two assets, two racks in two rooms, one task, two transactions at a time.
CONSTANTS
    Workers = {w1, w2}
    Assets = {"a1", "a2"}
    Racks = {"r1", "r2"}
    Rooms = {"m1", "m2"}
    Centers = {"c1", "c2"}
    FirstRoom <- InRooms
    FirstCenter <- InCenters
    FirstPlace <- AtFirst
    Requests <- CountRequests
    MaxRequests = 5
    MaxMoves = 1
SPECIFICATION Spec
SYMMETRY Symmetry
INVARIANTS
    CountIsSound
PROPERTIES
    EvidenceIsKept
    CorrectionsAreSeen
CHECK_DEADLOCK FALSE
