\* One rack, two devices, holds, and facilities that move, shrink and close.
CONSTANTS
    Centers = {1, 2}
    Rooms = {11, 12}
    Racks = {21}
    Assets = {31, 32}
    HomeCenter <- HomeCenters
    HomeRoom <- HomeRooms
    HomeSize = 4
    Requests <- RackRequests
    MaxRequests = 5
    Workers = {w1, w2}
SPECIFICATION Spec
SYMMETRY Symmetry
INVARIANTS
    PlacementIsSound
PROPERTIES
    MovesAreAllowed
    MapSpec
CHECK_DEADLOCK FALSE
