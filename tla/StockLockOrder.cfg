\* The documented lock order, with rooms that move to another center.
CONSTANTS
    Parts = {1, 2}
    Centers = {1, 2}
    Rooms = {11}
    HomeCenter <- Home
    Keys = {1}
    Movements <- StockMoves
    RoomChanges = {"move"}
    CenterChanges = {}
    Workers = {w1, w2}
    MaxCalls = 1
    MaxWrites = 2
SPECIFICATION Spec
INVARIANTS
    LockedInOrder
CHECK_DEADLOCK FALSE
