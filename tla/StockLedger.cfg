\* Safety of the stock ledger: retried movements against facility writes.
CONSTANTS
    Parts = {1, 2}
    Centers = {1, 2}
    Rooms = {11}
    HomeCenter <- Home
    Keys = {1, 2}
    Movements <- StockMoves
    RoomChanges = {"open", "close", "move"}
    CenterChanges = {"open", "close"}
    Workers = {w1, w2}
    MaxCalls = 2
    MaxWrites = 2
SPECIFICATION Spec
SYMMETRY Symmetry
INVARIANTS
    StockIsSound
    LedgerExplainsStock
    AppliedOnce
    RingsNeedAMove
PROPERTIES
    BookSpec
CHECK_DEADLOCK FALSE
