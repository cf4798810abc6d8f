\* A first login that has read the old configuration, and a change of the attribute.
CONSTANTS
    Studies = {"accounts"}
    Workers = {w1, w2}
    None = None
    People = {p1}
    Ids = {1, 2, 3, 4}
    Names = {ann, bob, cat, dan}
    Texts = {x, y}
    Entries = {e1, e2}
    FirstAttr = uid
    FirstAccounts <- MCAccounts
    FirstDirectory <- MCDirectory
    AccountRequests <- MCAccountRequests
    Fields = {f1, f2}
    Sets = {s1, s2}
    Types = {t1}
    Models = {m1}
    Assets = {a1, a2}
    Values = {x, y}
    Departments = {d1, d2, d3}
    Standard <- MCStandard
    Standalone <- MCStandalone
    FirstFields <- MCFields
    FirstOptions <- MCOptions
    FirstItems <- MCItems
    FirstSets <- MCSets
    FirstOwn <- MCOwn
    FirstValues <- MCValues
    FirstParents <- MCParents
    CatalogRequests <- MCCatalogRequests
    x = x
    y = y
    p1 = p1
    MaxRequests = 3
    MaxChanges = 1
    ann = ann
    bob = bob
    cat = cat
    dan = dan
    e1 = e1
    e2 = e2
    uid = uid
    uuid = uuid
    Users = {u1}
    Sessions = {z1, z2}
    Window = 0
    LockTime = 1
    MaxAttempts = 2
    Expiry = 2
    LastTick = 2
    MaxSecrets = 1
    MaxCalls = 4
    Clients = {c1, c2}
    MaxSaves = 3
    MaxEdits = 4
    f1 = f1
    f2 = f2
    s1 = s1
    s2 = s2
    t1 = t1
    m1 = m1
    a1 = a1
    a2 = a2
    d1 = d1
    d2 = d2
    d3 = d3
SPECIFICATION Spec
SYMMETRY Symmetry
INVARIANT
    AnchorsHold
CHECK_DEADLOCK FALSE
