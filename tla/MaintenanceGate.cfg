\* Two requests that keep arriving, two runs, two kills.
CONSTANTS
    None = None
    Requests = {r1, r2}
    Runs = {m1, m2}
    MaxKills = 2
SPECIFICATION FairSpec
INVARIANTS
    AdmittedIsSafe
    LiveMarkerStays
PROPERTIES
    DirtyUntilVerified
    BarrierSpec
    NobodyWaitsForEver
