\* Two transactions at a time, six in all, on two faults of one asset; racks of up
\* to 7 U with batches of up to 4 devices of up to 3 U; two overlapping runs of the
\* digest over two short days; two rows of each kind of alert over three days; two
\* entries of a timeline; figures over the days of a short year.
CONSTANTS
    Studies = {"repair", "plan", "digest", "alerts", "timeline", "value"}
    Workers = {w1, w2}
    Assets = {1}
    Faults = {11, 12}
    Normal = {"in_use", "idle"}
    FirstStatus = "in_use"
    MaxRequests = 6
    MaxTotal = 7
    MaxHeight = 3
    MaxQuantity = 4
    Recipients = {r1}
    Runs = {p1, p2}
    Hours = 3
    DigestDays = 1
    MaxStarts = 4
    Slots <- TheSlots
    Audiences <- TheAudiences
    MaxDay = 2
    Windows = {0, 2}
    Limit = 1
    MaxEdits = 3
    NoDate = 99
    c1 = c1
    c2 = c2
    d1 = d1
    Centers = {c1, c2}
    Departments = {d1}
    Nowhere = Nowhere
    MaxEvents = 2
    MonthLength <- TheMonths
    Year = 2
    Unit = 4
    Amounts = {3, 5}
    Terms = {1, 2}
    Rates = {0, 1, 4}
    Notice = 2
    MaxChanges = 1
SPECIFICATION Spec
SYMMETRY Symmetry
INVARIANTS
    RepairsAgree
    RepairsDoNotDeadlock
    PlanIsBest
    AtMostOneDigest
    AlertsAreTrue
    DetailsFollowTheEvent
    ValuesAreSteady
PROPERTIES
    HistoryIsKept
\* Requests, days and edits run out.
CHECK_DEADLOCK FALSE
