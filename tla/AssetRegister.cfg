\* One asset and a new one, one rack, one person; a scoped user and a manager.
CONSTANTS
    Workers = {w1, w2}
    Users = {"u", "m"}
    Managers = {"m"}
    Assets = {"a1", "a2"}
    Racks = {21}
    People = {31}
    Centers = {1, 2}
    Departments = {1, 2}
    Grants <- MCGrants
    FirstGrant <- TwoRules
    FirstAssets <- MCAssets
    HomeCenter <- MCRackCenter
    HomeDepartment <- MCHomeDepartment
    Requests <- RegisterRequests
    MaxRequests = 4
SPECIFICATION Spec
SYMMETRY Symmetry
INVARIANTS
    RecordsAgree
PROPERTIES
    EditsSeeEveryChange
    MonitorSpec
CHECK_DEADLOCK FALSE
