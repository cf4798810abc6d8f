\* Three runs (backups, restores, recoveries) with three errors or crashes; two HTTP
\* workers, a backup and a restore, two pages, one crash; a reset and two other requests.
CONSTANTS
    Studies = {"backup", "web", "reset"}
    Files = {f1, f2}
    MaxEdits = 2
    MaxRuns = 2
    MaxFaults = 3
    Clients = {"c1", "c2"}
    Pages = {"p1", "p2"}
    Backups = {"b"}
    Restores = {"r"}
    MaxCrashes = 1
    MaxCli = 1
    MaxInserts = 2
    Inserted = {"assets", "transactions", "custom_values", "identities", "attachments"}
SPECIFICATION Spec
INVARIANTS
    OpenIsWhole
    ArchivesAreWhole
    ReceiptsAreTrue
    ResetIsWhole
PROPERTIES
    ReopensAsAsked
    AlwaysRecoverable
    ReceiptsStay
    OutcomeIsLearned
\* A run, an operation or a reset may be over for good.
CHECK_DEADLOCK FALSE
