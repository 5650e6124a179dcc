SPECIFICATION Spec
CONSTANTS
    Tenants = {t1}
    Slugs = {acme}
    Rows = {x}
    Admins = {a1}
    CappedTiers <- OnlyBasic
    Vip = "vip"
    CreatePlans <- OnlyBasic
    Plans <- UpAndDown
    StatusInputs <- NoStatus
    Operations <- CreateAndWrite
    Faults <- StepAndEnqueue
    MaxJobs = 1
    None = None
PROPERTY RowsOutliveFailedMigrations
CHECK_DEADLOCK FALSE
