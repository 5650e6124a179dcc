SPECIFICATION Spec
CONSTANTS
    Tenants = {t1}
    Slugs = {acme}
    Rows = {x}
    Admins = {a1, a2}
    CappedTiers <- OnlyBasic
    Vip = "vip"
    CreatePlans <- OnlyBasic
    Plans <- UpOnly
    StatusInputs <- NoStatus
    Operations <- Everything
    Faults <- BeforeCommit
    MaxJobs = 1
    None = None
SYMMETRY Symmetry
INVARIANTS TypeOK DatabaseOfRowExists  
CHECK_DEADLOCK FALSE
