SPECIFICATION FairSpec
CONSTANTS
    t1 = t1
    s1 = s1
    None = None
    Tenants <- MCTenants
    Slugs <- MCSlugs
    Requests = {r1}
    Admins = {a1}
    CappedTiers <- MCCappedTiers
    Vip = "vip"
    Limit <- MCLimit
    PlanInputs = {"basic", "vip"}
    StatusInputs = {"suspended"}
    Window = 2
    MaxTime = 3
    MaxChanges = 3
    MaxCount = 2
    MaxCrashes = 1
INVARIANTS TypeOK AfterInvalidation  
PROPERTY RefusedAtLast
CHECK_DEADLOCK FALSE
