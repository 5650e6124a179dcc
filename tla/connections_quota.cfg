SPECIFICATION FairSpec
CONSTANTS
    t1 = t1
    t2 = t2
    Tenants <- MCTenants
    Requests = {r1, r2, r3}
    Conns = {c1, c2}
    SlotIds = {s1, s2}
    CappedTiers <- MCCappedTiers
    Vip = "vip"
    Caps <- MCCaps
    TierOf <- CappedOnly
    QueryLimit = 1
    Changes <- Raises
    None = None
    Leaked = Leaked
INVARIANT CapRespected
PROPERTY WaitEnds
