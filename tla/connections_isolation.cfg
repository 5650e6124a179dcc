SPECIFICATION Spec
CONSTANTS
    t1 = t1
    t2 = t2
    Tenants <- MCTenants
    Requests = {r1, r2}
    Conns = {c1, c2}
    SlotIds = {s1, s2, s3}
    CappedTiers <- MCCappedTiers
    Vip = "vip"
    Caps <- MCCaps
    TierOf <- StaleTiers
    QueryLimit = 2
    Changes <- AllChanges
    None = None
    Leaked = Leaked
SYMMETRY Symmetry
INVARIANT TypeOK
INVARIANT Isolation
INVARIANT IdleConnectionsAreClean
