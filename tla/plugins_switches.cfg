SPECIFICATION Spec
CONSTANTS
    Plugins = {"customer_data", "customer_care"}
    Tiers = {"basic", "premium", "vip"}
    Calls = {c1, c2}
    Requests = {r1}
    Jobs = {j1, j2}
    None = None
INVARIANTS TypeOK StaleIsExplained
PROPERTIES TogglesKeepClosure ConfirmedGoesDown InitialisedOnce
SYMMETRY Symmetry
CHECK_DEADLOCK FALSE
