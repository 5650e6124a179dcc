SPECIFICATION FairSpec
CONSTANTS
    Users = {u1}
    Seeded = {}
    Roles = {"admin", "manager"}
    Access = {a1}
    Refresh = {p1, p2}
    Calls = {c1, c2}
    Requests = {r1}
    Edits = {e1, e2}
    Deleted = Deleted
    None = None
INVARIANTS TypeOK LogoutHolds RotatesOnce 
PROPERTY SessionsSettle
CHECK_DEADLOCK FALSE
