SPECIFICATION FairSpec
CONSTANTS
    Customers = {u1}
    Cases = {k1}
    Statuses = {"open", "resolved", "closed"}
    Campaigns = {m1}
    Triggers = {t1}
    Calls = {c1, c2}
    None = None
INVARIANTS TypeOK SummaryAdds
PROPERTIES CasesStayListed CustomersAreAnnounced
CHECK_DEADLOCK FALSE
