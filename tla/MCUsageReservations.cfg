SPECIFICATION GrantsSpec
CONSTANTS
    k1 = k1
    k2 = k2
    b1 = b1
    b2 = b2
    p1 = p1
    p2 = p2
    nobody = nobody
    Keys = {k1, k2}
    Buckets = {b1, b2}
    Quantities = {1}
    Limits = {0, 1, 2, 3, 4}
    Procs = {p1, p2}
    NoProc = nobody
    OfferGrants <- Offered
    TenantGrants <- Extras
    MaxGrants = 2
    MaxAllowances = 2
INVARIANT
    AllowanceKept
PROPERTIES
    ImplementsLedger
    EveryRequestEnds
    MoreIsNeverLess
CHECK_DEADLOCK FALSE
