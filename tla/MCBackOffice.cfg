SPECIFICATION BackOfficeSpec
CONSTANTS
    Parts = {"leads", "credits", "operators", "payroll", "files"}
    w1 = w1
    c1 = c1
    s1 = s1
    s2 = s2
    b1 = b1
    Workers = {w1}
    Crons = {c1}
    Overlapping = FALSE
    Subjects = {s1, s2}
    Charges = {b1}
    Amounts = {0, 2}
    DaysInMonth = 2
    LastDay = 4
    MaxLots = 2
    Allocatable = 2
    PoolMode = "block"
    RolloverCap = 1
    r1 = r1
    r2 = r2
    Requests = {r1, r2}
    NoLimit = 99
    Stages = {"new", "tour", "won"}
    LeadLimits = {1}
    MaxLeads = 2
    Slugs <- MCSlugs
    Statuses = {"trial", "active", "hold", "suspended"}
    Keep = "keep"
    Edits <- MCEdits
    MaxOperators = 2
    Worked = {1}
    Staff = {"m1"}
    Pays = {1}
    MaxSalaries = 3
    MaxRuns = 1
    Sizes = {1}
    StorageLimits = {1, 2}
    MAX_PHOTOS = 1
    MaxFiles = 3
SYMMETRY AnyRequest
INVARIANTS
    CreditsSound
    ApplicationMakesOne
    LeaversAreNotPaid
PROPERTIES
    LeadsKept
    SuspensionHolds
    StoredWithinLimit
CHECK_DEADLOCK FALSE
