SPECIFICATION OfficeSpec
CONSTANTS
    Parts = {"people", "news", "mails", "commission"}
    boss = boss
    e1 = e1
    e2 = e2
    other = other
    mate = mate
    People = {boss, e1, e2, other, mate}
    KindOf <- MCKindOf
    Boss = boss
    MaxEmployees = 1
    EditedStatuses = {"active", "suspended", "churned"}
    MaxStamps <- MCMaxStamps
    Readers = {e1}
    Team = {mate}
    Soon = 1
    PostAge = 1
    StaleAfter = 1
    LastMoment = 2
    MaxChanges = 2
    Runs = {"r1", "r2"}
    Agreements <- MCAgreements
    DueDays = {0}
    RenewalDays = 2
    NearDays = 0
    LockInDays = 1
    LeavingDays = 1
    Earlier <- MCEarlier
    LastDay = 1
    Operators = {"o1", "o2"}
    Amounts <- MCAmounts
    LastMonth = 1
    MaxEntries = 2
INVARIANTS
    TypeOK
    ToldOnceAndInTime
    MailedOnce
    CommissionBilledOnce
    InvoicesAddUp
PROPERTIES
    RestoreReturnsAccess
    OutUntilReadmitted
CHECK_DEADLOCK FALSE
