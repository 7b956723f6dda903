SPECIFICATION FairSpec
CONSTANTS
    Cases <- SomeCases
    Parts <- HalfPrice
    Percents <- Twenty
    DaysInMonth = 2
    Year = 2
    LeadDays = 1
    LastDay = 5
    NoticeDates = {0, 1, 3}
    MaxInvoices = 3
    MaxMoney = 3
    MaxEntries = 4
    MaxRevisions = 2
INVARIANTS
    MoneyExplained
    NoDayChargedTwice
PROPERTY
    NoticeRunsOut
CHECK_DEADLOCK FALSE
