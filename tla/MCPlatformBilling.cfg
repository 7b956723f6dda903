SPECIFICATION FairSpec
CONSTANTS
    Cases <- SomeCases
    Plans <- SomePlans
    Contracts <- SomeContracts
    TrialTerms <- Growth
    AddonPrices <- ExtraStoragePrice
    Parts <- Half
    Procs = {p1, p2}
    p1 = p1
    p2 = p2
    DaysInMonth = 2
    MonthsInYear = 2
    NoticeDays = 0
    UnitStorage = 1
    LastDay = 4
    Horizon <- DayFor
    MaxRequests <- RequestsFor
    MaxMoney <- MoneyFor
    MaxUsage = 2
    MaxUnits = 2
INVARIANTS
    BilledOnce
    WhatRunsIsPaidFor
    RenewalFollowsAddons
PROPERTY
    PaidRenewalStarts
CHECK_DEADLOCK FALSE
