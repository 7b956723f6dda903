SPECIFICATION PremisesSpec
CONSTANTS
    Parts = {"spaces", "series", "seats", "presence", "front"}
    acme = acme
    ann = ann
    bob = bob
    ivy = ivy
    d1 = d1
    d2 = d2
    Companies = {acme}
    EmployeesOf <- MCEmployees
    Individuals = {ivy}
    Seats = {d1, d2}
    FirstSeats = {d1}
    Plans <- MCPlans
    Cases <- SomeCases
    MaxSubs = 2
    MaxQuantity = 2
    MaxExtra = 3
    SlotsADay = 2
    Week = 2
    MinAdvance = 1
    CancelWindow = 1
    LastDay = 1
    Requests = {"r1", "r2"}
    Members = {ann, ivy}
    CompanyOf <- MCCompanyOf
    SeatHolders = {acme}
    DaySlots = 1
    Terms <- MCTerms
    LastSlot = 1
    MaxSeats = 2
    MaxBookings = 1
    People = {ann}
    Desks = {"d1", "d2"}
    StaleAfter = 1
    LastHour = 3
    MaxKeys = 2
    MaxStays = 2
    Clerks = {"c1", "c2"}
    LockerUsers = {ann, ivy}
    LastDate = 1
INVARIANTS
    SpacesSound
    OneMeetingADay
    SeatBookedOnce
    PresentOnce
    DeskIsRight
PROPERTY
    RegularBillsPeople
CHECK_DEADLOCK FALSE
