SPECIFICATION Spec
CONSTANTS
    acme = acme
    ann = ann
    bob = bob
    ivy = ivy
    d1 = d1
    d2 = d2
    Companies = {acme}
    EmployeesOf <- MCEmployees
    Individuals = {ivy}
    Seats = {d1, d2}
    FirstSeats = {d1}
    Plans <- MCPlans
    Cases <- OneOffice
    MaxSubs = 2
    MaxQuantity = 2
    MaxExtra = 3
INVARIANT
    MonthIsBilled
CHECK_DEADLOCK FALSE
