SPECIFICATION SerialSpec
CONSTANTS
    w1 = w1
    c1 = c1
    adm = adm
    boss = boss
    emp = emp
    own = own
    co = co
    r1 = r1
    Workers = {w1}
    Crons = {c1}
    MaxBookings = 2
    Rooms = {r1}
    Users = {adm, emp, boss}
    Admins = {adm}
    CompanyAdmins = {boss}
    Payers = {own, co}
    PayerOf <- MCPayerOf
    Companies = {co}
    MayBook = {emp}
    Cap = 1
    Granted <- MCGranted
    Expiry <- MCExpiry
    CreditsPerSlot <- MCCreditsPerSlot
    PayPerUse = TRUE
    MinAdvance = 0
    CancelWindow = 1
    CheckInOpens = 0
    NoShowWait = 1
    Horizon = 2
    MaxBlocks = 1
INVARIANTS
    CreditsAccounted
PROPERTY
    CapRespected
