SPECIFICATION Spec
CONSTANTS
    w1 = w1
    w2 = w2
    adm = adm
    own = own
    r1 = r1
    Workers = {w1, w2}
    Crons = {w1, w2}
    MaxBookings = 2
    Rooms = {r1}
    Users = {adm}
    Admins = {adm}
    CompanyAdmins = {}
    Payers = {own}
    PayerOf <- MCPayerOf
    Companies = {}
    MayBook = {}
    Cap = 0
    Granted <- MCGranted
    Expiry <- MCExpiry
    CreditsPerSlot <- MCCreditsPerSlot
    PayPerUse = FALSE
    MinAdvance = 0
    CancelWindow = 1
    CheckInOpens = 0
    NoShowWait = 1
    Horizon = 2
    MaxBlocks = 0
SYMMETRY MCProcesses
INVARIANTS
    TypeOK
    PromisedStretchKept
PROPERTY
    RoomsNeverDoubleBooked
