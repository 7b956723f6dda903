SPECIFICATION Spec
CONSTANTS
    w1 = w1
    w2 = w2
    b1 = b1
    b2 = b2
    m1 = m1
    Procs = {w1, w2}
    Crons = {w2}
    Bookings = {b1, b2}
    Meetings = {m1}
    Offered <- OneSlot
    Horizon = 1
    Approvals = {"instant", "request"}
    IdRequired = {b2}
    Switches = {"live"}
    DayCap = 1
    MinLead = 0
    RequestWindow = 1
    InstantHold = 2
    PayWindow = 2
    FreeBefore = 1
    LateRefund = 50
    VenueRefunds = {0, 100}
    Commission = 1
    MaxOpenHolds = 2
    Contended = {b1}
INVARIANTS
    RoomKept
    CommissionFollowsMoney
    ImagePurgedAtEnd

    
