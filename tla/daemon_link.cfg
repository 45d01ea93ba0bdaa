\* Two requests on the live stream; one user and two ports; one fault in each.
CONSTANTS
    Requests = {r1, r2}
    NoEvent = NoEvent
    Timer = Timer
    Ends <- MCEnds
    Wide = {}
    RingCap = 1
    MaxBackoff = 2
    MaxBreaks = 1
    Users = {u1}
    Ports = {1, 2}
    MaxOrders = 2
    MaxTroubles = 1
SPECIFICATION MCSpec
CHECK_DEADLOCK FALSE
INVARIANTS
    TypesOK
    
PROPERTIES
    EventsArrive
    Converges
