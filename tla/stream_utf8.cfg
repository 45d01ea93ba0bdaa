\* One request whose events have a character across two pieces, no break.
CONSTANTS
    Requests = {r1}
    NoEvent = NoEvent
    Timer = Timer
    Ends <- Terminal
    Wide = {r1}
    RingCap = 1
    MaxBackoff = 1
    MaxBreaks = 0
SPECIFICATION StreamSpec
INVARIANT ForwardsEveryEvent
CHECK_DEADLOCK FALSE
