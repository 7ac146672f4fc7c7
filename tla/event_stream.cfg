SPECIFICATION StreamSpec
CONSTANTS
    Events = {e1, e2}
    Channels = {orders, trades}
    Workers = {w1, w2}
    Polls = {p1, p2}
    TicksPerMs = 2
    MaxTime = 3
    MaxFaults = 2
INVARIANTS
    OnlyOvertakenIsMissed
PROPERTIES
    FirstSentInOrder
    CommittedIsPublished
    StreamedIsReceived
CHECK_DEADLOCK FALSE
