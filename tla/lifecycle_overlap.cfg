\* Overlapping calls: a start, a user's stop, a fatal error, a quit and a pause, with one segment.
SPECIFICATION FairSpec
CONSTANTS
    Meetings = {m1}
    StartCalls = {start1}
    StopCalls = {stop1}
    FatalCalls = {fatal1}
    QuitCalls = {quit1}
    PauseCalls = {pause1}
    MaxChunks = 1
    DbFaults = FALSE
    NONE = NONE
INVARIANTS
    GuardsExclusive
    OneHand
PROPERTIES
    RowsAreFinal
    StopReachesIdle
