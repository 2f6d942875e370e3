\* A second start() racing the user's stop().
SPECIFICATION Spec
CONSTANTS
    Meetings = {m1, m2}
    StartCalls = {start1, start2}
    StopCalls = {stop1}
    FatalCalls = {}
    QuitCalls = {}
    PauseCalls = {}
    MaxChunks = 0
    DbFaults = FALSE
    NONE = NONE
INVARIANT
    StartKeepsManager
SYMMETRY MeetingSymmetry
