\* A segment transcribed while stop() puts the manager back into the slot.
SPECIFICATION Spec
CONSTANTS
    Meetings = {m1, m2}
    StartCalls = {start1}
    StopCalls = {stop1}
    FatalCalls = {}
    QuitCalls = {}
    PauseCalls = {}
    MaxChunks = 1
    DbFaults = FALSE
    NONE = NONE
INVARIANT
    SaverIsWhole
SYMMETRY MeetingSymmetry
