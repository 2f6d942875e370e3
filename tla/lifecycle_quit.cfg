\* Quitting the shell while a stop() is in progress.
SPECIFICATION Spec
CONSTANTS
    Meetings = {m1, m2}
    StartCalls = {start1}
    StopCalls = {stop1}
    FatalCalls = {}
    QuitCalls = {quit1}
    PauseCalls = {}
    MaxChunks = 0
    DbFaults = FALSE
    NONE = NONE
PROPERTY
    QuitFinishesRecording
