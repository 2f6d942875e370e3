\* One start() and one stop() at a time, two recordings, two segments each, failing database statements.
SPECIFICATION Spec
CONSTANTS
    Meetings = {m1, m2}
    StartCalls = {start1}
    StopCalls = {stop1}
    FatalCalls = {}
    QuitCalls = {}
    PauseCalls = {}
    MaxChunks = 2
    DbFaults = TRUE
    NONE = NONE
INVARIANTS
    TypeOK
    CompletedIsWhole
    RecordingHasManager
    IdleIsQuiet
    SaverOrBuffer
PROPERTIES
    HeardByOwnSession
    TableFollowed
    SerialSessions
