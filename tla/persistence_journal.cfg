\* A crash before the SQLite writer has flushed, and the recovery that follows.
SPECIFICATION Spec
CONSTANTS
    MaxAudio = 0
    Interval = 1
    MaxSegments = 2
    IoFaults = FALSE
    DbFaults = FALSE
PROPERTY
    RecoveredHasJournal
