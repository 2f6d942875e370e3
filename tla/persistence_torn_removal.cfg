\* No disk operation and no statement fails; the process may end while the checkpoints are removed.
SPECIFICATION Spec
CONSTANTS
    MaxAudio = 3
    Interval = 2
    MaxSegments = 0
    IoFaults = FALSE
    DbFaults = FALSE
INVARIANT
    AudioKept
