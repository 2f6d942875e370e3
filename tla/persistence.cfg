\* One meeting with failing disk operations and database statements, crashes at every step, and recoveries.
SPECIFICATION FairSpec
CONSTANTS
    MaxAudio = 3
    Interval = 2
    MaxSegments = 2
    IoFaults = TRUE
    DbFaults = TRUE
INVARIANTS
    TypeOK
    CheckpointsKept
    SavedAudioIsWhole
    RowAudioIsPlayable
    LostOnlyIfBothFailed
PROPERTIES
    TranscriptFilesKeep
    StopFinishes
