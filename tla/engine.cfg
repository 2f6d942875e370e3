\* A recording meets a batch job, or two batch jobs meet, on two models.
SPECIFICATION FairSpec
CONSTANTS
    Sessions = {s1, s2, s3}
    Imports = {i1, i2}
    Retrans = {r1}
    Waiters = {i1, i2, r1}
    Previews = {s2, s3}
    Silent = {s2}
    Models = {small, large}
    Configured = small
    BatchModels = {large}
    Segments = 1
    Scenarios = {{s1, i1}, {s2, r1}, {s3}, {i1, i2, "import"}, {i1, r1, "import"}}
    NONE = NONE
INVARIANTS
    TypeOK
    NoSleepOnFreeLease
    LiveIsTranscribed
    NameIsTheContext
    PoolIsOfTheContext
    CancelTakesEffect
    FailureKeepsTranscript
    ImportedRowHasFolder
PROPERTIES
    JobsEnd
    StopEnds
