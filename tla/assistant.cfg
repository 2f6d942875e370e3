SPECIFICATION FairSpec
CONSTANTS
    Helpers = {1, 2}
    MaxSpawns = 2
    Runs = {r1, r2}
    Extractions = {x1}
    Calls = {r1, r2, x1}
    Long = {r2}
    MapPasses = 2
    BuiltinModels = {gemma}
    WhisperModels = {small}
    Downloads = {d1, d2}
    Size = 3
    Least = 2
    Most = 4
    Scenarios = {
        {r1, r2, x1, "remote", "agent", "cancel", "view"},
        {r1, r2, "remote", "agent", "edit", "view"},
        {r1, x1, "builtin", "installed", "reextract", "cancel"},
        {r1, x1, "builtin", "installed", "health", "ail", "cancel"},
        {r1, x1, "builtin", "installed", "idle", "ail", "cancel"},
        {r1, "builtin", "installed", "idle", "health", "ail"},
        {r2, x1, "builtin", "settings", d1, "delete"},
        {"engine", "settings", d1, d2, "drop"},
        {"engine", d1, d2, "delete"},
        {"engine", d1, "drop", "scan"},
        {"engine", d1, d2, "delete", "scan"},
        {"settings", d1, "drop", "delete", "scan"},
        {"settings", "onboarding", d1, d2, "delete"},
        {"settings", "onboarding", d1, "scan"}}
    NONE = NONE
INVARIANTS
    TypeOK
    OwnAnswer
    BrokenHasCause
    NewestRunCancellable
    CancelledRunKeepsSummary
    AvailableIsIntact
    OneDownload
    NoPhantomDownload
PROPERTIES
    HelperStops
    RunsEnd
    DownloadsEnd
CHECK_DEADLOCK FALSE
