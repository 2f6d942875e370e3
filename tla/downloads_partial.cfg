SPECIFICATION Spec
CONSTANTS
    Helpers = {1}
    MaxSpawns = 1
    Runs = {r1}
    Extractions = {}
    Calls = {r1}
    Long = {}
    MapPasses = 1
    BuiltinModels = {gemma}
    WhisperModels = {small}
    Downloads = {d1, d2}
    Size = 3
    Least = 2
    Most = 4
    Scenarios = {
        {"settings", d1, d2, "drop"}}
    NONE = NONE
INVARIANT
    AvailableIsWhole
CHECK_DEADLOCK FALSE
