SPECIFICATION Spec
CONSTANTS
    Helpers = {1, 2}
    MaxSpawns = 2
    Runs = {r1}
    Extractions = {x1}
    Calls = {r1, x1}
    Long = {}
    MapPasses = 2
    BuiltinModels = {gemma}
    WhisperModels = {small}
    Downloads = {}
    Size = 2
    Least = 2
    Most = 2
    Scenarios = {{r1, x1, "builtin", "installed", "reextract", "cancel"}}
    NONE = NONE
INVARIANT
    AnswerIsOwn
CHECK_DEADLOCK FALSE
