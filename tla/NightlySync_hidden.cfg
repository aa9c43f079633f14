SPECIFICATION Spec
CONSTANTS
    Runs = {r1, r2}
    Instances = {"i1"}
    SkipReconcile = {}
    ManualTrigger = TRUE
    Faults = {}
    TokenChoices <- NoTokens
    FlakySteps = {}
    OrphanAge = 1
    MaxTime = 2
INVARIANTS
    HiddenRowsAreStale
CHECK_DEADLOCK FALSE
