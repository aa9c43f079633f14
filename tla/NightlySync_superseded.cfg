SPECIFICATION Spec
CONSTANTS
    Runs = {r1, r2, r3}
    Instances = {"i1"}
    SkipReconcile = {}
    ManualTrigger = TRUE
    Faults = {}
    TokenChoices <- NoTokens
    FlakySteps = {}
    OrphanAge = 2
    MaxTime = 2
INVARIANTS
    SupersededIsAbandoned
CHECK_DEADLOCK FALSE
