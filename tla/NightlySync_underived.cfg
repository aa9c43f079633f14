SPECIFICATION Spec
CONSTANTS
    Runs = {r1, r2}
    Instances = {"i1"}
    SkipReconcile = {}
    ManualTrigger = TRUE
    Faults = {}
    TokenChoices <- BothTokens
    FlakySteps = {}
    OrphanAge = 1
    MaxTime = 1
INVARIANTS
    SuccessPublishesDerived
CHECK_DEADLOCK FALSE
