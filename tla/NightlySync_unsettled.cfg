SPECIFICATION Spec
CONSTANTS
    Runs = {r1}
    Instances = {"i1"}
    SkipReconcile = {}
    ManualTrigger = FALSE
    Faults = {"database"}
    TokenChoices <- BothTokens
    FlakySteps = {}
    OrphanAge = 1
    MaxTime = 1
INVARIANTS
    ClosedRowsAreSettled
CHECK_DEADLOCK FALSE
