SPECIFICATION FairSpec
CONSTANTS
    Runs = {r1, r2}
    Instances = {"i1"}
    SkipReconcile = {}
    ManualTrigger = TRUE
    Faults = {"crash"}
    TokenChoices <- BothTokens
    FlakySteps = {}
    OrphanAge = 0
    MaxTime = 2
INVARIANTS
    NoPhantomRun
PROPERTIES
    FreshnessKept
    RunsResolve
CHECK_DEADLOCK FALSE
