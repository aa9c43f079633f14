SPECIFICATION Spec
CONSTANTS
    Runs = {r1, r2}
    Instances = {"i1"}
    SkipReconcile = {}
    ManualTrigger = FALSE
    Faults = {"crash", "database"}
    TokenChoices <- BothTokens
    FlakySteps = {1}
    OrphanAge = 1
    MaxTime = 3
SYMMETRY Symmetry
INVARIANTS
    RowTimes
    WorkingMeansRunning
    SuccessPublishesDerived
    StatusIsTrue
PROPERTIES
    ImplementsRegister
CHECK_DEADLOCK FALSE
