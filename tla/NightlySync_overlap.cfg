SPECIFICATION Spec
CONSTANTS
    Runs = {r1, r2}
    Instances = {"i1"}
    SkipReconcile = {}
    ManualTrigger = TRUE
    Faults = {"database"}
    TokenChoices <- AnyTokens
    FlakySteps = {2}
    OrphanAge = 0
    MaxTime = 2
SYMMETRY Symmetry
INVARIANTS
    TypeOK
    PhasesAreSound
    OutcomeIsTold
    RowTimes
PROPERTIES
    OwnOutcomeIsFinal
CHECK_DEADLOCK FALSE
