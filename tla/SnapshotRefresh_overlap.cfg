SPECIFICATION Spec
CONSTANTS
    Runs = {n1, n2, n3}
    Repositories = {r1, r2}
    Horizon = 2
    Lookback = 0
    Readers = {}
    Shown = 1
    Triggers = {"scheduler", "manual"}
    Faults = {"database"}
SYMMETRY Symmetry
CONSTRAINT TwoRunsAcrossDays
INVARIANT TypeOK
INVARIANT DuplicatesNeedOverlap
INVARIANT CircleNeedsReorder
PROPERTY WindowsStay
CHECK_DEADLOCK FALSE
