SPECIFICATION Spec
CONSTANTS
    Rebuilds = {j1, j2, j3}
    Months <- TwoMonths
    Callers = {"admin", "reports", "month", "hrworks"}
    Faults = {"crash", "database"}
SYMMETRY Symmetry
INVARIANTS TypeOK DuplicatesNeedOverlap RegisterIsLock TopicsAreAllocated OneBatch NoCircle
PROPERTY MonthsStay
CHECK_DEADLOCK FALSE
