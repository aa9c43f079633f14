SPECIFICATION Spec
CONSTANTS
    Runs = {n1, n2}
    Repositories = {r1}
    Horizon = 1
    Lookback = 0
    Readers = {}
    Shown = 1
    Triggers = {"scheduler", "manual"}
    Faults = {}
SYMMETRY Symmetry
INVARIANT OneRowPerWindow
CHECK_DEADLOCK FALSE
