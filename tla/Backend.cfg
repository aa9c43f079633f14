SPECIFICATION BackendSpec
CONSTANTS
    None = None
    Done = Done
    Runs = {n1, n2}
    Repositories = {r1, r2}
    Horizon = 3
    Lookback = 1
    Readers = {q1}
    Shown = 1
    Triggers = {"scheduler"}
    Faults = {"database"}
INVARIANTS
    BackendTypeOK
    CountsOnce
    PublishedTogether
    ListedWindowsHaveRows
    SuccessIsAllocated
    DoraConsistent
    FetchIsComplete
    HrworksSafe
    JiraConsistent
    BugsAreJudged
    ReferenceDataSound
    AnalysisAddsUp
    MetricsAgree
    ConfigurationApplies
PROPERTIES
    NothingIsLost
    RowsAreClosed
CHECK_DEADLOCK FALSE
