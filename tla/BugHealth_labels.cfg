SPECIFICATION Spec
CONSTANTS
    Bugs <- LabelledBugs
    None = None
    NextMinor = 0
    Plunet = "plunet"
INVARIANT TestLabelsArePreProduction
CHECK_DEADLOCK FALSE
