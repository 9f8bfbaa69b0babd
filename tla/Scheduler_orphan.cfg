SPECIFICATION Spec
CONSTANTS
    Strategies = {"a", "b", "c"}
    Broken = none
    Shared = none
    Callers = {c1, c2}
    MaxConcurrent = 1
    Keys <- Series
    KeysOf <- PairsShare
    Unknown = {}
    MaxRuns = 2
INVARIANTS NoOrphanListener
CHECK_DEADLOCK FALSE
