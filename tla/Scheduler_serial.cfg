SPECIFICATION FairSpec
CONSTANTS
    Strategies = {"a", "b", "c"}
    Broken = none
    Shared = none
    Callers = {c1}
    MaxConcurrent = 2
    Keys <- Series
    KeysOf <- PairsShare
    Unknown = {}
    MaxRuns = 3
INVARIANTS CapRespected
PROPERTIES ImplementsRegistry StopCompletes
CHECK_DEADLOCK FALSE
