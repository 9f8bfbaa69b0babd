SPECIFICATION RegistrySpec
CONSTANTS
    Strategies = {a, b, c, d}
    Broken = d
    Shared = ema
    Callers = {c1, c2}
    MaxConcurrent = 1
    Keys = {ema, nosuch}
    KeysOf <- BrokenReadsAll
    Unknown = {nosuch}
    MaxRuns = 3
SYMMETRY Interchangeable
INVARIANTS TypeOK OvershootBounded RegisteredHasIndicators CacheExact
CHECK_DEADLOCK FALSE
