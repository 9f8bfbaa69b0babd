SPECIFICATION Spec
CONSTANTS
    Symbols = {s1}
    MaxPositions = 1
    MaxDailyLossPct = 0
    CooldownBars = 2
    ReentryAllowed = TRUE
    MaxReentries = 2
    Intraday = FALSE
    TfSlots = 2
    SlotsPerDay = 4
    MarketOpen = 0
    MarketClose = 3
    EntryStart = 0
    EntryEnd = 2
    ForceSquareOff = 2
    MaxOpenSlots = 0
    MaxHoldingDays = 1
    ExitLeaves <- TargetOrTrail
    ExitPriority <- DefaultPriority
    StopPct = 0
    TrailPct = 10
    TargetPct = 10
    Sizing <- HalfOfCash
    StartingCash = 1000
    Fee = 1
    SlippagePct = 2
    FillCaps = {0, 1}
    CircuitWired = FALSE
    SymbolCap = 520
    Prices = {90, 100, 105}
    Liquid = TRUE
    Horizon = 11
INVARIANTS StorageAgrees
PROPERTIES CooldownRespected StopHonoured
CHECK_DEADLOCK FALSE
