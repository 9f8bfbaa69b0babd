SPECIFICATION Spec
CONSTANTS
    Symbols = {s1, s2}
    MaxPositions = 1
    MaxDailyLossPct = 5
    CooldownBars = 0
    ReentryAllowed = TRUE
    MaxReentries = 2
    Intraday = TRUE
    TfSlots = 1
    SlotsPerDay = 5
    MarketOpen = 0
    MarketClose = 4
    EntryStart = 0
    EntryEnd = 2
    ForceSquareOff = 3
    MaxOpenSlots = 2
    MaxHoldingDays = 0
    ExitLeaves <- StopAndSignal
    ExitPriority <- DefaultPriority
    StopPct = 10
    TrailPct = 0
    TargetPct = 0
    Sizing <- OneLot
    StartingCash = 200
    Fee = 1
    SlippagePct = 5
    FillCaps = {0}
    CircuitWired = FALSE
    SymbolCap = 110
    Prices = {80, 100}
    Liquid = TRUE
    Horizon = 7
INVARIANTS TypeOK BooksAgree PositionsWithinCap StorageAgrees PnLExplainsCash FlatOvernight Reconciled
PROPERTIES DailyLossHaltsEntries StopHonoured
CHECK_DEADLOCK FALSE
