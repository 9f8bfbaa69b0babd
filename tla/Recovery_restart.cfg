SPECIFICATION Spec
CONSTANTS
    Symbols = {s1, s2}
    StartingCash = 202
    Fee = 1
    Prices = {90, 100}
    MaxTrades = 3
SYMMETRY SymbolSymmetry
INVARIANTS LedgerContinues NoPhantomHolding
