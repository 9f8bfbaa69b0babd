SPECIFICATION Spec
CONSTANTS
    Symbols = {s1}
    StartingCash = 202
    Fee = 1
    Prices = {90, 100}
    MaxTrades = 2
INVARIANTS OpenTradesManaged
