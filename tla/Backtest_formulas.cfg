SPECIFICATION Spec
CONSTANTS
  Unit = 10
  MinCAGRSpan = 3
  NoExit <- MCNoExit
  Timeframes = {"5m", "15m"}
  Minutes <- MCMinutes
  Horizon = 6
  DayLength = 4
  Shapes <- MCShapes
  Documents <- MCDocuments
  CostModels = {"zero"}
  Capital = 1000
  TradeCost = 1
  Benchmark = 1
INVARIANTS ReadingsSound LookAheadExact LeavesResolve MetricsExact
PROPERTIES NoTradeOnMissingData
CHECK_DEADLOCK FALSE
