SPECIFICATION StreakSpec
CONSTANTS
  TrailingDays = 3
  WindowDays = 1
  MinTrades = 1
  WorstLoss = 3
  LossLimit = 1
  Pnls <- MCPnls
  LastDay = 3
  MaxTrades = 3
  MaxRuns = 2
PROPERTY FallbackIsStricter
CHECK_DEADLOCK FALSE
