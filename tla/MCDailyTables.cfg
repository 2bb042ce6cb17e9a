SPECIFICATION MCSpec
CONSTANTS
  Losses <- MCLosses
  EntryLoss <- MCEntryLoss
  ExitLoss <- MCExitLoss
  ExitDays <- MCExitDays
  PauseDays = 2
  HistoryLimit = 2
  MaxDay = 2
  MaxRows = 5
  credit = credit
  rotation = rotation
  curve = curve
  Categories <- MCCategories
  Soft <- MCSoft
  Spy = spy
  RedCount = 3
  OrangeCount = 2
  Window = 2
  LastMarketDay = 3
  MaxRegimeFaults = 1
  TrailingDays = 3
  WindowDays = 1
  MinTrades = 1
  WorstLoss = 3
  LossLimit = 1
  Pnls <- MCPnls
  LastDay = 4
  MaxTrades = 2
  MaxRuns = 2
INVARIANTS TypeOK NoEarlyRecovery PauseIsWholeAtLevel3 KillIsFinal
INVARIANTS TableTypesOK NeverOverstated BackfillIsReference DailyRowIsComplete
INVARIANT TodaysFailIsSeen
PROPERTIES CounterSpec StreakIsObserved
SYMMETRY Symmetry
CHECK_DEADLOCK FALSE
