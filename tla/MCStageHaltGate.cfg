CONSTANTS
  MinDays <- MCMinDays
  RevalDays = 2
  PriorDays = 2
  HistoryLimit = 4
  DrawdownLevels <- MCLevels
  RestartStages <- MCRestart
  MaxClock = 4
  MaxTouches = 1
SPECIFICATION Spec
PROPERTY HaltBlocksEntries
CHECK_DEADLOCK FALSE
