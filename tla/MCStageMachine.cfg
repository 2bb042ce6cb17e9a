CONSTANTS
  MinDays <- MCMinDays
  RevalDays = 2
  PriorDays = 2
  HistoryLimit = 4
  DrawdownLevels <- MCLevels
  RestartStages <- MCRestart
  MaxClock = 6
  MaxTouches = 1
SPECIFICATION Spec
INVARIANTS TypeOK HaltHoldsUntilCleared RevalidationRespected PromotionIsEarned NoThirdRollback SentinelBlocksEntries
CHECK_DEADLOCK FALSE
