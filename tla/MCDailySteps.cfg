SPECIFICATION MCSpec
CONSTANTS
  Cap = 2
  MaxRow = 4
  MaxFaults = 2
  PageCap = 2
  CatchupDays = 3
  MaxDay = 3
  MaxFilings = 4
  Runs = {r1, r2}
  Scheduled = r1
  MaxHaltFaults = 3
  MaxStarts = 4
  PauseDays = 7
INVARIANTS TypeOK RecordedMeansSent RepeatsArePaidFor
INVARIANTS StepTypesOK QuietRunIsWhole HaltIsOnFile NoRunThroughHalt RatchetHolds
PROPERTIES EveryRowIsAlerted BreachHalts CalmClearsLadder Level3Reopens
CHECK_DEADLOCK FALSE
