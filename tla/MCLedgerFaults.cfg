CONSTANTS
  t1 = t1
  t2 = t2
  Tokens <- MCTokens
  Faults = {"abort", "block", "halt", "drop", "unsized"}
  MaxFaults = 2
  MaxBar = 4
SPECIFICATION FairSpec
PROPERTIES HeldPositionStaysOpen EntryIsRecorded WatchedExitIsRecorded
CHECK_DEADLOCK FALSE
