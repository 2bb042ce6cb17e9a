CONSTANTS
  t1 = t1
  t2 = t2
  Tokens <- MCTokens
  Faults = {"abort"}
  MaxFaults = 1
  MaxBar = 3
SPECIFICATION FairSpec
PROPERTY ExitIsRecorded
CHECK_DEADLOCK FALSE
