CONSTANTS
  t1 = t1
  t2 = t2
  Tokens <- MCTokens
  Faults = {"halt"}
  MaxFaults = 1
  MaxBar = 4
SPECIFICATION Spec
INVARIANT HaltKeepsPositions
CHECK_DEADLOCK FALSE
