CONSTANTS
  t1 = t1
  t2 = t2
  Tokens <- MCTokens
  Faults = {"block", "drop", "unsized"}
  MaxFaults = 2
  MaxBar = 4
SPECIFICATION Spec
INVARIANTS TypeOK OpenRowsAreWatched
PROPERTY LifecycleSpec
SYMMETRY Symmetry
CHECK_DEADLOCK FALSE
