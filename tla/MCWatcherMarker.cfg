SPECIFICATION Spec
CONSTANTS
  b1 = b1
  b2 = b2
  b3 = b3
  t1 = t1
  w1 = w1
  w2 = w2
  NoJob = NoJob
  Workers = {w1, w2}
  Bundles <- MCBundles
  Tokens <- MCTokens
  Jobs <- MCJobs
  Failing = {}
  Cooldown = 1
  MaxTime = 2
  MaxRestarts = 0
INVARIANT NewCandlesAreDirty
CHECK_DEADLOCK FALSE
