SPECIFICATION FairSpec
CONSTANTS
  b1 = b1
  b2 = b2
  b3 = b3
  t1 = t1
  w1 = w1
  w2 = w2
  NoJob = NoJob
  Workers = {w1, w2}
  Bundles <- MCBundles
  Tokens <- MCTokens
  Jobs <- MCJobs
  Failing <- MCFailing
  Cooldown = 1
  MaxTime = 2
  MaxRestarts = 1
INVARIANTS TypeOK PoolAccounts ResolvedIsDrained MarkedCellsHaveRun
PROPERTIES BatchesEnd
CHECK_DEADLOCK FALSE
