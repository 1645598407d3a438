SPECIFICATION AsyncSpec
CONSTANTS
  Fibers = {f1, f2, f3}
  Workers = {w1, w2, w3}
  Targets = {1, 2}
  Jobs = {j1, j2}
  MaxBalance = 1
  None = None
  SpiderPages = {1, 2}
  Loads = {1, 2}
  Concurrency = 2
  SizeMax = 7
  MaxFailures = 1
  Texts <- MCTexts
  Meanings <- MCMeanings
  BucketLists <- MCBucketLists
  Tables <- MCTables
  Stems <- MCStems
  crc32 <- MCcrc32
  RowGranula = 2
  MaxFlips = 1
INVARIANTS
  MutualExclusion
  CallsLeaveOrder
  SpiderAccounts
  TextsCounted
PROPERTIES
  FirstComeFirstServed
  LockReturns
  CallsReturn
  SpiderProgress
CHECK_DEADLOCK FALSE
