SPECIFICATION ServiceSpec
CONSTANTS
  Workers = {w1, w2, w3}
  Targets = {1, 2}
  Jobs = {j1}
  MaxBalance = 0
  None = None
INVARIANT PumpRuns
CHECK_DEADLOCK FALSE
