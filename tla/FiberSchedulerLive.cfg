SPECIFICATION FairSpec
CONSTANTS
  Workers = {w1, w2}
  Fibers = {f1, f2}
  Tasks = {t1, t2, t3}
  MaxFibers = 1
  None = None
PROPERTIES
  SchedulerServes
CHECK_DEADLOCK FALSE
