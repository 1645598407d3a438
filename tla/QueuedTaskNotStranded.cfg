SPECIFICATION Spec
CONSTANTS
  Workers = {w1, w2}
  Fibers = {f1, f2, f3}
  Tasks = {t1, t2, t3}
  MaxFibers = 1
  None = None
SYMMETRY Symmetry
INVARIANT QueuedTaskNotStranded
CHECK_DEADLOCK FALSE
