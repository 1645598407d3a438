SPECIFICATION Spec
CONSTANTS
  Workers = {w1, w2}
  Fibers = {f1, f2, f3, f4}
  Tasks = {t1, t2, t3, t4}
  MaxFibers = 2
  None = None
SYMMETRY Symmetry
INVARIANTS
  OneWorkerPerFiber
  FiberInOnePlace
  FiberOvershootBounded
PROPERTIES
  ImplementsRuntime
CHECK_DEADLOCK FALSE
