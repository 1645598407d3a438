SPECIFICATION EventSpec
CONSTANTS
  auto = auto
  future = future
  iface = iface
  Fibers = {f1, f2, f3}
  Events = {auto, future, iface}
  AutoReset = {auto, iface}
  Broadcast = {iface}
  WaitLists <- MCWaitLists
  MaxSets = 3
  Futures = {1, 2, 3, 4}
  Volume <- MCVolume
  FutureLists <- MCFutureLists
  None = None
SYMMETRY Symmetry
INVARIANTS
  FuturesDelivered
  SignalConserved
  NoLockCycle
CHECK_DEADLOCK FALSE
