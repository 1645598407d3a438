SPECIFICATION NetSpec
CONSTANTS
  Packets = {p1, p2, p3, p4}
  Gathered = {p3, p4}
  Reads = {r1, r2, r3}
  Amounts = {1, 2}
  None = None
  ListenSsls <- MCListenSsls
  Acceptings = {a1, a2, a3, a4, a5}
  Peers = 1
  Faults = 1
  Connects = {c1, c2}
  Addresses = 2
  Radix = 2
  CaptionLimit = 6
  ReadGranula = 3
  WriteGranula = 3
  ZHold = 1
  MaxBreaks = 1
  Dialogs <- MCDialogs
  Bodies <- MCBodies
  Moments <- MCMoments
  DayTicks = 4
  CodingLists <- MCCodingLists
  Urls <- MCUrls
  SizeLimit = 8
  FileSizes = {1, 3}
  Inodes = {1, 2}
  MaxFsClock = 2
  MaxChanges = 2
  FsGranula = 2
  ExtInfos <- MCExtInfos
INVARIANT WellFormedAccepted
CHECK_DEADLOCK FALSE
