SPECIFICATION PgcSpec
CONSTANTS
  Clients = {u1, u2, u3}
  Conns = {c1, c2, c3}
  MaxConnections = 1
  MaxPending = 2
  None = None
  Procs = {p1, p2}
  Prids = {n1, n2, n3}
  MaxPrepared = 1
  Timeout = 0
  MaxRequests = 4
  MaxTime = 2
  Params <- MCParams
  Ticks <- MCTicks
  Halves <- MCHalves
  Results <- MCResults
  ColNames <- MCColNames
  ColLists <- MCColLists
  RowRanges <- MCRowRanges
  Samples <- MCSamples
  IntBits <- MCIntBits
  RealBits <- MCRealBits
  Comparables <- MCComparables
  Objects = {x, y}
  BigTypes = {"String", "Tm", "MapStringVariant"}
  Contents <- MCContents
  NewTypes <- MCNewTypes
  Variants <- MCVariants
  Converted <- MCConverted
  Files <- MCFiles
  Meant <- MCMeant
  MaxDepth = 3
INVARIANTS
  PoolConsistent
  AnsweredInOrder
  HolderConsistent
  ResultsExact
  SerializationFaithful
  VariantSound
  ValuesKept
PROPERTIES
  PoolServes
  RequestsAnswered
CHECK_DEADLOCK FALSE
