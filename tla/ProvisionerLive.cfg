SPECIFICATION SteadySpec
CONSTANTS
  Claims = {c1, c2}
  VMIDs = {v1}
  Hosts = {h1}
  NoPID = NoPID
  NoName = NoName
  Pods = {"p1", "p2"}
  Shape <- LiveShapes
  Pools = {"pool", "other"}
  NoPool = NoPool
  Pool = "pool"
  Limit = 1
  Grace = 1
  Corrupt = Corrupt
  Times <- GraceTimes
  NoTime = NoTime
  MaxLag = 1
  StaleReads = FALSE
  Faults = {"crash", "api"}
  MaxFaults = 1
INVARIANTS WithinLimit
PROPERTIES PendingPodBound ScalesToZero KeepsPromise
