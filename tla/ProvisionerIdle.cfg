SPECIFICATION WatchedSpec
CONSTANTS
  Claims = {c1, c2}
  VMIDs = {v1}
  Hosts = {h1}
  NoPID = NoPID
  NoName = NoName
  Pods = {"p1"}
  Shape <- IdleShapes
  Pools = {"pool", "other"}
  NoPool = NoPool
  Pool = "pool"
  Limit = 0
  Grace = 1
  Corrupt = Corrupt
  Times <- GraceTimes
  NoTime = NoTime
  MaxLag = 1
  StaleReads = FALSE
  Faults = {"crash", "corrupt", "pool"}
  MaxFaults = 1
SYMMETRY Symmetry
INVARIANTS TypeOK InFlightCovered GraceHonoured
