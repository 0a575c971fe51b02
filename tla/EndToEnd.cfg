SPECIFICATION SteadySpec
CONSTANTS
  Claims = {c1}
  VMIDs = {v1, v2}
  Hosts = {h1}
  Target = h1
  NoName = NoName
  Foreign = Foreign
  NoPID = NoPID
  Pods = {"p1"}
  Shape <- OneShape
  Pools = {"pool"}
  NoPool = NoPool
  Pool = "pool"
  Limit = 1
  Grace = 1
  Corrupt = Corrupt
  Times <- GraceTimes
  NoTime = NoTime
  MaxLag = 1
  StaleReads = FALSE
  FastBoot = FALSE
  Cascade = {}
  Faults = {}
  MaxFaults = 0
INVARIANTS MachinesWithinLimit TeardownFindsMachine
PROPERTIES WholePromise PodServed IdleReclaimed
