SPECIFICATION Spec
CONSTANTS
  Claims = {c1}
  VMIDs = {v1}
  Hosts = {h1}
  Target = h1
  NoName = NoName
  Foreign = Foreign
  NoPID = NoPID
  Times = {t1}
  NoTime = NoTime
  MaxLag = 1
  StaleReads = FALSE
  Cascade = {}
  Faults = {"crash"}
  MaxFaults = 1
CHECK_DEADLOCK FALSE
INVARIANTS NoOrphan
