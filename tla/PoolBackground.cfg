SPECIFICATION FairSpec
CONSTANTS
  Claims = {c1}
  VMIDs = {v1}
  Hosts = {h1}
  Target = h1
  NoName = NoName
  Foreign = Foreign
  NoPID = NoPID
  Times = {t1}
  NoTime = NoTime
  MaxLag = 1
  StaleReads = TRUE
  Cascade = {"background"}
  Faults = {}
  MaxFaults = 0
CHECK_DEADLOCK FALSE
PROPERTIES PoolCollected
