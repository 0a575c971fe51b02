SPECIFICATION FairSpec
CONSTANTS
  Claims = {c1}
  VMIDs = {v1, v2}
  Hosts = {h1}
  Target = h1
  NoName = NoName
  Foreign = Foreign
  NoPID = NoPID
  Times = {t1}
  NoTime = NoTime
  MaxLag = 1
  StaleReads = FALSE
  Cascade = {}
  Faults = {"pve"}
  MaxFaults = 1
CHECK_DEADLOCK FALSE
PROPERTIES BecomesReady
