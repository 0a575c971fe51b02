SPECIFICATION FairSpec
CONSTANTS
  Claims = {c1}
  VMIDs = {v1}
  Hosts = {h1, h2}
  Target = h1
  NoName = NoName
  Foreign = Foreign
  NoPID = NoPID
  Times = {t1}
  NoTime = NoTime
  MaxLag = 1
  StaleReads = TRUE
  Cascade = {"foreground"}
  Faults = {"crash", "api", "pve", "task", "adminremove", "config", "migrate"}
  MaxFaults = 2
CHECK_DEADLOCK FALSE
PROPERTIES DeletionCompletes PoolCollected NeverSilent
