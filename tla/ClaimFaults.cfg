SPECIFICATION Spec
CONSTANTS
  Claims = {c1}
  VMIDs = {v1, v2}
  Hosts = {h1}
  Target = h1
  NoName = NoName
  Foreign = Foreign
  NoPID = NoPID
  Times = {t1}
  NoTime = NoTime
  MaxLag = 1
  StaleReads = TRUE
  Cascade = {"background"}
  Faults = {"crash", "api", "pve", "task", "foreign", "adminremove", "annotate", "node"}
  MaxFaults = 2
SYMMETRY Symmetry
CHECK_DEADLOCK FALSE
INVARIANTS TypeOK ReleasedAfterTeardown ReadyIsBacked CreateKeepsOwn
PROPERTIES CreatedUnderFinalizer ProviderIDStable KeepsPromise
