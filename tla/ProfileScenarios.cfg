CONSTANTS
  Devices = {a, b}
  Single = a
  Paths = {cookies, meta}
  Meta = meta
  Absent = Absent
  NoManifest = NoManifest
  Hashes <- Content
  MaxTime = 3
  MaxVersion = 3
  Failures = {"abort", "exit"}
  ExitsIn = {"alone"}
  BrowserRuns = TRUE
  SameSize = FALSE
  SlowSync = TRUE
SPECIFICATION Scenarios
INVARIANTS TypeOK
PROPERTIES AloneCatchesUp NoHiddenOverwrite NothingVanishes
CHECK_DEADLOCK FALSE
