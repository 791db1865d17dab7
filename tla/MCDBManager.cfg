SPECIFICATION FairManagerSpec
CONSTANTS
  Calls = {a, b}
  Main = main
  Procs = {a, b, main}
  NoProc = none
  PoolIds = {p1, p2, p3}
  NoPool = nil
  DSNs = {"db1", "db1 url", "garbled", ""}
  ToolDSNs = {"", "db1 url", "garbled"}
  NativeDSN <- MCNativeDSN
  ToolPresets = {"", "rw", "ro", "absent"}
  Presets <- MCPresets
  ConfigParams <- MCConfigParams
INVARIANTS
  ManagerTypeOK
  OnlyFailedConnectsLeak
  OnePoolPerMode
  PoolAsResolved
  PoolInUseIsOpen
PROPERTIES
  CallsReturn
  CloseDBReturns
