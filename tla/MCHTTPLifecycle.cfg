SPECIFICATION FairHTTPSpec
CONSTANTS
  Calls = {a, b}
  Main = main
  Procs = {a, b, main}
  NoProc = none
  PoolIds = {p1, p2}
  NoPool = nil
  DSNs = {"db1", ""}
  ToolDSNs = {""}
  NativeDSN <- MCNativeDSN
  ToolPresets = {"ro"}
  Presets <- MCPresets
  ConfigParams <- MCConfigParams
  Stream = stream
INVARIANTS
  CleanReturn
  AnswersKeepTheirPool
PROPERTIES
  LatePoolsAreUnanswered
  ProcessEnds
CHECK_DEADLOCK FALSE
