SPECIFICATION ToolSpec
CONSTANTS
  Calls = {a, b}
  Main = main
  Procs = {a, b, main}
  NoProc = none
  PoolIds = {p1, p2}
  NoPool = nil
  DSNs = {"db1", ""}
  ToolDSNs = {"", "db1"}
  NativeDSN <- MCNativeDSN
  ToolPresets = {"", "rw", "ro"}
  Presets <- MCPresets
  ConfigParams <- MCConfigParams
  Tools <- MCTools
  Statements <- MCStatements
SYMMETRY MCSymmetry
INVARIANTS
  WritesOnlyByReads
  DeadlineAsConfigured
