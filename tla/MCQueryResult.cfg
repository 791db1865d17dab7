SPECIFICATION ResultSpec
CONSTANTS
  Handlers <- MCHandlers
  ColumnLists <- MCColumnLists
  BestEffort = {"desc_table"}
  NonEmpty = {"desc_table"}
  MaxRows = 3
INVARIANTS
  OkIsComplete
  CSVFaithful
PROPERTIES
  OnlyWholeResults
