SPECIFICATION RunSpec
CONSTANTS
  Programs <- PartialBlocks
  InDrop = FALSE
  InClosure = FALSE
  Cells <- MCCells
  Sites <- MCSites
  MaxAllocs = 1
  Local <- MCLocal
  ArgCount = 0
  Ty <- MCTy
  NoLocal = NoLocal
  NoField = NoField
  NoValue = NoValue
  NoCleanup = NoCleanup
  MaxU64 = 3
  MaxISize = 1
  Fields <- MCFields
  Key <- MCKey
  Value <- MCValue
  Absent = Absent
  Is <- MCIs
  Summaries <- MCSummaries
  REALLOC_BASE = 100
  SUMMARY_BASE = 200
INVARIANT ConsumedOnAllPaths
