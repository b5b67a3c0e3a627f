SPECIFICATION RunSpec
CONSTANTS
  Programs <- OneSidedPrograms
  Blocks <- MCBlocks
  FnDefs <- MCFnDefs
  FieldIndex = {0, 1}
  ObjIds <- MCObjIds
  FieldCount = 2
  Local <- MCLocal
  ArgCount = 0
  Ty <- MCTy
  NoLocal = NoLocal
  NoField = NoField
  NoValue = NoValue
  NoCleanup = NoCleanup
  MaxU64 = 3
  MaxISize = 1
  Fields <- MCFields
  Key <- KeyType
  Value <- ValueType
  Absent = Absent
  Is <- MCIs
  Summaries <- MCSummaries
  REALLOC_BASE = 100
  SUMMARY_BASE = 200
INVARIANT Described
