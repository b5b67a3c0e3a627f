SPECIFICATION RunSpec
CONSTANTS
  Programs <- BufferPrograms
  Local <- MCLocal
  ArgCount = 4
  Ty <- MCTy
  NoLocal = NoLocal
  NoField = NoField
  NoValue = NoValue
  NoCleanup = NoCleanup
  MaxU64 = 3
  MaxISize = 1
  Fields <- MCFields
  Key <- MCKey
  Value <- MCValue
  Absent = Absent
  Is <- MCIs
  Summaries <- MCSummaries
  REALLOC_BASE = 100
  SUMMARY_BASE = 200
  Coll <- MCColl
  MaxCap = 2
  InDrop = FALSE
  InClosure = FALSE
  ASCII_MAX = 1
  SAFE_LAYOUT_SIZE = 1
  SCALAR_MAX = 2
  SURROGATE_FIRST = 1
  SURROGATE_LAST = 1
INVARIANTS Described RoomSafe StaleUseReported AdvanceSafe IndicesSafe ExtentsSafe
