SPECIFICATION RunSpec
CONSTANTS
  Programs <- UncheckedPrograms
  Local <- MCLocal
  ArgCount = 2
  Ty <- MCTy
  NoLocal = NoLocal
  NoField = NoField
  NoValue = NoValue
  NoCleanup = NoCleanup
  MaxU64 = 3
  MaxISize = 2
  ASCII_MAX = 2
  DIGIT_MAX = 1
  SAFE_LAYOUT_SIZE = 1
  SCALAR_MAX = 2
  SURROGATE_FIRST = 1
  SURROGATE_LAST = 1
  Fields <- MCFields
  Key <- MCKey
  Value <- MCValue
  Absent = Absent
  Is <- MCIs
  Summaries <- MCSummaries
  Preconds <- MCPreconds
  REALLOC_BASE = 100
  SUMMARY_BASE = 200
INVARIANTS RangeSafe IndexSafe PrecondSafe
