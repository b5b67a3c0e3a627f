CONSTANTS
  Absent = Absent
  NoLocal = NoLocal
  NoField = NoField
  NoValue = NoValue
  NoCleanup = NoCleanup
  MaxU64 = 3
  MaxISize = 1
  REALLOC_BASE = 100
  SUMMARY_BASE = 200
  InDrop = FALSE
  InClosure = FALSE
  ArgCount = 1
  MAX_SUMMARY_ROUNDS = 4
  MaxCallDepth = 4
  Local <- MCLocal
  Ty <- MCTy
  Fields <- MCFields
  Key <- MCKey
  Value <- MCValue
  Is <- MCIs
  IsLocal <- MCIsLocal
  BodyOf <- MCBodyOf
  Crates <- EitherCrates
SPECIFICATION Spec
INVARIANT EveryMessageKept
