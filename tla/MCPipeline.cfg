CONSTANTS
  None = None
  BACKSTOP = "unsafe_fn_call"
  MAX_EXTERNAL_DEPTH = 2
  MAX_EXTERNAL_FNS = 2
  MAX_SUMMARY_ROUNDS = 3
  Fn <- MCFn
  Crates <- MCCrates
  LocalFns <- MCLocalFns
  CallsOf <- MCCallsOf
  Mentions <- MCMentions
  Exported <- MCExported
  Summary <- MCSummary
  IsEmpty <- MCIsEmpty
  Derive <- MCDerive
  Precond <- MCPrecond
  PrecondOf <- MCPrecondOf
  Finding <- MCFinding
  CrateFindings <- MCCrateFindings
  BodyFindings <- MCBodyFindings
  Within <- MCWithin
  Ranked <- MCRanked
  Rank <- MCRank
SPECIFICATION Spec
INVARIANTS BreadthFirst CollectionComplete ShallowExact FixpointOrCap NothingSilenced NothingRepeated
PROPERTIES Terminates WholeRounds
