SPECIFICATION Spec
CONSTANTS
  MaxBound = 2
  Fields <- MCFields
  Key <- MCKey
  Value <- MCValue
  Absent = Absent
  NoCleanup = NoCleanup
  BlockData <- MCBlockData
  Bodies <- MCBodies
  Block <- MCBlock
  START = 1
  Successors <- MCSuccessors
  State <- MCState
  None = None
  InitialState <- MCInitialState
  ExitState <- MCExitState
  Refine <- MCRefine
  Join <- Merged
  JoinChanges <- Changed
  Below <- Leq
INVARIANTS LoopInv Solved NoneMeansUnreachable
PROPERTIES Promise Terminates
