SPECIFICATION FairSpec
CONSTANTS
  MaxSize = 2
  DefaultSize = 1
  MaxYields = 2
  Params <- Params2
  Values = {0, 1}
INVARIANTS MutualExclusion StateMovesWhole
PROPERTIES DeactivateLands EditorClosedFirst ImplementsContract MainCallsReturn
CHECK_DEADLOCK FALSE
