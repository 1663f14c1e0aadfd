SPECIFICATION Spec
CONSTANTS
  MaxSize = 2
  DefaultSize = 1
  Params <- Params1
  Values = {v1, v2}
  BlockSizes = {1, 2}
  EventCapacity = 1
  MaxHeld = 2
INVARIANTS MirrorMeetsPlugin FlagsAgree ViewsAreServed
PROPERTIES ContractKept
SYMMETRY Interchangeable
CHECK_DEADLOCK FALSE
