CONSTANTS
  Value = {v1, v2}
  NoValue = NoValue
  Capacity = 2
  Laps = 3
SPECIFICATION Spec
INVARIANTS
  NoSharedSlot
  NothingLeaks
PROPERTIES
  AnswersAreStable
  ImplementsFifo
CHECK_DEADLOCK FALSE
