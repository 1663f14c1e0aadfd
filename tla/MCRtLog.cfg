CONSTANTS
  Producers = {p1, p2}
  Consumers = {c1, c2}
  Value = {v1}
  NoValue = NoValue
  Capacity = 2
  MaxTickets = 4
  MaxPushes = 4
SPECIFICATION LogFairSpec
INVARIANTS ItemsKept DrainFreesAll RecordsAccounted
PROPERTIES FullIsTrue NoneIsTrue EveryClaimDrained
CHECK_DEADLOCK FALSE
