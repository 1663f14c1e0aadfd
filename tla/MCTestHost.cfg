SPECIFICATION HostSpec
CONSTANTS
  EventCapacity = 2
  EventBytes = 1
  EventWords = 3
  WorkerCapacity = 2
  NoteTimes = {1}
  Times = {0, 1}
  Shapes = {1, 2}
  MaxInstances = 1
  MaxPushes = 3
  MaxTasks = 4
INVARIANTS ListsGiveBack TasksAccounted
