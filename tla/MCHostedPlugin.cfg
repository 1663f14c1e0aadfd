SPECIFICATION LifeSpec
CONSTANTS
  MaxSize = 3
  DefaultSize = 2
  Threads = {main, audio}
  MainThread = main
  MaxArcs = 2
INVARIANTS HostAgrees ViewsDieWithTheCall WhatIsHeldIsThere
PROPERTIES ImplementsContract LettingGoUnloads
CHECK_DEADLOCK FALSE
