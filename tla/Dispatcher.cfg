CONSTANTS
  t1 = t1
  t2 = t2
  Task <- MCTask
  NoTask = NoTask
  Index = {"get"}
  Size = 1
  MaxCalls = 3
SPECIFICATION LiveSpec
CHECK_DEADLOCK FALSE
INVARIANTS
  QueuesHold
PROPERTIES
  ServesCalls
  EveryCallReturns
