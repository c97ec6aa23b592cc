CONSTANTS
  v1 = v1
  v2 = v2
  Value <- MCValue
  NoValue = NoValue
  Acks = 2
  Slots = 6
  QueueLength = 3
  MaxWrites = 2
  MaxBreaks = 1
SPECIFICATION Spec
CHECK_DEADLOCK FALSE
INVARIANTS
  
  InSync
PROPERTY EndedOnce
