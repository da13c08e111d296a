SPECIFICATION FairSpec
CONSTANTS
  Threads = {"a", "b", "c"}
  NoTask = "nobody"
INVARIANTS
  TypeOK
  NoWakeupMissing
  Exclusive
  
  OneReturnPerSignal
  RequestsKept
PROPERTIES
  ImplementsFifo
  Served
CHECK_DEADLOCK FALSE
