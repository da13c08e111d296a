SPECIFICATION LoadSpec
CONSTANTS
  MAX_TASKS = 4
  NumStacks = 3
  MaxTid = 4
  Ops = {"create", "yield", "sleep", "exit", "deadline", "qos", "join"}
  QosClasses = {0, 2}
  Deadlines = {0, 1, 2}
  SleepMs = {5, 30}
  TickWrap = 2
  WATCHDOG_THRESHOLD = 2
  WATCHDOG_LIMIT = 3
INVARIANTS
  OneList
  QueueState
  BitmapExact
  CurrentUnlinked
  StacksConserved
  WatchdogBelowLimit
  DeadlinesSorted
PROPERTIES
  
  JoinSound
