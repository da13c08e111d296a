SPECIFICATION Spec
CONSTANTS
  MAX_TASKS = 4
  NumStacks = 3
  MaxTid = 4
  Ops = {"create", "exit", "join"}
  QosClasses = {2}
  Deadlines = {0}
  SleepMs = {30}
  TickWrap = 2
  WATCHDOG_THRESHOLD = 5
  WATCHDOG_LIMIT = 8
INVARIANTS
  JoinTargetStays
CHECK_DEADLOCK FALSE
