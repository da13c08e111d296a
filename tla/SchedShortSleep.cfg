SPECIFICATION Spec
CONSTANTS
  MAX_TASKS = 4
  NumStacks = 3
  MaxTid = 3
  Ops = {"create", "yield", "sleep", "exit"}
  QosClasses = {2}
  Deadlines = {0}
  SleepMs = {5}
  TickWrap = 2
  WATCHDOG_THRESHOLD = 5
  WATCHDOG_LIMIT = 8
INVARIANTS
  ReadyIsQueued
