SPECIFICATION FairSpec
CONSTANTS
  MAX_TIMER_CALLBACKS = 1
  Intervals = {1}
PROPERTIES
  TicksGoOn
