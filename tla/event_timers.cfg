SPECIFICATION TimersSpec
CONSTANTS
  x = x
  y = y
  a = a
  b = b
  Event <- MCEvent
  Cycles <- MCCycles
  UserEvents <- MCUserEvents
  HeaderWidth = 2
  MAX_EXTRA_EVENTS = 2
  Garbage = Garbage
  Requests <- MCRequests
  MaxCount = 2
  Name <- MCName
  Code <- MCCode
  LCycles = LCycles
  Empty = Empty
  FIXED_COUNTERS = 3
  GP_COUNTERS = 2
  CLK_UNHALTED = 1
  Off = Off
  LRequests <- MCLRequests
  Resolutions <- MCResolutions
  LMaxCount = 2
  ITERS = 4
  TRIES = 4
  WARMUP = 1
  Period = 2
  SlowRuns = 3
  CallTime = 3
  MHz = {2600}
  NotSet = NotSet
  Disturbances = {1, 7}
  MaxDisturbances = 2
INVARIANTS
  TimersTypeOK
  EventsAccounted
  DescriptorsOwned
  RowsComplete
  FrequencyRight
  SlotsDisjoint
PROPERTIES
  ImplementTable
CHECK_DEADLOCK FALSE
