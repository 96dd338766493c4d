SPECIFICATION Spec
CONSTANTS
  Throttle = 2
  Limit = 4
  Window = 2
  MaxTime = 4
  MaxRequests = 4
  MaxLate = 1
  MaxRuns = 1
PROPERTY RefusedForStrangers
CHECK_DEADLOCK FALSE
