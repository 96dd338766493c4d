SPECIFICATION FairSpec
CONSTANTS
  Pages = {p1, p2}
  MaxJobs = 2
  MaxRestarts = 1
PROPERTY
  WaitingHelps
CHECK_DEADLOCK FALSE
