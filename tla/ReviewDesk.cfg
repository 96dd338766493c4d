SPECIFICATION FairSpec
CONSTANTS
  Pages = {p1, p2}
  MaxJobs = 3
  MaxRestarts = 1
INVARIANTS
  TypeOK
  OneCaseInHand
  OneWriter
PROPERTIES
  KeepsOneDesk
  EveryCaseReported
CHECK_DEADLOCK FALSE
