SPECIFICATION FairSpec
CONSTANTS
  Remedies <- Two
  Plans <- ManyPlans
  PlanClauses <- Clauses
  NameRank <- Ranks
  AttemptLimit = 10
  Reserved = 4
  ReadTries = 2
  MaxEscalations = 2
  IdentityReads = 1
  FactReads = 2
  PlanReads = 2
  RefreshReads = 1
  MaxRuns = 1
INVARIANTS
  TypeOK
  OrdinaryLeavesTheReserve
  EveryItemIsRouted
  HandoverReachesTheDesk
  QuietEndMeansSettled
PROPERTIES
  EveryCaseLeavesARecord
CHECK_DEADLOCK FALSE
