SPECIFICATION Spec
CONSTANTS
  Remedies <- One
  Plans <- SamePlan
  PlanClauses <- Clauses
  NameRank <- Ranks
  AttemptLimit = 9
  Reserved = 3
  ReadTries = 2
  MaxEscalations = 2
  IdentityReads = 1
  FactReads = 2
  PlanReads = 1
  RefreshReads = 1
  MaxRuns = 2
INVARIANT EveryUnknownIsReferred
CHECK_DEADLOCK FALSE
