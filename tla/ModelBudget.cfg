SPECIFICATION Spec
CONSTANTS
  Reservations = {1, 3}
  Overrun = 1
  SessionCeiling = 7
  RunCeiling = 4
  MaxCalls = 3
INVARIANTS TypeOK BilledIsCovered WithinCeilings NarrationHasItsCall UsageIsStated
