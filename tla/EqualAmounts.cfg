SPECIFICATION Spec
CONSTANTS
  Proposals <- EqualAmounts
  Foreign = {}
  MaxIntents = 2
  MaxForeign = 0
  MaxWipes = 0
INVARIANTS ReportedMeansDone
