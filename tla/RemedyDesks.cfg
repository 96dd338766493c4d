SPECIFICATION FairSpec
CONSTANTS
  Proposals <- TwoEvents
  Foreign <- OtherPayments
  MaxIntents = 3
  MaxForeign = 1
  MaxWipes = 1
INVARIANTS ReportedMeansDone
PROPERTIES RespectsOthers EveryRunEnds
