SPECIFICATION Spec
CONSTANTS
  Proposals <- Party
  Foreign = {}
  MaxIntents = 3
  MaxForeign = 0
  MaxWipes = 1
INVARIANTS TypeOK NoDoubleGrant NoRepeat WriteAhead FailedGrantedNothing OneUnsettledRemedy
PROPERTIES DryRunSendsNothing GrantsOnce
