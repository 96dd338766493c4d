SPECIFICATION Spec
CONSTANTS
  p1 = p1
  p2 = p2
  Passengers <- Party
  Cases <- AllCases
  Options <- Flights
  Rooms <- RoomsLeft
  Rates <- RoomPrices
INVARIANTS
  TypeOK
  DisagreementHasAReason
  ElectionsDoNotConflict
  OnlyForThoseWhoAsked
  EveryRequestIsTakenUp
  CompensationIsAssessedOnce
  BlockedIsReferred
CHECK_DEADLOCK FALSE
