SPECIFICATION Spec
CONSTANTS
  r1 = r1
  r2 = r2
  r3 = r3
  r1x = r1x
  blank = blank
  ada = ada
  lovelace = lovelace
  byron = byron
  None = None
  Refs <- References
  Segment <- Paths
  Emails <- Addresses
  Phones <- Numbers
  Words <- NameWords
  Lower <- Spelt
  Within <- Inside
  Short <- Brief
  MaxRefs = 2
  Records <- OperationalRecords
  Contacts <- Messages
INVARIANTS
  TypeOK
  MeetsItsStandard
  ReferencesDecide
  AddressNotPassedOver
  TurnedAwayForCause
