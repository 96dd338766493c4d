SPECIFICATION Spec
CONSTANTS
  Proposals <- OneHotel
  Foreign = {}
  MaxIntents = 2
  MaxForeign = 0
  MaxWipes = 0
INVARIANTS RejectedDoesNotBlock
