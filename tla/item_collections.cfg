\* Every kind; up to two items saved and two more added; two names.
SPECIFICATION ItemsSpec
CONSTANTS
  Kinds <- MCKinds
  Texts = {"first", "second"}
  MaxOpen = 2
  MaxId = 3
INVARIANTS
  BlockedHasWayOut
  OnlyExclusionIsBad
CHECK_DEADLOCK FALSE
