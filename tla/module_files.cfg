\* A module with one file, three picks among three names, one removal.
SPECIFICATION FilesFairSpec
CONSTANTS
  a = a
  b = b
  c = c
  Names = {a, b}
  Base = {a}
  Old = Old
  Blank = Blank
  MaxPicks = 3
  MaxRemovals = 1
INVARIANTS
  FormHoldsFiles
  ProcessedIsStored
PROPERTIES
  SubmittedEnds
CHECK_DEADLOCK FALSE
