\* Seven pages, with up to three loaders, one of them with two requests; five clicks or
\* moves; one failure.
SPECIFICATION ContextFairSpec
CONSTANTS
  Pages <- MCPages
  ResourceTypes = {"git", "openShift"}
  MaxCopies = 3
  MaxClicks = 5
  MaxFails = 1
INVARIANTS
  PageHasData
PROPERTIES
  LoaderGivesWay
CHECK_DEADLOCK FALSE
