\* Up to two changes of records and two clicks, three of both; one request that fails.
SPECIFICATION Spec
CONSTANTS
  p1 = p1
  p2 = p2
  r1 = r1
  r2 = r2
  v1 = v1
  v2 = v2
  Projects = {p1, p2}
  Records = {r1, r2}
  Versions = {v1, v2}
  ProjectOf <- MCProjectOf
  VersionOf <- MCVersionOf
  VersionsOf <- MCVersionsOf
  MaxListed = 1
  MaxChanges = 2
  MaxClicks = 2
  MaxFails = 1
INVARIANTS
  LoaderHasQuery
  QuietShowsTab
  LoadedCardsHandedLatest
ACTION_CONSTRAINT
  ThreeSteps
CHECK_DEADLOCK FALSE
