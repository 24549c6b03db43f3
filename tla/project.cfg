\* One project, one caller, two runs, an update and a crash, under fairness.
SPECIFICATION FairSpec
CONSTANTS
  p1 = p1
  c1 = c1
  s1 = s1
  s2 = s2
  Absent = Absent
  Ids <- OneProject
  Settings <- TwoSettings
  Callers = {c1}
  MaxRuns = 2
  MaxUpdates = 1
  MaxCrashes = 1
INVARIANTS
  StuckHasWorker
  InitializedIsComplete
  SettingsKept
PROPERTIES
  StuckEnds
CHECK_DEADLOCK FALSE
