\* One module and one user at a time, three operations, or two and a crash; and two modules
\* that run, in a request that updates both; under the fairness of the panel.
SPECIFICATION MCSpec
CONSTANTS
  m1 = m1
  m2 = m2
  c1 = c1
  v1 = v1
  v2 = v2
  Absent = Absent
  Ids <- TwoModules
  Versions <- TwoVersions
  Callers = {c1}
  MaxOperations = 3
  MaxCrashes = 1
ACTION_CONSTRAINT OneInstalledOrBothRun
INVARIANTS
  ChangingHasWorker
  RecordIsTrue
PROPERTIES
  ChangeEnds
CHECK_DEADLOCK FALSE
