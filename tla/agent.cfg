\* An agent that is handed out again or one that is replaced, three threads, stops, faults
\* and a crash, under fairness.
SPECIFICATION FairSpec
CONSTANTS
  t1 = t1
  t2 = t2
  t3 = t3
  Nobody = Nobody
  Threads = {t1, t2, t3}
  MaxStarts = 3
  MaxStops = 2
  MaxCrashes = 1
  Faults = TRUE
INVARIANTS
  StartsSucceed
  AnswersStand
  StopClears
PROPERTIES
  CallsEnd
CHECK_DEADLOCK FALSE
