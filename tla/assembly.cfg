\* One assembly with every call, a crash and refused stops while the first attempt is
\* the only one, or a rebuild; or two assemblies of which the second supersedes the
\* first, deletions and a crash.  One caller, under the fairness of executor and agent.
SPECIFICATION BoundedFairSpec
CONSTANTS
  a1 = a1
  a2 = a2
  c1 = c1
  libArtifact = libArtifact
  appArtifact = appArtifact
  Absent = Absent
  Recovery = Recovery
  Ids <- TwoIds
  Requested <- OneInTheOther
  Callers = {c1}
  Operations = {"build", "cancel", "rebuild", "delete", "purge"}
  MaxAttempts = 2
  MaxDestroyers = 1
  MaxCrashes = 1
  OpenShiftFaults = TRUE
ACTION_CONSTRAINT Bounded
INVARIANTS
  PodHasKeeper
  RunningHasWorker
  RecordIsNewest
  DoneHasArtifacts
  EarlyCancelHolds
PROPERTIES
  PodsStopped
  FollowsAssemblyStates
CHECK_DEADLOCK FALSE
