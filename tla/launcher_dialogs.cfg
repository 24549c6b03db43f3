\* Three projects that share names of versions and artifacts; three answers on the way.
SPECIFICATION Spec
CONSTANTS
  Projects <- MCProjects
  Versions <- MCVersions
  Artifacts <- MCArtifacts
  Has <- MCHas
  Configured <- MCConfigured
  Assembled <- MCAssembled
  MaxAsked = 3
  MaxSwitches = 5
INVARIANTS
  SettledIsOfProject
  VersionIsOfProject
CHECK_DEADLOCK FALSE
