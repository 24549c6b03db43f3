\* Two tabs, an old user and a newcomer, one token of a user that expires, one change of rights, one
\* project added, two forms sent.
SPECIFICATION Spec
CONSTANTS
  Tabs = {t1, t2}
  Users = {"old", "new"}
  Newcomers = {"new"}
  Private = {"projects", "modules"}
  Default = "projects"
  InitialRights <- MCInitialRights
  MaxExpiries = 1
  MaxGrants = 1
  MaxProjects = 1
  MaxSubmits = 2
INVARIANTS
  ActsAsShown
  RedirectionsEnd
PROPERTIES
  BackToAsked
CHECK_DEADLOCK FALSE
