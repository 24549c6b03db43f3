-------------------------- MODULE MCModuleLifecycle --------------------------
(* Instances of ModuleLifecycle for TLC.                                   *)
EXTENDS ModuleLifecycle

CONSTANTS m1, m2, c1, v1, v2

TwoModules == {m1, m2}
TwoVersions == {v1, v2}

\* Two modules are run and nothing is under way: where a request for both may start.
BothRun ==
  /\ modules = [id \in Ids |-> [state |-> "RUN", version |-> v1]]
  /\ created = Ids
  /\ handed = [id \in Ids |-> {}]
  /\ call = [t \in Callers |-> Idle]
  /\ batch = [t \in Callers |-> NoBatch]
  /\ operations = [id \in Ids |-> [n \in Slots |-> Absent]]
  /\ agent = [id \in Ids |-> [n \in Slots |-> "none"]]
  /\ deployments = [id \in Ids |-> [version |-> v1, up |-> TRUE]]
  /\ manager = [id \in Ids |-> TRUE]
  /\ sweep = "idle"
  /\ found = [id \in Ids |-> Absent]
  /\ crashes = 0
  /\ thrown = {}
  /\ disturbed = [id \in Ids |-> FALSE]

\* Fairness without that of operations which the bounds below never let begin.
BoundedFairness ==
  /\ \A n \in Slots : WF_vars(PanelStep(m1, n)) /\ WF_vars(StreamStep(m1, n))
  /\ WF_vars(PanelStep(m2, 1)) /\ WF_vars(StreamStep(m2, 1))
  /\ \A t \in Callers : WF_vars(CallStep(t))
  /\ WF_vars(SweepStep)

MCSpec == (Init \/ BothRun) /\ [][Next]_vars /\ BoundedFairness

\* Bounds.  Beside a module that is installed there is none; it is installed in v1, which
\* is as good as v2, and a request for many modules takes it to v2; a second operation of
\* it comes without an exception, in the sweep too, a third without a crash or such a
\* request; and the panel crashes when a first one has begun.  Of two that run each has
\* one operation, by a request for v2, which for the second ends at the panel; and the
\* panel does not crash.
OneInstalledOrBothRun ==
  /\ \A t \in Callers :
       call'[t].pc = "batch" =>
         /\ call'[t].copy.version = v2
         /\ operations'[m1][MaxOperations] = Absent
  /\ IF created = Ids
     THEN /\ crashes' = 0
          /\ \A t \in Callers : call'[t].pc \in {"idle", "batch"}
          /\ \A id \in Ids : operations'[id][2] = Absent
          /\ agent'[m2][1] = "none"
     ELSE /\ created' \subseteq {m1} /\ manager'[m2]
          /\ <<"install", v2>> \notin handed'[m1]
          /\ \A t \in Callers : batch'[t][m2] = NoItem
          /\ crashes' > crashes => operations[m1][1] # Absent
          /\ operations'[m1][2] # Absent => manager'[m1]
          /\ operations'[m1][MaxOperations] # Absent => crashes' = 0
          /\ sweep = "read" /\ sweep' = "idle" => operations'[m1][2] = Absent
=============================================================================
