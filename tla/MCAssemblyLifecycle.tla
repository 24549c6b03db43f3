------------------------- MODULE MCAssemblyLifecycle -------------------------
(* Instances of AssemblyLifecycle for TLC.                                 *)
EXTENDS AssemblyLifecycle

CONSTANTS a1, a2, c1, libArtifact, appArtifact

TwoIds == {a1, a2}
\* A build of a2 supersedes a running a1.
OneInTheOther == [id \in Ids |-> IF id = a1 THEN {libArtifact} ELSE {libArtifact, appArtifact}]

\* Bound: an assembly is rebuilt only in a behaviour without a crash or a refused stop,
\* and is not purged then.
FaultsOrRebuilds ==
  \A id \in Ids : attempts'[id] > 1 =>
    /\ crashes' = 0 /\ leaked' = {}
    /\ \A t \in Callers : "delete" \notin {call'[t].pc, call'[t].then}

\* Bound: where the second assembly is asked for, a crash comes before the agent of
\* either is ready, nothing fails by itself, and no user cancels, rebuilds or purges one.
SecondIsPlain ==
  (\E t \in Callers : call'[t].id = a2) \/ attempts'[a2] > 0 =>
    /\ \A t \in Callers : /\ call'[t].pc \in {"idle", "sweep", "cancelPut"}
                          /\ call'[t].pc = "cancelPut" => call'[t].then = "sweep"
    /\ \A id \in Ids : /\ attempts'[id] < 2
                       /\ task'[id][1] \in {"none", "queued", "starting", "creating", "done"}
    /\ crashes' = 0 => leaked' = {}

Bounded == FaultsOrRebuilds /\ SecondIsPlain

\* FairSpec without the fairness of steps that these bounds never let the second
\* assembly take.
BoundedFairSpec ==
  /\ Spec
  /\ \A n \in Attempts : WF_vars(TaskStep(a1, n)) /\ SF_vars(StreamEnd(a1, n))
  /\ WF_vars(TaskStep(a2, 1))
  /\ WF_vars(DestroyCancel(a1)) /\ WF_vars(DestroyStop(a1)) /\ WF_vars(DestroyRemove(a1))
  /\ \A t \in Threads : WF_vars(CallStep(t))
  /\ WF_vars(RecoveryStep)
=============================================================================
