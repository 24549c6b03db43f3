--------------------------- MODULE AssemblyStates ---------------------------
(***************************************************************************)
(* What an assembly promises to whoever watches it (the cards of the web   *)
(* panel switch on these states) while nobody cancels it or rebuilds it    *)
(* over a live attempt.  The absent state is left by a put of the task that*)
(* was under way when the record was deleted: AssemblyService.deleteAssembly*)
(* does not wait for it.                                                   *)
(***************************************************************************)
CONSTANT Ids
VARIABLE view

RunningViews == {"STARTED", "RESTARTED", "STARTED_ON_RESOURCE", "BUILDING"}
Views == RunningViews \cup {"DONE", "FAILED", "absent", "disturbed"}

\* From a state to the states that may follow it.
Successors == [v \in Views |->
  CASE v = "absent" -> Views \ {"absent"}
    [] v = "STARTED" -> {"STARTED_ON_RESOURCE", "FAILED", "absent", "disturbed"}
    [] v = "RESTARTED" -> {"STARTED_ON_RESOURCE", "FAILED", "absent", "disturbed"}
    [] v = "STARTED_ON_RESOURCE" -> {"BUILDING", "FAILED", "absent", "disturbed"}
    [] v = "BUILDING" -> {"DONE", "FAILED", "absent", "disturbed"}
    [] v \in {"DONE", "FAILED"} -> {"RESTARTED", "absent", "disturbed"}
    [] v = "disturbed" -> {"RESTARTED"}]

Init == view = [id \in Ids |-> "absent"]

Step(id) == \E v \in Successors[view[id]] : view' = [view EXCEPT ![id] = v]

\* A running assembly ends: it leaves the running states, whichever way.
End(id) == view[id] \in RunningViews /\ Step(id) /\ view'[id] \notin RunningViews

\* The sweep of a restarted panel throws: what it had not come to it leaves as it is.
Leave ==
  \E left \in SUBSET {id \in Ids : view[id] \in RunningViews} :
    view' = [id \in Ids |-> IF id \in left THEN "disturbed" ELSE view[id]]

Next == Leave \/ \E id \in Ids : Step(id)

SafeSpec == Init /\ [][Next]_view

Spec == SafeSpec /\ \A id \in Ids : WF_view(End(id))
=============================================================================
