---------------------------- MODULE MCRecordViews ----------------------------
(* Instances of RecordViews for TLC: two records of one project, at first  *)
(* of two versions, one of which the project has, and a project without    *)
(* records.  An update moves the second record, if it is a module, to the  *)
(* version of the first.                                                   *)
EXTENDS RecordViews

CONSTANTS p1, p2, r1, r2, v1, v2

MCProjectOf == [r \in Records |-> p1]
MCVersionOf ==
  r1 :> [n \in 1 .. MaxChanges + 1 |-> v1] @@
  r2 :> [n \in 1 .. MaxChanges + 1 |-> IF n = 1 THEN v2 ELSE v1]
MCVersionsOf == p1 :> {v1} @@ p2 :> {v2}

\* Bound: changes and clicks together.
ThreeSteps == changes' + clicks' <= 3
=============================================================================
