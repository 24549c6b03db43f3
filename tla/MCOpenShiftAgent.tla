--------------------------- MODULE MCOpenShiftAgent ---------------------------
(* Instances of OpenShiftAgent for TLC.                                    *)
EXTENDS OpenShiftAgent

CONSTANTS t1, t2, t3
=============================================================================
