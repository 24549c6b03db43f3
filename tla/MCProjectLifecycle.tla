------------------------- MODULE MCProjectLifecycle -------------------------
(* Instances of ProjectLifecycle for TLC.                                  *)
EXTENDS ProjectLifecycle

CONSTANTS p1, c1, s1, s2

OneProject == {p1}
TwoSettings == {s1, s2}
=============================================================================
