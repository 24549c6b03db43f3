------------------------------ MODULE MCSession ------------------------------
(* Instances of Session for TLC: a user with both pages, a newcomer with one, *)
(* in two tabs.                                                               *)
EXTENDS Session

MCInitialRights == [u \in Users |-> IF u \in Newcomers THEN {Default} ELSE Private]
=============================================================================
