---------------------------- MODULE MCModuleFiles ----------------------------
(* Instances of ModuleFiles for TLC.                                       *)
EXTENDS ModuleFiles

CONSTANTS a, b, c
=============================================================================
