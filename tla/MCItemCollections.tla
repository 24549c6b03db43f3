-------------------------- MODULE MCItemCollections --------------------------
(* Instances of ItemCollections for TLC: every kind of collection. *)
EXTENDS ItemCollections

MCKinds == DOMAIN Rules
=============================================================================
