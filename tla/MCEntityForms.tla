---------------------------- MODULE MCEntityForms ----------------------------
(* Instances of EntityForms for TLC: every form. *)
EXTENDS EntityForms

MCForms == DOMAIN Rules
=============================================================================
