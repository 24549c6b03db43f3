--------------------------- MODULE MCContextLoading ---------------------------
(* Instances of ContextLoading for TLC: every context but that of modules, *)
(* whose five loaders repeat what the three of assemblies show.            *)
EXTENDS ContextLoading

MCPages == DOMAIN Contexts \ {"modules"}
=============================================================================
