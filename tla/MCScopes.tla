------------------------------ MODULE MCScopes ------------------------------
(* One ordinary and one inline closure, one variable name. *)
EXTENDS Scopes
=============================================================================
