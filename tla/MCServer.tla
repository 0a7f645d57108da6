------------------------------ MODULE MCServer ------------------------------
(* Server with a few connections. *)
EXTENDS Server
=============================================================================
