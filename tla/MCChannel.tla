----------------------------- MODULE MCChannel -----------------------------
(* Channel with small sets of calls. *)
EXTENDS Channel
=============================================================================
