--------------------------- MODULE MCTransHandler ---------------------------
(* TransHandler with a few connections. *)
EXTENDS TransHandler
=============================================================================
