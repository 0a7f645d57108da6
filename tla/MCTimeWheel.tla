---------------------------- MODULE MCTimeWheel ----------------------------
(* TimeWheel with two slots in the near wheel and in each of two levels. *)
EXTENDS TimeWheel
=============================================================================
