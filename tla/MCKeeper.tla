------------------------------ MODULE MCKeeper ------------------------------
(* Keeper on small durations. *)
EXTENDS Keeper
=============================================================================
