----------------------------- MODULE MCProcess -----------------------------
(* A process with two servers. *)
EXTENDS Process, TLC

Symmetry == Permutations(Channels) \cup Permutations(Pipelines) \cup Permutations(Servers)
=============================================================================
