------------------------------- MODULE MCRaft -------------------------------
(* Raft on small instances. *)
EXTENDS Raft, TLC

Symmetry == Permutations(Server) \cup Permutations(Command)
=============================================================================
