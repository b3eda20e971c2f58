------------------------------- MODULE MCVote -------------------------------
(* Instances of the votes for TLC. *)
EXTENDS Vote, TLC

Symmetry == Permutations(Voters) \cup Permutations(Requests)
=============================================================================
