------------------------------ MODULE MCLogin ------------------------------
(* Instances of the login for TLC.                                          *)
EXTENDS Login, TLC

Symmetry == Permutations(Creators) \cup Permutations(Verifiers)
              \cup Permutations(Refreshers) \cup Permutations(UserIds)
=============================================================================
