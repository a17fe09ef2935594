-------------------------- MODULE MCNodeAdmission --------------------------
(* TLC instances of NodeAdmission. *)
EXTENDS NodeAdmission, TLC

Symmetry == Permutations(Sessions) \cup Permutations(PGs)
=============================================================================
