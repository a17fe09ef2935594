------------------------ MODULE MCCommandPublication ------------------------
(* Instances of CommandPublication for TLC. *)
EXTENDS CommandPublication, TLC

\* Frontends are interchangeable, and so are payloads.
Symmetry == Permutations(Frontends) \cup Permutations(Payloads)
=============================================================================
