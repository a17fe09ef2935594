--------------------------- MODULE MCBucketDelete ---------------------------
(* Instances of BucketDelete for TLC. *)
EXTENDS BucketDelete, TLC

\* Neither writers nor deleters are told apart by the specification.
Symmetry == Permutations(Writers) \cup Permutations(Deleters)
WriterSymmetry == Permutations(Writers)
=============================================================================
