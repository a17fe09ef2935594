------------------------- MODULE MCConsumerBinding -------------------------
(* TLC instances of ConsumerBinding. *)
EXTENDS ConsumerBinding, TLC

Symmetry == Permutations(Threads)

\* Offsets within the budget and beyond it.
OutOfBudget == {-3, -1, 1, 2}
=============================================================================
