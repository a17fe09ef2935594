--------------------------- MODULE MCPrimaryLease ---------------------------
(***************************************************************************)
(* PrimaryLease on two storage nodes: the acting set and its rotation.     *)
(***************************************************************************)
EXTENDS PrimaryLease, TLC

CONSTANTS n1, n2

MCNodes == {n1, n2}
MCActingSets == {<<n1, n2>>, <<n2, n1>>}
MCRequests == {MaxLease}
ShortRequests == {1}
Symmetry == Permutations(MCNodes)
=============================================================================
