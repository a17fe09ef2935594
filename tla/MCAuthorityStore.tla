------------------------- MODULE MCAuthorityStore -------------------------
(* TLC instances of AuthorityStore. *)
EXTENDS AuthorityStore
=============================================================================
