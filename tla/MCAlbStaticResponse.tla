-------------------------- MODULE MCAlbStaticResponse --------------------------
(* Small instances of AlbStaticResponse.                                     *)
EXTENDS AlbStaticResponse, TLC

Symmetry == Permutations(Executions) \cup Permutations(UserRules)
=============================================================================
