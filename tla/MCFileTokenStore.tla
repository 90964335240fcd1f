-------------------------- MODULE MCFileTokenStore --------------------------
(* TLC instance of FileTokenStore. *)
EXTENDS FileTokenStore, TLC

Symmetry == Permutations(Proc) \cup Permutations(Pair)
=============================================================================
