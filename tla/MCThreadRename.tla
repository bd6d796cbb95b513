---------------------------- MODULE MCThreadRename ----------------------------
(* Instances of ThreadRename for TLC. *)
EXTENDS ThreadRename, TLC

Symmetry == Permutations(Titles)
=============================================================================
