----------------------------- MODULE MCTaskGraph -----------------------------
(* Instances of TaskGraph for TLC. *)
EXTENDS TaskGraph, TLC

Symmetry == Permutations(Clients)
=============================================================================
