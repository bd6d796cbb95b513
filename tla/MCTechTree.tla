----------------------------- MODULE MCTechTree -----------------------------
(* Instances of TechTree for TLC: every graph on a few tasks. *)
EXTENDS TechTree, TLC

Symmetry == Permutations(Nodes)
=============================================================================
