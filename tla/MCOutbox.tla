------------------------------ MODULE MCOutbox ------------------------------
(* Instances of Outbox for TLC: the constants come from the configurations. *)
EXTENDS Outbox, TLC
Symmetry == Permutations(OneShot) \cup Permutations(Workers)
=============================================================================
