------------------------------ MODULE MCLifecycle ------------------------------
(* The instance of Lifecycle for TLC is all in its configuration. *)
EXTENDS Lifecycle
=============================================================================
