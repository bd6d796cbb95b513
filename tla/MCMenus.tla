------------------------------- MODULE MCMenus -------------------------------
(***************************************************************************)
(* One user; small numbers stand for the bounds.                           *)
(***************************************************************************)
EXTENDS Menus

=============================================================================
