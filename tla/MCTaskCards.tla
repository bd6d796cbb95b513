----------------------------- MODULE MCTaskCards -----------------------------
(* A small instance of TaskCards for TLC: a creator and the project's lead. *)
EXTENDS TaskCards

CONSTANTS c, l, x, y

\* The creator uses the controls and the dialogs, the lead the menu and the commands.
Split == ({c} \X {"claim", "text", "reopen", "controls", "delete", "depend"})
           \cup ({l} \X {"start", "complete", "prio", "who", "deps"})
=============================================================================
