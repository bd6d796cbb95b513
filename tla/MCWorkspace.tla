----------------------------- MODULE MCWorkspace -----------------------------
(***************************************************************************)
(* Two users whose requests overlap, one of them the watcher of the task,  *)
(* and the worker.                                                         *)
(***************************************************************************)
EXTENDS Workspace

CONSTANTS a, b, nobody, worker

MCUsers == {a, b}
MCActors == {a, b}
MCWatchers == {b}
MCPref == [u \in {a, b} |-> IF u = a THEN "dm" ELSE "channel"]
MCOps == ({a} \X {"status", "shelve"}) \cup ({b} \X {"assign", "note", "delete"})
MCWaiting == {"created", "due", "unblocked"}

=============================================================================
