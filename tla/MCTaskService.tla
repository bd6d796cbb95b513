---------------------------- MODULE MCTaskService ----------------------------
(* Small instances of TaskService for TLC. *)
EXTENDS TaskService, TLC

CONSTANTS
    a, b, z,
    MaxWork     \* bound: versions, changed rows and changed edges

Joined == {<<z, a>>, <<z, b>>}      \* z depends on a and b
Symmetry == Permutations(Clients) \cup Permutations({a, b})

\* Two instances in one run, told apart by the due dates of a and b.  In the one nothing
\* has a due date, and both clients complete, reopen, delete, archive and link all tasks;
\* Work bounds how far the tables get from where they began.  In the other both clients use
\* every operation on z, and a and b stay as they are.
All == row[a].due = 0

OfAll == {"none", "status", "delete", "archive_project", "unarchive_project"}
OfOne == {"none", "status", "field", "details", "archive", "unarchive", "delete"}

Work == row[a].version + row[b].version + row[z].version
        + Cardinality({t \in Tasks : ~row[t].live \/ row[t].archived})
        + Cardinality(Depends \ deps)

Instance ==
    IF All THEN /\ \A t \in Tasks : row[t].due = 0
                /\ Work <= MaxWork
                /\ \A c \in Clients : call[c].op \in OfAll
    ELSE /\ row[a].due = 1 /\ row[b].due = 1
         /\ deps = {p \in Depends : row[z].live}
         /\ \A c \in Clients : call[c].op \in OfOne /\ (call[c] # NoCall => call[c].on = z)
=============================================================================
