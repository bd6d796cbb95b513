------------------------------ MODULE TechTree ------------------------------
(***************************************************************************)
(* TechTree.validate_edge: the breadth-first search that decides whether a *)
(* task may depend on a prerequisite, one queue entry per step, and the    *)
(* reconstruction of the cycle it reports.  A pair <<d, p>> of deps is a   *)
(* row of task_dependencies: d depends on p.                               *)
(***************************************************************************)
EXTENDS Naturals, Sequences, FiniteSets

CONSTANT Nodes    \* the tasks of the guild

ASSUME NodesAssumption == IsFiniteSet(Nodes)

VARIABLES
    rawDeps,    \* _raw_dependencies
    dependent,  \* dependent_id: the task that is to depend on ...
    prereq,     \* ... prereq_id
    queue,      \* the queue of the search
    visited,    \* the set of visited tasks
    parent,     \* parent_map
    path,       \* the cycle, from the dependent back to the prerequisite
    verdict     \* "search", "trace", and the outcomes "self", "cycle", "accepted"

asked == <<rawDeps, dependent, prereq>>
searchVars == <<asked, queue, visited, parent, path, verdict>>

Elements(s) == {s[i] : i \in 1..Len(s)}

\* The orders in which a set of rows may come back from the database.
Orderings(S) == {s \in [1..Cardinality(S) -> S] : Elements(s) = S}

SearchInit ==
    /\ rawDeps \in SUBSET {p \in Nodes \X Nodes : p[1] # p[2]}
    /\ dependent \in Nodes /\ prereq \in Nodes
    /\ queue = <<prereq>> /\ visited = {}
    /\ parent = [x \in {} |-> prereq]
    /\ path = << >>
    /\ verdict = IF dependent = prereq THEN "self" ELSE "search"

\* Mutant: the search follows the edges the wrong way round.
FreshReversed(x) == {y \in Nodes : /\ <<y, x>> \in rawDeps
                                   /\ y \notin visited \cup {x} /\ y \notin DOMAIN parent}

Fresh(x) == {y \in Nodes : /\ <<x, y>> \in rawDeps
                           /\ y \notin visited \cup {x} /\ y \notin DOMAIN parent}

\* The head of the queue is the dependent: prereq already depends on it.
Found ==
    /\ verdict = "search" /\ queue # << >> /\ Head(queue) = dependent
    /\ verdict' = "trace"
    /\ path' = <<dependent>>
    /\ UNCHANGED <<asked, queue, visited, parent>>

\* Mutants: a visited task is expanded again; every task's parent is the prerequisite.
VisitAgain ==
    /\ verdict = "search" /\ queue # << >> /\ Head(queue) # dependent
    /\ \E s \in Orderings({y \in Nodes : <<Head(queue), y>> \in rawDeps}) :
          queue' = Tail(queue) \o s
    /\ visited' = visited \cup {Head(queue)}
    /\ UNCHANGED <<asked, parent, path, verdict>>

VisitFromPrereq ==
    /\ verdict = "search" /\ queue # << >> /\ Head(queue) # dependent
    /\ LET x == Head(queue) IN
       IF x \in visited
       THEN queue' = Tail(queue) /\ UNCHANGED <<visited, parent>>
       ELSE /\ visited' = visited \cup {x}
            /\ \E s \in Orderings(Fresh(x)) : queue' = Tail(queue) \o s
            /\ parent' = [y \in DOMAIN parent \cup Fresh(x) |->
                             IF y \in Fresh(x) THEN prereq ELSE parent[y]]
    /\ UNCHANGED <<asked, path, verdict>>

Visit ==
    /\ verdict = "search" /\ queue # << >> /\ Head(queue) # dependent
    /\ LET x == Head(queue) IN
       IF x \in visited
       THEN queue' = Tail(queue) /\ UNCHANGED <<visited, parent>>
       ELSE /\ visited' = visited \cup {x}
            /\ \E s \in Orderings(Fresh(x)) : queue' = Tail(queue) \o s
            /\ parent' = [y \in DOMAIN parent \cup Fresh(x) |->
                             IF y \in Fresh(x) THEN x ELSE parent[y]]
    /\ UNCHANGED <<asked, path, verdict>>

Accept ==
    /\ verdict = "search" /\ queue = << >>
    /\ verdict' = "accepted"
    /\ UNCHANGED <<asked, queue, visited, parent, path>>

\* CircularDependencyError carries the chain of parents.
Trace ==
    /\ verdict = "trace"
    /\ LET x == path[Len(path)] IN
       IF x \in DOMAIN parent
       THEN path' = Append(path, parent[x]) /\ UNCHANGED verdict
       ELSE verdict' = "cycle" /\ UNCHANGED path
    /\ UNCHANGED <<asked, queue, visited, parent>>

SearchNext == Found \/ Visit \/ Accept \/ Trace

Search == SearchInit /\ [][SearchNext]_searchVars

\* A computation without awaits runs to its end.
FairSearch == Search /\ WF_searchVars(SearchNext)

-----------------------------------------------------------------------------
(* Properties.                                                             *)

\* Type invariant of the search.
SearchTypeOK ==
    /\ rawDeps \subseteq Nodes \X Nodes /\ dependent \in Nodes /\ prereq \in Nodes
    /\ queue \in Seq(Nodes) /\ visited \subseteq Nodes
    /\ DOMAIN parent \subseteq Nodes
    /\ path \in Seq(Nodes)
    /\ verdict \in {"search", "trace", "self", "cycle", "accepted"}

\* A relation is acyclic when every non-empty set of tasks has one that depends on
\* none of the set.
Dag(E) ==
    \A S \in SUBSET Nodes : S # {} => \E x \in S : \A y \in S : <<x, y>> \notin E

\* The tech tree's first invariant: an accepted edge cannot introduce a cycle.
AcceptedEdgeKeepsDag ==
    verdict = "accepted" /\ Dag(rawDeps) => Dag(rawDeps \cup {<<dependent, prereq>>})

\* ... and a refused edge would have: the reported chain, read from its end, is a
\* path of dependencies from the prerequisite to the dependent.
RefusalIsJustified ==
    /\ verdict = "self" => dependent = prereq
    /\ verdict = "cycle" =>
          /\ path[1] = dependent /\ path[Len(path)] = prereq
          /\ \A i \in 1..(Len(path) - 1) : <<path[i + 1], path[i]>> \in rawDeps

\* The search ends, on graphs with cycles as well.
Terminates == <>(verdict \in {"self", "cycle", "accepted"})
=============================================================================
