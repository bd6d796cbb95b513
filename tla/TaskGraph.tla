------------------------------ MODULE TaskGraph ------------------------------
(***************************************************************************)
(* create_task, add_dependency and remove_dependency in the re-entrant     *)
(* units of work they open: create_task calls add_dependency inside its    *)
(* own block.  A task is its number in the project; the project's row is   *)
(* locked from the allocation of a number to the end of the transaction.   *)
(***************************************************************************)
EXTENDS Integers, FiniteSets

CONSTANTS
    Clients,   \* coroutines that call the services
    Ops,       \* the operations they call
    MaxTasks,  \* bound: tasks of the project
    MaxLinks   \* bound: prerequisites named in one create_task

AllOps == {"create", "add", "remove"}
Keys == 1..MaxTasks
Edges == Keys \X Keys

ASSUME OpsAssumption == Ops \subseteq AllOps
ASSUME BoundsAssumption == MaxTasks \in Nat /\ MaxLinks \in Nat

VARIABLES
    next,      \* projects.next_task_number
    tasks,     \* the tasks table, as committed
    deps,      \* task_dependencies: <<t, p>>, t depends on p
    returned,  \* history: tasks that create_task returned to a caller
    raced,     \* history: two add_dependency calls overlapped between check and commit
    pc,        \* per client: the next statement
    depth,     \* ctx.depth: how many blocks are open
    doomed,    \* ctx.rollback_requested
    number,    \* the task under creation, 0 if none
    wanted,    \* create_task: the prerequisites it was given
    explicit,  \* ... as an argument, or else found in the body
    targets,   \* ... those it has still to link
    edge,      \* the pair add_dependency or remove_dependency is called for
    added, removed   \* rows of task_dependencies written and not yet committed

tables == <<next, tasks, deps, returned, raced>>
block  == <<depth, doomed>>
create == <<number, wanted, explicit, targets>>
rows   == <<added, removed>>
vars   == <<tables, pc, block, create, edge, rows>>

NoEdge == <<0, 0>>

\* What a client's own statements see.
SeenTasks(c) == tasks \cup ({number[c]} \ {0})
SeenDeps(c) == (deps \cup added[c]) \ removed[c]

\* validate_edge: p does not already depend on t.
Reaches(E, p, t) ==
    \A V \in SUBSET Keys :
        p \in V /\ (\A e \in E : e[1] \in V => e[2] \in V) => t \in V

\* Mutant: only the reverse edge is looked for.
ValidDirect(c, e) ==
    /\ e[1] \in SeenTasks(c) /\ e[2] \in SeenTasks(c) /\ e[1] # e[2]
    /\ <<e[2], e[1]>> \notin SeenDeps(c)

Valid(c, e) ==
    /\ e[1] \in SeenTasks(c) /\ e[2] \in SeenTasks(c) /\ e[1] # e[2]
    /\ ~Reaches(SeenDeps(c), e[2], e[1])

Init ==
    /\ next = 1 /\ tasks = {} /\ deps = {} /\ returned = {}
    /\ raced = FALSE
    /\ pc = [c \in Clients |-> "idle"]
    /\ depth = [c \in Clients |-> 0]
    /\ doomed = [c \in Clients |-> FALSE]
    /\ number = [c \in Clients |-> 0]
    /\ wanted = [c \in Clients |-> {}]
    /\ explicit = [c \in Clients |-> FALSE]
    /\ targets = [c \in Clients |-> {}]
    /\ edge = [c \in Clients |-> NoEdge]
    /\ added = [c \in Clients |-> {}]
    /\ removed = [c \in Clients |-> {}]

Goto(c, p) == pc' = [pc EXCEPT ![c] = p]

-----------------------------------------------------------------------------
(* SqlAlchemyUnitOfWork.                                                   *)

Enter(c) == depth' = [depth EXCEPT ![c] = @ + 1] /\ UNCHANGED doomed

Close(c) ==
    /\ depth' = [depth EXCEPT ![c] = 0]
    /\ doomed' = [doomed EXCEPT ![c] = FALSE]
    /\ number' = [number EXCEPT ![c] = 0]
    /\ wanted' = [wanted EXCEPT ![c] = {}]
    /\ explicit' = [explicit EXCEPT ![c] = FALSE]
    /\ targets' = [targets EXCEPT ![c] = {}]
    /\ edge' = [edge EXCEPT ![c] = NoEdge]
    /\ added' = [added EXCEPT ![c] = {}]
    /\ removed' = [removed EXCEPT ![c] = {}]
    /\ Goto(c, "idle")
    /\ UNCHANGED raced

Rollback(c) == Close(c) /\ UNCHANGED <<next, tasks, deps>>

Commit(c) ==
    /\ Close(c)
    /\ IF number[c] = 0 THEN UNCHANGED <<next, tasks>>
       ELSE next' = number[c] + 1 /\ tasks' = tasks \cup {number[c]}
    /\ deps' = (deps \cup added[c]) \ removed[c]

\* __aexit__ of the outermost block, left without an exception.
ExitOuter(c) == IF doomed[c] THEN Rollback(c) ELSE Commit(c)

\* __aexit__ of an inner block, left with or without one.
ExitInner(c, raised) ==
    /\ depth' = [depth EXCEPT ![c] = @ - 1]
    /\ doomed' = [doomed EXCEPT ![c] = @ \/ raised]

\* An exception leaves the outermost block, from any statement.
Abort(c) == pc[c] # "idle" /\ Rollback(c) /\ UNCHANGED returned

-----------------------------------------------------------------------------
(* create_task.                                                            *)

\* Prerequisites given as an argument must exist; those in the body are not looked
\* at before they are linked.
CreateTask(c) ==
    /\ pc[c] = "idle" /\ "create" \in Ops
    /\ \E P \in SUBSET Keys, x \in BOOLEAN :
          /\ Cardinality(P) <= MaxLinks
          /\ x => P # {} /\ P \subseteq tasks
          /\ wanted' = [wanted EXCEPT ![c] = P]
          /\ targets' = [targets EXCEPT ![c] = P]
          /\ explicit' = [explicit EXCEPT ![c] = x]
    /\ Enter(c) /\ Goto(c, "allocate")
    /\ UNCHANGED <<tables, number, edge, rows>>

\* Mutant: the number is read and written back without a lock on the project's row.
AllocateUnlocked(c) ==
    /\ pc[c] = "allocate" /\ next <= MaxTasks
    /\ number' = [number EXCEPT ![c] = next]
    /\ Goto(c, "link")
    /\ UNCHANGED <<tables, block, wanted, explicit, targets, edge, rows>>

\* increment_task_number_atomic waits for the row; the task is inserted with it.
Allocate(c) ==
    /\ pc[c] = "allocate" /\ next <= MaxTasks
    /\ \A d \in Clients : number[d] = 0
    /\ number' = [number EXCEPT ![c] = next]
    /\ Goto(c, "link")
    /\ UNCHANGED <<tables, block, wanted, explicit, targets, edge, rows>>

\* Mutant: only one of the prerequisites is linked.
LinkOne(c) ==
    /\ pc[c] = "link"
    /\ \E p \in targets[c] : edge' = [edge EXCEPT ![c] = <<number[c], p>>]
    /\ targets' = [targets EXCEPT ![c] = {}]
    /\ Enter(c) /\ Goto(c, "validate")
    /\ UNCHANGED <<tables, number, wanted, explicit, rows>>

Link(c) ==
    /\ pc[c] = "link"
    /\ \E p \in targets[c] :
          /\ edge' = [edge EXCEPT ![c] = <<number[c], p>>]
          /\ targets' = [targets EXCEPT ![c] = @ \ {p}]
    /\ Enter(c) /\ Goto(c, "validate")
    /\ UNCHANGED <<tables, number, wanted, explicit, rows>>

\* The task is returned, whatever the block does with the transaction.
Created(c) ==
    /\ pc[c] = "link" /\ targets[c] = {}
    /\ returned' = returned \cup {number[c]}
    /\ ExitOuter(c)

-----------------------------------------------------------------------------
(* add_dependency and remove_dependency, called by a user or by create_task.*)

AddDependency(c, e) ==
    /\ pc[c] = "idle" /\ "add" \in Ops /\ e \in tasks \X tasks
    /\ edge' = [edge EXCEPT ![c] = e]
    /\ Enter(c) /\ Goto(c, "validate")
    /\ UNCHANGED <<tables, create, rows>>

\* Another add_dependency has validated its edge and has not committed it.
Overlapped(c) ==
    number[c] = 0 /\ \E d \in Clients \ {c} :
        number[d] = 0 /\ (pc[d] = "insert" \/ added[d] # {})

\* Both tasks and the dependencies of the guild are read, and the edge is checked.
Validate(c) ==
    /\ pc[c] = "validate" /\ Valid(c, edge[c])
    /\ raced' = (raced \/ Overlapped(c))
    /\ Goto(c, "insert")
    /\ UNCHANGED <<next, tasks, deps, returned, block, create, edge, rows>>

\* A row that is there already is left; another's insert of the same row is waited for.
InsertEdge(c) ==
    /\ pc[c] = "insert"
    /\ \A d \in Clients \ {c} : edge[c] \notin added[d]
    /\ added' = [added EXCEPT ![c] = IF edge[c] \in SeenDeps(c) THEN @ ELSE @ \cup {edge[c]}]
    /\ IF depth[c] > 1
       THEN ExitInner(c, FALSE) /\ Goto(c, "link") /\ edge' = [edge EXCEPT ![c] = NoEdge]
       ELSE Goto(c, "exit") /\ UNCHANGED <<block, edge>>
    /\ UNCHANGED <<tables, create, removed>>

\* A missing task or a cycle raises.  create_task re-raises it for a prerequisite
\* given as an argument and drops it for one found in the body.
RejectEdge(c) ==
    /\ pc[c] = "validate" /\ ~Valid(c, edge[c])
    /\ IF depth[c] > 1 /\ ~explicit[c]
       THEN /\ ExitInner(c, TRUE) /\ Goto(c, "link")
            /\ edge' = [edge EXCEPT ![c] = NoEdge]
            /\ UNCHANGED <<tables, create, rows>>
       ELSE Rollback(c) /\ UNCHANGED returned

RemoveDependency(c, e) ==
    /\ pc[c] = "idle" /\ "remove" \in Ops /\ e \in tasks \X tasks
    /\ edge' = [edge EXCEPT ![c] = e]
    /\ Enter(c) /\ Goto(c, "remove")
    /\ UNCHANGED <<tables, create, rows>>

DeleteEdge(c) ==
    /\ pc[c] = "remove"
    /\ \A d \in Clients \ {c} : edge[c] \notin removed[d]
    /\ removed' = [removed EXCEPT ![c] = {edge[c]} \cap deps]
    /\ Goto(c, "exit")
    /\ UNCHANGED <<tables, block, create, edge, added>>

Exit(c) == pc[c] = "exit" /\ ExitOuter(c) /\ UNCHANGED returned

Next ==
    \E c \in Clients :
       \/ CreateTask(c) \/ Allocate(c) \/ Link(c) \/ Created(c)
       \/ \E e \in Edges : AddDependency(c, e) \/ RemoveDependency(c, e)
       \/ Validate(c) \/ InsertEdge(c) \/ RejectEdge(c) \/ DeleteEdge(c)
       \/ Exit(c) \/ Abort(c)

Spec == Init /\ [][Next]_vars

-----------------------------------------------------------------------------
(* Properties.                                                             *)

\* Type invariant of the tables and of the units of work.
TypeOK ==
    /\ next \in 1..(MaxTasks + 1) /\ tasks \subseteq Keys /\ deps \subseteq Edges
    /\ returned \subseteq Keys /\ raced \in BOOLEAN
    /\ pc \in [Clients -> {"idle", "allocate", "link", "validate", "insert", "remove", "exit"}]
    /\ depth \in [Clients -> 0..2] /\ doomed \in [Clients -> BOOLEAN]
    /\ number \in [Clients -> 0..MaxTasks] /\ wanted \in [Clients -> SUBSET Keys]
    /\ explicit \in [Clients -> BOOLEAN] /\ targets \in [Clients -> SUBSET Keys]
    /\ edge \in [Clients -> Edges \cup {NoEdge}]
    /\ added \in [Clients -> SUBSET Edges] /\ removed \in [Clients -> SUBSET Edges]

\* Tasks of a project are numbered without gaps and no number is given twice, also
\* to creations under way: a rollback gives its number back.
NumbersAreSequential ==
    /\ tasks = 1..(next - 1)
    /\ \A c, d \in Clients : number[c] # 0 => number[c] = next /\ (c # d => number[d] = 0)

\* A task created with prerequisites as an argument is stored with all of them or
\* not at all.
CreateIsAtomic ==
    [][\A c \in Clients :
          explicit[c] /\ number[c] \in tasks' \ tasks =>
             {<<number[c], p>> : p \in wanted[c]} \subseteq deps']_vars

\* The tech tree is acyclic as long as no two add_dependency calls overlap between
\* the check of one and the commit of the other: each is checked against what the
\* other has not committed.  Creations, removals and rollbacks may overlap freely.
TechTreeIsDag == raced \/ \A e \in deps : ~Reaches(deps, e[2], e[1])

\* A task that create_task returns is in the database.
ReturnedIsStored == returned \subseteq tasks
=============================================================================
