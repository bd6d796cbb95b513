---------------------------- MODULE TaskGraphProofs ----------------------------
(***************************************************************************)
(* Proofs about TaskGraph, for any clients, operations and bounds, and of  *)
(* the search TechTree makes of every edge TaskGraph checks: it is right   *)
(* on every graph, and its verdict is the condition Valid of TaskGraph.    *)
(***************************************************************************)
EXTENDS TaskGraph, TechTree, FiniteSetTheorems, TLAPS

\* The type invariant in two halves, as truth values and numbers want different provers.
Flags ==
    raced \in BOOLEAN /\ doomed \in [Clients -> BOOLEAN] /\ explicit \in [Clients -> BOOLEAN]

Rest ==
    /\ next \in 1..(MaxTasks + 1) /\ tasks \subseteq Keys /\ deps \subseteq Edges
    /\ returned \subseteq Keys
    /\ pc \in [Clients -> {"idle", "allocate", "link", "validate", "insert", "remove", "exit"}]
    /\ depth \in [Clients -> 0..2]
    /\ number \in [Clients -> 0..MaxTasks] /\ wanted \in [Clients -> SUBSET Keys]
    /\ targets \in [Clients -> SUBSET Keys]
    /\ edge \in [Clients -> Edges \cup {NoEdge}]
    /\ added \in [Clients -> SUBSET Edges] /\ removed \in [Clients -> SUBSET Edges]

LEMMA Halves == TypeOK <=> Flags /\ Rest
  BY Zenon DEF TypeOK, Flags, Rest

\* The depth of a client follows from its statement: an inner block is open exactly
\* while create_task links a prerequisite.
Depths ==
    \A c \in Clients :
       depth[c] = CASE pc[c] = "idle" -> 0
                    [] pc[c] \in {"validate", "insert"} /\ number[c] # 0 -> 2
                    [] OTHER -> 1

\* Only create_task has a number, from the allocation to the end of its transaction.
Numbered ==
    \A c \in Clients :
       /\ pc[c] = "link" => number[c] # 0
       /\ pc[c] \in {"idle", "allocate", "remove", "exit"} => number[c] = 0

\* A creation writes edges from its task to others, a call of add_dependency or
\* remove_dependency at most the edge it was called for, between tasks that exist.
OwnEdges(c) ==
    /\ removed[c] = {} /\ added[c] \subseteq {number[c]} \X tasks
    /\ pc[c] \in {"validate", "insert"} => edge[c] \in {number[c]} \X Keys
    /\ pc[c] = "insert" => edge[c] \in {number[c]} \X tasks

CalledFor(c) ==
    /\ pc[c] \in {"validate", "insert", "remove", "exit"} => edge[c] \in tasks \X tasks
    /\ pc[c] # "exit" => added[c] = {} /\ removed[c] = {}
    /\ added[c] \subseteq {edge[c]} /\ (added[c] = {} \/ removed[c] = {})

Written ==
    /\ deps \subseteq tasks \X tasks
    /\ \A c \in Clients : IF number[c] # 0 THEN OwnEdges(c) ELSE CalledFor(c)

IInv == Flags /\ Rest /\ Depths /\ Numbered /\ NumbersAreSequential /\ Written

\* A prerequisite given as an argument has yet to be linked, is being linked, or is.
Linked(c) ==
    \A p \in wanted[c] :
       \/ p \in targets[c]
       \/ pc[c] \in {"validate", "insert"} /\ edge[c] = <<number[c], p>>
       \/ <<number[c], p>> \in added[c]

LinkedInv ==
    \A c \in Clients :
       /\ pc[c] = "allocate" => wanted[c] = targets[c]
       /\ number[c] # 0 /\ explicit[c] => Linked(c)

\* A call of add_dependency between its check and its commit.  As long as no two
\* overlap, the edge of the only one is still valid.
Pending(c) == number[c] = 0 /\ (pc[c] = "insert" \/ added[c] # {})

Acyclic(E) == \A e \in E : ~Reaches(E, e[2], e[1])

DagInv ==
    raced \/ /\ Acyclic(deps)
             /\ \A c \in Clients : Pending(c) => ~Reaches(deps, edge[c][2], edge[c][1])
             /\ \A c, d \in Clients : Pending(c) /\ Pending(d) => c = d

\* A transaction that ends: rolled back from anywhere, committed at the end of its block.
Ends(c) ==
    /\ pc[c] # "idle"
    /\ Rollback(c) \/ (Commit(c) /\ (pc[c] = "exit" \/ (pc[c] = "link" /\ targets[c] = {})))
    /\ returned' = returned \/ (pc[c] = "link" /\ returned' = returned \cup {number[c]})

\* An edge that was found in the body and is refused.
Dropped(c) ==
    /\ pc[c] = "validate" /\ depth[c] > 1 /\ ~explicit[c]
    /\ ExitInner(c, TRUE) /\ Goto(c, "link")
    /\ edge' = [edge EXCEPT ![c] = NoEdge]
    /\ UNCHANGED <<tables, create, rows>>

Step(c) ==
    \/ CreateTask(c) \/ Allocate(c) \/ Link(c)
    \/ \E e \in Edges : AddDependency(c, e) \/ RemoveDependency(c, e)
    \/ Validate(c) \/ InsertEdge(c) \/ Dropped(c) \/ DeleteEdge(c) \/ Ends(c)

LEMMA Steps == Next => \E c \in Clients : Step(c)
<1> SUFFICES ASSUME NEW c \in Clients,
                    \/ CreateTask(c) \/ Allocate(c) \/ Link(c) \/ Created(c)
                    \/ \E e \in Edges : AddDependency(c, e) \/ RemoveDependency(c, e)
                    \/ Validate(c) \/ InsertEdge(c) \/ RejectEdge(c) \/ DeleteEdge(c)
                    \/ Exit(c) \/ Abort(c)
             PROVE  Step(c)
  BY Zenon DEF Next
<1>1. CASE Created(c)
  BY <1>1 DEF Created, ExitOuter, Ends, Step
<1>2. CASE RejectEdge(c)
  BY <1>2 DEF RejectEdge, Dropped, Ends, Step
<1>3. CASE Exit(c)
  BY <1>3 DEF Exit, ExitOuter, Ends, Step
<1>4. CASE Abort(c)
  BY <1>4 DEF Abort, Ends, Step
<1>5. QED BY <1>1, <1>2, <1>3, <1>4 DEF Step

LEMMA InitIInv == Init => IInv
<1> SUFFICES ASSUME Init PROVE IInv OBVIOUS
<1>1. Flags BY DEF Init, Flags
<1>2. Rest BY BoundsAssumption DEF Init, Rest, Keys, Edges
<1>3. Depths /\ Numbered BY DEF Init, Depths, Numbered
<1>4. NumbersAreSequential BY DEF Init, NumbersAreSequential
<1>5. Written BY DEF Init, Written, CalledFor
<1>6. QED BY <1>1, <1>2, <1>3, <1>4, <1>5 DEF IInv

LEMMA FlagsStep ==
  ASSUME Flags, NEW c \in Clients, Step(c)
  PROVE  Flags'
<1>1. CASE CreateTask(c) BY <1>1 DEF CreateTask, Flags, Enter, tables
<1>2. CASE Allocate(c) BY <1>2 DEF Allocate, Flags, tables, block
<1>3. CASE Link(c) BY <1>3 DEF Link, Flags, Enter, tables
<1>4. ASSUME NEW e \in Edges, AddDependency(c, e) PROVE Flags'
  BY <1>4 DEF AddDependency, Flags, Enter, tables, create
<1>5. ASSUME NEW e \in Edges, RemoveDependency(c, e) PROVE Flags'
  BY <1>5 DEF RemoveDependency, Flags, Enter, tables, create
<1>6. CASE Validate(c) BY <1>6 DEF Validate, Flags, block, create
<1>7. CASE InsertEdge(c) BY <1>7 DEF InsertEdge, ExitInner, Flags, tables, block, create
<1>8. CASE Dropped(c) BY <1>8 DEF Dropped, ExitInner, Flags, tables, create
<1>9. CASE DeleteEdge(c) BY <1>9 DEF DeleteEdge, Flags, tables, block, create
<1>10. CASE Ends(c) BY <1>10 DEF Ends, Rollback, Commit, Close, Flags
<1>11. QED
  BY <1>1, <1>2, <1>3, <1>4, <1>5, <1>6, <1>7, <1>8, <1>9, <1>10 DEF Step

LEMMA RestStep ==
  ASSUME IInv, NEW c \in Clients, Step(c)
  PROVE  Rest'
<1>0. Rest BY DEF IInv
<1>d. Depths BY DEF IInv
<1>w. Written BY DEF IInv
<1>n. Numbered BY DEF IInv
<1>1. CASE CreateTask(c)
  BY <1>0, <1>d, <1>1 DEF CreateTask, Rest, Depths, Enter, Goto, tables, rows
<1>2. CASE Allocate(c)
  BY <1>0, <1>2, BoundsAssumption DEF Allocate, Rest, Goto, tables, block, rows, Keys
<1>3. CASE Link(c)
  BY <1>0, <1>d, <1>3, BoundsAssumption DEF Link, Rest, Depths, Enter, Goto, tables, rows, Keys, Edges, Numbered, IInv
<1>4. ASSUME NEW e \in Edges, AddDependency(c, e) PROVE Rest'
  BY <1>0, <1>d, <1>4 DEF AddDependency, Rest, Depths, Enter, Goto, tables, create, rows
<1>5. ASSUME NEW e \in Edges, RemoveDependency(c, e) PROVE Rest'
  BY <1>0, <1>d, <1>5 DEF RemoveDependency, Rest, Depths, Enter, Goto, tables, create, rows
<1>6. CASE Validate(c)
  BY <1>0, <1>6 DEF Validate, Rest, Goto, block, create, rows
<1>7. CASE InsertEdge(c)
  <2>1. pc[c] = "insert" => edge[c] \in Edges
    <3>1. tasks \X tasks \subseteq Edges BY <1>0 DEF Rest, Edges
    <3>2. number[c] # 0 => number[c] \in Keys BY <1>0, BoundsAssumption DEF Rest, Keys
    <3>3. number[c] # 0 => {number[c]} \X tasks \subseteq Edges BY <1>0, <3>2 DEF Rest, Edges
    <3>4. QED BY <1>w, <3>1, <3>3 DEF Written, OwnEdges, CalledFor
  <2>2. depth[c] > 1 => depth[c] - 1 \in 0..2
    BY <1>0 DEF Rest
  <2>3. depth' \in [Clients -> 0..2]
    BY <1>0, <1>7, <2>2 DEF InsertEdge, ExitInner, Rest, block
  <2>4. added' \in [Clients -> SUBSET Edges]
    BY <1>0, <1>7, <2>1 DEF InsertEdge, Rest
  <2>5. edge' \in [Clients -> Edges \cup {NoEdge}]
    BY <1>0, <1>7 DEF InsertEdge, Rest
  <2>6. pc' \in [Clients -> {"idle", "allocate", "link", "validate", "insert", "remove", "exit"}]
    BY <1>0, <1>7 DEF InsertEdge, Rest, Goto
  <2>7. QED BY <1>0, <1>7, <2>3, <2>4, <2>5, <2>6 DEF InsertEdge, Rest, tables, create
<1>8. CASE Dropped(c)
  BY <1>0, <1>8 DEF Dropped, ExitInner, Rest, Goto, tables, create, rows
<1>9. CASE DeleteEdge(c)
  BY <1>0, <1>9 DEF DeleteEdge, Rest, Goto, tables, block, create
<1>10. CASE Ends(c)
  <2>1. /\ pc' \in [Clients -> {"idle", "allocate", "link", "validate", "insert", "remove", "exit"}]
        /\ depth' \in [Clients -> 0..2]
        /\ number' \in [Clients -> 0..MaxTasks] /\ wanted' \in [Clients -> SUBSET Keys]
        /\ targets' \in [Clients -> SUBSET Keys]
        /\ edge' \in [Clients -> Edges \cup {NoEdge}]
        /\ added' \in [Clients -> SUBSET Edges] /\ removed' \in [Clients -> SUBSET Edges]
    BY <1>0, <1>10, BoundsAssumption DEF Ends, Rollback, Commit, Close, Goto, Rest
  <2>2. number[c] # 0 => number[c] \in Keys /\ number[c] + 1 \in 1..(MaxTasks + 1)
    BY <1>0, BoundsAssumption DEF Rest, Keys
  <2>3. next' \in 1..(MaxTasks + 1) /\ tasks' \subseteq Keys
    BY <1>0, <1>10, <2>2 DEF Ends, Rollback, Commit, Rest
  <2>4. returned' \subseteq Keys
    <3>1. returned' # returned => number[c] # 0
      BY <1>10, <1>n, <1>0 DEF Ends, Numbered, Rest
    <3>2. QED BY <1>0, <1>10, <2>2, <3>1 DEF Ends, Rest
  <2>5. deps' \subseteq Edges
    BY <1>0, <1>10 DEF Ends, Rollback, Commit, Rest
  <2>6. QED BY <2>1, <2>3, <2>4, <2>5 DEF Rest
<1>11. QED
  BY <1>1, <1>2, <1>3, <1>4, <1>5, <1>6, <1>7, <1>8, <1>9, <1>10 DEF Step

LEMMA BlocksStep ==
  ASSUME IInv, NEW c \in Clients, Step(c)
  PROVE  Depths' /\ Numbered'
<1>0. Rest /\ Depths /\ Numbered BY DEF IInv
<1>1. CASE CreateTask(c)
  BY <1>0, <1>1 DEF CreateTask, Rest, Depths, Numbered, Enter, Goto
<1>2. CASE Allocate(c)
  <2>1. next # 0 BY <1>0, BoundsAssumption DEF Rest
  <2>2. QED BY <1>0, <1>2, <2>1 DEF Allocate, Rest, Depths, Numbered, Goto, block
<1>3. CASE Link(c)
  BY <1>0, <1>3 DEF Link, Rest, Depths, Numbered, Enter, Goto
<1>4. ASSUME NEW e \in Edges, AddDependency(c, e) PROVE Depths' /\ Numbered'
  BY <1>0, <1>4 DEF AddDependency, Rest, Depths, Numbered, Enter, Goto, create
<1>5. ASSUME NEW e \in Edges, RemoveDependency(c, e) PROVE Depths' /\ Numbered'
  BY <1>0, <1>5 DEF RemoveDependency, Rest, Depths, Numbered, Enter, Goto, create
<1>6. CASE Validate(c)
  BY <1>0, <1>6 DEF Validate, Rest, Depths, Numbered, Goto, block, create
<1>7. CASE InsertEdge(c)
  BY <1>0, <1>7 DEF InsertEdge, ExitInner, Rest, Depths, Numbered, Goto, block, create
<1>8. CASE Dropped(c)
  BY <1>0, <1>8 DEF Dropped, ExitInner, Rest, Depths, Numbered, Goto, create
<1>9. CASE DeleteEdge(c)
  BY <1>0, <1>9 DEF DeleteEdge, Rest, Depths, Numbered, Goto, block, create
<1>10. CASE Ends(c)
  BY <1>0, <1>10 DEF Ends, Rollback, Commit, Close, Rest, Depths, Numbered, Goto
<1>11. QED
  BY <1>1, <1>2, <1>3, <1>4, <1>5, <1>6, <1>7, <1>8, <1>9, <1>10 DEF Step

\* A rollback gives the number back, a commit makes it the last one, and while a number
\* is taken nobody else gets one.
LEMMA SequentialStep ==
  ASSUME IInv, NEW c \in Clients, Step(c)
  PROVE  NumbersAreSequential'
<1>0. Rest /\ NumbersAreSequential BY DEF IInv
<1>1. CASE <<next, tasks, number>>' = <<next, tasks, number>>
  BY <1>0, <1>1 DEF NumbersAreSequential
<1>2. CASE Allocate(c)
  BY <1>0, <1>2 DEF Allocate, Rest, NumbersAreSequential, tables
<1>3. CASE Ends(c)
  <2>1. number' = [number EXCEPT ![c] = 0]
    BY <1>3 DEF Ends, Rollback, Commit, Close
  <2>2. CASE <<next, tasks>>' = <<next, tasks>>
    BY <1>0, <2>1, <2>2 DEF Rest, NumbersAreSequential
  <2>3. CASE number[c] # 0 /\ next' = number[c] + 1 /\ tasks' = tasks \cup {number[c]}
    <3>1. number[c] = next BY <1>0, <2>3 DEF NumbersAreSequential
    <3>2. next \in Nat \ {0} BY <1>0, BoundsAssumption DEF Rest
    <3>3. tasks' = 1..(next' - 1) BY <1>0, <2>3, <3>1, <3>2 DEF NumbersAreSequential
    <3>4. \A d \in Clients : number'[d] = 0
      BY <1>0, <2>1, <2>3 DEF Rest, NumbersAreSequential
    <3>5. QED BY <3>3, <3>4 DEF NumbersAreSequential
  <2>4. QED BY <1>3, <2>2, <2>3 DEF Ends, Rollback, Commit
<1>4. QED
  BY <1>1, <1>2, <1>3 DEF Step, CreateTask, Link, AddDependency, RemoveDependency, Validate,
         InsertEdge, Dropped, DeleteEdge, tables, create

\* A step of c changes the variables of c alone, and tasks are never lost.
LEMMA OthersStay ==
  ASSUME IInv, NEW c \in Clients, Step(c), NEW d \in Clients \ {c}
  PROVE  /\ pc'[d] = pc[d] /\ number'[d] = number[d] /\ edge'[d] = edge[d]
         /\ added'[d] = added[d] /\ removed'[d] = removed[d] /\ wanted'[d] = wanted[d]
         /\ targets'[d] = targets[d] /\ explicit'[d] = explicit[d]
         /\ tasks \subseteq tasks'
<1>0. Rest /\ Flags BY DEF IInv
<1>1. CASE CreateTask(c) BY <1>0, <1>1 DEF CreateTask, Rest, Flags, Goto, tables, rows
<1>2. CASE Allocate(c) BY <1>0, <1>2 DEF Allocate, Rest, Flags, Goto, tables, rows
<1>3. CASE Link(c) BY <1>0, <1>3 DEF Link, Rest, Flags, Goto, tables, rows
<1>4. ASSUME NEW e \in Edges, AddDependency(c, e) \/ RemoveDependency(c, e)
      PROVE  /\ pc'[d] = pc[d] /\ edge'[d] = edge[d]
             /\ UNCHANGED <<number, added, removed, wanted, targets, explicit, tasks>>
  BY <1>0, <1>4 DEF AddDependency, RemoveDependency, Rest, Goto, tables, create, rows
<1>5. CASE Validate(c) BY <1>0, <1>5 DEF Validate, Rest, Goto, create, rows
<1>6. CASE InsertEdge(c) BY <1>0, <1>6 DEF InsertEdge, Rest, Goto, tables, create
<1>7. CASE Dropped(c) BY <1>0, <1>7 DEF Dropped, Rest, Goto, tables, create, rows
<1>8. CASE DeleteEdge(c) BY <1>0, <1>8 DEF DeleteEdge, Rest, Goto, tables, create
<1>9. CASE Ends(c)
  BY <1>0, <1>9 DEF Ends, Rollback, Commit, Close, Rest, Flags, Goto
<1>10. QED
  BY <1>1, <1>2, <1>3, <1>4, <1>5, <1>6, <1>7, <1>8, <1>9 DEF Step

\* Dependencies join tasks that exist: a commit stores the tasks its edges leave from.
LEMMA DepsStep ==
  ASSUME IInv, NEW c \in Clients, Step(c)
  PROVE  deps' \subseteq tasks' \X tasks'
<1>0. Rest /\ Written BY DEF IInv
<1>1. CASE <<deps, tasks>>' = <<deps, tasks>>
  BY <1>0, <1>1 DEF Written
<1>2. CASE Ends(c) /\ Commit(c)
  <2>1. CASE number[c] # 0
    <3>1. tasks' = tasks \cup {number[c]} /\ deps' \subseteq deps \cup added[c]
      BY <1>2, <2>1 DEF Commit
    <3>2. added[c] \subseteq {number[c]} \X tasks
      BY <1>0, <2>1 DEF Written, OwnEdges
    <3>3. QED BY <1>0, <3>1, <3>2 DEF Written
  <2>2. CASE number[c] = 0
    <3>1. tasks' = tasks /\ deps' \subseteq deps \cup added[c]
      BY <1>2, <2>2 DEF Commit
    <3>2. added[c] \subseteq tasks \X tasks
      BY <1>0, <1>2, <2>2 DEF Written, CalledFor, Ends
    <3>3. QED BY <1>0, <3>1, <3>2 DEF Written
  <2>3. QED BY <2>1, <2>2
<1>3. QED
  BY <1>1, <1>2 DEF Step, CreateTask, Allocate, Link, AddDependency, RemoveDependency, Validate,
         InsertEdge, Dropped, DeleteEdge, Ends, Rollback, tables

LEMMA WrittenStep ==
  ASSUME IInv, NEW c \in Clients, Step(c)
  PROVE  Written'
<1>0. Rest /\ Depths /\ Numbered /\ NumbersAreSequential /\ Written BY DEF IInv
<1> DEFINE Mine == IF number[c] # 0 THEN OwnEdges(c) ELSE CalledFor(c)
<1>m. Mine BY <1>0 DEF Written
<1>1. ASSUME NEW d \in Clients, d # c
      PROVE  IF number'[d] # 0 THEN OwnEdges(d)' ELSE CalledFor(d)'
  <2>1. /\ pc'[d] = pc[d] /\ number'[d] = number[d] /\ edge'[d] = edge[d]
        /\ added'[d] = added[d] /\ removed'[d] = removed[d] /\ tasks \subseteq tasks'
    BY <1>1, OthersStay
  <2>2. IF number[d] # 0 THEN OwnEdges(d) ELSE CalledFor(d) BY <1>0 DEF Written
  <2>3. tasks \X tasks \subseteq tasks' \X tasks' BY <2>1
  <2>4. {number[d]} \X tasks \subseteq {number[d]} \X tasks' BY <2>1
  <2>5. QED BY <2>1, <2>2, <2>3, <2>4 DEF OwnEdges, CalledFor
<1>2. Mine'
  <2>1. CASE CreateTask(c)
    BY <1>0, <1>m, <2>1 DEF CreateTask, Rest, Numbered, CalledFor, Goto, tables, rows
  <2>2. CASE Allocate(c)
    BY <1>0, <1>m, <2>2 DEF Allocate, Rest, Numbered, CalledFor, OwnEdges, Goto, tables, rows
  <2>3. CASE Link(c)
    <3>1. \E p \in targets[c] : p \in Keys /\ edge'[c] = <<number[c], p>>
      BY <1>0, <2>3 DEF Link, Rest
    <3>2. QED
      BY <1>0, <1>m, <2>3, <3>1 DEF Link, Rest, Numbered, OwnEdges, Goto, tables, rows
  <2>4. ASSUME NEW e \in Edges, AddDependency(c, e) PROVE Mine'
    BY <1>0, <1>m, <2>4 DEF AddDependency, Rest, Numbered, CalledFor, Goto, tables, create, rows
  <2>5. ASSUME NEW e \in Edges, RemoveDependency(c, e) PROVE Mine'
    BY <1>0, <1>m, <2>5 DEF RemoveDependency, Rest, Numbered, CalledFor, Goto, tables, create, rows
  <2>6. CASE Validate(c)
    <3>1. pc'[c] = "insert" /\ UNCHANGED <<number, edge, added, removed, tasks>>
      BY <1>0, <2>6 DEF Validate, Rest, Goto, create, rows
    <3>2. number[c] # 0 => edge[c] \in {number[c]} \X tasks
      BY <1>m, <2>6 DEF Validate, Valid, SeenTasks, OwnEdges
    <3>3. QED BY <1>m, <2>6, <3>1, <3>2 DEF Validate, OwnEdges, CalledFor
  <2>7. CASE InsertEdge(c)
    <3>1. UNCHANGED <<number, removed, tasks>>
      BY <2>7 DEF InsertEdge, tables, create
    <3>2. pc[c] = "insert" /\ added'[c] \subseteq added[c] \cup {edge[c]}
      BY <1>0, <2>7 DEF InsertEdge, Rest
    <3>3. CASE number[c] # 0
      <4>1. pc'[c] = "link"
        <5>1. depth[c] = 2 BY <1>0, <3>2, <3>3 DEF Depths
        <5>2. QED BY <1>0, <2>7, <5>1 DEF InsertEdge, Rest, Goto
      <4>2. QED BY <1>m, <3>1, <3>2, <3>3, <4>1 DEF OwnEdges
    <3>4. CASE number[c] = 0
      <4>1. pc'[c] = "exit" /\ edge'[c] = edge[c]
        <5>1. depth[c] = 1 BY <1>0, <3>2, <3>4 DEF Depths
        <5>2. QED BY <1>0, <2>7, <5>1 DEF InsertEdge, Rest, Goto
      <4>2. QED BY <1>m, <3>1, <3>2, <3>4, <4>1 DEF CalledFor
    <3>5. QED BY <3>3, <3>4
  <2>8. CASE Dropped(c)
    BY <1>0, <1>m, <2>8 DEF Dropped, Rest, Depths, OwnEdges, Goto, tables, create, rows
  <2>9. CASE DeleteEdge(c)
    BY <1>0, <1>m, <2>9 DEF DeleteEdge, Rest, Numbered, CalledFor, Goto, tables, create
  <2>10. CASE Ends(c)
    BY <1>0, <2>10 DEF Ends, Rollback, Commit, Close, Rest, CalledFor, Goto
  <2>11. QED
    BY <2>1, <2>2, <2>3, <2>4, <2>5, <2>6, <2>7, <2>8, <2>9, <2>10 DEF Step
<1>3. QED BY <1>1, <1>2, DepsStep DEF Written

THEOREM Invariant == Spec => []IInv
<1>1. IInv /\ [Next]_vars => IInv'
  <2> SUFFICES ASSUME IInv, [Next]_vars PROVE IInv' OBVIOUS
  <2>1. ASSUME NEW c \in Clients, Step(c) PROVE IInv'
    <3>1. Flags' BY <2>1, FlagsStep DEF IInv
    <3>2. QED BY <2>1, <3>1, RestStep, BlocksStep, SequentialStep, WrittenStep DEF IInv
  <2>2. CASE UNCHANGED vars
    BY <2>2 DEF IInv, Flags, Rest, Depths, Numbered, NumbersAreSequential, Written, OwnEdges,
           CalledFor, vars, tables, block, create, rows
  <2>3. QED BY <2>1, <2>2, Steps
<1>2. QED BY InitIInv, <1>1, PTL DEF Spec

\* The tables and the units of work keep to their types, an inner block to depth two.
THEOREM TypeCorrect == Spec => []TypeOK
<1>1. IInv => TypeOK BY Halves DEF IInv
<1>2. QED BY <1>1, Invariant, PTL

\* Numbers have no gaps and are given once, for any number of clients and whatever is
\* rolled back: the lock on the project's row holds from the allocation to the end.
THEOREM Sequential == Spec => []NumbersAreSequential
<1>1. IInv => NumbersAreSequential BY DEF IInv
<1>2. QED BY <1>1, Invariant, PTL

-----------------------------------------------------------------------------
(* CreateIsAtomic.                                                         *)

LEMMA LinkedStep ==
  ASSUME IInv, LinkedInv, NEW c \in Clients, Step(c)
  PROVE  LinkedInv'
<1>0. Rest /\ Flags /\ Depths /\ Numbered /\ NumbersAreSequential /\ Written BY DEF IInv
<1> DEFINE Good(d) == /\ pc[d] = "allocate" => wanted[d] = targets[d]
                      /\ number[d] # 0 /\ explicit[d] => Linked(d)
<1>g. Good(c) BY DEF LinkedInv
<1>1. ASSUME NEW d \in Clients, d # c
      PROVE  Good(d)'
  BY <1>1, OthersStay DEF LinkedInv, Linked
<1>2. Good(c)'
  <2>1. CASE CreateTask(c)
    BY <1>0, <2>1 DEF CreateTask, Rest, Numbered, Goto
  <2>2. CASE Allocate(c)
    BY <1>0, <1>g, <2>2 DEF Allocate, Rest, Linked, Goto
  <2>3. CASE Link(c)
    <3>1. PICK p \in targets[c] :
             /\ edge' = [edge EXCEPT ![c] = <<number[c], p>>]
             /\ targets' = [targets EXCEPT ![c] = @ \ {p}]
      BY <2>3 DEF Link
    <3>2. /\ pc'[c] = "validate" /\ edge'[c] = <<number[c], p>>
          /\ targets'[c] = targets[c] \ {p}
          /\ UNCHANGED <<number, wanted, explicit, added>>
      BY <1>0, <2>3, <3>1 DEF Link, Rest, Goto, rows
    <3>3. pc[c] = "link" BY <2>3 DEF Link
    <3>4. QED BY <1>g, <3>2, <3>3 DEF Linked
  <2>4. ASSUME NEW e \in Edges, AddDependency(c, e) \/ RemoveDependency(c, e)
        PROVE  Good(c)'
    BY <1>0, <2>4 DEF AddDependency, RemoveDependency, Rest, Numbered, Goto, create
  <2>5. CASE Validate(c)
    BY <1>0, <1>g, <2>5 DEF Validate, Rest, Linked, Goto, create, rows
  <2>6. CASE InsertEdge(c)
    <3>1. CASE number[c] # 0
      <4>1. number[c] \notin tasks
        BY <1>0, <3>1, BoundsAssumption DEF Rest, NumbersAreSequential
      <4>2. edge[c] \in {number[c]} \X tasks /\ deps \subseteq tasks \X tasks
        BY <1>0, <2>6, <3>1 DEF InsertEdge, Written, OwnEdges
      <4>3. edge[c] \notin deps BY <4>1, <4>2
      <4>4. edge[c] \in added'[c] /\ added[c] \subseteq added'[c]
        BY <1>0, <2>6, <4>3 DEF InsertEdge, Rest, SeenDeps
      <4>5. depth[c] = 2 /\ pc[c] = "insert" BY <1>0, <2>6, <3>1 DEF Depths, InsertEdge
      <4>6. pc'[c] = "link" BY <1>0, <2>6, <4>5 DEF InsertEdge, Rest, Goto
      <4>7. UNCHANGED <<number, wanted, explicit, targets>> BY <2>6 DEF InsertEdge, create
      <4>8. QED BY <1>g, <4>4, <4>5, <4>6, <4>7 DEF Linked
    <3>2. CASE number[c] = 0
      BY <1>0, <2>6, <3>2 DEF InsertEdge, Rest, Goto, create
    <3>3. QED BY <3>1, <3>2
  <2>7. CASE Dropped(c)
    BY <1>0, <2>7 DEF Dropped, Rest, Goto, create
  <2>8. CASE DeleteEdge(c)
    BY <1>0, <2>8 DEF DeleteEdge, Rest, Numbered, Goto, create
  <2>9. CASE Ends(c)
    BY <1>0, <2>9 DEF Ends, Rollback, Commit, Close, Rest, Goto
  <2>10. QED
    BY <2>1, <2>2, <2>3, <2>4, <2>5, <2>6, <2>7, <2>8, <2>9 DEF Step
<1>3. QED BY <1>1, <1>2 DEF LinkedInv

\* What a commit stores with the task: everything it was given as an argument.
LEMMA StoredWhole ==
  ASSUME IInv, LinkedInv, NEW c \in Clients, Step(c),
         NEW d \in Clients, explicit[d], number[d] \in tasks' \ tasks
  PROVE  {<<number[d], p>> : p \in wanted[d]} \subseteq deps'
<1>0. Rest /\ Numbered /\ NumbersAreSequential /\ Written BY DEF IInv
<1>1. Ends(c) /\ Commit(c) /\ number[c] # 0
  BY <1>0 DEF Step, CreateTask, Allocate, Link, AddDependency, RemoveDependency, Validate,
       InsertEdge, Dropped, DeleteEdge, Ends, Rollback, Commit, tables
<1>2. number[d] = number[c] /\ number[d] # 0
  BY <1>0, <1>1 DEF Commit, Rest
<1>3. c = d BY <1>0, <1>2 DEF NumbersAreSequential
<1>4. pc[c] = "link" /\ targets[c] = {} BY <1>0, <1>1 DEF Ends, Numbered, Rollback
<1>5. \A p \in wanted[c] : <<number[c], p>> \in added[c]
  BY <1>1, <1>3, <1>4 DEF LinkedInv, Linked
<1>6. removed[c] = {} BY <1>0, <1>1 DEF Written, OwnEdges
<1>7. deps' = deps \cup added[c] BY <1>1, <1>6 DEF Commit
<1>8. QED BY <1>3, <1>5, <1>7

\* A task created with prerequisites as an argument is stored with all of them or not
\* at all, however the nested blocks end and whatever runs besides.
THEOREM Atomic == Spec => CreateIsAtomic
<1>1. Init => LinkedInv BY DEF Init, LinkedInv, Linked
<1>2. IInv /\ LinkedInv /\ [Next]_vars => LinkedInv'
  <2>1. CASE UNCHANGED vars
    BY <2>1 DEF LinkedInv, Linked, vars, tables, block, create, rows
  <2>2. QED BY <2>1, LinkedStep, Steps
<1>3. Spec => []LinkedInv BY <1>1, <1>2, Invariant, PTL DEF Spec
<1> DEFINE Whole == \A c \in Clients :
              explicit[c] /\ number[c] \in tasks' \ tasks =>
                 {<<number[c], p>> : p \in wanted[c]} \subseteq deps'
<1>4. IInv /\ LinkedInv /\ [Next]_vars => [Whole]_vars
  <2>1. IInv /\ LinkedInv /\ Next => Whole BY StoredWhole, Steps
  <2>2. QED BY <2>1
<1>5. QED BY <1>3, <1>4, Invariant, PTL DEF Spec, CreateIsAtomic

-----------------------------------------------------------------------------
(* TechTreeIsDag.                                                          *)

LEMMA FewerEdges ==
  ASSUME NEW E, NEW F \in SUBSET E, NEW p, NEW t, ~Reaches(E, p, t)
  PROVE  ~Reaches(F, p, t)
  BY DEF Reaches

\* A valid edge closes no cycle: a set that separates the ends of an old edge still does,
\* alone or cut with the set that separates the ends of the new one.
LEMMA ValidEdge ==
  ASSUME NEW E \in SUBSET Edges, Acyclic(E), NEW e \in Edges, ~Reaches(E, e[2], e[1])
  PROVE  Acyclic(E \cup {e})
<1>1. PICK V \in SUBSET Keys :
         /\ e[2] \in V /\ e[1] \notin V
         /\ \A g \in E : g[1] \in V => g[2] \in V
  BY DEF Reaches
<1>2. ~Reaches(E \cup {e}, e[2], e[1]) BY <1>1 DEF Reaches
<1>3. ASSUME NEW f \in E PROVE ~Reaches(E \cup {e}, f[2], f[1])
  <2>1. PICK W \in SUBSET Keys :
           /\ f[2] \in W /\ f[1] \notin W
           /\ \A g \in E : g[1] \in W => g[2] \in W
    BY DEF Reaches, Acyclic
  <2>2. CASE f[1] \in V
    <3>1. f[2] \in V \cap W /\ f[1] \notin V \cap W BY <1>1, <2>1, <2>2
    <3>2. \A g \in E \cup {e} : g[1] \in V \cap W => g[2] \in V \cap W BY <1>1, <2>1
    <3>3. QED BY <3>1, <3>2 DEF Reaches
  <2>3. CASE f[1] \notin V
    <3>1. f[2] \in V \cup W /\ f[1] \notin V \cup W BY <2>1, <2>3
    <3>2. \A g \in E \cup {e} : g[1] \in V \cup W => g[2] \in V \cup W BY <1>1, <2>1
    <3>3. QED BY <3>1, <3>2 DEF Reaches
  <2>4. QED BY <2>2, <2>3
<1>4. QED BY <1>2, <1>3 DEF Acyclic

\* A task nothing depends on may depend on others: it is on no way between them.
LEMMA NewTask ==
  ASSUME NEW T \in SUBSET Keys, NEW E \in SUBSET (T \X T), NEW n \in Keys \ T,
         NEW A \in SUBSET ({n} \X T)
  PROVE  /\ \A p, t \in T : ~Reaches(E, p, t) => ~Reaches(E \cup A, p, t)
         /\ Acyclic(E) => Acyclic(E \cup A)
<1>1. ASSUME NEW p \in T, NEW t \in T, ~Reaches(E, p, t)
      PROVE  ~Reaches(E \cup A, p, t)
  <2>1. PICK V \in SUBSET Keys :
           p \in V /\ t \notin V /\ \A g \in E : g[1] \in V => g[2] \in V
    BY <1>1 DEF Reaches
  <2>2. V \cap T \in SUBSET Keys /\ p \in V \cap T /\ t \notin V \cap T BY <2>1
  <2>3. \A g \in E \cup A : g[1] \in V \cap T => g[2] \in V \cap T BY <2>1
  <2>4. QED BY <2>2, <2>3 DEF Reaches
<1>2. ASSUME NEW a \in A PROVE ~Reaches(E \cup A, a[2], a[1])
  <2>1. T \in SUBSET Keys /\ a[2] \in T /\ a[1] \notin T OBVIOUS
  <2>2. \A g \in E \cup A : g[1] \in T => g[2] \in T OBVIOUS
  <2>3. QED BY <2>1, <2>2 DEF Reaches
<1>3. ASSUME Acyclic(E), NEW g \in E PROVE ~Reaches(E \cup A, g[2], g[1])
  BY <1>1, <1>3 DEF Acyclic
<1>4. QED BY <1>1, <1>2, <1>3 DEF Acyclic

\* A call becomes pending by its check only, and what it is called for stays.
LEMMA PendingStep ==
  ASSUME IInv, NEW c \in Clients, Step(c), Pending(c)'
  PROVE  \/ Pending(c) /\ edge'[c] = edge[c] /\ deps' = deps /\ raced' = raced
         \/ Validate(c) /\ number[c] = 0
<1>0. Rest /\ Depths /\ Numbered /\ Written BY DEF IInv
<1>1. CASE CreateTask(c)
  BY <1>0, <1>1 DEF CreateTask, Rest, Numbered, Written, CalledFor, Pending, Goto, rows
<1>2. CASE Allocate(c)
  BY <1>0, <1>2, BoundsAssumption DEF Allocate, Rest, Pending, Goto, rows
<1>3. CASE Link(c)
  BY <1>0, <1>3 DEF Link, Rest, Numbered, Pending, Goto, rows
<1>4. ASSUME NEW e \in Edges, AddDependency(c, e) \/ RemoveDependency(c, e) PROVE FALSE
  BY <1>0, <1>4 DEF AddDependency, RemoveDependency, Rest, Numbered, Written, CalledFor,
         Pending, Goto, create, rows
<1>5. CASE Validate(c)
  BY <1>5 DEF Validate, Pending, create
<1>6. CASE InsertEdge(c)
  <2>1. number[c] = 0 /\ Pending(c) BY <1>6 DEF InsertEdge, Pending, create
  <2>2. depth[c] = 1 BY <1>0, <1>6, <2>1 DEF Depths, InsertEdge
  <2>3. QED BY <1>6, <2>1, <2>2 DEF InsertEdge, tables
<1>7. CASE Dropped(c)
  <2>1. number[c] = 0 BY <1>7 DEF Dropped, Pending, create
  <2>2. depth[c] = 1 BY <1>0, <1>7, <2>1 DEF Depths, Dropped
  <2>3. QED BY <1>7, <2>2 DEF Dropped
<1>8. CASE DeleteEdge(c)
  BY <1>0, <1>8 DEF DeleteEdge, Rest, Numbered, Written, CalledFor, Pending, Goto
<1>9. CASE Ends(c)
  BY <1>0, <1>9 DEF Ends, Rollback, Commit, Close, Rest, Pending, Goto
<1>10. QED
  BY <1>1, <1>2, <1>3, <1>4, <1>5, <1>6, <1>7, <1>8, <1>9 DEF Step

\* What a commit does to the dependencies that are there, and to the only pending call.
LEMMA CommitKeepsDag ==
  ASSUME IInv, DagInv, ~raced, NEW c \in Clients, Ends(c), Commit(c)
  PROVE  /\ Acyclic(deps')
         /\ \A d \in Clients \ {c} :
               Pending(d) => ~Reaches(deps', edge[d][2], edge[d][1])
<1>0. Rest /\ Numbered /\ NumbersAreSequential /\ Written BY DEF IInv
<1>1. Acyclic(deps) BY DEF DagInv
<1>2. ASSUME NEW d \in Clients, Pending(d)
      PROVE  edge[d] \in tasks \X tasks /\ ~Reaches(deps, edge[d][2], edge[d][1])
  BY <1>0, <1>2 DEF DagInv, Pending, Written, CalledFor
<1>3. deps' \subseteq deps \cup added[c] BY DEF Commit
<1>4. CASE number[c] # 0
  <2>1. number[c] \in Keys \ tasks
    BY <1>0, <1>4, BoundsAssumption DEF Rest, NumbersAreSequential, Keys
  <2>2. added[c] \in SUBSET ({number[c]} \X tasks) /\ deps \in SUBSET (tasks \X tasks)
        /\ tasks \in SUBSET Keys
    BY <1>0, <1>4 DEF Written, OwnEdges, Rest
  <2>3. /\ \A p, t \in tasks : ~Reaches(deps, p, t) => ~Reaches(deps \cup added[c], p, t)
        /\ Acyclic(deps \cup added[c])
    BY <2>1, <2>2, <1>1, NewTask
  <2>4. \A p, t : ~Reaches(deps \cup added[c], p, t) => ~Reaches(deps', p, t)
    BY <1>3, FewerEdges
  <2>5. Acyclic(deps') BY <1>3, <2>3, <2>4 DEF Acyclic
  <2>6. QED BY <1>2, <2>3, <2>4, <2>5
<1>5. CASE number[c] = 0 /\ added[c] = {}
  <2>1. \A p, t : ~Reaches(deps, p, t) => ~Reaches(deps', p, t)
    BY <1>3, <1>5, FewerEdges
  <2>2. Acyclic(deps') BY <1>1, <1>3, <1>5, <2>1 DEF Acyclic
  <2>3. QED BY <1>2, <2>1, <2>2
<1>6. CASE number[c] = 0 /\ added[c] # {}
  <2>1. Pending(c) BY <1>6 DEF Pending
  <2>2. \A d \in Clients \ {c} : ~Pending(d) BY <2>1 DEF DagInv
  <2>3. edge[c] \in Edges BY <1>0, <1>2, <2>1 DEF Rest, Edges
  <2>4. Acyclic(deps \cup {edge[c]})
    BY <1>0, <1>1, <1>2, <2>1, <2>3, ValidEdge DEF Rest
  <2>5. deps' \subseteq deps \cup {edge[c]}
    BY <1>0, <1>3, <1>6 DEF Written, CalledFor
  <2>6. \A p, t : ~Reaches(deps \cup {edge[c]}, p, t) => ~Reaches(deps', p, t)
    BY <2>5, FewerEdges
  <2>7. Acyclic(deps') BY <2>4, <2>5, <2>6 DEF Acyclic
  <2>8. QED BY <2>2, <2>7
<1>7. QED BY <1>4, <1>5, <1>6

LEMMA DagStep ==
  ASSUME IInv, DagInv, NEW c \in Clients, Step(c)
  PROVE  DagInv'
<1>0. Rest /\ Flags /\ Numbered /\ Written BY DEF IInv
<1>r. raced => raced'
  BY DEF Step, CreateTask, Allocate, Link, AddDependency, RemoveDependency, Validate, InsertEdge,
         Dropped, DeleteEdge, Ends, Rollback, Commit, Close, tables
<1> SUFFICES ASSUME ~raced' PROVE DagInv' BY DEF DagInv
<1>1. ~raced /\ Acyclic(deps)
      /\ (\A d \in Clients : Pending(d) => ~Reaches(deps, edge[d][2], edge[d][1]))
      /\ (\A d, f \in Clients : Pending(d) /\ Pending(f) => d = f)
  BY <1>r DEF DagInv
<1>2. \A d \in Clients \ {c} : Pending(d)' = Pending(d) /\ edge'[d] = edge[d]
  BY OthersStay DEF Pending
<1>3. CASE Ends(c) /\ Commit(c)
  <2>1. Acyclic(deps') /\ \A d \in Clients \ {c} :
           Pending(d) => ~Reaches(deps', edge[d][2], edge[d][1])
    BY <1>1, <1>3, CommitKeepsDag
  <2>2. ~Pending(c)'
    BY <1>0, <1>3 DEF Commit, Close, Rest, Pending, Goto
  <2>3. QED BY <1>1, <1>2, <2>1, <2>2 DEF DagInv
<1>4. CASE Validate(c) /\ number[c] = 0
  <2>1. deps' = deps /\ edge'[c] = edge[c] BY <1>4 DEF Validate
  <2>2. SeenDeps(c) = deps BY <1>0, <1>4 DEF Validate, Written, CalledFor, SeenDeps
  <2>3. ~Reaches(deps, edge[c][2], edge[c][1]) BY <1>4, <2>2 DEF Validate, Valid
  <2>4. \A d \in Clients \ {c} : ~Pending(d) BY <1>4 DEF Validate, Overlapped, Pending
  <2>5. QED BY <1>1, <1>2, <2>1, <2>3, <2>4 DEF DagInv
<1>5. CASE deps' = deps /\ ~(Validate(c) /\ number[c] = 0)
  <2>1. Pending(c)' => Pending(c) /\ edge'[c] = edge[c] BY <1>5, PendingStep
  <2>2. QED BY <1>1, <1>2, <1>5, <2>1 DEF DagInv
<1>6. QED
  BY <1>3, <1>4, <1>5 DEF Step, CreateTask, Allocate, Link, AddDependency, RemoveDependency,
         Validate, InsertEdge, Dropped, DeleteEdge, Ends, Rollback, tables

\* The graph stays acyclic for any clients as long as no two calls of add_dependency
\* overlap between check and commit; creations and removals may overlap freely.
THEOREM StaysAcyclic == Spec => []TechTreeIsDag
<1>1. Init => DagInv BY DEF Init, DagInv, Acyclic, Pending
<1>2. IInv /\ DagInv /\ [Next]_vars => DagInv'
  <2>1. CASE UNCHANGED vars
    BY <2>1 DEF DagInv, Acyclic, Pending, vars, tables, create, rows
  <2>2. QED BY <2>1, DagStep, Steps
<1>3. DagInv => TechTreeIsDag BY DEF DagInv, TechTreeIsDag, Acyclic
<1>4. QED BY <1>1, <1>2, <1>3, Invariant, PTL DEF Spec

-----------------------------------------------------------------------------
(* The search of validate_edge: an accepted edge keeps the tech tree       *)
(* acyclic, and a refusal reports a real cycle.                            *)

\* What the queue holds after its head is taken and new entries are appended.
LEMMA ElementsTail ==
    ASSUME NEW S, NEW s \in Seq(S), s # << >>
    PROVE  /\ Head(s) \in S /\ Tail(s) \in Seq(S)
           /\ Elements(s) = {Head(s)} \cup Elements(Tail(s))
<1>1. Head(s) \in S /\ Tail(s) \in Seq(S) /\ Len(Tail(s)) = Len(s) - 1 /\ Len(s) \in Nat
    OBVIOUS
<1>2. ASSUME NEW i \in 1..Len(s) PROVE s[i] \in {Head(s)} \cup Elements(Tail(s))
    <2>1. CASE i = 1 BY <2>1
    <2>2. CASE i # 1
        <3>1. i - 1 \in 1..Len(Tail(s)) /\ Tail(s)[i - 1] = s[i] BY <1>1, <2>2
        <3> QED BY <3>1 DEF Elements
    <2> QED BY <2>1, <2>2
<1>3. ASSUME NEW i \in 1..Len(Tail(s)) PROVE Tail(s)[i] \in Elements(s)
    <2>1. i + 1 \in 1..Len(s) /\ Tail(s)[i] = s[i + 1] BY <1>1
    <2> QED BY <2>1 DEF Elements
<1>4. Head(s) \in Elements(s)
    <2>1. 1 \in 1..Len(s) /\ Head(s) = s[1] BY <1>1
    <2> QED BY <2>1 DEF Elements
<1> QED BY <1>1, <1>2, <1>3, <1>4 DEF Elements

\* Appending the new entries adds exactly their elements to the queue.
LEMMA ElementsConcat ==
    ASSUME NEW S, NEW s \in Seq(S), NEW r \in Seq(S)
    PROVE  s \o r \in Seq(S) /\ Elements(s \o r) = Elements(s) \cup Elements(r)
<1>1. /\ s \o r \in Seq(S) /\ Len(s \o r) = Len(s) + Len(r)
      /\ Len(s) \in Nat /\ Len(r) \in Nat
    OBVIOUS
<1>2. ASSUME NEW i \in 1..Len(s \o r) PROVE (s \o r)[i] \in Elements(s) \cup Elements(r)
    <2>1. CASE i <= Len(s)
        <3>1. i \in 1..Len(s) /\ (s \o r)[i] = s[i] BY <1>1, <2>1
        <3> QED BY <3>1 DEF Elements
    <2>2. CASE i > Len(s)
        <3>1. i - Len(s) \in 1..Len(r) /\ (s \o r)[i] = r[i - Len(s)] BY <1>1, <2>2
        <3> QED BY <3>1 DEF Elements
    <2> QED BY <1>1, <2>1, <2>2
<1>3. ASSUME NEW i \in 1..Len(s) PROVE s[i] \in Elements(s \o r)
    <2>1. i \in 1..Len(s \o r) /\ (s \o r)[i] = s[i] BY <1>1
    <2> QED BY <2>1 DEF Elements
<1>4. ASSUME NEW i \in 1..Len(r) PROVE r[i] \in Elements(s \o r)
    <2>1. i + Len(s) \in 1..Len(s \o r) /\ (s \o r)[i + Len(s)] = r[i] BY <1>1
    <2> QED BY <2>1 DEF Elements
<1> QED BY <1>1, <1>2, <1>3, <1>4 DEF Elements

\* The rows of the database come back as a sequence of exactly those tasks.
LEMMA OrderingIsSeq ==
    ASSUME NEW S \in SUBSET Nodes, NEW s \in Orderings(S)
    PROVE  s \in Seq(Nodes) /\ Elements(s) = S
<1>1. Cardinality(S) \in Nat
    BY NodesAssumption, FS_Subset, FS_CardinalityType
<1>2. s \in Seq(S) BY <1>1 DEF Orderings
<1> QED BY <1>2 DEF Orderings

\* Closure: if V holds the prerequisite and all that its members depend on, but not
\* the dependent, the new edge closes no cycle.
LEMMA ClosedSetSeparates ==
    ASSUME NEW E, NEW d \in Nodes, NEW p \in Nodes, Dag(E),
           NEW V \in SUBSET Nodes, p \in V, d \notin V,
           \A x \in V, y \in Nodes : <<x, y>> \in E => y \in V
    PROVE  Dag(E \cup {<<d, p>>})
<1> SUFFICES ASSUME NEW S \in SUBSET Nodes, S # {}
             PROVE  \E x \in S : \A y \in S : <<x, y>> \notin E \cup {<<d, p>>}
    BY DEF Dag
<1>1. CASE S \cap V = {}
    <2>1. PICK x \in S : \A y \in S : <<x, y>> \notin E BY DEF Dag
    <2> QED BY <2>1, <1>1
<1>2. CASE S \cap V # {}
    <2>1. S \cap V \in SUBSET Nodes OBVIOUS
    <2>2. PICK x \in S \cap V : \A y \in S \cap V : <<x, y>> \notin E
        BY <1>2, <2>1 DEF Dag
    <2>3. \A y \in S : <<x, y>> \notin E BY <2>2
    <2>4. x # d BY <2>2
    <2> QED BY <2>2, <2>3, <2>4
<1> QED BY <1>1, <1>2

-----------------------------------------------------------------------------
(* The inductive invariant.                                                *)

Seen == visited \cup Elements(queue)

\* What was visited is closed under dependency, but for what is still queued.
Closed ==
    /\ prereq \in Seen /\ dependent \notin visited
    /\ DOMAIN parent \subseteq Seen
    /\ \A x \in visited, y \in Nodes : <<x, y>> \in rawDeps => y \in Seen

\* Everything seen is the prerequisite or was reached over an edge from its parent.
Reached == DOMAIN parent \cup {prereq}

ParentsAreEdges ==
    /\ Seen \subseteq Reached
    /\ \A y \in DOMAIN parent : parent[y] \in Reached /\ <<parent[y], y>> \in rawDeps

\* The path so far runs from the dependent backwards over edges.
PathIsChain ==
    /\ path # << >> /\ path[1] = dependent
    /\ \A i \in 1..Len(path) : path[i] \in Reached
    /\ \A i \in 1..(Len(path) - 1) : <<path[i + 1], path[i]>> \in rawDeps

SearchInv ==
    /\ SearchTypeOK
    /\ verdict \in {"search", "accepted"} => Closed
    /\ ParentsAreEdges
    /\ verdict = "accepted" => queue = << >>
    /\ verdict = "self" => dependent = prereq
    /\ verdict \in {"trace", "cycle"} => PathIsChain
    /\ verdict = "cycle" => path[Len(path)] = prereq

\* The search starts in the invariant.
LEMMA SearchBegins == SearchInit => SearchInv
<1> SUFFICES ASSUME SearchInit PROVE SearchInv OBVIOUS
<1>1. Elements(<<prereq>>) = {prereq} BY DEF Elements
<1>2. DOMAIN parent = {} BY DEF SearchInit
<1>3. <<prereq>> \in Seq(Nodes) /\ << >> \in Seq(Nodes) BY DEF SearchInit
<1>4. SearchTypeOK BY <1>2, <1>3 DEF SearchInit, SearchTypeOK
<1>5. Seen = {prereq} BY <1>1 DEF SearchInit, Seen
<1>6. verdict \in {"search", "accepted"} => Closed BY <1>2, <1>5 DEF SearchInit, Closed
<1>7. ParentsAreEdges BY <1>2, <1>5 DEF ParentsAreEdges, Reached
<1> QED BY <1>4, <1>6, <1>7 DEF SearchInv, SearchInit

\* One turn of the while loop, on a task that is not the dependent, keeps it.
LEMMA VisitKeepsInv == SearchInv /\ Visit => SearchInv'
<1> SUFFICES ASSUME SearchInv, Visit PROVE SearchInv' OBVIOUS
<1> DEFINE x == Head(queue)
<1>1. /\ x \in Nodes /\ Tail(queue) \in Seq(Nodes)
      /\ Elements(queue) = {x} \cup Elements(Tail(queue))
    BY ElementsTail DEF Visit, SearchInv, SearchTypeOK
<1>2. verdict = "search" /\ verdict' = "search" /\ x # dependent /\ UNCHANGED <<asked, path>>
    BY DEF Visit
<1>3. CASE x \in visited
    <2>1. queue' = Tail(queue) /\ UNCHANGED <<visited, parent>> BY <1>3 DEF Visit
    <2>2. Seen' = Seen BY <1>1, <1>3, <2>1 DEF Seen, Elements
    <2>3. SearchTypeOK' BY <1>1, <1>2, <2>1 DEF SearchInv, SearchTypeOK, asked
    <2>4. Closed' BY <1>2, <2>1, <2>2 DEF SearchInv, Closed, asked
    <2>5. ParentsAreEdges' BY <1>2, <2>1, <2>2 DEF SearchInv, ParentsAreEdges, Reached, asked
    <2> QED BY <1>2, <2>3, <2>4, <2>5 DEF SearchInv
<1>4. CASE x \notin visited
    <2> DEFINE F == Fresh(x)
    <2>1. /\ visited' = visited \cup {x}
          /\ parent' = [y \in DOMAIN parent \cup F |-> IF y \in F THEN x ELSE parent[y]]
        BY <1>4 DEF Visit
    <2>2. PICK s \in Orderings(F) : queue' = Tail(queue) \o s BY <1>4 DEF Visit
    <2>3. F \in SUBSET Nodes BY DEF Fresh
    <2>4. s \in Seq(Nodes) /\ Elements(s) = F BY <2>3, OrderingIsSeq
    <2>5. queue' \in Seq(Nodes) /\ Elements(queue') = Elements(Tail(queue)) \cup F
        <3>1. /\ Tail(queue) \o s \in Seq(Nodes)
              /\ Elements(Tail(queue) \o s) = Elements(Tail(queue)) \cup Elements(s)
            <4>1. \A u, v \in Seq(Nodes) : /\ u \o v \in Seq(Nodes)
                                           /\ Elements(u \o v) = Elements(u) \cup Elements(v)
                BY ElementsConcat, Zenon
            <4> HIDE DEF x, F
            <4> QED BY <1>1, <2>4, <4>1
        <3> QED BY <2>2, <2>4, <3>1
    <2>6. Seen' = Seen \cup F
        <3>1. Elements(queue)' = Elements(queue') BY DEF Elements
        <3> QED BY <1>1, <2>1, <2>5, <3>1 DEF Seen
    <2>7. x \in Seen BY <1>1 DEF Seen
    <2>8. DOMAIN parent' = DOMAIN parent \cup F BY <2>1
    <2>9. SearchTypeOK' BY <1>1, <1>2, <2>1, <2>3, <2>5, <2>8 DEF SearchInv, SearchTypeOK, asked
    <2>10. Closed'
        <3>1. prereq' \in Seen' /\ dependent' \notin visited'
            BY <1>2, <2>1, <2>6 DEF SearchInv, Closed, asked
        <3>2. DOMAIN parent' \subseteq Seen' BY <1>2, <2>6, <2>8 DEF SearchInv, Closed
        <3>3. ASSUME NEW y \in Nodes, <<x, y>> \in rawDeps PROVE y \in Seen'
            <4>1. y \in visited \cup {x} \/ y \in DOMAIN parent \/ y \in F
                BY <3>3 DEF Fresh
            <4> QED BY <1>2, <2>6, <2>7, <4>1 DEF SearchInv, Closed, Seen
        <3>4. \A z \in visited', y \in Nodes : <<z, y>> \in rawDeps' => y \in Seen'
            BY <1>2, <2>1, <2>6, <3>3 DEF SearchInv, Closed, asked
        <3> QED BY <3>1, <3>2, <3>4 DEF Closed
    <2>11. ParentsAreEdges'
        <3>1. Reached' = Reached \cup F BY <1>2, <2>8 DEF Reached, asked
        <3>2. Seen' \subseteq Reached' BY <2>6, <3>1 DEF SearchInv, ParentsAreEdges
        <3>3. ASSUME NEW y \in DOMAIN parent'
              PROVE  parent'[y] \in Reached' /\ <<parent'[y], y>> \in rawDeps'
            <4>1. CASE y \in F
                <5>1. parent'[y] = x BY <2>1, <4>1
                <5>2. <<x, y>> \in rawDeps BY <4>1 DEF Fresh
                <5> QED BY <1>2, <2>7, <3>1, <5>1, <5>2 DEF SearchInv, ParentsAreEdges, asked
            <4>2. CASE y \notin F
                <5>1. parent'[y] = parent[y] /\ y \in DOMAIN parent BY <2>1, <2>8, <3>3, <4>2
                <5> QED BY <1>2, <3>1, <5>1 DEF SearchInv, ParentsAreEdges, asked
            <4> QED BY <4>1, <4>2
        <3> QED BY <3>2, <3>3 DEF ParentsAreEdges
    <2> QED BY <1>2, <2>9, <2>10, <2>11 DEF SearchInv
<1> QED BY <1>3, <1>4

\* One step back along parent_map keeps the chain a chain.
LEMMA TraceKeepsInv == SearchInv /\ Trace => SearchInv'
<1> SUFFICES ASSUME SearchInv, Trace PROVE SearchInv' OBVIOUS
<1> DEFINE x == path[Len(path)]
<1>1. /\ verdict = "trace" /\ UNCHANGED <<asked, queue, visited, parent>>
      /\ path \in Seq(Nodes) /\ PathIsChain /\ ParentsAreEdges
    BY DEF Trace, SearchInv, SearchTypeOK
<1>2. Len(path) \in Nat /\ Len(path) >= 1 BY <1>1 DEF PathIsChain
<1>3. x \in Reached /\ Reached' = Reached /\ Seen' = Seen
    BY <1>1, <1>2 DEF PathIsChain, Reached, Seen, Elements, asked
<1>4. ParentsAreEdges' BY <1>1, <1>3 DEF ParentsAreEdges, asked
<1>5. CASE x \in DOMAIN parent
    <2>1. path' = Append(path, parent[x]) /\ verdict' = "trace" BY <1>1, <1>5 DEF Trace
    <2>2. parent[x] \in Reached /\ <<parent[x], x>> \in rawDeps BY <1>1, <1>5 DEF ParentsAreEdges
    <2>3. parent[x] \in Nodes BY <2>2 DEF Reached, SearchInv, SearchTypeOK
    <2>4. /\ path' \in Seq(Nodes) /\ Len(path') = Len(path) + 1
          /\ path'[Len(path) + 1] = parent[x]
          /\ \A i \in 1..Len(path) : path'[i] = path[i]
        BY <1>1, <2>1, <2>3
    <2>5. SearchTypeOK' BY <1>1, <2>1, <2>4 DEF SearchInv, SearchTypeOK, asked
    <2>6. path' # << >> /\ path'[1] = dependent' BY <1>1, <1>2, <2>4 DEF PathIsChain, asked
    <2>7. ASSUME NEW i \in 1..Len(path') PROVE path'[i] \in Reached'
        <3>1. i \in 1..Len(path) \/ i = Len(path) + 1 BY <1>2, <2>4
        <3> QED BY <1>1, <1>3, <2>2, <2>4, <3>1 DEF PathIsChain
    <2>8. ASSUME NEW i \in 1..(Len(path') - 1) PROVE <<path'[i + 1], path'[i]>> \in rawDeps'
        <3>1. i \in 1..(Len(path) - 1) \/ i = Len(path) BY <1>2, <2>4
        <3>2. CASE i \in 1..(Len(path) - 1)
            <4>1. i \in 1..Len(path) /\ i + 1 \in 1..Len(path) BY <1>2, <3>2
            <4> QED BY <1>1, <2>4, <3>2, <4>1 DEF PathIsChain, asked
        <3>3. CASE i = Len(path) BY <1>1, <1>2, <2>2, <2>4, <3>3 DEF asked
        <3> QED BY <3>1, <3>2, <3>3
    <2>9. PathIsChain' BY <2>6, <2>7, <2>8 DEF PathIsChain
    <2> QED BY <1>4, <2>1, <2>5, <2>9 DEF SearchInv
<1>6. CASE x \notin DOMAIN parent
    <2>1. UNCHANGED path /\ verdict' = "cycle" BY <1>1, <1>6 DEF Trace
    <2>2. x = prereq BY <1>3, <1>6 DEF Reached
    <2>3. SearchTypeOK' BY <1>1, <2>1 DEF SearchInv, SearchTypeOK, asked
    <2>4. PathIsChain' BY <1>1, <1>3, <2>1 DEF PathIsChain, asked
    <2> QED BY <1>1, <1>4, <2>1, <2>2, <2>3, <2>4 DEF SearchInv, asked
<1> QED BY <1>5, <1>6

\* Every step of the search keeps the invariant.
LEMMA SearchGoesOn == SearchInv /\ [SearchNext]_searchVars => SearchInv'
<1> SUFFICES ASSUME SearchInv, [SearchNext]_searchVars PROVE SearchInv' OBVIOUS
<1>1. CASE Found
    <2>1. /\ dependent \in Elements(queue) /\ verdict = "search" /\ verdict' = "trace"
          /\ path' = <<dependent>> /\ UNCHANGED <<asked, queue, visited, parent>>
        BY <1>1, ElementsTail DEF Found, SearchInv, SearchTypeOK
    <2>2. Seen' = Seen /\ Reached' = Reached BY <2>1 DEF Seen, Elements, Reached, asked
    <2>3. dependent \in Reached BY <2>1 DEF SearchInv, ParentsAreEdges, Seen
    <2>4. SearchTypeOK' BY <2>1 DEF SearchInv, SearchTypeOK, asked
    <2>5. ParentsAreEdges' BY <2>1, <2>2 DEF SearchInv, ParentsAreEdges, asked
    <2>6. PathIsChain' BY <2>1, <2>2, <2>3 DEF PathIsChain, asked
    <2> QED BY <2>1, <2>4, <2>5, <2>6 DEF SearchInv
<1>2. CASE Visit BY <1>2, VisitKeepsInv
<1>3. CASE Accept
    BY <1>3 DEF Accept, SearchInv, SearchTypeOK, Closed, ParentsAreEdges, Seen, Elements, Reached, asked
<1>4. CASE Trace BY <1>4, TraceKeepsInv
<1>5. CASE UNCHANGED searchVars
    BY <1>5 DEF searchVars, asked, SearchInv, SearchTypeOK, Closed, ParentsAreEdges, PathIsChain, Seen,
                Elements, Reached
<1> QED BY <1>1, <1>2, <1>3, <1>4, <1>5 DEF SearchNext

-----------------------------------------------------------------------------

\* The invariant holds throughout the search.
THEOREM SearchInvariant == Search => []SearchInv
    BY SearchBegins, SearchGoesOn, PTL DEF Search

\* The search keeps to its types, for every set of tasks.
THEOREM SearchTypesKept == Search => []SearchTypeOK
<1>1. SearchInv => SearchTypeOK BY DEF SearchInv
<1> QED BY <1>1, SearchInvariant, PTL

\* For every graph: the edge validate_edge accepts keeps an acyclic graph acyclic.
THEOREM AcceptedIsSafe == Search => []AcceptedEdgeKeepsDag
<1>1. SearchInv => AcceptedEdgeKeepsDag
    <2> SUFFICES ASSUME SearchInv, verdict = "accepted", Dag(rawDeps)
                 PROVE  Dag(rawDeps \cup {<<dependent, prereq>>})
        BY DEF AcceptedEdgeKeepsDag
    <2>1. Elements(queue) = {} BY DEF SearchInv, Elements
    <2>2. Seen = visited BY <2>1 DEF Seen
    <2>3. /\ prereq \in visited /\ dependent \notin visited
          /\ \A x \in visited, y \in Nodes : <<x, y>> \in rawDeps => y \in visited
        BY <2>2 DEF SearchInv, Closed
    <2>4. dependent \in Nodes /\ prereq \in Nodes /\ visited \in SUBSET Nodes
        BY DEF SearchInv, SearchTypeOK
    <2> QED BY <2>3, <2>4, ClosedSetSeparates
<1> QED BY <1>1, SearchInvariant, PTL

\* For every graph: what is refused would have closed the cycle that is reported.
THEOREM RefusedIsCycle == Search => []RefusalIsJustified
<1>1. SearchInv => RefusalIsJustified BY DEF SearchInv, RefusalIsJustified, PathIsChain
<1> QED BY <1>1, SearchInvariant, PTL
\* What the search has reached is on a way from the prerequisite: every set that has the
\* prerequisite and all its members depend on has it.
Confined ==
    \A V \in SUBSET Nodes :
       prereq \in V /\ (\A e \in rawDeps : e[1] \in V => e[2] \in V) => Reached \subseteq V

LEMMA SearchStaysConfined ==
    /\ Search => []Confined
    /\ Confined => (dependent \in Reached /\ Nodes = Keys => Reaches(rawDeps, prereq, dependent))
<1>1. SearchInit => Confined
    BY DEF SearchInit, Confined, Reached
<1>2. SearchInv /\ Confined /\ [SearchNext]_searchVars => Confined'
    <2> SUFFICES ASSUME SearchInv, Confined, [SearchNext]_searchVars,
                        NEW V \in SUBSET Nodes, prereq' \in V,
                        \A e \in rawDeps' : e[1] \in V => e[2] \in V
                 PROVE  Reached' \subseteq V
        BY DEF Confined
    <2>1. UNCHANGED asked
        BY DEF SearchNext, Found, Visit, Accept, Trace, searchVars
    <2>2. Reached \subseteq V BY <2>1 DEF Confined, asked
    <2>3. CASE UNCHANGED parent BY <2>1, <2>2, <2>3 DEF Reached, asked
    <2>4. CASE Visit /\ Head(queue) \notin visited
        <3> DEFINE x == Head(queue)
        <3>1. x \in Elements(queue)
            BY <2>4, ElementsTail DEF Visit, SearchInv, SearchTypeOK
        <3>2. x \in V BY <2>2, <3>1 DEF Seen, SearchInv, ParentsAreEdges
        <3>3. ASSUME NEW y \in Fresh(x) PROVE y \in V
            <4>1. <<x, y>> \in rawDeps' BY <2>1, <3>3 DEF Fresh, asked
            <4> QED BY <3>2, <4>1
        <3>4. DOMAIN parent' = DOMAIN parent \cup Fresh(x) BY <2>4 DEF Visit
        <3> QED BY <2>1, <2>2, <3>3, <3>4 DEF Reached, asked
    <2> QED BY <2>3, <2>4 DEF SearchNext, Found, Visit, Accept, Trace, searchVars
<1>3. Search => []Confined
    BY <1>1, <1>2, SearchInvariant, PTL DEF Search
<1>4. Confined => (dependent \in Reached /\ Nodes = Keys => Reaches(rawDeps, prereq, dependent))
    BY DEF Confined, Reaches
<1> QED BY <1>3, <1>4

\* The search computes the condition under which TaskGraph takes an edge: on the tasks of
\* a project and any edges between them, a search that has ended has refused the edge
\* exactly if the prerequisite already depends on the dependent, or is it.
THEOREM SearchDecidesValid ==
    ASSUME Nodes = Keys
    PROVE  Search => [](verdict \in {"accepted", "cycle", "self"} =>
               (verdict = "accepted" <=> dependent # prereq /\ ~Reaches(rawDeps, prereq, dependent)))
<1> DEFINE Decided == verdict \in {"accepted", "cycle", "self"} =>
       (verdict = "accepted" <=> dependent # prereq /\ ~Reaches(rawDeps, prereq, dependent))
<1>1. SearchInv /\ Confined /\ RefusalIsJustified => Decided
    <2> SUFFICES ASSUME SearchInv, Confined, RefusalIsJustified PROVE Decided OBVIOUS
    <2>1. ASSUME verdict = "accepted"
          PROVE  dependent # prereq /\ ~Reaches(rawDeps, prereq, dependent)
        <3>1. Seen = visited BY <2>1 DEF SearchInv, Seen, Elements
        <3>2. /\ prereq \in visited /\ dependent \notin visited /\ visited \in SUBSET Keys
              /\ \A x \in visited, y \in Nodes : <<x, y>> \in rawDeps => y \in visited
            BY <2>1, <3>1 DEF SearchInv, Closed, SearchTypeOK
        <3>3. \A e \in rawDeps : e = <<e[1], e[2]>> /\ e[2] \in Nodes BY DEF SearchInv, SearchTypeOK
        <3> QED BY <3>2, <3>3 DEF Reaches
    <2>2. ASSUME verdict = "cycle" PROVE Reaches(rawDeps, prereq, dependent)
        <3>1. path # << >> /\ path[1] = dependent /\ path \in Seq(Nodes)
              /\ \A i \in 1..Len(path) : path[i] \in Reached
            BY <2>2 DEF SearchInv, PathIsChain, SearchTypeOK
        <3>2. dependent \in Reached
            <4>1. Len(path) \in Nat /\ Len(path) >= 1 BY <3>1
            <4> QED BY <3>1, <4>1
        <3> QED BY <3>2, SearchStaysConfined
    <2>3. verdict = "self" => dependent = prereq BY DEF SearchInv
    <2> QED BY <2>1, <2>2, <2>3
<1> QED BY <1>1, SearchInvariant, SearchStaysConfined, RefusedIsCycle, PTL
=============================================================================
