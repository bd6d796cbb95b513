-------------------------- MODULE ProvisioningProofs --------------------------
(* Proofs about what the process keeps up in Discord, and about the process.  First *)
(* Provisioning, for any projects, forums, tasks and users: what each handler still *)
(* owes to the thread of a task and to the tags and the hub of a forum, and so that *)
(* the threads show the tasks and the forums the projects.  Then Lifecycle, for     *)
(* every bound: its types, the supervisor's budget of restarts, and that it closes  *)
(* gracefully.                                                                      *)
EXTENDS Provisioning, Lifecycle, FiniteSetTheorems, FunctionTheorems, TLAPS

-----------------------------------------------------------------------------
(* Provisioning: the threads of the tasks.                                 *)

\* What is left of a handler's script, before each of its steps.
Hub1 == <<"read", "prune", "setup", "ensure", "hub">>
Hub2 == <<"prune", "setup", "ensure", "hub">>
Hub3 == <<"setup", "ensure", "hub">>
Hub4 == <<"ensure", "hub">>
Hub5 == <<"hub">>
Create1 == <<"apply", "setup", "own", "read", "prune", "setup", "ensure", "hub">>
Create2 == <<"setup", "own", "read", "prune", "setup", "ensure", "hub">>
Create3 == <<"own", "read", "prune", "setup", "ensure", "hub">>
Archive1 == <<"list", "apply", "sync", "untag", "read", "prune", "setup", "ensure", "hub">>
Archive2 == <<"apply", "sync", "untag", "read", "prune", "setup", "ensure", "hub">>
Archive3 == <<"sync", "untag", "read", "prune", "setup", "ensure", "hub">>
Archive4 == <<"untag", "read", "prune", "setup", "ensure", "hub">>
Command1 == <<"apply", "list", "sync", "read", "prune", "setup", "ensure", "hub">>
Command2 == <<"list", "sync", "read", "prune", "setup", "ensure", "hub">>
Command3 == <<"sync", "read", "prune", "setup", "ensure", "hub">>
Rebuild1 == <<"apply", "bind", "setup", "own", "read", "prune", "setup", "ensure", "hub", "list", "sync">>
Rebuild2 == <<"bind", "setup", "own", "read", "prune", "setup", "ensure", "hub", "list", "sync">>
Rebuild3 == <<"setup", "own", "read", "prune", "setup", "ensure", "hub", "list", "sync">>
Rebuild4 == <<"own", "read", "prune", "setup", "ensure", "hub", "list", "sync">>
Rebuild5 == <<"read", "prune", "setup", "ensure", "hub", "list", "sync">>
Rebuild6 == <<"prune", "setup", "ensure", "hub", "list", "sync">>
Rebuild7 == <<"setup", "ensure", "hub", "list", "sync">>
Rebuild8 == <<"ensure", "hub", "list", "sync">>
Rebuild9 == <<"hub", "list", "sync">>
Rebuild10 == <<"list", "sync">>
Rebuild11 == <<"sync">>
Task1 == <<"apply", "sync">>
Task2 == <<"sync">>

HubLeft == {Hub1, Hub2, Hub3, Hub4, Hub5}
StepsLeft(op) ==
    CASE op = "none"    -> {<< >>}
      [] op = "create"  -> {Create1, Create2, Create3} \cup HubLeft
      [] op = "archive" -> {Archive1, Archive2, Archive3, Archive4} \cup HubLeft
      [] op = "hub"     -> HubLeft
      [] op = "rebuild" -> {Rebuild1, Rebuild2, Rebuild3, Rebuild4, Rebuild5, Rebuild6, Rebuild7,
                            Rebuild8, Rebuild9, Rebuild10, Rebuild11}
      [] op = "task"    -> {Task1, Task2}
      [] OTHER          -> {Command1, Command2, Command3} \cup HubLeft

AllSteps == UNION {StepsLeft(op) : op \in AllOps \cup {"none"}}

\* Types.
Place == Forums \cup {NoForum}
Tags == SUBSET (Projects \cup {Std})
Project == [made : BOOLEAN, archived : BOOLEAN, forum : Place]
Row == [done : BOOLEAN, shelved : BOOLEAN, thread : Nat]
Board == [there : BOOLEAN, tags : Tags, seen : Tags, hubs : Seq(SUBSET Projects), known : Nat]
Thread == [of : Tasks, here : BOOLEAN, shut : BOOLEAN, on : Place]
Lists == UNION {[ts -> Row] : ts \in SUBSET Tasks}
Handler == [op : AllOps \cup {"none"}, steps : AllSteps, name : SUBSET (Projects \cup Tasks),
            forum : Place, live : SUBSET Projects, gone : SUBSET Projects,
            todo : SUBSET (Projects \cup Tasks), list : Lists, clean : BOOLEAN, new : Nat]

\* A handler is somewhere in its script, and has one project or task in hand.
InHand(op, n) == n \subseteq (IF op = "task" THEN Tasks ELSE Projects) /\ \A p, q \in n : p = q

Scripted(a) == a.steps \in StepsLeft(a.op) /\ InHand(a.op, a.name)

PresenceTypes ==
    /\ proj \in [Projects -> Project] /\ task \in [Tasks -> Row]
    /\ forum \in [Forums -> Board] /\ thread \in Seq(Thread)
    /\ act \in [Actors -> Handler] /\ \A x \in Actors : Scripted(act[x])
    /\ stain \in [Forums -> BOOLEAN] /\ loose \in [Tasks -> BOOLEAN]

Does(a, s) == a.steps # << >> /\ Head(a.steps) = s

\* Rows, those that were listed too, hold threads of their task.
HoldsThread(t, r) == r.thread \in DOMAIN thread /\ thread[r.thread].of = t

Recorded ==
    /\ \A t \in Tasks : HoldsThread(t, task[t])
    /\ \A x \in Actors : \A t \in DOMAIN act[x].list : HoldsThread(t, act[x].list[t])

\* A handler synchronises threads of tasks it has listed; one that has made a
\* thread is rebuild, and has the task still to do.
HasList(a) == Does(a, "sync") \/ (Does(a, "apply") /\ a.op = "archive")

Working ==
    \A x \in Actors :
        /\ HasList(act[x]) => act[x].todo \subseteq DOMAIN act[x].list
        /\ act[x].new # 0 =>
              /\ Does(act[x], "sync") /\ act[x].op = "rebuild" /\ act[x].new \in DOMAIN thread
              /\ thread[act[x].new].of \in act[x].todo

\* a has made a thread that no row has yet.
Task(a) == thread[a.new].of
Pending(a) == a.new # 0 /\ a.list[Task(a)].thread # a.new

Unrecorded ==
    \A x \in Actors : Pending(act[x]) =>
        /\ ~thread[act[x].new].shut
        /\ \A t \in Tasks : task[t].thread # act[x].new
        /\ \A y \in Actors : \A t \in DOMAIN act[y].list : act[y].list[t].thread # act[x].new
        /\ \A y \in Actors \ {x} : act[y].new # act[x].new

\* What a handler is yet to write: it will list the task, or has listed it.  A
\* thread it has recorded it archives if the row says so.
WillList(a) == \/ Does(a, "list") /\ a.op # "archive"
               \/ a.op = "rebuild" /\ ~Does(a, "apply") /\ ~Does(a, "sync")

Owes(a, t) ==
    \/ WillList(a) /\ Owner[t] \in a.name /\ (a.op = "restore" => ~Closed(task[t]))
    \/ /\ Does(a, "sync") /\ t \in a.todo
       /\ a.new # 0 /\ a.list[t].thread = a.new => task[t].thread = a.new /\ Closed(a.list[t])

Kept ==
    \A t \in Tasks : ~loose[t] =>
        /\ There(task[t].thread)
        /\ thread[task[t].thread].shut = Closed(task[t]) \/ \E x \in Actors : Owes(act[x], t)

Alone(t) ==
    /\ \A i \in DOMAIN thread : thread[i].here /\ thread[i].of = t =>
          i = task[t].thread \/ \E x \in Actors : Pending(act[x]) /\ act[x].new = i
    /\ \A x \in Actors : Pending(act[x]) /\ Task(act[x]) = t =>
          /\ ~There(task[t].thread)
          /\ \A y \in Actors : Pending(act[y]) /\ Task(act[y]) = t => x = y

Single == \A t \in Tasks \ stray : Alone(t)

ThreadInv == Recorded /\ Working /\ Unrecorded /\ Kept /\ Single

-----------------------------------------------------------------------------
LEMMA HubTails ==
  /\ Hub1 # << >> /\ Head(Hub1) = "read" /\ Tail(Hub1) = Hub2 /\ Len(Hub1) # 1
  /\ Hub2 # << >> /\ Head(Hub2) = "prune" /\ Tail(Hub2) = Hub3 /\ Len(Hub2) # 1
  /\ Hub3 # << >> /\ Head(Hub3) = "setup" /\ Tail(Hub3) = Hub4 /\ Len(Hub3) # 1
  /\ Hub4 # << >> /\ Head(Hub4) = "ensure" /\ Tail(Hub4) = Hub5 /\ Len(Hub4) # 1
  /\ Hub5 # << >> /\ Head(Hub5) = "hub" /\ Tail(Hub5) = << >> /\ Len(Hub5) = 1
  BY DEF Hub1, Hub2, Hub3, Hub4, Hub5

LEMMA CreateTails ==
  /\ Create1 # << >> /\ Head(Create1) = "apply" /\ Tail(Create1) = Create2 /\ Len(Create1) # 1
  /\ Create2 # << >> /\ Head(Create2) = "setup" /\ Tail(Create2) = Create3 /\ Len(Create2) # 1
  /\ Create3 # << >> /\ Head(Create3) = "own" /\ Tail(Create3) = Hub1 /\ Len(Create3) # 1
  BY DEF Hub1, Create1, Create2, Create3

LEMMA ArchiveTails ==
  /\ Archive1 # << >> /\ Head(Archive1) = "list" /\ Tail(Archive1) = Archive2 /\ Len(Archive1) # 1
  /\ Archive2 # << >> /\ Head(Archive2) = "apply" /\ Tail(Archive2) = Archive3 /\ Len(Archive2) # 1
  /\ Archive3 # << >> /\ Head(Archive3) = "sync" /\ Tail(Archive3) = Archive4 /\ Len(Archive3) # 1
  /\ Archive4 # << >> /\ Head(Archive4) = "untag" /\ Tail(Archive4) = Hub1 /\ Len(Archive4) # 1
  BY DEF Hub1, Archive1, Archive2, Archive3, Archive4

LEMMA CommandTails ==
  /\ Command1 # << >> /\ Head(Command1) = "apply" /\ Tail(Command1) = Command2 /\ Len(Command1) # 1
  /\ Command2 # << >> /\ Head(Command2) = "list" /\ Tail(Command2) = Command3 /\ Len(Command2) # 1
  /\ Command3 # << >> /\ Head(Command3) = "sync" /\ Tail(Command3) = Hub1 /\ Len(Command3) # 1
  BY DEF Hub1, Command1, Command2, Command3

LEMMA RebuildTails ==
  /\ Rebuild1 # << >> /\ Head(Rebuild1) = "apply" /\ Tail(Rebuild1) = Rebuild2 /\ Len(Rebuild1) # 1
  /\ Rebuild2 # << >> /\ Head(Rebuild2) = "bind" /\ Tail(Rebuild2) = Rebuild3 /\ Len(Rebuild2) # 1
  /\ Rebuild3 # << >> /\ Head(Rebuild3) = "setup" /\ Tail(Rebuild3) = Rebuild4 /\ Len(Rebuild3) # 1
  /\ Rebuild4 # << >> /\ Head(Rebuild4) = "own" /\ Tail(Rebuild4) = Rebuild5 /\ Len(Rebuild4) # 1
  /\ Rebuild5 # << >> /\ Head(Rebuild5) = "read" /\ Tail(Rebuild5) = Rebuild6 /\ Len(Rebuild5) # 1
  /\ Rebuild6 # << >> /\ Head(Rebuild6) = "prune" /\ Tail(Rebuild6) = Rebuild7 /\ Len(Rebuild6) # 1
  /\ Rebuild7 # << >> /\ Head(Rebuild7) = "setup" /\ Tail(Rebuild7) = Rebuild8 /\ Len(Rebuild7) # 1
  /\ Rebuild8 # << >> /\ Head(Rebuild8) = "ensure" /\ Tail(Rebuild8) = Rebuild9 /\ Len(Rebuild8) # 1
  /\ Rebuild9 # << >> /\ Head(Rebuild9) = "hub" /\ Tail(Rebuild9) = Rebuild10 /\ Len(Rebuild9) # 1
  /\ Rebuild10 # << >> /\ Head(Rebuild10) = "list" /\ Tail(Rebuild10) = Rebuild11 /\ Len(Rebuild10) # 1
  /\ Rebuild11 # << >> /\ Head(Rebuild11) = "sync" /\ Tail(Rebuild11) = << >> /\ Len(Rebuild11) = 1
  BY DEF Rebuild1, Rebuild2, Rebuild3, Rebuild4, Rebuild5, Rebuild6, Rebuild7, Rebuild8, Rebuild9, Rebuild10, Rebuild11

LEMMA TaskTails ==
  /\ Task1 # << >> /\ Head(Task1) = "apply" /\ Tail(Task1) = Task2 /\ Len(Task1) # 1
  /\ Task2 # << >> /\ Head(Task2) = "sync" /\ Tail(Task2) = << >> /\ Len(Task2) = 1
  BY DEF Task1, Task2

\* What a handler does next, as far as the threads are concerned.
Follows(op, s) ==
    /\ IF Len(s) = 1 THEN Tail(s) = << >> ELSE Tail(s) \in StepsLeft(op) /\ Tail(s) # << >>
    /\ Head(s) = "list" => Head(Tail(s)) = IF op = "archive" THEN "apply" ELSE "sync"
    /\ Head(s) = "apply" =>
          /\ op \in {"archive", "task"} => Head(Tail(s)) = "sync"
          /\ op \in {"archive_cmd", "restore", "unarchive_cmd"} => Head(Tail(s)) = "list"
          /\ op = "create" => Head(Tail(s)) = "setup"
    /\ Head(s) \in {"apply", "list", "bind"} => Len(s) # 1
    /\ Head(s) = "bind" => op = "rebuild"
    /\ op = "rebuild" /\ Head(s) # "sync" => Len(s) # 1 /\ Head(Tail(s)) # "apply"
    /\ op = "rebuild" /\ Head(s) # "list" => Head(Tail(s)) # "sync" \/ Len(s) = 1
    /\ op # "rebuild" /\ Head(s) \notin {"list", "apply"} =>
          Len(s) = 1 \/ Head(Tail(s)) \notin {"sync", "list", "apply"}
    /\ Head(s) = "sync" /\ op = "rebuild" => Len(s) = 1

LEMMA HubScripts ==
  ASSUME NEW op, op # "rebuild", HubLeft \subseteq StepsLeft(op), NEW s \in HubLeft
  PROVE  Follows(op, s)
  BY Zenon, HubTails DEF Follows, HubLeft

LEMMA Scripts ==
  ASSUME NEW op \in AllOps \cup {"none"}, NEW s \in StepsLeft(op), s # << >>
  PROVE  Follows(op, s)
<1>1. CASE op = "rebuild"
  <2>0. StepsLeft(op) = {Rebuild1, Rebuild2, Rebuild3, Rebuild4, Rebuild5, Rebuild6, Rebuild7,
                         Rebuild8, Rebuild9, Rebuild10, Rebuild11} BY <1>1 DEF StepsLeft
  <2>1. Follows(op, Rebuild1) BY ZenonT(60), <1>1, <2>0, RebuildTails DEF Follows
  <2>2. Follows(op, Rebuild2) BY ZenonT(60), <1>1, <2>0, RebuildTails DEF Follows
  <2>3. Follows(op, Rebuild3) BY ZenonT(60), <1>1, <2>0, RebuildTails DEF Follows
  <2>4. Follows(op, Rebuild4) BY ZenonT(60), <1>1, <2>0, RebuildTails DEF Follows
  <2>5. Follows(op, Rebuild5) BY ZenonT(60), <1>1, <2>0, RebuildTails DEF Follows
  <2>6. Follows(op, Rebuild6) BY ZenonT(60), <1>1, <2>0, RebuildTails DEF Follows
  <2>7. Follows(op, Rebuild7) BY ZenonT(60), <1>1, <2>0, RebuildTails DEF Follows
  <2>8. Follows(op, Rebuild8) BY ZenonT(60), <1>1, <2>0, RebuildTails DEF Follows
  <2>9. Follows(op, Rebuild9) BY ZenonT(60), <1>1, <2>0, RebuildTails DEF Follows
  <2>10. Follows(op, Rebuild10) BY ZenonT(60), <1>1, <2>0, RebuildTails DEF Follows
  <2>11. Follows(op, Rebuild11) BY ZenonT(60), <1>1, <2>0, RebuildTails DEF Follows
  <2>12. QED BY <1>1, <2>0, <2>1, <2>2, <2>3, <2>4, <2>5, <2>6, <2>7, <2>8, <2>9, <2>10, <2>11
<1>2. CASE op = "create"
  <2>0. StepsLeft(op) = {Create1, Create2, Create3} \cup HubLeft BY <1>2 DEF StepsLeft
  <2>1. Follows(op, Create1) BY <1>2, <2>0, CreateTails DEF Follows
  <2>2. Follows(op, Create2) BY <1>2, <2>0, CreateTails DEF Follows
  <2>3. Follows(op, Create3) BY <1>2, <2>0, CreateTails, HubTails DEF Follows, HubLeft
  <2>4. QED BY <1>2, <2>0, <2>1, <2>2, <2>3, HubScripts
<1>3. CASE op = "archive"
  <2>0. StepsLeft(op) = {Archive1, Archive2, Archive3, Archive4} \cup HubLeft BY <1>3 DEF StepsLeft
  <2>1. Follows(op, Archive1) BY <1>3, <2>0, ArchiveTails DEF Follows
  <2>2. Follows(op, Archive2) BY <1>3, <2>0, ArchiveTails DEF Follows
  <2>3. Follows(op, Archive3) BY <1>3, <2>0, ArchiveTails DEF Follows
  <2>4. Follows(op, Archive4) BY <1>3, <2>0, ArchiveTails, HubTails DEF Follows, HubLeft
  <2>5. QED BY <1>3, <2>0, <2>1, <2>2, <2>3, <2>4, HubScripts
<1>4. CASE op \in {"archive_cmd", "restore", "unarchive_cmd"}
  <2>0. StepsLeft(op) = {Command1, Command2, Command3} \cup HubLeft BY <1>4 DEF StepsLeft
  <2>1. Follows(op, Command1) BY <1>4, <2>0, CommandTails DEF Follows
  <2>2. Follows(op, Command2) BY <1>4, <2>0, CommandTails DEF Follows
  <2>3. Follows(op, Command3) BY <1>4, <2>0, CommandTails, HubTails DEF Follows, HubLeft
  <2>4. QED BY <1>4, <2>0, <2>1, <2>2, <2>3, HubScripts
<1>5. CASE op = "task"
  <2>0. StepsLeft(op) = {Task1, Task2} BY <1>5 DEF StepsLeft
  <2>1. Follows(op, Task1) BY <1>5, <2>0, TaskTails DEF Follows
  <2>2. Follows(op, Task2) BY <1>5, <2>0, TaskTails DEF Follows
  <2>3. QED BY <1>5, <2>0, <2>1, <2>2
<1>6. CASE op = "hub"
  BY <1>6, HubScripts DEF StepsLeft
<1>7. CASE op = "none"
  BY <1>7 DEF StepsLeft
<1>8. QED BY <1>1, <1>2, <1>3, <1>4, <1>5, <1>6, <1>7 DEF AllOps

LEMMA IdleFacts ==
  /\ Idle \in Handler /\ Scripted(Idle) /\ Idle.op = "none" /\ Idle.steps = << >> /\ Idle.name = {}
  /\ Idle.new = 0 /\ Idle.todo = {} /\ DOMAIN Idle.list = {} /\ Idle.forum = NoForum /\ Idle.clean = FALSE
  /\ ~Pending(Idle) /\ ~HasList(Idle) /\ \A t : ~Owes(Idle, t)
<1>1. StepsLeft("none") = {<< >>} BY DEF StepsLeft
<1>2. << >> \in AllSteps BY <1>1 DEF AllSteps
<1>3. DOMAIN << >> = {} /\ << >> \in [{} -> Row] OBVIOUS
<1>4. << >> \in Lists BY <1>3 DEF Lists
<1>5. Idle \in Handler BY <1>2, <1>4 DEF Idle, Handler, Place
<1>6. QED BY <1>1, <1>3, <1>5 DEF Idle, Scripted, InHand, Pending, HasList, Owes, WillList, Does

\* The fields of a handler that another step does not touch.
SameBut(a, b) ==
    /\ b.op = a.op /\ b.name = a.name /\ b.forum = a.forum /\ b.live = a.live /\ b.gone = a.gone
    /\ b.todo = a.todo /\ b.list = a.list /\ b.clean = a.clean /\ b.new = a.new

LEMMA DoneFacts ==
  ASSUME NEW a \in Handler, Scripted(a), a.steps # << >>
  PROVE  /\ Done(a) \in Handler /\ Scripted(Done(a))
         /\ IF Len(a.steps) = 1 THEN Done(a) = Idle
            ELSE Done(a) # Idle /\ Done(a).steps = Tail(a.steps) /\ SameBut(a, Done(a))
<1>1. CASE Len(a.steps) = 1 BY <1>1, IdleFacts DEF Done
<1>2. CASE Len(a.steps) # 1
  <2> DEFINE b == [a EXCEPT !.steps = Tail(a.steps)]
  <2>1. Done(a) = b BY <1>2 DEF Done
  <2>2. a.op \in AllOps \cup {"none"} /\ a.steps \in StepsLeft(a.op) BY DEF Handler, Scripted
  <2>3. Tail(a.steps) \in StepsLeft(a.op) /\ Tail(a.steps) # << >>
    BY <1>2, <2>2, Scripts DEF Follows
  <2>4. Tail(a.steps) \in AllSteps BY <2>2, <2>3 DEF AllSteps
  <2>5. b \in Handler /\ b.steps = Tail(a.steps) /\ SameBut(a, b) BY <2>4 DEF Handler, SameBut
  <2>6. QED BY <1>2, <2>1, <2>3, <2>5, IdleFacts DEF Scripted, SameBut
<1>3. QED BY <1>1, <1>2

LEMMA Onward ==
  ASSUME NEW a \in Handler, Scripted(a), a.steps # << >>
  PROVE  /\ Does(a, "list") => Does(Done(a), IF a.op = "archive" THEN "apply" ELSE "sync")
         /\ Does(a, "apply") =>
               /\ a.op \in {"archive", "task"} => Does(Done(a), "sync")
               /\ a.op \in {"archive_cmd", "restore", "unarchive_cmd"} => Does(Done(a), "list")
               /\ a.op \in {"create", "rebuild"} => ~HasList(Done(a))
               /\ a.op = "rebuild" => WillList(Done(a))
         /\ Does(a, "list") \/ Does(a, "apply") \/ Does(a, "bind") => Done(a) # Idle
         /\ ~Does(a, "list") /\ ~Does(a, "apply") => ~HasList(Done(a)) /\ (WillList(a) => WillList(Done(a)))
         /\ ~Does(a, "list") /\ WillList(a) => Done(a) # Idle
         /\ Does(a, "bind") => a.op = "rebuild"
<1>1. a.op \in AllOps \cup {"none"} /\ a.steps \in StepsLeft(a.op) BY DEF Handler, Scripted
<1>2. Follows(a.op, a.steps) BY <1>1, Scripts
<1>3. IF Len(a.steps) = 1 THEN Done(a) = Idle
      ELSE Done(a) # Idle /\ Done(a).steps = Tail(a.steps) /\ Done(a).op = a.op
  BY DoneFacts DEF SameBut
<1>4. CASE Len(a.steps) = 1
  BY <1>2, <1>3, <1>4, IdleFacts DEF Follows, Does, WillList
<1>5. CASE Len(a.steps) # 1
  <2>1. Done(a).steps = Tail(a.steps) /\ Done(a).op = a.op /\ Done(a).steps # << >> /\ Done(a) # Idle
    BY <1>2, <1>3, <1>5 DEF Follows
  <2>2. QED BY <1>1, <1>2, <1>5, <2>1 DEF Follows, Does, WillList, HasList, AllOps
<1>6. QED BY <1>4, <1>5

\* A script is made of parts.
Names == {"apply", "list", "sync", "untag", "bind", "setup", "own", "read", "prune", "ensure", "hub"}

LEMMA Joined ==
  ASSUME NEW s \in Seq(Names), NEW t \in Seq(Names), NEW u \in Seq(Names), Len(u) = Len(s) + Len(t),
         \A i \in 1..Len(s) : u[i] = s[i], \A i \in 1..Len(t) : u[Len(s) + i] = t[i]
  PROVE  s \o t = u
<1> DEFINE v == s \o t
<1>1. v \in Seq(Names) /\ Len(v) = Len(u) OBVIOUS
<1>2. \A i \in 1..Len(s) : v[i] = u[i] OBVIOUS
<1>3. \A i \in 1..Len(t) : v[Len(s) + i] = u[Len(s) + i] OBVIOUS
<1>4. ASSUME NEW i \in 1..Len(u) PROVE v[i] = u[i]
  <2>1. CASE i \in 1..Len(s) BY <2>1, <1>2
  <2>2. CASE i - Len(s) \in 1..Len(t) BY <2>2, <1>3
  <2>3. QED BY <2>1, <2>2
<1>5. QED BY <1>1, <1>4

LEMMA Joints ==
  /\ CreateScript = Create1 /\ ArchiveViewScript = Archive1
  /\ CommandScript = Command1 /\ RebuildScript = Rebuild1
<1> DEFINE c == <<"apply", "setup", "own">>  v == <<"list", "apply", "sync", "untag">>
           m == <<"apply", "list", "sync">>  r == <<"apply", "bind", "setup", "own">>
           w == <<"apply", "bind", "setup", "own", "read", "prune", "setup", "ensure", "hub">>
           l == <<"list", "sync">>
<1>1. /\ HubPost \in Seq(Names) /\ Len(HubPost) = 5 /\ HubPost[1] = "read" /\ HubPost[2] = "prune"
      /\ HubPost[3] = "setup" /\ HubPost[4] = "ensure" /\ HubPost[5] = "hub"
  BY DEF HubPost, Names
<1>2. c \o HubPost = Create1
  <2>1. c \in Seq(Names) /\ Len(c) = 3 BY DEF Names
  <2>2. Create1 \in Seq(Names) /\ Len(Create1) = 8 BY DEF Names, Create1
  <2>3. \A i \in 1..Len(c) : Create1[i] = c[i] BY DEF Create1
  <2>4. \A i \in 1..Len(HubPost) : Create1[Len(c) + i] = HubPost[i] BY <1>1 DEF Create1
  <2>5. HubPost \in Seq(Names) /\ Len(HubPost) = 5 BY <1>1
  <2>6. Len(Create1) = Len(c) + Len(HubPost) BY <2>1, <2>2, <2>5
  <2>7. QED
    <3> HIDE DEF c
    <3>1. QED BY <2>1, <2>2, <2>3, <2>4, <2>5, <2>6, Joined
<1>3. v \o HubPost = Archive1
  <2>1. v \in Seq(Names) /\ Len(v) = 4 BY DEF Names
  <2>2. Archive1 \in Seq(Names) /\ Len(Archive1) = 9 BY DEF Names, Archive1
  <2>3. \A i \in 1..Len(v) : Archive1[i] = v[i] BY DEF Archive1
  <2>4. \A i \in 1..Len(HubPost) : Archive1[Len(v) + i] = HubPost[i] BY <1>1 DEF Archive1
  <2>5. HubPost \in Seq(Names) /\ Len(HubPost) = 5 BY <1>1
  <2>6. Len(Archive1) = Len(v) + Len(HubPost) BY <2>1, <2>2, <2>5
  <2>7. QED
    <3> HIDE DEF v
    <3>1. QED BY <2>1, <2>2, <2>3, <2>4, <2>5, <2>6, Joined
<1>4. m \o HubPost = Command1
  <2>1. m \in Seq(Names) /\ Len(m) = 3 BY DEF Names
  <2>2. Command1 \in Seq(Names) /\ Len(Command1) = 8 BY DEF Names, Command1
  <2>3. \A i \in 1..Len(m) : Command1[i] = m[i] BY DEF Command1
  <2>4. \A i \in 1..Len(HubPost) : Command1[Len(m) + i] = HubPost[i] BY <1>1 DEF Command1
  <2>5. HubPost \in Seq(Names) /\ Len(HubPost) = 5 BY <1>1
  <2>6. Len(Command1) = Len(m) + Len(HubPost) BY <2>1, <2>2, <2>5
  <2>7. QED
    <3> HIDE DEF m
    <3>1. QED BY <2>1, <2>2, <2>3, <2>4, <2>5, <2>6, Joined
<1>5. r \o HubPost = w
  <2>1. r \in Seq(Names) /\ Len(r) = 4 BY DEF Names
  <2>2. w \in Seq(Names) /\ Len(w) = 9 BY DEF Names
  <2>3. \A i \in 1..Len(r) : w[i] = r[i] OBVIOUS
  <2>4. \A i \in 1..Len(HubPost) : w[Len(r) + i] = HubPost[i] BY <1>1
  <2>5. HubPost \in Seq(Names) /\ Len(HubPost) = 5 BY <1>1
  <2>6. Len(w) = Len(r) + Len(HubPost) BY <2>1, <2>2, <2>5
  <2>7. QED
    <3> HIDE DEF r, w
    <3>1. QED BY <2>1, <2>2, <2>3, <2>4, <2>5, <2>6, Joined
<1>6. w \o l = Rebuild1
  <2>1. w \in Seq(Names) /\ Len(w) = 9 BY DEF Names
  <2>2. Rebuild1 \in Seq(Names) /\ Len(Rebuild1) = 11 BY DEF Names, Rebuild1
  <2>3. \A i \in 1..Len(w) : Rebuild1[i] = w[i] BY DEF Rebuild1
  <2>4. \A i \in 1..Len(l) : Rebuild1[Len(w) + i] = l[i] BY <1>1 DEF Rebuild1
  <2>5. l \in Seq(Names) /\ Len(l) = 2 BY DEF Names
  <2>6. Len(Rebuild1) = Len(w) + Len(l) BY <2>1, <2>2, <2>5
  <2>7. QED
    <3> HIDE DEF w, l
    <3>1. QED BY <2>1, <2>2, <2>3, <2>4, <2>5, <2>6, Joined
<1>7. QED BY <1>2, <1>3, <1>4, <1>5, <1>6 DEF CreateScript, ArchiveViewScript, CommandScript, RebuildScript

LEMMA ScriptFacts ==
  ASSUME NEW op \in AllOps
  PROVE  /\ Script(op) \in StepsLeft(op) /\ Script(op) # << >> /\ Script(op) \in AllSteps
         /\ op \in {"hub", "archive"} => Head(Script(op)) # "apply"
         /\ op # "archive" => Head(Script(op)) # "list"
         /\ Head(Script(op)) # "sync" /\ (op = "rebuild" => Head(Script(op)) = "apply")
<1>1. StepsLeft(op) \subseteq AllSteps BY DEF AllSteps
<1>2. CASE op = "create"
  <2>1. Script(op) = Create1 BY <1>2, Joints DEF Script
  <2>2. QED BY <1>1, <1>2, <2>1, CreateTails DEF StepsLeft
<1>3. CASE op = "archive"
  <2>1. Script(op) = Archive1 BY <1>3, Joints DEF Script
  <2>2. QED BY <1>1, <1>3, <2>1, ArchiveTails DEF StepsLeft
<1>4. CASE op = "hub"
  <2>1. Script(op) = Hub1 BY <1>4 DEF Script, HubPost, Hub1
  <2>2. QED BY <1>1, <1>4, <2>1, HubTails DEF StepsLeft, HubLeft
<1>5. CASE op = "rebuild"
  <2>1. Script(op) = Rebuild1 BY <1>5, Joints DEF Script
  <2>2. QED BY ZenonT(60), <1>1, <1>5, <2>1, RebuildTails DEF StepsLeft
<1>6. CASE op = "task"
  <2>1. Script(op) = Task1 BY <1>6 DEF Script, Task1
  <2>2. QED BY <1>1, <1>6, <2>1, TaskTails DEF StepsLeft
<1>7. CASE op \in {"archive_cmd", "restore", "unarchive_cmd"}
  <2>1. Script(op) = Command1 BY <1>7, Joints DEF Script
  <2>2. QED BY <1>1, <1>7, <2>1, CommandTails DEF StepsLeft
<1>8. QED BY <1>2, <1>3, <1>4, <1>5, <1>6, <1>7 DEF AllOps

\* What the threads have to do with in a handler.
Alike(a, b) ==
    b.op = a.op /\ b.steps = a.steps /\ b.name = a.name /\ b.todo = a.todo /\ b.list = a.list /\ b.new = a.new

LEMMA AlikeFacts ==
  ASSUME NEW a, NEW b, Alike(a, b)
  PROVE  /\ Scripted(a) = Scripted(b) /\ Pending(a) = Pending(b) /\ HasList(a) = HasList(b)
         /\ Task(a) = Task(b) /\ (\A t : Owes(a, t) = Owes(b, t)) /\ (\A s : Does(a, s) = Does(b, s))
  BY DEF Alike, Scripted, Pending, HasList, Task, Owes, WillList, Does

LEMMA StainedFacts ==
  ASSUME PresenceTypes, NEW x \in Actors, NEW a \in Handler, Scripted(a), NEW f,
         NEW b \in BOOLEAN, Stained(x, a, f, b)
  PROVE  /\ act' \in [Actors -> Handler] /\ stain' \in [Forums -> BOOLEAN]
         /\ \A y \in Actors : Scripted(act'[y])
         /\ Alike(a, act'[x]) /\ \A y \in Actors \ {x} : Alike(act[y], act'[y])
<1>1. \A c \in Handler : [c EXCEPT !.clean = FALSE] \in Handler /\ Alike(c, [c EXCEPT !.clean = FALSE])
  BY DEF Handler, Alike
<1>2. \A c \in Handler : Alike(c, c) BY DEF Alike
<1>3. act \in [Actors -> Handler] /\ (\A y \in Actors : Scripted(act[y])) /\ stain \in [Forums -> BOOLEAN]
  BY DEF PresenceTypes
<1>4. stain' \in [Forums -> BOOLEAN] BY <1>3 DEF Stained
<1>5. ASSUME NEW y \in Actors PROVE act'[y] \in Handler /\ Alike(IF y = x THEN a ELSE act[y], act'[y])
  BY <1>1, <1>2, <1>3 DEF Stained
<1>6. act' \in [Actors -> Handler] BY <1>5 DEF Stained
<1>7. ASSUME NEW y \in Actors PROVE Scripted(act'[y]) BY <1>3, <1>5, AlikeFacts
<1>8. QED BY <1>4, <1>5, <1>6, <1>7

LEMMA StepFacts ==
  ASSUME PresenceTypes, NEW x \in Actors, NEW a \in Handler, Scripted(a), a.steps # << >>, Step(x, a)
  PROVE  act' \in [Actors -> Handler] /\ \A y \in Actors : Scripted(act'[y])
  BY DoneFacts DEF PresenceTypes, Step

LEMMA HandlerFields ==
  ASSUME NEW a \in Handler
  PROVE  /\ \A ts \in SUBSET (Projects \cup Tasks) : [a EXCEPT !.todo = ts] \in Handler
         /\ \A l \in Lists : [a EXCEPT !.list = l] \in Handler
         /\ \A n \in Nat : [a EXCEPT !.new = n] \in Handler
         /\ \A f \in Place : [a EXCEPT !.forum = f] \in Handler
         /\ \A b \in BOOLEAN : [a EXCEPT !.clean = b] \in Handler
         /\ \A ps \in SUBSET Projects : [a EXCEPT !.live = ps] \in Handler /\ [a EXCEPT !.gone = ps] \in Handler
  BY DEF Handler

LEMMA BeginFacts ==
  ASSUME PresenceTypes, NEW x \in Actors, NEW op, NEW n \in SUBSET (Projects \cup Tasks), NEW f \in Place,
         InHand(op, n), Begin(x, op, n, f)
  PROVE  /\ PresenceTypes' /\ op \in AllOps /\ act[x] = Idle
         /\ act' = [act EXCEPT ![x] = [Idle EXCEPT !.op = op, !.steps = Script(op), !.name = n, !.forum = f]]
         /\ act'[x].op = op /\ act'[x].steps = Script(op) /\ act'[x].new = 0 /\ DOMAIN act'[x].list = {}
         /\ act'[x].todo = {} /\ ~act'[x].clean /\ act'[x].name = n /\ act'[x].forum = f
<1> DEFINE b == [Idle EXCEPT !.op = op, !.steps = Script(op), !.name = n, !.forum = f]
<1>1. op \in AllOps BY ProvisioningAssumption DEF Begin
<1>2. act' = [act EXCEPT ![x] = b] /\ act[x] = Idle BY DEF Begin
<1>3. /\ b.op = op /\ b.steps = Script(op) /\ b.name = n /\ b.forum = f
      /\ b.list = Idle.list /\ b.todo = Idle.todo /\ b.clean = Idle.clean /\ b.new = Idle.new
  BY IdleFacts DEF Handler
<1>4. Script(op) \in AllSteps /\ Script(op) \in StepsLeft(op) BY <1>1, ScriptFacts
<1>5. b \in Handler BY <1>1, <1>4, IdleFacts DEF Handler
<1>6. Scripted(b) BY <1>3, <1>4 DEF Scripted
<1>7. b.op = op /\ b.steps = Script(op) /\ b.new = 0 /\ b.todo = {} /\ ~b.clean /\ b.name = n /\ b.forum = f
  BY <1>3, IdleFacts
<1>8. DOMAIN b.list = {} BY <1>3, IdleFacts
<1> HIDE DEF b
<1>9. act'[x] = b /\ act' \in [Actors -> Handler] /\ \A y \in Actors : Scripted(act'[y])
  BY <1>2, <1>5, <1>6 DEF PresenceTypes
<1>10. PresenceTypes'
  BY <1>9 DEF PresenceTypes, Begin
<1>11. QED BY <1>1, <1>2, <1>7, <1>8, <1>9, <1>10 DEF b

LEMMA EditTypes ==
  ASSUME PresenceTypes, NEW x \in Actors, NEW a \in Handler, Scripted(a), NEW tags \in Tags, NEW o \in BOOLEAN,
         act[x].forum \in Forums, Edit(x, a, tags, o)
  PROVE  PresenceTypes'
<1> DEFINE f == act[x].forum
           late == o \/ forum[f].seen # forum[f].tags
<1>1. f \in Forums /\ forum \in [Forums -> Board] /\ forum[f].seen \in Tags BY DEF PresenceTypes, Board
<1>2. forum' \in [Forums -> Board]
  <2>1. ASSUME NEW s \in {forum[f].seen, tags}
        PROVE  [forum EXCEPT ![f].tags = tags, ![f].seen = s] \in [Forums -> Board]
    BY ZenonT(60), <1>1, <2>1 DEF Board
  <2>2. QED BY ZenonT(60), <1>1, <2>1 DEF Edit
<1>3. \E b \in BOOLEAN : Stained(x, a, f, b)
  <2>1. late \in BOOLEAN OBVIOUS
  <2>2. Stained(x, a, f, late) \/ Stained(x, a, f, TRUE) BY DEF Edit
  <2> HIDE DEF late
  <2>3. QED BY <2>1, <2>2
<1>4. act' \in [Actors -> Handler] /\ stain' \in [Forums -> BOOLEAN] /\ \A y \in Actors : Scripted(act'[y])
  BY <1>1, <1>3, StainedFacts
<1>5. UNCHANGED <<proj, task, thread, loose, stray>> BY DEF Edit
<1>6. QED BY <1>2, <1>4, <1>5 DEF PresenceTypes

LEMMA OpenTypes ==
  ASSUME PresenceTypes, NEW x \in Actors, OpenProject(x) \/ PostHub(x) \/ OpenTask(x)
  PROVE  \E op, n, f : /\ n \in SUBSET (Projects \cup Tasks) /\ f \in Place
                       /\ InHand(op, n) /\ Begin(x, op, n, f)
<1>1. \A p \in Projects : proj[p].forum \in Place BY DEF PresenceTypes, Project
<1>2. NoForum \in Place /\ Forums \subseteq Place BY DEF Place
<1>3. /\ \A p \in Projects : {p} \in SUBSET (Projects \cup Tasks) /\ \A op : op # "task" => InHand(op, {p})
      /\ \A t \in Tasks : {t} \in SUBSET (Projects \cup Tasks) /\ InHand("task", {t})
  BY DEF InHand
<1>4. CASE OpenProject(x)
  <2>1. PICK p \in Projects : \E op \in {"create", "archive", "archive_cmd", "restore", "unarchive_cmd", "rebuild"} :
                \E f \in Place : Begin(x, op, {p}, f)
    BY <1>1, <1>2, <1>4 DEF OpenProject
  <2>2. QED BY <1>3, <2>1
<1>5. CASE PostHub(x)
  <2>1. PICK f \in Forums : Begin(x, "hub", {}, f) BY <1>5 DEF PostHub
  <2>2. {} \in SUBSET (Projects \cup Tasks) /\ InHand("hub", {}) BY DEF InHand
  <2>3. QED BY <1>2, <2>1, <2>2
<1>6. CASE OpenTask(x)
  <2>1. PICK t \in Tasks : Begin(x, "task", {t}, NoForum) BY <1>6 DEF OpenTask
  <2>2. QED BY <1>2, <1>3, <2>1
<1>7. QED BY <1>4, <1>5, <1>6

LEMMA ShelveType ==
  ASSUME PresenceTypes, NEW p, NEW b \in BOOLEAN
  PROVE  Shelve(p, b) \in [Tasks -> Row]
  BY DEF PresenceTypes, Shelve, Row

LEMMA DatabaseTypes ==
  ASSUME PresenceTypes, NEW x \in Actors, ApplyProject(x) \/ ApplyTask(x) \/ ListTasks(x)
  PROVE  PresenceTypes'
<1> USE DEF PresenceTypes
<1> DEFINE a == act[x]
<1>1. a \in Handler /\ Scripted(a) /\ a.steps # << >> BY DEF ApplyProject, ApplyTask, ListTasks, At
<1>2. CASE ApplyProject(x)
  <2>1. PICK p \in a.name \cap Projects : Create(x, p) \/ SetArchived(x, p) \/ Unarchive(x, p)
    BY <1>2 DEF ApplyProject
  <2>2. UNCHANGED <<forum, thread>> BY <1>2 DEF ApplyProject
  <2>3. CASE Create(x, p)
    <3>1. proj' \in [Projects -> Project]
      <4>1. a.forum \in Place BY <1>1 DEF Handler
      <4>2. CASE proj[p].made BY <2>3, <4>2 DEF Create
      <4>3. CASE ~proj[p].made
        <5>1. proj' = [proj EXCEPT ![p] = [made |-> TRUE, archived |-> FALSE, forum |-> a.forum]]
          BY <2>3, <4>3 DEF Create
        <5>2. QED BY <2>1, <4>1, <5>1 DEF Project
      <4>4. QED BY <4>2, <4>3
    <3>2. act' \in [Actors -> Handler] /\ \A y \in Actors : Scripted(act'[y])
      BY <1>1, <2>3, StepFacts, IdleFacts DEF Create
    <3>3. QED BY <2>2, <2>3, <3>1, <3>2 DEF Create
  <2>4. CASE SetArchived(x, p)
    <3>1. proj' \in [Projects -> Project] /\ task' \in [Tasks -> Row]
      <4> DEFINE b == a.op \in {"archive", "archive_cmd"}
      <4>1. b \in BOOLEAN /\ proj' = [proj EXCEPT ![p].archived = b] /\ task' = Shelve(p, b)
        BY <2>4 DEF SetArchived
      <4> HIDE DEF b
      <4>2. QED BY <2>1, <4>1, ShelveType DEF Project
    <3>2. loose' \in [Tasks -> BOOLEAN] BY <2>4 DEF SetArchived
    <3>3. Done(a) \in Handler /\ Scripted(Done(a)) BY <1>1, DoneFacts
    <3>4. Stained(x, Done(a), proj[p].forum, proj[p].forum # a.forum) BY <2>4 DEF SetArchived
    <3>5. QED BY <2>2, <3>1, <3>2, <3>3, <3>4, StainedFacts
  <2>5. CASE Unarchive(x, p)
    <3>1. proj' \in [Projects -> Project] /\ task' \in [Tasks -> Row]
      BY <2>1, <2>5, ShelveType DEF Unarchive, Project
    <3>2. act' \in [Actors -> Handler] /\ \A y \in Actors : Scripted(act'[y])
      BY <1>1, <2>5, StepFacts DEF Unarchive
    <3>3. QED BY <2>2, <2>5, <3>1, <3>2 DEF Unarchive
  <2>6. QED BY <2>1, <2>3, <2>4, <2>5
<1>3. CASE ApplyTask(x)
  <2>1. PICK t \in a.name :
           /\ task' = [task EXCEPT ![t].done = ~@]
           /\ Step(x, [a EXCEPT !.list = [s \in {t} |-> task'[t]], !.todo = {t}])
    BY <1>3 DEF ApplyTask
  <2>2. task' \in [Tasks -> Row] BY <2>1 DEF Row
  <2> DEFINE l == [s \in {t} |-> task'[t]]
             c == [a EXCEPT !.list = l]
             b == [c EXCEPT !.todo = {t}]
  <2>3. t \in Tasks BY <1>1, <1>3, <2>1 DEF Scripted, InHand, ApplyTask
  <2>4. l \in [{t} -> Row] /\ {t} \in SUBSET Tasks BY <2>2, <2>3
  <2>5. l \in Lists BY <2>4 DEF Lists
  <2> HIDE DEF l
  <2>6. c \in Handler /\ c.op = a.op /\ c.steps = a.steps /\ c.name = a.name
    BY ZenonT(60), <1>1, <2>5, HandlerFields DEF Handler
  <2>7. Step(x, b) BY <2>1 DEF l
  <2> HIDE DEF c
  <2>8. b \in Handler /\ b.op = a.op /\ b.steps = a.steps /\ b.name = a.name
    BY ZenonT(60), <2>3, <2>6, HandlerFields DEF Handler
  <2> HIDE DEF b
  <2>9. act' \in [Actors -> Handler] /\ \A y \in Actors : Scripted(act'[y])
    BY <1>1, <2>7, <2>8, StepFacts DEF Scripted
  <2>10. QED BY <1>3, <2>2, <2>9 DEF ApplyTask
<1>4. CASE ListTasks(x)
  <2> DEFINE ts == Listed(x)
             c == [a EXCEPT !.list = [t \in ts |-> task[t]]]
             b == [c EXCEPT !.todo = ts]
  <2>1. [t \in ts |-> task[t]] \in [ts -> Row] /\ ts \in SUBSET Tasks
    <3>1. ts \in SUBSET Tasks BY DEF Listed, Treated, Newest, Asked
    <3> HIDE DEF ts
    <3>2. QED BY <3>1
  <2>0. [t \in ts |-> task[t]] \in Lists BY <2>1 DEF Lists
  <2>2. c \in Handler /\ ts \in SUBSET (Projects \cup Tasks) BY <1>1, <2>0, <2>1, HandlerFields
  <2> HIDE DEF ts
  <2>3. c.op = a.op /\ c.steps = a.steps /\ c.name = a.name BY <1>1 DEF Handler
  <2> HIDE DEF c
  <2>4. b \in Handler /\ b.op = a.op /\ b.steps = a.steps /\ b.name = a.name
    BY ZenonT(60), <2>2, <2>3, HandlerFields DEF Handler
  <2>5. Step(x, b) BY <1>4 DEF ListTasks, c, ts
  <2> HIDE DEF b
  <2>6. act' \in [Actors -> Handler] /\ \A y \in Actors : Scripted(act'[y])
    BY <1>1, <2>4, <2>5, StepFacts DEF Scripted
  <2>7. loose' \in [Tasks -> BOOLEAN] BY <1>4 DEF ListTasks
  <2>8. QED BY <1>4, <2>6, <2>7 DEF ListTasks
<1>5. QED BY <1>2, <1>3, <1>4

LEMMA BindTypes ==
  ASSUME PresenceTypes, NEW x \in Actors, Bind(x)
  PROVE  PresenceTypes'
<1> DEFINE a == act[x]
<1>1. a \in Handler /\ Scripted(a) /\ a.steps # << >> /\ a.forum \in Place
  BY DEF Bind, At, PresenceTypes, Handler
<1>2. \A f \in Place : [a EXCEPT !.forum = f] \in Handler /\ Scripted([a EXCEPT !.forum = f])
                       /\ [a EXCEPT !.forum = f].steps # << >>
  BY <1>1, HandlerFields DEF Handler, Scripted
<1>3. PICK p \in a.name : TRUE /\
       LET rebound(f) == /\ proj' = [proj EXCEPT ![p].forum = f]
                         /\ Step(x, [a EXCEPT !.forum = f])
           wanted == IF a.forum # NoForum THEN a.forum ELSE proj[p].forum
           none == a.forum = NoForum /\ (wanted # NoForum => ~forum[wanted].there)
       IN  \/ ~none /\ rebound(wanted) /\ Same /\ UNCHANGED <<forum, loose>>
           \/ /\ none /\ UNCHANGED loose
              /\ \E f \in {g \in Forums : Unused(g)} :
                    /\ forum' = [forum EXCEPT ![f].there = TRUE]
                    /\ \/ rebound(f) /\ Same
                       \/ Fault /\ UNCHANGED proj /\ Step(x, [a EXCEPT !.forum = f])
           \/ /\ none /\ Fault /\ act' = [act EXCEPT ![x] = Idle]
              /\ loose' = [t \in Tasks |-> loose[t] \/ Owner[t] = p]
              /\ UNCHANGED <<proj, forum>>
  BY Zenon DEF Bind
<1>4. \A f \in Place : Step(x, [a EXCEPT !.forum = f]) =>
          act' \in [Actors -> Handler] /\ \A y \in Actors : Scripted(act'[y])
  BY <1>2, StepFacts
<1>5. UNCHANGED <<task, thread, stain>> BY DEF Bind
<1>6. \A f \in Place : [proj EXCEPT ![p].forum = f] \in [Projects -> Project]
  BY DEF PresenceTypes, Project
<1>7. \A f \in Forums : [forum EXCEPT ![f].there = TRUE] \in [Forums -> Board]
  BY DEF PresenceTypes, Board
<1>8. p \in Projects /\ proj[p].forum \in Place
  <2>1. a.op = "rebuild" BY <1>1, Onward DEF Bind, At, Does
  <2>2. p \in Projects BY <1>1, <2>1 DEF Scripted, InHand
  <2>3. QED BY <2>2 DEF PresenceTypes, Project
<1>9. CASE \E f \in Place : proj' = [proj EXCEPT ![p].forum = f] /\ Step(x, [a EXCEPT !.forum = f])
              /\ UNCHANGED <<forum, loose>>
  BY <1>4, <1>5, <1>6, <1>9 DEF PresenceTypes
<1>10. CASE \E f \in Forums :
               /\ forum' = [forum EXCEPT ![f].there = TRUE] /\ UNCHANGED loose
               /\ Step(x, [a EXCEPT !.forum = f])
               /\ proj' = [proj EXCEPT ![p].forum = f] \/ UNCHANGED proj
  <2>1. PICK f \in Forums :
               /\ forum' = [forum EXCEPT ![f].there = TRUE] /\ UNCHANGED loose
               /\ Step(x, [a EXCEPT !.forum = f])
               /\ proj' = [proj EXCEPT ![p].forum = f] \/ UNCHANGED proj
    BY <1>10
  <2>2. f \in Place BY DEF Place
  <2>3. proj' \in [Projects -> Project] BY <1>6, <2>1, <2>2 DEF PresenceTypes
  <2>4. act' \in [Actors -> Handler] /\ \A y \in Actors : Scripted(act'[y]) BY <1>4, <2>1, <2>2
  <2>5. forum' \in [Forums -> Board] BY <1>7, <2>1
  <2>6. QED BY <1>5, <2>1, <2>3, <2>4, <2>5 DEF PresenceTypes
<1>11. CASE /\ act' = [act EXCEPT ![x] = Idle] /\ loose' = [t \in Tasks |-> loose[t] \/ Owner[t] = p]
            /\ UNCHANGED <<proj, forum>>
  BY <1>5, <1>11, IdleFacts DEF PresenceTypes
<1>12. (IF a.forum # NoForum THEN a.forum ELSE proj[p].forum) \in Place BY <1>1, <1>8
<1>13. QED BY Zenon, <1>3, <1>9, <1>10, <1>11, <1>12

LEMMA OwnIsProject ==
  ASSUME NEW a \in Handler, Scripted(a), a.steps # << >>, Head(a.steps) = "own"
  PROVE  a.op # "task"
<1>1. ASSUME a.op = "task" PROVE FALSE
  <2>1. a.steps \in {Task1, Task2} BY <1>1 DEF Scripted, StepsLeft
  <2>2. QED BY <2>1, TaskTails
<1>2. QED BY <1>1

LEMMA ReadFacts ==
  ASSUME PresenceTypes, NEW x \in Actors, ReadProjects(x)
  PROVE  \E b \in Handler : /\ Step(x, b) /\ b.op = act[x].op /\ b.steps = act[x].steps /\ b.name = act[x].name
                            /\ b.list = act[x].list /\ b.new = act[x].new /\ b.forum = act[x].forum /\ b.todo = act[x].todo
<1> DEFINE a == act[x]  f == act[x].forum
<1>1. a \in Handler /\ a.name \subseteq Projects \cup Tasks BY DEF PresenceTypes, Handler
<1>2. Live(f) \in SUBSET Projects /\ Gone(f) \in SUBSET Projects BY DEF Live, Gone
<1>3. \A l, g \in SUBSET Projects : [a EXCEPT !.live = l, !.gone = g] \in Handler
  BY <1>1 DEF Handler
<1>4. PICK l, g \in SUBSET Projects : Step(x, [[a EXCEPT !.live = l, !.gone = g] EXCEPT !.clean = TRUE])
                                       \/ Step(x, [a EXCEPT !.live = l, !.gone = g])
  BY <1>1, <1>2 DEF ReadProjects
<1> DEFINE b == [a EXCEPT !.live = l, !.gone = g]  c == [b EXCEPT !.clean = TRUE]
<1>5. b \in Handler /\ b.op = a.op /\ b.steps = a.steps /\ b.name = a.name
      /\ b.list = a.list /\ b.new = a.new /\ b.forum = a.forum /\ b.todo = a.todo
  BY <1>1, <1>3 DEF Handler
<1>6. Step(x, c) \/ Step(x, b) BY <1>4
<1> HIDE DEF b
<1>7. c \in Handler /\ c.op = a.op /\ c.steps = a.steps /\ c.name = a.name
      /\ c.list = a.list /\ c.new = a.new /\ c.forum = a.forum /\ c.todo = a.todo
  BY ZenonT(60), <1>5, HandlerFields DEF Handler
<1> HIDE DEF c
<1>8. QED BY <1>5, <1>6, <1>7

LEMMA TagTypes ==
  ASSUME PresenceTypes, NEW x \in Actors, act[x].forum \in Forums,
         ReadProjects(x) \/ Prune(x) \/ Setup(x) \/ Ensure(x) \/ EnsureOwn(x) \/ Untag(x)
  PROVE  PresenceTypes'
<1> DEFINE a == act[x]  f == act[x].forum
<1>1. a \in Handler /\ Scripted(a) /\ a.steps # << >>
  BY DEF ReadProjects, Prune, Setup, Ensure, EnsureOwn, Untag, At, PresenceTypes
<1>2. forum[f].seen \in Tags /\ a.live \in SUBSET Projects /\ a.gone \in SUBSET Projects /\ a.name \subseteq Projects \cup Tasks
      /\ a.todo \subseteq Projects \cup Tasks
  BY <1>1 DEF PresenceTypes, Board, Handler
<1>3. \A p \in Projects \cup {Std} : With(f, p) \in Tags BY <1>2 DEF With, Tags
<1>4. Done(a) \in Handler /\ Scripted(Done(a)) BY <1>1, DoneFacts
<1>5. CASE ReadProjects(x)
  <2>1. PICK b \in Handler : Step(x, b) /\ b.op = a.op /\ b.steps = a.steps /\ b.name = a.name
    BY <1>5, ReadFacts
  <2>2. act' \in [Actors -> Handler] /\ \A y \in Actors : Scripted(act'[y])
    BY <1>1, <2>1, StepFacts DEF Scripted
  <2>3. QED BY <1>5, <2>2 DEF ReadProjects, PresenceTypes
<1>6. CASE Prune(x)
  <2> DEFINE ps == ToEnsure(a)  b == [a EXCEPT !.todo = ps]
  <2>0. ps \in SUBSET (Projects \cup Tasks) BY <1>2 DEF ToEnsure
  <2> HIDE DEF ps
  <2>1. b \in Handler /\ b.op = a.op /\ b.steps = a.steps /\ b.name = a.name
    BY <1>1, <2>0, HandlerFields DEF Handler
  <2> USE DEF ps
  <2>2. Edit(x, Done(b), Pruned(x), Overtaken(x)) BY <1>6 DEF Prune
  <2> HIDE DEF b
  <2>3. Done(b) \in Handler /\ Scripted(Done(b)) BY <1>1, <2>1, DoneFacts DEF Scripted
  <2>4. Pruned(x) \in Tags /\ Overtaken(x) \in BOOLEAN BY <1>2 DEF Pruned, Overtaken, Tags
  <2>5. QED BY <2>2, <2>3, <2>4, EditTypes
<1>7. CASE Setup(x)
  <2>1. Edit(x, Done(a), With(f, Std), Full(f, Std)) /\ Full(f, Std) \in BOOLEAN BY <1>7 DEF Setup, Full
  <2>2. QED BY <1>3, <1>4, <2>1, EditTypes
<1>8. CASE Ensure(x)
  <2>1. CASE Step(x, a) /\ UNCHANGED <<proj, task, forum, thread, stain, loose, stray, count>>
    BY <1>1, <2>1, StepFacts DEF PresenceTypes
  <2>2. CASE \E p \in ToEnsure(a) \cap a.todo :
               Edit(x, [a EXCEPT !.todo = @ \ {p}], With(f, p), Full(f, p) \/ Overtaken(x))
    <3>0. ToEnsure(a) \subseteq Projects BY <1>2 DEF ToEnsure
    <3>1. PICK p \in ToEnsure(a) : Edit(x, [a EXCEPT !.todo = @ \ {p}], With(f, p), Full(f, p) \/ Overtaken(x))
      BY <2>2
    <3> DEFINE b == [a EXCEPT !.todo = @ \ {p}]
    <3>2. b \in Handler /\ Scripted(b) BY <1>1, <1>2, HandlerFields DEF Handler, Scripted
    <3>3. With(f, p) \in Tags /\ (Full(f, p) \/ Overtaken(x)) \in BOOLEAN BY <1>2, <1>3, <3>0
    <3> HIDE DEF b
    <3>4. QED BY <3>1, <3>2, <3>3, EditTypes DEF b
  <2>3. QED BY <1>8, <2>1, <2>2 DEF Ensure
<1>9. CASE EnsureOwn(x)
  <2>1. PICK p \in a.name : Edit(x, Done(a), With(f, p), Full(f, p) \/ p \notin Live(f)) BY <1>9 DEF EnsureOwn
  <2>2. p \in Projects BY <1>1, <1>9, OwnIsProject DEF Scripted, InHand, EnsureOwn, At
  <2>3. (Full(f, p) \/ p \notin Live(f)) \in BOOLEAN BY DEF Full
  <2>4. QED BY <1>3, <1>4, <2>1, <2>2, <2>3, EditTypes
<1>10. CASE Untag(x)
  <2>1. PICK p \in a.name : Edit(x, Done(a), forum[f].seen \ {p}, p \in Live(f)) BY <1>10 DEF Untag
  <2>2. forum[f].seen \ {p} \in Tags /\ (p \in Live(f)) \in BOOLEAN BY <1>2 DEF Tags
  <2>3. QED BY <1>4, <2>1, <2>2, EditTypes
<1>11. QED BY <1>5, <1>6, <1>7, <1>8, <1>9, <1>10

LEMMA HubTypes ==
  ASSUME PresenceTypes, NEW x \in Actors, act[x].forum \in Forums, MountHub(x)
  PROVE  PresenceTypes'
<1> DEFINE a == act[x]  f == act[x].forum  hubs == Redrawn(f, forum[f].hubs, a.live)
<1>1. a \in Handler /\ Scripted(a) /\ a.steps # << >> BY DEF MountHub, At, PresenceTypes
<1>2. Done(a) \in Handler /\ Scripted(Done(a)) BY <1>1, DoneFacts
<1>3. forum \in [Forums -> Board] /\ forum[f].hubs \in Seq(SUBSET Projects) /\ forum[f].known \in Nat
  BY DEF PresenceTypes, Board
<1>4. a.live \in SUBSET Projects BY <1>1 DEF Handler
<1>5. hubs \in Seq(SUBSET Projects) BY <1>3, <1>4 DEF Redrawn
<1>6. UNCHANGED <<proj, task, thread, loose, stray>> BY DEF MountHub
<1>7. forum' \in [Forums -> Board]
  <2>1. CASE UNCHANGED forum BY <1>3, <2>1
  <2>2. CASE \E k \in {forum[f].known, Len(hubs)} : forum' = [forum EXCEPT ![f].hubs = hubs, ![f].known = k]
    <3>0. Len(hubs) \in Nat BY <1>5
    <3> HIDE DEF hubs
    <3>1. PICK k \in Nat : forum' = [forum EXCEPT ![f].hubs = hubs, ![f].known = k] BY <1>3, <2>2, <3>0
    <3>2. QED BY ZenonT(60), <1>3, <1>5, <3>1 DEF Board
  <2>3. QED BY <2>1, <2>2 DEF MountHub
<1>8. act' \in [Actors -> Handler] /\ stain' \in [Forums -> BOOLEAN] /\ \A y \in Actors : Scripted(act'[y])
  <2>1. CASE Stained(x, Done(a), f, TRUE) BY <1>2, <2>1, StainedFacts
  <2>2. CASE stain' = [stain EXCEPT ![f] = FALSE] /\ Step(x, a)
    BY <1>1, <2>2, StepFacts DEF PresenceTypes
  <2>3. QED BY <2>1, <2>2 DEF MountHub
<1>9. QED BY <1>6, <1>7, <1>8 DEF PresenceTypes

LEMMA FinishedFacts ==
  ASSUME PresenceTypes, NEW x \in Actors, NEW t
  PROVE  /\ Finished(x, t) \in Handler /\ Scripted(Finished(x, t))
         /\ Finished(x, t).todo = act[x].todo \ {t} /\ Finished(x, t).new = 0
         /\ Finished(x, t).op = act[x].op /\ Finished(x, t).steps = act[x].steps
         /\ Finished(x, t).name = act[x].name /\ Finished(x, t).list = act[x].list
         /\ Finished(x, t).forum = act[x].forum /\ Finished(x, t).clean = act[x].clean
         /\ Finished(x, t).live = act[x].live /\ Finished(x, t).gone = act[x].gone
<1>1. act[x] \in Handler /\ Scripted(act[x]) BY DEF PresenceTypes
<1>2. act[x].todo \ {t} \in SUBSET (Projects \cup Tasks) BY <1>1 DEF Handler
<1>3. Finished(x, t) = [[act[x] EXCEPT !.todo = act[x].todo \ {t}] EXCEPT !.new = 0] BY DEF Finished
<1> DEFINE b == [act[x] EXCEPT !.todo = act[x].todo \ {t}]
<1>4. /\ b \in Handler /\ b.todo = act[x].todo \ {t} /\ b.op = act[x].op /\ b.steps = act[x].steps
      /\ b.name = act[x].name /\ b.list = act[x].list /\ b.forum = act[x].forum /\ b.clean = act[x].clean
      /\ b.live = act[x].live /\ b.gone = act[x].gone
  BY <1>1, <1>2 DEF Handler
<1>5. Finished(x, t) = [b EXCEPT !.new = 0] BY <1>3
<1> HIDE DEF b
<1>6. QED BY <1>1, <1>4, <1>5 DEF Handler, Scripted

LEMMA ThreadField ==
  ASSUME thread \in Seq(Thread), NEW i, NEW b \in BOOLEAN
  PROVE  /\ [thread EXCEPT ![i].shut = b] \in Seq(Thread) /\ [thread EXCEPT ![i].here = b] \in Seq(Thread)
         /\ DOMAIN [thread EXCEPT ![i].shut = b] = DOMAIN thread
         /\ DOMAIN [thread EXCEPT ![i].here = b] = DOMAIN thread
<1>1. \A r \in Thread : [r EXCEPT !.shut = b] \in Thread /\ [r EXCEPT !.here = b] \in Thread BY DEF Thread
<1> DEFINE s == [thread EXCEPT ![i].shut = b]  h == [thread EXCEPT ![i].here = b]
<1>2. thread \in [1..Len(thread) -> Thread] /\ Len(thread) \in Nat OBVIOUS
<1>3. s \in [1..Len(thread) -> Thread] BY <1>1, <1>2
<1>4. h \in [1..Len(thread) -> Thread] BY <1>1, <1>2
<1>5. \A q \in [1..Len(thread) -> Thread] : q \in Seq(Thread) BY <1>2
<1>6. QED BY <1>2, <1>3, <1>4, <1>5

LEMMA SyncTypes ==
  ASSUME PresenceTypes, NEW x \in Actors, NEW t \in Tasks, t \in DOMAIN act[x].list,
         SyncThread(x, t) \/ MakeThread(x, t) \/ MakeFails(x, t) \/ RecordThread(x, t) \/ SettleThread(x, t)
  PROVE  PresenceTypes'
<1> DEFINE a == act[x]  r == act[x].list[t]
<1>1. a \in Handler /\ Scripted(a) /\ thread \in Seq(Thread) /\ task \in [Tasks -> Row]
      /\ act \in [Actors -> Handler] /\ (\A y \in Actors : Scripted(act[y])) /\ loose \in [Tasks -> BOOLEAN]
  BY DEF PresenceTypes
<1>2. r \in Row /\ Closed(r) \in BOOLEAN BY <1>1 DEF Handler, Lists, Row, Closed
<1>3. Finished(x, t) \in Handler /\ Scripted(Finished(x, t)) BY FinishedFacts
<1>4. act' = [act EXCEPT ![x] = Finished(x, t)] => act' \in [Actors -> Handler] /\ \A y \in Actors : Scripted(act'[y])
  BY <1>1, <1>3
<1>5. UNCHANGED <<proj, forum, stain>>
  BY DEF SyncThread, MakeThread, MakeFails, RecordThread, SettleThread
<1>6. CASE SyncThread(x, t)
  <2>1. act' = [act EXCEPT ![x] = Finished(x, t)] BY <1>6 DEF SyncThread, Written
  <2>2. thread' \in Seq(Thread)
    <3>1. thread' = thread \/ thread' = [thread EXCEPT ![r.thread].shut = Closed(r)]
      BY <1>6 DEF SyncThread, Written
    <3>2. \A i : \A b \in BOOLEAN : [thread EXCEPT ![i].shut = b] \in Seq(Thread) BY <1>1, ThreadField
    <3>3. QED BY <1>1, <1>2, <3>1, <3>2
  <2>3. loose' \in [Tasks -> BOOLEAN]
    <3>1. PICK b \in BOOLEAN : loose' = [loose EXCEPT ![t] = b]
      <4>1. (Closed(r) # Closed(task[t]) \/ r.thread # task[t].thread) \in BOOLEAN
            /\ (loose[t] \/ r.thread # task[t].thread) \in BOOLEAN
        OBVIOUS
      <4>2. QED BY <4>1, <1>6 DEF SyncThread, Written
    <3>2. QED BY <1>1, <3>1
  <2>4. QED BY <1>1, <1>4, <1>5, <1>6, <2>1, <2>2, <2>3 DEF SyncThread, PresenceTypes
<1>7. CASE MakeThread(x, t)
  <2>1. thread' \in Seq(Thread)
    <3> DEFINE home == Home(x, t)
    <3>1. home \in Place
      <4>1. a.forum \in Place /\ Owner[t] \in Projects BY <1>1, ProvisioningAssumption DEF Handler
      <4>2. proj[Owner[t]].forum \in Place BY <4>1 DEF PresenceTypes, Project
      <4>3. QED BY <4>1, <4>2 DEF Home
    <3>2. thread' = Append(thread, [of |-> t, here |-> TRUE, shut |-> FALSE, on |-> home])
      BY <1>7 DEF MakeThread
    <3> HIDE DEF home
    <3>3. [of |-> t, here |-> TRUE, shut |-> FALSE, on |-> home] \in Thread BY <3>1 DEF Thread
    <3>4. QED BY <1>1, <3>2, <3>3
  <2>2. act' \in [Actors -> Handler] /\ \A y \in Actors : Scripted(act'[y])
    <3>1. act' = [act EXCEPT ![x].new = Len(thread')] /\ Len(thread') \in Nat BY <1>7, <2>1 DEF MakeThread
    <3> DEFINE b == [a EXCEPT !.new = Len(thread')]
    <3>2. b \in Handler /\ b.op = a.op /\ b.steps = a.steps /\ b.name = a.name
      BY ZenonT(60), <1>1, <3>1, HandlerFields DEF Handler
    <3>3. act' = [act EXCEPT ![x] = b] BY <3>1
    <3> HIDE DEF b
    <3>4. QED BY <1>1, <3>2, <3>3 DEF Scripted
  <2>3. QED BY <1>1, <1>5, <1>7, <2>1, <2>2 DEF MakeThread, PresenceTypes
<1>8. CASE MakeFails(x, t)
  BY <1>1, <1>4, <1>5, <1>8 DEF MakeFails, PresenceTypes
<1>9. CASE RecordThread(x, t)
  <2>1. CASE task' = [task EXCEPT ![t].thread = a.new] /\ act' = [act EXCEPT ![x].list[t] = task'[t]]
             /\ loose' = [loose EXCEPT ![t] = ~There(a.new)]
    <3>1. task' \in [Tasks -> Row] /\ task'[t] \in Row BY ZenonT(60), <1>1, <2>1 DEF Row, Handler
    <3> DEFINE l == [a.list EXCEPT ![t] = task'[t]]  b == [a EXCEPT !.list = l]
    <3>2. l \in Lists
      <4>1. PICK ts \in SUBSET Tasks : a.list \in [ts -> Row] BY <1>1 DEF Handler, Lists
      <4>2. l \in [ts -> Row] BY <3>1, <4>1
      <4>3. QED BY <4>2 DEF Lists
    <3>3. act' = [act EXCEPT ![x] = b] BY <2>1
    <3> HIDE DEF l
    <3>4. b \in Handler /\ b.op = a.op /\ b.steps = a.steps /\ b.name = a.name
      BY ZenonT(60), <1>1, <3>2, HandlerFields DEF Handler
    <3> HIDE DEF b
    <3>5. act' \in [Actors -> Handler] /\ \A y \in Actors : Scripted(act'[y]) BY <1>1, <3>3, <3>4 DEF Scripted
    <3>6. loose' \in [Tasks -> BOOLEAN] BY <1>1, <2>1 DEF There
    <3>7. UNCHANGED thread BY <1>9 DEF RecordThread
    <3>8. QED BY <1>5, <1>1, <3>1, <3>5, <3>6, <3>7 DEF PresenceTypes
  <2>2. CASE act' = [act EXCEPT ![x] = Finished(x, t)] /\ loose' = [loose EXCEPT ![t] = TRUE] /\ UNCHANGED task
    BY <1>1, <1>4, <1>5, <1>9, <2>2 DEF RecordThread, PresenceTypes
  <2>3. QED BY <1>9, <2>1, <2>2 DEF RecordThread
<1>10. CASE SettleThread(x, t)
  <2>1. act' = [act EXCEPT ![x] = Finished(x, t)] /\ UNCHANGED task BY <1>10 DEF SettleThread
  <2>2. thread' \in Seq(Thread) 
    <3>1. CASE thread' = [thread EXCEPT ![r.thread].shut = @ \/ ShutNow(r)]
      <4>1. (thread[r.thread].shut \/ ShutNow(r)) \in BOOLEAN OBVIOUS
      <4>2. thread' = [thread EXCEPT ![r.thread].shut = thread[r.thread].shut \/ ShutNow(r)] BY <3>1
      <4>3. QED BY <1>1, <4>1, <4>2, ThreadField
    <3>2. CASE UNCHANGED thread BY <1>1, <3>2
    <3>3. QED BY <1>10, <3>1, <3>2 DEF SettleThread
  <2>3. loose' \in [Tasks -> BOOLEAN] BY <1>1, <1>10 DEF SettleThread
  <2>4. QED BY <1>1, <1>4, <1>5, <2>1, <2>2, <2>3 DEF PresenceTypes
<1>11. QED BY <1>6, <1>7, <1>8, <1>9, <1>10

LEMMA DiscordTypes ==
  ASSUME PresenceTypes,
         \/ \E f \in Forums : Gateway(f) \/ DeleteForum(f)
         \/ (\E i \in DOMAIN thread : DeleteThread(i)) \/ Crash
  PROVE  PresenceTypes'
<1>1. forum \in [Forums -> Board] /\ thread \in Seq(Thread) /\ loose \in [Tasks -> BOOLEAN]
      /\ stain \in [Forums -> BOOLEAN] /\ act \in [Actors -> Handler]
  BY DEF PresenceTypes
<1>2. \A f \in Forums : Len(forum[f].hubs) \in Nat BY <1>1 DEF Board
<1>3. ASSUME NEW f \in Forums, Gateway(f) PROVE PresenceTypes'
  <2>1. forum' \in [Forums -> Board] BY ZenonT(60), <1>1, <1>2, <1>3 DEF Gateway, Board
  <2>2. QED BY <1>3, <2>1 DEF Gateway, PresenceTypes
<1>4. ASSUME NEW f \in Forums, DeleteForum(f) PROVE PresenceTypes'
  <2>1. Empty \in Board BY DEF Empty, Board, Tags
  <2>2. forum' \in [Forums -> Board] BY <1>1, <1>4, <2>1 DEF DeleteForum
  <2>3. thread' \in Seq(Thread)
    <3>1. \A r \in Thread : [r EXCEPT !.here = FALSE] \in Thread BY DEF Thread
    <3>2. thread \in [1..Len(thread) -> Thread] /\ Len(thread) \in Nat BY <1>1
    <3>3. thread' \in [1..Len(thread) -> Thread] BY <1>4, <3>1, <3>2 DEF DeleteForum
    <3>4. QED BY <3>2, <3>3
  <2>4. stain' \in [Forums -> BOOLEAN] BY <1>1, <1>4 DEF DeleteForum
  <2>5. loose' \in [Tasks -> BOOLEAN] BY <1>1, <1>4 DEF DeleteForum
  <2>6. QED BY <1>4, <2>2, <2>3, <2>4, <2>5 DEF DeleteForum, PresenceTypes
<1>5. ASSUME NEW i \in DOMAIN thread, DeleteThread(i) PROVE PresenceTypes'
  <2>1. thread' \in Seq(Thread) BY <1>1, <1>5, ThreadField DEF DeleteThread
  <2>2. loose' \in [Tasks -> BOOLEAN] BY <1>1, <1>5 DEF DeleteThread
  <2>3. QED BY <1>5, <2>1, <2>2 DEF DeleteThread, PresenceTypes
<1>6. ASSUME Crash PROVE PresenceTypes'
  <2>1. forum' \in [Forums -> Board] BY ZenonT(60), <1>1, <1>2, <1>6 DEF Crash, Board
  <2>2. act' \in [Actors -> Handler] /\ \A y \in Actors : Scripted(act'[y]) BY <1>6, IdleFacts DEF Crash
  <2>3. QED BY <1>6, <2>1, <2>2 DEF Crash, PresenceTypes
<1>7. QED BY <1>3, <1>4, <1>5, <1>6

LEMMA SkipTypes ==
  ASSUME PresenceTypes, NEW x \in Actors, Skip(x) \/ SyncDone(x)
  PROVE  PresenceTypes'
<1>1. act[x] \in Handler /\ Scripted(act[x]) /\ act[x].steps # << >> /\ Step(x, act[x])
  BY DEF PresenceTypes, Skip, SyncDone, At
<1>2. QED BY <1>1, StepFacts DEF PresenceTypes, Skip, SyncDone

\* Handlers synchronise tasks.
LEMMA ListedTasks ==
  ASSUME PresenceTypes, Working, NEW x \in Actors, At(x, "sync"), NEW t \in act[x].todo
  PROVE  t \in Tasks /\ t \in DOMAIN act[x].list
<1>1. HasList(act[x]) BY DEF HasList, Does, At
<1>2. DOMAIN act[x].list \subseteq Tasks BY DEF PresenceTypes, Handler, Lists
<1>3. QED BY <1>1, <1>2 DEF Working

LEMMA NextTypes ==
  ASSUME PresenceTypes, Working, PresenceNext
  PROVE  PresenceTypes'
<1>1. ASSUME NEW x \in Actors, Handle(x) PROVE PresenceTypes'
  <2>1. act[x].forum # NoForum => act[x].forum \in Forums BY DEF PresenceTypes, Handler, Place
  <2>2. CASE OpenProject(x) \/ PostHub(x) \/ OpenTask(x) BY <2>2, OpenTypes, BeginFacts
  <2>3. CASE Skip(x) BY <2>3, SkipTypes
  <2>4. CASE ApplyProject(x) \/ ApplyTask(x) \/ ListTasks(x) BY <2>4, DatabaseTypes
  <2>5. CASE Bind(x) BY <2>5, BindTypes
  <2>6. CASE act[x].forum # NoForum /\ (ReadProjects(x) \/ Prune(x) \/ Setup(x) \/ Ensure(x) \/ EnsureOwn(x) \/ Untag(x))
    BY <2>1, <2>6, TagTypes
  <2>7. CASE act[x].forum # NoForum /\ MountHub(x) BY <2>1, <2>7, HubTypes
  <2>8. CASE SyncTasks(x)
    <3>1. CASE SyncDone(x) BY <3>1, SkipTypes
    <3>2. CASE At(x, "sync") /\ \E t \in act[x].todo :
             SyncThread(x, t) \/ MakeThread(x, t) \/ MakeFails(x, t) \/ RecordThread(x, t) \/ SettleThread(x, t)
      BY <3>2, ListedTasks, SyncTypes
    <3>3. QED BY <2>8, <3>1, <3>2 DEF SyncTasks
  <2>9. QED BY <1>1, <2>2, <2>3, <2>4, <2>5, <2>6, <2>7, <2>8 DEF Handle
<1>2. QED BY <1>1, DiscordTypes DEF PresenceNext

\* A handler makes no thread: it lists rows, goes on, or is done with one it made.
Calm(a, b) ==
    \/ Alike(a, b)
    \/ /\ b.new = 0 /\ (Pending(a) => Task(a) \in stray')
       /\ \A t \in DOMAIN b.list :
             \/ t \in DOMAIN a.list /\ b.list[t].thread = a.list[t].thread
             \/ t \in Tasks /\ b.list[t].thread = task[t].thread
       /\ HasList(b) => b.todo \subseteq DOMAIN b.list

KeptThread(t) == thread[task[t].thread].shut = Closed(task[t]) \/ \E x \in Actors : Owes(act[x], t)

\* Threads are not made, nor recorded: they may be archived, or deleted.
SameThreads ==
    /\ DOMAIN thread' = DOMAIN thread
    /\ \A i \in DOMAIN thread : thread'[i].of = thread[i].of /\ (thread'[i].here => thread[i].here)

LEMMA SteadyStep ==
  ASSUME ThreadInv, SameThreads, stray \subseteq stray', \A t \in Tasks : task'[t].thread = task[t].thread,
         \A x \in Actors : Calm(act[x], act'[x]),
         \A x \in Actors : Pending(act[x]) => ~thread'[act[x].new].shut,
         \A t \in Tasks : ~loose'[t] => There(task[t].thread)' /\ KeptThread(t)'
  PROVE  ThreadInv'
<1>1. Recorded /\ Working /\ Unrecorded /\ Kept /\ Single BY DEF ThreadInv
<1>2. ASSUME NEW x \in Actors
      PROVE  /\ act'[x].new # 0 => Alike(act[x], act'[x])
             /\ Pending(act[x])' => Pending(act[x]) /\ act'[x].new = act[x].new /\ (Task(act[x]))' = Task(act[x])
             /\ Pending(act[x]) /\ Task(act[x]) \notin stray' => Pending(act[x])' /\ act'[x].new = act[x].new
  <2>1. CASE Alike(act[x], act'[x])
    <3>1. (Task(act[x]))' = thread'[act'[x].new].of /\ Task(act[x]) = thread[act[x].new].of BY DEF Task
    <3>2. act[x].new # 0 => (Task(act[x]))' = Task(act[x])
      BY <1>1, <2>1, <3>1 DEF Working, Alike, SameThreads
    <3>3. Pending(act[x])' = Pending(act[x])
      BY <2>1, <3>2 DEF Pending, Alike
    <3>4. QED BY <2>1, <3>2, <3>3 DEF Alike, Pending
  <2>2. CASE act'[x].new = 0 /\ (Pending(act[x]) => Task(act[x]) \in stray')
    <3>1. ~Pending(act[x])' BY <2>2 DEF Pending
    <3>2. QED BY <2>2, <3>1
  <2>3. QED BY <2>1, <2>2 DEF Calm
<1>3. ASSUME NEW x \in Actors, NEW t \in DOMAIN act'[x].list
      PROVE  \/ t \in DOMAIN act[x].list /\ act'[x].list[t].thread = act[x].list[t].thread
             \/ t \in Tasks /\ act'[x].list[t].thread = task[t].thread
  BY DEF Calm, Alike
<1>4. Recorded' BY <1>1, <1>3 DEF Recorded, HoldsThread, SameThreads
<1>5. Working'
  <2>1. ASSUME NEW x \in Actors, HasList(act[x])' PROVE act'[x].todo \subseteq DOMAIN act'[x].list
    <3>1. CASE Alike(act[x], act'[x])
      <4>1. HasList(act[x]) BY <2>1, <3>1 DEF HasList, Alike, Does
      <4>2. QED BY <1>1, <3>1, <4>1 DEF Working, Alike
    <3>2. CASE ~Alike(act[x], act'[x])
      <4>1. HasList(act'[x]) BY <2>1 DEF HasList, Does
      <4>2. QED BY <3>2, <4>1 DEF Calm
    <3>3. QED BY <3>1, <3>2
  <2>2. ASSUME NEW x \in Actors, act'[x].new # 0
        PROVE  /\ Does(act'[x], "sync") /\ act'[x].op = "rebuild" /\ act'[x].new \in DOMAIN thread'
               /\ thread'[act'[x].new].of \in act'[x].todo
    BY <1>1, <1>2, <2>2, AlikeFacts DEF Working, Alike, SameThreads
  <2>3. \A x \in Actors : (Does(act[x], "sync"))' = Does(act'[x], "sync") BY DEF Does
  <2>4. QED BY <2>1, <2>2, <2>3 DEF Working
<1>6. Unrecorded'
  <2>1. ASSUME NEW x \in Actors, Pending(act[x])'
        PROVE  /\ ~thread'[act'[x].new].shut
               /\ \A t \in Tasks : task'[t].thread # act'[x].new
               /\ \A y \in Actors : \A t \in DOMAIN act'[y].list : act'[y].list[t].thread # act'[x].new
               /\ \A y \in Actors \ {x} : act'[y].new # act'[x].new
    <3>1. Pending(act[x]) /\ act'[x].new = act[x].new /\ act'[x].new # 0 BY <1>2, <2>1 DEF Pending
    <3>2. \A y \in Actors : act'[y].new = 0 \/ act'[y].new = act[y].new BY <1>2 DEF Alike
    <3>3. QED BY <1>1, <1>3, <3>1, <3>2 DEF Unrecorded
  <2>2. QED BY <2>1 DEF Unrecorded
<1>7. Kept' BY DEF Kept, KeptThread
<1>8. Single'
  <2>1. ASSUME NEW t \in Tasks \ stray' PROVE Alone(t)'
    <3>1. Alone(t) BY <1>1, <2>1 DEF Single
    <3>2. task'[t].thread = task[t].thread OBVIOUS
    <3>3. There(task[t].thread)' => There(task[t].thread) BY DEF There, SameThreads
    <3>4. ASSUME NEW i \in DOMAIN thread', thread'[i].here, thread'[i].of = t
          PROVE  i = task'[t].thread \/ \E x \in Actors : Pending(act[x])' /\ act'[x].new = i
      <4>1. i \in DOMAIN thread /\ thread[i].here /\ thread[i].of = t BY <3>4 DEF SameThreads
      <4>2. i = task[t].thread \/ \E x \in Actors : Pending(act[x]) /\ act[x].new = i BY <3>1, <4>1 DEF Alone
      <4>3. ASSUME NEW x \in Actors, Pending(act[x]), act[x].new = i PROVE Pending(act[x])' /\ act'[x].new = i
        <5>1. Task(act[x]) = t BY <4>1, <4>3 DEF Task
        <5>2. QED BY <1>2, <2>1, <4>3, <5>1
      <4>4. QED BY <3>2, <4>2, <4>3
    <3>5. QED BY <1>2, <3>1, <3>2, <3>3, <3>4 DEF Alone
  <2>2. QED BY <2>1 DEF Single
<1>9. QED BY <1>4, <1>5, <1>6, <1>7, <1>8 DEF ThreadInv

LEMMA CalmStep ==
  ASSUME ThreadInv, UNCHANGED <<thread, stray>>, \A t \in Tasks : task'[t].thread = task[t].thread,
         \A t \in Tasks : loose[t] => loose'[t], \A x \in Actors : Calm(act[x], act'[x]),
         \A t \in Tasks : ~loose'[t] => KeptThread(t)'
  PROVE  ThreadInv'
<1>1. Unrecorded /\ Kept BY DEF ThreadInv
<1>2. \A x \in Actors : Pending(act[x]) => ~thread'[act[x].new].shut BY <1>1 DEF Unrecorded
<1>3. \A t \in Tasks : ~loose'[t] => There(task[t].thread)' BY <1>1 DEF Kept, There
<1>4. SameThreads /\ stray \subseteq stray' BY DEF SameThreads
<1>5. QED BY <1>2, <1>3, <1>4, SteadyStep

LEMMA QuietStep ==
  ASSUME ThreadInv, NEW x \in Actors, Calm(act[x], act'[x]), \A y \in Actors \ {x} : Alike(act[y], act'[y]),
         UNCHANGED <<task, thread, stray>>, \A t \in Tasks : loose[t] => loose'[t],
         \A t \in Tasks : ~loose'[t] /\ Owes(act[x], t) => Owes(act'[x], t)
  PROVE  ThreadInv'
<1>1. \A y \in Actors : Calm(act[y], act'[y]) BY DEF Calm
<1>2. ASSUME NEW t \in Tasks, ~loose'[t] PROVE KeptThread(t)'
  <2>1. ASSUME NEW y \in Actors, Owes(act[y], t) PROVE Owes(act'[y], t)
    <3>1. CASE y = x BY <1>2, <2>1, <3>1
    <3>2. CASE y # x BY <2>1, <3>2, AlikeFacts
    <3>3. QED BY <3>1, <3>2
  <2>2. \A y \in Actors : (Owes(act[y], t))' = Owes(act'[y], t) BY DEF Owes, WillList, Does, Closed
  <2>3. KeptThread(t) BY <1>2 DEF ThreadInv, Kept, KeptThread
  <2>4. QED BY <2>1, <2>2, <2>3 DEF KeptThread, Closed
<1>3. \A t \in Tasks : task'[t].thread = task[t].thread OBVIOUS
<1>4. QED BY <1>1, <1>2, <1>3, CalmStep

\* A step of the script that neither lists nor applies.
LEMMA DoneCalm ==
  ASSUME NEW a \in Handler, NEW b \in Handler, Scripted(a), a.steps # << >>,
         b.op = a.op, b.steps = a.steps, b.name = a.name, b.list = a.list, b.new = a.new, a.new = 0,
         ~Does(a, "list"), ~Does(a, "apply"), Does(a, "sync") => a.todo = {},
         NEW c, Alike(Done(b), c)
  PROVE  Calm(a, c) /\ \A t \in Tasks : Owes(a, t) => Owes(c, t)
<1>1. Scripted(b) /\ b.steps # << >> /\ ~Does(b, "list") /\ ~Does(b, "apply") BY DEF Scripted, Does
<1>2. ~HasList(Done(b)) /\ (WillList(b) => WillList(Done(b)) /\ Done(b) # Idle) BY <1>1, Onward
<1>3. IF Len(b.steps) = 1 THEN Done(b) = Idle ELSE SameBut(b, Done(b)) BY <1>1, DoneFacts
<1>4. Done(b) # Idle => SameBut(b, Done(b)) BY <1>3
<1>5. Done(b).new = 0 /\ \A t \in DOMAIN Done(b).list : t \in DOMAIN a.list /\ Done(b).list[t] = a.list[t]
  BY <1>3, IdleFacts DEF SameBut
<1>6. Calm(a, c) BY <1>2, <1>5 DEF Calm, Pending, Alike, HasList, Does
<1>7. ASSUME NEW t \in Tasks, Owes(a, t) PROVE Owes(c, t)
  <2>1. WillList(a) /\ Owner[t] \in a.name /\ (a.op = "restore" => ~Closed(task[t])) BY <1>7 DEF Owes
  <2>2. WillList(b) BY <2>1 DEF WillList, Does
  <2>3. WillList(Done(b)) /\ Done(b).name = a.name /\ Done(b).op = a.op BY <1>2, <1>4, <2>2 DEF SameBut
  <2>4. Owes(Done(b), t) BY <2>1, <2>3 DEF Owes
  <2>5. QED BY <2>4, AlikeFacts
<1>8. QED BY <1>6, <1>7

LEMMA NotMaking ==
  ASSUME Working, NEW x \in Actors, PresenceTypes, act[x].steps = << >> \/ Head(act[x].steps) # "sync" \/ act[x].todo = {}
  PROVE  act[x].new = 0
  BY DEF Working, Does, PresenceTypes, Handler

LEMMA BeginThreads ==
  ASSUME PresenceTypes, ThreadInv, NEW x \in Actors, NEW op, NEW n \in SUBSET (Projects \cup Tasks), NEW f \in Place,
         InHand(op, n), Begin(x, op, n, f)
  PROVE  ThreadInv'
<1>1. /\ act[x] = Idle /\ op \in AllOps /\ act'[x].steps = Script(op) /\ act'[x].new = 0
      /\ DOMAIN act'[x].list = {} /\ act'[x].todo = {}
  BY BeginFacts
<1>2. Calm(act[x], act'[x]) BY <1>1, IdleFacts DEF Calm
<1>3. \A y \in Actors \ {x} : Alike(act[y], act'[y])
  <2>1. \A y \in Actors \ {x} : act'[y] = act[y] BY DEF Begin, PresenceTypes
  <2>2. QED BY <2>1 DEF Alike
<1>4. UNCHANGED <<task, thread, loose, stray>> BY DEF Begin
<1>5. QED BY <1>1, <1>2, <1>3, <1>4, IdleFacts, QuietStep

LEMMA StepThreads ==
  ASSUME PresenceTypes, ThreadInv, NEW x \in Actors, NEW b \in Handler, act[x].steps # << >>, Step(x, b),
         b.op = act[x].op, b.steps = act[x].steps, b.name = act[x].name, b.list = act[x].list, b.new = act[x].new,
         ~Does(act[x], "list"), ~Does(act[x], "apply"), Does(act[x], "sync") => act[x].todo = {},
         UNCHANGED <<task, thread, loose, stray>>
  PROVE  ThreadInv'
<1>1. act[x] \in Handler /\ Scripted(act[x]) /\ Working BY DEF PresenceTypes, ThreadInv
<1>2. act[x].new = 0 BY <1>1, NotMaking DEF Does
<1>3. act'[x] = Done(b) /\ \A y \in Actors \ {x} : act'[y] = act[y] BY DEF Step, PresenceTypes
<1>4. Calm(act[x], act'[x]) /\ \A t \in Tasks : Owes(act[x], t) => Owes(act'[x], t)
  BY <1>1, <1>2, <1>3, DoneCalm DEF Alike
<1>5. QED BY <1>3, <1>4, QuietStep DEF Alike

LEMMA StainedThreads ==
  ASSUME PresenceTypes, ThreadInv, NEW x \in Actors, NEW b \in Handler, act[x].steps # << >>, NEW f, NEW l \in BOOLEAN,
         NEW c \in {b, Done(b)}, Stained(x, c, f, l),
         b.op = act[x].op, b.steps = act[x].steps, b.name = act[x].name, b.list = act[x].list, b.new = act[x].new,
         ~Does(act[x], "list"), ~Does(act[x], "apply"), ~Does(act[x], "sync"),
         UNCHANGED <<task, thread, loose, stray>>
  PROVE  ThreadInv'
<1>1. act[x] \in Handler /\ Scripted(act[x]) /\ Scripted(b) /\ Working BY DEF PresenceTypes, ThreadInv, Scripted
<1>2. act[x].new = 0 BY <1>1, NotMaking DEF Does
<1>3. c \in Handler /\ Scripted(c) BY <1>1, DoneFacts
<1>4. Alike(c, act'[x]) /\ \A y \in Actors \ {x} : Alike(act[y], act'[y]) BY <1>3, StainedFacts
<1>5. Calm(act[x], act'[x]) /\ \A t \in Tasks : Owes(act[x], t) => Owes(act'[x], t)
  <2>1. CASE c = Done(b) BY <1>1, <1>2, <1>4, <2>1, DoneCalm
  <2>2. CASE c = b
    <3>1. ~HasList(act'[x]) BY <1>4, <2>2 DEF HasList, Does, Alike
    <3>2. Calm(act[x], act'[x]) BY <1>2, <1>4, <2>2, <3>1 DEF Calm, Pending, Alike
    <3>3. ASSUME NEW t \in Tasks, Owes(act[x], t) PROVE Owes(act'[x], t)
      BY <1>4, <2>2, <3>3 DEF Owes, WillList, Does, Alike
    <3>4. QED BY <3>2, <3>3
  <2>3. QED BY <2>1, <2>2
<1>6. QED BY <1>4, <1>5, QuietStep

LEMMA EditThreads ==
  ASSUME PresenceTypes, ThreadInv, NEW x \in Actors, NEW b \in Handler, act[x].steps # << >>,
         NEW c \in {b, Done(b)}, NEW tags, NEW o \in BOOLEAN, Edit(x, c, tags, o),
         b.op = act[x].op, b.steps = act[x].steps, b.name = act[x].name, b.list = act[x].list, b.new = act[x].new,
         ~Does(act[x], "list"), ~Does(act[x], "apply"), ~Does(act[x], "sync")
  PROVE  ThreadInv'
<1> DEFINE f == act[x].forum
           late == o \/ forum[f].seen # forum[f].tags
<1>1. late \in BOOLEAN /\ (Stained(x, c, f, late) \/ Stained(x, c, f, TRUE)) BY DEF Edit
<1>2. UNCHANGED <<task, thread, loose, stray>> BY DEF Edit
<1> HIDE DEF late
<1>3. QED BY <1>1, <1>2, StainedThreads

LEMMA QuietThreads ==
  ASSUME PresenceTypes, ThreadInv, NEW x \in Actors,
         \/ Skip(x) \/ SyncDone(x)
         \/ ReadProjects(x) \/ Prune(x) \/ Setup(x) \/ Ensure(x) \/ EnsureOwn(x) \/ Untag(x) \/ MountHub(x)
  PROVE  ThreadInv'
<1> DEFINE a == act[x]  f == act[x].forum
<1>1. a \in Handler /\ Scripted(a) BY DEF PresenceTypes
<1>2. CASE Skip(x)
  <2>1. a.steps # << >> /\ ~Does(a, "list") /\ ~Does(a, "apply") /\ ~Does(a, "sync")
    BY <1>2 DEF Skip, Skips, Does
  <2>2. Step(x, a) /\ UNCHANGED <<task, thread, loose, stray>> BY <1>2 DEF Skip
  <2>3. QED BY <1>1, <2>1, <2>2, StepThreads
<1>3. CASE SyncDone(x)
  <2>1. a.steps # << >> /\ ~Does(a, "list") /\ ~Does(a, "apply") /\ a.todo = {}
    BY <1>3 DEF SyncDone, At, Does
  <2>2. Step(x, a) /\ UNCHANGED <<task, thread, loose, stray>> BY <1>3 DEF SyncDone
  <2>3. QED BY <1>1, <2>1, <2>2, StepThreads
<1>4. ASSUME ReadProjects(x) \/ Prune(x) \/ Setup(x) \/ Ensure(x) \/ EnsureOwn(x) \/ Untag(x) \/ MountHub(x)
      PROVE  a.steps # << >> /\ ~Does(a, "list") /\ ~Does(a, "apply") /\ ~Does(a, "sync")
  BY <1>4 DEF ReadProjects, Prune, Setup, Ensure, EnsureOwn, Untag, MountHub, At, Does
<1>5. CASE ReadProjects(x)
  <2>1. PICK b \in Handler : /\ Step(x, b) /\ b.op = a.op /\ b.steps = a.steps /\ b.name = a.name
                             /\ b.list = a.list /\ b.new = a.new
    BY <1>1, <1>5, ReadFacts
  <2>2. UNCHANGED <<task, thread, loose, stray>> BY <1>5 DEF ReadProjects
  <2>3. QED BY <1>4, <1>5, <2>1, <2>2, StepThreads
<1>6. CASE Prune(x)
  <2> DEFINE ps == ToEnsure(a)  b == [a EXCEPT !.todo = ps]
  <2>0. ps \in SUBSET (Projects \cup Tasks) BY <1>1 DEF ToEnsure, Handler
  <2> HIDE DEF ps
  <2>1. b \in Handler /\ b.op = a.op /\ b.steps = a.steps /\ b.name = a.name /\ b.list = a.list /\ b.new = a.new
    BY ZenonT(60), <1>1, <2>0, HandlerFields DEF Handler
  <2> USE DEF ps
  <2>2. Edit(x, Done(b), Pruned(x), Overtaken(x)) /\ Overtaken(x) \in BOOLEAN BY <1>6 DEF Prune, Overtaken
  <2> HIDE DEF b
  <2>3. QED BY <1>4, <1>6, <2>1, <2>2, EditThreads
<1>7. CASE Setup(x)
  <2>1. Edit(x, Done(a), With(f, Std), Full(f, Std)) /\ Full(f, Std) \in BOOLEAN BY <1>7 DEF Setup, Full
  <2>2. QED BY <1>1, <1>4, <1>7, <2>1, EditThreads
<1>8. CASE Ensure(x)
  <2>1. CASE Step(x, a) /\ UNCHANGED <<proj, task, forum, thread, stain, loose, stray, count>>
    BY <1>1, <1>4, <1>8, <2>1, StepThreads
  <2>2. CASE \E p \in ToEnsure(a) \cap a.todo :
               Edit(x, [a EXCEPT !.todo = @ \ {p}], With(f, p), Full(f, p) \/ Overtaken(x))
    <3>1. PICK p \in ToEnsure(a) : Edit(x, [a EXCEPT !.todo = @ \ {p}], With(f, p), Full(f, p) \/ Overtaken(x))
      BY <2>2
    <3> DEFINE b == [a EXCEPT !.todo = @ \ {p}]
    <3>2. a.todo \ {p} \in SUBSET (Projects \cup Tasks) BY <1>1 DEF Handler
    <3>3. b \in Handler /\ b.op = a.op /\ b.steps = a.steps /\ b.name = a.name /\ b.list = a.list /\ b.new = a.new
      BY ZenonT(60), <1>1, <3>2, HandlerFields DEF Handler
    <3>4. (Full(f, p) \/ Overtaken(x)) \in BOOLEAN OBVIOUS
    <3>5. Edit(x, b, With(f, p), Full(f, p) \/ Overtaken(x)) BY <3>1
    <3> HIDE DEF b
    <3>6. QED BY <1>4, <1>8, <3>3, <3>4, <3>5, EditThreads
  <2>3. QED BY <1>8, <2>1, <2>2 DEF Ensure
<1>9. CASE EnsureOwn(x)
  <2>1. PICK p \in a.name : Edit(x, Done(a), With(f, p), Full(f, p) \/ p \notin Live(f)) BY <1>9 DEF EnsureOwn
  <2>2. (Full(f, p) \/ p \notin Live(f)) \in BOOLEAN OBVIOUS
  <2>3. QED BY <1>1, <1>4, <1>9, <2>1, <2>2, EditThreads
<1>10. CASE Untag(x)
  <2>1. PICK p \in a.name : Edit(x, Done(a), forum[f].seen \ {p}, p \in Live(f)) BY <1>10 DEF Untag
  <2>2. (p \in Live(f)) \in BOOLEAN OBVIOUS
  <2>3. QED BY <1>1, <1>4, <1>10, <2>1, <2>2, EditThreads
<1>11. CASE MountHub(x)
  <2>1. UNCHANGED <<task, thread, loose, stray>> BY <1>11 DEF MountHub
  <2>2. Stained(x, Done(a), f, TRUE) \/ Step(x, a) BY <1>11 DEF MountHub
  <2>3. CASE Step(x, a) BY <1>1, <1>4, <1>11, <2>1, <2>3, StepThreads
  <2>4. CASE Stained(x, Done(a), f, TRUE) BY <1>1, <1>4, <1>11, <2>1, <2>4, StainedThreads
  <2>5. QED BY <2>2, <2>3, <2>4
<1>12. QED BY <1>2, <1>3, <1>5, <1>6, <1>7, <1>8, <1>9, <1>10, <1>11

\* A handler about to apply is not yet to write anything, rebuild included.
LEMMA Applying ==
  ASSUME PresenceTypes, Working, NEW x \in Actors, At(x, "apply")
  PROVE  /\ act[x] \in Handler /\ Scripted(act[x]) /\ act[x].steps # << >> /\ Does(act[x], "apply") /\ act[x].new = 0
         /\ ~Does(act[x], "sync") /\ \A t \in Tasks : ~Owes(act[x], t)
<1>1. act[x].steps # << >> /\ Head(act[x].steps) = "apply" BY DEF At
<1>2. act[x].new = 0 BY <1>1, NotMaking
<1>3. QED BY <1>1, <1>2 DEF PresenceTypes, Does, Owes, WillList

\* Whoever else was to write a thread still is, if the row is still open or closed.
LEMMA OthersOwe ==
  ASSUME NEW x \in Actors, \A y \in Actors \ {x} : Alike(act[y], act'[y]), NEW t \in Tasks,
         ~Owes(act[x], t), Closed(task'[t]) = Closed(task[t]), task'[t].thread = task[t].thread,
         UNCHANGED thread, KeptThread(t)
  PROVE  KeptThread(t)'
<1>1. CASE thread[task[t].thread].shut = Closed(task[t]) BY <1>1 DEF KeptThread, Closed
<1>2. CASE \E y \in Actors \ {x} : Owes(act[y], t)
  <2>1. PICK y \in Actors \ {x} : Owes(act[y], t) BY <1>2
  <2>2. (Owes(act[y], t))' = Owes(act[y], t) BY DEF Owes, WillList, Does, Alike, Closed
  <2>3. QED BY <2>1, <2>2 DEF KeptThread
<1>3. QED BY <1>1, <1>2 DEF KeptThread

LEMMA ProjectThreads ==
  ASSUME PresenceTypes, ThreadInv, NEW x \in Actors, ApplyProject(x)
  PROVE  ThreadInv'
<1> DEFINE a == act[x]
<1>1. PICK p \in a.name : Create(x, p) \/ SetArchived(x, p) \/ Unarchive(x, p)
  BY DEF ApplyProject
<1>2. UNCHANGED <<thread, stray>> /\ At(x, "apply") BY DEF ApplyProject
<1>3. /\ a \in Handler /\ Scripted(a) /\ a.steps # << >> /\ Does(a, "apply") /\ a.new = 0
      /\ (\A t \in Tasks : ~Owes(a, t)) /\ Working /\ Kept
  BY <1>2, Applying DEF ThreadInv
<1>4. /\ Done(a) \in Handler /\ Scripted(Done(a)) /\ Done(a) # Idle /\ SameBut(a, Done(a))
      /\ a.op = "archive" => Does(Done(a), "sync")
      /\ a.op \in {"archive_cmd", "restore", "unarchive_cmd"} => Does(Done(a), "list")
      /\ a.op \in {"create", "rebuild"} => ~HasList(Done(a))
      /\ a.op = "rebuild" => WillList(Done(a))
  BY <1>3, DoneFacts, Onward
<1>5. task \in [Tasks -> Row] /\ \A t \in Tasks : task[t].shelved \in BOOLEAN /\ task[t].done \in BOOLEAN
  BY DEF PresenceTypes, Row
<1>6. ASSUME NEW c, Alike(Done(a), c) PROVE Calm(a, c)
  <2>1. c.new = 0 /\ c.list = a.list /\ c.todo = a.todo /\ c.op = a.op BY <1>3, <1>4, <1>6 DEF Alike, SameBut
  <2>2. HasList(c) => HasList(Done(a)) BY <1>6, AlikeFacts
  <2>3. HasList(Done(a)) => a.todo \subseteq DOMAIN a.list
    <3>1. CASE a.op = "archive"
      <4>1. HasList(a) BY <1>3, <3>1 DEF HasList
      <4>2. QED BY <1>3, <4>1 DEF Working
    <3>2. CASE a.op \in {"create", "rebuild"} BY <1>4, <3>2
    <3>3. CASE a.op \in {"archive_cmd", "restore", "unarchive_cmd"}
      BY <1>4, <3>3 DEF HasList, Does, SameBut
    <3>4. a.op \in {"archive", "create", "rebuild", "archive_cmd", "restore", "unarchive_cmd"}
      BY <1>1 DEF Create, SetArchived, Unarchive
    <3>5. QED BY <3>1, <3>2, <3>3, <3>4
  <2>4. QED BY <1>3, <2>1, <2>2, <2>3 DEF Calm, Pending
<1>7. CASE Create(x, p)
  <2>1. UNCHANGED <<task, loose>> BY <1>7 DEF Create
  <2>2. \A y \in Actors \ {x} : Alike(act[y], act'[y])
    BY <1>7 DEF Create, Step, Alike, PresenceTypes
  <2>3. act'[x] = Idle \/ act'[x] = Done(a) BY <1>7 DEF Create, Step, PresenceTypes
  <2>4. Calm(a, act'[x]) BY <1>3, <1>6, <2>3, IdleFacts DEF Calm, Pending, Alike
  <2>5. QED BY <1>2, <1>3, <2>1, <2>2, <2>4, QuietStep
<1>8. CASE SetArchived(x, p)
  <2> DEFINE b == a.op \in {"archive", "archive_cmd"}
  <2>1. /\ task' = Shelve(p, b) /\ b \in BOOLEAN /\ a.op \in {"archive", "archive_cmd", "restore", "unarchive_cmd"}
        /\ Stained(x, Done(a), proj[p].forum, proj[p].forum # a.forum)
    BY <1>8 DEF SetArchived
  <2>2. Alike(Done(a), act'[x]) /\ \A y \in Actors \ {x} : Alike(act[y], act'[y])
    BY <1>4, <2>1, StainedFacts
  <2>3. \A t \in Tasks : loose'[t] = (loose[t] \/ (a.op = "archive" /\ Owner[t] = p /\ t \notin a.todo /\ ~task[t].shelved))
    BY <1>8 DEF SetArchived
  <2>4. \A t \in Tasks : task'[t].thread = task[t].thread /\ task'[t].done = task[t].done
            /\ task'[t].shelved = IF Owner[t] = p THEN b ELSE task[t].shelved
    BY <1>5, <2>1 DEF Shelve, Row
  <2>5. \A y \in Actors : Calm(act[y], act'[y])
    <3>1. Calm(a, act'[x]) BY <1>6, <2>2
    <3>2. QED BY <2>2, <3>1 DEF Calm
  <2>6. ASSUME NEW t \in Tasks, ~loose'[t] PROVE KeptThread(t)'
    <3>1. KeptThread(t) BY <1>3, <2>3, <2>6 DEF Kept, KeptThread
    <3>2. CASE Closed(task'[t]) = Closed(task[t])
      BY <1>2, <1>3, <2>2, <2>4, <3>1, <3>2, OthersOwe
    <3>3. CASE Closed(task'[t]) # Closed(task[t])
      <4>1. Owner[t] = p BY <2>4, <3>3 DEF Closed
      <4>2. act'[x].op = a.op /\ act'[x].name = a.name /\ act'[x].new = 0 /\ act'[x].todo = a.todo
        BY <1>3, <1>4, <2>2 DEF Alike, SameBut
      <4>3. CASE a.op = "archive"
        <5>1. t \in a.todo BY <1>5, <2>3, <2>4, <2>6, <3>3, <4>1, <4>3 DEF Closed
        <5>2. Does(act'[x], "sync") BY <1>4, <2>2, <4>3, AlikeFacts
        <5>3. Owes(act[x], t)' BY <4>2, <5>1, <5>2 DEF Owes, Does
        <5>4. QED BY <5>3 DEF KeptThread
      <4>4. CASE a.op \in {"archive_cmd", "restore", "unarchive_cmd"}
        <5>1. Does(act'[x], "list") BY <1>4, <2>2, <4>4, AlikeFacts
        <5>2. a.op = "restore" => ~Closed(task'[t]) BY <1>5, <2>4, <3>3, <4>1 DEF Closed
        <5>3. Owes(act[x], t)' BY <1>1, <4>1, <4>2, <4>4, <5>1, <5>2 DEF Owes, Does, WillList, Closed
        <5>4. QED BY <5>3 DEF KeptThread
      <4>5. QED BY <2>1, <4>3, <4>4
    <3>4. QED BY <3>2, <3>3
  <2>7. QED BY <1>2, <2>3, <2>4, <2>5, <2>6, CalmStep
<1>9. CASE Unarchive(x, p)
  <2>1. act'[x] = Done(a) /\ (\A y \in Actors \ {x} : Alike(act[y], act'[y])) /\ UNCHANGED loose /\ a.op = "rebuild"
    BY <1>9 DEF Unarchive, Step, Alike, PresenceTypes
  <2>2. task' = task \/ task' = Shelve(p, FALSE) BY <1>9 DEF Unarchive
  <2>3. \A t \in Tasks : task'[t].thread = task[t].thread /\ (Owner[t] # p => task'[t] = task[t])
    BY <1>5, <2>2 DEF Shelve, Row
  <2>4. \A y \in Actors : Calm(act[y], act'[y])
    <3>1. Calm(a, act'[x]) BY <1>6, <2>1 DEF Alike
    <3>2. QED BY <2>1, <3>1 DEF Calm
  <2>5. ASSUME NEW t \in Tasks, ~loose'[t] PROVE KeptThread(t)'
    <3>1. CASE Owner[t] = p
      <4>1. WillList(act'[x]) /\ p \in act'[x].name /\ act'[x].op = "rebuild"
        BY <1>1, <1>4, <2>1 DEF SameBut
      <4>2. Owes(act[x], t)' BY <3>1, <4>1 DEF Owes, WillList, Does
      <4>3. QED BY <4>2 DEF KeptThread
    <3>2. CASE Owner[t] # p
      <4>1. KeptThread(t) BY <1>3, <2>1, <2>5 DEF Kept, KeptThread
      <4>2. Closed(task'[t]) = Closed(task[t]) BY <2>3, <3>2
      <4>3. QED BY <1>2, <1>3, <2>1, <2>3, <4>1, <4>2, OthersOwe
    <3>3. QED BY <3>1, <3>2
  <2>6. QED BY <1>2, <2>1, <2>3, <2>4, <2>5, CalmStep
<1>10. QED BY <1>1, <1>7, <1>8, <1>9

LEMMA TaskThreads ==
  ASSUME PresenceTypes, ThreadInv, NEW x \in Actors, ApplyTask(x)
  PROVE  ThreadInv'
<1> DEFINE a == act[x]
<1>1. UNCHANGED <<thread, loose, stray>> /\ At(x, "apply") /\ a.op = "task" BY DEF ApplyTask
<1>2. /\ a \in Handler /\ Scripted(a) /\ a.steps # << >> /\ Does(a, "apply") /\ a.new = 0
      /\ (\A t \in Tasks : ~Owes(a, t)) /\ Working /\ Kept
  BY <1>1, Applying DEF ThreadInv
<1>3. PICK t \in a.name : /\ task' = [task EXCEPT ![t].done = ~@]
                          /\ Step(x, [a EXCEPT !.list = [s \in {t} |-> task'[t]], !.todo = {t}])
  BY DEF ApplyTask
<1>4. t \in Tasks BY <1>1, <1>2 DEF Scripted, InHand
<1>5. task \in [Tasks -> Row] /\ task' \in [Tasks -> Row] BY <1>3 DEF PresenceTypes, Row
<1> DEFINE l == [s \in {t} |-> task'[t]]
           c == [a EXCEPT !.list = l]
           b == [c EXCEPT !.todo = {t}]
<1>6. l \in Lists
  <2>1. l \in [{t} -> Row] /\ {t} \in SUBSET Tasks BY <1>4, <1>5
  <2>2. QED BY <2>1 DEF Lists
<1>7. Step(x, b) BY <1>3
<1>8. DOMAIN l = {t} /\ l[t].thread = task[t].thread BY <1>3, <1>4, <1>5 DEF Row
<1> HIDE DEF l
<1>9. c \in Handler /\ c.op = a.op /\ c.steps = a.steps /\ c.name = a.name /\ c.list = l /\ c.new = 0
  BY ZenonT(60), <1>2, <1>6, HandlerFields DEF Handler
<1> HIDE DEF c
<1>10. b \in Handler /\ b.op = a.op /\ b.steps = a.steps /\ b.name = a.name /\ b.list = l /\ b.new = 0 /\ b.todo = {t}
  BY ZenonT(60), <1>4, <1>9, HandlerFields DEF Handler
<1> HIDE DEF b
<1>11. act'[x] = Done(b) /\ (\A y \in Actors \ {x} : Alike(act[y], act'[y]))
  BY <1>7 DEF Step, Alike, PresenceTypes
<1>12. Scripted(b) /\ b.steps # << >> /\ Does(b, "apply") BY <1>2, <1>10 DEF Scripted, Does
<1>13. Does(act'[x], "sync") /\ SameBut(b, act'[x])
  BY <1>1, <1>10, <1>11, <1>12, DoneFacts, Onward
<1>14. \A y \in Actors : Calm(act[y], act'[y])
  <2>1. Calm(a, act'[x]) BY <1>2, <1>4, <1>8, <1>10, <1>13 DEF Calm, Pending, SameBut
  <2>2. QED BY <1>11, <2>1 DEF Calm
<1>15. \A s \in Tasks : task'[s].thread = task[s].thread /\ (s # t => task'[s] = task[s])
  BY <1>3, <1>5 DEF Row
<1>16. ASSUME NEW s \in Tasks, ~loose'[s] PROVE KeptThread(s)'
  <2>1. CASE s = t
    <3>1. (Owes(act[x], t))' BY <1>10, <1>13 DEF Owes, Does, SameBut
    <3>2. QED BY <2>1, <3>1 DEF KeptThread
  <2>2. CASE s # t
    <3>1. KeptThread(s) BY <1>1, <1>2, <1>16 DEF Kept, KeptThread
    <3>2. QED BY <1>1, <1>2, <1>11, <1>15, <2>2, <3>1, OthersOwe
  <2>3. QED BY <2>1, <2>2
<1>17. QED BY <1>1, <1>14, <1>15, <1>16, CalmStep

LEMMA ListThreads ==
  ASSUME PresenceTypes, ThreadInv, NEW x \in Actors, ListTasks(x)
  PROVE  ThreadInv'
<1> DEFINE a == act[x]
           ts == Listed(x)
           l == [t \in ts |-> task[t]]
           c == [a EXCEPT !.list = l]
           b == [c EXCEPT !.todo = ts]
<1>1. /\ UNCHANGED <<task, thread, stray>> /\ a.steps # << >> /\ Does(a, "list") /\ Step(x, b)
      /\ \A t \in Tasks : loose[t] \/ t \in Unseen(x) => loose'[t]
  BY DEF ListTasks, At, Does
<1>2. a \in Handler /\ Scripted(a) /\ Working /\ task \in [Tasks -> Row] BY DEF PresenceTypes, ThreadInv
<1>3. a.new = 0 BY <1>1, <1>2, NotMaking DEF Does
<1>4. ts \subseteq Tasks /\ ts \in SUBSET (Projects \cup Tasks) /\ DOMAIN l = ts /\ \A t \in ts : l[t] = task[t]
  BY DEF Listed, Treated, Newest, Asked
<1>5. l \in Lists
  <2>0. ts \in SUBSET Tasks BY <1>4
  <2> HIDE DEF ts
  <2>1. l \in [ts -> Row] BY <1>2, <2>0
  <2>2. QED BY <2>0, <2>1 DEF Lists
<1>6. \A t \in Tasks : Owes(a, t) /\ ~loose'[t] => t \in ts /\ a.op # "archive"
  BY <1>1, <1>2 DEF Owes, Does, WillList, Treated, Asked, Unseen, Closed
<1> HIDE DEF ts, l
<1>7. c \in Handler /\ c.op = a.op /\ c.steps = a.steps /\ c.name = a.name /\ c.list = l /\ c.new = 0
  BY ZenonT(60), <1>2, <1>3, <1>5, HandlerFields DEF Handler
<1> HIDE DEF c
<1>8. b \in Handler /\ b.op = a.op /\ b.steps = a.steps /\ b.name = a.name /\ b.list = l /\ b.new = 0 /\ b.todo = ts
  BY ZenonT(60), <1>4, <1>7, HandlerFields DEF Handler
<1> HIDE DEF b
<1>9. act'[x] = Done(b) /\ \A y \in Actors \ {x} : Alike(act[y], act'[y])
  BY <1>1 DEF Step, Alike, PresenceTypes
<1>10. Scripted(b) /\ b.steps # << >> /\ Does(b, "list") BY <1>1, <1>2, <1>8 DEF Scripted, Does
<1>11. Done(b) # Idle /\ Does(Done(b), IF a.op = "archive" THEN "apply" ELSE "sync")
  BY <1>8, <1>10, Onward
<1>12. SameBut(b, act'[x]) BY <1>8, <1>9, <1>10, <1>11, DoneFacts
<1>13. Calm(a, act'[x]) BY <1>3, <1>4, <1>8, <1>12 DEF Calm, Pending, SameBut
<1>14. ASSUME NEW t \in Tasks, ~loose'[t], Owes(a, t) PROVE Owes(act'[x], t)
  BY <1>6, <1>8, <1>9, <1>11, <1>12, <1>14 DEF Owes, SameBut
<1>15. QED BY <1>1, <1>9, <1>13, <1>14, QuietStep

LEMMA BindThreads ==
  ASSUME PresenceTypes, ThreadInv, NEW x \in Actors, Bind(x)
  PROVE  ThreadInv'
<1> DEFINE a == act[x]
<1>1. UNCHANGED <<task, thread, stray>> /\ a.steps # << >> /\ Head(a.steps) = "bind" BY DEF Bind, At
<1>2. a \in Handler /\ Scripted(a) /\ Working BY DEF PresenceTypes, ThreadInv
<1>3. a.new = 0 /\ ~Does(a, "list") /\ ~Does(a, "apply") /\ ~Does(a, "sync") BY <1>1, <1>2, NotMaking DEF Does
<1>4. \A f \in Place : LET b == [a EXCEPT !.forum = f] IN
          b \in Handler /\ b.op = a.op /\ b.steps = a.steps /\ b.name = a.name /\ b.list = a.list /\ b.new = a.new
  BY ZenonT(60), <1>2, HandlerFields DEF Handler
<1>5. CASE \E f \in Place : Step(x, [a EXCEPT !.forum = f]) /\ UNCHANGED loose
  <2>1. PICK f \in Place : Step(x, [a EXCEPT !.forum = f]) /\ UNCHANGED loose BY <1>5
  <2> DEFINE b == [a EXCEPT !.forum = f]
  <2>2. b \in Handler /\ b.op = a.op /\ b.steps = a.steps /\ b.name = a.name /\ b.list = a.list /\ b.new = a.new
    BY <1>4
  <2>3. Step(x, b) BY <2>1
  <2> HIDE DEF b
  <2>4. QED BY <1>1, <1>3, <2>1, <2>2, <2>3, StepThreads
<1>6. CASE \E p \in a.name : act' = [act EXCEPT ![x] = Idle] /\ loose' = [t \in Tasks |-> loose[t] \/ Owner[t] = p]
  <2>1. PICK p \in a.name : act' = [act EXCEPT ![x] = Idle] /\ loose' = [t \in Tasks |-> loose[t] \/ Owner[t] = p]
    BY <1>6
  <2>2. act'[x] = Idle /\ \A y \in Actors \ {x} : Alike(act[y], act'[y]) BY <2>1 DEF PresenceTypes, Alike
  <2>3. Calm(a, act'[x]) BY <1>3, <2>2, IdleFacts DEF Calm, Pending
  <2>4. ASSUME NEW t \in Tasks, ~loose'[t] PROVE ~Owes(a, t)
    <3>1. Owner[t] # p BY <2>1, <2>4
    <3>2. Owner[t] \notin a.name BY <1>2, <3>1 DEF Scripted, InHand
    <3>3. QED BY <1>3, <3>2 DEF Owes
  <2>5. \A t \in Tasks : loose[t] => loose'[t] BY <2>1
  <2>6. QED BY <1>1, <2>2, <2>3, <2>4, <2>5, QuietStep
<1>7. \A p \in a.name : (IF a.forum # NoForum THEN a.forum ELSE proj[p].forum) \in Place
  <2>1. a.op = "rebuild" BY <1>1, <1>2, Onward DEF Does
  <2>2. a.name \subseteq Projects BY <1>2, <2>1 DEF Scripted, InHand
  <2>3. QED BY <1>2, <2>2 DEF PresenceTypes, Project, Handler
<1>8. Forums \subseteq Place BY DEF Place
<1>9. QED BY Zenon, <1>5, <1>6, <1>7, <1>8 DEF Bind

\* Tasks whose threads a handler is not at.
LEMMA ElseKept ==
  ASSUME ThreadInv, NEW x \in Actors, \A y \in Actors \ {x} : act'[y] = act[y], NEW t \in Tasks,
         KeptThread(t), task'[t] = task[t], thread'[task[t].thread].shut = thread[task[t].thread].shut,
         Owes(act[x], t) => (Owes(act[x], t))'
  PROVE  KeptThread(t)'
<1>1. CASE thread[task[t].thread].shut = Closed(task[t]) BY <1>1 DEF KeptThread, Closed
<1>2. CASE \E y \in Actors : Owes(act[y], t)
  <2>1. PICK y \in Actors : Owes(act[y], t) BY <1>2
  <2>2. CASE y = x BY <2>1, <2>2 DEF KeptThread
  <2>3. CASE y # x
    <3>1. (Owes(act[y], t))' BY <2>1, <2>3 DEF Owes, WillList, Does, Closed
    <3>2. QED BY <3>1 DEF KeptThread
  <2>4. QED BY <2>2, <2>3
<1>3. QED BY <1>1, <1>2 DEF KeptThread

\* x is done with t, whose thread it may have written.
LEMMA FinishedThreads ==
  ASSUME PresenceTypes, ThreadInv, NEW x \in Actors, At(x, "sync"), NEW t \in act[x].todo,
         act' = [act EXCEPT ![x] = Finished(x, t)], SameThreads, UNCHANGED task, stray \subseteq stray',
         act[x].new = 0 \/ Task(act[x]) = t, Pending(act[x]) => t \in stray',
         \A i \in DOMAIN thread : i # act[x].list[t].thread => thread'[i] = thread[i],
         \A s \in Tasks \ {t} : loose'[s] = loose[s],
         ~loose'[t] => There(task[t].thread)' /\ KeptThread(t)',
         Pending(act[x]) => UNCHANGED thread
  PROVE  ThreadInv'
<1> DEFINE a == act[x]
<1>1. t \in Tasks /\ t \in DOMAIN a.list /\ Recorded /\ Working /\ Unrecorded /\ Kept
  BY ListedTasks DEF ThreadInv
<1>2. /\ act'[x].todo = a.todo \ {t} /\ act'[x].new = 0 /\ act'[x].op = a.op /\ act'[x].steps = a.steps
      /\ act'[x].name = a.name /\ act'[x].list = a.list /\ \A y \in Actors \ {x} : act'[y] = act[y]
  BY FinishedFacts DEF PresenceTypes
<1>3. Does(a, "sync") /\ ~WillList(a) BY DEF At, Does, WillList
<1>4. HasList(a) BY <1>3 DEF HasList
<1>5. Calm(a, act'[x]) BY <1>1, <1>2, <1>4 DEF Calm, Working, Pending
<1>6. \A y \in Actors : Calm(act[y], act'[y]) BY <1>2, <1>5 DEF Calm, Alike
<1>7. ASSUME NEW y \in Actors, Pending(act[y]) PROVE ~thread'[act[y].new].shut
  <2>1. /\ ~thread[act[y].new].shut /\ act[y].new \in DOMAIN thread
        /\ a.list[t].thread # act[y].new \/ Pending(act[x])
    BY <1>1, <1>7 DEF Unrecorded, Working, Pending
  <2>2. QED BY <1>1, <1>7, <2>1 DEF Unrecorded
<1>8. ASSUME NEW s \in Tasks, ~loose'[s] PROVE There(task[s].thread)' /\ KeptThread(s)'
  <2>1. CASE s = t BY <1>8, <2>1
  <2>2. CASE s # t
    <3>1. There(task[s].thread) /\ KeptThread(s) BY <1>1, <1>8, <2>2 DEF Kept, KeptThread
    <3>2. task[s].thread \in DOMAIN thread /\ task[s].thread # a.list[t].thread
      BY <1>1, <2>2 DEF Recorded, HoldsThread
    <3>3. thread'[task[s].thread] = thread[task[s].thread] BY <3>2
    <3>4. There(task[s].thread)' BY <3>1, <3>3 DEF There, SameThreads
    <3>5. Owes(a, s) => (Owes(act[x], s))'
      BY <1>2, <1>3, <2>2 DEF Owes, Does
    <3>6. KeptThread(s)' BY <1>2, <3>1, <3>3, <3>5, ElseKept
    <3>7. QED BY <3>4, <3>6
  <2>3. QED BY <2>1, <2>2
<1>9. \A s \in Tasks : task'[s].thread = task[s].thread OBVIOUS
<1>10. QED BY <1>6, <1>7, <1>8, <1>9, SteadyStep

LEMMA ThreadAt ==
  ASSUME thread \in Seq(Thread), NEW i \in DOMAIN thread
  PROVE  thread[i] \in Thread /\ thread[i].shut \in BOOLEAN /\ thread[i].here \in BOOLEAN /\ thread[i].of \in Tasks
<1>1. thread[i] \in Thread OBVIOUS
<1>2. QED BY <1>1 DEF Thread

LEMMA Shutting ==
  ASSUME thread \in Seq(Thread), NEW i \in DOMAIN thread, NEW b, thread' = [thread EXCEPT ![i].shut = b]
  PROVE  /\ SameThreads /\ thread'[i].shut = b /\ \A j \in DOMAIN thread : thread'[j].here = thread[j].here
         /\ \A j \in DOMAIN thread : j # i => thread'[j] = thread[j]
<1>1. DOMAIN thread' = DOMAIN thread /\ thread'[i] = [thread[i] EXCEPT !.shut = b]
      /\ \A j \in DOMAIN thread : j # i => thread'[j] = thread[j]
  OBVIOUS
<1>2. thread'[i].of = thread[i].of /\ thread'[i].here = thread[i].here /\ thread'[i].shut = b
  <2>1. thread[i] \in Thread BY ThreadAt
  <2>2. QED BY <1>1, <2>1 DEF Thread
<1>3. QED BY <1>1, <1>2 DEF SameThreads

LEMMA SyncThreads ==
  ASSUME PresenceTypes, ThreadInv, NEW x \in Actors, At(x, "sync"), NEW t \in act[x].todo,
         SyncThread(x, t) \/ MakeFails(x, t) \/ SettleThread(x, t)
  PROVE  ThreadInv'
<1> DEFINE a == act[x]  r == a.list[t]
<1>1. t \in Tasks /\ t \in DOMAIN a.list /\ Recorded /\ Working /\ Unrecorded /\ Kept
  BY ListedTasks DEF ThreadInv
<1>2. r.thread \in DOMAIN thread /\ thread[r.thread].of = t BY <1>1 DEF Recorded, HoldsThread
<1>3. thread \in Seq(Thread) /\ loose \in [Tasks -> BOOLEAN] BY DEF PresenceTypes
<1>4. act' = [act EXCEPT ![x] = Finished(x, t)] /\ UNCHANGED <<task, stray>>
  BY DEF SyncThread, Written, MakeFails, SettleThread
<1>5. \A s \in Tasks \ {t} : loose'[s] = loose[s]
  BY <1>3 DEF SyncThread, Written, MakeFails, SettleThread
<1>6. thread' = thread \/ \E b : thread' = [thread EXCEPT ![r.thread].shut = b]
  BY DEF SyncThread, Written, MakeFails, SettleThread
<1>7. /\ SameThreads /\ \A i \in DOMAIN thread : i # r.thread => thread'[i] = thread[i]
      /\ \A i \in DOMAIN thread : thread'[i].here = thread[i].here
  BY <1>2, <1>3, <1>6, Shutting DEF SameThreads
<1>8. /\ a.new = 0 \/ (Task(a) = t /\ r.thread = a.new)
      /\ ~Pending(a)
  <2>1. CASE SyncThread(x, t) \/ MakeFails(x, t) BY <2>1 DEF SyncThread, MakeFails, Pending
  <2>2. CASE SettleThread(x, t) BY <2>2 DEF SettleThread, Made, Pending, Task
  <2>3. QED BY <2>1, <2>2
<1>9. There(task[t].thread) => There(task[t].thread)'
  BY <1>4, <1>7 DEF There, SameThreads
<1>10. ~loose[t] => There(task[t].thread) /\ KeptThread(t) BY <1>1 DEF Kept, KeptThread
<1>11. ASSUME ~loose'[t] PROVE There(task[t].thread)' /\ KeptThread(t)'
  <2>1. CASE SyncThread(x, t)
    <3>1. CASE ~Missing(r) /\ Written(x, t, r)
      <4>1. r.thread = task[t].thread /\ Closed(r) = Closed(task[t]) BY <1>1, <1>3, <1>11, <3>1 DEF Written, Closed
      <4>2. thread'[r.thread].shut = Closed(r) BY <1>2, <1>3, <3>1, Shutting DEF Written
      <4>3. There(task[t].thread)' BY <1>9, <3>1, <4>1 DEF Missing
      <4>4. KeptThread(t)' BY <1>4, <4>1, <4>2 DEF KeptThread, Closed
      <4>5. QED BY <4>3, <4>4
    <3>2. CASE loose' = [loose EXCEPT ![t] = TRUE] BY <1>1, <1>3, <1>11, <3>2
    <3>3. CASE Missing(r) /\ loose' = [loose EXCEPT ![t] = @ \/ r.thread # task[t].thread]
      <4>1. ~loose[t] /\ r.thread = task[t].thread BY <1>1, <1>3, <1>11, <3>3
      <4>2. QED BY <1>10, <3>3, <4>1 DEF Missing
    <3>4. QED BY <2>1, <3>1, <3>2, <3>3 DEF SyncThread
  <2>2. CASE MakeFails(x, t) BY <1>1, <1>3, <1>11, <2>2 DEF MakeFails
  <2>3. CASE SettleThread(x, t)
    <3>1. Task(a) = t /\ r.thread = a.new /\ a.new # 0 BY <2>3 DEF SettleThread, Made, Task
    <3>2. CASE loose' = [loose EXCEPT ![t] = TRUE] BY <1>1, <1>3, <1>11, <3>2
    <3>3. CASE /\ thread' = [thread EXCEPT ![r.thread].shut = @ \/ ShutNow(r)]
               /\ loose' = [loose EXCEPT ![t] = @ \/ (ShutNow(r) /\ ~Closed(task[t]))]
      <4>1. ~loose[t] /\ (Closed(r) => Closed(task[t])) BY <1>1, <1>3, <1>11, <3>3 DEF ShutNow, Closed
      <4>2. There(task[t].thread)' BY <1>9, <1>10, <4>1
      <4>3. CASE Closed(r) /\ task[t].thread = a.new
        <5>1. thread'[a.new].shut = TRUE BY <1>2, <1>3, <3>1, <3>3, <4>3, Shutting DEF ShutNow
        <5>2. Closed(task[t]) = TRUE BY <4>1, <4>3 DEF Closed
        <5>3. QED BY <1>4, <4>2, <4>3, <5>1, <5>2 DEF KeptThread, Closed
      <4>4. CASE ~(Closed(r) /\ task[t].thread = a.new)
        <5>1. ~Owes(a, t) BY <3>1, <4>4 DEF Owes, WillList, Does, At
        <5>2. thread'[task[t].thread].shut = thread[task[t].thread].shut
          <6>1. CASE task[t].thread # r.thread BY <1>1, <1>7, <6>1 DEF Recorded, HoldsThread
          <6>2. CASE task[t].thread = r.thread
            <7>1. ~ShutNow(r) BY <3>1, <4>4, <6>2 DEF ShutNow
            <7>2. thread[r.thread].shut \in BOOLEAN BY <1>2, <1>3, ThreadAt
            <7> DEFINE b == thread[r.thread].shut \/ ShutNow(r)
            <7>5. thread' = [thread EXCEPT ![r.thread].shut = b] BY <3>3
            <7> HIDE DEF b
            <7>6. thread'[r.thread].shut = b BY <1>2, <1>3, <7>5, Shutting
            <7>3. thread'[r.thread].shut = (thread[r.thread].shut \/ ShutNow(r)) BY <7>6 DEF b
            <7>4. QED BY <6>2, <7>1, <7>2, <7>3
          <6>3. QED BY <6>1, <6>2
        <5>3. \A y \in Actors \ {x} : act'[y] = act[y] BY <1>4 DEF PresenceTypes
        <5>4. KeptThread(t)' BY <1>1, <1>4, <1>10, <4>1, <5>1, <5>2, <5>3, ElseKept
        <5>5. QED BY <4>2, <5>4
      <4>5. QED BY <4>3, <4>4
    <3>4. QED BY <2>3, <3>2, <3>3 DEF SettleThread
  <2>4. QED BY <2>1, <2>2, <2>3
<1>12. QED BY <1>4, <1>5, <1>7, <1>8, <1>11, FinishedThreads

LEMMA MakeThreads ==
  ASSUME PresenceTypes, ThreadInv, NEW x \in Actors, At(x, "sync"), NEW t \in act[x].todo, MakeThread(x, t)
  PROVE  ThreadInv'
<1>h. PICK home : home = Home(x, t) OBVIOUS
<1> DEFINE a == act[x]  r == a.list[t]  n == Len(thread) + 1
<1>1. t \in Tasks /\ t \in DOMAIN a.list /\ Recorded /\ Working /\ Unrecorded /\ Kept /\ Single
  BY ListedTasks DEF ThreadInv
<1>2. /\ a \in Handler /\ thread \in Seq(Thread) /\ act \in [Actors -> Handler] BY DEF PresenceTypes
<1>3. /\ thread' = Append(thread, [of |-> t, here |-> TRUE, shut |-> FALSE, on |-> home])
      /\ act' = [act EXCEPT ![x].new = Len(thread')] /\ UNCHANGED <<task, loose>> /\ a.new = 0 /\ a.op = "rebuild"
  BY <1>h DEF MakeThread
<1>4. /\ n \notin DOMAIN thread /\ n # 0 /\ DOMAIN thread' = DOMAIN thread \cup {n} /\ Len(thread') = n
      /\ (\A i \in DOMAIN thread : thread'[i] = thread[i])
      /\ thread'[n] = [of |-> t, here |-> TRUE, shut |-> FALSE, on |-> home]
  BY <1>2, <1>3
<1>5. thread'[n].of = t /\ thread'[n].here /\ ~thread'[n].shut BY <1>4
<1> HIDE DEF n
<1>6. /\ act'[x].new = n /\ act'[x].op = a.op /\ act'[x].steps = a.steps /\ act'[x].name = a.name
      /\ act'[x].todo = a.todo /\ act'[x].list = a.list /\ \A y \in Actors \ {x} : act'[y] = act[y]
  BY <1>2, <1>3, <1>4 DEF Handler
<1>7. Does(a, "sync") /\ HasList(a) /\ ~WillList(a) BY DEF At, Does, HasList, WillList
<1>8. /\ \A s \in Tasks : task[s].thread \in DOMAIN thread /\ task[s].thread # n
      /\ \A y \in Actors : \A s \in DOMAIN act[y].list :
            act[y].list[s].thread \in DOMAIN thread /\ act[y].list[s].thread # n /\ thread[act[y].list[s].thread].of = s
      /\ \A y \in Actors : act[y].new # 0 => act[y].new \in DOMAIN thread /\ act[y].new # n
  BY <1>1, <1>4 DEF Recorded, HoldsThread, Working
<1>9. \A y \in Actors : act'[y].list = act[y].list BY <1>6
<1>10. Recorded'
  <2>1. ASSUME NEW s \in Tasks PROVE HoldsThread(s, task[s])'
    <3>1. HoldsThread(s, task[s]) BY <1>1 DEF Recorded
    <3>2. QED BY <1>3, <1>4, <3>1 DEF HoldsThread
  <2>2. ASSUME NEW y \in Actors, NEW s \in DOMAIN act'[y].list PROVE HoldsThread(s, act[y].list[s])'
    <3>1. HoldsThread(s, act[y].list[s]) /\ act'[y].list = act[y].list BY <1>1, <1>9, <2>2 DEF Recorded
    <3>2. QED BY <1>4, <3>1 DEF HoldsThread
  <2>3. QED BY <2>1, <2>2 DEF Recorded
<1>11. Working'
  <2>1. ASSUME NEW y \in Actors
        PROVE  /\ (HasList(act[y]))' => act'[y].todo \subseteq DOMAIN act'[y].list
               /\ act'[y].new # 0 => /\ (Does(act[y], "sync"))' /\ act'[y].op = "rebuild"
                                     /\ act'[y].new \in DOMAIN thread' /\ thread'[act'[y].new].of \in act'[y].todo
    <3>1. CASE y = x BY <1>1, <1>3, <1>4, <1>5, <1>6, <1>7, <3>1 DEF Working, Does
    <3>2. CASE y # x
      <4>1. (HasList(act[y]))' = HasList(act[y]) /\ (Does(act[y], "sync"))' = Does(act[y], "sync")
        BY <1>6, <3>2 DEF HasList, Does
      <4>2. QED BY <1>1, <1>4, <1>6, <1>8, <3>2, <4>1 DEF Working
    <3>3. QED BY <3>1, <3>2
  <2>2. QED BY <2>1 DEF Working
<1>12. (Pending(act[x]))' /\ (Task(act[x]))' = t BY <1>1, <1>4, <1>5, <1>6, <1>8 DEF Pending, Task
<1>13. ASSUME NEW y \in Actors \ {x}
       PROVE  (Pending(act[y]))' = Pending(act[y]) /\ (Pending(act[y]) => (Task(act[y]))' = Task(act[y]))
  <2>1. act'[y] = act[y] BY <1>6
  <2>2. act[y].new # 0 => thread'[act[y].new] = thread[act[y].new] BY <1>4, <1>8
  <2>3. QED BY <2>1, <2>2 DEF Pending, Task
<1>14. ~Pending(a) BY <1>3 DEF Pending
<1>15. Unrecorded'
  <2>1. ASSUME NEW y \in Actors, (Pending(act[y]))'
        PROVE  /\ ~thread'[act'[y].new].shut
               /\ \A s \in Tasks : task'[s].thread # act'[y].new
               /\ \A z \in Actors : \A s \in DOMAIN act'[z].list : act'[z].list[s].thread # act'[y].new
               /\ \A z \in Actors \ {y} : act'[z].new # act'[y].new
    <3>1. CASE y = x BY <1>3, <1>4, <1>5, <1>6, <1>8, <1>9, <3>1
    <3>2. CASE y # x
      <4>1. Pending(act[y]) /\ act'[y].new = act[y].new /\ act[y].new # 0 BY <1>6, <1>13, <2>1, <3>2 DEF Pending
      <4>2. act[y].new \in DOMAIN thread BY <1>8, <4>1
      <4>3. QED BY <1>1, <1>3, <1>4, <1>6, <1>8, <1>9, <3>2, <4>1, <4>2 DEF Unrecorded
    <3>3. QED BY <3>1, <3>2
  <2>2. QED BY <2>1 DEF Unrecorded
<1>16. Kept'
  <2>1. ASSUME NEW s \in Tasks, ~loose'[s] PROVE There(task[s].thread)' /\ KeptThread(s)'
    <3>1. There(task[s].thread) /\ KeptThread(s) BY <1>1, <1>3, <2>1 DEF Kept, KeptThread
    <3>2. There(task[s].thread)' BY <1>3, <1>4, <1>8, <3>1 DEF There
    <3>3. Owes(a, s) => (Owes(act[x], s))'
      BY <1>1, <1>3, <1>6, <1>7, <1>8 DEF Owes, Does, Working
    <3>4. KeptThread(s)' BY <1>3, <1>4, <1>6, <1>8, <3>1, <3>3, ElseKept
    <3>5. QED BY <3>2, <3>4
  <2>2. QED BY <2>1 DEF Kept, KeptThread
<1>17. Single'
  <2>1. ASSUME NEW s \in Tasks \ stray' PROVE Alone(s)'
    <3>1. Alone(s) BY <1>1, <2>1 DEF Single, MakeThread
    <3>2. There(task[s].thread)' = There(task[s].thread) BY <1>3, <1>4, <1>8 DEF There
    <3>3. CASE s # t
      <4>1. ASSUME NEW i \in DOMAIN thread', thread'[i].here, thread'[i].of = s
            PROVE  i = task'[s].thread \/ \E y \in Actors : (Pending(act[y]))' /\ act'[y].new = i
        <5>1. i \in DOMAIN thread /\ thread[i].here /\ thread[i].of = s BY <1>4, <1>5, <3>3, <4>1
        <5>2. i = task[s].thread \/ \E y \in Actors : Pending(act[y]) /\ act[y].new = i BY <3>1, <5>1 DEF Alone
        <5>3. QED BY <1>3, <1>6, <1>13, <1>14, <5>2
      <4>2. \A y \in Actors : (Pending(act[y]))' /\ (Task(act[y]))' = s => Pending(act[y]) /\ Task(act[y]) = s /\ y # x
        BY <1>12, <1>13, <3>3
      <4>3. QED BY <3>1, <3>2, <4>1, <4>2 DEF Alone
    <3>4. CASE s = t
      <4>1. task[t].thread = r.thread /\ ~There(r.thread) /\ \A y \in Actors \ {x} : ~Made(y, t)
        BY <2>1, <3>4 DEF MakeThread
      <4>2. \A y \in Actors : Pending(act[y]) => Task(act[y]) # t
        BY <1>14, <4>1 DEF Pending, Task, Made
      <4>3. ASSUME NEW i \in DOMAIN thread', thread'[i].here, thread'[i].of = t PROVE i = n
        <5>1. CASE i \in DOMAIN thread
          <6>1. thread[i].here /\ thread[i].of = t BY <1>4, <4>3, <5>1
          <6>2. i = task[t].thread \/ \E y \in Actors : Pending(act[y]) /\ act[y].new = i
            BY <3>1, <3>4, <5>1, <6>1 DEF Alone
          <6>3. ~(i = task[t].thread) BY <4>1, <5>1, <6>1 DEF There
          <6>4. QED BY <4>2, <6>1, <6>2, <6>3 DEF Task
        <5>2. QED BY <1>4, <5>1
      <4>4. \A y \in Actors : (Pending(act[y]))' /\ (Task(act[y]))' = t => y = x BY <1>13, <4>2
      <4>5. ~There(task[t].thread)' BY <3>2, <3>4, <4>1
      <4>6. QED BY <1>6, <1>12, <3>4, <4>3, <4>4, <4>5 DEF Alone
    <3>5. QED BY <3>3, <3>4
  <2>2. QED BY <2>1 DEF Single
<1>18. QED BY <1>10, <1>11, <1>15, <1>16, <1>17 DEF ThreadInv

\* The record takes the place of an unrecorded thread, of which no other row knows.
LEMMA RecordThreads ==
  ASSUME PresenceTypes, ThreadInv, NEW x \in Actors, At(x, "sync"), NEW t \in act[x].todo, RecordThread(x, t)
  PROVE  ThreadInv'
<1> DEFINE a == act[x]  r == a.list[t]  n == a.new
<1>1. t \in Tasks /\ t \in DOMAIN a.list /\ Recorded /\ Working /\ Unrecorded /\ Kept /\ Single
  BY ListedTasks DEF ThreadInv
<1>2. /\ a \in Handler /\ thread \in Seq(Thread) /\ act \in [Actors -> Handler] /\ task \in [Tasks -> Row]
      /\ loose \in [Tasks -> BOOLEAN]
  BY DEF PresenceTypes
<1>3. n # 0 /\ thread[n].of = t /\ r.thread # n /\ UNCHANGED thread /\ n \in DOMAIN thread
  BY <1>1 DEF RecordThread, Made, Working
<1>4. Pending(a) /\ Task(a) = t BY <1>3 DEF Pending, Task
<1>5. Does(a, "sync") /\ HasList(a) /\ ~WillList(a) BY DEF At, Does, HasList, WillList
<1>6. CASE /\ act' = [act EXCEPT ![x] = Finished(x, t)] /\ stray' = stray \cup {t}
           /\ loose' = [loose EXCEPT ![t] = TRUE] /\ UNCHANGED task
  <2>1. SameThreads BY <1>3 DEF SameThreads
  <2>2. loose'[t] /\ \A s \in Tasks \ {t} : loose'[s] = loose[s] BY <1>1, <1>2, <1>6
  <2>3. t \in stray' /\ stray \subseteq stray' BY <1>6
  <2>4. \A i \in DOMAIN thread : i # r.thread => thread'[i] = thread[i] BY <1>3
  <2>5. QED BY <1>3, <1>4, <1>6, <2>1, <2>2, <2>3, <2>4, FinishedThreads
<1>7. CASE /\ task' = [task EXCEPT ![t].thread = n] /\ act' = [act EXCEPT ![x].list[t] = task'[t]]
           /\ loose' = [loose EXCEPT ![t] = ~There(n)] /\ UNCHANGED stray
  <2>1. /\ task'[t] = [task[t] EXCEPT !.thread = n] /\ \A s \in Tasks : s # t => task'[s] = task[s]
    BY <1>1, <1>2, <1>7
  <2>2. task'[t].thread = n /\ Closed(task'[t]) = Closed(task[t]) /\ Closed(task'[t]) \in BOOLEAN
    <3>1. task[t] \in Row BY <1>1, <1>2
    <3>2. QED BY <2>1, <3>1 DEF Row, Closed
  <2>3. act' = [act EXCEPT ![x] = [a EXCEPT !.list = [a.list EXCEPT ![t] = task'[t]]]] BY <1>7
  <2> DEFINE l == [a.list EXCEPT ![t] = task'[t]]
  <2>4. DOMAIN l = DOMAIN a.list /\ l[t] = task'[t] /\ \A s \in DOMAIN a.list : s # t => l[s] = a.list[s]
    BY <1>1
  <2> HIDE DEF l
  <2>5. /\ act'[x].new = n /\ act'[x].op = a.op /\ act'[x].steps = a.steps /\ act'[x].name = a.name
        /\ act'[x].todo = a.todo /\ act'[x].list = l /\ \A y \in Actors \ {x} : act'[y] = act[y]
    BY <1>2, <2>3 DEF l, Handler
  <2>6. ASSUME NEW y \in Actors, NEW s \in DOMAIN act'[y].list
        PROVE  \/ s \in DOMAIN act[y].list /\ act'[y].list[s] = act[y].list[s]
               \/ y = x /\ s = t /\ act'[y].list[s].thread = n
    BY <2>2, <2>4, <2>5, <2>6
  <2>7. Recorded'
    <3>1. ASSUME NEW s \in Tasks PROVE HoldsThread(s, task[s])'
      <4>1. CASE s = t BY <1>3, <2>2, <4>1 DEF HoldsThread
      <4>2. CASE s # t BY <1>1, <1>3, <2>1, <4>2 DEF Recorded, HoldsThread
      <4>3. QED BY <4>1, <4>2
    <3>2. ASSUME NEW y \in Actors, NEW s \in DOMAIN act'[y].list PROVE HoldsThread(s, act[y].list[s])'
      <4>1. CASE s \in DOMAIN act[y].list /\ act'[y].list[s] = act[y].list[s]
        BY <1>1, <1>3, <4>1 DEF Recorded, HoldsThread
      <4>2. CASE s = t /\ act'[y].list[s].thread = n BY <1>3, <4>2 DEF HoldsThread
      <4>3. QED BY <2>6, <4>1, <4>2
    <3>3. QED BY <3>1, <3>2 DEF Recorded
  <2>8. Working'
    <3>1. ASSUME NEW y \in Actors
          PROVE  /\ (HasList(act[y]))' => act'[y].todo \subseteq DOMAIN act'[y].list
                 /\ act'[y].new # 0 => /\ (Does(act[y], "sync"))' /\ act'[y].op = "rebuild"
                                       /\ act'[y].new \in DOMAIN thread' /\ thread'[act'[y].new].of \in act'[y].todo
      <4>1. CASE y = x BY <1>1, <1>3, <1>5, <2>4, <2>5, <4>1 DEF Working, Does
      <4>2. CASE y # x
        <5>1. (HasList(act[y]))' = HasList(act[y]) /\ (Does(act[y], "sync"))' = Does(act[y], "sync")
          BY <2>5, <4>2 DEF HasList, Does
        <5>2. QED BY <1>1, <1>3, <2>5, <4>2, <5>1 DEF Working
      <4>3. QED BY <4>1, <4>2
    <3>2. QED BY <3>1 DEF Working
  <2>9. ~(Pending(act[x]))' BY <1>3, <2>2, <2>4, <2>5 DEF Pending, Task
  <2>11. \A y \in Actors : (Pending(act[y]))' =>
            y # x /\ Pending(act[y]) /\ (Task(act[y]))' = Task(act[y]) /\ act'[y].new = act[y].new /\ act[y].new # n
    <3>1. \A y \in Actors \ {x} : (Pending(act[y]))' = Pending(act[y]) /\ (Task(act[y]))' = Task(act[y])
      BY <1>3, <2>5 DEF Pending, Task
    <3>2. \A y \in Actors \ {x} : act'[y].new = act[y].new /\ act[y].new # n BY <1>1, <1>4, <2>5 DEF Unrecorded
    <3>3. QED BY <2>9, <3>1, <3>2
  <2>12. Unrecorded'
    <3>1. ASSUME NEW y \in Actors, (Pending(act[y]))'
          PROVE  /\ ~thread'[act'[y].new].shut
                 /\ \A s \in Tasks : task'[s].thread # act'[y].new
                 /\ \A z \in Actors : \A s \in DOMAIN act'[z].list : act'[z].list[s].thread # act'[y].new
                 /\ \A z \in Actors \ {y} : act'[z].new # act'[y].new
      <4>1. y # x /\ Pending(act[y]) /\ act'[y].new = act[y].new /\ act[y].new # n BY <2>11, <3>1
      <4>2. \A z \in Actors : act'[z].new = act[z].new BY <2>5
      <4>3. \A s \in Tasks : task'[s].thread # act[y].new BY ZenonT(60), <1>1, <2>1, <2>2, <4>1 DEF Unrecorded
      <4>4. \A z \in Actors : \A s \in DOMAIN act'[z].list : act'[z].list[s].thread # act[y].new
        <5>1. ASSUME NEW z \in Actors, NEW s \in DOMAIN act'[z].list PROVE act'[z].list[s].thread # act[y].new
          BY <1>1, <2>6, <4>1 DEF Unrecorded
        <5>2. QED BY <5>1
      <4>5. QED BY <1>1, <1>3, <4>1, <4>2, <4>3, <4>4 DEF Unrecorded
    <3>2. QED BY <3>1 DEF Unrecorded
  <2>13. Kept'
    <3>1. ASSUME NEW s \in Tasks, ~loose'[s] PROVE There(task[s].thread)' /\ KeptThread(s)'
      <4>1. CASE s = t
        <5>1. There(n) BY <1>1, <1>2, <1>7, <3>1, <4>1
        <5>2. There(task[s].thread)' BY <1>3, <2>2, <4>1, <5>1 DEF There
        <5>3. ~thread'[n].shut /\ thread'[n].shut \in BOOLEAN BY <1>1, <1>2, <1>3, <1>4, ThreadAt DEF Unrecorded
        <5>4. Closed(task'[t]) => (Owes(act[x], t))'
          BY <1>5, <2>2, <2>4, <2>5 DEF Owes, Does, Closed
        <5>5. KeptThread(t)' BY <2>2, <5>3, <5>4 DEF KeptThread, Closed
        <5>6. QED BY <4>1, <5>2, <5>5
      <4>2. CASE s # t
        <5>1. There(task[s].thread) /\ KeptThread(s) BY <1>1, <1>2, <1>7, <3>1, <4>2 DEF Kept, KeptThread
        <5>2. There(task[s].thread)' BY <1>3, <2>1, <4>2, <5>1 DEF There
        <5>3. Owes(a, s) => (Owes(act[x], s))'
          <6>1. ASSUME s \in a.todo PROVE s \in DOMAIN a.list /\ a.list[s].thread # n
            BY <1>1, <1>4, <1>5, <6>1 DEF Working, Unrecorded
          <6>2. s \in a.todo => l[s].thread # n BY <2>4, <4>2, <6>1
          <6>3. Owes(a, s) => s \in a.todo BY <1>5 DEF Owes
          <6>4. QED BY <1>5, <2>5, <6>2, <6>3 DEF Owes, Does
        <5>4. KeptThread(s)' BY <1>3, <2>1, <2>5, <4>2, <5>1, <5>3, ElseKept
        <5>5. QED BY <5>2, <5>4
      <4>3. QED BY <4>1, <4>2
    <3>2. QED BY <3>1 DEF Kept, KeptThread
  <2>14. Single'
    <3>1. ASSUME NEW s \in Tasks \ stray' PROVE Alone(s)'
      <4>1. Alone(s) BY <1>1, <1>7, <3>1 DEF Single
      <4>2. ASSUME NEW i \in DOMAIN thread', thread'[i].here, thread'[i].of = s
            PROVE  i = task'[s].thread \/ \E y \in Actors : (Pending(act[y]))' /\ act'[y].new = i
        <5>1. i \in DOMAIN thread /\ thread[i].here /\ thread[i].of = s BY <1>3, <4>2
        <5>2. i = task[s].thread \/ \E y \in Actors : Pending(act[y]) /\ act[y].new = i BY <4>1, <5>1 DEF Alone
        <5>3. CASE s = t
          <6>1. i # task[t].thread BY <1>4, <4>1, <5>1, <5>3 DEF Alone, There
          <6>2. ASSUME NEW y \in Actors, Pending(act[y]), act[y].new = i PROVE i = n
            <7>1. Task(act[y]) = t BY <5>1, <5>3, <6>2 DEF Task
            <7>2. y = x BY <1>4, <4>1, <5>3, <6>2, <7>1 DEF Alone
            <7>3. QED BY <6>2, <7>2
          <6>3. i = n BY <5>2, <5>3, <6>1, <6>2
          <6>4. QED BY <2>2, <5>3, <6>3
        <5>4. CASE s # t
          <6>1. i # n BY <1>3, <5>1, <5>4
          <6>2. ASSUME NEW y \in Actors, Pending(act[y]), act[y].new = i PROVE (Pending(act[y]))' /\ act'[y].new = i
            BY <1>3, <2>5, <6>1, <6>2 DEF Pending, Task
          <6>3. QED BY <2>1, <5>2, <5>4, <6>2
        <5>5. QED BY <5>3, <5>4
      <4>3. ASSUME NEW y \in Actors, (Pending(act[y]))', (Task(act[y]))' = s
            PROVE  /\ ~There(task[s].thread)'
                   /\ \A z \in Actors : (Pending(act[z]))' /\ (Task(act[z]))' = s => y = z
        <5>1. y # x /\ Pending(act[y]) /\ Task(act[y]) = s BY <2>11, <4>3
        <5>2. s # t BY <1>4, <4>1, <5>1 DEF Alone
        <5>3. ~There(task[s].thread)' BY <1>3, <2>1, <4>1, <5>1, <5>2 DEF Alone, There
        <5>4. QED BY <2>11, <4>1, <5>1, <5>3 DEF Alone
      <4>4. QED BY <4>2, <4>3 DEF Alone
    <3>2. QED BY <3>1 DEF Single
  <2>15. QED BY <2>7, <2>8, <2>12, <2>13, <2>14 DEF ThreadInv
<1>8. QED BY <1>6, <1>7 DEF RecordThread

LEMMA DiscordThreads ==
  ASSUME PresenceTypes, ThreadInv,
         \/ \E f \in Forums : Gateway(f) \/ DeleteForum(f)
         \/ (\E i \in DOMAIN thread : DeleteThread(i)) \/ Crash
  PROVE  ThreadInv'
<1>1. /\ thread \in Seq(Thread) /\ loose \in [Tasks -> BOOLEAN] /\ act \in [Actors -> Handler] BY DEF PresenceTypes
<1>2. Recorded /\ Working /\ Unrecorded /\ Kept BY DEF ThreadInv
<1>3. \A t \in Tasks : ~loose[t] => There(task[t].thread) /\ KeptThread(t) BY <1>2 DEF Kept, KeptThread
<1>4. ASSUME UNCHANGED act PROVE \A y \in Actors : Calm(act[y], act'[y]) BY <1>4 DEF Calm, Alike
<1>5. ASSUME UNCHANGED <<act, task, stray>>, SameThreads,
             \A i \in DOMAIN thread : thread'[i].shut = thread[i].shut,
             \A t \in Tasks : ~loose'[t] => ~loose[t] /\ (There(task[t].thread) => There(task[t].thread)')
      PROVE  ThreadInv'
  <2>1. \A y \in Actors : Pending(act[y]) => ~thread'[act[y].new].shut
    BY <1>2, <1>5 DEF Unrecorded, Working, Pending
  <2>2. ASSUME NEW t \in Tasks, ~loose'[t] PROVE There(task[t].thread)' /\ KeptThread(t)'
    <3>1. There(task[t].thread) /\ KeptThread(t) /\ There(task[t].thread)' BY <1>3, <1>5, <2>2
    <3>2. thread'[task[t].thread].shut = thread[task[t].thread].shut BY <1>5, <3>1 DEF There
    <3>3. \A y \in Actors : (Owes(act[y], t))' = Owes(act[y], t) BY <1>5 DEF Owes, WillList, Does, Closed
    <3>4. QED BY <1>5, <3>1, <3>2, <3>3 DEF KeptThread, Closed
  <2>3. stray \subseteq stray' /\ \A t \in Tasks : task'[t].thread = task[t].thread BY <1>5
  <2>4. \A y \in Actors : Calm(act[y], act'[y]) BY <1>4, <1>5
  <2>5. QED BY <1>5, <2>1, <2>2, <2>3, <2>4, SteadyStep
<1>6. ASSUME NEW f \in Forums, Gateway(f) PROVE ThreadInv'
  <2>1. UNCHANGED <<act, task, stray, thread, loose>> BY <1>6 DEF Gateway
  <2>2. SameThreads /\ \A t \in Tasks : There(task[t].thread) => There(task[t].thread)' BY <2>1 DEF SameThreads, There
  <2>3. QED BY <1>5, <2>1, <2>2
<1>7. ASSUME NEW f \in Forums, DeleteForum(f) PROVE ThreadInv'
  <2>1. UNCHANGED <<act, task, stray>> BY <1>7 DEF DeleteForum
  <2>2. DOMAIN thread' = DOMAIN thread BY <1>7 DEF DeleteForum
  <2>3. ASSUME NEW i \in DOMAIN thread
        PROVE  /\ thread'[i].of = thread[i].of /\ (thread'[i].here => thread[i].here) /\ thread'[i].shut = thread[i].shut
               /\ thread[i].on # f => thread'[i] = thread[i]
    <3>1. thread'[i] = IF thread[i].on = f THEN [thread[i] EXCEPT !.here = FALSE] ELSE thread[i]
      BY <1>7, <2>3 DEF DeleteForum
    <3>2. thread[i] \in Thread BY <1>1, <2>3, ThreadAt
    <3>3. QED BY <3>1, <3>2 DEF Thread
  <2>4. SameThreads BY <2>2, <2>3 DEF SameThreads
  <2>5. ASSUME NEW t \in Tasks, ~loose'[t] PROVE ~loose[t] /\ (There(task[t].thread) => There(task[t].thread)')
    <3>1. ~loose[t] /\ ~\E i \in DOMAIN thread : thread[i].on = f /\ thread[i].of = t
      BY <1>7, <2>5 DEF DeleteForum
    <3>2. ASSUME There(task[t].thread) PROVE There(task[t].thread)'
      <4>1. task[t].thread \in DOMAIN thread /\ thread[task[t].thread].of = t BY <1>2, <2>5 DEF Recorded, HoldsThread
      <4>2. QED BY <2>1, <2>2, <2>3, <3>1, <3>2, <4>1 DEF There
    <3>3. QED BY <3>1, <3>2
  <2>6. QED BY <1>5, <2>1, <2>3, <2>4, <2>5
<1>8. ASSUME NEW i \in DOMAIN thread, DeleteThread(i) PROVE ThreadInv'
  <2>1. UNCHANGED <<act, task, stray>> BY <1>8 DEF DeleteThread
  <2>2. DOMAIN thread' = DOMAIN thread /\ \A j \in DOMAIN thread : j # i => thread'[j] = thread[j]
    BY <1>1, <1>8, ThreadField DEF DeleteThread
  <2>3. thread'[i].of = thread[i].of /\ thread[i].here /\ thread'[i].shut = thread[i].shut
    <3>1. thread'[i] = [thread[i] EXCEPT !.here = FALSE] BY <1>1, <1>8 DEF DeleteThread
    <3>2. thread[i] \in Thread BY <1>1, <1>8, ThreadAt
    <3>3. QED BY <1>8, <3>1, <3>2 DEF Thread, DeleteThread, There
  <2>4. SameThreads /\ \A j \in DOMAIN thread : thread'[j].shut = thread[j].shut BY <2>2, <2>3 DEF SameThreads
  <2>5. ASSUME NEW t \in Tasks, ~loose'[t] PROVE ~loose[t] /\ (There(task[t].thread) => There(task[t].thread)')
    <3>1. ~loose[t] /\ t # thread[i].of BY <1>1, <1>8, <2>5 DEF DeleteThread
    <3>2. task[t].thread \in DOMAIN thread /\ task[t].thread # i BY <1>2, <2>5, <3>1 DEF Recorded, HoldsThread
    <3>3. QED BY <2>1, <2>2, <3>1, <3>2 DEF There
  <2>6. QED BY <1>5, <2>1, <2>4, <2>5
<1>9. ASSUME Crash PROVE ThreadInv'
  <2>1. UNCHANGED <<task, thread>> /\ SameThreads /\ stray \subseteq stray' /\ \A t \in Tasks : loose'[t]
    BY <1>9 DEF Crash, SameThreads
  <2>2. ASSUME NEW y \in Actors PROVE Calm(act[y], act'[y])
    <3>1. act'[y] = Idle BY <1>9 DEF Crash
    <3>2. ASSUME Pending(act[y]) PROVE Task(act[y]) \in stray'
      <4>1. act[y].new # 0 /\ Task(act[y]) \in act[y].todo /\ act[y].new \in DOMAIN thread
        BY <1>2, <3>2 DEF Pending, Working, Task
      <4>2. Task(act[y]) \in Tasks BY <1>1, <4>1, ThreadAt DEF Task
      <4>3. stray' = stray \cup UNION {act[z].todo \cap Tasks : z \in {w \in Actors : act[w].new # 0}}
        BY <1>9 DEF Crash
      <4>4. act[y].todo \cap Tasks \in {act[z].todo \cap Tasks : z \in {w \in Actors : act[w].new # 0}}
        BY <4>1
      <4>5. Task(act[y]) \in act[y].todo \cap Tasks BY <4>1, <4>2
      <4>6. QED BY <4>3, <4>4, <4>5, Zenon
    <3>3. QED BY <3>1, <3>2, IdleFacts DEF Calm
  <2>3. \A y \in Actors : Pending(act[y]) => ~thread'[act[y].new].shut BY <1>2, <2>1 DEF Unrecorded
  <2>4. QED BY <2>1, <2>2, <2>3, SteadyStep
<1>10. QED BY <1>6, <1>7, <1>8, <1>9

LEMMA InitThreads ==
  ASSUME PresenceInit
  PROVE  PresenceTypes /\ ThreadInv
<1> DEFINE N == Cardinality(Tasks)
           Numbers(o) == /\ \A s, t \in Tasks : o[s] = o[t] => s = t
                         /\ \A i \in 1..N : \E t \in Tasks : o[t] = i
           order == CHOOSE o \in [Tasks -> 1..N] : Numbers(o)
           of(i) == CHOOSE t \in Tasks : order[t] = i
<1>1. N \in Nat /\ ExistsBijection(1..N, Tasks) BY ProvisioningAssumption, FS_CardinalityType
<1>2. \E o \in [Tasks -> 1..N] : Numbers(o)
  <2>1. ExistsBijection(Tasks, 1..N) BY <1>1, Fun_ExistsBijSymmetric
  <2>2. PICK o : o \in Bijection(Tasks, 1..N) BY <2>1 DEF ExistsBijection
  <2>3. o \in [Tasks -> 1..N] /\ \A i \in 1..N : \E t \in Tasks : o[t] = i
    BY <2>2 DEF Bijection, Surjection
  <2>4. \A s, t \in Tasks : o[s] = o[t] => s = t BY <2>2, <2>3 DEF Bijection, Injection, IsInjective
  <2>5. QED BY <2>3, <2>4
<1>3. order \in [Tasks -> 1..N] /\ Numbers(order) BY <1>2
<1>4. /\ task = [t \in Tasks |-> [done |-> FALSE, shelved |-> FALSE, thread |-> order[t]]]
      /\ thread = [i \in 1..N |-> [of |-> of(i), here |-> TRUE, shut |-> FALSE, on |-> Bound[Owner[of(i)]]]]
  BY DEF PresenceInit
<1>5. \A i \in 1..N : of(i) \in Tasks /\ order[of(i)] = i BY <1>3
<1>6. \A t \in Tasks : order[t] \in 1..N /\ of(order[t]) = t BY <1>3, <1>5
<1> HIDE DEF order, of, N
<1>7. task \in [Tasks -> Row] /\ \A t \in Tasks : task[t].thread = order[t] /\ ~Closed(task[t])
  BY <1>1, <1>4, <1>6 DEF Row, Closed
<1>8. \A p \in Projects : Bound[p] \in Place BY ProvisioningAssumption DEF Place
<1>9. ASSUME NEW i \in 1..N
      PROVE  thread[i] \in Thread /\ thread[i].of = of(i) /\ thread[i].here /\ ~thread[i].shut
  <2>1. Owner[of(i)] \in Projects BY <1>5, ProvisioningAssumption
  <2>2. QED BY <1>4, <1>5, <1>8, <2>1 DEF Thread
<1>10. DOMAIN thread = 1..N /\ thread \in Seq(Thread)
  <2>1. thread \in [1..N -> Thread] BY <1>4, <1>9
  <2>2. \A q \in [1..N -> Thread] : q \in Seq(Thread) BY <1>1
  <2>3. QED BY <2>1, <2>2
<1>11. act = [x \in Actors |-> Idle] BY DEF PresenceInit
<1>12. proj \in [Projects -> Project]
  <2>1. proj = [p \in Projects |-> [made |-> Bound[p] # NoForum, archived |-> FALSE, forum |-> Bound[p]]]
    BY DEF PresenceInit
  <2>2. QED BY <1>8, <2>1 DEF Project
<1>13. forum \in [Forums -> Board]
  <2>1. Empty \in Board BY DEF Empty, Board, Tags
  <2>2. ASSUME NEW ps \in SUBSET Projects
        PROVE  [there |-> TRUE, tags |-> ps \cup {Std}, seen |-> ps \cup {Std}, hubs |-> <<ps>>, known |-> 1] \in Board
    <3>1. <<ps>> \in Seq(SUBSET Projects) OBVIOUS
    <3>2. ps \cup {Std} \in Tags BY DEF Tags
    <3>3. QED BY <3>1, <3>2 DEF Board
  <2>3. forum = [f \in Forums |->
            LET ps == {p \in Projects : Bound[p] = f} IN
                IF ps = {} THEN Empty
                ELSE [there |-> TRUE, tags |-> ps \cup {Std}, seen |-> ps \cup {Std}, hubs |-> <<ps>>, known |-> 1]]
    BY DEF PresenceInit
  <2>4. \A f \in Forums : {p \in Projects : Bound[p] = f} \in SUBSET Projects OBVIOUS
  <2>5. QED BY <2>1, <2>2, <2>3, <2>4
<1>14. stain \in [Forums -> BOOLEAN] /\ loose \in [Tasks -> BOOLEAN] BY DEF PresenceInit
<1>15. PresenceTypes BY <1>7, <1>10, <1>11, <1>12, <1>13, <1>14, IdleFacts DEF PresenceTypes
<1>16. \A x \in Actors : act[x] = Idle BY <1>11
<1>17. Recorded BY <1>6, <1>7, <1>9, <1>10, <1>16, IdleFacts DEF Recorded, HoldsThread
<1>18. Working /\ Unrecorded BY <1>16, IdleFacts DEF Working, Unrecorded
<1>19. Kept
  <2>1. ASSUME NEW t \in Tasks
        PROVE  There(task[t].thread) /\ thread[task[t].thread].shut = Closed(task[t])
    <3>1. task[t].thread \in 1..N /\ task[t].thread \in DOMAIN thread BY <1>6, <1>7, <1>10
    <3>2. thread[task[t].thread].shut \in BOOLEAN BY <1>10, <3>1, ThreadAt
    <3>3. Closed(task[t]) \in BOOLEAN BY DEF Closed
    <3>4. QED BY <1>7, <1>9, <1>10, <3>1, <3>2, <3>3 DEF There
  <2>2. QED BY <2>1 DEF Kept
<1>20. Single
  <2>1. ASSUME NEW t \in Tasks PROVE Alone(t)
    <3>1. \A i \in DOMAIN thread : thread[i].of = t => i = task[t].thread BY <1>5, <1>7, <1>9, <1>10
    <3>2. \A x \in Actors : ~Pending(act[x]) BY <1>16, IdleFacts
    <3>3. QED BY <3>1, <3>2 DEF Alone
  <2>2. QED BY <2>1 DEF Single
<1>21. QED BY <1>15, <1>17, <1>18, <1>19, <1>20 DEF ThreadInv

LEMMA NextThreads ==
  ASSUME PresenceTypes, ThreadInv, [PresenceNext]_presenceVars
  PROVE  PresenceTypes' /\ ThreadInv'
<1>1. Working BY DEF ThreadInv
<1>2. ASSUME NEW x \in Actors, Handle(x) PROVE ThreadInv'
  <2>1. CASE OpenProject(x) \/ PostHub(x) \/ OpenTask(x) BY <2>1, OpenTypes, BeginThreads
  <2>2. CASE ApplyProject(x) \/ ApplyTask(x) \/ ListTasks(x) \/ Bind(x)
    BY <2>2, ProjectThreads, TaskThreads, ListThreads, BindThreads
  <2>3. CASE \/ Skip(x) \/ ReadProjects(x) \/ Prune(x) \/ Setup(x) \/ Ensure(x) \/ EnsureOwn(x)
             \/ Untag(x) \/ MountHub(x)
    BY <2>3, QuietThreads
  <2>4. CASE SyncTasks(x)
    <3>1. CASE SyncDone(x) BY <3>1, QuietThreads
    <3>2. CASE At(x, "sync") /\ \E t \in act[x].todo :
             SyncThread(x, t) \/ MakeThread(x, t) \/ MakeFails(x, t) \/ RecordThread(x, t) \/ SettleThread(x, t)
      BY <3>2, SyncThreads, MakeThreads, RecordThreads
    <3>3. QED BY <2>4, <3>1, <3>2 DEF SyncTasks
  <2>5. QED BY <1>2, <2>1, <2>2, <2>3, <2>4 DEF Handle
<1>3. CASE PresenceNext BY <1>1, <1>2, <1>3, NextTypes, DiscordThreads DEF PresenceNext
<1>4. CASE UNCHANGED presenceVars
  <2>1. UNCHANGED <<proj, task, forum, thread, act, stain, loose, stray>> BY <1>4 DEF presenceVars
  <2>2. PresenceTypes' BY <2>1 DEF PresenceTypes
  <2>3. \A y \in Actors : Calm(act[y], act'[y]) BY <2>1 DEF Calm, Alike
  <2>4. \A t \in Tasks : ~loose'[t] => KeptThread(t)'
    <3>1. ASSUME NEW t \in Tasks, ~loose'[t] PROVE KeptThread(t)'
      <4>1. KeptThread(t) BY <2>1, <3>1 DEF ThreadInv, Kept, KeptThread
      <4>2. \A y \in Actors : (Owes(act[y], t))' = Owes(act[y], t) BY <2>1 DEF Owes, WillList, Does, Closed
      <4>3. QED BY <2>1, <4>1, <4>2 DEF KeptThread, Closed
    <3>2. QED BY <3>1
  <2>5. QED BY <2>1, <2>2, <2>3, <2>4, CalmStep
<1>5. QED BY <1>3, <1>4

\* Whatever the handlers, their users and Discord do, a task of whose thread nothing
\* is amiss has it recorded and there, and as the row says unless a handler is still
\* to write it; and no task has a second thread but by an error or a race that the
\* model counts.
THEOREM ThreadsHeld == PresenceSpec => [](PresenceTypes /\ ThreadInv)
<1>1. PresenceInit => PresenceTypes /\ ThreadInv BY InitThreads
<1>2. PresenceTypes /\ ThreadInv /\ [PresenceNext]_presenceVars => (PresenceTypes /\ ThreadInv)'
  BY NextThreads
<1>3. QED BY <1>1, <1>2, PTL DEF PresenceSpec

LEMMA SettledThreads ==
  ASSUME PresenceTypes, ThreadInv
  PROVE  ThreadsShowTasks
<1>1. Recorded /\ Kept /\ Single BY DEF ThreadInv
<1>2. SUFFICES ASSUME NEW t \in Tasks, Settled
               PROVE  /\ ~loose[t] => There(task[t].thread) /\ thread[task[t].thread].shut = Closed(task[t])
                      /\ t \notin stray => Cardinality({i \in DOMAIN thread : thread[i].here /\ thread[i].of = t}) <= 1
  BY DEF ThreadsShowTasks
<1>3. \A x \in Actors : ~Owes(act[x], t) /\ ~Pending(act[x]) BY <1>2, IdleFacts DEF Settled
<1>4. ~loose[t] => There(task[t].thread) /\ thread[task[t].thread].shut = Closed(task[t])
  BY <1>1, <1>3 DEF Kept
<1>5. ASSUME t \notin stray
      PROVE  Cardinality({i \in DOMAIN thread : thread[i].here /\ thread[i].of = t}) <= 1
  <2> DEFINE own == {i \in DOMAIN thread : thread[i].here /\ thread[i].of = t}
  <2>1. own \in SUBSET {task[t].thread} BY <1>1, <1>3, <1>5 DEF Single, Alone
  <2>2. IsFiniteSet({task[t].thread}) /\ Cardinality({task[t].thread}) = 1 BY FS_Singleton
  <2>3. QED BY <2>1, <2>2, FS_Subset
<1>6. QED BY <1>4, <1>5

\* ThreadsShowTasks holds of any number of tasks, projects, forums and users, under
\* every interleaving of their handlers, with refused calls, deletions and crashes, and
\* of any limit of their lists, beyond which a task is excused.
THEOREM ThreadsShown == PresenceSpec => []ThreadsShowTasks
BY ThreadsHeld, SettledThreads, PTL

-----------------------------------------------------------------------------
(* Provisioning: the tags and the hubs of the forums.                      *)

\* What is left of a script before the project's row is written or bound, and from
\* there to the reading of the projects; and when the standard tags come after it.
Opens == {Create1, Archive1, Archive2, Command1, Rebuild1, Rebuild2}
Reads == {Hub1, Create2, Create3, Archive3, Archive4, Command2, Command3, Rebuild3, Rebuild4, Rebuild5}
Setups == {Hub3, Rebuild7}

\* a will redraw the hub of g.
Redraws(a, g) ==
    a.forum = g /\ (a.steps \in Reads \cup Setups \/ Does(a, "prune") \/ Does(a, "ensure") \/ Does(a, "hub"))

\* What a has read of k is so; and what it has not treated yet.
Sees(a, k, g) == k = Std \/ ((k \in a.live) = (k \in Live(g)) /\ (k \in a.gone) = (k \in Gone(g)))

Untreated(a, k) ==
    \/ Does(a, "prune")
    \/ a.steps \in Setups /\ (k = Std \/ k \in a.live \cap a.todo)
    \/ Does(a, "ensure") /\ k \in a.live \cap a.todo

\* a will see to the tag k of g, or else is not relied on.
Mends(a, k, g) ==
    Redraws(a, g) /\ (a.steps \in Reads \/ ~a.clean \/ ~Sees(a, k, g) \/ Untreated(a, k))

\* A rebuild is about to give p another forum.
Rebinds(a, p) == Does(a, "bind") /\ p \in a.name

Mine(g) == {k \in Live(g) \cup Gone(g) \cup {Std} : \A x \in Actors : ~Rebinds(act[x], k)}

Tagged(k, g) == (k \in forum[g].tags) = (k \in Live(g) \cup {Std})

TagKept(k, g) ==
    \/ Tagged(k, g) \/ \E x \in Actors : Mends(act[x], k, g)
    \/ stain[g] /\ \A x \in Actors : ~Redraws(act[x], g)

Hubbed(k, g) == k = Std \/ forum[g].hubs = << >> \/ (k \in forum[g].hubs[1]) = (k \in Live(g))

HubKept(k, g) == Hubbed(k, g) \/ stain[g] \/ \E x \in Actors : Redraws(act[x], g)

Unread == \A x \in Actors : act[x].clean => act[x].steps \notin Opens \cup Reads

ForumKept == \A g \in Forums : forum[g].there => \A k \in Mine(g) : TagKept(k, g) /\ HubKept(k, g)

ForumInv == Unread /\ ForumKept

-----------------------------------------------------------------------------
\* How the scripts go on, as far as the forums are concerned.
Leads(op, s) ==
    /\ Head(s) = "read" => s \in Reads /\ Tail(s) # << >> /\ Head(Tail(s)) = "prune"
    /\ Head(s) = "prune" => Tail(s) \in Setups
    /\ Head(s) = "setup" => \/ s \in Reads /\ Tail(s) \in Reads
                            \/ s \in Setups /\ Tail(s) # << >> /\ Head(Tail(s)) = "ensure"
    /\ Head(s) = "ensure" => Tail(s) # << >> /\ Head(Tail(s)) = "hub"
    /\ Head(s) = "hub" => Tail(s) \in {<< >>, Rebuild10}
    /\ Head(s) \in {"own", "untag"} => s \in Reads /\ Tail(s) \in Reads
    /\ Head(s) = "apply" =>
          /\ op = "rebuild" => s \in Opens /\ Tail(s) = Rebuild2
          /\ op \notin {"rebuild", "task"} => s \in Opens /\ Tail(s) \in Reads
          /\ op = "task" => Tail(s) = Task2
    /\ Head(s) = "bind" => s \in Opens /\ Tail(s) \in Reads
    /\ Head(s) = "list" => \/ s \in Opens /\ Tail(s) = Archive2
                           \/ s \in Reads /\ Tail(s) \in Reads
                           \/ Tail(s) = Rebuild11
    /\ Head(s) = "sync" => (s \in Reads /\ Tail(s) \in Reads) \/ Tail(s) = << >>

LEMMA HubLeads ==
  ASSUME NEW op, NEW s \in HubLeft
  PROVE  Leads(op, s)
<1>1. Leads(op, Hub1) BY HubTails DEF Leads, Reads
<1>2. Leads(op, Hub2) BY HubTails DEF Leads, Setups
<1>3. Leads(op, Hub3) BY HubTails DEF Leads, Setups
<1>4. Leads(op, Hub4) BY HubTails DEF Leads
<1>5. Leads(op, Hub5) BY HubTails DEF Leads
<1>6. QED BY <1>1, <1>2, <1>3, <1>4, <1>5 DEF HubLeft

LEMMA RebuildLeads ==
  ASSUME NEW s \in StepsLeft("rebuild")
  PROVE  Leads("rebuild", s)
<1> DEFINE L(t) == Leads("rebuild", t)
<1>1. L(Rebuild1) BY ZenonT(60), RebuildTails DEF Leads, Opens
<1>2. L(Rebuild2) BY ZenonT(60), RebuildTails DEF Leads, Opens, Reads
<1>3. L(Rebuild3) BY ZenonT(60), RebuildTails DEF Leads, Reads
<1>4. L(Rebuild4) BY ZenonT(60), RebuildTails DEF Leads, Reads
<1>5. L(Rebuild5) BY ZenonT(60), RebuildTails DEF Leads, Reads
<1>6. L(Rebuild6) BY ZenonT(60), RebuildTails DEF Leads, Setups
<1>7. L(Rebuild7) BY ZenonT(60), RebuildTails DEF Leads, Setups
<1>8. L(Rebuild8) BY ZenonT(60), RebuildTails DEF Leads
<1>9. L(Rebuild9) BY ZenonT(60), RebuildTails DEF Leads
<1>10. L(Rebuild10) BY ZenonT(60), RebuildTails DEF Leads
<1>11. L(Rebuild11) BY ZenonT(60), RebuildTails DEF Leads
<1>12. StepsLeft("rebuild") = {Rebuild1, Rebuild2, Rebuild3, Rebuild4, Rebuild5, Rebuild6, Rebuild7,
                               Rebuild8, Rebuild9, Rebuild10, Rebuild11}
  BY DEF StepsLeft
<1> HIDE DEF L
<1>13. L(s) BY <1>1, <1>2, <1>3, <1>4, <1>5, <1>6, <1>7, <1>8, <1>9, <1>10, <1>11, <1>12
<1>14. QED BY <1>13 DEF L

LEMMA ScriptLeads ==
  ASSUME NEW op \in AllOps \cup {"none"}, NEW s \in StepsLeft(op), s # << >>
  PROVE  Leads(op, s)
<1>1. CASE op = "create"
  <2>0. StepsLeft(op) = {Create1, Create2, Create3} \cup HubLeft BY <1>1 DEF StepsLeft
  <2>1. Leads(op, Create1) BY <1>1, CreateTails DEF Leads, Opens, Reads
  <2>2. Leads(op, Create2) BY <1>1, CreateTails DEF Leads, Reads
  <2>3. Leads(op, Create3) BY <1>1, CreateTails DEF Leads, Reads
  <2>4. QED BY <2>0, <2>1, <2>2, <2>3, HubLeads
<1>2. CASE op = "archive"
  <2>0. StepsLeft(op) = {Archive1, Archive2, Archive3, Archive4} \cup HubLeft BY <1>2 DEF StepsLeft
  <2>1. Leads(op, Archive1) BY <1>2, ArchiveTails DEF Leads, Opens
  <2>2. Leads(op, Archive2) BY <1>2, ArchiveTails DEF Leads, Opens, Reads
  <2>3. Leads(op, Archive3) BY <1>2, ArchiveTails DEF Leads, Reads
  <2>4. Leads(op, Archive4) BY <1>2, ArchiveTails DEF Leads, Reads
  <2>5. QED BY <2>0, <2>1, <2>2, <2>3, <2>4, HubLeads
<1>3. CASE op \in {"archive_cmd", "restore", "unarchive_cmd"}
  <2>0. StepsLeft(op) = {Command1, Command2, Command3} \cup HubLeft BY <1>3 DEF StepsLeft
  <2>1. Leads(op, Command1) BY <1>3, CommandTails DEF Leads, Opens, Reads
  <2>2. Leads(op, Command2) BY <1>3, CommandTails DEF Leads, Reads
  <2>3. Leads(op, Command3) BY <1>3, CommandTails DEF Leads, Reads
  <2>4. QED BY <2>0, <2>1, <2>2, <2>3, HubLeads
<1>4. CASE op = "task"
  <2>0. StepsLeft(op) = {Task1, Task2} BY <1>4 DEF StepsLeft
  <2>1. Leads(op, Task1) /\ Leads(op, Task2) BY <1>4, TaskTails DEF Leads
  <2>2. QED BY <2>0, <2>1
<1>5. CASE op = "hub" BY <1>5, HubLeads DEF StepsLeft
<1>6. CASE op = "none" BY <1>6 DEF StepsLeft
<1>7. CASE op = "rebuild" BY <1>7, RebuildLeads
<1>8. QED BY <1>1, <1>2, <1>3, <1>4, <1>5, <1>6, <1>7 DEF AllOps

\* The parts of the scripts are told apart by what comes next.
LEMMA Parts ==
  /\ \A s \in Reads : /\ s # << >> /\ Head(s) \notin {"prune", "ensure", "hub", "apply", "bind"}
                      /\ Head(s) = "setup" => Head(Tail(s)) = "own"
                      /\ Head(s) = "list" => Head(Tail(s)) = "sync" /\ Tail(Tail(s)) # << >>
                      /\ Head(s) = "sync" => Tail(s) # << >>
  /\ \A s \in Setups : s # << >> /\ Head(s) = "setup" /\ Head(Tail(s)) = "ensure"
  /\ \A s \in Opens : s # << >> /\ (Head(s) \in {"apply", "bind"} \/ (Head(s) = "list" /\ Head(Tail(s)) = "apply"))
<1>1. ASSUME NEW s \in Reads
      PROVE  /\ s # << >> /\ Head(s) \notin {"prune", "ensure", "hub", "apply", "bind"}
             /\ Head(s) = "setup" => Head(Tail(s)) = "own"
             /\ Head(s) = "list" => Head(Tail(s)) = "sync" /\ Tail(Tail(s)) # << >>
             /\ Head(s) = "sync" => Tail(s) # << >>
  <2>1. CASE s \in {Hub1, Create2, Create3} BY <2>1, HubTails, CreateTails
  <2>2. CASE s \in {Archive3, Archive4} BY <2>2, ArchiveTails
  <2>3. CASE s \in {Command2, Command3} BY <2>3, CommandTails, HubTails
  <2>4. CASE s = Rebuild3 BY ZenonT(60), <2>4, RebuildTails
  <2>5. CASE s = Rebuild4 BY ZenonT(60), <2>5, RebuildTails
  <2>6. CASE s = Rebuild5 BY ZenonT(60), <2>6, RebuildTails
  <2>7. QED BY <2>1, <2>2, <2>3, <2>4, <2>5, <2>6 DEF Reads
<1>2. ASSUME NEW s \in Setups PROVE s # << >> /\ Head(s) = "setup" /\ Head(Tail(s)) = "ensure"
  <2>1. CASE s = Hub3 BY <2>1, HubTails
  <2>2. CASE s = Rebuild7 BY ZenonT(60), <2>2, RebuildTails
  <2>3. QED BY <2>1, <2>2 DEF Setups
<1>3. ASSUME NEW s \in Opens
      PROVE  s # << >> /\ (Head(s) \in {"apply", "bind"} \/ (Head(s) = "list" /\ Head(Tail(s)) = "apply"))
  <2>1. CASE s \in {Create1, Command1} BY <2>1, CreateTails, CommandTails
  <2>2. CASE s \in {Archive1, Archive2} BY <2>2, ArchiveTails
  <2>3. CASE s = Rebuild1 BY ZenonT(60), <2>3, RebuildTails
  <2>4. CASE s = Rebuild2 BY ZenonT(60), <2>4, RebuildTails
  <2>5. QED BY <2>1, <2>2, <2>3, <2>4 DEF Opens
<1>4. QED BY <1>1, <1>2, <1>3

LEMMA Afterwards ==
  /\ Rebuild10 \notin Reads \cup Setups \cup Opens /\ Head(Rebuild10) = "list" /\ Rebuild10 # << >>
  /\ Rebuild11 \notin Reads \cup Setups \cup Opens /\ Head(Rebuild11) = "sync" /\ Rebuild11 # << >>
  /\ Tail(Rebuild11) = << >>
  /\ Task2 \notin Reads \cup Setups \cup Opens /\ Head(Task2) = "sync" /\ Task2 # << >>
  /\ << >> \notin Reads \cup Setups \cup Opens
  /\ Rebuild2 \in Opens /\ Rebuild2 # << >> /\ Head(Rebuild2) = "bind"
  /\ Archive2 \in Opens /\ Archive2 # << >> /\ Head(Archive2) = "apply"
<1>1. Rebuild10 # << >> /\ Head(Rebuild10) = "list" /\ Tail(Rebuild10) = Rebuild11 BY ZenonT(60), RebuildTails
<1>2. Rebuild11 # << >> /\ Head(Rebuild11) = "sync" /\ Tail(Rebuild11) = << >> BY ZenonT(60), RebuildTails
<1>3. Rebuild2 # << >> /\ Head(Rebuild2) = "bind" BY ZenonT(60), RebuildTails
<1>4. Archive2 # << >> /\ Head(Archive2) = "apply" BY ArchiveTails
<1>5. Task2 # << >> /\ Head(Task2) = "sync" /\ Tail(Task2) = << >> BY TaskTails
<1>6. \A s \in Reads \cup Setups \cup Opens :
         s # << >> /\ s # Rebuild10 /\ s # Rebuild11 /\ s # Task2
  BY <1>1, <1>2, <1>5, Parts
<1>7. Rebuild2 \in Opens /\ Archive2 \in Opens BY DEF Opens
<1>8. QED BY <1>1, <1>2, <1>3, <1>4, <1>5, <1>6, <1>7

LEMMA HeadNames ==
  ASSUME NEW op \in AllOps \cup {"none"}, NEW s \in StepsLeft(op), s # << >>
  PROVE  Head(s) \in Names
<1>1. \A q \in HubLeft : Head(q) \in Names BY HubTails DEF HubLeft, Names
<1>2. CASE op = "create" BY <1>1, <1>2, CreateTails DEF StepsLeft, Names
<1>3. CASE op = "archive" BY <1>1, <1>3, ArchiveTails DEF StepsLeft, Names
<1>4. CASE op \in {"archive_cmd", "restore", "unarchive_cmd"} BY <1>1, <1>4, CommandTails DEF StepsLeft, Names
<1>5. CASE op = "task" BY <1>5, TaskTails DEF StepsLeft, Names
<1>6. CASE op \in {"hub", "none"} BY <1>1, <1>6 DEF StepsLeft
<1>7. CASE op = "rebuild"
  <2>1. /\ Head(Rebuild1) \in Names /\ Head(Rebuild2) \in Names /\ Head(Rebuild3) \in Names /\ Head(Rebuild4) \in Names
        /\ Head(Rebuild5) \in Names /\ Head(Rebuild6) \in Names /\ Head(Rebuild7) \in Names /\ Head(Rebuild8) \in Names
        /\ Head(Rebuild9) \in Names /\ Head(Rebuild10) \in Names /\ Head(Rebuild11) \in Names
    BY ZenonT(60), RebuildTails DEF Names
  <2>2. StepsLeft(op) = {Rebuild1, Rebuild2, Rebuild3, Rebuild4, Rebuild5, Rebuild6, Rebuild7,
                         Rebuild8, Rebuild9, Rebuild10, Rebuild11}
    BY <1>7 DEF StepsLeft
  <2>3. QED BY <2>1, <2>2
<1>8. QED BY <1>2, <1>3, <1>4, <1>5, <1>6, <1>7 DEF AllOps

LEMMA Course ==
  ASSUME NEW a \in Handler, Scripted(a), a.steps # << >>
  PROVE  /\ Done(a).steps = Tail(a.steps) /\ (Done(a) = Idle \/ SameBut(a, Done(a)))
         /\ Does(a, "read") => a.steps \in Reads /\ Does(Done(a), "prune")
         /\ Does(a, "prune") => Done(a).steps \in Setups
         /\ Does(a, "setup") => \/ a.steps \in Reads /\ Done(a).steps \in Reads
                                \/ a.steps \in Setups /\ Does(Done(a), "ensure")
         /\ Does(a, "ensure") => Does(Done(a), "hub")
         /\ Does(a, "hub") => \A g : ~Redraws(Done(a), g)
         /\ Does(a, "own") \/ Does(a, "untag") => a.steps \in Reads /\ Done(a).steps \in Reads
         /\ Does(a, "list") \/ Does(a, "sync") =>
               \/ a.steps \in Reads /\ Done(a).steps \in Reads
               \/ \A g : ~Redraws(a, g) /\ ~Redraws(Done(a), g)
         /\ Does(a, "apply") =>
               /\ a.op = "rebuild" => Does(Done(a), "bind") /\ a.steps \in Opens
               /\ a.op = "task" => \A g : ~Redraws(Done(a), g)
               /\ a.op \notin {"rebuild", "task"} => Done(a).steps \in Reads /\ a.steps \in Opens
         /\ Does(a, "bind") => Done(a).steps \in Reads /\ a.steps \in Opens
         /\ Done(a).steps \in Opens \cup Reads => a.steps \in Opens \cup Reads
<1> DEFINE s == a.steps  d == Done(a)
<1>1. a.op \in AllOps \cup {"none"} /\ s \in StepsLeft(a.op) BY DEF Handler, Scripted
<1>2. Leads(a.op, s) /\ Follows(a.op, s) BY <1>1, ScriptLeads, Scripts
<1>3. d.steps = Tail(s) /\ (d = Idle \/ SameBut(a, d))
  <2>1. CASE Len(s) = 1 BY <1>2, <2>1, DoneFacts, IdleFacts DEF Follows
  <2>2. CASE Len(s) # 1 BY <2>2, DoneFacts
  <2>3. QED BY <2>1, <2>2
<1> DEFINE t == d.steps
<1>4. t = Tail(s) BY <1>3
<1> HIDE DEF s, d, t
<1>5. ASSUME t \in {<< >>, Rebuild10, Rebuild11, Task2} PROVE \A g : ~Redraws(d, g)
  <2>1. t \notin Reads \cup Setups BY <1>5, Afterwards
  <2>2. t = << >> \/ Head(t) \in {"list", "sync"} BY <1>5, Afterwards
  <2>3. QED BY <2>1, <2>2 DEF Redraws, Does, t
<1>6. \A h : Does(a, h) => Head(s) = h BY DEF Does, s
<1>7. \A h : t # << >> /\ Head(t) = h => Does(d, h) BY DEF Does, t
<1>8. Does(a, "read") => s \in Reads /\ Does(d, "prune") BY <1>2, <1>4, <1>6, <1>7 DEF Leads
<1>9. Does(a, "prune") => t \in Setups BY <1>2, <1>4, <1>6 DEF Leads
<1>10. Does(a, "setup") => (s \in Reads /\ t \in Reads) \/ (s \in Setups /\ Does(d, "ensure"))
  BY <1>2, <1>4, <1>6, <1>7 DEF Leads
<1>11. Does(a, "ensure") => Does(d, "hub") BY <1>2, <1>4, <1>6, <1>7 DEF Leads
<1>12. Does(a, "hub") => t \in {<< >>, Rebuild10} BY <1>2, <1>4, <1>6 DEF Leads
<1>13. Does(a, "own") \/ Does(a, "untag") => s \in Reads /\ t \in Reads BY <1>2, <1>4, <1>6 DEF Leads
<1>14. Does(a, "list") => (s \in Opens /\ t = Archive2) \/ (s \in Reads /\ t \in Reads) \/ t = Rebuild11
  BY <1>2, <1>4, <1>6 DEF Leads
<1>15. Does(a, "sync") => (s \in Reads /\ t \in Reads) \/ t = << >> BY <1>2, <1>4, <1>6 DEF Leads
<1>16. t = Archive2 => \A g : ~Redraws(d, g)
  <2>1. Archive2 \notin Reads \cup Setups BY Afterwards, Parts
  <2>2. QED BY <2>1, Afterwards DEF Redraws, Does, t
<1>17. Does(a, "apply") =>
          /\ a.op = "rebuild" => t = Rebuild2 /\ s \in Opens
          /\ a.op = "task" => t = Task2
          /\ a.op \notin {"rebuild", "task"} => t \in Reads /\ s \in Opens
  BY <1>2, <1>4, <1>6 DEF Leads
<1>18. t = Rebuild2 => Does(d, "bind") BY <1>7, Afterwards
<1>19. Does(a, "bind") => t \in Reads /\ s \in Opens BY <1>2, <1>4, <1>6 DEF Leads
<1>20. t \in Opens \cup Reads => s \in Opens \cup Reads
  <2>1. Does(a, Head(s)) BY DEF Does, s
  <2>2. Head(s) \in Names
    BY ZenonT(60), <1>1, HeadNames DEF s
  <2>3. t \in Opens \cup Reads => t # << >> /\ Head(t) \notin {"prune", "ensure", "hub"} BY Parts
  <2>4. t \in Setups => t \notin Opens \cup Reads
    BY Parts
  <2>5. t \in {<< >>, Rebuild10, Rebuild11, Task2} => t \notin Opens \cup Reads BY Afterwards
  <2>6. CASE Head(s) \in {"read", "prune", "ensure", "hub"}
    BY <1>2, <1>4, <2>3, <2>4, <2>5, <2>6 DEF Leads
  <2>7. CASE Head(s) = "setup" BY <1>2, <1>4, <2>3, <2>7, Parts DEF Leads
  <2>8. CASE Head(s) \in {"own", "untag", "bind", "list", "sync"} BY <1>2, <1>4, <2>5, <2>8 DEF Leads
  <2>9. CASE Head(s) = "apply" BY <1>2, <1>4, <2>5, <2>9 DEF Leads
  <2>10. QED BY <2>2, <2>6, <2>7, <2>8, <2>9 DEF Names
<1>21. ASSUME Does(a, "list") \/ Does(a, "sync"), ~(s \in Reads /\ t \in Reads)
       PROVE  \A g : ~Redraws(a, g)
  <2>1. Head(s) \in {"list", "sync"} BY <1>6, <1>21
  <2>2. s \notin Setups BY <2>1, Parts
  <2>3. s \notin Reads BY <1>4, <1>14, <1>15, <1>21, <1>6, Parts, Afterwards
  <2>4. QED BY <1>6, <2>1, <2>2, <2>3 DEF Redraws, s
<1>22. QED
  <2>1. /\ Does(a, "hub") => \A g : ~Redraws(d, g)
        /\ Does(a, "list") \/ Does(a, "sync") =>
              (s \in Reads /\ t \in Reads) \/ \A g : ~Redraws(a, g) /\ ~Redraws(d, g)
        /\ Does(a, "apply") /\ a.op = "task" => \A g : ~Redraws(d, g)
    BY <1>5, <1>12, <1>14, <1>15, <1>16, <1>17, <1>21
  <2>2. QED BY <1>3, <1>4, <1>8, <1>9, <1>10, <1>11, <1>13, <1>17, <1>18, <1>19, <1>20, <2>1 DEF s, d, t

\* A handler as it was, though what it has read may not be relied on any more.
Like(a, b) ==
    /\ Alike(a, b) /\ b.forum = a.forum /\ b.live = a.live /\ b.gone = a.gone
    /\ b.clean => a.clean

LEMMA LikeFacts ==
  ASSUME NEW a, NEW b, Like(a, b)
  PROVE  /\ \A s : Does(a, s) = Does(b, s)
         /\ \A g : Redraws(a, g) = Redraws(b, g)
         /\ \A k : Rebinds(a, k) = Rebinds(b, k) /\ Untreated(a, k) = Untreated(b, k)
<1>1. \A s : Does(a, s) = Does(b, s) BY DEF Like, Alike, Does
<1>2. QED BY <1>1 DEF Like, Alike, Redraws, Rebinds, Untreated

LEMMA StainedLike ==
  ASSUME PresenceTypes, NEW x \in Actors, NEW a \in Handler, NEW f, NEW b \in BOOLEAN, Stained(x, a, f, b)
  PROVE  /\ Like(a, act'[x]) /\ \A y \in Actors \ {x} : Like(act[y], act'[y])
         /\ b => \A y \in Actors : act'[y].forum = f => ~act'[y].clean
         /\ b /\ f \in Forums => stain'[f]
         /\ \A g \in Forums : g # f \/ ~b => stain'[g] = stain[g]
<1>1. \A c \in Handler : Like(c, [c EXCEPT !.clean = FALSE]) /\ ~[c EXCEPT !.clean = FALSE].clean
                          /\ [c EXCEPT !.clean = FALSE].forum = c.forum
  BY DEF Handler, Like, Alike
<1>2. \A c : Like(c, c) BY DEF Like, Alike
<1>3. ASSUME NEW y \in Actors
      PROVE  /\ Like(IF y = x THEN a ELSE act[y], act'[y])
             /\ b /\ act'[y].forum = f => ~act'[y].clean
  <2> DEFINE z == IF y = x THEN a ELSE act[y]
  <2>1. z \in Handler BY DEF PresenceTypes
  <2>2. act'[y] = IF b /\ z.forum = f THEN [z EXCEPT !.clean = FALSE] ELSE z BY DEF Stained
  <2> HIDE DEF z
  <2>3. Like(z, act'[y]) /\ (b /\ act'[y].forum = f => ~act'[y].clean) BY <1>1, <1>2, <2>1, <2>2
  <2>4. QED BY <2>3 DEF z
<1>4. stain \in [Forums -> BOOLEAN] BY DEF PresenceTypes
<1>5. b /\ f \in Forums => stain'[f] BY <1>4 DEF Stained
<1>6. \A g \in Forums : g # f \/ ~b => stain'[g] = stain[g] BY <1>4 DEF Stained
<1>7. Like(a, act'[x]) BY <1>3
<1>8. \A y \in Actors \ {x} : Like(act[y], act'[y]) BY <1>3
<1>9. QED BY <1>3, <1>5, <1>6, <1>7, <1>8

\* The tag and the hub are kept: as nothing of theirs is disturbed, ...
LEMMA KeptForum ==
  ASSUME NEW g, NEW k, TagKept(k, g), HubKept(k, g), Tagged(k, g) => Tagged(k, g)', Hubbed(k, g) => Hubbed(k, g)',
         stain[g] => stain'[g],
         \A y \in Actors : Redraws(act[y], g) => Redraws(act[y], g)',
         \A y \in Actors : Redraws(act[y], g)' => Redraws(act[y], g) \/ Mends(act[y], k, g)',
         \A y \in Actors : Mends(act[y], k, g) => Mends(act[y], k, g)' \/ Tagged(k, g)'
  PROVE  TagKept(k, g)' /\ HubKept(k, g)'
<1>1. HubKept(k, g)' BY DEF HubKept
<1>2. TagKept(k, g)'
  <2>1. CASE Tagged(k, g) BY <2>1 DEF TagKept
  <2>2. CASE \E y \in Actors : Mends(act[y], k, g) BY <2>2 DEF TagKept
  <2>3. CASE stain[g] /\ \A y \in Actors : ~Redraws(act[y], g) BY <2>3 DEF TagKept
  <2>4. QED BY <2>1, <2>2, <2>3 DEF TagKept
<1>3. QED BY <1>1, <1>2

\* ... as the forum is marked and nobody relies on what was read of it, ...
LEMMA MarkedForum ==
  ASSUME NEW g, NEW k, stain'[g],
         \A y \in Actors : Redraws(act[y], g)' => ~act'[y].clean \/ act'[y].steps \in Reads
  PROVE  TagKept(k, g)' /\ HubKept(k, g)'
<1>1. \A y \in Actors : Redraws(act[y], g)' => Mends(act[y], k, g)' BY DEF Mends
<1>2. QED BY <1>1 DEF TagKept, HubKept

\* ... or as a handler is yet to read.
LEMMA RenewedForum ==
  ASSUME NEW g, NEW k, NEW x \in Actors, act'[x].forum = g, act'[x].steps \in Reads
  PROVE  TagKept(k, g)' /\ HubKept(k, g)'
<1>1. Redraws(act[x], g)' /\ Mends(act[x], k, g)' BY DEF Redraws, Mends
<1>2. QED BY <1>1 DEF TagKept, HubKept

LEMMA LikeMends ==
  ASSUME NEW y \in Actors, Like(act[y], act'[y]), NEW g, NEW k,
         (k \in Live(g))' = (k \in Live(g)), (k \in Gone(g))' = (k \in Gone(g))
  PROVE  Redraws(act[y], g)' = Redraws(act[y], g) /\ (Mends(act[y], k, g) => Mends(act[y], k, g)')
<1>1. /\ Redraws(act[y], g)' = Redraws(act'[y], g) /\ Untreated(act[y], k)' = Untreated(act'[y], k)
  BY DEF Redraws, Untreated, Does
<1>2. Sees(act[y], k, g)' = Sees(act[y], k, g) BY DEF Sees, Like
<1>3. Redraws(act'[y], g) = Redraws(act[y], g) /\ Untreated(act'[y], k) = Untreated(act[y], k) BY LikeFacts
<1>4. QED BY <1>1, <1>2, <1>3 DEF Mends, Like, Alike

\* A step of x's by which no project changes.
LEMMA SteadyForums ==
  ASSUME ForumInv, NEW x \in Actors, UNCHANGED proj, \A y \in Actors \ {x} : Like(act[y], act'[y]),
         ~Does(act[x], "bind"), act'[x].clean => act'[x].steps \notin Opens \cup Reads,
         \A g \in Forums : forum'[g].there => forum[g].there,
         \A g \in Forums : \A k \in Mine(g) : forum'[g].there /\ TagKept(k, g) /\ HubKept(k, g) => TagKept(k, g)' /\ HubKept(k, g)'
  PROVE  ForumInv'
<1>1. Unread'
  <2>1. \A y \in Actors \ {x} : act'[y].steps = act[y].steps /\ (act'[y].clean => act[y].clean) BY DEF Like, Alike
  <2>2. QED BY <2>1 DEF ForumInv, Unread
<1>2. ASSUME NEW g \in Forums, NEW k \in Mine(g)' PROVE k \in Mine(g)
  <2>1. Live(g)' = Live(g) /\ Gone(g)' = Gone(g) BY DEF Live, Gone
  <2>2. ASSUME NEW y \in Actors PROVE ~Rebinds(act[y], k)
    <3>1. ~Rebinds(act'[y], k) BY <1>2 DEF Mine, Rebinds, Does
    <3>2. QED BY <3>1, LikeFacts DEF Rebinds
  <2>3. k \in Live(g) \cup Gone(g) \cup {Std} BY <1>2, <2>1 DEF Mine
  <2>4. QED BY <2>2, <2>3 DEF Mine
<1>3. ForumKept'
  <2>1. ASSUME NEW g \in Forums, forum'[g].there, NEW k \in Mine(g)' PROVE TagKept(k, g)' /\ HubKept(k, g)'
    BY <1>2, <2>1 DEF ForumInv, ForumKept
  <2>2. QED BY <2>1 DEF ForumKept
<1>4. QED BY <1>1, <1>3 DEF ForumInv

\* A step of x's that changes no project and no forum.
LEMMA PassForums ==
  ASSUME ForumInv, NEW x \in Actors, UNCHANGED <<proj, forum, stain>>, \A y \in Actors \ {x} : act'[y] = act[y],
         ~Does(act[x], "bind"), act'[x].clean => act'[x].steps \notin Opens \cup Reads,
         \A g \in Forums : forum[g].there =>
            \/ ~Redraws(act[x], g) /\ (Redraws(act'[x], g) => ~act'[x].clean)
            \/ Redraws(act'[x], g) /\ \A k : Mends(act[x], k, g) \/ ~Redraws(act[x], g) => Mends(act'[x], k, g)
  PROVE  ForumInv'
<1>1. \A y \in Actors \ {x} : Like(act[y], act'[y]) BY DEF Like, Alike
<1>2. ASSUME NEW g \in Forums, NEW k, forum'[g].there, TagKept(k, g), HubKept(k, g)
      PROVE  TagKept(k, g)' /\ HubKept(k, g)'
  <2>1. Live(g)' = Live(g) /\ Gone(g)' = Gone(g) BY DEF Live, Gone
  <2>2. Tagged(k, g)' = Tagged(k, g) /\ Hubbed(k, g)' = Hubbed(k, g) BY <2>1 DEF Tagged, Hubbed
  <2>3. ASSUME NEW y \in Actors
        PROVE  Redraws(act[y], g)' = Redraws(act'[y], g) /\ Mends(act[y], k, g)' = Mends(act'[y], k, g)
    BY <2>1 DEF Redraws, Mends, Sees, Untreated, Does
  <2>4. forum[g].there BY <1>2
  <2>5. ASSUME NEW y \in Actors
        PROVE  /\ Redraws(act[y], g) => Redraws(act'[y], g)
               /\ Redraws(act'[y], g) => Redraws(act[y], g) \/ Mends(act'[y], k, g)
               /\ Mends(act[y], k, g) => Mends(act'[y], k, g)
    <3>1. CASE y # x BY <3>1
    <3>2. CASE y = x
      <4>1. \/ ~Redraws(act[y], g) /\ (Redraws(act'[y], g) => ~act'[y].clean)
            \/ Redraws(act'[y], g) /\ (Mends(act[y], k, g) \/ ~Redraws(act[y], g) => Mends(act'[y], k, g))
        BY <2>4, <3>2
      <4>2. \A a : (Mends(a, k, g) => Redraws(a, g)) /\ (Redraws(a, g) /\ ~a.clean => Mends(a, k, g)) BY DEF Mends
      <4>3. QED BY Zenon, <4>1, <4>2
    <3>3. QED BY <3>1, <3>2
  <2>6. QED BY <1>2, <2>2, <2>3, <2>5, KeptForum
<1>3. QED BY <1>1, <1>2, SteadyForums

LEMMA BeginForums ==
  ASSUME PresenceTypes, ForumInv, NEW x \in Actors, NEW op, NEW n \in SUBSET (Projects \cup Tasks), NEW f \in Place,
         InHand(op, n), Begin(x, op, n, f)
  PROVE  ForumInv'
<1>1. act[x] = Idle /\ ~act'[x].clean BY BeginFacts
<1>2. \A y \in Actors \ {x} : act'[y] = act[y]
  <2> DEFINE b == [Idle EXCEPT !.op = op, !.steps = Script(op), !.name = n, !.forum = f]
  <2>1. act' = [act EXCEPT ![x] = b] BY BeginFacts
  <2> HIDE DEF b
  <2>2. QED BY <2>1 DEF PresenceTypes
<1>3. ~Does(act[x], "bind") BY <1>1, IdleFacts DEF Does
<1>4. \A g \in Forums : ~Redraws(act[x], g)
  <2>1. act[x].steps = << >> BY <1>1, IdleFacts
  <2>2. << >> \notin Reads \cup Setups BY Afterwards
  <2>3. QED BY <2>1, <2>2 DEF Redraws, Does
<1>5. UNCHANGED <<proj, forum, stain>> BY DEF Begin
<1>6. QED BY <1>1, <1>2, <1>3, <1>4, <1>5, PassForums

\* A handler that goes on with its script, whatever it has listed, where there is
\* no forum to treat.
LEMMA GoneOn ==
  ASSUME PresenceTypes, ForumInv, NEW x \in Actors, NEW b \in Handler, act[x].steps # << >>,
         b.op = act[x].op, b.steps = act[x].steps, b.name = act[x].name, b.forum = act[x].forum, b.clean = act[x].clean,
         Step(x, b), UNCHANGED <<proj, forum, stain>>, ~Does(act[x], "bind"),
         \A g \in Forums : forum[g].there =>
            (~Redraws(act[x], g) /\ ~Redraws(Done(b), g)) \/ (Done(b).forum = g /\ Done(b).steps \in Reads)
  PROVE  ForumInv'
<1> DEFINE a == act[x]
<1>1. a \in Handler /\ Scripted(a) /\ act \in [Actors -> Handler] BY DEF PresenceTypes
<1>2. act'[x] = Done(b) /\ \A y \in Actors \ {x} : act'[y] = act[y] BY <1>1 DEF Step
<1>3. Scripted(b) /\ b.steps # << >> BY <1>1 DEF Scripted
<1>4. Done(b).clean => Done(b).steps \notin Opens \cup Reads
  <2>1. a.clean => a.steps \notin Opens \cup Reads BY DEF ForumInv, Unread
  <2>2. Done(b).steps \in Opens \cup Reads => b.steps \in Opens \cup Reads BY <1>3, Course
  <2>3. Done(b).clean => b.clean
    <3>1. Done(b) = Idle \/ SameBut(b, Done(b)) BY <1>3, Course
    <3>2. QED BY <3>1, IdleFacts DEF SameBut
  <2>4. QED BY <2>1, <2>2, <2>3
<1>5. ASSUME NEW g \in Forums, forum[g].there
      PROVE  \/ ~Redraws(act[x], g) /\ (Redraws(act'[x], g) => ~act'[x].clean)
             \/ Redraws(act'[x], g) /\ \A k : Mends(act[x], k, g) \/ ~Redraws(act[x], g) => Mends(act'[x], k, g)
  <2>1. CASE ~Redraws(act[x], g) /\ ~Redraws(Done(b), g) BY <1>2, <2>1
  <2>2. CASE Done(b).forum = g /\ Done(b).steps \in Reads BY <1>2, <2>2 DEF Redraws, Mends
  <2>3. QED BY <1>5, <2>1, <2>2
<1>6. QED BY <1>2, <1>4, <1>5, PassForums

\* Handlers that list, skip, or are done with their threads.
LEMMA AsideForums ==
  ASSUME PresenceTypes, ForumInv, NEW x \in Actors, Skip(x) \/ ApplyTask(x) \/ ListTasks(x) \/ SyncDone(x)
  PROVE  ForumInv'
<1> DEFINE a == act[x]
<1>1. a \in Handler /\ Scripted(a) /\ a.steps # << >> BY DEF PresenceTypes, Skip, ApplyTask, ListTasks, SyncDone, At
<1>2. UNCHANGED <<proj, forum, stain>> BY DEF Skip, ApplyTask, ListTasks, SyncDone
<1>3. CASE Skip(x)
  <2>1. ~Does(a, "bind") BY <1>3 DEF Skip, Skips, Does
  <2>2. Done(a).forum = a.forum \/ Done(a).forum = NoForum
    <3>1. Done(a) = Idle \/ SameBut(a, Done(a)) BY <1>1, Course
    <3>2. QED BY <3>1, IdleFacts DEF SameBut
  <2>3. \A g \in Forums : forum[g].there => a.forum # g /\ Done(a).forum # g
    BY <1>3, <2>2, ProvisioningAssumption DEF Skip
  <2>4. \A g \in Forums : forum[g].there => ~Redraws(a, g) /\ ~Redraws(Done(a), g) BY <2>3 DEF Redraws
  <2>5. Step(x, a) BY <1>3 DEF Skip
  <2>6. QED BY <1>1, <1>2, <2>1, <2>4, <2>5, GoneOn
<1>4. ASSUME NEW b \in Handler, Step(x, b), b.op = a.op, b.steps = a.steps, b.name = a.name, b.forum = a.forum,
             b.clean = a.clean, Does(a, "list") \/ Does(a, "sync") \/ (Does(a, "apply") /\ a.op = "task")
      PROVE  ForumInv'
  <2>1. ~Does(a, "bind") BY <1>4 DEF Does
  <2>2. Scripted(b) /\ b.steps # << >> /\ \A h : Does(b, h) = Does(a, h) BY <1>1, <1>4 DEF Scripted, Does
  <2>3. \A g : Redraws(b, g) = Redraws(a, g) BY <1>4, <2>2 DEF Redraws
  <2>4. CASE b.steps \in Reads /\ Done(b).steps \in Reads
    <3>1. Done(b) # Idle BY <2>4, Afterwards, IdleFacts
    <3>2. Done(b).forum = a.forum BY <1>4, <2>2, <3>1, Course DEF SameBut
    <3>3. \A g : Redraws(a, g) => a.forum = g BY DEF Redraws
    <3>4. \A g : Redraws(Done(b), g) => Done(b).forum = g BY DEF Redraws
    <3>5. QED BY <1>1, <1>2, <1>4, <2>1, <2>4, <3>2, <3>3, <3>4, GoneOn
  <2>5. CASE \A g : ~Redraws(b, g) /\ ~Redraws(Done(b), g) BY <1>1, <1>2, <1>4, <2>1, <2>3, <2>5, GoneOn
  <2>6. CASE Does(a, "apply") /\ a.op = "task"
    <3>1. a.steps \notin Reads \cup Setups BY <2>6, Parts DEF Does
    <3>2. \A g : ~Redraws(b, g) BY <2>3, <2>6, <3>1 DEF Redraws, Does
    <3>3. \A g : ~Redraws(Done(b), g) BY <1>4, <2>2, <2>6, Course
    <3>4. QED BY <2>5, <3>2, <3>3
  <2>7. QED BY <1>4, <2>2, <2>4, <2>5, <2>6, Course
<1>5. CASE SyncDone(x) BY <1>1, <1>4, <1>5 DEF SyncDone, At, Does
<1>6. CASE ListTasks(x)
  <2> DEFINE ts == Listed(x)  l == [t \in ts |-> task[t]]
  <2>1. l \in Lists
    <3>1. task \in [Tasks -> Row] BY DEF PresenceTypes
    <3> HIDE DEF ts
    <3>2. ts \in SUBSET Tasks BY DEF ts, Listed, Treated, Newest, Asked
    <3>3. l \in [ts -> Row] BY <3>1, <3>2
    <3> HIDE DEF l
    <3>4. QED BY <3>2, <3>3 DEF Lists
  <2>2. Step(x, [a EXCEPT !.list = l, !.todo = ts]) BY <1>6 DEF ListTasks
  <2> HIDE DEF l
  <2>3. ts \in SUBSET (Projects \cup Tasks) BY DEF Listed, Treated, Newest, Asked
  <2> HIDE DEF ts
  <2> DEFINE c == [a EXCEPT !.list = l]  b == [c EXCEPT !.todo = ts]
  <2>4. c \in Handler /\ c.op = a.op /\ c.steps = a.steps /\ c.name = a.name /\ c.forum = a.forum /\ c.clean = a.clean
    BY ZenonT(60), <1>1, <2>1, HandlerFields DEF Handler
  <2>5. Step(x, b) BY <2>2
  <2> HIDE DEF c
  <2>6. b \in Handler /\ b.op = a.op /\ b.steps = a.steps /\ b.name = a.name /\ b.forum = a.forum /\ b.clean = a.clean
    BY ZenonT(60), <2>3, <2>4, HandlerFields DEF Handler
  <2> HIDE DEF b
  <2>7. Does(a, "list") BY <1>6 DEF ListTasks, At, Does
  <2>8. QED BY <1>4, <2>5, <2>6, <2>7
<1>7. CASE ApplyTask(x)
  <2>1. PICK t \in a.name : /\ task' = [task EXCEPT ![t].done = ~@]
                            /\ Step(x, [a EXCEPT !.list = [s \in {t} |-> task'[t]], !.todo = {t}])
    BY <1>7 DEF ApplyTask
  <2>2. a.op = "task" /\ Does(a, "apply") BY <1>7 DEF ApplyTask, At, Does
  <2>3. t \in Tasks BY <1>1, <2>1, <2>2 DEF Scripted, InHand
  <2>4. task'[t] \in Row
    <3>1. task \in [Tasks -> Row] BY DEF PresenceTypes
    <3>2. task' \in [Tasks -> Row] BY ZenonT(60), <2>1, <2>3, <3>1 DEF Row
    <3>3. QED BY <2>3, <3>2
  <2> DEFINE l == [s \in {t} |-> task'[t]]
  <2>5. l \in Lists
    <3>1. l \in [{t} -> Row] /\ {t} \in SUBSET Tasks BY <2>3, <2>4
    <3> HIDE DEF l
    <3>2. QED BY <3>1 DEF Lists
  <2>6. Step(x, [a EXCEPT !.list = l, !.todo = {t}]) BY <2>1
  <2> HIDE DEF l
  <2>7. {t} \in SUBSET (Projects \cup Tasks) BY <2>3
  <2> DEFINE c == [a EXCEPT !.list = l]  b == [c EXCEPT !.todo = {t}]
  <2>8. c \in Handler /\ c.op = a.op /\ c.steps = a.steps /\ c.name = a.name /\ c.forum = a.forum /\ c.clean = a.clean
    BY ZenonT(60), <1>1, <2>5, HandlerFields DEF Handler
  <2>9. Step(x, b) BY <2>6
  <2> HIDE DEF c
  <2>10. b \in Handler /\ b.op = a.op /\ b.steps = a.steps /\ b.name = a.name /\ b.forum = a.forum /\ b.clean = a.clean
    BY ZenonT(60), <2>7, <2>8, HandlerFields DEF Handler
  <2> HIDE DEF b
  <2>11. QED BY <1>4, <2>2, <2>9, <2>10
<1>8. QED BY <1>3, <1>5, <1>6, <1>7

\* A handler at work on its threads.
LEMMA StillSyncs ==
  ASSUME PresenceTypes, ForumInv, NEW x \in Actors, NEW b, act' = [act EXCEPT ![x] = b],
         UNCHANGED <<proj, forum, stain>>, Does(act[x], "sync"), b.steps = act[x].steps, b.forum = act[x].forum,
         b.live = act[x].live, b.gone = act[x].gone, b.clean = act[x].clean
  PROVE  ForumInv'
<1> DEFINE a == act[x]
<1>1. act'[x] = b /\ \A y \in Actors \ {x} : act'[y] = act[y] BY DEF PresenceTypes
<1>2. b.clean => b.steps \notin Opens \cup Reads BY DEF ForumInv, Unread
<1>3. a.steps \notin Setups /\ ~Does(a, "prune") /\ ~Does(a, "ensure") /\ ~Does(a, "bind")
  BY Parts DEF Does
<1>4. ASSUME NEW g \in Forums
      PROVE  Redraws(b, g) = Redraws(a, g) /\ \A k : Mends(a, k, g) => Mends(b, k, g)
  <2>1. Redraws(b, g) = Redraws(a, g) BY DEF Redraws, Does
  <2>2. \A k : ~Untreated(a, k) /\ Sees(b, k, g) = Sees(a, k, g) BY <1>3 DEF Untreated, Sees
  <2>3. QED BY <2>1, <2>2 DEF Mends
<1>5. \A g \in Forums : forum[g].there =>
            \/ ~Redraws(act[x], g) /\ (Redraws(act'[x], g) => ~act'[x].clean)
            \/ Redraws(act'[x], g) /\ \A k : Mends(act[x], k, g) \/ ~Redraws(act[x], g) => Mends(act'[x], k, g)
  BY <1>1, <1>4
<1>6. QED BY <1>1, <1>2, <1>3, <1>5, PassForums

LEMMA SyncForums ==
  ASSUME PresenceTypes, ForumInv, NEW x \in Actors, NEW t, At(x, "sync"),
         SyncThread(x, t) \/ MakeThread(x, t) \/ MakeFails(x, t) \/ RecordThread(x, t) \/ SettleThread(x, t)
  PROVE  ForumInv'
<1> DEFINE a == act[x]
<1>1. UNCHANGED <<proj, forum, stain>>
  BY DEF SyncThread, MakeThread, MakeFails, RecordThread, SettleThread
<1>2. Does(a, "sync") BY DEF At, Does
<1>3. a \in Handler BY DEF PresenceTypes
<1>4. CASE act' = [act EXCEPT ![x] = Finished(x, t)] BY <1>1, <1>2, <1>4, FinishedFacts, StillSyncs
<1>5. ASSUME NEW n, act' = [act EXCEPT ![x].new = n] PROVE ForumInv'
  <2> DEFINE b == [a EXCEPT !.new = n]
  <2>1. act' = [act EXCEPT ![x] = b] BY <1>5
  <2>2. b.steps = a.steps /\ b.forum = a.forum /\ b.live = a.live /\ b.gone = a.gone /\ b.clean = a.clean
    BY <1>3 DEF Handler
  <2> HIDE DEF b
  <2>3. QED BY <1>1, <1>2, <2>1, <2>2, StillSyncs
<1>6. ASSUME NEW r, act' = [act EXCEPT ![x].list[t] = r] PROVE ForumInv'
  <2> DEFINE l == [a.list EXCEPT ![t] = r]
  <2>1. act' = [act EXCEPT ![x] = [a EXCEPT !.list = l]] BY <1>6
  <2> HIDE DEF l
  <2> DEFINE b == [a EXCEPT !.list = l]
  <2>2. act' = [act EXCEPT ![x] = b] BY <2>1
  <2>3. b.steps = a.steps /\ b.forum = a.forum /\ b.live = a.live /\ b.gone = a.gone /\ b.clean = a.clean
    BY <1>3 DEF Handler
  <2> HIDE DEF b
  <2>4. QED BY <1>1, <1>2, <2>2, <2>3, StillSyncs
<1>7. \/ act' = [act EXCEPT ![x] = Finished(x, t)]
      \/ \E n : act' = [act EXCEPT ![x].new = n]
      \/ \E r : act' = [act EXCEPT ![x].list[t] = r]
  <2>1. SyncThread(x, t) => act' = [act EXCEPT ![x] = Finished(x, t)] BY DEF SyncThread, Written
  <2>2. MakeThread(x, t) => act' = [act EXCEPT ![x].new = Len(thread')] BY DEF MakeThread
  <2>3. MakeFails(x, t) => act' = [act EXCEPT ![x] = Finished(x, t)] BY DEF MakeFails
  <2>4. RecordThread(x, t) => \/ act' = [act EXCEPT ![x] = Finished(x, t)]
                              \/ act' = [act EXCEPT ![x].list[t] = task'[t]]
    BY DEF RecordThread
  <2>5. SettleThread(x, t) => act' = [act EXCEPT ![x] = Finished(x, t)] BY DEF SettleThread
  <2>6. QED BY <2>1, <2>2, <2>3, <2>4, <2>5
<1>8. QED BY <1>4, <1>5, <1>6, <1>7

\* What is read is not treated yet.
LEMMA ReadForums ==
  ASSUME PresenceTypes, ForumInv, NEW x \in Actors, ReadProjects(x)
  PROVE  ForumInv'
<1> DEFINE a == act[x]
<1>1. a \in Handler /\ Scripted(a) /\ a.steps # << >> /\ Does(a, "read")
  BY DEF PresenceTypes, ReadProjects, At, Does
<1>2. PICK b \in Handler : /\ Step(x, b) /\ b.op = a.op /\ b.steps = a.steps /\ b.name = a.name
                           /\ b.forum = a.forum
  BY ReadFacts
<1>3. Scripted(b) /\ b.steps # << >> /\ Does(b, "read") BY <1>1, <1>2 DEF Scripted, Does
<1>4. Does(Done(b), "prune") /\ (Done(b) = Idle \/ Done(b).forum = b.forum) BY <1>3, Course DEF SameBut
<1>5. Done(b).forum = a.forum BY <1>2, <1>4, IdleFacts DEF Does
<1>6. act'[x] = Done(b) /\ \A y \in Actors \ {x} : act'[y] = act[y] BY <1>2 DEF Step, PresenceTypes
<1>7. Done(b).steps \notin Opens \cup Reads BY <1>4, Parts DEF Does
<1>8. ASSUME NEW g \in Forums
      PROVE  \/ ~Redraws(a, g) /\ ~Redraws(Done(b), g)
             \/ Redraws(Done(b), g) /\ \A k : Mends(Done(b), k, g)
  <2>1. CASE a.forum = g BY <1>4, <1>5, <2>1 DEF Redraws, Mends, Untreated
  <2>2. CASE a.forum # g BY <1>5, <2>2 DEF Redraws
  <2>3. QED BY <2>1, <2>2
<1>9. UNCHANGED <<proj, forum, stain>> BY DEF ReadProjects
<1>10. ~Does(a, "bind") BY <1>1 DEF Does
<1>11. QED BY <1>6, <1>7, <1>8, <1>9, <1>10, PassForums

\* The last tag has been ensured.
LEMMA EnsuredForums ==
  ASSUME PresenceTypes, ForumInv, NEW x \in Actors, At(x, "ensure"), act[x].live \cap act[x].todo = {},
         Step(x, act[x]), UNCHANGED <<proj, forum, stain>>
  PROVE  ForumInv'
<1> DEFINE a == act[x]  d == Done(a)
<1>1. a \in Handler /\ Scripted(a) /\ a.steps # << >> /\ Does(a, "ensure") BY DEF PresenceTypes, At, Does
<1>2. Does(d, "hub") /\ (d = Idle \/ SameBut(a, d)) BY <1>1, Course
<1>3. d.forum = a.forum /\ d.live = a.live /\ d.gone = a.gone /\ d.clean = a.clean
  BY <1>2, IdleFacts DEF Does, SameBut
<1>4. act'[x] = d /\ \A y \in Actors \ {x} : act'[y] = act[y] BY DEF Step, PresenceTypes
<1> HIDE DEF d
<1>5. d.steps \notin Opens \cup Reads BY <1>2, Parts DEF Does
<1>6. a.steps \notin Reads \cup Setups /\ ~Does(a, "prune") /\ ~Does(a, "bind") BY <1>1, Parts DEF Does
<1>7. ASSUME NEW g \in Forums
      PROVE  \/ ~Redraws(a, g) /\ ~Redraws(d, g)
             \/ Redraws(a, g) /\ Redraws(d, g) /\ \A k : Mends(a, k, g) => Mends(d, k, g)
  <2>1. CASE a.forum # g BY <1>3, <2>1 DEF Redraws
  <2>2. CASE a.forum = g
    <3>1. Redraws(a, g) /\ Redraws(d, g) BY <1>1, <1>2, <1>3, <2>2 DEF Redraws
    <3>2. \A k : ~Untreated(a, k) BY <1>6 DEF Untreated
    <3>3. \A k : Sees(d, k, g) = Sees(a, k, g) BY <1>3 DEF Sees
    <3>4. QED BY <1>3, <1>6, <3>1, <3>2, <3>3 DEF Mends
  <2>3. QED BY <2>1, <2>2
<1>8. QED BY <1>4, <1>5, <1>6, <1>7, PassForums

LEMMA LikeKeeps ==
  ASSUME NEW a, NEW b, Like(a, b), NEW k, NEW g, Mends(a, k, g)
  PROVE  Mends(b, k, g)
<1>1. Redraws(b, g) /\ b.steps = a.steps /\ (b.clean => a.clean) /\ Untreated(b, k) = Untreated(a, k)
  BY LikeFacts DEF Mends, Like, Alike
<1>2. Sees(b, k, g) = Sees(a, k, g) BY DEF Sees, Like
<1>3. QED BY <1>1, <1>2 DEF Mends

LEMMA SameProjects ==
  ASSUME UNCHANGED proj, NEW g
  PROVE  /\ Live(g)' = Live(g) /\ Gone(g)' = Gone(g)
         /\ \A k : forum'[g] = forum[g] => Tagged(k, g)' = Tagged(k, g) /\ Hubbed(k, g)' = Hubbed(k, g)
         /\ \A y : Redraws(act[y], g)' = Redraws(act'[y], g)
         /\ \A y, k : Mends(act[y], k, g)' = Mends(act'[y], k, g)
<1>1. Live(g)' = Live(g) /\ Gone(g)' = Gone(g) BY DEF Live, Gone
<1>2. ASSUME NEW k, forum'[g] = forum[g] PROVE Tagged(k, g)' = Tagged(k, g) /\ Hubbed(k, g)' = Hubbed(k, g)
  BY <1>1, <1>2 DEF Tagged, Hubbed
<1>3. ASSUME NEW y PROVE Redraws(act[y], g)' = Redraws(act'[y], g) BY DEF Redraws, Does
<1>4. ASSUME NEW y, NEW k PROVE Mends(act[y], k, g)' = Mends(act'[y], k, g)
  BY <1>1, <1>3 DEF Mends, Sees, Untreated, Does
<1>5. QED BY <1>1, <1>2, <1>3, <1>4

\* A step in f: what is written elsewhere stays as it is.
LEMMA Elsewhere ==
  ASSUME NEW g, NEW k, TagKept(k, g), HubKept(k, g), UNCHANGED proj, forum'[g] = forum[g], stain'[g] = stain[g],
         NEW x \in Actors, act[x].forum # g, act'[x].forum # g, \A y \in Actors \ {x} : Like(act[y], act'[y])
  PROVE  TagKept(k, g)' /\ HubKept(k, g)'
<1>1. ~Redraws(act[x], g) /\ ~Redraws(act'[x], g) BY DEF Redraws
<1>2. ASSUME NEW y \in Actors
      PROVE  Redraws(act'[y], g) = Redraws(act[y], g) /\ (Mends(act[y], k, g) => Mends(act'[y], k, g))
  <2>1. CASE y = x BY <1>1, <2>1 DEF Mends, Redraws
  <2>2. CASE y # x BY <2>2, LikeFacts, LikeKeeps
  <2>3. QED BY <2>1, <2>2
<1>3. QED BY <1>2, SameProjects, KeptForum

\* An edit of the tags of f; x goes on as a.
LEMMA EditForums ==
  ASSUME PresenceTypes, ForumInv, NEW x \in Actors, NEW a \in Handler, NEW tags, NEW o \in BOOLEAN,
         act[x].forum \in Forums, Edit(x, a, tags, o),
         a.forum = act[x].forum, Redraws(act[x], act[x].forum), Redraws(a, act[x].forum),
         a.clean => a.steps \notin Opens \cup Reads,
         \/ a.steps \in Reads
         \/ ~o /\ forum[act[x].forum].seen = forum[act[x].forum].tags =>
               \A k \in Mine(act[x].forum) :
                  LET right == (k \in tags) = (k \in Live(act[x].forum) \cup {Std}) IN
                     /\ Tagged(k, act[x].forum) => right
                     /\ Mends(act[x], k, act[x].forum) => right \/ Mends(a, k, act[x].forum)
  PROVE  ForumInv'
<1>f. PICK f \in Forums : f = act[x].forum OBVIOUS
<1>e. Edit(x, a, tags, o) /\ a.forum = f /\ Redraws(act[x], f) /\ Redraws(a, f) BY <1>f
<1> DEFINE late == o \/ forum[f].seen # forum[f].tags
<1>0. f \in Forums /\ forum \in [Forums -> Board] /\ stain \in [Forums -> BOOLEAN] BY DEF PresenceTypes
<1>1. UNCHANGED proj BY DEF Edit
<1>2. ~Does(act[x], "bind")
  <2>1. act[x].steps \notin Opens BY Parts DEF Redraws, Does
  <2>2. act[x] \in Handler /\ Scripted(act[x]) BY DEF PresenceTypes
  <2>3. Does(act[x], "bind") => act[x].steps # << >> BY DEF Does
  <2>4. QED BY <2>1, <2>2, <2>3, Course
<1>3. ASSUME NEW b \in BOOLEAN, Stained(x, a, f, b)
      PROVE  /\ Like(a, act'[x]) /\ act'[x].forum = f /\ \A y \in Actors \ {x} : Like(act[y], act'[y])
             /\ b => stain'[f] /\ \A y \in Actors : act'[y].forum = f => ~act'[y].clean
             /\ \A g \in Forums : g # f \/ ~b => stain'[g] = stain[g]
             /\ act'[x].clean => act'[x].steps \notin Opens \cup Reads
  <2>1. /\ Like(a, act'[x]) /\ \A y \in Actors \ {x} : Like(act[y], act'[y])
        /\ b => \A y \in Actors : act'[y].forum = f => ~act'[y].clean
        /\ b /\ f \in Forums => stain'[f]
        /\ \A g \in Forums : g # f \/ ~b => stain'[g] = stain[g]
    BY <1>3, StainedLike
  <2>2. QED BY <1>0, <1>e, <2>1 DEF Like, Alike
<1>4. /\ \A g \in Forums \ {f} : forum'[g] = forum[g]
      /\ forum'[f].there = forum[f].there /\ forum'[f].hubs = forum[f].hubs
  <2>1. CASE UNCHANGED forum BY <2>1
  <2>2. CASE \E s : forum' = [forum EXCEPT ![f].tags = tags, ![f].seen = s]
    <3>1. PICK s : forum' = [forum EXCEPT ![f].tags = tags, ![f].seen = s] BY <2>2
    <3>2. QED BY ZenonT(60), <1>0, <3>1 DEF Board
  <2>3. QED BY <1>f, <2>1, <2>2 DEF Edit
<1>5. ASSUME NEW b \in BOOLEAN, Stained(x, a, f, b), NEW g \in Forums \ {f}, NEW k, TagKept(k, g), HubKept(k, g)
      PROVE  TagKept(k, g)' /\ HubKept(k, g)'
  <2>1. act'[x].forum # g /\ act[x].forum # g /\ stain'[g] = stain[g] /\ \A y \in Actors \ {x} : Like(act[y], act'[y])
    BY <1>f, <1>3, <1>5
  <2>2. forum'[g] = forum[g] BY <1>4, <1>5
  <2>3. QED BY <1>1, <1>5, <2>1, <2>2, Elsewhere
<1>6. ASSUME NEW b \in BOOLEAN, Stained(x, a, f, b),
             \A k \in Mine(f) : TagKept(k, f) /\ HubKept(k, f) => TagKept(k, f)' /\ HubKept(k, f)'
      PROVE  ForumInv'
  <2>1. \A g \in Forums : forum'[g].there => forum[g].there BY <1>4
  <2>2. ASSUME NEW g \in Forums, NEW k \in Mine(g), TagKept(k, g), HubKept(k, g)
        PROVE  TagKept(k, g)' /\ HubKept(k, g)'
    <3>1. CASE g = f BY <1>6, <2>2, <3>1
    <3>2. CASE g # f BY <1>5, <1>6, <2>2, <3>2
    <3>3. QED BY <3>1, <3>2
  <2>3. /\ \A y \in Actors \ {x} : Like(act[y], act'[y])
        /\ act'[x].clean => act'[x].steps \notin Opens \cup Reads
    BY <1>3, <1>6
  <2>4. QED BY <1>1, <1>2, <2>1, <2>2, <2>3, SteadyForums
<1>7. CASE Stained(x, a, f, TRUE)
  <2>1. stain'[f] /\ \A y \in Actors : act'[y].forum = f => ~act'[y].clean BY <1>3, <1>7
  <2>2. \A y \in Actors : Redraws(act[y], f)' => act'[y].forum = f BY DEF Redraws
  <2>3. \A k : TagKept(k, f)' /\ HubKept(k, f)' BY <2>1, <2>2, MarkedForum
  <2>4. QED BY <1>6, <1>7, <2>3
<1>8. CASE ~late /\ Stained(x, a, f, FALSE) /\ forum'[f].tags = tags
  <2>0. ~o /\ forum[f].seen = forum[f].tags BY <1>8
  <2> HIDE DEF late
  <2>1. /\ Like(a, act'[x]) /\ act'[x].forum = f /\ \A y \in Actors \ {x} : Like(act[y], act'[y])
        /\ stain'[f] = stain[f]
    BY <1>0, <1>3, <1>8
  <2>2. ASSUME NEW k \in Mine(f), TagKept(k, f), HubKept(k, f) PROVE TagKept(k, f)' /\ HubKept(k, f)'
    <3>1. CASE a.steps \in Reads
      <4>1. act'[x].steps \in Reads BY <2>1, <3>1 DEF Like, Alike
      <4>2. QED BY <2>1, <4>1, RenewedForum
    <3>2. CASE a.steps \notin Reads
      <4> DEFINE right == (k \in tags) = (k \in Live(f) \cup {Std})
      <4>1. (Tagged(k, f) => right) /\ (Mends(act[x], k, f) => right \/ Mends(a, k, f))
        BY <1>f, <2>0, <2>2, <3>2
      <4>2. Live(f)' = Live(f) BY <1>1, SameProjects
      <4>3. right => Tagged(k, f)' BY <1>8, <4>2 DEF Tagged
      <4>4. Hubbed(k, f)' = Hubbed(k, f) BY <1>4, <4>2 DEF Hubbed
      <4> HIDE DEF right
      <4>5. ASSUME NEW y \in Actors
            PROVE  /\ Redraws(act'[y], f) = Redraws(act[y], f)
                   /\ Mends(act[y], k, f) => right \/ Mends(act'[y], k, f)
        <5>1. CASE y = x
          <6>1. Redraws(act'[x], f) /\ Redraws(act[x], f) BY <1>e, <2>1, LikeFacts
          <6>2. Mends(a, k, f) => Mends(act'[x], k, f) BY <2>1, LikeKeeps
          <6>3. QED BY <4>1, <5>1, <6>1, <6>2 DEF Redraws
        <5>2. CASE y # x BY <2>1, <5>2, LikeFacts, LikeKeeps
        <5>3. QED BY <5>1, <5>2
      <4>6. \A y \in Actors : Redraws(act[y], f)' = Redraws(act[y], f)
        BY <1>1, <4>5, SameProjects
      <4>7. \A y \in Actors : Mends(act[y], k, f) => Mends(act[y], k, f)' \/ Tagged(k, f)'
        BY <1>1, <4>3, <4>5, SameProjects
      <4>8. QED BY <2>1, <2>2, <4>1, <4>3, <4>4, <4>6, <4>7, KeptForum
    <3>3. QED BY <3>1, <3>2
  <2>3. QED BY <1>6, <1>8, <2>2
<1>9. Stained(x, a, f, TRUE) \/ (~late /\ Stained(x, a, f, FALSE) /\ forum'[f].tags = tags)
  <2>0. late \in BOOLEAN /\ (~late => forum[f].seen = forum[f].tags) OBVIOUS
  <2>1. \/ tags = forum[f].seen /\ Stained(x, a, f, late) /\ UNCHANGED forum
        \/ (\E s : forum' = [forum EXCEPT ![f].tags = tags, ![f].seen = s]) /\ Stained(x, a, f, late)
        \/ Stained(x, a, f, TRUE)
    BY <1>f DEF Edit
  <2> HIDE DEF late
  <2>2. ASSUME NEW s, forum' = [forum EXCEPT ![f].tags = tags, ![f].seen = s] PROVE forum'[f].tags = tags
    BY ZenonT(60), <1>0, <2>2 DEF Board
  <2>3. QED BY <2>0, <2>1, <2>2
<1>10. QED BY <1>7, <1>8, <1>9

\* A handler goes on with its script, in the same forum.
LEMMA GoesOn ==
  ASSUME PresenceTypes, NEW x \in Actors, NEW b \in Handler, Scripted(b), b.steps # << >>, b.steps = act[x].steps,
         b.forum = act[x].forum, b.clean = act[x].clean, ForumInv, act[x].forum \in Forums
  PROVE  /\ Done(b) \in Handler
         /\ Done(b).clean => Done(b).steps \notin Opens \cup Reads
         /\ Done(b) # Idle => Done(b).forum = act[x].forum
<1>1. Done(b) \in Handler BY DoneFacts
<1>2. Done(b) = Idle \/ SameBut(b, Done(b)) BY Course
<1>3. Done(b).clean => b.clean BY <1>2, IdleFacts DEF SameBut
<1>4. b.clean => b.steps \notin Opens \cup Reads BY DEF ForumInv, Unread
<1>5. QED BY <1>1, <1>2, <1>3, <1>4, Course DEF SameBut

LEMMA PruneForums ==
  ASSUME PresenceTypes, ForumInv, NEW x \in Actors, act[x].forum \in Forums, Prune(x)
  PROVE  ForumInv'
<1> DEFINE a == act[x]  ps == ToEnsure(a)  b == [a EXCEPT !.todo = ps]
<1>f. PICK f \in Forums : f = a.forum OBVIOUS
<1>1. a \in Handler /\ Scripted(a) /\ a.steps # << >> /\ Does(a, "prune") BY DEF PresenceTypes, Prune, At, Does
<1>2. ps \in SUBSET (Projects \cup Tasks) /\ a.live \subseteq ps BY <1>1 DEF Handler, ToEnsure
<1>4. Edit(x, Done(b), Pruned(x), Overtaken(x)) BY DEF Prune
<1> HIDE DEF ps
<1>3. /\ b \in Handler /\ b.steps = a.steps /\ b.op = a.op /\ b.name = a.name /\ b.forum = a.forum
      /\ b.clean = a.clean /\ b.live = a.live /\ b.gone = a.gone /\ b.todo = ps
  BY <1>1, <1>2, HandlerFields DEF Handler
<1> HIDE DEF b
<1> DEFINE d == Done(b)
<1>5. Scripted(b) /\ b.steps # << >> /\ Does(b, "prune") BY <1>1, <1>3 DEF Scripted, Does
<1>6. d.steps \in Setups /\ (d = Idle \/ SameBut(b, d)) BY <1>3, <1>5, Course
<1>7. d # Idle BY <1>6, Afterwards, IdleFacts
<1>8. d \in Handler /\ (d.clean => d.steps \notin Opens \cup Reads) /\ d.forum = f
  BY <1>f, <1>3, <1>5, <1>7, GoesOn
<1>9. d.live = a.live /\ d.live \subseteq d.todo BY <1>2, <1>3, <1>6, <1>7 DEF SameBut
<1> HIDE DEF d
<1>10. Redraws(a, f) /\ Redraws(d, f) BY <1>f, <1>1, <1>6, <1>8 DEF Redraws
<1>11. ASSUME ~Overtaken(x), forum[f].seen = forum[f].tags, NEW k \in Mine(f)
       PROVE  LET right == (k \in Pruned(x)) = (k \in Live(f) \cup {Std}) IN
                  /\ Tagged(k, f) => right
                  /\ Mends(a, k, f) => right \/ Mends(d, k, f)
  <2>1. a.live = Live(f) /\ a.gone = Gone(f) BY <1>f, <1>11 DEF Overtaken
  <2>2. k \in Pruned(x) <=> k \in forum[f].tags /\ k \notin Gone(f) BY <1>f, <1>11, <2>1 DEF Pruned
  <2>3. CASE k \in Gone(f)
    <3>1. k # Std /\ k \notin Live(f) BY <2>3, ProvisioningAssumption DEF Live, Gone
    <3>2. QED BY <2>2, <2>3, <3>1
  <2>4. CASE k \notin Gone(f)
    <3>1. k \in Live(f) \/ k = Std BY <2>4 DEF Mine
    <3>2. Untreated(d, k) BY <1>6, <1>9, <2>1, <3>1 DEF Untreated
    <3>3. Mends(d, k, f) BY <1>10, <3>2 DEF Mends
    <3>4. QED BY <2>2, <2>4, <3>3 DEF Tagged
  <2>5. QED BY <2>3, <2>4
<1>12. Overtaken(x) \in BOOLEAN BY DEF Overtaken
<1> DEFINE tags == Pruned(x)  o == Overtaken(x)
<1>13. ~o /\ forum[a.forum].seen = forum[a.forum].tags =>
          \A k \in Mine(a.forum) :
             LET right == (k \in tags) = (k \in Live(a.forum) \cup {Std}) IN
                /\ Tagged(k, a.forum) => right
                /\ Mends(a, k, a.forum) => right \/ Mends(d, k, a.forum)
  BY <1>f, <1>11
<1>14. Edit(x, d, tags, o) BY <1>4 DEF d
<1> HIDE DEF tags, o
<1>15. o \in BOOLEAN BY <1>12 DEF o
<1>16. QED BY <1>f, <1>8, <1>10, <1>13, <1>14, <1>15, EditForums

\* The tag that is added is the one of a live project; one that is taken is not.
LEMMA WithTag ==
  ASSUME NEW f, NEW p, NEW k, forum[f].seen = forum[f].tags, p = k => k \in Live(f) \cup {Std}
  PROVE  LET right == (k \in With(f, p)) = (k \in Live(f) \cup {Std}) IN
            /\ Tagged(k, f) => right
            /\ k = p /\ ~Full(f, p) => right
<1>1. With(f, p) = forum[f].tags \/ With(f, p) = forum[f].tags \cup {p} BY DEF With
<1>2. ~Full(f, p) => p \in With(f, p) BY DEF With, Full
<1>3. QED BY <1>1, <1>2 DEF Tagged

LEMMA SetupForums ==
  ASSUME PresenceTypes, ForumInv, NEW x \in Actors, act[x].forum \in Forums, Setup(x)
  PROVE  ForumInv'
<1> DEFINE a == act[x]  d == Done(a)
<1>f. PICK f \in Forums : f = a.forum OBVIOUS
<1>1. a \in Handler /\ Scripted(a) /\ a.steps # << >> /\ Does(a, "setup") BY DEF PresenceTypes, Setup, At, Does
<1>2. /\ (a.steps \in Reads /\ d.steps \in Reads) \/ (a.steps \in Setups /\ Does(d, "ensure"))
      /\ d = Idle \/ SameBut(a, d)
  BY <1>1, Course
<1>3. d # Idle BY <1>2, Afterwards, IdleFacts DEF Does
<1>4. d \in Handler /\ (d.clean => d.steps \notin Opens \cup Reads) /\ d.forum = f BY <1>f, <1>1, <1>3, GoesOn
<1>5. SameBut(a, d) BY <1>2, <1>3
<1>6. Edit(x, d, With(f, Std), Full(f, Std)) BY <1>f DEF Setup
<1> HIDE DEF d
<1>7. Redraws(a, f) /\ Redraws(d, f) BY <1>f, <1>2, <1>4 DEF Redraws
<1>8. ASSUME d.steps \notin Reads, ~Full(f, Std), forum[f].seen = forum[f].tags, NEW k \in Mine(f)
      PROVE  LET right == (k \in With(f, Std)) = (k \in Live(f) \cup {Std}) IN
                 /\ Tagged(k, f) => right
                 /\ Mends(a, k, f) => right \/ Mends(d, k, f)
  <2>1. a.steps \in Setups /\ Does(d, "ensure") BY <1>2, <1>8
  <2>2. a.steps \notin Reads /\ ~Does(a, "prune") /\ ~Does(a, "ensure") BY <1>1, <2>1, Parts DEF Does
  <2>3. k # Std /\ Mends(a, k, f) => Mends(d, k, f)
    <3>1. k # Std /\ Untreated(a, k) => Untreated(d, k) BY <1>5, <2>1, <2>2 DEF Untreated, SameBut
    <3>2. Sees(d, k, f) = Sees(a, k, f) /\ d.clean = a.clean BY <1>5 DEF Sees, SameBut
    <3>3. QED BY <1>7, <2>2, <3>1, <3>2 DEF Mends
  <2>4. QED BY <1>8, <2>3, WithTag
<1> DEFINE tags == With(f, Std)  o == Full(f, Std)
<1>9. \/ d.steps \in Reads
      \/ ~o /\ forum[a.forum].seen = forum[a.forum].tags =>
          \A k \in Mine(a.forum) :
             LET right == (k \in tags) = (k \in Live(a.forum) \cup {Std}) IN
                /\ Tagged(k, a.forum) => right
                /\ Mends(a, k, a.forum) => right \/ Mends(d, k, a.forum)
  BY <1>f, <1>8
<1>10. o \in BOOLEAN /\ Edit(x, d, tags, o) BY <1>6 DEF Full
<1> HIDE DEF tags, o
<1>11. QED BY <1>f, <1>4, <1>7, <1>9, <1>10, EditForums

LEMMA EnsureForums ==
  ASSUME PresenceTypes, ForumInv, NEW x \in Actors, act[x].forum \in Forums, Ensure(x)
  PROVE  ForumInv'
<1> DEFINE a == act[x]
<1>f. PICK f \in Forums : f = a.forum OBVIOUS
<1>1. a \in Handler /\ Scripted(a) /\ a.steps # << >> /\ Does(a, "ensure") BY DEF PresenceTypes, Ensure, At, Does
<1>2. CASE ToEnsure(a) \cap a.todo = {} /\ Step(x, a) /\ UNCHANGED <<proj, forum, stain>>
  <2>1. a.live \cap a.todo = {} BY <1>2 DEF ToEnsure
  <2>2. QED BY <1>2, <2>1, EnsuredForums DEF Ensure
<1>3. ASSUME NEW p \in ToEnsure(a) \cap a.todo,
             Edit(x, [a EXCEPT !.todo = @ \ {p}], With(f, p), Full(f, p) \/ Overtaken(x))
      PROVE  ForumInv'
  <2> DEFINE ts == a.todo \ {p}  d == [a EXCEPT !.todo = ts]
  <2>1. ts \in SUBSET (Projects \cup Tasks) BY <1>1 DEF Handler
  <2>2. Edit(x, d, With(f, p), Full(f, p) \/ Overtaken(x)) BY <1>3
  <2> HIDE DEF ts
  <2>3. /\ d \in Handler /\ d.steps = a.steps /\ d.forum = a.forum /\ d.clean = a.clean /\ d.live = a.live
        /\ d.gone = a.gone /\ d.todo = ts
    BY <1>1, <2>1, HandlerFields DEF Handler
  <2> HIDE DEF d
  <2>4. Does(d, "ensure") /\ Redraws(a, f) /\ Redraws(d, f) BY <1>f, <1>1, <2>3 DEF Redraws, Does
  <2>5. a.steps \notin Reads \cup Setups \cup Opens /\ ~Does(a, "prune") BY <1>1, Parts DEF Does
  <2>6. ASSUME ~(Full(f, p) \/ Overtaken(x)), forum[f].seen = forum[f].tags, NEW k \in Mine(f)
        PROVE  LET right == (k \in With(f, p)) = (k \in Live(f) \cup {Std}) IN
                   /\ Tagged(k, f) => right
                   /\ Mends(a, k, f) => right \/ Mends(d, k, f)
    <3>1. p = k => k \in Live(f) \cup {Std} BY <1>f, <1>3, <2>6 DEF Overtaken, ToEnsure, Mine
    <3>2. k # p /\ Mends(a, k, f) => Mends(d, k, f)
      <4>1. k # p /\ Untreated(a, k) => Untreated(d, k) BY <2>3, <2>4, <2>5 DEF Untreated, ts
      <4>2. Sees(d, k, f) = Sees(a, k, f) BY <2>3 DEF Sees
      <4>3. QED BY <2>3, <2>4, <2>5, <4>1, <4>2 DEF Mends
    <3>3. QED BY <2>6, <3>1, <3>2, WithTag
  <2> DEFINE tags == With(f, p)  o == Full(f, p) \/ Overtaken(x)
  <2>7. ~o /\ forum[a.forum].seen = forum[a.forum].tags =>
          \A k \in Mine(a.forum) :
             LET right == (k \in tags) = (k \in Live(a.forum) \cup {Std}) IN
                /\ Tagged(k, a.forum) => right
                /\ Mends(a, k, a.forum) => right \/ Mends(d, k, a.forum)
    BY <1>f, <2>6
  <2>8. o \in BOOLEAN /\ Edit(x, d, tags, o) BY <2>2
  <2> HIDE DEF tags, o
  <2>9. d.clean => d.steps \notin Opens \cup Reads BY <2>3, <2>5
  <2>10. QED BY <1>f, <2>3, <2>4, <2>7, <2>8, <2>9, EditForums
<1>4. QED BY <1>f, <1>2, <1>3 DEF Ensure

LEMMA OwnForums ==
  ASSUME PresenceTypes, ForumInv, NEW x \in Actors, act[x].forum \in Forums, EnsureOwn(x) \/ Untag(x)
  PROVE  ForumInv'
<1> DEFINE a == act[x]  d == Done(a)
<1>f. PICK f \in Forums : f = a.forum OBVIOUS
<1>1. a \in Handler /\ Scripted(a) /\ a.steps # << >> /\ (Does(a, "own") \/ Does(a, "untag"))
  BY DEF PresenceTypes, EnsureOwn, Untag, At, Does
<1>2. a.steps \in Reads /\ d.steps \in Reads BY <1>1, Course
<1>3. d # Idle BY <1>2, Afterwards, IdleFacts
<1>4. d \in Handler /\ (d.clean => d.steps \notin Opens \cup Reads) /\ d.forum = f BY <1>f, <1>1, <1>3, GoesOn
<1>5. \E tags : \E o \in BOOLEAN : Edit(x, d, tags, o)
  <2>1. CASE EnsureOwn(x)
    <3>1. PICK p : Edit(x, d, With(f, p), Full(f, p) \/ p \notin Live(f)) BY <1>f, <2>1 DEF EnsureOwn
    <3>2. (Full(f, p) \/ p \notin Live(f)) \in BOOLEAN OBVIOUS
    <3> HIDE DEF d
    <3>3. QED BY <3>1, <3>2
  <2>2. CASE Untag(x)
    <3>1. PICK p : Edit(x, d, forum[f].seen \ {p}, p \in Live(f)) BY <1>f, <2>2 DEF Untag
    <3>2. (p \in Live(f)) \in BOOLEAN OBVIOUS
    <3> HIDE DEF d
    <3>3. QED BY <3>1, <3>2
  <2>3. QED BY <2>1, <2>2
<1> HIDE DEF d
<1>6. Redraws(a, f) /\ Redraws(d, f) BY <1>f, <1>2, <1>4 DEF Redraws
<1>7. QED BY <1>f, <1>2, <1>4, <1>5, <1>6, EditForums

LEMMA StainedAll ==
  ASSUME PresenceTypes, NEW x \in Actors, NEW a \in Handler, NEW f \in Forums, Stained(x, a, f, TRUE)
  PROVE  /\ Like(a, act'[x]) /\ \A y \in Actors \ {x} : Like(act[y], act'[y])
         /\ \A y \in Actors : act'[y].forum = f => ~act'[y].clean
         /\ stain'[f] /\ \A g \in Forums \ {f} : stain'[g] = stain[g]
<1>1. PICK b \in BOOLEAN : b /\ Stained(x, a, f, b) OBVIOUS
<1>2. ASSUME NEW y \in Actors, act'[y].forum = f PROVE ~act'[y].clean BY <1>1, <1>2, StainedLike
<1>3. ASSUME NEW g \in Forums \ {f} PROVE stain'[g] = stain[g] BY <1>3 DEF Stained, PresenceTypes
<1>4. QED BY <1>1, <1>2, <1>3, StainedLike

\* The hub is drawn.
LEMMA HubForums ==
  ASSUME PresenceTypes, ForumInv, NEW x \in Actors, act[x].forum \in Forums, MountHub(x)
  PROVE  ForumInv'
<1> DEFINE a == act[x]  d == Done(a)
<1>f. PICK f \in Forums : f = a.forum OBVIOUS
<1>0. a \in Handler /\ Scripted(a) /\ a.steps # << >> /\ Does(a, "hub") BY DEF PresenceTypes, MountHub, At, Does
<1>1. forum \in [Forums -> Board] /\ stain \in [Forums -> BOOLEAN] /\ UNCHANGED proj
  BY DEF PresenceTypes, MountHub
<1>2. (d = Idle \/ d.forum = f) /\ d \in Handler BY <1>f, <1>0, DoneFacts, Course DEF SameBut
<1>3. d.forum = f \/ d.forum = NoForum BY <1>2, IdleFacts
<1>4. a.steps \notin Reads \cup Setups \cup Opens /\ ~Does(a, "prune") /\ ~Does(a, "ensure") /\ ~Does(a, "bind")
  BY <1>0, Parts DEF Does
<1>5. d.steps \notin Opens \cup Reads BY <1>0, <1>4, Course
<1>6. \A g : ~Redraws(d, g) BY <1>0, Course
<1>7. Redraws(a, f) BY <1>f, <1>0 DEF Redraws
<1> HIDE DEF d
<1> DEFINE hubs == Redrawn(f, forum[f].hubs, a.live)
<1>8. UNCHANGED forum \/ \E k : forum' = [forum EXCEPT ![f].hubs = hubs, ![f].known = k]
  BY <1>f DEF MountHub
<1>9. ASSUME NEW k, forum' = [forum EXCEPT ![f].hubs = hubs, ![f].known = k]
      PROVE  /\ \A g \in Forums \ {f} : forum'[g] = forum[g]
             /\ forum'[f].there = forum[f].there /\ forum'[f].tags = forum[f].tags /\ forum'[f].hubs = hubs
  <2> HIDE DEF hubs
  <2>1. QED BY ZenonT(60), <1>1, <1>9 DEF Board
<1>10. /\ \A g \in Forums \ {f} : forum'[g] = forum[g]
       /\ forum'[f].there = forum[f].there /\ forum'[f].tags = forum[f].tags
  <2> HIDE DEF hubs
  <2>1. QED BY <1>8, <1>9
<1>11. ASSUME \A y \in Actors \ {x} : Like(act[y], act'[y]), act'[x].forum = f \/ act'[x].forum = NoForum,
              act'[x].clean => act'[x].steps \notin Opens \cup Reads,
              \A g \in Forums \ {f} : stain'[g] = stain[g],
              \A k \in Mine(f) : TagKept(k, f) /\ HubKept(k, f) => TagKept(k, f)' /\ HubKept(k, f)'
       PROVE  ForumInv'
  <2>1. \A g \in Forums : forum'[g].there => forum[g].there BY <1>10
  <2>2. ASSUME NEW g \in Forums, NEW k \in Mine(g), TagKept(k, g), HubKept(k, g)
        PROVE  TagKept(k, g)' /\ HubKept(k, g)'
    <3>1. CASE g = f BY <1>11, <2>2, <3>1
    <3>2. CASE g # f
      <4>1. act[x].forum # g /\ act'[x].forum # g BY <1>f, <1>11, <3>2, ProvisioningAssumption
      <4>2. forum'[g] = forum[g] /\ stain'[g] = stain[g] BY <1>10, <1>11, <3>2
      <4>3. QED BY <1>1, <1>11, <2>2, <4>1, <4>2, Elsewhere
    <3>3. QED BY <3>1, <3>2
  <2>3. QED BY <1>1, <1>4, <1>11, <2>1, <2>2, SteadyForums
<1>12. CASE Stained(x, d, f, TRUE)
  <2>1. /\ Like(d, act'[x]) /\ \A y \in Actors \ {x} : Like(act[y], act'[y])
        /\ \A y \in Actors : act'[y].forum = f => ~act'[y].clean
        /\ stain'[f] /\ \A g \in Forums \ {f} : stain'[g] = stain[g]
    <3>0. PICK e \in Handler : e = d BY <1>2
    <3>2. Stained(x, e, f, TRUE) BY <1>12, <3>0
    <3>3. QED BY <3>0, <3>2, StainedAll
  <2>2. \A y \in Actors : Redraws(act[y], f)' => act'[y].forum = f BY DEF Redraws
  <2>3. \A k : TagKept(k, f)' /\ HubKept(k, f)' BY <2>1, <2>2, MarkedForum
  <2>4. /\ act'[x].forum = f \/ act'[x].forum = NoForum
        /\ act'[x].clean => act'[x].steps \notin Opens \cup Reads
    BY <1>3, <1>5, <2>1 DEF Like, Alike
  <2>5. QED BY <1>11, <2>1, <2>3, <2>4
<1>13. CASE /\ a.clean /\ ~Overtaken(x) /\ forum[f].known = Len(forum[f].hubs)
            /\ \E k : forum' = [forum EXCEPT ![f].hubs = hubs, ![f].known = k]
            /\ stain' = [stain EXCEPT ![f] = FALSE] /\ Step(x, a)
  <2>1. act'[x] = d /\ \A y \in Actors \ {x} : act'[y] = act[y] BY <1>13 DEF Step, PresenceTypes, d
  <2>2. \A y \in Actors \ {x} : Like(act[y], act'[y]) BY <2>1 DEF Like, Alike
  <2>3. a.live = Live(f) /\ a.gone = Gone(f) BY <1>f, <1>13 DEF Overtaken
  <2>4. hubs[1] = a.live
    <3>1. forum[f].hubs \in Seq(SUBSET Projects) BY <1>1 DEF Board
    <3>2. CASE forum[f].known = 0
      <4>1. Len(forum[f].hubs) = 0 BY <1>13, <3>2
      <4>2. hubs = Append(forum[f].hubs, a.live) BY <3>2 DEF Redrawn
      <4>3. QED BY <3>1, <4>1, <4>2
    <3>3. CASE forum[f].known # 0
      <4>1. 1 \in DOMAIN forum[f].hubs BY <1>13, <3>1, <3>3
      <4>2. hubs = [forum[f].hubs EXCEPT ![1] = a.live] BY <3>3 DEF Redrawn
      <4>3. QED BY <4>1, <4>2
    <3>4. QED BY <3>2, <3>3
  <2>5. forum'[f].hubs[1] = Live(f)
    <3> HIDE DEF hubs
    <3>1. forum'[f].hubs = hubs BY <1>9, <1>13
    <3>2. QED BY <2>3, <2>4, <3>1
  <2>6. Live(f)' = Live(f) BY <1>1, SameProjects
  <2>7. ASSUME NEW k \in Mine(f), TagKept(k, f), HubKept(k, f) PROVE TagKept(k, f)' /\ HubKept(k, f)'
    <3>1. HubKept(k, f)' BY <2>5, <2>6 DEF HubKept, Hubbed
    <3>2. ~Mends(a, k, f)
      <4>1. Sees(a, k, f) BY <2>3 DEF Sees
      <4>2. ~Untreated(a, k) BY <1>4 DEF Untreated
      <4>3. QED BY <1>4, <1>13, <4>1, <4>2 DEF Mends
    <3>3. CASE Tagged(k, f)
      <4>1. Tagged(k, f)' BY <1>10, <2>6, <3>3 DEF Tagged
      <4>2. QED BY <3>1, <4>1 DEF TagKept
    <3>4. CASE \E y \in Actors : Mends(act[y], k, f)
      <4>1. PICK y \in Actors \ {x} : Mends(act[y], k, f) BY <3>2, <3>4
      <4>2. Mends(act[y], k, f)' BY <1>1, <2>1, <4>1, SameProjects
      <4>3. QED BY <3>1, <4>2 DEF TagKept
    <3>5. QED BY <1>7, <2>7, <3>3, <3>4 DEF TagKept
  <2>8. \A g \in Forums \ {f} : stain'[g] = stain[g] BY <1>1, <1>13
  <2>9. QED BY <1>3, <1>5, <1>11, <2>1, <2>2, <2>7, <2>8
<1>14. QED
  <2> DEFINE late == ~a.clean \/ Overtaken(x) \/ forum[f].seen # forum[f].tags \/ forum[f].known # Len(forum[f].hubs)
  <2>1. \/ /\ \E k : forum' = [forum EXCEPT ![f].hubs = hubs, ![f].known = k]
           /\ IF late THEN Stained(x, d, f, TRUE) ELSE stain' = [stain EXCEPT ![f] = FALSE] /\ Step(x, a)
        \/ Stained(x, d, f, TRUE)
    BY <1>f DEF MountHub, d
  <2> HIDE DEF hubs
  <2>2. QED BY <1>12, <1>13, <2>1

\* A step of x's that changes the project p, where x does not treat a forum yet.
LEMMA ProjectForums ==
  ASSUME ForumInv, NEW x \in Actors, NEW p \in Projects, \A q \in Projects \ {p} : proj'[q] = proj[q],
         \A y \in Actors \ {x} : Like(act[y], act'[y]), ~act'[x].clean,
         \A k : Rebinds(act[x], k) => k = p,
         \A g : ~Redraws(act[x], g) /\ (Redraws(act'[x], g) => act'[x].steps \in Reads),
         \A g \in Forums : stain[g] => stain'[g],
         \A g \in Forums : forum'[g] = forum[g] \/ (act'[x].forum = g /\ act'[x].steps \in Reads),
         \A g \in Forums : forum'[g].there /\ p \in Mine(g)' => TagKept(p, g)' /\ HubKept(p, g)'
  PROVE  ForumInv'
<1>1. Unread'
  <2>1. \A y \in Actors \ {x} : act'[y].steps = act[y].steps /\ (act'[y].clean => act[y].clean) BY DEF Like, Alike
  <2>2. QED BY <2>1 DEF ForumInv, Unread
<1>2. ASSUME NEW g \in Forums, forum'[g].there, NEW k \in Mine(g)', k # p PROVE TagKept(k, g)' /\ HubKept(k, g)'
  <2>1. CASE act'[x].forum = g /\ act'[x].steps \in Reads BY <2>1, RenewedForum
  <2>2. CASE ~(act'[x].forum = g /\ act'[x].steps \in Reads)
    <3>1. forum'[g] = forum[g] /\ ~Redraws(act'[x], g) BY <2>2 DEF Redraws
    <3>2. k \in Live(g) \cup Gone(g) \cup {Std} /\ \A y \in Actors : ~Rebinds(act'[y], k)
      <4>1. k \in Live(g)' \cup Gone(g)' \cup {Std} /\ \A y \in Actors : ~Rebinds(act[y], k)' BY <1>2 DEF Mine
      <4>2. k \in Projects => (k \in Live(g)' <=> k \in Live(g)) /\ (k \in Gone(g)' <=> k \in Gone(g))
        BY <1>2 DEF Live, Gone
      <4>3. k \in Live(g)' \cup Gone(g)' => k \in Projects BY DEF Live, Gone
      <4>4. \A y \in Actors : Rebinds(act[y], k)' = Rebinds(act'[y], k) BY DEF Rebinds, Does
      <4>5. QED BY <4>1, <4>2, <4>3, <4>4
    <3>3. ASSUME NEW y \in Actors PROVE ~Rebinds(act[y], k)
      <4>1. CASE y = x BY <1>2, <4>1
      <4>2. CASE y # x
        <5>1. Rebinds(act[y], k) = Rebinds(act'[y], k) BY <4>2, LikeFacts
        <5>2. QED BY <3>2, <5>1
      <4>3. QED BY <4>1, <4>2
    <3>4. TagKept(k, g) /\ HubKept(k, g) BY <1>2, <3>1, <3>2, <3>3 DEF ForumInv, ForumKept, Mine
    <3>5. (k \in Live(g))' = (k \in Live(g)) /\ (k \in Gone(g))' = (k \in Gone(g))
      <4>1. k \in Projects => (k \in Live(g)' <=> k \in Live(g)) /\ (k \in Gone(g)' <=> k \in Gone(g))
        BY <1>2 DEF Live, Gone
      <4>2. k \notin Projects => k \notin Live(g) /\ k \notin Live(g)' /\ k \notin Gone(g) /\ k \notin Gone(g)'
        BY DEF Live, Gone
      <4>3. QED BY <4>1, <4>2
    <3>6. Tagged(k, g)' = Tagged(k, g) /\ Hubbed(k, g)' = Hubbed(k, g) BY <3>1, <3>5 DEF Tagged, Hubbed
    <3>7. ASSUME NEW y \in Actors
          PROVE  Redraws(act[y], g)' = Redraws(act[y], g) /\ (Mends(act[y], k, g) => Mends(act[y], k, g)')
      <4>1. CASE y = x
        <5>1. Redraws(act[y], g)' = Redraws(act'[x], g) BY <4>1 DEF Redraws, Does
        <5>2. ~Redraws(act[y], g) /\ ~Redraws(act'[x], g) BY <3>1, <4>1
        <5>3. QED BY <5>1, <5>2 DEF Mends, Redraws
      <4>2. CASE y # x BY <3>5, <4>2, LikeMends
      <4>3. QED BY <4>1, <4>2
    <3>8. QED BY <3>4, <3>6, <3>7, KeptForum
  <2>3. QED BY <2>1, <2>2
<1>3. ASSUME NEW g \in Forums, forum'[g].there, NEW k \in Mine(g)' PROVE TagKept(k, g)' /\ HubKept(k, g)'
  BY <1>2, <1>3
<1>4. QED BY <1>1, <1>3 DEF ForumInv, ForumKept

\* What a project of p's forum is, once its row has changed.
LEMMA MineMoved ==
  ASSUME NEW p \in Projects, NEW g, p \in Mine(g)', Std \notin Projects
  PROVE  proj'[p].forum = g
  BY DEF Mine, Live, Gone

LEMMA ApplyForums ==
  ASSUME PresenceTypes, ForumInv, NEW x \in Actors, ApplyProject(x)
  PROVE  ForumInv'
<1> DEFINE a == act[x]  d == Done(a)
<1>1. a \in Handler /\ Scripted(a) /\ a.steps # << >> /\ Does(a, "apply")
  BY DEF PresenceTypes, ApplyProject, At, Does
<1>2. PICK p \in a.name \cap Projects : Create(x, p) \/ SetArchived(x, p) \/ Unarchive(x, p)
  BY DEF ApplyProject
<1>3. UNCHANGED forum /\ proj \in [Projects -> Project] /\ stain \in [Forums -> BOOLEAN] /\ Std \notin Projects
  BY ProvisioningAssumption DEF ApplyProject, PresenceTypes
<1>4. a.op \notin {"rebuild", "task"} => d.steps \in Reads /\ a.steps \in Opens BY <1>1, Course
<1>5. a.op = "rebuild" => Does(d, "bind") /\ a.steps \in Opens BY <1>1, Course
<1>6. d \in Handler /\ (d = Idle \/ SameBut(a, d)) BY <1>1, DoneFacts, Course
<1>7. Create(x, p) \/ SetArchived(x, p) \/ Unarchive(x, p) => a.op # "task" /\ a.steps \in Opens
  BY <1>4, <1>5 DEF Create, SetArchived, Unarchive
<1>8. ~a.clean BY <1>2, <1>7 DEF ForumInv, Unread
<1>9. ~d.clean BY <1>6, <1>8, IdleFacts DEF SameBut
<1>10. a.steps \notin Reads \cup Setups /\ ~Does(a, "bind") BY <1>1, Parts DEF Does
<1>11. (\A g : ~Redraws(a, g)) /\ \A k : ~Rebinds(a, k) BY <1>1, <1>10 DEF Redraws, Rebinds, Does
<1>12. \A g : Redraws(d, g) => d.forum = g BY DEF Redraws
<1>13. d.steps \in Reads => d.forum = a.forum BY <1>6, Afterwards, IdleFacts DEF SameBut
<1>14. CASE Create(x, p)
  <2>0. UNCHANGED stain /\ a.op \notin {"rebuild", "task"} BY <1>14 DEF Create
  <2>1. CASE proj[p].made
    <3>1. act' = [act EXCEPT ![x] = Idle] /\ UNCHANGED proj BY <1>14, <2>1 DEF Create
    <3>2. act'[x] = Idle /\ \A y \in Actors \ {x} : act'[y] = act[y] BY <3>1 DEF PresenceTypes
    <3>3. Idle.steps = << >> /\ ~Idle.clean BY IdleFacts
    <3>4. \A g : ~Redraws(Idle, g) BY <3>3, Afterwards DEF Redraws, Does
    <3>5. QED BY <1>3, <1>10, <1>11, <2>0, <3>1, <3>2, <3>3, <3>4, PassForums
  <2>2. CASE ~proj[p].made
    <3>1. proj' = [proj EXCEPT ![p] = [made |-> TRUE, archived |-> FALSE, forum |-> a.forum]] /\ Step(x, a)
      BY <1>14, <2>2 DEF Create
    <3>2. act'[x] = d /\ \A y \in Actors \ {x} : act'[y] = act[y] BY <3>1 DEF Step, PresenceTypes
    <3>3. \A y \in Actors \ {x} : Like(act[y], act'[y]) BY <3>2 DEF Like, Alike
    <3>4. proj'[p].forum = a.forum /\ \A q \in Projects \ {p} : proj'[q] = proj[q] BY <1>2, <1>3, <3>1
    <3> HIDE DEF d
    <3>5. ASSUME NEW g \in Forums, p \in Mine(g)' PROVE TagKept(p, g)' /\ HubKept(p, g)'
      <4>1. a.forum = g BY <1>3, <3>4, <3>5, MineMoved
      <4>2. act'[x].forum = g /\ act'[x].steps \in Reads BY <1>4, <1>13, <2>0, <3>2, <4>1
      <4>3. QED BY <4>2, RenewedForum
    <3>6. QED BY <1>3, <1>4, <1>9, <1>11, <2>0, <3>2, <3>3, <3>4, <3>5, ProjectForums
  <2>3. QED BY <2>1, <2>2
<1>15. CASE SetArchived(x, p)
  <2>0. a.op \notin {"rebuild", "task"} BY <1>15 DEF SetArchived
  <2>1. PICK s : proj' = [proj EXCEPT ![p].archived = s] BY <1>15 DEF SetArchived
  <2>2. proj'[p].forum = proj[p].forum /\ \A q \in Projects \ {p} : proj'[q] = proj[q]
    BY <1>2, <1>3, <2>1 DEF Project
  <2> DEFINE b == proj[p].forum # a.forum
  <2>3. Stained(x, d, proj[p].forum, b) BY <1>15 DEF SetArchived
  <2>4. /\ Like(d, act'[x]) /\ \A y \in Actors \ {x} : Like(act[y], act'[y])
        /\ \A g \in Forums : stain[g] => stain'[g]
        /\ \A g \in Forums : b /\ g = proj[p].forum =>
              stain'[g] /\ \A y \in Actors : act'[y].forum = g => ~act'[y].clean
    <3>0. PICK e \in Handler : e = d BY <1>6
    <3>1. PICK c \in BOOLEAN : c = b OBVIOUS
    <3>2. PICK f : f = proj[p].forum OBVIOUS
    <3>3. Stained(x, e, f, c) BY <2>3, <3>0, <3>1, <3>2
    <3>4. /\ Like(e, act'[x]) /\ \A y \in Actors \ {x} : Like(act[y], act'[y])
          /\ c => \A y \in Actors : act'[y].forum = f => ~act'[y].clean
          /\ c /\ f \in Forums => stain'[f]
          /\ \A g \in Forums : g # f \/ ~c => stain'[g] = stain[g]
      BY <3>3, StainedLike
    <3>5. QED BY <3>0, <3>1, <3>2, <3>4
  <2>5. act'[x].steps = d.steps /\ act'[x].forum = d.forum /\ ~act'[x].clean BY <1>9, <2>4 DEF Like, Alike
  <2> HIDE DEF d, b
  <2>6. ASSUME NEW g \in Forums, p \in Mine(g)' PROVE TagKept(p, g)' /\ HubKept(p, g)'
    <3>1. proj[p].forum = g BY <1>3, <2>2, <2>6, MineMoved
    <3>2. CASE a.forum = g
      <4>1. act'[x].forum = g /\ act'[x].steps \in Reads BY <1>4, <1>13, <2>0, <2>5, <3>2
      <4>2. QED BY <4>1, RenewedForum
    <3>3. CASE a.forum # g
      <4>1. stain'[g] /\ \A y \in Actors : act'[y].forum = g => ~act'[y].clean BY <2>4, <3>1, <3>3 DEF b
      <4>2. \A y \in Actors : Redraws(act[y], g)' => act'[y].forum = g BY DEF Redraws
      <4>3. QED BY <4>1, <4>2, MarkedForum
    <3>4. QED BY <3>2, <3>3
  <2>7. QED BY <1>3, <1>4, <1>11, <2>0, <2>2, <2>4, <2>5, <2>6, ProjectForums
<1>16. CASE Unarchive(x, p)
  <2>0. UNCHANGED stain /\ a.op = "rebuild" /\ Step(x, a) BY <1>16 DEF Unarchive
  <2>1. proj' = [proj EXCEPT ![p].archived = FALSE] BY <1>16 DEF Unarchive
  <2>2. \A q \in Projects \ {p} : proj'[q] = proj[q] BY <1>2, <1>3, <2>1
  <2>3. act'[x] = d /\ \A y \in Actors \ {x} : act'[y] = act[y] BY <2>0 DEF Step, PresenceTypes
  <2>4. \A y \in Actors \ {x} : Like(act[y], act'[y]) BY <2>3 DEF Like, Alike
  <2>5. Does(d, "bind") /\ d.name = a.name BY <1>5, <1>6, <2>0, IdleFacts DEF SameBut, Does
  <2> HIDE DEF d
  <2>6. d.steps \notin Reads \cup Setups BY <2>5, Parts DEF Does
  <2>7. \A g : ~Redraws(d, g) BY <2>5, <2>6 DEF Redraws, Does
  <2>8. \A g : p \notin Mine(g)'
    <3>1. Rebinds(d, p) BY <1>2, <2>5 DEF Rebinds
    <3>2. Rebinds(act[x], p)' = Rebinds(act'[x], p) BY DEF Rebinds, Does
    <3>3. QED BY <2>3, <3>1, <3>2 DEF Mine
  <2>9. QED BY <1>3, <1>9, <1>11, <2>0, <2>2, <2>3, <2>4, <2>7, <2>8, ProjectForums
<1>17. QED BY <1>2, <1>14, <1>15, <1>16

\* A rebuild comes to its forum, and with it the project.
LEMMA BindForums ==
  ASSUME PresenceTypes, ForumInv, NEW x \in Actors, Bind(x)
  PROVE  ForumInv'
<1> DEFINE a == act[x]
<1>1. a \in Handler /\ Scripted(a) /\ a.steps # << >> /\ Does(a, "bind") /\ a.forum \in Place
  BY DEF Bind, At, PresenceTypes, Handler, Does
<1>2. PICK p \in a.name : TRUE /\
       LET rebound(f) == /\ proj' = [proj EXCEPT ![p].forum = f]
                         /\ Step(x, [a EXCEPT !.forum = f])
           wanted == IF a.forum # NoForum THEN a.forum ELSE proj[p].forum
           none == a.forum = NoForum /\ (wanted # NoForum => ~forum[wanted].there)
       IN  \/ ~none /\ rebound(wanted) /\ Same /\ UNCHANGED <<forum, loose>>
           \/ /\ none /\ UNCHANGED loose
              /\ \E f \in {g \in Forums : Unused(g)} :
                    /\ forum' = [forum EXCEPT ![f].there = TRUE]
                    /\ \/ rebound(f) /\ Same
                       \/ Fault /\ UNCHANGED proj /\ Step(x, [a EXCEPT !.forum = f])
           \/ /\ none /\ Fault /\ act' = [act EXCEPT ![x] = Idle]
              /\ loose' = [t \in Tasks |-> loose[t] \/ Owner[t] = p]
              /\ UNCHANGED <<proj, forum>>
  BY Zenon DEF Bind
<1>3. a.op = "rebuild" BY <1>1, Onward
<1>4. p \in Projects /\ \A k \in a.name : k = p BY <1>1, <1>2, <1>3 DEF Scripted, InHand
<1>5. proj \in [Projects -> Project] /\ forum \in [Forums -> Board] /\ UNCHANGED stain /\ Std \notin Projects
  BY ProvisioningAssumption DEF PresenceTypes, Bind
<1>6. a.steps \in Opens BY <1>1, Course
<1>7. ~a.clean BY <1>6 DEF ForumInv, Unread
<1>8. \A k : Rebinds(a, k) => k = p BY <1>4 DEF Rebinds
<1>9. \A g : ~Redraws(a, g)
  <2>1. a.steps \notin Reads \cup Setups BY <1>1, Parts DEF Does
  <2>2. QED BY <1>1, <2>1 DEF Redraws, Does
<1>10. ASSUME NEW f \in Place, Step(x, [a EXCEPT !.forum = f])
       PROVE  /\ act'[x].forum = f /\ act'[x].steps \in Reads /\ ~act'[x].clean
              /\ \A y \in Actors \ {x} : Like(act[y], act'[y])
  <2> DEFINE b == [a EXCEPT !.forum = f]
  <2>1. /\ b \in Handler /\ b.forum = f /\ b.op = a.op /\ b.steps = a.steps /\ b.name = a.name /\ b.clean = a.clean
    BY <1>1, <1>10, HandlerFields DEF Handler
  <2>2. Step(x, b) BY <1>10
  <2> HIDE DEF b
  <2>3. Scripted(b) /\ b.steps # << >> /\ Does(b, "bind") BY <1>1, <2>1 DEF Scripted, Does
  <2>4. Done(b).steps \in Reads /\ (Done(b) = Idle \/ SameBut(b, Done(b))) BY <2>1, <2>3, Course
  <2>5. Done(b).forum = f /\ ~Done(b).clean BY <1>7, <2>1, <2>4, Afterwards, IdleFacts DEF SameBut
  <2>6. act'[x] = Done(b) /\ \A y \in Actors \ {x} : act'[y] = act[y] BY <2>2 DEF Step, PresenceTypes
  <2>7. \A y \in Actors \ {x} : Like(act[y], act'[y]) BY <2>6 DEF Like, Alike
  <2>8. QED BY <2>4, <2>5, <2>6, <2>7
<1>11. ASSUME NEW f \in Place, Step(x, [a EXCEPT !.forum = f]),
              \/ proj' = [proj EXCEPT ![p].forum = f]
              \/ UNCHANGED proj /\ (proj[p].forum \in Forums => ~forum[proj[p].forum].there),
              UNCHANGED forum \/ (f \in Forums /\ forum' = [forum EXCEPT ![f].there = TRUE])
       PROVE  ForumInv'
  <2>1. /\ act'[x].forum = f /\ act'[x].steps \in Reads /\ ~act'[x].clean
        /\ \A y \in Actors \ {x} : Like(act[y], act'[y])
    BY <1>10, <1>11
  <2>2. \A q \in Projects \ {p} : proj'[q] = proj[q] BY <1>4, <1>5, <1>11
  <2>3. \A g \in Forums : g # f => forum'[g] = forum[g] BY <1>5, <1>11
  <2>4. ASSUME NEW g \in Forums, forum'[g].there, p \in Mine(g)' PROVE TagKept(p, g)' /\ HubKept(p, g)'
    <3>1. proj'[p].forum = g BY <1>4, <1>5, <2>4, MineMoved
    <3>2. g = f
      <4>1. CASE proj' = [proj EXCEPT ![p].forum = f] BY <1>4, <1>5, <3>1, <4>1 DEF Project
      <4>2. CASE UNCHANGED proj /\ (proj[p].forum \in Forums => ~forum[proj[p].forum].there)
        BY <2>3, <2>4, <3>1, <4>2
      <4>3. QED BY <1>11, <4>1, <4>2
    <3>3. QED BY <2>1, <3>2, RenewedForum
  <2>5. \A g \in Forums : forum'[g] = forum[g] \/ (act'[x].forum = g /\ act'[x].steps \in Reads)
    BY <2>1, <2>3
  <2>6. QED BY <1>4, <1>5, <1>8, <1>9, <2>1, <2>2, <2>4, <2>5, ProjectForums
<1>12. ASSUME act' = [act EXCEPT ![x] = Idle], UNCHANGED <<proj, forum>>,
              proj[p].forum \in Forums => ~forum[proj[p].forum].there
       PROVE  ForumInv'
  <2>1. act'[x] = Idle /\ \A y \in Actors \ {x} : act'[y] = act[y] BY <1>12 DEF PresenceTypes
  <2>2. \A y \in Actors \ {x} : Like(act[y], act'[y]) BY <2>1 DEF Like, Alike
  <2>3. Idle.steps = << >> /\ ~Idle.clean BY IdleFacts
  <2>4. \A g : ~Redraws(Idle, g) BY <2>3, Afterwards DEF Redraws, Does
  <2>5. ASSUME NEW g \in Forums, forum'[g].there, p \in Mine(g)' PROVE FALSE
    <3>1. proj'[p].forum = g BY <1>4, <1>5, <2>5, MineMoved
    <3>2. QED BY <1>12, <2>5, <3>1
  <2>6. QED BY <1>4, <1>5, <1>8, <1>9, <1>12, <2>1, <2>2, <2>3, <2>4, <2>5, ProjectForums
<1> DEFINE wanted == IF a.forum # NoForum THEN a.forum ELSE proj[p].forum
           none == a.forum = NoForum /\ (wanted # NoForum => ~forum[wanted].there)
<1>13. wanted \in Place BY <1>1, <1>4, <1>5 DEF Project
<1>14. none => (proj[p].forum \in Forums => ~forum[proj[p].forum].there) BY ProvisioningAssumption
<1>15. \/ proj' = [proj EXCEPT ![p].forum = wanted] /\ Step(x, [a EXCEPT !.forum = wanted]) /\ UNCHANGED forum
       \/ \E f \in Forums : forum' = [forum EXCEPT ![f].there = TRUE] /\ Step(x, [a EXCEPT !.forum = f])
                            /\ (proj' = [proj EXCEPT ![p].forum = f] \/ (UNCHANGED proj /\ none))
       \/ none /\ act' = [act EXCEPT ![x] = Idle] /\ UNCHANGED <<proj, forum>>
  BY Zenon, <1>2
<1> HIDE DEF wanted, none
<1>16. Forums \subseteq Place BY DEF Place
<1>17. CASE proj' = [proj EXCEPT ![p].forum = wanted] /\ Step(x, [a EXCEPT !.forum = wanted]) /\ UNCHANGED forum
  <2>1. PICK f \in Place : f = wanted BY <1>13
  <2>2. proj' = [proj EXCEPT ![p].forum = f] /\ Step(x, [a EXCEPT !.forum = f]) BY <1>17, <2>1
  <2>3. QED BY <1>11, <1>17, <2>2
<1>18. CASE \E f \in Forums : forum' = [forum EXCEPT ![f].there = TRUE] /\ Step(x, [a EXCEPT !.forum = f])
                            /\ (proj' = [proj EXCEPT ![p].forum = f] \/ (UNCHANGED proj /\ none))
  BY <1>11, <1>14, <1>16, <1>18
<1>19. CASE none /\ act' = [act EXCEPT ![x] = Idle] /\ UNCHANGED <<proj, forum>> BY <1>12, <1>14, <1>19
<1>20. QED BY <1>15, <1>17, <1>18, <1>19

\* Discord, where no handler moves.
LEMMA StillForums ==
  ASSUME ForumInv, UNCHANGED <<proj, act>>,
         \A g \in Forums : forum'[g].there =>
            /\ forum[g].there /\ forum'[g].tags = forum[g].tags /\ forum'[g].hubs = forum[g].hubs
            /\ stain'[g] = stain[g]
  PROVE  ForumInv'
<1>1. Unread' BY DEF ForumInv, Unread
<1>2. ASSUME NEW g \in Forums, forum'[g].there, NEW k \in Mine(g)' PROVE TagKept(k, g)' /\ HubKept(k, g)'
  <2>1. Live(g)' = Live(g) /\ Gone(g)' = Gone(g) BY DEF Live, Gone
  <2>2. k \in Mine(g) BY <1>2, <2>1 DEF Mine, Rebinds, Does
  <2>3. TagKept(k, g) /\ HubKept(k, g) BY <1>2, <2>2 DEF ForumInv, ForumKept
  <2>4. Tagged(k, g)' = Tagged(k, g) /\ Hubbed(k, g)' = Hubbed(k, g) BY <1>2, <2>1 DEF Tagged, Hubbed
  <2>5. \A y : Redraws(act[y], g)' = Redraws(act[y], g) /\ Mends(act[y], k, g)' = Mends(act[y], k, g)
    <3>1. \A y : Redraws(act[y], g)' = Redraws(act[y], g) BY DEF Redraws, Does
    <3>2. \A y : Mends(act[y], k, g)' = Mends(act[y], k, g) BY <2>1, <3>1 DEF Mends, Sees, Untreated, Does
    <3>3. QED BY <3>1, <3>2
  <2>6. QED BY <1>2, <2>3, <2>4, <2>5, KeptForum
<1>3. QED BY <1>1, <1>2 DEF ForumInv, ForumKept

LEMMA DiscordForums ==
  ASSUME PresenceTypes, ForumInv,
         \/ \E f \in Forums : Gateway(f) \/ DeleteForum(f)
         \/ (\E i \in DOMAIN thread : DeleteThread(i)) \/ Crash
  PROVE  ForumInv'
<1>1. forum \in [Forums -> Board] /\ stain \in [Forums -> BOOLEAN] BY DEF PresenceTypes
<1>2. ASSUME NEW f \in Forums, Gateway(f) PROVE ForumInv'
  <2>1. \A g \in Forums : forum'[g].there = forum[g].there /\ forum'[g].tags = forum[g].tags /\ forum'[g].hubs = forum[g].hubs
    BY ZenonT(60), <1>1, <1>2 DEF Gateway, Board
  <2>2. UNCHANGED <<proj, act, stain>> BY <1>2 DEF Gateway
  <2>3. QED BY <2>1, <2>2, StillForums
<1>3. ASSUME NEW f \in Forums, DeleteForum(f) PROVE ForumInv'
  <2>1. forum' = [forum EXCEPT ![f] = Empty] /\ stain' = [stain EXCEPT ![f] = TRUE] /\ UNCHANGED <<proj, act>>
    BY <1>3 DEF DeleteForum
  <2>2. ~forum'[f].there BY <1>1, <2>1 DEF Empty
  <2>3. \A g \in Forums \ {f} : forum'[g] = forum[g] /\ stain'[g] = stain[g] BY <1>1, <2>1
  <2>4. QED BY <2>1, <2>2, <2>3, StillForums
<1>4. ASSUME NEW i, DeleteThread(i) PROVE ForumInv' BY <1>4, StillForums DEF DeleteThread
<1>5. ASSUME Crash PROVE ForumInv'
  <2>1. (\A y \in Actors : act'[y] = Idle) /\ \A g \in Forums : stain'[g] BY <1>5 DEF Crash
  <2>2. Idle.steps = << >> /\ ~Idle.clean BY IdleFacts
  <2>3. \A g : ~Redraws(Idle, g) BY <2>2, Afterwards DEF Redraws, Does
  <2>4. \A y \in Actors : \A g : Redraws(act[y], g)' = Redraws(act'[y], g) BY DEF Redraws, Does
  <2>5. Unread' BY <2>1, <2>2 DEF Unread
  <2>6. \A g \in Forums : \A k : TagKept(k, g)' /\ HubKept(k, g)' BY <2>1, <2>3, <2>4, MarkedForum
  <2>7. QED BY <2>5, <2>6 DEF ForumInv, ForumKept
<1>6. QED BY <1>2, <1>3, <1>4, <1>5

LEMMA InitForums ==
  ASSUME PresenceInit
  PROVE  ForumInv
<1>1. \A x \in Actors : act[x] = Idle BY DEF PresenceInit
<1>2. Unread BY <1>1, IdleFacts DEF Unread
<1>3. ASSUME NEW g \in Forums, forum[g].there, NEW k PROVE TagKept(k, g) /\ HubKept(k, g)
  <2> DEFINE ps == {p \in Projects : Bound[p] = g}
  <2>1. forum[g] = IF ps = {} THEN Empty
                   ELSE [there |-> TRUE, tags |-> ps \cup {Std}, seen |-> ps \cup {Std}, hubs |-> <<ps>>, known |-> 1]
    BY DEF PresenceInit
  <2>2. ps # {} BY <1>3, <2>1 DEF Empty
  <2>3. forum[g].tags = ps \cup {Std} /\ forum[g].hubs = <<ps>> BY <2>1, <2>2
  <2>4. Live(g) = ps
    <3>1. proj = [p \in Projects |-> [made |-> Bound[p] # NoForum, archived |-> FALSE, forum |-> Bound[p]]]
      BY DEF PresenceInit
    <3>2. g # NoForum BY ProvisioningAssumption
    <3>3. QED BY <3>1, <3>2 DEF Live
  <2> HIDE DEF ps
  <2>5. Tagged(k, g) /\ Hubbed(k, g) BY <2>3, <2>4 DEF Tagged, Hubbed
  <2>6. QED BY <2>5 DEF TagKept, HubKept
<1>4. QED BY <1>2, <1>3 DEF ForumInv, ForumKept

LEMMA NextForums ==
  ASSUME PresenceTypes, ForumInv, [PresenceNext]_presenceVars
  PROVE  ForumInv'
<1>1. ASSUME NEW x \in Actors, Handle(x) PROVE ForumInv'
  <2>1. act[x].forum # NoForum => act[x].forum \in Forums BY DEF PresenceTypes, Handler, Place
  <2>2. CASE OpenProject(x) \/ PostHub(x) \/ OpenTask(x) BY <2>2, OpenTypes, BeginForums
  <2>3. CASE Skip(x) \/ ApplyTask(x) \/ ListTasks(x) BY <2>3, AsideForums
  <2>4. CASE ApplyProject(x) \/ Bind(x) BY <2>4, ApplyForums, BindForums
  <2>5. CASE /\ act[x].forum # NoForum
             /\ \/ ReadProjects(x) \/ Prune(x) \/ Setup(x) \/ Ensure(x) \/ EnsureOwn(x) \/ Untag(x) \/ MountHub(x)
    BY <2>1, <2>5, ReadForums, PruneForums, SetupForums, EnsureForums, OwnForums, HubForums
  <2>6. CASE SyncTasks(x)
    <3>1. CASE SyncDone(x) BY <3>1, AsideForums
    <3>2. CASE At(x, "sync") /\ \E t \in act[x].todo :
             SyncThread(x, t) \/ MakeThread(x, t) \/ MakeFails(x, t) \/ RecordThread(x, t) \/ SettleThread(x, t)
      BY <3>2, SyncForums
    <3>3. QED BY <2>6, <3>1, <3>2 DEF SyncTasks
  <2>7. QED BY <1>1, <2>2, <2>3, <2>4, <2>5, <2>6 DEF Handle
<1>2. CASE PresenceNext BY <1>1, <1>2, DiscordForums DEF PresenceNext
<1>3. CASE UNCHANGED presenceVars BY <1>3, StillForums DEF presenceVars
<1>4. QED BY <1>2, <1>3

\* Whatever the handlers, their users and Discord do, a tag that is missing or too much
\* in a forum, and a hub that does not show the live projects, is still some handler's
\* to mend, or the forum is marked; but for a project whose rebuild is about to give it
\* another forum.
THEOREM ForumsHeld == PresenceSpec => []ForumInv
<1>1. PresenceInit => ForumInv BY InitForums
<1>2. PresenceTypes /\ ForumInv /\ [PresenceNext]_presenceVars => ForumInv' BY NextForums
<1>3. PresenceSpec => [](PresenceTypes /\ ThreadInv) BY ThreadsHeld
<1>4. QED BY <1>1, <1>2, <1>3, PTL DEF PresenceSpec

LEMMA SettledForums ==
  ASSUME ForumInv
  PROVE  ForumShowsProjects
<1> SUFFICES ASSUME NEW f \in Forums, Settled, forum[f].there, ~stain[f], forum[f].hubs # << >>
             PROVE  /\ forum[f].tags \cap (Live(f) \cup Gone(f)) = Live(f) /\ Std \in forum[f].tags
                    /\ forum[f].hubs[1] \cap (Live(f) \cup Gone(f)) = Live(f)
  BY DEF ForumShowsProjects
<1>1. \A x \in Actors : act[x] = Idle BY DEF Settled
<1>2. Idle.steps = << >> BY IdleFacts
<1>3. \A x \in Actors : ~Redraws(act[x], f) /\ \A k : ~Rebinds(act[x], k)
  BY <1>1, <1>2, Afterwards DEF Redraws, Rebinds, Does
<1>4. ASSUME NEW k \in Live(f) \cup Gone(f) \cup {Std} PROVE Tagged(k, f) /\ Hubbed(k, f)
  <2>1. TagKept(k, f) /\ HubKept(k, f) BY <1>3, <1>4 DEF ForumInv, ForumKept, Mine
  <2>2. QED BY <1>3, <2>1 DEF TagKept, HubKept, Mends
<1>5. \A k \in Live(f) \cup Gone(f) : k # Std BY ProvisioningAssumption DEF Live, Gone
<1>6. QED BY <1>4, <1>5 DEF Tagged, Hubbed

\* ForumShowsProjects holds of any number of projects, forums, tags and users, under
\* every interleaving of their handlers, with a late cache, refused calls, deletions
\* and crashes.
THEOREM ForumsShown == PresenceSpec => []ForumShowsProjects
<1>1. ForumInv => ForumShowsProjects BY SettledForums
<1>2. QED BY <1>1, ForumsHeld, PTL

-----------------------------------------------------------------------------
(* Lifecycle.                                                              *)

\* The type invariant in two halves, as truth values and numbers want different provers.
Flags ==
    /\ closed \in BOOLEAN /\ ready \in BOOLEAN /\ closer \in BOOLEAN
    /\ running \in BOOLEAN /\ stop \in BOOLEAN /\ fatal \in BOOLEAN
    /\ dbOpen \in BOOLEAN

Rest ==
    /\ limit \in 0..MaxAttempt \cup {Unlimited}
    /\ gw \in {"check", "starting", "closing", "backoff", "done", "failed"}
    /\ attempt \in 0..Allowed
    /\ server \in {"serving", "done", "failed"} /\ worker \in {"running", "done"}
    /\ main \in {"wait", "closing", "reclosing", "disposing", "backoff", "exit0", "exit1"}
    /\ signals \in 0..MaxSignals /\ fruitless \in 0..(MaxAttempt + 1)

LEMMA Halves == TypeOK <=> Flags /\ Rest
  BY Zenon DEF TypeOK, Flags, Rest

\* Where the supervisor goes on, it has an attempt left.
AttemptLeft == gw \in {"check", "closing", "backoff"} => attempt < Allowed

\* The count the supervisor keeps is never below the starts since the bot was ready:
\* it starts again only when the bot is ready, and clear() makes that false in time.
CountCovers ==
    /\ fruitless <= attempt
    /\ gw = "starting" => attempt >= 1
    /\ ready => fruitless = 1 /\ gw \notin {"check", "backoff"}

\* Once run_app goes on without a failure everything has ended, so nobody is left who
\* would open the bot that it closes.
EndedInCleanup ==
    /\ main # "wait" => IF fatal THEN Failed ELSE Ended /\ closed
    /\ ~dbOpen => main \in {"backoff", "exit0", "exit1"}

IInv == Flags /\ Rest /\ AttemptLeft /\ CountCovers /\ EndedInCleanup

LEMMA AllowedType == limit \in 0..MaxAttempt \cup {Unlimited} => Allowed \in Nat \ {0}
  BY BoundsAssumption DEF Allowed, Unlimited

LEMMA InitIInv == Init => IInv
<1> SUFFICES ASSUME Init PROVE IInv OBVIOUS
<1>1. Allowed \in Nat \ {0} BY AllowedType DEF Init
<1>2. Flags BY DEF Init, Flags
<1>3. Rest BY <1>1, BoundsAssumption DEF Init, Rest
<1>4. AttemptLeft BY <1>1 DEF Init, AttemptLeft
<1>5. CountCovers /\ EndedInCleanup BY DEF Init, CountCovers, EndedInCleanup
<1>6. QED BY <1>2, <1>3, <1>4, <1>5 DEF IInv

\* The supervisor's own steps and what discord.py does under it.
LEMMA SupervisorStep ==
  ASSUME IInv, GwCheck \/ BecomeReady \/ StartReturns \/ StartFailsFatal
           \/ StartFailsTransient \/ ClosedByLibrary \/ CloseDone \/ BackoffOver
  PROVE  IInv'
<1>0. Flags /\ Rest /\ AttemptLeft /\ CountCovers /\ EndedInCleanup
      /\ Allowed \in Nat \ {0}
  BY AllowedType DEF IInv, Rest
<1>1. CASE GwCheck
  <2>1. Allowed' = Allowed BY <1>1 DEF Allowed, GwCheck, Supervise
  <2>2. Flags' BY <1>0, <1>1 DEF Flags, GwCheck, Supervise, Alive, Exited, Ended, Failed
  <2>3. Rest'
    BY <1>0, <1>1, <2>1, BoundsAssumption DEF Rest, AttemptLeft, GwCheck, Bump,
           Supervise, Ended
  <2>4. AttemptLeft'
    BY <1>0, <1>1, <2>1, BoundsAssumption DEF Rest, AttemptLeft, GwCheck, Bump,
           Supervise, Ended
  <2>5. CountCovers'
    BY <1>0, <1>1, BoundsAssumption DEF Flags, Rest, CountCovers, GwCheck, Bump,
           Supervise, Ended
  <2>6. EndedInCleanup'
    BY <1>0, <1>1 DEF Flags, EndedInCleanup, GwCheck, Bump, Supervise, Alive,
           Exited, Ended, Failed
  <2>7. QED BY <2>2, <2>3, <2>4, <2>5, <2>6 DEF IInv
<1>2. CASE BecomeReady
  <2>1. Allowed' = Allowed BY <1>2 DEF Allowed, BecomeReady, Supervise
  <2>2. Flags'
    BY <1>0, <1>2 DEF Flags, BecomeReady, Supervise, Alive, Exited, Ended,
           Failed
  <2>3. Rest'
    BY <1>0, <1>2, <2>1, BoundsAssumption DEF Rest, BecomeReady, Supervise,
           Ended
  <2>4. AttemptLeft'
    BY <1>0, <1>2, <2>1, BoundsAssumption DEF Rest, AttemptLeft, BecomeReady,
           Supervise, Ended
  <2>5. CountCovers'
    BY <1>0, <1>2, BoundsAssumption DEF Flags, Rest, CountCovers, BecomeReady,
           Supervise, Ended
  <2>6. EndedInCleanup'
    BY <1>0, <1>2 DEF Flags, EndedInCleanup, BecomeReady, Supervise, Alive,
           Exited, Ended, Failed
  <2>7. QED BY <2>2, <2>3, <2>4, <2>5, <2>6 DEF IInv
<1>3. CASE StartReturns
  <2>1. Allowed' = Allowed BY <1>3 DEF Allowed, StartReturns, Supervise
  <2>2. Flags'
    BY <1>0, <1>3 DEF Flags, StartReturns, Supervise, Alive, Exited, Ended,
           Failed
  <2>3. Rest'
    BY <1>0, <1>3, <2>1, BoundsAssumption DEF Rest, StartReturns, Supervise,
           Ended
  <2>4. AttemptLeft'
    BY <1>0, <1>3, <2>1, BoundsAssumption DEF Rest, AttemptLeft, StartReturns,
           Supervise, Ended
  <2>5. CountCovers'
    BY <1>0, <1>3, BoundsAssumption DEF Flags, Rest, CountCovers, StartReturns,
           Supervise, Ended
  <2>6. EndedInCleanup'
    BY <1>0, <1>3 DEF Flags, EndedInCleanup, StartReturns, Supervise, Alive,
           Exited, Ended, Failed
  <2>7. QED BY <2>2, <2>3, <2>4, <2>5, <2>6 DEF IInv
<1>4. CASE StartFailsFatal
  <2>1. Allowed' = Allowed BY <1>4 DEF Allowed, StartFailsFatal, Supervise
  <2>2. Flags'
    BY <1>0, <1>4 DEF Flags, StartFailsFatal, Supervise, Alive, Exited, Ended,
           Failed
  <2>3. Rest'
    BY <1>0, <1>4, <2>1, BoundsAssumption DEF Rest, StartFailsFatal, Supervise,
           Ended
  <2>4. AttemptLeft'
    BY <1>0, <1>4, <2>1, BoundsAssumption DEF Rest, AttemptLeft,
           StartFailsFatal, Supervise, Ended
  <2>5. CountCovers'
    BY <1>0, <1>4, BoundsAssumption DEF Flags, Rest, CountCovers,
           StartFailsFatal, Supervise, Ended
  <2>6. EndedInCleanup'
    BY <1>0, <1>4 DEF Flags, EndedInCleanup, StartFailsFatal, Supervise, Alive,
           Exited, Ended, Failed
  <2>7. QED BY <2>2, <2>3, <2>4, <2>5, <2>6 DEF IInv
<1>5. CASE StartFailsTransient
  <2> DEFINE n == IF ready THEN 1 ELSE attempt
  <2>1. UNCHANGED <<limit, closer, server, worker, running, stop, main, fatal, dbOpen,
                    signals, fruitless>> /\ gw = "starting" /\ attempt' = n
    BY <1>5 DEF StartFailsTransient, Supervise
  <2>2. n \in 1..attempt /\ fruitless <= n
    BY <1>0, <2>1 DEF Rest, CountCovers
  <2>3. \/ gw' = "failed" /\ UNCHANGED <<closed, ready>>
        \/ ~Exhausted(n) /\ gw' = "backoff" /\ Reopen
        \/ ~Exhausted(n) /\ ~closed /\ gw' = "closing" /\ Close
    BY <1>5, Zenon DEF StartFailsTransient
  <2>4. ~Exhausted(n) => n < Allowed
    BY <1>0, <2>2, BoundsAssumption DEF Exhausted, Allowed, Rest, Unlimited
  <2>5. gw' \in {"failed", "backoff", "closing"} /\ (gw' # "failed" => n < Allowed)
    BY <2>3, <2>4, Zenon
  <2>6. (ready' => ready) /\ (gw' = "backoff" => ~ready')
    <3>1. ready' => ready BY <2>3, Zenon DEF Reopen, Close
    <3>2. gw' = "backoff" => ~ready' BY <2>3 DEF Reopen
    <3>3. QED BY <3>1, <3>2
  <2>7. Allowed' = Allowed BY <2>1 DEF Allowed
  <2>8. Flags' BY <1>0, <2>1, <2>3, Zenon DEF Flags, Reopen, Close
  <2>9. Rest' BY <1>0, <2>1, <2>2, <2>5, <2>7 DEF Rest
  <2>10. AttemptLeft' BY <2>1, <2>5, <2>7 DEF AttemptLeft
  <2>11. CountCovers' BY <1>0, <2>1, <2>2, <2>5, <2>6 DEF CountCovers
  <2>12. EndedInCleanup' BY <1>0, <1>5 DEF Flags, EndedInCleanup, StartFailsTransient,
                            Supervise, Alive, Exited, Ended, Failed
  <2>13. QED BY <2>8, <2>9, <2>10, <2>11, <2>12 DEF IInv
<1>6. CASE ClosedByLibrary
  <2>1. Allowed' = Allowed BY <1>6 DEF Allowed, ClosedByLibrary, Supervise
  <2>2. Flags'
    BY <1>0, <1>6 DEF Flags, ClosedByLibrary, Exhausted, Reopen, Allowed,
           Supervise, Alive, Exited, Ended, Failed
  <2>3. Rest'
    BY <1>0, <1>6, <2>1, BoundsAssumption DEF Rest, ClosedByLibrary, Exhausted,
           Reopen, Allowed, Supervise, Ended
  <2>4. AttemptLeft'
    BY <1>0, <1>6, <2>1, BoundsAssumption DEF Rest, AttemptLeft,
           ClosedByLibrary, Exhausted, Reopen, Allowed, Supervise, Ended
  <2>5. CountCovers'
    BY <1>0, <1>6, BoundsAssumption DEF Flags, Rest, CountCovers,
           ClosedByLibrary, Exhausted, Reopen, Allowed, Supervise, Ended
  <2>6. EndedInCleanup'
    BY <1>0, <1>6 DEF Flags, EndedInCleanup, ClosedByLibrary, Exhausted, Reopen,
           Allowed, Supervise, Alive, Exited, Ended, Failed
  <2>7. QED BY <2>2, <2>3, <2>4, <2>5, <2>6 DEF IInv
<1>7. CASE CloseDone
  <2>1. Allowed' = Allowed BY <1>7 DEF Allowed, CloseDone, Supervise
  <2>2. Flags'
    BY <1>0, <1>7 DEF Flags, CloseDone, Reopen, Supervise, Alive, Exited, Ended,
           Failed
  <2>3. Rest'
    BY <1>0, <1>7, <2>1, BoundsAssumption DEF Rest, CloseDone, Reopen,
           Supervise, Ended
  <2>4. AttemptLeft'
    BY <1>0, <1>7, <2>1, BoundsAssumption DEF Rest, AttemptLeft, CloseDone,
           Reopen, Supervise, Ended
  <2>5. CountCovers'
    BY <1>0, <1>7, BoundsAssumption DEF Flags, Rest, CountCovers, CloseDone,
           Reopen, Supervise, Ended
  <2>6. EndedInCleanup'
    BY <1>0, <1>7 DEF Flags, EndedInCleanup, CloseDone, Reopen, Supervise,
           Alive, Exited, Ended, Failed
  <2>7. QED BY <2>2, <2>3, <2>4, <2>5, <2>6 DEF IInv
<1>8. CASE BackoffOver
  <2>1. Allowed' = Allowed BY <1>8 DEF Allowed, BackoffOver, Supervise
  <2>2. Flags'
    BY <1>0, <1>8 DEF Flags, BackoffOver, Supervise, Alive, Exited, Ended,
           Failed
  <2>3. Rest'
    BY <1>0, <1>8, <2>1, BoundsAssumption DEF Rest, BackoffOver, Supervise,
           Ended
  <2>4. AttemptLeft'
    BY <1>0, <1>8, <2>1, BoundsAssumption DEF Rest, AttemptLeft, BackoffOver,
           Supervise, Ended
  <2>5. CountCovers'
    BY <1>0, <1>8, BoundsAssumption DEF Flags, Rest, CountCovers, BackoffOver,
           Supervise, Ended
  <2>6. EndedInCleanup'
    BY <1>0, <1>8 DEF Flags, EndedInCleanup, BackoffOver, Supervise, Alive,
           Exited, Ended, Failed
  <2>7. QED BY <2>2, <2>3, <2>4, <2>5, <2>6 DEF IInv
<1>9. QED BY <1>1, <1>2, <1>3, <1>4, <1>5, <1>6, <1>7, <1>8

\* Signals, and the ends of the server and the worker.
LEMMA SurroundingStep ==
  ASSUME IInv, Signal \/ CloseTask \/ ServerEnds \/ ServerFails \/ WorkerEnds
  PROVE  IInv'
<1>0. Flags /\ Rest /\ AttemptLeft /\ CountCovers /\ EndedInCleanup
      /\ Allowed \in Nat \ {0}
  BY AllowedType DEF IInv, Rest
<1>1. CASE Signal
  <2>1. Allowed' = Allowed BY <1>1 DEF Allowed, Signal
  <2>2. Flags' BY <1>0, <1>1, Zenon DEF Flags, Signal, Alive, Exited, Ended, Failed
  <2>3. Rest' BY <1>0, <1>1, <2>1, BoundsAssumption DEF Rest, Signal, Ended
  <2>4. AttemptLeft'
    BY <1>0, <1>1, <2>1, BoundsAssumption DEF Rest, AttemptLeft, Signal, Ended
  <2>5. CountCovers'
    BY <1>0, <1>1, BoundsAssumption DEF Flags, Rest, CountCovers, Signal, Ended
  <2>6. EndedInCleanup'
    BY <1>0, <1>1 DEF Flags, EndedInCleanup, Signal, Alive, Exited, Ended,
           Failed
  <2>7. QED BY <2>2, <2>3, <2>4, <2>5, <2>6 DEF IInv
<1>2. CASE CloseTask
  <2>1. Allowed' = Allowed BY <1>2 DEF Allowed, CloseTask
  <2>2. Flags'
    BY <1>0, <1>2, Zenon DEF Flags, CloseTask, Close, Alive, Exited, Ended,
           Failed
  <2>3. Rest' BY <1>0, <1>2, <2>1, BoundsAssumption DEF Rest, CloseTask, Close, Ended
  <2>4. AttemptLeft'
    BY <1>0, <1>2, <2>1, BoundsAssumption DEF Rest, AttemptLeft, CloseTask,
           Close, Ended
  <2>5. CountCovers'
    <3>1. ready' => ready BY <1>2, Zenon DEF CloseTask, Close
    <3>2. UNCHANGED <<gw, attempt, fruitless>> BY <1>2 DEF CloseTask
    <3>3. QED BY <1>0, <3>1, <3>2 DEF CountCovers
  <2>6. EndedInCleanup'
    BY <1>0, <1>2 DEF Flags, EndedInCleanup, CloseTask, Close, Alive, Exited,
           Ended, Failed
  <2>7. QED BY <2>2, <2>3, <2>4, <2>5, <2>6 DEF IInv
<1>3. CASE ServerEnds
  <2>1. Allowed' = Allowed BY <1>3 DEF Allowed, ServerEnds, Others, bot
  <2>2. Flags'
    BY <1>0, <1>3 DEF Flags, ServerEnds, Others, bot, Alive, Exited, Ended,
           Failed
  <2>3. Rest'
    BY <1>0, <1>3, <2>1, BoundsAssumption DEF Rest, ServerEnds, Others, bot,
           Ended
  <2>4. AttemptLeft'
    BY <1>0, <1>3, <2>1, BoundsAssumption DEF Rest, AttemptLeft, ServerEnds,
           Others, bot, Ended
  <2>5. CountCovers'
    BY <1>0, <1>3, BoundsAssumption DEF Flags, Rest, CountCovers, ServerEnds,
           Others, bot, Ended
  <2>6. EndedInCleanup'
    BY <1>0, <1>3 DEF Flags, EndedInCleanup, ServerEnds, Others, bot, Alive,
           Exited, Ended, Failed
  <2>7. QED BY <2>2, <2>3, <2>4, <2>5, <2>6 DEF IInv
<1>4. CASE ServerFails
  <2>1. Allowed' = Allowed BY <1>4 DEF Allowed, ServerFails, Others, bot
  <2>2. Flags'
    BY <1>0, <1>4 DEF Flags, ServerFails, Others, bot, Alive, Exited, Ended,
           Failed
  <2>3. Rest'
    BY <1>0, <1>4, <2>1, BoundsAssumption DEF Rest, ServerFails, Others, bot,
           Ended
  <2>4. AttemptLeft'
    BY <1>0, <1>4, <2>1, BoundsAssumption DEF Rest, AttemptLeft, ServerFails,
           Others, bot, Ended
  <2>5. CountCovers'
    BY <1>0, <1>4, BoundsAssumption DEF Flags, Rest, CountCovers, ServerFails,
           Others, bot, Ended
  <2>6. EndedInCleanup'
    BY <1>0, <1>4 DEF Flags, EndedInCleanup, ServerFails, Others, bot, Alive,
           Exited, Ended, Failed
  <2>7. QED BY <2>2, <2>3, <2>4, <2>5, <2>6 DEF IInv
<1>5. CASE WorkerEnds
  <2>1. Allowed' = Allowed BY <1>5 DEF Allowed, WorkerEnds, Others, bot
  <2>2. Flags'
    BY <1>0, <1>5 DEF Flags, WorkerEnds, Others, bot, Alive, Exited, Ended,
           Failed
  <2>3. Rest'
    BY <1>0, <1>5, <2>1, BoundsAssumption DEF Rest, WorkerEnds, Others, bot,
           Ended
  <2>4. AttemptLeft'
    BY <1>0, <1>5, <2>1, BoundsAssumption DEF Rest, AttemptLeft, WorkerEnds,
           Others, bot, Ended
  <2>5. CountCovers'
    BY <1>0, <1>5, BoundsAssumption DEF Flags, Rest, CountCovers, WorkerEnds,
           Others, bot, Ended
  <2>6. EndedInCleanup'
    BY <1>0, <1>5 DEF Flags, EndedInCleanup, WorkerEnds, Others, bot, Alive,
           Exited, Ended, Failed
  <2>7. QED BY <2>2, <2>3, <2>4, <2>5, <2>6 DEF IInv
<1>6. QED BY <1>1, <1>2, <1>3, <1>4, <1>5

\* The steps of run_app.
LEMMA MainStep ==
  ASSUME IInv, Main
  PROVE  IInv'
<1>0. Flags /\ Rest /\ AttemptLeft /\ CountCovers /\ EndedInCleanup
      /\ Allowed \in Nat \ {0}
  BY AllowedType DEF IInv, Rest
<1>1. CASE MainWait
  <2>1. Allowed' = Allowed BY <1>1 DEF Allowed, MainWait, Cleanup
  <2>2. Flags'
    BY <1>0, <1>1, Zenon DEF Flags, MainWait, WaitOver, CloseIfOpen, Close,
           Cleanup, Ended, Failed
  <2>3. Rest'
    BY <1>0, <1>1, <2>1, BoundsAssumption DEF Rest, MainWait, WaitOver,
           CloseIfOpen, Close, Cleanup, Ended
  <2>4. AttemptLeft'
    BY <1>0, <1>1, <2>1, BoundsAssumption DEF Rest, AttemptLeft, MainWait,
           WaitOver, CloseIfOpen, Close, Cleanup, Ended
  <2>5. CountCovers'
    <3>1. ready' => ready BY <1>1, Zenon DEF MainWait, CloseIfOpen, Close
    <3>2. UNCHANGED <<gw, attempt, fruitless>> BY <1>1 DEF MainWait, Cleanup
    <3>3. QED BY <1>0, <3>1, <3>2 DEF CountCovers
  <2>6. EndedInCleanup'
    <3>a. (closed /\ closed' = closed) \/ closed' = TRUE
      BY <1>1, Zenon DEF MainWait, CloseIfOpen, Close
    <3>0. closed' BY <1>0, <3>a DEF Flags
    <3>1. closed' /\ UNCHANGED <<gw, server, worker, dbOpen>> /\ main = "wait" /\ WaitOver
      BY <1>1, <3>0 DEF MainWait, Cleanup
    <3>2. (fatal' <=> Failed) /\ dbOpen
      BY <1>0, <1>1, <3>1, Zenon DEF MainWait, EndedInCleanup, Flags
    <3>3. Failed' <=> Failed BY <3>1 DEF Failed
    <3>4. Ended' <=> Ended BY <3>1 DEF Ended
    <3>5. QED BY <3>1, <3>2, <3>3, <3>4 DEF EndedInCleanup, WaitOver
  <2>7. QED BY <2>2, <2>3, <2>4, <2>5, <2>6 DEF IInv
<1>2. CASE MainClosed
  <2>1. Allowed' = Allowed BY <1>2 DEF Allowed, MainClosed, Cleanup
  <2>2. Flags'
    BY <1>0, <1>2, Zenon DEF Flags, MainClosed, CloseIfOpen, Close, Cleanup,
           Ended, Failed
  <2>3. Rest'
    BY <1>0, <1>2, <2>1, BoundsAssumption DEF Rest, MainClosed, CloseIfOpen,
           Close, Cleanup, Ended
  <2>4. AttemptLeft'
    BY <1>0, <1>2, <2>1, BoundsAssumption DEF Rest, AttemptLeft, MainClosed,
           CloseIfOpen, Close, Cleanup, Ended
  <2>5. CountCovers'
    <3>1. ready' => ready BY <1>2, Zenon DEF MainClosed, CloseIfOpen, Close
    <3>2. UNCHANGED <<gw, attempt, fruitless>> BY <1>2 DEF MainClosed, Cleanup
    <3>3. QED BY <1>0, <3>1, <3>2 DEF CountCovers
  <2>6. EndedInCleanup'
    BY <1>0, <1>2 DEF Flags, EndedInCleanup, MainClosed, CloseIfOpen, Close,
           Cleanup, Ended, Failed
  <2>7. QED BY <2>2, <2>3, <2>4, <2>5, <2>6 DEF IInv
<1>3. CASE MainReclosed
  <2>1. Allowed' = Allowed BY <1>3 DEF Allowed, MainReclosed, Cleanup
  <2>2. Flags' BY <1>0, <1>3 DEF Flags, MainReclosed, Cleanup, Ended, Failed
  <2>3. Rest'
    BY <1>0, <1>3, <2>1, BoundsAssumption DEF Rest, MainReclosed, Cleanup, Ended
  <2>4. AttemptLeft'
    BY <1>0, <1>3, <2>1, BoundsAssumption DEF Rest, AttemptLeft, MainReclosed,
           Cleanup, Ended
  <2>5. CountCovers'
    BY <1>0, <1>3, BoundsAssumption DEF Flags, Rest, CountCovers, MainReclosed,
           Cleanup, Ended
  <2>6. EndedInCleanup'
    BY <1>0, <1>3 DEF Flags, EndedInCleanup, MainReclosed, Cleanup, Ended,
           Failed
  <2>7. QED BY <2>2, <2>3, <2>4, <2>5, <2>6 DEF IInv
<1>4. CASE Disposed
  <2>1. Allowed' = Allowed BY <1>4 DEF Allowed, Disposed, Cleanup
  <2>2. Flags' BY <1>0, <1>4 DEF Flags, Disposed, Cleanup, Ended, Failed
  <2>3. Rest' BY <1>0, <1>4, <2>1, BoundsAssumption DEF Rest, Disposed, Cleanup, Ended
  <2>4. AttemptLeft'
    BY <1>0, <1>4, <2>1, BoundsAssumption DEF Rest, AttemptLeft, Disposed,
           Cleanup, Ended
  <2>5. CountCovers'
    BY <1>0, <1>4, BoundsAssumption DEF Flags, Rest, CountCovers, Disposed,
           Cleanup, Ended
  <2>6. EndedInCleanup'
    BY <1>0, <1>4 DEF Flags, EndedInCleanup, Disposed, Cleanup, Ended, Failed
  <2>7. QED BY <2>2, <2>3, <2>4, <2>5, <2>6 DEF IInv
<1>5. CASE MainBackoff
  <2>1. Allowed' = Allowed BY <1>5 DEF Allowed, MainBackoff, Cleanup
  <2>2. Flags' BY <1>0, <1>5 DEF Flags, MainBackoff, Cleanup, Ended, Failed
  <2>3. Rest'
    BY <1>0, <1>5, <2>1, BoundsAssumption DEF Rest, MainBackoff, Cleanup, Ended
  <2>4. AttemptLeft'
    BY <1>0, <1>5, <2>1, BoundsAssumption DEF Rest, AttemptLeft, MainBackoff,
           Cleanup, Ended
  <2>5. CountCovers'
    BY <1>0, <1>5, BoundsAssumption DEF Flags, Rest, CountCovers, MainBackoff,
           Cleanup, Ended
  <2>6. EndedInCleanup'
    BY <1>0, <1>5 DEF Flags, EndedInCleanup, MainBackoff, Cleanup, Ended, Failed
  <2>7. QED BY <2>2, <2>3, <2>4, <2>5, <2>6 DEF IInv
<1>6. QED BY <1>1, <1>2, <1>3, <1>4, <1>5 DEF Main

LEMMA NextIInv == IInv /\ [Next]_vars => IInv'
<1> SUFFICES ASSUME IInv, [Next]_vars PROVE IInv' OBVIOUS
<1>1. CASE UNCHANGED vars
  BY <1>1 DEF IInv, Flags, Rest, AttemptLeft, CountCovers, EndedInCleanup, vars, bot,
              Allowed, Ended, Failed
<1>2. CASE Next
  BY <1>2, SupervisorStep, SurroundingStep, MainStep DEF Next, Supervisor
<1>3. QED BY <1>1, <1>2

LEMMA Invariance == Spec => []IInv
  BY InitIInv, NextIInv, PTL DEF Spec

\* The types hold, in particular the attempts stay within GATEWAY_MAX_RETRIES.
THEOREM TypeCorrect == Spec => []TypeOK
<1>1. IInv => TypeOK BY Halves DEF IInv
<1>2. QED BY <1>1, Invariance, PTL

\* No more starts in a row than allowed pass without the bot being ready.
THEOREM BudgetKept == Spec => []RetryBudget
<1>1. IInv => RetryBudget
  BY BoundsAssumption DEF IInv, Rest, CountCovers, RetryBudget, Allowed, Unlimited
<1>2. QED BY <1>1, Invariance, PTL

\* Without a failure the database outlives the server, the worker and the supervisor.
THEOREM ClosedGracefully == Spec => []GracefulClose
<1>1. IInv => GracefulClose
  BY DEF IInv, Flags, Rest, EndedInCleanup, GracefulClose
<1>2. QED BY <1>1, Invariance, PTL

==============================================================================
