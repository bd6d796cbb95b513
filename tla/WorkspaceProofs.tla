---------------------------- MODULE WorkspaceProofs ----------------------------
(***************************************************************************)
(* For any users, requests, events and faults: whoever is concerned is     *)
(* told once, and a thread that is left alone shows the task.  The second  *)
(* speaks of the end of a story with many writers, so its invariant says   *)
(* who, before the end, still owes the thread the task as it is.           *)
(***************************************************************************)
EXTENDS Workspace, TLAPS

Spots == {"idle", "lift", "do", "shut"}
            \X {"idle", "post", "refresh", "card", "edit", "tell", "failed", "error", "delete", "close"}
Ways == Kinds \cup {"none", "shelve", "delete"}
People == Users \cup {Nobody}
LetterKinds == {"assigned", "watching", "status", "note", "assignee", "unblocked", "due"}

Events == [id : Nat, kind : Kinds \cup {"none"}, by : People, task : Tasks, old : People, tries : Int,
           said : Int, told : [Users -> Int], again : BOOLEAN]
Acts == [at : Spots, op : Ways, task : Tasks, moved : BOOLEAN, was : BOOLEAN,
         edit : SUBSET {"tags", "arch"}]
Threads == [here : BOOLEAN, shut : BOOLEAN, arch : BOOLEAN, cached : BOOLEAN,
            card : [title : {"archived", "plain"}, done : BOOLEAN, who : People],
            tags : [done : BOOLEAN, free : BOOLEAN]]

TypeOK ==
    /\ row \in [live : BOOLEAN, task : Tasks] /\ thread \in Threads
    /\ queue \subseteq Events /\ act \in [All -> Acts]
    /\ job \in [event : Events, todo : SUBSET (Users \X LetterKinds)]
    /\ excuse \in [Parts -> BOOLEAN]
    /\ count \in [changes : Nat, faults : Nat]

-----------------------------------------------------------------------------
(* Types                                                                   *)

LEMMA Values ==
    /\ None \in Events /\ Rest \in Spots
    /\ \A t \in Tasks : Card(t) \in [title : {"archived", "plain"}, done : BOOLEAN, who : People]
    /\ \A t \in Tasks : Tags(t) \in [done : BOOLEAN, free : BOOLEAN]
    /\ \A t \in Tasks : Closed(t) \in BOOLEAN /\ Idle(t) \in Acts
    /\ None.task \in Tasks /\ Idle(None.task) \in Acts
<1>1. None.task \in Tasks BY DEF None, Tasks
<1>2. None \in Events BY <1>1 DEF None, Events, People
<1>3. Rest \in Spots BY DEF Rest, Spots
<1>4. ASSUME NEW t \in Tasks
      PROVE  /\ Card(t) \in [title : {"archived", "plain"}, done : BOOLEAN, who : People]
             /\ Tags(t) \in [done : BOOLEAN, free : BOOLEAN]
             /\ Closed(t) \in BOOLEAN /\ Idle(t) \in Acts
  <2>1. Card(t) \in [title : {"archived", "plain"}, done : BOOLEAN, who : People]
    BY DEF Card, Tasks, People
  <2>2. Tags(t) \in [done : BOOLEAN, free : BOOLEAN] BY DEF Tags, Tasks
  <2>3. Closed(t) \in BOOLEAN BY DEF Closed, Tasks
  <2>4. Idle(t) \in Acts BY <1>3 DEF Idle, Acts, Ways
  <2> QED BY <2>1, <2>2, <2>3, <2>4
<1> QED BY <1>1, <1>2, <1>3, <1>4

LEMMA LettersAreLetters ==
    ASSUME NEW e \in Events, e.kind # "none"
    PROVE  Letters(e) \in SUBSET (Users \X LetterKinds)
<1>1. Watchers \subseteq Users /\ Held(e) \subseteq Users /\ {e.old} \ {Nobody} \subseteq Users
  BY UsersAssumption DEF Held, Events, Tasks, People
<1> QED
  BY <1>1, Zenon DEF Letters, CreatedLetters, ReminderLetters, StatusLetters, NoteLetters, AssigneeLetters,
              UnblockedLetters, Held, LetterKinds, Events, Kinds


LEMMA InitTypes == Init => TypeOK
<1> SUFFICES ASSUME Init PROVE TypeOK OBVIOUS
<1> DEFINE t == [done |-> FALSE, shelved |-> FALSE, who |-> Holder]
<1>1. t \in Tasks BY UsersAssumption DEF Tasks
<1>2. row = [live |-> TRUE, task |-> t] /\ row \in [live : BOOLEAN, task : Tasks] BY <1>1 DEF Init
<1>3. thread \in Threads
  <2>1. thread = [here |-> TRUE, shut |-> FALSE, card |-> Card(t), tags |-> Tags(t), arch |-> FALSE,
                  cached |-> FALSE]
    BY DEF Init
  <2> HIDE DEF t
  <2> QED BY <1>1, <2>1, Values DEF Threads
<1>4. queue \subseteq Events
  <2>1. PICK k \in Waiting :
              queue = {[None EXCEPT !.kind = k, !.task = t, !.tries = MaxTries - 1,
                           !.by = IF k = "due" THEN Nobody ELSE Creator]}
    BY DEF Init
  <2> HIDE DEF t
  <2>2. [None EXCEPT !.kind = k, !.task = t, !.tries = MaxTries - 1,
                     !.by = IF k = "due" THEN Nobody ELSE Creator] \in Events
    <3>1. [None EXCEPT !.kind = k] \in Events BY BoundsAssumption, Values DEF Events
    <3>2. [None EXCEPT !.kind = k, !.task = t] \in Events BY <1>1, <3>1 DEF Events
    <3>3. MaxTries - 1 \in Int BY BoundsAssumption
    <3>4. [None EXCEPT !.kind = k, !.task = t, !.tries = MaxTries - 1] \in Events BY <3>2, <3>3 DEF Events
    <3>5. (IF k = "due" THEN Nobody ELSE Creator) \in People BY UsersAssumption DEF People
    <3> QED BY <3>4, <3>5 DEF Events
  <2> QED BY <2>1, <2>2
<1>5. act \in [All -> Acts] BY Values DEF Init
<1>6. job \in [event : Events, todo : SUBSET (Users \X LetterKinds)] BY Values DEF Init
<1>7. excuse \in [Parts -> BOOLEAN] BY DEF Init
<1>8. count \in [changes : Nat, faults : Nat] BY DEF Init
<1> QED BY <1>2, <1>3, <1>4, <1>5, <1>6, <1>7, <1>8 DEF TypeOK

\* What the steps are made of keeps the types.
LEMMA PartsKeepTypes ==
    ASSUME TypeOK
    PROVE  /\ Fault \/ Same => count' \in [changes : Nat, faults : Nat]
           /\ \A x \in All, a \in Spots : At(x, a) \in [All -> Acts]
           /\ \A x \in All : Ended(x) \in [All -> Acts]
           /\ \A x \in All : \A ps : Written(x, ps) \in [Parts -> BOOLEAN]
           /\ \A ps : Spared(ps) \in [Parts -> BOOLEAN]
           /\ Opened(thread) \in Threads /\ Shut(thread) \in Threads
<1> USE DEF TypeOK
<1>1. Fault \/ Same => count' \in [changes : Nat, faults : Nat] BY DEF Fault, Same
<1>2. ASSUME NEW x \in All, NEW a \in Spots PROVE At(x, a) \in [All -> Acts] BY DEF At, Acts
<1>3. ASSUME NEW x \in All PROVE Ended(x) \in [All -> Acts] BY Values DEF Ended
<1>4. ASSUME NEW x \in All, NEW ps PROVE Written(x, ps) \in [Parts -> BOOLEAN] BY DEF Written, Acts
<1>5. ASSUME NEW ps PROVE Spared(ps) \in [Parts -> BOOLEAN] BY DEF Spared
<1>6. Opened(thread) \in Threads /\ Shut(thread) \in Threads BY DEF Opened, Shut, Threads
<1> QED BY <1>1, <1>2, <1>3, <1>4, <1>5, <1>6

\* Where a handler goes on is a place, whatever the thread is like.
LEMMA OnwardsKeepTypes ==
    ASSUME TypeOK, NEW x \in All
    PROVE  /\ \A th, s \in {"post", "refresh", "card"} :
                  Enter(th, s) \in Spots /\ (th.cached \in BOOLEAN => Entered(x, th, s) \in [All -> Acts])
           /\ AfterSync(x) \in [All -> Acts]
           /\ \A th : Plan(x, th) \in [All -> Acts]
           /\ \A th \in Threads : Sync(x, th) \in [All -> Acts]
<1> USE DEF TypeOK
<1>1. ASSUME NEW th, NEW s \in {"post", "refresh", "card"} PROVE Enter(th, s) \in Spots
  BY <1>1 DEF Enter, Spots
<1>2. ASSUME NEW th, NEW s \in {"post", "refresh", "card"}, th.cached \in BOOLEAN
      PROVE Entered(x, th, s) \in [All -> Acts]
  <2>1. [act[x] EXCEPT !.at = Enter(th, s)] \in Acts BY <1>1 DEF Acts
  <2>2. [act[x] EXCEPT !.at = Enter(th, s), !.was = th.cached] \in Acts BY <1>2, <2>1 DEF Acts
  <2>3. Entered(x, th, s) = [act EXCEPT ![x] = [act[x] EXCEPT !.at = Enter(th, s), !.was = th.cached]]
    BY DEF Entered
  <2> QED BY <2>2, <2>3
<1>3. AfterSync(x) \in [All -> Acts]
  BY PartsKeepTypes DEF AfterSync, Spots
<1>4. ASSUME NEW th PROVE Plan(x, th) \in [All -> Acts]
  <2>1. <<"lift", "edit">> \in Spots /\ <<"do", "edit">> \in Spots BY DEF Spots
  <2>2. Differing(x, th) \in SUBSET {"tags", "arch"} BY DEF Differing
  <2>3. [act EXCEPT ![x].at = <<"do", "edit">>, ![x].edit = Differing(x, th)] \in [All -> Acts]
    <3>1. [act[x] EXCEPT !.at = <<"do", "edit">>] \in Acts BY <2>1 DEF Acts
    <3>2. [act[x] EXCEPT !.at = <<"do", "edit">>, !.edit = Differing(x, th)] \in Acts
      BY <2>2, <3>1 DEF Acts
    <3> QED BY <3>2
  <2> QED BY <1>3, <2>1, <2>3, PartsKeepTypes DEF Plan
<1>5. ASSUME NEW th \in Threads PROVE Sync(x, th) \in [All -> Acts]
  BY <1>2, <1>3 DEF Sync, Threads
<1> QED BY <1>1, <1>2, <1>3, <1>4, <1>5


LEMMA SyncKeepsTypes ==
    ASSUME TypeOK, NEW x \in All, Step(x)
    PROVE  TypeOK'
<1>0. row' = row /\ queue' = queue /\ job' = job
  BY DEF Step, Lift, DrawCard, EditThread
<1>1. CASE Lift(x)
  <2>1. PICK s \in {"post", "refresh", "card", "edit"} :
              /\ act' = At(x, <<"do", s>>)
              /\ thread' = Opened(thread) \/ thread' = thread
              /\ Fault \/ Same
              /\ excuse' = Spared({"arch"}) \/ excuse' = excuse
    BY <1>1 DEF Lift, Refused
  <2>2. <<"do", s>> \in Spots BY DEF Spots
  <2>3. act' \in [All -> Acts] BY <2>1, <2>2, PartsKeepTypes
  <2>4. thread' \in Threads BY <2>1, PartsKeepTypes DEF TypeOK
  <2>5. excuse' \in [Parts -> BOOLEAN] BY <2>1, PartsKeepTypes DEF TypeOK
  <2>6. count' \in [changes : Nat, faults : Nat] BY <2>1, PartsKeepTypes
  <2> QED BY <1>0, <2>3, <2>4, <2>5, <2>6 DEF TypeOK
<1>2. CASE DrawCard(x)
  <2>1. act' = Plan(x, thread) \/ act' = act BY <1>2 DEF DrawCard
  <2>2. act' \in [All -> Acts] BY <2>1, OnwardsKeepTypes DEF TypeOK
  <2>3. Fault \/ Same BY <1>2 DEF DrawCard, Refused
  <2>4. thread' = [thread EXCEPT !.card = Card(act[x].task)] \/ thread' = Opened(thread) \/ thread' = thread
    BY <1>2 DEF DrawCard
  <2>5. act[x].task \in Tasks BY DEF TypeOK, Acts
  <2>6. thread' \in Threads
    <3>1. Card(act[x].task) \in [title : {"archived", "plain"}, done : BOOLEAN, who : People]
      BY <2>5, Values
    <3>2. [thread EXCEPT !.card = Card(act[x].task)] \in Threads BY <3>1 DEF TypeOK, Threads
    <3> QED BY <2>4, <3>2, PartsKeepTypes DEF TypeOK
  <2>7. excuse' \in [Parts -> BOOLEAN]
    <3>1. \/ excuse' = Written(x, {"card"} \cup Matching(x, thread)) \/ excuse' = Spared({"arch"})
          \/ excuse' = excuse
          \/ excuse' = [Written(x, Matching(x, thread)) EXCEPT !["card"] = TRUE]
      BY <1>2 DEF DrawCard
    <3>2. Written(x, Matching(x, thread)) \in [Parts -> BOOLEAN] BY PartsKeepTypes
    <3>3. [Written(x, Matching(x, thread)) EXCEPT !["card"] = TRUE] \in [Parts -> BOOLEAN] BY <3>2
    <3>4. CASE excuse' = Written(x, {"card"} \cup Matching(x, thread)) BY <3>4, PartsKeepTypes
    <3>5. CASE excuse' = Spared({"arch"}) BY <3>5, PartsKeepTypes
    <3> QED BY <3>1, <3>3, <3>4, <3>5 DEF TypeOK
  <2>8. count' \in [changes : Nat, faults : Nat] BY <2>3, PartsKeepTypes
  <2> QED BY <1>0, <2>2, <2>6, <2>7, <2>8 DEF TypeOK
<1>3. CASE EditThread(x)
  <2>1. act[x].task \in Tasks /\ act[x] \in Acts BY DEF TypeOK, Acts
  <2>2. Fault \/ Same BY <1>3 DEF EditThread, Refused
  <2>3. excuse' \in [Parts -> BOOLEAN] BY <1>3, PartsKeepTypes DEF EditThread, TypeOK
  <2>4. thread' \in Threads
    <3>1. \A ps : Apply(x, ps) \in Threads
      <4>1. Tags(act[x].task) \in [done : BOOLEAN, free : BOOLEAN] /\ Closed(act[x].task) \in BOOLEAN
        BY <2>1, Values
      <4>2. SUFFICES ASSUME NEW ps PROVE Apply(x, ps) \in Threads OBVIOUS
      <4>3. [thread EXCEPT !.tags = IF "tags" \in ps THEN Tags(act[x].task) ELSE @] \in Threads
        BY <4>1 DEF TypeOK, Threads
      <4>4. [thread EXCEPT !.tags = IF "tags" \in ps THEN Tags(act[x].task) ELSE @,
                           !.arch = IF "arch" \in ps THEN Closed(act[x].task) ELSE @] \in Threads
        BY <4>1, <4>3 DEF Threads
      <4> QED BY <4>1, <4>4 DEF Apply, Threads
    <3>2. [thread EXCEPT !.cached = TRUE] \in Threads BY DEF TypeOK, Threads
    <3>3. \/ thread' = Apply(x, Keywords(x)) \/ thread' = [thread EXCEPT !.cached = TRUE]
          \/ thread' = Opened(thread) \/ thread' = thread
      BY <1>3 DEF EditThread
    <3>4. CASE thread' = Apply(x, Keywords(x)) BY <3>1, <3>4
    <3> QED BY <3>2, <3>3, <3>4, PartsKeepTypes DEF TypeOK
  <2>5. act' \in [All -> Acts]
    <3>1. Keywords(x) \cup (IF Closed(act[x].task) THEN {"arch"} ELSE {}) \in SUBSET {"tags", "arch"}
      BY <2>1 DEF Keywords, Differing, Acts
    <3> DEFINE more == Keywords(x) \cup IF Closed(act[x].task) THEN {"arch"} ELSE {}
    <3>2. [act[x] EXCEPT !.edit = more] \in Acts BY <2>1, <3>1 DEF Acts
    <3>3. act' = AfterSync(x) \/ act' = [act EXCEPT ![x] = [act[x] EXCEPT !.edit = more]]
      BY <1>3 DEF EditThread
    <3> HIDE DEF more
    <3>4. [act EXCEPT ![x] = [act[x] EXCEPT !.edit = more]] \in [All -> Acts] BY <3>2 DEF TypeOK
    <3>5. AfterSync(x) \in [All -> Acts] BY OnwardsKeepTypes
    <3> QED BY <3>3, <3>4, <3>5
  <2>6. count' \in [changes : Nat, faults : Nat] BY <2>2, PartsKeepTypes
  <2> QED BY <1>0, <2>3, <2>4, <2>5, <2>6 DEF TypeOK
<1> QED BY <1>1, <1>2, <1>3 DEF Step

LEMMA OvertakenKeepsTypes ==
    ASSUME TypeOK, NEW x, NEW t \in Tasks, NEW a, a.at \in Spots, a.op \in Ways
    PROVE  Overtaken(x, t, a) \in [All -> Acts]
<1>1. [Idle(t) EXCEPT !.at = a.at] \in Acts BY Values DEF Acts
<1>2. [Idle(t) EXCEPT !.at = a.at, !.op = a.op] \in Acts BY <1>1 DEF Acts
<1>3. [Idle(t) EXCEPT !.at = a.at, !.op = a.op, !.was = thread.cached] \in Acts
  BY <1>2 DEF Acts, TypeOK, Threads
<1>4. ASSUME NEW y \in All PROVE [act[y] EXCEPT !.moved = @ \/ act[y].at # Rest] \in Acts
  <2> DEFINE m == act[y].moved \/ act[y].at # Rest
  <2>1. m \in BOOLEAN /\ act[y] \in Acts BY DEF TypeOK
  <2> HIDE DEF m
  <2>2. [act[y] EXCEPT !.moved = m] \in Acts BY <2>1 DEF Acts
  <2>3. act[y].moved \in BOOLEAN BY <2>1 DEF Acts
  <2> QED BY <2>2, <2>3 DEF m
<1> QED BY <1>3, <1>4 DEF Overtaken

LEMMA EventIsEvent ==
    ASSUME count' \in [changes : Nat, faults : Nat], NEW x \in Users, NEW k \in Kinds, NEW t \in Tasks,
           NEW o \in People
    PROVE  /\ Event(x, k, t, o) \in Events
           /\ Event(x, k, t, o).kind = k /\ Event(x, k, t, o).by = x /\ Event(x, k, t, o).task = t
           /\ Event(x, k, t, o).old = o /\ Event(x, k, t, o).said = 0
           /\ Event(x, k, t, o).told = [u \in Users |-> 0] /\ ~Event(x, k, t, o).again
<1>1. [None EXCEPT !.id = count'.changes] \in Events BY Values DEF Events
<1>2. [None EXCEPT !.id = count'.changes, !.kind = k] \in Events BY <1>1 DEF Events
<1>3. [None EXCEPT !.id = count'.changes, !.kind = k, !.by = x] \in Events BY <1>2 DEF Events, People
<1>4. [None EXCEPT !.id = count'.changes, !.kind = k, !.by = x, !.task = t] \in Events BY <1>3 DEF Events
<1>5. Event(x, k, t, o) \in Events BY <1>4 DEF Events, Event
<1>6. None.said = 0 /\ None.told = [u \in Users |-> 0] /\ ~None.again BY DEF None
<1> DEFINE e1 == [None EXCEPT !.id = count'.changes, !.kind = k, !.by = x]
<1>7. e1.kind = k /\ e1.by = x /\ e1.said = 0 /\ e1.told = [u \in Users |-> 0] /\ ~e1.again
  BY <1>6, Values DEF Events
<1>8. Event(x, k, t, o) = [e1 EXCEPT !.task = t, !.old = o] BY DEF Event
<1>9. e1 \in Events BY <1>3
<1> HIDE DEF Event, e1
<1> QED BY <1>5, <1>7, <1>8, <1>9 DEF Events


\* What a request of x does: a note, a change with its event, a change without one, the end.
Changed(x) ==
    \E t \in Tasks, o \in People, k \in {"status", "assign"} :
       /\ k = "status" => o = Nobody
       /\ row' = [row EXCEPT !.task = t]
       /\ Event(x, k, t, o) \in queue' /\ queue' \subseteq queue \cup {Event(x, k, t, o)}
       /\ act' = Overtaken(x, t, [at |-> Enter(thread, "refresh"), op |-> k])

Shelved(x) ==
    \E t \in Tasks :
       /\ row' = [row EXCEPT !.task = t]
       /\ queue' \subseteq queue
       /\ IF thread.here
          THEN act' = Overtaken(x, t, [at |-> Enter(thread, "card"), op |-> "shelve"])
          ELSE act' = [Overtaken(x, t, [at |-> Rest, op |-> "none"]) EXCEPT ![x] = Idle(None.task)]

LEMMA Requests ==
    ASSUME TypeOK, NEW x \in Actors, Request(x)
    PROVE  /\ act[x].at = Rest /\ row.live /\ x \in Users
           /\ thread' = thread /\ job' = job /\ excuse' = excuse
           /\ count' \in [changes : Nat, faults : Nat]
           /\ \/ AddNote(x) \/ Changed(x) \/ Shelved(x)
              \/ DeleteTask(x)
<1>1. act[x].at = Rest /\ row.live /\ x \in Users /\ thread' = thread /\ job' = job /\ excuse' = excuse
  BY UsersAssumption DEF Request, ChangeStatus, ChangeAssignee, AddNote, Shelve, DeleteTask, Ask
<1>2. count' = [count EXCEPT !.changes = @ + 1]
  BY DEF Request, ChangeStatus, ChangeAssignee, AddNote, Shelve, DeleteTask, Ask
<1>3. count' \in [changes : Nat, faults : Nat] BY <1>2 DEF TypeOK
<1>4. row.task \in Tasks /\ row.task.who \in People BY DEF TypeOK, Tasks, People
<1>5. ASSUME ChangeStatus(x) PROVE Changed(x)
  <2> DEFINE t == [row.task EXCEPT !.done = ~@]
  <2>1. t \in Tasks BY <1>4 DEF Tasks
  <2>2. Unreminded \subseteq queue BY DEF Unreminded
  <2>3. /\ row' = [row EXCEPT !.task = t]
        /\ queue' = (IF t.done THEN Unreminded ELSE queue) \cup {Event(x, "status", t, Nobody)}
        /\ act' = Overtaken(x, t, [at |-> Enter(thread, "refresh"), op |-> "status"])
    BY <1>5 DEF ChangeStatus
  <2> HIDE DEF t
  <2> QED BY <2>1, <2>2, <2>3 DEF Changed, People
<1>6. ASSUME ChangeAssignee(x) PROVE Changed(x)
  <2>1. PICK u \in Users \cup {Nobody} :
           /\ row' = [row EXCEPT !.task = [row.task EXCEPT !.who = u]]
           /\ queue' = queue \cup {Event(x, "assign", [row.task EXCEPT !.who = u], row.task.who)}
           /\ act' = Overtaken(x, [row.task EXCEPT !.who = u], [at |-> Enter(thread, "refresh"), op |-> "assign"])
    BY <1>6 DEF ChangeAssignee
  <2> DEFINE t == [row.task EXCEPT !.who = u]
  <2>2. t \in Tasks BY <1>4 DEF Tasks
  <2>3. /\ row' = [row EXCEPT !.task = t]
        /\ queue' = queue \cup {Event(x, "assign", t, row.task.who)}
        /\ act' = Overtaken(x, t, [at |-> Enter(thread, "refresh"), op |-> "assign"])
    BY <2>1
  <2> HIDE DEF t
  <2> QED BY <1>4, <2>2, <2>3 DEF Changed
<1>7. ASSUME Shelve(x) PROVE Shelved(x)
  <2> DEFINE t == [row.task EXCEPT !.shelved = ~@]
  <2>1. t \in Tasks BY <1>4 DEF Tasks
  <2>2. Unreminded \subseteq queue BY DEF Unreminded
  <2>3. /\ row' = [row EXCEPT !.task = t]
        /\ queue' = IF t.shelved THEN Unreminded ELSE queue
        /\ act' = IF thread.here
              THEN Overtaken(x, t, [at |-> Enter(thread, "card"), op |-> "shelve"])
              ELSE [Overtaken(x, t, [at |-> Rest, op |-> "none"]) EXCEPT ![x] = Idle(None.task)]
    BY <1>7 DEF Shelve
  <2> HIDE DEF t
  <2> QED BY <2>1, <2>2, <2>3 DEF Shelved
<1> QED BY <1>1, <1>3, <1>5, <1>6, <1>7 DEF Request

LEMMA RequestKeepsTypes ==
    ASSUME TypeOK, NEW x \in Actors, Request(x)
    PROVE  TypeOK'
<1>1. /\ x \in Users /\ thread' = thread /\ job' = job /\ excuse' = excuse
      /\ count' \in [changes : Nat, faults : Nat]
  BY Requests
<1>2. row.task \in Tasks BY DEF TypeOK
<1>3. CASE AddNote(x)
  <2>1. Event(x, "note", row.task, Nobody) \in Events
    BY <1>1, <1>2, EventIsEvent DEF Kinds, People
  <2> QED BY <1>1, <1>3, <2>1 DEF AddNote, TypeOK
<1>4. CASE Changed(x)
  <2>1. PICK t \in Tasks, o \in People, k \in {"status", "assign"} :
           /\ row' = [row EXCEPT !.task = t]
           /\ queue' \subseteq queue \cup {Event(x, k, t, o)}
           /\ act' = Overtaken(x, t, [at |-> Enter(thread, "refresh"), op |-> k])
    BY <1>4 DEF Changed
  <2>2. Event(x, k, t, o) \in Events
    <3>1. k \in Kinds BY DEF Kinds
    <3> QED BY <1>1, <3>1, EventIsEvent
  <2>3. Enter(thread, "refresh") \in Spots BY DEF Enter, Spots
  <2>4. act' \in [All -> Acts] BY <2>1, <2>3, OvertakenKeepsTypes DEF Ways, Kinds
  <2>5. row' \in [live : BOOLEAN, task : Tasks] BY <2>1 DEF TypeOK
  <2> QED BY <1>1, <2>1, <2>2, <2>4, <2>5 DEF TypeOK
<1>5. CASE Shelved(x)
  <2>1. PICK t \in Tasks :
           /\ row' = [row EXCEPT !.task = t]
           /\ queue' \subseteq queue
           /\ IF thread.here
              THEN act' = Overtaken(x, t, [at |-> Enter(thread, "card"), op |-> "shelve"])
              ELSE act' = [Overtaken(x, t, [at |-> Rest, op |-> "none"]) EXCEPT ![x] = Idle(None.task)]
    BY <1>5 DEF Shelved
  <2>2. Enter(thread, "card") \in Spots BY DEF Enter, Spots
  <2>3. Overtaken(x, t, [at |-> Enter(thread, "card"), op |-> "shelve"]) \in [All -> Acts]
    BY <2>2, OvertakenKeepsTypes DEF Ways
  <2>4. Overtaken(x, t, [at |-> Rest, op |-> "none"]) \in [All -> Acts]
    BY Values, OvertakenKeepsTypes DEF Ways
  <2>5. act' \in [All -> Acts] BY <2>1, <2>3, <2>4, Values
  <2>6. row' \in [live : BOOLEAN, task : Tasks] BY <2>1 DEF TypeOK
  <2> QED BY <1>1, <2>1, <2>5, <2>6 DEF TypeOK
<1>6. CASE DeleteTask(x)
  <2>1. <<"do", "delete">> \in Spots BY DEF Spots
  <2>2. act' = Overtaken(x, row.task, [at |-> <<"do", "delete">>, op |-> "delete"])
    BY <1>6 DEF DeleteTask
  <2>3. act' \in [All -> Acts] BY <1>2, <2>1, <2>2, OvertakenKeepsTypes DEF Ways
  <2>4. row' \in [live : BOOLEAN, task : Tasks] /\ queue' \subseteq queue
    BY <1>6 DEF DeleteTask, TypeOK, Unreminded
  <2> QED BY <1>1, <2>3, <2>4 DEF TypeOK
<1> QED BY <1>3, <1>4, <1>5, <1>6, Requests

LEMMA HandleKeepsTypes ==
    ASSUME TypeOK, NEW x \in Actors, Handle(x)
    PROVE  TypeOK'
<1>0. row' = row /\ queue' = queue /\ job' = job /\ x \in All
  BY DEF Handle, Refresh, RefreshShut, DeleteThread, CloseThread, All
<1>1. count' \in [changes : Nat, faults : Nat]
  <2>1. Fault \/ Same BY DEF Handle, Refresh, RefreshShut, DeleteThread, CloseThread, Refused
  <2> QED BY <2>1, PartsKeepTypes
<1>2. thread' \in Threads
  <2>1. Card(act[x].task) \in [title : {"archived", "plain"}, done : BOOLEAN, who : People]
    BY <1>0, Values DEF TypeOK, Acts
  <2>2. [thread EXCEPT !.card = Card(act[x].task)] \in Threads BY <2>1 DEF TypeOK, Threads
  <2>3. [thread EXCEPT !.here = FALSE] \in Threads BY DEF TypeOK, Threads
  <2>4. [Shut(thread) EXCEPT !.shut = TRUE] \in Threads BY PartsKeepTypes DEF Threads
  <2>5. \/ thread' = [thread EXCEPT !.card = Card(act[x].task)] \/ thread' = [thread EXCEPT !.here = FALSE]
        \/ thread' = [Shut(thread) EXCEPT !.shut = TRUE] \/ thread' = Shut(thread) \/ thread' = thread
    BY DEF Handle, Refresh, RefreshShut, DeleteThread, CloseThread
  <2> QED BY <2>2, <2>3, <2>4, <2>5, PartsKeepTypes DEF TypeOK
<1>3. excuse' \in [Parts -> BOOLEAN]
  <2>1. (\E ps : excuse' = Written(x, ps) \/ excuse' = Spared(ps)) \/ excuse' = excuse
    BY DEF Handle, Refresh, RefreshShut, DeleteThread, CloseThread
  <2> QED BY <1>0, <2>1, PartsKeepTypes DEF TypeOK
<1>4. act' \in [All -> Acts]
  <2>1. \/ \E a \in {<<"shut", "refresh">>, <<"shut", "error">>, <<"do", "close">>} : act' = At(x, a)
        \/ act' = Ended(x) \/ act' = Sync(x, thread) \/ act' = Sync(x, thread')
    BY DEF Handle, Refresh, RefreshShut, DeleteThread, CloseThread
  <2>2. \A a \in {<<"shut", "refresh">>, <<"shut", "error">>, <<"do", "close">>} : At(x, a) \in [All -> Acts]
    <3>1. {<<"shut", "refresh">>, <<"shut", "error">>, <<"do", "close">>} \subseteq Spots BY DEF Spots
    <3> QED BY <1>0, <3>1, PartsKeepTypes
  <2>3. Sync(x, thread) \in [All -> Acts] /\ Sync(x, thread') \in [All -> Acts]
    BY <1>0, <1>2, OnwardsKeepTypes DEF TypeOK
  <2> QED BY <1>0, <2>1, <2>2, <2>3, PartsKeepTypes
<1> QED BY <1>0, <1>1, <1>2, <1>3, <1>4 DEF TypeOK


LEMMA TakeKeepsTypes ==
    ASSUME TypeOK, NEW e \in queue, e.kind # "none", Take(e)
    PROVE  TypeOK'
<1>1. e \in Events /\ Worker \in All BY DEF TypeOK, All
<1>2. Resolve(e) \in Tasks
  <2>1. Reconstruct(e) \in Tasks BY <1>1 DEF Reconstruct, Events, Tasks
  <2> QED BY <2>1 DEF Resolve, TypeOK
<1>3. First(e) \in Spots BY DEF First, Enter, Spots
<1>4. act' \in [All -> Acts]
  <2>1. Idle(Resolve(e)) \in Acts BY <1>2, Values
  <2>2. e.kind \in Ways BY <1>1 DEF Events, Ways
  <2>3. [Idle(Resolve(e)) EXCEPT !.op = e.kind] \in Acts BY <2>1, <2>2 DEF Acts
  <2>4. [Idle(Resolve(e)) EXCEPT !.op = e.kind, !.was = thread.cached] \in Acts
    BY <2>3 DEF Acts, TypeOK, Threads
  <2>5. [Idle(Resolve(e)) EXCEPT !.op = e.kind, !.was = thread.cached, !.at = First(e)] \in Acts
    BY <1>3, <2>4 DEF Acts
  <2> QED BY <2>5 DEF Take, TypeOK
<1>5. job' \in [event : Events, todo : SUBSET (Users \X LetterKinds)]
  BY <1>1, LettersAreLetters DEF Take
<1> QED BY <1>4, <1>5 DEF Take, TypeOK

LEMMA DispatchKeepsTypes ==
    ASSUME TypeOK, Dispatch
    PROVE  TypeOK'
<1> DEFINE JobType == [event : Events, todo : SUBSET (Users \X LetterKinds)]
<1>0. row' = row /\ Worker \in All BY DEF Dispatch, Post, PostShut, Fail, Tell, Finish, All
<1>1. count' \in [changes : Nat, faults : Nat]
  <2>1. Fault \/ Same BY DEF Dispatch, Post, PostShut, Fail, Tell, Finish, Refused, Same
  <2> QED BY <2>1, PartsKeepTypes
<1>2. thread' \in Threads
  <2>1. [thread EXCEPT !.arch = FALSE] \in Threads BY DEF TypeOK, Threads
  <2>2. \/ thread' = [thread EXCEPT !.arch = FALSE] \/ thread' = Shut(thread) \/ thread' = thread
    BY DEF Dispatch, Post, PostShut, Fail, Tell, Finish
  <2> QED BY <2>1, <2>2, PartsKeepTypes DEF TypeOK
<1>3. excuse' \in [Parts -> BOOLEAN]
  <2>1. \/ \E ps : excuse' = Written(Worker, ps) \/ excuse' = Spared(ps)
        \/ excuse' = excuse
    BY DEF Dispatch, Post, PostShut, Fail, Tell, Finish
  <2> QED BY <1>0, <2>1, PartsKeepTypes DEF TypeOK
<1>4. act' \in [All -> Acts]
  <2> DEFINE A == {<<"shut", "post">>, <<"shut", "failed">>, <<"do", "failed">>, <<"do", "tell">>}
  <2>1. \A a \in A : At(Worker, a) \in [All -> Acts]
    <3>1. A \subseteq Spots BY DEF Spots
    <3> QED BY <1>0, <3>1, PartsKeepTypes
  <2>2. \A th \in Threads : AfterPost(th) \in [All -> Acts]
    BY <1>0, <2>1, OnwardsKeepTypes DEF AfterPost
  <2>3. \/ \E a \in A : act' = At(Worker, a)
        \/ act' = AfterPost(thread) \/ act' = AfterPost(thread') \/ act' = Ended(Worker) \/ act' = act
    BY DEF Dispatch, Post, PostShut, Fail, Tell, Finish
  <2> QED BY <1>0, <1>2, <2>1, <2>2, <2>3, PartsKeepTypes DEF TypeOK
<1>5. job' \in JobType
  <2>1. CASE Post
    <3>1. job' = [job EXCEPT !.event.said = @ + 1] \/ job' = job BY <2>1 DEF Post
    <3>2. [job.event EXCEPT !.said = @ + 1] \in Events BY DEF TypeOK, Events
    <3>3. [job EXCEPT !.event.said = @ + 1] = [job EXCEPT !.event = [job.event EXCEPT !.said = @ + 1]]
      BY DEF TypeOK
    <3> QED BY <3>1, <3>2, <3>3 DEF TypeOK
  <2>2. CASE Tell
    <3>1. PICK l \in job.todo :
              job' = [job EXCEPT !.todo = @ \ {l},
                                 !.event.told[l[1]] = IF Pref[l[1]] = "none" THEN @ ELSE @ + 1]
      BY <2>2 DEF Tell
    <3> DEFINE more == [job.event.told EXCEPT ![l[1]] = IF Pref[l[1]] = "none" THEN @ ELSE @ + 1]
    <3>2. l[1] \in Users BY DEF TypeOK
    <3>3. more \in [Users -> Int] BY <3>2 DEF TypeOK, Events
    <3>4. [job.event EXCEPT !.told = more] \in Events BY <3>3 DEF TypeOK, Events
    <3>5. job' = [job EXCEPT !.todo = @ \ {l}, !.event = [job.event EXCEPT !.told = more]]
      BY <3>1 DEF TypeOK, Events
    <3> HIDE DEF more
    <3>6. job.todo \ {l} \in SUBSET (Users \X LetterKinds) BY DEF TypeOK
    <3>7. [job EXCEPT !.todo = @ \ {l}] \in JobType BY <3>6 DEF TypeOK
    <3> QED BY <3>4, <3>5, <3>7
  <2>3. CASE job' = job BY <2>3 DEF TypeOK
  <2>4. CASE job' = Free BY <2>4, Values DEF Free
  <2> QED BY <2>1, <2>2, <2>3, <2>4 DEF Dispatch, PostShut, Fail, Finish
<1>6. queue' \subseteq Events
  <2>1. queue' \subseteq queue \cup {[job.event EXCEPT !.tries = @ + 1]}
    BY DEF Dispatch, Post, PostShut, Fail, Tell, Finish
  <2>2. [job.event EXCEPT !.tries = @ + 1] \in Events BY DEF TypeOK, Events
  <2> QED BY <2>1, <2>2 DEF TypeOK
<1> QED BY <1>0, <1>1, <1>2, <1>3, <1>4, <1>5, <1>6 DEF TypeOK

LEMMA WorldKeepsTypes ==
    ASSUME TypeOK, AutoArchive \/ GatewayUpdate \/ Crash
    PROVE  TypeOK'
<1>1. count' \in [changes : Nat, faults : Nat]
  <2>1. Fault \/ Same BY DEF AutoArchive, GatewayUpdate, Crash, Same
  <2> QED BY <2>1, PartsKeepTypes
<1>2. thread' \in Threads
  <2>1. thread' = [thread EXCEPT !.arch = TRUE] \/ thread' = [thread EXCEPT !.cached = thread.arch]
    BY DEF AutoArchive, GatewayUpdate, Crash
  <2>2. [thread EXCEPT !.arch = TRUE] \in Threads BY DEF TypeOK, Threads
  <2>3. [thread EXCEPT !.cached = thread.arch] \in Threads BY DEF TypeOK, Threads
  <2> QED BY <2>1, <2>2, <2>3
<1>3. excuse' \in [Parts -> BOOLEAN]
  <2>1. (\E ps : excuse' = Spared(ps)) \/ excuse' = excuse BY DEF AutoArchive, GatewayUpdate, Crash
  <2> QED BY <2>1, PartsKeepTypes DEF TypeOK
<1>4. queue' \subseteq Events
  <2>1. queue' \subseteq queue \cup {[job.event EXCEPT !.again = TRUE]} BY DEF AutoArchive, GatewayUpdate, Crash
  <2>2. [job.event EXCEPT !.again = TRUE] \in Events BY DEF TypeOK, Events
  <2> QED BY <2>1, <2>2 DEF TypeOK
<1>5. act' \in [All -> Acts] BY Values DEF AutoArchive, GatewayUpdate, Crash, TypeOK
<1>6. job' \in [event : Events, todo : SUBSET (Users \X LetterKinds)]
  BY Values DEF AutoArchive, GatewayUpdate, Crash, TypeOK, Free
<1> QED BY <1>1, <1>2, <1>3, <1>4, <1>5, <1>6 DEF AutoArchive, GatewayUpdate, Crash, TypeOK

-----------------------------------------------------------------------------
(* Places                                                                  *)

\* The events whose dispatch brings the thread up to date.
Syncing == {"due", "status", "assign", "unblocked"}

\* What the place of a handler says of it: the worker brings the thread up to
\* date for a syncing event and archives it again for a note, the handlers of
\* users post and tell nothing.
Placing(x, r) ==
    /\ r.edit # {} => r.at \in {<<"do", "edit">>, <<"do", "tell">>}
    /\ r.at \in {<<"lift", "post">>, <<"lift", "refresh">>, <<"lift", "card">>} => r.was
    /\ r.at \in {<<"shut", "refresh">>, <<"shut", "error">>} => Closed(r.task)
    /\ r.at \in {<<"do", "delete">>, <<"do", "close">>} => ~row.live
    /\ x = Worker =>
          /\ r.at \notin {Rest, <<"do", "tell">>} => r.op \in Syncing \cup {"note"}
          /\ r.at \in {<<"lift", "card">>, <<"do", "card">>, <<"lift", "edit">>, <<"do", "edit">>}
                => r.op \in Syncing
          /\ r.at \in {<<"shut", "post">>, <<"shut", "failed">>} => r.op = "note"
          /\ r.at \notin {<<"lift", "refresh">>, <<"do", "refresh">>, <<"shut", "refresh">>, <<"shut", "error">>}
    /\ x \in Actors =>
          r.at \notin {<<"lift", "post">>, <<"do", "post">>, <<"shut", "post">>, <<"shut", "failed">>,
                       <<"do", "failed">>, <<"do", "tell">>}

Placed == \A x \in All : Placing(x, act[x])

\* Whoever read the task after its last change has the task as it is.
Current == row.live => \A x \in All : act[x].at # Rest /\ ~act[x].moved => act[x].task = row.task

\* The worker is busy with an event exactly while its handler runs.
Busy ==
    /\ IF act[Worker].at = Rest THEN job = Free
                                ELSE job.event.kind = act[Worker].op /\ act[Worker].op \in Kinds
    /\ \A e \in queue : e.kind # "none"

HandlerInv == TypeOK /\ Placed /\ Current /\ Busy

LEMMA Fields ==
    ASSUME TypeOK, NEW x \in All
    PROVE  /\ \A a : /\ At(x, a)[x].at = a /\ At(x, a)[x].op = act[x].op /\ At(x, a)[x].task = act[x].task
                     /\ At(x, a)[x].moved = act[x].moved /\ At(x, a)[x].was = act[x].was
                     /\ At(x, a)[x].edit = act[x].edit
                     /\ \A y \in All \ {x} : At(x, a)[y] = act[y]
           /\ Ended(x)[x] = Idle(None.task) /\ \A y \in All \ {x} : Ended(x)[y] = act[y]
           /\ \A th, s : /\ Entered(x, th, s)[x].at = Enter(th, s) /\ Entered(x, th, s)[x].was = th.cached
                         /\ Entered(x, th, s)[x].op = act[x].op /\ Entered(x, th, s)[x].task = act[x].task
                         /\ Entered(x, th, s)[x].moved = act[x].moved
                         /\ Entered(x, th, s)[x].edit = act[x].edit
                         /\ \A y \in All \ {x} : Entered(x, th, s)[y] = act[y]
<1>1. act \in [All -> Acts] /\ act[x] \in Acts BY DEF TypeOK
<1>2. ASSUME NEW a
      PROVE  /\ At(x, a)[x].at = a /\ At(x, a)[x].op = act[x].op /\ At(x, a)[x].task = act[x].task
             /\ At(x, a)[x].moved = act[x].moved /\ At(x, a)[x].was = act[x].was
             /\ At(x, a)[x].edit = act[x].edit
             /\ \A y \in All \ {x} : At(x, a)[y] = act[y]
  BY <1>1 DEF At, Acts
<1>3. Ended(x)[x] = Idle(None.task) /\ \A y \in All \ {x} : Ended(x)[y] = act[y] BY <1>1 DEF Ended
<1>4. ASSUME NEW th, NEW s
      PROVE  /\ Entered(x, th, s)[x].at = Enter(th, s) /\ Entered(x, th, s)[x].was = th.cached
             /\ Entered(x, th, s)[x].op = act[x].op /\ Entered(x, th, s)[x].task = act[x].task
             /\ Entered(x, th, s)[x].moved = act[x].moved
             /\ Entered(x, th, s)[x].edit = act[x].edit
             /\ \A y \in All \ {x} : Entered(x, th, s)[y] = act[y]
  BY <1>1 DEF Entered, Acts
<1> QED BY <1>2, <1>3, <1>4

LEMMA AtRest ==
    LET r == Idle(None.task) IN
        r.at = Rest /\ r.op = "none" /\ r.moved = FALSE /\ r.was = FALSE /\ r.edit = {}
BY DEF Idle


\* A step of x: the others stay where they are, x comes to an end or goes on
\* with the task it has.  The worker ends when it has told everybody or failed.
MayEnd(x) == x = Worker => act[x].at \in {<<"do", "failed">>, <<"do", "tell">>}

Moves(x, f) ==
    /\ \A y \in All \ {x} : f[y] = act[y]
    /\ \/ f[x] = Idle(None.task) /\ MayEnd(x)
       \/ /\ f[x].at # Rest /\ f[x].op = act[x].op
          /\ f[x].task = act[x].task /\ f[x].moved = act[x].moved
    /\ Placing(x, f[x])

LEMMA Ends == ASSUME TypeOK, NEW x \in All, MayEnd(x) PROVE Moves(x, Ended(x))
<1>1. Placing(x, Idle(None.task)) BY AtRest DEF Placing, Rest
<1> QED BY <1>1, Fields DEF Moves

LEMMA SyncGoesOn ==
    ASSUME HandlerInv, NEW x \in All, NEW th \in Threads
    PROVE  /\ Moves(x, AfterSync(x))
           /\ act[x].at = <<"do", "card">> => Moves(x, Plan(x, th))
           /\ act[x].edit = {} /\ (x = Worker => act[x].op \in Syncing) => Moves(x, Sync(x, th))
<1> USE DEF HandlerInv
<1>1. Moves(x, AfterSync(x))
  <2>1. CASE x = Worker
    <3>1. AfterSync(x) = At(x, <<"do", "tell">>) BY <2>1 DEF AfterSync
    <3>2. Worker \notin Actors BY UsersAssumption
    <3>3. Placing(x, At(x, <<"do", "tell">>)[x]) BY <2>1, <3>2, Fields DEF Placing, Rest
    <3> QED BY <3>1, <3>3, Fields DEF Moves, Rest
  <2>2. CASE x # Worker BY <2>2, Ends DEF AfterSync, MayEnd
  <2> QED BY <2>1, <2>2
<1>2. ASSUME act[x].at = <<"do", "card">> PROVE Moves(x, Plan(x, th))
  <2>0. Placing(x, act[x]) BY DEF Placed
  <2>1. act[x].edit = {} /\ (x = Worker => act[x].op \in Syncing) BY <1>2, <2>0 DEF Placing
  <2>2. Placing(x, At(x, <<"lift", "edit">>)[x]) BY <2>1, Fields DEF Placing, Rest
  <2>3. Moves(x, At(x, <<"lift", "edit">>)) BY <2>2, Fields DEF Moves, Rest
  <2> DEFINE f == [act EXCEPT ![x].at = <<"do", "edit">>, ![x].edit = Differing(x, th)]
  <2>4. /\ f[x].at = <<"do", "edit">> /\ f[x].op = act[x].op /\ f[x].task = act[x].task
        /\ f[x].moved = act[x].moved /\ f[x].was = act[x].was
        /\ \A y \in All \ {x} : f[y] = act[y]
    BY DEF TypeOK, Acts
  <2>5. Plan(x, th) \in {AfterSync(x), At(x, <<"lift", "edit">>), f} BY DEF Plan
  <2> HIDE DEF f
  <2>6. Placing(x, f[x]) BY <2>1, <2>4 DEF Placing, Rest
  <2>7. Moves(x, f) BY <2>4, <2>6 DEF Moves, Rest
  <2> QED BY <1>1, <2>3, <2>5, <2>7
<1>3. ASSUME act[x].edit = {}, x = Worker => act[x].op \in Syncing PROVE Moves(x, Sync(x, th))
  <2>1. Enter(th, "card") = <<"do", "card">> \/ (Enter(th, "card") = <<"lift", "card">> /\ th.cached)
    BY DEF Enter
  <2>2. Placing(x, Entered(x, th, "card")[x]) BY <1>3, <2>1, Fields DEF Placing, Rest
  <2>3. Moves(x, Entered(x, th, "card")) BY <2>1, <2>2, Fields DEF Moves, Rest
  <2> QED BY <1>1, <2>3 DEF Sync
<1> QED BY <1>1, <1>2, <1>3

LEMMA StepMoves ==
    ASSUME HandlerInv, NEW x \in All, Step(x)
    PROVE  act[x].at # Rest /\ Moves(x, act')
<1> USE DEF HandlerInv
<1>0. Placing(x, act[x]) /\ thread \in Threads BY DEF Placed, TypeOK
<1>1. CASE Lift(x)
  <2>1. PICK s \in {"post", "refresh", "card", "edit"} :
              act[x].at = <<"lift", s>> /\ act' = At(x, <<"do", s>>)
    BY <1>1 DEF Lift
  <2>2. Placing(x, At(x, <<"do", s>>)[x]) BY <1>0, <2>1, Fields DEF Placing, Rest
  <2> QED BY <2>1, <2>2, Fields DEF Moves, Rest
<1>2. CASE DrawCard(x)
  <2>1. act[x].at = <<"do", "card">> /\ (act' = Plan(x, thread) \/ act' = act) BY <1>2 DEF DrawCard
  <2>2. Moves(x, Plan(x, thread)) BY <1>0, <2>1, SyncGoesOn
  <2>3. Moves(x, act) BY <1>0, <2>1 DEF Moves, Rest
  <2> QED BY <2>1, <2>2, <2>3 DEF Rest
<1>3. CASE EditThread(x)
  <2> DEFINE more == Keywords(x) \cup IF Closed(act[x].task) THEN {"arch"} ELSE {}
             f == [act EXCEPT ![x].edit = more]
  <2>1. act[x].at = <<"do", "edit">> /\ (act' = AfterSync(x) \/ act' = f) BY <1>3 DEF EditThread
  <2> HIDE DEF more
  <2>2. /\ f[x].at = <<"do", "edit">> /\ f[x].op = act[x].op /\ f[x].task = act[x].task
        /\ f[x].moved = act[x].moved /\ f[x].was = act[x].was
        /\ \A y \in All \ {x} : f[y] = act[y]
    BY <2>1 DEF TypeOK, Acts
  <2> HIDE DEF f
  <2>3. Placing(x, f[x]) BY <1>0, <2>1, <2>2 DEF Placing, Rest
  <2>4. Moves(x, f) BY <2>2, <2>3 DEF Moves, Rest
  <2>5. Moves(x, AfterSync(x)) BY <1>0, SyncGoesOn
  <2> QED BY <2>1, <2>4, <2>5 DEF Rest
<1> QED BY <1>1, <1>2, <1>3 DEF Step

LEMMA HandleMoves ==
    ASSUME HandlerInv, NEW x \in Actors, Handle(x)
    PROVE  act[x].at # Rest /\ Moves(x, act')
<1> USE DEF HandlerInv
<1>0. x \in All /\ x # Worker BY UsersAssumption DEF All
<1>1. Placing(x, act[x]) /\ thread \in Threads /\ thread' \in Threads
  BY <1>0, HandleKeepsTypes DEF Placed, TypeOK
<1>2. Moves(x, Ended(x)) BY <1>0, Ends DEF MayEnd
<1>3. act[x].edit = {} => Moves(x, Sync(x, thread)) /\ Moves(x, Sync(x, thread'))
  BY <1>0, <1>1, SyncGoesOn
<1>4. CASE Refresh(x)
  <2>1. act[x].at = <<"do", "refresh">> /\ act[x].edit = {} BY <1>1, <1>4 DEF Refresh, Placing
  <2>2. \/ act' = Sync(x, thread) \/ act' = Ended(x)
        \/ /\ Closed(act[x].task)
           /\ act' = At(x, <<"shut", "refresh">>) \/ act' = At(x, <<"shut", "error">>)
    BY <1>4 DEF Refresh
  <2>3. ASSUME Closed(act[x].task), NEW a \in {<<"shut", "refresh">>, <<"shut", "error">>}
        PROVE  Moves(x, At(x, a))
    <3>1. Placing(x, At(x, a)[x]) BY <1>0, <2>1, <2>3, Fields DEF Placing
    <3> QED BY <1>0, <3>1, <2>3, Fields DEF Moves, Rest
  <2> QED BY <1>2, <1>3, <2>1, <2>2, <2>3 DEF Rest
<1>5. CASE RefreshShut(x)
  <2>1. act[x].at \in {<<"shut", "refresh">>, <<"shut", "error">>} /\ act[x].edit = {}
    BY <1>1, <1>5 DEF RefreshShut, Placing
  <2>2. act' = Ended(x) \/ act' = Sync(x, thread') BY <1>5 DEF RefreshShut
  <2> QED BY <1>2, <1>3, <2>1, <2>2 DEF Rest
<1>6. CASE DeleteThread(x)
  <2>1. act[x].at = <<"do", "delete">> /\ (act' = Ended(x) \/ act' = At(x, <<"do", "close">>))
    BY <1>6 DEF DeleteThread
  <2>2. Placing(x, At(x, <<"do", "close">>)[x]) BY <1>0, <1>1, <2>1, Fields DEF Placing
  <2>3. Moves(x, At(x, <<"do", "close">>)) BY <1>0, <2>2, Fields DEF Moves, Rest
  <2> QED BY <1>2, <2>1, <2>3 DEF Rest
<1>7. CASE CloseThread(x) BY <1>2, <1>7 DEF CloseThread, Rest
<1> QED BY <1>4, <1>5, <1>6, <1>7 DEF Handle

LEMMA DispatchMoves ==
    ASSUME HandlerInv, Dispatch
    PROVE  act[Worker].at # Rest /\ Moves(Worker, act')
<1> USE DEF HandlerInv
<1>0. Worker \in All /\ Worker \notin Actors BY UsersAssumption DEF All
<1>1. Placing(Worker, act[Worker]) /\ thread \in Threads /\ thread' \in Threads
  BY <1>0, DispatchKeepsTypes DEF Placed, TypeOK
<1>2. MayEnd(Worker) => Moves(Worker, Ended(Worker)) BY <1>0, Ends
<1>3. ASSUME act[Worker].at \in {<<"do", "post">>, <<"shut", "post">>, <<"shut", "failed">>}
      PROVE  /\ Moves(Worker, AfterPost(thread)) /\ Moves(Worker, AfterPost(thread'))
             /\ Moves(Worker, At(Worker, <<"do", "failed">>))
             /\ act[Worker].op = "note" => /\ Moves(Worker, At(Worker, <<"shut", "post">>))
                                           /\ Moves(Worker, At(Worker, <<"shut", "failed">>))
  <2>1. act[Worker].edit = {} /\ act[Worker].op \in Syncing \cup {"note"} BY <1>1, <1>3 DEF Placing, Rest
  <2>2. ASSUME NEW a \in {<<"do", "failed">>, <<"do", "tell">>, <<"shut", "post">>, <<"shut", "failed">>},
               act[Worker].op = "note" \/ a \notin {<<"shut", "post">>, <<"shut", "failed">>}
        PROVE  Moves(Worker, At(Worker, a))
    <3>1. Placing(Worker, At(Worker, a)[Worker]) BY <1>0, <2>1, <2>2, Fields DEF Placing, Rest
    <3> QED BY <1>0, <3>1, <2>2, Fields DEF Moves, Rest
  <2>3. ASSUME NEW th \in Threads PROVE Moves(Worker, AfterPost(th))
    BY <1>0, <2>1, <2>2, <2>3, SyncGoesOn DEF AfterPost
  <2> QED BY <1>1, <2>2, <2>3
<1>4. CASE Post
  <2>1. act[Worker].at = <<"do", "post">> BY <1>4 DEF Post
  <2>2. \/ act' = AfterPost(thread) \/ act' = At(Worker, <<"do", "failed">>)
        \/ /\ act[Worker].op = "note"
           /\ act' = At(Worker, <<"shut", "post">>) \/ act' = At(Worker, <<"shut", "failed">>)
    BY <1>4 DEF Post, Rearchives
  <2> QED BY <1>3, <2>1, <2>2 DEF Rest
<1>5. CASE PostShut
  <2>1. act[Worker].at \in {<<"shut", "post">>, <<"shut", "failed">>} BY <1>5 DEF PostShut
  <2>2. act' = AfterPost(thread') \/ act' = At(Worker, <<"do", "failed">>) BY <1>5 DEF PostShut
  <2> QED BY <1>3, <2>1, <2>2 DEF Rest
<1>6. CASE Fail BY <1>2, <1>6 DEF Fail, Rest, MayEnd
<1>7. CASE Tell
  <2>1. act[Worker].at = <<"do", "tell">> /\ act' = act BY <1>7 DEF Tell
  <2> QED BY <1>1, <2>1 DEF Moves, Rest
<1>8. CASE Finish BY <1>2, <1>8 DEF Finish, Finished, Rest, MayEnd
<1> QED BY <1>4, <1>5, <1>6, <1>7, <1>8 DEF Dispatch

LEMMA MovesKeep ==
    ASSUME HandlerInv, NEW x \in All, act[x].at # Rest, Moves(x, act'), row' = row
    PROVE  Placed' /\ Current'
<1>1. ASSUME NEW y \in All PROVE Placing(y, act[y])'
  <2>1. Placing(y, act'[y]) BY DEF HandlerInv, Placed, Moves
  <2> QED BY <2>1 DEF Placing
<1>2. ASSUME row.live, NEW y \in All, act'[y].at # Rest, ~act'[y].moved PROVE act'[y].task = row.task
  <2>1. CASE y = x BY <1>2, <2>1, AtRest DEF HandlerInv, Current, Moves
  <2>2. CASE y # x BY <1>2, <2>2 DEF HandlerInv, Current, Moves
  <2> QED BY <2>1, <2>2
<1> QED BY <1>1, <1>2 DEF Placed, Current

Over(x, t, p, o) == Overtaken(x, t, [at |-> p, op |-> o])

\* What becomes of the handlers when x has written the task t.
Overruns(x, t) ==
    \E p, o : act' = Over(x, t, p, o) \/ act' = [Over(x, t, p, o) EXCEPT ![x] = Idle(None.task)]

LEMMA OvertakenFields ==
    ASSUME TypeOK, NEW x \in All, NEW t \in Tasks, NEW p, NEW o
    PROVE  /\ Over(x, t, p, o)[x].at = p /\ Over(x, t, p, o)[x].op = o
           /\ Over(x, t, p, o)[x].task = t /\ ~Over(x, t, p, o)[x].moved
           /\ Over(x, t, p, o)[x].was = thread.cached /\ Over(x, t, p, o)[x].edit = {}
           /\ \A y \in All \ {x} :
                 /\ Over(x, t, p, o)[y].at = act[y].at /\ Over(x, t, p, o)[y].op = act[y].op
                 /\ Over(x, t, p, o)[y].task = act[y].task /\ Over(x, t, p, o)[y].was = act[y].was
                 /\ Over(x, t, p, o)[y].edit = act[y].edit
                 /\ Over(x, t, p, o)[y].moved = (act[y].moved \/ act[y].at # Rest)
<1> DEFINE f == Over(x, t, p, o)
<1>1. f[x] = [Idle(t) EXCEPT !.at = p, !.op = o, !.was = thread.cached]
  BY DEF Over, Overtaken
<1>2. ASSUME NEW y \in All \ {x}
      PROVE  f[y] = [act[y] EXCEPT !.moved = act[y].moved \/ act[y].at # Rest]
  BY DEF Over, Overtaken, TypeOK, Acts
<1> HIDE DEF f
<1>3. ASSUME NEW y \in All \ {x}
      PROVE  /\ f[y].at = act[y].at /\ f[y].op = act[y].op /\ f[y].task = act[y].task
             /\ f[y].was = act[y].was /\ f[y].edit = act[y].edit
             /\ f[y].moved = (act[y].moved \/ act[y].at # Rest)
  <2>1. act[y] \in Acts BY DEF TypeOK
  <2> DEFINE m == act[y].moved \/ act[y].at # Rest
  <2>2. f[y] = [act[y] EXCEPT !.moved = m] BY <1>2
  <2> HIDE DEF m
  <2>3. f[y].moved = m BY <2>1, <2>2 DEF Acts
  <2> QED BY <2>1, <2>2, <2>3 DEF Acts, m
<1>4. /\ f[x].at = p /\ f[x].op = o /\ f[x].task = t
      /\ ~f[x].moved /\ f[x].was = thread.cached /\ f[x].edit = {}
  BY <1>1 DEF Idle
<1> QED BY <1>3, <1>4 DEF f

\* Whoever was at work when the task changed has an old one.
LEMMA OvertakenInv ==
    ASSUME HandlerInv, NEW x \in Actors, NEW t \in Tasks, NEW p, NEW o,
           act[x].at = Rest,
           row' = [row EXCEPT !.task = t], act' = Over(x, t, p, o),
           p \in {<<"do", "refresh">>, <<"do", "card">>}
               \/ (p \in {<<"lift", "refresh">>, <<"lift", "card">>} /\ thread.cached)
    PROVE  /\ Placed' /\ Current'
           /\ \A y \in All : act'[y].at = Rest <=> (y # x /\ act[y].at = Rest)
           /\ act'[Worker].at = act[Worker].at /\ act'[Worker].op = act[Worker].op
<1> USE DEF HandlerInv
<1>0. x \in All /\ x # Worker /\ Worker \in All BY UsersAssumption DEF All
<1>1. row'.live = row.live /\ row'.task = t BY DEF TypeOK
<1>2. /\ act'[x].at = p /\ act'[x].op = o /\ act'[x].task = t
      /\ ~act'[x].moved /\ act'[x].was = thread.cached /\ act'[x].edit = {}
  BY <1>0, OvertakenFields
<1>3. ASSUME NEW y \in All \ {x}
      PROVE  /\ act'[y].at = act[y].at /\ act'[y].op = act[y].op /\ act'[y].task = act[y].task
             /\ act'[y].was = act[y].was /\ act'[y].edit = act[y].edit
             /\ act'[y].moved = (act[y].moved \/ act[y].at # Rest)
  BY <1>0, OvertakenFields
<1>4. ASSUME NEW y \in All PROVE Placing(y, act[y])'
  <2>1. CASE y = x
    <3>1. CASE p \in {<<"do", "refresh">>, <<"do", "card">>} BY <1>0, <1>2, <2>1, <3>1 DEF Placing
    <3>2. CASE p \in {<<"lift", "refresh">>, <<"lift", "card">>} /\ thread.cached
      <4>1. act'[x].was BY <1>2, <3>2
      <4>2. x \notin {Worker} /\ act'[x].at = p /\ act'[x].edit = {} BY <1>0, <1>2
      <4> QED BY <2>1, <3>2, <4>1, <4>2 DEF Placing
    <3> QED BY <3>1, <3>2
  <2>2. CASE y # x
    <3>1. Placing(y, act[y]) BY DEF Placed
    <3> QED BY <1>1, <1>3, <2>2, <3>1 DEF Placing
  <2> QED BY <2>1, <2>2
<1>5. ASSUME NEW y \in All, act'[y].at # Rest, ~act'[y].moved PROVE act'[y].task = row'.task
  <2>1. CASE y = x BY <1>1, <1>2, <2>1
  <2>2. CASE y # x
    <3>1. act'[y].at = act[y].at /\ act'[y].moved = (act[y].moved \/ act[y].at # Rest) BY <1>3, <2>2
    <3> QED BY <1>5, <3>1
  <2> QED BY <2>1, <2>2
<1>6. \A y \in All : act'[y].at = Rest <=> (y # x /\ act[y].at = Rest) BY <1>2, <1>3 DEF Rest
<1> QED BY <1>0, <1>3, <1>4, <1>5, <1>6 DEF Placed, Current


LEMMA HandlerInit == Init => HandlerInv
<1> SUFFICES ASSUME Init PROVE HandlerInv OBVIOUS
<1>1. TypeOK BY InitTypes
<1>2. \A x \in All : act[x] = Idle(None.task) BY DEF Init
<1>3. Worker \in All BY DEF All
<1>4. Placed BY <1>2, AtRest DEF Placed, Placing, Rest
<1>5. Current BY <1>2, AtRest DEF Current
<1>6. act[Worker].at = Rest /\ job = Free BY <1>2, <1>3, AtRest DEF Init, Free
<1>7. \A e \in queue : e.kind # "none"
  <2> DEFINE t == [done |-> FALSE, shelved |-> FALSE, who |-> Holder]
  <2>1. PICK k \in Waiting :
              queue = {[None EXCEPT !.kind = k, !.task = t, !.tries = MaxTries - 1,
                           !.by = IF k = "due" THEN Nobody ELSE Creator]}
    BY DEF Init
  <2> HIDE DEF t
  <2>2. [None EXCEPT !.kind = k, !.task = t, !.tries = MaxTries - 1,
                     !.by = IF k = "due" THEN Nobody ELSE Creator].kind = k
    BY DEF None
  <2> QED BY <2>1, <2>2, BoundsAssumption DEF Kinds
<1> QED BY <1>1, <1>4, <1>5, <1>6, <1>7 DEF HandlerInv, Busy

LEMMA RequestHandlers ==
    ASSUME HandlerInv, NEW x \in Actors, Request(x)
    PROVE  HandlerInv'
<1> USE DEF HandlerInv
<1>0. /\ TypeOK' /\ x \in All /\ x # Worker /\ Worker \in All /\ act[x].at = Rest /\ row.live
      /\ job' = job /\ x \in Users /\ count' \in [changes : Nat, faults : Nat]
  BY RequestKeepsTypes, Requests, UsersAssumption DEF All
<1>1. CASE AddNote(x)
  <2>1. row' = row /\ act' = act BY <1>1 DEF AddNote
  <2>2. Placed' /\ Current' BY <2>1 DEF Placed, Placing, Current
  <2>3. queue' = queue \cup {Event(x, "note", row.task, Nobody)} BY <1>1 DEF AddNote
  <2>4. Event(x, "note", row.task, Nobody).kind = "note"
    BY <1>0, EventIsEvent DEF Kinds, People, TypeOK
  <2> QED BY <1>0, <2>1, <2>2, <2>3, <2>4 DEF Busy
<1>2. CASE Changed(x)
  <2>1. PICK t \in Tasks, o \in People, k \in {"status", "assign"} :
           /\ row' = [row EXCEPT !.task = t]
           /\ queue' \subseteq queue \cup {Event(x, k, t, o)}
           /\ act' = Over(x, t, Enter(thread, "refresh"), k)
    BY <1>2 DEF Changed, Over
  <2>2. /\ Placed' /\ Current'
        /\ act'[Worker].at = act[Worker].at /\ act'[Worker].op = act[Worker].op
    BY <1>0, <2>1, OvertakenInv DEF Enter
  <2>3. Event(x, k, t, o).kind = k
    <3>1. k \in Kinds BY DEF Kinds
    <3> QED BY <1>0, <3>1, EventIsEvent
  <2> QED BY <1>0, <2>1, <2>2, <2>3 DEF Busy
<1>3. CASE Shelved(x)
  <2>1. PICK t \in Tasks :
           /\ row' = [row EXCEPT !.task = t]
           /\ queue' \subseteq queue
           /\ IF thread.here
              THEN act' = Over(x, t, Enter(thread, "card"), "shelve")
              ELSE act' = [Over(x, t, Rest, "none") EXCEPT ![x] = Idle(None.task)]
    BY <1>3 DEF Shelved, Over
  <2>2. CASE thread.here
    <3>1. /\ Placed' /\ Current'
          /\ act'[Worker].at = act[Worker].at /\ act'[Worker].op = act[Worker].op
      BY <1>0, <2>1, <2>2, OvertakenInv DEF Enter
    <3> QED BY <1>0, <2>1, <3>1 DEF Busy
  <2>3. CASE ~thread.here
    <3> DEFINE f == Over(x, t, Rest, "none")
    <3>1. \A y \in All \ {x} : /\ f[y].at = act[y].at /\ f[y].op = act[y].op /\ f[y].task = act[y].task
                               /\ f[y].was = act[y].was /\ f[y].edit = act[y].edit
                               /\ f[y].moved = (act[y].moved \/ act[y].at # Rest)
      BY <1>0, OvertakenFields
    <3>2. DOMAIN f = All BY DEF Over, Overtaken
    <3> HIDE DEF f
    <3>3. act' = [f EXCEPT ![x] = Idle(None.task)] BY <2>1, <2>3 DEF f
    <3>4. act'[x] = Idle(None.task) /\ \A y \in All \ {x} : act'[y] = f[y] BY <1>0, <3>2, <3>3
    <3>5. row'.live = row.live BY <2>1 DEF TypeOK
    <3>6. ASSUME NEW y \in All PROVE Placing(y, act[y])'
      <4>1. CASE y = x BY <3>4, <4>1, AtRest DEF Placing, Rest
      <4>2. CASE y # x
        <5>1. Placing(y, act[y]) BY DEF Placed
        <5> QED BY <3>1, <3>4, <3>5, <4>2, <5>1 DEF Placing
      <4> QED BY <4>1, <4>2
    <3>7. ASSUME NEW y \in All PROVE act'[y].at # Rest => act'[y].moved
      BY <3>1, <3>4, AtRest
    <3> QED BY <1>0, <2>1, <3>1, <3>4, <3>6, <3>7 DEF Busy, Placed, Current
  <2> QED BY <2>2, <2>3
<1>4. CASE DeleteTask(x)
  <2>1. /\ row' = [row EXCEPT !.live = FALSE] /\ queue' \subseteq queue
        /\ act' = Over(x, row.task, <<"do", "delete">>, "delete")
    BY <1>4 DEF DeleteTask, Unreminded, Over
  <2>2. row.task \in Tasks /\ row'.live = FALSE BY <2>1 DEF TypeOK
  <2> DEFINE f == Over(x, row.task, <<"do", "delete">>, "delete")
  <2>3. \A y \in All \ {x} : /\ f[y].at = act[y].at /\ f[y].op = act[y].op /\ f[y].task = act[y].task
                             /\ f[y].was = act[y].was /\ f[y].edit = act[y].edit
                             /\ f[y].moved = (act[y].moved \/ act[y].at # Rest)
    BY <1>0, <2>2, OvertakenFields
  <2>4. f[x].at = <<"do", "delete">> /\ f[x].edit = {} BY <1>0, <2>2, OvertakenFields
  <2> HIDE DEF f
  <2>5. act' = f BY <2>1 DEF f
  <2>6. ASSUME NEW y \in All PROVE Placing(y, act[y])'
    <3>1. CASE y = x BY <1>0, <2>2, <2>4, <2>5, <3>1 DEF Placing, Rest
    <3>2. CASE y # x
      <4>1. Placing(y, act[y]) BY DEF Placed
      <4> QED BY <2>2, <2>3, <2>5, <3>2, <4>1 DEF Placing
    <3> QED BY <3>1, <3>2
  <2> QED BY <1>0, <2>1, <2>2, <2>3, <2>5, <2>6 DEF Busy, Placed, Current
<1> QED BY <1>1, <1>2, <1>3, <1>4, Requests

LEMMA StepHandlers ==
    ASSUME HandlerInv, NEW x \in All, Step(x)
    PROVE  HandlerInv'
<1> USE DEF HandlerInv
<1>1. TypeOK' /\ row' = row /\ queue' = queue /\ job' = job /\ Worker \in All
  BY SyncKeepsTypes DEF Step, Lift, DrawCard, EditThread, All
<1>2. act[x].at # Rest /\ Moves(x, act') BY StepMoves
<1>3. Placed' /\ Current' BY <1>1, <1>2, MovesKeep
<1>4. ~(x = Worker /\ MayEnd(x))
  BY DEF Step, Lift, DrawCard, EditThread, MayEnd
<1>5. (act'[Worker].at = Rest <=> act[Worker].at = Rest) /\ (act[Worker].at # Rest => act'[Worker].op = act[Worker].op)
  BY <1>1, <1>2, <1>4 DEF Moves
<1> QED BY <1>1, <1>3, <1>5 DEF Busy

LEMMA HandleHandlers ==
    ASSUME HandlerInv, NEW x \in Actors, Handle(x)
    PROVE  HandlerInv'
<1> USE DEF HandlerInv
<1>1. TypeOK' /\ row' = row /\ queue' = queue /\ job' = job /\ Worker \in All /\ x # Worker /\ x \in All
  BY HandleKeepsTypes, UsersAssumption DEF Handle, Refresh, RefreshShut, DeleteThread, CloseThread, All
<1>2. act[x].at # Rest /\ Moves(x, act') BY HandleMoves
<1>3. Placed' /\ Current' BY <1>1, <1>2, MovesKeep
<1>4. act'[Worker] = act[Worker] BY <1>1, <1>2 DEF Moves
<1> QED BY <1>1, <1>3, <1>4 DEF Busy

\* What the steps of the worker do to the event.
LEMMA JobMoves ==
    ASSUME TypeOK, Dispatch
    PROVE  \/ act' = Ended(Worker) /\ job' = Free
           \/ /\ act[Worker].at # <<"do", "failed">>
              /\ job'.event.kind = job.event.kind /\ queue' = queue
              /\ act[Worker].at = <<"do", "tell">> => act' = act
<1>1. CASE Post
  <2>1. act[Worker].at = <<"do", "post">> /\ queue' = queue
        /\ (job' = [job EXCEPT !.event.said = @ + 1] \/ job' = job)
    BY <1>1 DEF Post
  <2>2. [job.event EXCEPT !.said = @ + 1].kind = job.event.kind BY DEF TypeOK, Events
  <2>3. [job EXCEPT !.event.said = @ + 1] = [job EXCEPT !.event = [job.event EXCEPT !.said = @ + 1]]
    BY DEF TypeOK
  <2>4. job'.event.kind = job.event.kind BY <2>1, <2>2, <2>3 DEF TypeOK
  <2> QED BY <2>1, <2>4
<1>2. CASE PostShut BY <1>2 DEF PostShut
<1>3. CASE Fail BY <1>3 DEF Fail
<1>4. CASE Tell
  <2>1. PICK l \in job.todo :
              job' = [job EXCEPT !.todo = @ \ {l},
                                 !.event.told[l[1]] = IF Pref[l[1]] = "none" THEN @ ELSE @ + 1]
    BY <1>4 DEF Tell
  <2> DEFINE more == [job.event.told EXCEPT ![l[1]] = IF Pref[l[1]] = "none" THEN @ ELSE @ + 1]
  <2>2. job' = [job EXCEPT !.todo = @ \ {l}, !.event = [job.event EXCEPT !.told = more]]
    BY <2>1 DEF TypeOK, Events
  <2> HIDE DEF more
  <2>3. [job.event EXCEPT !.told = more].kind = job.event.kind BY DEF TypeOK, Events
  <2>4. job'.event.kind = job.event.kind BY <2>2, <2>3 DEF TypeOK
  <2> QED BY <1>4, <2>4 DEF Tell
<1>5. CASE Finish BY <1>5 DEF Finish
<1> QED BY <1>1, <1>2, <1>3, <1>4, <1>5 DEF Dispatch

LEMMA DispatchHandlers ==
    ASSUME HandlerInv, Dispatch
    PROVE  HandlerInv'
<1> USE DEF HandlerInv
<1>1. TypeOK' /\ row' = row /\ Worker \in All
  BY DispatchKeepsTypes DEF Dispatch, Post, PostShut, Fail, Tell, Finish, All
<1>2. act[Worker].at # Rest /\ Moves(Worker, act') BY DispatchMoves
<1>3. Placed' /\ Current' BY <1>1, <1>2, MovesKeep
<1>4. \A e \in queue' : e.kind # "none"
  <2>1. queue' \subseteq queue \cup {[job.event EXCEPT !.tries = @ + 1]}
    BY DEF Dispatch, Post, PostShut, Fail, Tell, Finish
  <2>2. [job.event EXCEPT !.tries = @ + 1].kind = job.event.kind BY DEF TypeOK, Events
  <2>3. job.event.kind # "none" BY <1>2 DEF Busy, Kinds
  <2> QED BY <2>1, <2>2, <2>3 DEF Busy
<1>5. CASE act' = Ended(Worker) /\ job' = Free
  <2>1. act'[Worker].at = Rest BY <1>1, <1>5, Fields, AtRest
  <2> QED BY <1>1, <1>3, <1>4, <1>5, <2>1 DEF Busy
<1>6. CASE /\ act[Worker].at # <<"do", "failed">> /\ job'.event.kind = job.event.kind
           /\ act[Worker].at = <<"do", "tell">> => act' = act
  <2>1. act'[Worker].at # Rest /\ act'[Worker].op = act[Worker].op BY <1>2, <1>6 DEF Moves, MayEnd
  <2> QED BY <1>1, <1>2, <1>3, <1>4, <1>6, <2>1 DEF Busy
<1> QED BY <1>5, <1>6, JobMoves

LEMMA TakeHandlers ==
    ASSUME HandlerInv, NEW e \in queue, Take(e)
    PROVE  HandlerInv'
<1> USE DEF HandlerInv
<1>1. e.kind # "none" /\ e.kind \in Kinds /\ e \in Events BY DEF Busy, TypeOK, Events
<1>2. TypeOK' /\ row' = row /\ Worker \in All /\ Worker \notin Actors
  BY <1>1, TakeKeepsTypes, UsersAssumption DEF Take, All
<1> DEFINE r == [Idle(Resolve(e)) EXCEPT !.op = e.kind, !.was = thread.cached, !.at = First(e)]
<1>3. /\ r.at = First(e) /\ r.op = e.kind /\ r.was = thread.cached /\ r.task = Resolve(e)
      /\ ~r.moved /\ r.edit = {}
  BY DEF Idle
<1> HIDE DEF r
<1>4. act' = [act EXCEPT ![Worker] = r] BY DEF Take, r
<1>5. act'[Worker] = r /\ \A y \in All \ {Worker} : act'[y] = act[y] BY <1>2, <1>4 DEF TypeOK
<1>6. \/ First(e) = <<"do", "tell">>
      \/ /\ First(e) = <<"do", "card">> \/ (First(e) = <<"lift", "card">> /\ thread.cached)
         /\ e.kind = "due"
      \/ /\ First(e) = <<"do", "post">> \/ (First(e) = <<"lift", "post">> /\ thread.cached)
         /\ e.kind \in Syncing \cup {"note"}
  BY <1>1 DEF First, Enter, Syncing, Kinds
<1>7. ASSUME NEW y \in All PROVE Placing(y, act[y])'
  <2>1. CASE y = Worker
    <3>1. Placing(Worker, r) BY <1>2, <1>3, <1>6 DEF Placing, Rest, Syncing
    <3> QED BY <1>2, <1>5, <2>1, <3>1 DEF Placing
  <2>2. CASE y # Worker
    <3>1. Placing(y, act[y]) BY DEF Placed
    <3> QED BY <1>2, <1>5, <2>2, <3>1 DEF Placing
  <2> QED BY <2>1, <2>2
<1>8. row.live => Resolve(e) = row.task BY DEF Resolve
<1>9. Current'
  <2>1. ASSUME row.live, NEW y \in All, act'[y].at # Rest, ~act'[y].moved PROVE act'[y].task = row.task
    <3>1. CASE y = Worker BY <1>3, <1>5, <1>8, <2>1, <3>1
    <3>2. CASE y # Worker BY <1>5, <2>1, <3>2 DEF Current
    <3> QED BY <3>1, <3>2
  <2> QED BY <1>2, <2>1 DEF Current
<1>10. job'.event = e /\ queue' \subseteq queue BY DEF Take
<1>11. First(e) # Rest BY <1>6 DEF Rest
<1> QED BY <1>1, <1>2, <1>3, <1>5, <1>7, <1>9, <1>10, <1>11 DEF Busy, Placed

LEMMA WorldHandlers ==
    ASSUME HandlerInv, AutoArchive \/ GatewayUpdate \/ Crash
    PROVE  HandlerInv'
<1> USE DEF HandlerInv
<1>1. TypeOK' /\ row' = row /\ Worker \in All
  BY WorldKeepsTypes DEF AutoArchive, GatewayUpdate, Crash, All
<1>2. CASE AutoArchive \/ GatewayUpdate
  <2>1. UNCHANGED <<act, queue, job>> BY <1>2 DEF AutoArchive, GatewayUpdate
  <2> QED BY <1>1, <2>1 DEF Placed, Placing, Current, Busy
<1>3. CASE Crash
  <2>1. job' = Free /\ \A y \in All : act'[y] = Idle(None.task) BY <1>3 DEF Crash
  <2>2. ASSUME NEW y \in All PROVE Placing(y, act[y])'
    <3>1. act'[y] = Idle(None.task) BY <2>1
    <3> QED BY <3>1, AtRest DEF Placing, Rest
  <2>3. Current' BY <2>1, AtRest DEF Current
  <2>4. queue' = queue \cup ({[job.event EXCEPT !.again = TRUE]} \ {[None EXCEPT !.again = TRUE]})
    BY <1>3 DEF Crash
  <2>5. [job.event EXCEPT !.again = TRUE].kind = job.event.kind BY DEF TypeOK, Events
  <2>6. act[Worker].at # Rest => job.event.kind # "none" BY DEF Busy, Kinds
  <2>7. act[Worker].at = Rest => job.event = None BY DEF Busy, Free
  <2>8. \A e \in queue' : e.kind # "none" BY <2>4, <2>5, <2>6, <2>7 DEF Busy
  <2> QED BY <1>1, <2>1, <2>2, <2>3, <2>8, AtRest DEF Busy, Placed
<1> QED BY <1>2, <1>3

THEOREM HandlerInvariant == Spec => []HandlerInv
<1>1. Init => HandlerInv BY HandlerInit
<1>2. HandlerInv /\ [Next]_vars => HandlerInv'
  <2> SUFFICES ASSUME HandlerInv, [Next]_vars PROVE HandlerInv' OBVIOUS
  <2>1. CASE Next
    <3>1. \A x \in Actors : Request(x) \/ Handle(x) => HandlerInv' BY RequestHandlers, HandleHandlers
    <3>2. \A x \in All : Step(x) => HandlerInv' BY StepHandlers
    <3>3. \A e \in queue : Take(e) => HandlerInv' BY TakeHandlers
    <3>4. Dispatch => HandlerInv' BY DispatchHandlers
    <3> QED BY <2>1, <3>1, <3>2, <3>3, <3>4, WorldHandlers DEF Next
  <2>2. CASE UNCHANGED vars
    BY <2>2 DEF vars, HandlerInv, TypeOK, Placed, Placing, Current, Busy
  <2> QED BY <2>1, <2>2
<1> QED BY <1>1, <1>2, PTL DEF Spec

\* The state of the task's thread, its handlers and the worker's event keeps
\* its types: the flags, the task each handler read, the letters left to send.
THEOREM TypeCorrect == Spec => []TypeOK
<1>1. HandlerInv => TypeOK BY DEF HandlerInv
<1> QED BY <1>1, HandlerInvariant, PTL

-----------------------------------------------------------------------------
(* Letters                                                                 *)

Unsaid == {<<"lift", "post">>, <<"do", "post">>, <<"shut", "failed">>, <<"do", "failed">>}

\* An event that waits, unless a crash cut it short, has told nobody.
Fresh(e) ==
    /\ e.kind # "assign" => e.old = Nobody
    /\ ~e.again => e.said = 0 /\ \A u \in Users : e.told[u] = 0

Pending(u) == \E l \in job.todo : l[1] = u

\* Of the users the event concerns those are told who have no letter left, and
\* before the activity is posted nothing has been said.
Told ==
    act[Worker].at # Rest =>
        /\ job.todo \subseteq Letters(job.event)
        /\ job.event.kind # "assign" => job.event.old = Nobody
        /\ act[Worker].at # <<"do", "tell">> => job.todo = Letters(job.event)
        /\ ~job.event.again =>
              /\ \A u \in Users : job.event.told[u] =
                     IF u \in Concerned(job.event) /\ ~Pending(u) /\ Pref[u] # "none" THEN 1 ELSE 0
              /\ job.event.said \in {0, 1}
              /\ act[Worker].at \in Unsaid => job.event.said = 0

ToldInv == HandlerInv /\ Told /\ \A e \in queue : Fresh(e)

\* Everybody an event concerns gets a letter, nobody else does.
LEMMA LettersReach ==
    ASSUME NEW e \in Events, e.kind \in Kinds, e.kind # "assign" => e.old = Nobody, NEW u \in Users
    PROVE  u \in Concerned(e) <=> \E l \in Letters(e) : l[1] = u
<1>1. Watchers \subseteq Users /\ Nobody \notin Users BY UsersAssumption
<1>2. CASE e.kind = "created"
  <2>1. Letters(e) = CreatedLetters(e) BY <1>2 DEF Letters
  <2>2. Concerned(e) = (Watchers \cup {e.task.who}) \ {e.by, Nobody} BY <1>2 DEF Concerned
  <2>3. (\E l \in Letters(e) : l[1] = u)
           <=> u \in Held(e) \ {e.by} \/ u \in Watchers \ ({e.by} \cup Held(e))
    <3>1. <<u, "assigned">>[1] = u /\ <<u, "watching">>[1] = u OBVIOUS
    <3> QED BY <2>1, <3>1 DEF CreatedLetters
  <2> QED BY <1>1, <2>2, <2>3 DEF Held
<1>3. CASE e.kind = "due"
  <2>1. Letters(e) = Held(e) \X {"due"} BY <1>3 DEF Letters, ReminderLetters
  <2>2. Concerned(e) = {e.task.who} \ {Nobody} BY <1>3 DEF Concerned
  <2>3. (\E l \in Letters(e) : l[1] = u) <=> u \in Held(e)
    <3>1. <<u, "due">>[1] = u OBVIOUS
    <3> QED BY <2>1, <3>1
  <2> QED BY <2>2, <2>3 DEF Held
<1>4. CASE e.kind = "assign"
  <2> DEFINE S == (Watchers \cup Held(e) \cup {e.old}) \ {e.by, Nobody}
  <2>0. Letters(e) = AssigneeLetters(e) BY <1>4 DEF Letters
  <2>1. Letters(e) = S \X {"assignee"} BY <2>0 DEF AssigneeLetters
  <2>2. Concerned(e) = (Watchers \cup {e.task.who, e.old}) \ {e.by, Nobody} BY <1>4 DEF Concerned
  <2>3. (\E l \in Letters(e) : l[1] = u) <=> u \in S
    <3>1. <<u, "assignee">>[1] = u OBVIOUS
    <3> HIDE DEF S
    <3> QED BY <2>1, <3>1
  <2> QED BY <2>2, <2>3 DEF Held
<1>5. ASSUME e.kind \in {"status", "note", "unblocked"}
      PROVE  u \in Concerned(e) <=> \E l \in Letters(e) : l[1] = u
  <2>1. PICK S, k : /\ Letters(e) = S \X {k}
                    /\ S = (Watchers \cup (Held(e) \ {e.by})) \ {e.by} \/ S = (Watchers \cup Held(e)) \ {e.by}
    BY <1>5 DEF Letters, StatusLetters, NoteLetters, UnblockedLetters
  <2>2. Concerned(e) = (Watchers \cup {e.task.who}) \ {e.by, Nobody} BY <1>5 DEF Concerned
  <2>3. (\E l \in Letters(e) : l[1] = u) <=> u \in S
    <3>1. <<u, k>>[1] = u OBVIOUS
    <3> QED BY <2>1, <3>1
  <2> QED BY <1>1, <2>1, <2>2, <2>3 DEF Held
<1> QED BY <1>2, <1>3, <1>4, <1>5 DEF Kinds

\* Nobody gets two letters.
LEMMA LettersDiffer ==
    ASSUME NEW e, e.kind \in Kinds, NEW l \in Letters(e), NEW m \in Letters(e), l[1] = m[1]
    PROVE  l = m
<1>1. CASE e.kind = "created"
  <2>1. Letters(e) = CreatedLetters(e) BY <1>1 DEF Letters
  <2> QED BY <2>1 DEF CreatedLetters
<1>2. CASE e.kind # "created"
  <2>1. \E S, k : Letters(e) = S \X {k}
    BY <1>2 DEF Letters, ReminderLetters, StatusLetters, NoteLetters, AssigneeLetters, UnblockedLetters, Kinds
  <2> QED BY <2>1
<1> QED BY <1>1, <1>2

\* Whom an event reaches does not depend on how often it was tried.
LEMMA SameReach ==
    ASSUME NEW e, NEW f, e.kind = f.kind, e.by = f.by, e.task = f.task, e.old = f.old
    PROVE  Letters(e) = Letters(f) /\ Concerned(e) = Concerned(f)
<1>1. Concerned(e) = Concerned(f) BY DEF Concerned
<1>2. Held(e) = Held(f) BY DEF Held
<1>3. /\ CreatedLetters(e) = CreatedLetters(f) /\ ReminderLetters(e) = ReminderLetters(f)
      /\ StatusLetters(e) = StatusLetters(f) /\ NoteLetters(e) = NoteLetters(f)
      /\ AssigneeLetters(e) = AssigneeLetters(f) /\ UnblockedLetters(e) = UnblockedLetters(f)
  BY <1>2 DEF CreatedLetters, ReminderLetters, StatusLetters, NoteLetters, AssigneeLetters, UnblockedLetters
<1> QED BY <1>1, <1>3 DEF Letters

LEMMA ToldInit == Init => ToldInv
<1> SUFFICES ASSUME Init PROVE ToldInv OBVIOUS
<1>1. HandlerInv BY HandlerInit
<1>2. act[Worker].at = Rest BY AtRest DEF Init, All
<1>3. \A e \in queue : Fresh(e)
  <2> DEFINE t == [done |-> FALSE, shelved |-> FALSE, who |-> Holder]
  <2>1. PICK k \in Waiting :
              queue = {[None EXCEPT !.kind = k, !.task = t, !.tries = MaxTries - 1,
                           !.by = IF k = "due" THEN Nobody ELSE Creator]}
    BY DEF Init
  <2> HIDE DEF t
  <2> DEFINE e == [None EXCEPT !.kind = k, !.task = t, !.tries = MaxTries - 1,
                               !.by = IF k = "due" THEN Nobody ELSE Creator]
  <2>2. e.old = Nobody /\ e.said = 0 /\ e.told = [u \in Users |-> 0] BY DEF None
  <2> HIDE DEF e
  <2>3. \A u \in Users : e.told[u] = 0 BY <2>2
  <2>4. queue = {e} BY <2>1 DEF e
  <2> QED BY <2>2, <2>3, <2>4 DEF Fresh
<1> QED BY <1>1, <1>2, <1>3 DEF ToldInv, Told

LEMMA RequestTold ==
    ASSUME ToldInv, NEW x \in Actors, Request(x)
    PROVE  ToldInv'
<1> USE DEF ToldInv
<1>1. /\ HandlerInv' /\ TypeOK /\ job' = job /\ x \in All /\ x # Worker /\ Worker \in All
      /\ act[x].at = Rest /\ x \in Users /\ count' \in [changes : Nat, faults : Nat]
  BY RequestHandlers, Requests, UsersAssumption DEF All, HandlerInv
<1>2. ASSUME NEW k \in {"status", "assign", "note"}, NEW t \in Tasks, NEW o \in People,
             k # "assign" => o = Nobody
      PROVE  Fresh(Event(x, k, t, o))
  <2>1. k \in Kinds BY DEF Kinds
  <2>2. /\ Event(x, k, t, o).kind = k /\ Event(x, k, t, o).old = o /\ Event(x, k, t, o).said = 0
        /\ Event(x, k, t, o).told = [u \in Users |-> 0]
    BY <1>1, <2>1, EventIsEvent
  <2>3. \A u \in Users : Event(x, k, t, o).told[u] = 0 BY <2>2
  <2> QED BY <1>2, <2>2, <2>3 DEF Fresh
<1>3. \A e \in queue' : Fresh(e)
  <2>1. CASE AddNote(x)
    <3>1. queue' = queue \cup {Event(x, "note", row.task, Nobody)} BY <2>1 DEF AddNote
    <3>2. Fresh(Event(x, "note", row.task, Nobody)) BY <1>1, <1>2 DEF TypeOK, People
    <3> QED BY <3>1, <3>2
  <2>2. CASE Changed(x)
    <3>1. PICK t \in Tasks, o \in People, k \in {"status", "assign"} :
             (k = "status" => o = Nobody) /\ queue' \subseteq queue \cup {Event(x, k, t, o)}
      BY <2>2 DEF Changed
    <3>2. Fresh(Event(x, k, t, o)) BY <1>2, <3>1
    <3> QED BY <3>1, <3>2
  <2>3. CASE Shelved(x) \/ DeleteTask(x)
    <3>1. queue' \subseteq queue BY <2>3 DEF Shelved, DeleteTask, Unreminded
    <3> QED BY <3>1
  <2> QED BY <1>1, <2>1, <2>2, <2>3, Requests
<1>4. act'[Worker].at = act[Worker].at
  <2>1. CASE AddNote(x) BY <2>1 DEF AddNote
  <2>2. CASE ~AddNote(x)
    <3>1. \E t \in Tasks : Overruns(x, t)
      <4>1. row.task \in Tasks BY <1>1 DEF TypeOK
      <4>2. Changed(x) \/ Shelved(x) \/ DeleteTask(x) BY <1>1, <2>2, Requests
      <4>3. CASE Changed(x)
        <5>1. PICK t \in Tasks, k \in {"status", "assign"} :
                 act' = Overtaken(x, t, [at |-> Enter(thread, "refresh"), op |-> k])
          BY <4>3 DEF Changed
        <5>2. act' = Over(x, t, Enter(thread, "refresh"), k) BY <5>1 DEF Over
        <5> QED BY <5>2 DEF Overruns
      <4>4. CASE Shelved(x)
        <5>1. PICK t \in Tasks :
                 \/ act' = Over(x, t, Enter(thread, "card"), "shelve")
                 \/ act' = [Over(x, t, Rest, "none") EXCEPT ![x] = Idle(None.task)]
          BY <4>4 DEF Shelved, Over
        <5> QED BY <5>1 DEF Overruns
      <4>5. CASE DeleteTask(x)
        <5>1. \E p : act' = Over(x, row.task, p, "delete") BY <4>5 DEF DeleteTask, Over
        <5> QED BY <4>1, <5>1 DEF Overruns
      <4> QED BY <4>2, <4>3, <4>4, <4>5
    <3> PICK t \in Tasks : Overruns(x, t) BY <3>1
    <3> PICK p, o : act' = Over(x, t, p, o) \/ act' = [Over(x, t, p, o) EXCEPT ![x] = Idle(None.task)]
      BY DEF Overruns
    <3>2. Over(x, t, p, o)[Worker].at = act[Worker].at BY <1>1, OvertakenFields
    <3>3. DOMAIN Over(x, t, p, o) = All BY DEF Over, Overtaken
    <3> QED BY <1>1, <3>2, <3>3
  <2> QED BY <2>1, <2>2
<1>5. Told' BY <1>1, <1>4 DEF Told, Pending
<1> QED BY <1>1, <1>3, <1>5

\* A step of the worker that leaves the event as it is.
LEMMA ToldKept ==
    ASSUME Told, job' = job, act[Worker].at # Rest,
           act'[Worker].at # <<"do", "tell">> => act[Worker].at # <<"do", "tell">>,
           act'[Worker].at \in Unsaid => act[Worker].at \in Unsaid
    PROVE  Told'
BY DEF Told, Pending

LEMMA StepTold ==
    ASSUME ToldInv, NEW x \in All, Step(x)
    PROVE  ToldInv'
<1> USE DEF ToldInv
<1>1. /\ HandlerInv' /\ TypeOK /\ job' = job /\ queue' = queue
  BY StepHandlers DEF Step, Lift, DrawCard, EditThread, HandlerInv
<1>2. act[x].at # Rest /\ Moves(x, act') BY StepMoves
<1>3. CASE x # Worker
  <2>1. act'[Worker] = act[Worker] BY <1>2, <1>3 DEF Moves, All
  <2> QED BY <1>1, <2>1 DEF Told, Pending
<1>4. CASE x = Worker
  <2>1. act[Worker].at # <<"do", "tell">> BY <1>4 DEF Step, Lift, DrawCard, EditThread
  <2>2. act'[Worker].at \in Unsaid => act[Worker].at \in Unsaid
    <3>1. CASE Lift(x)
      <4>1. PICK s \in {"post", "refresh", "card", "edit"} :
                  act[x].at = <<"lift", s>> /\ act' = At(x, <<"do", s>>)
        BY <3>1 DEF Lift
      <4>2. act'[x].at = <<"do", s>> BY <1>1, <4>1, Fields
      <4> QED BY <1>4, <4>1, <4>2 DEF Unsaid
    <3>2. CASE DrawCard(x) \/ EditThread(x)
      <4>1. \/ act' = At(x, <<"do", "tell">>) \/ act' = At(x, <<"lift", "edit">>)
            \/ \E w : act' = [act EXCEPT ![x].edit = w]
            \/ \E w : act' = [act EXCEPT ![x].at = <<"do", "edit">>, ![x].edit = w]
            \/ act' = act
        BY <1>4, <3>2 DEF DrawCard, EditThread, Plan, AfterSync
      <4>2. CASE act' = At(x, <<"do", "tell">>) \/ act' = At(x, <<"lift", "edit">>)
        BY <1>1, <1>4, <4>2, Fields DEF Unsaid
      <4>3. ASSUME NEW w, act' = [act EXCEPT ![x].edit = w] PROVE act'[x].at = act[x].at
        BY <1>1, <4>3 DEF TypeOK, Acts
      <4>4. ASSUME NEW w, act' = [act EXCEPT ![x].at = <<"do", "edit">>, ![x].edit = w]
            PROVE  act'[x].at = <<"do", "edit">>
        BY <1>1, <4>4 DEF TypeOK, Acts
      <4> QED BY <1>4, <4>1, <4>2, <4>3, <4>4 DEF Unsaid
    <3> QED BY <3>1, <3>2 DEF Step
  <2>3. Told' BY <1>1, <1>2, <1>4, <2>1, <2>2, ToldKept
  <2> QED BY <1>1, <2>3
<1> QED BY <1>3, <1>4

LEMMA HandleTold ==
    ASSUME ToldInv, NEW x \in Actors, Handle(x)
    PROVE  ToldInv'
<1> USE DEF ToldInv
<1>1. /\ HandlerInv' /\ job' = job /\ queue' = queue /\ Worker \in All /\ x # Worker
  BY HandleHandlers, UsersAssumption DEF Handle, Refresh, RefreshShut, DeleteThread, CloseThread, All
<1>2. act'[Worker] = act[Worker] BY <1>1, HandleMoves DEF Moves
<1> QED BY <1>1, <1>2 DEF Told, Pending

LEMMA TakeTold ==
    ASSUME ToldInv, NEW e \in queue, Take(e)
    PROVE  ToldInv'
<1> USE DEF ToldInv
<1>1. HandlerInv' /\ e \in Events /\ e.kind \in Kinds /\ Fresh(e)
  BY TakeHandlers DEF HandlerInv, TypeOK, Busy, Events
<1>2. job'.event = e /\ job'.todo = Letters(e) /\ queue' \subseteq queue BY DEF Take
<1>3. ASSUME NEW u \in Users, u \in Concerned(e) PROVE \E l \in Letters(e) : l[1] = u
  BY <1>1, <1>3, LettersReach DEF Fresh
<1>4. Told'
  <2>1. ~e.again => \A u \in Users : e.told[u] =
                     IF u \in Concerned(e) /\ ~(\E l \in Letters(e) : l[1] = u) /\ Pref[u] # "none" THEN 1 ELSE 0
    BY <1>1, <1>3 DEF Fresh
  <2>2. ~e.again => \A u \in Users : e.told[u] =
                     IF u \in Concerned(e) /\ ~Pending(u)' /\ Pref[u] # "none" THEN 1 ELSE 0
    BY <1>2, <2>1 DEF Pending
  <2> QED BY <1>1, <1>2, <2>2 DEF Told, Fresh
<1> QED BY <1>1, <1>2, <1>4

LEMMA DispatchTold ==
    ASSUME ToldInv, Dispatch
    PROVE  ToldInv'
<1> USE DEF ToldInv
<1>1. /\ HandlerInv' /\ TypeOK /\ job.event \in Events /\ act[Worker].at # Rest /\ Worker \in All
      /\ job.event.kind \in Kinds
  BY DispatchHandlers, DispatchMoves DEF HandlerInv, TypeOK, All, Busy
<1>2. CASE Post
  <2>1. act[Worker].at = <<"do", "post">> /\ queue' = queue BY <1>2 DEF Post
  <2>2. job.event.said \in {0, 1} \/ job.event.again BY <1>1 DEF Told
  <2>3. CASE job' = job /\ (act' = AfterPost(thread) \/ act' = At(Worker, <<"do", "failed">>)
                               \/ act' = At(Worker, <<"shut", "failed">>))
    <3>1. Told' BY <1>1, <2>1, <2>3, ToldKept DEF Unsaid
    <3> QED BY <1>1, <2>1, <3>1
  <2>4. CASE /\ job' = [job EXCEPT !.event.said = @ + 1]
             /\ act' = AfterPost(thread) \/ act' = At(Worker, <<"shut", "post">>)
    <3> DEFINE e == [job.event EXCEPT !.said = @ + 1]
    <3>1. /\ e.kind = job.event.kind /\ e.by = job.event.by /\ e.task = job.event.task
          /\ e.old = job.event.old /\ e.told = job.event.told /\ e.again = job.event.again
          /\ e.said = job.event.said + 1
      BY <1>1 DEF Events
    <3>2. job' = [job EXCEPT !.event = e] BY <1>1, <2>4 DEF TypeOK
    <3> HIDE DEF e
    <3>3. job'.event = e /\ job'.todo = job.todo BY <1>1, <3>2 DEF TypeOK
    <3>4. Letters(e) = Letters(job.event) /\ Concerned(e) = Concerned(job.event) BY <3>1, SameReach
    <3>5. act'[Worker].at \notin Unsaid
      <4>1. /\ At(Worker, <<"shut", "post">>)[Worker].at \notin Unsaid
            /\ At(Worker, <<"do", "tell">>)[Worker].at \notin Unsaid
        BY <1>1, Fields DEF Unsaid
      <4>2. Entered(Worker, thread, "card")[Worker].at \notin Unsaid
        <5>1. Entered(Worker, thread, "card")[Worker].at = Enter(thread, "card") BY <1>1, Fields
        <5> QED BY <5>1 DEF Unsaid, Enter
      <4> QED BY <2>4, <4>1, <4>2 DEF AfterPost, Sync, AfterSync
    <3>6. \A u : Pending(u)' <=> Pending(u) BY <3>3 DEF Pending
    <3>7. job.event.said = 0 \/ job.event.again BY <1>1, <2>1 DEF Told, Unsaid
    <3>8. Told' BY <1>1, <2>1, <3>1, <3>3, <3>4, <3>5, <3>6, <3>7 DEF Told
    <3> QED BY <1>1, <2>1, <3>8
  <2> QED BY <1>2, <2>3, <2>4 DEF Post
<1>3. CASE PostShut
  <2>1. /\ act[Worker].at \in {<<"shut", "post">>, <<"shut", "failed">>} /\ queue' = queue /\ job' = job
    BY <1>3 DEF PostShut
  <2>2. act'[Worker].at \in Unsaid => act[Worker].at \in Unsaid
    <3>1. CASE act[Worker].at = <<"shut", "failed">> BY <3>1 DEF Unsaid
    <3>2. CASE act[Worker].at = <<"shut", "post">>
      <4>1. act' = AfterPost(thread') BY <1>3, <3>2 DEF PostShut
      <4>2. At(Worker, <<"do", "tell">>)[Worker].at \notin Unsaid BY <1>1, Fields DEF Unsaid
      <4>3. ASSUME NEW th PROVE Entered(Worker, th, "card")[Worker].at \notin Unsaid
        <5>1. Entered(Worker, th, "card")[Worker].at = Enter(th, "card") BY <1>1, Fields
        <5> QED BY <5>1 DEF Unsaid, Enter
      <4> QED BY <4>1, <4>2, <4>3 DEF AfterPost, Sync, AfterSync
    <3> QED BY <2>1, <3>1, <3>2
  <2>3. Told' BY <1>1, <2>1, <2>2, ToldKept
  <2> QED BY <1>1, <2>1, <2>3
<1>4. CASE Fail
  <2> DEFINE e == [job.event EXCEPT !.tries = @ + 1]
  <2>1. act[Worker].at = <<"do", "failed">> /\ queue' \subseteq queue \cup {e} /\ act' = Ended(Worker)
    BY <1>4 DEF Fail
  <2>2. Fresh(e)
    <3>1. /\ e.kind = job.event.kind /\ e.told = job.event.told /\ e.again = job.event.again
          /\ e.said = job.event.said /\ e.old = job.event.old
      BY <1>1 DEF Events
    <3>2. /\ job.todo = Letters(job.event)
          /\ job.event.kind # "assign" => job.event.old = Nobody
      BY <1>1, <2>1 DEF Told
    <3>3. ASSUME ~job.event.again, NEW u \in Users PROVE job.event.told[u] = 0
      <4>1. u \in Concerned(job.event) => Pending(u) BY <1>1, <3>2, LettersReach DEF Pending
      <4> QED BY <1>1, <3>3, <4>1 DEF Told
    <3>4. ~job.event.again => job.event.said = 0 BY <1>1, <2>1 DEF Told, Unsaid
    <3> HIDE DEF e
    <3> QED BY <3>1, <3>2, <3>3, <3>4 DEF Fresh
  <2>3. act'[Worker].at = Rest BY <1>1, <2>1, Fields, AtRest
  <2> QED BY <1>1, <2>1, <2>2, <2>3 DEF Told
<1>5. CASE Tell
  <2>1. /\ act[Worker].at = <<"do", "tell">> /\ act' = act /\ queue' = queue BY <1>5 DEF Tell
  <2>2. PICK l \in job.todo :
              job' = [job EXCEPT !.todo = @ \ {l},
                                 !.event.told[l[1]] = IF Pref[l[1]] = "none" THEN @ ELSE @ + 1]
    BY <1>5 DEF Tell
  <2> DEFINE more == [job.event.told EXCEPT ![l[1]] = IF Pref[l[1]] = "none" THEN @ ELSE @ + 1]
             e == [job.event EXCEPT !.told = more]
  <2>3. job' = [job EXCEPT !.todo = @ \ {l}, !.event = e]
    BY <1>1, <2>2 DEF TypeOK, Events
  <2>4. /\ e.kind = job.event.kind /\ e.by = job.event.by /\ e.task = job.event.task
        /\ e.old = job.event.old /\ e.told = more /\ e.again = job.event.again /\ e.said = job.event.said
    BY <1>1 DEF Events
  <2>5. l[1] \in Users /\ job.event.told \in [Users -> Int] BY <1>1 DEF TypeOK, Events
  <2>6. /\ \A u \in Users \ {l[1]} : more[u] = job.event.told[u]
        /\ more[l[1]] = IF Pref[l[1]] = "none" THEN job.event.told[l[1]] ELSE job.event.told[l[1]] + 1
    BY <2>5
  <2> HIDE DEF e, more
  <2>7. job'.event = e /\ job'.todo = job.todo \ {l} BY <1>1, <2>3 DEF TypeOK
  <2>8. Letters(e) = Letters(job.event) /\ Concerned(e) = Concerned(job.event) BY <2>4, SameReach
  <2>9. /\ job.todo \subseteq Letters(job.event)
        /\ job.event.kind # "assign" => job.event.old = Nobody
    BY <1>1 DEF Told
  <2>10. \A u \in Users \ {l[1]} : Pending(u)' <=> Pending(u) BY <2>7 DEF Pending
  <2>11. Pending(l[1]) /\ ~Pending(l[1])'
    BY <1>1, <2>7, <2>9, LettersDiffer DEF Pending
  <2>12. l[1] \in Concerned(job.event) BY <1>1, <2>5, <2>9, LettersReach
  <2>13. ASSUME ~job.event.again, NEW u \in Users
         PROVE  more[u] = IF u \in Concerned(e) /\ ~Pending(u)' /\ Pref[u] # "none" THEN 1 ELSE 0
    <3>1. job.event.told[u] = IF u \in Concerned(job.event) /\ ~Pending(u) /\ Pref[u] # "none" THEN 1 ELSE 0
      BY <1>1, <2>13 DEF Told
    <3>2. CASE u = l[1] BY <2>6, <2>8, <2>11, <2>12, <3>1, <3>2
    <3>3. CASE u # l[1] BY <2>6, <2>8, <2>10, <3>1, <3>3
    <3> QED BY <3>2, <3>3
  <2>14. Told'
    BY <1>1, <2>1, <2>4, <2>7, <2>8, <2>9, <2>13 DEF Told
  <2> QED BY <1>1, <2>1, <2>14
<1>6. CASE Finish
  <2>1. act'[Worker].at = Rest /\ queue' = queue BY <1>1, <1>6, Fields, AtRest DEF Finish
  <2> QED BY <1>1, <2>1 DEF Told
<1> QED BY <1>2, <1>3, <1>4, <1>5, <1>6 DEF Dispatch

LEMMA WorldTold ==
    ASSUME ToldInv, AutoArchive \/ GatewayUpdate \/ Crash
    PROVE  ToldInv'
<1> USE DEF ToldInv
<1>1. HandlerInv' /\ TypeOK /\ Worker \in All BY WorldHandlers DEF HandlerInv, All
<1>2. CASE AutoArchive \/ GatewayUpdate
  <2>1. UNCHANGED <<act, queue, job>> BY <1>2 DEF AutoArchive, GatewayUpdate
  <2> QED BY <1>1, <2>1 DEF Told, Pending
<1>3. CASE Crash
  <2> DEFINE e == [job.event EXCEPT !.again = TRUE]
  <2>1. act'[Worker].at = Rest BY <1>1, <1>3, AtRest DEF Crash
  <2>2. queue' = queue \cup ({e} \ {[None EXCEPT !.again = TRUE]}) BY <1>3 DEF Crash
  <2>3. e.again /\ e.kind = job.event.kind /\ e.old = job.event.old BY <1>1 DEF TypeOK, Events
  <2>4. act[Worker].at = Rest => job.event = None BY DEF HandlerInv, Busy, Free
  <2> HIDE DEF e
  <2>5. act[Worker].at # Rest => Fresh(e) BY <2>3 DEF Fresh, Told
  <2>6. act[Worker].at = Rest => queue' = queue BY <2>2, <2>4 DEF e
  <2> QED BY <1>1, <2>1, <2>2, <2>5, <2>6 DEF Told
<1> QED BY <1>2, <1>3

THEOREM ToldInvariant == Spec => []ToldInv
<1>1. Init => ToldInv BY ToldInit
<1>2. ToldInv /\ [Next]_vars => ToldInv'
  <2> SUFFICES ASSUME ToldInv, [Next]_vars PROVE ToldInv' OBVIOUS
  <2>1. CASE Next
    <3>1. \A x \in Actors : Request(x) \/ Handle(x) => ToldInv' BY RequestTold, HandleTold
    <3>2. \A x \in All : Step(x) => ToldInv' BY StepTold
    <3>3. \A e \in queue : Take(e) => ToldInv' BY TakeTold
    <3>4. Dispatch => ToldInv' BY DispatchTold
    <3> QED BY <2>1, <3>1, <3>2, <3>3, <3>4, WorldTold DEF Next
  <2>2. CASE UNCHANGED vars
    BY <2>2 DEF vars, ToldInv, HandlerInv, TypeOK, Placed, Placing, Current, Busy, Told, Pending
  <2> QED BY <2>1, <2>2
<1> QED BY <1>1, <1>2, PTL DEF Spec

\* EachToldOnce: when the worker is done with an event that no crash cut short,
\* each user it concerns has been told once, the others and those who want no
\* notification never, and the activity was posted at most once, however often
\* the dispatch failed and was tried again.
THEOREM ToldOnce == Spec => []EachToldOnce
<1>1. ToldInv => EachToldOnce
  <2> SUFFICES ASSUME ToldInv, Finished, ~job.event.again
               PROVE  /\ \A u \in Users : job.event.told[u] =
                             IF u \in Concerned(job.event) /\ Pref[u] # "none" THEN 1 ELSE 0
                      /\ job.event.said <= 1
    BY DEF EachToldOnce
  <2>1. act[Worker].at # Rest BY DEF Finished, Rest
  <2>2. \A u : ~Pending(u) BY DEF Finished, Pending
  <2> QED BY <2>1, <2>2 DEF ToldInv, Told
<1> QED BY <1>1, ToldInvariant, PTL

-----------------------------------------------------------------------------
(* The thread.  r is what a handler x is at.                               *)

\* x draws the card and goes on to the tags and the flag.
Before(x, r) ==
    \/ r.at \in {<<"lift", "card">>, <<"do", "card">>, <<"shut", "refresh">>}
    \/ /\ x = Worker /\ r.op \in Syncing
       /\ r.at \in {<<"lift", "post">>, <<"do", "post">>, <<"do", "failed">>}

\* The edit that is planned, or will be, writes part p.
Editing(r, p) == r.at \in {<<"lift", "edit">>, <<"do", "edit">>} /\ (r.edit = {} \/ p \in r.edit)

\* The thread was opened for a closed task and is archived again.
Reopener(r) ==
    /\ ~r.moved /\ r.was /\ Closed(r.task)
    /\ r.at = <<"do", "refresh">> \/ (r.at = <<"do", "post">> /\ r.op = "note")

EditsArch(r) == r.at = <<"do", "edit">> /\ "arch" \in r.edit
Shutting(r) == r.at \in {<<"shut", "refresh">>, <<"shut", "error">>, <<"shut", "post">>, <<"shut", "failed">>}

\* x will write part p from the task as it is, have it excused or requeue the
\* event that has it written.
Will(x, r, p) ==
    \/ ~r.moved /\ Before(x, r)
    \/ x = Worker /\ r.op \in Syncing /\ r.at = <<"do", "failed">>
    \/ ~r.moved /\ p # "card" /\ Editing(r, p)
    \/ p = "arch" /\ (Reopener(r) \/ EditsArch(r) \/ Shutting(r))

Announced == \E e \in queue : e.kind \in Syncing

\* A part that need not be excused shows the task, or somebody owes it.
Owed ==
    row.live /\ thread.here =>
        \A p \in Parts : \/ excuse[p] \/ Shows(p) \/ Announced
                         \/ \E x \in All : Will(x, act[x], p)

\* The flag in the bot's cache is wrong only while the flag is excused or is
\* about to be written.
Cache ==
    thread.here /\ thread.arch # thread.cached => excuse["arch"] \/ \E x \in All : EditsArch(act[x])

SyncInv == ToldInv /\ Owed /\ Cache

\* What a step of x has to keep, whatever the others are at.
Mine(x, p) == excuse[p] \/ Shows(p) \/ Will(x, act[x], p)
MyCache(x) == thread.here /\ thread.arch # thread.cached => excuse["arch"] \/ EditsArch(act[x])

Keeps(x) ==
    /\ row.live /\ thread'.here =>
          \A p \in Parts : Mine(x, p) /\ (p = "arch" => MyCache(x)) => Mine(x, p)' \/ Announced'
    /\ MyCache(x) => MyCache(x)'

LEMMA KeepsInv ==
    ASSUME Owed, Cache, NEW x \in All, row' = row, \A y \in All \ {x} : act'[y] = act[y],
           Announced => Announced', thread'.here => thread.here, Keeps(x)
    PROVE  Owed' /\ Cache'
<1>1. ASSUME NEW y \in All \ {x}, EditsArch(act[y]) PROVE Will(y, act[y], "arch") /\ EditsArch(act'[y])
  BY <1>1 DEF Will
<1>2. Cache'
  <2>1. CASE \E y \in All \ {x} : EditsArch(act[y]) BY <1>1, <2>1 DEF Cache
  <2>2. CASE ~\E y \in All \ {x} : EditsArch(act[y])
    <3>1. MyCache(x) BY <2>2 DEF Cache, MyCache
    <3>2. MyCache(x)' BY <3>1 DEF Keeps
    <3> QED BY <3>2 DEF Cache, MyCache
  <2> QED BY <2>1, <2>2
<1>3. Owed'
  <2>1. SUFFICES ASSUME row'.live, thread'.here, NEW p \in Parts
                 PROVE  (excuse[p] \/ Shows(p) \/ Announced \/ \E y \in All : Will(y, act[y], p))'
    BY DEF Owed
  <2>2. excuse[p] \/ Shows(p) \/ Announced \/ \E y \in All : Will(y, act[y], p) BY <2>1 DEF Owed
  <2>3. CASE Announced BY <2>3
  <2>4. CASE \E y \in All \ {x} : Will(y, act[y], p)
    <3>1. PICK y \in All \ {x} : Will(y, act[y], p) BY <2>4
    <3>2. Will(y, act'[y], p) BY <3>1
    <3> QED BY <3>2
  <2>5. CASE Mine(x, p) /\ ~\E y \in All \ {x} : Will(y, act[y], p)
    <3>1. p = "arch" => MyCache(x) BY <1>1, <2>5 DEF MyCache, Cache
    <3>2. Mine(x, p)' \/ Announced' BY <2>1, <2>5, <3>1 DEF Keeps
    <3> QED BY <3>2 DEF Mine
  <2> QED BY <2>2, <2>3, <2>4, <2>5 DEF Mine
<1> QED BY <1>2, <1>3

LEMMA Showing ==
    /\ Shows("card") <=> thread.card = Card(row.task)
    /\ Shows("tags") <=> thread.tags = Tags(row.task)
    /\ Shows("arch") <=> thread.arch = Closed(row.task)
BY DEF Shows

LEMMA Excusing ==
    ASSUME TypeOK, NEW x \in All, NEW ps, NEW p \in Parts
    PROVE  /\ Written(x, ps)[p] <=> (IF p \in ps THEN act[x].moved ELSE excuse[p])
           /\ Spared(ps)[p] <=> (p \in ps \/ excuse[p])
BY DEF Written, Spared

\* A handler whose task is the one of the database, where the task was not
\* changed since.
LEMMA Knows ==
    ASSUME HandlerInv, NEW x \in All, act[x].at # Rest, ~act[x].moved, row.live
    PROVE  act[x].task = row.task
BY DEF HandlerInv, Current

LEMMA LiftKeeps ==
    ASSUME HandlerInv, NEW x \in All, Lift(x)
    PROVE  Keeps(x)
<1> USE DEF HandlerInv
<1>1. PICK s \in {"post", "refresh", "card", "edit"} :
           /\ act[x].at = <<"lift", s>>
           /\ \/ thread' = Opened(thread) /\ excuse' = IF act[x].moved THEN Spared({"arch"}) ELSE excuse
              \/ UNCHANGED <<thread, excuse>>
           /\ act' = At(x, <<"do", s>>)
  BY DEF Lift
<1>2. row' = row /\ thread \in Threads /\ Placing(x, act[x]) /\ act[x].task \in Tasks
  BY DEF Lift, TypeOK, Placed, Acts
<1> DEFINE r == act[x]
           n == act'[x]
<1>3. /\ n.at = <<"do", s>> /\ n.op = r.op /\ n.task = r.task /\ (n.moved <=> r.moved)
      /\ (n.was <=> r.was) /\ n.edit = r.edit
  BY <1>1, Fields
<1>4. /\ x = Worker => r.op \in Syncing \cup {"note"} /\ s # "refresh"
      /\ s # "edit" => r.was
      /\ s \in {"card", "edit"} /\ x = Worker => r.op \in Syncing
      /\ r.edit = {} /\ (s = "post" => x = Worker)
  BY <1>1, <1>2 DEF Placing, Rest, All
<1> HIDE DEF r, n
<1>5. ASSUME NEW p \in Parts, Will(x, r, p) PROVE Will(x, n, p)
  BY <1>1, <1>3, <1>4, <1>5 DEF Will, Before, Editing, Reopener, EditsArch, Shutting, r
<1>6. CASE UNCHANGED <<thread, excuse>>
  <2>1. \A p \in Parts : Shows(p)' <=> Shows(p) BY <1>2, <1>6 DEF Shows
  <2>2. ~EditsArch(r) BY <1>1 DEF EditsArch, r
  <2> QED BY <1>5, <1>6, <2>1, <2>2 DEF Keeps, Mine, MyCache, n, r
<1>7. CASE thread' = Opened(thread) /\ excuse' = IF act[x].moved THEN Spared({"arch"}) ELSE excuse
  <2>1. /\ thread'.arch = FALSE /\ thread'.cached = FALSE
        /\ thread'.tags = thread.tags /\ thread'.card = thread.card
    BY <1>2, <1>7 DEF Opened, Threads
  <2>2. MyCache(x)' BY <2>1 DEF MyCache
  <2>3. ASSUME row.live, NEW p \in Parts, Mine(x, p) PROVE Mine(x, p)'
    <3>1. excuse[p] => excuse'[p] BY <1>7, Excusing
    <3>2. CASE p # "arch"
      <4>1. Shows(p) => Shows(p)' BY <1>2, <2>1, <3>2, Showing DEF Shows, Parts
      <4> QED BY <1>5, <2>3, <3>1, <4>1 DEF Mine, n, r
    <3>3. CASE p = "arch" /\ act[x].moved
      <4>1. excuse'[p] BY <1>7, <3>3, Excusing
      <4> QED BY <4>1 DEF Mine
    <3>4. CASE p = "arch" /\ ~act[x].moved
      <4>1. act[x].task = row.task BY <1>1, <2>3, <3>4, Knows DEF Rest
      <4>2. CASE Closed(row.task)
        <5>1. Will(x, n, p)
          BY <1>1, <1>3, <1>4, <3>4, <4>1, <4>2 DEF Will, Before, Editing, Reopener, r
        <5> QED BY <5>1 DEF Mine, n
      <4>3. CASE ~Closed(row.task)
        <5>1. Shows(p)' BY <1>2, <2>1, <3>4, <4>3 DEF Shows, Closed
        <5> QED BY <5>1 DEF Mine
      <4> QED BY <4>2, <4>3
    <3> QED BY <3>2, <3>3, <3>4
  <2> QED BY <1>2, <2>2, <2>3 DEF Keeps
<1> QED BY <1>1, <1>6, <1>7

LEMMA PlanWrites ==
    ASSUME HandlerInv, NEW x \in All, act[x].at = <<"do", "card">>, act' = Plan(x, thread)
    PROVE  /\ "tags" \in Differing(x, thread) /\ ~act[x].moved => Will(x, act'[x], "tags")
           /\ "arch" \in Differing(x, thread) => EditsArch(act'[x])
<1> USE DEF HandlerInv
<1>0. thread \in Threads /\ act[x] \in Acts /\ Placing(x, act[x]) BY DEF TypeOK, Placed
<1>1. act[x].edit = {} BY <1>0 DEF Placing
<1>2. ASSUME "arch" \in Differing(x, thread) PROVE EditsArch(act'[x])
  <2>1. thread.cached # Closed(act[x].task) BY <1>2 DEF Differing
  <2>2. act' = [act EXCEPT ![x].at = <<"do", "edit">>, ![x].edit = Differing(x, thread)]
    <3>1. ~(Closed(act[x].task) /\ thread.cached)
      <4>1. Closed(act[x].task) \in BOOLEAN /\ thread.cached \in BOOLEAN BY <1>0, Values DEF Acts, Threads
      <4> QED BY <2>1, <4>1
    <3> QED BY <1>2, <3>1 DEF Plan
  <2>3. act'[x].at = <<"do", "edit">> /\ act'[x].edit = Differing(x, thread)
    BY <1>0, <2>2 DEF TypeOK, Acts
  <2> QED BY <1>2, <2>3 DEF EditsArch
<1>3. ASSUME "tags" \in Differing(x, thread), ~act[x].moved PROVE Will(x, act'[x], "tags")
  <2>1. CASE act' = At(x, <<"lift", "edit">>)
    <3>1. act'[x].at = <<"lift", "edit">> /\ act'[x].edit = {} /\ ~act'[x].moved
      BY <1>1, <1>3, <2>1, Fields
    <3> QED BY <3>1 DEF Will, Editing
  <2>2. CASE act' = [act EXCEPT ![x].at = <<"do", "edit">>, ![x].edit = Differing(x, thread)]
    <3>1. /\ act'[x].at = <<"do", "edit">> /\ act'[x].edit = Differing(x, thread)
          /\ act'[x].moved = act[x].moved
      BY <1>0, <2>2 DEF TypeOK, Acts
    <3> QED BY <1>3, <3>1 DEF Will, Editing
  <2> QED BY <1>3, <2>1, <2>2 DEF Plan
<1> QED BY <1>2, <1>3

LEMMA DrawCardKeeps ==
    ASSUME HandlerInv, NEW x \in All, DrawCard(x)
    PROVE  Keeps(x)
<1> USE DEF HandlerInv
<1>1. /\ row' = row /\ thread \in Threads /\ act[x].task \in Tasks /\ act[x].at = <<"do", "card">>
      /\ act[x].at # Rest
  BY DEF DrawCard, TypeOK, Acts, Rest
<1>2. ~EditsArch(act[x]) BY <1>1 DEF EditsArch
<1> DEFINE M == Matching(x, thread)
<1>3. ASSUME /\ thread' = [thread EXCEPT !.card = Card(act[x].task)] \/ thread' = thread
             /\ act' = Plan(x, thread)
             /\ excuse'["card"] \/ (row.live => Shows("card")')
             /\ excuse'["tags"] <=> IF "tags" \in M THEN act[x].moved ELSE excuse["tags"]
             /\ excuse'["arch"] <=> IF "arch" \in M THEN act[x].moved ELSE excuse["arch"]
      PROVE  Keeps(x)
  <2>1. /\ thread'.tags = thread.tags /\ thread'.arch = thread.arch /\ thread'.cached = thread.cached
        /\ thread'.here = thread.here
    BY <1>1, <1>3 DEF Threads
  <2>2. "tags" \in M <=> thread.tags = Tags(act[x].task) BY DEF Matching
  <2>3. "arch" \in M <=> thread.arch = Closed(act[x].task) BY DEF Matching
  <2>4. "arch" \in Differing(x, thread) <=> thread.cached # Closed(act[x].task) BY DEF Differing
  <2>5. "tags" \in Differing(x, thread) <=> thread.tags # Tags(act[x].task) BY DEF Differing
  <2>6. MyCache(x) => MyCache(x)'
    <3>1. SUFFICES ASSUME MyCache(x), thread'.here, thread.arch # thread.cached
                   PROVE  excuse'["arch"] \/ EditsArch(act'[x])
      BY <2>1 DEF MyCache
    <3>2. excuse["arch"] BY <1>2, <2>1, <3>1 DEF MyCache
    <3>3. CASE "arch" \in M
      <4>1. "arch" \in Differing(x, thread) BY <2>3, <2>4, <3>1, <3>3
      <4> QED BY <1>1, <1>3, <4>1, PlanWrites
    <3> QED BY <1>3, <3>2, <3>3
  <2>7. ASSUME row.live, thread'.here, Mine(x, "tags") PROVE Mine(x, "tags")'
    <3>1. CASE "tags" \in M
      <4>1. ~act[x].moved => Shows("tags")'
        BY <1>1, <2>1, <2>2, <2>7, <3>1, Knows DEF Shows
      <4> QED BY <1>3, <3>1, <4>1 DEF Mine
    <3>2. CASE "tags" \notin M /\ (excuse["tags"] \/ Shows("tags"))
      <4>1. Shows("tags") => Shows("tags")' BY <1>1, <2>1 DEF Shows
      <4> QED BY <1>3, <3>2, <4>1 DEF Mine
    <3>3. CASE "tags" \notin M /\ Will(x, act[x], "tags")
      <4>1. ~act[x].moved BY <1>1, <3>3 DEF Will
      <4> QED BY <1>1, <1>3, <2>2, <2>5, <3>3, <4>1, PlanWrites DEF Mine
    <3> QED BY <2>7, <3>1, <3>2, <3>3 DEF Mine
  <2>8. ASSUME row.live, thread'.here, Mine(x, "arch"), MyCache(x) PROVE Mine(x, "arch")'
    <3>1. CASE "arch" \in M
      <4>1. ~act[x].moved => Shows("arch")'
        BY <1>1, <2>1, <2>3, <2>8, <3>1, Knows DEF Shows
      <4> QED BY <1>3, <3>1, <4>1 DEF Mine
    <3>2. CASE "arch" \notin M /\ (excuse["arch"] \/ Shows("arch"))
      <4>1. Shows("arch") => Shows("arch")' BY <1>1, <2>1 DEF Shows
      <4> QED BY <1>3, <3>2, <4>1 DEF Mine
    <3>3. CASE "arch" \notin M /\ ~excuse["arch"]
      <4>1. thread.arch = thread.cached BY <1>2, <2>1, <2>8, <3>3 DEF MyCache
      <4>2. EditsArch(act'[x]) BY <1>1, <1>3, <2>3, <2>4, <3>3, <4>1, PlanWrites
      <4> QED BY <4>2 DEF Mine, Will
    <3> QED BY <2>8, <3>1, <3>2, <3>3 DEF Mine
  <2>9. row.live => Mine(x, "card")' BY <1>3 DEF Mine
  <2> QED BY <1>1, <2>6, <2>7, <2>8, <2>9 DEF Keeps, Parts
<1>4. CASE /\ thread' = [thread EXCEPT !.card = Card(act[x].task)]
           /\ excuse' = Written(x, {"card"} \cup M)
           /\ act' = Plan(x, thread)
  <2>1. thread'.card = Card(act[x].task) BY <1>1, <1>4 DEF Threads
  <2>2. excuse'["card"] <=> act[x].moved BY <1>4, Excusing DEF Parts
  <2>3. row.live => excuse'["card"] \/ Shows("card")' BY <1>1, <2>1, <2>2, Knows DEF Shows
  <2>4. /\ excuse'["tags"] <=> IF "tags" \in M THEN act[x].moved ELSE excuse["tags"]
        /\ excuse'["arch"] <=> IF "arch" \in M THEN act[x].moved ELSE excuse["arch"]
    BY <1>4, Excusing DEF Parts
  <2> HIDE DEF M
  <2> QED BY <1>3, <1>4, <2>3, <2>4
<1>5. CASE /\ thread' = thread /\ act' = Plan(x, thread)
           /\ excuse' = [Written(x, M) EXCEPT !["card"] = TRUE]
  <2>1. Written(x, M) \in [Parts -> BOOLEAN] BY PartsKeepTypes
  <2>2. excuse'["card"] /\ excuse'["tags"] = Written(x, M)["tags"] /\ excuse'["arch"] = Written(x, M)["arch"]
    BY <1>5, <2>1 DEF Parts
  <2>3. /\ excuse'["tags"] <=> IF "tags" \in M THEN act[x].moved ELSE excuse["tags"]
        /\ excuse'["arch"] <=> IF "arch" \in M THEN act[x].moved ELSE excuse["arch"]
    BY <2>2, Excusing DEF Parts
  <2> HIDE DEF M
  <2> QED BY <1>3, <1>5, <2>2, <2>3
<1>6. CASE /\ thread' = Opened(thread) /\ act' = act
           /\ excuse' = IF act[x].moved THEN Spared({"arch"}) ELSE excuse
  <2>1. /\ thread'.arch = FALSE /\ thread'.cached = FALSE
        /\ thread'.tags = thread.tags /\ thread'.card = thread.card
    BY <1>1, <1>6 DEF Opened, Threads
  <2>2. MyCache(x)' BY <2>1 DEF MyCache
  <2>3. ASSUME NEW p \in Parts, Mine(x, p) PROVE Mine(x, p)'
    <3>1. CASE ~act[x].moved BY <1>1, <1>6, <3>1 DEF Mine, Will, Before
    <3>2. CASE act[x].moved /\ p = "arch"
      <4>1. excuse'[p] BY <1>6, <3>2, Excusing
      <4> QED BY <4>1 DEF Mine
    <3>3. CASE act[x].moved /\ p # "arch"
      <4>1. excuse[p] => excuse'[p] BY <1>6, <3>3, Excusing
      <4>2. Shows(p) => Shows(p)' BY <1>1, <2>1, <3>3 DEF Shows, Parts
      <4> QED BY <1>6, <2>3, <4>1, <4>2 DEF Mine
    <3> QED BY <3>1, <3>2, <3>3
  <2> QED BY <2>2, <2>3 DEF Keeps
<1> QED BY <1>4, <1>5, <1>6 DEF DrawCard

LEMMA EditThreadKeeps ==
    ASSUME HandlerInv, NEW x \in All, EditThread(x)
    PROVE  Keeps(x)
<1> USE DEF HandlerInv
<1> DEFINE K == Keywords(x)
           t == act[x].task
<1>1. /\ row' = row /\ thread \in Threads /\ t \in Tasks /\ act[x].at = <<"do", "edit">>
      /\ act[x].at # Rest /\ act[x] \in Acts
  BY DEF EditThread, TypeOK, Acts, Rest
<1>2. ~act[x].moved /\ row.live => t = row.task BY <1>1, Knows
<1>3. "arch" \in act[x].edit => "arch" \in K BY DEF Keywords
<1>4. EditsArch(act[x]) => "arch" \in K BY <1>3 DEF EditsArch
<1>5. ASSUME NEW p \in Parts, Will(x, act[x], p), p \notin K, row.live
      PROVE  /\ p = "tags" => thread.tags = Tags(row.task)
             /\ p = "arch" => thread.cached = Closed(row.task) /\ ~EditsArch(act[x])
             /\ p # "card" /\ act[x].edit = {} /\ ~act[x].moved
  <2>1. ~EditsArch(act[x]) \/ p # "arch" BY <1>4, <1>5
  <2>2. ~act[x].moved /\ p # "card" /\ (act[x].edit = {} \/ p \in act[x].edit)
    BY <1>1, <1>5, <2>1 DEF Will, Before, Editing, Reopener, Shutting
  <2>3. act[x].edit = {} BY <1>5, <2>2 DEF Keywords
  <2>4. p \notin Differing(x, thread) BY <1>5, <2>3 DEF Keywords
  <2> QED BY <1>2, <1>5, <2>1, <2>2, <2>3, <2>4 DEF Differing
\* A part that is not among the keywords is left as it is.
<1>6. ASSUME NEW p \in Parts, p \notin K, p # "arch" \/ MyCache(x), row.live, thread'.here, thread.here,
             Mine(x, p), excuse[p] => excuse'[p], Shows(p) => Shows(p)'
      PROVE  Mine(x, p)'
  <2>1. CASE excuse[p] \/ Shows(p) BY <1>6, <2>1 DEF Mine
  <2>2. CASE Will(x, act[x], p)
    <3>1. /\ p = "tags" => Shows(p)
          /\ p = "arch" /\ thread.arch = thread.cached => Shows(p)
      BY <1>5, <1>6, <2>2 DEF Shows
    <3>2. p = "arch" /\ thread.arch # thread.cached => excuse[p] BY <1>5, <1>6, <2>2 DEF MyCache
    <3>3. p # "card" BY <1>5, <1>6, <2>2
    <3> QED BY <1>6, <3>1, <3>2, <3>3 DEF Mine, Parts
  <2> QED BY <1>6, <2>1, <2>2 DEF Mine
<1>7. CASE thread.here /\ thread' = Apply(x, K) /\ excuse' = Written(x, K)
  <2>1. /\ thread'.card = thread.card
        /\ thread'.tags = IF "tags" \in K THEN Tags(t) ELSE thread.tags
        /\ thread'.arch = IF "arch" \in K THEN Closed(t) ELSE thread.arch
        /\ thread'.cached = IF "arch" \in K THEN Closed(t) ELSE thread.cached
    BY <1>1, <1>7 DEF Apply, Threads
  <2>2. "card" \notin K BY <1>1 DEF Keywords, Differing, Acts
  <2>3. ASSUME NEW p \in Parts, row.live, thread'.here, Mine(x, p), p = "arch" => MyCache(x)
        PROVE  Mine(x, p)'
    <3>1. excuse'[p] <=> IF p \in K THEN act[x].moved ELSE excuse[p] BY <1>7, Excusing
    <3>2. CASE p \in K
      <4>1. ~act[x].moved => Shows(p)' BY <1>1, <1>2, <2>1, <2>2, <2>3, <3>2 DEF Shows, Parts
      <4> QED BY <3>1, <3>2, <4>1 DEF Mine
    <3>3. CASE p \notin K
      <4>1. Shows(p) => Shows(p)' BY <1>1, <2>1, <3>3 DEF Shows, Parts
      <4> QED BY <1>6, <1>7, <2>3, <3>1, <3>3, <4>1
    <3> QED BY <3>2, <3>3
  <2>4. MyCache(x) => MyCache(x)'
    <3>1. CASE "arch" \in K BY <2>1, <3>1 DEF MyCache
    <3>2. CASE "arch" \notin K
      <4>1. excuse'["arch"] <=> excuse["arch"] BY <1>7, <3>2, Excusing DEF Parts
      <4> QED BY <1>4, <1>7, <2>1, <3>2, <4>1 DEF MyCache
    <3> QED BY <3>1, <3>2
  <2> QED BY <1>1, <2>3, <2>4 DEF Keeps
<1>8. CASE /\ thread.here /\ TooClosed(x) /\ K = {"arch"}
           /\ thread' = [thread EXCEPT !.cached = TRUE] /\ excuse' = Written(x, {"arch"})
  <2>1. thread'.card = thread.card /\ thread'.tags = thread.tags /\ thread'.arch = thread.arch
        /\ thread'.cached = TRUE
    BY <1>1, <1>8 DEF Threads
  <2>2. thread.arch = TRUE /\ Closed(t) = TRUE
    <3>1. thread.arch /\ Closed(t) BY <1>8 DEF TooClosed
    <3>2. thread.arch \in BOOLEAN /\ Closed(t) \in BOOLEAN BY <1>1, Values DEF Threads
    <3> QED BY <3>1, <3>2
  <2>3. ASSUME NEW p \in Parts, row.live, thread'.here, Mine(x, p), p = "arch" => MyCache(x)
        PROVE  Mine(x, p)'
    <3>1. excuse'[p] <=> IF p \in K THEN act[x].moved ELSE excuse[p] BY <1>8, Excusing
    <3>2. CASE p \in K
      <4>1. ~act[x].moved => Shows(p)' BY <1>1, <1>2, <1>8, <2>1, <2>2, <2>3, <3>2 DEF Shows
      <4> QED BY <3>1, <3>2, <4>1 DEF Mine
    <3>3. CASE p \notin K
      <4>1. Shows(p) => Shows(p)' BY <1>1, <2>1 DEF Shows, Parts
      <4> QED BY <1>6, <1>8, <2>3, <3>1, <3>3, <4>1
    <3> QED BY <3>2, <3>3
  <2>4. MyCache(x)' BY <2>1, <2>2 DEF MyCache
  <2> QED BY <1>1, <2>3, <2>4 DEF Keeps
<1>9. CASE /\ thread.here /\ thread' = Opened(thread)
           /\ excuse' = IF act[x].moved THEN Spared({"arch"}) ELSE excuse
           /\ act' = [act EXCEPT ![x].edit = Keywords(x) \cup IF Closed(act[x].task) THEN {"arch"} ELSE {}]
  <2> DEFINE more == Keywords(x) \cup IF Closed(act[x].task) THEN {"arch"} ELSE {}
  <2>0. more = Keywords(x) \cup IF Closed(act[x].task) THEN {"arch"} ELSE {} OBVIOUS
  <2> HIDE DEF more
  <2>1. /\ thread'.arch = FALSE /\ thread'.cached = FALSE
        /\ thread'.tags = thread.tags /\ thread'.card = thread.card
    BY <1>1, <1>9 DEF Opened, Threads
  <2>2. act'[x].at = <<"do", "edit">> /\ act'[x].edit = more /\ (act'[x].moved <=> act[x].moved)
    BY <1>1, <1>9, <2>0 DEF TypeOK, Acts
  <2>3. MyCache(x)' BY <2>1 DEF MyCache
  <2>4. ASSUME NEW p \in Parts, row.live, thread'.here, Mine(x, p), p = "arch" => MyCache(x)
        PROVE  Mine(x, p)'
    <3>1. excuse[p] => excuse'[p] BY <1>9, Excusing
    <3>2. CASE p # "arch"
      <4>1. Shows(p) => Shows(p)' BY <1>1, <2>1, <3>2 DEF Shows, Parts
      <4>2. CASE p \notin K BY <1>6, <1>9, <2>4, <3>1, <3>2, <4>1, <4>2
      <4>3. CASE p \in K
        <5>1. p # "card" BY <1>1, <4>3 DEF Keywords, Differing, Acts
        <5>2. ~act[x].moved => Will(x, act'[x], p)
          BY <2>0, <2>2, <4>3, <5>1 DEF Will, Editing
        <5>3. act[x].moved => ~Will(x, act[x], p) BY <1>1, <3>2 DEF Will
        <5> QED BY <2>4, <3>1, <4>1, <5>2, <5>3 DEF Mine
      <4> QED BY <4>2, <4>3
    <3>3. CASE p = "arch" /\ act[x].moved
      <4>1. excuse'[p] BY <1>9, <3>3, Excusing
      <4> QED BY <4>1 DEF Mine
    <3>4. CASE p = "arch" /\ ~act[x].moved /\ Closed(t)
      <4>1. EditsArch(act'[x]) BY <2>0, <2>2, <3>4 DEF EditsArch
      <4> QED BY <3>4, <4>1 DEF Mine, Will
    <3>5. CASE p = "arch" /\ ~act[x].moved /\ ~Closed(t)
      <4>1. Closed(t) = FALSE BY <1>1, <3>5, Values
      <4>2. Shows(p)' BY <1>1, <1>2, <2>1, <2>4, <3>5, <4>1 DEF Shows
      <4> QED BY <4>2 DEF Mine
    <3> QED BY <3>2, <3>3, <3>4, <3>5
  <2> QED BY <1>1, <2>3, <2>4 DEF Keeps
<1>10. CASE Refused /\ thread' = thread /\ excuse' = Spared(K \cup {"arch"})
  <2>1. excuse'["arch"] BY <1>10, Excusing DEF Parts
  <2>2. ASSUME NEW p \in Parts, row.live, thread'.here, Mine(x, p), p = "arch" => MyCache(x)
        PROVE  Mine(x, p)'
    <3>1. excuse'[p] <=> (p \in K \cup {"arch"} \/ excuse[p]) BY <1>10, Excusing
    <3>2. Shows(p) => Shows(p)' BY <1>1, <1>10 DEF Shows, Parts
    <3>3. CASE p \in K \cup {"arch"} BY <3>1, <3>3 DEF Mine
    <3>4. CASE p \notin K \cup {"arch"} BY <1>6, <1>10, <2>2, <3>1, <3>2, <3>4
    <3> QED BY <3>3, <3>4
  <2>3. MyCache(x)' BY <2>1 DEF MyCache
  <2> QED BY <1>1, <2>2, <2>3 DEF Keeps
<1> QED BY <1>7, <1>8, <1>9, <1>10 DEF EditThread

\* The card is drawn next, from the same task.
LEMMA SyncWill ==
    ASSUME HandlerInv, NEW x \in All, NEW th, th.here, act' = Sync(x, th), ~act[x].moved, NEW p
    PROVE  Will(x, act'[x], p)
<1>1. act' = Entered(x, th, "card") BY DEF Sync
<1>2. /\ Entered(x, th, "card")[x].at = Enter(th, "card")
      /\ Entered(x, th, "card")[x].moved = act[x].moved
  BY Fields DEF HandlerInv
<1>3. act'[x].at = Enter(th, "card") /\ ~act'[x].moved BY <1>1, <1>2
<1> QED BY <1>3 DEF Enter, Will, Before

LEMMA RefreshKeeps ==
    ASSUME HandlerInv, NEW x \in Actors, Refresh(x)
    PROVE  Keeps(x)
<1> USE DEF HandlerInv
<1> DEFINE t == act[x].task
           again == act[x].was /\ Closed(t) /\ ~thread.cached
<1>1. /\ row' = row /\ thread \in Threads /\ t \in Tasks /\ act[x].at = <<"do", "refresh">>
      /\ act[x].at # Rest /\ x \in All /\ x # Worker
  BY UsersAssumption DEF Refresh, TypeOK, Acts, Rest, All
<1>2. ~act[x].moved /\ row.live => t = row.task BY <1>1, Knows
<1>3. ASSUME NEW p, Will(x, act[x], p)
      PROVE  p = "arch" /\ ~act[x].moved /\ act[x].was /\ Closed(t)
  <2>1. p = "arch" /\ Reopener(act[x])
    BY <1>1, <1>3 DEF Will, Before, Editing, EditsArch, Shutting
  <2> QED BY <2>1 DEF Reopener
<1>4. ASSUME thread.here,
             again => act' = At(x, <<"shut", "refresh">>) \/ act' = At(x, <<"shut", "error">>),
             NEW p, Will(x, act[x], p), again
      PROVE  Will(x, act'[x], p)
  <2>1. act'[x].at \in {<<"shut", "refresh">>, <<"shut", "error">>} BY <1>1, <1>4, Fields
  <2> QED BY <1>3, <1>4, <2>1 DEF Will, Shutting
<1>5. ~EditsArch(act[x]) BY <1>1 DEF EditsArch
<1>6. CASE /\ thread.here /\ ~thread.arch
           /\ thread' = [thread EXCEPT !.card = Card(t)] /\ excuse' = Written(x, {"card"})
           /\ act' = IF again THEN At(x, <<"shut", "refresh">>) ELSE Sync(x, thread)
  <2>1. /\ thread'.card = Card(t) /\ thread'.tags = thread.tags /\ thread'.arch = thread.arch
        /\ thread'.cached = thread.cached /\ thread'.here = thread.here
    BY <1>1, <1>6 DEF Threads
  <2>2. ASSUME row.live, NEW p \in Parts, Mine(x, p) PROVE Mine(x, p)'
    <3>1. excuse'[p] <=> IF p \in {"card"} THEN act[x].moved ELSE excuse[p] BY <1>1, <1>6, Excusing
    <3>2. CASE p = "card"
      <4>1. ~act[x].moved => Shows(p)' BY <1>1, <1>2, <2>1, <2>2, <3>2 DEF Shows
      <4> QED BY <3>1, <3>2, <4>1 DEF Mine
    <3>3. CASE p # "card"
      <4>1. Shows(p) => Shows(p)' BY <1>1, <2>1, <3>3 DEF Shows, Parts
      <4>2. Will(x, act[x], p) => Will(x, act'[x], p)
        <5>1. SUFFICES ASSUME Will(x, act[x], p) PROVE Will(x, act'[x], p) OBVIOUS
        <5>2. CASE again BY <1>4, <1>6, <5>1, <5>2
        <5>3. CASE ~again
          <6>1. act' = Sync(x, thread) /\ ~act[x].moved BY <1>3, <1>6, <5>1, <5>3
          <6> QED BY <1>1, <1>6, <6>1, SyncWill
        <5> QED BY <5>2, <5>3
      <4> QED BY <2>2, <3>1, <3>3, <4>1, <4>2 DEF Mine
    <3> QED BY <3>2, <3>3
  <2>3. excuse'["arch"] <=> excuse["arch"] BY <1>1, <1>6, Excusing DEF Parts
  <2>4. MyCache(x) => MyCache(x)' BY <1>5, <2>1, <2>3 DEF MyCache
  <2> QED BY <1>1, <2>2, <2>4 DEF Keeps
<1>7. CASE /\ thread' = thread /\ excuse' = excuse
           /\ act' = IF again THEN At(x, <<"shut", "error">>) ELSE Ended(x)
  <2>1. ASSUME row.live, thread.here, NEW p \in Parts, Mine(x, p), p = "arch" => MyCache(x)
        PROVE  Mine(x, p)'
    <3>1. Shows(p) => Shows(p)' BY <1>1, <1>7 DEF Shows, Parts
    <3>2. CASE excuse[p] \/ Shows(p) BY <1>7, <3>1, <3>2 DEF Mine
    <3>3. CASE Will(x, act[x], p) /\ again
      <4>1. Will(x, act'[x], p) BY <1>4, <1>7, <2>1, <3>3
      <4> QED BY <4>1 DEF Mine
    <3>4. CASE Will(x, act[x], p) /\ ~again
      <4>1. p = "arch" /\ ~act[x].moved /\ Closed(t) /\ thread.cached BY <1>3, <3>4
      <4>2. thread.arch => Shows(p)
        <5>1. thread.arch \in BOOLEAN /\ Closed(row.task) \in BOOLEAN
          BY <1>1, Values DEF Threads, TypeOK
        <5> QED BY <1>2, <2>1, <4>1, <5>1 DEF Shows
      <4>3. ~thread.arch => excuse[p]
        <5>1. ~thread.arch => thread.arch # thread.cached BY <4>1
        <5> QED BY <1>5, <2>1, <4>1, <5>1 DEF MyCache
      <4> QED BY <1>7, <3>1, <4>2, <4>3 DEF Mine
    <3> QED BY <2>1, <3>2, <3>3, <3>4 DEF Mine
  <2>2. MyCache(x) => MyCache(x)' BY <1>5, <1>7 DEF MyCache
  <2> QED BY <1>1, <1>7, <2>1, <2>2 DEF Keeps
<1> QED BY <1>6, <1>7 DEF Refresh

LEMMA RefreshShutKeeps ==
    ASSUME HandlerInv, NEW x \in Actors, RefreshShut(x)
    PROVE  Keeps(x)
<1> USE DEF HandlerInv
<1>0. PICK s \in {"refresh", "error"} :
         /\ act[x].at = <<"shut", s>>
         /\ \/ thread.here /\ thread' = Shut(thread) /\ excuse' = Written(x, {"arch"})
            \/ excuse' = Spared({"arch"}) /\ thread' = thread
         /\ act' = IF s = "error" THEN Ended(x) ELSE Sync(x, thread')
  BY DEF RefreshShut
<1>1. /\ row' = row /\ thread \in Threads /\ act[x].task \in Tasks
      /\ act[x].at # Rest /\ x \in All /\ x # Worker /\ Placing(x, act[x])
  BY <1>0, UsersAssumption DEF RefreshShut, TypeOK, Acts, Rest, All, Placed
<1>2. Closed(act[x].task) = TRUE
  <2>1. Closed(act[x].task) /\ Closed(act[x].task) \in BOOLEAN BY <1>0, <1>1, Values DEF Placing
  <2> QED BY <2>1
<1>3. ~act[x].moved /\ row.live => act[x].task = row.task BY <1>1, Knows
<1>4. ASSUME NEW p \in Parts, p # "arch", thread'.here, Will(x, act[x], p) PROVE Will(x, act'[x], p)
  <2>1. s = "refresh" /\ ~act[x].moved
    BY <1>0, <1>1, <1>4 DEF Will, Before, Editing
  <2>2. act' = Sync(x, thread') BY <1>0, <2>1
  <2>3. \A th : th.here /\ act' = Sync(x, th) => Will(x, act'[x], p) BY <1>1, <2>1, SyncWill
  <2> QED BY <1>4, <2>2, <2>3
<1>5. thread'.tags = thread.tags /\ thread'.card = thread.card BY <1>0, <1>1 DEF Shut, Threads
<1>6. ASSUME row.live, thread'.here, NEW p \in Parts, p # "arch", Mine(x, p) PROVE Mine(x, p)'
  <2>1. Shows(p) => Shows(p)' BY <1>1, <1>5, <1>6 DEF Shows, Parts
  <2>2. excuse[p] => excuse'[p] BY <1>0, <1>1, <1>6, Excusing
  <2> QED BY <1>4, <1>6, <2>1, <2>2 DEF Mine
<1>7. CASE thread' = Shut(thread) /\ excuse' = Written(x, {"arch"})
  <2>1. thread'.arch = TRUE /\ thread'.cached = TRUE BY <1>1, <1>7 DEF Shut, Threads
  <2>2. excuse'["arch"] <=> act[x].moved BY <1>1, <1>7, Excusing DEF Parts
  <2>3. row.live => excuse'["arch"] \/ Shows("arch")' BY <1>1, <1>2, <1>3, <2>1, <2>2 DEF Shows
  <2>4. MyCache(x)' BY <2>1 DEF MyCache
  <2> QED BY <1>1, <1>6, <2>3, <2>4 DEF Keeps, Mine
<1>8. CASE excuse' = Spared({"arch"})
  <2>1. excuse'["arch"] BY <1>8, Excusing, <1>1 DEF Parts
  <2> QED BY <1>1, <1>6, <2>1 DEF Keeps, Mine, MyCache
<1> QED BY <1>0, <1>7, <1>8

LEMMA DeleteKeeps ==
    ASSUME HandlerInv, NEW x \in Actors, DeleteThread(x) \/ CloseThread(x)
    PROVE  Keeps(x)
<1> USE DEF HandlerInv
<1>1. /\ row' = row /\ thread \in Threads /\ act[x].at \in {<<"do", "delete">>, <<"do", "close">>}
      /\ Placing(x, act[x]) /\ excuse' = excuse
  BY DEF DeleteThread, CloseThread, TypeOK, Placed, All
<1>2. ~row.live BY <1>1 DEF Placing
<1>3. ~EditsArch(act[x]) BY <1>1 DEF EditsArch
<1>4. \/ thread' = thread \/ thread' = [thread EXCEPT !.here = FALSE]
      \/ thread' = [Shut(thread) EXCEPT !.shut = TRUE]
  BY DEF DeleteThread, CloseThread
<1>5. CASE thread' = thread BY <1>1, <1>2, <1>3, <1>5 DEF Keeps, MyCache
<1>6. CASE thread' = [thread EXCEPT !.here = FALSE]
  <2>1. ~thread'.here BY <1>1, <1>6 DEF Threads
  <2> QED BY <1>2, <2>1 DEF Keeps, MyCache
<1>7. CASE thread' = [Shut(thread) EXCEPT !.shut = TRUE]
  <2>1. thread'.arch = TRUE /\ thread'.cached = TRUE BY <1>1, <1>7 DEF Threads, Shut
  <2> QED BY <1>2, <2>1 DEF Keeps, MyCache
<1> QED BY <1>4, <1>5, <1>6, <1>7

LEMMA PostKeeps ==
    ASSUME HandlerInv, Post
    PROVE  Keeps(Worker)
<1> USE DEF HandlerInv
<1> DEFINE r == act[Worker]
<1>1. /\ row' = row /\ thread \in Threads /\ r.task \in Tasks /\ r.at = <<"do", "post">>
      /\ r.at # Rest /\ Worker \in All /\ thread'.here = thread.here
      /\ thread'.tags = thread.tags /\ thread'.card = thread.card
  BY DEF Post, TypeOK, Acts, Rest, All, Threads
<1>2. ~r.moved /\ row.live => r.task = row.task BY <1>1, Knows
<1>3. ~EditsArch(r) BY <1>1 DEF EditsArch
<1>4. ASSUME NEW p, Will(Worker, r, p)
      PROVE  /\ ~r.moved
             /\ r.op \notin Syncing => p = "arch" /\ r.op = "note" /\ r.was /\ Closed(r.task)
  BY <1>1, <1>4 DEF Will, Before, Editing, Reopener, EditsArch, Shutting
\* When the thread stays as the bot sees it, the flag is right or excused.
<1>5. ASSUME row.live, MyCache(Worker), thread.here, ~r.moved, Closed(r.task), thread.cached
      PROVE  excuse["arch"] \/ (Shows("arch") /\ thread.arch)
  <2>1. thread.arch \in BOOLEAN /\ thread.cached \in BOOLEAN /\ Closed(row.task) \in BOOLEAN
    BY <1>1, Values DEF Threads, TypeOK
  <2>2. CASE thread.arch BY <1>2, <1>5, <2>1, <2>2 DEF Shows
  <2>3. CASE ~thread.arch BY <1>3, <1>5, <2>1, <2>3 DEF MyCache
  <2> QED BY <2>2, <2>3
<1>6. ASSUME NEW p \in Parts, thread.here, Will(Worker, r, p), act' = AfterPost(thread), r.op \in Syncing
      PROVE  Will(Worker, act'[Worker], p)
  <2>1. act' = Sync(Worker, thread) BY <1>6 DEF AfterPost, Syncing
  <2> QED BY <1>1, <1>4, <1>6, <2>1, SyncWill
<1>7. ASSUME NEW a \in {<<"shut", "post">>, <<"shut", "failed">>}, act' = At(Worker, a)
      PROVE  Will(Worker, act'[Worker], "arch")
  <2>1. act'[Worker].at = a BY <1>1, <1>7, Fields
  <2> QED BY <1>7, <2>1 DEF Will, Shutting
<1>8. CASE /\ thread.here /\ thread' = [thread EXCEPT !.arch = FALSE]
           /\ excuse' = IF thread.arch THEN Spared({"arch"}) ELSE excuse
           /\ act' = IF Rearchives THEN At(Worker, <<"shut", "post">>) ELSE AfterPost(thread)
  <2>1. thread'.arch = FALSE /\ thread'.cached = thread.cached BY <1>1, <1>8 DEF Threads
  <2>2. thread.arch => excuse'["arch"] BY <1>1, <1>8, Excusing DEF Parts
  <2>3. ~thread.arch => thread.arch = FALSE /\ excuse' = excuse BY <1>1, <1>8 DEF Threads
  <2>4. MyCache(Worker) => MyCache(Worker)' BY <1>1, <1>3, <2>1, <2>2, <2>3 DEF MyCache
  <2>5. ASSUME row.live, NEW p \in Parts, Mine(Worker, p), p = "arch" => MyCache(Worker)
        PROVE  Mine(Worker, p)'
    <3>1. CASE p = "arch" /\ thread.arch BY <2>2, <3>1 DEF Mine
    <3>2. CASE p # "arch" \/ ~thread.arch
      <4>1. excuse[p] => excuse'[p] BY <1>1, <1>8, Excusing
      <4>2. Shows(p) => Shows(p)' BY <1>1, <2>1, <2>3, <3>2 DEF Shows, Parts
      <4>3. CASE Will(Worker, r, p) /\ r.op \in Syncing
        <5>1. ~Rearchives BY <4>3 DEF Rearchives, Syncing
        <5> QED BY <1>6, <1>8, <4>3, <5>1 DEF Mine
      <4>4. CASE Will(Worker, r, p) /\ r.op \notin Syncing /\ Rearchives
        <5>1. p = "arch" BY <1>4, <4>4
        <5> QED BY <1>7, <1>8, <4>4, <5>1 DEF Mine
      <4>5. CASE Will(Worker, r, p) /\ r.op \notin Syncing /\ ~Rearchives
        <5>1. p = "arch" /\ r.op = "note" /\ r.was /\ Closed(r.task) /\ ~r.moved BY <1>4, <4>5
        <5>2. thread.cached BY <4>5, <5>1 DEF Rearchives
        <5>3. excuse["arch"] BY <1>5, <1>8, <2>5, <3>2, <5>1, <5>2
        <5> QED BY <4>1, <5>1, <5>3 DEF Mine
      <4> QED BY <2>5, <4>1, <4>2, <4>3, <4>4, <4>5 DEF Mine
    <3> QED BY <3>1, <3>2
  <2> QED BY <1>1, <2>4, <2>5 DEF Keeps
<1>9. CASE ~thread.here BY <1>1, <1>9 DEF Keeps, MyCache
<1>10. CASE /\ UNCHANGED <<thread, excuse>>
            /\ act' = At(Worker, IF Rearchives /\ r.was THEN <<"shut", "failed">> ELSE <<"do", "failed">>)
  <2>1. MyCache(Worker) => MyCache(Worker)' BY <1>3, <1>10 DEF MyCache
  <2>2. ASSUME row.live, thread.here, NEW p \in Parts, Mine(Worker, p), p = "arch" => MyCache(Worker)
        PROVE  Mine(Worker, p)'
    <3>1. Shows(p) => Shows(p)' BY <1>1, <1>10 DEF Shows, Parts
    <3>2. CASE Will(Worker, r, p) /\ r.op \in Syncing
      <4>1. act' = At(Worker, <<"do", "failed">>) BY <1>10, <3>2 DEF Rearchives, Syncing
      <4>2. act'[Worker].at = <<"do", "failed">> /\ act'[Worker].op = r.op BY <1>1, <4>1, Fields
      <4> QED BY <3>2, <4>2 DEF Mine, Will
    <3>3. CASE Will(Worker, r, p) /\ r.op \notin Syncing /\ Rearchives
      <4>1. p = "arch" /\ act' = At(Worker, <<"shut", "failed">>) BY <1>4, <1>10, <3>3
      <4> QED BY <1>7, <4>1 DEF Mine
    <3>4. CASE Will(Worker, r, p) /\ r.op \notin Syncing /\ ~Rearchives
      <4>1. p = "arch" /\ r.op = "note" /\ r.was /\ Closed(r.task) /\ ~r.moved BY <1>4, <3>4
      <4>2. thread.cached BY <3>4, <4>1 DEF Rearchives
      <4> QED BY <1>5, <1>10, <2>2, <3>1, <4>1, <4>2 DEF Mine
    <3> QED BY <1>10, <2>2, <3>1, <3>2, <3>3, <3>4 DEF Mine
  <2> QED BY <1>1, <2>1, <2>2 DEF Keeps
<1> QED BY <1>8, <1>9, <1>10 DEF Post

LEMMA PostShutKeeps ==
    ASSUME HandlerInv, PostShut
    PROVE  Keeps(Worker)
<1> USE DEF HandlerInv
<1> DEFINE r == act[Worker]
<1>0. /\ row' = row /\ thread \in Threads /\ r.task \in Tasks
      /\ r.at \in {<<"shut", "post">>, <<"shut", "failed">>}
      /\ r.at # Rest /\ Worker \in All
  BY DEF PostShut, TypeOK, Acts, Rest, All
<1>1. /\ row' = row /\ thread \in Threads /\ r.task \in Tasks
      /\ r.at \in {<<"shut", "post">>, <<"shut", "failed">>}
      /\ r.at # Rest /\ Worker \in All /\ thread'.here = thread.here
      /\ thread'.tags = thread.tags /\ thread'.card = thread.card
  <2>1. thread' = Shut(thread) \/ thread' = thread BY DEF PostShut
  <2> QED BY <1>0, <2>1 DEF Shut, Threads
<1>2. ~r.moved /\ row.live => r.task = row.task BY <1>1, Knows
<1>3. ASSUME NEW p \in Parts, p # "arch", row.live, Mine(Worker, p) PROVE Mine(Worker, p)'
  <2>1. ~Will(Worker, r, p)
    BY <1>1, <1>3 DEF Will, Before, Editing
  <2>2. Shows(p) => Shows(p)' BY <1>1, <1>3 DEF Shows, Parts
  <2>3. excuse' = Written(Worker, {"arch"}) \/ excuse' = Spared({"arch"}) BY DEF PostShut
  <2>4. excuse[p] => excuse'[p] BY <1>1, <1>3, <2>3, Excusing
  <2> QED BY <1>3, <2>1, <2>2, <2>4 DEF Mine
<1>4. CASE thread' = Shut(thread) /\ Closed(r.task) /\ excuse' = Written(Worker, {"arch"})
  <2>1. thread'.arch = TRUE /\ thread'.cached = TRUE BY <1>1, <1>4 DEF Shut, Threads
  <2>2. excuse'["arch"] <=> r.moved BY <1>1, <1>4, Excusing DEF Parts
  <2>3. Closed(r.task) = TRUE
    <3>1. Closed(r.task) \in BOOLEAN BY <1>1, Values
    <3> QED BY <1>4, <3>1
  <2>4. row.live => excuse'["arch"] \/ Shows("arch")' BY <1>1, <1>2, <2>1, <2>2, <2>3 DEF Shows
  <2>5. MyCache(Worker)' BY <2>1 DEF MyCache
  <2> QED BY <1>1, <1>3, <2>4, <2>5 DEF Keeps, Mine
<1>5. CASE excuse' = Spared({"arch"})
  <2>1. excuse'["arch"] BY <1>5, <1>1, Excusing DEF Parts
  <2> QED BY <1>1, <1>3, <2>1 DEF Keeps, Mine, MyCache
<1> QED BY <1>4, <1>5 DEF PostShut

LEMMA FailKeeps ==
    ASSUME HandlerInv, Fail
    PROVE  Keeps(Worker)
<1> USE DEF HandlerInv
<1> DEFINE r == act[Worker]
           e == [job.event EXCEPT !.tries = @ + 1]
<1>1. /\ row' = row /\ thread' = thread /\ r.at = <<"do", "failed">> /\ Worker \in All /\ r.at # Rest
      /\ (queue' = queue \cup {e} /\ excuse' = excuse) \/ excuse' = Spared(Parts)
  BY DEF Fail, All, Rest
<1>2. e.kind = r.op
  <2>1. e.kind = job.event.kind BY DEF TypeOK, Events
  <2> QED BY <1>1, <2>1 DEF Busy
<1>3. ASSUME NEW p, Will(Worker, r, p) PROVE r.op \in Syncing
  BY <1>1, <1>3 DEF Will, Before, Editing, Reopener, EditsArch, Shutting
<1>4. ~EditsArch(r) BY <1>1 DEF EditsArch
<1> HIDE DEF e, r
<1>5. CASE queue' = queue \cup {e} /\ excuse' = excuse
  <2>1. r.op \in Syncing => Announced' BY <1>2, <1>5 DEF Announced
  <2>2. \A p \in Parts : Shows(p) => Shows(p)' BY <1>1 DEF Shows
  <2> QED BY <1>1, <1>3, <1>4, <1>5, <2>1, <2>2 DEF Keeps, Mine, MyCache, r
<1>6. CASE excuse' = Spared(Parts)
  <2>1. \A p \in Parts : excuse'[p] BY <1>1, <1>6, Excusing
  <2> QED BY <2>1 DEF Keeps, Mine, MyCache, Parts
<1> QED BY <1>1, <1>5, <1>6

LEMMA TellKeeps ==
    ASSUME HandlerInv, Tell \/ Finish
    PROVE  Keeps(Worker)
<1> USE DEF HandlerInv
<1>1. /\ row' = row /\ thread \in Threads /\ act[Worker].at = <<"do", "tell">> /\ Worker \in All
      /\ \/ UNCHANGED <<thread, excuse>>
         \/ thread' = [thread EXCEPT !.arch = FALSE] /\ excuse' = Spared({"arch"})
  BY DEF Tell, Finish, Finished, TypeOK, All
<1>2. \A p : ~Will(Worker, act[Worker], p)
  BY <1>1 DEF Will, Before, Editing, Reopener, EditsArch, Shutting
<1>3. ~EditsArch(act[Worker]) BY <1>1 DEF EditsArch
<1>4. CASE UNCHANGED <<thread, excuse>>
  <2>1. \A p \in Parts : Shows(p) => Shows(p)' BY <1>1, <1>4 DEF Shows
  <2> QED BY <1>2, <1>3, <1>4, <2>1 DEF Keeps, Mine, MyCache
<1>5. CASE thread' = [thread EXCEPT !.arch = FALSE] /\ excuse' = Spared({"arch"})
  <2>1. thread'.tags = thread.tags /\ thread'.card = thread.card BY <1>1, <1>5 DEF Threads
  <2>2. \A p \in Parts : excuse'[p] <=> (p = "arch" \/ excuse[p]) BY <1>1, <1>5, Excusing
  <2>3. \A p \in Parts : p # "arch" /\ Shows(p) => Shows(p)' BY <1>1, <2>1 DEF Shows, Parts
  <2> QED BY <1>2, <2>2, <2>3 DEF Keeps, Mine, MyCache, Parts
<1> QED BY <1>1, <1>4, <1>5

LEMMA StepSync ==
    ASSUME SyncInv, NEW x \in All, Step(x)
    PROVE  SyncInv'
<1> USE DEF SyncInv
<1>1. HandlerInv /\ thread \in Threads /\ act[x].task \in Tasks BY DEF ToldInv, HandlerInv, TypeOK, Acts
<1>2. row' = row /\ queue' = queue BY DEF Step, Lift, DrawCard, EditThread
<1>3. ToldInv' BY StepTold
<1>4. \A y \in All \ {x} : act'[y] = act[y] BY <1>1, StepMoves DEF Moves
<1>5. Keeps(x) BY <1>1, LiftKeeps, DrawCardKeeps, EditThreadKeeps DEF Step
<1>6. Announced => Announced' BY <1>2 DEF Announced
<1>7. thread'.here = thread.here
  <2>1. \/ thread' = thread \/ thread' = Opened(thread) \/ (\E c : thread' = [thread EXCEPT !.card = c])
        \/ thread' = [thread EXCEPT !.cached = TRUE] \/ thread' = Apply(x, Keywords(x))
    BY DEF Step, Lift, DrawCard, EditThread
  <2>2. Apply(x, Keywords(x)).here = thread.here BY <1>1 DEF Apply, Threads
  <2> QED BY <1>1, <2>1, <2>2 DEF Opened, Threads
<1> QED BY <1>2, <1>3, <1>4, <1>5, <1>6, <1>7, KeepsInv

LEMMA HandleSync ==
    ASSUME SyncInv, NEW x \in Actors, Handle(x)
    PROVE  SyncInv'
<1> USE DEF SyncInv
<1>1. HandlerInv /\ thread \in Threads /\ x \in All BY DEF ToldInv, HandlerInv, TypeOK, All
<1>2. row' = row /\ queue' = queue BY DEF Handle, Refresh, RefreshShut, DeleteThread, CloseThread
<1>3. ToldInv' BY HandleTold
<1>4. \A y \in All \ {x} : act'[y] = act[y] BY <1>1, HandleMoves DEF Moves
<1>5. Keeps(x) BY <1>1, RefreshKeeps, RefreshShutKeeps, DeleteKeeps DEF Handle
<1>6. Announced => Announced' BY <1>2 DEF Announced
<1>7. thread'.here => thread.here
  <2>1. \/ thread' = thread \/ thread' = Shut(thread) \/ (\E c : thread' = [thread EXCEPT !.card = c])
        \/ thread' = [thread EXCEPT !.here = FALSE] \/ thread' = [Shut(thread) EXCEPT !.shut = TRUE]
    BY DEF Handle, Refresh, RefreshShut, DeleteThread, CloseThread
  <2>2. [Shut(thread) EXCEPT !.shut = TRUE].here = thread.here BY <1>1 DEF Shut, Threads
  <2> QED BY <1>1, <2>1, <2>2 DEF Shut, Threads
<1> QED BY <1>1, <1>2, <1>3, <1>4, <1>5, <1>6, <1>7, KeepsInv

LEMMA DispatchSync ==
    ASSUME SyncInv, Dispatch
    PROVE  SyncInv'
<1> USE DEF SyncInv
<1>1. HandlerInv /\ thread \in Threads /\ Worker \in All BY DEF ToldInv, HandlerInv, TypeOK, All
<1>2. row' = row /\ queue \subseteq queue' BY DEF Dispatch, Post, PostShut, Fail, Tell, Finish
<1>3. ToldInv' BY DispatchTold
<1>4. \A y \in All \ {Worker} : act'[y] = act[y] BY <1>1, DispatchMoves DEF Moves
<1>5. Keeps(Worker) BY <1>1, PostKeeps, PostShutKeeps, FailKeeps, TellKeeps DEF Dispatch
<1>6. Announced => Announced' BY <1>2 DEF Announced
<1>7. thread'.here => thread.here
  <2>1. \/ thread' = thread \/ thread' = Shut(thread) \/ thread' = [thread EXCEPT !.arch = FALSE]
    BY DEF Dispatch, Post, PostShut, Fail, Tell, Finish
  <2> QED BY <1>1, <2>1 DEF Shut, Threads
<1> QED BY <1>1, <1>2, <1>3, <1>4, <1>5, <1>6, <1>7, KeepsInv

LEMMA TakeSync ==
    ASSUME SyncInv, NEW e \in queue, Take(e)
    PROVE  SyncInv'
<1> USE DEF SyncInv
<1>1. HandlerInv /\ Worker \in All /\ TypeOK BY DEF ToldInv, HandlerInv, All
<1>2. /\ row' = row /\ thread' = thread /\ excuse' = excuse /\ queue' = queue \ {e}
      /\ act[Worker].at = Rest
  BY DEF Take
<1>3. ToldInv' BY TakeTold
<1> DEFINE r == [Idle(Resolve(e)) EXCEPT !.op = e.kind, !.was = thread.cached, !.at = First(e)]
<1>4. r.at = First(e) /\ r.op = e.kind /\ ~r.moved BY DEF Idle
<1> HIDE DEF r
<1>5. act' = [act EXCEPT ![Worker] = r] BY DEF Take, r
<1>6. act'[Worker] = r /\ \A y \in All \ {Worker} : act'[y] = act[y] BY <1>1, <1>5 DEF TypeOK
<1>7. ASSUME thread.here, e.kind \in Syncing, NEW p PROVE Will(Worker, act'[Worker], p)
  BY <1>4, <1>6, <1>7 DEF First, Enter, Syncing, Will, Before
<1>8. ~EditsArch(act[Worker]) /\ \A p : ~Will(Worker, act[Worker], p)
  BY <1>2 DEF EditsArch, Will, Before, Editing, Reopener, Shutting, Rest
<1>9. Cache' BY <1>2, <1>6, <1>8 DEF Cache
<1>10. Owed'
  <2>1. SUFFICES ASSUME row.live, thread.here, NEW p \in Parts
                 PROVE  (excuse[p] \/ Shows(p) \/ Announced \/ \E y \in All : Will(y, act[y], p))'
    BY <1>2 DEF Owed
  <2>2. excuse[p] \/ Shows(p) \/ Announced \/ \E y \in All : Will(y, act[y], p) BY <2>1 DEF Owed
  <2>3. Shows(p) => Shows(p)' BY <1>2 DEF Shows
  <2>4. Announced => Announced' \/ e.kind \in Syncing BY <1>2 DEF Announced
  <2>5. CASE Announced BY <1>1, <1>7, <2>1, <2>4, <2>5
  <2>6. CASE \E y \in All : Will(y, act[y], p)
    <3>1. PICK y \in All : Will(y, act[y], p) BY <2>6
    <3>2. y # Worker BY <1>8, <3>1
    <3> QED BY <1>6, <3>1, <3>2
  <2> QED BY <1>2, <2>2, <2>3, <2>5, <2>6
<1> QED BY <1>3, <1>9, <1>10

LEMMA RequestSync ==
    ASSUME SyncInv, NEW x \in Actors, Request(x)
    PROVE  SyncInv'
<1> USE DEF SyncInv
<1>1. /\ HandlerInv /\ TypeOK /\ x \in All /\ act[x].at = Rest /\ thread' = thread /\ excuse' = excuse
      /\ x \in Users /\ count' \in [changes : Nat, faults : Nat]
      /\ AddNote(x) \/ Changed(x) \/ Shelved(x) \/ DeleteTask(x)
  BY Requests DEF ToldInv, HandlerInv, All
<1>2. ToldInv' BY RequestTold
<1>3. ASSUME NEW t \in Tasks, NEW p, NEW o, act' = Over(x, t, p, o)
      PROVE  Cache' /\ act'[x].at = p /\ ~act'[x].moved
  <2>1. Over(x, t, p, o)[x].at = p /\ ~Over(x, t, p, o)[x].moved BY <1>1, OvertakenFields
  <2>2. \A y \in All \ {x} : Over(x, t, p, o)[y].at = act[y].at /\ Over(x, t, p, o)[y].edit = act[y].edit
    BY <1>1, OvertakenFields
  <2>3. ASSUME NEW y \in All, EditsArch(act[y]) PROVE EditsArch(act'[y])
    <3>1. y # x BY <1>1, <2>3 DEF EditsArch, Rest
    <3> QED BY <1>3, <2>2, <2>3, <3>1 DEF EditsArch
  <2> QED BY <1>1, <1>3, <2>1, <2>3 DEF Cache
<1>4. CASE AddNote(x)
  <2>1. row' = row /\ act' = act /\ queue \subseteq queue' BY <1>4 DEF AddNote
  <2>2. \A p \in Parts : Shows(p) => Shows(p)' BY <1>1, <2>1 DEF Shows
  <2> QED BY <1>1, <1>2, <2>1, <2>2 DEF Owed, Cache, Announced
<1>5. CASE Changed(x)
  <2>1. PICK t \in Tasks, o \in People, k \in {"status", "assign"} :
           Event(x, k, t, o) \in queue' /\ act' = Over(x, t, Enter(thread, "refresh"), k)
    BY <1>5 DEF Changed, Over
  <2>2. Event(x, k, t, o).kind = k
    <3>1. k \in Kinds BY DEF Kinds
    <3> QED BY <1>1, <3>1, EventIsEvent
  <2>3. Announced' BY <2>1, <2>2 DEF Announced, Syncing
  <2>4. Cache' BY <1>3, <2>1
  <2> QED BY <1>2, <2>3, <2>4 DEF Owed
<1>6. CASE Shelved(x)
  <2>1. CASE ~thread.here BY <1>1, <1>2, <2>1 DEF Owed, Cache
  <2>2. CASE thread.here
    <3>1. PICK t \in Tasks : act' = Over(x, t, Enter(thread, "card"), "shelve")
      BY <1>6, <2>2 DEF Shelved, Over
    <3>2. Cache' /\ act'[x].at = Enter(thread, "card") /\ ~act'[x].moved BY <1>3, <3>1
    <3>3. \A p : Will(x, act'[x], p) BY <3>2 DEF Enter, Will, Before
    <3> QED BY <1>1, <1>2, <3>2, <3>3 DEF Owed
  <2> QED BY <2>1, <2>2
<1>7. CASE DeleteTask(x)
  <2>1. row' = [row EXCEPT !.live = FALSE] /\ act' = Over(x, row.task, <<"do", "delete">>, "delete")
    BY <1>7 DEF DeleteTask, Over
  <2>2. row.task \in Tasks /\ ~row'.live BY <1>1, <2>1 DEF TypeOK
  <2>3. Cache' BY <1>3, <2>1, <2>2
  <2> QED BY <1>2, <2>2, <2>3 DEF Owed
<1> QED BY <1>1, <1>4, <1>5, <1>6, <1>7

LEMMA WorldSync ==
    ASSUME SyncInv, AutoArchive \/ GatewayUpdate \/ Crash
    PROVE  SyncInv'
<1> USE DEF SyncInv
<1>1. HandlerInv /\ TypeOK /\ Worker \in All /\ thread \in Threads
  BY DEF ToldInv, HandlerInv, TypeOK, All
<1>2. ToldInv' BY WorldTold
<1>3. row' = row /\ thread'.here = thread.here /\ thread'.card = thread.card /\ thread'.tags = thread.tags
  BY <1>1 DEF AutoArchive, GatewayUpdate, Crash, Threads
<1>4. CASE AutoArchive
  <2>1. excuse' = Spared({"arch"}) /\ act' = act /\ queue' = queue BY <1>4 DEF AutoArchive
  <2>2. \A p \in Parts : excuse'[p] <=> (p = "arch" \/ excuse[p]) BY <1>1, <2>1, Excusing
  <2>3. \A p \in Parts : p # "arch" /\ Shows(p) => Shows(p)' BY <1>3 DEF Shows, Parts
  <2>4. Owed' BY <1>3, <2>1, <2>2, <2>3 DEF Owed, Announced
  <2>5. Cache' BY <2>2 DEF Cache, Parts
  <2> QED BY <1>2, <2>4, <2>5
<1>5. CASE GatewayUpdate
  <2>1. UNCHANGED <<act, queue, excuse>> /\ thread'.arch = thread.arch /\ thread'.cached = thread.arch
    BY <1>1, <1>5 DEF GatewayUpdate, Threads
  <2>2. \A p \in Parts : Shows(p) => Shows(p)' BY <1>3, <2>1 DEF Shows
  <2>3. Owed' BY <1>3, <2>1, <2>2 DEF Owed, Announced
  <2>4. Cache' BY <2>1 DEF Cache
  <2> QED BY <1>2, <2>3, <2>4
<1>6. CASE Crash
  <2> DEFINE e == [job.event EXCEPT !.again = TRUE]
             n == [None EXCEPT !.again = TRUE]
  <2>1. /\ thread'.arch = thread.arch /\ thread'.cached = thread.arch
        /\ queue' = queue \cup ({e} \ {n})
        /\ excuse' = IF act[Worker].op = "note" \/ \E x \in Actors : act[x].at # Rest
                     THEN Spared(Parts) ELSE excuse
    BY <1>1, <1>6 DEF Crash, Threads
  <2>2. e.kind = job.event.kind /\ n.kind = "none" BY <1>1 DEF TypeOK, Events, None
  <2> HIDE DEF e, n
  <2>3. Cache' BY <2>1 DEF Cache
  <2>4. CASE act[Worker].op = "note" \/ \E x \in Actors : act[x].at # Rest
    <3>1. \A p \in Parts : excuse'[p] BY <1>1, <2>1, <2>4, Excusing
    <3> QED BY <1>2, <2>3, <3>1 DEF Owed
  <2>5. CASE ~(act[Worker].op = "note" \/ \E x \in Actors : act[x].at # Rest)
    <3>1. excuse' = excuse BY <2>1, <2>5
    <3>2. \A p \in Parts : Shows(p) => Shows(p)' BY <1>3, <2>1 DEF Shows
    <3>3. Announced => Announced' BY <2>1 DEF Announced
    <3>4. ASSUME NEW x \in All, NEW p, Will(x, act[x], p) PROVE Announced'
      <4>1. act[x].at # Rest
        BY <3>4 DEF Will, Before, Editing, Reopener, EditsArch, Shutting, Rest
      <4>2. x = Worker BY <2>5, <4>1 DEF All
      <4>3. Placing(Worker, act[Worker]) BY <1>1 DEF HandlerInv, Placed
      <4>4. act[Worker].op \in Syncing
        BY <2>5, <3>4, <4>2, <4>3 DEF Placing, Will, Before, Editing, Reopener, EditsArch, Shutting, Rest
      <4>5. job.event.kind = act[Worker].op BY <1>1, <4>1, <4>2 DEF HandlerInv, Busy
      <4>6. e \in queue' BY <2>1, <2>2, <4>4, <4>5 DEF Syncing
      <4> QED BY <2>2, <4>4, <4>5, <4>6 DEF Announced
    <3>5. Owed' BY <1>3, <3>1, <3>2, <3>3, <3>4 DEF Owed
    <3> QED BY <1>2, <2>3, <3>5
  <2> QED BY <2>4, <2>5
<1> QED BY <1>4, <1>5, <1>6

THEOREM SyncInvariant == Spec => []SyncInv
<1>1. Init => SyncInv
  <2> SUFFICES ASSUME Init PROVE SyncInv OBVIOUS
  <2>1. /\ thread.card = Card(row.task) /\ thread.tags = Tags(row.task) /\ thread.arch = FALSE
        /\ thread.cached = FALSE /\ row.task.done = FALSE /\ row.task.shelved = FALSE
    BY DEF Init
  <2>2. \A p \in Parts : Shows(p) BY <2>1 DEF Shows, Closed, Parts
  <2> QED BY <2>1, <2>2, ToldInit DEF SyncInv, Owed, Cache
<1>2. SyncInv /\ [Next]_vars => SyncInv'
  <2> SUFFICES ASSUME SyncInv, [Next]_vars PROVE SyncInv' OBVIOUS
  <2>1. CASE Next
    <3>1. \A x \in Actors : Request(x) \/ Handle(x) => SyncInv' BY RequestSync, HandleSync
    <3>2. \A x \in All : Step(x) => SyncInv' BY StepSync
    <3>3. \A e \in queue : Take(e) => SyncInv' BY TakeSync
    <3>4. Dispatch => SyncInv' BY DispatchSync
    <3> QED BY <2>1, <3>1, <3>2, <3>3, <3>4, WorldSync DEF Next
  <2>2. CASE UNCHANGED vars
    <3>1. ToldInv'
      BY <2>2 DEF vars, SyncInv, ToldInv, HandlerInv, TypeOK, Placed, Placing, Current, Busy, Told, Pending
    <3>2. UNCHANGED <<row, thread, queue, act, excuse>> BY <2>2 DEF vars
    <3>3. \A p \in Parts : Shows(p) => Shows(p)' BY <3>2 DEF Shows
    <3> QED BY <3>1, <3>2, <3>3 DEF SyncInv, Owed, Cache, Announced
  <2> QED BY <2>1, <2>2
<1> QED BY <1>1, <1>2, PTL DEF Spec

\* SettledShowsTask: when no handler runs and no event waits, the card, the
\* tags and the archived flag of the thread show the task of the database or
\* have their excuse, for any number of users, overlapping requests, retries,
\* refused calls and crashes.
THEOREM ThreadShowsTask == Spec => []SettledShowsTask
<1>1. SyncInv => SettledShowsTask
  <2> SUFFICES ASSUME SyncInv, Settled, row.live, thread.here, NEW p \in Parts
               PROVE  excuse[p] \/ Shows(p)
    BY DEF SettledShowsTask
  <2>1. ~Announced BY DEF Settled, Announced
  <2>2. \A x \in All : ~Will(x, act[x], p)
    BY DEF Settled, Will, Before, Editing, Reopener, EditsArch, Shutting, Rest
  <2> QED BY <2>1, <2>2 DEF SyncInv, Owed
<1> QED BY <1>1, SyncInvariant, PTL

=============================================================================
