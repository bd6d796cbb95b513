------------------------------ MODULE Workspace ------------------------------
(***************************************************************************)
(* The Discord thread of one task: the card, the tags and the archived     *)
(* flag that show it, the handlers of users' requests and the outbox       *)
(* worker with the notifier, which all write them, each from the task it   *)
(* read last.  Every await is a step.  The title of the thread is left to  *)
(* ThreadRename, the table of the outbox to Outbox.                        *)
(***************************************************************************)
EXTENDS Integers, FiniteSets

CONSTANTS
    Users,       \* the members of the server
    Nobody,      \* "no assignee"
    Actors,      \* the users whose requests are modelled
    Worker,      \* the outbox worker
    Watchers,    \* who watches the task
    Creator,     \* who created it
    Holder,      \* who holds it when the model begins, or Nobody
    Pref,        \* the notification preference of every user
    Ops,         \* the requests that are made: pairs of an actor and a kind
    Waiting,     \* the kinds of events one of which waits when the model begins
    MaxChanges,  \* bound: committed requests
    MaxTries,    \* dispatches of one event before it is given up
    MaxFaults    \* bound: refused calls, crashes and threads archived by Discord

ASSUME UsersAssumption ==
    /\ Nobody \notin Users /\ Actors \subseteq Users /\ Worker \notin Users
    /\ Watchers \subseteq Users /\ Creator \in Users /\ Holder \in Users \cup {Nobody}
    /\ Pref \in [Users -> {"none", "dm", "channel", "both"}]

Kinds == {"created", "due", "unblocked", "status", "note", "assign"}

ASSUME BoundsAssumption ==
    Waiting \subseteq Kinds /\ MaxChanges \in Nat /\ MaxTries \in Nat /\ MaxFaults \in Nat

VARIABLES
    row,     \* the task in the database
    thread,  \* what Discord shows, and whether the bot's cache has it archived
    queue,   \* the events that wait
    act,     \* per actor: where it is in which handler, and the task it read
    job,     \* the event the worker dispatches, with the letters left to send
    excuse,  \* the parts of the thread that need not show the task: they were
             \* last written from a task that had changed since it was read, by
             \* Discord, or not at all as Discord refused
    count    \* how much of the bounds is used

vars == <<row, thread, queue, act, job, excuse, count>>

Tasks == [done : BOOLEAN, shelved : BOOLEAN, who : Users \cup {Nobody}]
Parts == {"card", "tags", "arch"}
All == Actors \cup {Worker}

\* What the card, the tags and the archived flag say of a task: the fields the
\* properties tell apart.
Card(t) == [title |-> IF t.shelved THEN "archived" ELSE "plain", done |-> t.done, who |-> t.who]
Tags(t) == [done |-> t.done, free |-> t.who = Nobody]
Closed(t) == t.done \/ t.shelved

Rest == <<"idle", "idle">>

None == [id |-> 0, kind |-> "none", by |-> Nobody, task |-> [done |-> FALSE, shelved |-> FALSE,
         who |-> Nobody], old |-> Nobody, tries |-> 0, said |-> 0, told |-> [u \in Users |-> 0],
         again |-> FALSE]

Idle(t) == [at |-> Rest, op |-> "none", task |-> t, moved |-> FALSE, was |-> FALSE,
            edit |-> {}]

\* The users an event concerns: those who watch the task, hold it or held it,
\* but the one who caused it.
Concerned(e) == (IF e.kind = "due" THEN {e.task.who} ELSE (Watchers \cup {e.task.who, e.old}) \ {e.by})
                   \ {Nobody}

-----------------------------------------------------------------------------
(* What the handlers of the notifier compute from the payload: pairs of a  *)
(* user and the letter the user gets.                                      *)

Held(e) == {e.task.who} \ {Nobody}

\* Mutant: the assignee stays among the watchers of a new task.
CreatedLettersTwice(e) ==
    ((Held(e) \ {e.by}) \X {"assigned"}) \cup ((Watchers \ {e.by}) \X {"watching"})

CreatedLetters(e) ==
    ((Held(e) \ {e.by}) \X {"assigned"})
        \cup ((Watchers \ ({e.by} \cup Held(e))) \X {"watching"})

StatusLetters(e) == (((Watchers \cup (Held(e) \ {e.by})) \ {e.by}) \X {"status"})

NoteLetters(e) == (((Watchers \cup (Held(e) \ {e.by})) \ {e.by}) \X {"note"})

AssigneeLetters(e) == (((Watchers \cup Held(e) \cup {e.old}) \ {e.by, Nobody}) \X {"assignee"})

UnblockedLetters(e) == (((Watchers \cup Held(e)) \ {e.by}) \X {"unblocked"})

ReminderLetters(e) == Held(e) \X {"due"}

\* dispatch_event
Letters(e) ==
    CASE e.kind = "created"   -> CreatedLetters(e)
      [] e.kind = "due"       -> ReminderLetters(e)
      [] e.kind = "status"    -> StatusLetters(e)
      [] e.kind = "note"      -> NoteLetters(e)
      [] e.kind = "assign"    -> AssigneeLetters(e)
      [] e.kind = "unblocked" -> UnblockedLetters(e)

-----------------------------------------------------------------------------
Init ==
    LET t == [done |-> FALSE, shelved |-> FALSE, who |-> Holder] IN
        /\ row = [live |-> TRUE, task |-> t]
        /\ thread = [here |-> TRUE, shut |-> FALSE, card |-> Card(t), tags |-> Tags(t), arch |-> FALSE,
                     cached |-> FALSE]
        /\ \E k \in Waiting :
              queue = {[None EXCEPT !.kind = k, !.task = t, !.tries = MaxTries - 1,
                           !.by = IF k = "due" THEN Nobody ELSE Creator]}
        /\ act = [x \in All |-> Idle(None.task)]
        /\ job = [event |-> None, todo |-> {}]
        /\ excuse = [p \in Parts |-> FALSE]
        /\ count = [changes |-> 0, faults |-> 0]

Fault == count.faults < MaxFaults /\ count' = [count EXCEPT !.faults = @ + 1]
Same == UNCHANGED count

\* A call that Discord refuses; every call on a thread that is gone.
Refused == IF thread.here THEN Fault ELSE Same

\* Part p is written from the task x has read; or need not show it any more.
Written(x, ps) == [p \in Parts |-> IF p \in ps THEN act[x].moved ELSE excuse[p]]
Spared(ps) == [p \in Parts |-> p \in ps \/ excuse[p]]

At(x, a) == [act EXCEPT ![x].at = a]
Ended(x) == [act EXCEPT ![x] = Idle(None.task)]

-----------------------------------------------------------------------------
(* unarchive_thread_if_needed: around the message of an activity ("post"), *)
(* the answer to the click ("refresh") and the edit of the card ("card").  *)
(* The first test is on the cached flag and made without an await.         *)

Enter(th, s) == IF th.cached /\ th.here THEN <<"lift", s>> ELSE <<"do", s>>
Opened(th) == [th EXCEPT !.arch = FALSE, !.cached = FALSE]
Shut(th) == [th EXCEPT !.arch = TRUE, !.cached = TRUE]

Entered(x, th, s) == [act EXCEPT ![x].at = Enter(th, s), ![x].was = th.cached]

Lift(x) ==
    \E s \in {"post", "refresh", "card", "edit"} :
        /\ act[x].at = <<"lift", s>>
        /\ \/ /\ thread.here
              /\ thread' = Opened(thread) /\ Same
              /\ excuse' = IF act[x].moved THEN Spared({"arch"}) ELSE excuse
           \/ Refused /\ UNCHANGED <<thread, excuse>>
        /\ act' = At(x, <<"do", s>>)
    /\ UNCHANGED <<row, queue, job>>

-----------------------------------------------------------------------------
(* sync_task_workspace_state, after the card: the tags and the flag that   *)
(* differ from the task in the bot's cache are written in one edit.        *)

Differing(x, th) ==
    (IF th.tags # Tags(act[x].task) THEN {"tags"} ELSE {})
        \cup (IF th.cached # Closed(act[x].task) THEN {"arch"} ELSE {})

\* The parts that show the task already, whoever wrote them.
Matching(x, th) ==
    (IF th.tags = Tags(act[x].task) THEN {"tags"} ELSE {})
        \cup (IF th.arch = Closed(act[x].task) THEN {"arch"} ELSE {})

\* What follows sync_workspace: the notifier goes on to the letters.
AfterSync(x) == IF x = Worker THEN At(x, <<"do", "tell">>) ELSE Ended(x)

\* The edit is planned; an archived thread is opened first for other parts.
Plan(x, th) ==
    IF Differing(x, th) = {} THEN AfterSync(x)
    ELSE IF Closed(act[x].task) /\ th.cached THEN At(x, <<"lift", "edit">>)
    ELSE [act EXCEPT ![x].at = <<"do", "edit">>, ![x].edit = Differing(x, th)]

Apply(x, ps) ==
    [thread EXCEPT !.tags = IF "tags" \in ps THEN Tags(act[x].task) ELSE @,
                   !.arch = IF "arch" \in ps THEN Closed(act[x].task) ELSE @,
                   !.cached = IF "arch" \in ps THEN Closed(act[x].task) ELSE @]

\* sync_workspace begins: without the thread it gives up.
Sync(x, th) == IF th.here THEN Entered(x, th, "card") ELSE AfterSync(x)

\* The card is edited: Discord refuses that on a thread it holds archived,
\* which is then opened, or for another reason, which is only logged.
DrawCard(x) ==
    /\ act[x].at = <<"do", "card">>
    /\ \/ /\ thread.here /\ ~thread.arch /\ Same
          /\ thread' = [thread EXCEPT !.card = Card(act[x].task)]
          /\ excuse' = Written(x, {"card"} \cup Matching(x, thread))
          /\ act' = Plan(x, thread)
       \/ /\ thread.here /\ thread.arch /\ Same
          /\ thread' = Opened(thread)
          /\ excuse' = IF act[x].moved THEN Spared({"arch"}) ELSE excuse
          /\ UNCHANGED act
       \/ /\ Refused
          /\ excuse' = [Written(x, Matching(x, thread)) EXCEPT !["card"] = TRUE]
          /\ act' = Plan(x, thread)
          /\ UNCHANGED thread
    /\ UNCHANGED <<row, queue, job>>

\* The archived flag joins the edit when the thread was opened for it.
Keywords(x) == IF act[x].edit = {} THEN Differing(x, thread) ELSE act[x].edit

\* Discord refuses other edits of a thread it holds archived.
TooClosed(x) == thread.arch /\ ~("arch" \in Keywords(x) /\ ~Closed(act[x].task))

EditThread(x) ==
    /\ act[x].at = <<"do", "edit">>
    /\ \/ /\ thread.here /\ ~TooClosed(x) /\ Same
          /\ thread' = Apply(x, Keywords(x))
          /\ excuse' = Written(x, Keywords(x))
          /\ act' = AfterSync(x)
       \/ /\ thread.here /\ TooClosed(x) /\ Keywords(x) = {"arch"} /\ Same
          /\ thread' = [thread EXCEPT !.cached = TRUE]
          /\ excuse' = Written(x, {"arch"})
          /\ act' = AfterSync(x)
       \/ /\ thread.here /\ TooClosed(x) /\ Keywords(x) # {"arch"} /\ Same
          /\ thread' = Opened(thread)
          /\ excuse' = IF act[x].moved THEN Spared({"arch"}) ELSE excuse
          /\ act' = [act EXCEPT ![x].edit = Keywords(x)
                                   \cup IF Closed(act[x].task) THEN {"arch"} ELSE {}]
       \/ /\ Refused
          /\ excuse' = Spared(Keywords(x) \cup {"arch"})
          /\ act' = AfterSync(x)
          /\ UNCHANGED thread
    /\ UNCHANGED <<row, queue, job>>

-----------------------------------------------------------------------------
(* Requests: one call of TaskService, then the answer to the click and the *)
(* sync with the task the call returned.                                   *)

Unreminded == {e \in queue : e.kind # "due"}

\* Everybody who has read the task holds an old one from now on.
Overtaken(x, t, a) ==
    [y \in All |-> IF y = x THEN [Idle(t) EXCEPT !.at = a.at, !.op = a.op, !.was = thread.cached]
                            ELSE [act[y] EXCEPT !.moved = @ \/ act[y].at # Rest]]

Ask(x, op) ==
    /\ <<x, op>> \in Ops
    /\ act[x].at = Rest /\ row.live
    /\ count.changes < MaxChanges
    /\ count' = [count EXCEPT !.changes = @ + 1]

Event(x, k, t, o) ==
    [None EXCEPT !.id = count'.changes, !.kind = k, !.by = x, !.task = t, !.old = o]

\* update_status: completing cancels the reminders.
ChangeStatus(x) ==
    LET t == [row.task EXCEPT !.done = ~@] IN
    /\ Ask(x, "status")
    /\ row' = [row EXCEPT !.task = t]
    /\ queue' = (IF t.done THEN Unreminded ELSE queue) \cup {Event(x, "status", t, Nobody)}
    /\ act' = Overtaken(x, t, [at |-> Enter(thread, "refresh"), op |-> "status"])
    /\ UNCHANGED <<thread, job, excuse>>

\* update_assignee; the pending reminders keep the assignee they have.
ChangeAssignee(x) ==
    /\ Ask(x, "assign")
    /\ \E u \in Users \cup {Nobody} :
           LET t == [row.task EXCEPT !.who = u] IN
           /\ u # row.task.who
           /\ row' = [row EXCEPT !.task = t]
           /\ queue' = queue \cup {Event(x, "assign", t, row.task.who)}
           /\ act' = Overtaken(x, t, [at |-> Enter(thread, "refresh"), op |-> "assign"])
    /\ UNCHANGED <<thread, job, excuse>>

\* add_note changes nothing the thread shows.
AddNote(x) ==
    /\ Ask(x, "note")
    /\ queue' = queue \cup {Event(x, "note", row.task, Nobody)}
    /\ UNCHANGED <<row, thread, act, job, excuse>>

\* /task archive and unarchive: no event is enqueued, only the handler syncs.
Shelve(x) ==
    LET t == [row.task EXCEPT !.shelved = ~@] IN
    /\ Ask(x, "shelve")
    /\ row' = [row EXCEPT !.task = t]
    /\ queue' = IF t.shelved THEN Unreminded ELSE queue
    /\ act' = IF thread.here
              THEN Overtaken(x, t, [at |-> Enter(thread, "card"), op |-> "shelve"])
              ELSE [Overtaken(x, t, [at |-> Rest, op |-> "none"]) EXCEPT ![x] = Idle(None.task)]
    /\ UNCHANGED <<thread, job, excuse>>

\* delete_task leaves the events that wait, the reminders excepted.
DeleteTask(x) ==
    /\ Ask(x, "delete")
    /\ row' = [row EXCEPT !.live = FALSE]
    /\ queue' = Unreminded
    /\ act' = Overtaken(x, row.task, [at |-> <<"do", "delete">>, op |-> "delete"])
    /\ UNCHANGED <<thread, job, excuse>>

\* delete_workspace: a thread that cannot be deleted is renamed and closed.
DeleteThread(x) ==
    /\ act[x].at = <<"do", "delete">>
    /\ \/ thread' = [thread EXCEPT !.here = FALSE] /\ act' = Ended(x) /\ Same
       \/ Fault /\ act' = At(x, <<"do", "close">>) /\ UNCHANGED thread
    /\ UNCHANGED <<row, queue, job, excuse>>

CloseThread(x) ==
    /\ act[x].at = <<"do", "close">>
    /\ \/ thread' = [Shut(thread) EXCEPT !.shut = TRUE] /\ Same
       \/ UNCHANGED thread /\ Same
    /\ act' = Ended(x)
    /\ UNCHANGED <<row, queue, job, excuse>>

\* refresh_action_card answers the click; an error ends the handler, after the
\* thread of a completed task is archived again.
Refresh(x) ==
    /\ act[x].at = <<"do", "refresh">>
    /\ LET again == act[x].was /\ Closed(act[x].task) /\ ~thread.cached
       IN  \/ /\ thread.here /\ ~thread.arch /\ Same
              /\ thread' = [thread EXCEPT !.card = Card(act[x].task)]
              /\ excuse' = Written(x, {"card"})
              /\ act' = IF again THEN At(x, <<"shut", "refresh">>) ELSE Sync(x, thread)
           \/ /\ thread.here => thread.arch \/ count.faults < MaxFaults
              /\ IF thread.here /\ ~thread.arch THEN Fault ELSE Same
              /\ act' = IF again THEN At(x, <<"shut", "error">>) ELSE Ended(x)
              /\ UNCHANGED <<thread, excuse>>
    /\ UNCHANGED <<row, queue, job>>

RefreshShut(x) ==
    \E s \in {"refresh", "error"} :
        /\ act[x].at = <<"shut", s>>
        /\ \/ /\ thread.here /\ Same
              /\ thread' = Shut(thread)
              /\ excuse' = Written(x, {"arch"})
           \/ Refused /\ excuse' = Spared({"arch"}) /\ UNCHANGED thread
        /\ act' = IF s = "error" THEN Ended(x) ELSE Sync(x, thread')
        /\ UNCHANGED <<row, queue, job>>

-----------------------------------------------------------------------------
(* The worker dispatches one event at a time.                              *)

\* _reconstruct_task: the payload does not say whether the task was archived.
Reconstruct(e) == [e.task EXCEPT !.shelved = FALSE]

\* Mutant: the payload is always taken.
ResolvePayload(e) == Reconstruct(e)

\* _resolve_task reads the task again, for one that is deleted it takes the
\* payload.
Resolve(e) == IF row.live THEN row.task ELSE Reconstruct(e)

Free == [event |-> None, todo |-> {}]

\* A new task is only told of, a reminder brings the tags and the card up to
\* date, the others post their activity first.
First(e) ==
    CASE e.kind = "created" \/ ~thread.here -> <<"do", "tell">>
      [] e.kind = "due"                     -> Enter(thread, "card")
      [] OTHER                              -> Enter(thread, "post")

Take(e) ==
    /\ act[Worker].at = Rest
    /\ queue' = queue \ {e}
    /\ job' = [event |-> e, todo |-> Letters(e)]
    /\ act' = [act EXCEPT ![Worker] = [Idle(Resolve(e)) EXCEPT !.op = e.kind, !.was = thread.cached,
                                                             !.at = First(e)]]
    /\ UNCHANGED <<row, thread, excuse, count>>

\* After the activity: a note leaves the card alone.
AfterPost(th) ==
    IF act[Worker].op = "note" THEN At(Worker, <<"do", "tell">>) ELSE Sync(Worker, th)

\* Only a note archives the thread again.
Rearchives ==
    act[Worker].op = "note" /\ (Closed(act[Worker].task) \/ act[Worker].was) /\ ~thread.cached

\* A refused message is an error of the whole event; a message opens a thread
\* that is archived, which the bot learns later.
Post ==
    /\ act[Worker].at = <<"do", "post">>
    /\ \/ /\ thread.here /\ Same
          /\ thread' = [thread EXCEPT !.arch = FALSE]
          /\ excuse' = IF thread.arch THEN Spared({"arch"}) ELSE excuse
          /\ job' = [job EXCEPT !.event.said = @ + 1]
          /\ act' = IF Rearchives THEN At(Worker, <<"shut", "post">>) ELSE AfterPost(thread)
       \/ /\ ~thread.here /\ Same
          /\ act' = AfterPost(thread)
          /\ UNCHANGED <<thread, excuse, job>>
       \/ /\ Fault
          /\ act' = At(Worker, IF Rearchives /\ act[Worker].was THEN <<"shut", "failed">>
                                                                ELSE <<"do", "failed">>)
          /\ UNCHANGED <<thread, excuse, job>>
    /\ UNCHANGED <<row, queue>>

PostShut ==
    \E s \in {"post", "failed"} :
        /\ act[Worker].at = <<"shut", s>>
        /\ \/ /\ thread.here /\ Same
              /\ thread' = Shut(thread)
              /\ excuse' = IF Closed(act[Worker].task) THEN Written(Worker, {"arch"})
                                                       ELSE Spared({"arch"})
           \/ Refused /\ excuse' = Spared({"arch"}) /\ UNCHANGED thread
        /\ act' = IF s = "failed" THEN At(Worker, <<"do", "failed">>) ELSE AfterPost(thread')
        /\ UNCHANGED <<row, queue, job>>

\* reschedule_or_fail: the event waits again, or is given up.
Fail ==
    /\ act[Worker].at = <<"do", "failed">>
    /\ LET e == [job.event EXCEPT !.tries = @ + 1]
       IN  IF e.tries < MaxTries THEN queue' = queue \cup {e} /\ UNCHANGED excuse
                                 ELSE excuse' = Spared(Parts) /\ UNCHANGED queue
    /\ act' = Ended(Worker) /\ job' = Free
    /\ UNCHANGED <<row, thread, count>>

\* _notify_user: by direct message, in the thread, or not at all; what Discord
\* refuses is only logged.  A message in the thread opens one that is archived.
MayReach(u, dm) == dm => Pref[u] \in {"dm", "both"}
InThread(u, dm) == Pref[u] \in {"channel", "both"} \/ (Pref[u] = "dm" /\ ~dm)

Tell ==
    /\ act[Worker].at = <<"do", "tell">>
    /\ \E l \in job.todo, dm \in BOOLEAN :
           /\ MayReach(l[1], dm)
           /\ job' = [job EXCEPT !.todo = @ \ {l},
                                 !.event.told[l[1]] = IF Pref[l[1]] = "none" THEN @ ELSE @ + 1]
           /\ IF InThread(l[1], dm) /\ thread.here /\ thread.arch
              THEN thread' = [thread EXCEPT !.arch = FALSE] /\ excuse' = Spared({"arch"})
              ELSE UNCHANGED <<thread, excuse>>
    /\ UNCHANGED <<row, queue, act, count>>

Finished == act[Worker].at = <<"do", "tell">> /\ job.todo = {}

Finish ==
    /\ Finished
    /\ act' = Ended(Worker) /\ job' = Free
    /\ UNCHANGED <<row, thread, queue, excuse, count>>

-----------------------------------------------------------------------------
(* Discord and the process.                                                *)

\* Discord archives a thread nobody writes in.
AutoArchive ==
    /\ thread.here /\ ~thread.arch /\ ~thread.shut /\ Fault
    /\ thread' = [thread EXCEPT !.arch = TRUE]
    /\ excuse' = Spared({"arch"})
    /\ UNCHANGED <<row, queue, act, job>>

\* The gateway tells the bot of the flag.
GatewayUpdate ==
    /\ thread.here /\ thread.cached # thread.arch
    /\ thread' = [thread EXCEPT !.cached = thread.arch]
    /\ UNCHANGED <<row, queue, act, job, excuse, count>>

\* The process ends: the handlers are lost, the event is dispatched again.
Crash ==
    /\ Fault
    /\ \E x \in All : act[x].at # Rest
    /\ queue' = queue \cup ({[job.event EXCEPT !.again = TRUE]} \ {[None EXCEPT !.again = TRUE]})
    /\ job' = Free
    /\ act' = [x \in All |-> Idle(None.task)]
    /\ excuse' = IF act[Worker].op = "note" \/ \E x \in Actors : act[x].at # Rest
                 THEN Spared(Parts) ELSE excuse
    /\ thread' = [thread EXCEPT !.cached = thread.arch]
    /\ UNCHANGED row

Request(x) ==
    \/ ChangeStatus(x) \/ ChangeAssignee(x) \/ AddNote(x) \/ Shelve(x) \/ DeleteTask(x)

Step(x) == Lift(x) \/ DrawCard(x) \/ EditThread(x)
Handle(x) == Refresh(x) \/ RefreshShut(x) \/ DeleteThread(x) \/ CloseThread(x)
Dispatch == Post \/ PostShut \/ Fail \/ Tell \/ Finish

Next ==
    \/ \E x \in Actors : Request(x) \/ Handle(x)
    \/ \E x \in All : Step(x)
    \/ \E e \in queue : Take(e)
    \/ Dispatch \/ AutoArchive \/ GatewayUpdate \/ Crash

Spec == Init /\ [][Next]_vars

-----------------------------------------------------------------------------
Shows(p) == CASE p = "card" -> thread.card = Card(row.task)
              [] p = "tags" -> thread.tags = Tags(row.task)
              [] p = "arch" -> thread.arch = Closed(row.task)

Settled == queue = {} /\ \A x \in All : act[x].at = Rest

\* Once no handler runs and no event waits, the card, the tags and the archived
\* flag show the task as the database has it, whatever order the handlers and
\* the worker wrote in, and whichever refresh was refused or lost on the way.
\* The exceptions: the part was last written from a task that somebody changed
\* between the reading and the writing, Discord refused that last write, the
\* process ended within a handler, an event was given up, or Discord itself
\* archived or opened the thread.
SettledShowsTask ==
    Settled /\ row.live /\ thread.here => \A p \in Parts : excuse[p] \/ Shows(p)

\* When an event is done, every user it concerns, who watches the task or holds
\* or held it, has been told of it exactly once, the user who caused it and
\* those who want no notification not at all, and its activity was posted at
\* most once: an event that is retried had told nobody.  A crash while it was
\* dispatched excepted.
EachToldOnce ==
    Finished /\ ~job.event.again =>
        /\ \A u \in Users : job.event.told[u] =
               IF u \in Concerned(job.event) /\ Pref[u] # "none" THEN 1 ELSE 0
        /\ job.event.said <= 1

=============================================================================
