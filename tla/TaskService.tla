----------------------------- MODULE TaskService -----------------------------
(***************************************************************************)
(* The transactions of TaskService on existing tasks of one project, with  *)
(* ProjectService's archive and unarchive: what each handler reads, in     *)
(* which statement, and what it writes, under READ COMMITTED.  A statement *)
(* sees what others have committed, an UPDATE waits for the row's writer   *)
(* and then sees the new row, and writes become visible at the commit.     *)
(***************************************************************************)
EXTENDS Integers, Sequences, FiniteSets

CONSTANTS
    Tasks,       \* the tasks of the project
    Clients,     \* coroutines that call the services
    Ops,         \* the operations the clients call; "link" for add_ and remove_dependency
    Dues,        \* due dates, as numbers from 1 on; 0 is "no due date"
    Depends,     \* pairs <<task, prerequisite>> that add_dependency left, or adds again
    MaxVersion   \* bound: version of a task row

Statuses == {"NOT_STARTED", "IN_PROGRESS", "COMPLETED"}
AllOps == {"status", "field", "details", "archive", "unarchive", "delete",
           "archive_project", "unarchive_project"}

ASSUME OpsAssumption == Ops \subseteq AllOps \cup {"link"}
ASSUME DuesAssumption == Dues \subseteq Nat \ {0}
ASSUME DependsAssumption == Depends \subseteq {p \in Tasks \X Tasks : p[1] # p[2]}
ASSUME VersionAssumption == MaxVersion \in Nat \ {0}

VARIABLES
    row,       \* the tasks table, as committed
    history,   \* task_history: <<old_status, new_status>> of each STATUS_CHANGE
    reminder,  \* due date of the task's PENDING reminder rows, 0 if none
    events,    \* idempotency keys in the outbox: <<event, task, version, by>>
    deps,      \* task_dependencies
    pc,        \* per client: the next statement
    call,      \* per client: op, on, expected_version and current_task
    write,     \* task rows written and not yet committed
    remind,    \* reminder rows written and not yet committed
    enqueued,  \* events enqueued and not yet committed
    entry,     \* history entries added and not yet committed
    raced,     \* history: tasks on which update_details or delete_task overlapped
               \* with another operation, or that were archived with the project
    moved,     \* history: per client, tasks of which it has read in update_status what
               \* another transaction has changed since
    todo,      \* dependents to evaluate, or rows the UPDATE has still to reach
    eval       \* the dependent in evaluation and its prerequisites to check

table  == <<row, history, reminder, events, deps, raced, moved>>
buffer == <<write, remind, enqueued, entry>>
vars   == <<table, pc, call, buffer, todo, eval>>

Row == [live : BOOLEAN, version : Nat, status : Statuses, archived : BOOLEAN,
        due : Dues \cup {0}]
Event == {"task_status", "task_field", "task_details", "task_unblocked"}
             \X Tasks \X Nat \X Tasks
NoCall == [op |-> "none"]
Call == [op : AllOps, on : Tasks, expected : Nat, old : Row]
NoEval == [of |-> {}, prereqs |-> {}]
Nothing == [x \in {} |-> 0]

Active(r) == r.live /\ ~r.archived /\ r.status # "COMPLETED"
Prereqs(t) == {p \in Tasks : <<t, p>> \in deps}
Dependents(t) == {d \in Tasks : <<d, t>> \in deps}
Put(f, t, v) == [x \in DOMAIN f \cup {t} |-> IF x = t THEN v ELSE f[x]]

\* Rows that another transaction has written are locked until it ends.
Locked(c, t) == \E d \in Clients \ {c} : t \in DOMAIN write[d]
ReminderLocked(c, t) == \E d \in Clients \ {c} : t \in DOMAIN remind[d]

\* As create_task leaves them: version 1, not started, reminders scheduled.
Init ==
    /\ row \in [Tasks -> [live : {TRUE}, version : {1}, status : {"NOT_STARTED"},
                          archived : {FALSE}, due : Dues \cup {0}]]
    /\ history = [t \in Tasks |-> << >>]
    /\ reminder = [t \in Tasks |-> row[t].due]
    /\ events = {}
    /\ deps = Depends
    /\ raced = {}
    /\ moved = [c \in Clients |-> {}]
    /\ pc = [c \in Clients |-> "idle"]
    /\ call = [c \in Clients |-> NoCall]
    /\ write = [c \in Clients |-> Nothing]
    /\ remind = [c \in Clients |-> Nothing]
    /\ enqueued = [c \in Clients |-> {}]
    /\ entry = [c \in Clients |-> << >>]
    /\ todo = [c \in Clients |-> {}]
    /\ eval = [c \in Clients |-> NoEval]

-----------------------------------------------------------------------------
(* The unit of work.                                                       *)

Goto(c, p) == pc' = [pc EXCEPT ![c] = p]

End(c) ==
    /\ Goto(c, "idle")
    /\ call' = [call EXCEPT ![c] = NoCall]
    /\ write' = [write EXCEPT ![c] = Nothing]
    /\ remind' = [remind EXCEPT ![c] = Nothing]
    /\ enqueued' = [enqueued EXCEPT ![c] = {}]
    /\ entry' = [entry EXCEPT ![c] = << >>]
    /\ todo' = [todo EXCEPT ![c] = {}]
    /\ eval' = [eval EXCEPT ![c] = NoEval]

\* An exception, a lost connection or a deadlock victim: everything is undone.
Abort(c) ==
    /\ pc[c] # "idle" /\ End(c)
    /\ moved' = [moved EXCEPT ![c] = {}]
    /\ UNCHANGED <<row, history, reminder, events, deps, raced>>

\* Another client is at work on the same task, and one of the two is an operation that
\* decides about the reminders by what it read before.
Overlapped(c, t) ==
    \E d \in Clients \ {c} :
       /\ call[d] # NoCall /\ call[d].on = t
       /\ {call[c].op, call[d].op} \cap {"details", "delete"} # {}

\* archive_project and unarchive_project leave the reminders of the tasks alone.
Archiving(c) == call[c].op \in {"archive_project", "unarchive_project"}

\* What update_status of d has read of the dependent t is no longer so: its row, or, once
\* the prerequisites are read, which they are and whether those looked up are COMPLETED.
Waiting(t) == row[t].live /\ ~row[t].archived /\ row[t].status = "NOT_STARTED"

Evaluating == {"evaluate", "prereqs", "check", "commit"}

Overtaken(d, t) ==
    /\ call[d].op = "status" /\ pc[d] \in Evaluating /\ t \notin todo[d]
    /\ \/ Waiting(t)' # Waiting(t)
       \/ /\ ~(pc[d] = "prereqs" /\ t \in eval[d].of)
          /\ \/ Prereqs(t)' # Prereqs(t)
             \/ \E p \in Prereqs(t) \ (IF t \in eval[d].of THEN eval[d].prereqs ELSE {}) :
                   (row'[p].status = "COMPLETED") # (row[p].status = "COMPLETED")

Move(c) ==
    moved' = [d \in Clients |->
        IF d = c THEN {} ELSE moved[d] \cup {t \in Tasks : Overtaken(d, t)}]

\* Deleting a task deletes its history and its dependencies.
Commit(c) ==
    /\ pc[c] = "commit"
    /\ row' = [t \in Tasks |-> IF t \in DOMAIN write[c] THEN write[c][t] ELSE row[t]]
    /\ history' = [t \in Tasks |->
          IF t \notin DOMAIN write[c] THEN history[t]
          ELSE IF write[c][t].live THEN history[t] \o entry[c] ELSE << >>]
    /\ reminder' = [t \in Tasks |->
          IF t \in DOMAIN remind[c] THEN remind[c][t] ELSE reminder[t]]
    /\ events' = events \cup enqueued[c]
    /\ deps' = {p \in deps : row'[p[1]].live /\ row'[p[2]].live}
    /\ raced' = raced \cup {t \in DOMAIN write[c] \cup DOMAIN remind[c] :
                                Archiving(c) \/ Overlapped(c, t)}
    /\ End(c) /\ Move(c)

\* The first SELECT of the operations that read the task before they write it.
Read(c, o, t) ==
    /\ pc[c] = "idle" /\ o \in Ops \cap {"status", "field", "details", "delete"}
    /\ row[t].live
    /\ \E v \in IF o = "status" THEN 1..row[t].version ELSE {0} :
          call' = [call EXCEPT ![c] = [op |-> o, on |-> t, expected |-> v, old |-> row[t]]]
    /\ Goto(c, IF o = "delete" THEN "cancel" ELSE "update")
    /\ UNCHANGED <<table, buffer, todo, eval>>

\* The UPDATE waits for the row's writer, then writes r, or finds no row and raises.
WriteRow(c, t, r) == write' = [write EXCEPT ![c] = Put(@, t, r)]

\* Mutant: an update keeps the version.
NotBumped(r) == r

Bumped(r) == [r EXCEPT !.version = @ + 1]

-----------------------------------------------------------------------------
(* update_status: compare and swap on the version, then the dependents.    *)

\* Mutant: the WHERE clause does not compare the version.
CasOnIdOnly(c, r) == r.live

CasHolds(c, r) == r.live /\ r.version = call[c].expected

UpdateStatus(c) ==
    /\ pc[c] = "update" /\ call[c].op = "status"
    /\ LET t == call[c].on  r == row[t] IN
       /\ ~Locked(c, t) /\ CasHolds(c, r) /\ r.version < MaxVersion
       /\ \E s \in Statuses :
             /\ WriteRow(c, t, [Bumped(r) EXCEPT !.status = s])
             /\ entry' = [entry EXCEPT ![c] = << <<call[c].old.status, s>> >>]
             /\ Goto(c, IF s = "COMPLETED" THEN "cancel" ELSE "commit")
       /\ enqueued' = [enqueued EXCEPT ![c] = {<<"task_status", t, r.version + 1, t>>}]
    /\ UNCHANGED <<table, call, remind, todo, eval>>

\* StaleVersionError, or the ValidationError of an update that matched no row.
Refused(c) ==
    /\ pc[c] = "update"
    /\ LET t == call[c].on IN
       ~Locked(c, t) /\ IF call[c].op = "status" THEN ~CasHolds(c, row[t]) ELSE ~row[t].live
    /\ End(c) /\ UNCHANGED table

\* cancel_task_reminders: the rows that are PENDING for this statement.
CancelReminders(c) ==
    /\ pc[c] = "cancel"
    /\ LET t == call[c].on
           new == IF t \in DOMAIN write[c] THEN write[c][t] ELSE row[t]
       IN /\ ~ReminderLocked(c, t)
          /\ remind' = IF reminder[t] = 0 THEN remind
                       ELSE [remind EXCEPT ![c] = Put(@, t, 0)]
          /\ Goto(c, CASE call[c].op = "status" -> "dependents"
                       [] call[c].op = "delete" -> "delete"
                       [] call[c].op = "details" /\ new.due # 0 /\ Active(new) -> "schedule"
                       [] OTHER -> "commit")
    /\ UNCHANGED <<table, call, write, enqueued, entry, todo, eval>>

\* Only a transition into COMPLETED looks at the dependents.
ReadDependents(c) ==
    /\ pc[c] = "dependents"
    /\ todo' = [todo EXCEPT ![c] =
                   IF call[c].old.status = "COMPLETED" THEN {} ELSE Dependents(call[c].on)]
    /\ Goto(c, "evaluate")
    /\ UNCHANGED <<table, call, buffer, eval>>

\* Archived and started dependents are passed over.
ReadDependent(c) ==
    /\ pc[c] = "evaluate"
    /\ \/ /\ todo[c] = {} /\ Goto(c, "commit") /\ UNCHANGED <<todo, eval>>
       \/ \E d \in todo[c] :
             /\ todo' = [todo EXCEPT ![c] = @ \ {d}]
             /\ IF row[d].live /\ ~row[d].archived /\ row[d].status = "NOT_STARTED"
                THEN /\ eval' = [eval EXCEPT ![c] = [of |-> {d}, prereqs |-> {}]]
                     /\ Goto(c, "prereqs")
                ELSE UNCHANGED <<eval, pc>>
    /\ UNCHANGED <<table, call, buffer>>

\* Mutant: the task being completed is looked up again, as the others are.
ReadPrereqsWithSelf(c) ==
    /\ pc[c] = "prereqs"
    /\ \E d \in eval[c].of : eval' = [eval EXCEPT ![c].prereqs = Prereqs(d)]
    /\ Goto(c, "check")
    /\ UNCHANGED <<table, call, buffer, todo>>

ReadPrereqs(c) ==
    /\ pc[c] = "prereqs"
    /\ \E d \in eval[c].of :
          IF Prereqs(d) = {}
          THEN eval' = [eval EXCEPT ![c] = NoEval] /\ Goto(c, "evaluate")
          ELSE /\ eval' = [eval EXCEPT ![c].prereqs = Prereqs(d) \ {call[c].on}]
               /\ Goto(c, "check")
    /\ UNCHANGED <<table, call, buffer, todo>>

\* Mutant: an incomplete prerequisite does not end the loop.
CheckPrereqPassesOver(c) ==
    /\ pc[c] = "check"
    /\ \E p \in eval[c].prereqs : eval' = [eval EXCEPT ![c].prereqs = @ \ {p}]
    /\ UNCHANGED <<table, pc, call, buffer, todo>>

\* One SELECT per other prerequisite; the first that is not COMPLETED ends the loop.
CheckPrereq(c) ==
    /\ pc[c] = "check"
    /\ \E p \in eval[c].prereqs :
          IF row[p].live /\ row[p].status = "COMPLETED"
          THEN eval' = [eval EXCEPT ![c].prereqs = @ \ {p}] /\ UNCHANGED pc
          ELSE eval' = [eval EXCEPT ![c] = NoEval] /\ Goto(c, "evaluate")
    /\ UNCHANGED <<table, call, buffer, todo>>

Unblock(c) ==
    /\ pc[c] = "check" /\ eval[c].prereqs = {}
    /\ LET t == call[c].on IN
       enqueued' = [enqueued EXCEPT ![c] = @ \cup
                       {<<"task_unblocked", d, write[c][t].version, t>> : d \in eval[c].of}]
    /\ eval' = [eval EXCEPT ![c] = NoEval]
    /\ Goto(c, "evaluate")
    /\ UNCHANGED <<table, call, write, remind, entry, todo>>

-----------------------------------------------------------------------------
(* The other operations.                                                   *)

\* update_assignee and update_priority, when the value differs from the one read.
UpdateField(c) ==
    /\ pc[c] = "update" /\ call[c].op = "field"
    /\ LET t == call[c].on  r == row[t] IN
       /\ ~Locked(c, t) /\ r.live /\ r.version < MaxVersion
       /\ WriteRow(c, t, Bumped(r))
       /\ enqueued' = [enqueued EXCEPT ![c] = {<<"task_field", t, r.version + 1, t>>}]
    /\ Goto(c, "commit")
    /\ UNCHANGED <<table, call, remind, entry, todo, eval>>

\* Mutant: a new due date leaves the reminders as they are.
UpdateDetailsKeepsReminders(c) ==
    /\ pc[c] = "update" /\ call[c].op = "details"
    /\ LET t == call[c].on  r == row[t] IN
       /\ ~Locked(c, t) /\ r.live /\ r.version < MaxVersion
       /\ \E d \in Dues \cup {0} : WriteRow(c, t, [Bumped(r) EXCEPT !.due = d])
       /\ enqueued' = [enqueued EXCEPT ![c] = {<<"task_details", t, r.version + 1, t>>}]
    /\ Goto(c, "commit")
    /\ UNCHANGED <<table, call, remind, entry, todo, eval>>

\* update_details leaves, clears or sets due_at; "changed" compares with the row
\* of the first SELECT.  Title, body and watchers may change or not.
UpdateDetails(c) ==
    /\ pc[c] = "update" /\ call[c].op = "details"
    /\ LET t == call[c].on  r == row[t]  before == call[c].old IN
       /\ ~Locked(c, t) /\ r.live /\ r.version < MaxVersion
       /\ \E d \in Dues \cup {0}, given, other \in BOOLEAN :
             LET changed == given /\ d # before.due IN
             /\ ~given => d = r.due
             /\ WriteRow(c, t, [Bumped(r) EXCEPT !.due = d])
             /\ enqueued' = [enqueued EXCEPT ![c] =
                   IF changed \/ other THEN {<<"task_details", t, r.version + 1, t>>} ELSE {}]
             /\ Goto(c, IF changed \/ (given /\ d = 0) THEN "cancel" ELSE "commit")
    /\ UNCHANGED <<table, call, remind, entry, todo, eval>>

\* schedule_task_reminders enqueues the reminders again for the new due date.
ScheduleReminders(c) ==
    /\ pc[c] = "schedule"
    /\ LET t == call[c].on IN
       /\ ~ReminderLocked(c, t)
       /\ remind' = [remind EXCEPT ![c] = Put(@, t, write[c][t].due)]
    /\ Goto(c, "commit")
    /\ UNCHANGED <<table, call, write, enqueued, entry, todo, eval>>

\* Mutant: unarchiving does not schedule.
SetArchivedSchedulesNone(c, o, t) ==
    /\ pc[c] = "idle" /\ o \in Ops \cap {"archive", "unarchive"}
    /\ ~Locked(c, t) /\ row[t].live
    /\ WriteRow(c, t, [row[t] EXCEPT !.archived = (o = "archive")])
    /\ Goto(c, IF o = "archive" THEN "cancel" ELSE "commit")
    /\ call' = [call EXCEPT ![c] = [op |-> o, on |-> t, expected |-> 0, old |-> row[t]]]
    /\ UNCHANGED <<table, remind, enqueued, entry, todo, eval>>

\* archive_task and unarchive_task write first and do not touch the version.
SetArchived(c, o, t) ==
    /\ pc[c] = "idle" /\ o \in Ops \cap {"archive", "unarchive"}
    /\ ~Locked(c, t) /\ row[t].live
    /\ LET new == [row[t] EXCEPT !.archived = (o = "archive")] IN
       /\ WriteRow(c, t, new)
       /\ Goto(c, CASE o = "archive" -> "cancel"
                    [] o = "unarchive" /\ new.due # 0 /\ Active(new) -> "schedule"
                    [] OTHER -> "commit")
    /\ call' = [call EXCEPT ![c] = [op |-> o, on |-> t, expected |-> 0, old |-> row[t]]]
    /\ UNCHANGED <<table, remind, enqueued, entry, todo, eval>>

\* delete_task has cancelled the reminders by now; if the row is gone it returns
\* None, which commits.
Delete(c) ==
    /\ pc[c] = "delete"
    /\ LET t == call[c].on IN
       /\ ~Locked(c, t)
       /\ IF row[t].live THEN WriteRow(c, t, [row[t] EXCEPT !.live = FALSE])
          ELSE UNCHANGED write
    /\ Goto(c, "commit")
    /\ UNCHANGED <<table, call, remind, enqueued, entry, todo, eval>>

\* archive_project and unarchive_project lock the project's row, then one UPDATE
\* reaches its tasks one after the other.
ArchiveProject(c, o, t) ==
    /\ pc[c] = "idle" /\ o \in Ops \cap {"archive_project", "unarchive_project"}
    /\ t = CHOOSE x \in Tasks : TRUE
    /\ \A d \in Clients : ~Archiving(d)
    /\ call' = [call EXCEPT ![c] = [op |-> o, on |-> t, expected |-> 0, old |-> row[t]]]
    /\ todo' = [todo EXCEPT ![c] = {x \in Tasks : row[x].live}]
    /\ Goto(c, "rows")
    /\ UNCHANGED <<table, buffer, eval>>

ArchiveRow(c) ==
    /\ pc[c] = "rows"
    /\ \/ todo[c] = {} /\ Goto(c, "commit") /\ UNCHANGED <<todo, write>>
       \/ \E t \in todo[c] :
             /\ ~Locked(c, t)
             /\ todo' = [todo EXCEPT ![c] = @ \ {t}]
             /\ IF row[t].live
                THEN WriteRow(c, t, [row[t] EXCEPT !.archived = (call[c].op = "archive_project")])
                ELSE UNCHANGED write
             /\ UNCHANGED pc
    /\ UNCHANGED <<table, call, remind, enqueued, entry, eval>>

\* add_dependency and remove_dependency of other coroutines, whole (TaskGraph says what
\* happens inside).  The rows of a dependency must be there, and a DELETE locks them.
Link ==
    /\ "link" \in Ops
    /\ \E p \in Depends :
          /\ \A t \in {p[1], p[2]} : row[t].live
          /\ \A d \in Clients, t \in {p[1], p[2]} : t \in DOMAIN write[d] => write[d][t].live
          /\ deps' \in {deps \cup {p}, deps \ {p}}
    /\ UNCHANGED <<row, history, reminder, events, raced, pc, call, buffer, todo, eval>>
    /\ moved' = [d \in Clients |-> moved[d] \cup {t \in Tasks : Overtaken(d, t)}]

Begin(c, o, t) == Read(c, o, t) \/ SetArchived(c, o, t) \/ ArchiveProject(c, o, t)

Next ==
    \/ Link
    \/ \E c \in Clients :
       \/ \E o \in Ops, t \in Tasks : Begin(c, o, t)
       \/ UpdateStatus(c) \/ Refused(c) \/ CancelReminders(c)
       \/ ReadDependents(c) \/ ReadDependent(c) \/ ReadPrereqs(c)
       \/ CheckPrereq(c) \/ Unblock(c)
       \/ UpdateField(c) \/ UpdateDetails(c) \/ ScheduleReminders(c)
       \/ Delete(c) \/ ArchiveRow(c)
       \/ Commit(c) \/ Abort(c)

Spec == Init /\ [][Next]_vars

-----------------------------------------------------------------------------
(* Properties.                                                             *)

\* Type invariant of the tables and of the transactions under way.
TypeTable ==
    /\ row \in [Tasks -> Row]
    /\ history \in [Tasks -> Seq(Statuses \X Statuses)]
    /\ reminder \in [Tasks -> Dues \cup {0}]
    /\ events \subseteq Event
    /\ deps \subseteq Depends /\ raced \subseteq Tasks
    /\ moved \in [Clients -> SUBSET Tasks]

Steps == {"idle", "update", "cancel", "dependents", "evaluate", "prereqs", "check",
          "schedule", "delete", "rows", "commit"}

TypeTransactions ==
    /\ pc \in [Clients -> Steps]
    /\ call \in [Clients -> Call \cup {NoCall}]
    /\ \A c \in Clients :
          /\ DOMAIN write[c] \subseteq Tasks /\ DOMAIN remind[c] \subseteq Tasks
          /\ \A t \in DOMAIN write[c] : write[c][t] \in Row
          /\ \A t \in DOMAIN remind[c] : remind[c][t] \in Dues \cup {0}
          /\ enqueued[c] \subseteq Event /\ entry[c] \in Seq(Statuses \X Statuses)
          /\ todo[c] \subseteq Tasks
          /\ eval[c].of \subseteq Tasks /\ eval[c].prereqs \subseteq Tasks

TypeOK == TypeTable /\ TypeTransactions

\* The STATUS_CHANGE entries of a task replay to the status it has: old_status is
\* read before the compare-and-swap, and must still be the status it replaces.
Replays(h, s) ==
    /\ \A i \in 1..(Len(h) - 1) : h[i][2] = h[i+1][1]
    /\ IF h = << >> THEN s = "NOT_STARTED"
       ELSE h[1][1] = "NOT_STARTED" /\ h[Len(h)][2] = s

HistoryReplays == \A t \in Tasks : row[t].live => Replays(history[t], row[t].status)

\* No transaction enqueues an event under a key that is in the outbox or in another
\* transaction: the upsert would replace an event that may not have been sent.
EventKeysFresh ==
    \A c \in Clients :
       /\ enqueued[c] \cap events = {}
       /\ \A d \in Clients \ {c} : enqueued[c] \cap enqueued[d] = {}

\* A reminder is pending only for a task that is there, active, and due when the
\* reminder says: what cancel and reschedule are for.  Two updates of a task may
\* overlap; only an overlap with update_details, which compares with the due date it
\* read first, or with delete_task, which cancels before it locks, leaves a reminder
\* that does not fit, and archiving the whole project does.
Fits(t) == reminder[t] # 0 => Active(row[t]) /\ row[t].due = reminder[t]

RemindersFitTask == \A t \in Tasks \ raced : Fits(t)

\* An active task with a due date has its reminders, unless it was COMPLETED before:
\* update_status cancels them and does not schedule them again.
Reopened(t) == \E i \in 1..Len(history[t]) :
                  history[t][i][1] = "COMPLETED" /\ history[t][i][2] # "COMPLETED"

ReminderLostOnlyByReopening ==
    \A t \in Tasks \ raced : Active(row[t]) /\ ~Reopened(t) => reminder[t] = row[t].due

\* A task that is open before and after, and whose last incomplete prerequisite is
\* completed, is announced as unblocked in the same step: what was read one SELECT after
\* the other adds up to what is there at the commit.  The exception is stated: a task of
\* which another transaction has changed, in the meantime, what this one had already read.
Incomplete(t) == {p \in Prereqs(t) : row[p].status # "COMPLETED"}
Stale(t) == \E c \in Clients : pc[c] = "commit" /\ pc'[c] = "idle" /\ t \in moved[c]

Unblocks(t) == /\ Waiting(t) /\ Waiting(t)' /\ deps' = deps
               /\ Incomplete(t) # {} /\ Incomplete(t)' = {}

Told(t) == \E e \in events' \ events : e[1] = "task_unblocked" /\ e[2] = t

UnblockIsAnnounced == [][\A t \in Tasks : Unblocks(t) => Told(t) \/ Stale(t)]_vars

\* The same without the exception, as docs/SPEC.md has it; the code does not keep it.
EveryUnblockIsAnnounced == [][\A t \in Tasks : Unblocks(t) => Told(t)]_vars

\* A task is announced as unblocked only when nothing blocks it at the commit, with the
\* same exception.
AnnouncedIsUnblocked ==
    [][\A e \in events' \ events :
          e[1] = "task_unblocked" =>
             Stale(e[2]) \/ (Waiting(e[2])' /\ Incomplete(e[2])' = {})]_vars
=============================================================================
