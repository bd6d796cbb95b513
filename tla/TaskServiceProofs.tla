-------------------------- MODULE TaskServiceProofs --------------------------
(***************************************************************************)
(* Theorems about TaskService, for any tasks, clients, operations and due  *)
(* dates.  Each transaction is described by what it has written so far,    *)
(* against the committed rows: a row that it wrote is locked, so nobody    *)
(* else changes what it started from.  Operations that decide by what they *)
(* read before they lock are covered by "raced", and what update_status    *)
(* reads of dependents, which it never locks, by "moved".                  *)
(***************************************************************************)
EXTENDS TaskService, SequenceTheorems, TLAPS

Entries == Statuses \X Statuses

\* The variables of the transactions, by client.
Shape ==
    /\ pc \in [Clients -> Steps] /\ call \in [Clients -> Call \cup {NoCall}]
    /\ write = [c \in Clients |-> write[c]] /\ remind = [c \in Clients |-> remind[c]]
    /\ enqueued \in [Clients -> SUBSET Event] /\ entry \in [Clients -> Seq(Entries)]
    /\ todo \in [Clients -> SUBSET Tasks]
    /\ eval \in [Clients -> [of : SUBSET Tasks, prereqs : SUBSET Tasks]]

\* The statements of each operation.
Paths(o) ==
    CASE o = "status"    -> {"update", "cancel", "dependents", "evaluate", "prereqs", "check", "commit"}
      [] o = "field"     -> {"update", "commit"}
      [] o = "details"   -> {"update", "cancel", "schedule", "commit"}
      [] o = "archive"   -> {"cancel", "commit"}
      [] o = "unarchive" -> {"schedule", "commit"}
      [] o = "delete"    -> {"cancel", "delete", "commit"}
      [] o = "none"      -> {"idle"}
      [] OTHER           -> {"rows", "commit"}

Versioned == {"status", "field", "details"}

\* Where a transaction is says what it has written: of its task, or of all tasks.
Progress(c) ==
    LET o == call[c].op  t == call[c].on IN
    /\ pc[c] \in Paths(o)
    /\ DOMAIN write[c] \subseteq IF o = "none" THEN {} ELSE IF Archiving(c) THEN Tasks ELSE {t}
    /\ DOMAIN remind[c] \subseteq IF pc[c] \in {"idle", "update", "cancel"} \/ Archiving(c) THEN {} ELSE {t}
    /\ o \in Versioned => (t \in DOMAIN write[c] <=> pc[c] # "update")
    /\ o \in {"archive", "unarchive"} => t \in DOMAIN write[c]
    /\ o = "delete" /\ pc[c] # "commit" => DOMAIN write[c] = {}
    /\ o = "delete" /\ pc[c] = "commit" /\ t \notin DOMAIN write[c] => ~row[t].live

\* How the row x will differ from the one there is.
Rewrites(c, x) ==
    LET o == call[c].op  r == row[x]  w == write[c][x] IN
    /\ w \in Row /\ r.live /\ (w.live <=> o # "delete")
    /\ w.version = IF o \in Versioned THEN r.version + 1 ELSE r.version
    /\ o # "status" => w.status = r.status
    /\ o \in {"status", "field", "details", "delete"} => w.archived = r.archived
    /\ o = "archive" => w.archived
    /\ o = "unarchive" => ~w.archived
    /\ o # "details" => w.due = r.due

\* The history entry replaces the status there is.
Records(c) ==
    entry[c] = IF call[c].op = "status" /\ pc[c] # "update"
               THEN << <<row[call[c].on].status, write[c][call[c].on].status>> >> ELSE << >>

\* Events carry the version that is being written.
Announces(c) ==
    \A e \in enqueued[c] :
        call[c].op \in Versioned /\ e[4] \in DOMAIN write[c] /\ e[3] = write[c][e[4]].version

\* The row that was read is the one there is, or an older one.
Saw(c) ==
    LET old == call[c].old  r == row[call[c].on] IN
    call[c] # NoCall =>
        /\ old.version <= r.version
        /\ old.version = r.version => old.status = r.status
        /\ call[c].op = "status" => call[c].expected <= old.version

\* The reminder the task will have when the transaction commits.
Will(c, t) == IF t \in DOMAIN remind[c] THEN remind[c][t] ELSE reminder[t]

Reopens(c, t) == call[c].op = "status" /\ row[t].status = "COMPLETED"

\* What a transaction is about to make of the reminder suits the row it is about to
\* write.  A task that nobody overlapped on is still as update_details and delete_task
\* read it.
Reminds(c) ==
    LET o == call[c].op  t == call[c].on  w == write[c][t] IN
    /\ \A x \in DOMAIN remind[c] :
          /\ remind[c][x] \in Dues \cup {0}
          /\ o # "delete" => x \in DOMAIN write[c]
          /\ remind[c][x] # 0 => o \in {"details", "unarchive"}
    /\ o = "status" /\ pc[c] \notin {"update", "commit"} => w.status = "COMPLETED"
    /\ pc[c] = "schedule" => w.due # 0 /\ Active(w)
    /\ o # "none" /\ ~Archiving(c) /\ t \notin raced =>
          /\ o \in {"details", "delete"} => row[t] = call[c].old
          /\ pc[c] \in {"dependents", "evaluate", "prereqs", "check", "delete"} => Will(c, t) = 0
          /\ o = "delete" /\ pc[c] = "commit" => Will(c, t) = 0
          /\ pc[c] = "commit" /\ t \in DOMAIN write[c] =>
                /\ Will(c, t) # 0 => Active(w) /\ w.due = Will(c, t)
                /\ Active(w) /\ ~Reopened(t) /\ ~Reopens(c, t) => Will(c, t) = w.due

Transaction(c) ==
    /\ Progress(c) /\ \A x \in DOMAIN write[c] : Rewrites(c, x)
    /\ Records(c) /\ Announces(c) /\ Saw(c) /\ Reminds(c)

OneWriter == \A c, d \in Clients : c # d => DOMAIN write[c] \cap DOMAIN write[d] = {}

\* No event in the outbox is of a later version than the row it is about.
EventsSeen == \A e \in events : e[3] <= row[e[4]].version

IInv ==
    /\ TypeTable /\ Shape /\ OneWriter /\ EventsSeen
    /\ \A c \in Clients : Transaction(c)
    /\ HistoryReplays /\ RemindersFitTask /\ ReminderLostOnlyByReopening

-----------------------------------------------------------------------------
(* What a step does to the transactions                                    *)

LEMMA InitIInv == Init => IInv
<1> SUFFICES ASSUME Init PROVE IInv
  OBVIOUS
<1>1. row \in [Tasks -> Row] /\ \A t \in Tasks : row[t].status = "NOT_STARTED" /\ row[t].due \in Dues \cup {0}
  <2> DEFINE New == [live : {TRUE}, version : {1}, status : {"NOT_STARTED"}, archived : {FALSE},
                     due : Dues \cup {0}]
  <2>1. row \in [Tasks -> New]
    BY DEF Init
  <2>2. ASSUME NEW r \in New
        PROVE  r \in Row /\ r.status = "NOT_STARTED" /\ r.due \in Dues \cup {0}
    <3>1. r \in [live : BOOLEAN, version : {1}, status : Statuses, archived : BOOLEAN, due : Dues \cup {0}]
      <4>1. {TRUE} \subseteq BOOLEAN /\ {FALSE} \subseteq BOOLEAN /\ {"NOT_STARTED"} \subseteq Statuses
        BY DEF Statuses
      <4> HIDE DEF Statuses
      <4> QED
        BY <4>1, Zenon
    <3>2. r.status = "NOT_STARTED" /\ r.due \in Dues \cup {0}
      OBVIOUS
    <3> QED
      BY <3>1, <3>2 DEF Row
  <2> HIDE DEF New
  <2> QED
    BY <2>1, <2>2
<1>2. TypeTable
  BY <1>1, DependsAssumption DEF Init, TypeTable
<1>3. Shape
  BY DEF Init, Shape, Steps, NoEval, Nothing
<1>4. OneWriter /\ EventsSeen
  BY DEF Init, OneWriter, EventsSeen, Nothing
<1>5. \A c \in Clients : Transaction(c)
  <2> SUFFICES ASSUME NEW c \in Clients PROVE Transaction(c)
    OBVIOUS
  <2>1. /\ call[c] = NoCall /\ call[c].op = "none" /\ pc[c] = "idle" /\ entry[c] = << >>
        /\ DOMAIN write[c] = {} /\ DOMAIN remind[c] = {} /\ enqueued[c] = {}
    BY DEF Init, NoCall, Nothing
  <2> QED
    BY <2>1 DEF Transaction, Progress, Paths, Versioned, Archiving, Rewrites, Records, Announces, Saw, Reminds
<1>6. HistoryReplays
  BY <1>1 DEF Init, HistoryReplays, Replays
<1>7. RemindersFitTask /\ ReminderLostOnlyByReopening
  BY <1>1 DEF Init, RemindersFitTask, ReminderLostOnlyByReopening, Fits, Active
<1> QED
  BY <1>2, <1>3, <1>4, <1>5, <1>6, <1>7 DEF IInv

\* What of a transaction the invariant speaks of.
Same(d) ==
    /\ pc'[d] = pc[d] /\ call'[d] = call[d] /\ write'[d] = write[d] /\ remind'[d] = remind[d]
    /\ enqueued'[d] = enqueued[d] /\ entry'[d] = entry[d]

\* A transaction that has ended has left nothing.
LEMMA EndIsClean ==
    ASSUME Shape, NEW c \in Clients, End(c)
    PROVE  /\ Shape' /\ Transaction(c)' /\ DOMAIN write'[c] = {}
           /\ \A d \in Clients \ {c} : Same(d)
<1>1. /\ call'[c] = NoCall /\ call'[c].op = "none" /\ pc'[c] = "idle" /\ entry'[c] = << >>
      /\ DOMAIN write'[c] = {} /\ DOMAIN remind'[c] = {} /\ enqueued'[c] = {}
  BY DEF End, Goto, Shape, NoCall, Nothing
<1>2. Transaction(c)'
  BY <1>1 DEF Transaction, Progress, Paths, Versioned, Archiving, Rewrites, Records, Announces, Saw, Reminds
<1>3. Shape'
  <2>1. pc' \in [Clients -> Steps]
    BY DEF End, Goto, Shape, Steps
  <2>2. call' \in [Clients -> Call \cup {NoCall}]
    BY DEF End, Shape
  <2>3. write' = [d \in Clients |-> write'[d]] /\ remind' = [d \in Clients |-> remind'[d]]
    BY DEF End, Shape
  <2>4. /\ enqueued' \in [Clients -> SUBSET Event] /\ entry' \in [Clients -> Seq(Entries)]
        /\ todo' \in [Clients -> SUBSET Tasks]
    BY DEF End, Shape
  <2>5. eval' \in [Clients -> [of : SUBSET Tasks, prereqs : SUBSET Tasks]]
    BY DEF End, Shape, NoEval
  <2> QED
    BY <2>1, <2>2, <2>3, <2>4, <2>5 DEF Shape
<1>4. \A d \in Clients \ {c} : Same(d)
  BY DEF End, Goto, Shape, Same
<1> QED
  BY <1>1, <1>2, <1>3, <1>4

\* A transaction that takes no step while the tables stay as they are.
LEMMA SameTransaction ==
    ASSUME NEW d \in Clients, Transaction(d), UNCHANGED <<row, history, reminder, raced>>, Same(d)
    PROVE  Transaction(d)'
<1> USE DEF Same
<1>1. Progress(d)'
  BY DEF Transaction, Progress, Archiving
<1>2. \A x \in DOMAIN write'[d] : Rewrites(d, x)'
  BY DEF Transaction, Rewrites
<1>3. Records(d)' /\ Announces(d)' /\ Saw(d)'
  BY DEF Transaction, Records, Announces, Saw
<1>4. Reminds(d)'
  <2>1. \A t : /\ Will(d, t)' = Will(d, t) /\ Reopens(d, t)' = Reopens(d, t)
               /\ Reopened(t)' = Reopened(t)
    BY DEF Will, Reopens, Reopened
  <2> QED
    BY <2>1 DEF Transaction, Reminds, Archiving
<1> QED
  BY <1>1, <1>2, <1>3, <1>4 DEF Transaction

\* A step of one transaction short of its commit.
LEMMA StepKeeps ==
    ASSUME IInv, NEW c \in Clients, UNCHANGED table, Shape', Transaction(c)',
           \A d \in Clients \ {c} : Same(d),
           \A x \in DOMAIN write'[c] : x \in DOMAIN write[c] \/ ~Locked(c, x)
    PROVE  IInv'
<1>1. \A d \in Clients : Transaction(d)'
  BY SameTransaction DEF IInv, table
<1>2. OneWriter'
  BY DEF IInv, OneWriter, Locked, Same
<1>3. TypeTable' /\ EventsSeen'
  BY DEF IInv, TypeTable, EventsSeen, table
<1>4. HistoryReplays' /\ RemindersFitTask' /\ ReminderLostOnlyByReopening'
  BY DEF IInv, table, HistoryReplays, RemindersFitTask, ReminderLostOnlyByReopening, Fits, Reopened
<1> QED
  BY <1>1, <1>2, <1>3, <1>4 DEF IInv


\* Which operation a statement belongs to.
LEMMA Where ==
    ASSUME IInv, NEW c \in Clients
    PROVE  /\ pc[c] = "idle" => /\ call[c] = NoCall /\ call[c].op = "none" /\ entry[c] = << >>
                                /\ DOMAIN write[c] = {} /\ DOMAIN remind[c] = {} /\ enqueued[c] = {}
           /\ pc[c] # "idle" => call[c] \in Call
           /\ pc[c] = "update" => call[c].op \in Versioned
           /\ pc[c] \in {"dependents", "evaluate", "prereqs", "check"} => call[c].op = "status"
           /\ pc[c] = "cancel" => call[c].op \in {"status", "details", "archive", "delete"}
           /\ pc[c] = "schedule" => call[c].op \in {"details", "unarchive"}
           /\ pc[c] = "delete" => call[c].op = "delete"
           /\ pc[c] = "rows" => Archiving(c)
<1>1. call[c] \in Call \cup {NoCall} /\ pc[c] \in Paths(call[c].op)
  BY DEF IInv, Shape, Transaction, Progress
<1>2. call[c] \in Call => call[c].op \in AllOps
  BY DEF Call
<1>3. call[c] = NoCall => call[c].op = "none"
  BY DEF NoCall
<1>4. call[c].op \in AllOps \cup {"none"}
  BY <1>1, <1>2, <1>3
<1>5. /\ pc[c] = "idle" => call[c].op = "none"
      /\ pc[c] # "idle" => call[c].op # "none"
      /\ pc[c] = "update" => call[c].op \in Versioned
      /\ pc[c] \in {"dependents", "evaluate", "prereqs", "check"} => call[c].op = "status"
      /\ pc[c] = "cancel" => call[c].op \in {"status", "details", "archive", "delete"}
      /\ pc[c] = "schedule" => call[c].op \in {"details", "unarchive"}
      /\ pc[c] = "delete" => call[c].op = "delete"
      /\ pc[c] = "rows" => Archiving(c)
  BY <1>1, <1>4 DEF Paths, AllOps, Versioned, Archiving
<1>6. call[c].op = "none" => call[c] = NoCall
  BY <1>1, <1>2 DEF AllOps
<1>7. pc[c] = "idle" =>
         entry[c] = << >> /\ DOMAIN write[c] = {} /\ DOMAIN remind[c] = {} /\ enqueued[c] = {}
  BY <1>5 DEF IInv, Transaction, Progress, Records, Announces, Archiving, Versioned
<1> QED
  BY <1>1, <1>3, <1>5, <1>6, <1>7

-----------------------------------------------------------------------------
(* The steps                                                               *)

LEMMA ReadKeeps ==
    ASSUME IInv, NEW c \in Clients, NEW o \in Ops, NEW t \in Tasks, Read(c, o, t)
    PROVE  IInv'
<1>1. /\ pc[c] = "idle" /\ o \in {"status", "field", "details", "delete"} /\ row[t].live
      /\ UNCHANGED <<table, buffer, todo, eval>>
      /\ pc' = [pc EXCEPT ![c] = IF o = "delete" THEN "cancel" ELSE "update"]
  BY DEF Read, Goto
<1>2. row[t] \in Row /\ row[t].version \in Nat
  BY DEF IInv, TypeTable, Row
<1>3. PICK v \in Nat :
         /\ o = "status" => v <= row[t].version
         /\ call' = [call EXCEPT ![c] = [op |-> o, on |-> t, expected |-> v, old |-> row[t]]]
  <2>1. PICK v \in IF o = "status" THEN 1..row[t].version ELSE {0} :
           call' = [call EXCEPT ![c] = [op |-> o, on |-> t, expected |-> v, old |-> row[t]]]
    BY DEF Read
  <2>2. v \in Nat /\ (o = "status" => v <= row[t].version)
    BY <1>2, <2>1
  <2> QED
    BY <2>1, <2>2
<1>4. Shape'
  <2>1. [op |-> o, on |-> t, expected |-> v, old |-> row[t]] \in Call
    BY <1>1, <1>2 DEF Call, AllOps
  <2> QED
    BY <1>1, <1>3, <2>1 DEF IInv, Shape, Steps, buffer
<1>5. \A d \in Clients \ {c} : Same(d)
  BY <1>1, <1>3 DEF IInv, Shape, Same, buffer
<1>6. /\ call'[c].op = o /\ call'[c].on = t /\ call'[c].expected = v /\ call'[c].old = row[t]
      /\ pc'[c] = IF o = "delete" THEN "cancel" ELSE "update"
      /\ DOMAIN write'[c] = {} /\ DOMAIN remind'[c] = {} /\ enqueued'[c] = {} /\ entry'[c] = << >>
      /\ row' = row
  BY <1>1, <1>3, Where DEF IInv, Shape, buffer, table
<1>7. Transaction(c)'
  <2>1. Progress(c)' /\ \A x \in DOMAIN write'[c] : Rewrites(c, x)'
    BY <1>1, <1>6 DEF Progress, Paths, Versioned, Archiving
  <2>2. Records(c)' /\ Announces(c)'
    BY <1>1, <1>6 DEF Records, Announces
  <2>3. Saw(c)'
    <3>1. row[t].version <= row[t].version
      BY <1>2
    <3> QED
      BY <1>3, <1>6, <3>1 DEF Saw
  <2>4. Reminds(c)'
    BY <1>1, <1>6 DEF Reminds, Archiving
  <2> QED
    BY <2>1, <2>2, <2>3, <2>4 DEF Transaction
<1> QED
  BY <1>1, <1>4, <1>5, <1>6, <1>7, StepKeeps

LEMMA SetArchivedKeeps ==
    ASSUME IInv, NEW c \in Clients, NEW o \in Ops, NEW t \in Tasks, SetArchived(c, o, t)
    PROVE  IInv'
<1> DEFINE new == [row[t] EXCEPT !.archived = (o = "archive")]
           next == CASE o = "archive" -> "cancel"
                     [] o = "unarchive" /\ new.due # 0 /\ Active(new) -> "schedule"
                     [] OTHER -> "commit"
<1>1. /\ pc[c] = "idle" /\ o \in {"archive", "unarchive"} /\ row[t].live /\ ~Locked(c, t)
      /\ UNCHANGED <<table, remind, enqueued, entry, todo, eval>>
      /\ pc' = [pc EXCEPT ![c] = next]
      /\ write' = [write EXCEPT ![c] = Put(write[c], t, new)]
      /\ call' = [call EXCEPT ![c] = [op |-> o, on |-> t, expected |-> 0, old |-> row[t]]]
  BY DEF SetArchived, Goto, WriteRow
<1>2. row[t] \in Row /\ row[t].version \in Nat
  BY DEF IInv, TypeTable, Row
<1>3. /\ new \in Row /\ new.live /\ new.version = row[t].version /\ new.status = row[t].status
      /\ new.due = row[t].due /\ (new.archived <=> o = "archive")
  BY <1>1, <1>2 DEF Row
<1>4. /\ next \in {"cancel", "schedule", "commit"}
      /\ next = "cancel" <=> o = "archive"
      /\ next = "schedule" => new.due # 0 /\ Active(new)
      /\ next = "commit" => ~(new.due # 0 /\ Active(new))
  BY <1>1
<1> HIDE DEF new, next
<1>5. Shape'
  <2>1. [op |-> o, on |-> t, expected |-> 0, old |-> row[t]] \in Call
    BY <1>1, <1>2 DEF Call, AllOps
  <2> QED
    BY <1>1, <1>4, <2>1 DEF IInv, Shape, Steps
<1>6. \A d \in Clients \ {c} : Same(d)
  BY <1>1 DEF IInv, Shape, Same
<1>7. /\ call'[c].op = o /\ call'[c].on = t /\ call'[c].expected = 0 /\ call'[c].old = row[t]
      /\ pc'[c] = next /\ DOMAIN write'[c] = {t} /\ write'[c][t] = new
      /\ DOMAIN remind'[c] = {} /\ enqueued'[c] = {} /\ entry'[c] = << >>
      /\ UNCHANGED <<row, reminder, raced, history>>
  BY <1>1, Where DEF IInv, Shape, table, Put
<1>8. Transaction(c)'
  <2>1. Progress(c)'
    BY <1>1, <1>4, <1>7 DEF Progress, Paths, Versioned, Archiving
  <2>2. \A x \in DOMAIN write'[c] : Rewrites(c, x)'
    BY <1>1, <1>3, <1>7 DEF Rewrites, Versioned
  <2>3. Records(c)' /\ Announces(c)' /\ Saw(c)'
    BY <1>1, <1>2, <1>7 DEF Records, Announces, Saw
  <2>4. Reminds(c)'
    <3>1. Will(c, t)' = reminder[t] /\ Reopened(t)' = Reopened(t)
      BY <1>7 DEF Will, Reopened
    <3>2. t \notin raced /\ reminder[t] # 0 => Active(row[t]) /\ row[t].due = reminder[t]
      BY DEF IInv, RemindersFitTask, Fits
    <3>3. Active(row[t]) /\ o = "unarchive" => Active(new)
      BY <1>1, <1>3 DEF Active
    <3> QED
      BY <1>1, <1>3, <1>4, <1>7, <3>1, <3>2, <3>3 DEF Reminds, Archiving
  <2> QED
    BY <2>1, <2>2, <2>3, <2>4 DEF Transaction
<1> QED
  BY <1>1, <1>5, <1>6, <1>7, <1>8, StepKeeps


LEMMA ArchiveProjectKeeps ==
    ASSUME IInv, NEW c \in Clients, NEW o \in Ops, NEW t \in Tasks, ArchiveProject(c, o, t)
    PROVE  IInv'
<1>1. /\ pc[c] = "idle" /\ o \in {"archive_project", "unarchive_project"}
      /\ UNCHANGED <<table, buffer, eval>> /\ pc' = [pc EXCEPT ![c] = "rows"]
      /\ call' = [call EXCEPT ![c] = [op |-> o, on |-> t, expected |-> 0, old |-> row[t]]]
      /\ todo' = [todo EXCEPT ![c] = {x \in Tasks : row[x].live}]
  BY DEF ArchiveProject, Goto
<1>2. row[t] \in Row /\ row[t].version \in Nat
  BY DEF IInv, TypeTable, Row
<1>3. Shape'
  <2>1. [op |-> o, on |-> t, expected |-> 0, old |-> row[t]] \in Call
    BY <1>1, <1>2 DEF Call, AllOps
  <2> QED
    BY <1>1, <2>1 DEF IInv, Shape, Steps, buffer
<1>4. \A d \in Clients \ {c} : Same(d)
  BY <1>1 DEF IInv, Shape, Same, buffer
<1>5. /\ call'[c].op = o /\ call'[c].on = t /\ call'[c].expected = 0 /\ call'[c].old = row[t]
      /\ pc'[c] = "rows" /\ row' = row
      /\ DOMAIN write'[c] = {} /\ DOMAIN remind'[c] = {} /\ enqueued'[c] = {} /\ entry'[c] = << >>
  BY <1>1, Where DEF IInv, Shape, buffer, table
<1>6. Transaction(c)'
  <2>1. Progress(c)' /\ \A x \in DOMAIN write'[c] : Rewrites(c, x)'
    BY <1>1, <1>5 DEF Progress, Paths, Versioned, Archiving
  <2>2. Records(c)' /\ Announces(c)'
    BY <1>1, <1>5 DEF Records, Announces
  <2>3. Saw(c)'
    BY <1>1, <1>2, <1>5 DEF Saw
  <2>4. Reminds(c)'
    BY <1>1, <1>5 DEF Reminds, Archiving
  <2> QED
    BY <2>1, <2>2, <2>3, <2>4 DEF Transaction
<1> QED
  BY <1>1, <1>3, <1>4, <1>5, <1>6, StepKeeps

\* The history entry of a row that gives way to r.
Change(t, r) == << <<row[t].status, r.status>> >>

\* The UPDATE of an operation that has read before: what the new row is, and what
\* the entry, the events and the next statement are.
Updates(c, t, new, next, es) ==
    /\ t = call[c].on /\ pc[c] = "update" /\ ~Locked(c, t) /\ row[t].live
    /\ WriteRow(c, t, new) /\ Goto(c, next) /\ enqueued' = [enqueued EXCEPT ![c] = es]
    /\ UNCHANGED <<table, call, remind, todo, eval>>
    /\ new.live /\ new.version = row[t].version + 1 /\ new.archived = row[t].archived
    /\ call[c].op # "status" => new.status = row[t].status
    /\ call[c].op # "details" => new.due = row[t].due
    /\ next = "cancel" => call[c].op \in {"status", "details"}
    /\ call[c].op = "status" => (next = "cancel" <=> new.status = "COMPLETED")
    /\ call[c].op = "details" /\ next = "commit" /\ row[t] = call[c].old => new.due = row[t].due
    /\ es \subseteq Event /\ \A e \in es : e[4] = t /\ e[3] = new.version
    /\ call[c].op = "status" => entry' = [entry EXCEPT ![c] = Change(t, new)]
    /\ call[c].op # "status" => entry' = entry

LEMMA UpdateKeeps ==
    ASSUME IInv, NEW c \in Clients, NEW t \in Tasks, NEW new \in Row,
           NEW next \in {"cancel", "commit"}, NEW es, Updates(c, t, new, next, es)
    PROVE  IInv'
<1> USE DEF Updates, WriteRow, Goto
<1>1. /\ call[c] \in Call /\ call[c].op \in Versioned /\ call[c] # NoCall
      /\ DOMAIN write[c] = {} /\ DOMAIN remind[c] = {}
  BY Where DEF IInv, Transaction, Progress, Call, Versioned, Archiving, NoCall
<1>2. row[t] \in Row /\ row[t].status \in Statuses /\ new.status \in Statuses
  BY <1>1 DEF IInv, TypeTable, Row
<1>3. Shape'
  <2>1. Change(t, new) \in Seq(Entries)
    BY <1>2 DEF Entries, Change
  <2>2. entry' \in [Clients -> Seq(Entries)]
    BY <2>1 DEF IInv, Shape
  <2> QED
    BY <2>2 DEF IInv, Shape, Steps
<1>4. \A d \in Clients \ {c} : Same(d)
  BY DEF IInv, Shape, Same
<1>5. /\ call'[c] = call[c] /\ pc'[c] = next /\ DOMAIN write'[c] = {t} /\ write'[c][t] = new
      /\ DOMAIN remind'[c] = {} /\ enqueued'[c] = es
      /\ UNCHANGED <<row, reminder, raced, history>>
  BY <1>1 DEF IInv, Shape, table, Put
<1>6. entry'[c] = IF call[c].op = "status" THEN Change(t, new) ELSE << >>
  BY DEF IInv, Shape, Transaction, Records
<1>7. Transaction(c)'
  <2>1. Progress(c)'
    BY <1>1, <1>5 DEF Progress, Paths, Versioned, Archiving
  <2>2. \A x \in DOMAIN write'[c] : Rewrites(c, x)'
    BY <1>1, <1>5 DEF Rewrites, Versioned
  <2>3. Records(c)'
    BY <1>1, <1>5, <1>6 DEF Records, Versioned, Change
  <2>4. Announces(c)'
    BY <1>1, <1>5 DEF Announces
  <2>5. Saw(c)'
    BY <1>1, <1>5 DEF Saw, IInv, Transaction
  <2>6. Reminds(c)'
    <3>1. Will(c, t)' = reminder[t] /\ Reopened(t)' = Reopened(t) /\ Reopens(c, t)' = Reopens(c, t)
      BY <1>5 DEF Will, Reopened, Reopens
    <3>2. t \notin raced /\ reminder[t] # 0 => Active(row[t]) /\ row[t].due = reminder[t]
      BY <1>1 DEF IInv, RemindersFitTask, Fits
    <3>3. t \notin raced /\ Active(row[t]) /\ ~Reopened(t) => reminder[t] = row[t].due
      BY <1>1 DEF IInv, ReminderLostOnlyByReopening
    <3>4. /\ Active(row[t]) /\ new.status # "COMPLETED" => Active(new)
          /\ Active(new) /\ row[t].status # "COMPLETED" => Active(row[t])
          /\ Active(new) => new.status # "COMPLETED"
          /\ Active(row[t]) => row[t].status # "COMPLETED"
      BY DEF Active
    <3>5. t \notin raced /\ call[c].op \in {"details", "delete"} => row[t] = call[c].old
      BY <1>1 DEF IInv, Transaction, Reminds, Archiving, Versioned
    <3>6. next = "commit" /\ t \notin raced => new.due = row[t].due /\ (call[c].op = "status" => new.status # "COMPLETED")
      BY <3>5
    <3>7. next = "commit" /\ t \notin raced =>
             /\ reminder[t] # 0 => Active(new) /\ new.due = reminder[t]
             /\ Active(new) /\ ~Reopened(t) /\ ~Reopens(c, t) => reminder[t] = new.due
      BY <3>2, <3>3, <3>4, <3>6 DEF Reopens
    <3> QED
      BY <1>1, <1>5, <3>1, <3>5, <3>7 DEF Reminds, Archiving, Versioned
  <2> QED
    BY <2>1, <2>2, <2>3, <2>4, <2>5, <2>6 DEF Transaction
<1> QED
  BY <1>3, <1>4, <1>5, <1>7, StepKeeps

LEMMA UpdateStatusKeeps ==
    ASSUME IInv, NEW c \in Clients, UpdateStatus(c)
    PROVE  IInv'
<1>1. /\ pc[c] = "update" /\ call[c].op = "status" /\ ~Locked(c, call[c].on)
      /\ row[call[c].on].live /\ row[call[c].on].version = call[c].expected
      /\ UNCHANGED <<table, call, remind, todo, eval>>
  BY DEF UpdateStatus, CasHolds
<1>2. PICK t \in Tasks : t = call[c].on
  BY <1>1, Where DEF Call
<1>3. row[t] \in Row /\ call[c].old \in Row /\ call[c].expected \in Nat /\ call[c] # NoCall
  BY <1>1, <1>2, Where DEF IInv, TypeTable, Call, NoCall
<1>4. call[c].old.status = row[t].status
  <2>1. /\ call[c].expected <= call[c].old.version /\ call[c].old.version <= row[t].version
        /\ call[c].old.version = row[t].version => call[c].old.status = row[t].status
    BY <1>1, <1>2, <1>3 DEF IInv, Transaction, Saw
  <2>2. row[t].version \in Nat /\ call[c].old.version \in Nat /\ row[t].version = call[c].expected
    BY <1>1, <1>2, <1>3 DEF Row
  <2>3. call[c].old.version = row[t].version
    BY <1>3, <2>1, <2>2
  <2> QED
    BY <2>1, <2>3
<1>5. PICK s \in Statuses :
         /\ WriteRow(c, t, [Bumped(row[t]) EXCEPT !.status = s])
         /\ entry' = [entry EXCEPT ![c] = << <<row[t].status, s>> >>]
         /\ Goto(c, IF s = "COMPLETED" THEN "cancel" ELSE "commit")
         /\ enqueued' = [enqueued EXCEPT ![c] = {<<"task_status", t, row[t].version + 1, t>>}]
  BY <1>2, <1>4 DEF UpdateStatus
<1>6. PICK new \in Row : new = [Bumped(row[t]) EXCEPT !.status = s]
  <2>1. Bumped(row[t]) \in Row
    BY <1>3 DEF Row, Bumped
  <2>2. [Bumped(row[t]) EXCEPT !.status = s] \in Row
    BY <2>1 DEF Row
  <2> QED
    BY <2>2
<1>7. /\ new.live /\ new.version = row[t].version + 1 /\ new.archived = row[t].archived
      /\ new.status = s /\ new.due = row[t].due
  BY <1>1, <1>2, <1>3, <1>6 DEF Row, Bumped
<1>8. PICK next \in {"cancel", "commit"} : next = IF s = "COMPLETED" THEN "cancel" ELSE "commit"
  OBVIOUS
<1>9. PICK es : es = {<<"task_status", t, row[t].version + 1, t>>}
  OBVIOUS
<1>10. es \subseteq Event /\ \A e \in es : e[4] = t /\ e[3] = new.version
  BY <1>3, <1>7, <1>9 DEF Event, Row
<1>11. /\ WriteRow(c, t, new) /\ Goto(c, next) /\ enqueued' = [enqueued EXCEPT ![c] = es]
       /\ entry' = [entry EXCEPT ![c] = Change(t, new)]
       /\ next = "cancel" <=> new.status = "COMPLETED"
  BY <1>5, <1>6, <1>7, <1>8, <1>9 DEF Change
<1>12. Updates(c, t, new, next, es)
  BY <1>1, <1>2, <1>7, <1>10, <1>11 DEF Updates
<1> QED
  BY <1>12, UpdateKeeps

LEMMA UpdateFieldKeeps ==
    ASSUME IInv, NEW c \in Clients, UpdateField(c)
    PROVE  IInv'
<1>1. /\ pc[c] = "update" /\ call[c].op = "field" /\ ~Locked(c, call[c].on) /\ row[call[c].on].live
      /\ UNCHANGED <<table, call, remind, entry, todo, eval>> /\ Goto(c, "commit")
  BY DEF UpdateField
<1>2. PICK t \in Tasks : t = call[c].on
  BY <1>1, Where DEF Call
<1>3. row[t] \in Row
  BY DEF IInv, TypeTable
<1>4. PICK new \in Row : new = Bumped(row[t])
  <2>1. Bumped(row[t]) \in Row
    BY <1>3 DEF Row, Bumped
  <2> QED
    BY <2>1
<1>5. /\ new.live /\ new.version = row[t].version + 1 /\ new.archived = row[t].archived
      /\ new.status = row[t].status /\ new.due = row[t].due
  BY <1>1, <1>2, <1>3, <1>4 DEF Row, Bumped
<1>6. PICK es : es = {<<"task_field", t, row[t].version + 1, t>>}
  OBVIOUS
<1>7. es \subseteq Event /\ \A e \in es : e[4] = t /\ e[3] = new.version
  BY <1>3, <1>5, <1>6 DEF Event, Row
<1>8. WriteRow(c, t, new) /\ enqueued' = [enqueued EXCEPT ![c] = es]
  BY <1>2, <1>4, <1>6 DEF UpdateField
<1>9. Updates(c, t, new, "commit", es)
  BY <1>1, <1>2, <1>5, <1>7, <1>8 DEF Updates
<1> QED
  BY <1>9, UpdateKeeps

LEMMA UpdateDetailsKeeps ==
    ASSUME IInv, NEW c \in Clients, UpdateDetails(c)
    PROVE  IInv'
<1>1. /\ pc[c] = "update" /\ call[c].op = "details" /\ ~Locked(c, call[c].on) /\ row[call[c].on].live
      /\ UNCHANGED <<table, call, remind, entry, todo, eval>>
  BY DEF UpdateDetails
<1>2. PICK t \in Tasks : t = call[c].on
  BY <1>1, Where DEF Call
<1>3. row[t] \in Row
  BY DEF IInv, TypeTable
<1>4. PICK d \in Dues \cup {0}, given \in BOOLEAN, other \in BOOLEAN :
         /\ ~given => d = row[t].due
         /\ WriteRow(c, t, [Bumped(row[t]) EXCEPT !.due = d])
         /\ enqueued' = [enqueued EXCEPT ![c] =
               IF (given /\ d # call[c].old.due) \/ other
               THEN {<<"task_details", t, row[t].version + 1, t>>} ELSE {}]
         /\ Goto(c, IF (given /\ d # call[c].old.due) \/ (given /\ d = 0) THEN "cancel" ELSE "commit")
  BY <1>2 DEF UpdateDetails
<1>5. PICK new \in Row : new = [Bumped(row[t]) EXCEPT !.due = d]
  <2>1. Bumped(row[t]) \in Row
    BY <1>3 DEF Row, Bumped
  <2>2. [Bumped(row[t]) EXCEPT !.due = d] \in Row
    BY <2>1 DEF Row
  <2> QED
    BY <2>2
<1>6. /\ new.live /\ new.version = row[t].version + 1 /\ new.archived = row[t].archived
      /\ new.status = row[t].status /\ new.due = d
  BY <1>1, <1>2, <1>3, <1>5 DEF Row, Bumped
<1>7. PICK next \in {"cancel", "commit"} :
         next = IF (given /\ d # call[c].old.due) \/ (given /\ d = 0) THEN "cancel" ELSE "commit"
  OBVIOUS
<1>8. next = "commit" /\ row[t] = call[c].old => new.due = row[t].due
  BY <1>4, <1>6, <1>7
<1>9. PICK es : es = IF (given /\ d # call[c].old.due) \/ other
                     THEN {<<"task_details", t, row[t].version + 1, t>>} ELSE {}
  OBVIOUS
<1>10. es \subseteq Event /\ \A e \in es : e[4] = t /\ e[3] = new.version
  BY <1>3, <1>6, <1>9 DEF Event, Row
<1>11. WriteRow(c, t, new) /\ Goto(c, next) /\ enqueued' = [enqueued EXCEPT ![c] = es]
  BY <1>4, <1>5, <1>7, <1>9
<1>12. Updates(c, t, new, next, es)
  BY <1>1, <1>2, <1>6, <1>8, <1>10, <1>11 DEF Updates
<1> QED
  BY <1>12, UpdateKeeps

LEMMA EndKeeps ==
    ASSUME IInv, NEW c \in Clients, End(c), UNCHANGED table
    PROVE  IInv'
<1>1. Shape
  BY DEF IInv
<1> QED
  BY <1>1, EndIsClean, StepKeeps

LEMMA AbortKeeps ==
    ASSUME IInv, NEW c \in Clients, Abort(c)
    PROVE  IInv'
<1>1. /\ Shape /\ End(c) /\ UNCHANGED <<row, history, reminder, events, deps, raced>>
      /\ moved' \in [Clients -> SUBSET Tasks]
  BY DEF IInv, TypeTable, Abort
<1>2. Shape' /\ Transaction(c)' /\ DOMAIN write'[c] = {} /\ \A d \in Clients \ {c} : Same(d)
  BY <1>1, EndIsClean
<1>3. \A d \in Clients : Transaction(d)'
  BY <1>1, <1>2, SameTransaction DEF IInv
<1>4. OneWriter' /\ TypeTable' /\ EventsSeen'
  BY <1>1, <1>2 DEF IInv, OneWriter, Same, TypeTable, EventsSeen
<1>5. HistoryReplays' /\ RemindersFitTask' /\ ReminderLostOnlyByReopening'
  BY <1>1 DEF IInv, HistoryReplays, RemindersFitTask, ReminderLostOnlyByReopening, Fits, Reopened
<1> QED
  BY <1>2, <1>3, <1>4, <1>5 DEF IInv

\* Dependencies are no part of what a transaction has written.
LEMMA LinkKeeps ==
    ASSUME IInv, Link
    PROVE  IInv'
<1>1. /\ UNCHANGED <<row, history, reminder, events, raced, pc, call, todo, eval>>
      /\ UNCHANGED <<write, remind, enqueued, entry>>
  BY DEF Link, buffer
<1>2. deps' \subseteq Depends /\ moved' \in [Clients -> SUBSET Tasks]
  <2> DEFINE Over(d) == {t \in Tasks : Overtaken(d, t)}
  <2>1. moved' = [d \in Clients |-> moved[d] \cup Over(d)]
    BY DEF Link
  <2>2. \A d \in Clients : Over(d) \subseteq Tasks /\ moved[d] \subseteq Tasks
    BY DEF IInv, TypeTable
  <2>3. deps' \subseteq Depends
    BY DEF IInv, TypeTable, Link
  <2> HIDE DEF Over
  <2> QED
    BY <2>1, <2>2, <2>3
<1>3. Shape' /\ \A d \in Clients : Same(d)
  BY <1>1 DEF IInv, Shape, Same
<1>4. \A d \in Clients : Transaction(d)'
  BY <1>1, <1>3, SameTransaction DEF IInv
<1>5. OneWriter' /\ TypeTable' /\ EventsSeen'
  BY <1>1, <1>2 DEF IInv, OneWriter, TypeTable, EventsSeen
<1>6. HistoryReplays' /\ RemindersFitTask' /\ ReminderLostOnlyByReopening'
  BY <1>1 DEF IInv, HistoryReplays, RemindersFitTask, ReminderLostOnlyByReopening, Fits, Reopened
<1> QED
  BY <1>3, <1>4, <1>5, <1>6 DEF IInv

Looking == {"dependents", "evaluate", "prereqs", "check"}

\* update_status looks at the dependents: it changes nothing but may enqueue events.
LEMMA LookingKeeps ==
    ASSUME IInv, NEW c \in Clients, pc[c] \in Looking,
           NEW next \in {"evaluate", "prereqs", "check", "commit"}, Goto(c, next),
           UNCHANGED <<table, call, write, remind, entry>>,
           NEW es, es \subseteq Event, enqueued' = [enqueued EXCEPT ![c] = es],
           \A e \in es : e \in enqueued[c] \/ (/\ e[4] = call[c].on
                                               /\ e[3] = write[c][call[c].on].version),
           todo' \in [Clients -> SUBSET Tasks],
           eval' \in [Clients -> [of : SUBSET Tasks, prereqs : SUBSET Tasks]]
    PROVE  IInv'
<1> USE DEF Goto
<1> DEFINE t == call[c].on
<1>1. /\ call[c] \in Call /\ call[c].op = "status" /\ pc[c] # "update" /\ pc[c] # "commit"
      /\ pc[c] # "idle" /\ pc[c] # "cancel"
      /\ t \in DOMAIN write[c] /\ write[c][t].status = "COMPLETED"
  BY Where DEF IInv, Transaction, Progress, Reminds, Versioned, Looking
<1>2. Shape'
  <2>1. pc' \in [Clients -> Steps] /\ call' \in [Clients -> Call \cup {NoCall}]
    BY DEF IInv, Shape, Steps
  <2>2. write' = [d \in Clients |-> write'[d]] /\ remind' = [d \in Clients |-> remind'[d]]
    BY DEF IInv, Shape
  <2>3. enqueued' \in [Clients -> SUBSET Event] /\ entry' \in [Clients -> Seq(Entries)]
    BY DEF IInv, Shape
  <2> QED
    BY <2>1, <2>2, <2>3 DEF Shape
<1>3. \A d \in Clients \ {c} : Same(d)
  BY DEF IInv, Shape, Same
<1>4. /\ call'[c] = call[c] /\ pc'[c] = next /\ write'[c] = write[c] /\ remind'[c] = remind[c]
      /\ enqueued'[c] = es /\ entry'[c] = entry[c]
      /\ UNCHANGED <<row, reminder, raced, history>>
  BY DEF IInv, Shape, table
<1>5. Transaction(c)'
  <2>1. Progress(c)'
    BY <1>1, <1>4 DEF IInv, Transaction, Progress, Paths, Versioned, Archiving
  <2>2. \A x \in DOMAIN write'[c] : Rewrites(c, x)'
    BY <1>1, <1>4 DEF IInv, Transaction, Rewrites
  <2>3. Records(c)'
    BY <1>1, <1>4 DEF IInv, Transaction, Records
  <2>4. Announces(c)'
    BY <1>1, <1>4 DEF IInv, Transaction, Announces, Versioned
  <2>5. Saw(c)'
    BY <1>1, <1>4 DEF Saw, IInv, Transaction
  <2>6. Reminds(c)'
    <3>1. /\ \A x : Will(c, x)' = Will(c, x)
          /\ \A x : Reopened(x)' = Reopened(x) /\ Reopens(c, x)' = Reopens(c, x)
      BY <1>4 DEF Will, Reopened, Reopens
    <3>2. t \notin raced => Will(c, t) = 0
      BY <1>1 DEF IInv, Transaction, Reminds, Archiving, Looking
    <3>3. ~Active(write[c][t])
      BY <1>1 DEF Active
    <3>4. Reminds(c)
      BY DEF IInv, Transaction
    <3> QED
      BY <1>1, <1>4, <3>1, <3>2, <3>3, <3>4 DEF Reminds, Archiving
  <2> QED
    BY <2>1, <2>2, <2>3, <2>4, <2>5, <2>6 DEF Transaction
<1> QED
  BY <1>2, <1>3, <1>4, <1>5, StepKeeps

LEMMA ReadDependentsKeeps ==
    ASSUME IInv, NEW c \in Clients, ReadDependents(c)
    PROVE  IInv'
<1>1. pc[c] \in Looking /\ Goto(c, "evaluate") /\ UNCHANGED <<table, call, buffer, eval>>
  BY DEF ReadDependents, Looking
<1>2. todo' \in [Clients -> SUBSET Tasks]
  <2>1. Dependents(call[c].on) \subseteq Tasks
    BY DEF Dependents
  <2> QED
    BY <2>1 DEF IInv, Shape, ReadDependents
<1>3. /\ enqueued[c] \subseteq Event /\ enqueued' = [enqueued EXCEPT ![c] = enqueued[c]]
      /\ eval' \in [Clients -> [of : SUBSET Tasks, prereqs : SUBSET Tasks]]
      /\ UNCHANGED <<write, remind, entry>>
  BY <1>1 DEF IInv, Shape, buffer
<1> QED
  BY <1>1, <1>2, <1>3, LookingKeeps

LEMMA ReadDependentKeeps ==
    ASSUME IInv, NEW c \in Clients, ReadDependent(c)
    PROVE  IInv'
<1>1. pc[c] \in Looking /\ UNCHANGED <<table, call, buffer>>
  BY DEF ReadDependent, Looking
<1>2. PICK next \in {"evaluate", "prereqs", "commit"} : Goto(c, next)
  <2>1. UNCHANGED pc => pc' = [pc EXCEPT ![c] = "evaluate"]
    BY DEF IInv, Shape, ReadDependent
  <2> QED
    BY <2>1 DEF ReadDependent, Goto
<1>3. todo' \in [Clients -> SUBSET Tasks]
  <2>1. todo \in [Clients -> SUBSET Tasks]
    BY DEF IInv, Shape
  <2>2. UNCHANGED todo \/ \E d : todo' = [todo EXCEPT ![c] = todo[c] \ {d}]
    BY DEF ReadDependent
  <2>3. \A d : todo[c] \ {d} \in SUBSET Tasks
    BY <2>1
  <2> QED
    BY <2>1, <2>2, <2>3
<1>4. eval' \in [Clients -> [of : SUBSET Tasks, prereqs : SUBSET Tasks]]
  <2>1. eval \in [Clients -> [of : SUBSET Tasks, prereqs : SUBSET Tasks]] /\ todo[c] \subseteq Tasks
    BY DEF IInv, Shape
  <2>2. UNCHANGED eval \/ \E d \in Tasks : eval' = [eval EXCEPT ![c] = [of |-> {d}, prereqs |-> {}]]
    BY <2>1 DEF ReadDependent
  <2> QED
    BY <2>1, <2>2
<1>5. /\ enqueued[c] \subseteq Event /\ enqueued' = [enqueued EXCEPT ![c] = enqueued[c]]
      /\ UNCHANGED <<write, remind, entry>>
  BY <1>1 DEF IInv, Shape, buffer
<1> QED
  BY <1>1, <1>2, <1>3, <1>4, <1>5, LookingKeeps

LEMMA ReadPrereqsKeeps ==
    ASSUME IInv, NEW c \in Clients, ReadPrereqs(c)
    PROVE  IInv'
<1>1. pc[c] \in Looking /\ UNCHANGED <<table, call, buffer, todo>>
  BY DEF ReadPrereqs, Looking
<1>2. PICK next \in {"evaluate", "check"} : Goto(c, next)
  BY DEF ReadPrereqs
<1>3. eval' \in [Clients -> [of : SUBSET Tasks, prereqs : SUBSET Tasks]]
  <2>1. eval \in [Clients -> [of : SUBSET Tasks, prereqs : SUBSET Tasks]]
    BY DEF IInv, Shape
  <2>2. NoEval \in [of : SUBSET Tasks, prereqs : SUBSET Tasks]
    BY DEF NoEval
  <2>3. \/ eval' = [eval EXCEPT ![c] = NoEval]
        \/ \E P \in SUBSET Tasks : eval' = [eval EXCEPT ![c].prereqs = P]
    <3>1. \A d : Prereqs(d) \ {call[c].on} \in SUBSET Tasks
      BY DEF Prereqs
    <3> QED
      BY <3>1 DEF ReadPrereqs
  <2> QED
    BY <2>1, <2>2, <2>3
<1>4. /\ enqueued[c] \subseteq Event /\ enqueued' = [enqueued EXCEPT ![c] = enqueued[c]]
      /\ UNCHANGED <<write, remind, entry>> /\ todo' \in [Clients -> SUBSET Tasks]
  BY <1>1 DEF IInv, Shape, buffer
<1> QED
  BY <1>1, <1>2, <1>3, <1>4, LookingKeeps

LEMMA CheckPrereqKeeps ==
    ASSUME IInv, NEW c \in Clients, CheckPrereq(c)
    PROVE  IInv'
<1>1. pc[c] \in Looking /\ UNCHANGED <<table, call, buffer, todo>>
  BY DEF CheckPrereq, Looking
<1>2. PICK next \in {"evaluate", "check"} : Goto(c, next)
  <2>1. UNCHANGED pc => pc' = [pc EXCEPT ![c] = "check"]
    BY DEF IInv, Shape, CheckPrereq
  <2> QED
    BY <2>1 DEF CheckPrereq, Goto
<1>3. eval' \in [Clients -> [of : SUBSET Tasks, prereqs : SUBSET Tasks]]
  <2>1. eval \in [Clients -> [of : SUBSET Tasks, prereqs : SUBSET Tasks]]
    BY DEF IInv, Shape
  <2>2. NoEval \in [of : SUBSET Tasks, prereqs : SUBSET Tasks]
    BY DEF NoEval
  <2>3. \/ eval' = [eval EXCEPT ![c] = NoEval]
        \/ \E p : eval' = [eval EXCEPT ![c].prereqs = eval[c].prereqs \ {p}]
    BY DEF CheckPrereq
  <2>4. \A p : eval[c].prereqs \ {p} \in SUBSET Tasks
    BY <2>1
  <2> QED
    BY <2>1, <2>2, <2>3, <2>4
<1>4. /\ enqueued[c] \subseteq Event /\ enqueued' = [enqueued EXCEPT ![c] = enqueued[c]]
      /\ UNCHANGED <<write, remind, entry>> /\ todo' \in [Clients -> SUBSET Tasks]
  BY <1>1 DEF IInv, Shape, buffer
<1> QED
  BY <1>1, <1>2, <1>3, <1>4, LookingKeeps

LEMMA UnblockKeeps ==
    ASSUME IInv, NEW c \in Clients, Unblock(c)
    PROVE  IInv'
<1> DEFINE t == call[c].on
           new == {<<"task_unblocked", d, write[c][t].version, t>> : d \in eval[c].of}
<1>1. /\ pc[c] \in Looking /\ Goto(c, "evaluate")
      /\ UNCHANGED <<table, call, write, remind, entry, todo>>
      /\ enqueued' = [enqueued EXCEPT ![c] = enqueued[c] \cup new]
      /\ eval' = [eval EXCEPT ![c] = NoEval]
  BY DEF Unblock, Looking
<1>2. call[c].op = "status" /\ call[c] \in Call /\ t \in Tasks /\ t \in DOMAIN write[c]
  BY <1>1, Where DEF Unblock, Call, IInv, Transaction, Progress, Versioned
<1>3. write[c][t].version \in Nat /\ eval[c].of \subseteq Tasks
  BY <1>2 DEF IInv, Transaction, Rewrites, Row, Shape
<1>4. enqueued[c] \cup new \subseteq Event
  BY <1>2, <1>3 DEF IInv, Shape, Event
<1>5. \A e \in enqueued[c] \cup new : e \in enqueued[c] \/ (e[4] = t /\ e[3] = write[c][t].version)
  OBVIOUS
<1>6. /\ eval' \in [Clients -> [of : SUBSET Tasks, prereqs : SUBSET Tasks]]
      /\ todo' \in [Clients -> SUBSET Tasks]
  BY <1>1 DEF IInv, Shape, NoEval
<1> HIDE DEF new
<1> QED
  BY <1>1, <1>4, <1>5, <1>6, LookingKeeps

LEMMA CancelRemindersKeeps ==
    ASSUME IInv, NEW c \in Clients, CancelReminders(c)
    PROVE  IInv'
<1>1. PICK t \in Tasks : /\ t = call[c].on /\ call[c] \in Call
                         /\ call[c].op \in {"status", "details", "archive", "delete"}
  BY Where DEF CancelReminders, Call
<1> DEFINE new == IF t \in DOMAIN write[c] THEN write[c][t] ELSE row[t]
<1>2. /\ pc[c] = "cancel" /\ UNCHANGED <<table, call, write, enqueued, entry, todo, eval>>
      /\ remind' = IF reminder[t] = 0 THEN remind ELSE [remind EXCEPT ![c] = Put(remind[c], t, 0)]
  BY <1>1 DEF CancelReminders
<1>3. PICK next \in {"dependents", "delete", "schedule", "commit"} :
         /\ pc' = [pc EXCEPT ![c] = next]
         /\ call[c].op = "status" <=> next = "dependents"
         /\ call[c].op = "delete" <=> next = "delete"
         /\ call[c].op = "archive" => next = "commit"
         /\ call[c].op = "details" =>
               IF new.due # 0 /\ Active(new) THEN next = "schedule" ELSE next = "commit"
  BY <1>1 DEF CancelReminders, Goto
<1> HIDE DEF new
<1>4. /\ DOMAIN remind[c] = {} /\ (call[c].op # "delete" => t \in DOMAIN write[c])
      /\ call[c].op = "status" => write[c][t].status = "COMPLETED"
      /\ call[c].op = "archive" => write[c][t].archived
      /\ call[c].op = "details" => new = write[c][t]
  BY <1>1, <1>2 DEF IInv, Transaction, Progress, Reminds, Rewrites, Versioned, new
<1>5. Shape'
  <2>1. pc' \in [Clients -> Steps] /\ call' \in [Clients -> Call \cup {NoCall}]
    BY <1>2, <1>3 DEF IInv, Shape, Steps
  <2>2. write' = [d \in Clients |-> write'[d]] /\ remind' = [d \in Clients |-> remind'[d]]
    BY <1>2 DEF IInv, Shape
  <2> QED
    BY <1>2, <2>1, <2>2 DEF IInv, Shape
<1>6. \A d \in Clients \ {c} : Same(d)
  BY <1>2, <1>3 DEF IInv, Shape, Same
<1>7. /\ call'[c] = call[c] /\ pc'[c] = next /\ write'[c] = write[c]
      /\ enqueued'[c] = enqueued[c] /\ entry'[c] = entry[c]
      /\ UNCHANGED <<row, reminder, raced, history>>
  BY <1>2, <1>3 DEF IInv, Shape, table
<1>8. DOMAIN remind'[c] \subseteq {t} /\ Will(c, t)' = 0 /\ \A x \in DOMAIN remind'[c] : remind'[c][x] = 0
  <2>1. CASE reminder[t] = 0
    BY <1>2, <1>4, <1>7, <2>1 DEF Will
  <2>2. CASE reminder[t] # 0
    <3>1. remind'[c] = Put(remind[c], t, 0)
      BY <1>2, <2>2 DEF IInv, Shape
    <3> QED
      BY <1>4, <3>1 DEF Put, Will
  <2> QED
    BY <2>1, <2>2
<1>9. Transaction(c)'
  <2>1. Progress(c)'
    BY <1>1, <1>2, <1>3, <1>7, <1>8 DEF IInv, Transaction, Progress, Paths, Versioned, Archiving
  <2>2. \A x \in DOMAIN write'[c] : Rewrites(c, x)'
    BY <1>7 DEF IInv, Transaction, Rewrites
  <2>3. Records(c)' /\ Announces(c)' /\ Saw(c)'
    BY <1>1, <1>2, <1>3, <1>7 DEF IInv, Transaction, Records, Announces, Saw
  <2>4. Reminds(c)'
    <3>1. Reopened(t)' = Reopened(t) /\ Reopens(c, t)' = Reopens(c, t)
      BY <1>7 DEF Reopened, Reopens
    <3>2. call[c].op \in {"details", "delete"} /\ t \notin raced => row[t] = call[c].old
      BY <1>1 DEF IInv, Transaction, Reminds, Archiving
    <3>3. next = "schedule" => write[c][t].due # 0 /\ Active(write[c][t])
      BY <1>1, <1>3, <1>4
    <3>4. next = "commit" /\ Active(write[c][t]) => write[c][t].due = 0
      BY <1>1, <1>3, <1>4 DEF Active
    <3> QED
      BY <1>1, <1>3, <1>4, <1>7, <1>8, <3>1, <3>2, <3>3, <3>4 DEF Reminds, Archiving
  <2> QED
    BY <2>1, <2>2, <2>3, <2>4 DEF Transaction
<1> QED
  BY <1>2, <1>5, <1>6, <1>7, <1>9, StepKeeps

LEMMA ScheduleRemindersKeeps ==
    ASSUME IInv, NEW c \in Clients, ScheduleReminders(c)
    PROVE  IInv'
<1>1. PICK t \in Tasks : t = call[c].on /\ call[c] \in Call /\ call[c].op \in {"details", "unarchive"}
  BY Where DEF ScheduleReminders, Call
<1>2. /\ pc[c] = "schedule" /\ UNCHANGED <<table, call, write, enqueued, entry, todo, eval>>
      /\ remind' = [remind EXCEPT ![c] = Put(remind[c], t, write[c][t].due)]
      /\ pc' = [pc EXCEPT ![c] = "commit"]
  BY <1>1 DEF ScheduleReminders, Goto
<1>3. /\ DOMAIN remind[c] \subseteq {t} /\ t \in DOMAIN write[c]
      /\ write[c][t].due # 0 /\ Active(write[c][t]) /\ write[c][t].due \in Dues \cup {0}
  BY <1>1, <1>2 DEF IInv, Transaction, Progress, Reminds, Rewrites, Versioned, Archiving, Row
<1>4. Shape'
  <2>1. pc' \in [Clients -> Steps] /\ call' \in [Clients -> Call \cup {NoCall}]
    BY <1>2 DEF IInv, Shape, Steps
  <2>2. write' = [d \in Clients |-> write'[d]] /\ remind' = [d \in Clients |-> remind'[d]]
    BY <1>2 DEF IInv, Shape
  <2> QED
    BY <1>2, <2>1, <2>2 DEF IInv, Shape
<1>5. \A d \in Clients \ {c} : Same(d)
  BY <1>2 DEF IInv, Shape, Same
<1>6. /\ call'[c] = call[c] /\ pc'[c] = "commit" /\ write'[c] = write[c]
      /\ enqueued'[c] = enqueued[c] /\ entry'[c] = entry[c]
      /\ remind'[c] = Put(remind[c], t, write[c][t].due)
      /\ UNCHANGED <<row, reminder, raced, history>>
  BY <1>2 DEF IInv, Shape, table
<1>7. DOMAIN remind'[c] = {t} /\ remind'[c][t] = write[c][t].due /\ Will(c, t)' = write[c][t].due
  BY <1>3, <1>6 DEF Put, Will
<1>8. Transaction(c)'
  <2>1. Progress(c)'
    <3>1. Progress(c) /\ call[c].op # "none" /\ ~Archiving(c) /\ call[c].op # "delete"
      BY <1>1 DEF IInv, Transaction, Archiving
    <3>2. "commit" \in Paths(call[c].op)
      BY <1>1 DEF Paths
    <3> QED
      BY <1>1, <1>3, <1>6, <1>7, <3>1, <3>2 DEF Progress, Archiving
  <2>2. \A x \in DOMAIN write'[c] : Rewrites(c, x)'
    BY <1>6 DEF IInv, Transaction, Rewrites
  <2>3. Records(c)' /\ Announces(c)' /\ Saw(c)'
    BY <1>1, <1>2, <1>6 DEF IInv, Transaction, Records, Announces, Saw
  <2>4. Reminds(c)'
    <3>1. call[c].op \in {"details", "delete"} /\ t \notin raced => row[t] = call[c].old
      BY <1>1 DEF IInv, Transaction, Reminds, Archiving
    <3> QED
      BY <1>1, <1>3, <1>6, <1>7, <3>1 DEF Reminds, Archiving
  <2> QED
    BY <2>1, <2>2, <2>3, <2>4 DEF Transaction
<1> QED
  BY <1>2, <1>4, <1>5, <1>6, <1>8, StepKeeps

LEMMA DeleteKeeps ==
    ASSUME IInv, NEW c \in Clients, Delete(c)
    PROVE  IInv'
<1>1. PICK t \in Tasks : t = call[c].on /\ call[c] \in Call /\ call[c].op = "delete"
  BY Where DEF Delete, Call
<1>2. /\ pc[c] = "delete" /\ UNCHANGED <<table, call, remind, enqueued, entry, todo, eval>>
      /\ pc' = [pc EXCEPT ![c] = "commit"] /\ ~Locked(c, t)
      /\ IF row[t].live THEN WriteRow(c, t, [row[t] EXCEPT !.live = FALSE]) ELSE UNCHANGED write
  BY <1>1 DEF Delete, Goto
<1>3. row[t] \in Row /\ DOMAIN write[c] = {} /\ DOMAIN remind[c] \subseteq {t}
  BY <1>1, <1>2 DEF IInv, TypeTable, Transaction, Progress, Archiving
<1>4. PICK gone \in Row : gone = [row[t] EXCEPT !.live = FALSE]
  <2>1. [row[t] EXCEPT !.live = FALSE] \in Row
    BY <1>3 DEF Row
  <2> QED
    BY <2>1
<1>5. /\ ~gone.live /\ gone.version = row[t].version /\ gone.status = row[t].status
      /\ gone.archived = row[t].archived /\ gone.due = row[t].due
  BY <1>3, <1>4 DEF Row
<1>6. Shape'
  <2>1. pc' \in [Clients -> Steps] /\ call' \in [Clients -> Call \cup {NoCall}]
    BY <1>2 DEF IInv, Shape, Steps
  <2>2. write' = [d \in Clients |-> write'[d]] /\ remind' = [d \in Clients |-> remind'[d]]
    BY <1>2 DEF IInv, Shape, WriteRow
  <2> QED
    BY <1>2, <2>1, <2>2 DEF IInv, Shape
<1>7. \A d \in Clients \ {c} : Same(d)
  BY <1>2 DEF IInv, Shape, Same, WriteRow
<1>8. /\ call'[c] = call[c] /\ pc'[c] = "commit" /\ remind'[c] = remind[c]
      /\ enqueued'[c] = enqueued[c] /\ entry'[c] = entry[c]
      /\ UNCHANGED <<row, reminder, raced, history>>
  BY <1>2 DEF IInv, Shape, table
<1>9. \/ row[t].live /\ DOMAIN write'[c] = {t} /\ write'[c][t] = gone
      \/ ~row[t].live /\ DOMAIN write'[c] = {}
  <2>1. CASE row[t].live
    <3>1. write'[c] = Put(write[c], t, gone)
      BY <1>2, <1>4, <2>1 DEF IInv, Shape, WriteRow
    <3> QED
      BY <1>3, <2>1, <3>1 DEF Put
  <2>2. CASE ~row[t].live
    BY <1>2, <1>3, <2>2
  <2> QED
    BY <2>1, <2>2
<1>10. Transaction(c)'
  <2>1. Progress(c)'
    BY <1>1, <1>2, <1>3, <1>8, <1>9 DEF IInv, Transaction, Progress, Paths, Versioned, Archiving
  <2>2. \A x \in DOMAIN write'[c] : Rewrites(c, x)'
    BY <1>1, <1>5, <1>8, <1>9 DEF Rewrites, Versioned
  <2>3. Records(c)' /\ Announces(c)' /\ Saw(c)'
    BY <1>1, <1>2, <1>8 DEF IInv, Transaction, Records, Announces, Saw, Versioned
  <2>4. Reminds(c)'
    <3>1. t \notin raced => row[t] = call[c].old /\ Will(c, t) = 0
      BY <1>1, <1>2 DEF IInv, Transaction, Reminds, Archiving
    <3>2. Will(c, t)' = Will(c, t) /\ ~Active(gone)
      BY <1>5, <1>8 DEF Will, Active
    <3>3. \A x \in DOMAIN remind[c] : remind[c][x] \in Dues \cup {0} /\ remind[c][x] = 0
      BY <1>1 DEF IInv, Transaction, Reminds
    <3> QED
      BY <1>1, <1>8, <1>9, <3>1, <3>2, <3>3 DEF Reminds, Archiving
  <2> QED
    BY <2>1, <2>2, <2>3, <2>4 DEF Transaction
<1> QED
  BY <1>2, <1>6, <1>7, <1>9, <1>10, StepKeeps

LEMMA ArchiveRowKeeps ==
    ASSUME IInv, NEW c \in Clients, ArchiveRow(c)
    PROVE  IInv'
<1>1. pc[c] = "rows" /\ call[c] \in Call /\ Archiving(c)
  BY Where DEF ArchiveRow
<1>2. /\ UNCHANGED <<table, call, remind, enqueued, entry, eval>>
      /\ DOMAIN remind[c] = {} /\ DOMAIN write[c] \subseteq Tasks
  BY <1>1 DEF ArchiveRow, IInv, Transaction, Progress
<1>3. PICK next \in {"rows", "commit"} : pc' = [pc EXCEPT ![c] = next]
  <2>1. UNCHANGED pc => pc' = [pc EXCEPT ![c] = "rows"]
    BY <1>1 DEF IInv, Shape
  <2> QED
    BY <2>1 DEF ArchiveRow, Goto
<1>4. todo' \in [Clients -> SUBSET Tasks]
  <2>1. todo \in [Clients -> SUBSET Tasks]
    BY DEF IInv, Shape
  <2>2. UNCHANGED todo \/ \E t : todo' = [todo EXCEPT ![c] = todo[c] \ {t}]
    BY DEF ArchiveRow
  <2>3. \A t : todo[c] \ {t} \in SUBSET Tasks
    BY <2>1
  <2> QED
    BY <2>1, <2>2, <2>3
<1>5. \/ UNCHANGED write
      \/ \E t \in Tasks, b \in BOOLEAN :
            row[t].live /\ ~Locked(c, t) /\ WriteRow(c, t, [row[t] EXCEPT !.archived = b])
  <2>1. todo[c] \subseteq Tasks
    BY DEF IInv, Shape
  <2> QED
    BY <2>1 DEF ArchiveRow
<1>6. Shape'
  <2>1. pc' \in [Clients -> Steps] /\ call' \in [Clients -> Call \cup {NoCall}]
    BY <1>2, <1>3 DEF IInv, Shape, Steps
  <2>2. write' = [d \in Clients |-> write'[d]] /\ remind' = [d \in Clients |-> remind'[d]]
    BY <1>2, <1>5 DEF IInv, Shape, WriteRow
  <2> QED
    BY <1>2, <1>4, <2>1, <2>2 DEF IInv, Shape
<1>7. \A d \in Clients \ {c} : Same(d)
  BY <1>2, <1>3, <1>5 DEF IInv, Shape, Same, WriteRow
<1>8. /\ call'[c] = call[c] /\ pc'[c] = next /\ remind'[c] = remind[c]
      /\ enqueued'[c] = enqueued[c] /\ entry'[c] = entry[c]
      /\ UNCHANGED <<row, reminder, raced, history>>
  BY <1>2, <1>3 DEF IInv, Shape, table
<1>9. \A x \in DOMAIN write'[c] :
         /\ x \in Tasks /\ (x \in DOMAIN write[c] \/ ~Locked(c, x))
         /\ \/ x \in DOMAIN write[c] /\ write'[c][x] = write[c][x]
            \/ row[x].live /\ \E b \in BOOLEAN : write'[c][x] = [row[x] EXCEPT !.archived = b]
  <2>1. CASE UNCHANGED write
    BY <1>2, <2>1
  <2>2. ASSUME NEW t \in Tasks, NEW b \in BOOLEAN, row[t].live, ~Locked(c, t),
               WriteRow(c, t, [row[t] EXCEPT !.archived = b])
        PROVE  <1>9
    <3>1. write'[c] = Put(write[c], t, [row[t] EXCEPT !.archived = b])
      BY <2>2 DEF IInv, Shape, WriteRow
    <3> QED
      BY <1>2, <2>2, <3>1 DEF Put
  <2> QED
    BY <1>5, <2>1, <2>2
<1>10. Transaction(c)'
  <2>1. Progress(c)'
    BY <1>1, <1>2, <1>8, <1>9 DEF IInv, Transaction, Progress, Paths, Versioned, Archiving
  <2>2. \A x \in DOMAIN write'[c] : Rewrites(c, x)'
    <3> SUFFICES ASSUME NEW x \in DOMAIN write'[c] PROVE Rewrites(c, x)'
      OBVIOUS
    <3>1. CASE x \in DOMAIN write[c] /\ write'[c][x] = write[c][x]
      BY <1>8, <3>1 DEF IInv, Transaction, Rewrites
    <3>2. ASSUME NEW b \in BOOLEAN, row[x].live, write'[c][x] = [row[x] EXCEPT !.archived = b]
          PROVE  Rewrites(c, x)'
      <4>1. row[x] \in Row
        BY <1>9 DEF IInv, TypeTable
      <4>2. /\ write'[c][x] \in Row /\ write'[c][x].live /\ write'[c][x].version = row[x].version
            /\ write'[c][x].status = row[x].status /\ write'[c][x].due = row[x].due
        BY <3>2, <4>1 DEF Row
      <4> QED
        BY <1>1, <1>8, <3>2, <4>2 DEF Rewrites, Archiving, Versioned
    <3> QED
      BY <1>9, <3>1, <3>2
  <2>3. Records(c)' /\ Announces(c)' /\ Saw(c)'
    BY <1>1, <1>8 DEF IInv, Transaction, Records, Announces, Saw, Archiving, Versioned
  <2>4. Reminds(c)'
    BY <1>1, <1>2, <1>8 DEF Reminds, Archiving
  <2> QED
    BY <2>1, <2>2, <2>3, <2>4 DEF Transaction
<1> QED
  BY <1>2, <1>6, <1>7, <1>9, <1>10, StepKeeps

-----------------------------------------------------------------------------
(* The commit                                                              *)

\* What becomes of a row.  Versions only grow, and a row whose version has not grown
\* has the status it had.
LEMMA CommittedRow ==
    ASSUME IInv, NEW c \in Clients, Commit(c), NEW x \in Tasks
    PROVE  /\ x \in DOMAIN write[c] => /\ row'[x] = write[c][x] /\ Rewrites(c, x)
                                       /\ Archiving(c) \/ x = call[c].on
           /\ x \notin DOMAIN write[c] => row'[x] = row[x]
           /\ row'[x] \in Row /\ row[x].version <= row'[x].version
           /\ row'[x].version = row[x].version => row'[x].status = row[x].status
<1>1. row'[x] = IF x \in DOMAIN write[c] THEN write[c][x] ELSE row[x]
  BY DEF Commit
<1>2. row[x] \in Row /\ row[x].version \in Nat
  BY DEF IInv, TypeTable, Row
<1>3. x \in DOMAIN write[c] => Rewrites(c, x) /\ (Archiving(c) \/ x = call[c].on)
  BY DEF IInv, Transaction, Progress
<1>4. CASE x \in DOMAIN write[c]
  <2>1. /\ row'[x] = write[c][x] /\ write[c][x] \in Row
        /\ row'[x].version = row[x].version + 1 \/ (/\ row'[x].version = row[x].version
                                                    /\ row'[x].status = row[x].status)
    BY <1>1, <1>3, <1>4 DEF Rewrites, Versioned
  <2> QED
    BY <1>2, <1>3, <1>4, <2>1
<1>5. CASE x \notin DOMAIN write[c]
  BY <1>1, <1>2, <1>5
<1> QED
  BY <1>4, <1>5

\* The other transactions: what they have written nobody else has, and what they have
\* read has become an older version or is in raced.
LEMMA CommitKeepsOthers ==
    ASSUME IInv, NEW c \in Clients, Commit(c), NEW d \in Clients \ {c}
    PROVE  Transaction(d)'
<1> DEFINE t == call[d].on
<1>1. Same(d)
  BY EndIsClean DEF IInv, Commit
<1>2. \A x \in DOMAIN write[d] : row'[x] = row[x] /\ x \in Tasks /\ x \notin DOMAIN write[c]
  <2>1. \A x \in DOMAIN write[d] : x \in Tasks /\ x \notin DOMAIN write[c]
    <3>1. call[d].op # "none" => call[d].on \in Tasks
      BY Where DEF IInv, Shape, Call, NoCall
    <3> QED
      BY <3>1 DEF IInv, OneWriter, Transaction, Progress
  <2> QED
    BY <2>1, CommittedRow
<1>3. call[d] # NoCall => call[d] \in Call /\ t \in Tasks /\ call[d].op # "none"
  BY DEF IInv, Shape, Call, AllOps
<1>4. call[d].op # "none" => call[d] # NoCall
  BY DEF NoCall
<1>5. Progress(d)'
  <2>1. CASE call[d].op = "delete" /\ pc[d] = "commit" /\ t \notin DOMAIN write[d]
    <3>1. ~row[t].live
      BY <2>1 DEF IInv, Transaction, Progress
    <3>2. ~row'[t].live
      BY <1>3, <1>4, <2>1, <3>1, CommittedRow DEF Rewrites
    <3> QED
      BY <1>1, <3>2 DEF IInv, Transaction, Progress, Archiving, Same
  <2>2. CASE ~(call[d].op = "delete" /\ pc[d] = "commit" /\ t \notin DOMAIN write[d])
    BY <1>1, <2>2 DEF IInv, Transaction, Progress, Archiving, Same
  <2> QED
    BY <2>1, <2>2
<1>6. \A x \in DOMAIN write'[d] : Rewrites(d, x)'
  BY <1>1, <1>2 DEF IInv, Transaction, Rewrites, Same
<1>7. Records(d)'
  <2>1. call[d].op = "status" /\ pc[d] # "update" => row'[t] = row[t]
    BY <1>2 DEF IInv, Transaction, Progress, Versioned
  <2> QED
    BY <1>1, <2>1 DEF IInv, Transaction, Records, Same
<1>8. Announces(d)'
  BY <1>1 DEF IInv, Transaction, Announces, Same
<1>9. Saw(d)'
  <2> SUFFICES ASSUME call[d] # NoCall
               PROVE  /\ call[d].old.version <= row'[t].version
                      /\ call[d].old.version = row'[t].version => call[d].old.status = row'[t].status
                      /\ call[d].op = "status" => call[d].expected <= call[d].old.version
    BY <1>1 DEF Saw, Same
  <2>1. call[d].old.version \in Nat /\ row[t].version \in Nat /\ row'[t].version \in Nat
    BY <1>3, CommittedRow DEF IInv, TypeTable, Row, Call
  <2>2. /\ row[t].version <= row'[t].version
        /\ row'[t].version = row[t].version => row'[t].status = row[t].status
    BY <1>3, CommittedRow
  <2>3. /\ call[d].old.version <= row[t].version
        /\ call[d].old.version = row[t].version => call[d].old.status = row[t].status
        /\ call[d].op = "status" => call[d].expected <= call[d].old.version
    BY DEF IInv, Transaction, Saw
  <2>4. /\ call[d].old.version <= row'[t].version
        /\ call[d].old.version = row'[t].version =>
              call[d].old.version = row[t].version /\ row'[t].version = row[t].version
    BY <2>1, <2>2, <2>3
  <2> QED
    BY <2>2, <2>3, <2>4
<1>10. Reminds(d)'
  <2>1. Reminds(d)
    BY DEF IInv, Transaction
  <2>2. CASE call[d].op = "none" \/ Archiving(d) \/ t \in raced'
    BY <1>1, <2>1, <2>2 DEF Reminds, Archiving, Same
  <2>3. CASE call[d].op # "none" /\ ~Archiving(d) /\ t \notin raced' /\ t \notin DOMAIN write[c] \cup DOMAIN remind[c]
    <3>1. /\ t \in Tasks /\ row'[t] = row[t] /\ reminder'[t] = reminder[t] /\ history'[t] = history[t]
          /\ t \notin raced
      BY <1>3, <1>4, <2>3 DEF Commit
    <3>2. Will(d, t)' = Will(d, t) /\ Reopened(t)' = Reopened(t) /\ Reopens(d, t)' = Reopens(d, t)
      BY <1>1, <3>1 DEF Will, Reopened, Reopens, Same
    <3> QED
      BY <1>1, <2>1, <2>3, <3>1, <3>2 DEF Reminds, Archiving, Same
  <2>4. CASE call[d].op # "none" /\ ~Archiving(d) /\ t \notin raced' /\ t \in DOMAIN write[c] \cup DOMAIN remind[c]
    <3>1. ~Archiving(c) /\ ~Overlapped(c, t)
      BY <2>4 DEF Commit
    <3>2. call[c].op \notin {"details", "delete"} /\ call[d].op \notin {"details", "delete"}
      BY <1>4, <2>4, <3>1 DEF Overlapped
    <3>3. t \in DOMAIN write[c]
      BY <2>4, <3>2 DEF IInv, Transaction, Reminds
    <3>4. t \notin DOMAIN write[d]
      BY <1>2, <3>3
    <3>5. call[d].op \in Versioned /\ pc[d] = "update"
      <4>1. call[d].op \in AllOps
        BY <1>3, <1>4, <2>4 DEF Call
      <4> QED
        BY <2>4, <3>2, <3>4, <4>1 DEF IInv, Transaction, Progress, AllOps, Versioned, Archiving
    <3> QED
      BY <1>1, <2>1, <3>2, <3>5 DEF Reminds, Same, Versioned
  <2> QED
    BY <2>2, <2>3, <2>4
<1> QED
  BY <1>5, <1>6, <1>7, <1>8, <1>9, <1>10 DEF Transaction

\* An entry that starts from the status the history led to.
LEMMA ReplaysOneMore ==
    ASSUME NEW h \in Seq(Entries), NEW a \in Statuses, NEW b \in Statuses, Replays(h, a)
    PROVE  Replays(h \o << <<a, b>> >>, b)
<1> DEFINE e == << <<a, b>> >>
           g == h \o e
<1>1. Len(h) \in Nat /\ e \in Seq(Entries) /\ Len(e) = 1 /\ e[1] = <<a, b>>
  BY DEF Entries
<1>2. /\ Len(g) = Len(h) + 1 /\ g[Len(h) + 1] = <<a, b>>
      /\ \A i \in 1..Len(h) : g[i] = h[i]
  BY <1>1
<1>3. g # << >>
  BY <1>1, <1>2
<1>4. CASE h = << >>
  BY <1>2, <1>3, <1>4 DEF Replays
<1>5. CASE h # << >>
  <2>1. Len(h) >= 1
    BY <1>5, <1>1, EmptySeq
  <2>2. h[1][1] = "NOT_STARTED" /\ h[Len(h)][2] = a /\ \A i \in 1..(Len(h) - 1) : h[i][2] = h[i+1][1]
    BY <1>5 DEF Replays
  <2>3. g[1][1] = "NOT_STARTED" /\ g[Len(g)][2] = b
    BY <1>1, <1>2, <2>1, <2>2
  <2>4. \A i \in 1..(Len(g) - 1) : g[i][2] = g[i+1][1]
    <3> SUFFICES ASSUME NEW i \in 1..(Len(g) - 1) PROVE g[i][2] = g[i+1][1]
      OBVIOUS
    <3>1. i \in 1..Len(h)
      BY <1>1, <1>2
    <3>2. CASE i = Len(h)
      <4>1. g[i] = h[i] /\ g[i+1] = <<a, b>>
        BY <1>2, <3>1, <3>2
      <4> QED
        BY <2>2, <3>2, <4>1
    <3>3. CASE i # Len(h)
      <4>1. i \in 1..(Len(h) - 1) /\ i + 1 \in 1..Len(h)
        BY <1>1, <3>1, <3>3
      <4> QED
        BY <1>2, <2>2, <3>1, <4>1
    <3> QED
      BY <3>2, <3>3
  <2> QED
    BY <1>3, <2>3, <2>4 DEF Replays
<1> QED
  BY <1>4, <1>5

LEMMA CommitKeepsHistory ==
    ASSUME IInv, NEW c \in Clients, Commit(c)
    PROVE  HistoryReplays'
<1> SUFFICES ASSUME NEW t \in Tasks, row'[t].live PROVE Replays(history'[t], row'[t].status)
  BY DEF HistoryReplays
<1>1. history[t] \in Seq(Entries) /\ row[t].status \in Statuses /\ pc[c] = "commit"
  BY DEF IInv, TypeTable, Row, Entries, Commit
<1>2. CASE t \notin DOMAIN write[c]
  <2>1. history'[t] = history[t] /\ row'[t] = row[t]
    BY <1>2, CommittedRow DEF Commit
  <2> QED
    BY <2>1 DEF IInv, HistoryReplays
<1>3. CASE t \in DOMAIN write[c]
  <2>1. row'[t] = write[c][t] /\ Rewrites(c, t) /\ (Archiving(c) \/ t = call[c].on)
    BY <1>3, CommittedRow
  <2>2. history'[t] = history[t] \o entry[c]
    BY <1>3, <2>1 DEF Commit
  <2>3. Replays(history[t], row[t].status)
    BY <2>1 DEF IInv, HistoryReplays, Rewrites
  <2>4. CASE call[c].op = "status"
    <3>1. entry[c] = << <<row[t].status, write[c][t].status>> >>
      BY <1>1, <2>1, <2>4 DEF IInv, Transaction, Records, Archiving
    <3>2. write[c][t].status \in Statuses
      BY <2>1 DEF Rewrites, Row
    <3> QED
      BY <1>1, <2>1, <2>2, <2>3, <3>1, <3>2, ReplaysOneMore
  <2>5. CASE call[c].op # "status"
    <3>1. entry[c] = << >> /\ row'[t].status = row[t].status
      BY <2>1, <2>5 DEF IInv, Transaction, Records, Rewrites
    <3>2. history'[t] = history[t]
      BY <1>1, <2>2, <3>1
    <3> QED
      BY <2>3, <3>1, <3>2
  <2> QED
    BY <2>4, <2>5
<1> QED
  BY <1>2, <1>3

\* Where the commit has left a reminder outside raced.
LEMMA CommittedReminder ==
    ASSUME IInv, NEW c \in Clients, Commit(c), NEW t \in Tasks, t \notin raced'
    PROVE  /\ t \notin raced
           /\ t \notin DOMAIN write[c] \cup DOMAIN remind[c] =>
                 row'[t] = row[t] /\ reminder'[t] = reminder[t] /\ history'[t] = history[t]
           /\ t \in DOMAIN write[c] \cup DOMAIN remind[c] =>
                 /\ t = call[c].on /\ call[c].op # "none" /\ ~Archiving(c)
                 /\ reminder'[t] = Will(c, t)
<1>1. /\ t \notin raced
      /\ t \in DOMAIN write[c] \cup DOMAIN remind[c] => ~Archiving(c) /\ ~Overlapped(c, t)
  BY DEF Commit
<1>2. reminder'[t] = IF t \in DOMAIN remind[c] THEN remind[c][t] ELSE reminder[t]
  BY DEF Commit
<1>3. /\ t \notin DOMAIN write[c] =>
            row'[t] = row[t] /\ history'[t] = history[t]
      /\ t \notin DOMAIN remind[c] => reminder'[t] = reminder[t]
  BY DEF Commit
<1>4. ASSUME t \in DOMAIN write[c] \cup DOMAIN remind[c]
      PROVE  t = call[c].on /\ call[c].op # "none"
  <2>1. pc[c] = "commit" /\ call[c].op # "none"
    BY Where DEF Commit, Call, AllOps
  <2> QED
    BY <1>1, <1>4, <2>1 DEF IInv, Transaction, Progress
<1> QED
  BY <1>1, <1>2, <1>3, <1>4 DEF Will

LEMMA CommitKeepsFit ==
    ASSUME IInv, NEW c \in Clients, Commit(c)
    PROVE  RemindersFitTask'
<1> SUFFICES ASSUME NEW t \in Tasks, t \notin raced', reminder'[t] # 0
             PROVE  Active(row'[t]) /\ row'[t].due = reminder'[t]
  BY DEF RemindersFitTask, Fits, Active
<1>1. CASE t \notin DOMAIN write[c] \cup DOMAIN remind[c]
  <2>1. t \notin raced /\ row'[t] = row[t] /\ reminder'[t] = reminder[t]
    BY <1>1, CommittedReminder
  <2> QED
    BY <2>1 DEF IInv, RemindersFitTask, Fits
<1>2. CASE t \in DOMAIN write[c] \cup DOMAIN remind[c]
  <2>1. /\ t \notin raced /\ t = call[c].on /\ call[c].op # "none" /\ ~Archiving(c)
        /\ reminder'[t] = Will(c, t) /\ pc[c] = "commit"
    BY <1>2, CommittedReminder DEF Commit
  <2>2. Reminds(c)
    BY DEF IInv, Transaction
  <2>3. t \in DOMAIN write[c]
    BY <1>2, <2>1, <2>2 DEF Reminds
  <2>4. row'[t] = write[c][t]
    BY <2>3, CommittedRow
  <2> QED
    BY <2>1, <2>2, <2>3, <2>4 DEF Reminds
<1> QED
  BY <1>1, <1>2

LEMMA Extends ==
    ASSUME NEW h \in Seq(Entries), NEW e \in Seq(Entries)
    PROVE  \A i \in 1..Len(h) : i \in 1..Len(h \o e) /\ (h \o e)[i] = h[i]
<1>1. /\ Len(h) \in Nat /\ Len(e) \in Nat /\ Len(h \o e) = Len(h) + Len(e)
      /\ \A i \in 1..Len(h \o e) : (h \o e)[i] = IF i <= Len(h) THEN h[i] ELSE e[i - Len(h)]
  BY ConcatProperties
<1> QED
  BY <1>1

LEMMA CommitKeepsReminders ==
    ASSUME IInv, NEW c \in Clients, Commit(c)
    PROVE  ReminderLostOnlyByReopening'
<1> SUFFICES ASSUME NEW t \in Tasks, t \notin raced', Active(row'[t]), ~Reopened(t)'
             PROVE  reminder'[t] = row'[t].due
  BY DEF ReminderLostOnlyByReopening, Active
<1>1. CASE t \notin DOMAIN write[c] \cup DOMAIN remind[c]
  <2>1. t \notin raced /\ row'[t] = row[t] /\ reminder'[t] = reminder[t] /\ history'[t] = history[t]
    BY <1>1, CommittedReminder
  <2>2. ~Reopened(t)
    BY <2>1 DEF Reopened
  <2> QED
    BY <2>1, <2>2 DEF IInv, ReminderLostOnlyByReopening
<1>2. CASE t \in DOMAIN write[c] \cup DOMAIN remind[c]
  <2>1. /\ t \notin raced /\ t = call[c].on /\ call[c].op # "none" /\ ~Archiving(c)
        /\ reminder'[t] = Will(c, t) /\ pc[c] = "commit"
    BY <1>2, CommittedReminder DEF Commit
  <2>2. Reminds(c) /\ Progress(c) /\ Records(c)
    BY DEF IInv, Transaction
  <2>3. t \in DOMAIN write[c]
    <3>1. CASE call[c].op # "delete"
      BY <1>2, <2>1, <2>2, <3>1 DEF Reminds
    <3>2. CASE call[c].op = "delete" /\ t \notin DOMAIN write[c]
      <4>1. ~row[t].live /\ row'[t] = row[t]
        BY <2>1, <2>2, <3>2, CommittedRow DEF Progress
      <4> QED
        BY <4>1 DEF Active
    <3> QED
      BY <3>1, <3>2
  <2>4. row'[t] = write[c][t]
    BY <2>3, CommittedRow
  <2>5. history'[t] = history[t] \o entry[c]
    BY <2>3, <2>4 DEF Commit, Active
  <2>6. ~Reopened(t) /\ ~Reopens(c, t)
    <3>1. history[t] \in Seq(Entries) /\ entry[c] \in Seq(Entries)
      BY DEF IInv, TypeTable, Shape, Entries
    <3>2. \A i \in 1..Len(history[t]) : i \in 1..Len(history'[t]) /\ history'[t][i] = history[t][i]
      <4>1. \A i \in 1..Len(history[t]) : /\ i \in 1..Len(history[t] \o entry[c])
                                          /\ (history[t] \o entry[c])[i] = history[t][i]
        BY <3>1, Extends
      <4> QED
        BY <2>5, <4>1
    <3>3. ~Reopened(t)
      BY <3>2 DEF Reopened
    <3>4. ASSUME Reopens(c, t) PROVE FALSE
      <4>1. entry[c] = << <<row[t].status, write[c][t].status>> >> /\ row[t].status = "COMPLETED"
        BY <2>1, <2>2, <3>4 DEF Records, Reopens
      <4>2. write[c][t].status # "COMPLETED"
        BY <2>4 DEF Active
      <4>3. Len(history[t]) + 1 \in 1..Len(history'[t]) /\ history'[t][Len(history[t]) + 1] = entry[c][1]
        BY <2>5, <3>1, <4>1
      <4>4. entry[c][1][1] = "COMPLETED" /\ entry[c][1][2] # "COMPLETED"
        BY <4>1, <4>2
      <4> QED
        BY <4>3, <4>4 DEF Reopened
    <3> QED
      BY <3>3, <3>4
  <2> QED
    BY <2>1, <2>2, <2>3, <2>4, <2>6 DEF Reminds
<1> QED
  BY <1>1, <1>2

LEMMA CommitKeeps ==
    ASSUME IInv, NEW c \in Clients, Commit(c)
    PROVE  IInv'
<1>1. Shape /\ End(c)
  BY DEF IInv, Commit
<1>2. Shape' /\ Transaction(c)' /\ DOMAIN write'[c] = {} /\ \A d \in Clients \ {c} : Same(d)
  BY <1>1, EndIsClean
<1>3. \A d \in Clients : Transaction(d)'
  BY <1>2, CommitKeepsOthers
<1>4. OneWriter'
  BY <1>2 DEF IInv, OneWriter, Same
<1>5. DOMAIN write[c] \subseteq Tasks /\ DOMAIN remind[c] \subseteq Tasks
  <2>1. call[c] \in Call
    BY Where DEF Commit
  <2> QED
    BY <2>1 DEF IInv, Transaction, Progress, Call
<1>6. TypeTable'
  <2>1. row' \in [Tasks -> Row]
    BY CommittedRow DEF Commit
  <2>2. history' \in [Tasks -> Seq(Statuses \X Statuses)]
    <3>1. entry[c] \in Seq(Statuses \X Statuses) /\ \A t \in Tasks : history[t] \in Seq(Statuses \X Statuses)
      BY DEF IInv, Shape, TypeTable, Entries
    <3>2. \A t \in Tasks : history[t] \o entry[c] \in Seq(Statuses \X Statuses)
      BY <3>1
    <3>3. << >> \in Seq(Statuses \X Statuses)
      OBVIOUS
    <3> QED
      BY <3>1, <3>2, <3>3 DEF Commit
  <2>3. reminder' \in [Tasks -> Dues \cup {0}]
    BY DEF IInv, TypeTable, Transaction, Reminds, Commit
  <2>4. events' \subseteq Event /\ deps' \subseteq Depends /\ raced' \subseteq Tasks
    BY <1>5 DEF IInv, TypeTable, Shape, Commit
  <2>5. moved' \in [Clients -> SUBSET Tasks]
    <3> DEFINE Over(d) == {t \in Tasks : Overtaken(d, t)}
    <3>1. moved' = [d \in Clients |-> IF d = c THEN {} ELSE moved[d] \cup Over(d)]
      BY DEF Commit, Move
    <3>2. \A d \in Clients : Over(d) \subseteq Tasks /\ moved[d] \subseteq Tasks
      BY DEF IInv, TypeTable
    <3> HIDE DEF Over
    <3> QED
      BY <3>1, <3>2
  <2> QED
    BY <2>1, <2>2, <2>3, <2>4, <2>5 DEF TypeTable
<1>7. EventsSeen'
  <2> SUFFICES ASSUME NEW e \in events' PROVE e[3] <= row'[e[4]].version
    BY DEF EventsSeen
  <2>1. CASE e \in events
    <3>1. e[3] <= row[e[4]].version /\ e[3] \in Nat /\ e[4] \in Tasks
      BY <2>1 DEF IInv, EventsSeen, TypeTable, Event
    <3>2. /\ row[e[4]].version <= row'[e[4]].version
          /\ row[e[4]].version \in Nat /\ row'[e[4]].version \in Nat
      BY <3>1, CommittedRow DEF IInv, TypeTable, Row
    <3> QED
      BY <3>1, <3>2
  <2>2. CASE e \in enqueued[c]
    <3>1. e[4] \in DOMAIN write[c] /\ e[4] \in Tasks /\ e[3] = write[c][e[4]].version
      BY <1>5, <2>2 DEF IInv, Transaction, Announces
    <3>2. row'[e[4]] = write[c][e[4]] /\ row'[e[4]].version \in Nat
      BY <3>1, CommittedRow DEF Row
    <3> QED
      BY <3>1, <3>2
  <2> QED
    BY <2>1, <2>2 DEF Commit
<1>8. HistoryReplays' /\ RemindersFitTask' /\ ReminderLostOnlyByReopening'
  BY CommitKeepsHistory, CommitKeepsFit, CommitKeepsReminders
<1> QED
  BY <1>2, <1>3, <1>4, <1>6, <1>7, <1>8 DEF IInv

-----------------------------------------------------------------------------
(* The theorems                                                            *)

LEMMA NextIInv == IInv /\ [Next]_vars => IInv'
<1> SUFFICES ASSUME IInv, [Next]_vars PROVE IInv'
  OBVIOUS
<1>1. ASSUME NEW c \in Clients, NEW o \in Ops, NEW t \in Tasks, Begin(c, o, t) PROVE IInv'
  BY <1>1, ReadKeeps, SetArchivedKeeps, ArchiveProjectKeeps DEF Begin
<1>2. ASSUME NEW c \in Clients, UpdateStatus(c) \/ UpdateField(c) \/ UpdateDetails(c) PROVE IInv'
  BY <1>2, UpdateStatusKeeps, UpdateFieldKeeps, UpdateDetailsKeeps
<1>3. ASSUME NEW c \in Clients, Refused(c) \/ Abort(c) PROVE IInv'
  BY <1>3, EndKeeps, AbortKeeps DEF Refused
<1>4. ASSUME NEW c \in Clients, CancelReminders(c) \/ ScheduleReminders(c) PROVE IInv'
  BY <1>4, CancelRemindersKeeps, ScheduleRemindersKeeps
<1>5. ASSUME NEW c \in Clients,
             \/ ReadDependents(c) \/ ReadDependent(c) \/ ReadPrereqs(c)
             \/ CheckPrereq(c) \/ Unblock(c)
      PROVE  IInv'
  BY <1>5, ReadDependentsKeeps, ReadDependentKeeps, ReadPrereqsKeeps, CheckPrereqKeeps, UnblockKeeps
<1>6. ASSUME NEW c \in Clients, Delete(c) \/ ArchiveRow(c) \/ Commit(c) PROVE IInv'
  BY <1>6, DeleteKeeps, ArchiveRowKeeps, CommitKeeps
<1>7. CASE UNCHANGED vars
  <2>1. \A d \in Clients : Same(d)
    BY <1>7 DEF vars, buffer, Same
  <2>2. UNCHANGED table /\ Shape'
    BY <1>7 DEF IInv, vars, buffer, Shape
  <2>3. \A d \in Clients : Transaction(d)'
    BY <2>1, <2>2, SameTransaction DEF IInv, table
  <2>4. OneWriter' /\ TypeTable' /\ EventsSeen'
    BY <2>1, <2>2 DEF IInv, OneWriter, Same, TypeTable, EventsSeen, table
  <2>5. HistoryReplays' /\ RemindersFitTask' /\ ReminderLostOnlyByReopening'
    BY <2>2 DEF IInv, table, HistoryReplays, RemindersFitTask, ReminderLostOnlyByReopening, Fits, Reopened
  <2> QED
    BY <2>2, <2>3, <2>4, <2>5 DEF IInv
<1>8. CASE Link
  BY <1>8, LinkKeeps
<1> QED
  BY <1>1, <1>2, <1>3, <1>4, <1>5, <1>6, <1>7, <1>8 DEF Next

\* The inductive invariant holds in every reachable state.
LEMMA Inductive == Spec => []IInv
  BY InitIInv, NextIInv, PTL DEF Spec

\* The tables and the transactions keep their types.
THEOREM TypeCorrect == Spec => []TypeOK
<1>1. IInv => TypeOK
  <2> SUFFICES ASSUME IInv PROVE TypeTransactions
    BY DEF IInv, TypeOK
  <2> SUFFICES ASSUME NEW c \in Clients
               PROVE  /\ DOMAIN write[c] \subseteq Tasks /\ DOMAIN remind[c] \subseteq Tasks
                      /\ \A t \in DOMAIN write[c] : write[c][t] \in Row
                      /\ \A t \in DOMAIN remind[c] : remind[c][t] \in Dues \cup {0}
                      /\ enqueued[c] \subseteq Event /\ entry[c] \in Seq(Statuses \X Statuses)
                      /\ todo[c] \subseteq Tasks
                      /\ eval[c].of \subseteq Tasks /\ eval[c].prereqs \subseteq Tasks
    BY DEF IInv, Shape, TypeTransactions
  <2>1. pc[c] # "idle" => call[c].on \in Tasks
    BY Where DEF Call
  <2>2. DOMAIN write[c] \subseteq Tasks /\ DOMAIN remind[c] \subseteq Tasks
    <3>1. CASE pc[c] = "idle"
      BY <3>1, Where
    <3>2. CASE pc[c] # "idle"
      BY <2>1, <3>2 DEF IInv, Transaction, Progress
    <3> QED
      BY <3>1, <3>2
  <2>3. /\ \A t \in DOMAIN write[c] : write[c][t] \in Row
        /\ \A t \in DOMAIN remind[c] : remind[c][t] \in Dues \cup {0}
    BY DEF IInv, Transaction, Rewrites, Reminds
  <2>4. /\ enqueued[c] \subseteq Event /\ entry[c] \in Seq(Statuses \X Statuses)
        /\ todo[c] \subseteq Tasks
        /\ eval[c].of \subseteq Tasks /\ eval[c].prereqs \subseteq Tasks
    BY DEF IInv, Shape, Entries
  <2> QED
    BY <2>2, <2>3, <2>4
<1> QED
  BY <1>1, Inductive, PTL

\* task_history of a task that is there replays to the status it has: the status that
\* update_status read before its compare-and-swap is the one it replaces.
THEOREM History == Spec => []HistoryReplays
<1>1. IInv => HistoryReplays
  BY DEF IInv
<1> QED
  BY <1>1, Inductive, PTL

\* The version in a key is the one that the transaction writes, later than the row's, and
\* no other transaction writes that row.
LEMMA FreshKeys ==
    ASSUME IInv
    PROVE  EventKeysFresh
<1> SUFFICES ASSUME NEW c \in Clients, NEW e \in enqueued[c]
               PROVE  e \notin events /\ \A d \in Clients \ {c} : e \notin enqueued[d]
  BY DEF EventKeysFresh
<1>1. /\ call[c].op \in Versioned /\ e[4] \in DOMAIN write[c] /\ e[3] = write[c][e[4]].version
        /\ write[c][e[4]].version = row[e[4]].version + 1
  BY DEF IInv, Transaction, Announces, Rewrites
<1>2. e[3] \in Nat /\ e[4] \in Tasks
  BY DEF IInv, Shape, Event
<1>3. row[e[4]].version \in Nat
  BY <1>2 DEF IInv, TypeTable, Row
<1>4. e \notin events
  BY <1>1, <1>2, <1>3 DEF IInv, EventsSeen
<1>5. \A d \in Clients \ {c} : e \notin enqueued[d]
  BY <1>1 DEF IInv, Transaction, Announces, OneWriter
<1> QED
  BY <1>4, <1>5

\* Idempotency keys are fresh.
THEOREM KeysFresh == Spec => []EventKeysFresh
  BY FreshKeys, Inductive, PTL

\* Outside raced, a pending reminder is of an active task that is due when it says.
THEOREM RemindersFit == Spec => []RemindersFitTask
<1>1. IInv => RemindersFitTask
  BY DEF IInv
<1> QED
  BY <1>1, Inductive, PTL

\* Outside raced, an active task that was never reopened has its reminders.
THEOREM RemindersKept == Spec => []ReminderLostOnlyByReopening
<1>1. IInv => ReminderLostOnlyByReopening
  BY DEF IInv
<1> QED
  BY <1>1, Inductive, PTL

-----------------------------------------------------------------------------
(* Unblocked dependents.  What update_status finds out about a dependent,  *)
(* one SELECT after the other, is still so at its commit, or the dependent *)
(* is in "moved".                                                          *)

\* Dependencies are deleted with their tasks.
DepsLive == \A p \in deps : row[p[1]].live /\ row[p[2]].live

Completed(p) == row[p].status = "COMPLETED"

\* Nothing blocks d but, perhaps, the task that c works on.
Clear(c, d) == Waiting(d) /\ \A p \in Prereqs(d) \ {call[c].on} : Completed(p)

\* The task that c works on is all that blocks d.
Freed(c, d) == <<d, call[c].on>> \in deps /\ Clear(c, d)

Announced(c, d) == \E e \in enqueued[c] : e[1] = "task_unblocked" /\ e[2] = d

\* Who is announced has been evaluated, and found clear.
Rightly(c) ==
    \A d \in Tasks : Announced(c, d) =>
        /\ call[c].op = "status" /\ pc[c] \in Evaluating
        /\ write[c][call[c].on].status = "COMPLETED"
        /\ d \notin todo[c] /\ d \notin eval[c].of /\ d # call[c].on
        /\ d \in moved[c] \/ Clear(c, d)

\* The dependent in evaluation, and which of its prerequisites are still to be looked at.
InHand(c) ==
    /\ pc[c] \notin {"prereqs", "check"} => eval[c].of = {}
    /\ pc[c] \notin {"evaluate", "prereqs", "check", "rows"} => todo[c] = {}
    /\ pc[c] \in {"evaluate", "prereqs", "check"} => call[c].on \notin todo[c] \cup eval[c].of
    /\ pc[c] \in {"prereqs", "check"} =>
          \E d \in Tasks : eval[c].of = {d} /\ d \notin todo[c] /\ (d \in moved[c] \/ Waiting(d))
    /\ pc[c] = "check" => \A d \in eval[c].of \ moved[c] :
          /\ eval[c].prereqs \subseteq Prereqs(d) \ {call[c].on}
          /\ \A p \in Prereqs(d) \ {call[c].on} : p \in eval[c].prereqs \/ Completed(p)

\* Who is freed is announced, or its turn is still to come.
NoneMissed(c) ==
    /\ pc[c] \in Evaluating
    /\ write[c][call[c].on].status = "COMPLETED" /\ row[call[c].on].status # "COMPLETED"
    => \A d \in Tasks \ moved[c] : Freed(c, d) =>
          \/ Announced(c, d)
          \/ pc[c] # "commit" /\ d \in todo[c]
          \/ d \in eval[c].of

\* The status that update_status read first is the one it replaces.
Replaces(c) == pc[c] # "update" => row[call[c].on].status = call[c].old.status

Looked(c) ==
    /\ Rightly(c) /\ InHand(c)
    /\ call[c].op = "status" => NoneMissed(c) /\ Replaces(c)

UInv == IInv /\ DepsLive /\ \A c \in Clients : Looked(c)

-----------------------------------------------------------------------------
(* What a step of one transaction leaves of another                        *)

Idle(d) == Same(d) /\ todo'[d] = todo[d] /\ eval'[d] = eval[d]

\* Nothing happens to d or to the tables.
LEMMA IdleLooked ==
    ASSUME NEW d \in Clients, Looked(d), Idle(d), moved'[d] = moved[d], UNCHANGED <<row, deps>>
    PROVE  Looked(d)'
<1>1. /\ pc'[d] = pc[d] /\ call'[d] = call[d] /\ write'[d] = write[d] /\ enqueued'[d] = enqueued[d]
      /\ todo'[d] = todo[d] /\ eval'[d] = eval[d]
  BY DEF Idle, Same
<1>2. \A t : /\ Waiting(t)' = Waiting(t) /\ Prereqs(t)' = Prereqs(t)
             /\ Completed(t)' = Completed(t) /\ Announced(d, t)' = Announced(d, t)
  BY <1>1 DEF Waiting, Prereqs, Completed, Announced
<1>3. \A t : Clear(d, t)' = Clear(d, t) /\ Freed(d, t)' = Freed(d, t)
  BY <1>1, <1>2 DEF Clear, Freed
<1>4. Rightly(d)'
  BY <1>1, <1>2, <1>3 DEF Looked, Rightly
<1>5. InHand(d)'
  BY <1>1, <1>2 DEF Looked, InHand
<1>6. call[d].op = "status" => NoneMissed(d)' /\ Replaces(d)'
  BY <1>1, <1>2, <1>3 DEF Looked, NoneMissed, Replaces
<1> QED
  BY <1>1, <1>4, <1>5, <1>6 DEF Looked

\* Another transaction changes the tables while d stands still: of a task that is not moved
\* by that, all that d has read is as it was.
LEMMA OvertakenLooked ==
    ASSUME UInv, NEW d \in Clients, Idle(d),
           moved'[d] = moved[d] \cup {t \in Tasks : Overtaken(d, t)},
           call[d].op = "status" /\ pc[d] # "update" => row'[call[d].on] = row[call[d].on]
    PROVE  Looked(d)'
<1>1. /\ pc'[d] = pc[d] /\ call'[d] = call[d] /\ write'[d] = write[d] /\ enqueued'[d] = enqueued[d]
      /\ todo'[d] = todo[d] /\ eval'[d] = eval[d] /\ Looked(d)
  BY DEF Idle, Same, UInv
<1>2. \A t : Announced(d, t)' = Announced(d, t)
  BY <1>1 DEF Announced
<1>3. pc[d] \in {"prereqs", "check"} => call[d].op = "status"
  BY Where DEF UInv
<1>4. ASSUME NEW t \in Tasks, t \notin moved'[d], call[d].op = "status", pc[d] \in Evaluating, t \notin todo[d]
      PROVE  /\ t \notin moved[d] /\ Waiting(t)' = Waiting(t)
             /\ ~(pc[d] = "prereqs" /\ t \in eval[d].of) =>
                   /\ Prereqs(t)' = Prereqs(t)
                   /\ \A p \in Prereqs(t) : (p \in eval[d].prereqs /\ t \in eval[d].of)
                                            \/ Completed(p)' = Completed(p)
  <2>1. t \notin moved[d] /\ ~Overtaken(d, t)
    BY <1>4
  <2>2. /\ Waiting(t)' = Waiting(t)
        /\ ~(pc[d] = "prereqs" /\ t \in eval[d].of) =>
              /\ Prereqs(t)' = Prereqs(t)
              /\ \A p \in Prereqs(t) \ (IF t \in eval[d].of THEN eval[d].prereqs ELSE {}) :
                    ~((row'[p].status = "COMPLETED") # (row[p].status = "COMPLETED"))
    BY <1>4, <2>1 DEF Overtaken
  <2> QED
    BY <2>1, <2>2 DEF Completed
<1>5. ASSUME NEW t \in Tasks, t \notin moved'[d], call[d].op = "status", pc[d] \in Evaluating,
             t \notin todo[d], t \notin eval[d].of
      PROVE  /\ t \notin moved[d] /\ Clear(d, t)' = Clear(d, t) /\ Freed(d, t)' = Freed(d, t)
  <2>1. /\ t \notin moved[d] /\ Waiting(t)' = Waiting(t) /\ Prereqs(t)' = Prereqs(t)
        /\ \A p \in Prereqs(t) : Completed(p)' = Completed(p)
    BY <1>4, <1>5
  <2>2. call[d].on \in Tasks
    <3>1. call[d] \in Call
      BY <1>5, Where DEF UInv, Evaluating
    <3> QED
      BY <3>1 DEF Call
  <2>3. Clear(d, t)' = Clear(d, t)
    BY <1>1, <2>1 DEF Clear
  <2>4. (<<t, call[d].on>> \in deps') = (<<t, call[d].on>> \in deps)
    BY <2>1, <2>2 DEF Prereqs
  <2> QED
    BY <1>1, <2>1, <2>3, <2>4 DEF Freed
<1>6. Rightly(d)'
  <2> SUFFICES ASSUME NEW t \in Tasks, Announced(d, t)
               PROVE  /\ call[d].op = "status" /\ pc[d] \in Evaluating
                      /\ write[d][call[d].on].status = "COMPLETED"
                      /\ t \notin todo[d] /\ t \notin eval[d].of /\ t # call[d].on
                      /\ t \in moved'[d] \/ Clear(d, t)'
    BY <1>1, <1>2 DEF Rightly
  <2> QED
    BY <1>1, <1>5 DEF Looked, Rightly
<1>7. InHand(d)'
  <2>1. CASE pc[d] \notin {"prereqs", "check"}
    BY <1>1, <2>1 DEF Looked, InHand
  <2>2. pc[d] \in {"prereqs", "check"} => call[d].on \notin todo[d] \cup eval[d].of
    BY <1>1 DEF Looked, InHand
  <2>3. CASE pc[d] \in {"prereqs", "check"}
    <3>1. PICK t \in Tasks : eval[d].of = {t} /\ t \notin todo[d] /\ (t \in moved[d] \/ Waiting(t))
      BY <1>1, <2>3 DEF Looked, InHand
    <3>2. CASE t \in moved'[d]
      BY <1>1, <2>2, <2>3, <3>1, <3>2 DEF InHand
    <3>3. CASE t \notin moved'[d]
      <4>1. /\ t \notin moved[d] /\ Waiting(t)' /\ pc[d] \in Evaluating
            /\ pc[d] = "check" => /\ Prereqs(t)' = Prereqs(t)
                                  /\ \A p \in Prereqs(t) : p \in eval[d].prereqs \/ Completed(p)' = Completed(p)
        BY <1>3, <1>4, <2>3, <3>1, <3>3 DEF Evaluating
      <4>2. pc[d] = "check" =>
               /\ eval[d].prereqs \subseteq Prereqs(t) \ {call[d].on}
               /\ \A p \in Prereqs(t) \ {call[d].on} : p \in eval[d].prereqs \/ Completed(p)
        BY <1>1, <3>1, <4>1 DEF Looked, InHand
      <4> QED
        BY <1>1, <2>2, <2>3, <3>1, <4>1, <4>2 DEF InHand
    <3> QED
      BY <3>2, <3>3
  <2> QED
    BY <2>1, <2>3
<1>8. ASSUME call[d].op = "status" PROVE NoneMissed(d)' /\ Replaces(d)'
  <2>1. pc[d] # "update" => row'[call[d].on] = row[call[d].on]
    BY <1>8
  <2>2. Replaces(d)'
    BY <1>1, <1>8, <2>1 DEF Looked, Replaces
  <2>3. NoneMissed(d)'
    <3> SUFFICES ASSUME pc[d] \in Evaluating, write[d][call[d].on].status = "COMPLETED",
                        row[call[d].on].status # "COMPLETED",
                        NEW t \in Tasks, t \notin moved'[d], Freed(d, t)',
                        ~(pc[d] # "commit" /\ t \in todo[d]), t \notin eval[d].of
                 PROVE  Announced(d, t)
      BY <1>1, <1>2, <2>1 DEF NoneMissed, Evaluating
    <3>1. NoneMissed(d)
      BY <1>1, <1>8 DEF Looked
    <3>2. CASE t \notin todo[d]
      BY <1>5, <1>8, <3>1, <3>2 DEF NoneMissed
    <3>3. t \notin todo[d]
      BY <1>1 DEF Looked, InHand
    <3> QED
      BY <3>2, <3>3
  <2> QED
    BY <2>2, <2>3
<1> QED
  BY <1>1, <1>6, <1>7, <1>8 DEF Looked

\* A statement of c leaves the others alone.
Beside(c) ==
    /\ UNCHANGED <<row, deps>>
    /\ \A d \in Clients \ {c} : Idle(d) /\ moved'[d] = moved[d]

LEMMA OthersLooked ==
    ASSUME UInv, NEW c \in Clients, Beside(c), Looked(c)'
    PROVE  \A d \in Clients : Looked(d)'
BY IdleLooked DEF UInv, Beside

LEMMA BeginBeside ==
    ASSUME IInv, NEW c \in Clients, NEW o \in Ops, NEW t \in Tasks, Begin(c, o, t)
    PROVE  Beside(c)
<1>1. UNCHANGED table
  BY DEF Begin, Read, SetArchived, ArchiveProject
<1>2. ASSUME NEW d \in Clients \ {c} PROVE Idle(d)
  <2>1. CASE Read(c, o, t)
    BY <2>1 DEF IInv, Shape, Read, Goto, Idle, Same, buffer
  <2>2. CASE SetArchived(c, o, t)
    BY <2>2 DEF IInv, Shape, SetArchived, WriteRow, Goto, Idle, Same
  <2>3. CASE ArchiveProject(c, o, t)
    BY <2>3 DEF IInv, Shape, ArchiveProject, Goto, Idle, Same, buffer
  <2> QED
    BY <2>1, <2>2, <2>3 DEF Begin
<1> QED
  BY <1>1, <1>2 DEF Beside, table

LEMMA StatementBeside ==
    ASSUME IInv, NEW c \in Clients,
           \/ UpdateStatus(c) \/ CancelReminders(c) \/ UpdateField(c) \/ UpdateDetails(c)
           \/ ScheduleReminders(c) \/ Delete(c) \/ ArchiveRow(c)
    PROVE  Beside(c)
<1>1. UNCHANGED table
  BY DEF UpdateStatus, CancelReminders, UpdateField, UpdateDetails, ScheduleReminders, Delete, ArchiveRow
<1>2. ASSUME NEW d \in Clients \ {c} PROVE Idle(d)
  <2> USE DEF IInv, Shape, WriteRow, Goto, Idle, Same
  <2>1. CASE UpdateStatus(c)
    BY <2>1 DEF UpdateStatus
  <2>2. CASE CancelReminders(c)
    BY <2>2 DEF CancelReminders
  <2>3. CASE UpdateField(c) \/ UpdateDetails(c)
    BY <2>3 DEF UpdateField, UpdateDetails
  <2>4. CASE ScheduleReminders(c) \/ Delete(c)
    BY <2>4 DEF ScheduleReminders, Delete
  <2>5. CASE ArchiveRow(c)
    BY <2>5 DEF ArchiveRow
  <2> QED
    BY <2>1, <2>2, <2>3, <2>4, <2>5
<1> QED
  BY <1>1, <1>2 DEF Beside, table

LEMMA LookBeside ==
    ASSUME IInv, NEW c \in Clients,
           ReadDependents(c) \/ ReadDependent(c) \/ ReadPrereqs(c) \/ CheckPrereq(c) \/ Unblock(c)
    PROVE  Beside(c)
<1>1. UNCHANGED table
  BY DEF ReadDependents, ReadDependent, ReadPrereqs, CheckPrereq, Unblock
<1>2. ASSUME NEW d \in Clients \ {c} PROVE Idle(d)
  <2> USE DEF IInv, Shape, Goto, Idle, Same, buffer
  <2>1. CASE ReadDependents(c)
    BY <2>1 DEF ReadDependents
  <2>2. CASE ReadDependent(c)
    BY <2>2 DEF ReadDependent
  <2>3. CASE ReadPrereqs(c)
    BY <2>3 DEF ReadPrereqs
  <2>4. CASE CheckPrereq(c)
    BY <2>4 DEF CheckPrereq
  <2>5. CASE Unblock(c)
    BY <2>5 DEF Unblock
  <2> QED
    BY <2>1, <2>2, <2>3, <2>4, <2>5
<1> QED
  BY <1>1, <1>2 DEF Beside, table

-----------------------------------------------------------------------------
(* The statements before the evaluation                                    *)

\* Outside the evaluation no such event is enqueued.
LEMMA NotYet ==
    ASSUME UInv, NEW c \in Clients, pc[c] \notin Evaluating \/ call[c].op # "status"
    PROVE  \A e \in enqueued[c] : e[1] # "task_unblocked"
<1> SUFFICES ASSUME NEW e \in enqueued[c], e[1] = "task_unblocked" PROVE FALSE
  OBVIOUS
<1>1. e[2] \in Tasks
  BY DEF UInv, IInv, Shape, Event
<1>2. Announced(c, e[2])
  BY DEF Announced
<1> QED
  BY <1>1, <1>2 DEF UInv, Looked, Rightly

\* Nothing enqueued, nobody in hand, nothing claimed.
LEMMA Elsewhere ==
    ASSUME NEW c \in Clients, \A e \in enqueued'[c] : e[1] # "task_unblocked",
           pc'[c] \notin {"evaluate", "prereqs", "check"},
           eval'[c].of = {}, pc'[c] = "rows" \/ todo'[c] = {},
           call'[c].op = "status" =>
              /\ pc'[c] = "commit" => write'[c][call'[c].on].status # "COMPLETED"
              /\ Replaces(c)'
    PROVE  Looked(c)'
<1>1. \A d : ~Announced(c, d)'
  BY DEF Announced
<1>2. Rightly(c)' /\ InHand(c)'
  BY <1>1 DEF Rightly, InHand
<1> QED
  BY <1>2 DEF Looked, NoneMissed, Evaluating

LEMMA BeginLooked ==
    ASSUME UInv, NEW c \in Clients, NEW o \in Ops, NEW t \in Tasks, Begin(c, o, t)
    PROVE  \A d \in Clients : Looked(d)'
<1>1. /\ pc[c] = "idle" /\ enqueued' = enqueued /\ eval' = eval
      /\ enqueued[c] = {} /\ pc \in [Clients -> Steps] /\ call \in [Clients -> Call \cup {NoCall}]
      /\ todo \in [Clients -> SUBSET Tasks]
  BY Where DEF Begin, Read, SetArchived, ArchiveProject, buffer, UInv, IInv, Shape
<1>2. eval[c].of = {} /\ todo[c] = {}
  BY <1>1 DEF UInv, Looked, InHand
<1>3. PICK v : call' = [call EXCEPT ![c] = [op |-> o, on |-> t, expected |-> v, old |-> row[t]]]
  BY DEF Begin, Read, SetArchived, ArchiveProject
<1>4. call'[c].op = o
  BY <1>1, <1>3
<1>5. /\ pc'[c] \in {"update", "cancel", "schedule", "commit", "rows"}
      /\ pc'[c] = "rows" \/ todo' = todo
      /\ o = "status" => pc'[c] = "update"
  BY <1>1 DEF Begin, Read, SetArchived, ArchiveProject, Goto
<1>6. Looked(c)'
  BY <1>1, <1>2, <1>4, <1>5, Elsewhere DEF Replaces
<1> QED
  BY <1>6, OthersLooked, BeginBeside DEF UInv

LEMMA UpdateStatusLooked ==
    ASSUME UInv, NEW c \in Clients, UpdateStatus(c)
    PROVE  \A d \in Clients : Looked(d)'
<1> DEFINE t == call[c].on
<1>1. /\ pc[c] = "update" /\ call[c].op = "status" /\ UNCHANGED <<table, call, todo, eval>>
      /\ CasHolds(c, row[t])
      /\ enqueued' = [enqueued EXCEPT ![c] = {<<"task_status", t, row[t].version + 1, t>>}]
  BY DEF UpdateStatus
<1>2. /\ write = [x \in Clients |-> write[x]] /\ enqueued \in [Clients -> SUBSET Event]
      /\ pc \in [Clients -> Steps] /\ eval[c].of = {} /\ todo[c] = {}
      /\ call[c] \in Call /\ t \in Tasks
  BY <1>1, Where DEF UInv, IInv, Shape, Looked, InHand, Call
<1>3. PICK s \in Statuses :
         /\ write' = [write EXCEPT ![c] = Put(write[c], t, [Bumped(row[t]) EXCEPT !.status = s])]
         /\ pc' = [pc EXCEPT ![c] = IF s = "COMPLETED" THEN "cancel" ELSE "commit"]
  BY DEF UpdateStatus, WriteRow, Goto
<1>4. \A e \in enqueued'[c] : e[1] # "task_unblocked"
  BY <1>1, <1>2
<1>5. write'[c][t].status = s
  <2> DEFINE r == [Bumped(row[t]) EXCEPT !.status = s]
  <2>1. r.status = s
    <3>1. row[t] \in Row
      BY <1>2 DEF UInv, IInv, TypeTable
    <3> QED
      BY <3>1 DEF Bumped, Row
  <2> HIDE DEF r
  <2>2. write'[c] = Put(write[c], t, r)
    BY <1>2, <1>3 DEF r
  <2> QED
    BY <2>1, <2>2 DEF Put
<1>6. row[t].status = call[c].old.status
  <2>1. /\ row[t].version \in Nat /\ call[c].old.version \in Nat /\ call[c].expected \in Nat
        /\ row[t].version = call[c].expected
    BY <1>1, <1>2 DEF CasHolds, UInv, IInv, TypeTable, Row, Call
  <2>2. /\ call[c].old.version <= row[t].version /\ call[c].expected <= call[c].old.version
        /\ call[c].old.version = row[t].version => call[c].old.status = row[t].status
    BY <1>1, <1>2 DEF UInv, IInv, Transaction, Saw, NoCall, Call, AllOps
  <2> QED
    BY <2>1, <2>2
<1>7. Looked(c)'
  <2>1. /\ pc'[c] = (IF s = "COMPLETED" THEN "cancel" ELSE "commit")
        /\ call'[c] = call[c] /\ row' = row
    BY <1>1, <1>2, <1>3 DEF table
  <2> QED
    BY <1>1, <1>2, <1>4, <1>5, <1>6, <2>1, Elsewhere DEF Replaces
<1> QED
  BY <1>7, OthersLooked, StatementBeside DEF UInv

\* What a transaction that ends leaves of itself.
LEMMA EndLooked ==
    ASSUME UInv, NEW c \in Clients, End(c)
    PROVE  Looked(c)' /\ \A d \in Clients \ {c} : Idle(d)
<1>1. call'[c].op = "none" /\ enqueued'[c] = {} /\ pc'[c] = "idle" /\ eval'[c].of = {} /\ todo'[c] = {}
  BY DEF UInv, IInv, Shape, End, Goto, NoCall, NoEval
<1>2. \A d \in Clients \ {c} : Idle(d)
  BY DEF UInv, IInv, Shape, End, Goto, Idle, Same
<1> QED
  BY <1>1, <1>2, Elsewhere

LEMMA GivenUpLooked ==
    ASSUME UInv, NEW c \in Clients, Refused(c) \/ Abort(c)
    PROVE  \A d \in Clients : Looked(d)'
<1>1. End(c) /\ UNCHANGED <<row, deps>> /\ \A d \in Clients \ {c} : moved'[d] = moved[d]
  BY DEF Refused, Abort, table, UInv, IInv, TypeTable
<1>2. Looked(c)' /\ Beside(c)
  BY <1>1, EndLooked DEF Beside
<1> QED
  BY <1>2, OthersLooked

\* The statements of the other operations, and those that update_status shares with them.
LEMMA OtherLooked ==
    ASSUME UInv, NEW c \in Clients,
           \/ CancelReminders(c) \/ UpdateField(c) \/ UpdateDetails(c) \/ ScheduleReminders(c)
           \/ Delete(c) \/ ArchiveRow(c)
    PROVE  \A d \in Clients : Looked(d)'
<1>1. /\ UNCHANGED <<table, call, eval>> /\ pc[c] # "idle" /\ pc[c] \notin Evaluating
      /\ call[c].op = "status" => CancelReminders(c)
      /\ pc \in [Clients -> Steps]
  BY Where DEF CancelReminders, UpdateField, UpdateDetails, ScheduleReminders, Delete, ArchiveRow,
               Evaluating, Archiving, UInv, IInv, Shape
<1>2. eval[c].of = {} /\ (pc[c] = "rows" \/ todo[c] = {})
  BY <1>1 DEF UInv, Looked, InHand, Evaluating
<1>3. \A e \in enqueued'[c] : e[1] # "task_unblocked"
  <2>1. enqueued \in [Clients -> SUBSET Event]
    BY DEF UInv, IInv, Shape
  <2>2. CASE UNCHANGED enqueued
    BY <1>1, <2>2, NotYet
  <2>3. CASE UpdateField(c)
    BY <2>1, <2>3 DEF UpdateField
  <2>4. CASE UpdateDetails(c)
    BY <2>1, <2>4 DEF UpdateDetails
  <2> QED
    BY <2>2, <2>3, <2>4 DEF CancelReminders, ScheduleReminders, Delete, ArchiveRow
<1>4. /\ pc'[c] \in {"cancel", "schedule", "delete", "dependents", "rows", "commit"}
      /\ pc'[c] = "rows" \/ todo'[c] = {}
  <2>1. CASE ArchiveRow(c)
    BY <1>1, <2>1 DEF ArchiveRow, Goto
  <2>2. CASE ~ArchiveRow(c)
    <3>1. pc[c] # "rows" /\ todo' = todo
      BY <2>2 DEF CancelReminders, UpdateField, UpdateDetails, ScheduleReminders, Delete
    <3>2. pc'[c] \in {"cancel", "schedule", "delete", "dependents", "commit"}
      BY <1>1, <2>2 DEF CancelReminders, UpdateField, UpdateDetails, ScheduleReminders, Delete, Goto
    <3> QED
      BY <1>2, <3>1, <3>2
  <2> QED
    BY <2>1, <2>2
<1>5. call[c].op = "status" => pc'[c] = "dependents" /\ Replaces(c)'
  <2> SUFFICES ASSUME call[c].op = "status" PROVE pc'[c] = "dependents" /\ Replaces(c)'
    OBVIOUS
  <2>1. pc[c] = "cancel" /\ pc'[c] = "dependents"
    BY <1>1 DEF CancelReminders, Goto
  <2> QED
    BY <1>1, <2>1 DEF UInv, Looked, Replaces, table
<1>6. Looked(c)'
  BY <1>1, <1>2, <1>3, <1>4, <1>5, Elsewhere
<1> QED
  BY <1>6, OthersLooked, StatementBeside DEF UInv

-----------------------------------------------------------------------------
(* The evaluation                                                          *)

\* What the evaluation leaves alone.
Looks(c) == UNCHANGED <<table, call, write>>

\* As long as the tables stay, so does what blocks a task.
LEMMA LooksAlike ==
    ASSUME NEW c \in Clients, Looks(c)
    PROVE  /\ \A d : /\ Freed(c, d)' = Freed(c, d) /\ Clear(c, d)' = Clear(c, d)
                     /\ Waiting(d)' = Waiting(d) /\ Prereqs(d)' = Prereqs(d)
                     /\ Completed(d)' = Completed(d)
           /\ call' = call /\ write' = write /\ row' = row /\ deps' = deps /\ moved' = moved
BY DEF Looks, table, Freed, Clear, Waiting, Prereqs, Completed

LEMMA Evaluator ==
    ASSUME UInv, NEW c \in Clients, pc[c] \in Looking
    PROVE  /\ call[c].op = "status" /\ call[c].on \in Tasks
           /\ Rightly(c) /\ InHand(c) /\ NoneMissed(c)
           /\ row[call[c].on].status = call[c].old.status
           /\ write[c][call[c].on].status = "COMPLETED"
<1>1. call[c].op = "status" /\ pc[c] \notin {"idle", "update", "commit"} /\ call[c] \in Call
  BY Where DEF UInv, Looking
<1>2. Looked(c) /\ Reminds(c)
  BY DEF UInv, IInv, Transaction
<1> QED
  BY <1>1, <1>2 DEF Looked, Reminds, Replaces, Call

\* It is enough to say what becomes of who is announced and of who is freed.
LEMMA EvaluationLooked ==
    ASSUME UInv, NEW c \in Clients, pc[c] \in Looking, Looks(c), Beside(c), pc'[c] \in Evaluating,
           InHand(c)',
           \A d \in Tasks : Announced(c, d)' =>
              /\ d \notin todo'[c] /\ d \notin eval'[c].of /\ d # call[c].on
              /\ d \in moved[c] \/ Clear(c, d),
           row[call[c].on].status # "COMPLETED" =>
              \A d \in Tasks \ moved[c] : Freed(c, d) =>
                  \/ Announced(c, d)'
                  \/ pc'[c] # "commit" /\ d \in todo'[c]
                  \/ d \in eval'[c].of
    PROVE  \A d \in Clients : Looked(d)'
<1>1. /\ call[c].op = "status" /\ row[call[c].on].status = call[c].old.status
      /\ write[c][call[c].on].status = "COMPLETED"
  BY Evaluator
<1>2. Rightly(c)' /\ NoneMissed(c)' /\ Replaces(c)'
  BY <1>1, LooksAlike DEF Rightly, NoneMissed, Replaces
<1> QED
  BY <1>2, OthersLooked DEF Looked

LEMMA ReadDependentsLooked ==
    ASSUME UInv, NEW c \in Clients, ReadDependents(c)
    PROVE  \A d \in Clients : Looked(d)'
<1>1. /\ pc[c] = "dependents" /\ pc[c] \in Looking /\ pc'[c] = "evaluate" /\ Looks(c)
      /\ enqueued' = enqueued /\ eval' = eval
      /\ todo'[c] = IF call[c].old.status = "COMPLETED" THEN {} ELSE Dependents(call[c].on)
  BY DEF ReadDependents, Looking, Goto, Looks, buffer, UInv, IInv, Shape
<1>2. InHand(c)'
  <2>1. call[c].on \notin Dependents(call[c].on)
    BY DependsAssumption DEF Dependents, UInv, IInv, TypeTable
  <2>2. eval[c].of = {} /\ call' = call
    BY <1>1, Evaluator, LooksAlike DEF InHand
  <2> QED
    BY <1>1, <2>1, <2>2 DEF InHand
<1>3. \A d : ~Announced(c, d)'
  BY <1>1, NotYet DEF Announced, Evaluating
<1>4. row[call[c].on].status # "COMPLETED" => \A d \in Tasks : Freed(c, d) => d \in todo'[c]
  BY <1>1, Evaluator DEF Freed, Dependents
<1> QED
  BY <1>1, <1>2, <1>3, <1>4, EvaluationLooked, LookBeside DEF Evaluating, UInv

LEMMA ReadDependentLooked ==
    ASSUME UInv, NEW c \in Clients, ReadDependent(c)
    PROVE  \A d \in Clients : Looked(d)'
<1>1. /\ pc[c] = "evaluate" /\ pc[c] \in Looking /\ Looks(c) /\ Beside(c) /\ enqueued' = enqueued
      /\ pc \in [Clients -> Steps] /\ todo \in [Clients -> SUBSET Tasks]
      /\ eval = [x \in Clients |-> eval[x]]
  BY LookBeside DEF ReadDependent, Looking, Looks, buffer, UInv, IInv, Shape
<1>2. /\ eval[c].of = {} /\ \A d : Announced(c, d)' = Announced(c, d)
      /\ \A d \in Tasks : Announced(c, d) =>
            d \notin todo[c] /\ d # call[c].on /\ (d \in moved[c] \/ Clear(c, d))
      /\ row[call[c].on].status # "COMPLETED" =>
            \A d \in Tasks \ moved[c] : Freed(c, d) => Announced(c, d) \/ d \in todo[c]
      /\ call[c].on \notin todo[c] /\ call' = call
  BY <1>1, LooksAlike, Evaluator DEF Announced, InHand, Rightly, NoneMissed, Evaluating
<1>3. CASE todo[c] = {} /\ Goto(c, "commit") /\ UNCHANGED <<todo, eval>>
  <2>1. pc'[c] = "commit"
    BY <1>1, <1>3 DEF Goto
  <2>2. InHand(c)'
    BY <1>2, <1>3, <2>1 DEF InHand
  <2> QED
    BY <1>1, <1>2, <1>3, <2>1, <2>2, EvaluationLooked DEF Evaluating
<1>4. ASSUME NEW d \in todo[c], todo' = [todo EXCEPT ![c] = todo[c] \ {d}],
             IF row[d].live /\ ~row[d].archived /\ row[d].status = "NOT_STARTED"
             THEN /\ eval' = [eval EXCEPT ![c] = [of |-> {d}, prereqs |-> {}]]
                  /\ Goto(c, "prereqs")
             ELSE UNCHANGED <<eval, pc>>
      PROVE  \A x \in Clients : Looked(x)'
  <2>1. todo'[c] = todo[c] \ {d} /\ d \in Tasks /\ call[c].on # d
    BY <1>1, <1>2, <1>4
  <2>2. CASE Waiting(d)
    <3>1. eval'[c].of = {d} /\ pc'[c] = "prereqs"
      BY <1>1, <1>4, <2>2 DEF Waiting, Goto
    <3>2. InHand(c)'
      <4>1. d \in moved'[c] \/ Waiting(d)'
        BY <1>1, <2>2, LooksAlike
      <4> QED
        BY <1>2, <2>1, <3>1, <4>1 DEF InHand
    <3> QED
      BY <1>1, <1>2, <2>1, <3>1, <3>2, EvaluationLooked DEF Evaluating
  <2>3. CASE ~Waiting(d)
    <3>1. pc' = pc /\ eval' = eval
      BY <1>4, <2>3 DEF Waiting
    <3>2. InHand(c)'
      BY <1>1, <1>2, <2>1, <3>1 DEF InHand
    <3>3. ~Freed(c, d)
      BY <2>3 DEF Freed, Clear
    <3> QED
      BY <1>1, <1>2, <2>1, <3>1, <3>2, <3>3, EvaluationLooked DEF Evaluating
  <2> QED
    BY <2>2, <2>3
<1> QED
  BY <1>3, <1>4 DEF ReadDependent

\* The dependent in hand is dropped, since something else blocks it, or it is moved.
LEMMA DropLooked ==
    ASSUME UInv, NEW c \in Clients, pc[c] \in {"prereqs", "check"}, Looks(c), Beside(c),
           enqueued' = enqueued, todo' = todo, eval' = [eval EXCEPT ![c] = NoEval], Goto(c, "evaluate"),
           \A d \in eval[c].of : d \in moved[c] \/ ~Freed(c, d)
    PROVE  \A d \in Clients : Looked(d)'
<1>1. pc[c] \in Looking /\ pc'[c] = "evaluate" /\ eval'[c].of = {}
  BY DEF Looking, Goto, NoEval, UInv, IInv, Shape
<1>2. InHand(c)'
  BY <1>1, Evaluator, LooksAlike DEF InHand
<1>3. \A d : Announced(c, d)' = Announced(c, d)
  BY DEF Announced
<1>4. /\ \A d \in Tasks : Announced(c, d) =>
            d \notin todo[c] /\ d # call[c].on /\ (d \in moved[c] \/ Clear(c, d))
      /\ row[call[c].on].status # "COMPLETED" =>
            \A d \in Tasks \ moved[c] : Freed(c, d) => Announced(c, d) \/ d \in todo[c]
  BY <1>1, Evaluator DEF Rightly, NoneMissed, Evaluating
<1> QED
  BY <1>1, <1>2, <1>3, <1>4, EvaluationLooked DEF Evaluating

\* The dependent stays in hand.
LEMMA CheckLooked ==
    ASSUME UInv, NEW c \in Clients, pc[c] \in {"prereqs", "check"}, Looks(c), Beside(c),
           enqueued' = enqueued, todo' = todo, pc'[c] = "check", eval'[c].of = eval[c].of,
           \A d \in eval[c].of \ moved[c] :
              /\ eval'[c].prereqs \subseteq Prereqs(d) \ {call[c].on}
              /\ \A p \in Prereqs(d) \ {call[c].on} : p \in eval'[c].prereqs \/ Completed(p)
    PROVE  \A d \in Clients : Looked(d)'
<1>1. pc[c] \in Looking
  BY DEF Looking
<1>2. InHand(c)'
  <2>1. PICK d \in Tasks : eval[c].of = {d} /\ d \notin todo[c] /\ (d \in moved[c] \/ Waiting(d))
    BY <1>1, Evaluator DEF InHand
  <2>2. call[c].on \notin todo[c] \cup eval[c].of
    BY <1>1, Evaluator DEF InHand
  <2> QED
    BY <2>1, <2>2, LooksAlike DEF InHand
<1>3. \A d : Announced(c, d)' = Announced(c, d)
  BY DEF Announced
<1>4. /\ \A d \in Tasks : Announced(c, d) =>
            /\ d \notin todo[c] /\ d \notin eval[c].of /\ d # call[c].on
            /\ d \in moved[c] \/ Clear(c, d)
      /\ row[call[c].on].status # "COMPLETED" =>
            \A d \in Tasks \ moved[c] : Freed(c, d) => Announced(c, d) \/ d \in todo[c] \/ d \in eval[c].of
  BY <1>1, Evaluator DEF Rightly, NoneMissed, Evaluating
<1> QED
  BY <1>1, <1>2, <1>3, <1>4, EvaluationLooked DEF Evaluating

LEMMA ReadPrereqsLooked ==
    ASSUME UInv, NEW c \in Clients, ReadPrereqs(c)
    PROVE  \A d \in Clients : Looked(d)'
<1>1. /\ pc[c] = "prereqs" /\ pc[c] \in Looking /\ Looks(c) /\ Beside(c)
      /\ enqueued' = enqueued /\ todo' = todo
      /\ pc \in [Clients -> Steps] /\ eval = [x \in Clients |-> eval[x]]
      /\ eval[c] \in [of : SUBSET Tasks, prereqs : SUBSET Tasks]
  BY LookBeside DEF ReadPrereqs, Looking, Looks, buffer, UInv, IInv, Shape
<1>2. PICK d \in Tasks : eval[c].of = {d}
  BY <1>1, Evaluator DEF InHand
<1>3. CASE Prereqs(d) = {}
  <2>1. eval' = [eval EXCEPT ![c] = NoEval] /\ Goto(c, "evaluate")
    BY <1>2, <1>3 DEF ReadPrereqs
  <2>2. ~Freed(c, d)
    BY <1>1, <1>3, Evaluator DEF Freed, Prereqs
  <2> QED
    BY <1>1, <1>2, <2>1, <2>2, DropLooked
<1>4. CASE Prereqs(d) # {}
  <2>1. eval' = [eval EXCEPT ![c].prereqs = Prereqs(d) \ {call[c].on}] /\ Goto(c, "check")
    BY <1>2, <1>4 DEF ReadPrereqs
  <2>2. /\ pc'[c] = "check" /\ eval'[c].of = eval[c].of
        /\ eval'[c].prereqs = Prereqs(d) \ {call[c].on}
    BY <1>1, <2>1 DEF Goto
  <2> QED
    BY <1>1, <1>2, <2>2, CheckLooked
<1> QED
  BY <1>3, <1>4

LEMMA CheckPrereqLooked ==
    ASSUME UInv, NEW c \in Clients, CheckPrereq(c)
    PROVE  \A d \in Clients : Looked(d)'
<1>1. /\ pc[c] = "check" /\ pc[c] \in Looking /\ Looks(c) /\ Beside(c)
      /\ enqueued' = enqueued /\ todo' = todo
      /\ pc \in [Clients -> Steps] /\ eval = [x \in Clients |-> eval[x]]
      /\ eval[c] \in [of : SUBSET Tasks, prereqs : SUBSET Tasks]
  BY LookBeside DEF CheckPrereq, Looking, Looks, buffer, UInv, IInv, Shape
<1>2. PICK d \in Tasks : eval[c].of = {d}
  BY <1>1, Evaluator DEF InHand
<1>3. d \notin moved[c] =>
         /\ eval[c].prereqs \subseteq Prereqs(d) \ {call[c].on}
         /\ \A p \in Prereqs(d) \ {call[c].on} : p \in eval[c].prereqs \/ Completed(p)
  BY <1>1, <1>2, Evaluator DEF InHand
<1>4. PICK p \in eval[c].prereqs :
         IF row[p].live /\ row[p].status = "COMPLETED"
         THEN eval' = [eval EXCEPT ![c].prereqs = eval[c].prereqs \ {p}] /\ UNCHANGED pc
         ELSE eval' = [eval EXCEPT ![c] = NoEval] /\ Goto(c, "evaluate")
  BY DEF CheckPrereq
<1>5. CASE row[p].live /\ Completed(p)
  <2>1. eval' = [eval EXCEPT ![c].prereqs = eval[c].prereqs \ {p}] /\ UNCHANGED pc
    BY <1>4, <1>5 DEF Completed
  <2>2. eval'[c].of = eval[c].of /\ eval'[c].prereqs = eval[c].prereqs \ {p}
    BY <1>1, <2>1
  <2> QED
    BY <1>1, <1>2, <1>3, <1>5, <2>1, <2>2, CheckLooked
<1>6. CASE ~(row[p].live /\ Completed(p))
  <2>1. eval' = [eval EXCEPT ![c] = NoEval] /\ Goto(c, "evaluate")
    BY <1>4, <1>6 DEF Completed
  <2>2. d \in moved[c] \/ ~Freed(c, d)
    <3> SUFFICES ASSUME d \notin moved[c] PROVE ~Freed(c, d)
      OBVIOUS
    <3>1. p \in Prereqs(d) \ {call[c].on} /\ row[p].live
      BY <1>3, <1>4 DEF UInv, DepsLive, Prereqs
    <3> QED
      BY <1>6, <3>1 DEF Freed, Clear
  <2> QED
    BY <1>1, <1>2, <2>1, <2>2, DropLooked
<1> QED
  BY <1>5, <1>6

LEMMA UnblockLooked ==
    ASSUME UInv, NEW c \in Clients, Unblock(c)
    PROVE  \A d \in Clients : Looked(d)'
<1>1. PICK t : t = call[c].on
  OBVIOUS
<1>2. PICK v : v = write[c][t].version
  OBVIOUS
<1>3. /\ pc[c] = "check" /\ eval[c].prereqs = {} /\ pc[c] \in Looking
      /\ UNCHANGED <<table, call, write, todo>> /\ Goto(c, "evaluate")
      /\ enqueued' = [enqueued EXCEPT ![c] = enqueued[c] \cup
                         {<<"task_unblocked", x, v, t>> : x \in eval[c].of}]
      /\ enqueued \in [Clients -> SUBSET Event] /\ pc \in [Clients -> Steps]
      /\ eval'[c].of = {}
  BY <1>1, <1>2 DEF Unblock, Looking, NoEval, UInv, IInv, Shape
<1>4. Looks(c) /\ pc'[c] = "evaluate" /\ Beside(c)
  BY <1>3, LookBeside DEF Looks, Goto, UInv
<1>5. PICK d \in Tasks : /\ eval[c].of = {d} /\ d \notin todo[c] /\ d # call[c].on
                         /\ d \in moved[c] \/ Clear(c, d)
  BY <1>1, <1>3, Evaluator DEF InHand, Clear
<1>6. enqueued'[c] = enqueued[c] \cup {<<"task_unblocked", d, v, t>>}
  BY <1>3, <1>5
<1>7. InHand(c)'
  BY <1>3, <1>4, Evaluator, LooksAlike DEF InHand
<1>8. \A x : Announced(c, x)' <=> Announced(c, x) \/ x = d
  <2>1. PICK e : e = <<"task_unblocked", d, v, t>>
    OBVIOUS
  <2>2. e[1] = "task_unblocked" /\ e[2] = d /\ enqueued'[c] = enqueued[c] \cup {e}
    BY <1>6, <2>1
  <2> QED
    BY <2>2 DEF Announced
<1>9. /\ \A x \in Tasks : Announced(c, x) =>
            x \notin todo[c] /\ x # call[c].on /\ (x \in moved[c] \/ Clear(c, x))
      /\ row[call[c].on].status # "COMPLETED" =>
            \A x \in Tasks \ moved[c] : Freed(c, x) => Announced(c, x) \/ x \in todo[c] \/ x = d
  BY <1>3, <1>5, Evaluator DEF Rightly, NoneMissed, Evaluating
<1> QED
  BY <1>3, <1>4, <1>5, <1>7, <1>8, <1>9, EvaluationLooked DEF Evaluating

-----------------------------------------------------------------------------
(* What others commit                                                      *)

LEMMA CommitLooked ==
    ASSUME UInv, NEW c \in Clients, Commit(c)
    PROVE  \A d \in Clients : Looked(d)'
<1>1. End(c) /\ Move(c)
  BY DEF Commit
<1>2. Looked(c)' /\ \A d \in Clients \ {c} : Idle(d)
  BY <1>1, EndLooked
<1>3. ASSUME NEW d \in Clients \ {c} PROVE Looked(d)'
  <2>1. moved'[d] = moved[d] \cup {t \in Tasks : Overtaken(d, t)}
    <3> DEFINE Over(x) == {t \in Tasks : Overtaken(x, t)}
    <3>1. moved' = [x \in Clients |-> IF x = c THEN {} ELSE moved[x] \cup Over(x)]
      BY <1>1 DEF Move
    <3> HIDE DEF Over
    <3>2. moved'[d] = moved[d] \cup Over(d)
      BY <3>1
    <3> QED
      BY <3>2 DEF Over
  <2>2. call[d].op = "status" /\ pc[d] # "update" => row'[call[d].on] = row[call[d].on]
    <3> SUFFICES ASSUME call[d].op = "status", pc[d] # "update"
                 PROVE  row'[call[d].on] = row[call[d].on]
      OBVIOUS
    <3>1. pc[d] # "idle" /\ call[d] \in Call
      BY Where DEF UInv
    <3>2. call[d].on \in DOMAIN write[d] /\ call[d].on \in Tasks
      BY <3>1 DEF UInv, IInv, Transaction, Progress, Versioned, Call
    <3>3. call[d].on \notin DOMAIN write[c]
      BY <3>2 DEF UInv, IInv, OneWriter
    <3> QED
      BY <3>2, <3>3, CommittedRow DEF UInv
  <2> QED
    BY <1>2, <2>1, <2>2, OvertakenLooked
<1> QED
  BY <1>2, <1>3

LEMMA LinkLooked ==
    ASSUME UInv, Link
    PROVE  \A d \in Clients : Looked(d)'
<1> SUFFICES ASSUME NEW d \in Clients PROVE Looked(d)'
  OBVIOUS
<1>1. Idle(d) /\ row' = row
  BY DEF Link, buffer, Idle, Same
<1>2. moved'[d] = moved[d] \cup {t \in Tasks : Overtaken(d, t)}
  <2> DEFINE Over(x) == {t \in Tasks : Overtaken(x, t)}
  <2>1. moved' = [x \in Clients |-> moved[x] \cup Over(x)]
    BY DEF Link
  <2> HIDE DEF Over
  <2>2. moved'[d] = moved[d] \cup Over(d)
    BY <2>1
  <2> QED
    BY <2>2 DEF Over
<1> QED
  BY <1>1, <1>2, OvertakenLooked

-----------------------------------------------------------------------------
(* The invariant and the theorems                                          *)

LEMMA InitUInv == Init => UInv
<1> SUFFICES ASSUME Init PROVE UInv
  OBVIOUS
<1>1. IInv
  BY InitIInv
<1>2. \A c \in Clients : /\ call[c] = NoCall /\ call[c].op = "none" /\ enqueued[c] = {}
                         /\ pc[c] = "idle" /\ todo[c] = {} /\ eval[c].of = {}
  BY DEF Init, NoCall, NoEval
<1>3. \A c \in Clients : Looked(c)
  BY <1>2 DEF Looked, Rightly, InHand, Announced
<1>4. DepsLive
  <2>1. \A t \in Tasks : row[t].live
    BY DEF Init
  <2> QED
    BY <2>1, DependsAssumption DEF Init, DepsLive
<1> QED
  BY <1>1, <1>3, <1>4 DEF UInv

\* Rows and events change with a commit only, dependencies also with Link.
LEMMA OnlyCommits ==
    ASSUME [Next]_vars
    PROVE  \/ UNCHANGED <<row, events, deps>>
           \/ \E c \in Clients : Commit(c)
           \/ Link
<1>1. ASSUME NEW c \in Clients, NEW o \in Ops, NEW t \in Tasks, Begin(c, o, t) PROVE UNCHANGED table
  BY <1>1 DEF Begin, Read, SetArchived, ArchiveProject
<1>2. ASSUME NEW c \in Clients,
             \/ UpdateStatus(c) \/ Refused(c) \/ CancelReminders(c)
             \/ UpdateField(c) \/ UpdateDetails(c) \/ ScheduleReminders(c)
             \/ Delete(c) \/ ArchiveRow(c)
      PROVE  UNCHANGED table
  BY <1>2 DEF UpdateStatus, Refused, CancelReminders, UpdateField, UpdateDetails,
              ScheduleReminders, Delete, ArchiveRow
<1>3. ASSUME NEW c \in Clients,
             \/ ReadDependents(c) \/ ReadDependent(c) \/ ReadPrereqs(c)
             \/ CheckPrereq(c) \/ Unblock(c)
      PROVE  UNCHANGED table
  BY <1>3 DEF ReadDependents, ReadDependent, ReadPrereqs, CheckPrereq, Unblock
<1>4. ASSUME NEW c \in Clients, Abort(c) PROVE UNCHANGED <<row, events, deps>>
  BY <1>4 DEF Abort
<1>5. UNCHANGED vars => UNCHANGED table
  BY DEF vars
<1>6. UNCHANGED table => UNCHANGED <<row, events, deps>>
  BY DEF table
<1> QED
  BY <1>1, <1>2, <1>3, <1>4, <1>5, <1>6 DEF Next

LEMMA DepsStayLive ==
    ASSUME IInv, DepsLive, [Next]_vars
    PROVE  DepsLive'
<1>1. CASE UNCHANGED <<row, events, deps>>
  BY <1>1 DEF DepsLive
<1>2. ASSUME NEW c \in Clients, Commit(c) PROVE DepsLive'
  BY <1>2 DEF Commit, DepsLive
<1>3. CASE Link
  <2>1. row' = row /\ \A q \in deps' : q \in deps \/ (row[q[1]].live /\ row[q[2]].live)
    BY <1>3 DEF Link
  <2> QED
    BY <2>1 DEF DepsLive
<1> QED
  BY <1>1, <1>2, <1>3, OnlyCommits

LEMMA NextUInv == UInv /\ [Next]_vars => UInv'
<1> SUFFICES ASSUME UInv, [Next]_vars PROVE UInv'
  OBVIOUS
<1>1. IInv' /\ DepsLive'
  BY NextIInv, DepsStayLive DEF UInv
<1>2. CASE UNCHANGED vars
  <2>1. \A c \in Clients : Idle(c) /\ moved'[c] = moved[c]
    BY <1>2 DEF vars, table, buffer, Idle, Same
  <2>2. UNCHANGED <<row, deps>>
    BY <1>2 DEF vars, table
  <2> QED
    BY <1>1, <2>1, <2>2, IdleLooked DEF UInv
<1>3. CASE Next
  <2>1. ASSUME NEW c \in Clients, NEW o \in Ops, NEW t \in Tasks, Begin(c, o, t)
        PROVE  \A d \in Clients : Looked(d)'
    BY <2>1, BeginLooked
  <2>2. ASSUME NEW c \in Clients, UpdateStatus(c) PROVE \A d \in Clients : Looked(d)'
    BY <2>2, UpdateStatusLooked
  <2>3. ASSUME NEW c \in Clients, Refused(c) \/ Abort(c) \/ Commit(c)
        PROVE  \A d \in Clients : Looked(d)'
    BY <2>3, GivenUpLooked, CommitLooked
  <2>4. ASSUME NEW c \in Clients,
               \/ CancelReminders(c) \/ UpdateField(c) \/ UpdateDetails(c) \/ ScheduleReminders(c)
               \/ Delete(c) \/ ArchiveRow(c)
        PROVE  \A d \in Clients : Looked(d)'
    BY <2>4, OtherLooked
  <2>5. ASSUME NEW c \in Clients,
               \/ ReadDependents(c) \/ ReadDependent(c) \/ ReadPrereqs(c)
               \/ CheckPrereq(c) \/ Unblock(c)
        PROVE  \A d \in Clients : Looked(d)'
    BY <2>5, ReadDependentsLooked, ReadDependentLooked, ReadPrereqsLooked, CheckPrereqLooked,
       UnblockLooked
  <2>6. Link => \A d \in Clients : Looked(d)'
    BY LinkLooked
  <2>7. \A c \in Clients : Looked(c)'
    BY <1>3, <2>1, <2>2, <2>3, <2>4, <2>5, <2>6 DEF Next
  <2> QED
    BY <1>1, <2>7 DEF UInv
<1> QED
  BY <1>2, <1>3

\* update_status has written the row of its task and no other.
LEMMA OneRow ==
    ASSUME UInv, NEW c \in Clients, pc[c] = "commit", call[c].op = "status"
    PROVE  DOMAIN write[c] = {call[c].on} /\ call[c].on \in Tasks
<1>1. call[c] \in Call /\ Progress(c)
  BY Where DEF UInv, IInv, Transaction
<1> QED
  BY <1>1 DEF Progress, Versioned, Archiving, Call

\* The client that commits, and whose reading was moved, is the witness of Stale.
LEMMA CommitIsStale ==
    ASSUME UInv, NEW c \in Clients, Commit(c), NEW t \in Tasks, t \in moved[c]
    PROVE  Stale(t)
BY DEF Stale, Commit, End, Goto, UInv, IInv, Shape

LEMMA AnnouncedStep ==
    ASSUME UInv, [Next]_vars, NEW e \in events' \ events, e[1] = "task_unblocked"
    PROVE  Stale(e[2]) \/ (Waiting(e[2])' /\ Incomplete(e[2])' = {})
<1>1. PICK c \in Clients : Commit(c)
  BY OnlyCommits DEF Link
<1>2. e \in enqueued[c] /\ pc[c] = "commit" /\ deps' \subseteq deps
  BY <1>1 DEF Commit
<1>3. PICK t : t = call[c].on
  OBVIOUS
<1>4. PICK d : d = e[2]
  OBVIOUS
<1>5. d \in Tasks /\ Announced(c, d)
  BY <1>2, <1>4 DEF Announced, UInv, IInv, Shape, Event
<1>6. /\ call[c].op = "status" /\ write[c][t].status = "COMPLETED"
      /\ d # t
      /\ d \in moved[c] \/ Clear(c, d)
  BY <1>3, <1>5 DEF UInv, Looked, Rightly
<1>7. CASE d \in moved[c]
  BY <1>1, <1>4, <1>5, <1>7, CommitIsStale
<1>8. CASE Clear(c, d)
  <2>1. DOMAIN write[c] = {t} /\ t \in Tasks
    BY <1>2, <1>3, <1>6, OneRow
  <2>2. row' = [x \in Tasks |-> IF x = t THEN write[c][x] ELSE row[x]]
    BY <1>1, <2>1 DEF Commit
  <2>3. row'[t] = write[c][t] /\ \A x \in Tasks \ {t} : row'[x] = row[x]
    BY <2>1, <2>2
  <2>4. Waiting(d)'
    BY <1>5, <1>6, <1>8, <2>3 DEF Clear, Waiting
  <2>5. Incomplete(d)' = {}
    BY <1>2, <1>3, <1>6, <1>8, <2>3 DEF Clear, Incomplete, Prereqs, Completed
  <2> QED
    BY <1>4, <2>4, <2>5
<1> QED
  BY <1>6, <1>7, <1>8

LEMMA UnblockStep ==
    ASSUME UInv, [Next]_vars, NEW t \in Tasks, Unblocks(t)
    PROVE  Told(t) \/ Stale(t)
<1>1. Waiting(t) /\ deps' = deps /\ Incomplete(t) # {} /\ Incomplete(t)' = {}
  BY DEF Unblocks
<1>2. PICK c \in Clients : Commit(c)
  BY <1>1, OnlyCommits DEF Link, Incomplete, Prereqs
<1>3. /\ row' = [x \in Tasks |-> IF x \in DOMAIN write[c] THEN write[c][x] ELSE row[x]]
      /\ events' = events \cup enqueued[c] /\ pc[c] = "commit"
  BY <1>2 DEF Commit
<1>4. PICK p \in Tasks : <<t, p>> \in deps /\ row[p].status # "COMPLETED"
  BY <1>1 DEF Incomplete, Prereqs
<1>5. \A x \in Tasks : <<t, x>> \in deps => row'[x].status = "COMPLETED"
  BY <1>1 DEF Incomplete, Prereqs
<1>6. p \in DOMAIN write[c] /\ write[c][p].status = "COMPLETED"
  BY <1>3, <1>4, <1>5
<1>7. call[c].op = "status"
  <2>1. Rewrites(c, p)
    BY <1>6 DEF UInv, IInv, Transaction
  <2> QED
    BY <1>4, <1>6, <2>1 DEF Rewrites
<1>8. DOMAIN write[c] = {p} /\ p = call[c].on
  BY <1>3, <1>6, <1>7, OneRow
<1>9. Freed(c, t)
  BY <1>1, <1>3, <1>4, <1>5, <1>8 DEF Freed, Clear, Prereqs, Completed
<1>10. CASE t \in moved[c]
  BY <1>2, <1>10, CommitIsStale
<1>11. CASE t \notin moved[c]
  <2>1. NoneMissed(c) /\ InHand(c)
    BY <1>7 DEF UInv, Looked
  <2>2. Announced(c, t)
    BY <1>3, <1>4, <1>6, <1>8, <1>9, <1>11, <2>1 DEF NoneMissed, InHand, Evaluating
  <2>3. PICK e \in enqueued[c] : e[1] = "task_unblocked" /\ e[2] = t
    BY <2>2 DEF Announced
  <2>4. e \notin events
    BY FreshKeys DEF UInv, EventKeysFresh
  <2> QED
    BY <1>3, <2>3, <2>4 DEF Told
<1> QED
  BY <1>10, <1>11

LEMMA InductiveU == Spec => []UInv
  BY InitUInv, NextUInv, PTL DEF Spec

\* A task whose last incomplete prerequisite is completed is announced by the same commit,
\* unless another transaction has changed what the committing one had read of it.
THEOREM UnblocksAnnounced == Spec => UnblockIsAnnounced
<1>1. ASSUME UInv, [Next]_vars
      PROVE  [\A t \in Tasks : Unblocks(t) => Told(t) \/ Stale(t)]_vars
  BY <1>1, UnblockStep
<1> QED
  BY <1>1, InductiveU, PTL DEF Spec, UnblockIsAnnounced

\* Nothing blocks a task that is announced as unblocked, with the same exception.
THEOREM AnnouncedRightly == Spec => AnnouncedIsUnblocked
<1>1. ASSUME UInv, [Next]_vars
      PROVE  [\A e \in events' \ events :
                e[1] = "task_unblocked" =>
                   Stale(e[2]) \/ (Waiting(e[2])' /\ Incomplete(e[2])' = {})]_vars
  BY <1>1, AnnouncedStep
<1> QED
  BY <1>1, InductiveU, PTL DEF Spec, AnnouncedIsUnblocked

=============================================================================
