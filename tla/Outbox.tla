------------------------------- MODULE Outbox -------------------------------
(***************************************************************************)
(* The transactional outbox: the outbox_events table, the operations of    *)
(* OutboxRepo and OutboxService on it, and the OutboxWorker loop that      *)
(* dispatches its rows to Discord.  A row is its idempotency key: the      *)
(* upsert of enqueue keeps id and created_at.  Times are relative to now:  *)
(* due is scheduled_for - now, age is now - created_at.                    *)
(***************************************************************************)
EXTENDS Integers, Sequences

CONSTANTS
    OneShot,      \* idempotency keys that embed a version: enqueued once
    Reminders,    \* keys task_due:<id>:<tier>, enqueued again on each reschedule
    Workers,      \* processes that run an OutboxWorker
    BatchSize,    \* OUTBOX_BATCH_SIZE
    MaxRetries,   \* OUTBOX_MAX_RETRIES
    BackoffCap,   \* OUTBOX_BACKOFF_CAP_SECONDS, in ticks
    RateDelay,    \* retry_after of a Discord 429, in ticks
    Retention,    \* OUTBOX_MAX_RETENTION_HOURS, in ticks
    Lookback,     \* OUTBOX_RECLAIM_LOOKBACK_HOURS, in ticks
    MaxDelay,     \* bound: how far ahead a reminder is scheduled
    MaxGen,       \* bound: how often one reminder is scheduled
    Overdue,      \* bound: rows overdue by more than this are alike
    MaxCrashes,   \* bound: worker processes that die
    MaxDbFaults   \* bound: repository calls that raise

Keys == OneShot \cup Reminders
MaxAge == IF Retention > Lookback THEN Retention ELSE Lookback + 1

ASSUME KeysAssumption == OneShot \cap Reminders = {}
ASSUME BoundsAssumption ==
    /\ BatchSize \in Nat \ {0} /\ MaxRetries \in Nat \ {0}
    /\ BackoffCap \in Nat /\ RateDelay \in Nat
    /\ Retention \in Nat /\ Lookback \in Nat
    /\ MaxDelay \in Nat /\ MaxGen \in Nat /\ Overdue \in Nat
    /\ MaxCrashes \in Nat /\ MaxDbFaults \in Nat

VARIABLES
    status,     \* outbox_events.status, or ABSENT before the first enqueue
    retry,      \* outbox_events.retry_count
    due,        \* outbox_events.scheduled_for, relative to now
    age,        \* time since outbox_events.created_at
    gen,        \* which enqueue of the key the payload comes from
    pc,         \* where each worker's loop is
    running,    \* OutboxWorker._running
    batch,      \* the events process_batch has still to handle, its head first
    timer,      \* what is left of the sleep after a 429
    delivered,  \* history: <<key, gen>> that reached Discord
    again,      \* history: <<key, gen>> that reached Discord more than once
    withdrawn,  \* history: <<key, gen>> cancelled, or replaced by a new enqueue
    missed,     \* history: keys withdrawn while in flight, stranded or FAILED
    ackLost,    \* history: keys whose delivery reached Discord and still raised
    crashes, dbFaults

table   == <<status, retry, due, age, gen>>
worker  == <<pc, running, batch, timer>>
history == <<delivered, again, withdrawn, missed, ackLost>>
vars    == <<table, worker, history, crashes, dbFaults>>

Statuses == {"ABSENT", "PENDING", "PROCESSING", "PROCESSED", "FAILED", "CANCELLED"}
Snapshots == [key : Keys, gen : Nat, retry : Nat]

Holds(w, k) == \E i \in 1..Len(batch[w]) : batch[w][i].key = k
Held(k) == \E w \in Workers : Holds(w, k)

Backoff(n) == LET d == 2^n IN IF d \in 0..BackoffCap THEN d ELSE BackoffCap

Init ==
    /\ status = [k \in Keys |-> "ABSENT"]
    /\ retry = [k \in Keys |-> 0]
    /\ due = [k \in Keys |-> 0]
    /\ age = [k \in Keys |-> 0]
    /\ gen = [k \in Keys |-> 0]
    /\ pc = [w \in Workers |-> "down"]
    /\ running = [w \in Workers |-> FALSE]
    /\ batch = [w \in Workers |-> << >>]
    /\ timer = [w \in Workers |-> 0]
    /\ delivered = {} /\ again = {} /\ withdrawn = {} /\ missed = {} /\ ackLost = {}
    /\ crashes = 0 /\ dbFaults = 0

-----------------------------------------------------------------------------
(* The services' side: enqueue is an upsert on the idempotency key.        *)

\* Mutant: the upsert leaves the status of an existing row alone.
UpsertKeepsStatus(k, d) ==
    /\ status' = [status EXCEPT ![k] = IF @ = "ABSENT" THEN "PENDING" ELSE @]
    /\ retry' = [retry EXCEPT ![k] = 0]
    /\ due' = [due EXCEPT ![k] = d]
    /\ age' = [age EXCEPT ![k] = IF status[k] = "ABSENT" THEN 0 ELSE @]
    /\ gen' = [gen EXCEPT ![k] = @ + 1]
    /\ withdrawn' = withdrawn \cup {<<k, gen[k]>>}
    /\ missed' = IF Held(k) THEN missed \cup {k} ELSE missed
    /\ UNCHANGED <<worker, delivered, again, ackLost, crashes, dbFaults>>

Upsert(k, d) ==
    /\ status' = [status EXCEPT ![k] = "PENDING"]
    /\ retry' = [retry EXCEPT ![k] = 0]
    /\ due' = [due EXCEPT ![k] = d]
    /\ age' = [age EXCEPT ![k] = IF status[k] = "ABSENT" THEN 0 ELSE @]
    /\ gen' = [gen EXCEPT ![k] = @ + 1]
    /\ withdrawn' = withdrawn \cup {<<k, gen[k]>>}
    /\ missed' = IF Held(k) THEN missed \cup {k} ELSE missed
    /\ UNCHANGED <<worker, delivered, again, ackLost, crashes, dbFaults>>

EnqueueEvent(k) == k \in OneShot /\ status[k] = "ABSENT" /\ Upsert(k, 0)

ScheduleReminder(k) ==
    /\ k \in Reminders
    /\ gen[k] < MaxGen
    /\ \E d \in 1..MaxDelay : Upsert(k, d)

\* cancel_task_reminders finds only the rows that are PENDING at that moment.
CancelReminder(k) ==
    /\ k \in Reminders
    /\ status[k] # "ABSENT"
    /\ status' = [status EXCEPT ![k] = IF @ = "PENDING" THEN "CANCELLED" ELSE @]
    /\ withdrawn' = withdrawn \cup {<<k, gen[k]>>}
    /\ missed' = IF Held(k) \/ status[k] \in {"PROCESSING", "FAILED"}
                 THEN missed \cup {k} ELSE missed
    /\ UNCHANGED <<retry, due, age, gen, worker, delivered, again, ackLost,
                   crashes, dbFaults>>

\* Mutant: rows already processed are reclaimed too.
ReclaimableProcessed ==
    {k \in Keys : status[k] \in {"FAILED", "PROCESSED"} /\ age[k] <= Lookback}

\* reclaim_failed_events, run when the bot connects or resumes.
Reclaimable == {k \in Keys : status[k] = "FAILED" /\ age[k] <= Lookback}

ReclaimFailed ==
    /\ Reclaimable # {}
    /\ status' = [k \in Keys |-> IF k \in Reclaimable THEN "PENDING" ELSE status[k]]
    /\ retry' = [k \in Keys |-> IF k \in Reclaimable THEN 0 ELSE retry[k]]
    /\ due' = [k \in Keys |-> IF k \in Reclaimable THEN 0 ELSE due[k]]
    /\ UNCHANGED <<age, gen, worker, history, crashes, dbFaults>>

-----------------------------------------------------------------------------
(* The worker's loop.                                                      *)

DbFault ==
    /\ dbFaults < MaxDbFaults
    /\ dbFaults' = dbFaults + 1
    /\ UNCHANGED crashes

\* Mutant: the worker starts without reclaiming.
StartWithoutReclaim(w) ==
    /\ pc[w] = "down"
    /\ pc' = [pc EXCEPT ![w] = "poll"]
    /\ running' = [running EXCEPT ![w] = TRUE]
    /\ UNCHANGED <<table, batch, timer, history, crashes, dbFaults>>

\* start(): whatever is PROCESSING was stranded by an earlier run.
Start(w) ==
    /\ pc[w] = "down"
    /\ pc' = [pc EXCEPT ![w] = "poll"]
    /\ running' = [running EXCEPT ![w] = TRUE]
    /\ \/ /\ status' = [k \in Keys |->
                           IF status[k] = "PROCESSING" THEN "PENDING" ELSE status[k]]
          /\ UNCHANGED <<crashes, dbFaults>>
       \/ DbFault /\ UNCHANGED status       \* the reclaim raises, and is logged
    /\ UNCHANGED <<retry, due, age, gen, batch, timer, history>>

\* Mutant: cancelled rows are fetched as well.
ReadyOrCancelled == {k \in Keys : status[k] \in {"PENDING", "CANCELLED"} /\ due[k] <= 0}

\* The rows fetch_pending_batch may pick, in the order of scheduled_for.
Ready == {k \in Keys : status[k] = "PENDING" /\ due[k] <= 0}

FetchOrder(n, ks) ==
    LET picked == {ks[i] : i \in 1..n} IN
    /\ \A i, j \in 1..n : i < j => ks[i] # ks[j] /\ due[ks[i]] <= due[ks[j]]
    /\ \A k \in Ready \ picked : n = BatchSize /\ due[ks[n]] <= due[k]

Fetch(w) ==
    /\ pc[w] = "poll" /\ running[w]
    /\ \E n \in 1..BatchSize : \E ks \in [1..n -> Ready] :
          /\ FetchOrder(n, ks)
          /\ batch' = [batch EXCEPT ![w] =
                [i \in 1..n |->
                    [key |-> ks[i], gen |-> gen[ks[i]], retry |-> retry[ks[i]]]]]
          /\ status' = [k \in Keys |->
                IF k \in {ks[i] : i \in 1..n} THEN "PROCESSING" ELSE status[k]]
    /\ pc' = [pc EXCEPT ![w] = "next"]
    /\ UNCHANGED <<retry, due, age, gen, running, timer, history, crashes, dbFaults>>

\* dispatch_event of the head of the batch reaches Discord.
Deliver(e) ==
    /\ delivered' = delivered \cup {<<e.key, e.gen>>}
    /\ again' = IF <<e.key, e.gen>> \in delivered
                THEN again \cup {<<e.key, e.gen>>} ELSE again
    /\ UNCHANGED <<withdrawn, missed>>

Dispatching(w) == pc[w] = "next" /\ running[w] /\ batch[w] # << >>

DispatchOK(w) ==
    /\ Dispatching(w)
    /\ Deliver(Head(batch[w]))
    /\ pc' = [pc EXCEPT ![w] = "mark"]
    /\ UNCHANGED <<table, running, batch, timer, ackLost, crashes, dbFaults>>

\* Mutant: the exception of dispatch_event is swallowed.
DispatchFailSwallowed(w) ==
    /\ Dispatching(w)
    /\ pc' = [pc EXCEPT ![w] = "mark"]
    /\ UNCHANGED <<table, running, batch, timer, history, crashes, dbFaults>>

\* dispatch_event raises, a 429 or another error; the message may have got through.
DispatchFail(w) ==
    /\ Dispatching(w)
    /\ \E p \in {"handle", "handle429"} : pc' = [pc EXCEPT ![w] = p]
    /\ \/ UNCHANGED history
       \/ Deliver(Head(batch[w])) /\ ackLost' = ackLost \cup {Head(batch[w]).key}
    /\ UNCHANGED <<table, running, batch, timer, crashes, dbFaults>>

\* The loop goes on with the rest of the batch, or polls again.
Advance(w) ==
    /\ batch' = [batch EXCEPT ![w] = Tail(@)]
    /\ pc' = [pc EXCEPT ![w] = IF Len(batch[w]) = 1 THEN "poll" ELSE "next"]

\* Mutant: the whole batch is marked after its first event.
MarkBatchProcessed(w) ==
    /\ pc[w] = "mark"
    /\ status' = [k \in Keys |-> IF Holds(w, k) THEN "PROCESSED" ELSE status[k]]
    /\ batch' = [batch EXCEPT ![w] = << >>]
    /\ pc' = [pc EXCEPT ![w] = "poll"]
    /\ UNCHANGED <<retry, due, age, gen, running, timer, history, crashes, dbFaults>>

MarkProcessed(w) ==
    /\ pc[w] = "mark"
    /\ status' = [status EXCEPT ![Head(batch[w]).key] = "PROCESSED"]
    /\ Advance(w)
    /\ UNCHANGED <<retry, due, age, gen, running, timer, history, crashes, dbFaults>>

\* mark_processed raises inside the same try block: handled as a failed dispatch.
MarkFails(w) ==
    /\ pc[w] = "mark"
    /\ DbFault
    /\ pc' = [pc EXCEPT ![w] = "handle"]
    /\ UNCHANGED <<table, running, batch, timer, history>>

Exhausted(e) == e.retry + 1 >= MaxRetries \/ age[e.key] >= Retention

RescheduleOrFail(w) ==
    /\ pc[w] \in {"handle", "handle429"}
    /\ LET e == Head(batch[w])
           limited == pc[w] = "handle429"
       IN /\ status' = [status EXCEPT ![e.key] =
                           IF Exhausted(e) THEN "FAILED" ELSE "PENDING"]
          /\ retry' = [retry EXCEPT ![e.key] = e.retry + 1]
          /\ due' = [due EXCEPT ![e.key] =
                        IF limited THEN RateDelay ELSE Backoff(e.retry + 1)]
          /\ IF limited /\ ~Exhausted(e)
             THEN /\ pc' = [pc EXCEPT ![w] = "cool"]
                  /\ timer' = [timer EXCEPT ![w] = RateDelay]
                  /\ batch' = [batch EXCEPT ![w] = Tail(@)]
             ELSE Advance(w) /\ UNCHANGED timer
    /\ UNCHANGED <<age, gen, running, history, crashes, dbFaults>>

\* reschedule_or_fail raises: start() logs it, and the batch is gone.
RescheduleFails(w) ==
    /\ pc[w] \in {"handle", "handle429"}
    /\ DbFault
    /\ pc' = [pc EXCEPT ![w] = "poll"]
    /\ batch' = [batch EXCEPT ![w] = << >>]
    /\ UNCHANGED <<table, running, timer, history>>

Wake(w) ==
    /\ pc[w] = "cool" /\ timer[w] = 0
    /\ pc' = [pc EXCEPT ![w] = IF batch[w] = << >> THEN "poll" ELSE "next"]
    /\ UNCHANGED <<table, running, batch, timer, history, crashes, dbFaults>>

\* stop() is asked for while the loop runs ...
Stop(w) ==
    /\ running[w]
    /\ running' = [running EXCEPT ![w] = FALSE]
    /\ UNCHANGED <<table, pc, batch, timer, history, crashes, dbFaults>>

\* ... and the loop leaves between two events; the rest of the batch stays behind.
Leave(w) ==
    /\ ~running[w] /\ pc[w] \in {"poll", "next"}
    /\ pc' = [pc EXCEPT ![w] = "down"]
    /\ batch' = [batch EXCEPT ![w] = << >>]
    /\ UNCHANGED <<table, running, timer, history, crashes, dbFaults>>

\* The process dies, or the task is cancelled, at any point.
Crash(w) ==
    /\ pc[w] # "down" /\ crashes < MaxCrashes
    /\ crashes' = crashes + 1
    /\ pc' = [pc EXCEPT ![w] = "down"]
    /\ running' = [running EXCEPT ![w] = FALSE]
    /\ batch' = [batch EXCEPT ![w] = << >>]
    /\ timer' = [timer EXCEPT ![w] = 0]
    /\ UNCHANGED <<table, history, dbFaults>>

-----------------------------------------------------------------------------

Tick ==
    /\ due' = [k \in Keys |-> IF due[k] > -Overdue THEN due[k] - 1 ELSE due[k]]
    /\ age' = [k \in Keys |->
                  IF status[k] # "ABSENT" /\ age[k] < MaxAge THEN age[k] + 1 ELSE age[k]]
    /\ timer' = [w \in Workers |-> IF timer[w] > 0 THEN timer[w] - 1 ELSE 0]
    /\ UNCHANGED <<status, retry, gen, pc, running, batch, history, crashes, dbFaults>>

WorkerStep(w) ==
    \/ Start(w) \/ Fetch(w) \/ DispatchOK(w) \/ DispatchFail(w)
    \/ MarkProcessed(w) \/ RescheduleOrFail(w) \/ Wake(w) \/ Leave(w)

Next ==
    \/ \E k \in Keys : EnqueueEvent(k) \/ ScheduleReminder(k) \/ CancelReminder(k)
    \/ ReclaimFailed
    \/ \E w \in Workers :
          \/ WorkerStep(w)
          \/ MarkFails(w) \/ RescheduleFails(w) \/ Stop(w) \/ Crash(w)
    \/ Tick

Spec == Init /\ [][Next]_vars

\* The event loop runs a ready coroutine, the supervisor restarts a dead process,
\* and time passes; nothing is assumed of Discord, of stop() or of faults.
FairSpec == Spec /\ WF_vars(Tick) /\ \A w \in Workers : WF_vars(WorkerStep(w))

-----------------------------------------------------------------------------
(* Properties.                                                             *)

\* Type invariant of the table, the workers and the history.
TypeTable ==
    /\ status \in [Keys -> Statuses]
    /\ retry \in [Keys -> Nat] /\ gen \in [Keys -> Nat]
    /\ due \in [Keys -> Int] /\ age \in [Keys -> Nat]

TypeWorker ==
    /\ pc \in [Workers -> {"down", "poll", "next", "mark", "handle", "handle429", "cool"}]
    /\ running \in [Workers -> BOOLEAN]
    /\ batch \in [Workers -> Seq(Snapshots)]
    /\ timer \in [Workers -> Nat]

TypeHistory ==
    /\ delivered \subseteq Keys \X Nat /\ again \subseteq delivered
    /\ withdrawn \subseteq Keys \X Nat
    /\ missed \subseteq Keys /\ ackLost \subseteq Keys
    /\ crashes \in 0..MaxCrashes /\ dbFaults \in 0..MaxDbFaults

TypeOK == TypeTable /\ TypeWorker /\ TypeHistory

\* A row is PROCESSED only once the event it now holds has reached Discord.
Delivered(k) == status[k] = "PROCESSED" => <<k, gen[k]>> \in delivered

\* No event is marked PROCESSED that was never dispatched: the worker calls
\* mark_processed by id, after an await, on a row others may have touched.
\* Holds for every event enqueued once, whatever workers crash, stop or overlap.
ProcessedWasDelivered == \A k \in OneShot : Delivered(k)

\* The promise of Delivery, with one worker, read off the table.
Phase(k) ==
    CASE status[k] = "ABSENT"    -> "idle"
      [] status[k] = "PROCESSED" -> "acked"
      [] status[k] = "FAILED"    -> "dead"
      [] OTHER                   -> "queued"

D == INSTANCE Delivery WITH
        Events <- OneShot,
        phase  <- [k \in OneShot |-> Phase(k)],
        sent   <- {k \in OneShot : <<k, gen[k]>> \in delivered}

\* One worker, with crashes, failed writes, stops and restarts, implements Delivery:
\* acknowledged means sent, and nothing acknowledged is queued again.
ImplementsDelivery == D!Spec

\* The same for the reminders, whose rows are enqueued again: it fails when the
\* reschedule comes between the dispatch and mark_processed of the old payload.
ReminderNotLost == \A k \in Reminders : Delivered(k)

\* With one worker that race is the only way a reminder is lost.
ReminderLostOnlyByRace == \A k \in Reminders : Delivered(k) \/ k \in missed

\* A message goes out twice only after a crash, a failed write, or a call to
\* Discord that raised although it had succeeded: stop and restart never resend.
NoSpuriousDuplicate ==
    crashes = 0 /\ dbFaults = 0 => \A p \in again : p[1] \in ackLost

\* A reminder that was cancelled or replaced while it was waiting in the queue is
\* never sent.  One in flight, stranded or FAILED may be: cancel_task_reminders leaves
\* rows alone that are not PENDING.
WithdrawnWhileQueuedIsSilent ==
    [][\A p \in (delivered' \ delivered) \cap withdrawn : p[1] \in missed]_vars

\* Every event enqueued is in the end delivered and settled, or given up on, across
\* crashes, rate limits and reclaims, provided the worker is not stopped over and over
\* again and its database calls succeed.
EventuallySettled ==
    [](dbFaults = 0) /\ (\A w \in Workers : <>[]running[w])
        => \A k \in OneShot :
              status[k] # "ABSENT" ~> status[k] \in {"PROCESSED", "FAILED"}

\* A row left PROCESSING by a stall is picked up again while the worker runs on.
StallIsReclaimed ==
    \A k \in OneShot : status[k] = "PROCESSING" ~> status[k] # "PROCESSING"
=============================================================================
