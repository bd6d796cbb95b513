----------------------------- MODULE OutboxProofs -----------------------------
(***************************************************************************)
(* Theorems about Outbox, for any keys, workers, bounds and faults.        *)
(***************************************************************************)
EXTENDS Outbox, SequenceTheorems, TLAPS

\* What a worker may rely on when its batch is not empty: the head is a snapshot,
\* and the rest of the batch holds the same snapshots one position later.
HeadFacts(w) ==
    /\ Head(batch[w]) = batch[w][1] /\ 1 \in 1..Len(batch[w])
    /\ Head(batch[w]).key \in Keys
    /\ Head(batch[w]).gen \in Nat /\ Head(batch[w]).retry \in Nat
    /\ Tail(batch[w]) \in Seq(Snapshots)
    /\ Tail(batch[w]) = << >> <=> Len(batch[w]) = 1
    /\ \A i \in 1..Len(Tail(batch[w])) :
          i + 1 \in 1..Len(batch[w]) /\ Tail(batch[w])[i] = batch[w][i + 1]

\* A batch that is not empty has these facts.
LEMMA HeadOfBatch ==
    ASSUME TypeWorker, NEW w \in Workers, batch[w] # << >>
    PROVE  HeadFacts(w)
  <1> DEFINE s == batch[w]
  <1>1. s \in Seq(Snapshots) /\ s # << >>
    BY DEF TypeWorker
  <1>2. Len(s) \in Nat /\ Len(s) # 0
    BY <1>1, EmptySeq
  <1>3. /\ Head(s) \in Snapshots /\ Tail(s) \in Seq(Snapshots)
        /\ Len(Tail(s)) = Len(s) - 1
        /\ \A i \in 1..Len(Tail(s)) : Tail(s)[i] = s[i + 1]
    BY <1>1, HeadTailProperties
  <1>4. Tail(s) = << >> <=> Len(s) = 1
    <2>1. ASSUME Tail(s) = << >> PROVE Len(Tail(s)) = 0
      BY <2>1, EmptySeq
    <2>2. ASSUME Tail(s) # << >> PROVE Len(Tail(s)) # 0
      BY <2>2, <1>3, EmptySeq
    <2> QED
      BY <1>2, <1>3, <2>1, <2>2
  <1>5. Head(s) = s[1] /\ 1 \in 1..Len(s)
    BY <1>1, <1>2
  <1>6. Head(s).key \in Keys /\ Head(s).gen \in Nat /\ Head(s).retry \in Nat
    BY <1>3 DEF Snapshots
  <1>7. \A i \in 1..Len(Tail(s)) : i + 1 \in 1..Len(s)
    BY <1>2, <1>3
  <1> QED
    BY <1>3, <1>4, <1>5, <1>6, <1>7 DEF HeadFacts

\* Where a worker is says whether it has a batch: the head of the batch exists
\* wherever the worker's steps use it.
HasBatch ==
    \A w \in Workers :
        /\ pc[w] \in {"next", "mark", "handle", "handle429"} => batch[w] # << >>
        /\ pc[w] \in {"down", "poll"} => batch[w] = << >>

\* The table and every snapshot of an event enqueued once are of its only enqueue.
OneGeneration ==
    /\ \A k \in OneShot : gen[k] = IF status[k] = "ABSENT" THEN 0 ELSE 1
    /\ \A w \in Workers : \A i \in 1..Len(batch[w]) :
          batch[w][i].key \in OneShot =>
              /\ status[batch[w][i].key] # "ABSENT"
              /\ batch[w][i].gen = gen[batch[w][i].key]

\* A worker about to mark the head of its batch has sent it.
MarkedIsSent ==
    \A w \in Workers : pc[w] = "mark" =>
        <<Head(batch[w]).key, Head(batch[w]).gen>> \in delivered

\* The inductive invariant: ProcessedWasDelivered needs the other parts.
IInv ==
    /\ TypeTable /\ TypeWorker /\ TypeHistory
    /\ HasBatch /\ OneGeneration /\ MarkedIsSent /\ ProcessedWasDelivered

\* An empty table and stopped workers satisfy the invariant.
LEMMA InitIInv == Init => IInv
  BY BoundsAssumption, KeysAssumption
  DEF Init, IInv, TypeTable, TypeWorker, TypeHistory, HasBatch, OneGeneration,
      MarkedIsSent, ProcessedWasDelivered, Delivered, Statuses, Keys

\* Every step but Fetch leaves a worker with no snapshot it did not have.
Shrinks ==
    \A w \in Workers : \A i \in 1..Len(batch'[w]) :
        \E j \in 1..Len(batch[w]) : batch'[w][i] = batch[w][j]

\* The head of one batch is done with.
LEMMA TailShrinks ==
    ASSUME batch \in [Workers -> Seq(Snapshots)], NEW w \in Workers, HeadFacts(w),
           batch' = [batch EXCEPT ![w] = Tail(batch[w])]
    PROVE  Shrinks
  <1> SUFFICES ASSUME NEW v \in Workers, NEW i \in 1..Len(batch'[v])
               PROVE  \E j \in 1..Len(batch[v]) : batch'[v][i] = batch[v][j]
    BY DEF Shrinks
  <1>1. CASE v = w
    <2>1. batch'[v] = Tail(batch[w])
      BY <1>1
    <2>2. i + 1 \in 1..Len(batch[w]) /\ Tail(batch[w])[i] = batch[w][i + 1]
      BY <2>1 DEF HeadFacts
    <2> QED
      BY <1>1, <2>1, <2>2
  <1>2. CASE v # w
    BY <1>2
  <1> QED
    BY <1>1, <1>2

\* A step that enqueues nothing and fetches nothing keeps OneGeneration.
LEMMA GenerationKept ==
    ASSUME OneGeneration, Shrinks,
           \A k \in OneShot : gen'[k] = gen[k],
           \A k \in OneShot : status'[k] = "ABSENT" <=> status[k] = "ABSENT"
    PROVE  OneGeneration'
  <1>1. \A k \in OneShot : gen'[k] = IF status'[k] = "ABSENT" THEN 0 ELSE 1
    BY DEF OneGeneration
  <1>2. ASSUME NEW w \in Workers, NEW i \in 1..Len(batch'[w]),
               batch'[w][i].key \in OneShot
        PROVE  /\ status'[batch'[w][i].key] # "ABSENT"
               /\ batch'[w][i].gen = gen'[batch'[w][i].key]
    <2>1. PICK j \in 1..Len(batch[w]) : batch'[w][i] = batch[w][j]
      BY DEF Shrinks
    <2> QED
      BY <1>2, <2>1 DEF OneGeneration
  <1> QED
    BY <1>1, <1>2 DEF OneGeneration

\* Every step keeps the inductive invariant.
LEMMA NextIInv == IInv /\ [Next]_vars => IInv'
  <1> USE DEF vars, table, worker, history, IInv
  <1> SUFFICES ASSUME IInv, [Next]_vars PROVE IInv'
    OBVIOUS
  <1>k. OneShot \subseteq Keys /\ \A k \in OneShot : k \notin Reminders
    BY KeysAssumption DEF Keys
  <1>e. << >> \in Seq(Snapshots)
    OBVIOUS
  <1>1. ASSUME NEW k \in Keys, EnqueueEvent(k) PROVE IInv'
    <2>1. TypeTable'
      BY <1>1, BoundsAssumption DEF EnqueueEvent, Upsert, TypeTable, TypeWorker, Statuses, Snapshots
    <2>2. TypeWorker'
      BY <1>1, <1>e, BoundsAssumption DEF EnqueueEvent, Upsert, TypeTable, TypeWorker
    <2>3. TypeHistory'
      BY <1>1, BoundsAssumption DEF EnqueueEvent, Upsert, TypeTable, TypeHistory, TypeWorker, Snapshots
    <2>4. HasBatch'
      BY <1>1 DEF EnqueueEvent, Upsert, TypeWorker, HasBatch
    <2>5. Shrinks
      BY <1>1 DEF EnqueueEvent, Upsert, TypeWorker, Shrinks
    <2>6. OneGeneration'
      BY <1>1, <1>k DEF EnqueueEvent, Upsert, TypeTable, OneGeneration
    <2>7. MarkedIsSent'
      BY <1>1 DEF EnqueueEvent, Upsert, TypeWorker, MarkedIsSent, HasBatch
    <2>8. ProcessedWasDelivered'
      BY <1>1, <1>k DEF EnqueueEvent, Upsert, TypeTable, ProcessedWasDelivered, Delivered
    <2> QED BY <2>1, <2>2, <2>3, <2>4, <2>6, <2>7, <2>8
  <1>2. ASSUME NEW k \in Keys, ScheduleReminder(k) PROVE IInv'
    <2>1. TypeTable'
      BY <1>2, BoundsAssumption DEF ScheduleReminder, Upsert, TypeTable, TypeWorker, Statuses, Snapshots
    <2>2. TypeWorker'
      BY <1>2, <1>e, BoundsAssumption DEF ScheduleReminder, Upsert, TypeTable, TypeWorker
    <2>3. TypeHistory'
      <3>1. PICK d : Upsert(k, d)
        BY <1>2 DEF ScheduleReminder
      <3> QED
        BY <3>1 DEF Upsert, TypeTable, TypeHistory
    <2>4. HasBatch'
      BY <1>2 DEF ScheduleReminder, Upsert, TypeWorker, HasBatch
    <2>5. Shrinks
      BY <1>2 DEF ScheduleReminder, Upsert, TypeWorker, Shrinks
    <2>6. OneGeneration'
      BY <1>2, <1>k, <2>5, GenerationKept DEF ScheduleReminder, Upsert, TypeTable
    <2>7. MarkedIsSent'
      BY <1>2 DEF ScheduleReminder, Upsert, TypeWorker, MarkedIsSent, HasBatch
    <2>8. ProcessedWasDelivered'
      BY <1>2, <1>k DEF ScheduleReminder, Upsert, TypeTable, ProcessedWasDelivered, Delivered
    <2> QED BY <2>1, <2>2, <2>3, <2>4, <2>6, <2>7, <2>8
  <1>3. ASSUME NEW k \in Keys, CancelReminder(k) PROVE IInv'
    <2>1. TypeTable'
      BY <1>3, BoundsAssumption DEF CancelReminder, TypeTable, TypeWorker, Statuses, Snapshots
    <2>2. TypeWorker'
      BY <1>3, <1>e, BoundsAssumption DEF CancelReminder, TypeTable, TypeWorker
    <2>3. TypeHistory'
      BY <1>3, BoundsAssumption DEF CancelReminder, TypeTable, TypeHistory, TypeWorker, Snapshots
    <2>4. HasBatch'
      BY <1>3 DEF CancelReminder, TypeWorker, HasBatch
    <2>5. Shrinks
      BY <1>3 DEF CancelReminder, TypeWorker, Shrinks
    <2>6. OneGeneration'
      BY <1>3, <1>k, <2>5, GenerationKept DEF CancelReminder, TypeTable
    <2>7. MarkedIsSent'
      BY <1>3 DEF CancelReminder, TypeWorker, MarkedIsSent, HasBatch
    <2>8. ProcessedWasDelivered'
      BY <1>3, <1>k DEF CancelReminder, TypeTable, ProcessedWasDelivered, Delivered
    <2> QED BY <2>1, <2>2, <2>3, <2>4, <2>6, <2>7, <2>8
  <1>4. ASSUME ReclaimFailed PROVE IInv'
    <2>1. TypeTable'
      BY <1>4, BoundsAssumption DEF ReclaimFailed, Reclaimable, TypeTable, TypeWorker, Statuses, Snapshots
    <2>2. TypeWorker'
      BY <1>4, <1>e, BoundsAssumption DEF ReclaimFailed, Reclaimable, TypeTable, TypeWorker
    <2>3. TypeHistory'
      BY <1>4, BoundsAssumption DEF ReclaimFailed, Reclaimable, TypeTable, TypeHistory, TypeWorker, Snapshots
    <2>4. HasBatch'
      BY <1>4 DEF ReclaimFailed, Reclaimable, TypeWorker, HasBatch
    <2>5. Shrinks
      BY <1>4 DEF ReclaimFailed, Reclaimable, TypeWorker, Shrinks
    <2>6. OneGeneration'
      BY <1>4, <1>k, <2>5, GenerationKept DEF ReclaimFailed, Reclaimable, TypeTable
    <2>7. MarkedIsSent'
      BY <1>4 DEF ReclaimFailed, Reclaimable, TypeWorker, MarkedIsSent, HasBatch
    <2>8. ProcessedWasDelivered'
      BY <1>4, <1>k DEF ReclaimFailed, Reclaimable, TypeTable, ProcessedWasDelivered, Delivered
    <2> QED BY <2>1, <2>2, <2>3, <2>4, <2>6, <2>7, <2>8
  <1>5. ASSUME NEW w \in Workers, Start(w) PROVE IInv'
    <2>1. TypeTable'
      BY <1>5, BoundsAssumption DEF Start, DbFault, TypeTable, TypeWorker, Statuses, Snapshots
    <2>2. TypeWorker'
      BY <1>5, <1>e, BoundsAssumption DEF Start, DbFault, TypeTable, TypeWorker
    <2>3. TypeHistory'
      BY <1>5, BoundsAssumption DEF Start, DbFault, TypeHistory
    <2>4. HasBatch'
      BY <1>5 DEF Start, DbFault, TypeWorker, HasBatch
    <2>5. Shrinks
      BY <1>5 DEF Start, DbFault, TypeWorker, Shrinks
    <2>6. OneGeneration'
      BY <1>5, <1>k, <2>5, GenerationKept DEF Start, DbFault, TypeTable
    <2>7. MarkedIsSent'
      BY <1>5 DEF Start, DbFault, TypeWorker, MarkedIsSent, HasBatch
    <2>8. ProcessedWasDelivered'
      BY <1>5, <1>k DEF Start, DbFault, TypeTable, ProcessedWasDelivered, Delivered
    <2> QED BY <2>1, <2>2, <2>3, <2>4, <2>6, <2>7, <2>8
  <1>6. ASSUME NEW w \in Workers, Fetch(w) PROVE IInv'
    <2>m. PICK n \in 1..BatchSize : \E ks \in [1..n -> Ready] :
             /\ batch' = [batch EXCEPT ![w] =
                   [i \in 1..n |->
                       [key |-> ks[i], gen |-> gen[ks[i]], retry |-> retry[ks[i]]]]]
             /\ status' = [k \in Keys |->
                   IF k \in {ks[i] : i \in 1..n} THEN "PROCESSING" ELSE status[k]]
      BY <1>6 DEF Fetch
    <2>0. PICK ks \in [1..n -> Ready] :
             /\ batch' = [batch EXCEPT ![w] =
                   [i \in 1..n |->
                       [key |-> ks[i], gen |-> gen[ks[i]], retry |-> retry[ks[i]]]]]
             /\ status' = [k \in Keys |->
                   IF k \in {ks[i] : i \in 1..n} THEN "PROCESSING" ELSE status[k]]
      BY <2>m
    <2>a. n \in Nat /\ \A i \in 1..n : ks[i] \in Keys /\ status[ks[i]] = "PENDING"
      BY <2>0, BoundsAssumption DEF Ready
    <2>b. UNCHANGED <<retry, due, age, gen, running, timer, history, crashes, dbFaults>>
          /\ pc[w] = "poll" /\ pc' = [pc EXCEPT ![w] = "next"]
      BY <1>6 DEF Fetch
    <2> DEFINE new == [i \in 1..n |->
                          [key |-> ks[i], gen |-> gen[ks[i]], retry |-> retry[ks[i]]]]
    <2>c. \A i \in 1..n : new[i] \in Snapshots
      BY <2>a DEF TypeTable, Snapshots
    <2>d. new \in Seq(Snapshots) /\ Len(new) = n
      BY <2>a, <2>c
    <2>f. batch' = [batch EXCEPT ![w] = new]
      BY <2>0
    <2> HIDE DEF new
    <2>e. new # << >>
      BY <2>d, EmptySeq
    <2>1. TypeTable'
      BY <2>0, <2>b DEF TypeTable, Statuses
    <2>2. TypeWorker'
      BY <2>b, <2>d, <2>f DEF TypeWorker
    <2>3. TypeHistory'
      BY <2>b DEF TypeHistory
    <2>4. HasBatch'
      BY <2>b, <2>e, <2>f DEF TypeWorker, HasBatch
    <2>5. \A k \in Keys : status'[k] = "ABSENT" <=> status[k] = "ABSENT"
      BY <2>0, <2>a
    <2>6. OneGeneration'
      <3>1. \A k \in OneShot : gen'[k] = IF status'[k] = "ABSENT" THEN 0 ELSE 1
        BY <2>5, <2>b, <1>k DEF OneGeneration
      <3>2. ASSUME NEW v \in Workers, NEW i \in 1..Len(batch'[v]),
                   batch'[v][i].key \in OneShot
            PROVE  /\ status'[batch'[v][i].key] # "ABSENT"
                   /\ batch'[v][i].gen = gen'[batch'[v][i].key]
        <4>1. CASE v = w
          <5>1. batch'[v] = new /\ i \in 1..n
            BY <3>2, <4>1, <2>d, <2>f DEF TypeWorker
          <5> QED
            BY <5>1, <2>a, <2>b, <2>5, <3>2 DEF new
        <4>2. CASE v # w
          BY <4>2, <3>2, <2>b, <2>f, <2>5, <1>k DEF TypeWorker, OneGeneration
        <4> QED
          BY <4>1, <4>2
      <3> QED
        BY <3>1, <3>2 DEF OneGeneration
    <2>7. MarkedIsSent'
      BY <2>b, <2>f DEF TypeWorker, MarkedIsSent
    <2>8. ProcessedWasDelivered'
      BY <2>0, <2>b, <1>k DEF ProcessedWasDelivered, Delivered
    <2> QED BY <2>1, <2>2, <2>3, <2>4, <2>6, <2>7, <2>8
  <1>7. ASSUME NEW w \in Workers, DispatchOK(w) PROVE IInv'
    <2>0. HeadFacts(w)
      BY <1>7, HeadOfBatch DEF DispatchOK, Dispatching, Deliver, HasBatch
    <2>1. TypeTable'
      BY <1>7, BoundsAssumption, <2>0 DEF DispatchOK, Dispatching, Deliver, TypeTable, TypeWorker, Statuses, Snapshots, HeadFacts
    <2>2. TypeWorker'
      BY <1>7, <1>e, BoundsAssumption, <2>0 DEF DispatchOK, Dispatching, Deliver, TypeTable, TypeWorker, HeadFacts
    <2>3. TypeHistory'
      BY <1>7, <2>0 DEF DispatchOK, Deliver, TypeHistory, HeadFacts
    <2>4. HasBatch'
      BY <1>7, <2>0 DEF DispatchOK, Dispatching, Deliver, TypeWorker, HasBatch, HeadFacts
    <2>5. Shrinks
      BY <1>7, <2>0 DEF DispatchOK, Dispatching, Deliver, TypeWorker, Shrinks, HeadFacts
    <2>6. OneGeneration'
      BY <1>7, <1>k, <2>5, GenerationKept, <2>0 DEF DispatchOK, Dispatching, Deliver, TypeTable, HeadFacts
    <2>7. MarkedIsSent'
      BY <1>7, <2>0 DEF DispatchOK, Dispatching, Deliver, TypeWorker, MarkedIsSent, HasBatch, HeadFacts
    <2>8. ProcessedWasDelivered'
      BY <1>7, <1>k, <2>0 DEF DispatchOK, Dispatching, Deliver, TypeTable, ProcessedWasDelivered, Delivered, HeadFacts
    <2> QED BY <2>1, <2>2, <2>3, <2>4, <2>6, <2>7, <2>8
  <1>8. ASSUME NEW w \in Workers, DispatchFail(w) PROVE IInv'
    <2>0. HeadFacts(w)
      BY <1>8, HeadOfBatch DEF DispatchFail, Dispatching, Deliver, HasBatch
    <2>1. TypeTable'
      BY <1>8, BoundsAssumption, <2>0 DEF DispatchFail, Dispatching, Deliver, TypeTable, TypeWorker, Statuses, Snapshots, HeadFacts
    <2>2. TypeWorker'
      BY <1>8, <1>e, BoundsAssumption, <2>0 DEF DispatchFail, Dispatching, Deliver, TypeTable, TypeWorker, HeadFacts
    <2>3. TypeHistory'
      BY <1>8, <2>0 DEF DispatchFail, Deliver, TypeHistory, HeadFacts
    <2>4. HasBatch'
      BY <1>8, <2>0 DEF DispatchFail, Dispatching, Deliver, TypeWorker, HasBatch, HeadFacts
    <2>5. Shrinks
      BY <1>8, <2>0 DEF DispatchFail, Dispatching, Deliver, TypeWorker, Shrinks, HeadFacts
    <2>6. OneGeneration'
      BY <1>8, <1>k, <2>5, GenerationKept, <2>0 DEF DispatchFail, Dispatching, Deliver, TypeTable, HeadFacts
    <2>7. MarkedIsSent'
      BY <1>8, <2>0 DEF DispatchFail, Dispatching, Deliver, TypeWorker, MarkedIsSent, HasBatch, HeadFacts
    <2>8. ProcessedWasDelivered'
      BY <1>8, <1>k, <2>0 DEF DispatchFail, Dispatching, Deliver, TypeTable, ProcessedWasDelivered, Delivered, HeadFacts
    <2> QED BY <2>1, <2>2, <2>3, <2>4, <2>6, <2>7, <2>8
  <1>9. ASSUME NEW w \in Workers, MarkProcessed(w) PROVE IInv'
    <2>0. HeadFacts(w)
      BY <1>9, HeadOfBatch DEF MarkProcessed, Advance, HasBatch
    <2>1. TypeTable'
      BY <1>9, BoundsAssumption, <2>0 DEF MarkProcessed, Advance, TypeTable, TypeWorker, Statuses, Snapshots, HeadFacts
    <2>2. TypeWorker'
      BY <1>9, <1>e, BoundsAssumption, <2>0 DEF MarkProcessed, Advance, TypeTable, TypeWorker, HeadFacts
    <2>3. TypeHistory'
      BY <1>9, BoundsAssumption, <2>0 DEF MarkProcessed, Advance, TypeTable, TypeHistory, TypeWorker, Snapshots, HeadFacts
    <2>4. HasBatch'
      BY <1>9, <2>0 DEF MarkProcessed, Advance, TypeWorker, HasBatch, HeadFacts
    <2>5. Shrinks
      <3>1. batch' = [batch EXCEPT ![w] = Tail(batch[w])] /\ batch \in [Workers -> Seq(Snapshots)]
        BY <1>9 DEF MarkProcessed, Advance, TypeWorker
      <3> QED
        BY <2>0, <3>1, TailShrinks
    <2>6. OneGeneration'
      <3>1. Head(batch[w]).key \in OneShot => status[Head(batch[w]).key] # "ABSENT"
        BY <2>0 DEF HeadFacts, OneGeneration
      <3> QED
        BY <1>9, <1>k, <2>5, <3>1, GenerationKept DEF MarkProcessed, TypeTable
    <2>7. MarkedIsSent'
      BY <1>9, <2>0 DEF MarkProcessed, Advance, TypeWorker, MarkedIsSent, HasBatch, HeadFacts
    <2>8. ProcessedWasDelivered'
      <3> DEFINE e == Head(batch[w])
      <3>1. <<e.key, e.gen>> \in delivered
        BY <1>9 DEF MarkProcessed, MarkedIsSent
      <3>2. e.key \in OneShot => e.gen = gen[e.key]
        BY <2>0 DEF HeadFacts, OneGeneration
      <3>3. status' = [status EXCEPT ![e.key] = "PROCESSED"] /\ UNCHANGED <<gen, delivered>>
        BY <1>9 DEF MarkProcessed
      <3> HIDE DEF e
      <3> QED
        BY <1>k, <3>1, <3>2, <3>3 DEF TypeTable, ProcessedWasDelivered, Delivered
    <2> QED BY <2>1, <2>2, <2>3, <2>4, <2>6, <2>7, <2>8
  <1>10. ASSUME NEW w \in Workers, RescheduleOrFail(w) PROVE IInv'
    <2> DEFINE e == Head(batch[w])
    <2>0. HeadFacts(w)
      BY <1>10, HeadOfBatch DEF RescheduleOrFail, HasBatch
    <2>a. /\ status' = [status EXCEPT ![e.key] = IF Exhausted(e) THEN "FAILED" ELSE "PENDING"]
          /\ retry' = [retry EXCEPT ![e.key] = e.retry + 1]
          /\ due' = [due EXCEPT ![e.key] =
                        IF pc[w] = "handle429" THEN RateDelay ELSE Backoff(e.retry + 1)]
          /\ UNCHANGED <<age, gen, running, history, crashes, dbFaults>>
      BY <1>10 DEF RescheduleOrFail
    <2>b. batch' = [batch EXCEPT ![w] = Tail(batch[w])]
      BY <1>10 DEF RescheduleOrFail, Advance, TypeWorker
    <2>c. \E p \in {"cool", "poll", "next"} :
             /\ pc' = [pc EXCEPT ![w] = p]
             /\ p = "poll" => Tail(batch[w]) = << >>
             /\ p = "next" => Tail(batch[w]) # << >>
      BY <1>10, <2>0 DEF RescheduleOrFail, Advance, HeadFacts
    <2>d. \E t \in Nat : timer' = timer \/ timer' = [timer EXCEPT ![w] = t]
      BY <1>10, BoundsAssumption DEF RescheduleOrFail
    <2>e. Backoff(e.retry + 1) \in Nat /\ e.key \in Keys /\ e.retry + 1 \in Nat
      BY <2>0, BoundsAssumption DEF Backoff, HeadFacts
    <2>f. e.key \in OneShot => status[e.key] # "ABSENT"
      BY <2>0 DEF HeadFacts, OneGeneration
    <2> HIDE DEF e
    <2>1. TypeTable'
      BY <2>a, <2>e, BoundsAssumption DEF TypeTable, Statuses
    <2>2. TypeWorker'
      <3>1. pc' \in [Workers -> {"down", "poll", "next", "mark", "handle", "handle429", "cool"}]
        BY <2>c DEF TypeWorker
      <3>2. batch' \in [Workers -> Seq(Snapshots)]
        BY <2>0, <2>b DEF TypeWorker, HeadFacts
      <3>3. timer' \in [Workers -> Nat] /\ running' \in [Workers -> BOOLEAN]
        BY <2>a, <2>d DEF TypeWorker
      <3> QED
        BY <3>1, <3>2, <3>3 DEF TypeWorker
    <2>3. TypeHistory'
      BY <2>a DEF TypeHistory
    <2>4. HasBatch'
      BY <2>b, <2>c DEF TypeWorker, HasBatch
    <2>5. Shrinks
      BY <2>0, <2>b, TailShrinks DEF TypeWorker
    <2>6. OneGeneration'
      BY <1>k, <2>a, <2>5, <2>f, GenerationKept DEF TypeTable
    <2>7. MarkedIsSent'
      BY <2>a, <2>b, <2>c DEF TypeWorker, MarkedIsSent
    <2>8. ProcessedWasDelivered'
      BY <1>k, <2>a DEF TypeTable, ProcessedWasDelivered, Delivered
    <2> QED BY <2>1, <2>2, <2>3, <2>4, <2>6, <2>7, <2>8
  <1>11. ASSUME NEW w \in Workers, Wake(w) PROVE IInv'
    <2>1. TypeTable'
      BY <1>11, BoundsAssumption DEF Wake, TypeTable, TypeWorker, Statuses, Snapshots
    <2>2. TypeWorker'
      BY <1>11, <1>e, BoundsAssumption DEF Wake, TypeTable, TypeWorker
    <2>3. TypeHistory'
      BY <1>11, BoundsAssumption DEF Wake, TypeTable, TypeHistory, TypeWorker, Snapshots
    <2>4. HasBatch'
      BY <1>11 DEF Wake, TypeWorker, HasBatch
    <2>5. Shrinks
      BY <1>11 DEF Wake, TypeWorker, Shrinks
    <2>6. OneGeneration'
      BY <1>11, <1>k, <2>5, GenerationKept DEF Wake, TypeTable
    <2>7. MarkedIsSent'
      BY <1>11 DEF Wake, TypeWorker, MarkedIsSent, HasBatch
    <2>8. ProcessedWasDelivered'
      BY <1>11, <1>k DEF Wake, TypeTable, ProcessedWasDelivered, Delivered
    <2> QED BY <2>1, <2>2, <2>3, <2>4, <2>6, <2>7, <2>8
  <1>12. ASSUME NEW w \in Workers, Leave(w) PROVE IInv'
    <2>1. TypeTable'
      BY <1>12, BoundsAssumption DEF Leave, TypeTable, TypeWorker, Statuses, Snapshots
    <2>2. TypeWorker'
      BY <1>12, <1>e, BoundsAssumption DEF Leave, TypeTable, TypeWorker
    <2>3. TypeHistory'
      BY <1>12, BoundsAssumption DEF Leave, TypeTable, TypeHistory, TypeWorker, Snapshots
    <2>4. HasBatch'
      BY <1>12 DEF Leave, TypeWorker, HasBatch
    <2>5. Shrinks
      BY <1>12 DEF Leave, TypeWorker, Shrinks
    <2>6. OneGeneration'
      BY <1>12, <1>k, <2>5, GenerationKept DEF Leave, TypeTable
    <2>7. MarkedIsSent'
      BY <1>12 DEF Leave, TypeWorker, MarkedIsSent, HasBatch
    <2>8. ProcessedWasDelivered'
      BY <1>12, <1>k DEF Leave, TypeTable, ProcessedWasDelivered, Delivered
    <2> QED BY <2>1, <2>2, <2>3, <2>4, <2>6, <2>7, <2>8
  <1>13. ASSUME NEW w \in Workers, MarkFails(w) PROVE IInv'
    <2>1. TypeTable'
      BY <1>13, BoundsAssumption DEF MarkFails, DbFault, TypeTable, TypeWorker, Statuses, Snapshots
    <2>2. TypeWorker'
      BY <1>13, <1>e, BoundsAssumption DEF MarkFails, DbFault, TypeTable, TypeWorker
    <2>3. TypeHistory'
      BY <1>13, BoundsAssumption DEF MarkFails, DbFault, TypeTable, TypeHistory, TypeWorker, Snapshots
    <2>4. HasBatch'
      BY <1>13 DEF MarkFails, DbFault, TypeWorker, HasBatch
    <2>5. Shrinks
      BY <1>13 DEF MarkFails, DbFault, TypeWorker, Shrinks
    <2>6. OneGeneration'
      BY <1>13, <1>k, <2>5, GenerationKept DEF MarkFails, DbFault, TypeTable
    <2>7. MarkedIsSent'
      BY <1>13 DEF MarkFails, DbFault, TypeWorker, MarkedIsSent, HasBatch
    <2>8. ProcessedWasDelivered'
      BY <1>13, <1>k DEF MarkFails, DbFault, TypeTable, ProcessedWasDelivered, Delivered, OneGeneration, MarkedIsSent
    <2> QED BY <2>1, <2>2, <2>3, <2>4, <2>6, <2>7, <2>8
  <1>14. ASSUME NEW w \in Workers, RescheduleFails(w) PROVE IInv'
    <2>1. TypeTable'
      BY <1>14, BoundsAssumption DEF RescheduleFails, DbFault, TypeTable, TypeWorker, Statuses, Snapshots
    <2>2. TypeWorker'
      BY <1>14, <1>e, BoundsAssumption DEF RescheduleFails, DbFault, TypeTable, TypeWorker
    <2>3. TypeHistory'
      BY <1>14, BoundsAssumption DEF RescheduleFails, DbFault, TypeTable, TypeHistory, TypeWorker, Snapshots
    <2>4. HasBatch'
      BY <1>14 DEF RescheduleFails, DbFault, TypeWorker, HasBatch
    <2>5. Shrinks
      BY <1>14 DEF RescheduleFails, DbFault, TypeWorker, Shrinks
    <2>6. OneGeneration'
      BY <1>14, <1>k, <2>5, GenerationKept DEF RescheduleFails, DbFault, TypeTable
    <2>7. MarkedIsSent'
      BY <1>14 DEF RescheduleFails, DbFault, TypeWorker, MarkedIsSent, HasBatch
    <2>8. ProcessedWasDelivered'
      BY <1>14, <1>k DEF RescheduleFails, DbFault, TypeTable, ProcessedWasDelivered, Delivered
    <2> QED BY <2>1, <2>2, <2>3, <2>4, <2>6, <2>7, <2>8
  <1>15. ASSUME NEW w \in Workers, Stop(w) PROVE IInv'
    <2>1. TypeTable'
      BY <1>15, BoundsAssumption DEF Stop, TypeTable, TypeWorker, Statuses, Snapshots
    <2>2. TypeWorker'
      BY <1>15, <1>e, BoundsAssumption DEF Stop, TypeTable, TypeWorker
    <2>3. TypeHistory'
      BY <1>15, BoundsAssumption DEF Stop, TypeTable, TypeHistory, TypeWorker, Snapshots
    <2>4. HasBatch'
      BY <1>15 DEF Stop, TypeWorker, HasBatch
    <2>5. Shrinks
      BY <1>15 DEF Stop, TypeWorker, Shrinks
    <2>6. OneGeneration'
      BY <1>15, <1>k, <2>5, GenerationKept DEF Stop, TypeTable
    <2>7. MarkedIsSent'
      BY <1>15 DEF Stop, TypeWorker, MarkedIsSent, HasBatch
    <2>8. ProcessedWasDelivered'
      BY <1>15, <1>k DEF Stop, TypeTable, ProcessedWasDelivered, Delivered
    <2> QED BY <2>1, <2>2, <2>3, <2>4, <2>6, <2>7, <2>8
  <1>16. ASSUME NEW w \in Workers, Crash(w) PROVE IInv'
    <2>1. TypeTable'
      BY <1>16, BoundsAssumption DEF Crash, TypeTable, TypeWorker, Statuses, Snapshots
    <2>2. TypeWorker'
      BY <1>16, <1>e, BoundsAssumption DEF Crash, TypeTable, TypeWorker
    <2>3. TypeHistory'
      BY <1>16, BoundsAssumption DEF Crash, TypeTable, TypeHistory, TypeWorker, Snapshots
    <2>4. HasBatch'
      BY <1>16 DEF Crash, TypeWorker, HasBatch
    <2>5. Shrinks
      BY <1>16 DEF Crash, TypeWorker, Shrinks
    <2>6. OneGeneration'
      BY <1>16, <1>k, <2>5, GenerationKept DEF Crash, TypeTable
    <2>7. MarkedIsSent'
      BY <1>16 DEF Crash, TypeWorker, MarkedIsSent, HasBatch
    <2>8. ProcessedWasDelivered'
      BY <1>16, <1>k DEF Crash, TypeTable, ProcessedWasDelivered, Delivered
    <2> QED BY <2>1, <2>2, <2>3, <2>4, <2>6, <2>7, <2>8
  <1>17. ASSUME Tick PROVE IInv'
    <2>1. TypeTable'
      BY <1>17, BoundsAssumption DEF Tick, MaxAge, TypeTable, TypeWorker, Statuses, Snapshots
    <2>2. TypeWorker'
      BY <1>17, <1>e, BoundsAssumption DEF Tick, MaxAge, TypeTable, TypeWorker
    <2>3. TypeHistory'
      BY <1>17, BoundsAssumption DEF Tick, MaxAge, TypeTable, TypeHistory, TypeWorker, Snapshots
    <2>4. HasBatch'
      BY <1>17 DEF Tick, MaxAge, TypeWorker, HasBatch
    <2>5. Shrinks
      BY <1>17 DEF Tick, MaxAge, TypeWorker, Shrinks
    <2>6. OneGeneration'
      BY <1>17, <1>k, <2>5, GenerationKept DEF Tick, MaxAge, TypeTable
    <2>7. MarkedIsSent'
      BY <1>17 DEF Tick, MaxAge, TypeWorker, MarkedIsSent, HasBatch
    <2>8. ProcessedWasDelivered'
      BY <1>17, <1>k DEF Tick, MaxAge, TypeTable, ProcessedWasDelivered, Delivered
    <2> QED BY <2>1, <2>2, <2>3, <2>4, <2>6, <2>7, <2>8
  <1>18. CASE UNCHANGED vars
    BY <1>18 DEF TypeTable, TypeWorker, TypeHistory, HasBatch, OneGeneration,
       MarkedIsSent, ProcessedWasDelivered, Delivered
  <1> QED
    BY <1>1, <1>2, <1>3, <1>4, <1>5, <1>6, <1>7, <1>8, <1>9, <1>10, <1>11, <1>12, <1>13, <1>14, <1>15, <1>16, <1>17, <1>18 DEF Next, WorkerStep

\* Type correctness of the outbox.
THEOREM TypeCorrect == Spec => []TypeOK
  <1>1. IInv => TypeOK
    BY DEF IInv, TypeOK
  <1> QED
    BY <1>1, InitIInv, NextIInv, PTL DEF Spec

\* No event enqueued once is ever marked PROCESSED without having reached Discord,
\* with any number of workers, whatever crashes, stops, overlaps or database faults.
THEOREM ProcessedIsDelivered == Spec => []ProcessedWasDelivered
  <1>1. IInv => ProcessedWasDelivered
    BY DEF IInv
  <1> QED
    BY <1>1, InitIInv, NextIInv, PTL DEF Spec

-----------------------------------------------------------------------------
(* Rows that are enqueued again, or cancelled, while somebody has them     *)

\* What is in a batch is what the row holds, or the history knows of the race.
Current ==
    \A w \in Workers : \A i \in 1..Len(batch[w]) :
        batch[w][i].gen = gen[batch[w][i].key] \/ batch[w][i].key \in missed

\* What is withdrawn waits in no queue and in no batch, but for those the history
\* knows of; and the next enqueue of a key is not withdrawn yet.
Silent ==
    /\ \A k \in Keys : \A g \in Nat : <<k, g>> \in withdrawn => g <= gen[k]
    /\ \A k \in Keys : status[k] \in {"PENDING", "PROCESSING", "FAILED"} /\ <<k, gen[k]>> \in withdrawn
          => k \in missed
    /\ \A w \in Workers : \A i \in 1..Len(batch[w]) :
          <<batch[w][i].key, batch[w][i].gen>> \in withdrawn => batch[w][i].key \in missed

RaceInv == IInv /\ Current /\ Silent /\ ReminderLostOnlyByRace

\* A step that fetches and enqueues nothing and withdraws nothing keeps these, if it
\* makes none queued again that had been cancelled or processed, but for those in a batch.
LEMMA RacesKept ==
    ASSUME RaceInv, Shrinks, IInv', UNCHANGED <<gen, withdrawn, missed>>, delivered \subseteq delivered',
           \A k \in Keys : \/ status'[k] \notin {"PENDING", "PROCESSING", "FAILED"}
                           \/ status[k] \in {"PENDING", "PROCESSING", "FAILED"} \/ Held(k),
           \A k \in Reminders : status'[k] = "PROCESSED" =>
               \/ status[k] = "PROCESSED" \/ <<k, gen[k]>> \in delivered \/ k \in missed
    PROVE  RaceInv'
<1> USE DEF RaceInv
<1>1. Current'
  <2> SUFFICES ASSUME NEW w \in Workers, NEW i \in 1..Len(batch'[w])
               PROVE  batch'[w][i].gen = gen[batch'[w][i].key] \/ batch'[w][i].key \in missed
    BY DEF Current
  <2>1. PICK j \in 1..Len(batch[w]) : batch'[w][i] = batch[w][j]
    BY DEF Shrinks
  <2> QED
    BY <2>1 DEF Current
<1>2. Silent'
  <2>1. \A k \in Keys : \A g \in Nat : <<k, g>> \in withdrawn' => g <= gen'[k]
    BY DEF Silent
  <2>2. ASSUME NEW k \in Keys, status'[k] \in {"PENDING", "PROCESSING", "FAILED"},
               <<k, gen[k]>> \in withdrawn
        PROVE  k \in missed
    <3>1. CASE status[k] \in {"PENDING", "PROCESSING", "FAILED"}
      BY <2>2, <3>1 DEF Silent
    <3>2. CASE Held(k)
      <4>1. PICK w \in Workers : Holds(w, k)
        BY <3>2 DEF Held
      <4>2. PICK i \in 1..Len(batch[w]) : batch[w][i].key = k
        BY <4>1 DEF Holds
      <4> QED
        BY <2>2, <4>2 DEF Current, Silent
    <3> QED
      BY <2>2, <3>1, <3>2
  <2>3. ASSUME NEW w \in Workers, NEW i \in 1..Len(batch'[w]),
               <<batch'[w][i].key, batch'[w][i].gen>> \in withdrawn
        PROVE  batch'[w][i].key \in missed
    <3>1. PICK j \in 1..Len(batch[w]) : batch'[w][i] = batch[w][j]
      BY DEF Shrinks
    <3> QED
      BY <2>3, <3>1 DEF Silent
  <2> QED
    BY <2>1, <2>2, <2>3 DEF Silent
<1>3. ReminderLostOnlyByRace'
  BY DEF ReminderLostOnlyByRace, Delivered
<1> QED
  BY <1>1, <1>2, <1>3

\* An enqueue, of a new row or of one there is.
LEMMA UpsertKeepsRaces ==
    ASSUME RaceInv, IInv', NEW k \in Keys, NEW d, Upsert(k, d)
    PROVE  RaceInv'
<1> USE DEF RaceInv
<1>1. /\ status' = [status EXCEPT ![k] = "PENDING"] /\ gen' = [gen EXCEPT ![k] = @ + 1]
      /\ withdrawn' = withdrawn \cup {<<k, gen[k]>>}
      /\ missed' = IF Held(k) THEN missed \cup {k} ELSE missed
      /\ UNCHANGED <<batch, delivered>>
  BY DEF Upsert, worker
<1>2. /\ status \in [Keys -> Statuses] /\ gen \in [Keys -> Nat] /\ gen' \in [Keys -> Nat]
      /\ gen[k] \in Nat /\ gen'[k] = gen[k] + 1
      /\ \A q \in Keys : q # k => gen'[q] = gen[q] /\ status'[q] = status[q]
      /\ missed \subseteq missed'
  BY <1>1 DEF IInv, TypeTable
<1>3. \A w \in Workers : \A i \in 1..Len(batch[w]) :
         batch[w][i].key \in Keys /\ (batch[w][i].key = k => k \in missed')
  <2> SUFFICES ASSUME NEW w \in Workers, NEW i \in 1..Len(batch[w])
               PROVE  batch[w][i].key \in Keys /\ (batch[w][i].key = k => k \in missed')
    OBVIOUS
  <2>1. batch[w][i] \in Snapshots
    BY DEF IInv, TypeWorker
  <2>2. batch[w][i].key = k => Held(k)
    BY DEF Held, Holds
  <2> QED
    BY <1>1, <2>1, <2>2 DEF Snapshots
<1>4. Current'
  BY <1>1, <1>2, <1>3 DEF Current
<1>5. Silent'
  <2>1. \A q \in Keys : \A g \in Nat : <<q, g>> \in withdrawn' => g <= gen'[q]
    BY <1>1, <1>2 DEF Silent
  <2>2. <<k, gen'[k]>> \notin withdrawn'
    BY <1>1, <1>2 DEF Silent
  <2>3. ASSUME NEW q \in Keys, status'[q] \in {"PENDING", "PROCESSING", "FAILED"}, <<q, gen'[q]>> \in withdrawn'
        PROVE  q \in missed'
    BY <1>1, <1>2, <2>2, <2>3 DEF Silent
  <2>4. ASSUME NEW w \in Workers, NEW i \in 1..Len(batch[w]),
               <<batch[w][i].key, batch[w][i].gen>> \in withdrawn'
        PROVE  batch[w][i].key \in missed'
    BY <1>1, <1>2, <1>3, <2>4 DEF Silent
  <2> QED
    BY <1>1, <2>1, <2>3, <2>4 DEF Silent
<1>6. ReminderLostOnlyByRace'
  BY <1>1, <1>2 DEF ReminderLostOnlyByRace, Delivered, Keys
<1> QED
  BY <1>4, <1>5, <1>6

\* A cancellation, which finds only rows that are PENDING.
LEMMA CancelKeepsRaces ==
    ASSUME RaceInv, IInv', NEW k \in Keys, CancelReminder(k)
    PROVE  RaceInv'
<1> USE DEF RaceInv
<1>1. /\ status' = [status EXCEPT ![k] = IF @ = "PENDING" THEN "CANCELLED" ELSE @]
      /\ withdrawn' = withdrawn \cup {<<k, gen[k]>>}
      /\ missed' = IF Held(k) \/ status[k] \in {"PROCESSING", "FAILED"} THEN missed \cup {k} ELSE missed
      /\ UNCHANGED <<batch, delivered, gen>>
  BY DEF CancelReminder, worker
<1>2. /\ status \in [Keys -> Statuses] /\ gen \in [Keys -> Nat] /\ missed \subseteq missed'
      /\ \A q \in Keys : q # k => status'[q] = status[q]
      /\ status'[k] = IF status[k] = "PENDING" THEN "CANCELLED" ELSE status[k]
  BY <1>1 DEF IInv, TypeTable
<1>3. \A w \in Workers : \A i \in 1..Len(batch[w]) : batch[w][i].key = k => k \in missed'
  BY <1>1 DEF Held, Holds
<1>4. Current'
  BY <1>1, <1>2 DEF Current
<1>5. Silent'
  <2>1. \A q \in Keys : \A g \in Nat : <<q, g>> \in withdrawn' => g <= gen'[q]
    BY <1>1, <1>2 DEF Silent
  <2>2. ASSUME NEW q \in Keys, status'[q] \in {"PENDING", "PROCESSING", "FAILED"}, <<q, gen[q]>> \in withdrawn'
        PROVE  q \in missed'
    BY <1>1, <1>2, <2>2 DEF Silent
  <2>3. ASSUME NEW w \in Workers, NEW i \in 1..Len(batch[w]),
               <<batch[w][i].key, batch[w][i].gen>> \in withdrawn'
        PROVE  batch[w][i].key \in missed'
    BY <1>1, <1>2, <1>3, <2>3 DEF Silent
  <2> QED
    BY <1>1, <2>1, <2>2, <2>3 DEF Silent
<1>6. ReminderLostOnlyByRace'
  BY <1>1, <1>2 DEF ReminderLostOnlyByRace, Delivered, Keys
<1> QED
  BY <1>4, <1>5, <1>6

\* A batch is fetched as the rows are.
LEMMA FetchKeepsRaces ==
    ASSUME RaceInv, IInv', NEW w \in Workers, Fetch(w)
    PROVE  RaceInv'
<1> USE DEF RaceInv
<1>1. UNCHANGED <<gen, delivered, withdrawn, missed>>
  BY DEF Fetch, history
<1>2. PICK n \in 1..BatchSize : \E ks \in [1..n -> Ready] :
         /\ batch' = [batch EXCEPT ![w] =
               [i \in 1..n |-> [key |-> ks[i], gen |-> gen[ks[i]], retry |-> retry[ks[i]]]]]
         /\ status' = [k \in Keys |-> IF k \in {ks[i] : i \in 1..n} THEN "PROCESSING" ELSE status[k]]
  BY DEF Fetch
<1>3. PICK ks \in [1..n -> Ready] :
         /\ batch' = [batch EXCEPT ![w] =
               [i \in 1..n |-> [key |-> ks[i], gen |-> gen[ks[i]], retry |-> retry[ks[i]]]]]
         /\ status' = [k \in Keys |-> IF k \in {ks[i] : i \in 1..n} THEN "PROCESSING" ELSE status[k]]
  BY <1>2
<1>4. ASSUME NEW v \in Workers, NEW i \in 1..Len(batch'[v])
      PROVE  \/ \E j \in 1..Len(batch[v]) : batch'[v][i] = batch[v][j]
             \/ \E k \in Ready : batch'[v][i].key = k /\ batch'[v][i].gen = gen[k]
  <2>1. CASE v = w
    <3> DEFINE new == [j \in 1..n |-> [key |-> ks[j], gen |-> gen[ks[j]], retry |-> retry[ks[j]]]]
    <3>1. batch'[v] = new /\ n \in Nat /\ Len(new) = n
      BY <1>3, <2>1, BoundsAssumption DEF IInv, TypeWorker
    <3>2. i \in 1..n /\ batch'[v][i].key = ks[i] /\ batch'[v][i].gen = gen[ks[i]]
      BY <1>4, <3>1
    <3> QED
      BY <3>2
  <2>2. CASE v # w
    BY <1>3, <1>4, <2>2 DEF IInv, TypeWorker
  <2> QED
    BY <2>1, <2>2
<1>5. \A k \in Ready : k \in Keys /\ status[k] = "PENDING"
  BY DEF Ready
<1>6. Current'
  BY <1>1, <1>4 DEF Current
<1>7. Silent'
  <2>1. \A q \in Keys : status'[q] = status[q] \/ status[q] = "PENDING"
    BY <1>3, <1>5
  <2>2. ASSUME NEW v \in Workers, NEW i \in 1..Len(batch'[v]),
               <<batch'[v][i].key, batch'[v][i].gen>> \in withdrawn
        PROVE  batch'[v][i].key \in missed
    <3>1. CASE \E j \in 1..Len(batch[v]) : batch'[v][i] = batch[v][j]
      BY <2>2, <3>1 DEF Silent
    <3>2. CASE \E k \in Ready : batch'[v][i].key = k /\ batch'[v][i].gen = gen[k]
      BY <1>5, <2>2, <3>2 DEF Silent
    <3> QED
      BY <1>4, <3>1, <3>2
  <2>3. \A q \in Keys : status'[q] \in {"PENDING", "PROCESSING", "FAILED"} /\ <<q, gen[q]>> \in withdrawn
           => q \in missed
    BY <2>1 DEF Silent
  <2> QED
    BY <1>1, <2>2, <2>3 DEF Silent
<1>8. ReminderLostOnlyByRace'
  BY <1>1, <1>3 DEF ReminderLostOnlyByRace, Delivered, Keys
<1> QED
  BY <1>6, <1>7, <1>8

\* Every step keeps it.
LEMMA NextRaceInv == RaceInv /\ [Next]_vars => RaceInv'
<1> SUFFICES ASSUME RaceInv, [Next]_vars PROVE RaceInv'
  OBVIOUS
<1>i. IInv /\ IInv'
  BY NextIInv DEF RaceInv
<1>t. status \in [Keys -> Statuses] /\ batch \in [Workers -> Seq(Snapshots)]
  BY <1>i DEF IInv, TypeTable, TypeWorker
<1>1. ASSUME NEW k \in Keys, EnqueueEvent(k) \/ ScheduleReminder(k) \/ CancelReminder(k)
      PROVE  RaceInv'
  BY <1>i, <1>1, UpsertKeepsRaces, CancelKeepsRaces DEF EnqueueEvent, ScheduleReminder
<1>2. CASE ReclaimFailed
  <2>1. /\ UNCHANGED <<gen, withdrawn, missed, delivered, batch>>
        /\ \A k \in Keys : status'[k] = status[k] \/ (status[k] = "FAILED" /\ status'[k] = "PENDING")
    BY <1>2 DEF ReclaimFailed, Reclaimable, worker, history
  <2> QED
    BY <1>i, <2>1, RacesKept DEF Shrinks, Keys
<1>3. ASSUME NEW w \in Workers, Start(w) PROVE RaceInv'
  <2>1. /\ UNCHANGED <<gen, withdrawn, missed, delivered, batch>>
        /\ \A k \in Keys : status'[k] = status[k] \/ (status[k] = "PROCESSING" /\ status'[k] = "PENDING")
    BY <1>3 DEF Start, DbFault, history
  <2> QED
    BY <1>i, <2>1, RacesKept DEF Shrinks, Keys
<1>4. ASSUME NEW w \in Workers, DispatchOK(w) \/ DispatchFail(w) PROVE RaceInv'
  <2>1. UNCHANGED <<status, gen, withdrawn, missed, batch>> /\ delivered \subseteq delivered'
    BY <1>4 DEF DispatchOK, DispatchFail, Deliver, table, history
  <2> QED
    BY <1>i, <2>1, RacesKept DEF Shrinks, Keys
<1>5. ASSUME NEW w \in Workers, MarkProcessed(w) \/ RescheduleOrFail(w) PROVE RaceInv'
  <2> DEFINE e == Head(batch[w])
  <2>1. HeadFacts(w)
    BY <1>5, <1>i, HeadOfBatch DEF MarkProcessed, RescheduleOrFail, IInv, HasBatch
  <2>2. PICK s \in {"PROCESSED", "FAILED", "PENDING"} :
           /\ status' = [status EXCEPT ![e.key] = s] /\ UNCHANGED <<gen, withdrawn, missed, delivered>>
           /\ s = "PROCESSED" => <<e.key, e.gen>> \in delivered
    BY <1>5, <1>i DEF MarkProcessed, RescheduleOrFail, history, IInv, MarkedIsSent
  <2>3. batch' = [batch EXCEPT ![w] = Tail(batch[w])]
    BY <1>5, <1>t DEF MarkProcessed, RescheduleOrFail, Advance
  <2>4. e.key \in Keys /\ Held(e.key) /\ (e.gen = gen[e.key] \/ e.key \in missed)
    BY <2>1 DEF HeadFacts, Held, Holds, RaceInv, Current
  <2>5. Shrinks
    BY <1>t, <2>1, <2>3, TailShrinks
  <2> HIDE DEF e
  <2>6. \A k \in Keys : k # e.key => status'[k] = status[k]
    BY <1>t, <2>2
  <2>7. status'[e.key] = s
    BY <1>t, <2>2, <2>4
  <2>8. \A k \in Keys : \/ status'[k] \notin {"PENDING", "PROCESSING", "FAILED"}
                        \/ status[k] \in {"PENDING", "PROCESSING", "FAILED"} \/ Held(k)
    BY <2>4, <2>6
  <2>9. \A k \in Reminders : status'[k] = "PROCESSED" =>
           \/ status[k] = "PROCESSED" \/ <<k, gen[k]>> \in delivered \/ k \in missed
    BY <2>2, <2>4, <2>6, <2>7 DEF Keys
  <2> QED
    BY <1>i, <2>2, <2>5, <2>8, <2>9, RacesKept
<1>6. ASSUME NEW w \in Workers,
             Wake(w) \/ Leave(w) \/ MarkFails(w) \/ RescheduleFails(w) \/ Stop(w) \/ Crash(w)
      PROVE  RaceInv'
  <2>1. UNCHANGED <<status, gen, withdrawn, missed, delivered>>
    BY <1>6 DEF Wake, Leave, MarkFails, RescheduleFails, Stop, Crash, table, history
  <2>2. \A v \in Workers : batch'[v] = batch[v] \/ batch'[v] = << >>
    BY <1>6, <1>t DEF Wake, Leave, MarkFails, RescheduleFails, Stop, Crash
  <2>3. Shrinks
    BY <2>2 DEF Shrinks
  <2> QED
    BY <1>i, <2>1, <2>3, RacesKept DEF Keys
<1>7. CASE Tick \/ UNCHANGED vars
  <2>1. UNCHANGED <<status, gen, withdrawn, missed, delivered, batch>>
    BY <1>7 DEF Tick, vars, table, worker, history
  <2> QED
    BY <1>i, <2>1, RacesKept DEF Shrinks, Keys
<1> QED
  BY <1>i, <1>1, <1>2, <1>3, <1>4, <1>5, <1>6, <1>7, FetchKeepsRaces DEF Next, WorkerStep

LEMMA InitRaceInv == Init => RaceInv
<1>1. ASSUME Init PROVE Current /\ Silent /\ ReminderLostOnlyByRace
  BY <1>1 DEF Init, Current, Silent, ReminderLostOnlyByRace, Delivered, Keys
<1> QED
  BY <1>1, InitIInv DEF RaceInv

\* The race of a reschedule or a cancellation with a worker that has the row is the
\* only way a reminder is lost, for any number of workers.
THEOREM OnlyTheRaceLoses == Spec => []ReminderLostOnlyByRace
<1>1. RaceInv => ReminderLostOnlyByRace
  BY DEF RaceInv
<1> QED
  BY <1>1, InitRaceInv, NextRaceInv, PTL DEF Spec

\* What is cancelled or replaced while it waits in the queue is never sent, by any
\* number of workers.
THEOREM WithdrawnIsSilent == Spec => WithdrawnWhileQueuedIsSilent
<1>1. RaceInv /\ [Next]_vars => [\A p \in (delivered' \ delivered) \cap withdrawn : p[1] \in missed]_vars
  <2> SUFFICES ASSUME RaceInv, Next, NEW p \in delivered' \ delivered, p \in withdrawn
               PROVE  p[1] \in missed
    OBVIOUS
  <2>1. PICK w \in Workers : DispatchOK(w) \/ DispatchFail(w)
    <3>1. delivered' # delivered
      OBVIOUS
    <3> QED
      BY <3>1 DEF Next, WorkerStep, EnqueueEvent, ScheduleReminder, CancelReminder, Upsert, ReclaimFailed, Start,
         Fetch, MarkProcessed, RescheduleOrFail, Wake, Leave, MarkFails, RescheduleFails, Stop, Crash, Tick, history
  <2>2. HeadFacts(w)
    BY <2>1, HeadOfBatch DEF DispatchOK, DispatchFail, Dispatching, RaceInv, IInv
  <2>3. p = <<Head(batch[w]).key, Head(batch[w]).gen>>
    BY <2>1 DEF DispatchOK, DispatchFail, Deliver, history
  <2> QED
    BY <2>2, <2>3 DEF HeadFacts, RaceInv, Silent
<1> QED
  BY <1>1, InitRaceInv, NextRaceInv, PTL DEF Spec, WithdrawnWhileQueuedIsSilent

-----------------------------------------------------------------------------
(***************************************************************************)
(* With one worker the outbox implements Delivery.  The steps that matter  *)
(* write a row by the id the worker took from it an await ago: that they   *)
(* are steps of Delivery rests on nobody else having touched the row, that *)
(* is on every row of the batch still being PROCESSING.  Two workers, one  *)
(* of which starts while the other is at work, break that.                 *)
(***************************************************************************)


\* One process runs the worker.
Alone == \A v, w \in Workers : v = w

\* The events in the batch are claimed in the table, and each is there once.
Claimed ==
    \A w \in Workers : \A i \in 1..Len(batch[w]) :
        /\ batch[w][i].key \in OneShot => status[batch[w][i].key] = "PROCESSING"
        /\ \A j \in 1..Len(batch[w]) : i # j => batch[w][i].key # batch[w][j].key

\* Only what has been enqueued was sent.
SentIsEnqueued ==
    \A k \in OneShot : \A g \in Nat :
        <<k, g>> \in delivered => status[k] # "ABSENT" /\ g = gen[k]

RInv == IInv /\ Claimed /\ SentIsEnqueued

-----------------------------------------------------------------------------
(* The invariant                                                           *)

\* A batch that only loses its head, or all, and whose rows are left alone.
LEMMA ClaimedKept ==
    ASSUME IInv, Claimed,
           \A v \in Workers : \/ batch'[v] = batch[v] \/ batch'[v] = << >>
                              \/ batch[v] # << >> /\ batch'[v] = Tail(batch[v]),
           \A v \in Workers : \A i \in 1..Len(batch'[v]) :
               batch'[v][i].key \in OneShot => status'[batch'[v][i].key] = status[batch'[v][i].key]
    PROVE  Claimed'
<1> SUFFICES ASSUME NEW v \in Workers, NEW i \in 1..Len(batch'[v])
             PROVE  /\ batch'[v][i].key \in OneShot => status'[batch'[v][i].key] = "PROCESSING"
                    /\ \A j \in 1..Len(batch'[v]) : i # j => batch'[v][i].key # batch'[v][j].key
  BY DEF Claimed
<1>1. CASE batch'[v] = batch[v]
  BY <1>1 DEF Claimed
<1>2. CASE batch'[v] = << >>
  BY <1>2
<1>3. CASE batch[v] # << >> /\ batch'[v] = Tail(batch[v])
  <2>1. /\ \A j \in 1..Len(batch'[v]) : j + 1 \in 1..Len(batch[v]) /\ batch'[v][j] = batch[v][j + 1]
        /\ Len(batch'[v]) \in Nat
    BY <1>3, HeadOfBatch DEF IInv, HeadFacts
  <2>2. i + 1 \in 1..Len(batch[v]) /\ batch'[v][i] = batch[v][i + 1]
    BY <2>1
  <2>3. batch'[v][i].key \in OneShot => status'[batch'[v][i].key] = "PROCESSING"
    BY <2>2 DEF Claimed
  <2>4. ASSUME NEW j \in 1..Len(batch'[v]), i # j PROVE batch'[v][i].key # batch'[v][j].key
    <3>1. j + 1 \in 1..Len(batch[v]) /\ batch'[v][j] = batch[v][j + 1] /\ i + 1 # j + 1
      BY <2>1, <2>4
    <3> QED
      BY <2>2, <3>1 DEF Claimed
  <2> QED
    BY <2>3, <2>4
<1> QED
  BY <1>1, <1>2, <1>3

\* A step that sends nothing and enqueues no event leaves what was sent enqueued.
LEMMA SentKept ==
    ASSUME SentIsEnqueued, delivered' = delivered,
           \A k \in OneShot : gen'[k] = gen[k] /\ (status[k] # "ABSENT" => status'[k] # "ABSENT")
    PROVE  SentIsEnqueued'
  BY DEF SentIsEnqueued

\* The head of a batch that is of an event: its row is PROCESSING, the rest of the
\* batch is of others.
LEMMA HeadIsClaimed ==
    ASSUME RInv, NEW w \in Workers, batch[w] # << >>
    PROVE  LET e == Head(batch[w]) IN
           /\ e.key \in Keys /\ e.gen \in Nat
           /\ e.key \in OneShot => status[e.key] = "PROCESSING" /\ e.gen = gen[e.key]
           /\ \A i \in 1..Len(Tail(batch[w])) : Tail(batch[w])[i].key # e.key
<1>1. HeadFacts(w)
  BY HeadOfBatch DEF RInv, IInv
<1> QED
  BY <1>1 DEF RInv, IInv, HeadFacts, Claimed, OneGeneration

\* What is sent is of an event that is queued.
LEMMA DeliverKeepsSent ==
    ASSUME RInv, NEW w \in Workers, batch[w] # << >>, Deliver(Head(batch[w])), UNCHANGED <<status, gen>>
    PROVE  SentIsEnqueued'
  BY HeadIsClaimed DEF Deliver, RInv, SentIsEnqueued

\* Every step keeps the invariant.
LEMMA NextRInv == ASSUME Alone PROVE RInv /\ [Next]_vars => RInv'
<1> SUFFICES ASSUME RInv, [Next]_vars PROVE RInv'
  OBVIOUS
<1> USE DEF RInv
<1>i. IInv'
  BY NextIInv
<1>k. OneShot \subseteq Keys /\ \A k \in OneShot : k \notin Reminders
  BY KeysAssumption DEF Keys
<1>t. status \in [Keys -> Statuses] /\ gen \in [Keys -> Nat] /\ batch \in [Workers -> Seq(Snapshots)]
      /\ pc \in [Workers -> {"down", "poll", "next", "mark", "handle", "handle429", "cool"}]
  BY DEF IInv, TypeTable, TypeWorker
<1>1. ASSUME NEW k \in OneShot, EnqueueEvent(k) PROVE Claimed' /\ SentIsEnqueued'
  <2>1. /\ status' = [status EXCEPT ![k] = "PENDING"] /\ gen' = [gen EXCEPT ![k] = @ + 1]
        /\ status[k] = "ABSENT" /\ UNCHANGED <<batch, delivered>>
    BY <1>1 DEF EnqueueEvent, Upsert, worker
  <2>2. \A v \in Workers : \A i \in 1..Len(batch[v]) : batch[v][i].key # k
    BY <2>1 DEF Claimed
  <2>3. Claimed'
    BY <1>k, <1>t, <2>1, <2>2, ClaimedKept
  <2>4. SentIsEnqueued'
    BY <1>k, <1>t, <2>1 DEF SentIsEnqueued
  <2> QED
    BY <2>3, <2>4
<1>2. ASSUME NEW k \in Reminders, ScheduleReminder(k) \/ CancelReminder(k)
      PROVE  Claimed' /\ SentIsEnqueued'
  <2>1. /\ \A q \in OneShot : status'[q] = status[q] /\ gen'[q] = gen[q]
        /\ UNCHANGED <<batch, delivered>>
    BY <1>2, <1>k, <1>t DEF ScheduleReminder, CancelReminder, Upsert, worker
  <2> QED
    BY <2>1, ClaimedKept, SentKept
<1>3. CASE ReclaimFailed
  <2>1. /\ \A q \in Keys : status'[q] = status[q] \/ (status[q] = "FAILED" /\ status'[q] = "PENDING")
        /\ UNCHANGED <<batch, delivered, gen>>
    BY <1>3 DEF ReclaimFailed, Reclaimable, worker, history
  <2>2. \A v \in Workers : \A i \in 1..Len(batch[v]) :
           batch[v][i].key \in OneShot => status'[batch[v][i].key] = status[batch[v][i].key]
    BY <1>k, <2>1 DEF Claimed
  <2>3. Claimed'
    BY <2>1, <2>2, ClaimedKept
  <2>4. SentIsEnqueued'
    BY <1>k, <2>1, SentKept
  <2> QED
    BY <1>i, <2>3, <2>4
<1>4. ASSUME NEW w \in Workers, Start(w) PROVE Claimed' /\ SentIsEnqueued'
  <2>1. /\ \A q \in Keys : status'[q] = status[q] \/ (status[q] = "PROCESSING" /\ status'[q] = "PENDING")
        /\ UNCHANGED <<batch, delivered, gen>> /\ pc[w] = "down"
    BY <1>4 DEF Start, DbFault, history
  <2>2. \A v \in Workers : batch[v] = << >>
    BY <2>1, Alone DEF IInv, HasBatch, Alone
  <2> QED
    BY <1>k, <2>1, <2>2, SentKept DEF Claimed
<1>5. ASSUME NEW w \in Workers, Fetch(w) PROVE Claimed' /\ SentIsEnqueued'
  <2>1. PICK n \in 1..BatchSize : \E ks \in [1..n -> Ready] :
           /\ FetchOrder(n, ks)
           /\ batch' = [batch EXCEPT ![w] =
                 [i \in 1..n |-> [key |-> ks[i], gen |-> gen[ks[i]], retry |-> retry[ks[i]]]]]
           /\ status' = [k \in Keys |-> IF k \in {ks[i] : i \in 1..n} THEN "PROCESSING" ELSE status[k]]
    BY <1>5 DEF Fetch
  <2>2. PICK ks \in [1..n -> Ready] :
           /\ FetchOrder(n, ks)
           /\ batch' = [batch EXCEPT ![w] =
                 [i \in 1..n |-> [key |-> ks[i], gen |-> gen[ks[i]], retry |-> retry[ks[i]]]]]
           /\ status' = [k \in Keys |-> IF k \in {ks[i] : i \in 1..n} THEN "PROCESSING" ELSE status[k]]
    BY <2>1
  <2>3. n \in Nat /\ \A i, j \in 1..n : i # j => ks[i] # ks[j]
    BY <2>2, BoundsAssumption DEF FetchOrder
  <2>4. \A i \in 1..n : ks[i] \in Keys
    BY <2>2 DEF Ready
  <2> DEFINE new == [i \in 1..n |-> [key |-> ks[i], gen |-> gen[ks[i]], retry |-> retry[ks[i]]]]
  <2>5. batch'[w] = new /\ Len(new) = n /\ \A i \in 1..n : new[i].key = ks[i]
    BY <1>t, <2>2, <2>3
  <2>6. Claimed'
    <3> SUFFICES ASSUME NEW v \in Workers, NEW i \in 1..Len(batch'[v])
                 PROVE  /\ batch'[v][i].key \in OneShot => status'[batch'[v][i].key] = "PROCESSING"
                        /\ \A j \in 1..Len(batch'[v]) : i # j => batch'[v][i].key # batch'[v][j].key
      BY DEF Claimed
    <3>1. v = w
      BY Alone DEF Alone
    <3> HIDE DEF new
    <3>2. i \in 1..n /\ batch'[v][i].key = ks[i] /\ \A j \in 1..n : batch'[v][j].key = ks[j]
      BY <2>5, <3>1
    <3> QED
      BY <2>2, <2>3, <2>4, <2>5, <3>1, <3>2
  <2>7. SentIsEnqueued'
    <3>1. UNCHANGED <<gen, delivered>>
      BY <1>5 DEF Fetch, history
    <3> QED
      BY <1>k, <2>2, <3>1, SentKept
  <2> QED
    BY <2>6, <2>7
<1>6. ASSUME NEW w \in Workers, DispatchOK(w) \/ DispatchFail(w) PROVE Claimed' /\ SentIsEnqueued'
  <2>1. UNCHANGED <<status, gen, batch>> /\ batch[w] # << >>
    BY <1>6 DEF DispatchOK, DispatchFail, Dispatching, table
  <2>2. Deliver(Head(batch[w])) \/ delivered' = delivered
    BY <1>6 DEF DispatchOK, DispatchFail, history
  <2> QED
    BY <2>1, <2>2, ClaimedKept, DeliverKeepsSent, SentKept
<1>7. ASSUME NEW w \in Workers, MarkProcessed(w) \/ RescheduleOrFail(w) PROVE Claimed' /\ SentIsEnqueued'
  <2>1. batch[w] # << >>
    BY <1>7 DEF MarkProcessed, RescheduleOrFail, IInv, HasBatch
  <2> DEFINE e == Head(batch[w])
  <2>2. /\ \E s \in {"PROCESSED", "FAILED", "PENDING"} : status' = [status EXCEPT ![e.key] = s]
        /\ UNCHANGED <<gen, delivered>>
    BY <1>7 DEF MarkProcessed, RescheduleOrFail, history
  <2>3. batch' = [batch EXCEPT ![w] = Tail(batch[w])]
    BY <1>7, <1>t DEF MarkProcessed, RescheduleOrFail, Advance
  <2>4. e.key \in Keys /\ \A i \in 1..Len(Tail(batch[w])) : Tail(batch[w])[i].key # e.key
    BY <2>1, HeadIsClaimed
  <2> HIDE DEF e
  <2>5. ASSUME NEW v \in Workers
        PROVE  batch[v] # << >> /\ batch'[v] = Tail(batch[v]) /\ \A i \in 1..Len(batch'[v]) : batch'[v][i].key # e.key
    <3>1. v = w
      BY Alone DEF Alone
    <3> QED
      BY <1>t, <2>1, <2>3, <2>4, <3>1
  <2>6. \A k \in Keys : k # e.key => status'[k] = status[k]
    BY <1>t, <2>2
  <2>7. Claimed'
    BY <1>k, <2>5, <2>6, ClaimedKept
  <2>8. \A k \in Keys : status[k] # "ABSENT" => status'[k] # "ABSENT"
    BY <1>t, <2>2
  <2> QED
    BY <1>k, <2>2, <2>7, <2>8, SentKept
<1>8. ASSUME NEW w \in Workers,
             Wake(w) \/ Leave(w) \/ MarkFails(w) \/ RescheduleFails(w) \/ Stop(w) \/ Crash(w)
      PROVE  Claimed' /\ SentIsEnqueued'
  <2>1. UNCHANGED <<status, gen, delivered>>
    BY <1>8 DEF Wake, Leave, MarkFails, RescheduleFails, Stop, Crash, table, history
  <2>2. \A v \in Workers : batch'[v] = batch[v] \/ batch'[v] = << >>
    BY <1>8, <1>t DEF Wake, Leave, MarkFails, RescheduleFails, Stop, Crash
  <2> QED
    BY <2>1, <2>2, ClaimedKept, SentKept
<1>9. CASE Tick \/ UNCHANGED vars
  <2>1. UNCHANGED <<status, gen, batch, delivered>>
    BY <1>9 DEF Tick, vars, table, worker, history
  <2>2. Claimed'
    BY <2>1 DEF Claimed
  <2>3. SentIsEnqueued'
    BY <2>1, SentKept
  <2> QED
    BY <1>i, <2>2, <2>3
<1> QED
  <2>1. ASSUME NEW k \in Keys, EnqueueEvent(k) \/ ScheduleReminder(k) \/ CancelReminder(k)
        PROVE  Claimed' /\ SentIsEnqueued'
    BY <1>1, <1>2, <2>1 DEF EnqueueEvent, ScheduleReminder, CancelReminder
  <2> QED
    BY <1>i, <2>1, <1>3, <1>4, <1>5, <1>6, <1>7, <1>8, <1>9 DEF Next, WorkerStep

LEMMA InitRInv == Init => RInv
<1>1. ASSUME Init PROVE Claimed /\ SentIsEnqueued
  BY <1>1 DEF Init, Claimed, SentIsEnqueued
<1> QED
  BY <1>1, InitIInv DEF RInv

-----------------------------------------------------------------------------
(* The refinement                                                          *)

phase == [k \in OneShot |-> Phase(k)]
sent == {k \in OneShot : <<k, gen[k]>> \in delivered}

\* What is neither enqueued, sent nor settled anew is no step of Delivery.
LEMMA Stutters ==
    ASSUME \A k \in OneShot : Phase(k)' = Phase(k) /\ gen'[k] = gen[k], delivered' = delivered
    PROVE  UNCHANGED <<phase, sent>>
  BY DEF phase, sent

\* Writing the row of an event that is claimed, one key at a time.
LEMMA OneRow ==
    ASSUME NEW k \in OneShot, gen' = gen, delivered' = delivered,
           \A q \in OneShot : q # k => status'[q] = status[q]
    PROVE  phase' = [phase EXCEPT ![k] = Phase(k)'] /\ sent' = sent
  BY DEF phase, sent, Phase

\* Every step of the outbox is a step of Delivery, or none.
LEMMA Simulates ==
    ASSUME Alone, RInv, [Next]_vars
    PROVE  [D!Next]_<<phase, sent>>
<1> USE DEF RInv
<1>k. OneShot \subseteq Keys /\ \A k \in OneShot : k \notin Reminders
  BY KeysAssumption DEF Keys
<1>t. status \in [Keys -> Statuses] /\ gen \in [Keys -> Nat] /\ batch \in [Workers -> Seq(Snapshots)]
  BY DEF IInv, TypeTable, TypeWorker
<1>1. ASSUME NEW k \in OneShot, EnqueueEvent(k) PROVE D!Submit(k)
  <2>1. /\ status' = [status EXCEPT ![k] = "PENDING"] /\ gen' = [gen EXCEPT ![k] = @ + 1]
        /\ status[k] = "ABSENT" /\ delivered' = delivered
    BY <1>1 DEF EnqueueEvent, Upsert
  <2>2. phase[k] = "idle" /\ phase' = [phase EXCEPT ![k] = "queued"]
    BY <1>k, <1>t, <2>1 DEF phase, Phase
  <2>3. gen[k] \in Nat /\ gen[k] + 1 \in Nat /\ gen'[k] = gen[k] + 1 /\ \A q \in OneShot : q # k => gen'[q] = gen[q]
    BY <1>k, <1>t, <2>1
  <2>4. sent' = sent
    BY <2>1, <2>3 DEF sent, SentIsEnqueued
  <2> QED
    BY <2>2, <2>4 DEF D!Submit, phase, sent
<1>2. ASSUME NEW k \in Reminders, ScheduleReminder(k) \/ CancelReminder(k)
      PROVE  UNCHANGED <<phase, sent>>
  <2>1. /\ \A q \in OneShot : status'[q] = status[q] /\ gen'[q] = gen[q]
        /\ delivered' = delivered
    BY <1>2, <1>k, <1>t DEF ScheduleReminder, CancelReminder, Upsert
  <2> QED
    BY <2>1, Stutters DEF Phase
<1>3. ASSUME ReclaimFailed PROVE D!Revive
  <2> DEFINE some == {k \in OneShot : k \in Reclaimable}
  <2>1. status' = [k \in Keys |-> IF k \in Reclaimable THEN "PENDING" ELSE status[k]]
        /\ UNCHANGED <<gen, delivered>>
    BY <1>3 DEF ReclaimFailed, history
  <2>2. some \in SUBSET {e \in OneShot : phase[e] = "dead"}
    BY DEF Reclaimable, phase, Phase
  <2>3. phase' = [e \in OneShot |-> IF e \in some THEN "queued" ELSE phase[e]]
    BY <1>k, <2>1 DEF phase, Phase
  <2>4. sent' = sent
    BY <2>1 DEF sent
  <2> HIDE DEF some
  <2> QED
    BY <2>2, <2>3, <2>4 DEF D!Revive, phase, sent
<1>4. ASSUME NEW w \in Workers, Start(w) \/ Fetch(w) PROVE UNCHANGED <<phase, sent>>
  <2>1. /\ \A q \in Keys : status'[q] = status[q] \/ {status[q], status'[q]} \subseteq {"PENDING", "PROCESSING"}
        /\ UNCHANGED <<gen, delivered>>
    BY <1>4 DEF Start, Fetch, Ready, DbFault, history
  <2> QED
    BY <1>k, <2>1, Stutters DEF Phase
<1>5. ASSUME NEW w \in Workers, DispatchOK(w) \/ DispatchFail(w) PROVE [D!Next]_<<phase, sent>>
  <2> DEFINE e == Head(batch[w])
  <2>1. UNCHANGED <<status, gen>> /\ batch[w] # << >>
    BY <1>5 DEF DispatchOK, DispatchFail, Dispatching, table
  <2>2. e.key \in OneShot => status[e.key] = "PROCESSING" /\ e.gen = gen[e.key]
    BY <2>1, HeadIsClaimed
  <2>3. CASE delivered' = delivered
    BY <2>1, <2>3, Stutters DEF Phase
  <2>4. CASE delivered' = delivered \cup {<<e.key, e.gen>>}
    <3> HIDE DEF e
    <3>1. phase' = phase
      BY <2>1 DEF phase, Phase
    <3>2. CASE e.key \in OneShot
      <4>1. phase[e.key] = "queued"
        BY <2>2, <3>2 DEF phase, Phase
      <4>2. sent' = sent \cup {e.key}
        BY <2>1, <2>2, <2>4, <3>2 DEF sent
      <4> QED
        BY <3>1, <3>2, <4>1, <4>2 DEF D!Next, D!Send, phase, sent
    <3>3. CASE e.key \notin OneShot
      <4>1. sent' = sent
        BY <2>1, <2>4, <3>3 DEF sent
      <4> QED
        BY <3>1, <4>1
    <3> QED
      BY <3>2, <3>3
  <2> QED
    BY <1>5, <2>3, <2>4 DEF DispatchOK, DispatchFail, Deliver, history
<1>6. ASSUME NEW w \in Workers, MarkProcessed(w) \/ RescheduleOrFail(w) PROVE [D!Next]_<<phase, sent>>
  <2>1. batch[w] # << >>
    BY <1>6 DEF MarkProcessed, RescheduleOrFail, IInv, HasBatch
  <2> DEFINE e == Head(batch[w])
  <2>2. e.key \in Keys /\ (e.key \in OneShot => status[e.key] = "PROCESSING" /\ e.gen = gen[e.key])
    BY <2>1, HeadIsClaimed
  <2>3. PICK s \in {"PROCESSED", "FAILED", "PENDING"} :
           /\ status' = [status EXCEPT ![e.key] = s] /\ UNCHANGED <<gen, delivered>>
           /\ s = "PROCESSED" => <<e.key, e.gen>> \in delivered
    BY <1>6 DEF MarkProcessed, RescheduleOrFail, history, IInv, MarkedIsSent
  <2> HIDE DEF e
  <2>4. CASE e.key \in OneShot
    <3>0. PICK k \in OneShot : k = e.key
      BY <2>4
    <3>1. status[k] = "PROCESSING" /\ <<k, e.gen>> = <<k, gen[k]>> /\ status'[k] = s
      BY <1>k, <1>t, <2>2, <2>3, <3>0
    <3>2. phase' = [phase EXCEPT ![k] = Phase(k)'] /\ sent' = sent
      <4>1. \A q \in OneShot : q # k => status'[q] = status[q]
        BY <1>k, <1>t, <2>3, <3>0
      <4> QED
        BY <2>3, <4>1, OneRow
    <3>3. phase[k] = "queued"
      BY <3>1 DEF phase, Phase
    <3>4. CASE s = "PROCESSED"
      <4>1. phase' = [phase EXCEPT ![k] = "acked"] /\ k \in sent
        BY <2>3, <3>0, <3>1, <3>2, <3>4 DEF Phase, sent
      <4> QED
        BY <3>2, <3>3, <4>1 DEF D!Next, D!Ack, phase, sent
    <3>5. CASE s = "FAILED"
      <4>1. phase' = [phase EXCEPT ![k] = "dead"]
        BY <3>1, <3>2, <3>5 DEF Phase
      <4> QED
        BY <3>2, <3>3, <4>1 DEF D!Next, D!Abandon, phase, sent
    <3>6. CASE s = "PENDING"
      <4>1. phase' = phase
        BY <3>1, <3>2, <3>3, <3>6 DEF phase, Phase
      <4> QED
        BY <3>2, <4>1
    <3> QED
      BY <3>4, <3>5, <3>6
  <2>5. CASE e.key \notin OneShot
    <3>1. \A q \in OneShot : status'[q] = status[q]
      BY <1>k, <1>t, <2>3, <2>5
    <3> QED
      BY <2>3, <3>1, Stutters DEF Phase
  <2> QED
    BY <2>4, <2>5
<1>7. ASSUME NEW w \in Workers,
             Wake(w) \/ Leave(w) \/ MarkFails(w) \/ RescheduleFails(w) \/ Stop(w) \/ Crash(w)
      PROVE  UNCHANGED <<phase, sent>>
  <2>1. UNCHANGED <<status, gen, delivered>>
    BY <1>7 DEF Wake, Leave, MarkFails, RescheduleFails, Stop, Crash, table, history
  <2> QED
    BY <2>1, Stutters DEF Phase
<1>8. CASE Tick \/ UNCHANGED vars
  <2>1. UNCHANGED <<status, gen, delivered>>
    BY <1>8 DEF Tick, vars, table, history
  <2> QED
    BY <2>1, Stutters DEF Phase
<1> QED
  <2>1. ASSUME NEW k \in Keys, EnqueueEvent(k) \/ ScheduleReminder(k) \/ CancelReminder(k)
        PROVE  [D!Next]_<<phase, sent>>
    BY <1>1, <1>2, <2>1 DEF EnqueueEvent, ScheduleReminder, CancelReminder, D!Next, phase, sent
  <2>2. CASE ReclaimFailed
    BY <1>3, <2>2 DEF D!Next
  <2> QED
    BY <2>1, <2>2, <1>4, <1>5, <1>6, <1>7, <1>8 DEF Next, WorkerStep

\* One worker, however it crashes, is stopped and restarted, or loses its writes,
\* implements Delivery: acknowledged means sent, and nothing acknowledged is queued
\* again.
THEOREM Implements == ASSUME Alone PROVE Spec => ImplementsDelivery
<1>1. Init => D!Init
  <2> SUFFICES ASSUME Init PROVE D!Init
    OBVIOUS
  <2>1. phase = [k \in OneShot |-> "idle"] /\ sent = {}
    BY DEF Init, phase, Phase, sent, Keys
  <2> QED
    BY <2>1 DEF D!Init, phase, sent
<1>2. RInv /\ [Next]_vars => [D!Next]_<<phase, sent>>
  BY Simulates
<1>3. RInv /\ [Next]_vars => RInv'
  BY NextRInv
<1>4. RInv /\ [Next]_vars =>
        [D!Next]_<<[k \in OneShot |-> Phase(k)], {k \in OneShot : <<k, gen[k]>> \in delivered}>>
  BY <1>2 DEF phase, sent
<1> QED
  BY <1>1, <1>3, <1>4, InitRInv, PTL DEF Spec, ImplementsDelivery, D!Spec

-----------------------------------------------------------------------------
(* Nothing is sent twice                                                   *)

\* What has been sent is of no later enqueue than the row, nor is what is in a batch.
NotAhead ==
    /\ \A k \in Keys : \A g \in Nat : <<k, g>> \in delivered => g <= gen[k]
    /\ \A w \in Workers : \A i \in 1..Len(batch[w]) : batch[w][i].gen <= gen[batch[w][i].key]

\* What is in a batch has not been sent, nor has what its row holds, but for the
\* head that is about to be marked.
Unsent ==
    \A w \in Workers : \A i \in 1..Len(batch[w]) :
        LET e == batch[w][i] IN
        \/ e.key \in ackLost \/ (i = 1 /\ pc[w] = "mark")
        \/ <<e.key, e.gen>> \notin delivered /\ <<e.key, gen[e.key]>> \notin delivered

AtHead(k) == \E w \in Workers : pc[w] = "mark" /\ Head(batch[w]).key = k

\* What is queued has not been sent, with the same exception.
QueuedUnsent ==
    \A k \in Keys : status[k] \in {"PENDING", "PROCESSING", "FAILED"} /\ <<k, gen[k]>> \in delivered
        => k \in ackLost \/ AtHead(k)

NoFault == crashes = 0 /\ dbFaults = 0
OnceInv == RInv /\ NotAhead /\ (NoFault => Unsent /\ QueuedUnsent) /\ NoSpuriousDuplicate

\* A step that sends, fetches and enqueues nothing, and neither begins nor ends a mark.
LEMMA OnceKept ==
    ASSUME OnceInv, RInv', UNCHANGED <<gen, delivered, again, ackLost>>, NoFault' => NoFault,
           \A v \in Workers : batch'[v] = batch[v] \/ batch'[v] = << >>,
           \A v \in Workers : pc'[v] = "mark" <=> pc[v] = "mark",
           \A v \in Workers : pc[v] = "mark" => batch'[v] = batch[v],
           \A k \in Keys : \/ status'[k] \notin {"PENDING", "PROCESSING", "FAILED"}
                           \/ status[k] \in {"PENDING", "PROCESSING", "FAILED"}
    PROVE  OnceInv'
<1> USE DEF OnceInv
<1>1. NotAhead'
  BY DEF NotAhead
<1>2. NoFault' => Unsent'
  BY DEF Unsent
<1>3. NoFault' => QueuedUnsent'
  <2>1. \A k \in Keys : AtHead(k) => AtHead(k)'
    BY DEF AtHead
  <2> QED
    BY <2>1 DEF QueuedUnsent
<1>4. NoSpuriousDuplicate'
  BY DEF NoSpuriousDuplicate, NoFault
<1> QED
  BY <1>1, <1>2, <1>3, <1>4

LEMMA UpsertKeepsOnce ==
    ASSUME OnceInv, RInv', NEW k \in Keys, NEW d, Upsert(k, d)
    PROVE  OnceInv'
<1> USE DEF OnceInv
<1>1. /\ status' = [status EXCEPT ![k] = "PENDING"] /\ gen' = [gen EXCEPT ![k] = @ + 1]
      /\ UNCHANGED <<batch, pc, delivered, again, ackLost, crashes, dbFaults>>
  BY DEF Upsert, worker
<1>2. /\ gen \in [Keys -> Nat] /\ gen[k] \in Nat /\ gen'[k] = gen[k] + 1
      /\ \A q \in Keys : q # k => gen'[q] = gen[q] /\ status'[q] = status[q]
  BY <1>1 DEF RInv, IInv, TypeTable
<1>3. <<k, gen'[k]>> \notin delivered
  BY <1>2 DEF NotAhead
<1>4. ASSUME NEW w \in Workers, NEW i \in 1..Len(batch[w])
      PROVE  batch[w][i].key \in Keys /\ batch[w][i].gen \in Nat
  <2>1. batch[w][i] \in Snapshots
    BY DEF RInv, IInv, TypeWorker
  <2> QED
    BY <2>1 DEF Snapshots
<1>5. NotAhead'
  <2>1. \A q \in Keys : gen[q] \in Nat /\ gen'[q] \in Nat /\ gen[q] <= gen'[q]
    BY <1>2
  <2>2. ASSUME NEW q \in Keys, NEW g \in Nat, <<q, g>> \in delivered PROVE g <= gen'[q]
    BY <2>1, <2>2 DEF NotAhead
  <2>3. ASSUME NEW w \in Workers, NEW i \in 1..Len(batch[w]) PROVE batch[w][i].gen <= gen'[batch[w][i].key]
    BY <1>4, <2>1 DEF NotAhead
  <2> QED
    BY <1>1, <2>2, <2>3 DEF NotAhead
<1>6. NoFault' => Unsent'
  BY <1>1, <1>2, <1>3, <1>4 DEF Unsent, NoFault
<1>7. NoFault' => QueuedUnsent'
  BY <1>1, <1>2, <1>3 DEF QueuedUnsent, AtHead, NoFault
<1>8. NoSpuriousDuplicate'
  BY <1>1 DEF NoSpuriousDuplicate
<1> QED
  BY <1>5, <1>6, <1>7, <1>8

LEMMA FetchKeepsOnce ==
    ASSUME Alone, OnceInv, RInv', NEW w \in Workers, Fetch(w)
    PROVE  OnceInv'
<1> USE DEF OnceInv
<1>1. UNCHANGED <<gen, delivered, again, ackLost, crashes, dbFaults>> /\ pc[w] = "poll"
      /\ pc' = [pc EXCEPT ![w] = "next"]
  BY DEF Fetch, history
<1>2. PICK n \in 1..BatchSize : \E ks \in [1..n -> Ready] :
         /\ batch' = [batch EXCEPT ![w] =
               [i \in 1..n |-> [key |-> ks[i], gen |-> gen[ks[i]], retry |-> retry[ks[i]]]]]
         /\ status' = [k \in Keys |-> IF k \in {ks[i] : i \in 1..n} THEN "PROCESSING" ELSE status[k]]
  BY DEF Fetch
<1>3. PICK ks \in [1..n -> Ready] :
         /\ batch' = [batch EXCEPT ![w] =
               [i \in 1..n |-> [key |-> ks[i], gen |-> gen[ks[i]], retry |-> retry[ks[i]]]]]
         /\ status' = [k \in Keys |-> IF k \in {ks[i] : i \in 1..n} THEN "PROCESSING" ELSE status[k]]
  BY <1>2
<1>4. \A v \in Workers : v = w
  BY DEF Alone
<1>5. \A k \in Ready : k \in Keys /\ status[k] = "PENDING" /\ gen[k] \in Nat
  BY DEF Ready, RInv, IInv, TypeTable
<1>6. ASSUME NEW v \in Workers, NEW i \in 1..Len(batch'[v])
      PROVE  \E k \in Ready : batch'[v][i].key = k /\ batch'[v][i].gen = gen[k]
  <2> DEFINE new == [j \in 1..n |-> [key |-> ks[j], gen |-> gen[ks[j]], retry |-> retry[ks[j]]]]
  <2>1. batch'[v] = new /\ n \in Nat /\ Len(new) = n
    BY <1>3, <1>4, BoundsAssumption DEF RInv, IInv, TypeWorker
  <2>2. i \in 1..n /\ batch'[v][i].key = ks[i] /\ batch'[v][i].gen = gen[ks[i]]
    BY <1>6, <2>1
  <2> QED
    BY <2>2
<1>7. \A k \in Keys : ~AtHead(k)
  BY <1>1, <1>4 DEF AtHead
<1>8. NotAhead'
  BY <1>1, <1>5, <1>6 DEF NotAhead
<1>9. NoFault' => Unsent'
  <2> SUFFICES ASSUME NoFault, NEW v \in Workers, NEW i \in 1..Len(batch'[v])
               PROVE  LET e == batch'[v][i] IN
                      e.key \in ackLost \/ (<<e.key, e.gen>> \notin delivered
                                          /\ <<e.key, gen[e.key]>> \notin delivered)
    BY <1>1 DEF Unsent, NoFault
  <2>1. PICK k \in Ready : batch'[v][i].key = k /\ batch'[v][i].gen = gen[k]
    BY <1>6
  <2>2. <<k, gen[k]>> \in delivered => k \in ackLost
    BY <1>5, <1>7 DEF QueuedUnsent
  <2> QED
    BY <2>1, <2>2
<1>10. NoFault' => QueuedUnsent'
  <2>1. \A q \in Keys : status'[q] = status[q] \/ status[q] = "PENDING"
    BY <1>3, <1>5
  <2> QED
    BY <1>1, <1>7, <2>1 DEF QueuedUnsent, NoFault
<1>11. NoSpuriousDuplicate'
  BY <1>1 DEF NoSpuriousDuplicate
<1> QED
  BY <1>8, <1>9, <1>10, <1>11

LEMMA DispatchKeepsOnce ==
    ASSUME Alone, OnceInv, RInv', NEW w \in Workers, DispatchOK(w) \/ DispatchFail(w)
    PROVE  OnceInv'
<1> USE DEF OnceInv
<1> DEFINE e == Head(batch[w])
<1>1. /\ UNCHANGED <<status, gen, batch, crashes, dbFaults>> /\ batch[w] # << >> /\ pc[w] = "next"
      /\ \A v \in Workers : v = w
  BY DEF DispatchOK, DispatchFail, Dispatching, table, Alone
<1>2. /\ HeadFacts(w) /\ e.key \in Keys /\ e.gen \in Nat /\ e = batch[w][1] /\ 1 \in 1..Len(batch[w])
  BY <1>1, HeadOfBatch DEF RInv, IInv, HeadFacts
<1>3. NoFault => e.key \in ackLost \/ (<<e.key, e.gen>> \notin delivered /\ <<e.key, gen[e.key]>> \notin delivered)
  BY <1>1, <1>2 DEF Unsent
<1>4. \A i \in 1..Len(batch[w]) : i # 1 => batch[w][i].key # e.key
  BY <1>2 DEF RInv, Claimed
<1>5. \A k \in Keys : ~AtHead(k)
  BY <1>1 DEF AtHead
<1>6. CASE DispatchOK(w)
  <2>1. /\ delivered' = delivered \cup {<<e.key, e.gen>>}
        /\ again' = IF <<e.key, e.gen>> \in delivered THEN again \cup {<<e.key, e.gen>>} ELSE again
        /\ ackLost' = ackLost /\ pc'[w] = "mark"
    BY <1>6 DEF DispatchOK, Deliver, RInv, IInv, TypeWorker
  <2>2. NotAhead'
    BY <1>1, <1>2, <2>1 DEF NotAhead
  <2> HIDE DEF e
  <2>3. NoFault' => Unsent'
    BY <1>1, <1>4, <2>1 DEF Unsent, NoFault
  <2>4. AtHead(e.key)'
    BY <1>1, <2>1 DEF AtHead, e
  <2>5. NoFault' => QueuedUnsent'
    <3>1. ASSUME NEW k \in Keys, k = e.key PROVE AtHead(k)'
      BY <1>1, <2>1, <3>1 DEF AtHead, e
    <3> QED
      BY <1>1, <1>5, <2>1, <3>1 DEF QueuedUnsent, NoFault
  <2>6. NoSpuriousDuplicate'
    BY <1>1, <1>3, <2>1 DEF NoSpuriousDuplicate, NoFault
  <2> QED
    BY <2>2, <2>3, <2>5, <2>6
<1>7. CASE DispatchFail(w) /\ UNCHANGED history
  <2>1. pc'[w] # "mark" /\ UNCHANGED <<delivered, again, ackLost>>
    BY <1>7 DEF DispatchFail, history, RInv, IInv, TypeWorker
  <2> QED
    BY <1>1, <2>1, OnceKept DEF NoFault
<1>8. CASE DispatchFail(w) /\ Deliver(e) /\ ackLost' = ackLost \cup {e.key}
  <2>1. /\ delivered' = delivered \cup {<<e.key, e.gen>>}
        /\ again' \subseteq again \cup {<<e.key, e.gen>>}
        /\ ackLost' = ackLost \cup {e.key} /\ pc'[w] # "mark"
    BY <1>8 DEF DispatchFail, Deliver, RInv, IInv, TypeWorker
  <2>2. NotAhead'
    BY <1>1, <1>2, <2>1 DEF NotAhead
  <2> HIDE DEF e
  <2>3. NoFault' => Unsent'
    BY <1>1, <2>1 DEF Unsent, NoFault
  <2>4. NoFault' => QueuedUnsent'
    BY <1>1, <1>5, <2>1 DEF QueuedUnsent, NoFault
  <2>5. NoSpuriousDuplicate'
    BY <1>1, <2>1 DEF NoSpuriousDuplicate
  <2> QED
    BY <2>2, <2>3, <2>4, <2>5
<1> QED
  BY <1>6, <1>7, <1>8 DEF DispatchFail

LEMMA SettleKeepsOnce ==
    ASSUME Alone, OnceInv, RInv', NEW w \in Workers, MarkProcessed(w) \/ RescheduleOrFail(w)
    PROVE  OnceInv'
<1> USE DEF OnceInv
<1> DEFINE e == Head(batch[w])
<1>1. /\ UNCHANGED <<gen, delivered, again, ackLost, crashes, dbFaults>> /\ batch[w] # << >>
      /\ \A v \in Workers : v = w
  BY DEF MarkProcessed, RescheduleOrFail, history, Alone, RInv, IInv, HasBatch
<1>2. HeadFacts(w) /\ e = batch[w][1] /\ 1 \in 1..Len(batch[w]) /\ e.key \in Keys
  BY <1>1, HeadOfBatch DEF RInv, IInv, HeadFacts
<1>3. batch'[w] = Tail(batch[w]) /\ pc'[w] \in {"poll", "next", "cool"}
  BY DEF MarkProcessed, RescheduleOrFail, Advance, RInv, IInv, TypeWorker
<1>4. ASSUME NEW i \in 1..Len(batch'[w])
      PROVE  \E j \in 1..Len(batch[w]) : j # 1 /\ batch'[w][i] = batch[w][j]
  <2>1. i + 1 \in 1..Len(batch[w]) /\ batch'[w][i] = batch[w][i + 1] /\ i + 1 # 1
    BY <1>2, <1>3 DEF HeadFacts
  <2> QED
    BY <2>1
<1>5. NotAhead'
  <2>1. ASSUME NEW v \in Workers, NEW i \in 1..Len(batch'[v])
        PROVE  batch'[v][i].gen <= gen[batch'[v][i].key]
    <3>1. v = w
      BY <1>1
    <3>2. PICK j \in 1..Len(batch[w]) : batch'[w][i] = batch[w][j]
      BY <1>4, <2>1, <3>1
    <3> QED
      BY <3>1, <3>2 DEF NotAhead
  <2>2. \A k \in Keys, g \in Nat : <<k, g>> \in delivered' => g <= gen[k]
    BY <1>1 DEF NotAhead
  <2> QED
    BY <1>1, <2>1, <2>2 DEF NotAhead
<1>6. NoFault' => Unsent'
  BY <1>1, <1>4 DEF Unsent, NoFault
<1>7. /\ \A k \in Keys : k # e.key => status'[k] = status[k]
      /\ status'[e.key] \in {"PENDING", "PROCESSING", "FAILED"} => pc[w] # "mark"
  BY <1>2 DEF MarkProcessed, RescheduleOrFail, RInv, IInv, TypeTable
<1>8. NoFault' => QueuedUnsent'
  <2> SUFFICES ASSUME NoFault, NEW k \in Keys, status'[k] \in {"PENDING", "PROCESSING", "FAILED"},
                      <<k, gen[k]>> \in delivered
               PROVE  k \in ackLost
    BY <1>1 DEF QueuedUnsent, NoFault
  <2>1. CASE k = e.key
    BY <1>2, <1>7, <2>1 DEF Unsent
  <2>2. CASE k # e.key
    BY <1>1, <1>7, <2>2 DEF QueuedUnsent, AtHead
  <2> QED
    BY <2>1, <2>2
<1>9. NoSpuriousDuplicate'
  BY <1>1 DEF NoSpuriousDuplicate
<1> QED
  BY <1>5, <1>6, <1>8, <1>9

\* A step of a fault makes the claim about duplicates empty from then on.
LEMMA FaultKeepsOnce ==
    ASSUME OnceInv, RInv', UNCHANGED <<gen, delivered, again, ackLost>>, ~NoFault',
           \A v \in Workers : batch'[v] = batch[v] \/ batch'[v] = << >>
    PROVE  OnceInv'
<1> USE DEF OnceInv
<1>1. NotAhead'
  BY DEF NotAhead
<1>2. NoSpuriousDuplicate'
  BY DEF NoSpuriousDuplicate, NoFault
<1> QED
  BY <1>1, <1>2

LEMMA NextOnceInv == ASSUME Alone PROVE OnceInv /\ [Next]_vars => OnceInv'
<1> SUFFICES ASSUME OnceInv, [Next]_vars PROVE OnceInv'
  OBVIOUS
<1>r. RInv /\ RInv' /\ TypeOK /\ IInv
  BY NextRInv DEF OnceInv, RInv, IInv, TypeOK
<1>1. ASSUME NEW k \in Keys, EnqueueEvent(k) \/ ScheduleReminder(k) PROVE OnceInv'
  <2>1. PICK d : Upsert(k, d)
    BY <1>1 DEF EnqueueEvent, ScheduleReminder
  <2> QED
    BY <1>r, <2>1, UpsertKeepsOnce
<1>2. CASE ReclaimFailed \/ Tick \/ UNCHANGED vars \/ \E k \in Keys : CancelReminder(k)
  <2>1. UNCHANGED <<gen, delivered, again, ackLost, batch, pc, crashes, dbFaults>>
    BY <1>2 DEF ReclaimFailed, Tick, CancelReminder, vars, table, worker, history
  <2>2. \A k \in Keys : \/ status'[k] \notin {"PENDING", "PROCESSING", "FAILED"}
                        \/ status[k] \in {"PENDING", "PROCESSING", "FAILED"}
    BY <1>2, <1>r DEF ReclaimFailed, Reclaimable, Tick, CancelReminder, vars, table, TypeOK, TypeTable
  <2>3. NoFault' => NoFault
    BY <2>1 DEF NoFault
  <2> QED
    BY <1>r, <2>1, <2>2, <2>3, OnceKept
<1>3. ASSUME NEW w \in Workers, Start(w) \/ Wake(w) \/ Leave(w) \/ Stop(w) PROVE OnceInv'
  <2>1. UNCHANGED <<gen, delivered, again, ackLost, crashes>>
        /\ (dbFaults' = dbFaults \/ dbFaults' = dbFaults + 1)
    BY <1>3 DEF Start, Wake, Leave, Stop, DbFault, table, history
  <2>2. \A v \in Workers : /\ batch'[v] = batch[v] \/ (batch'[v] = << >> /\ pc[v] # "mark")
                           /\ pc'[v] = "mark" <=> pc[v] = "mark"
    BY <1>3, <1>r DEF Start, Wake, Leave, Stop, TypeOK, TypeWorker
  <2>3. \A k \in Keys : \/ status'[k] \notin {"PENDING", "PROCESSING", "FAILED"}
                        \/ status[k] \in {"PENDING", "PROCESSING", "FAILED"}
    BY <1>3, <1>r DEF Start, Wake, Leave, Stop, table, TypeOK, TypeTable
  <2>4. NoFault' => NoFault
    BY <1>r, <2>1 DEF NoFault, TypeOK, TypeHistory
  <2> QED
    BY <1>r, <2>1, <2>2, <2>3, <2>4, OnceKept
<1>4. ASSUME NEW w \in Workers, MarkFails(w) \/ RescheduleFails(w) \/ Crash(w) PROVE OnceInv'
  <2>1. UNCHANGED <<gen, delivered, again, ackLost>>
        /\ (dbFaults' = dbFaults + 1 \/ crashes' = crashes + 1)
    BY <1>4 DEF MarkFails, RescheduleFails, Crash, DbFault, table, history
  <2>2. \A v \in Workers : batch'[v] = batch[v] \/ batch'[v] = << >>
    BY <1>4, <1>r DEF MarkFails, RescheduleFails, Crash, TypeOK, TypeWorker
  <2>3. ~NoFault'
    BY <1>r, <2>1 DEF NoFault, TypeOK, TypeHistory
  <2> QED
    BY <1>r, <2>1, <2>2, <2>3, FaultKeepsOnce
<1>5. ASSUME NEW w \in Workers, Fetch(w) PROVE OnceInv'
  BY <1>5, <1>r, FetchKeepsOnce
<1>6. ASSUME NEW w \in Workers, DispatchOK(w) \/ DispatchFail(w) PROVE OnceInv'
  BY <1>6, <1>r, DispatchKeepsOnce
<1>7. ASSUME NEW w \in Workers, MarkProcessed(w) \/ RescheduleOrFail(w) PROVE OnceInv'
  BY <1>7, <1>r, SettleKeepsOnce
<1> QED
  BY <1>1, <1>2, <1>3, <1>4, <1>5, <1>6, <1>7 DEF Next, WorkerStep

\* One worker sends nothing twice unless it crashed, a write of its failed, or a call
\* to Discord raised although it had succeeded: stopping and starting it never resends.
THEOREM NothingTwice == ASSUME Alone PROVE Spec => []NoSpuriousDuplicate
<1>1. Init => OnceInv
  <2> SUFFICES ASSUME Init PROVE OnceInv
    OBVIOUS
  <2>1. RInv
    BY InitRInv
  <2>2. NotAhead /\ Unsent /\ QueuedUnsent /\ NoSpuriousDuplicate
    BY DEF Init, NotAhead, Unsent, QueuedUnsent, NoSpuriousDuplicate
  <2> QED
    BY <2>1, <2>2 DEF OnceInv
<1>2. OnceInv => NoSpuriousDuplicate
  BY DEF OnceInv
<1> QED
  BY <1>1, <1>2, NextOnceInv, PTL DEF Spec

=============================================================================
