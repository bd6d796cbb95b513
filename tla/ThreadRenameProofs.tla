-------------------------- MODULE ThreadRenameProofs --------------------------
(* Proofs about what Discord shows of a task and what users do to it there.  First *)
(* the rename limiter, for any number of calls and titles, any window and limit:   *)
(* its types, that no pending title is left without a task, and, where no edits    *)
(* overlap and no title is asked for twice, that Discord's limit is kept and the   *)
(* last title arrives.  Then the cards, for any users, tasks and versions: what is *)
(* written through a panel is what its user saw, edited and confirmed.             *)
EXTENDS ThreadRename, TaskCards, FiniteSetTheorems, TLAPS

\* The cooldown is a time: can_rename never asks for a negative wait.
LEMMA CooldownIsTime ==
    ASSUME TypeOK, NEW w \in Cooldown
    PROVE  w \in Nat
<1>1. CASE lockout > 0 BY <1>1 DEF TypeOK, Cooldown
<1>2. CASE ~(lockout > 0)
    <2>1. PICK c \in Within(past) : w = Window - past[c] BY <1>2 DEF Cooldown
    <2>2. past[c] \in Nat /\ past[c] < Window BY <2>1, BoundsAssumption DEF TypeOK, Within
    <2> QED BY <2>1, <2>2, BoundsAssumption
<1> QED BY <1>1, <1>2

\* Deferring keeps the types of what it writes.
LEMMA DeferTypes ==
    ASSUME TypeOK, NEW c \in Calls, NEW t \in Titles, NEW w \in Nat, Defer(c, t, w)
    PROVE  /\ pending' \in Titles \cup {None} /\ registered' \in Calls \cup {0}
           /\ at' \in [Calls -> {"new", "editing", "created", "asleep", "renaming", "done"}]
           /\ left' \in [Calls -> Nat] /\ cancelled' \in [Calls -> BOOLEAN]
<1> DEFINE hit(d) == cancelled[d] \/ (d = registered /\ at[d] \in {"asleep", "renaming"})
<1>1. cancelled' = [d \in Calls |-> hit(d)] BY DEF Defer
<1>2. \A d \in Calls : hit(d) \in BOOLEAN BY DEF TypeOK
<1>3. cancelled' \in [Calls -> BOOLEAN] BY <1>1, <1>2
<1> QED BY <1>3 DEF TypeOK, Defer

\* The finally block keeps the types of what it writes.
LEMMA FinallyTypes ==
    ASSUME TypeOK, NEW c \in Calls, Finally(c)
    PROVE  /\ pending' \in Titles \cup {None} /\ registered' \in Calls \cup {0}
           /\ at' \in [Calls -> {"new", "editing", "created", "asleep", "renaming", "done"}]
BY DEF TypeOK, Finally

\* So does recording a rename.
LEMMA RecordTypes ==
    ASSUME TypeOK, NEW c \in Calls, RecordRename(c)
    PROVE  /\ name' \in Titles
           /\ past' \in [Calls -> 0..Window] /\ applied' \in [Calls -> 0..Window]
BY BoundsAssumption DEF TypeOK, RecordRename

\* A call of the sync keeps the types.
LEMMA SyncTypes ==
    ASSUME TypeOK, NEW c \in Calls, NEW t \in Titles, Sync(c, t)
    PROVE  TypeOK'
<1>1. syncs' \in Calls \cup {0} /\ wanted' \in Titles /\ target' \in [Calls -> Titles]
    BY DEF Sync, TypeOK
<1>2. raced' \in BOOLEAN /\ dropped' \in BOOLEAN
    <2>1. raced' = (raced \/ Unsettled \/ (CanRename /\ pending # None)) BY DEF Sync
    <2>2. dropped' = (dropped \/ Repeats(t)) BY DEF Sync
    <2> QED BY <2>1, <2>2
<1>3. CASE cached = t
    BY <1>1, <1>2, <1>3 DEF Sync, TypeOK, limiter
<1>4. CASE cached # t /\ CanRename
    BY <1>1, <1>2, <1>4 DEF Sync, TypeOK, limiter
<1>5. CASE cached # t /\ ~CanRename
    <2>1. PICK w \in Cooldown : Defer(c, t, w) BY <1>5 DEF Sync
    <2>2. w \in Nat BY <2>1, CooldownIsTime
    <2>3. UNCHANGED <<past, lockout, name, cached, applied, failed>> BY <1>5 DEF Sync
    <2> QED BY <1>1, <1>2, <2>1, <2>2, <2>3, DeferTypes DEF TypeOK
<1> QED BY <1>3, <1>4, <1>5

\* A 429 keeps the types.
LEMMA LimitedTypes ==
    ASSUME TypeOK, NEW c \in Calls, EditLimited(c)
    PROVE  TypeOK'
<1>1. PICK b \in {RetryAfter, Window} :
          /\ lockout' = b
          /\ IF cached = target[c]
             THEN /\ at' = [at EXCEPT ![c] = "done"]
                  /\ UNCHANGED <<pending, registered, left, cancelled>>
             ELSE Defer(c, target[c], b)
    BY DEF EditLimited
<1>2. b \in Nat /\ target[c] \in Titles BY BoundsAssumption DEF TypeOK
<1>3. UNCHANGED <<name, cached, past, target, syncs, wanted, applied, failed, raced, dropped>>
    BY DEF EditLimited, ghosts
<1>4. CASE cached = target[c] BY <1>1, <1>2, <1>3, <1>4 DEF TypeOK
<1>5. CASE cached # target[c] BY <1>1, <1>2, <1>3, <1>5, DeferTypes DEF TypeOK
<1> QED BY <1>4, <1>5

\* A deferred task that wakes keeps the types.
LEMMA WakeTypes ==
    ASSUME TypeOK, NEW c \in Calls, TaskWake(c)
    PROVE  TypeOK'
<1>1. raced' \in BOOLEAN BY DEF TaskWake, TypeOK
<1>2. UNCHANGED <<name, cached, past, lockout, target, left, cancelled, syncs,
                  wanted, applied, failed, dropped>>
    BY DEF TaskWake
<1>3. CASE pending # target[c] \/ cached = target[c]
    BY <1>1, <1>2, <1>3, FinallyTypes DEF TaskWake, TypeOK
<1>4. CASE ~(pending # target[c] \/ cached = target[c])
    BY <1>1, <1>2, <1>4 DEF TaskWake, TypeOK
<1> QED BY <1>3, <1>4

\* Time keeps the types: ages stop at the window, waits at zero.
LEMMA TickTypes ==
    ASSUME TypeOK, Tick
    PROVE  TypeOK'
<1>1. past' \in [Calls -> 0..Window] /\ applied' \in [Calls -> 0..Window]
    BY BoundsAssumption DEF Tick, Older, TypeOK
<1>2. lockout' \in Nat /\ left' \in [Calls -> Nat] BY DEF Tick, Less, TypeOK
<1> QED BY <1>1, <1>2 DEF Tick, TypeOK

\* The limiter keeps to its types, for any titles, window, limit and number of calls.
THEOREM TypeCorrect == Spec => []TypeOK
<1>1. ASSUME Init PROVE TypeOK
    <2>1. past \in [Calls -> 0..Window] /\ applied \in [Calls -> 0..Window]
        BY <1>1, BoundsAssumption DEF Init
    <2>2. target \in [Calls -> Titles] /\ left \in [Calls -> Nat] BY <1>1 DEF Init
    <2> QED BY <1>1, <2>1, <2>2 DEF Init, TypeOK
<1>2. TypeOK /\ [Next]_vars => TypeOK'
    <2> SUFFICES ASSUME TypeOK, [Next]_vars PROVE TypeOK'
        OBVIOUS
    <2>1. ASSUME NEW c \in Calls, NEW t \in Titles, Sync(c, t) PROVE TypeOK'
        BY <2>1, SyncTypes
    <2>2. ASSUME NEW c \in Calls, EditOK(c) PROVE TypeOK'
        BY <2>2, RecordTypes DEF EditOK, TypeOK
    <2>3. ASSUME NEW c \in Calls, EditLimited(c) PROVE TypeOK'
        BY <2>3, LimitedTypes
    <2>4. ASSUME NEW c \in Calls, EditFails(c) PROVE TypeOK'
        BY <2>4 DEF EditFails, TypeOK, limiter
    <2>5. ASSUME NEW c \in Calls, TaskStart(c) PROVE TypeOK'
        BY <2>5 DEF TaskStart, TypeOK, limiter, ghosts
    <2>6. ASSUME NEW c \in Calls, TaskWake(c) PROVE TypeOK'
        BY <2>6, WakeTypes
    <2>7. ASSUME NEW c \in Calls, TaskRenamed(c) PROVE TypeOK'
        BY <2>7, RecordTypes, FinallyTypes DEF TaskRenamed, TypeOK
    <2>8. ASSUME NEW c \in Calls, TaskFails(c) PROVE TypeOK'
        BY <2>8, FinallyTypes DEF TaskFails, TypeOK
    <2>9. ASSUME NEW c \in Calls, TaskCancelled(c) PROVE TypeOK'
        <3>1. name' \in Titles /\ applied' \in [Calls -> 0..Window]
            BY <2>9, BoundsAssumption DEF TaskCancelled, TypeOK
        <3> QED BY <2>9, <3>1, FinallyTypes DEF TaskCancelled, TypeOK
    <2>10. CASE GatewayUpdate
        BY <2>10 DEF GatewayUpdate, TypeOK, limiter, calls, ghosts
    <2>11. CASE Tick BY <2>11, TickTypes
    <2>12. CASE UNCHANGED vars
        BY <2>12 DEF TypeOK, vars, limiter, calls, ghosts
    <2> QED BY <2>1, <2>2, <2>3, <2>4, <2>5, <2>6, <2>7, <2>8, <2>9, <2>10, <2>11, <2>12
            DEF Next
<1> QED BY <1>1, <1>2, PTL DEF Spec

-----------------------------------------------------------------------------

\* What the proof of PendingHasTask needs besides the types: calls still to be made
\* have not begun, and a call that has no task yet has none that was cancelled.
Future == \A c \in Calls : c > syncs => at[c] = "new"
Fresh == \A c \in Calls : at[c] \in {"new", "editing"} => ~cancelled[c]

IInv == TypeOK /\ Future /\ Fresh /\ PendingHasTask

\* Deferring leaves the new title with the task it creates, which nobody has cancelled.
LEMMA DeferKeeps ==
    ASSUME IInv, NEW c \in Calls, NEW t \in Titles, NEW w \in Nat, Defer(c, t, w),
           at[c] \in {"new", "editing"}, target' = [target EXCEPT ![c] = t],
           syncs' \in Nat, syncs <= syncs', c <= syncs'
    PROVE  Future' /\ Fresh' /\ PendingHasTask'
<1> USE DEF IInv
<1>1. ~cancelled[c] BY DEF Fresh
<1>2. at'[c] = "created" /\ ~cancelled'[c] /\ target'[c] = t /\ pending' = t
    BY <1>1 DEF Defer, TypeOK
<1>3. ASSUME NEW d \in Calls, d # c
      PROVE  /\ at'[d] \in {at[d], "done"} /\ (at[d] = "new" => at'[d] = "new")
             /\ (at[d] \in {"new", "editing"} => cancelled'[d] = cancelled[d])
    BY <1>3 DEF Defer, TypeOK
<1>4. Future'
    <2> SUFFICES ASSUME NEW d \in Calls, d > syncs' PROVE at'[d] = "new"
        BY DEF Future
    <2>1. d # c /\ d > syncs BY DEF Calls, TypeOK
    <2> QED BY <2>1, <1>3 DEF Future
<1>5. Fresh'
    <2> SUFFICES ASSUME NEW d \in Calls, at'[d] \in {"new", "editing"} PROVE ~cancelled'[d]
        BY DEF Fresh
    <2>1. d # c BY <1>2
    <2> QED BY <2>1, <1>3 DEF Fresh
<1>6. PendingHasTask' BY <1>2 DEF PendingHasTask, Alive
<1> QED BY <1>4, <1>5, <1>6

\* The finally block of one task leaves every other pending title with its task.
LEMMA FinallyKeeps ==
    ASSUME IInv, NEW c \in Calls, Finally(c), at[c] # "new",
           UNCHANGED <<target, cancelled, syncs>>
    PROVE  Future' /\ Fresh' /\ PendingHasTask'
<1> USE DEF IInv
<1>1. at' = [at EXCEPT ![c] = "done"] /\ target' = target /\ cancelled' = cancelled
      /\ syncs' = syncs /\ pending' = IF pending = target[c] THEN None ELSE pending
    BY DEF Finally
<1>2. Future' /\ Fresh' BY <1>1 DEF Future, Fresh, TypeOK
<1>3. ASSUME pending' # None PROVE \E d \in Calls : Alive(d)' /\ target'[d] = pending'
    <2>1. pending' = pending /\ pending # target[c] /\ pending # None BY <1>1, <1>3
    <2>2. PICK d \in Calls : Alive(d) /\ target[d] = pending BY <2>1 DEF PendingHasTask
    <2>3. d # c BY <2>1, <2>2
    <2>4. Alive(d)' BY <1>1, <2>2, <2>3 DEF Alive, TypeOK
    <2> QED BY <1>1, <2>1, <2>2, <2>4
<1> QED BY <1>2, <1>3 DEF PendingHasTask

\* A call or a task that moves on without touching pending keeps it attended to.
LEMMA MoveKeeps ==
    ASSUME IInv, NEW c \in Calls,
           NEW p \in {"editing", "created", "asleep", "renaming", "done"},
           at' = [at EXCEPT ![c] = p],
           at[c] \in {"created", "asleep", "renaming"} => p \in {"asleep", "renaming"},
           p = "editing" => at[c] = "new",
           NEW t \in Titles, target' = [target EXCEPT ![c] = t],
           at[c] \in {"created", "asleep", "renaming"} => t = target[c],
           pending' = pending, cancelled' = cancelled,
           syncs' \in Nat, syncs <= syncs', c <= syncs'
    PROVE  Future' /\ Fresh' /\ PendingHasTask'
<1> USE DEF IInv
<1>1. Future'
    <2> SUFFICES ASSUME NEW d \in Calls, d > syncs' PROVE at'[d] = "new"
        BY DEF Future
    <2>1. d # c /\ d > syncs BY DEF Calls, TypeOK
    <2> QED BY <2>1 DEF Future, TypeOK
<1>2. Fresh' BY DEF Fresh, TypeOK
<1>3. ASSUME pending # None PROVE \E d \in Calls : Alive(d)' /\ target'[d] = pending'
    <2>1. PICK d \in Calls : Alive(d) /\ target[d] = pending BY <1>3 DEF PendingHasTask
    <2>2. Alive(d)' /\ target'[d] = target[d] BY <2>1 DEF Alive, TypeOK
    <2> QED BY <2>1, <2>2
<1> QED BY <1>1, <1>2, <1>3 DEF PendingHasTask

\* A call that is under way has been made.
LEMMA BegunIsMade ==
    ASSUME IInv, NEW c \in Calls, at[c] # "new"
    PROVE  syncs \in Nat /\ c <= syncs
BY BoundsAssumption DEF IInv, TypeOK, Future, Calls

\* A call of the sync keeps the invariant.
LEMMA SyncKeeps ==
    ASSUME IInv, NEW c \in Calls, NEW t \in Titles, Sync(c, t)
    PROVE  Future' /\ Fresh' /\ PendingHasTask'
<1>1. /\ syncs \in Nat /\ syncs' = c /\ c = syncs + 1 /\ at[c] = "new"
      /\ target' = [target EXCEPT ![c] = t]
    BY BoundsAssumption DEF IInv, TypeOK, Future, Sync, Calls
<1>a. syncs' \in Nat /\ syncs <= syncs' /\ c <= syncs' BY <1>1
<1>2. CASE cached = t
    <2>1. at' = [at EXCEPT ![c] = "done"] /\ pending' = pending /\ cancelled' = cancelled
        BY <1>2 DEF Sync, limiter
    <2> QED BY <1>1, <1>a, <2>1, MoveKeeps
<1>3. CASE cached # t /\ CanRename
    <2>1. at' = [at EXCEPT ![c] = "editing"] /\ pending' = pending /\ cancelled' = cancelled
        BY <1>3 DEF Sync, limiter
    <2> QED BY <1>1, <1>a, <2>1, MoveKeeps
<1>4. CASE cached # t /\ ~CanRename
    <2>1. PICK w \in Cooldown : Defer(c, t, w) BY <1>4 DEF Sync
    <2>2. w \in Nat BY <2>1, CooldownIsTime DEF IInv
    <2> QED BY <1>1, <1>a, <2>1, <2>2, DeferKeeps
<1> QED BY <1>2, <1>3, <1>4

\* A 429 keeps the invariant.
LEMMA LimitedKeeps ==
    ASSUME IInv, NEW c \in Calls, EditLimited(c)
    PROVE  Future' /\ Fresh' /\ PendingHasTask'
<1>1. PICK b \in {RetryAfter, Window} :
          IF cached = target[c]
          THEN /\ at' = [at EXCEPT ![c] = "done"]
               /\ UNCHANGED <<pending, registered, left, cancelled>>
          ELSE Defer(c, target[c], b)
    BY DEF EditLimited
<1>2. /\ b \in Nat /\ target[c] \in Titles /\ at[c] = "editing"
      /\ target' = [target EXCEPT ![c] = target[c]] /\ syncs' = syncs
    BY BoundsAssumption DEF IInv, TypeOK, EditLimited
<1>3. syncs' \in Nat /\ syncs <= syncs' /\ c <= syncs' BY <1>2, BegunIsMade
<1>4. CASE cached = target[c]
    <2>1. at' = [at EXCEPT ![c] = "done"] /\ pending' = pending /\ cancelled' = cancelled
        BY <1>1, <1>4
    <2> QED BY <1>2, <1>3, <2>1, MoveKeeps
<1>5. CASE cached # target[c]
    <2>1. Defer(c, target[c], b) BY <1>1, <1>5
    <2> QED BY <1>2, <1>3, <2>1, DeferKeeps
<1> QED BY <1>4, <1>5

\* The other steps of a call keep the invariant.
LEMMA CallKeeps ==
    ASSUME IInv, NEW c \in Calls,
           EditOK(c) \/ EditFails(c) \/ TaskStart(c) \/ TaskWake(c)
               \/ TaskRenamed(c) \/ TaskFails(c) \/ TaskCancelled(c)
    PROVE  Future' /\ Fresh' /\ PendingHasTask'
<1>1. /\ target' = [target EXCEPT ![c] = target[c]] /\ target[c] \in Titles
      /\ cancelled' = cancelled /\ UNCHANGED <<target, cancelled, syncs>> /\ at[c] # "new"
    BY DEF IInv, TypeOK, EditOK, EditFails, TaskStart, TaskWake, TaskRenamed, TaskFails,
           TaskCancelled, limiter
<1>2. syncs' \in Nat /\ syncs <= syncs' /\ c <= syncs' BY <1>1, BegunIsMade
<1>3. CASE EditOK(c) \/ EditFails(c)
    <2>1. at' = [at EXCEPT ![c] = "done"] /\ at[c] = "editing" /\ pending' = pending
        BY <1>3 DEF EditOK, EditFails, limiter
    <2> QED BY <1>1, <1>2, <2>1, MoveKeeps
<1>4. CASE TaskStart(c)
    <2>1. at' = [at EXCEPT ![c] = "asleep"] /\ pending' = pending
        BY <1>4 DEF TaskStart, limiter
    <2> QED BY <1>1, <1>2, <2>1, MoveKeeps
<1>5. CASE TaskWake(c)
    <2>1. CASE Finally(c) BY <1>1, <2>1, FinallyKeeps
    <2>2. CASE ~Finally(c)
        <3>1. at' = [at EXCEPT ![c] = "renaming"] /\ pending' = pending
            BY <1>5, <2>2 DEF TaskWake
        <3> QED BY <1>1, <1>2, <3>1, MoveKeeps
    <2> QED BY <2>1, <2>2
<1>6. CASE TaskRenamed(c) \/ TaskFails(c) \/ TaskCancelled(c)
    <2>1. Finally(c) BY <1>6 DEF TaskRenamed, TaskFails, TaskCancelled
    <2> QED BY <1>1, <2>1, FinallyKeeps
<1> QED BY <1>3, <1>4, <1>5, <1>6

\* The invariant holds: calls debounce, cancel and overtake each other, and each step keeps it.
LEMMA InvariantHolds == Spec => []IInv
<1>1. Init => Future /\ Fresh /\ PendingHasTask
    BY DEF Init, Future, Fresh, PendingHasTask
<1>2. IInv /\ TypeOK' /\ [Next]_vars => Future' /\ Fresh' /\ PendingHasTask'
    <2> SUFFICES ASSUME IInv, TypeOK', [Next]_vars
                 PROVE  Future' /\ Fresh' /\ PendingHasTask'
        OBVIOUS
    <2>1. ASSUME NEW c \in Calls, NEW t \in Titles, Sync(c, t)
          PROVE  Future' /\ Fresh' /\ PendingHasTask'
        BY <2>1, SyncKeeps
    <2>2. ASSUME NEW c \in Calls, EditLimited(c)
          PROVE  Future' /\ Fresh' /\ PendingHasTask'
        BY <2>2, LimitedKeeps
    <2>3. ASSUME NEW c \in Calls,
                 EditOK(c) \/ EditFails(c) \/ TaskStart(c) \/ TaskWake(c)
                     \/ TaskRenamed(c) \/ TaskFails(c) \/ TaskCancelled(c)
          PROVE  Future' /\ Fresh' /\ PendingHasTask'
        BY <2>3, CallKeeps
    <2>4. CASE GatewayUpdate \/ Tick \/ UNCHANGED vars
        <3>1. UNCHANGED <<at, target, cancelled, pending, syncs>>
            BY <2>4 DEF GatewayUpdate, Tick, vars, limiter, calls
        <3> QED BY <3>1 DEF IInv, Future, Fresh, PendingHasTask, Alive
    <2> QED BY <2>1, <2>2, <2>3, <2>4 DEF Next
<1> QED BY <1>1, <1>2, TypeCorrect, PTL DEF Spec, IInv

\* Whatever calls debounce, cancel and overtake each other, a pending title always has
\* a task that was not cancelled and will apply it.
THEOREM PendingIsAttended == Spec => []PendingHasTask
<1>1. IInv => PendingHasTask BY DEF IInv
<1> QED BY <1>1, InvariantHolds, PTL

-----------------------------------------------------------------------------
(* Calls that neither overlap nor repeat each other.  An edit begins when    *)
(* the window has room and nothing is pending; a task that stands for the    *)
(* pending title sleeps until the window has room; so nobody takes the place *)
(* of another, and whoever is to apply the last title does.                  *)

InFlight(c) == at[c] \in {"created", "asleep", "renaming"}
Busy(c) == at[c] \in {"editing", "renaming"}

\* The renames that still count when so much time has passed.
Counted(wait) == {e \in Calls : past[e] + wait < Window}

Alone == \A c, d \in Calls : Busy(c) /\ Busy(d) => c = d

Distinct == \A c, d \in Calls : InFlight(c) /\ InFlight(d) /\ target[c] = target[d] => c = d

EditsFit ==
    \A c \in Calls : at[c] = "editing" =>
       /\ pending = None /\ lockout = 0 /\ Cardinality(Within(past)) < MaxRenames
       /\ cached = name /\ target[c] # name
       /\ \A d \in Calls : InFlight(d) => target[d] # target[c]

RenamesFit ==
    \A c \in Calls : at[c] = "renaming" =>
       pending = target[c] /\ lockout = 0 /\ Cardinality(Within(past)) < MaxRenames

\* Who stands for the pending title wakes when there is room.
Awaited ==
    \A c \in Calls : at[c] \in {"created", "asleep"} /\ target[c] = pending =>
       left[c] >= lockout /\ Cardinality(Counted(left[c])) < MaxRenames

\* Who is cancelled stands for a title that is not pending any more.
Replaced == \A c \in Calls : InFlight(c) /\ cancelled[c] => target[c] # pending

Bounded ==
    /\ applied = past /\ Cardinality(Within(past)) <= MaxRenames
    /\ lockout > 0 => Cardinality(Within(past)) < MaxRenames

Known == pending # None => cached = name

\* The last title is on its way, or there.
Headed ==
    \/ failed \/ pending = wanted
    \/ \E c \in Calls : at[c] = "editing" /\ target[c] = wanted
    \/ pending = None /\ name = wanted /\ \A c \in Calls : at[c] # "editing"

Steady ==
    Alone /\ Distinct /\ EditsFit /\ RenamesFit /\ Awaited /\ Replaced /\ Bounded /\ Known /\ Headed

Calm == ~raced /\ ~dropped => Steady

\* Some of the calls can be counted.
LEMMA CallsCount ==
    ASSUME NEW S, S \subseteq Calls
    PROVE  /\ IsFiniteSet(S) /\ Cardinality(S) \in Nat
           /\ \A T : T \subseteq S => IsFiniteSet(T) /\ Cardinality(T) <= Cardinality(S)
<1>1. IsFiniteSet(Calls) BY BoundsAssumption, FS_Interval DEF Calls
<1>2. IsFiniteSet(S) BY <1>1, FS_Subset
<1>3. ASSUME NEW T, T \subseteq S PROVE IsFiniteSet(T) /\ Cardinality(T) <= Cardinality(S)
    BY <1>2, <1>3, FS_Subset
<1> QED BY <1>2, <1>3, FS_CardinalityType

\* A rename takes one place of the window.
LEMMA RecordFits ==
    ASSUME TypeOK, Bounded, NEW c \in Calls, RecordRename(c), Cardinality(Within(past)) < MaxRenames
    PROVE  applied' = past' /\ Cardinality(Within(past')) <= MaxRenames
<1>1. past' = [past EXCEPT ![c] = 0] /\ applied' = past' BY DEF RecordRename, Bounded
<1>2. Within(past') = Within(past) \cup {c} BY <1>1, BoundsAssumption DEF Within, TypeOK
<1>3. IsFiniteSet(Within(past)) /\ Cardinality(Within(past)) \in Nat BY CallsCount DEF Within
<1> DEFINE room == Within(past)
<1>4. IsFiniteSet(room) /\ Cardinality(room) \in Nat /\ Cardinality(room) < MaxRenames BY <1>3
<1> HIDE DEF room
<1>5. Cardinality(room \cup {c}) = IF c \in room THEN Cardinality(room) ELSE Cardinality(room) + 1
    BY <1>4, FS_AddElement
<1>6. Cardinality(room \cup {c}) <= MaxRenames BY <1>4, <1>5, BoundsAssumption
<1> QED BY <1>1, <1>2, <1>6 DEF room

\* The renames counted at the end of a wait are counted now.
LEMMA CountedIsWithin ==
    ASSUME TypeOK, NEW w \in Nat
    PROVE  /\ Counted(w) \subseteq Within(past) /\ Counted(0) = Within(past)
           /\ Cardinality(Counted(w)) \in Nat /\ Cardinality(Within(past)) \in Nat
           /\ Cardinality(Counted(w)) <= Cardinality(Within(past))
<1>1. Counted(w) \subseteq Within(past) /\ Counted(0) = Within(past)
    BY BoundsAssumption DEF TypeOK, Counted, Within
<1>2. Within(past) \subseteq Calls /\ Counted(w) \subseteq Calls BY DEF Within, Counted
<1> QED BY <1>1, <1>2, CallsCount

\* After the cooldown the window has room.
LEMMA CooldownFits ==
    ASSUME TypeOK, Bounded, ~CanRename, NEW w \in Cooldown
    PROVE  w \in Nat /\ w >= lockout /\ Cardinality(Counted(w)) < MaxRenames
<1>1. w \in Nat BY CooldownIsTime
<1>2. CASE lockout > 0
    <2>1. w = lockout /\ Cardinality(Within(past)) < MaxRenames BY <1>2 DEF Cooldown, Bounded
    <2>2. Cardinality(Counted(w)) <= Cardinality(Within(past))
          /\ Cardinality(Counted(w)) \in Nat /\ Cardinality(Within(past)) \in Nat
        BY <1>1, CountedIsWithin
    <2> QED BY <1>1, <2>1, <2>2, BoundsAssumption DEF TypeOK
<1>3. CASE ~(lockout > 0)
    <2>1. PICK c \in Within(past) : w = Window - past[c] /\ \A e \in Within(past) : past[e] <= past[c]
        BY <1>3 DEF Cooldown
    <2>2. Counted(w) \subseteq Within(past) \ {c}
        BY <1>1, <2>1, CountedIsWithin, BoundsAssumption DEF Counted, TypeOK, Within
    <2>3. IsFiniteSet(Within(past)) /\ Cardinality(Within(past)) \in Nat
        BY CallsCount DEF Within
    <2>4. Cardinality(Within(past) \ {c}) = Cardinality(Within(past)) - 1
        BY <2>1, <2>3, FS_RemoveElement
    <2>5. Cardinality(Counted(w)) <= Cardinality(Within(past) \ {c}) /\ Cardinality(Counted(w)) \in Nat
        BY <2>2, CallsCount DEF Within
    <2> QED BY <1>1, <1>3, <2>3, <2>4, <2>5, BoundsAssumption DEF TypeOK, Bounded
<1> QED BY <1>2, <1>3

\* A new deferred task, which nobody else in flight has the title of.
LEMMA DeferSteady ==
    ASSUME TypeOK, Fresh, Steady, NEW c \in Calls, NEW t \in Titles, NEW w \in Nat, Defer(c, t, w),
           at[c] \in {"new", "editing"}, target' = [target EXCEPT ![c] = t],
           \A d \in Calls : Busy(d) => d = c,
           \A d \in Calls : InFlight(d) => target[d] # t,
           UNCHANGED <<name, cached, past, applied, failed>>, cached = name,
           lockout' \in Nat, w >= lockout', Cardinality(Counted(w)) < MaxRenames,
           lockout' > 0 => Cardinality(Within(past)) < MaxRenames,
           failed \/ wanted' = t
    PROVE  Steady'
<1>1. at'[c] = "created" /\ ~cancelled'[c] /\ target'[c] = t /\ pending' = t /\ left'[c] = w
    BY DEF Defer, TypeOK, Fresh
<1>2. ASSUME NEW d \in Calls, d # c
      PROVE  /\ at'[d] \in {at[d], "done"} /\ target'[d] = target[d] /\ left'[d] = left[d]
    BY <1>2 DEF Defer, TypeOK
<1>3. \A d \in Calls : ~Busy(d)'
    BY <1>1, <1>2 DEF Busy
<1>4. ASSUME NEW d \in Calls, InFlight(d)', d # c
      PROVE  InFlight(d) /\ target'[d] = target[d] /\ target[d] # t
    <2>1. InFlight(d) BY <1>2, <1>4 DEF InFlight
    <2> QED BY <1>2, <1>4, <2>1
<1>5. Alone' /\ EditsFit' /\ RenamesFit' BY <1>3 DEF Alone, EditsFit, RenamesFit, Busy
<1>6. Distinct' BY <1>1, <1>4 DEF Distinct, Steady
<1>7. Awaited'
    <2> SUFFICES ASSUME NEW d \in Calls, at'[d] \in {"created", "asleep"}, target'[d] = pending'
                 PROVE  left'[d] >= lockout' /\ Cardinality(Counted(left[d])') < MaxRenames
        BY DEF Awaited
    <2>1. d = c BY <1>1, <1>4 DEF InFlight
    <2>2. Counted(left[d])' = Counted(w) BY <1>1, <2>1 DEF Counted
    <2> QED BY <1>1, <2>1, <2>2
<1>8. Replaced' BY <1>1, <1>4 DEF Replaced
<1>9. Bounded'
    <2>1. Within(past)' = Within(past) BY DEF Within
    <2> QED BY <2>1 DEF Bounded, Steady
<1>10. Known' /\ Headed' BY <1>1 DEF Known, Headed
<1> QED BY <1>5, <1>6, <1>7, <1>8, <1>9, <1>10 DEF Steady

\* A call that ends without renaming, its title pending no more if it was.
LEMMA DoneSteady ==
    ASSUME TypeOK, Steady, NEW c \in Calls, at' = [at EXCEPT ![c] = "done"],
           UNCHANGED <<name, cached, past, applied, lockout, target, left, cancelled>>,
           pending' = pending \/ (pending' = None /\ pending = target[c] /\ InFlight(c)),
           Headed'
    PROVE  Steady'
<1>1. \A d \in Calls : at'[d] = IF d = c THEN "done" ELSE at[d] BY DEF TypeOK
<1>2. \A d \in Calls : target[d] # None BY TitlesAssumption DEF TypeOK
<1>3. Alone' /\ Distinct' BY <1>1 DEF Steady, Alone, Distinct, Busy, InFlight
<1>4. Within(past)' = Within(past) BY DEF Within
<1>5. EditsFit'
    <2> SUFFICES ASSUME NEW d \in Calls, at'[d] = "editing"
                 PROVE  /\ pending' = None /\ lockout' = 0 /\ Cardinality(Within(past)') < MaxRenames
                        /\ cached' = name' /\ target'[d] # name'
                        /\ \A e \in Calls : InFlight(e)' => target'[e] # target'[d]
        BY DEF EditsFit
    <2>1. at[d] = "editing" BY <1>1
    <2>2. \A e \in Calls : InFlight(e)' => InFlight(e) BY <1>1 DEF InFlight
    <2> QED BY <1>4, <2>1, <2>2 DEF Steady, EditsFit
<1>6. RenamesFit'
    <2> SUFFICES ASSUME NEW d \in Calls, at'[d] = "renaming"
                 PROVE  pending' = target'[d] /\ lockout' = 0 /\ Cardinality(Within(past)') < MaxRenames
        BY DEF RenamesFit
    <2>1. at[d] = "renaming" /\ d # c BY <1>1
    <2>2. pending = target[d] /\ lockout = 0 /\ Cardinality(Within(past)) < MaxRenames
        BY <2>1 DEF Steady, RenamesFit
    <2>3. pending' = pending BY <2>1, <2>2 DEF Steady, Distinct, InFlight
    <2> QED BY <1>4, <2>2, <2>3
<1>7. Awaited'
    <2> SUFFICES ASSUME NEW d \in Calls, at'[d] \in {"created", "asleep"}, target'[d] = pending'
                 PROVE  left'[d] >= lockout' /\ Cardinality(Counted(left[d])') < MaxRenames
        BY DEF Awaited
    <2>1. at[d] \in {"created", "asleep"} /\ target[d] = pending BY <1>1, <1>2
    <2>2. Counted(left[d])' = Counted(left[d]) BY DEF Counted
    <2> QED BY <2>1, <2>2 DEF Steady, Awaited
<1>8. Replaced' BY <1>1, <1>2 DEF Steady, Replaced, InFlight
<1>9. Bounded' /\ Known' BY <1>4 DEF Steady, Bounded, Known
<1> QED BY <1>3, <1>5, <1>6, <1>7, <1>8, <1>9 DEF Steady

\* An edit that takes effect, with nothing pending afterwards.
LEMMA RenamedSteady ==
    ASSUME TypeOK, Steady, NEW c \in Calls, Busy(c), at' = [at EXCEPT ![c] = "done"], RecordRename(c),
           UNCHANGED <<lockout, target, wanted, failed>>, pending' = None,
           failed \/ target[c] = wanted
    PROVE  Steady'
<1>1. \A d \in Calls : at'[d] = IF d = c THEN "done" ELSE at[d] BY DEF TypeOK
<1>2. \A d \in Calls : target[d] # None BY TitlesAssumption DEF TypeOK
<1>3. \A d \in Calls : ~Busy(d)' BY <1>1 DEF Steady, Alone, Busy
<1>4. Cardinality(Within(past)) < MaxRenames /\ lockout = 0
    BY DEF Steady, EditsFit, RenamesFit, Busy
<1>5. applied' = past' /\ Cardinality(Within(past')) <= MaxRenames
    BY <1>4, RecordFits DEF Steady
<1>6. Bounded' BY <1>4, <1>5 DEF Bounded, Within
<1>7. Alone' /\ EditsFit' /\ RenamesFit' BY <1>3 DEF Alone, EditsFit, RenamesFit, Busy
<1>8. Distinct' BY <1>1 DEF Steady, Distinct, InFlight
<1>9. Awaited' /\ Replaced' /\ Known' BY <1>2 DEF Awaited, Replaced, Known
<1>10. Headed' BY <1>3 DEF Headed, RecordRename, Busy
<1> QED BY <1>6, <1>7, <1>8, <1>9, <1>10 DEF Steady


\* A call of the sync that begins beside no edit and repeats no title.
LEMMA SyncSteady ==
    ASSUME IInv, Steady, NEW c \in Calls, NEW t \in Titles, Sync(c, t), ~raced', ~dropped'
    PROVE  Steady'
<1>1. /\ at[c] = "new" /\ target' = [target EXCEPT ![c] = t] /\ wanted' = t
      /\ UNCHANGED <<name, cached, applied, failed>>
    BY BoundsAssumption DEF IInv, TypeOK, Future, Sync, Calls
<1>2. /\ ~Unsettled /\ ~(CanRename /\ pending # None) /\ ~Repeats(t) /\ cached = name
      /\ \A d \in Calls : ~Busy(d)
    BY DEF Sync, Unsettled, Editing, Busy
<1>3. \A d \in Calls : InFlight(d) => target[d] # t /\ cached # t
    BY <1>2 DEF Repeats, InFlight
<1>4. \A d \in Calls : target'[d] = IF d = c THEN t ELSE target[d] BY <1>1 DEF IInv, TypeOK
<1>5. CASE cached = t
    <2>1. at' = [at EXCEPT ![c] = "done"] /\ UNCHANGED <<past, lockout, pending, left, cancelled>>
        BY <1>5 DEF Sync, limiter
    <2>2. \A d \in Calls : at'[d] = IF d = c THEN "done" ELSE at[d] BY <2>1 DEF IInv, TypeOK
    <2>3. \A d \in Calls : ~InFlight(d)' /\ ~Busy(d)' BY <1>2, <1>3, <1>5, <2>2 DEF InFlight, Busy
    <2>4. pending = None BY <1>3, <1>5 DEF IInv, PendingHasTask, Alive, InFlight
    <2>5. Alone' /\ Distinct' /\ EditsFit' /\ RenamesFit' /\ Awaited' /\ Replaced'
        BY <2>3 DEF Alone, Distinct, EditsFit, RenamesFit, Awaited, Replaced, Busy, InFlight
    <2>6. Bounded' BY <1>1, <2>1 DEF Steady, Bounded, Within
    <2>7. Known' /\ Headed' BY <1>1, <1>2, <1>5, <2>1, <2>3, <2>4 DEF Known, Headed, Busy
    <2> QED BY <2>5, <2>6, <2>7 DEF Steady
<1>6. CASE cached # t /\ CanRename
    <2>1. at' = [at EXCEPT ![c] = "editing"] /\ UNCHANGED <<past, lockout, pending, left, cancelled>>
        BY <1>6 DEF Sync, limiter
    <2>2. \A d \in Calls : at'[d] = IF d = c THEN "editing" ELSE at[d] BY <2>1 DEF IInv, TypeOK
    <2>3. /\ pending = None /\ lockout = 0 /\ Cardinality(Within(past)) < MaxRenames
          /\ Within(past)' = Within(past)
        BY <1>2, <1>6, <2>1 DEF CanRename, Within
    <2>4. \A d \in Calls : /\ Busy(d)' <=> d = c
                           /\ InFlight(d)' <=> InFlight(d) /\ d # c
        BY <1>1, <1>2, <2>2 DEF Busy, InFlight
    <2>5. Alone' BY <2>4 DEF Alone
    <2>6. Distinct' BY <1>4, <2>4 DEF Steady, Distinct
    <2>7. EditsFit'
        <3> SUFFICES ASSUME NEW d \in Calls, at'[d] = "editing"
                     PROVE  /\ pending' = None /\ lockout' = 0
                            /\ Cardinality(Within(past)') < MaxRenames
                            /\ cached' = name' /\ target'[d] # name'
                            /\ \A e \in Calls : InFlight(e)' => target'[e] # target'[d]
            BY DEF EditsFit
        <3>1. d = c BY <2>4 DEF Busy
        <3> QED BY <1>1, <1>2, <1>3, <1>4, <1>6, <2>1, <2>3, <2>4, <3>1
    <2>8. RenamesFit' BY <2>2, <2>4 DEF RenamesFit, Busy
    <2>9. Awaited' /\ Replaced'
        <3>1. \A d \in Calls : target'[d] # pending' BY <1>4, <2>1, <2>3, TitlesAssumption DEF IInv, TypeOK
        <3> QED BY <3>1 DEF Awaited, Replaced
    <2>10. Bounded' BY <1>1, <2>1, <2>3 DEF Steady, Bounded
    <2>11. Known' /\ Headed' BY <1>1, <1>2, <1>4, <2>2 DEF Known, Headed
    <2> QED BY <2>5, <2>6, <2>7, <2>8, <2>9, <2>10, <2>11 DEF Steady
<1>7. CASE cached # t /\ ~CanRename
    <2>1. PICK w \in Cooldown : Defer(c, t, w) BY <1>7 DEF Sync
    <2>2. w \in Nat /\ w >= lockout /\ Cardinality(Counted(w)) < MaxRenames
        BY <1>7, <2>1, CooldownFits DEF IInv, Steady
    <2>3. UNCHANGED <<past, lockout>> BY <1>7 DEF Sync
    <2>4. lockout' \in Nat /\ (lockout' > 0 => Cardinality(Within(past)) < MaxRenames)
        BY <2>3 DEF IInv, TypeOK, Steady, Bounded
    <2> QED BY <1>1, <1>2, <1>3, <2>1, <2>2, <2>3, <2>4, DeferSteady DEF IInv
<1> QED BY <1>5, <1>6, <1>7

\* A 429: the title is deferred while the window has room.
LEMMA LimitedSteady ==
    ASSUME IInv, Steady, NEW c \in Calls, EditLimited(c)
    PROVE  Steady'
<1>1. /\ at[c] = "editing" /\ pending = None /\ lockout = 0
      /\ Cardinality(Within(past)) < MaxRenames /\ cached = name /\ target[c] # name
      /\ \A d \in Calls : InFlight(d) => target[d] # target[c]
    BY DEF EditLimited, Steady, EditsFit
<1>2. PICK b \in {RetryAfter, Window} : lockout' = b /\ Defer(c, target[c], b)
    BY <1>1 DEF EditLimited
<1>3. UNCHANGED <<name, cached, past, target, applied, failed, wanted>> BY DEF EditLimited, ghosts
<1>4. b \in Nat /\ target[c] \in Titles /\ target' = [target EXCEPT ![c] = target[c]]
    BY <1>3, BoundsAssumption DEF IInv, TypeOK
<1>5. \A d \in Calls : Busy(d) => d = c BY <1>1 DEF Steady, Alone, Busy
<1>6. Cardinality(Counted(b)) < MaxRenames
    <2>1. /\ Cardinality(Counted(b)) <= Cardinality(Within(past))
          /\ Cardinality(Counted(b)) \in Nat /\ Cardinality(Within(past)) \in Nat
        BY <1>4, CountedIsWithin DEF IInv
    <2> QED BY <1>1, <2>1, BoundsAssumption
<1>7. failed \/ wanted' = target[c]
    <2>1. pending # wanted BY <1>1, TitlesAssumption DEF IInv, TypeOK
    <2>2. CASE \E e \in Calls : at[e] = "editing" /\ target[e] = wanted
        BY <1>3, <1>5, <2>2 DEF Busy
    <2> QED BY <1>1, <2>1, <2>2 DEF Steady, Headed
<1>8. b >= lockout' BY <1>2, <1>4
<1> QED BY <1>1, <1>2, <1>3, <1>4, <1>5, <1>6, <1>7, <1>8, DeferSteady DEF IInv

\* A deferred task wakes.
LEMMA WakeSteady ==
    ASSUME IInv, Steady, NEW c \in Calls, TaskWake(c), ~raced'
    PROVE  Steady'
<1>1. /\ at[c] = "asleep" /\ left[c] = 0 /\ InFlight(c) /\ lockout \in Nat
      /\ UNCHANGED <<name, cached, past, applied, lockout, target, left, cancelled, wanted, failed>>
    BY DEF TaskWake, InFlight, IInv, TypeOK
<1>2. CASE pending # target[c] \/ cached = target[c]
    <2>1. at' = [at EXCEPT ![c] = "done"] /\ pending' = IF pending = target[c] THEN None ELSE pending
        BY <1>2 DEF TaskWake, Finally
    <2>2. \A d \in Calls : at'[d] = "editing" <=> at[d] = "editing" BY <1>1, <2>1 DEF IInv, TypeOK
    <2>3. Headed'
        <3>1. CASE pending # target[c]
            BY <1>1, <2>1, <2>2, <3>1 DEF Steady, Headed
        <3>2. CASE pending = target[c]
            <4>1. pending # None /\ cached = name /\ name = target[c] /\ pending' = None
                BY <1>2, <2>1, <3>2, TitlesAssumption DEF IInv, TypeOK, Steady, Known
            <4>2. \A d \in Calls : at[d] # "editing" BY <4>1 DEF Steady, EditsFit
            <4> QED BY <1>1, <2>2, <3>2, <4>1, <4>2 DEF Steady, Headed
        <3> QED BY <3>1, <3>2
    <2> QED BY <1>1, <2>1, <2>3, DoneSteady DEF IInv
<1>3. CASE ~(pending # target[c] \/ cached = target[c])
    <2>1. at' = [at EXCEPT ![c] = "renaming"] /\ pending' = pending /\ ~Unsettled
        BY <1>3 DEF TaskWake
    <2>2. \A d \in Calls : at'[d] = IF d = c THEN "renaming" ELSE at[d] BY <2>1 DEF IInv, TypeOK
    <2>3. \A d \in Calls : (Busy(d)' <=> d = c) /\ (InFlight(d)' <=> InFlight(d))
        BY <1>1, <2>1, <2>2 DEF Unsettled, Editing, Busy, InFlight
    <2>4. lockout = 0 /\ Cardinality(Within(past)) < MaxRenames
        <3>1. left[c] >= lockout /\ Cardinality(Counted(left[c])) < MaxRenames
            BY <1>1, <1>3 DEF Steady, Awaited
        <3>2. Counted(0) = Within(past) BY CountedIsWithin DEF IInv
        <3> QED BY <1>1, <3>1, <3>2
    <2>5. Alone' /\ EditsFit' BY <2>2, <2>3 DEF Alone, EditsFit, Busy
    <2>6. Distinct' /\ Replaced' BY <1>1, <2>1, <2>3 DEF Steady, Distinct, Replaced
    <2>7. Within(past)' = Within(past) BY <1>1 DEF Within
    <2>8. RenamesFit'
        <3>1. \A d \in Calls : at'[d] = "renaming" => d = c BY <2>3 DEF Busy
        <3> QED BY <1>1, <1>3, <2>1, <2>4, <2>7, <3>1 DEF RenamesFit
    <2>9. Awaited'
        <3> SUFFICES ASSUME NEW d \in Calls, at'[d] \in {"created", "asleep"}, target'[d] = pending'
                     PROVE  left'[d] >= lockout' /\ Cardinality(Counted(left[d])') < MaxRenames
            BY DEF Awaited
        <3>1. Counted(left[d])' = Counted(left[d]) BY <1>1 DEF Counted
        <3>2. at[d] \in {"created", "asleep"} /\ target[d] = pending BY <1>1, <2>1, <2>2
        <3> QED BY <1>1, <3>1, <3>2 DEF Steady, Awaited
    <2>10. Bounded' /\ Known' BY <1>1, <2>1, <2>7 DEF Steady, Bounded, Known
    <2>11. Headed'
        <3>1. pending # None BY <1>3, TitlesAssumption DEF IInv, TypeOK
        <3>2. \A d \in Calls : at[d] # "editing" BY <3>1 DEF Steady, EditsFit
        <3> QED BY <1>1, <2>1, <3>1, <3>2 DEF Steady, Headed
    <2> QED BY <2>5, <2>6, <2>8, <2>9, <2>10, <2>11 DEF Steady
<1> QED BY <1>2, <1>3

\* Time passes: what is counted at the end of a wait is counted at the end of the rest.
LEMMA TickSteady ==
    ASSUME IInv, Steady, Tick
    PROVE  Steady'
<1>1. /\ UNCHANGED <<name, cached, pending, at, target, cancelled, wanted, failed>>
      /\ past' = Older(past) /\ applied' = Older(applied) /\ lockout' = Less(lockout)
      /\ lockout \in Nat /\ past \in [Calls -> 0..Window]
    BY DEF Tick, IInv, TypeOK
<1>2. \A e \in Calls : past'[e] < Window => past[e] < Window /\ past'[e] = past[e] + 1
    BY <1>1, BoundsAssumption DEF Older
<1>3. Within(past)' \subseteq Within(past) BY <1>2 DEF Within
<1>4. /\ Cardinality(Within(past)') <= Cardinality(Within(past))
      /\ Cardinality(Within(past)') \in Nat /\ Cardinality(Within(past)) \in Nat
    <2>1. Within(past) \subseteq Calls /\ Within(past)' \subseteq Calls BY DEF Within
    <2> QED BY <1>3, <2>1, CallsCount
<1>5. lockout' \in Nat /\ lockout' <= lockout /\ (lockout' > 0 => lockout' = lockout - 1)
      /\ (lockout = 0 => lockout' = 0)
    BY <1>1 DEF Less
<1>6. Alone' /\ Distinct' /\ Replaced' /\ Known' /\ Headed'
    BY <1>1 DEF Steady, Alone, Distinct, Replaced, Known, Headed, Busy, InFlight
<1>7. EditsFit' BY <1>1, <1>4, <1>5, BoundsAssumption DEF Steady, EditsFit, InFlight
<1>8. RenamesFit' BY <1>1, <1>4, <1>5, BoundsAssumption DEF Steady, RenamesFit
<1>9. Bounded' BY <1>1, <1>4, <1>5, BoundsAssumption DEF Steady, Bounded
<1>10. Awaited'
    <2> SUFFICES ASSUME NEW d \in Calls, at'[d] \in {"created", "asleep"}, target'[d] = pending'
                 PROVE  left'[d] >= lockout' /\ Cardinality(Counted(left[d])') < MaxRenames
        BY DEF Awaited
    <2>1. at[d] = "asleep" /\ left[d] \in Nat /\ left[d] # 0 /\ left'[d] = left[d] - 1
        BY <1>1 DEF Tick, Ready, Less, IInv, TypeOK
    <2>2. left[d] >= lockout /\ Cardinality(Counted(left[d])) < MaxRenames
        BY <1>1, <2>1 DEF Steady, Awaited
    <2>3. Counted(left[d])' \subseteq Counted(left[d])
        <3> SUFFICES ASSUME NEW e \in Calls, past'[e] + left'[d] < Window
                     PROVE  past[e] + left[d] < Window
            BY DEF Counted
        <3>1. past'[e] \in Nat /\ past[e] \in Nat BY <1>1, BoundsAssumption DEF Older
        <3>2. past'[e] < Window BY <2>1, <3>1, BoundsAssumption
        <3> QED BY <1>2, <2>1, <3>1, <3>2, BoundsAssumption
    <2>4. /\ Cardinality(Counted(left[d])') <= Cardinality(Counted(left[d]))
          /\ Cardinality(Counted(left[d])') \in Nat /\ Cardinality(Counted(left[d])) \in Nat
        <3>1. Counted(left[d]) \subseteq Calls /\ Counted(left[d])' \subseteq Calls BY DEF Counted
        <3> QED BY <2>3, <3>1, CallsCount
    <2> QED BY <1>1, <1>5, <2>1, <2>2, <2>4, BoundsAssumption
<1> QED BY <1>6, <1>7, <1>8, <1>9, <1>10 DEF Steady


\* The edit of a call, and the steps of a deferred task that has woken or is cancelled.
LEMMA CallSteady ==
    ASSUME IInv, Steady, NEW c \in Calls,
           EditOK(c) \/ EditFails(c) \/ TaskStart(c) \/ TaskRenamed(c) \/ TaskFails(c) \/ TaskCancelled(c)
    PROVE  Steady'
<1>1. target[c] # None /\ wanted # None BY TitlesAssumption DEF IInv, TypeOK
<1>2. CASE EditOK(c)
    <2>1. /\ at[c] = "editing" /\ at' = [at EXCEPT ![c] = "done"] /\ RecordRename(c) /\ Busy(c)
          /\ UNCHANGED <<lockout, target, wanted, failed, pending>>
        BY <1>2 DEF EditOK, Busy
    <2>2. pending = None BY <2>1 DEF Steady, EditsFit
    <2>3. \A e \in Calls : at[e] = "editing" => e = c BY <2>1 DEF Steady, Alone, Busy
    <2>4. failed \/ target[c] = wanted BY <1>1, <2>1, <2>2, <2>3 DEF Steady, Headed
    <2> QED BY <2>1, <2>2, <2>4, RenamedSteady DEF IInv
<1>3. CASE EditFails(c)
    BY <1>3, DoneSteady DEF EditFails, limiter, IInv, Headed
<1>4. CASE TaskStart(c)
    <2>1. /\ at[c] = "created" /\ at' = [at EXCEPT ![c] = "asleep"]
          /\ UNCHANGED <<name, cached, past, lockout, pending, target, left, cancelled, wanted, applied, failed>>
        BY <1>4 DEF TaskStart, limiter, ghosts
    <2>2. \A d \in Calls : at'[d] = IF d = c THEN "asleep" ELSE at[d] BY <2>1 DEF IInv, TypeOK
    <2>3. \A d \in Calls : /\ Busy(d)' <=> Busy(d)
                           /\ InFlight(d)' <=> InFlight(d)
                           /\ at'[d] = "editing" <=> at[d] = "editing"
                           /\ at'[d] = "renaming" <=> at[d] = "renaming"
                           /\ at'[d] \in {"created", "asleep"} <=> at[d] \in {"created", "asleep"}
        BY <2>1, <2>2 DEF Busy, InFlight
    <2>4. Within(past)' = Within(past) /\ \A d \in Calls : Counted(left[d])' = Counted(left[d])
        BY <2>1 DEF Within, Counted
    <2>5. Alone' /\ Distinct' /\ Replaced' /\ Known' /\ Headed'
        BY <2>1, <2>3 DEF Steady, Alone, Distinct, Replaced, Known, Headed
    <2>6. EditsFit' BY <2>1, <2>3, <2>4 DEF Steady, EditsFit
    <2>7. RenamesFit' /\ Bounded' BY <2>1, <2>3, <2>4 DEF Steady, RenamesFit, Bounded
    <2>8. Awaited' BY <2>1, <2>3, <2>4 DEF Steady, Awaited
    <2> QED BY <2>5, <2>6, <2>7, <2>8 DEF Steady
<1>5. CASE TaskRenamed(c)
    <2>1. /\ at[c] = "renaming" /\ at' = [at EXCEPT ![c] = "done"] /\ RecordRename(c) /\ Busy(c)
          /\ UNCHANGED <<lockout, target, wanted, failed>>
          /\ pending' = IF pending = target[c] THEN None ELSE pending
        BY <1>5 DEF TaskRenamed, Finally, Busy
    <2>2. pending = target[c] /\ pending' = None BY <2>1 DEF Steady, RenamesFit
    <2>3. \A e \in Calls : at[e] # "editing" BY <2>1 DEF Steady, Alone, Busy
    <2>4. failed \/ target[c] = wanted BY <1>1, <2>2, <2>3 DEF Steady, Headed
    <2> QED BY <2>1, <2>2, <2>4, RenamedSteady DEF IInv
<1>6. CASE TaskFails(c)
    <2>1. /\ InFlight(c) /\ at' = [at EXCEPT ![c] = "done"] /\ failed' = TRUE
          /\ UNCHANGED <<name, cached, past, applied, lockout, target, left, cancelled>>
          /\ pending' = IF pending = target[c] THEN None ELSE pending
        BY <1>6 DEF TaskFails, Finally, InFlight
    <2> QED BY <2>1, DoneSteady DEF IInv, Headed
<1>7. CASE TaskCancelled(c)
    <2>1. target[c] # pending /\ at[c] = "asleep"
        BY <1>7 DEF TaskCancelled, Steady, Replaced, RenamesFit, InFlight
    <2>2. /\ at' = [at EXCEPT ![c] = "done"] /\ pending' = pending
          /\ UNCHANGED <<name, cached, past, applied, lockout, target, left, cancelled, wanted, failed>>
        BY <1>7, <2>1 DEF TaskCancelled, Finally
    <2>3. \A d \in Calls : at'[d] = "editing" <=> at[d] = "editing" BY <2>1, <2>2 DEF IInv, TypeOK
    <2>4. Headed' BY <2>2, <2>3 DEF Steady, Headed
    <2> QED BY <2>2, <2>4, DoneSteady DEF IInv
<1> QED BY <1>2, <1>3, <1>4, <1>5, <1>6, <1>7

\* Every step that neither overlaps nor repeats keeps the limiter steady.
LEMMA StaysCalm == Spec => []Calm
<1>1. Init => Calm
    <2> SUFFICES ASSUME Init PROVE Steady
        BY DEF Calm
    <2>1. Within(past) = {} BY BoundsAssumption DEF Init, Within
    <2>2. Cardinality(Within(past)) = 0 BY <2>1, FS_EmptySet
    <2>3. Bounded BY <2>2, BoundsAssumption DEF Init, Bounded
    <2>4. \A c \in Calls : ~Busy(c) /\ ~InFlight(c) BY DEF Init, Busy, InFlight
    <2>5. Alone /\ Distinct /\ EditsFit /\ RenamesFit /\ Awaited /\ Replaced
        BY <2>4 DEF Alone, Distinct, EditsFit, RenamesFit, Awaited, Replaced, Busy, InFlight
    <2>6. Known /\ Headed BY DEF Init, Known, Headed
    <2> QED BY <2>3, <2>5, <2>6 DEF Steady
<1>2. IInv /\ Calm /\ [Next]_vars => Calm'
    <2> SUFFICES ASSUME IInv, Calm, [Next]_vars, ~raced', ~dropped'
                 PROVE  Steady'
        BY DEF Calm
    <2>1. ASSUME NEW c \in Calls, NEW t \in Titles, Sync(c, t) PROVE Steady'
        <3>1. ~raced /\ ~dropped BY <2>1 DEF Sync
        <3> QED BY <2>1, <3>1, SyncSteady DEF Calm
    <2>2. ASSUME NEW c \in Calls, EditLimited(c) PROVE Steady'
        BY <2>2, LimitedSteady DEF Calm, EditLimited, ghosts
    <2>3. ASSUME NEW c \in Calls, TaskWake(c) PROVE Steady'
        <3>1. ~raced /\ ~dropped BY <2>3 DEF TaskWake
        <3> QED BY <2>3, <3>1, WakeSteady DEF Calm
    <2>4. ASSUME NEW c \in Calls,
                 EditOK(c) \/ EditFails(c) \/ TaskStart(c) \/ TaskRenamed(c) \/ TaskFails(c)
                     \/ TaskCancelled(c)
          PROVE  Steady'
        <3>1. ~raced /\ ~dropped
            BY <2>4 DEF EditOK, EditFails, TaskStart, TaskRenamed, TaskFails, TaskCancelled, ghosts
        <3> QED BY <2>4, <3>1, CallSteady DEF Calm
    <2>5. CASE GatewayUpdate
        <3>1. ~raced /\ ~dropped /\ cached # name BY <2>5 DEF GatewayUpdate, ghosts
        <3>2. Steady /\ pending = None /\ \A c \in Calls : at[c] # "editing"
            BY <3>1 DEF Calm, Steady, Known, EditsFit
        <3>3. UNCHANGED <<name, past, applied, lockout, pending, at, target, left, cancelled, wanted, failed>>
            BY <2>5 DEF GatewayUpdate, limiter, calls, ghosts
        <3>4. Alone' /\ Distinct' /\ EditsFit' /\ RenamesFit' /\ Replaced'
            BY <3>2, <3>3 DEF Steady, Alone, Distinct, EditsFit, RenamesFit, Replaced, Busy, InFlight,
                              Within
        <3>5. Awaited' /\ Bounded' /\ Known' /\ Headed'
            BY <3>2, <3>3 DEF Steady, Awaited, Bounded, Known, Headed, Within, Counted
        <3> QED BY <3>4, <3>5 DEF Steady
    <2>6. CASE Tick
        BY <2>6, TickSteady DEF Tick, Calm
    <2>7. CASE UNCHANGED vars
        <3>1. Steady BY <2>7 DEF Calm, vars, ghosts
        <3> QED BY <2>7, <3>1 DEF vars, limiter, calls, ghosts, Steady, Alone, Distinct, EditsFit,
                                  RenamesFit, Awaited, Replaced, Bounded, Known, Headed, Busy,
                                  InFlight, Within, Counted
    <2> QED BY <2>1, <2>2, <2>3, <2>4, <2>5, <2>6, <2>7 DEF Next
<1> QED BY <1>1, <1>2, InvariantHolds, PTL DEF Spec

\* Discord's limit is kept for any window and any limit, by edits that run at once and by
\* edits deferred, unless edits overlap or a title is asked for while a task stands for it.
THEOREM LimitKept == Spec => []WindowRespected
<1>1. Calm => WindowRespected
    BY DEF Calm, Steady, Bounded, WindowRespected
<1> QED BY <1>1, StaysCalm, PTL

\* Under the same conditions, and if no edit fails, the thread ends up with the title its
\* task was last synced with.
THEOREM TitleArrives == Spec => []TitleSettlesUnlessDropped
<1>1. IInv /\ Calm => TitleSettlesUnlessDropped
    <2> SUFFICES ASSUME IInv, Calm, ~dropped, ~raced, ~failed, Settled PROVE name = wanted
        BY DEF TitleSettlesUnlessDropped, TitleSettles
    <2>1. \A c \in Calls : at[c] \in {"new", "done"} BY DEF Settled
    <2>2. pending = None BY <2>1 DEF IInv, PendingHasTask, Alive
    <2>3. wanted # None BY TitlesAssumption DEF IInv, TypeOK
    <2> QED BY <2>1, <2>2, <2>3 DEF Calm, Steady, Headed
<1> QED BY <1>1, InvariantHolds, StaysCalm, PTL

-----------------------------------------------------------------------------
(* The cards.                                                              *)

-----------------------------------------------------------------------------
(* The invariant, per user.                                                *)

\* Until its first write a save compares with the task the panel was opened on.
Unwritten(u) == form[u].at \in Fields /\ form[u].wrote = {} => form[u].cur = form[u].snap

\* What was not edited is drafted as it was read, and who is staged was eligible when
\* the squads last changed.
Drafted(u) ==
    form[u].at \in Fields \cup {"controls"} =>
        /\ \A f \in Fields \ form[u].edited : form[u].draft[f] = form[u].snap.val[f]
        /\ \/ form[u].moved \/ Eligible(form[u].draft.who)
           \/ form[u].draft.who = form[u].snap.val.who

\* Who starts or completes a task without asking saw nothing that blocks it.
Unblocked(u) ==
    At(u, "pressed") /\ form[u].op \in {"start", "complete"} => form[u].moved \/ Blockers = {}

\* The task a button or a dialog was asked about is the task, or an older version of it.
Read(u) ==
    form[u].at \in {"pressed", "delete"} =>
        /\ form[u].snap.version <= task.version
        /\ form[u].snap.version = task.version =>
              form[u].snap.val = task.val /\ form[u].snap.status = task.status

Claimed(u) == At(u, "pressed") /\ form[u].op = "claim" => form[u].snap.val.who = Nobody

\* Only what was seen as a prerequisite is removed.
Chosen(u) == At(u, "selected") => form[u].drop \subseteq form[u].seen

Panel(u) == Unwritten(u) /\ Drafted(u) /\ Unblocked(u) /\ Read(u) /\ Claimed(u) /\ Chosen(u)

CardsInv == CardsTypeOK /\ \A u \in Users : Panel(u)

-----------------------------------------------------------------------------
(* The forms.                                                              *)

LEMMA NewIsTask == New \in Task /\ New.val \in Val /\ New.version = 1
<1>1. (CHOOSE v \in Values : TRUE) \in Values BY ValuesAssumption
<1>2. New.val \in Val BY <1>1 DEF New, Val, Assignees
<1>3. 1 \in 1..MaxVersion BY ValuesAssumption
<1> QED BY <1>2, <1>3 DEF New, Task, Statuses

LEMMA ClosedIsForm ==
    /\ Closed \in Form /\ Closed.at = "closed" /\ Closed.snap = New
<1> HIDE DEF New, Task, Val
<1> QED BY NewIsTask DEF Closed, Form, Places, Buttons, Panels

LEMMA OpenIsForm ==
    ASSUME CardsTypeOK, NEW u \in Users, NEW place \in Places
    PROVE  LET o == Open(u, place) IN
           /\ o \in Form /\ o.at = place /\ o.snap = task /\ o.cur = task /\ o.draft = task.val
           /\ o.edited = {} /\ o.wrote = {} /\ ~o.moved
<1> HIDE DEF New, Val
<1>1. task \in Task /\ task.val \in Val BY DEF CardsTypeOK, Task
<1> HIDE DEF Task
<1> QED BY <1>1, NewIsTask DEF Open, Closed, Form, Places, Buttons, Panels

-----------------------------------------------------------------------------
(* What a step does to the task and to the others.                         *)

Grows ==
    /\ task'.version >= task.version
    /\ task'.version = task.version => task'.val = task.val /\ task'.status = task.status

Engaged(v) == form[v].at \in {"pressed", "controls"} \cup Fields

Spares(v) ==
    \/ form'[v] = form[v] /\ (Engaged(v) => squad' = squad /\ Blockers' \subseteq Blockers)
    \/ form'[v] = [form[v] EXCEPT !.moved = TRUE]

LEMMA SparedPanel ==
    ASSUME CardsInv, task' \in Task, Grows, NEW v \in Users, Spares(v)
    PROVE  Panel(v)'
<1> USE DEF CardsInv
<1>1. /\ form[v] \in Form /\ task \in Task /\ form[v].snap.version \in Int /\ task.version \in Int
      /\ task'.version \in Int
  BY DEF CardsTypeOK, Form, Task
<1>2. CASE form'[v] = form[v] /\ (Engaged(v) => squad' = squad /\ Blockers' \subseteq Blockers)
  <2>1. Unwritten(v)' /\ Claimed(v)' /\ Chosen(v)' BY <1>2 DEF Panel, Unwritten, Claimed, Chosen, At
  <2>2. Drafted(v)' BY <1>2 DEF Panel, Drafted, Engaged, Eligible
  <2>3. Unblocked(v)' BY <1>2 DEF Panel, Unblocked, Engaged, At
  <2>4. Read(v)'
    <3> SUFFICES ASSUME form[v].at \in {"pressed", "delete"} PROVE Read(v)' BY <1>2 DEF Read
    <3> QED BY <1>1, <1>2 DEF Panel, Read, Grows
  <2> QED BY <2>1, <2>2, <2>3, <2>4 DEF Panel
<1>3. CASE form'[v] = [form[v] EXCEPT !.moved = TRUE]
  <2> DEFINE f == form[v]  g == form'[v]
  <2>1. /\ g.at = f.at /\ g.op = f.op /\ g.snap = f.snap /\ g.cur = f.cur /\ g.draft = f.draft
        /\ g.edited = f.edited /\ g.wrote = f.wrote /\ g.seen = f.seen /\ g.drop = f.drop /\ g.moved
    <3> HIDE DEF Task, Val
    <3> QED BY <1>1, <1>3 DEF Form
  <2> HIDE DEF f, g
  <2>2. /\ Unwritten(v)' /\ Claimed(v)' /\ Chosen(v)' /\ Drafted(v)' /\ Unblocked(v)'
    BY <2>1 DEF f, g, Panel, Unwritten, Claimed, Chosen, Drafted, Unblocked, At
  <2>3. Read(v)'
    <3> SUFFICES ASSUME form[v].at \in {"pressed", "delete"} PROVE Read(v)' BY <2>1 DEF f, g, Read
    <3> QED BY <1>1, <2>1 DEF f, g, Panel, Read, Grows
  <2> QED BY <2>2, <2>3 DEF Panel
<1> QED BY <1>2, <1>3 DEF Spares

\* A step of u that changes one form.
LEMMA SetForm ==
    ASSUME CardsTypeOK, NEW u \in Users, NEW f \in Form, Set(u, f)
    PROVE  form' \in [Users -> Form] /\ form'[u] = f /\ \A v \in Users \ {u} : form'[v] = form[v]
BY DEF CardsTypeOK, Set

\* A step of u that also makes what the others read older.
LEMMA OvertakeForms ==
    ASSUME CardsTypeOK, NEW u
    PROVE  /\ Overtake(u) \in [Users -> Form]
           /\ u \in Users => Overtake(u)[u] = form[u]
           /\ \A v \in Users \ {u} : \/ ~Engaged(v) /\ Overtake(u)[v] = form[v]
                                     \/ Overtake(u)[v] = [form[v] EXCEPT !.moved = TRUE]
<1>1. \A v \in Users : [form[v] EXCEPT !.moved = TRUE] \in Form BY DEF CardsTypeOK, Form
<1> QED BY <1>1 DEF CardsTypeOK, Overtake, Engaged

\* A handler that has written draws the card and is done with the rest.
LEMMA DrawsForm ==
    ASSUME CardsTypeOK, NEW u \in Users, NEW t, t.status \in Statuses, Draws(u, t)
    PROVE  /\ form' \in [Users -> Form] /\ form'[u].at = "refresh"
           /\ \A v \in Users \ {u} : form'[v] = form[v]
<1> DEFINE c == [Closed EXCEPT !.at = "refresh", !.snap.status = t.status]
<1>1. c \in Form /\ c.at = "refresh"
  <2>1. [New EXCEPT !.status = t.status] \in Task BY NewIsTask DEF Task
  <2>2. Closed.snap = New BY ClosedIsForm
  <2> HIDE DEF New, Task, Val
  <2> QED BY <2>1, <2>2, NewIsTask DEF Closed, Form, Places, Buttons, Panels
<1> QED BY <1>1 DEF Draws, Set, CardsTypeOK

\* A handler at rest, or drawing the card, has nothing to keep.
LEMMA RestingPanel ==
    ASSUME NEW u \in Users, form'[u].at \in {"closed", "refresh", "blocked", "deps"}
    PROVE  Panel(u)'
BY DEF Panel, Unwritten, Drafted, Unblocked, Read, Claimed, Chosen, At, Fields

-----------------------------------------------------------------------------
(* The steps.                                                              *)

Kept(u) == CardsTypeOK' /\ Grows /\ Panel(u)' /\ \A v \in Users \ {u} : Spares(v)

\* A step that changes only the form of u.
LEMMA FormStep ==
    ASSUME CardsInv, NEW u \in Users, NEW f \in Form, Set(u, f), UNCHANGED Rows, Panel(u)'
    PROVE  Kept(u)
<1> USE DEF CardsInv, Rows
<1>1. CardsTypeOK' BY SetForm DEF CardsTypeOK
<1>2. Grows BY DEF Grows, CardsTypeOK, Task
<1>3. \A v \in Users \ {u} : Spares(v) BY SetForm DEF Spares, Blockers
<1> QED BY <1>1, <1>2, <1>3 DEF Kept

\* A step that writes the task and changes only the form of u.
LEMMA WriteStep ==
    ASSUME CardsInv, NEW u \in Users, task' \in Task, Grows, Panel(u)',
           edges' \subseteq edges, UNCHANGED <<done, squad, card>>, form' \in [Users -> Form],
           \A v \in Users \ {u} : form'[v] = form[v]
    PROVE  Kept(u)
<1> USE DEF CardsInv
<1>1. CardsTypeOK' BY DEF CardsTypeOK
<1>2. \A v \in Users \ {u} : Spares(v) BY DEF Spares, Blockers
<1> QED BY <1>1, <1>2 DEF Kept

LEMMA PressedKept ==
    ASSUME CardsInv, NEW u \in Users, NEW b \in Buttons, NEW v \in Val,
           NEW place \in {"pressed", "blocked"}, Pressed(u, b, v, place), UNCHANGED Rows,
           b \in {"start", "complete"} /\ place = "pressed" => Blockers = {},
           b = "claim" => task.val.who = Nobody
    PROVE  Kept(u)
<1> DEFINE o == Open(u, place)  f == [o EXCEPT !.op = b, !.draft = v]
<1>1. place \in Places BY DEF Places
<1>2. o \in Form /\ o.at = place /\ o.snap = task BY <1>1, OpenIsForm DEF CardsInv
<1> HIDE DEF o
<1>3. f \in Form /\ f.at = place /\ f.op = b /\ f.snap = task
  <2> DEFINE g == [o EXCEPT !.op = b]
  <2> HIDE DEF Task, Val
  <2>1. g \in Form /\ g.at = place /\ g.op = b /\ g.snap = task BY <1>2 DEF Form
  <2>2. f = [g EXCEPT !.draft = v] OBVIOUS
  <2> HIDE DEF f, g
  <2> QED BY <2>1, <2>2 DEF Form
<1>4. Set(u, f) BY DEF Pressed, o
<1> HIDE DEF f
<1>5. form'[u] = f BY <1>3, <1>4, SetForm DEF CardsInv
<1>6. task' = task /\ Blockers' = Blockers BY DEF Rows, Blockers
<1>7. Panel(u)'
  <2>1. Unwritten(u)' /\ Drafted(u)' /\ Chosen(u)'
    BY <1>3, <1>5 DEF Unwritten, Drafted, Chosen, At, Fields
  <2>2. Read(u)'
    <3>1. task.version \in Int BY DEF CardsInv, CardsTypeOK, Task
    <3> QED BY <1>3, <1>5, <1>6, <3>1 DEF Read
  <2>3. Unblocked(u)' /\ Claimed(u)' BY <1>3, <1>5, <1>6 DEF Unblocked, Claimed, At
  <2> QED BY <2>1, <2>2, <2>3 DEF Panel
<1> QED BY <1>3, <1>4, <1>7, FormStep

LEMMA ValueKept ==
    ASSUME CardsInv
    PROVE  /\ task.val \in Val
           /\ \A w \in Assignees : [task.val EXCEPT !.who = w] \in Val
           /\ \A w \in Values : [task.val EXCEPT !.prio = w] \in Val /\ [task.val EXCEPT !.text = w] \in Val
BY DEF CardsInv, CardsTypeOK, Task, Val

LEMMA ButtonsKept ==
    ASSUME CardsInv, NEW u \in Users,
           \/ \E b \in {"start", "complete", "notstarted", "reopen"} : PressStatus(u, b)
           \/ Claim(u) \/ Assign(u) \/ Prioritize(u) \/ Update(u)
    PROVE  Kept(u)
<1> USE DEF Buttons, Panels
<1>1. ASSUME NEW b \in {"start", "complete", "notstarted", "reopen"}, PressStatus(u, b) PROVE Kept(u)
  <2>1. CASE MustConfirm(b)
    <3>1. Pressed(u, b, task.val, "blocked") /\ UNCHANGED Rows BY <1>1, <2>1 DEF PressStatus
    <3> QED BY <3>1, PressedKept, ValueKept
  <2>2. CASE ~MustConfirm(b)
    <3>1. Pressed(u, b, task.val, "pressed") /\ UNCHANGED Rows BY <1>1, <2>2 DEF PressStatus
    <3>2. b \in {"start", "complete"} => Blockers = {} BY <2>2 DEF MustConfirm
    <3> QED BY <3>1, <3>2, PressedKept, ValueKept
  <2> QED BY <2>1, <2>2
<1>2. CASE Claim(u)
  <2>1. /\ Pressed(u, "claim", [task.val EXCEPT !.who = u], "pressed") /\ UNCHANGED Rows
        /\ task.val.who = Nobody
    BY <1>2 DEF Claim
  <2>2. [task.val EXCEPT !.who = u] \in Val BY ValueKept DEF Assignees
  <2> QED BY <2>1, <2>2, PressedKept
<1>3. CASE Assign(u)
  <2>1. PICK w \in Assignees : Pressed(u, "who", [task.val EXCEPT !.who = w], "pressed")
    BY <1>3 DEF Assign
  <2>2. UNCHANGED Rows BY <1>3 DEF Assign
  <2> QED BY <2>1, <2>2, PressedKept, ValueKept
<1>4. CASE Prioritize(u)
  <2>1. PICK w \in Values : Pressed(u, "prio", [task.val EXCEPT !.prio = w], "pressed")
    BY <1>4 DEF Prioritize
  <2>2. UNCHANGED Rows BY <1>4 DEF Prioritize
  <2> QED BY <2>1, <2>2, PressedKept, ValueKept
<1>5. CASE Update(u)
  <2>1. PICK w \in Values : Pressed(u, "text", [task.val EXCEPT !.text = w], "pressed")
    BY <1>5 DEF Update
  <2>2. UNCHANGED Rows BY <1>5 DEF Update
  <2> QED BY <2>1, <2>2, PressedKept, ValueKept
<1> QED BY <1>1, <1>2, <1>3, <1>4, <1>5

LEMMA CloseKept ==
    ASSUME CardsInv, NEW u \in Users, Close(u), UNCHANGED Rows
    PROVE  Kept(u)
<1>1. Set(u, Closed) BY DEF Close
<1>2. form'[u].at = "closed" BY <1>1, ClosedIsForm, SetForm DEF CardsInv
<1> QED BY <1>1, <1>2, ClosedIsForm, RestingPanel, FormStep

LEMMA ClosingKept ==
    ASSUME CardsInv, NEW u \in Users, Refresh(u) \/ Cancel(u)
    PROVE  Kept(u)
<1>1. CASE Cancel(u) BY <1>1, CloseKept DEF Cancel
<1>2. CASE Refresh(u)
  <2>1. Set(u, Closed) /\ form[u].at = "refresh" BY <1>2 DEF Refresh, Close, At
  <2>2. /\ form' \in [Users -> Form] /\ form'[u].at = "closed"
        /\ \A v \in Users \ {u} : form'[v] = form[v]
    BY <2>1, ClosedIsForm, SetForm DEF CardsInv
  <2>3. card' \in Statuses
    BY <1>2, <2>1 DEF Refresh, CardsInv, CardsTypeOK, Form, Task
  <2>4. CardsTypeOK' BY <1>2, <2>2, <2>3 DEF Refresh, CardsInv, CardsTypeOK
  <2>5. Grows BY <1>2 DEF Refresh, Grows, CardsInv, CardsTypeOK, Task
  <2>6. \A v \in Users \ {u} : Spares(v) BY <1>2, <2>2 DEF Refresh, Spares, Blockers
  <2> QED BY <2>2, <2>4, <2>5, <2>6, RestingPanel DEF Kept
<1> QED BY <1>1, <1>2

LEMMA OpensKept ==
    ASSUME CardsInv, NEW u \in Users, OpenDelete(u) \/ OpenControls(u)
    PROVE  Kept(u)
<1>1. PICK place \in {"delete", "controls"} : Set(u, Open(u, place)) /\ UNCHANGED Rows
  BY DEF OpenDelete, OpenControls
<1> DEFINE o == Open(u, place)
<1>2. /\ o \in Form /\ o.at = place /\ o.snap = task /\ o.cur = task /\ o.draft = task.val
      /\ o.edited = {} /\ o.wrote = {} /\ ~o.moved
  BY OpenIsForm DEF Places, CardsInv
<1> HIDE DEF o
<1>3. form'[u] = o BY <1>1, <1>2, SetForm DEF o, CardsInv
<1>4. task.version \in Int /\ task' = task BY <1>1 DEF Rows, CardsInv, CardsTypeOK, Task
<1>5. Panel(u)'
  BY <1>2, <1>3, <1>4 DEF Panel, Unwritten, Drafted, Unblocked, Read, Claimed, Chosen, At, Fields
<1> QED BY <1>1, <1>2, <1>5, FormStep DEF o

\* What a write of a status, or of a field, does to the task.
LEMMA StatusIsTask ==
    ASSUME CardsInv, NEW s \in Statuses, task.version < MaxVersion,
           task' = [task EXCEPT !.status = s, !.version = @ + 1]
    PROVE  task' \in Task /\ Grows /\ task'.status = s
<1> HIDE DEF Val
<1>1. task \in Task /\ task.version \in 1..MaxVersion /\ MaxVersion \in Nat
  BY ValuesAssumption DEF CardsInv, CardsTypeOK, Task
<1>2. task.version + 1 \in 1..MaxVersion BY <1>1
<1> DEFINE m == [task EXCEPT !.status = s]
<1>3. m \in Task /\ m.status = s /\ m.version = task.version BY <1>1 DEF Task
<1>4. task' = [m EXCEPT !.version = task.version + 1] BY <1>1 DEF Task
<1> HIDE DEF m
<1>5. task' \in Task /\ task'.status = s /\ task'.version = task.version + 1
  BY <1>2, <1>3, <1>4 DEF Task
<1> QED BY <1>1, <1>5 DEF Grows

LEMMA PutIsTask ==
    ASSUME CardsInv, NEW f \in Fields, NEW v,
           v \in IF f = "who" THEN Assignees ELSE Values, Put(f, v)
    PROVE  /\ task' \in Task /\ Grows /\ task'.status = task.status
           /\ \A g \in Fields \ {f} : task'.val[g] = task.val[g]
           /\ task'.live
<1>1. task \in Task /\ task.val \in Val /\ task.version \in 1..MaxVersion /\ task.version < MaxVersion
      /\ task.live
  BY DEF CardsInv, CardsTypeOK, Task, Put
<1>2. CASE task' = task BY <1>1, <1>2 DEF Grows, Task
<1>3. CASE task' = [task EXCEPT !.val[f] = v, !.version = @ + 1]
  <2> DEFINE w == [task.val EXCEPT ![f] = v]
  <2>1. w \in Val /\ \A g \in Fields \ {f} : w[g] = task.val[g] BY <1>1 DEF Val, Fields
  <2>2. task.version + 1 \in 1..MaxVersion BY <1>1, ValuesAssumption
  <2>3. task' = [[task EXCEPT !.val = w] EXCEPT !.version = task.version + 1]
    BY <1>1, <1>3 DEF Task
  <2> HIDE DEF w, Val
  <2>4. /\ task' \in Task /\ task'.val = w /\ task'.version = task.version + 1
        /\ task'.status = task.status /\ task'.live = task.live
    BY <1>1, <2>1, <2>2, <2>3 DEF Task
  <2> QED BY <1>1, <2>1, <2>4 DEF Grows
<1> QED BY <1>2, <1>3 DEF Put

LEMMA SetStatusKept ==
    ASSUME CardsInv, NEW u \in Users, SetStatus(u), UNCHANGED <<edges, done, squad, card>>
    PROVE  Kept(u)
<1> USE DEF CardsInv
<1>1. CASE ~CasHolds(form[u].snap) /\ task' = task /\ Close(u)
  BY <1>1, CloseKept DEF Rows
<1>2. CASE Drawn(u) /\ task' \in Task /\ Grows
  <2>1. task'.status \in Statuses BY <1>2 DEF Task
  <2>2. /\ form' \in [Users -> Form] /\ form'[u].at = "refresh"
        /\ \A v \in Users \ {u} : form'[v] = form[v]
    BY <1>2, <2>1, DrawsForm DEF Drawn
  <2> QED BY <1>2, <2>2, RestingPanel, WriteStep
<1>3. Target(form[u].op) \in Statuses BY DEF Target, Statuses
<1>4. task' = task => task' \in Task /\ Grows BY DEF CardsTypeOK, Task, Grows
<1>5. \/ Drawn(u) /\ task' \in Task /\ Grows
      \/ ~CasHolds(form[u].snap) /\ task' = task /\ Close(u)
  BY <1>3, <1>4, StatusIsTask DEF SetStatus
<1> QED BY <1>1, <1>2, <1>5

LEMMA FieldPutKept ==
    ASSUME CardsInv, NEW u \in Users, NEW f \in Fields, Put(f, form[u].draft[f]), Drawn(u),
           UNCHANGED <<edges, done, squad, card>>
    PROVE  Kept(u)
<1>1. form[u].draft \in Val BY DEF CardsInv, CardsTypeOK, Form
<1>2. form[u].draft[f] \in IF f = "who" THEN Assignees ELSE Values BY <1>1 DEF Val, Fields
<1>3. task' \in Task /\ Grows BY <1>2, PutIsTask
<1>4. task'.status \in Statuses BY <1>3 DEF Task
<1>5. /\ form' \in [Users -> Form] /\ form'[u].at = "refresh"
      /\ \A v \in Users \ {u} : form'[v] = form[v]
  BY <1>4, DrawsForm DEF Drawn, CardsInv
<1> QED BY <1>3, <1>5, RestingPanel, WriteStep

LEMMA AppliesKept ==
    ASSUME CardsInv, NEW u \in Users, Apply(u) \/ ConfirmBlocked(u)
    PROVE  Kept(u)
<1>1. UNCHANGED <<edges, done, squad, card>> BY DEF Apply, ConfirmBlocked
<1>2. CASE SetStatus(u) BY <1>1, <1>2, SetStatusKept
<1>3. CASE form[u].op \in Fields \cup {"claim"} /\ SetField(u)
  <2> DEFINE f == IF form[u].op = "claim" THEN "who" ELSE form[u].op
  <2>1. f \in Fields BY <1>3 DEF Fields
  <2>2. \/ Put(f, form[u].draft[f]) /\ Drawn(u)
        \/ UNCHANGED task /\ Close(u)
    BY <1>3 DEF SetField
  <2> HIDE DEF f
  <2> QED BY <1>1, <2>1, <2>2, FieldPutKept, CloseKept DEF Rows
<1> QED BY <1>2, <1>3 DEF Apply, ConfirmBlocked

LEMMA DeleteKept ==
    ASSUME CardsInv, NEW u \in Users, ConfirmDelete(u)
    PROVE  Kept(u)
<1> USE DEF CardsInv, ConfirmDelete
<1>1. task' \in Task /\ Grows
  <2> HIDE DEF Val
  <2>1. task \in Task BY DEF CardsTypeOK
  <2>2. /\ task' \in Task /\ task'.version = task.version /\ task'.val = task.val
        /\ task'.status = task.status
    BY <2>1 DEF Task
  <2>3. task.version \in Int BY <2>1 DEF Task
  <2> QED BY <2>2, <2>3 DEF Grows
<1>2. Set(u, Closed) BY DEF Close
<1>3. form' \in [Users -> Form] /\ form'[u].at = "closed" /\ \A v \in Users \ {u} : form'[v] = form[v]
  BY <1>2, ClosedIsForm, SetForm
<1>4. edges' \subseteq edges OBVIOUS
<1> QED BY <1>1, <1>3, <1>4, RestingPanel, WriteStep

LEMMA StagedKept ==
    ASSUME CardsInv, NEW u \in Users, NEW f \in Fields, NEW v,
           v \in IF f = "who" THEN Assignees ELSE Values, f = "who" => Eligible(v),
           Staged(u, f, v)
    PROVE  Kept(u)
<1> USE DEF CardsInv
<1> DEFINE old == form[u]
           w == [old.draft EXCEPT ![f] = v]
           mid == [old EXCEPT !.draft = w]
           new == [mid EXCEPT !.edited = old.edited \cup {f}]
<1>1. old \in Form /\ old.draft \in Val /\ old.at = "controls" BY DEF CardsTypeOK, Form, Staged, At
<1>2. w \in Val /\ w[f] = v /\ \A g \in Fields \ {f} : w[g] = old.draft[g] BY <1>1 DEF Val, Fields
<1> HIDE DEF w
<1>3. /\ mid \in Form /\ mid.draft = w /\ mid.at = old.at /\ mid.snap = old.snap
      /\ mid.edited = old.edited /\ mid.moved = old.moved
  <2> HIDE DEF Val, Task, old
  <2> QED BY <1>1, <1>2 DEF Form
<1>4. Set(u, new)
  <2>1. form' = [form EXCEPT ![u] = [old EXCEPT !.draft[f] = v, !.edited = @ \cup {f}]]
    BY DEF Staged, Set
  <2>2. [old EXCEPT !.draft[f] = v, !.edited = @ \cup {f}] = new BY <1>1 DEF Form, w
  <2> QED BY <2>1, <2>2 DEF Set
<1> HIDE DEF mid
<1>5. /\ new \in Form /\ new.draft = w /\ new.at = "controls" /\ new.snap = old.snap
      /\ new.edited = old.edited \cup {f} /\ new.moved = old.moved
  <2>1. old.edited \cup {f} \in SUBSET Fields BY <1>1 DEF Form
  <2> HIDE DEF Val, Task, old
  <2> QED BY <1>1, <1>3, <2>1 DEF Form
<1> HIDE DEF new
<1>6. form'[u] = new BY <1>4, <1>5, SetForm
<1>7. Drafted(u)'
  <2>1. Drafted(u) BY DEF Panel
  <2>2. \A g \in Fields \ new.edited : new.draft[g] = new.snap.val[g]
    BY <1>1, <1>2, <1>5, <2>1 DEF Drafted
  <2>3. new.moved \/ Eligible(new.draft.who) \/ new.draft.who = new.snap.val.who
    <3>1. CASE f = "who" BY <1>2, <1>5, <3>1 DEF Fields
    <3>2. CASE f # "who"
      <4>1. new.draft.who = old.draft.who BY <1>2, <1>5, <3>2 DEF Fields
      <4> QED BY <1>1, <1>5, <2>1, <4>1 DEF Drafted
    <3> QED BY <3>1, <3>2
  <2>4. squad' = squad BY DEF Staged, Rows
  <2> QED BY <1>6, <2>2, <2>3, <2>4 DEF Drafted, Eligible
<1>8. Panel(u)'
  BY <1>5, <1>6, <1>7 DEF Panel, Unwritten, Unblocked, Read, Claimed, Chosen, At, Fields
<1>9. UNCHANGED Rows BY DEF Staged
<1> QED BY <1>4, <1>5, <1>8, <1>9, FormStep

LEMMA StagesKept ==
    ASSUME CardsInv, NEW u \in Users, StagePriority(u) \/ StageText(u) \/ StageAssignee(u)
    PROVE  Kept(u)
<1>1. CASE StagePriority(u) BY <1>1, StagedKept DEF StagePriority, Fields
<1>2. CASE StageText(u) BY <1>2, StagedKept DEF StageText, Fields
<1>3. CASE StageAssignee(u) BY <1>3, StagedKept DEF StageAssignee, MayStage, Fields
<1> QED BY <1>1, <1>2, <1>3

LEMMA SaveKept ==
    ASSUME CardsInv, NEW u \in Users, Save(u)
    PROVE  Kept(u)
<1> USE DEF CardsInv
<1> DEFINE old == form[u]
           one == [old EXCEPT !.at = "prio"]
           two == [one EXCEPT !.cur = old.snap]
           new == [two EXCEPT !.wrote = {}]
<1>1. old \in Form /\ old.at = "controls" BY DEF CardsTypeOK, Save, At
<1>2. Set(u, new) /\ UNCHANGED Rows
  <2>1. [old EXCEPT !.at = "prio", !.cur = form[u].snap, !.wrote = {}] = new BY <1>1 DEF Form
  <2> QED BY <2>1 DEF Save, Set
<1>3. /\ new \in Form /\ new.at = "prio" /\ new.snap = old.snap /\ new.cur = old.snap
      /\ new.draft = old.draft /\ new.edited = old.edited /\ new.moved = old.moved
  <2> HIDE DEF Val, Task, old
  <2>1. /\ one \in Form /\ one.at = "prio" /\ one.snap = old.snap
        /\ one.draft = old.draft /\ one.edited = old.edited /\ one.moved = old.moved
    BY <1>1 DEF Form, Places, Fields
  <2> HIDE DEF one
  <2>2. /\ two \in Form /\ two.at = "prio" /\ two.snap = old.snap /\ two.cur = old.snap
        /\ two.draft = old.draft /\ two.edited = old.edited /\ two.moved = old.moved
    BY <1>1, <2>1 DEF Form
  <2> HIDE DEF two
  <2> QED BY <2>2 DEF Form
<1> HIDE DEF new
<1>4. form'[u] = new BY <1>2, <1>3, SetForm
<1>5. Drafted(u)'
  <2>1. Drafted(u) /\ squad' = squad BY <1>2 DEF Panel, Rows
  <2> QED BY <1>1, <1>3, <1>4, <2>1 DEF Drafted, Eligible
<1>6. Panel(u)'
  BY <1>3, <1>4, <1>5 DEF Panel, Unwritten, Unblocked, Read, Claimed, Chosen, At, Fields
<1> QED BY <1>2, <1>3, <1>6, FormStep

\* The save goes on to another place of the panel with what it has.
LEMMA PassedKept ==
    ASSUME CardsInv, NEW u \in Users, form[u].at \in Fields, NEW place \in Fields \cup {"controls"},
           Set(u, [form[u] EXCEPT !.at = place]), UNCHANGED Rows
    PROVE  Kept(u)
<1> USE DEF CardsInv
<1> DEFINE old == form[u]  new == [old EXCEPT !.at = place]
<1>1. old \in Form /\ old.at \in Fields BY DEF CardsTypeOK
<1>2. /\ new \in Form /\ new.at = place /\ new.snap = old.snap /\ new.cur = old.cur /\ new.wrote = old.wrote
      /\ new.draft = old.draft /\ new.edited = old.edited /\ new.moved = old.moved
  <2> HIDE DEF Val, Task, old
  <2> QED BY <1>1 DEF Form, Places, Fields
<1> HIDE DEF new
<1>3. form'[u] = new BY <1>2, SetForm DEF new
<1>4. Unwritten(u) /\ Drafted(u) /\ squad' = squad BY DEF Panel, Rows
<1>5. Unwritten(u)' BY <1>1, <1>2, <1>3, <1>4 DEF Unwritten
<1>6. Drafted(u)' BY <1>1, <1>2, <1>3, <1>4 DEF Drafted, Eligible
<1>7. Panel(u)'
  BY <1>2, <1>3, <1>5, <1>6 DEF Panel, Unblocked, Read, Claimed, Chosen, At, Fields
<1> QED BY <1>2, <1>7, FormStep DEF new

\* One group is written and the save goes on to the next.
LEMMA WrittenKept ==
    ASSUME CardsInv, NEW u \in Users, NEW f \in Fields, form[u].at = f, f # "who",
           Put(f, form[u].draft[f]), UNCHANGED <<edges, done, squad, card>>,
           Set(u, [form[u] EXCEPT !.at = After(f), !.cur = task', !.wrote = @ \cup {f}])
    PROVE  Kept(u)
<1> USE DEF CardsInv
<1> DEFINE old == form[u]
           one == [old EXCEPT !.at = After(f)]
           two == [one EXCEPT !.cur = task']
           new == [two EXCEPT !.wrote = old.wrote \cup {f}]
<1>1. old \in Form /\ old.at \in Fields /\ old.draft \in Val /\ After(f) \in Fields
  BY DEF CardsTypeOK, Form, After, Fields
<1>2. old.draft[f] \in Values BY <1>1 DEF Val, Fields
<1>3. task' \in Task /\ Grows BY <1>2, PutIsTask
<1>4. Set(u, new)
  <2>1. [old EXCEPT !.at = After(f), !.cur = task', !.wrote = @ \cup {f}] = new BY <1>1 DEF Form
  <2> QED BY <2>1
<1>5. /\ new \in Form /\ new.at = After(f) /\ new.snap = old.snap /\ new.wrote # {}
      /\ new.draft = old.draft /\ new.edited = old.edited /\ new.moved = old.moved
  <2> HIDE DEF Val, Task, old
  <2>1. /\ one \in Form /\ one.at = After(f) /\ one.snap = old.snap /\ one.wrote = old.wrote
        /\ one.draft = old.draft /\ one.edited = old.edited /\ one.moved = old.moved
    BY <1>1 DEF Form, Places, Fields
  <2> HIDE DEF one
  <2>2. /\ two \in Form /\ two.at = After(f) /\ two.snap = old.snap /\ two.wrote = old.wrote
        /\ two.draft = old.draft /\ two.edited = old.edited /\ two.moved = old.moved
    BY <1>3, <2>1 DEF Form
  <2> HIDE DEF two
  <2>3. old.wrote \cup {f} \in SUBSET Fields BY <1>1 DEF Form
  <2> QED BY <2>2, <2>3 DEF Form
<1> HIDE DEF new
<1>6. /\ form' \in [Users -> Form] /\ form'[u] = new /\ \A v \in Users \ {u} : form'[v] = form[v]
  BY <1>4, <1>5, SetForm
<1>7. Unwritten(u)' BY <1>5, <1>6 DEF Unwritten
<1>8. Drafted(u)'
  <2>1. Drafted(u) BY DEF Panel
  <2> QED BY <1>1, <1>5, <1>6, <2>1 DEF Drafted, Eligible
<1>9. Panel(u)'
  <2>1. form'[u].at \in Fields BY <1>1, <1>5, <1>6
  <2> QED BY <1>7, <1>8, <2>1 DEF Panel, Unblocked, Read, Claimed, Chosen, At, Fields
<1> QED BY <1>3, <1>6, <1>9, WriteStep

LEMMA SaveGroupKept ==
    ASSUME CardsInv, NEW u \in Users, NEW f \in Fields, SaveGroup(u, f)
    PROVE  Kept(u)
<1> USE DEF CardsInv
<1>1. form[u].at = f /\ UNCHANGED <<edges, done, squad, card>> BY DEF SaveGroup, At
<1>2. f # "who" => After(f) \in Fields BY DEF After, Fields
<1>3. CASE UNCHANGED task /\ Draws(u, form[u].cur)
  <2>1. form[u].cur.status \in Statuses BY DEF CardsTypeOK, Form, Task
  <2>2. /\ form' \in [Users -> Form] /\ form'[u].at = "refresh"
        /\ \A v \in Users \ {u} : form'[v] = form[v]
    BY <1>3, <2>1, DrawsForm
  <2>3. task' \in Task /\ Grows BY <1>3 DEF CardsTypeOK, Task, Grows
  <2> QED BY <1>1, <2>2, <2>3, RestingPanel, WriteStep
<1>4. CASE UNCHANGED task /\ f # "who" /\ Set(u, [form[u] EXCEPT !.at = After(f)])
  BY <1>1, <1>2, <1>4, PassedKept DEF Rows
<1>5. CASE UNCHANGED task /\ Set(u, [form[u] EXCEPT !.at = "controls"])
  BY <1>1, <1>5, PassedKept DEF Rows
<1>6. CASE Put(f, form[u].draft[f]) /\ Drawn(u)
  BY <1>1, <1>6, FieldPutKept
<1>7. CASE /\ Put(f, form[u].draft[f]) /\ f # "who"
           /\ Set(u, [form[u] EXCEPT !.at = After(f), !.cur = task', !.wrote = @ \cup {f}])
  BY <1>1, <1>7, WrittenKept
<1> QED BY <1>3, <1>4, <1>5, <1>6, <1>7 DEF SaveGroup

-----------------------------------------------------------------------------
(* The dependency menu, and what happens elsewhere.                        *)

LEMMA MenuKept ==
    ASSUME CardsInv, NEW u \in Users, OpenDeps(u) \/ Redraw(u) \/ Select(u)
    PROVE  Kept(u)
<1> USE DEF CardsInv
<1> DEFINE old == form[u]
<1>1. old \in Form /\ Closed \in Form /\ edges \subseteq Others BY ClosedIsForm DEF CardsTypeOK
<1>2. CASE OpenDeps(u) \/ Redraw(u)
  <2>1. PICK g \in Form : Set(u, [g EXCEPT !.at = "deps", !.seen = edges]) /\ UNCHANGED Rows
    BY <1>1, <1>2 DEF OpenDeps, Redraw
  <2> DEFINE new == [g EXCEPT !.at = "deps", !.seen = edges]
  <2>2. new \in Form /\ new.at = "deps"
    <3> HIDE DEF Task, Val
    <3> QED BY <1>1 DEF Form, Places
  <2> HIDE DEF new
  <2>3. Set(u, new) BY <2>1 DEF new
  <2>4. form'[u].at = "deps" BY <2>2, <2>3, SetForm
  <2> QED BY <2>1, <2>2, <2>3, <2>4, RestingPanel, FormStep
<1>3. CASE Select(u)
  <2>1. PICK c \in SUBSET Shown :
           Set(u, [old EXCEPT !.at = "selected", !.drop = old.seen \ c, !.add = c \ old.seen])
    BY <1>3 DEF Select, Dropped
  <2> DEFINE one == [old EXCEPT !.at = "selected"]
             two == [one EXCEPT !.drop = old.seen \ c]
             new == [two EXCEPT !.add = c \ old.seen]
  <2>2. Set(u, new)
    <3>1. [old EXCEPT !.at = "selected", !.drop = old.seen \ c, !.add = c \ old.seen] = new
      BY <1>1 DEF Form
    <3> QED BY <2>1, <3>1
  <2>3. new \in Form /\ new.at = "selected" /\ new.drop \subseteq new.seen
    <3>1. old.seen \in SUBSET Others /\ old.seen \ c \in SUBSET Others /\ c \ old.seen \in SUBSET Others
      BY <1>1, UsersAssumption DEF Form
    <3> HIDE DEF Task, Val, old
    <3>2. one \in Form /\ one.at = "selected" /\ one.seen = old.seen BY <1>1 DEF Form, Places
    <3> HIDE DEF one
    <3>3. two \in Form /\ two.at = "selected" /\ two.seen = old.seen /\ two.drop = old.seen \ c
      BY <3>1, <3>2 DEF Form
    <3> HIDE DEF two
    <3>4. new \in Form /\ new.at = "selected" /\ new.seen = old.seen /\ new.drop = old.seen \ c
      BY <3>1, <3>3 DEF Form
    <3> QED BY <3>4
  <2> HIDE DEF new
  <2>4. form'[u] = new BY <2>2, <2>3, SetForm
  <2>5. Panel(u)'
    BY <2>3, <2>4 DEF Panel, Unwritten, Drafted, Unblocked, Read, Claimed, Chosen, At, Fields
  <2>6. UNCHANGED Rows BY <1>3 DEF Select
  <2> QED BY <2>2, <2>3, <2>5, <2>6, FormStep
<1> QED BY <1>2, <1>3

\* A step of u that writes an edge.
LEMMA EdgeStep ==
    ASSUME CardsInv, NEW u \in Users, NEW g \in Form, form' = [Overtake(u) EXCEPT ![u] = g],
           edges' \subseteq Others, UNCHANGED <<task, done, squad, card>>, Panel(u)'
    PROVE  Kept(u)
<1> USE DEF CardsInv
<1>1. CardsTypeOK'
  <2>1. form' \in [Users -> Form] BY OvertakeForms
  <2> QED BY <2>1 DEF CardsTypeOK
<1>2. Grows BY DEF Grows, CardsTypeOK, Task
<1>3. \A v \in Users \ {u} : Spares(v)
  <2> TAKE v \in Users \ {u}
  <2>1. form'[v] = Overtake(u)[v] BY OvertakeForms
  <2>2. \/ ~Engaged(v) /\ Overtake(u)[v] = form[v]
        \/ Overtake(u)[v] = [form[v] EXCEPT !.moved = TRUE]
    BY OvertakeForms
  <2> QED BY <2>1, <2>2 DEF Spares
<1> QED BY <1>1, <1>2, <1>3 DEF Kept

LEMMA EdgesKept ==
    ASSUME CardsInv, NEW u \in Users, NEW o \in Others, Unlink(u, o) \/ Link(u, o) \/ Depend(u, o)
    PROVE  Kept(u)
<1> USE DEF CardsInv
<1> DEFINE old == form[u]
<1>1. old \in Form /\ edges \subseteq Others /\ Overtake(u)[u] = old /\ Overtake(u) \in [Users -> Form]
  BY OvertakeForms DEF CardsTypeOK
<1>2. edges' \subseteq Others /\ UNCHANGED <<task, done, squad, card>>
  BY <1>1 DEF Unlink, Link, Depend
<1>3. CASE Depend(u, o)
  <2>1. old.at = "closed" /\ form' = Overtake(u) BY <1>3 DEF Depend, Asks, At
  <2>2. form' = [Overtake(u) EXCEPT ![u] = old] BY <1>1, <2>1
  <2>3. form'[u].at = "closed" BY <1>1, <2>1
  <2> QED BY <1>1, <1>2, <2>2, <2>3, RestingPanel, EdgeStep
<1>4. CASE Unlink(u, o) \/ Link(u, o)
  <2> DEFINE fewer == [old EXCEPT !.drop = @ \ {o}]  more == [old EXCEPT !.add = @ \ {o}]
  <2>1. PICK g \in {fewer, more} : form' = [Overtake(u) EXCEPT ![u] = g]
    BY <1>1, <1>4 DEF Unlink, Link
  <2>2. old.at = "selected" /\ old.drop \subseteq old.seen BY <1>4 DEF Unlink, Link, Panel, Chosen, At
  <2>3. g \in Form /\ g.at = "selected" /\ g.drop \subseteq g.seen
    <3>1. /\ old.drop \ {o} \in SUBSET Others /\ old.add \ {o} \in SUBSET Others
      BY <1>1 DEF Form
    <3> HIDE DEF Task, Val, old
    <3>2. fewer \in Form /\ fewer.at = "selected" /\ fewer.drop \subseteq fewer.seen
      BY <1>1, <2>2, <3>1 DEF Form
    <3>3. more \in Form /\ more.at = "selected" /\ more.drop \subseteq more.seen
      BY <1>1, <2>2, <3>1 DEF Form
    <3> QED BY <3>2, <3>3
  <2> HIDE DEF fewer, more
  <2>4. form'[u] = g BY <1>1, <2>1
  <2>5. Panel(u)'
    BY <2>3, <2>4 DEF Panel, Unwritten, Drafted, Unblocked, Read, Claimed, Chosen, At, Fields
  <2> QED BY <1>2, <2>1, <2>3, <2>5, EdgeStep
<1> QED BY <1>3, <1>4

LEMMA ActKept ==
    ASSUME CardsInv, NEW u \in Users, Act(u)
    PROVE  Kept(u)
<1>1. CASE \/ \E b \in {"start", "complete", "notstarted", "reopen"} : PressStatus(u, b)
           \/ Claim(u) \/ Assign(u) \/ Prioritize(u) \/ Update(u)
  BY <1>1, ButtonsKept
<1>2. CASE Apply(u) \/ ConfirmBlocked(u) \/ ConfirmDelete(u) BY <1>2, AppliesKept, DeleteKept
<1>3. CASE OpenDelete(u) \/ OpenControls(u) BY <1>3, OpensKept
<1>4. CASE StagePriority(u) \/ StageText(u) \/ StageAssignee(u) BY <1>4, StagesKept
<1>5. CASE Save(u) \/ \E f \in Fields : SaveGroup(u, f) BY <1>5, SaveKept, SaveGroupKept
<1>6. CASE OpenDeps(u) \/ Select(u) \/ Redraw(u) BY <1>6, MenuKept
<1>7. CASE \E o \in Others : Unlink(u, o) \/ Link(u, o) \/ Depend(u, o) BY <1>7, EdgesKept
<1>8. CASE Refresh(u) \/ Cancel(u) BY <1>8, ClosingKept
<1> QED BY <1>1, <1>2, <1>3, <1>4, <1>5, <1>6, <1>7, <1>8 DEF Act

Elsewhere == (\E u \in Users : SquadMoves(u)) \/ (\E o \in Others : OtherMoves(o))

LEMMA ElsewhereKept ==
    ASSUME CardsInv, Elsewhere
    PROVE  CardsTypeOK' /\ Grows /\ \A v \in Users : Spares(v)
<1> USE DEF CardsInv, Elsewhere, SquadMoves, OtherMoves
<1>1. form' = Overtake(Nobody) /\ UNCHANGED <<task, edges, card>> OBVIOUS
<1>2. form' \in [Users -> Form] BY <1>1, OvertakeForms
<1>3. done' \subseteq Others /\ squad' \subseteq Users BY DEF CardsTypeOK
<1>4. CardsTypeOK' BY <1>1, <1>2, <1>3 DEF CardsTypeOK
<1>5. Grows BY <1>1 DEF Grows, CardsTypeOK, Task
<1>6. \A v \in Users : Spares(v)
  <2> TAKE v \in Users
  <2>1. v # Nobody BY UsersAssumption
  <2>2. \/ ~Engaged(v) /\ Overtake(Nobody)[v] = form[v]
        \/ Overtake(Nobody)[v] = [form[v] EXCEPT !.moved = TRUE]
    BY <2>1, OvertakeForms
  <2> QED BY <1>1, <2>2 DEF Spares
<1> QED BY <1>4, <1>5, <1>6

LEMMA CardsInitInv == CardsInit => CardsInv
<1> SUFFICES ASSUME CardsInit PROVE CardsInv
  OBVIOUS
<1>1. CardsTypeOK
  <2>1. task \in Task /\ form \in [Users -> Form] BY NewIsTask, ClosedIsForm DEF CardsInit
  <2> QED BY <2>1 DEF CardsInit, CardsTypeOK, Statuses
<1>2. \A u \in Users : form[u].at = "closed" BY ClosedIsForm DEF CardsInit
<1>3. \A u \in Users : Panel(u)
  BY <1>2 DEF Panel, Unwritten, Drafted, Unblocked, Read, Claimed, Chosen, At, Fields
<1> QED BY <1>1, <1>3 DEF CardsInv

LEMMA CardsNextInv == CardsInv /\ [CardsNext]_cardsVars => CardsInv'
<1> SUFFICES ASSUME CardsInv, [CardsNext]_cardsVars PROVE CardsInv'
  OBVIOUS
<1>1. CASE \E u \in Users : Act(u)
  <2> PICK u \in Users : Act(u) BY <1>1
  <2>1. Kept(u) BY ActKept
  <2>2. \A v \in Users \ {u} : Panel(v)' BY <2>1, SparedPanel DEF Kept, CardsTypeOK
  <2> QED BY <2>1, <2>2 DEF Kept, CardsInv
<1>2. CASE Elsewhere
  <2>1. CardsTypeOK' /\ Grows /\ \A v \in Users : Spares(v) BY <1>2, ElsewhereKept
  <2>2. \A v \in Users : Panel(v)' BY <2>1, SparedPanel DEF CardsTypeOK
  <2> QED BY <2>1, <2>2 DEF CardsInv
<1>3. CASE UNCHANGED cardsVars
  BY <1>3 DEF cardsVars, CardsInv, CardsTypeOK, Panel, Unwritten, Drafted, Unblocked, Read, Claimed, Chosen,
              At, Eligible, Blockers
<1> QED BY <1>1, <1>2, <1>3 DEF CardsNext, Elsewhere

THEOREM CardsInvariant == CardsSpec => []CardsInv
BY CardsInitInv, CardsNextInv, PTL DEF CardsSpec

-----------------------------------------------------------------------------
(* The theorems.                                                           *)

\* Only a user's own step changes where the user is, or what is left of a selection.
LEMMA OwnStep ==
    ASSUME CardsInv, CardsNext, NEW u \in Users, By(u) \/ form'[u].drop # form[u].drop
    PROVE  Act(u)
<1>1. ASSUME Spares(u) PROVE FALSE
  <2>1. form[u] \in Form BY DEF CardsInv, CardsTypeOK
  <2>2. form'[u].at = form[u].at /\ form'[u].drop = form[u].drop
    <3> HIDE DEF Task, Val
    <3> QED BY <1>1, <2>1 DEF Spares, Form
  <2> QED BY <2>2 DEF By
<1>2. ~Elsewhere BY <1>1, ElsewhereKept
<1>3. PICK v \in Users : Act(v) BY <1>2 DEF CardsNext, Elsewhere
<1>4. v = u BY <1>1, <1>3, ActKept DEF Kept
<1> QED BY <1>3, <1>4

\* From a group of a save only the save goes on.
LEMMA SaveOnly ==
    ASSUME NEW u \in Users, Act(u), form[u].at \in Fields
    PROVE  form[u].at \in Fields /\ SaveGroup(u, form[u].at)
BY DEF Act, PressStatus, Claim, Assign, Prioritize, Update, Asks, Apply, ConfirmBlocked, OpenDelete,
       ConfirmDelete, OpenControls, StagePriority, StageText, StageAssignee, Staged, Save, SaveGroup,
       OpenDeps, Select, Redraw, Unlink, Link, Depend, Refresh, Cancel, At, Fields

\* A save changes only what its user has edited, until it has written a group: what is
\* staged and was not edited is as it was read, and up to its first write a save
\* compares with just that.
THEOREM OnlyEdits == CardsSpec => SaveTouchesOnlyEdits
<1>1. ASSUME CardsInv, CardsNext, NEW u \in Users, NEW f \in Fields,
             form[u].at \in Fields, By(u), task'.val[f] # task.val[f]
      PROVE  f \in form[u].edited \/ form[u].wrote # {}
  <2> DEFINE g == form[u].at
  <2>1. SaveGroup(u, g) /\ g \in Fields BY <1>1, OwnStep, SaveOnly
  <2>2. Stale(u, g) /\ Put(g, form[u].draft[g]) BY <1>1, <2>1 DEF SaveGroup
  <2>3. f = g
    <3>1. form[u].draft[g] \in IF g = "who" THEN Assignees ELSE Values
      BY <1>1, <2>1 DEF CardsInv, CardsTypeOK, Form, Val, Fields
    <3> QED BY <1>1, <2>1, <2>2, <3>1, PutIsTask
  <2>4. Unwritten(u) /\ Drafted(u) BY <1>1 DEF CardsInv, Panel
  <2> QED BY <2>1, <2>2, <2>3, <2>4 DEF Unwritten, Drafted, Stale
<1>2. CardsInv /\ [CardsNext]_cardsVars =>
         [\A u \in Users, f \in Fields :
             form[u].at \in Fields /\ By(u) /\ task'.val[f] # task.val[f]
                => f \in form[u].edited \/ form[u].wrote # {}]_cardsVars
  BY <1>1
<1> QED BY <1>2, CardsInvariant, PTL DEF CardsSpec, SaveTouchesOnlyEdits

\* A refused save has written nothing, unless squads or the assignee changed or the task is
\* deleted: whoever is staged was eligible, or is the one the panel was opened with.
THEOREM RefusalIsClean == CardsSpec => RefusedSaveIsClean
<1>1. ASSUME CardsInv, CardsNext, NEW u \in Users, form[u].at \in Fields, form'[u].at = "controls"
      PROVE  \/ form[u].wrote = {} \/ form[u].moved \/ ~task.live
             \/ form[u].cur.val.who # form[u].snap.val.who
  <2> DEFINE g == form[u].at
  <2>1. By(u) BY <1>1 DEF By, Fields
  <2>2. SaveGroup(u, g) /\ g \in Fields BY <1>1, <2>1, OwnStep, SaveOnly
  <2>3. form[u] \in Form BY <1>1 DEF CardsInv, CardsTypeOK
  <2>4. Stale(u, g) /\ Refused(u, g)
    <3>1. CASE Draws(u, form[u].cur) \/ Drawn(u)
      <4>1. form[u].cur.status \in Statuses /\ (Drawn(u) => task'.status \in Statuses)
        <5>1. form[u].cur.status \in Statuses BY <2>3 DEF Form, Task
        <5>2. CardsTypeOK' BY <1>1, <2>1, OwnStep, ActKept DEF Kept
        <5> QED BY <5>1, <5>2 DEF CardsTypeOK, Task
      <4>2. form'[u].at = "refresh" BY <1>1, <3>1, <4>1, DrawsForm DEF Drawn, CardsInv
      <4> QED BY <1>1, <4>2
    <3>2. CASE g # "who" /\ \/ Set(u, [form[u] EXCEPT !.at = After(g)])
                            \/ Set(u, [form[u] EXCEPT !.at = After(g), !.cur = task', !.wrote = @ \cup {g}])
      <4>1. form'[u].at = After(g)
        <5> DEFINE one == [form[u] EXCEPT !.at = After(g)]
                   two == [one EXCEPT !.cur = task']
                   all == [two EXCEPT !.wrote = form[u].wrote \cup {g}]
        <5>1. DOMAIN form = Users BY <1>1 DEF CardsInv, CardsTypeOK
        <5>2. [form[u] EXCEPT !.at = After(g), !.cur = task', !.wrote = @ \cup {g}] = all BY <2>3 DEF Form
        <5>3. form'[u] = one \/ form'[u] = all BY <3>2, <5>1, <5>2 DEF Set
        <5>4. one.at = After(g) /\ all.at = After(g) BY <2>3 DEF Form
        <5> QED BY <5>3, <5>4
      <4>2. After(g) # "controls" BY <2>2 DEF After, Fields
      <4> QED BY <1>1, <4>1, <4>2
    <3> QED BY <2>2, <3>1, <3>2 DEF SaveGroup
  <2>5. Drafted(u) BY <1>1 DEF CardsInv, Panel
  <2> QED BY <1>1, <2>4, <2>5 DEF Drafted, Stale, Refused
<1>2. CardsInv /\ [CardsNext]_cardsVars =>
         [\A u \in Users :
             form[u].at \in Fields /\ form'[u].at = "controls"
                => \/ form[u].wrote = {} \/ form[u].moved \/ ~task.live
                   \/ form[u].cur.val.who # form[u].snap.val.who]_cardsVars
  BY <1>1
<1> QED BY <1>2, CardsInvariant, PTL DEF CardsSpec, RefusedSaveIsClean

\* A blocked task is started or completed only by a confirmation, the reopen button of an
\* old card, or a handler that looked too early.
THEOREM Confirmed == CardsSpec => BlockedIsConfirmed
<1>1. ASSUME CardsInv, CardsNext, NEW u \in Users, By(u), Blockers # {},
             task.status = "NOT_STARTED", task'.status # "NOT_STARTED"
      PROVE  At(u, "blocked") \/ form[u].op = "reopen" \/ form[u].moved
  <2>1. Act(u) /\ form[u] \in Form BY <1>1, OwnStep DEF CardsInv, CardsTypeOK
  <2>2. CASE ConfirmBlocked(u) BY <2>2 DEF ConfirmBlocked
  <2>3. CASE Apply(u)
    <3>1. CASE form[u].op \notin Fields \cup {"claim"} /\ SetStatus(u)
      <4>1. task' # task BY <1>1
      <4>2. task'.status = Target(form[u].op) BY <3>1, <4>1, <1>1 DEF SetStatus, CardsInv, CardsTypeOK, Task
      <4>3. form[u].op \notin Fields \cup {"claim"} => form[u].op \in {"start", "complete", "notstarted", "reopen"}
        BY <2>1 DEF Form, Buttons, Panels, Fields
      <4>4. Unblocked(u) /\ At(u, "pressed") BY <1>1, <2>3 DEF CardsInv, Panel, Apply
      <4> QED BY <1>1, <3>1, <4>2, <4>3, <4>4 DEF Target, Unblocked
    <3>2. CASE form[u].op \in Fields \cup {"claim"} /\ SetField(u)
      <4> DEFINE f == IF form[u].op = "claim" THEN "who" ELSE form[u].op
      <4>1. f \in Fields /\ Put(f, form[u].draft[f]) BY <1>1, <3>2 DEF Fields, SetField
      <4>2. form[u].draft[f] \in IF f = "who" THEN Assignees ELSE Values
        BY <2>1, <4>1 DEF Form, Val, Fields
      <4> HIDE DEF f
      <4> QED BY <1>1, <4>1, <4>2, PutIsTask
    <3> QED BY <2>3, <3>1, <3>2 DEF Apply
  <2>4. CASE ConfirmDelete(u) BY <1>1, <2>4 DEF ConfirmDelete, CardsInv, CardsTypeOK, Task
  <2>5. CASE \E f \in Fields : SaveGroup(u, f)
    <3> PICK f \in Fields : SaveGroup(u, f) BY <2>5
    <3>1. Put(f, form[u].draft[f]) BY <1>1 DEF SaveGroup
    <3>2. form[u].draft[f] \in IF f = "who" THEN Assignees ELSE Values
      BY <2>1 DEF Form, Val, Fields
    <3> QED BY <1>1, <3>1, <3>2, PutIsTask
  <2>6. task' # task BY <1>1
  <2> QED BY <2>1, <2>2, <2>3, <2>4, <2>5, <2>6
          DEF Act, PressStatus, Claim, Assign, Prioritize, Update, OpenDelete, OpenControls, StagePriority,
              StageText, StageAssignee, Staged, Save, OpenDeps, Select, Redraw, Unlink, Link, Depend,
              Refresh, Cancel, Rows
<1>2. CardsInv /\ [CardsNext]_cardsVars =>
         [\A u \in Users :
             /\ By(u) /\ Blockers # {}
             /\ task.status = "NOT_STARTED" /\ task'.status # "NOT_STARTED"
             => At(u, "blocked") \/ form[u].op = "reopen" \/ form[u].moved]_cardsVars
  BY <1>1
<1> QED BY <1>2, CardsInvariant, PTL DEF CardsSpec, BlockedIsConfirmed

\* Unless it was changed since it was read, a task under way is deleted only by a manager or
\* the lead, and nobody loses a task to a claim: the snapshot has the version of the row, so
\* it has its status and its assignee.
THEOREM TakenLate == CardsSpec => TakenOnlyIfOvertaken
<1>1. ASSUME CardsInv, CardsNext, NEW u \in Users, By(u), form[u].snap.version = task.version,
             task.live, ~task'.live, task.status # "NOT_STARTED"
      PROVE  u \in Managers \cup {Lead}
  <2>1. Act(u) /\ form[u] \in Form /\ task \in Task BY <1>1, OwnStep DEF CardsInv, CardsTypeOK
  <2>2. ASSUME SetStatus(u) PROVE FALSE
    <3>1. task'.live = task.live
      <4> HIDE DEF Val
      <4> QED BY <1>1, <2>1, <2>2 DEF SetStatus, Task
    <3> QED BY <1>1, <3>1
  <2>3. ASSUME NEW f \in Fields, Put(f, form[u].draft[f]) PROVE FALSE
    <3>1. form[u].draft[f] \in IF f = "who" THEN Assignees ELSE Values
      BY <2>1 DEF Form, Val, Fields
    <3> QED BY <1>1, <2>3, <3>1, PutIsTask
  <2>4. CASE ConfirmDelete(u)
    <3>1. Read(u) /\ form[u].at = "delete" BY <1>1, <2>4 DEF CardsInv, Panel, ConfirmDelete, At
    <3> QED BY <1>1, <2>4, <3>1 DEF Read, ConfirmDelete, CanDelete
  <2>5. ~Apply(u)
    <3> SUFFICES ASSUME Apply(u) PROVE FALSE
      OBVIOUS
    <3>1. CASE form[u].op \in Fields \cup {"claim"} /\ SetField(u)
      <4> DEFINE f == IF form[u].op = "claim" THEN "who" ELSE form[u].op
      <4>1. f \in Fields /\ (Put(f, form[u].draft[f]) \/ UNCHANGED task) BY <3>1 DEF Fields, SetField
      <4> HIDE DEF f
      <4> QED BY <1>1, <2>3, <4>1
    <3> QED BY <2>2, <3>1 DEF Apply
  <2>6. ~ConfirmBlocked(u) BY <2>2 DEF ConfirmBlocked
  <2>7. ASSUME NEW f \in Fields, SaveGroup(u, f) PROVE FALSE BY <1>1, <2>3, <2>7 DEF SaveGroup
  <2>8. task' # task BY <1>1
  <2> QED BY <2>1, <2>4, <2>5, <2>6, <2>7, <2>8
          DEF Act, PressStatus, Claim, Assign, Prioritize, Update, OpenDelete, OpenControls, StagePriority,
              StageText, StageAssignee, Staged, Save, OpenDeps, Select, Redraw, Unlink, Link, Depend,
              Refresh, Cancel, Rows
<1>2. ASSUME CardsInv, NEW u \in Users, form[u].snap.version = task.version,
             At(u, "pressed"), form[u].op = "claim"
      PROVE  task.val.who \in {Nobody, u}
  BY <1>2 DEF CardsInv, Panel, Read, Claimed, At
<1>3. CardsInv /\ [CardsNext]_cardsVars =>
         [\A u \in Users :
             By(u) /\ form[u].snap.version = task.version =>
                /\ task.live /\ ~task'.live /\ task.status # "NOT_STARTED"
                      => u \in Managers \cup {Lead}
                /\ At(u, "pressed") /\ form[u].op = "claim" => task.val.who \in {Nobody, u}]_cardsVars
  BY <1>1, <1>2
<1> QED BY <1>3, CardsInvariant, PTL DEF CardsSpec, TakenOnlyIfOvertaken

\* A selection removes no prerequisite that was added after its menu was drawn: what is to
\* be removed was seen.
THEOREM SelectionIsExact == CardsSpec => SelectionKeepsOthersEdges
<1>1. ASSUME CardsInv, CardsNext, NEW u \in Users, At(u, "selected"), form'[u].drop # form[u].drop
      PROVE  edges \ edges' \subseteq form[u].seen
  <2>1. Act(u) BY <1>1, OwnStep
  <2>2. (\E o \in Others : Unlink(u, o) \/ Link(u, o)) \/ Redraw(u)
    BY <1>1, <2>1 DEF Act, PressStatus, Claim, Assign, Prioritize, Update, Asks, Apply, ConfirmBlocked,
       OpenDelete, ConfirmDelete, OpenControls, StagePriority, StageText, StageAssignee, Staged, Save,
       SaveGroup, OpenDeps, Select, Depend, Refresh, Cancel, At, Fields
  <2>3. form[u].drop \subseteq form[u].seen BY <1>1 DEF CardsInv, Panel, Chosen
  <2> QED BY <2>2, <2>3 DEF Unlink, Link, Redraw, Rows
<1>2. CardsInv /\ [CardsNext]_cardsVars =>
         [\A u \in Users :
             At(u, "selected") /\ form'[u].drop # form[u].drop
                => edges \ edges' \subseteq form[u].seen]_cardsVars
  BY <1>1
<1> QED BY <1>2, CardsInvariant, PTL DEF CardsSpec, SelectionKeepsOthersEdges

=============================================================================
