----------------------------- MODULE ThreadRename -----------------------------
(***************************************************************************)
(* The title of one task's thread: sync_task_workspace_state renames it    *)
(* at once, or through ThreadRenameRateLimiter later, when Discord's limit *)
(* of MaxRenames per Window allows.  The dictionaries of the limiter are   *)
(* keyed by thread and no step touches two keys, so one thread is all.     *)
(* A call is one run of the sync together with the deferred task it may    *)
(* leave behind.  Times are ages and waits, in ticks.                      *)
(***************************************************************************)
EXTENDS Integers, FiniteSets

CONSTANTS
    Titles,      \* titles the task is given
    MaxSyncs,    \* bound: calls of the sync
    Window,      \* window_seconds
    MaxRenames,  \* max_renames
    RetryAfter   \* retry_after of a Discord 429

Calls == 1..MaxSyncs
None == "none"

ASSUME TitlesAssumption == None \notin Titles /\ Titles # {}
ASSUME BoundsAssumption ==
    /\ MaxSyncs \in Nat /\ Window \in Nat \ {0} /\ MaxRenames \in Nat \ {0}
    /\ RetryAfter \in Nat \ {0}

VARIABLES
    name,        \* the title at Discord
    cached,      \* thread.name, which a gateway event brings up to date
    past,        \* _history: age of the rename each call recorded, Window if none counts
    lockout,     \* _rate_limit_until, as the time that is left
    pending,     \* _pending_names
    registered,  \* _deferred_tasks: the call whose task it is, 0 if none
    at,          \* where each call is
    target,      \* new_name of each call
    left,        \* what is left of the sleep of its deferred task
    cancelled,   \* cancel() has been called on its deferred task
    syncs,       \* calls made so far
    wanted,      \* history: the title of the last call
    applied,     \* history: age of the rename of each call that took effect
    failed,      \* history: an edit raised something else than a 429 that is handled
    raced,       \* history: an edit began beside another one, or on a stale cache
    dropped      \* history: a call for the cached title, or for one deferred already

limiter == <<past, lockout, pending, registered>>
calls   == <<at, target, left, cancelled>>
ghosts  == <<wanted, applied, failed, raced, dropped>>
vars    == <<name, cached, limiter, calls, syncs, ghosts>>

Init ==
    /\ name \in Titles /\ cached = name /\ wanted = name
    /\ past = [c \in Calls |-> Window] /\ applied = past
    /\ lockout = 0 /\ pending = None /\ registered = 0
    /\ at = [c \in Calls |-> "new"]
    /\ target = [c \in Calls |-> name]
    /\ left = [c \in Calls |-> 0]
    /\ cancelled = [c \in Calls |-> FALSE]
    /\ syncs = 0
    /\ failed = FALSE /\ raced = FALSE /\ dropped = FALSE

-----------------------------------------------------------------------------
(* The limiter.                                                            *)

Within(ages) == {c \in Calls : ages[c] < Window}

\* Mutant: the window lets one rename too many through.
CanRenameOneMore == lockout = 0 /\ Cardinality(Within(past)) <= MaxRenames

\* can_rename: no lockout, and less than MaxRenames renames within the window.
CanRename == lockout = 0 /\ Cardinality(Within(past)) < MaxRenames

\* Else the cooldown: what is left of the lockout, or until the oldest rename is out.
Cooldown ==
    IF lockout > 0 THEN {lockout}
    ELSE {Window - past[c] : c \in {d \in Within(past) :
                                      \A e \in Within(past) : past[e] <= past[d]}}

\* record_rename, after an edit that took effect.
RecordRename(c) ==
    /\ name' = target[c]
    /\ past' = [past EXCEPT ![c] = 0]
    /\ applied' = [applied EXCEPT ![c] = 0]

\* Mutant: the new task is registered before the old one is cancelled.
DeferThenCancel(c, t, wait) ==
    /\ pending' = t
    /\ registered' = c
    /\ at' = [at EXCEPT ![c] = "created"]
    /\ left' = [left EXCEPT ![c] = wait]
    /\ cancelled' = [cancelled EXCEPT ![c] = TRUE]

\* The throttled half of request_rename.  A task that is cancelled before its first
\* step never enters its try block.
Defer(c, t, wait) ==
    LET old == registered IN
    /\ pending' = t
    /\ registered' = c
    /\ at' = [d \in Calls |->
                 IF d = c THEN "created"
                 ELSE IF d = old /\ at[d] = "created" THEN "done" ELSE at[d]]
    /\ left' = [left EXCEPT ![c] = wait]
    /\ cancelled' = [d \in Calls |->
                        cancelled[d] \/ (d = old /\ at[d] \in {"asleep", "renaming"})]

-----------------------------------------------------------------------------
(* sync_task_workspace_state, its title.                                   *)

Editing == \E c \in Calls : at[c] \in {"editing", "renaming"}
Unsettled == Editing \/ cached # name

\* A deferred task stands for this title already, or for another than the cached one.
Repeats(t) == \E c \in Calls : at[c] \in {"created", "asleep", "renaming"}
                              /\ (target[c] = t \/ cached = t)

\* The sync compares with the cached title and renames, or asks the limiter.
Sync(c, t) ==
    /\ c = syncs + 1 /\ syncs' = c
    /\ wanted' = t
    /\ raced' = (raced \/ Unsettled \/ (CanRename /\ pending # None))
    /\ dropped' = (dropped \/ Repeats(t))
    /\ target' = [target EXCEPT ![c] = t]
    /\ \/ /\ cached = t
          /\ at' = [at EXCEPT ![c] = "done"]
          /\ UNCHANGED <<limiter, left, cancelled>>
       \/ /\ cached # t /\ CanRename
          /\ at' = [at EXCEPT ![c] = "editing"]
          /\ UNCHANGED <<limiter, left, cancelled>>
       \/ /\ cached # t /\ ~CanRename
          /\ \E w \in Cooldown : Defer(c, t, w)
          /\ UNCHANGED <<past, lockout>>
    /\ UNCHANGED <<name, cached, applied, failed>>

EditOK(c) ==
    /\ at[c] = "editing"
    /\ RecordRename(c)
    /\ at' = [at EXCEPT ![c] = "done"]
    /\ UNCHANGED <<cached, lockout, pending, registered, target, left, cancelled,
                   syncs, wanted, failed, raced, dropped>>

\* A 429 is recorded, and request_rename finds the thread locked out; without
\* retry_after the whole window is waited for.
EditLimited(c) ==
    /\ at[c] = "editing"
    /\ \E b \in {RetryAfter, Window} :
          /\ lockout' = b
          /\ IF cached = target[c]
             THEN /\ at' = [at EXCEPT ![c] = "done"]
                  /\ UNCHANGED <<pending, registered, left, cancelled>>
             ELSE Defer(c, target[c], b)
    /\ UNCHANGED <<name, cached, past, target, syncs, ghosts>>

\* Any other error is logged.
EditFails(c) ==
    /\ at[c] = "editing"
    /\ at' = [at EXCEPT ![c] = "done"]
    /\ failed' = TRUE
    /\ UNCHANGED <<name, cached, limiter, target, left, cancelled, syncs,
                   wanted, applied, raced, dropped>>

-----------------------------------------------------------------------------
(* _run_deferred.                                                          *)

TaskStart(c) ==
    /\ at[c] = "created" /\ ~cancelled[c]
    /\ at' = [at EXCEPT ![c] = "asleep"]
    /\ UNCHANGED <<name, cached, limiter, target, left, cancelled, syncs, ghosts>>

\* Mutant: the finally block clears whatever title is pending.
FinallyClears(c) ==
    /\ at' = [at EXCEPT ![c] = "done"]
    /\ pending' = None
    /\ registered' = 0

\* The finally block: its own title is no longer pending, and whatever task is
\* registered is forgotten, be it another one.
Finally(c) ==
    /\ at' = [at EXCEPT ![c] = "done"]
    /\ pending' = IF pending = target[c] THEN None ELSE pending
    /\ registered' = 0

TaskWake(c) ==
    /\ at[c] = "asleep" /\ left[c] = 0 /\ ~cancelled[c]
    /\ IF pending # target[c] \/ cached = target[c]
       THEN Finally(c) /\ UNCHANGED raced
       ELSE /\ at' = [at EXCEPT ![c] = "renaming"]
            /\ raced' = (raced \/ Unsettled)
            /\ UNCHANGED <<pending, registered>>
    /\ UNCHANGED <<name, cached, past, lockout, target, left, cancelled, syncs,
                   wanted, applied, failed, dropped>>

TaskRenamed(c) ==
    /\ at[c] = "renaming" /\ ~cancelled[c]
    /\ RecordRename(c)
    /\ Finally(c)
    /\ UNCHANGED <<cached, lockout, target, left, cancelled, syncs,
                   wanted, failed, raced, dropped>>

\* Whatever the deferred edit raises is logged, a 429 as well.
TaskFails(c) ==
    /\ at[c] = "renaming" /\ ~cancelled[c]
    /\ failed' = TRUE
    /\ Finally(c)
    /\ UNCHANGED <<name, cached, past, lockout, target, left, cancelled, syncs,
                   wanted, applied, raced, dropped>>

\* CancelledError; an edit under way may have reached Discord, unrecorded.
TaskCancelled(c) ==
    /\ at[c] \in {"asleep", "renaming"} /\ cancelled[c]
    /\ \/ UNCHANGED <<name, applied>>
       \/ at[c] = "renaming" /\ name' = target[c] /\ applied' = [applied EXCEPT ![c] = 0]
    /\ Finally(c)
    /\ UNCHANGED <<cached, past, lockout, target, left, cancelled, syncs,
                   wanted, failed, raced, dropped>>

-----------------------------------------------------------------------------

\* The gateway event of a rename.
GatewayUpdate ==
    /\ cached # name /\ cached' = name
    /\ UNCHANGED <<name, limiter, calls, syncs, ghosts>>

\* What the event loop has ready runs before time passes; only edits take time.
Ready(c) ==
    \/ at[c] = "created"
    \/ at[c] \in {"asleep", "renaming"} /\ cancelled[c]
    \/ at[c] = "asleep" /\ left[c] = 0

Less(n) == IF n > 0 THEN n - 1 ELSE 0

Older(ages) == [c \in Calls |-> IF ages[c] < Window THEN ages[c] + 1 ELSE Window]

Tick ==
    /\ \A c \in Calls : ~Ready(c)
    /\ past' = Older(past) /\ applied' = Older(applied)
    /\ lockout' = Less(lockout)
    /\ left' = [c \in Calls |-> IF at[c] = "asleep" THEN Less(left[c]) ELSE left[c]]
    /\ UNCHANGED <<name, cached, pending, registered, at, target, cancelled, syncs,
                   wanted, failed, raced, dropped>>

Next ==
    \/ \E c \in Calls :
          \/ \E t \in Titles : Sync(c, t)
          \/ EditOK(c) \/ EditLimited(c) \/ EditFails(c)
          \/ TaskStart(c) \/ TaskWake(c) \/ TaskRenamed(c) \/ TaskFails(c)
          \/ TaskCancelled(c)
    \/ GatewayUpdate \/ Tick

Spec == Init /\ [][Next]_vars

-----------------------------------------------------------------------------
(* Properties.                                                             *)

\* Type invariant.
TypeOK ==
    /\ name \in Titles /\ cached \in Titles /\ wanted \in Titles
    /\ past \in [Calls -> 0..Window] /\ applied \in [Calls -> 0..Window]
    /\ lockout \in Nat /\ pending \in Titles \cup {None}
    /\ registered \in Calls \cup {0} /\ syncs \in Calls \cup {0}
    /\ at \in [Calls -> {"new", "editing", "created", "asleep", "renaming", "done"}]
    /\ target \in [Calls -> Titles] /\ left \in [Calls -> Nat]
    /\ cancelled \in [Calls -> BOOLEAN]
    /\ failed \in BOOLEAN /\ raced \in BOOLEAN /\ dropped \in BOOLEAN

\* A title that is pending has a task that will apply it: however calls debounce each
\* other, no title is left behind that nobody is waiting to apply.
Alive(c) == at[c] \in {"created", "asleep", "renaming"} /\ ~cancelled[c]

PendingHasTask == pending # None => \E c \in Calls : Alive(c) /\ target[c] = pending

\* Discord's limit is kept as long as no two edits overlap and no title is asked for while
\* a task stands for it: a deferred task does not ask can_rename again, and one that was
\* forgotten, for a title that is pending once more, wakes before the place it waits for.
WindowRespected == raced \/ dropped \/ Cardinality(Within(applied)) <= MaxRenames

\* When nothing is in flight any more, no edit has failed and none overlapped, the
\* thread has the title the task was last synced with.  It is what the user is told:
\* "thread title will reflect changes shortly".
Settled == ~Unsettled /\ \A c \in Calls : at[c] \in {"new", "done"}

TitleSettles == Settled /\ ~failed /\ ~raced => name = wanted

\* The two ways it goes wrong: a title is asked for again while a task stands for it,
\* and that task, cancelled, takes the title from the list; or the title goes back to
\* the one the thread has, and the one pending is applied all the same.
TitleSettlesUnlessDropped == dropped \/ TitleSettles
=============================================================================
