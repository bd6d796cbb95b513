------------------------------- MODULE Lifecycle -------------------------------
(***************************************************************************)
(* One run of the process: run_app with its three tasks (the API server,   *)
(* the outbox worker, the gateway supervisor start_bot_with_retry), the    *)
(* signal handler and the cleanup.  Of discord.py's Bot only what these    *)
(* use is kept: start() returns once close() has been called, is_closed(), *)
(* is_ready(), and clear(), which opens a closed bot again.                *)
(***************************************************************************)
EXTENDS Integers

CONSTANTS
    MaxAttempt,  \* bound: attempts are counted up to one more
    MaxSignals   \* bound: signals received

ASSUME BoundsAssumption == MaxAttempt \in Nat \ {0} /\ MaxSignals \in Nat

Unlimited == MaxAttempt + 2

VARIABLES
    limit,      \* GATEWAY_MAX_RETRIES, Unlimited for None
    gw,         \* where the supervisor is; "done" without a token
    attempt,    \* its count of attempts
    closed,     \* bot.is_closed()
    ready,      \* bot.is_ready()
    closer,     \* the close task of the signal handler has not started yet
    server,     \* the API server
    worker,     \* the outbox worker
    running,    \* worker._running
    stop,       \* stop_event, and the server's should_exit
    main,       \* where run_app is
    fatal,      \* has_fatal_error
    dbOpen,     \* the engine has not been disposed of
    signals,    \* signals so far
    fruitless   \* history: starts since the bot was last ready

bot  == <<closed, ready, closer>>
vars == <<limit, gw, attempt, bot, server, worker, running, stop, main, fatal,
          dbOpen, signals, fruitless>>

Init ==
    /\ limit \in 0..MaxAttempt \cup {Unlimited}
    /\ gw \in {"check", "done"} /\ attempt = 0 /\ fruitless = 0
    /\ closed = FALSE /\ ready = FALSE /\ closer = FALSE
    /\ server = "serving" /\ worker = "running" /\ running = TRUE
    /\ stop = FALSE /\ main = "wait" /\ fatal = FALSE /\ dbOpen = TRUE
    /\ signals = 0

Exited == main \in {"exit0", "exit1"}

\* Nothing runs after the process has ended.
Alive == ~Exited

\* close() counts as closed at once, and ready ends somewhere on its way.
Close == closed' = TRUE /\ ready' \in {ready, FALSE}

Reopen == closed' = FALSE /\ ready' = FALSE

-----------------------------------------------------------------------------
(* The signal handler.                                                     *)

\* Mutant: the handler forgets the worker.
SignalWithoutWorker ==
    /\ Alive /\ signals < MaxSignals /\ signals' = signals + 1
    /\ stop' = TRUE
    /\ closer' = (closer \/ ~closed)
    /\ UNCHANGED <<limit, gw, attempt, closed, ready, server, worker, running, main,
                   fatal, dbOpen, fruitless>>

Signal ==
    /\ Alive /\ signals < MaxSignals /\ signals' = signals + 1
    /\ running' = FALSE
    /\ stop' = TRUE
    /\ closer' = (closer \/ ~closed)
    /\ UNCHANGED <<limit, gw, attempt, closed, ready, server, worker, main, fatal,
                   dbOpen, fruitless>>

CloseTask ==
    /\ Alive /\ closer /\ closer' = FALSE
    /\ Close
    /\ UNCHANGED <<limit, gw, attempt, server, worker, running, stop, main, fatal,
                   dbOpen, signals, fruitless>>

-----------------------------------------------------------------------------
(* start_bot_with_retry.                                                   *)

Bump(n) == IF n > MaxAttempt THEN n ELSE n + 1

Supervise == UNCHANGED <<limit, closer, server, worker, running, stop, main, fatal,
                         dbOpen, signals>>

GwCheck ==
    /\ Alive /\ gw = "check"
    /\ \/ stop /\ gw' = "done" /\ UNCHANGED <<attempt, fruitless>>
       \/ ~stop /\ gw' = "starting" /\ attempt' = Bump(attempt)
          /\ fruitless' = Bump(fruitless)
    /\ UNCHANGED <<closed, ready>> /\ Supervise

BecomeReady ==
    /\ Alive /\ gw = "starting" /\ ~closed /\ ~ready
    /\ ready' = TRUE /\ fruitless' = 1
    /\ UNCHANGED <<gw, attempt, closed>> /\ Supervise

StartReturns ==
    /\ Alive /\ gw = "starting" /\ closed
    /\ gw' = "done"
    /\ UNCHANGED <<attempt, closed, ready, fruitless>> /\ Supervise

\* LoginFailure, RateLimited, Forbidden and whatever is_transient_gateway_error rejects.
StartFailsFatal ==
    /\ Alive /\ gw = "starting"
    /\ gw' = "failed"
    /\ UNCHANGED <<attempt, closed, ready, fruitless>> /\ Supervise

Exhausted(n) == n >= limit

\* A transient error: the count starts again if the bot was ready, the error is raised
\* once the attempts are used up, else what is still open is closed.
StartFailsTransient ==
    /\ Alive /\ gw = "starting"
    /\ LET n == IF ready THEN 1 ELSE attempt IN
          /\ attempt' = n
          /\ \/ /\ Exhausted(n) /\ gw' = "failed"
                /\ UNCHANGED <<closed, ready>>
             \/ /\ ~Exhausted(n) /\ closed /\ gw' = "backoff"
                /\ Reopen
             \/ /\ ~Exhausted(n) /\ ~closed /\ gw' = "closing"
                /\ Close
    /\ UNCHANGED fruitless /\ Supervise

\* discord.py closes the bot itself when the gateway rejects the session.
ClosedByLibrary ==
    /\ Alive /\ gw = "starting" /\ ~closed
    /\ attempt' = attempt
    /\ \/ /\ Exhausted(attempt) /\ gw' = "failed"
          /\ closed' = TRUE /\ ready' = FALSE
       \/ /\ ~Exhausted(attempt) /\ gw' = "backoff"
          /\ Reopen
    /\ UNCHANGED fruitless /\ Supervise

\* Mutant: the bot that is opened again still seems ready.
CloseDoneOnly ==
    /\ Alive /\ gw = "closing" /\ gw' = "backoff"
    /\ closed' = FALSE
    /\ UNCHANGED <<attempt, ready, fruitless>> /\ Supervise

CloseDone ==
    /\ Alive /\ gw = "closing" /\ gw' = "backoff"
    /\ Reopen
    /\ UNCHANGED <<attempt, fruitless>> /\ Supervise

\* wait_for(stop_event.wait(), delay): the event wins if it is set.
BackoffOver ==
    /\ Alive /\ gw = "backoff"
    /\ gw' = IF stop THEN "done" ELSE "check"
    /\ UNCHANGED <<attempt, closed, ready, fruitless>> /\ Supervise

-----------------------------------------------------------------------------
(* The server and the worker, seen from main.                              *)

Others == UNCHANGED <<limit, gw, attempt, bot, running, stop, main, fatal, dbOpen,
                      signals, fruitless>>

ServerEnds == Alive /\ server = "serving" /\ stop /\ server' = "done"
              /\ UNCHANGED worker /\ Others

ServerFails == Alive /\ server = "serving" /\ server' = "failed"
               /\ UNCHANGED worker /\ Others

WorkerEnds == Alive /\ worker = "running" /\ ~running /\ worker' = "done"
              /\ UNCHANGED server /\ Others

-----------------------------------------------------------------------------
(* run_app.                                                                *)

Failed == gw = "failed" \/ server = "failed"
Ended  == gw = "done" /\ server = "done" /\ worker = "done"

Cleanup == UNCHANGED <<limit, gw, attempt, closer, server, worker, stop, signals,
                       fruitless>>

\* Close the bot and go on at the given place, or skip that.
CloseIfOpen(next) ==
    \/ closed /\ main' = "disposing" /\ UNCHANGED <<closed, ready>>
    \/ ~closed /\ main' = next /\ Close

\* Mutant: wait returns when the first task ends.
WaitOverFirst == gw \in {"done", "failed"} \/ server # "serving" \/ worker = "done"

\* asyncio.wait with FIRST_EXCEPTION.
WaitOver == Failed \/ Ended

MainWait ==
    /\ main = "wait" /\ WaitOver
    /\ fatal' = Failed
    /\ running' = FALSE
    /\ CloseIfOpen("closing")
    /\ UNCHANGED dbOpen /\ Cleanup

\* The first half of container.close, which looks at the bot once more.
MainClosed ==
    /\ main = "closing"
    /\ running' = FALSE
    /\ CloseIfOpen("reclosing")
    /\ UNCHANGED <<fatal, dbOpen>> /\ Cleanup

MainReclosed ==
    /\ main = "reclosing" /\ main' = "disposing"
    /\ UNCHANGED <<closed, ready, running, fatal, dbOpen>> /\ Cleanup

\* Mutant: the process always ends with 0.
DisposedQuietly ==
    /\ main = "disposing" /\ main' = "exit0"
    /\ dbOpen' = FALSE
    /\ UNCHANGED <<closed, ready, running, fatal>> /\ Cleanup

Disposed ==
    /\ main = "disposing" /\ main' = IF fatal THEN "backoff" ELSE "exit0"
    /\ dbOpen' = FALSE
    /\ UNCHANGED <<closed, ready, running, fatal>> /\ Cleanup

\* The crash backoff, which the stop event cuts short.
MainBackoff ==
    /\ main = "backoff" /\ main' = "exit1"
    /\ UNCHANGED <<closed, ready, running, fatal, dbOpen>> /\ Cleanup

-----------------------------------------------------------------------------

Supervisor == GwCheck \/ StartReturns \/ CloseDone \/ BackoffOver
Main == MainWait \/ MainClosed \/ MainReclosed \/ Disposed \/ MainBackoff

Next ==
    \/ Signal \/ CloseTask
    \/ Supervisor \/ BecomeReady \/ StartFailsFatal \/ StartFailsTransient
    \/ ClosedByLibrary
    \/ ServerEnds \/ ServerFails \/ WorkerEnds
    \/ Main

Spec == Init /\ [][Next]_vars

\* What the event loop has to do is done: tasks that were asked to stop do stop, sleeps
\* end, a closed bot returns from start().  Signals, errors and connections may never come.
Fairness ==
    /\ WF_vars(CloseTask) /\ WF_vars(Supervisor)
    /\ WF_vars(ServerEnds) /\ WF_vars(WorkerEnds) /\ WF_vars(Main)

FairSpec == Spec /\ Fairness

-----------------------------------------------------------------------------
(* Properties.                                                             *)

\* Starts that may follow each other: a limit of 0 still allows the first.
Allowed == IF limit = 0 THEN 1 ELSE limit

\* Type invariant.
TypeOK ==
    /\ limit \in 0..MaxAttempt \cup {Unlimited}
    /\ gw \in {"check", "starting", "closing", "backoff", "done", "failed"}
    /\ attempt \in 0..Allowed
    /\ closed \in BOOLEAN /\ ready \in BOOLEAN /\ closer \in BOOLEAN
    /\ server \in {"serving", "done", "failed"} /\ worker \in {"running", "done"}
    /\ running \in BOOLEAN /\ stop \in BOOLEAN /\ fatal \in BOOLEAN
    /\ main \in {"wait", "closing", "reclosing", "disposing", "backoff", "exit0", "exit1"}
    /\ dbOpen \in BOOLEAN /\ signals \in 0..MaxSignals
    /\ fruitless \in 0..(MaxAttempt + 1)

\* However connections come up, are lost, closed and cleared, no more starts in a row
\* than GATEWAY_MAX_RETRIES pass without the bot being ready.
RetryBudget == fruitless <= Allowed

\* Unless a task failed, the database is disposed of only after the server, the worker
\* and the supervisor have ended, with the bot closed, whatever was retried meanwhile.
GracefulClose == ~dbOpen /\ ~fatal => Ended /\ closed

\* A signal ends the process, in whatever phase of connecting it comes.
ShutdownCompletes == stop ~> Exited

\* A task that fails while run_app waits ends the process with an error.
FailureEndsProcess == (Failed /\ main = "wait") ~> (main = "exit1")
=============================================================================
