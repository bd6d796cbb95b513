# DiscordProjectManager in TLA+

DiscordProjectManager (`dgg-pm`) keeps projects and tasks in PostgreSQL, lets a Discord
server work on them through slash commands and buttons, and notifies people through a
transactional outbox.  One asyncio process runs the Discord bot, a FastAPI server and the
outbox worker.  This directory models the parts of it whose correctness depends on
interleavings, failures and restarts, checks them with TLC on small instances, and proves
the central safety properties with TLAPS for instances of any size.

Paths below are relative to `src/` of the repository.  Everything modelled is translated
from the code.  `PROJECT.json` maps every definition to its lines.

## 1. The system

| Component | State | Operations | Interacts with | What is hard |
|---|---|---|---|---|
| Outbox (`adapters/db/repos/outbox_repo.py`, `services/outbox_service.py`) | rows `outbox_events`: status, retries, due time, payload | enqueue (an upsert by idempotency key), fetch, mark, reschedule, cancel, reclaim at start, reclaim on_ready | written by every service in its transaction, drained by the worker | rows are found again by id after an await; a key may be enqueued again |
| Outbox worker (`adapters/worker/outbox_worker.py`) | `_running`, the batch, retry counts | start, process_batch, backoff, stop | outbox, `DiscordNotifier` | crash between dispatch and mark, 429s, database errors, a second process during a restart |
| Task service (`services/task_service.py`, `repos/task_repo.py`) | rows `tasks`, `task_history`, versions | create, update of status, assignee, priority, details, archive, delete | outbox, dependencies, unit of work | READ COMMITTED: every read may be stale at the next statement |
| Task dependencies (`services/task_graph_ops.py`) | rows `task_dependencies` | add, remove; links of a new task | tech tree, task service | check and insert are separate statements, nested blocks |
| Unit of work (`adapters/db/unit_of_work.py`) | session, depth, rollback request, per asyncio context | enter, exit, commit, rollback | all services | re-entrant: the outermost exit decides |
| Tech tree (`domain/tech_tree.py`) | the graph of a guild | validate an edge; node states, layers, bottlenecks, critical path | dependencies, rendering | must end on a graph that already has a cycle |
| Project service (`services/project_service.py`) | rows `projects`, the task counter | create, rename, archive, unarchive, allocate a number | tasks | one UPDATE over many tasks, numbers under concurrent creation |
| Authorization (`services/auth_service.py`, `repos/governance_repo.py`), squads (`services/squad_service.py`) | lead roles and users, squads with their leads, a project's squads and lead | predicates asked before each command; appointing, assigning, clearing; pruning by member events | commands, views, API | predicates written one by one over the same records; Discord's roles change first, the event comes later |
| Notifier (`discord_notifier.py`, `notifier_task_handlers.py`) | none | one handler per event type | worker, workspace, Discord | which errors are swallowed and which are retried, after how many letters |
| Task cards and panels (`task_workspace_actions.py`, `views/task_*.py`) | per open panel: the task it was opened on, what is staged | buttons of the card, panels, dialogs, menus, `/task` commands | task service, authorization, workspace | a panel is open for minutes while others write |
| Task workspace (`task_workspace*.py`) | a thread per task: title, tags, archived flag, starter card | provision, synchronise, archive | notifier, views, rename limiter | edits that partly fail, a stale cache of the thread |
| Rename limiter (`thread_rate_limiter.py`) | per thread: past renames, lockout, pending title, deferred task | can_rename, record, request, deferred run | workspace | debounce by cancelling tasks, whose `finally` runs later |
| Gateway supervisor and main (`gateway_supervisor.py`, `main.py`, `container.close`) | attempts, stop event, the bot's closed and ready flags | connect with retry, signals, wait, cleanup | bot, server, worker | closing and reopening the bot from three places |
| Forum tags and hub (`views/forum_tags.py`, `views/forum_helpers.py`) | a forum's tags and its pinned hub message, on Discord | add, remove, prune, mount, refresh | project workspace, project handlers | one list of tags shared by projects, read from a cache and written back whole |
| Project workspace and rebuilder (`project_workspace.py`, `project_rebuilder.py`) | forum of a project, thread of a task | provision, rebuild, archive, restore | project and task services, forum tags | made on Discord first and recorded later |
| Menu sessions (`menu_manager.py`, `views/base_view.py`) | the open menu of each user, the interaction each view holds | register, time out, toast, close | views | which message the original response of an interaction is |
| Commands, views, API, calendar, preferences, seeding, rendering, migrations | little or none | input, output, formatting | services | listed one by one in `PROJECT.json` |

What makes them correct:

- outbox and worker: an event marked PROCESSED was sent; events are sent at least once and
  resent only after a fault; none is given up early; a cancelled reminder stays silent;
  every event is settled in the end;
- tasks: the history replays to the status; no notification replaces another under its key;
  reminders fit the due date; the last completed prerequisite announces its dependent;
- dependencies and unit of work: a creation is stored whole or not at all, rows become
  visible at the outermost exit only, numbers have no gaps, the graph stays acyclic;
- tech tree: the verdict on an edge is right and the reported cycle is one;
- rename limiter: a pending title has somebody to apply it, Discord's limit is kept, the
  last title arrives;
- process: it ends after a signal or a failure, in whatever phase, and in the right order;
- authorization: a lead record does not outlive the role, an assignment of roles gives the
  rights it says, and one that fails half way puts nothing beside the old squads;
- cards and panels: what is written is what the user was shown, edited and confirmed;
- task workspace and notifier: once all is quiet the thread shows the task; everybody
  concerned is told of an event once;
- menus: public messages stay, a user has one open menu, a shown page has items (but for the
  pages of `/task list` beyond the tasks it fetches);
- projects: tags, hub and threads show what is stored.

## 2. The modules

| Module | Models | Extended by |
|---|---|---|
| `Outbox` | table, repository, service and worker, with a clock | `MCOutbox`, `OutboxProofs` |
| `Delivery` | what the outbox promises for an event, without rows, workers or time | instantiated by `Outbox` |
| `TaskService` | the transactions on existing tasks, statement by statement | `MCTaskService`, `TaskServiceProofs` |
| `TaskGraph` | creation and linking of tasks in nested units of work | `MCTaskGraph`, `TaskGraphProofs` |
| `TechTree` | the search of `validate_edge`, and the cycle it reports | `MCTechTree`, `TaskGraphProofs` |
| `ThreadRename` | the title of one thread: synchronisation and rename limiter | `MCThreadRename`, `ThreadRenameProofs` |
| `TaskCards` | what users do to one task through panels, dialogs, menus and commands | `MCTaskCards`, `ThreadRenameProofs` |
| `Governance` | roles, squads, leads and a project's squads, with the predicates over them | `MCGovernance`, `GovernanceProofs` |
| `Workspace` | the thread of one task under requests, notifier, worker and Discord | `MCWorkspace`, `WorkspaceProofs` |
| `MenuSession` | messages, views, toasts and the registered menu of a user | `Menus` |
| `Menus` | the handlers of the hub, the menus, the wizards and the cards, and the commands that open them: what they send, edit and delete (section 5 lists the handlers left out) | `MCMenus`, `MenusProofs` |
| `Provisioning` | forums, hubs and threads of projects that share a forum | `MCProvisioning`, `ProvisioningProofs` |
| `Lifecycle` | one run of the process: supervisor, signals, wait, cleanup | `MCLifecycle`, `ProvisioningProofs` |

Definitions whose comment starts with "Mutant" are not part of any specification.  Each is
an operation as a plausible bug would have it; put in the place of the operation, TLC finds
the property violated that is meant to notice (`PROJECT.json`, "mutants").

**Outbox.**  A row is its idempotency key, as the upsert of `enqueue` keeps id and
created_at.  Times are relative: `due` and `age` move with `Tick`.  Each worker has a `pc`,
and its actions are the stretches between awaits: `Start` (the reclaim included), `Fetch`
(the CTE that takes due rows oldest first), `DispatchOK`, `DispatchFail`, `MarkProcessed`,
`RescheduleOrFail` and so on; `Crash` ends a process anywhere and `DbFault` is a repository
call that raises.  Clients enqueue, reschedule and cancel between any two of them.
`delivered` means that `dispatch_event` took effect: `DiscordNotifier` swallows most errors
of direct messages and threads itself, which this model does not look into.

**TaskService.**  One action per SQL statement of a transaction.  A SELECT sees what is
committed, an UPDATE waits for the writer of its row and then sees the new row
(`UpdateStatus` compares the version there, as `update_status_cas` does), writes stay in
`write`, `remind`, `enqueued` and `entry` until `Commit`.  `Abort` is a rollback, also the
one PostgreSQL chooses when two transactions wait for each other.  All reminder tiers of a
task are one, since every operation treats them alike.  `Link` adds or removes a dependency
from another coroutine, whole; `TaskGraph` has its inside.  Two histories record what the
state does not show: `raced` (statements of two calls overlapped on a task), and `moved`, per
client, the dependents of which another transaction has changed what this one had read.

**TaskGraph.**  `depth` and `doomed` are the context of `SqlAlchemyUnitOfWork`; `Enter`,
`ExitInner` and `ExitOuter` are `__aenter__` and `__aexit__`.  `create_task` calls
`add_dependency` for each prerequisite: those given as an argument raise, those parsed from
the body are caught and dropped.  The edge check reads what is committed, which is where
two calls can miss each other (`raced`).

**TechTree.**  One action per queue entry of the breadth-first search (`Visit`) and one
for the walk back over `parent_map` (`Trace`).  Neighbours come in any order, as the query
has no ORDER BY.

**ThreadRename.**  The dictionaries of the limiter are keyed by thread, so one thread is
modelled.  A call is one run of the title half of `sync_task_workspace_state`, with the
deferred task it may leave behind.  asyncio is modelled as it is: cancelling a task that
never started drops it without its `finally`; one that sleeps or edits runs it at its next
turn, after its successor is registered; callbacks that are ready run before time passes,
and only calls to Discord take time.  The immediate edit of `request_rename` is not there:
its only caller asks `can_rename` first.

**Lifecycle.**  `run_app` with its three tasks.  The bot is external and kept to what the
code uses: `start` returns once `close` was called, `is_closed` is true from the beginning
of `close`, `clear` opens it again and makes `is_ready` false.  The supervisor, the close
task of the signal handler and the cleanup all close the same bot; the supervisor may open
it again.  A limit of retries is chosen in `Init`, None included, as is a run without a
token.

**TaskCards.**  Each user has one panel or handler (`form`) with the task it read.  A handler
is cut where it awaits Discord, the user or another transaction; a call of `TaskService` is
one step (`Put` compares the version, as the service does), since `TaskService` says what
happens inside.  `SaveGroup` is one of the three groups `save_task_controls_state` writes.

**Governance.**  `here` and `holds` are Discord's side, `squad`, `leads`, `teamUsers`,
`teamRoles`, `mapped` and `lead` the tables.  A change on Discord leaves an event, which
`OnMemberUpdate` or `OnMemberRemove` handles later, or which is lost.  The handlers of the
project's role menu run one transaction per squad; an assignment removes the old squads first
(`Dropped`), may fail between any two transactions (`Give`), and notes the squads that others
map or unmap meanwhile (`theirs`).

**Workspace.**  The thread has a card, tags and an archived flag; each is written from a task
its writer read some awaits ago.  Requests of users, the worker with the notifier's handlers
(`Letters` says who is written to, `Tell` which errors are swallowed), `sync_workspace` with
its await between opening, editing and closing an archived thread, refused calls, a crash, and
Discord archiving a thread by itself are interleaved.  The composition with the outbox keeps
of it what matters here: an event waits, is dispatched, tried again, given up.

**MenuSession, Menus.**  A message has a kind and the interaction its view holds; the
original response of a click is the message that was clicked or the one that was sent,
depending on how the handler answered, and that is what a timeout, a toast or `register_menu`
deletes.  A handler is atomic but for the await of `register_menu`.  Back buttons lead to any
view that could have been there; search, filter and date inputs are redraws of their view.

**Provisioning.**  A handler is a script: a sequence of the steps between awaits, chosen by
`CreateScript`, `ArchiveViewScript`, `CommandScript` and `RebuildScript`.  Discord has the tags
and threads, the bot's cache of them lags.  `ListTasks` returns the newest tasks up to the
`Limit` of its query (50 in the archive commands, 500 in the views, 1000 in rebuild); a thread
is made in the forum of the project's row, which is read again (`Home`).  `stain`, `loose` and
`stray` note which forum or thread was last written from something out of date, or not at all as
Discord refused; a later undisturbed handler clears them.  Three other excuses are the code's
own: a rebuild that finds no forum has restored the project by then and leaves its threads as
they are (`loose`); a handler leaves the tasks beyond the limit of its list as they are
(`loose`, set for just these by `Unseen`); and a handler that was overtaken writes what it read,
so that nothing is expected of it.

## 3. The runs

| Run | Question | Instance |
|---|---|---|
| `outbox_delivery` | does the outbox keep its promises, and implement `Delivery`? | one event, one reminder scheduled twice, one worker, one crash, one failed write |
| `task_service` | do concurrent updates leave history, keys and reminders consistent, and is a dependent announced exactly when its last prerequisite is completed? | two instances, both with two clients that overlap: on one task, all its operations, two due dates, versions up to 3; and on a task and its two prerequisites, which they complete, reopen, delete, archive and link, up to five changes (`MaxWork`) |
| `graph_create` | are creation and linking atomic, numbered without gaps, acyclic? | two clients, three tasks, two links per creation |
| `techtree_edge` | is the verdict on an edge right? | every graph on four tasks, every edge, every order of rows |
| `rename_debounce` | does the debounced title arrive, within the limit? | three titles, four calls, two renames in a window of two ticks |
| `lifecycle` | does the process keep to its attempts, end, and clean up last? | limits 0 to 3 and none, two signals |
| `task_cards` | does a panel write only what its user was shown, edited and confirmed? | a creator and a lead, one other task, twelve ways to change the task, versions up to 3 |
| `governance` | do leads keep their role, is an assignment exact, does a failed one stay on one side? | an administrator and a member, two roles of one name, two squads, every operation, one event on its way, one team lead, role or member |
| `workspace` | does the thread end up showing the task, is everybody told once? | two users with five kinds of requests, three events, two changes, two tries, one fault |
| `menus` | does nobody delete a message that is not theirs? | one user, four clicks, two ephemeral messages, one refused deletion; pages of two, three items |
| `provisioning` | do tags, hub and threads show what is stored? | three projects on a forum they share, two tasks of one project of which the commands list one, two users, two operations, two faults |
| `archive_cascade` | a disagreement, section 6 | one archive, one task |

Why the bounds are enough.  *Outbox*: two keys of the two kinds interact through the batch; two
generations of the reminder are the least that can be confused; two retries distinguish the
first, an intermediate and the last attempt, and a retention of two ticks is reached before and
after them; one crash and one fault fall at every point. Ages are counted to the retention or
the lookback only, as nothing looks further.  *TaskService*: its races are between two
transactions; the version bound 3 lets both write, one try again, and a status go back and
forth. `MCTaskService` tells its two instances apart by the due dates of the prerequisites,
which nothing changes; the constraint `Instance` keeps each to its operations and cuts no
interleaving of them, and five changes are two completions, a reopening and two more in between.
*TaskGraph*: three tasks give every cycle two overlapping insertions can close, longer chains
being paths through `Reaches`.  *TechTree*: four tasks have cycles beside, before and on the way
of the search; the proofs lift this.  *ThreadRename*: with four calls the limit of two is
filled, one call is deferred and one replaces it; a third title distinguishes "the old", "the
pending" and "the new".  *Lifecycle*: three attempts put every limit below, at and above the
failures before a success.  *TaskCards*: a save has three groups, so one other user's write
falls before, between and after them; the version bound allows two writes.  *Governance*: two
squads of one role, and two roles of one name, are the least that can be confused;
`FewTeamLeads` keeps one role or one member as team lead, as they do not meet there.
*Workspace*: two changes give one that overtakes another; two tries are a failure and a success.
*Menus*: four clicks reach every view from a command or the hub, and leave one more for what it
left behind; two messages are the least `OneMenu` speaks of.  *Provisioning*: two projects share
a forum and a third joins it; slots for one tag less than all; two faults put a thread between
its making and its record twice; two tasks and a limit of one put a task on either side of the
limit, and three threads are one for each and a second of either. Clients, titles, tasks and
events are interchangeable, so symmetry is used in the runs without temporal properties that are
liveness.

Deadlock is checked where something can always happen.  It is off where the system comes
to rest: `task_service` and `task_cards` (the task is deleted or the version bound is
reached), `techtree_edge` (the search ends), `rename_debounce`, `workspace`, `menus` and
`provisioning` (calls, requests, clicks and operations are bounded), `governance` (nobody may
ask for anything any more) and `lifecycle` (the process ends).

**Fairness.**  `Outbox!FairSpec`: time passes, and a worker that can take a step takes one,
as an asyncio loop guarantees to a coroutine that is not blocked; a start is such a step,
because the process is restarted by its platform.  Clients, crashes and faults are never
forced.  `EventuallySettled` assumes besides that the database calls succeed and the worker
is not stopped again and again; a delivery that always fails is given up on, by the retry
count.  `TechTree!FairSearch`: the loop goes on.  `Lifecycle!FairSpec`: tasks asked to stop
stop, sleeps end, a closed bot returns from `start`, `run_app` goes on; signals, errors
and connections may never come.

## 4. What is proved

All for any values of the constants that satisfy the named assumptions, which only say that
bounds are natural numbers and sets of names are disjoint or finite.

- `OutboxProofs`: `TypeCorrect`, and `ProcessedIsDelivered`: an event enqueued once is PROCESSED
  only if it was dispatched, for **any number of workers**, crashes and faults (TLC checks one
  worker).  The property is not inductive: the mark is made by id, so one must know that whoever
  is about to mark the head of its batch has sent *this* payload.  The invariant adds `HasBatch`
  (where a worker is says whether it has a batch), `OneGeneration` (rows and snapshots of such
  an event are of its only enqueue) and `MarkedIsSent`.  `OnlyTheRaceLoses` and
  `WithdrawnIsSilent` say the same of reminders, whose rows are enqueued again: one is lost, or
  sent after it was withdrawn, only if it was rescheduled or cancelled in flight, stranded or
  FAILED.  They rest on `Current` (a snapshot is of the payload its row holds, or its key is in
  `missed`) and `Silent` (what was withdrawn is queued or in a batch only if its key is in
  `missed`).  Under the assumption `Alone` that **one** worker runs, the second half of the
  module has `Implements`, the refinement of `Delivery`, and `NothingTwice`: without a crash, a
  failed write, or a call that raised although it had succeeded, nothing is sent twice.  The
  invariant adds `Claimed`: every row of the batch is still PROCESSING, and is there once, so
  whoever marks by id marks what it fetched.  A second worker that starts meanwhile reclaims
  these rows and breaks it.  `NotAhead`, `Unsent` and `QueuedUnsent` then say that what is
  queued or in the batch has not been sent, but for the head that is about to be marked.
- `TaskGraphProofs`: `TypeCorrect`; `Sequential`, as whoever has a number holds the
  project's row; `Atomic`, by `Linked`: a prerequisite given as an argument has yet to be
  linked, is being linked, or is written; `StaysAcyclic`: no cycle unless two `add_dependency`
  calls overlapped between check and commit.  Its invariant says that at most one checked edge
  is on its way and still closes no cycle.  Two facts on graphs carry it: an edge closes a
  cycle only if there was a way back, and a new task, to which nothing points, is on no way
  between two old ones.
- `TaskServiceProofs`: `TypeCorrect`, four invariants and two action properties, for any
  clients, tasks, dates and versions.  The invariant describes each transaction by its
  statement: what it has written is the committed row changed as its operation says
  (`Rewrites`), one writer at a time per row (`OneWriter`), so that nothing committed since its
  UPDATE is undone.  `History`: the entry a transaction carries begins with the status it
  replaces, because the compare-and-swap holds the row.  `KeysFresh`: a key carries the version,
  versions only grow, and of two clients that carry one version of a task only one holds the
  row.  `RemindersFit` and `RemindersKept` need no order of commits: a reminder written with the
  row it was computed from fits, and who computed it from an older row has overlapped
  (`raced`).  `UnblocksAnnounced` and `AnnouncedRightly` are about `update_status`, which reads
  the dependents and their prerequisites one SELECT at a time while others complete, reopen,
  delete, archive and link.  What it reads may be changed behind it, and then the promise is
  not kept (section 6); both properties except the dependents of which just that has happened
  (`moved`), and no others: a change before the SELECT that reads it, or of another task, is no
  excuse.  `Looked` says that what is in hand was there when it was read, `Rightly` that who is
  announced is blocked by the task in hand only (`Freed`), `NoneMissed` that who is freed is
  announced, in evaluation or still in `todo`, each unless the task is in `moved`.
- `GovernanceProofs`: `TypeCorrect`; `LeadsAreKept`; `AssignedExactly`, whatever others do to
  the squads of the project while an assignment runs, but for the squads they have touched;
  `FailedOnOneSide`.  Handlers run over many steps here, so the invariant says what one may rely
  on: whoever is to be named has the roles, or the handler knows it is late (`InTime`), and how
  far an assignment has come (`Progress`): while it takes away it has added nothing, and what it
  has added is there, or others have touched it, or another squad has its name.
- `MenusProofs`: `PublicIsolation`, for any number of clicks, messages and refused deletions.
  Every place that stores an interaction (a view, a timer, the registered menu, a dialog, a
  `register_menu` that waits) stores one whose original response is ephemeral, or none.
  `AtMostOneMenu` adds `Orderly`: a menu that is there is the registered one, and the call of
  `register_menu` that is about to delete it saw it when it began.  `PagesShowItems` rests on the
  arithmetic of pages (`PageRight`): the button for the next page is there only if that page
  has counted items.  That the items of a `/task list` may be counted and not fetched is an
  exception of the property and of the theorem.
- `TaskGraphProofs` also has what is proved of `TechTree`: `SearchTypesKept`; `AcceptedIsSafe`:
  on every finite graph an accepted edge keeps an acyclic graph acyclic; `RefusedIsCycle`: the
  reported chain is a path of dependencies.  The invariant says that every visited task has its
  successors visited or queued, so at the end the visited set is closed under dependency and
  separates the two tasks, and that `parent_map` leads back to the start.  `SearchDecidesValid`
  joins the two modules: on the tasks of a project the search accepts exactly the edges for
  which `Valid` of `TaskGraph` finds no way back (`Reaches`); that it refuses only these needs
  `Confined`, which says that all the search has reached lies on a way from the prerequisite.
- `ThreadRenameProofs`: `TypeCorrect`, and `PendingIsAttended`: a pending title always
  has a live task that will apply it.  `Future` and `Fresh` say that a call that has not
  begun, or is still in its own edit, has no cancelled task; with them the pairing of title
  and task survives the late `finally` of a cancelled predecessor, which removes the title
  only when it is its own, and then nothing is pending.  `LimitKept` and `TitleArrives`
  rest on `Steady`, which says where in its window every edit falls, who has a place reserved,
  what the last edit was and which title comes last; it holds as long as no two edits overlap
  and no title is asked for while a task stands for it (`raced`, `dropped`).
- `WorkspaceProofs`: `TypeCorrect`, `ToldOnce` and `ThreadShowsTask`, for any number of
  handlers beside the worker, any users, preferences and bounds, crashes and refused calls.
  `HandlerInv` says what the place of a handler tells of it: who read the task after its last
  change has it as it is (`Current`), and the worker's place fits the event it has (`Busy`).
  `ToldInv` adds that until an event's activity is posted nothing has been said, that of the
  users it concerns those are told who have no letter left (`Told`), and that what waits in
  the queue has told nobody (`Fresh`): so a retry repeats nothing.  `ThreadShowsTask` is about
  handlers that overtake each other, and its invariant is a debt (`Owed`): a part of the
  thread that need not be excused shows the task, or a syncing event waits, or some handler
  will still write that part from the task as it is (`Will`).  A handler that was overtaken
  owes nothing; the one that overtook it, or the event it left, does.  The archived flag in
  the bot's cache is wrong only while the flag is excused or about to be written (`Cache`),
  since the code decides by the cache whether to open a thread before it edits it.
- `ThreadRenameProofs` also has the proofs of `TaskCards`, all five properties that its run
  checks, for any users, values and versions.  The invariant describes each panel by where its
  handler stands: until a save has written a group, it compares with the row that was shown
  (`Unwritten`), and what is staged was edited and allowed (`Drafted`); who starts or completes
  without being asked to confirm saw nothing that blocks (`Unblocked`); what was read is the
  present row or an older version (`Read`); who claims saw nobody on the task (`Claimed`); and a
  selection drops only what its menu showed (`Chosen`).  The proof of `RefusedSaveIsClean`
  showed that the property had leaned on the bound of the versions: a write that the bound
  forbids had counted as a refusal.
- `ProvisioningProofs` has three parts, for any projects, forums, tasks, users and faults.
  *Threads*: a script is described by what is left of it, and `ThreadInv` says what each handler
  still owes.  A thread that is not as its row says will be written by a handler that has listed
  the task or is going to (`Owes`), or the task was beyond the limit of a list; a thread that
  rebuild has made and not recorded is known to nobody else (`Unrecorded`); and while one is
  pending the recorded one is gone, so that a task has one thread (`Single`).  At rest nobody
  owes anything, which is `ThreadsShowTasks`.  *Forums*: the same argument for tags and hubs.  A
  tag that is amiss has somebody who will mend it (`Mends`), by reading it afresh, by being
  about to treat it, or by knowing that it was overtaken and marking the forum; a hub that is
  behind has somebody who will redraw it (`Redraws`); else the forum is marked (`stain`).  A
  project that a rebuild is about to bind to another forum is exempt until it is bound (`Mine`).
  At rest this is `ForumShowsProjects`.  *Lifecycle*: `TypeCorrect` (the attempts stay within
  the limit), `BudgetKept` and `ClosedGracefully`.  The invariant says where the supervisor has
  an attempt left, that its count covers the starts since the bot was ready (hence `clear` must
  make `is_ready` false before the next start), and that in a cleanup without failure everybody
  who could reopen the bot has ended.

Only model-checked: liveness (`EventuallySettled`, `Terminates`, `ShutdownCompletes`,
`FailureEndsProcess`), which the prover does not do under fairness.  Every other property of the
passing runs is proved of `Spec`.  Some type invariants are proved without being checked in a
run: they describe the variables, and the runs have better questions.

## 5. What is not modelled

Text: titles, embeds, date parsing, calendar and rendering; the length of the backoff
of the supervisor and its jitter; `init_db` and its retries, before anything else runs.
Discord beyond "a call succeeds, raises, or raises although it succeeded", and the lag of the
bot's cache.  Fields of a task that no handler branches on.  uvicorn ends the process itself
when its port is taken; of the server only "serves, ends when told, or raises" is modelled.

Within the modelled components: the flags by which a caller of `sync_workspace` leaves a part of
the thread out (title, card, tags, archived flag are each written or not anyway, as others
overtake); the messages of the blocked prompt, the dependency panel, the delete dialog and the
note modal, and the refresh of a card, in `Menus` (what these handlers write is in `TaskCards`);
`/pm project setup-forum`, which adds the standard tags to a forum (`project_cog.py:307`), and
the archiving of a thread by Discord itself, in `Provisioning` (the latter is in `Workspace`);
the watchers of a task, which two handlers replace as a whole list; hubs that are pinned in a
text channel; the layout and wording of views.  Some code has no caller and is left out:
`sync_control_hub`, `rebind_channel`, `build_squad_menu` with the five views it leads to,
`TaskEditModal`, the immediate edit of `request_rename`.

The components with status `not_modelled` in `PROJECT.json` are pure functions, drawing,
single upserts, configuration, or read-only: the dashboard and the calendar feed read what
the services wrote, and nothing in them waits and writes.  The analysis half of
`domain/tech_tree.py` (states, layers, bottlenecks, critical path) computes over one graph
without any step another could see.

## 6. Where the code and what is said about it differ

The first is the run `archive_cascade`.  The others have a configuration beside the
runs, under the name given, with which TLC ends with a trace.

1. `archive_cascade` (`ArchiveCascades`).  The archive view lists the project's tasks, then
   archives the project with its tasks, and hands the old rows to `sync_task_thread`, which
   ignores its `action`: the threads of open tasks stay open, and the message says the tasks
   have been archived.
2. `outbox_reminder_race` (`ReminderNotLost`).  A reminder is rescheduled after its old
   payload was dispatched and before `mark_processed`: the new one is marked PROCESSED and
   never sent.  `README.md:37` promises guaranteed delivery.  `ReminderLostOnlyByRace` shows
   that with one worker there is no other way.
3. `outbox_stall` (`StallIsReclaimed`).  If `reschedule_or_fail` raises, the batch stays
   PROCESSING until a restart; the docstring of the reclaim (`outbox_repo.py:217`) speaks of
   "after a stall".
4. `task_unblock_race` (`EveryUnblockIsAnnounced`).  Two prerequisites completed at the same
   time do not see each other, and nobody is told that the dependent is unblocked
   (`docs/SPEC.md:60`).  `UnblockIsAnnounced` names this as its exception.
5. `graph_returned` (`ReturnedIsStored`).  A prerequisite in the body that cannot be linked
   is caught, but has already requested the rollback of the outer block: the creation is
   undone and the task returned to the user (`task_service.py:158`).
6. `rename_repeated` (`TitleSettles`).  A title is deferred, the task goes back to the
   title the thread still has, nothing is done about it, and the deferred title is applied
   (`views/task_modals.py:241`).
   `TitleSettlesUnlessDropped` shows that, where no edit fails and no two overlap, besides
   this only asking again for a title already deferred goes wrong: the cancelled task's
   `finally` takes the pending title with it.  It also forgets the successor, which sleeps on
   and, when its title is pending again, renames without asking `can_rename`, before the place
   it was to wait for: one rename over the limit.  It takes five calls, one more than the run
   has, and was found when `WindowRespected` could not be proved without this exception.

Observed while reading, without a run of its own:

- a reminder that is cancelled while its row is FAILED or in flight is still sent
  (`adapters/discord_bot/views/task_delete_view.py:42` has the user believe otherwise);
  `WithdrawnWhileQueuedIsSilent` excludes those;
- the 48 hours of retention count from created_at, which a rescheduled row keeps;
- a worker that starts beside another reclaims rows that are in flight there;
- `delete_task` cancels reminders before it locks the row and `update_details` compares
  with the due date it read first, so an overlap leaves a reminder that does not fit
  (`raced` in `RemindersFitTask`);
- two `add_dependency` calls can close a cycle between them (`raced` in `TechTreeIsDag`), on
  which `critical_path` would recurse without end;
- when another task has failed, a supervisor in its backoff may connect again during the
  crash backoff of `run_app`;
- `archive_project` leaves the reminders of its tasks pending (these tasks are in `raced`,
  too), and `unarchive_project` also opens the tasks that were archived one by one
  (`project_service.py:125`);
- a 429 of a deferred rename is neither recorded as a lockout nor tried again, and a later,
  shorter `retry_after` replaces a longer lockout (`thread_rate_limiter.py:76` and `:161`).

On the Discord side; where a property speaks of it, its excuse is named:

- two `register_menu` calls of one user can leave a menu open that nobody closes
  (`menu_manager.py:57`; an excuse of `OneMenu`), and a regenerated calendar link forgets
  its menu, as `update_interaction` is asked before the answer (`calendar_feed_view.py:122`);
- a view that has been replaced still times out, and deletes the message its successor shows
  (`base_view.py:76`); only public messages are claimed to survive;
- `/task list` counts tasks beyond the 100 it fetched and turns to empty pages
  (`task_cog.py:273`; the last disjunct of `PageShowsItems` is just these pages);
- the archive command and its counterpart sync the newest 50 tasks only (`project_cog.py:222`
  and `:273`, `task_service.py:509`), the views 500 and rebuild 1000: the threads of the others
  stay as they were, open though their tasks are archived (`Unseen`, an excuse of
  `ThreadsShowTasks`);
- an assignment of roles that fails after the old squads have gone may leave a project without
  roles, which is open to everybody (`project_roles.py:155`; `FailureNeverMixes` allows it);
- an activity posted after the sync of a completed task opens its thread again
  (`discord_notifier.py:200`), threads missing from the cache keep CHANNEL users from being
  told (`:362`), and a reminder goes to the assignee at the time it was scheduled (`:228`);
- discord.py swallows the assignment to `available_tags`, so two edits of a forum undo each
  other until Discord's update arrives (`forum_tags.py:400`; `stain`);
- a project named like a standard tag keeps that tag from being made (`forum_tags.py:228`);
- an error of `fetch_channel` counts as a missing thread, and rebuild makes a second
  (`project_rebuilder.py:236`; `stray`); a crash between making and recording leaves an
  orphan thread or forum;
- rebinding a project leaves its tag and hub in the old forum, and a rebuild that finds no forum
  leaves the project it has restored with closed threads (`project_rebuilder.py`);
- "Cancel" in the prerequisites dialog of a new task keeps the change
  (`task_builder_inputs.py:318`), and its confirm button creates twice when clicked twice
  (`task_builder.py:342`);
- of several squads with one role, `on_member_update` prunes one (`bot.py:361`; an excuse of
  `LeadsHoldTheirRole`).

## 7. Plan

Done: the components whose handlers meet in state they read across an await, in the order
outbox, tasks, dependencies, tech tree, renames, process, cards and panels, governance,
workspace, menus, provisioning.

Next, in order of weight: a register with a log as the abstract specification of a task,
implemented by `TaskService`; the analysis half of `TechTree` as recursive functions against
reference definitions; the tokens of the calendar feed.
