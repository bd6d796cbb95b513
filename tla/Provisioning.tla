---------------------------- MODULE Provisioning ----------------------------
(***************************************************************************)
(* The Discord presence of projects: the tags and the pinned hub of the    *)
(* forums they are bound to, and the threads of their tasks, as they are   *)
(* left by the handlers that create, archive, restore and rebuild projects *)
(* at the same time.  A handler is a script of steps, one per await whose  *)
(* outcome others can see; what it read it keeps.  discord.py caches the   *)
(* tags and the threads of a forum: a handler reads the cache, and Discord *)
(* brings it up to date some time after an edit.                           *)
(***************************************************************************)
EXTENDS Integers, Sequences, FiniteSets

CONSTANTS
    Projects,    \* projects, or names of projects that do not exist yet
    Bound,       \* the forum a project has when the model begins, or NoForum
    Forums,      \* the forums of the server, and those it may get
    NoForum,
    Tasks,       \* the tasks, each of the project Owner[t]
    Owner,
    Born,        \* when the task was created
    Limit,       \* how many rows a handler's list_tasks returns at most
    Std,         \* the standard tags, as one
    Slots,       \* the tags a forum can have: Discord's limit, less other tags
    Actors,      \* concurrent users
    Ops,         \* the operations they perform
    MaxOps,      \* bound: operations
    MaxThreads,  \* bound: threads of tasks
    MaxFaults    \* bound: refused calls, crashes and deletions by others

AllOps == {"create", "archive", "archive_cmd", "restore", "unarchive_cmd", "hub", "rebuild", "task"}

ASSUME ProvisioningAssumption ==
    /\ NoForum \notin Forums /\ Bound \in [Projects -> Forums \cup {NoForum}]
    /\ Owner \in [Tasks -> Projects] /\ Std \notin Projects
    /\ Born \in [Tasks -> Nat] /\ (\A s, t \in Tasks : Born[s] = Born[t] => s = t)
    /\ Limit \in [AllOps -> Nat]
    /\ Slots \in Nat \ {0} /\ Ops \subseteq AllOps /\ IsFiniteSet(Tasks)

VARIABLES
    proj,    \* the rows of the projects
    task,    \* the rows of the tasks; thread 0 is "none recorded"
    forum,   \* what Discord has of a forum, and what the bot's cache has of it
    thread,  \* the threads Discord has made for tasks, in order
    act,     \* per actor: the steps left and what it has read
    stain,   \* forums whose tags or hub were last written from a list that had
             \* changed since it was read, or not at all as Discord refused
    loose,   \* tasks of whose thread the same is true, or whose thread is deleted,
             \* or that a handler has not seen beyond the limit of its list
    stray,   \* tasks for which a thread was made beside one that is there
    count    \* how much of the bounds is used

presenceVars == <<proj, task, forum, thread, act, stain, loose, stray, count>>

Live(f) == {p \in Projects : proj[p].made /\ ~proj[p].archived /\ proj[p].forum = f}
Gone(f) == {p \in Projects : proj[p].made /\ proj[p].archived /\ proj[p].forum = f}
Closed(r) == r.done \/ r.shelved
There(id) == id \in DOMAIN thread /\ thread[id].here

Idle == [op |-> "none", steps |-> << >>, name |-> {}, forum |-> NoForum, live |-> {}, gone |-> {},
         todo |-> {}, list |-> << >>, clean |-> FALSE, new |-> 0]

Empty == [there |-> FALSE, tags |-> {}, seen |-> {}, hubs |-> << >>, known |-> 0]

\* The projects that exist have been provisioned, their tasks have threads.
PresenceInit ==
    /\ proj = [p \in Projects |-> [made |-> Bound[p] # NoForum, archived |-> FALSE, forum |-> Bound[p]]]
    /\ LET order == CHOOSE o \in [Tasks -> 1..Cardinality(Tasks)] :
                       /\ \A s, t \in Tasks : o[s] = o[t] => s = t
                       /\ \A i \in 1..Cardinality(Tasks) : \E t \in Tasks : o[t] = i
           of(i) == CHOOSE t \in Tasks : order[t] = i
       IN  /\ task = [t \in Tasks |-> [done |-> FALSE, shelved |-> FALSE, thread |-> order[t]]]
           /\ thread = [i \in 1..Cardinality(Tasks) |->
                 [of |-> of(i), here |-> TRUE, shut |-> FALSE, on |-> Bound[Owner[of(i)]]]]
    /\ forum = [f \in Forums |->
          LET ps == {p \in Projects : Bound[p] = f} IN
              IF ps = {} THEN Empty
              ELSE [there |-> TRUE, tags |-> ps \cup {Std}, seen |-> ps \cup {Std},
                    hubs |-> <<ps>>, known |-> 1]]
    /\ act = [x \in Actors |-> Idle]
    /\ stain = [f \in Forums |-> FALSE]
    /\ loose = [t \in Tasks |-> FALSE]
    /\ stray = {}
    /\ count = [ops |-> 0, faults |-> 0]

Fault == count.faults < MaxFaults /\ count' = [count EXCEPT !.faults = @ + 1]
Same == UNCHANGED count

At(x, s) == act[x].steps # << >> /\ Head(act[x].steps) = s
Done(a) == IF Len(a.steps) = 1 THEN Idle ELSE [a EXCEPT !.steps = Tail(@)]
Step(x, a) == act' = [act EXCEPT ![x] = Done(a)]

-----------------------------------------------------------------------------
(* The handlers.                                                           *)

\* ensure_pinned_hub_post
HubPost == <<"read", "prune", "setup", "ensure", "hub">>

CreateScript == <<"apply", "setup", "own">> \o HubPost
ArchiveViewScript == <<"list", "apply", "sync", "untag">> \o HubPost
CommandScript == <<"apply", "list", "sync">> \o HubPost
RebuildScript == <<"apply", "bind", "setup", "own">> \o HubPost \o <<"list", "sync">>

Script(op) ==
    CASE op = "create"  -> CreateScript
      [] op = "archive" -> ArchiveViewScript
      [] op = "hub"     -> HubPost
      [] op = "rebuild" -> RebuildScript
      [] op = "task"    -> <<"apply", "sync">>
      [] OTHER          -> CommandScript

Begin(x, op, n, f) ==
    /\ op \in Ops /\ act[x] = Idle /\ count.ops < MaxOps
    /\ count' = [count EXCEPT !.ops = @ + 1]
    /\ act' = [act EXCEPT ![x] = [Idle EXCEPT !.op = op, !.steps = Script(op), !.name = n, !.forum = f]]
    /\ UNCHANGED <<proj, task, forum, thread, stain, loose, stray>>

\* The handlers keep the project they were opened with: its channel, too.
OpenProject(x) ==
    \E p \in Projects :
       \/ ~proj[p].made /\ \E f \in {g \in Forums : forum[g].there} : Begin(x, "create", {p}, f)
       \/ /\ proj[p].made
          /\ \E op \in {"archive", "archive_cmd", "restore", "unarchive_cmd"} :
                /\ op \in {"archive", "restore"} => proj[p].archived = (op = "restore")
                /\ Begin(x, op, {p}, proj[p].forum)
       \/ /\ proj[p].made   \* without a target the forum is resolved later
          /\ \E f \in {g \in Forums : forum[g].there} \cup {NoForum} : Begin(x, "rebuild", {p}, f)

PostHub(x) == \E f \in Forums : forum[f].there /\ Begin(x, "hub", {}, f)

\* The handlers of a task, in Workspace in full.
OpenTask(x) == \E t \in Tasks : Begin(x, "task", {t}, NoForum)

\* A forum that is not in the guild any more is passed over.
Skips(s) == s \in {"untag", "read", "prune", "setup", "ensure", "hub", "own"}

Skip(x) ==
    /\ act[x].steps # << >> /\ Skips(Head(act[x].steps))
    /\ act[x].forum = NoForum \/ ~forum[act[x].forum].there
    /\ Step(x, act[x])
    /\ UNCHANGED <<proj, task, forum, thread, stain, loose, stray, count>>

\* x goes on as a; if b, what was written in f is not to be relied on, nor what
\* anybody there has read.
Stained(x, a, f, b) ==
    /\ stain' = IF b THEN [stain EXCEPT ![f] = TRUE] ELSE stain
    /\ act' = [y \in Actors |->
          LET z == IF y = x THEN a ELSE act[y] IN
              IF b /\ z.forum = f THEN [z EXCEPT !.clean = FALSE] ELSE z]

-----------------------------------------------------------------------------
(* The database.                                                           *)

Shelve(p, b) == [t \in Tasks |-> IF Owner[t] = p THEN [task[t] EXCEPT !.shelved = b] ELSE task[t]]

\* create_project refuses a name that is taken: the command ends.
Create(x, p) ==
    /\ act[x].op = "create"
    /\ IF proj[p].made THEN act' = [act EXCEPT ![x] = Idle] /\ UNCHANGED proj
       ELSE /\ proj' = [proj EXCEPT ![p] = [made |-> TRUE, archived |-> FALSE, forum |-> act[x].forum]]
            /\ Step(x, act[x])
    /\ UNCHANGED <<task, stain, loose>>

\* archive_project and unarchive_project, with the tasks.  The forum that is
\* treated next is the one the handler was opened with, and the archive view has
\* listed the tasks before.
SetArchived(x, p) ==
    /\ act[x].op \in {"archive", "archive_cmd", "restore", "unarchive_cmd"}
    /\ LET b == act[x].op \in {"archive", "archive_cmd"} IN
           proj' = [proj EXCEPT ![p].archived = b] /\ task' = Shelve(p, b)
    /\ loose' = [t \in Tasks |-> loose[t] \/ (/\ act[x].op = "archive" /\ Owner[t] = p
                                            /\ t \notin act[x].todo /\ ~task[t].shelved)]
    /\ Stained(x, Done(act[x]), proj[p].forum, proj[p].forum # act[x].forum)

\* rebuild_project_workspace restores a project that is archived.
Unarchive(x, p) ==
    /\ act[x].op = "rebuild"
    /\ proj' = [proj EXCEPT ![p].archived = FALSE]
    /\ task' = IF proj[p].archived THEN Shelve(p, FALSE) ELSE task
    /\ Step(x, act[x])
    /\ UNCHANGED <<stain, loose>>

ApplyProject(x) ==
    /\ At(x, "apply")
    /\ \E p \in act[x].name \cap Projects : Create(x, p) \/ SetArchived(x, p) \/ Unarchive(x, p)
    /\ UNCHANGED <<forum, thread, stray, count>>

\* update_status: the thread is synchronised with the row it returned.
ApplyTask(x) ==
    /\ At(x, "apply") /\ act[x].op = "task"
    /\ \E t \in act[x].name :
          /\ task' = [task EXCEPT ![t].done = ~@]
          /\ Step(x, [act[x] EXCEPT !.list = [s \in {t} |-> task'[t]], !.todo = {t}])
    /\ UNCHANGED <<proj, forum, thread, stain, loose, stray, count>>

\* The views ask for the tasks that are not archived, the others for all.
Asked(x) == {t \in Tasks : /\ Owner[t] \in act[x].name
                           /\ act[x].op \in {"archive", "restore"} => ~task[t].shelved}

\* ORDER BY created_at DESC LIMIT n
Newest(ts, n) == {t \in ts : Cardinality({s \in ts : Born[s] > Born[t]}) < n}

\* The restore view drops the completed ones from what it was given.
Treated(x, ts) == {t \in ts : act[x].op = "restore" => ~task[t].done}

Listed(x) == Treated(x, Newest(Asked(x), Limit[act[x].op]))

\* What the limit leaves out is not treated.
Unseen(x) == Treated(x, Asked(x)) \ Listed(x)

ListTasks(x) ==
    /\ At(x, "list")
    /\ Step(x, [act[x] EXCEPT !.list = [t \in Listed(x) |-> task[t]], !.todo = Listed(x)])
    /\ loose' = [t \in Tasks |-> loose[t] \/ t \in Unseen(x)]
    /\ UNCHANGED <<proj, task, forum, thread, stain, stray, count>>

Unused(f) == /\ forum[f] = Empty /\ Live(f) \cup Gone(f) = {}
             /\ \A x \in Actors : act[x].forum # f

\* The target, the forum of the row, or a new one, which is recorded; an error of
\* the record is passed over.  Without a forum, rebuild has nothing more to do, and
\* the threads of a project it has restored stay as they are.
Bind(x) ==
    /\ At(x, "bind")
    /\ \E p \in act[x].name :
       LET rebound(f) == /\ proj' = [proj EXCEPT ![p].forum = f]
                         /\ Step(x, [act[x] EXCEPT !.forum = f])
           wanted == IF act[x].forum # NoForum THEN act[x].forum ELSE proj[p].forum
           none == act[x].forum = NoForum /\ (wanted # NoForum => ~forum[wanted].there)
       IN  \/ ~none /\ rebound(wanted) /\ Same /\ UNCHANGED <<forum, loose>>
           \/ /\ none /\ UNCHANGED loose
              /\ \E f \in {g \in Forums : Unused(g)} :
                    /\ forum' = [forum EXCEPT ![f].there = TRUE]
                    /\ \/ rebound(f) /\ Same
                       \/ Fault /\ UNCHANGED proj /\ Step(x, [act[x] EXCEPT !.forum = f])
           \/ /\ none /\ Fault /\ act' = [act EXCEPT ![x] = Idle]
              /\ loose' = [t \in Tasks |-> loose[t] \/ Owner[t] = p]
              /\ UNCHANGED <<proj, forum>>
    /\ UNCHANGED <<task, thread, stain, stray>>

-----------------------------------------------------------------------------
(* The tags and the hub of the forum.                                      *)

\* forum_channel.edit(available_tags=...): the whole list is written, made from
\* the cached one; nothing is written when there is nothing to change.
Edit(x, a, tags, overtaken) ==
    LET f == act[x].forum
        late == overtaken \/ forum[f].seen # forum[f].tags
    IN  /\ \/ /\ tags = forum[f].seen /\ Same
              /\ Stained(x, a, f, late) /\ UNCHANGED forum
           \/ /\ tags # forum[f].seen /\ Same
              /\ \E s \in {forum[f].seen, tags} :
                    forum' = [forum EXCEPT ![f].tags = tags, ![f].seen = s]
              /\ Stained(x, a, f, late)
           \/ /\ tags # forum[f].seen /\ Fault
              /\ Stained(x, a, f, TRUE) /\ UNCHANGED forum
        /\ UNCHANGED <<proj, task, thread, loose, stray>>

Room(f) == Cardinality(forum[f].seen) < Slots
With(f, tag) == IF tag \in forum[f].seen \/ ~Room(f) THEN forum[f].seen ELSE forum[f].seen \cup {tag}
Full(f, tag) == tag \notin forum[f].seen /\ ~Room(f)

\* list_projects, or nothing when it fails; a project of the caller stands in
\* when there is none.
ReadProjects(x) ==
    /\ At(x, "read")
    /\ LET f == act[x].forum
           n == act[x].name \cap Projects
           named == IF act[x].op \in {"create", "rebuild"} THEN n ELSE {}
           got(l, g) == IF l = {} THEN [act[x] EXCEPT !.live = named, !.gone = g]
                        ELSE [act[x] EXCEPT !.live = l, !.gone = g]
       IN  \/ Same /\ Step(x, [got(Live(f), Gone(f)) EXCEPT !.clean = TRUE])
           \/ Fault /\ Step(x, got({}, {}))
    /\ UNCHANGED <<proj, task, forum, thread, stain, loose, stray>>

\* Others have changed the list of projects since.
Overtaken(x) == act[x].live # Live(act[x].forum) \/ act[x].gone # Gone(act[x].forum)

\* Mutant: only the tag of the project in hand goes.
PrunedOwn(x) == forum[act[x].forum].seen \ (act[x].gone \cap act[x].name)

Pruned(x) == forum[act[x].forum].seen \ act[x].gone

\* The projects whose tags are ensured: those listed, and the caller's unless it
\* was listed as archived.
ToEnsure(a) ==
    a.live \cup (IF a.op \in {"create", "rebuild"} THEN (a.name \cap Projects) \ a.gone ELSE {})

\* prune_archived_project_tags, with the tags of all that were archived.
Prune(x) ==
    /\ At(x, "prune")
    /\ Edit(x, Done([act[x] EXCEPT !.todo = ToEnsure(act[x])]), Pruned(x), Overtaken(x))

\* setup_forum_tags, called by ensure_pinned_hub_post and before it.
Setup(x) ==
    LET f == act[x].forum IN
    /\ At(x, "setup")
    /\ Edit(x, Done(act[x]), With(f, Std), Full(f, Std))

\* ensure_project_tag, for each of them.
Ensure(x) ==
    /\ At(x, "ensure")
    /\ LET f == act[x].forum
           rest == ToEnsure(act[x]) \cap act[x].todo
       IN  \/ /\ rest = {} /\ Step(x, act[x])
              /\ UNCHANGED <<proj, task, forum, thread, stain, loose, stray, count>>
           \/ \E p \in rest :
                 Edit(x, [act[x] EXCEPT !.todo = @ \ {p}], With(f, p), Full(f, p) \/ Overtaken(x))

\* ensure_project_tag for the project that was created or is rebuilt.
EnsureOwn(x) ==
    /\ At(x, "own")
    /\ \E p \in act[x].name :
          LET f == act[x].forum IN
              Edit(x, Done(act[x]), With(f, p), Full(f, p) \/ p \notin Live(f))

\* remove_project_tag
Untag(x) ==
    /\ At(x, "untag")
    /\ \E p \in act[x].name :
          LET f == act[x].forum IN Edit(x, Done(act[x]), forum[f].seen \ {p}, p \in Live(f))

\* The first hub among the cached threads is redrawn; without one, a hub is
\* created and pinned.  It shows the projects that were listed first.
Redrawn(f, hubs, ps) ==
    IF forum[f].known = 0 THEN Append(hubs, ps) ELSE [hubs EXCEPT ![1] = ps]

MountHub(x) ==
    /\ At(x, "hub")
    /\ LET f == act[x].forum
           late == ~act[x].clean \/ Overtaken(x) \/ forum[f].seen # forum[f].tags
                       \/ forum[f].known # Len(forum[f].hubs)
       IN  \/ /\ Same
              /\ LET hubs == Redrawn(f, forum[f].hubs, act[x].live) IN
                 \E k \in {forum[f].known, Len(hubs)} :
                    forum' = [forum EXCEPT ![f].hubs = hubs, ![f].known = k]
              /\ IF late THEN Stained(x, Done(act[x]), f, TRUE)
                 ELSE stain' = [stain EXCEPT ![f] = FALSE] /\ Step(x, act[x])
           \/ Fault /\ Stained(x, Done(act[x]), f, TRUE) /\ UNCHANGED forum
    /\ UNCHANGED <<proj, task, thread, loose, stray>>

-----------------------------------------------------------------------------
(* The threads of the tasks.                                               *)

Finished(x, t) == [act[x] EXCEPT !.todo = @ \ {t}, !.new = 0]

\* sync_workspace: with the row that was listed, whatever it is by now.  The
\* thread that is not there is made anew by rebuild only.
Written(x, t, r) ==
    /\ thread' = [thread EXCEPT ![r.thread].shut = Closed(r)]
    /\ loose' = [loose EXCEPT ![t] = Closed(r) # Closed(task[t]) \/ r.thread # task[t].thread]
    /\ act' = [act EXCEPT ![x] = Finished(x, t)]

Missing(r) == ~There(r.thread)

SyncThread(x, t) ==
    LET r == act[x].list[t] IN
    /\ act[x].new = 0
    /\ \/ ~Missing(r) /\ Written(x, t, r) /\ Same
       \/ ~Missing(r) /\ Fault /\ loose' = [loose EXCEPT ![t] = TRUE]
             /\ act' = [act EXCEPT ![x] = Finished(x, t)] /\ UNCHANGED thread
       \/ Missing(r) /\ act[x].op # "rebuild" /\ Same
             /\ loose' = [loose EXCEPT ![t] = @ \/ r.thread # task[t].thread]
             /\ act' = [act EXCEPT ![x] = Finished(x, t)] /\ UNCHANGED thread
    /\ UNCHANGED <<proj, task, forum, stain, stray>>

\* x has made a thread for t and not finished with it.
Made(x, t) == act[x].new # 0 /\ thread[act[x].new].of = t

\* _resolve_channel: the forum in the project's row, which is read again, or else
\* the one the handler has resolved.
Home(x, t) ==
    LET f == proj[Owner[t]].forum IN
        IF f # NoForum /\ forum[f].there THEN f ELSE act[x].forum

\* provision_workspace: an error of the lookup of a thread that is not cached,
\* as an archived one is not, counts as missing.
MakeThread(x, t) ==
    LET r == act[x].list[t]  home == Home(x, t) IN
    /\ act[x].op = "rebuild" /\ act[x].new = 0 /\ Len(thread) < MaxThreads
    /\ \/ Missing(r) /\ Same
       \/ There(r.thread) /\ thread[r.thread].shut /\ Fault
    /\ forum[home].there
    /\ thread' = Append(thread, [of |-> t, here |-> TRUE, shut |-> FALSE, on |-> home])
    /\ act' = [act EXCEPT ![x].new = Len(thread')]
    /\ stray' = IF task[t].thread # r.thread \/ There(r.thread) \/ \E y \in Actors \ {x} : Made(y, t)
                THEN stray \cup {t} ELSE stray
    /\ UNCHANGED <<proj, task, forum, stain, loose>>

\* The creation fails, for want of the forum at least: the task is passed over.
MakeFails(x, t) ==
    /\ act[x].op = "rebuild" /\ act[x].new = 0 /\ Missing(act[x].list[t])
    /\ IF forum[Home(x, t)].there THEN Fault ELSE Same
    /\ loose' = [loose EXCEPT ![t] = TRUE]
    /\ act' = [act EXCEPT ![x] = Finished(x, t)]
    /\ UNCHANGED <<proj, task, forum, thread, stain, stray>>

\* update_discord_message_ids, and the row read again; an error leaves the thread
\* unrecorded, and the task is passed over.
RecordThread(x, t) ==
    /\ Made(x, t) /\ act[x].list[t].thread # act[x].new
    /\ \/ /\ task' = [task EXCEPT ![t].thread = act[x].new] /\ Same
          /\ act' = [act EXCEPT ![x].list[t] = task'[t]]
          /\ loose' = [loose EXCEPT ![t] = ~There(act[x].new)]
          /\ UNCHANGED stray
       \/ /\ Fault /\ act' = [act EXCEPT ![x] = Finished(x, t)]
          /\ stray' = stray \cup {t} /\ loose' = [loose EXCEPT ![t] = TRUE]
          /\ UNCHANGED task
    /\ UNCHANGED <<proj, forum, thread, stain>>

\* Mutant: the thread of a closed task is left open.
ShutNowNever(r) == FALSE

ShutNow(r) == Closed(r)

\* The Archive Invariant: the new thread of a closed task is archived at once.
SettleThread(x, t) ==
    LET r == act[x].list[t] IN
    /\ Made(x, t) /\ r.thread = act[x].new
    /\ \/ /\ Same
          /\ thread' = [thread EXCEPT ![r.thread].shut = @ \/ ShutNow(r)]
          /\ loose' = [loose EXCEPT ![t] = @ \/ (ShutNow(r) /\ ~Closed(task[t]))]
       \/ ShutNow(r) /\ Fault /\ loose' = [loose EXCEPT ![t] = TRUE] /\ UNCHANGED thread
    /\ act' = [act EXCEPT ![x] = Finished(x, t)]
    /\ UNCHANGED <<proj, task, forum, stain, stray>>

SyncDone(x) ==
    /\ At(x, "sync") /\ act[x].todo = {}
    /\ Step(x, act[x])
    /\ UNCHANGED <<proj, task, forum, thread, stain, loose, stray, count>>

SyncTasks(x) ==
    \/ SyncDone(x)
    \/ /\ At(x, "sync")
       /\ \E t \in act[x].todo :
             SyncThread(x, t) \/ MakeThread(x, t) \/ MakeFails(x, t) \/ RecordThread(x, t)
                \/ SettleThread(x, t)

-----------------------------------------------------------------------------
(* Discord, its users and the process.                                     *)

\* The gateway brings the cache up to date.
Gateway(f) ==
    /\ forum[f].seen # forum[f].tags \/ forum[f].known # Len(forum[f].hubs)
    /\ forum' = [forum EXCEPT ![f].seen = forum[f].tags, ![f].known = Len(forum[f].hubs)]
    /\ UNCHANGED <<proj, task, thread, act, stain, loose, stray, count>>

\* Somebody deletes a forum or a thread.
DeleteForum(f) ==
    /\ forum[f].there /\ Fault
    /\ forum' = [forum EXCEPT ![f] = Empty]
    /\ thread' = [i \in DOMAIN thread |->
          IF thread[i].on = f THEN [thread[i] EXCEPT !.here = FALSE] ELSE thread[i]]
    /\ loose' = [t \in Tasks |-> loose[t] \/ \E i \in DOMAIN thread : thread[i].on = f /\ thread[i].of = t]
    /\ stain' = [stain EXCEPT ![f] = TRUE]
    /\ UNCHANGED <<proj, task, act, stray>>

DeleteThread(i) ==
    /\ There(i) /\ Fault
    /\ thread' = [thread EXCEPT ![i].here = FALSE]
    /\ loose' = [loose EXCEPT ![thread[i].of] = TRUE]
    /\ UNCHANGED <<proj, task, forum, act, stain, stray>>

\* The process dies; the next one reads the caches from Discord.
Crash ==
    /\ Fault /\ \E x \in Actors : act[x] # Idle
    /\ act' = [x \in Actors |-> Idle]
    /\ forum' = [f \in Forums |-> [forum[f] EXCEPT !.seen = forum[f].tags, !.known = Len(forum[f].hubs)]]
    /\ stain' = [f \in Forums |-> TRUE]
    /\ loose' = [t \in Tasks |-> TRUE]
    /\ stray' = stray \cup UNION {act[x].todo \cap Tasks : x \in {y \in Actors : act[y].new # 0}}
    /\ UNCHANGED <<proj, task, thread>>

Handle(x) ==
    \/ OpenProject(x) \/ PostHub(x) \/ OpenTask(x) \/ Skip(x)
    \/ ApplyProject(x) \/ ApplyTask(x) \/ ListTasks(x) \/ Bind(x)
    \/ act[x].forum # NoForum /\ forum[act[x].forum].there
          /\ (ReadProjects(x) \/ Prune(x) \/ Setup(x) \/ Ensure(x) \/ EnsureOwn(x) \/ Untag(x) \/ MountHub(x))
    \/ SyncTasks(x)

PresenceNext ==
    \/ \E x \in Actors : Handle(x)
    \/ \E f \in Forums : Gateway(f) \/ DeleteForum(f)
    \/ \E i \in DOMAIN thread : DeleteThread(i)
    \/ Crash

PresenceSpec == PresenceInit /\ [][PresenceNext]_presenceVars

-----------------------------------------------------------------------------
(* Properties.                                                             *)

Settled == \A x \in Actors : act[x] = Idle

\* Once no handler is at work, a forum has the standard tags, the tag of every
\* live project bound to it and of no archived one, and its hub shows just the
\* live ones, whatever handlers of its projects were interleaved; unless the last
\* to write it had been overtaken, or Discord refused or had no room.  A later
\* undisturbed handler of any project repairs the forum.
ForumShowsProjects ==
    \A f \in Forums :
        LET bound == Live(f) \cup Gone(f)  d == forum[f] IN
        Settled /\ d.there /\ ~stain[f] /\ d.hubs # << >> =>
           /\ d.tags \cap bound = Live(f) /\ Std \in d.tags
           /\ d.hubs[1] \cap bound = Live(f)

\* Once no handler is at work, the recorded thread of a task is there, archived
\* exactly if the task is closed, and its only one: rebuild makes what is missing,
\* archives it (the Archive Invariant), and makes no second one; unless the thread
\* was last written from an old row, or a second rebuild, a crash or an error came
\* between a thread and its record, or the task was older than the last that the
\* list_tasks of a handler returned: 50 for the commands, 500 for the views, 1000
\* for rebuild.
ThreadsShowTasks ==
    \A t \in Tasks : Settled =>
        /\ ~loose[t] => There(task[t].thread) /\ thread[task[t].thread].shut = Closed(task[t])
        /\ t \notin stray =>
              Cardinality({i \in DOMAIN thread : thread[i].here /\ thread[i].of = t}) <= 1

\* An archived project's tasks have their threads archived, says the message at the
\* end of the archive view.
ArchiveCascades ==
    \A t \in Tasks : Settled /\ task[t].shelved /\ There(task[t].thread) =>
        thread[task[t].thread].shut
=============================================================================
