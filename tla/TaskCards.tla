------------------------------ MODULE TaskCards ------------------------------
(***************************************************************************)
(* What users do to one task of a project through its card, the panels the *)
(* card opens and the /task commands.  A handler reads the task, decides   *)
(* on what it read, awaits Discord or the user, and calls the services     *)
(* later: a panel stays open while others change the task, its             *)
(* prerequisites and the squads.  A call of TaskService is one step here;  *)
(* TaskService says what happens inside one.                               *)
(***************************************************************************)
EXTENDS Integers, Sequences, FiniteSets

CONSTANTS
    Users,       \* the members of the server
    Nobody,      \* "no assignee"
    Creator,     \* the creator of the task
    Managers,    \* users with a server-wide permission
    Lead,        \* the project's lead, or Nobody
    Others,      \* the other tasks of the project
    Shown,       \* those among the first 25, which the dependency menu offers
    Uses,        \* bound: which of Panels each user opens
    Values,      \* values of the priority and of the texts
    MaxVersion   \* bound: version of the task's row

Panels == {"start", "complete", "notstarted", "reopen", "claim", "prio", "text", "who",
           "controls", "deps", "depend", "delete"}

ASSUME UsesAssumption == Uses \subseteq Users \X Panels
ASSUME UsersAssumption ==
    Nobody \notin Users /\ Creator \in Users /\ Managers \subseteq Users
       /\ Lead \in Users \cup {Nobody} /\ Shown \subseteq Others
ASSUME ValuesAssumption == Values # {} /\ MaxVersion \in Nat \ {0}

VARIABLES
    task,    \* the row: live, version, status and the fields
    edges,   \* its prerequisites
    done,    \* the other tasks that are COMPLETED
    squad,   \* users holding a role of the project's squads, the lead left out:
             \* whatever it allows, a lead may do
    card,    \* the status the task's card was last drawn with
    form     \* per user: the panel that is open, or the handler that is running

cardsVars == <<task, edges, done, squad, card, form>>
Rows == <<task, edges, done, squad, card>>

Statuses == {"NOT_STARTED", "IN_PROGRESS", "COMPLETED"}
Assignees == Users \cup {Nobody}

\* The groups of fields that save_task_controls_state writes, in its order.
Fields == {"prio", "text", "who"}
After(f) == CASE f = "prio" -> "text" [] f = "text" -> "who" [] f = "who" -> "refresh"

Val == [prio : Values, text : Values, who : Assignees]
Task == [live : BOOLEAN, version : 1..MaxVersion, status : Statuses, val : Val]
Buttons == Panels \ {"controls", "deps", "depend", "delete"}
Places == {"closed", "controls", "blocked", "delete", "deps", "selected", "pressed",
           "refresh"} \cup Fields

CanMutate(u, t) ==
    u \in Managers \/ u = Lead \/ u = Creator \/ u = t.val.who \/ u \in squad

\* Mutant: the status of the task is left out.
CanDeleteAnytime(u, t) == u \in Managers \/ u = Lead \/ u = Creator

CanDelete(u, t) ==
    u \in Managers \/ u = Lead \/ (u = Creator /\ t.status = "NOT_STARTED")

Eligible(u) == u = Nobody \/ u = Lead \/ u \in squad

Blockers == edges \ done

Target(b) == CASE b = "complete" -> "COMPLETED" [] b = "notstarted" -> "NOT_STARTED"
               [] OTHER -> "IN_PROGRESS"

New == [live |-> TRUE, version |-> 1, status |-> "NOT_STARTED",
        val |-> [prio |-> CHOOSE v \in Values : TRUE,
                 text |-> CHOOSE v \in Values : TRUE, who |-> Nobody]]

Closed == [at |-> "closed", op |-> "start", snap |-> New, cur |-> New, draft |-> New.val,
           edited |-> {}, wrote |-> {}, seen |-> {}, drop |-> {}, add |-> {},
           moved |-> FALSE]

CardsInit ==
    /\ task = New /\ card = "NOT_STARTED"
    /\ edges \in SUBSET Others /\ done = {}
    /\ squad \in SUBSET (Users \ {Lead})
    /\ form = [u \in Users |-> Closed]

-----------------------------------------------------------------------------
(* Panels and handlers.                                                    *)

At(u, place) == form[u].at = place
\* The user asks for a panel of the task, and may change the task.
Asks(u, panel) ==
    <<u, panel>> \in Uses /\ At(u, "closed") /\ task.live /\ CanMutate(u, task)

Set(u, f) == form' = [form EXCEPT ![u] = f]
Close(u) == Set(u, Closed)
Open(u, place) == [Closed EXCEPT !.at = place, !.snap = task, !.cur = task, !.draft = task.val]

\* What others have read is now older than the prerequisites or the squads.
Overtake(u) == [v \in Users |-> IF v # u /\ form[v].at \in {"pressed", "controls"} \cup Fields
                                THEN [form[v] EXCEPT !.moved = TRUE] ELSE form[v]]

\* A write of TaskService: update_assignee and update_priority return early.
Put(f, v) ==
    /\ task.live
    /\ task.version < MaxVersion
    /\ task' = IF f # "text" /\ task.val[f] = v THEN task
               ELSE [task EXCEPT !.val[f] = v, !.version = @ + 1]

\* The card and the thread are drawn from the task the service returned.
Draws(u, t) == Set(u, [Closed EXCEPT !.at = "refresh", !.snap.status = t.status])
Drawn(u) == Draws(u, task')

\* refresh_action_card and sync_workspace; an edit that Discord refuses is logged.
Refresh(u) ==
    /\ At(u, "refresh")
    /\ card' \in {card, form[u].snap.status}
    /\ Close(u)
    /\ UNCHANGED <<task, edges, done, squad>>

\* Cancel, Discard, Done, or the timeout of the view.
Cancel(u) ==
    /\ form[u].at \in {"controls", "blocked", "delete", "deps"}
    /\ Close(u)
    /\ UNCHANGED Rows

-----------------------------------------------------------------------------
(* Buttons and commands.                                                   *)

\* Mutant: the prerequisites are not looked at.
MustConfirmNever(b) == FALSE

MustConfirm(b) == b \in {"start", "complete"} /\ Blockers # {}

\* The handler has read the task and decided; what it writes is the draft.
Pressed(u, b, v, place) == Set(u, [Open(u, place) EXCEPT !.op = b, !.draft = v])

\* The status button that only a card offers; the other changes can also be typed.
Offered(b) == b = "reopen" => card = "COMPLETED"

\* Buttons and /task status: an unresolved prerequisite asks for confirmation.
PressStatus(u, b) ==
    /\ Asks(u, b) /\ Offered(b)
    /\ Pressed(u, b, task.val, IF MustConfirm(b) THEN "blocked" ELSE "pressed")
    /\ UNCHANGED Rows

\* The claim button: asked of the task as read, written without its version.
Claim(u) ==
    /\ Asks(u, "claim") /\ task.val.who = Nobody /\ Eligible(u)
    /\ Pressed(u, "claim", [task.val EXCEPT !.who = u], "pressed")
    /\ UNCHANGED Rows

\* /task assign
Assign(u) ==
    /\ Asks(u, "who")
    /\ \E v \in Assignees :
          Eligible(v) /\ Pressed(u, "who", [task.val EXCEPT !.who = v], "pressed")
    /\ UNCHANGED Rows

Prioritize(u) ==
    /\ Asks(u, "prio")
    /\ \E v \in Values : Pressed(u, "prio", [task.val EXCEPT !.prio = v], "pressed")
    /\ UNCHANGED Rows

\* /task update
Update(u) ==
    /\ Asks(u, "text")
    /\ \E v \in Values : Pressed(u, "text", [task.val EXCEPT !.text = v], "pressed")
    /\ UNCHANGED Rows

CasHolds(t) == task.live /\ task.version = t.version

\* update_status with the version read; on StaleVersionError a button redraws the card
\* from the latest task.
SetStatus(u) ==
    \/ /\ CasHolds(form[u].snap) /\ task.version < MaxVersion
       /\ task' = [task EXCEPT !.status = Target(form[u].op), !.version = @ + 1]
       /\ Drawn(u)
    \/ /\ ~CasHolds(form[u].snap) /\ UNCHANGED task
       /\ IF task.live /\ At(u, "pressed") THEN Drawn(u) ELSE Close(u)

SetField(u) ==
    LET f == IF form[u].op = "claim" THEN "who" ELSE form[u].op IN
    \/ Put(f, form[u].draft[f]) /\ Drawn(u)
    \/ ~task.live /\ UNCHANGED task /\ Close(u)

Apply(u) ==
    /\ At(u, "pressed")
    /\ IF form[u].op \in Fields \cup {"claim"} THEN SetField(u) ELSE SetStatus(u)
    /\ UNCHANGED <<edges, done, squad, card>>

\* confirm_proceed asks for the right to bypass with the task the dialog was opened on.
ConfirmBlocked(u) ==
    /\ At(u, "blocked") /\ CanMutate(u, form[u].snap)
    /\ SetStatus(u)
    /\ UNCHANGED <<edges, done, squad, card>>

OpenDelete(u) ==
    /\ Asks(u, "delete") /\ CanDelete(u, task)
    /\ Set(u, Open(u, "delete"))
    /\ UNCHANGED Rows

\* confirm_delete: what is deleted is the task of now, what is asked is the snapshot.
ConfirmDelete(u) ==
    /\ At(u, "delete") /\ CanDelete(u, form[u].snap)
    /\ task' = [task EXCEPT !.live = FALSE]
    /\ edges' = {}
    /\ Close(u)
    /\ UNCHANGED <<done, squad, card>>

-----------------------------------------------------------------------------
(* The quick controls.                                                     *)

OpenControls(u) ==
    /\ Asks(u, "controls")
    /\ Set(u, Open(u, "controls"))
    /\ UNCHANGED Rows

\* Bound: a field is staged once.
Staged(u, f, v) ==
    /\ At(u, "controls") /\ f \notin form[u].edited /\ v # form[u].draft[f]
    /\ Set(u, [form[u] EXCEPT !.draft[f] = v, !.edited = @ \cup {f}])
    /\ UNCHANGED Rows

StagePriority(u) == \E v \in Values : Staged(u, "prio", v)

\* The modal with title and description.
StageText(u) == \E v \in Values : Staged(u, "text", v)

\* Mutant: anybody can be staged as assignee.
MayStageAnyone(v) == TRUE

MayStage(v) == Eligible(v)

\* An assignee who is not eligible puts back the one of the snapshot.
StageAssignee(u) == \E v \in Assignees : MayStage(v) /\ Staged(u, "who", v)

Save(u) ==
    /\ At(u, "controls") /\ CanMutate(u, form[u].snap)
    /\ Set(u, [form[u] EXCEPT !.at = "prio", !.cur = form[u].snap, !.wrote = {}])
    /\ UNCHANGED Rows

\* Mutant: every group is compared with the task as it is now.
StaleFresh(u, f) == form[u].draft[f] # task.val[f]

\* What is compared is the snapshot, and from the first write on what it returned.
Stale(u, f) == form[u].draft[f] # form[u].cur.val[f]

Refused(u, f) == ~task.live \/ (f = "who" /\ ~Eligible(form[u].draft.who))

\* One group: written, passed over, or refused with what came before it committed.
\* A refusal is shown and the panel stays open.
SaveGroup(u, f) ==
    /\ At(u, f)
    /\ IF ~Stale(u, f)
       THEN /\ UNCHANGED task
            /\ IF f = "who" THEN Draws(u, form[u].cur)
               ELSE Set(u, [form[u] EXCEPT !.at = After(f)])
       ELSE IF Refused(u, f)
       THEN UNCHANGED task /\ Set(u, [form[u] EXCEPT !.at = "controls"])
       ELSE /\ Put(f, form[u].draft[f])
            /\ IF f = "who" THEN Drawn(u)
               ELSE Set(u, [form[u] EXCEPT !.at = After(f), !.cur = task',
                                           !.wrote = @ \cup {f}])
    /\ UNCHANGED <<edges, done, squad, card>>

-----------------------------------------------------------------------------
(* The dependency menu, and the commands for one edge.                     *)

OpenDeps(u) ==
    /\ Asks(u, "deps")
    /\ Set(u, [Closed EXCEPT !.at = "deps", !.seen = edges])
    /\ UNCHANGED Rows

\* Mutant: what is not selected is taken from the prerequisites of now.
DroppedFresh(u, chosen) == edges \ chosen

Dropped(u, chosen) == form[u].seen \ chosen

\* A selection among the tasks offered stands for the whole list; nothing is asked.
Select(u) ==
    /\ At(u, "deps")
    /\ \E chosen \in SUBSET Shown :
          Set(u, [form[u] EXCEPT !.at = "selected", !.drop = Dropped(u, chosen),
                                 !.add = chosen \ form[u].seen])
    /\ UNCHANGED Rows

\* Removals first, then additions, each in a transaction of its own; what a call
\* refuses, as an edge that closes a cycle, is passed over.
Unlink(u, o) ==
    /\ At(u, "selected") /\ o \in form[u].drop
    /\ edges' = edges \ {o}
    /\ form' = [Overtake(u) EXCEPT ![u].drop = @ \ {o}]
    /\ UNCHANGED <<task, done, squad, card>>

Link(u, o) ==
    /\ At(u, "selected") /\ form[u].drop = {} /\ o \in form[u].add
    /\ edges' \in {edges} \cup IF task.live THEN {edges \cup {o}} ELSE {}
    /\ form' = [Overtake(u) EXCEPT ![u].add = @ \ {o}]
    /\ UNCHANGED <<task, done, squad, card>>

Redraw(u) ==
    /\ At(u, "selected") /\ form[u].drop = {} /\ form[u].add = {}
    /\ Set(u, [form[u] EXCEPT !.at = "deps", !.seen = edges])
    /\ UNCHANGED Rows

\* /task depend and /task undepend.
Depend(u, o) ==
    /\ Asks(u, "depend")
    /\ edges' \in {edges \cup {o}, edges \ {o}}
    /\ form' = Overtake(u)
    /\ UNCHANGED <<task, done, squad, card>>

-----------------------------------------------------------------------------
(* What happens elsewhere.                                                 *)

\* Another task is completed or reopened.
OtherMoves(o) ==
    /\ done' = IF o \in done THEN done \ {o} ELSE done \cup {o}
    /\ form' = Overtake(Nobody)
    /\ UNCHANGED <<task, edges, squad, card>>

\* A squad is assigned or taken away, a member gets or loses its role.
SquadMoves(u) ==
    /\ u # Lead
    /\ squad' = IF u \in squad THEN squad \ {u} ELSE squad \cup {u}
    /\ form' = Overtake(Nobody)
    /\ UNCHANGED <<task, edges, done, card>>

Act(u) ==
    \/ \E b \in {"start", "complete", "notstarted", "reopen"} : PressStatus(u, b)
    \/ Claim(u) \/ Assign(u) \/ Prioritize(u) \/ Update(u)
    \/ Apply(u) \/ ConfirmBlocked(u) \/ OpenDelete(u) \/ ConfirmDelete(u)
    \/ OpenControls(u) \/ StagePriority(u) \/ StageText(u) \/ StageAssignee(u)
    \/ Save(u) \/ (\E f \in Fields : SaveGroup(u, f))
    \/ OpenDeps(u) \/ Select(u) \/ Redraw(u)
    \/ \E o \in Others : Unlink(u, o) \/ Link(u, o) \/ Depend(u, o)
    \/ Refresh(u) \/ Cancel(u)

CardsNext ==
    \/ \E u \in Users : Act(u) \/ SquadMoves(u)
    \/ \E o \in Others : OtherMoves(o)

CardsSpec == CardsInit /\ [][CardsNext]_cardsVars

-----------------------------------------------------------------------------
(* Properties.                                                             *)

Form == [at : Places, op : Buttons, snap : Task, cur : Task, draft : Val,
         edited : SUBSET Fields, wrote : SUBSET Fields, seen : SUBSET Others,
         drop : SUBSET Others, add : SUBSET Others, moved : BOOLEAN]

\* Type invariant.
CardsTypeOK ==
    /\ task \in Task /\ edges \subseteq Others /\ done \subseteq Others
    /\ squad \subseteq Users /\ card \in Statuses
    /\ form \in [Users -> Form]

\* The user whose handler took the step.
By(u) == form[u].at # form'[u].at

\* A save changes only what its user has edited, although it writes every staged field
\* that differs: the comparison is with the task the panel was opened on.  Only after a
\* group has been written is a field that nobody edited compared with a newer task, and
\* then another user's change is taken back.
SaveTouchesOnlyEdits ==
    [][\A u \in Users, f \in Fields :
          form[u].at \in Fields /\ By(u) /\ task'.val[f] # task.val[f]
             => f \in form[u].edited \/ form[u].wrote # {}]_cardsVars

\* A save that is refused has written nothing, unless squads changed since the panel was
\* opened, or the assignee before its last write: the eligibility was asked when the
\* assignee was staged.
RefusedSaveIsClean ==
    [][\A u \in Users :
          form[u].at \in Fields /\ form'[u].at = "controls"
             => \/ form[u].wrote = {} \/ form[u].moved \/ ~task.live
                \/ form[u].cur.val.who # form[u].snap.val.who]_cardsVars

\* A task that waits for others is started or completed only by a confirmation, by the
\* reopen button of a card that has not been redrawn, or by a handler that looked before
\* a prerequisite was added or reopened.
BlockedIsConfirmed ==
    [][\A u \in Users :
          /\ By(u) /\ Blockers # {}
          /\ task.status = "NOT_STARTED" /\ task'.status # "NOT_STARTED"
          => At(u, "blocked") \/ form[u].op = "reopen" \/ form[u].moved]_cardsVars

\* The creator alone never deletes a task that was under way when the dialog opened, and
\* a claim never takes a task from a user who had it when the button was pressed.
TakenOnlyIfOvertaken ==
    [][\A u \in Users :
          By(u) /\ form[u].snap.version = task.version =>
             /\ task.live /\ ~task'.live /\ task.status # "NOT_STARTED"
                   => u \in Managers \cup {Lead}
             /\ At(u, "pressed") /\ form[u].op = "claim" => task.val.who \in {Nobody, u}]_cardsVars

\* A selection in the dependency menu removes no prerequisite that someone else added
\* since the menu was drawn.
SelectionKeepsOthersEdges ==
    [][\A u \in Users :
          At(u, "selected") /\ form'[u].drop # form[u].drop
             => edges \ edges' \subseteq form[u].seen]_cardsVars
=============================================================================
