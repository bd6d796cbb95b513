----------------------------- MODULE MenuSession -----------------------------
(***************************************************************************)
(* What a user sees of the bot in a channel: the pinned Control Hub and a  *)
(* task's card, which are public, and the ephemeral messages the bot sends *)
(* to the user alone.  A view holds the interaction it was opened with and *)
(* deletes that interaction's original response when it times out; so does *)
(* a toast after some seconds, and MenuSessionManager when the user opens  *)
(* another menu.  Which message that is depends on how the interaction was *)
(* answered: this module is about nobody deleting the wrong one.           *)
(*                                                                         *)
(* All of it is kept per user, so one user is modelled.  The handlers of   *)
(* the views are in Menus.                                                 *)
(***************************************************************************)
EXTENDS Integers, FiniteSets

CONSTANTS
    MaxClicks,   \* bound: interactions
    MaxSent,     \* bound: ephemeral messages
    MaxFaults,   \* bound: deletions Discord refuses (an expired token, an error)
    Starts,      \* what an ephemeral message shows when the model begins, or "unsent"
    PageSize,    \* the items a page of a list holds
    MaxItems,    \* the items there are: projects, or tasks the query of /task list counts
    Fetched      \* how many of its tasks that query returns at most

ASSUME BoundsAssumption == MaxClicks \in Nat /\ MaxSent \in Nat /\ MaxFaults \in Nat

\* What a message shows.
Kinds ==
    {"unsent", "gone", "plain", "toast", "hub", "card", "controls", "dashboard", "settings",
     "calendar", "overview", "teamleads", "tasks", "taskpick", "taskproj", "boardpick", "list",
     "draft", "prereqs", "tree", "treepick", "project", "channelpick", "wizard", "roster",
     "roles", "lead", "archive", "archiveask", "restore", "restoreask", "rebuild", "rebuildask"}
ASSUME StartsAssumption == Starts \subseteq Kinds
ASSUME PagesAssumption == PageSize \in Nat \ {0} /\ MaxItems \in Nat /\ Fetched \in Nat

VARIABLES
    msgs,     \* the messages: what is shown in them, the interaction their view
              \* holds, and whether they are the menu that is registered
    views,    \* the interactions of the views whose timeout is still to come
    timers,   \* the messages the timer of a toast will delete
    active,   \* _active_menus: the interaction that opened the user's menu
    opening,  \* the calls of register_menu that wait for the previous menu to go
    modal,    \* the modal the user has open
    clicks, faults

session == <<msgs, views, timers, active, opening, modal, clicks, faults>>

Hub == 0
TaskCard == 1
Public == {Hub, TaskCard}
Ephemeral == 2 .. (MaxSent + 1)
Nowhere == MaxSent + 2       \* the original response of an interaction without one

NoClick == [id |-> 0, orig |-> Nowhere]
NoModal == [kind |-> "none", src |-> Nowhere, parent |-> Nowhere]
\* The views that page through a list.
Paged == {"taskproj", "roster", "archive", "restore", "list"}

Message(k, c) == [kind |-> k, view |-> c, menu |-> FALSE, page |-> 0,
                  total |-> IF k \in Paged THEN MaxItems ELSE 0]

SessionInit ==
    /\ \E k \in Starts :
          /\ views = IF k = "unsent" THEN {} ELSE {[id |-> 0, orig |-> 2]}
          /\ msgs = [n \in Public \cup Ephemeral |->
                        CASE n = Hub -> Message("hub", NoClick)
                          [] n = TaskCard -> Message("card", NoClick)
                          [] n = 2 /\ k # "unsent" -> Message(k, [id |-> 0, orig |-> 2])
                          [] OTHER -> Message("unsent", NoClick)]
    /\ timers = {} /\ opening = {}
    /\ active = NoClick /\ modal = NoModal
    /\ clicks = 0 /\ faults = 0

Is(n, k) == msgs[n].kind = k
Gone(n) == n = Nowhere \/ Is(n, "gone")
Room == \E n \in Ephemeral : Is(n, "unsent")
New == CHOOSE n \in Ephemeral : Is(n, "unsent")

\* The next interaction, whose original response is message n.
Click(n) == [id |-> clicks + 1, orig |-> n]
Clicked == clicks < MaxClicks /\ clicks' = clicks + 1

\* delete_original_response and Message.delete, whose errors every caller drops.
\* A menu that is still there without being registered is nobody's to dismiss.
Delete(ms, n) ==
    IF n = Nowhere THEN msgs' = ms /\ UNCHANGED faults
    ELSE \/ msgs' = [ms EXCEPT ![n].kind = "gone"] /\ UNCHANGED faults
         \/ /\ faults < MaxFaults /\ faults' = faults + 1
            /\ msgs' = [ms EXCEPT ![n].menu = FALSE]

-----------------------------------------------------------------------------
(* The answers to an interaction.  "held" is the interaction the new view  *)
(* keeps: this one, or none.                                               *)

Kept(c, keeps) == IF keeps THEN c ELSE NoClick
Watch(c, keeps) == views' = IF keeps THEN views \cup {c} ELSE views

\* response.send_message, or followup.send after a defer: a new message.
Send(k, keeps) ==
    /\ Room /\ Clicked
    /\ msgs' = [msgs EXCEPT ![New] = Message(k, Kept(Click(New), keeps))]
    /\ Watch(Click(New), keeps)
    /\ UNCHANGED <<timers, active, opening, modal, faults>>

\* response.edit_message with another view, also by edit_original_response after
\* a defer: the original response of a component's interaction is its message.
\* The view shown before is not stopped.
Edit(s, k, keeps) ==
    /\ Clicked
    /\ msgs' = [msgs EXCEPT ![s] = [Message(k, Kept(Click(s), keeps)) EXCEPT !.menu = msgs[s].menu]]
    /\ Watch(Click(s), keeps)
    /\ UNCHANGED <<timers, active, opening, modal, faults>>

\* The same view drawn again, also by the modals that only search or take a date.
Redraw == Clicked /\ UNCHANGED <<msgs, views, timers, active, opening, modal, faults>>

\* send_toast and send_interaction_error
Toast ==
    /\ Room /\ Clicked
    /\ msgs' = [msgs EXCEPT ![New] = Message("toast", NoClick)]
    /\ timers' = timers \cup {New}
    /\ UNCHANGED <<views, active, opening, modal, faults>>

\* edit_toast: the message of the interaction becomes a toast without a view.
Fade(s) ==
    /\ Clicked
    /\ msgs' = [msgs EXCEPT ![s].kind = "toast"]
    /\ timers' = timers \cup {Click(s).orig}
    /\ UNCHANGED <<views, active, opening, modal, faults>>

\* A message without a view or a timer.
Say == Send("plain", FALSE)

\* response.send_modal
Ask(k, s, parent) ==
    /\ Clicked /\ modal' = [kind |-> k, src |-> s, parent |-> parent]
    /\ UNCHANGED <<msgs, views, timers, active, opening, faults>>

\* The view is stopped and its message deleted by the click itself.
CloseView(s) ==
    /\ Clicked
    /\ views' = views \ {msgs[s].view}
    /\ Delete(msgs, s)
    /\ UNCHANGED <<timers, active, opening, modal>>

\* max(1, ceil(total / PAGE_SIZE)); mutant: a full last page counts twice.
PagesOneMore(t) == t \div PageSize + 1

Pages(t) == IF t = 0 THEN 1 ELSE (t + PageSize - 1) \div PageSize

\* How many items a search or a filter may leave: the filter of the task list
\* looks through the tasks it has, and its other state is all tasks again.
Matches(k) == {t \in 0 .. MaxItems : k = "list" => t <= Fetched \/ t = MaxItems}

\* The buttons of a list: the previous page, the next one, and a search or a filter
\* that leaves other items, from the first page on.
Turn(s) ==
    /\ Clicked
    /\ LET p == msgs[s].page IN
          \/ p > 0 /\ msgs' = [msgs EXCEPT ![s].page = @ - 1]
          \/ p < Pages(msgs[s].total) - 1 /\ msgs' = [msgs EXCEPT ![s].page = @ + 1]
          \/ \E t \in Matches(msgs[s].kind) : msgs' = [msgs EXCEPT ![s].page = 0, ![s].total = t]
    /\ UNCHANGED <<views, timers, active, opening, modal, faults>>

-----------------------------------------------------------------------------
(* MenuSessionManager                                                      *)

\* Mutant: the menu the user has open is not looked up.
PreviousNone == NoClick

\* register_menu: what it will dismiss is read before the await.
Previous == active

\* Sending a menu and registering its interaction.  The interaction of a button
\* on a public message is turned away.
SendMenu(s, k, keeps) ==
    /\ Room /\ Clicked
    /\ msgs' = [msgs EXCEPT ![New] = Message(k, Kept(Click(New), keeps))]
    /\ Watch(Click(New), keeps)
    /\ opening' = IF s \in Public THEN opening
                  ELSE opening \cup {[click |-> Click(New), prev |-> Previous, seen |-> active]}
    /\ UNCHANGED <<timers, active, modal, faults>>

\* The menu of click c is not the registered one any more.
Lost(ms, c) == IF c = NoClick THEN ms ELSE [ms EXCEPT ![c.orig].menu = FALSE]

\* register_menu goes on after its await.  If another interaction has been stored
\* meanwhile, its menu stays, and nobody will dismiss it.
Registered(o) ==
    /\ opening' = opening \ {o}
    /\ active' = o.click
    /\ LET ms == [msgs EXCEPT ![o.click.orig].menu = TRUE] IN
          Delete(IF active # o.seen THEN Lost(ms, active) ELSE ms, o.prev.orig)
    /\ UNCHANGED <<views, timers, modal, clicks>>

\* unregister_menu
Unregistered(c) == IF active = c THEN NoClick ELSE active

\* update_interaction: whatever was registered is forgotten for this interaction,
\* whose original response is message n.
Updated(ms, n) ==
    /\ active' = IF active = NoClick THEN active ELSE Click(n)
    /\ msgs' = IF active = NoClick THEN ms
               ELSE [Lost(ms, active) EXCEPT ![n].menu = TRUE]

\* BaseView.on_timeout
Timeout(c) ==
    /\ views' = views \ {c}
    /\ active' = Unregistered(c)
    /\ Delete(msgs, c.orig)
    /\ UNCHANGED <<timers, opening, modal, clicks>>

\* schedule_toast_dismissal, when the time has passed
Dismiss(n) ==
    /\ timers' = timers \ {n}
    /\ Delete(msgs, n)
    /\ UNCHANGED <<views, active, opening, modal, clicks>>

SessionNext ==
    \/ \E o \in opening : Registered(o)
    \/ \E c \in views : Timeout(c)
    \/ \E n \in timers : Dismiss(n)

-----------------------------------------------------------------------------
(* Properties *)

\* What of a list the view has: /task list counts all tasks and fetches at most Fetched.
Had(m) == IF m.kind = "list" /\ m.total > Fetched THEN Fetched ELSE m.total

\* A page that is shown has items, whatever is searched, filtered and turned, or the list
\* has none; but the pages of /task list that lie beyond the tasks it has fetched, though
\* not beyond those it has counted, are empty (task_cog.py:273).
PageShowsItems ==
    \A n \in Ephemeral :
        LET m == msgs[n]  from == m.page * PageSize IN
            m.kind \in Paged =>
                \/ from < Had(m)
                \/ m.total = 0 /\ m.page = 0
                \/ m.kind = "list" /\ from \in Fetched .. m.total - 1

\* No timeout, no toast and no dismissal deletes a public message, and no
\* handler puts another view or a toast in its place: the Control Hub and the
\* cards stay what they are for everybody (the Public Message Isolation Invariant
\* of openspec/specs/hub-menu-dismissal).
PublicStays == Is(Hub, "hub") /\ Is(TaskCard, "card")

\* Of the menus a user has opened by commands at most one is there, but for those
\* that could not be deleted, those whose registration was overwritten by one
\* that overlapped it, and those forgotten for a regenerated calendar link.
OneMenu == Cardinality({n \in Ephemeral : msgs[n].menu /\ ~Gone(n)}) <= 1

=============================================================================
