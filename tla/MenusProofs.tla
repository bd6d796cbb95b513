----------------------------- MODULE MenusProofs -----------------------------
(***************************************************************************)
(* Nobody deletes or replaces a public message, for any number of clicks,  *)
(* messages and refused deletions.  That does not follow from the messages *)
(* themselves: what a timeout, a toast or register_menu deletes is an      *)
(* interaction stored long before.  The invariant says of every place that *)
(* stores one that its original response is an ephemeral message, or none. *)
(***************************************************************************)
EXTENDS Menus, FiniteSetTheorems, TLAPS

Private == Ephemeral \cup {Nowhere}
Holder == [id : Nat, orig : Private]
Content == [kind : Kinds, view : Holder, menu : BOOLEAN, page : Int, total : Int]

\* Every stored interaction has a private original response.
Stored ==
    /\ msgs \in [Shown -> Content]
    /\ views \subseteq Holder
    /\ timers \subseteq Private
    /\ active \in Holder
    /\ opening \subseteq [click : [id : Nat, orig : Ephemeral], prev : Holder, seen : Holder]
    /\ modal \in [kind : {"none", "details", "project"}, src : Shown \cup {Nowhere}, parent : Private]
    /\ clicks \in Nat

IInv == Stored /\ PublicStays

-----------------------------------------------------------------------------
(* The parts the handlers are composed of                                  *)

\* An answer that leaves the message of the interaction alone.
Answer(s) ==
    \/ \E k \in Kinds, keeps \in BOOLEAN : Send(k, keeps)
    \/ Redraw \/ Toast
    \/ \E k \in {"details", "project"}, parent \in Private : Ask(k, s, parent)
    \/ \E k \in Kinds, keeps \in BOOLEAN : SendMenu(s, k, keeps)

\* An answer that replaces, turns or deletes it.
OnMessage(s) ==
    \/ \E k \in Kinds, keeps \in BOOLEAN : Edit(s, k, keeps)
    \/ Fade(s) \/ CloseView(s) \/ Turn(s) \/ CalendarClose(s) \/ CalendarRegenerate(s)

\* The public messages and the ephemeral ones are different.
LEMMA Places ==
    /\ Hub \in Shown /\ TaskCard \in Shown /\ Ephemeral \subseteq Shown
    /\ Hub \notin Private /\ TaskCard \notin Private /\ Hub # TaskCard
    /\ Nowhere \notin Shown
    /\ \A n \in Shown : n \in Ephemeral \/ n = Hub \/ n = TaskCard
  BY BoundsAssumption DEF Shown, Public, Ephemeral, Private, Nowhere, Hub, TaskCard

\* The message the next answer is sent as is an ephemeral one.
LEMMA NewIsEphemeral == Room => New \in Ephemeral /\ Is(New, "unsent")
  BY DEF Room, New

\* What a message shows when it is sent.
LEMMA MessageType ==
    ASSUME NEW k \in Kinds, NEW c \in Holder
    PROVE  Message(k, c) \in Content /\ Message(k, c).kind = k
  BY PagesAssumption DEF Message, Content

\* What the bot itself makes of a message.
LEMMA PlainKinds == {"unsent", "gone", "plain", "toast", "hub", "card", "draft", "wizard"} \subseteq Kinds
  BY DEF Kinds

LEMMA NoClickType == NoClick \in Holder
  BY DEF NoClick, Holder, Private

\* An interaction with a private message, kept or not.
LEMMA ClickType ==
    ASSUME clicks \in Nat, NEW n \in Private, NEW keeps
    PROVE  Click(n) \in Holder /\ Kept(Click(n), keeps) \in Holder
  BY NoClickType DEF Click, Kept, Holder

LEMMA InitIInv == SessionInit => IInv
<1> SUFFICES ASSUME SessionInit PROVE IInv
  OBVIOUS
<1>1. PICK k \in Starts :
        /\ views = IF k = "unsent" THEN {} ELSE {[id |-> 0, orig |-> 2]}
        /\ msgs = [n \in Public \cup Ephemeral |->
                      CASE n = Hub -> Message("hub", NoClick)
                        [] n = TaskCard -> Message("card", NoClick)
                        [] n = 2 /\ k # "unsent" -> Message(k, [id |-> 0, orig |-> 2])
                        [] OTHER -> Message("unsent", NoClick)]
  BY DEF SessionInit
<1>2. k \in Kinds
  BY StartsAssumption
<1>3. [id |-> 0, orig |-> 2] \in Holder
  BY BoundsAssumption DEF Holder, Private, Ephemeral, Nowhere
<1>4. msgs \in [Shown -> Content] /\ PublicStays
  <2>1. /\ Message("hub", NoClick) \in Content /\ Message("hub", NoClick).kind = "hub"
        /\ Message("card", NoClick) \in Content /\ Message("card", NoClick).kind = "card"
        /\ Message("unsent", NoClick) \in Content
        /\ Message(k, [id |-> 0, orig |-> 2]) \in Content
    BY <1>2, <1>3, NoClickType, MessageType, PlainKinds
  <2>2. \A n \in Shown : msgs[n] \in Content
    BY <1>1, <2>1, <1>2 DEF Shown
  <2>3. msgs \in [Shown -> Content]
    BY <1>1, <2>2 DEF Shown
  <2>4. msgs[Hub] = Message("hub", NoClick)
    BY <1>1, Places DEF Shown, Hub, TaskCard
  <2>5. msgs[TaskCard] = Message("card", NoClick)
    BY <1>1, Places DEF Shown, Hub, TaskCard
  <2> QED
    BY <2>1, <2>3, <2>4, <2>5 DEF PublicStays, Is
<1>5. views \subseteq Holder
  BY <1>1, <1>3
<1>6. modal \in [kind : {"none", "details", "project"}, src : Shown \cup {Nowhere}, parent : Private]
  BY DEF SessionInit, NoModal, Private
<1> QED
  BY <1>4, <1>5, <1>6, NoClickType DEF SessionInit, IInv, Stored

\* A message nobody has sent yet is not a public one.
LEMMA SentKeeps ==
    ASSUME IInv, Room, NEW m \in Content
    PROVE  LET ms == [msgs EXCEPT ![New] = m] IN
             ms \in [Shown -> Content] /\ ms[Hub].kind = "hub" /\ ms[TaskCard].kind = "card"
  BY NewIsEphemeral, Places DEF IInv, Stored, PublicStays, Is, Private

\* Deleting a private message, or failing to, leaves the public ones.
LEMMA DeleteKeeps ==
    ASSUME NEW ms \in [Shown -> Content], ms[Hub].kind = "hub", ms[TaskCard].kind = "card",
           NEW n \in Private, Delete(ms, n)
    PROVE  msgs' \in [Shown -> Content] /\ PublicStays'
<1>1. CASE msgs' = ms
  BY <1>1 DEF PublicStays, Is
<1>2. CASE n \in Ephemeral /\ msgs' = [ms EXCEPT ![n].kind = "gone"]
  BY <1>2, Places, PlainKinds DEF PublicStays, Is, Private, Content
<1>3. CASE n \in Ephemeral /\ msgs' = [ms EXCEPT ![n].menu = FALSE]
  BY <1>3, Places DEF PublicStays, Is, Private, Content
<1> QED
  BY <1>1, <1>2, <1>3 DEF Delete, Private

\* Losing the registration changes no kind.
LEMMA LostKeeps ==
    ASSUME NEW ms \in [Shown -> Content], ms[Hub].kind = "hub", ms[TaskCard].kind = "card", NEW c
    PROVE  /\ Lost(ms, c) \in [Shown -> Content]
           /\ Lost(ms, c)[Hub].kind = "hub" /\ Lost(ms, c)[TaskCard].kind = "card"
  BY Places DEF Lost, Content

-----------------------------------------------------------------------------
(* The steps                                                               *)

\* An answer that leaves the message of its interaction alone keeps the invariant.
LEMMA AnswerKeeps ==
    ASSUME IInv, NEW s \in Shown \cup {Nowhere}, Answer(s)
    PROVE  IInv'
<1> USE DEF IInv
<1>1. CASE Redraw
  BY <1>1 DEF Redraw, Clicked, Stored, PublicStays, Is
<1>2. CASE Toast
  <2>1. Message("toast", NoClick) \in Content
    BY MessageType, NoClickType, PlainKinds
  <2>2. msgs' \in [Shown -> Content] /\ PublicStays'
    BY <1>2, <2>1, SentKeeps DEF Toast, PublicStays, Is
  <2> QED
    BY <1>2, <2>2, NewIsEphemeral DEF Toast, Clicked, Stored, Private
<1>3. CASE \E k \in {"details", "project"}, parent \in Private : Ask(k, s, parent)
  BY <1>3 DEF Ask, Clicked, Stored, PublicStays, Is
<1>4. ASSUME NEW k \in Kinds, NEW keeps \in BOOLEAN, Send(k, keeps)
      PROVE  IInv'
  <2>1. Click(New) \in Holder /\ Kept(Click(New), keeps) \in Holder
    BY <1>4, NewIsEphemeral, ClickType DEF Send, Stored, Private
  <2>2. Message(k, Kept(Click(New), keeps)) \in Content
    BY <2>1, MessageType
  <2>3. msgs' \in [Shown -> Content] /\ PublicStays'
    BY <1>4, <2>2, SentKeeps DEF Send, PublicStays, Is
  <2> QED
    BY <1>4, <2>1, <2>3 DEF Send, Watch, Clicked, Stored
<1>5. ASSUME NEW k \in Kinds, NEW keeps \in BOOLEAN, SendMenu(s, k, keeps)
      PROVE  IInv'
  <2>1. Click(New) \in Holder /\ Kept(Click(New), keeps) \in Holder
    BY <1>5, NewIsEphemeral, ClickType DEF SendMenu, Stored, Private
  <2>2. Message(k, Kept(Click(New), keeps)) \in Content
    BY <2>1, MessageType
  <2>3. msgs' \in [Shown -> Content] /\ PublicStays'
    BY <1>5, <2>2, SentKeeps DEF SendMenu, PublicStays, Is
  <2>4. [click |-> Click(New), prev |-> Previous, seen |-> active]
          \in [click : [id : Nat, orig : Ephemeral], prev : Holder, seen : Holder]
    BY <1>5, NewIsEphemeral DEF SendMenu, Click, Previous, Stored
  <2> QED
    BY <1>5, <2>1, <2>3, <2>4 DEF SendMenu, Watch, Clicked, Stored
<1> QED
  BY <1>1, <1>2, <1>3, <1>4, <1>5 DEF Answer

\* So does one that changes it, if it is an ephemeral message.
LEMMA OnMessageKeeps ==
    ASSUME IInv, NEW s \in Ephemeral, OnMessage(s)
    PROVE  IInv'
<1> USE DEF IInv
<1>1. s \in Shown /\ s # Hub /\ s # TaskCard /\ s \in Private /\ msgs[s] \in Content
  BY Places DEF Stored, Private
<1>2. ASSUME NEW k \in Kinds, NEW keeps \in BOOLEAN, Edit(s, k, keeps)
      PROVE  IInv'
  <2>1. Click(s) \in Holder /\ Kept(Click(s), keeps) \in Holder
    BY <1>1, ClickType DEF Stored
  <2>2. Message(k, Kept(Click(s), keeps)) \in Content
    BY <2>1, MessageType
  <2>3. msgs' \in [Shown -> Content] /\ PublicStays'
    BY <1>1, <1>2, <2>2, Places DEF Edit, Stored, PublicStays, Is, Content
  <2> QED
    BY <1>2, <2>1, <2>3 DEF Edit, Watch, Clicked, Stored
<1>3. CASE Fade(s)
  <2>1. msgs' \in [Shown -> Content] /\ PublicStays'
    BY <1>1, <1>3, Places, PlainKinds DEF Fade, Stored, PublicStays, Is, Content
  <2> QED
    BY <1>1, <1>3, <2>1 DEF Fade, Clicked, Click, Stored
<1>4. CASE CloseView(s)
  <2>1. msgs' \in [Shown -> Content] /\ PublicStays'
    BY <1>1, <1>4, DeleteKeeps DEF CloseView, Stored, PublicStays, Is
  <2> QED
    BY <1>4, <2>1 DEF CloseView, Clicked, Stored
<1>5. CASE Turn(s)
  <2>1. msgs' \in [Shown -> Content] /\ PublicStays'
    BY <1>1, <1>5, Places, PagesAssumption DEF Turn, Matches, Stored, PublicStays, Is, Content
  <2> QED
    BY <1>5, <2>1 DEF Turn, Clicked, Stored
<1>6. CASE CalendarClose(s)
  <2>1. msgs' \in [Shown -> Content] /\ PublicStays'
    BY <1>1, <1>6, DeleteKeeps DEF CalendarClose, Stored, PublicStays, Is
  <2> QED
    BY <1>6, <2>1, NoClickType DEF CalendarClose, Clicked, Unregistered, Stored
<1>7. CASE CalendarRegenerate(s)
  <2> DEFINE Shows(ms) == ms \in [Shown -> Content] /\ ms[Hub].kind = "hub" /\ ms[TaskCard].kind = "card"
  <2>1. Shows(msgs)
    BY DEF Stored, PublicStays, Is
  <2>2. ASSUME NEW ms, Shows(ms), NEW n \in Ephemeral, Updated(ms, n)
        PROVE  msgs' \in [Shown -> Content] /\ PublicStays' /\ active' \in Holder
    <3>1. Shows(Lost(ms, active))
      BY <2>2, LostKeeps
    <3>2. msgs' \in [Shown -> Content] /\ PublicStays'
      <4>1. PICK m : Shows(m) /\ (msgs' = m \/ msgs' = [m EXCEPT ![n].menu = TRUE])
        BY <2>2, <3>1 DEF Updated
      <4>2. n \in Shown /\ n # Hub /\ n # TaskCard /\ Hub \in Shown /\ TaskCard \in Shown
        BY <2>2, Places DEF Private
      <4>3. [m[n] EXCEPT !.menu = TRUE] \in Content
        BY <4>1, <4>2 DEF Content
      <4> QED
        BY <4>1, <4>2, <4>3 DEF PublicStays, Is
    <3> QED
      BY <2>2, <3>2, ClickType DEF Updated, Stored, Private
  <2>3. CASE Updated(msgs, s) /\ UNCHANGED timers
    BY <1>7, <2>1, <2>2, <2>3 DEF CalendarRegenerate, Clicked, Stored
  <2>4. CASE /\ Room /\ Updated([msgs EXCEPT ![New] = Message("toast", NoClick)], New)
             /\ timers' = timers \cup {New}
    <3>1. Shows([msgs EXCEPT ![New] = Message("toast", NoClick)])
      BY <2>4, SentKeeps, MessageType, NoClickType, PlainKinds
    <3>2. New \in Ephemeral
      BY <2>4, NewIsEphemeral
    <3>3. msgs' \in [Shown -> Content] /\ PublicStays' /\ active' \in Holder
      BY <2>2, <2>4, <3>1, <3>2
    <3> QED
      BY <1>7, <2>4, <3>2, <3>3 DEF CalendarRegenerate, Clicked, Stored, Private
  <2> QED
    BY <1>7, <2>3, <2>4 DEF CalendarRegenerate
<1> QED
  BY <1>2, <1>3, <1>4, <1>5, <1>6, <1>7 DEF OnMessage

\* What happens by itself or goes on after an await keeps it.
LEMMA SessionKeeps ==
    ASSUME IInv, SessionNext
    PROVE  IInv'
<1> USE DEF IInv
<1>1. msgs[Hub].kind = "hub" /\ msgs[TaskCard].kind = "card"
  BY DEF PublicStays, Is
<1>2. ASSUME NEW o \in opening, Registered(o)
      PROVE  IInv'
  <2>1. o.click \in Holder /\ o.click.orig \in Ephemeral /\ o.prev.orig \in Private
    BY DEF Stored, Holder, Private
  <2> DEFINE ms == [msgs EXCEPT ![o.click.orig].menu = TRUE]
  <2>2. ms \in [Shown -> Content] /\ ms[Hub].kind = "hub" /\ ms[TaskCard].kind = "card"
    <3>1. msgs \in [Shown -> Content] /\ \A n \in Shown : [msgs[n] EXCEPT !.menu = TRUE] \in Content
      BY DEF Stored, Content
    <3>2. ms \in [Shown -> Content]
      BY <3>1
    <3>3. o.click.orig \in Shown /\ o.click.orig # Hub /\ o.click.orig # TaskCard
      BY <2>1, Places DEF Private
    <3> QED
      BY <1>1, <3>1, <3>2, <3>3, Places
  <2>3. msgs' \in [Shown -> Content] /\ PublicStays'
    <3>1. PICK m \in {ms, Lost(ms, active)} : Delete(m, o.prev.orig)
      BY <1>2 DEF Registered
    <3> HIDE DEF ms
    <3>2. m \in [Shown -> Content] /\ m[Hub].kind = "hub" /\ m[TaskCard].kind = "card"
      BY <2>2, LostKeeps
    <3> QED
      BY <2>1, <3>1, <3>2, DeleteKeeps
  <2> QED
    BY <1>2, <2>1, <2>3 DEF Registered, Stored
<1>3. ASSUME NEW c \in views, Timeout(c)
      PROVE  IInv'
  <2>1. c.orig \in Private
    BY DEF Stored, Holder
  <2>2. msgs' \in [Shown -> Content] /\ PublicStays'
    BY <1>1, <1>3, <2>1, DeleteKeeps DEF Timeout, Stored
  <2> QED
    BY <1>3, <2>2, NoClickType DEF Timeout, Unregistered, Stored
<1>4. ASSUME NEW n \in timers, Dismiss(n)
      PROVE  IInv'
  <2>1. msgs' \in [Shown -> Content] /\ PublicStays'
    BY <1>1, <1>4, DeleteKeeps DEF Dismiss, Stored
  <2> QED
    BY <1>4, <2>1 DEF Dismiss, Stored
<1> QED
  BY <1>2, <1>3, <1>4 DEF SessionNext

\* The modals.
LEMMA SubmitKeeps ==
    ASSUME IInv, DetailsSubmit \/ ProjectSubmit \/ SubmitRefused
    PROVE  IInv'
<1> USE DEF IInv
<1>1. msgs[Hub].kind = "hub" /\ msgs[TaskCard].kind = "card"
  BY DEF PublicStays, Is
<1>2. NoModal \in [kind : {"none", "details", "project"}, src : Shown \cup {Nowhere}, parent : Private]
  BY DEF NoModal, Private
<1>3. CASE DetailsSubmit
  <2>1. CASE UNCHANGED <<msgs, views, faults>>
    BY <1>2, <1>3, <2>1 DEF DetailsSubmit, Clicked, Stored, PublicStays, Is
  <2>2. CASE /\ Room /\ UNCHANGED views
             /\ \E k \in {"plain", "draft"} :
                  Delete([msgs EXCEPT ![New] = Message(k, NoClick)], modal.parent)
    <3>1. PICK k \in {"plain", "draft"} :
                  Delete([msgs EXCEPT ![New] = Message(k, NoClick)], modal.parent)
      BY <2>2
    <3>2. Message(k, NoClick) \in Content
      BY MessageType, NoClickType, PlainKinds
    <3>3. msgs' \in [Shown -> Content] /\ PublicStays'
      <4>1. modal.parent \in Private
        BY DEF Stored
      <4> QED
        BY <2>2, <3>1, <3>2, <4>1, SentKeeps, DeleteKeeps
    <3> QED
      BY <1>2, <1>3, <2>2, <3>3 DEF DetailsSubmit, Clicked, Stored
  <2> QED
    BY <1>3, <2>1, <2>2 DEF DetailsSubmit
<1>4. CASE ProjectSubmit
  <2>1. CASE UNCHANGED <<msgs, views>>
    BY <1>2, <1>4, <2>1 DEF ProjectSubmit, Clicked, Stored, PublicStays, Is
  <2>2. CASE /\ Room /\ Watch(Click(New), TRUE)
             /\ msgs' = [msgs EXCEPT ![New] = Message("wizard", Click(New))]
    <3>1. Click(New) \in Holder
      BY <2>2, NewIsEphemeral, ClickType DEF Stored, Private
    <3>2. Message("wizard", Click(New)) \in Content
      BY <3>1, MessageType, PlainKinds
    <3>3. msgs' \in [Shown -> Content] /\ PublicStays'
      BY <2>2, <3>2, SentKeeps DEF PublicStays, Is
    <3> QED
      BY <1>2, <1>4, <2>2, <3>1, <3>3 DEF ProjectSubmit, Watch, Clicked, Stored
  <2> QED
    BY <1>4, <2>1, <2>2 DEF ProjectSubmit
<1>5. CASE SubmitRefused
  <2>1. Message("toast", NoClick) \in Content
    BY MessageType, NoClickType, PlainKinds
  <2>2. msgs' \in [Shown -> Content] /\ PublicStays'
    BY <1>5, <2>1, SentKeeps DEF SubmitRefused, PublicStays, Is
  <2> QED
    BY <1>2, <1>5, <2>2, NewIsEphemeral DEF SubmitRefused, Clicked, Stored, Private
<1> QED
  BY <1>3, <1>4, <1>5

-----------------------------------------------------------------------------
(* What each handler is made of: the hub only answers, and whoever changes *)
(* the message of the interaction is shown in an ephemeral one that is     *)
(* still there.                                                            *)

Handled(s) == Answer(s) \/ (s \in Ephemeral /\ ~Is(s, "gone") /\ OnMessage(s))

\* A message that shows something else than the hub or a card is ephemeral.
LEMMA Elsewhere ==
    ASSUME IInv, NEW s \in Shown, NEW k, Is(s, k), k # "hub", k # "card", k # "gone"
    PROVE  s \in Ephemeral /\ ~Is(s, "gone") /\ msgs[s].view.orig \in Private
  BY Places DEF IInv, Stored, PublicStays, Is, Content, Holder

\* The pieces of an answer, by name.
LEMMA Pieces ==
    /\ \A s : Redraw \/ Toast \/ Say => Answer(s)
    /\ \A s : \A k \in Kinds, keeps \in BOOLEAN : Send(k, keeps) => Answer(s)
    /\ \A s : \A k \in {"details", "project"}, parent \in Private : Ask(k, s, parent) => Answer(s)
    /\ \A s : \A k \in Kinds, keeps \in BOOLEAN : SendMenu(s, k, keeps) => Answer(s)
    /\ \A s : \A k \in Kinds, keeps \in BOOLEAN : Edit(s, k, keeps) => OnMessage(s)
    /\ \A s : Fade(s) \/ CloseView(s) \/ Turn(s) => OnMessage(s)
    /\ Nowhere \in Private
  BY PlainKinds DEF Answer, OnMessage, Say, Private

\* The Control Hub.
LEMMA HubHandled ==
    ASSUME IInv, NEW s \in Shown, HubButtons(s)
    PROVE  Handled(s)
<1> USE Pieces DEF Handled, Kinds
<1>1. CASE NewTaskBtn(s) \/ TasksTab(s) \/ ProjectsTab(s) \/ CreateProjectBtn(s) \/ TechTreeTab(s)
           \/ OverdueTab(s)
  BY <1>1 DEF NewTaskBtn, TasksTab, ProjectsTab, CreateProjectBtn, TechTreeTab, OverdueTab
<1>2. CASE PickTaskProject(s)
  BY <1>2, Elsewhere DEF PickTaskProject
<1>3. CASE BoardPick(s)
  BY <1>3, Elsewhere DEF BoardPick
<1> QED
  BY <1>1, <1>2, <1>3 DEF HubButtons

\* The views of tasks.
LEMMA TaskHandled ==
    ASSUME IInv, NEW s \in Shown, TaskButtons(s)
    PROVE  Handled(s)
<1> USE Pieces, Elsewhere DEF Handled, Kinds
<1>1. CASE TasksClose(s) \/ TasksHub(s) \/ TasksNewTask(s) \/ TasksStandalone(s) \/ TasksBrowse(s)
  BY <1>1 DEF TasksClose, TasksHub, TasksNewTask, TasksStandalone, TasksBrowse
<1>2. CASE ProjectBrowse(s) \/ ProjectChosen(s) \/ ProjectBack(s) \/ ListBrowse(s)
  BY <1>2 DEF ProjectBrowse, ProjectChosen, ProjectBack, ListBrowse
<1>3. CASE DraftChange(s) \/ DraftPrereqs(s) \/ DraftEdit(s) \/ DraftCancel(s) \/ DraftConfirm(s)
  BY <1>3 DEF DraftChange, DraftPrereqs, DraftEdit, DraftCancel, DraftConfirm
<1>4. CASE PrereqsSelect(s) \/ PrereqsDone(s) \/ TreeClose(s) \/ TreeTurn(s)
           \/ TreeSelect(s) \/ ControlsSave(s) \/ ControlsCancel(s)
  BY <1>4 DEF PrereqsSelect, PrereqsDone, TreeClose, TreeTurn, TreeSelect, ControlsSave, ControlsCancel
<1> QED
  BY <1>1, <1>2, <1>3, <1>4 DEF TaskButtons

\* The calendar feed, the settings and the dashboard.
LEMMA SettingsHandled ==
    ASSUME IInv, NEW s \in Shown, SettingsButtons(s)
    PROVE  Handled(s)
<1> USE Pieces, Elsewhere DEF Handled, Kinds
<1>1. CASE CalendarClose(s) \/ CalendarRegenerate(s)
  BY <1>1 DEF CalendarClose, CalendarRegenerate, OnMessage
<1>2. CASE SettingsCalendar(s) \/ SettingsTest(s) \/ SettingsPref(s) \/ SettingsHub(s)
  BY <1>2 DEF SettingsCalendar, SettingsTest, SettingsPref, SettingsHub
<1>3. CASE DashboardNewProject(s) \/ DashboardLeadRoles(s) \/ DashboardProjects(s)
           \/ DashboardSettings(s) \/ DashboardGuides(s)
  BY <1>3 DEF DashboardNewProject, DashboardLeadRoles, DashboardProjects, DashboardSettings, DashboardGuides
<1>4. CASE OverviewBack(s) \/ LeadsChange(s) \/ LeadsBack(s)
  BY <1>4 DEF OverviewBack, LeadsChange, LeadsBack
<1> QED
  BY <1>1, <1>2, <1>3, <1>4 DEF SettingsButtons

\* The views of projects.
LEMMA ProjectHandled ==
    ASSUME IInv, NEW s \in Shown, ProjectButtons(s)
    PROVE  Handled(s)
<1> USE Pieces, Elsewhere DEF Handled, Kinds
<1>1. CASE ProjectClose(s) \/ ProjectTree(s) \/ ProjectHub(s) \/ ProjectNew(s) \/ ProjectList(s)
  BY <1>1 DEF ProjectClose, ProjectTree, ProjectHub, ProjectNew, ProjectList
<1>2. CASE ProjectRole(s) \/ ProjectLead(s) \/ ProjectArchive(s)
           \/ ProjectRestore(s) \/ ProjectRebuild(s)
  BY <1>2 DEF ProjectRole, ProjectLead, ProjectArchive, ProjectRestore, ProjectRebuild
<1>3. CASE RosterBrowse(s) \/ RosterBack(s) \/ RolesApply(s) \/ LeadChosen(s)
           \/ LeadAssign(s) \/ LeadClear(s) \/ LeadBack(s)
  BY <1>3 DEF RosterBrowse, RosterBack, RolesApply, LeadChosen, LeadAssign, LeadClear, LeadBack
<1>4. CASE ArchiveBrowse(s) \/ ArchiveSelect(s) \/ ArchiveBack(s)
           \/ ArchiveConfirm(s) \/ ArchiveCancel(s)
  BY <1>4 DEF ArchiveBrowse, ArchiveSelect, ArchiveBack, ArchiveConfirm, ArchiveCancel
<1>5. CASE RestoreBrowse(s) \/ RestoreSelect(s) \/ RestoreBack(s)
           \/ RestoreConfirm(s) \/ RestoreCancel(s)
  BY <1>5 DEF RestoreBrowse, RestoreSelect, RestoreBack, RestoreConfirm, RestoreCancel
<1>6. CASE RebuildSelect(s) \/ RebuildBack(s) \/ RebuildConfirm(s) \/ RebuildCancel(s)
  BY <1>6 DEF RebuildSelect, RebuildBack, RebuildConfirm, RebuildCancel
<1>7. CASE ChannelPicked(s) \/ CurrentChannel(s) \/ ChannelBack(s)
  BY <1>7 DEF ChannelPicked, CurrentChannel, ChannelBack
<1>8. CASE WizardSelect(s) \/ WizardEdit(s) \/ WizardCancel(s) \/ WizardConfirm(s)
  BY <1>8 DEF WizardSelect, WizardEdit, WizardCancel, WizardConfirm
<1> QED
  BY <1>1, <1>2, <1>3, <1>4, <1>5, <1>6, <1>7, <1>8 DEF ProjectButtons

\* The commands, and the button of a card that opens a panel.
LEMMA CommandsHandled ==
    ASSUME IInv, Commands
    PROVE  \E s \in {TaskCard, Nowhere} : Answer(s)
<1> USE Pieces DEF Kinds
<1>1. CASE CardPanel
  BY <1>1 DEF CardPanel
<1>2. CASE MenuCommand \/ SettingsCommand \/ CalendarCommand
  BY <1>2 DEF MenuCommand, SettingsCommand, CalendarCommand
<1>3. CASE TaskListCommand
  BY <1>3 DEF TaskListCommand
<1>4. CASE HelpCommand \/ TreeCommand \/ CardView \/ OnError
  BY <1>4 DEF HelpCommand, TreeCommand, CardView, OnError
<1> QED
  BY <1>1, <1>2, <1>3, <1>4 DEF Commands

\* The stored interactions are of private messages, and the public messages stay.
THEOREM Invariant == Spec => []IInv
<1>1. IInv /\ [Next]_session => IInv'
  <2> SUFFICES ASSUME IInv, [Next]_session PROVE IInv'
    OBVIOUS
  <2>1. ASSUME NEW s \in Shown,
               HubButtons(s) \/ TaskButtons(s) \/ SettingsButtons(s) \/ ProjectButtons(s)
        PROVE  IInv'
    <3>1. Handled(s)
      BY <2>1, HubHandled, TaskHandled, SettingsHandled, ProjectHandled
    <3> QED
      BY <3>1, AnswerKeeps, OnMessageKeeps DEF Handled
  <2>2. CASE DetailsSubmit \/ ProjectSubmit \/ SubmitRefused
    BY <2>2, SubmitKeeps
  <2>3. CASE Commands
    BY <2>3, CommandsHandled, AnswerKeeps, Places
  <2>4. CASE SessionNext
    BY <2>4, SessionKeeps
  <2>5. CASE UNCHANGED session
    BY <2>5 DEF session, IInv, Stored, PublicStays, Is
  <2> QED
    BY <2>1, <2>2, <2>3, <2>4, <2>5 DEF Next
<1> QED
  BY <1>1, InitIInv, PTL DEF Spec

\* The Control Hub and the cards of the tasks stay what they are, whatever is
\* clicked, times out, is dismissed or overlaps.
THEOREM PublicIsolation == Spec => []PublicStays
  BY Invariant, PTL DEF IInv

-----------------------------------------------------------------------------
(* One menu, and pages that show items                                     *)

\* What a page of a list shows; the numbers of a message that shows none are not used.
PageRight(m) ==
    /\ m.page \in Nat /\ m.total \in Nat
    /\ m.kind \in Paged =>
          \/ m.total = 0 /\ m.page = 0
          \/ m.page * PageSize < m.total

\* Menus are only at the places P, and a view holds no interaction but one with the
\* message that shows it.
Fine(ms, P) ==
    \A n \in Ephemeral :
        /\ ms[n].menu /\ ms[n].kind # "gone" => n \in P
        /\ ms[n].view.orig \in {n, Nowhere}
        /\ PageRight(ms[n])

\* The registered interaction is of the menu that is there, and what register_menu will
\* dismiss is what was registered when it began.
Orderly == Fine(msgs, {active.orig}) /\ \A o \in opening : o.prev = o.seen

\* A message just sent or drawn shows its first page.
LEMMA FirstPage ==
    ASSUME NEW k \in Kinds, NEW c \in Holder
    PROVE  LET m == Message(k, c) IN
             m \in Content /\ PageRight(m) /\ m.view = c /\ m.menu = FALSE
  BY PagesAssumption DEF PageRight, Message, Content

\* Turning to the next page, when there is one, passes no item.
LEMMA NextPage ==
    ASSUME NEW t \in Nat, NEW p \in Nat, p < Pages(t) - 1
    PROVE  (p + 1) * PageSize < t
<1> DEFINE q == (t + PageSize - 1) \div PageSize
<1>1. t # 0 /\ Pages(t) = q
  BY DEF Pages
<1>2. PageSize \in Nat /\ PageSize > 0 /\ t + PageSize - 1 \in Nat
  BY PagesAssumption
<1>3. q \in Nat /\ q * PageSize <= t + PageSize - 1
  BY <1>2
<1> HIDE DEF q
<1>4. p + 1 <= q - 1 /\ q - 1 \in Nat /\ p + 1 \in Nat
  BY <1>1, <1>3
<1>5. (p + 1) * PageSize <= (q - 1) * PageSize
  BY <1>2, <1>4
<1>6. (q - 1) * PageSize = q * PageSize - PageSize
  BY <1>2, <1>3
<1>7. (p + 1) * PageSize \in Nat /\ q * PageSize \in Nat
  BY <1>2, <1>3
<1> QED
  BY <1>2, <1>3, <1>5, <1>6, <1>7

LEMMA PreviousPage ==
    ASSUME NEW t \in Nat, NEW p \in Nat, p > 0, p * PageSize < t
    PROVE  (p - 1) * PageSize < t
<1>1. PageSize \in Nat /\ p - 1 \in Nat
  BY PagesAssumption
<1>2. (p - 1) * PageSize = p * PageSize - PageSize /\ p * PageSize \in Nat
  BY <1>1
<1> QED
  BY <1>1, <1>2

LEMMA FineSent ==
    ASSUME NEW ms \in [Shown -> Content], NEW P, Fine(ms, P), NEW n \in Ephemeral,
           NEW k \in Kinds, NEW c \in Holder, c.orig \in {n, Nowhere}
    PROVE  Fine([ms EXCEPT ![n] = Message(k, c)], P)
<1> DEFINE m == Message(k, c)
<1>1. PageRight(m) /\ m.view = c /\ m.menu = FALSE
  BY FirstPage
<1> HIDE DEF m
<1>2. \A x \in Ephemeral : [ms EXCEPT ![n] = m][x] = IF x = n THEN m ELSE ms[x]
  BY Places
<1>3. Fine([ms EXCEPT ![n] = m], P)
  BY <1>1, <1>2 DEF Fine
<1> QED
  BY <1>3 DEF m

LEMMA FineMenu ==
    ASSUME NEW ms \in [Shown -> Content], NEW P, Fine(ms, P), NEW n \in Ephemeral
    PROVE  /\ [ms EXCEPT ![n].menu = TRUE] \in [Shown -> Content]
           /\ Fine([ms EXCEPT ![n].menu = TRUE], P \cup {n})
<1>1. \A x \in Shown : [ms[x] EXCEPT !.menu = TRUE] \in Content
  BY DEF Content
<1>2. \A x \in Shown : PageRight(ms[x]) => PageRight([ms[x] EXCEPT !.menu = TRUE])
  BY DEF PageRight, Content
<1>3. n \in Shown /\ \A x \in Ephemeral : x \in Shown
  BY Places
<1>4. \A x \in Shown : [ms[x] EXCEPT !.menu = TRUE].view = ms[x].view
  BY DEF Content
<1> QED
  BY <1>1, <1>2, <1>3, <1>4 DEF Fine

LEMMA FineLost ==
    ASSUME NEW ms \in [Shown -> Content], NEW P, Fine(ms, P), NEW c \in Holder
    PROVE  Lost(ms, c) \in [Shown -> Content] /\ Fine(Lost(ms, c), P \ {c.orig})
<1>1. CASE c.orig \notin Shown
  <2>1. Lost(ms, c) = ms
    BY <1>1 DEF Lost
  <2> QED
    BY <1>1, <2>1, Places DEF Fine
<1>2. CASE c = NoClick
  <2>1. Lost(ms, c) = ms /\ c.orig \notin Ephemeral
    BY <1>2, Places DEF Lost, NoClick
  <2> QED
    BY <2>1 DEF Fine
<1>3. CASE c.orig \in Shown /\ c # NoClick
  <2>1. Lost(ms, c) = [ms EXCEPT ![c.orig].menu = FALSE]
    BY <1>3 DEF Lost
  <2>2. \A x \in Shown : LET m == [ms[x] EXCEPT !.menu = FALSE] IN
           m \in Content /\ m.menu = FALSE /\ m.view = ms[x].view /\ (PageRight(ms[x]) => PageRight(m))
    BY DEF PageRight, Content
  <2> QED
    BY <1>3, <2>1, <2>2, Places DEF Fine
<1> QED
  BY <1>1, <1>2, <1>3

\* What was to be deleted is gone, or is not a menu any more.
LEMMA FineDelete ==
    ASSUME NEW ms \in [Shown -> Content], NEW P, Fine(ms, P), NEW n \in Private, Delete(ms, n)
    PROVE  Fine(msgs', P \ {n})
<1>1. CASE n \notin Ephemeral
  <2>1. msgs' = ms
    BY <1>1 DEF Delete, Private
  <2> QED
    BY <1>1, <2>1 DEF Fine
<1>2. CASE n \in Ephemeral
  <2>1. \A x \in Shown : LET m == [ms[x] EXCEPT !.menu = FALSE] IN
           m.menu = FALSE /\ m.view = ms[x].view /\ (PageRight(ms[x]) => PageRight(m))
    BY DEF PageRight, Content
  <2>2. \A x \in Shown : LET m == [ms[x] EXCEPT !.kind = "gone"] IN
           m.kind = "gone" /\ m.view = ms[x].view /\ (PageRight(ms[x]) => PageRight(m))
    BY DEF PageRight, Content, Paged
  <2>3. n # Nowhere
    BY <1>2, Places
  <2>4. msgs' = [ms EXCEPT ![n].kind = "gone"] \/ msgs' = [ms EXCEPT ![n].menu = FALSE]
    BY <2>3 DEF Delete
  <2>5. CASE msgs' = [ms EXCEPT ![n].kind = "gone"]
    <3> SUFFICES ASSUME NEW x \in Ephemeral
                 PROVE  /\ msgs'[x].menu /\ msgs'[x].kind # "gone" => x \in P \ {n}
                        /\ msgs'[x].view.orig \in {x, Nowhere} /\ PageRight(msgs'[x])
      BY DEF Fine
    <3>1. x \in Shown /\ PageRight(ms[x]) /\ ms[x].view.orig \in {x, Nowhere}
          /\ (ms[x].menu /\ ms[x].kind # "gone" => x \in P)
      BY Places DEF Fine
    <3>2. msgs'[x] = IF x = n THEN [ms[x] EXCEPT !.kind = "gone"] ELSE ms[x]
      BY <2>5, <3>1
    <3> QED
      BY <2>2, <3>1, <3>2
  <2>6. CASE msgs' = [ms EXCEPT ![n].menu = FALSE]
    <3> SUFFICES ASSUME NEW x \in Ephemeral
                 PROVE  /\ msgs'[x].menu /\ msgs'[x].kind # "gone" => x \in P \ {n}
                        /\ msgs'[x].view.orig \in {x, Nowhere} /\ PageRight(msgs'[x])
      BY DEF Fine
    <3>1. x \in Shown /\ PageRight(ms[x]) /\ ms[x].view.orig \in {x, Nowhere}
          /\ (ms[x].menu /\ ms[x].kind # "gone" => x \in P)
      BY Places DEF Fine
    <3>2. msgs'[x] = IF x = n THEN [ms[x] EXCEPT !.menu = FALSE] ELSE ms[x]
      BY <2>6, <3>1
    <3> QED
      BY <2>1, <3>1, <3>2
  <2> QED
    BY <2>4, <2>5, <2>6
<1> QED
  BY <1>1, <1>2

\* Fewer places are fine for more.
LEMMA FineMore ==
    ASSUME NEW ms, NEW P, NEW Q, Fine(ms, P), P \cap Ephemeral \subseteq Q
    PROVE  Fine(ms, Q)
  BY DEF Fine

\* The initial messages are no menus.
LEMMA InitOrderly == SessionInit => Orderly
<1> SUFFICES ASSUME SessionInit PROVE Orderly
  OBVIOUS
<1>1. PICK k \in Starts :
        msgs = [n \in Public \cup Ephemeral |->
                      CASE n = Hub -> Message("hub", NoClick)
                        [] n = TaskCard -> Message("card", NoClick)
                        [] n = 2 /\ k # "unsent" -> Message(k, [id |-> 0, orig |-> 2])
                        [] OTHER -> Message("unsent", NoClick)]
  BY DEF SessionInit
<1>2. \A n \in Ephemeral : msgs[n] = IF n = 2 /\ k # "unsent" THEN Message(k, [id |-> 0, orig |-> 2])
                                     ELSE Message("unsent", NoClick)
  BY <1>1, Places DEF Private
<1> DEFINE first == [id |-> 0, orig |-> 2]
<1>3. first.orig = 2 /\ first \in Holder /\ NoClick.orig = Nowhere /\ k \in Kinds
  BY BoundsAssumption, StartsAssumption DEF NoClick, Holder, Private, Ephemeral, Nowhere
<1>4. /\ PageRight(Message(k, first)) /\ Message(k, first).view = first
      /\ Message(k, first).menu = FALSE
  BY <1>3, FirstPage
<1>5. /\ PageRight(Message("unsent", NoClick)) /\ Message("unsent", NoClick).view = NoClick
      /\ Message("unsent", NoClick).menu = FALSE
  BY FirstPage, NoClickType, PlainKinds
<1>6. \A n \in Ephemeral : \/ n = 2 /\ msgs[n] = Message(k, first)
                           \/ msgs[n] = Message("unsent", NoClick)
  BY <1>2
<1> HIDE DEF first
<1>7. ASSUME NEW n \in Ephemeral
      PROVE  msgs[n].menu = FALSE /\ msgs[n].view.orig \in {n, Nowhere} /\ PageRight(msgs[n])
  <2>1. CASE n = 2 /\ msgs[n] = Message(k, first)
    BY <1>3, <1>4, <2>1
  <2>2. CASE msgs[n] = Message("unsent", NoClick)
    BY <1>3, <1>5, <2>2
  <2> QED
    BY <1>6, <2>1, <2>2
<1> QED
  BY <1>7 DEF SessionInit, Orderly, Fine

\* An interaction's view holds the interaction or none.
LEMMA KeptPlace ==
    ASSUME clicks \in Nat, NEW n \in Private, NEW keeps \in BOOLEAN
    PROVE  /\ Click(n).orig = n /\ Kept(Click(n), keeps).orig \in {n, Nowhere}
           /\ Click(n) \in Holder /\ Kept(Click(n), keeps) \in Holder
  BY NoClickType DEF Click, Kept, NoClick, Holder

\* An answer is sent as a message that is no menu yet.
LEMMA SentOrderly ==
    ASSUME IInv, NEW P, Fine(msgs, P), Room, NEW k \in Kinds, NEW keeps \in BOOLEAN
    PROVE  /\ Fine([msgs EXCEPT ![New] = Message(k, Kept(Click(New), keeps))], P)
           /\ Fine([msgs EXCEPT ![New] = Message(k, NoClick)], P)
<1> DEFINE c == Kept(Click(New), keeps)
<1>1. New \in Ephemeral /\ msgs \in [Shown -> Content]
  BY NewIsEphemeral DEF IInv, Stored
<1>2. c \in Holder /\ c.orig \in {New, Nowhere}
  BY <1>1, KeptPlace DEF IInv, Stored, Private
<1> HIDE DEF c
<1>3. Fine([msgs EXCEPT ![New] = Message(k, c)], P)
  BY <1>1, <1>2, FineSent
<1>4. NoClick \in Holder /\ NoClick.orig \in {New, Nowhere}
  BY NoClickType DEF NoClick
<1>5. Fine([msgs EXCEPT ![New] = Message(k, NoClick)], P)
  BY <1>1, <1>4, FineSent
<1> QED
  BY <1>3, <1>5 DEF c

LEMMA AnswerOrderly ==
    ASSUME IInv, Orderly, NEW s, Answer(s)
    PROVE  Orderly'
<1>1. CASE Redraw \/ \E k \in {"details", "project"}, parent \in Private : Ask(k, s, parent)
  BY <1>1 DEF Redraw, Ask, Orderly
<1>2. Fine(msgs, {active.orig})
  BY DEF Orderly
<1>3. CASE Toast
  <2>1. Room
    BY <1>3 DEF Toast
  <2>2. Fine([msgs EXCEPT ![New] = Message("toast", NoClick)], {active.orig})
    BY <1>2, <2>1, PlainKinds, SentOrderly
  <2> QED
    BY <1>3, <2>2 DEF Toast, Orderly
<1>4. ASSUME NEW k \in Kinds, NEW keeps \in BOOLEAN, Send(k, keeps)
      PROVE  Orderly'
  <2>1. Room
    BY <1>4 DEF Send
  <2>2. Fine([msgs EXCEPT ![New] = Message(k, Kept(Click(New), keeps))], {active.orig})
    BY <1>2, <2>1, SentOrderly
  <2> QED
    BY <1>4, <2>2 DEF Send, Orderly
<1>5. ASSUME NEW k \in Kinds, NEW keeps \in BOOLEAN, SendMenu(s, k, keeps)
      PROVE  Orderly'
  <2>1. Room
    BY <1>5 DEF SendMenu
  <2>2. Fine([msgs EXCEPT ![New] = Message(k, Kept(Click(New), keeps))], {active.orig})
    BY <1>2, <2>1, SentOrderly
  <2>3. Fine(msgs', {active'.orig})
    BY <1>5, <2>2 DEF SendMenu
  <2>4. \A o \in opening' : o.prev = o.seen
    BY <1>5 DEF SendMenu, Orderly, Previous
  <2> QED
    BY <2>3, <2>4 DEF Orderly
<1> QED
  BY <1>1, <1>3, <1>4, <1>5 DEF Answer

\* Turning keeps to the pages there are.
LEMMA TurnOrderly ==
    ASSUME IInv, Orderly, NEW s \in Ephemeral, Turn(s)
    PROVE  Orderly'
<1>1. msgs \in [Shown -> Content] /\ s \in Shown /\ msgs[s] \in Content
  BY Places DEF IInv, Stored
<1>2. PageRight(msgs[s])
  BY DEF Orderly, Fine
<1>3. msgs[s].page \in Nat /\ msgs[s].total \in Nat
  BY <1>2 DEF PageRight
<1> DEFINE back == [msgs[s] EXCEPT !.page = msgs[s].page - 1]
           next == [msgs[s] EXCEPT !.page = msgs[s].page + 1]
           other(t) == [msgs[s] EXCEPT !.page = 0, !.total = t]
<1>4. ASSUME NEW m, PageRight(m), m.view = msgs[s].view, m.menu = msgs[s].menu,
             m.kind = msgs[s].kind, msgs' = [msgs EXCEPT ![s] = m]
      PROVE  Orderly'
  <2>1. Fine(msgs, {active.orig})
    BY DEF Orderly
  <2>2. \A x \in Ephemeral : msgs'[x] = IF x = s THEN m ELSE msgs[x]
    BY <1>1, <1>4, Places
  <2>3. Fine(msgs', {active.orig})
    BY <1>4, <2>1, <2>2 DEF Fine
  <2> QED
    BY <2>3 DEF Turn, Orderly
<1>5. CASE msgs[s].page > 0 /\ msgs' = [msgs EXCEPT ![s].page = @ - 1]
  <2>1. /\ back.page = msgs[s].page - 1 /\ back.total = msgs[s].total /\ back.kind = msgs[s].kind
        /\ back.view = msgs[s].view /\ back.menu = msgs[s].menu
    BY <1>1 DEF Content
  <2>2. msgs' = [msgs EXCEPT ![s] = back]
    BY <1>5
  <2> HIDE DEF back
  <2>3. PageRight(back)
    BY <1>2, <1>3, <1>5, <2>1, PreviousPage DEF PageRight
  <2> QED
    BY <1>4, <2>1, <2>2, <2>3
<1>6. CASE msgs[s].page < Pages(msgs[s].total) - 1 /\ msgs' = [msgs EXCEPT ![s].page = @ + 1]
  <2>1. /\ next.page = msgs[s].page + 1 /\ next.total = msgs[s].total /\ next.kind = msgs[s].kind
        /\ next.view = msgs[s].view /\ next.menu = msgs[s].menu
    BY <1>1 DEF Content
  <2>2. msgs' = [msgs EXCEPT ![s] = next]
    BY <1>6
  <2> HIDE DEF next
  <2>3. next.page * PageSize < next.total
    BY <1>3, <1>6, <2>1, NextPage
  <2>4. PageRight(next)
    BY <1>3, <2>1, <2>3 DEF PageRight
  <2> QED
    BY <1>4, <2>1, <2>2, <2>4
<1>7. ASSUME NEW t \in Matches(msgs[s].kind), msgs' = [msgs EXCEPT ![s].page = 0, ![s].total = t]
      PROVE  Orderly'
  <2>1. /\ other(t).page = 0 /\ other(t).total = t /\ other(t).kind = msgs[s].kind
        /\ other(t).view = msgs[s].view /\ other(t).menu = msgs[s].menu
    BY <1>1 DEF Content
  <2>2. msgs' = [msgs EXCEPT ![s] = other(t)]
    BY <1>1, <1>7 DEF Content
  <2>3. t \in Nat
    BY PagesAssumption DEF Matches
  <2> HIDE DEF other
  <2>4. PageRight(other(t))
    BY <2>1, <2>3, PagesAssumption DEF PageRight
  <2> QED
    BY <1>4, <2>1, <2>2, <2>4
<1> QED
  BY <1>5, <1>6, <1>7 DEF Turn

LEMMA OnMessageOrderly ==
    ASSUME IInv, Orderly, NEW s \in Ephemeral, ~Is(s, "gone"), OnMessage(s)
    PROVE  Orderly'
<1> USE DEF IInv, Stored
<1>1. s \in Shown /\ s \in Private /\ msgs[s] \in Content /\ msgs \in [Shown -> Content]
      /\ active \in Holder /\ Fine(msgs, {active.orig})
  BY Places DEF Private, Orderly
<1>2. ASSUME NEW k \in Kinds, NEW keeps \in BOOLEAN, Edit(s, k, keeps)
      PROVE  Orderly'
  <2> DEFINE m == [Message(k, Kept(Click(s), keeps)) EXCEPT !.menu = msgs[s].menu]
  <2>1. PageRight(m) /\ m.view = Kept(Click(s), keeps) /\ m.menu = msgs[s].menu
    BY PagesAssumption DEF PageRight, Message
  <2>2. msgs' = [msgs EXCEPT ![s] = m]
    BY <1>2 DEF Edit
  <2> HIDE DEF m
  <2>3. Fine(msgs', {active.orig})
    BY <1>1, <2>1, <2>2, KeptPlace, Places DEF Fine, Is
  <2> QED
    BY <1>2, <2>3 DEF Edit, Orderly
<1>3. CASE Fade(s)
  <2> DEFINE m == [msgs[s] EXCEPT !.kind = "toast"]
  <2>1. PageRight(m)
    BY <1>1 DEF Fine, PageRight, Content, Paged
  <2>2. m.view = msgs[s].view /\ m.menu = msgs[s].menu
    BY <1>1 DEF Content
  <2>3. msgs' = [msgs EXCEPT ![s] = m]
    BY <1>3 DEF Fade
  <2> HIDE DEF m
  <2>4. Fine(msgs', {active.orig})
    BY <1>1, <2>1, <2>2, <2>3, Places DEF Fine, Is
  <2> QED
    BY <1>3, <2>4 DEF Fade, Orderly
<1>4. CASE CloseView(s)
  <2>1. Fine(msgs', {active.orig} \ {s})
    BY <1>1, <1>4, FineDelete DEF CloseView
  <2>2. Fine(msgs', {active.orig})
    BY <2>1, FineMore
  <2> QED
    BY <1>4, <2>2 DEF CloseView, Orderly
<1>5. CASE Turn(s)
  BY <1>5, TurnOrderly
<1>6. CASE CalendarClose(s)
  <2>1. Fine(msgs', {active.orig} \ {s})
    BY <1>1, <1>6, FineDelete DEF CalendarClose
  <2>2. CASE active = msgs[s].view
    <3>1. active.orig \in {s, Nowhere}
      BY <1>1, <2>2 DEF Fine
    <3>2. Fine(msgs', {NoClick.orig})
      BY <2>1, <3>1, FineMore, Places
    <3> QED
      BY <1>6, <2>2, <3>2 DEF CalendarClose, Unregistered, Orderly
  <2>3. CASE active # msgs[s].view
    <3>1. Fine(msgs', {active.orig})
      BY <2>1, FineMore
    <3> QED
      BY <1>6, <2>3, <3>1 DEF CalendarClose, Unregistered, Orderly
  <2> QED
    BY <2>2, <2>3
<1>7. CASE CalendarRegenerate(s)
  <2>1. ASSUME NEW ms \in [Shown -> Content], Fine(ms, {active.orig}), NEW n \in Ephemeral, Updated(ms, n)
        PROVE  Fine(msgs', {active'.orig})
    <3>1. CASE active = NoClick
      BY <2>1, <3>1 DEF Updated
    <3>2. CASE active # NoClick
      <4>1. Lost(ms, active) \in [Shown -> Content] /\ Fine(Lost(ms, active), {active.orig} \ {active.orig})
        BY <1>1, <2>1, FineLost
      <4>2. Fine(Lost(ms, active), {})
        BY <4>1, FineMore
      <4>3. Fine([Lost(ms, active) EXCEPT ![n].menu = TRUE], {} \cup {n})
        BY <2>1, <4>1, <4>2, FineMenu
      <4>4. msgs' = [Lost(ms, active) EXCEPT ![n].menu = TRUE] /\ active'.orig = n
        BY <2>1, <3>2 DEF Updated, Click
      <4> QED
        BY <4>3, <4>4, FineMore
    <3> QED
      BY <3>1, <3>2
  <2>2. CASE Updated(msgs, s)
    BY <1>1, <1>7, <2>1, <2>2 DEF CalendarRegenerate, Orderly
  <2>3. CASE Room /\ Updated([msgs EXCEPT ![New] = Message("toast", NoClick)], New)
    <3>1. [msgs EXCEPT ![New] = Message("toast", NoClick)] \in [Shown -> Content]
      BY <2>3, SentKeeps, MessageType, NoClickType, PlainKinds
    <3>2. New \in Ephemeral
      BY <2>3, NewIsEphemeral
    <3>3. Fine([msgs EXCEPT ![New] = Message("toast", NoClick)], {active.orig})
      BY <1>1, <2>3, PlainKinds, SentOrderly
    <3>4. Fine(msgs', {active'.orig})
      BY <2>1, <2>3, <3>1, <3>2, <3>3
    <3> QED
      BY <1>7, <3>4 DEF CalendarRegenerate, Orderly
  <2> QED
    BY <1>7, <2>2, <2>3 DEF CalendarRegenerate
<1> QED
  BY <1>2, <1>3, <1>4, <1>5, <1>6, <1>7 DEF OnMessage

\* register_menu, the timeouts and the toasts: the menu that goes is the one registered.
LEMMA SessionOrderly ==
    ASSUME IInv, Orderly, SessionNext
    PROVE  Orderly'
<1> USE DEF IInv, Stored
<1>1. msgs \in [Shown -> Content] /\ active \in Holder /\ Fine(msgs, {active.orig})
  BY DEF Orderly
<1>2. ASSUME NEW o \in opening, Registered(o)
      PROVE  Orderly'
  <2>1. o.click.orig \in Ephemeral /\ o.prev.orig \in Private /\ o.prev = o.seen
    BY DEF Holder, Orderly
  <2> DEFINE ms == [msgs EXCEPT ![o.click.orig].menu = TRUE]
  <2>2. ms \in [Shown -> Content] /\ Fine(ms, {active.orig} \cup {o.click.orig})
    BY <1>1, <2>1, FineMenu
  <2>3. Delete(IF active # o.seen THEN Lost(ms, active) ELSE ms, o.prev.orig) /\ active' = o.click
    BY <1>2 DEF Registered
  <2> HIDE DEF ms
  <2>4. CASE active # o.seen
    <3>1. /\ Lost(ms, active) \in [Shown -> Content]
          /\ Fine(Lost(ms, active), ({active.orig} \cup {o.click.orig}) \ {active.orig})
      BY <1>1, <2>2, FineLost
    <3>2. Fine(Lost(ms, active), {o.click.orig})
      BY <3>1, FineMore
    <3>3. Delete(Lost(ms, active), o.prev.orig)
      BY <2>3, <2>4
    <3>4. Fine(msgs', {o.click.orig} \ {o.prev.orig})
      BY <2>1, <3>1, <3>2, <3>3, FineDelete
    <3>5. Fine(msgs', {o.click.orig})
      BY <3>4, FineMore
    <3> QED
      BY <1>2, <2>3, <3>5 DEF Registered, Orderly
  <2>5. CASE active = o.seen
    <3>1. Delete(ms, active.orig) /\ active.orig \in Private
      BY <2>1, <2>3, <2>5
    <3>2. Fine(msgs', ({active.orig} \cup {o.click.orig}) \ {active.orig})
      BY <2>2, <3>1, FineDelete
    <3>3. Fine(msgs', {o.click.orig})
      BY <3>2, FineMore
    <3> QED
      BY <1>2, <2>3, <3>3 DEF Registered, Orderly
  <2> QED
    BY <2>4, <2>5
<1>3. ASSUME NEW c \in views, Timeout(c)
      PROVE  Orderly'
  <2>1. c.orig \in Private /\ Fine(msgs', {active.orig} \ {c.orig})
    BY <1>1, <1>3, FineDelete DEF Timeout, Holder
  <2>2. Fine(msgs', {active.orig}) /\ (active = c => Fine(msgs', {NoClick.orig}))
    BY <2>1, FineMore
  <2> QED
    BY <1>3, <2>2 DEF Timeout, Unregistered, Orderly
<1>4. ASSUME NEW n \in timers, Dismiss(n)
      PROVE  Orderly'
  <2>1. Fine(msgs', {active.orig} \ {n})
    BY <1>1, <1>4, FineDelete DEF Dismiss
  <2>2. Fine(msgs', {active.orig})
    BY <2>1, FineMore
  <2> QED
    BY <1>4, <2>2 DEF Dismiss, Orderly
<1> QED
  BY <1>2, <1>3, <1>4 DEF SessionNext

LEMMA SubmitOrderly ==
    ASSUME IInv, Orderly, DetailsSubmit \/ ProjectSubmit \/ SubmitRefused
    PROVE  Orderly'
<1> USE DEF IInv, Stored
<1>1. msgs \in [Shown -> Content] /\ Fine(msgs, {active.orig})
  BY DEF Orderly
<1>2. UNCHANGED <<active, opening>>
  BY DEF DetailsSubmit, ProjectSubmit, SubmitRefused
<1>3. CASE UNCHANGED msgs
  BY <1>1, <1>2, <1>3 DEF Orderly
<1>4. ASSUME NEW k \in Kinds, Room, Delete([msgs EXCEPT ![New] = Message(k, NoClick)], modal.parent)
      PROVE  Orderly'
  <2>1. [msgs EXCEPT ![New] = Message(k, NoClick)] \in [Shown -> Content]
    BY <1>4, SentKeeps, MessageType, NoClickType
  <2>2. Fine([msgs EXCEPT ![New] = Message(k, NoClick)], {active.orig})
    BY <1>1, <1>4, SentOrderly
  <2>3. Fine(msgs', {active.orig} \ {modal.parent})
    BY <1>4, <2>1, <2>2, FineDelete
  <2>4. Fine(msgs', {active.orig})
    BY <2>3, FineMore
  <2> QED
    BY <1>2, <2>4 DEF Orderly
<1>5. CASE DetailsSubmit
  BY <1>3, <1>4, <1>5, PlainKinds DEF DetailsSubmit
<1>6. CASE ProjectSubmit /\ ~UNCHANGED msgs
  <2>1. Room /\ msgs' = [msgs EXCEPT ![New] = Message("wizard", Kept(Click(New), TRUE))]
    BY <1>6 DEF ProjectSubmit, Kept
  <2>2. Fine([msgs EXCEPT ![New] = Message("wizard", Kept(Click(New), TRUE))], {active.orig})
    BY <1>1, <2>1, PlainKinds, SentOrderly
  <2> QED
    BY <1>2, <2>1, <2>2 DEF Orderly
<1>7. CASE SubmitRefused
  <2>1. Room /\ msgs' = [msgs EXCEPT ![New] = Message("toast", NoClick)]
    BY <1>7 DEF SubmitRefused
  <2>2. Fine([msgs EXCEPT ![New] = Message("toast", NoClick)], {active.orig})
    BY <1>1, <2>1, PlainKinds, SentOrderly
  <2> QED
    BY <1>2, <2>1, <2>2 DEF Orderly
<1> QED
  BY <1>3, <1>5, <1>6, <1>7

\* Menus and pages stay orderly.
LEMMA StaysOrderly == Spec => []Orderly
<1>1. IInv /\ Orderly /\ [Next]_session => Orderly'
  <2> SUFFICES ASSUME IInv, Orderly, [Next]_session PROVE Orderly'
    OBVIOUS
  <2>1. ASSUME NEW s \in Shown,
               HubButtons(s) \/ TaskButtons(s) \/ SettingsButtons(s) \/ ProjectButtons(s)
        PROVE  Orderly'
    <3>1. Handled(s)
      BY <2>1, HubHandled, TaskHandled, SettingsHandled, ProjectHandled
    <3> QED
      BY <3>1, AnswerOrderly, OnMessageOrderly DEF Handled
  <2>2. CASE DetailsSubmit \/ ProjectSubmit \/ SubmitRefused
    BY <2>2, SubmitOrderly
  <2>3. CASE Commands
    BY <2>3, CommandsHandled, AnswerOrderly
  <2>4. CASE SessionNext
    BY <2>4, SessionOrderly
  <2>5. CASE UNCHANGED session
    BY <2>5 DEF session, Orderly
  <2> QED
    BY <2>1, <2>2, <2>3, <2>4, <2>5 DEF Next
<1> QED
  BY <1>1, InitOrderly, Invariant, PTL DEF Spec

\* Of the menus a user has opened by commands at most one is there, however the openings,
\* timeouts and dismissals overlap, but for those OneMenu excepts.
THEOREM AtMostOneMenu == Spec => []OneMenu
<1>1. Orderly => OneMenu
  <2> SUFFICES ASSUME Orderly PROVE OneMenu
    OBVIOUS
  <2> DEFINE menus == {n \in Ephemeral : msgs[n].menu /\ ~Gone(n)}
  <2>1. menus \subseteq {active.orig}
    BY DEF Orderly, Fine, Gone, Is
  <2>2. IsFiniteSet({active.orig}) /\ Cardinality({active.orig}) = 1
    BY FS_Singleton
  <2>3. Cardinality(menus) <= 1
    BY <2>1, <2>2, FS_Subset
  <2> QED
    BY <2>3 DEF OneMenu
<1> QED
  BY <1>1, StaysOrderly, PTL

\* A page that is shown has items, for any page size and any search, or is one of
\* /task list beyond the tasks it has fetched; none lies beyond what was counted.
THEOREM PagesShowItems == Spec => []PageShowsItems
<1>1. Orderly => PageShowsItems
  <2> SUFFICES ASSUME Orderly, NEW n \in Ephemeral, msgs[n].kind \in Paged
               PROVE  LET m == msgs[n]  from == m.page * PageSize IN
                         \/ from < Had(m)
                         \/ m.total = 0 /\ m.page = 0
                         \/ m.kind = "list" /\ from \in Fetched .. m.total - 1
    BY DEF PageShowsItems
  <2> DEFINE m == msgs[n]  from == m.page * PageSize
  <2>1. /\ m.page \in Nat /\ m.total \in Nat
        /\ (m.total = 0 /\ m.page = 0) \/ from < m.total
    BY DEF Orderly, Fine, PageRight
  <2>2. from \in Nat /\ Fetched \in Nat
    BY <2>1, PagesAssumption
  <2> HIDE DEF from
  <2> QED
    BY <2>1, <2>2 DEF Had, from
<1> QED
  BY <1>1, StaysOrderly, PTL

=============================================================================
