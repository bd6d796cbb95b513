-------------------------------- MODULE Menus --------------------------------
(***************************************************************************)
(* The buttons, selects, modals and commands that open, replace and close  *)
(* the messages of MenuSession: for each view, what its handlers answer.   *)
(* What they compute and store is in the modules of the services; here a   *)
(* missing permission, an empty list or an error is a choice between the   *)
(* answers.  A handler runs in one step, with the await of register_menu   *)
(* apart; search, filter, page and date inputs are redraws of their view.  *)
(***************************************************************************)
EXTENDS MenuSession

Shown == Public \cup Ephemeral

-----------------------------------------------------------------------------
(* PmHubView: the pinned hub, and its copy in an ephemeral message          *)

NewTaskBtn(s) ==
    /\ Is(s, "hub")
    /\ Ask("details", s, Nowhere) \/ Send("taskpick", TRUE) \/ Send("taskproj", TRUE) \/ Toast

TasksTab(s) == Is(s, "hub") /\ (Send("boardpick", TRUE) \/ Send("tasks", TRUE))

ProjectsTab(s) == Is(s, "hub") /\ Send("project", TRUE)

CreateProjectBtn(s) == Is(s, "hub") /\ (Toast \/ Send("channelpick", TRUE))

\* Mutant: the viewer holds the click, which was answered by a defer: its original
\* response is the message of the button.
TechTreeTabHolds(s) ==
    /\ Is(s, "hub") /\ Room /\ Clicked
    /\ msgs' = [msgs EXCEPT ![New] = Message("tree", Click(s))]
    /\ Watch(Click(s), TRUE)
    /\ UNCHANGED <<timers, active, opening, modal, faults>>

TechTreeTab(s) == Is(s, "hub") /\ (Toast \/ Send("tree", FALSE) \/ Send("treepick", FALSE))

OverdueTab(s) == Is(s, "hub") /\ Send("tasks", TRUE)

\* HubTaskProjectSelectView: the modal deletes the picker when it is submitted.
PickTaskProject(s) ==
    Is(s, "taskpick") /\ (Ask("details", s, msgs[s].view.orig) \/ Fade(s))

BoardPick(s) == Is(s, "boardpick") /\ (Edit(s, "tasks", FALSE) \/ Fade(s))

-----------------------------------------------------------------------------
(* TaskMenuView, TaskSelectProjectView, the task list                      *)

TasksClose(s) == Is(s, "tasks") /\ CloseView(s)
TasksHub(s) == Is(s, "tasks") /\ Edit(s, "hub", FALSE)

TasksNewTask(s) ==
    Is(s, "tasks") /\ (Toast \/ Ask("details", s, Nowhere) \/ Edit(s, "taskproj", TRUE))

TasksStandalone(s) == Is(s, "tasks") /\ (Toast \/ Ask("details", s, Nowhere))
TasksBrowse(s) == Is(s, "tasks") /\ Redraw

ProjectBrowse(s) == Is(s, "taskproj") /\ Turn(s)

\* The parent of the modal is the interaction the modal itself answers, which
\* leaves the picker where it is.
ProjectChosen(s) == Is(s, "taskproj") /\ (Toast \/ Ask("details", s, Nowhere))
ProjectBack(s) == Is(s, "taskproj") /\ Edit(s, "tasks", TRUE)

ListBrowse(s) == Is(s, "list") /\ Turn(s)

-----------------------------------------------------------------------------
(* The draft of a task                                                     *)

\* TaskDetailsModal.on_submit: the draft it was opened from is drawn again, or a
\* new draft is sent and the message of the picker deleted.  A draft that has
\* been deleted meanwhile cannot be drawn: on_error says so.
DetailsSubmit ==
    /\ modal.kind = "details" /\ Clicked /\ modal' = NoModal
    /\ UNCHANGED <<timers, active, opening>>
    /\ IF Is(modal.src, "draft") THEN UNCHANGED <<msgs, views, faults>>
       ELSE /\ Room
            /\ Delete([msgs EXCEPT ![New] = Message(IF Gone(modal.src) /\ modal.parent = Nowhere
                                                      THEN "plain" ELSE "draft", NoClick)], modal.parent)
            /\ UNCHANGED views

\* An empty title: a toast, after the view has been drawn again if there is one.
SubmitRefused ==
    /\ modal.kind # "none" /\ Room /\ Clicked /\ modal' = NoModal
    /\ msgs' = [msgs EXCEPT ![New] = Message("toast", NoClick)]
    /\ timers' = timers \cup {New}
    /\ UNCHANGED <<views, active, opening, faults>>

DraftChange(s) == Is(s, "draft") /\ Redraw
DraftPrereqs(s) == Is(s, "draft") /\ (Say \/ Edit(s, "prereqs", FALSE))
DraftEdit(s) == Is(s, "draft") /\ Ask("details", s, Nowhere)
DraftCancel(s) == Is(s, "draft") /\ Fade(s)
DraftConfirm(s) == Is(s, "draft") /\ (Fade(s) \/ Toast)
PrereqsSelect(s) == Is(s, "prereqs") /\ Redraw
PrereqsDone(s) == Is(s, "prereqs") /\ Edit(s, "draft", FALSE)

-----------------------------------------------------------------------------
(* The tech tree                                                           *)

TreeClose(s) == Is(s, "tree") /\ CloseView(s)
TreeTurn(s) == Is(s, "tree") /\ (Redraw \/ Toast)
TreeSelect(s) == Is(s, "treepick") /\ (Toast \/ Edit(s, "tree", TRUE))

-----------------------------------------------------------------------------
(* The calendar feed and the settings                                      *)

CalendarClose(s) ==
    /\ Is(s, "calendar") /\ Clicked
    /\ views' = views \ {msgs[s].view}
    /\ active' = Unregistered(msgs[s].view)
    /\ Delete(msgs, s)
    /\ UNCHANGED <<timers, opening, modal>>

\* The interaction is stored before it is answered: by the new link, or by the
\* toast of an error.
CalendarRegenerate(s) ==
    /\ Is(s, "calendar") /\ Clicked
    /\ \/ Updated(msgs, s) /\ UNCHANGED timers
       \/ /\ Room
          /\ Updated([msgs EXCEPT ![New] = Message("toast", NoClick)], New)
          /\ timers' = timers \cup {New}
    /\ UNCHANGED <<views, opening, modal, faults>>

SettingsCalendar(s) == Is(s, "settings") /\ (Say \/ Toast \/ Edit(s, "calendar", TRUE))
SettingsTest(s) == Is(s, "settings") /\ Toast
SettingsPref(s) == Is(s, "settings") /\ (Redraw \/ Toast)
SettingsHub(s) == Is(s, "settings") /\ (Edit(s, "dashboard", TRUE) \/ Edit(s, "hub", FALSE))

-----------------------------------------------------------------------------
(* ProjectMenuView and the views it opens                                  *)

ProjectClose(s) == Is(s, "project") /\ CloseView(s)
ProjectTree(s) == Is(s, "project") /\ (Say \/ Toast \/ Send("tree", FALSE) \/ Send("treepick", FALSE))
ProjectHub(s) == Is(s, "project") /\ (Edit(s, "dashboard", TRUE) \/ Edit(s, "hub", FALSE))
ProjectNew(s) == Is(s, "project") /\ (Toast \/ Edit(s, "channelpick", TRUE))
ProjectList(s) == Is(s, "project") /\ (Toast \/ Edit(s, "roster", TRUE))
ProjectRole(s) == Is(s, "project") /\ (Toast \/ Edit(s, "roles", TRUE))
ProjectLead(s) == Is(s, "project") /\ (Toast \/ Edit(s, "lead", TRUE))
ProjectArchive(s) == Is(s, "project") /\ (Toast \/ Edit(s, "archive", TRUE))
ProjectRestore(s) == Is(s, "project") /\ (Toast \/ Edit(s, "restore", TRUE))
ProjectRebuild(s) == Is(s, "project") /\ (Toast \/ Edit(s, "rebuild", TRUE))

RosterBrowse(s) == Is(s, "roster") /\ Turn(s)
RosterBack(s) == Is(s, "roster") /\ Edit(s, "project", TRUE)

RolesApply(s) == Is(s, "roles") /\ (Redraw \/ Say \/ Toast \/ Edit(s, "project", TRUE))
LeadChosen(s) == Is(s, "lead") /\ Redraw
LeadAssign(s) == Is(s, "lead") /\ (Say \/ Toast \/ Edit(s, "project", TRUE))
LeadClear(s) == Is(s, "lead") /\ (Say \/ Toast \/ Edit(s, "project", TRUE))
LeadBack(s) == Is(s, "lead") /\ Edit(s, "project", TRUE)

ArchiveBrowse(s) == Is(s, "archive") /\ Turn(s)
ArchiveSelect(s) == Is(s, "archive") /\ (Say \/ Edit(s, "archiveask", FALSE))
ArchiveBack(s) == Is(s, "archive") /\ Edit(s, "project", TRUE)
ArchiveConfirm(s) == Is(s, "archiveask") /\ (Edit(s, "project", TRUE) \/ Toast)
ArchiveCancel(s) == Is(s, "archiveask") /\ Edit(s, "project", TRUE)

RestoreBrowse(s) == Is(s, "restore") /\ Turn(s)
RestoreSelect(s) == Is(s, "restore") /\ (Say \/ Edit(s, "restoreask", TRUE))
RestoreBack(s) == Is(s, "restore") /\ Edit(s, "project", TRUE)
RestoreConfirm(s) == Is(s, "restoreask") /\ (Edit(s, "project", TRUE) \/ Toast)
RestoreCancel(s) == Is(s, "restoreask") /\ Edit(s, "project", TRUE)

RebuildSelect(s) == Is(s, "rebuild") /\ (Say \/ Edit(s, "rebuildask", TRUE))
RebuildBack(s) == Is(s, "rebuild") /\ Edit(s, "project", TRUE)

\* The last message has no view; the timeout of the view that asked deletes it.
RebuildConfirm(s) == Is(s, "rebuildask") /\ (Edit(s, "plain", FALSE) \/ Toast)
RebuildCancel(s) == Is(s, "rebuildask") /\ Edit(s, "plain", FALSE)

-----------------------------------------------------------------------------
(* The wizard of a project                                                 *)

ChannelPicked(s) == Is(s, "channelpick") /\ (Toast \/ Ask("project", s, Nowhere))
CurrentChannel(s) == Is(s, "channelpick") /\ (Toast \/ Ask("project", s, Nowhere))
ChannelBack(s) == Is(s, "channelpick") /\ (Edit(s, "dashboard", TRUE) \/ Edit(s, "project", TRUE))

\* ProjectCreateModal.on_submit
ProjectSubmit ==
    /\ modal.kind = "project" /\ Clicked /\ modal' = NoModal
    /\ UNCHANGED <<timers, active, opening, faults>>
    /\ IF Is(modal.src, "wizard") THEN UNCHANGED <<msgs, views>>
       ELSE /\ Room
            /\ msgs' = [msgs EXCEPT ![New] = Message("wizard", Click(New))]
            /\ Watch(Click(New), TRUE)

WizardSelect(s) == Is(s, "wizard") /\ Redraw
WizardEdit(s) == Is(s, "wizard") /\ Ask("project", s, Nowhere)
WizardCancel(s) == Is(s, "wizard") /\ Fade(s)
WizardConfirm(s) == Is(s, "wizard") /\ (Fade(s) \/ Toast \/ Say)

-----------------------------------------------------------------------------
(* PmDashboardView and the views it opens                                  *)

DashboardNewProject(s) == Is(s, "dashboard") /\ (Say \/ Edit(s, "channelpick", TRUE))
DashboardLeadRoles(s) == Is(s, "dashboard") /\ (Say \/ Edit(s, "teamleads", TRUE))
DashboardProjects(s) == Is(s, "dashboard") /\ Edit(s, "project", TRUE)
DashboardSettings(s) == Is(s, "dashboard") /\ (Say \/ Edit(s, "settings", TRUE))
DashboardGuides(s) == Is(s, "dashboard") /\ Edit(s, "overview", TRUE)
OverviewBack(s) == Is(s, "overview") /\ Edit(s, "dashboard", TRUE)
LeadsChange(s) == Is(s, "teamleads") /\ (Redraw \/ Say)
LeadsBack(s) == Is(s, "teamleads") /\ Edit(s, "dashboard", TRUE)

-----------------------------------------------------------------------------
(* The panels of a task's card, and the commands                           *)

CardPanel == SendMenu(TaskCard, "controls", FALSE)
CardView == Say

ControlsSave(s) == Is(s, "controls") /\ (Fade(s) \/ Toast)
ControlsCancel(s) == Is(s, "controls") /\ CloseView(s)

MenuCommand == SendMenu(Nowhere, "dashboard", TRUE)
SettingsCommand == SendMenu(Nowhere, "settings", TRUE)
CalendarCommand == SendMenu(Nowhere, "calendar", TRUE)
TaskListCommand == SendMenu(Nowhere, "list", FALSE) \/ Say
HelpCommand == Toast
TreeCommand == Send("tree", FALSE) \/ Toast

\* An error no handler expects: BaseView.on_error answers with a message that stays.
OnError == Say

-----------------------------------------------------------------------------
HubButtons(s) ==
    \/ NewTaskBtn(s) \/ TasksTab(s) \/ ProjectsTab(s) \/ CreateProjectBtn(s) \/ TechTreeTab(s)
    \/ OverdueTab(s) \/ PickTaskProject(s) \/ BoardPick(s)

TaskButtons(s) ==
    \/ TasksClose(s) \/ TasksHub(s) \/ TasksNewTask(s) \/ TasksStandalone(s) \/ TasksBrowse(s)
    \/ ProjectBrowse(s) \/ ProjectChosen(s) \/ ProjectBack(s) \/ ListBrowse(s)
    \/ DraftChange(s) \/ DraftPrereqs(s) \/ DraftEdit(s) \/ DraftCancel(s) \/ DraftConfirm(s)
    \/ PrereqsSelect(s) \/ PrereqsDone(s)
    \/ TreeClose(s) \/ TreeTurn(s) \/ TreeSelect(s) \/ ControlsSave(s) \/ ControlsCancel(s)

SettingsButtons(s) ==
    \/ CalendarClose(s) \/ CalendarRegenerate(s)
    \/ SettingsCalendar(s) \/ SettingsTest(s) \/ SettingsPref(s) \/ SettingsHub(s)
    \/ DashboardNewProject(s) \/ DashboardLeadRoles(s) \/ DashboardProjects(s) \/ DashboardSettings(s)
    \/ DashboardGuides(s) \/ OverviewBack(s) \/ LeadsChange(s) \/ LeadsBack(s)

ProjectButtons(s) ==
    \/ ProjectClose(s) \/ ProjectTree(s) \/ ProjectHub(s) \/ ProjectNew(s) \/ ProjectList(s)
    \/ ProjectRole(s) \/ ProjectLead(s) \/ ProjectArchive(s) \/ ProjectRestore(s) \/ ProjectRebuild(s)
    \/ RosterBrowse(s) \/ RosterBack(s) \/ RolesApply(s)
    \/ LeadChosen(s) \/ LeadAssign(s) \/ LeadClear(s) \/ LeadBack(s)
    \/ ArchiveBrowse(s) \/ ArchiveSelect(s) \/ ArchiveBack(s) \/ ArchiveConfirm(s) \/ ArchiveCancel(s)
    \/ RestoreBrowse(s) \/ RestoreSelect(s) \/ RestoreBack(s) \/ RestoreConfirm(s) \/ RestoreCancel(s)
    \/ RebuildSelect(s) \/ RebuildBack(s) \/ RebuildConfirm(s) \/ RebuildCancel(s)
    \/ ChannelPicked(s) \/ CurrentChannel(s) \/ ChannelBack(s)
    \/ WizardSelect(s) \/ WizardEdit(s) \/ WizardCancel(s) \/ WizardConfirm(s)

Commands ==
    \/ MenuCommand \/ SettingsCommand \/ CalendarCommand \/ TaskListCommand \/ HelpCommand \/ TreeCommand
    \/ CardPanel \/ CardView \/ OnError

Next ==
    \/ \E s \in Shown : HubButtons(s) \/ TaskButtons(s) \/ SettingsButtons(s) \/ ProjectButtons(s)
    \/ DetailsSubmit \/ ProjectSubmit \/ SubmitRefused \/ Commands
    \/ SessionNext

Spec == SessionInit /\ [][Next]_session

=============================================================================
