------------------------------ MODULE Governance ------------------------------
(***************************************************************************)
(* Who may do what: the roles a member holds on Discord, the squads that   *)
(* stand for roles, their leads, the server's team leads, and the squads   *)
(* and the lead of one project.  Records live in the database, roles on    *)
(* Discord; the events that bring the records into line come later, or     *)
(* never.  Handlers of the project menu and of the commands run one        *)
(* transaction per squad and interleave.                                   *)
(***************************************************************************)
EXTENDS Naturals, FiniteSets

CONSTANTS
    Users,       \* users of the server
    Admins,      \* those with administrator or manage_guild
    Crew,        \* those whose roles and records change here
    Nobody,      \* "no lead"
    Roles,       \* Discord roles
    NoRole,      \* stands for "there is no such squad"
    Names,       \* names of squads, unique in the server
    Founded,     \* the squads there may be at first: functions from Names
    NameOf,      \* the name of a role: Discord lets two roles have one
    Uses,        \* bound: which of Operations each user asks for
    MaxEvents    \* bound: events on their way at a time

\* The event of a member who leaves, where others name a role that was taken.
Left == "left"
Operations == {"assign", "remove", "clear", "lead", "role", "squad", "leads", "team"}

ASSUME GovernanceAssumption ==
    /\ Admins \subseteq Users /\ Crew \subseteq Users /\ Nobody \notin Users
    /\ NoRole \notin Roles /\ Left \notin Roles /\ NameOf \in [Roles -> Names]
    /\ Founded \subseteq [Names -> Roles \cup {NoRole}]
    /\ Uses \subseteq Users \X Operations

VARIABLES
    here,        \* members of the server
    holds,       \* the roles each user holds
    squad,       \* the role of each squad
    leads,       \* its lead records
    teamUsers, teamRoles,   \* the server's team leads
    mapped,      \* the squads of the project
    lead,        \* its lead
    form,        \* per user: the menu that is open, or the handler that is running
    events,      \* member events that the bot has not handled yet
    missed       \* history: users about whom an event was lost or came too early

vars == <<here, holds, squad, leads, teamUsers, teamRoles, mapped, lead, form, events, missed>>
discord == <<here, holds>>
records == <<squad, leads, teamUsers, teamRoles>>

Squads == {n \in Names : squad[n] # NoRole}
Bearers(r) == {n \in Squads : squad[n] = r}

-----------------------------------------------------------------------------
(* The predicates of AuthService.                                          *)

IsGuildLead(u) == u \in teamUsers \/ holds[u] \cap teamRoles # {}

CanManageProjects(u) ==
    u \in Admins \/ IsGuildLead(u) \/ \E n \in Squads : u \in leads[n]

CanManageSquadLeads(u, n) == u \in Admins \/ (u \in leads[n] /\ squad[n] \in holds[u])

ProjectRoles == {squad[n] : n \in mapped}
InProject(u) == u = lead \/ holds[u] \cap ProjectRoles # {}

CanCreate(u) == u \in Admins \/ InProject(u) \/ ProjectRoles = {}

CanView(u) == u \in Admins \/ IsGuildLead(u) \/ InProject(u) \/ ProjectRoles = {}

Eligible(u) == InProject(u) \/ ProjectRoles = {}

CanMutateByRole(u) == u \in Admins \/ InProject(u)

\* The tech tree button of the project menu asks a service that knows no team leads.
CanOpenTree(u) == u \in Admins \/ InProject(u) \/ ProjectRoles = {}

-----------------------------------------------------------------------------
Closed == [at |-> "closed", drop |-> {}, add |-> {}, want |-> {}, theirs |-> {}, who |-> Nobody,
           alone |-> TRUE]

Init ==
    /\ here = Users
    /\ holds \in [Users -> SUBSET Roles]
    /\ \A u \in Users \ Crew : holds[u] = {}
    /\ squad \in Founded
    /\ leads = [n \in Names |-> {}]
    /\ teamUsers = {} /\ teamRoles = {}
    /\ mapped \in SUBSET Squads /\ lead = Nobody
    /\ form = [u \in Users |-> Closed]
    /\ events = {} /\ missed = {}

At(u, place) == u \in here /\ form[u].at = place
Set(u, f) == form' = [form EXCEPT ![u] = f]

\* The mapping changes under the assignments of the others.
Moved == (mapped \ mapped') \cup (mapped' \ mapped)
Overtake(u) == [v \in Users |-> IF v # u /\ form[v].at = "assigning"
                                THEN [form[v] EXCEPT !.theirs = @ \cup Moved] ELSE form[v]]

\* The menu a handler comes back to has buttons for server managers only.
Back(u) == IF u \in Admins THEN [Closed EXCEPT !.at = "menu"] ELSE Closed

OpenMenu(u) ==
    /\ At(u, "closed") /\ CanManageProjects(u)
    /\ Set(u, [Closed EXCEPT !.at = "menu"])
    /\ UNCHANGED <<discord, records, mapped, lead, events, missed>>

\* The menu is closed or times out; a running handler meets an error, which is shown.
Give(u) ==
    /\ At(u, "menu") \/ form[u].drop # {} \/ form[u].add # {}
    /\ Set(u, IF form[u].at \in {"menu", "naming", "dismissing"} THEN Closed ELSE [Closed EXCEPT !.at = "menu"])
    /\ UNCHANGED <<discord, records, mapped, lead, events, missed>>

-----------------------------------------------------------------------------
(* The role view of a project.                                             *)

\* Mutant: nothing is taken away first.
ReplacedNone == {}

Replaced == mapped

AssignRoles(u) ==
    /\ At(u, "menu") /\ <<u, "assign">> \in Uses
    /\ \E R \in (SUBSET Roles) \ {{}} :
          Set(u, [Closed EXCEPT !.at = "assigning", !.drop = Replaced, !.add = R, !.want = R])
    /\ UNCHANGED <<discord, records, mapped, lead, events, missed>>

\* Of the squads with a role the database returns any; else the one with the role's name.
SquadFor(r) == IF Bearers(r) # {} THEN Bearers(r) ELSE {NameOf[r]}

\* get_or_create_squad_for_role
Found(n, r) == squad' = [squad EXCEPT ![n] = IF @ = NoRole THEN r ELSE @]

RemoveSquad(u) ==
    /\ At(u, "assigning") \/ At(u, "clearing")
    /\ \E n \in form[u].drop :
          /\ mapped' = mapped \ {n}
          /\ form' = [Overtake(u) EXCEPT ![u].drop = @ \ {n}]
    /\ UNCHANGED <<discord, records, lead, events, missed>>

\* Mutant: the new squads are assigned while the old ones are there.
DroppedSoon(u) == TRUE

Dropped(u) == form[u].drop = {}

AssignSquad(u) ==
    /\ At(u, "assigning") /\ Dropped(u)
    /\ \E r \in form[u].add, n \in Names :
          /\ n \in SquadFor(r)
          /\ Found(n, r) /\ mapped' = mapped \cup {n}
          /\ form' = [Overtake(u) EXCEPT ![u].add = @ \ {r}]
    /\ UNCHANGED <<discord, leads, teamUsers, teamRoles, lead, events, missed>>

Assigned(u) ==
    /\ At(u, "assigning") /\ form[u].drop = {} /\ form[u].add = {}
    /\ Set(u, Back(u))
    /\ UNCHANGED <<discord, records, mapped, lead, events, missed>>

RemoveRoles(u) ==
    /\ At(u, "menu") /\ <<u, "remove">> \in Uses
    /\ \E R \in (SUBSET Roles) \ {{}} : Set(u, [Closed EXCEPT !.at = "removing", !.add = R])
    /\ UNCHANGED <<discord, records, mapped, lead, events, missed>>

\* One squad for each role, whichever is found.
RemoveRole(u) ==
    /\ At(u, "removing")
    /\ IF form[u].add = {} THEN Set(u, Back(u)) /\ UNCHANGED mapped
       ELSE \E r \in form[u].add :
               /\ mapped' \in IF Bearers(r) = {} THEN {mapped} ELSE {mapped \ {n} : n \in Bearers(r)}
               /\ form' = [Overtake(u) EXCEPT ![u].add = @ \ {r}]
    /\ UNCHANGED <<discord, records, lead, events, missed>>

ClearRoles(u) ==
    /\ At(u, "menu") /\ <<u, "clear">> \in Uses
    /\ Set(u, [Closed EXCEPT !.at = "clearing", !.drop = mapped])
    /\ UNCHANGED <<discord, records, mapped, lead, events, missed>>

\* set_project_role(None) deletes what was mapped meanwhile.
Cleared(u) ==
    /\ At(u, "clearing") /\ form[u].drop = {}
    /\ mapped' = {}
    /\ form' = [Overtake(u) EXCEPT ![u] = Back(u)]
    /\ UNCHANGED <<discord, records, lead, events, missed>>

SetLead(u) ==
    /\ At(u, "menu") /\ <<u, "lead">> \in Uses
    /\ lead' \in Crew
    /\ Set(u, Back(u))
    /\ UNCHANGED <<discord, records, mapped, events, missed>>

ClearLead(u) ==
    /\ At(u, "menu") /\ <<u, "lead">> \in Uses
    /\ lead' = Nobody
    /\ Set(u, Back(u))
    /\ UNCHANGED <<discord, records, mapped, events, missed>>

-----------------------------------------------------------------------------
(* The commands.                                                           *)

\* /project role: the squad is created even to be unmapped.
ProjectRole(u) ==
    /\ u \in here /\ <<u, "role">> \in Uses /\ CanManageProjects(u)
    /\ \E r \in Roles, n \in Names :
          /\ n \in SquadFor(r) /\ Found(n, r)
          /\ mapped' \in {mapped \cup {n}, mapped \ {n}}
    /\ form' = Overtake(Nobody)
    /\ UNCHANGED <<discord, leads, teamUsers, teamRoles, lead, events, missed>>

ProjectSquad(u) ==
    /\ u \in here /\ <<u, "squad">> \in Uses /\ CanManageProjects(u)
    /\ \E n \in Squads : mapped' \in {mapped \cup {n}, mapped \ {n}}
    /\ form' = Overtake(Nobody)
    /\ UNCHANGED <<discord, records, lead, events, missed>>

\* Mutant: the squad's role is not asked of the new lead.
MatchingAll(v) == mapped

Matching(v) == {n \in mapped : squad[n] \in holds[v]}

\* /project lead: whoever leads one squad of the project may name leads for all of them;
\* the new lead's roles are those the command came with.
ProjectLead(u) ==
    /\ At(u, "closed") /\ <<u, "leads">> \in Uses
    /\ \E n \in mapped : CanManageSquadLeads(u, n)
    /\ \E v \in Crew :
          \/ /\ v \in here /\ Matching(v) # {}
             /\ Set(u, [Closed EXCEPT !.at = "naming", !.who = v, !.drop = Matching(v)])
          \/ Set(u, [Closed EXCEPT !.at = "dismissing", !.who = v, !.drop = mapped])
    /\ UNCHANGED <<discord, records, mapped, lead, events, missed>>

\* A designation that comes after the role was taken away is not undone by any event.
LeadStep(u) ==
    /\ form[u].at \in {"naming", "dismissing"}
    /\ \E n \in form[u].drop :
          /\ leads' = [leads EXCEPT ![n] = IF form[u].at = "naming" THEN @ \cup {form[u].who}
                                           ELSE @ \ {form[u].who}]
          /\ Set(u, IF form[u].drop = {n} THEN Closed ELSE [form[u] EXCEPT !.drop = @ \ {n}])
    /\ missed' = IF form[u].at = "naming" /\ ~form[u].alone THEN missed \cup {form[u].who}
                 ELSE missed
    /\ UNCHANGED <<discord, squad, teamUsers, teamRoles, mapped, lead, events>>

\* The server's team leads; a user may be named who has left.
PutTeamRole(r) == teamRoles' \in {teamRoles \cup {r}, teamRoles \ {r}}

PutTeamUser(v) ==
    /\ teamUsers' \in {teamUsers \cup {v}, teamUsers \ {v}}
    /\ missed' = IF v \in teamUsers' \ here THEN missed \cup {v} ELSE missed

\* /admin lead and /admin lead-role.
TeamUser(u) ==
    /\ u \in Admins /\ <<u, "team">> \in Uses
    /\ \/ \E v \in Crew : PutTeamUser(v) /\ UNCHANGED teamRoles
       \/ \E r \in Roles : PutTeamRole(r) /\ UNCHANGED <<teamUsers, missed>>
    /\ UNCHANGED <<discord, squad, leads, mapped, lead, form, events>>

TeamRole(u) ==
    /\ u \in Admins /\ <<u, "team">> \in Uses
    /\ \E r \in Roles : PutTeamRole(r)
    /\ UNCHANGED <<discord, squad, leads, teamUsers, mapped, lead, form, events, missed>>

\* The team leads view, which asks at every click.
ClickTeamRole(u) == At(u, "menu") /\ TeamRole(u)

ClickTeamUser(u) ==
    /\ At(u, "menu") /\ u \in Admins /\ <<u, "team">> \in Uses
    /\ \E v \in Crew : PutTeamUser(v)
    /\ UNCHANGED <<discord, squad, leads, teamRoles, mapped, lead, form, events>>

-----------------------------------------------------------------------------
(* Discord, and the events it sends.                                       *)

\* Handlers about to name v have read the roles that v had.
Late(v) == [u \in Users |-> IF form[u].at = "naming" /\ form[u].who = v
                            THEN [form[u] EXCEPT !.alone = FALSE] ELSE form[u]]

RoleGiven(v) ==
    /\ v \in here
    /\ \E r \in Roles \ holds[v] : holds' = [holds EXCEPT ![v] = @ \cup {r}]
    /\ UNCHANGED <<here, records, mapped, lead, form, events, missed>>

RoleTaken(v) ==
    /\ Cardinality(events) < MaxEvents
    /\ \E r \in holds[v] :
          /\ holds' = [holds EXCEPT ![v] = @ \ {r}]
          /\ events' = events \cup {<<v, r>>}
    /\ form' = Late(v)
    /\ UNCHANGED <<here, records, mapped, lead, missed>>

Leave(v) ==
    /\ v \in here /\ Cardinality(events) < MaxEvents
    /\ here' = here \ {v} /\ holds' = [holds EXCEPT ![v] = {}]
    /\ events' = events \cup {<<v, Left>>}
    /\ form' = Late(v)
    /\ UNCHANGED <<records, mapped, lead, missed>>

\* The bot is not connected, or the database fails.
Lost(e) ==
    /\ e \in events /\ events' = events \ {e}
    /\ missed' = missed \cup {e[1]}
    /\ UNCHANGED <<discord, records, mapped, lead, form>>

\* Of several squads with the role, one is looked at.
Pruned(r) == IF Bearers(r) = {} THEN {{}} ELSE {{n} : n \in Bearers(r)}

OnMemberUpdate(e) ==
    /\ e \in events /\ e[2] \in Roles
    /\ \E N \in Pruned(e[2]) :
          leads' = [n \in Names |-> IF n \in N THEN leads[n] \ {e[1]} ELSE leads[n]]
    /\ events' = events \ {e}
    /\ UNCHANGED <<discord, squad, teamUsers, teamRoles, mapped, lead, form, missed>>

\* Every squad, and the team leads; an error ends the loop over the squads.
OnMemberRemove(e) ==
    /\ e \in events /\ e[2] = Left
    /\ \E N \in SUBSET Names :
          /\ leads' = [n \in Names |-> IF n \in N THEN leads[n] \ {e[1]} ELSE leads[n]]
          /\ teamUsers' \in {teamUsers, teamUsers \ {e[1]}}
          /\ missed' = IF e[1] \in teamUsers' \cup UNION {leads'[n] : n \in Names}
                       THEN missed \cup {e[1]} ELSE missed
    /\ events' = events \ {e}
    /\ UNCHANGED <<discord, squad, teamRoles, mapped, lead, form>>

Handler(u) ==
    \/ OpenMenu(u) \/ Give(u) \/ AssignRoles(u) \/ RemoveSquad(u) \/ AssignSquad(u)
    \/ Assigned(u) \/ RemoveRoles(u) \/ RemoveRole(u) \/ ClearRoles(u) \/ Cleared(u)
    \/ SetLead(u) \/ ClearLead(u) \/ ProjectRole(u) \/ ProjectSquad(u) \/ ProjectLead(u) \/ LeadStep(u)
    \/ TeamUser(u) \/ TeamRole(u) \/ ClickTeamRole(u) \/ ClickTeamUser(u)

Next ==
    \/ \E u \in Users : Handler(u)
    \/ \E v \in Crew : RoleGiven(v) \/ RoleTaken(v) \/ Leave(v)
    \/ \E e \in events : Lost(e) \/ OnMemberUpdate(e) \/ OnMemberRemove(e)

Spec == Init /\ [][Next]_vars

-----------------------------------------------------------------------------
(* Properties.                                                             *)

Places == {"closed", "menu", "assigning", "removing", "clearing", "naming", "dismissing"}

\* Type invariant.
TypeOK ==
    /\ here \subseteq Users /\ holds \in [Users -> SUBSET Roles]
    /\ squad \in [Names -> Roles \cup {NoRole}] /\ leads \in [Names -> SUBSET Crew]
    /\ teamUsers \subseteq Crew /\ teamRoles \subseteq Roles
    /\ mapped \subseteq Squads /\ lead \in Crew \cup {Nobody}
    /\ form \in [Users -> [at : Places, drop : SUBSET Names, add : SUBSET Roles,
                           want : SUBSET Roles, theirs : SUBSET Names, who : Crew \cup {Nobody}, alone : BOOLEAN]]
    /\ events \subseteq Crew \X (Roles \cup {Left}) /\ missed \subseteq Crew

\* A lead record never outlives the squad's role, or the member, by more than an event on
\* its way, unless another squad has the same role (on_member_update looks at one), an
\* event was lost, or the designation came after the role was gone.
LeadsHoldTheirRole ==
    /\ \A n \in Names : \A v \in leads[n] :
          \/ squad[n] \in holds[v] \/ v \in missed
          \/ <<v, squad[n]>> \in events \/ <<v, Left>> \in events
          \/ \E m \in Names \ {n} : squad[m] = squad[n]
    /\ \A v \in teamUsers : v \in here \cup missed \/ <<v, Left>> \in events

\* Squads that the assignment of f may have put there: those with a role that is wanted,
\* and those of another role that have the name of one.
Assignable(f) ==
    {n \in Names : squad[n] \in f.want \/ \E r \in f.want : n = NameOf[r] /\ Bearers(r) = {}}

\* Whatever others do to the project's squads meanwhile, an assignment of roles that comes
\* to its end does what it says: who holds one of the roles may create, see, be given and
\* change tasks of the project and open its tree, unless others have mapped or unmapped
\* the squad since it began or the role has none as another squad took its name; no other
\* squad is left, but what others have put there; and, if nobody did, the project is closed
\* to those outside, to whom one without roles is open.
AssignmentIsExact ==
    [][\A u \in Users : LET f == form[u] IN
          f.at = "assigning" /\ form'[u] = Back(u) /\ f.add = {} /\ f.drop = {} =>
             /\ \A r \in f.want, v \in Users :
                   r \in holds[v] /\ Bearers(r) # {} /\ Bearers(r) \cap f.theirs = {} =>
                      CanCreate(v) /\ CanView(v) /\ Eligible(v) /\ CanMutateByRole(v) /\ CanOpenTree(v)
             /\ mapped \ f.theirs \subseteq Assignable(f)
             /\ f.theirs = {} => \A v \in Users :
                   CanCreate(v) \/ Eligible(v) \/ CanOpenTree(v) => v \in Admins \/ InProject(v)]_vars

\* An assignment that fails half way has put nothing beside the old squads: what the
\* project has, but for what others have touched, is either what was still to be removed
\* or what was assigned after the last of them had gone.  It may be nothing at all.
FailureNeverMixes ==
    [][\A u \in Users : LET f == form[u] IN
          f.at = "assigning" /\ form'[u].at # "assigning" =>
             \/ mapped \ f.theirs \subseteq f.drop
             \/ f.drop = {} /\ mapped \ f.theirs \subseteq Assignable(f)]_vars
=============================================================================
