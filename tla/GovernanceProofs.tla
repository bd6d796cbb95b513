--------------------------- MODULE GovernanceProofs ---------------------------
(***************************************************************************)
(* For any users, roles, squads and orders of events: no lead record       *)
(* outlives its role unnoticed, and an assignment of roles does what it    *)
(* says, or fails on one side. They speak of handlers that run over many   *)
(* steps, so the invariant says what such a handler may rely on: whoever   *)
(* is about to be named has the roles (or the handler knows that it is     *)
(* late), and how far an assignment has come.                              *)
(***************************************************************************)
EXTENDS Governance, TLAPS

Form == [at : Places, drop : SUBSET Names, add : SUBSET Roles, want : SUBSET Roles, theirs : SUBSET Names,
         who : Crew \cup {Nobody}, alone : BOOLEAN]

\* Whoever is to be named or dismissed is one of the crew, for squads there are.
Leading ==
    \A u \in Users : form[u].at \in {"naming", "dismissing"} =>
        form[u].who \in Crew /\ form[u].drop \subseteq Squads

\* Who is named in time has the roles.
InTime ==
    \A u \in Users : form[u].at = "naming" /\ form[u].alone =>
        \A n \in form[u].drop : squad[n] \in holds[form[u].who]

\* Only squads there are have leads.
Led == \A n \in Names : leads[n] # {} => n \in Squads

\* How far an assignment has come, but for what others have touched: while it takes
\* away it has added nothing; what it has added is there, or its name was taken.
Progress(u) ==
    LET f == form[u] IN
    f.at = "assigning" =>
       /\ f.add \subseteq f.want /\ f.want # {} /\ (f.drop # {} => f.add = f.want)
       /\ f.add = f.want => mapped \ f.theirs \subseteq f.drop
       /\ f.add # f.want => mapped \cup f.theirs # {}
       /\ \A r \in f.want \ f.add :
             (\E n \in mapped \cup f.theirs : squad[n] = r) \/ (Bearers(r) = {} /\ NameOf[r] \in Squads)
       /\ mapped \ (f.drop \cup f.theirs) \subseteq Assignable(f)

Assigning == \A u \in Users : Progress(u)

IInv == TypeOK /\ Leading /\ InTime /\ Led /\ Assigning /\ LeadsHoldTheirRole

-----------------------------------------------------------------------------
(* Steps that only begin or end a handler                                  *)

\* What a handler begins with.
Fresh(f) ==
    /\ f \in Form
    /\ f.at = "assigning" => f.drop = mapped /\ f.add = f.want /\ f.want # {}
    /\ f.at \in {"naming", "dismissing"} => f.who \in Crew /\ f.drop \subseteq mapped
    /\ f.at = "naming" => f.drop = Matching(f.who)

\* A handler that is done leaves nothing behind.
LEMMA DoneIsFresh ==
    ASSUME NEW u
    PROVE  /\ Fresh(Closed) /\ Fresh([Closed EXCEPT !.at = "menu"]) /\ Fresh(Back(u))
           /\ Closed \in Form
  BY DEF Fresh, Closed, Back, Form, Places

\* A step that sets one form afresh, and nothing else but the project's lead.
LEMMA FreshKeeps ==
    ASSUME IInv, NEW u \in Users, NEW f, Fresh(f), Set(u, f),
           lead' \in Crew \cup {Nobody},
           UNCHANGED <<discord, records, mapped, events, missed>>
    PROVE  IInv'
<1> USE DEF IInv
<1>1. TypeOK'
  BY DEF TypeOK, Set, Fresh, Form, discord, records, Squads
<1>2. form' = [form EXCEPT ![u] = f] /\ form \in [Users -> Form]
  BY DEF Set, TypeOK, Form
<1>3. Leading'
  BY <1>2 DEF Leading, Fresh, TypeOK, discord, records, Squads
<1>4. InTime'
  BY <1>2 DEF InTime, Fresh, Matching, discord, records
<1>5. Led' /\ LeadsHoldTheirRole'
  BY DEF Led, LeadsHoldTheirRole, discord, records, Squads
<1>6. Assigning'
  <2> SUFFICES ASSUME NEW v \in Users PROVE Progress(v)'
    BY DEF Assigning
  <2>1. CASE v = u
    BY <1>2, <2>1 DEF Progress, Fresh, Assignable
  <2>2. CASE v # u
    BY <1>2, <2>2 DEF Assigning, Progress, Assignable, Bearers, Squads, records
  <2> QED
    BY <2>1, <2>2
<1> QED
  BY <1>1, <1>3, <1>4, <1>5, <1>6

\* The steps that begin or end a handler, and those on the project's lead.
Turns(u) ==
    \/ OpenMenu(u) \/ Give(u) \/ AssignRoles(u) \/ Assigned(u) \/ RemoveRoles(u) \/ ClearRoles(u)
    \/ SetLead(u) \/ ClearLead(u) \/ ProjectLead(u)

LEMMA TurnsKeep ==
    ASSUME IInv, NEW u \in Users, Turns(u)
    PROVE  IInv'
<1> USE DEF IInv
<1>1. lead \in Crew \cup {Nobody} /\ mapped \subseteq Names
  BY DEF TypeOK, Squads
<1>2. CASE OpenMenu(u) \/ Give(u) \/ Assigned(u)
  BY <1>1, <1>2, DoneIsFresh, FreshKeeps DEF OpenMenu, Give, Assigned, discord, records
<1>3. CASE SetLead(u) \/ ClearLead(u)
  BY <1>3, DoneIsFresh, FreshKeeps DEF SetLead, ClearLead, discord, records
<1>4. CASE AssignRoles(u)
  <2>1. PICK R \in (SUBSET Roles) \ {{}} :
          Set(u, [Closed EXCEPT !.at = "assigning", !.drop = Replaced, !.add = R, !.want = R])
    BY <1>4 DEF AssignRoles
  <2>2. PICK f : f = [Closed EXCEPT !.at = "assigning", !.drop = Replaced, !.add = R, !.want = R]
    OBVIOUS
  <2>3. f = [at |-> "assigning", drop |-> mapped, add |-> R, want |-> R, theirs |-> {}, who |-> Nobody,
             alone |-> TRUE]
    BY <2>2 DEF Closed, Replaced
  <2>4. R \in SUBSET Roles /\ R # {}
    OBVIOUS
  <2>5. f \in Form
    BY <1>1, <2>3, <2>4 DEF Form, Places
  <2>6. Fresh(f)
    BY <2>3, <2>4, <2>5 DEF Fresh
  <2> QED
    BY <1>1, <1>4, <2>1, <2>2, <2>6, FreshKeeps DEF AssignRoles
<1>5. CASE RemoveRoles(u)
  <2>1. PICK R \in (SUBSET Roles) \ {{}} : Set(u, [Closed EXCEPT !.at = "removing", !.add = R])
    BY <1>5 DEF RemoveRoles
  <2>2. Fresh([Closed EXCEPT !.at = "removing", !.add = R])
    BY DEF Fresh, Form, Closed, Places
  <2> QED
    BY <1>1, <1>5, <2>1, <2>2, FreshKeeps DEF RemoveRoles
<1>6. CASE ClearRoles(u)
  <2>1. Fresh([Closed EXCEPT !.at = "clearing", !.drop = mapped])
    BY <1>1 DEF Fresh, Form, Closed, Places
  <2> QED
    BY <1>1, <1>6, <2>1, FreshKeeps DEF ClearRoles
<1>7. CASE ProjectLead(u)
  <2>1. PICK v \in Crew :
          \/ Set(u, [Closed EXCEPT !.at = "naming", !.who = v, !.drop = Matching(v)])
          \/ Set(u, [Closed EXCEPT !.at = "dismissing", !.who = v, !.drop = mapped])
    BY <1>7 DEF ProjectLead
  <2>2. /\ Fresh([Closed EXCEPT !.at = "naming", !.who = v, !.drop = Matching(v)])
        /\ Fresh([Closed EXCEPT !.at = "dismissing", !.who = v, !.drop = mapped])
    BY <1>1 DEF Fresh, Form, Closed, Places, Matching
  <2> QED
    BY <1>1, <1>7, <2>1, <2>2, FreshKeeps DEF ProjectLead
<1> QED
  BY <1>2, <1>3, <1>4, <1>5, <1>6, <1>7 DEF Turns

-----------------------------------------------------------------------------
(* Steps that change the squads of the project                             *)

OthersOvertaken(u) ==
    \A v \in Users \ {u} :
        form'[v] = IF form[v].at = "assigning" THEN [form[v] EXCEPT !.theirs = @ \cup Moved] ELSE form[v]

\* Squads are only added, under the names of their roles.
Grown ==
    /\ squad' \in [Names -> Roles \cup {NoRole}]
    /\ \A n \in Squads : squad'[n] = squad[n]
    /\ \A n \in Names \ Squads : squad'[n] # NoRole => n = NameOf[squad'[n]]

\* Founding a squad changes none there is, and leaves it standing.
LEMMA FoundGrows ==
    ASSUME IInv, NEW n \in Names, NEW r \in Roles, n \in SquadFor(r), Found(n, r)
    PROVE  Grown /\ Squads \subseteq Squads' /\ n \in Squads'
<1>1. squad \in [Names -> Roles \cup {NoRole}] /\ \A m \in Names : squad'[m] = IF m = n /\ squad[n] = NoRole THEN r ELSE squad[m]
  BY DEF IInv, TypeOK, Found
<1>2. n \notin Squads => n = NameOf[r]
  BY DEF SquadFor, Bearers
<1> QED
  BY <1>1, <1>2, GovernanceAssumption DEF IInv, TypeOK, Found, Grown, Squads

LEMMA SameGrows == ASSUME IInv, UNCHANGED squad PROVE Grown /\ Squads' = Squads
  BY DEF IInv, TypeOK, Grown, Squads

\* An assignment that others overtake keeps count of what they have touched.
LEMMA OthersProgress ==
    ASSUME IInv, NEW u, form' \in [Users -> Form], OthersOvertaken(u), Grown, mapped' \subseteq Squads',
           NEW v \in Users, v # u
    PROVE  Progress(v)'
<1> USE DEF IInv
<1>0. form[v] \in Form /\ mapped \subseteq Squads /\ squad \in [Names -> Roles \cup {NoRole}] /\ Progress(v)
  BY DEF TypeOK, Form, Assigning
<1> SUFFICES ASSUME form'[v].at = "assigning" PROVE Progress(v)'
  BY DEF Progress
<1>g. PICK f, g : f = form[v] /\ g = form'[v]
  OBVIOUS
<1>1. /\ f.at = "assigning" /\ g.add = f.add /\ g.want = f.want /\ g.drop = f.drop
      /\ g.theirs = f.theirs \cup Moved /\ f.want \subseteq Roles /\ f.theirs \subseteq Names
  BY <1>0, <1>g DEF OthersOvertaken, Form
<1>2. /\ f.add \subseteq f.want /\ f.want # {} /\ (f.drop # {} => f.add = f.want)
      /\ f.add = f.want => mapped \ f.theirs \subseteq f.drop
      /\ f.add # f.want => mapped \cup f.theirs # {}
      /\ \A r \in f.want \ f.add :
            (\E n \in mapped \cup f.theirs : squad[n] = r) \/ (Bearers(r) = {} /\ NameOf[r] \in Squads)
      /\ mapped \ (f.drop \cup f.theirs) \subseteq Assignable(f)
  BY <1>0, <1>1, <1>g DEF Progress
<1>3. mapped' \ Moved \subseteq mapped /\ mapped \ Moved \subseteq mapped' /\ mapped \subseteq mapped' \cup Moved
  BY DEF Moved
<1>4. \A n \in Squads : squad'[n] = squad[n] /\ n \in Squads' /\ n \in Names
  BY GovernanceAssumption DEF Grown, Squads
<1>5. \A r \in Roles : Bearers(r) = {} /\ NameOf[r] \in Squads => Bearers(r)' = {} /\ NameOf[r] \in Squads'
  BY <1>4 DEF Grown, Bearers, Squads
<1>6. ASSUME NEW r \in g.want \ g.add
      PROVE  (\E n \in mapped' \cup g.theirs : squad'[n] = r) \/ (Bearers(r)' = {} /\ NameOf[r] \in Squads')
  <2>1. r \in f.want \ f.add /\ r \in Roles
    BY <1>1
  <2>2. CASE Bearers(r) = {} /\ NameOf[r] \in Squads
    BY <1>5, <2>1, <2>2
  <2>3. CASE \E n \in mapped \cup f.theirs : squad[n] = r
    <3>1. PICK n \in mapped \cup f.theirs : squad[n] = r
      BY <2>3
    <3>2. n \in Names /\ n \in Squads
      BY <1>0, <1>1, <2>1, <3>1, GovernanceAssumption DEF Squads
    <3>3. squad'[n] = r /\ n \in mapped' \cup g.theirs
      BY <1>1, <1>3, <1>4, <3>1, <3>2
    <3> QED
      BY <3>3
  <2> QED
    BY <1>2, <2>1, <2>2, <2>3
<1>7. ASSUME NEW n \in mapped' \ (g.drop \cup g.theirs)
      PROVE  n \in Names /\ (squad'[n] \in g.want \/ \E r \in g.want : n = NameOf[r] /\ Bearers(r)' = {})
  <2>1. n \in mapped \ (f.drop \cup f.theirs) /\ n \in Squads /\ squad'[n] = squad[n] /\ n \in Names
    BY <1>0, <1>1, <1>3, <1>4
  <2>2. squad[n] \in f.want \/ \E r \in f.want : n = NameOf[r] /\ Bearers(r) = {}
    BY <1>2, <2>1 DEF Assignable
  <2> QED
    BY <1>1, <1>5, <2>1, <2>2
<1>8. mapped' \ (g.drop \cup g.theirs) \subseteq Assignable(g)'
  BY <1>7 DEF Assignable
<1>9. /\ g.add = g.want => mapped' \ g.theirs \subseteq g.drop
      /\ g.add # g.want => mapped' \cup g.theirs # {}
      /\ g.add \subseteq g.want /\ g.want # {} /\ (g.drop # {} => g.add = g.want)
  BY <1>1, <1>2, <1>3
<1> QED
  BY <1>6, <1>8, <1>9, <1>g DEF Progress

\* Whoever changes the project's squads tells the assignments that run; what is
\* asked is that its own goes on as it should.
LEMMA MappedKeeps ==
    ASSUME IInv, NEW u, form' \in [Users -> Form], OthersOvertaken(u), Grown, mapped' \subseteq Squads',
           UNCHANGED <<discord, leads, teamUsers, teamRoles, lead, events, missed>>,
           u \in Users => Progress(u)' /\ form'[u].at \notin {"naming", "dismissing"}
    PROVE  IInv'
<1> USE DEF IInv
<1>1. TypeOK'
  BY DEF TypeOK, Grown, Form, discord
<1>2. Squads \subseteq Squads' /\ \A n \in Squads : squad'[n] = squad[n] /\ squad[n] # NoRole /\ n \in Names
  BY GovernanceAssumption DEF Grown, Squads
<1>3. \A v \in Users : v # u =>
        /\ form'[v].at = form[v].at /\ form'[v].drop = form[v].drop /\ form'[v].who = form[v].who
        /\ form[v].at = "naming" => form'[v].alone = form[v].alone
  BY DEF OthersOvertaken, TypeOK
<1>4. Leading'
  BY <1>2, <1>3 DEF Leading
<1>5. InTime'
  <2> SUFFICES ASSUME NEW v \in Users, form'[v].at = "naming", form'[v].alone, NEW n \in form'[v].drop
               PROVE  squad'[n] \in holds'[form'[v].who]
    BY DEF InTime
  <2>1. v # u
    OBVIOUS
  <2>2. n \in Squads /\ squad[n] \in holds[form[v].who]
    BY <1>3, <2>1 DEF InTime, Leading
  <2> QED
    BY <1>2, <1>3, <2>1, <2>2 DEF discord
<1>6. Led'
  BY <1>2 DEF Led
<1>7. LeadsHoldTheirRole'
  <2>1. ASSUME NEW n \in Names, NEW v \in leads'[n]
        PROVE  \/ squad'[n] \in holds'[v] \/ v \in missed'
               \/ <<v, squad'[n]>> \in events' \/ <<v, Left>> \in events'
               \/ \E m \in Names \ {n} : squad'[m] = squad'[n]
    <3>1. n \in Squads /\ squad'[n] = squad[n] /\ squad[n] # NoRole /\ v \in leads[n]
      BY <1>2, <2>1 DEF Led
    <3>2. ASSUME NEW m \in Names \ {n}, squad[m] = squad[n]
          PROVE  squad'[m] = squad'[n]
      <4>1. m \in Squads
        BY <3>1, <3>2 DEF Squads
      <4> QED
        BY <1>2, <3>1, <3>2, <4>1
    <3>3. \/ squad[n] \in holds[v] \/ v \in missed
          \/ <<v, squad[n]>> \in events \/ <<v, Left>> \in events
          \/ \E m \in Names \ {n} : squad[m] = squad[n]
      BY <3>1 DEF LeadsHoldTheirRole
    <3> QED
      BY <3>1, <3>2, <3>3 DEF discord
  <2> QED
    BY <2>1 DEF LeadsHoldTheirRole, discord
<1>8. Assigning'
  <2> SUFFICES ASSUME NEW v \in Users, v # u PROVE Progress(v)'
    BY DEF Assigning
  <2> QED
    BY OthersProgress
<1> QED
  BY <1>1, <1>4, <1>5, <1>6, <1>7, <1>8

\* What Overtake does to the others, and a change of u's own form after it.
LEMMA OvertakeKeepsForm ==
    ASSUME IInv, NEW u, mapped' \subseteq Names
    PROVE  /\ Overtake(u) \in [Users -> Form]
           /\ form' = Overtake(u) => OthersOvertaken(u)
           /\ u \in Users => Overtake(u)[u] = form[u] /\ form[u] \in Form
<1>1. form \in [Users -> Form]
  BY DEF IInv, TypeOK, Form
<1>2. Moved \subseteq Names
  BY DEF IInv, TypeOK, Squads, Moved
<1>3. \A v \in Users : [form[v] EXCEPT !.theirs = @ \cup Moved] \in Form
  BY <1>1, <1>2 DEF Form
<1> QED
  BY <1>1, <1>3 DEF Overtake, OthersOvertaken

LEMMA OvertakeAndSet ==
    ASSUME IInv, NEW u \in Users, NEW f \in Form, form' = [Overtake(u) EXCEPT ![u] = f], mapped' \subseteq Names
    PROVE  form' \in [Users -> Form] /\ OthersOvertaken(u) /\ form'[u] = f
<1>1. Overtake(u) \in [Users -> Form]
  BY OvertakeKeepsForm
<1>2. \A v \in Users \ {u} : form'[v] = Overtake(u)[v]
  BY <1>1
<1> QED
  BY <1>1, <1>2 DEF Overtake, OthersOvertaken

LEMMA RemoveSquadKeeps ==
    ASSUME IInv, NEW u \in Users, RemoveSquad(u)
    PROVE  IInv'
<1> USE DEF IInv
<1>1. PICK n \in form[u].drop :
         /\ mapped' = mapped \ {n}
         /\ form' = [Overtake(u) EXCEPT ![u].drop = @ \ {n}]
  BY DEF RemoveSquad
<1>0. mapped' \subseteq Names /\ mapped \subseteq Squads
  BY <1>1 DEF TypeOK, Squads
<1> DEFINE f == [form[u] EXCEPT !.drop = @ \ {n}]
<1>2. f \in Form /\ form' = [Overtake(u) EXCEPT ![u] = f]
  <2>1. form[u] \in Form /\ Overtake(u)[u] = form[u]
    BY <1>0, OvertakeKeepsForm
  <2>2. f \in Form
    BY <2>1 DEF Form
  <2> QED
    BY <1>1, <2>1, <2>2
<1>3. form' \in [Users -> Form] /\ OthersOvertaken(u) /\ form'[u] = f
  BY <1>0, <1>2, OvertakeAndSet
<1>4. Grown /\ Squads' = Squads /\ squad' = squad
  BY SameGrows DEF RemoveSquad, records
<1>5. Progress(u)'
  <2> SUFFICES ASSUME f.at = "assigning" PROVE Progress(u)'
    BY <1>3 DEF Progress
  <2>1. /\ form[u].at = "assigning" /\ f.add = form[u].add /\ f.want = form[u].want
        /\ f.theirs = form[u].theirs /\ f.drop = form[u].drop \ {n}
    BY DEF TypeOK
  <2>2. /\ f.add = f.want /\ f.want # {} /\ mapped \ f.theirs \subseteq form[u].drop
    BY <1>1, <2>1 DEF Assigning, Progress
  <2>3. mapped' \ f.theirs \subseteq f.drop
    BY <1>1, <2>1, <2>2
  <2> QED
    BY <1>3, <2>2, <2>3 DEF Progress
<1>6. form'[u].at \notin {"naming", "dismissing"}
  BY <1>3 DEF RemoveSquad, At, TypeOK
<1>7. mapped' \subseteq Squads'
  BY <1>1, <1>4 DEF TypeOK
<1> QED
  BY <1>3, <1>4, <1>5, <1>6, <1>7, MappedKeeps DEF RemoveSquad, records

\* The role that is assigned gets a squad that is there, a new one, or one of another role.
LEMMA AssignSquadKeeps ==
    ASSUME IInv, NEW u \in Users, AssignSquad(u)
    PROVE  IInv'
<1> USE DEF IInv
<1>1. PICK r \in form[u].add, n \in Names :
         /\ n \in SquadFor(r) /\ Found(n, r) /\ mapped' = mapped \cup {n}
         /\ form' = [Overtake(u) EXCEPT ![u].add = @ \ {r}]
  BY DEF AssignSquad
<1>0. mapped' \subseteq Names
  BY <1>1 DEF TypeOK, Squads
<1>f. PICK f : f = [form[u] EXCEPT !.add = @ \ {r}]
  OBVIOUS
<1>2. f \in Form /\ form' = [Overtake(u) EXCEPT ![u] = f] /\ r \in Roles
  <2>1. form[u] \in Form /\ Overtake(u)[u] = form[u]
    BY <1>0, OvertakeKeepsForm
  <2>2. f \in Form /\ r \in Roles
    BY <1>f, <2>1 DEF Form
  <2> QED
    BY <1>1, <1>f, <2>1, <2>2
<1>3. form' \in [Users -> Form] /\ OthersOvertaken(u) /\ form'[u] = f
  BY <1>0, <1>2, OvertakeAndSet
<1>4. Grown /\ Squads \subseteq Squads' /\ n \in Squads'
  BY <1>1, <1>2, FoundGrows
<1>5. mapped' \subseteq Squads'
  BY <1>1, <1>4 DEF TypeOK
<1>6. Progress(u)'
  <2> SUFFICES ASSUME f.at = "assigning" PROVE Progress(u)'
    BY <1>3 DEF Progress
  <2>1. /\ form[u].at = "assigning" /\ f.theirs = form[u].theirs /\ f.add = form[u].add \ {r}
        /\ f.want = form[u].want /\ f.drop = form[u].drop /\ form[u].drop = {}
    BY <1>f DEF TypeOK, AssignSquad, Dropped
  <2>2. /\ f.add \subseteq f.want /\ r \in f.want /\ f.want # {} /\ f.add # f.want
        /\ \A q \in f.want \ form[u].add :
              (\E m \in mapped \cup f.theirs : squad[m] = q) \/ (Bearers(q) = {} /\ NameOf[q] \in Squads)
        /\ \A m \in mapped \ f.theirs : squad[m] \in f.want \/ \E q \in f.want : m = NameOf[q] /\ Bearers(q) = {}
    BY <1>1, <2>1 DEF Assigning, Progress, Assignable
  <2>3. f.want \subseteq Roles
    BY <2>1 DEF TypeOK
  <2>4. \A m \in Names : squad'[m] = IF m = n /\ squad[n] = NoRole THEN r ELSE squad[m]
    BY <1>1 DEF Found, TypeOK
  <2>5. \/ squad[n] = r /\ squad' = squad
        \/ squad[n] # NoRole /\ squad' = squad /\ n = NameOf[r] /\ Bearers(r) = {}
        \/ squad[n] = NoRole /\ squad'[n] = r /\ n = NameOf[r] /\ Bearers(r) = {}
    BY <1>1, <1>2, <2>4, GovernanceAssumption DEF SquadFor, Bearers, Found, TypeOK, Squads
  <2>6. ASSUME NEW q \in f.want \ f.add
        PROVE  (\E m \in mapped' \cup f.theirs : squad'[m] = q) \/ (Bearers(q)' = {} /\ NameOf[q] \in Squads')
    <3>1. CASE q = r
      BY <1>1, <1>4, <2>5, <3>1 DEF Bearers, Squads
    <3>2. CASE q # r /\ \E m \in mapped \cup f.theirs : squad[m] = q
      <4>1. PICK m \in mapped \cup f.theirs : squad[m] = q
        BY <3>2
      <4>2. m \in Names /\ q # NoRole
        BY <1>2, <2>3, <2>6, <4>1, GovernanceAssumption DEF TypeOK, Squads, Form
      <4> QED
        BY <1>1, <2>4, <4>1, <4>2
    <3>3. CASE q # r /\ Bearers(q) = {} /\ NameOf[q] \in Squads
      BY <1>4, <2>4, <3>3 DEF Bearers, Squads
    <3> QED
      BY <2>1, <2>2, <3>1, <3>2, <3>3
  <2>7. \A m \in mapped' \ f.theirs : squad'[m] \in f.want \/ \E q \in f.want : m = NameOf[q] /\ Bearers(q)' = {}
    <3> SUFFICES ASSUME NEW m \in mapped' \ f.theirs
                 PROVE  squad'[m] \in f.want \/ \E q \in f.want : m = NameOf[q] /\ Bearers(q)' = {}
      OBVIOUS
    <3>1. CASE m = n
      BY <2>2, <2>5, <3>1 DEF Bearers, Squads
    <3>2. CASE m \in mapped /\ m # n
      <4>1. m \in Squads /\ squad'[m] = squad[m]
        BY <2>4, <3>2 DEF TypeOK, Squads
      <4>2. ASSUME NEW q \in f.want, m = NameOf[q], Bearers(q) = {}
            PROVE  Bearers(q)' = {}
        BY <2>4, <2>5, <3>2, <4>2 DEF Bearers, Squads
      <4> QED
        BY <2>2, <3>2, <4>1, <4>2
    <3> QED
      BY <1>1, <3>1, <3>2
  <2>8. mapped' \ (f.drop \cup f.theirs) \subseteq Assignable(f)'
    BY <1>0, <1>3, <2>7 DEF Assignable
  <2> QED
    BY <1>1, <1>3, <2>1, <2>2, <2>6, <2>8 DEF Progress
<1>7. form'[u].at \notin {"naming", "dismissing"}
  BY <1>3, <1>f DEF AssignSquad, At, TypeOK
<1> QED
  BY <1>3, <1>4, <1>5, <1>6, <1>7, MappedKeeps DEF AssignSquad, discord

\* Handlers that take roles away, which are not assignments.
LEMMA RemoveRoleKeeps ==
    ASSUME IInv, NEW u \in Users, RemoveRole(u)
    PROVE  IInv'
<1> USE DEF IInv
<1>1. UNCHANGED <<discord, records, lead, events, missed>> /\ form[u].at = "removing"
  BY DEF RemoveRole, At
<1>2. Grown /\ Squads' = Squads
  BY <1>1, SameGrows DEF records
<1>3. CASE form[u].add = {}
  BY <1>1, <1>3, DoneIsFresh, FreshKeeps DEF RemoveRole, TypeOK
<1>4. CASE form[u].add # {}
  <2>1. PICK r \in form[u].add :
          /\ mapped' \in IF Bearers(r) = {} THEN {mapped} ELSE {mapped \ {n} : n \in Bearers(r)}
          /\ form' = [Overtake(u) EXCEPT ![u].add = @ \ {r}]
    BY <1>4 DEF RemoveRole
  <2>0. mapped' \subseteq Names
    BY <2>1 DEF TypeOK, Squads
  <2> DEFINE f == [form[u] EXCEPT !.add = @ \ {r}]
  <2>2. form[u] \in Form /\ Overtake(u)[u] = form[u]
    BY <2>0, OvertakeKeepsForm
  <2>3. f \in Form /\ f.at = "removing"
    BY <1>1, <2>2 DEF Form
  <2>4. form' \in [Users -> Form] /\ OthersOvertaken(u) /\ form'[u] = f
    BY <2>0, <2>1, <2>2, <2>3, OvertakeAndSet
  <2>5. mapped' \subseteq Squads'
    BY <1>2, <2>1 DEF TypeOK
  <2>6. Progress(u)' /\ form'[u].at \notin {"naming", "dismissing"}
    BY <2>3, <2>4 DEF Progress
  <2> QED
    BY <1>1, <1>2, <2>4, <2>5, <2>6, MappedKeeps DEF records
<1> QED
  BY <1>3, <1>4

LEMMA ClearedKeeps ==
    ASSUME IInv, NEW u \in Users, Cleared(u)
    PROVE  IInv'
<1>1. Back(u) \in Form /\ Back(u).at \in {"closed", "menu"}
  BY DoneIsFresh DEF Fresh, Back, Closed
<1>2. form' \in [Users -> Form] /\ OthersOvertaken(u) /\ form'[u] = Back(u)
  BY <1>1, OvertakeAndSet DEF Cleared
<1>3. Progress(u)' /\ form'[u].at \notin {"naming", "dismissing"}
  BY <1>1, <1>2 DEF Progress
<1>4. Grown
  BY SameGrows DEF Cleared, records
<1> QED
  BY <1>2, <1>3, <1>4, MappedKeeps DEF Cleared, records

\* The commands on the squads of a project.
LEMMA CommandsKeep ==
    ASSUME IInv, NEW u \in Users, ProjectRole(u) \/ ProjectSquad(u)
    PROVE  IInv'
<1>1. Nobody \notin Users
  BY GovernanceAssumption
<1>3. mapped \subseteq Squads /\ mapped' \subseteq Names
  BY DEF IInv, TypeOK, Squads, ProjectRole, ProjectSquad
<1>2. form' \in [Users -> Form] /\ OthersOvertaken(Nobody)
  BY <1>3, OvertakeKeepsForm DEF ProjectRole, ProjectSquad
<1>4. CASE ProjectRole(u)
  <2>1. PICK r \in Roles, n \in Names : n \in SquadFor(r) /\ Found(n, r) /\ mapped' \in {mapped \cup {n}, mapped \ {n}}
    BY <1>4 DEF ProjectRole
  <2>2. Grown /\ mapped' \subseteq Squads'
    BY <1>3, <2>1, FoundGrows
  <2> QED
    BY <1>1, <1>2, <1>4, <2>2, MappedKeeps DEF ProjectRole
<1>5. CASE ProjectSquad(u)
  <2>1. Grown /\ mapped' \subseteq Squads'
    BY <1>3, <1>5, SameGrows DEF ProjectSquad, records
  <2> QED
    BY <1>1, <1>2, <1>5, <2>1, MappedKeeps DEF ProjectSquad, records
<1> QED
  BY <1>4, <1>5

-----------------------------------------------------------------------------
(* Steps on the lead records and the team leads                            *)

LEMMA LeadStepKeeps ==
    ASSUME IInv, NEW u \in Users, LeadStep(u)
    PROVE  IInv'
<1> USE DEF IInv
<1>1. PICK n \in form[u].drop :
          /\ leads' = [leads EXCEPT ![n] = IF form[u].at = "naming" THEN @ \cup {form[u].who}
                                           ELSE @ \ {form[u].who}]
          /\ Set(u, IF form[u].drop = {n} THEN Closed ELSE [form[u] EXCEPT !.drop = @ \ {n}])
  BY DEF LeadStep
<1>2. /\ form[u].at \in {"naming", "dismissing"} /\ form[u] \in Form
      /\ form[u].who \in Crew /\ form[u].drop \subseteq Squads /\ n \in Squads /\ n \in Names
  BY <1>1 DEF LeadStep, Leading, TypeOK, Form, Squads
<1> DEFINE f == IF form[u].drop = {n} THEN Closed ELSE [form[u] EXCEPT !.drop = @ \ {n}]
<1>3. /\ f \in Form /\ f.at # "assigning"
      /\ f.at \in {"naming", "dismissing"} =>
            f.at = form[u].at /\ f.who = form[u].who /\ f.alone = form[u].alone /\ f.drop \subseteq form[u].drop
  BY <1>2, DoneIsFresh DEF Form, Closed
<1> HIDE DEF f
<1>4. form' = [form EXCEPT ![u] = f] /\ form \in [Users -> Form]
  BY <1>1 DEF f, Set, TypeOK, Form
<1>5. /\ UNCHANGED <<discord, squad, teamUsers, teamRoles, mapped, lead, events>>
      /\ missed' = IF form[u].at = "naming" /\ ~form[u].alone THEN missed \cup {form[u].who} ELSE missed
      /\ Squads' = Squads /\ ProjectRoles' = ProjectRoles
  BY DEF LeadStep, Squads, ProjectRoles
<1>6. leads' \in [Names -> SUBSET Crew] /\ \A m \in Names \ {n} : leads'[m] = leads[m]
  BY <1>1, <1>2 DEF TypeOK
<1>7. TypeOK'
  BY <1>2, <1>3, <1>4, <1>5, <1>6 DEF TypeOK, Form, discord
<1>8. Leading' /\ InTime'
  BY <1>2, <1>3, <1>4, <1>5 DEF Leading, InTime, discord
<1>9. Led'
  BY <1>2, <1>5, <1>6 DEF Led
<1>10. Assigning'
  <2> SUFFICES ASSUME NEW v \in Users PROVE Progress(v)'
    BY DEF Assigning
  <2>1. form'[v].at = "assigning" => form'[v] = form[v]
    BY <1>3, <1>4
  <2> QED
    BY <1>5, <2>1 DEF Assigning, Progress, Assignable, Bearers
<1>11. LeadsHoldTheirRole'
  <2>1. ASSUME NEW m \in Names, NEW v \in leads'[m], v \notin leads[m]
        PROVE  squad[m] \in holds[v] \/ v \in missed'
    <3>1. m = n /\ v = form[u].who /\ form[u].at = "naming"
      BY <1>1, <1>2, <1>6, <2>1 DEF TypeOK
    <3> QED
      BY <1>5, <3>1 DEF InTime
  <2>2. missed \subseteq missed'
    BY <1>5
  <2> QED
    BY <1>5, <1>6, <2>1, <2>2 DEF LeadsHoldTheirRole, discord
<1> QED
  BY <1>7, <1>8, <1>9, <1>10, <1>11

\* Steps that leave the squads, the roles and the handlers alone.
LEMMA RecordsKeep ==
    ASSUME IInv, UNCHANGED <<discord, squad, mapped, lead, form>>,
           leads' \in [Names -> SUBSET Crew], \A n \in Names : leads'[n] \subseteq leads[n],
           teamUsers' \subseteq Crew, teamRoles' \subseteq Roles,
           events' \subseteq events, missed' \subseteq Crew, LeadsHoldTheirRole'
    PROVE  IInv'
<1> USE DEF IInv
<1>1. TypeOK'
  BY DEF TypeOK, Squads, discord
<1>2. Leading' /\ InTime' /\ Led'
  BY DEF Leading, InTime, Led, Squads, discord
<1>3. Assigning'
  BY DEF Assigning, Progress, Assignable, Bearers, Squads
<1> QED
  BY <1>1, <1>2, <1>3

LEMMA TeamKeeps ==
    ASSUME IInv, NEW u \in Users,
           TeamUser(u) \/ TeamRole(u) \/ ClickTeamRole(u) \/ ClickTeamUser(u)
    PROVE  IInv'
<1> USE DEF IInv
<1>1. UNCHANGED <<discord, squad, leads, mapped, lead, form, events>>
  BY DEF TeamUser, TeamRole, ClickTeamRole, ClickTeamUser
<1>2. CASE \E r \in Roles : PutTeamRole(r) /\ UNCHANGED <<teamUsers, missed>>
  <2>1. LeadsHoldTheirRole'
    BY <1>1, <1>2 DEF LeadsHoldTheirRole, discord
  <2> QED
    BY <1>1, <1>2, <2>1, RecordsKeep DEF PutTeamRole, TypeOK
<1>3. CASE \E v \in Crew : PutTeamUser(v) /\ UNCHANGED teamRoles
  <2>1. missed \subseteq missed' /\ missed' \subseteq Crew /\ teamUsers' \subseteq Crew
    BY <1>3 DEF PutTeamUser, TypeOK
  <2>2. \A v \in teamUsers' : v \in here' \cup missed' \/ <<v, Left>> \in events'
    BY <1>1, <1>3, <2>1 DEF PutTeamUser, LeadsHoldTheirRole, discord
  <2>3. LeadsHoldTheirRole'
    BY <1>1, <2>1, <2>2 DEF LeadsHoldTheirRole, discord
  <2> QED
    BY <1>1, <1>3, <2>1, <2>3, RecordsKeep DEF TypeOK
<1> QED
  BY <1>2, <1>3 DEF TeamUser, TeamRole, ClickTeamRole, ClickTeamUser

-----------------------------------------------------------------------------
(* Discord and its events                                                  *)

\* Losing roles makes the handlers that would name v late.
LEMMA LateForms ==
    ASSUME IInv, NEW v
    PROVE  /\ Late(v) \in [Users -> Form]
           /\ \A u \in Users :
                 /\ Late(v)[u].at = form[u].at /\ Late(v)[u].drop = form[u].drop
                 /\ Late(v)[u].who = form[u].who /\ Late(v)[u].alone \in {form[u].alone, FALSE}
                 /\ form[u].at # "naming" => Late(v)[u] = form[u]
                 /\ form[u].at = "naming" /\ form[u].who = v => ~Late(v)[u].alone
<1>1. form \in [Users -> Form]
  BY DEF IInv, TypeOK, Form
<1>2. \A u \in Users : LET g == [form[u] EXCEPT !.alone = FALSE] IN
         g \in Form /\ g.at = form[u].at /\ g.drop = form[u].drop /\ g.who = form[u].who /\ ~g.alone
  BY <1>1 DEF Form
<1>3. \A u \in Users : form[u] \in Form /\ form[u].alone \in BOOLEAN
  BY <1>1 DEF Form
<1> QED
  BY <1>1, <1>2, <1>3 DEF Late

\* A change of roles and members of which an event tells, or nothing needs to.
LEMMA DiscordKeeps ==
    ASSUME IInv, NEW v \in Crew,
           UNCHANGED <<records, mapped, lead, missed>>,
           here' \subseteq Users, holds' \in [Users -> SUBSET Roles],
           events' \subseteq Crew \X (Roles \cup {Left}), events \subseteq events',
           \A u \in Users \ {v} : holds'[u] = holds[u] /\ (u \in here => u \in here'),
           \A r \in holds[v] \ holds'[v] : <<v, r>> \in events' \/ <<v, Left>> \in events',
           v \in here \ here' => <<v, Left>> \in events',
           form' = Late(v) \/ (form' = form /\ holds[v] \subseteq holds'[v])
    PROVE  IInv'
<1> USE DEF IInv
<1>0. form \in [Users -> Form]
  BY DEF TypeOK, Form
<1>1. /\ form' \in [Users -> Form]
      /\ \A u \in Users :
            /\ form'[u].at = form[u].at /\ form'[u].drop = form[u].drop /\ form'[u].who = form[u].who
            /\ form[u].at # "naming" => form'[u] = form[u]
            /\ form'[u].alone => form[u].alone
            /\ form[u].at = "naming" /\ form[u].who = v /\ form'[u].alone => holds[v] \subseteq holds'[v]
  <2>1. CASE form' = Late(v)
    BY <2>1, LateForms
  <2>2. CASE form' = form /\ holds[v] \subseteq holds'[v]
    BY <1>0, <2>2
  <2> QED
    BY <2>1, <2>2
<1>2. UNCHANGED <<squad, leads, teamUsers, teamRoles, Squads>> /\ v \in Users
  BY GovernanceAssumption DEF records, Squads
<1>3. TypeOK'
  BY <1>1, <1>2 DEF TypeOK, Form
<1>4. Leading' /\ Led'
  BY <1>1, <1>2 DEF Leading, Led
<1>5. InTime'
  <2> SUFFICES ASSUME NEW u \in Users, form'[u].at = "naming", form'[u].alone, NEW n \in form'[u].drop
               PROVE  squad'[n] \in holds'[form'[u].who]
    BY DEF InTime
  <2>1. squad[n] \in holds[form[u].who] /\ form[u].who \in Users
    BY <1>1, GovernanceAssumption DEF InTime, Leading
  <2> QED
    BY <1>1, <1>2, <2>1
<1>6. Assigning'
  <2> SUFFICES ASSUME NEW u \in Users PROVE Progress(u)'
    BY DEF Assigning
  <2>1. form'[u].at = "assigning" => form'[u] = form[u]
    BY <1>1
  <2> QED
    BY <1>2, <2>1 DEF Assigning, Progress, Assignable, Bearers
<1>7. LeadsHoldTheirRole'
  <2>1. ASSUME NEW n \in Names, NEW w \in leads[n]
        PROVE  \/ squad[n] \in holds'[w] \/ w \in missed
               \/ <<w, squad[n]>> \in events' \/ <<w, Left>> \in events'
               \/ \E m \in Names \ {n} : squad[m] = squad[n]
    <3>1. w \in Users
      BY <2>1, GovernanceAssumption DEF TypeOK
    <3> QED
      BY <2>1, <3>1 DEF LeadsHoldTheirRole
  <2>2. ASSUME NEW w \in teamUsers PROVE w \in here' \cup missed \/ <<w, Left>> \in events'
    BY <2>2, GovernanceAssumption DEF LeadsHoldTheirRole, TypeOK
  <2> QED
    BY <1>2, <2>1, <2>2 DEF LeadsHoldTheirRole
<1> QED
  BY <1>3, <1>4, <1>5, <1>6, <1>7

LEMMA MembersKeep ==
    ASSUME IInv, NEW v \in Crew, RoleGiven(v) \/ RoleTaken(v) \/ Leave(v)
    PROVE  IInv'
<1>1. v \in Users /\ here \subseteq Users /\ holds \in [Users -> SUBSET Roles]
      /\ events \subseteq Crew \X (Roles \cup {Left})
  BY GovernanceAssumption DEF IInv, TypeOK
<1>2. CASE RoleGiven(v)
  <2>1. PICK r \in Roles : holds' = [holds EXCEPT ![v] = @ \cup {r}]
    BY <1>2 DEF RoleGiven
  <2> QED
    BY <1>1, <1>2, <2>1, DiscordKeeps DEF RoleGiven
<1>3. CASE RoleTaken(v)
  <2>1. PICK r \in holds[v] : holds' = [holds EXCEPT ![v] = @ \ {r}] /\ events' = events \cup {<<v, r>>}
    BY <1>3 DEF RoleTaken
  <2>2. r \in Roles
    BY <1>1
  <2>3. /\ holds' \in [Users -> SUBSET Roles] /\ \A u \in Users \ {v} : holds'[u] = holds[u]
        /\ holds[v] \ holds'[v] \subseteq {r}
        /\ events' \subseteq Crew \X (Roles \cup {Left}) /\ events \subseteq events' /\ <<v, r>> \in events'
    BY <1>1, <2>1, <2>2
  <2>4. UNCHANGED <<records, mapped, lead, missed, here>> /\ form' = Late(v)
    BY <1>3 DEF RoleTaken
  <2> QED
    BY <1>1, <2>3, <2>4, DiscordKeeps
<1>4. CASE Leave(v)
  <2>1. UNCHANGED <<records, mapped, lead, missed>> /\ form' = Late(v)
    BY <1>4 DEF Leave
  <2>2. /\ here' = here \ {v} /\ holds' = [holds EXCEPT ![v] = {}] /\ events' = events \cup {<<v, Left>>}
    BY <1>4 DEF Leave
  <2>3. /\ holds' \in [Users -> SUBSET Roles] /\ \A u \in Users \ {v} : holds'[u] = holds[u]
        /\ events' \subseteq Crew \X (Roles \cup {Left}) /\ events \subseteq events'
        /\ <<v, Left>> \in events'
    BY <1>1, <2>2
  <2> QED
    BY <1>1, <2>1, <2>2, <2>3, DiscordKeeps
<1> QED
  BY <1>2, <1>3, <1>4

\* An event that is handled, or lost.
LEMMA EventsKeep ==
    ASSUME IInv, NEW e \in events, Lost(e) \/ OnMemberUpdate(e) \/ OnMemberRemove(e)
    PROVE  IInv'
<1> USE DEF IInv
<1>1. /\ events \subseteq Crew \X (Roles \cup {Left}) /\ e[1] \in Crew /\ e = <<e[1], e[2]>>
      /\ teamUsers \subseteq Crew /\ teamRoles \subseteq Roles /\ missed \subseteq Crew
      /\ leads \in [Names -> SUBSET Crew]
  BY DEF TypeOK
<1>2. UNCHANGED <<discord, squad, mapped, lead, form, teamRoles>> /\ events' = events \ {e}
  BY DEF Lost, OnMemberUpdate, OnMemberRemove, records
<1>3. CASE Lost(e)
  <2>1. LeadsHoldTheirRole'
    BY <1>1, <1>2, <1>3 DEF LeadsHoldTheirRole, Lost, discord, records
  <2> QED
    BY <1>1, <1>2, <1>3, <2>1, RecordsKeep DEF Lost, records
<1>4. CASE OnMemberUpdate(e)
  <2>1. PICK N \in Pruned(e[2]) :
          leads' = [n \in Names |-> IF n \in N THEN leads[n] \ {e[1]} ELSE leads[n]]
    BY <1>4 DEF OnMemberUpdate
  <2>2. ASSUME NEW n \in Names, NEW v \in leads'[n]
        PROVE  \/ squad[n] \in holds[v] \/ v \in missed
               \/ <<v, squad[n]>> \in events' \/ <<v, Left>> \in events'
               \/ \E m \in Names \ {n} : squad[m] = squad[n]
    <3>1. v \in leads[n] /\ n \in Squads
      BY <2>1, <2>2 DEF Led
    <3>2. \/ squad[n] \in holds[v] \/ v \in missed
          \/ <<v, squad[n]>> \in events \/ <<v, Left>> \in events
          \/ \E m \in Names \ {n} : squad[m] = squad[n]
      BY <3>1 DEF LeadsHoldTheirRole
    <3>3. e # <<v, Left>>
      BY <1>4, GovernanceAssumption DEF OnMemberUpdate
    <3>4. CASE e = <<v, squad[n]>>
      <4>1. n \in Bearers(e[2]) /\ n \notin N
        BY <2>1, <2>2, <3>1, <3>4 DEF Bearers
      <4>2. PICK m \in Bearers(e[2]) : N = {m}
        BY <2>1, <4>1 DEF Pruned
      <4> QED
        BY <3>4, <4>1, <4>2 DEF Bearers, Squads
    <3> QED
      BY <1>2, <3>2, <3>3, <3>4
  <2>3. ASSUME NEW v \in teamUsers PROVE v \in here \cup missed \/ <<v, Left>> \in events'
    BY <1>2, <1>4, <2>3, GovernanceAssumption DEF LeadsHoldTheirRole, OnMemberUpdate
  <2>4. LeadsHoldTheirRole'
    BY <1>2, <1>4, <2>2, <2>3 DEF LeadsHoldTheirRole, OnMemberUpdate, discord
  <2>5. leads' \in [Names -> SUBSET Crew] /\ \A n \in Names : leads'[n] \subseteq leads[n]
    BY <1>1, <2>1
  <2> QED
    BY <1>1, <1>2, <1>4, <2>4, <2>5, RecordsKeep DEF OnMemberUpdate
<1>5. CASE OnMemberRemove(e)
  <2>1. PICK N \in SUBSET Names :
          /\ leads' = [n \in Names |-> IF n \in N THEN leads[n] \ {e[1]} ELSE leads[n]]
          /\ teamUsers' \in {teamUsers, teamUsers \ {e[1]}}
          /\ missed' = IF e[1] \in teamUsers' \cup UNION {leads'[n] : n \in Names}
                       THEN missed \cup {e[1]} ELSE missed
    BY <1>5 DEF OnMemberRemove
  <2>2. /\ leads' \in [Names -> SUBSET Crew] /\ \A n \in Names : leads'[n] \subseteq leads[n]
        /\ missed \subseteq missed' /\ missed' \subseteq Crew /\ teamUsers' \subseteq teamUsers
        /\ e[1] \in teamUsers' => e[1] \in missed'
        /\ \A n \in Names : e[1] \in leads'[n] => e[1] \in missed'
    BY <1>1, <2>1
  <2>3. ASSUME NEW n \in Names, NEW v \in leads'[n]
        PROVE  \/ squad[n] \in holds[v] \/ v \in missed'
               \/ <<v, squad[n]>> \in events' \/ <<v, Left>> \in events'
               \/ \E m \in Names \ {n} : squad[m] = squad[n]
    <3>1. v = e[1] \/ (e # <<v, squad[n]>> /\ e # <<v, Left>>)
      OBVIOUS
    <3> QED
      BY <1>2, <2>2, <2>3, <3>1 DEF LeadsHoldTheirRole
  <2>4. ASSUME NEW v \in teamUsers' PROVE v \in here \cup missed' \/ <<v, Left>> \in events'
    BY <1>2, <2>2, <2>4 DEF LeadsHoldTheirRole
  <2>5. LeadsHoldTheirRole'
    BY <1>2, <2>3, <2>4 DEF LeadsHoldTheirRole, discord
  <2> QED
    BY <1>1, <1>2, <2>2, <2>5, RecordsKeep
<1> QED
  BY <1>3, <1>4, <1>5

-----------------------------------------------------------------------------
LEMMA InitIInv == Init => IInv
<1> SUFFICES ASSUME Init PROVE IInv
  OBVIOUS
<1>1. Closed \in Form /\ Closed.at = "closed"
  BY DoneIsFresh DEF Closed
<1>2. TypeOK
  BY <1>1, GovernanceAssumption DEF Init, TypeOK, Form
<1>3. Leading /\ InTime /\ Assigning
  BY <1>1 DEF Init, Leading, InTime, Assigning, Progress
<1>4. Led /\ LeadsHoldTheirRole
  BY DEF Init, Led, LeadsHoldTheirRole
<1> QED
  BY <1>2, <1>3, <1>4 DEF IInv

\* The invariant of all that is proved here.
THEOREM Invariant == Spec => []IInv
<1>1. IInv /\ [Next]_vars => IInv'
  <2> SUFFICES ASSUME IInv, [Next]_vars PROVE IInv'
    OBVIOUS
  <2>1. ASSUME NEW u \in Users, Handler(u) PROVE IInv'
    BY <2>1, TurnsKeep, RemoveSquadKeeps, AssignSquadKeeps, RemoveRoleKeeps, ClearedKeeps, CommandsKeep,
       LeadStepKeeps, TeamKeeps DEF Handler, Turns
  <2>2. ASSUME NEW v \in Crew, RoleGiven(v) \/ RoleTaken(v) \/ Leave(v) PROVE IInv'
    BY <2>2, MembersKeep
  <2>3. ASSUME NEW e \in events, Lost(e) \/ OnMemberUpdate(e) \/ OnMemberRemove(e) PROVE IInv'
    BY <2>3, EventsKeep
  <2>4. CASE UNCHANGED vars
    BY <2>4 DEF vars, IInv, TypeOK, Squads, Leading, InTime, Led, Assigning, Progress, Assignable,
                Bearers, LeadsHoldTheirRole
  <2> QED
    BY <2>1, <2>2, <2>3, <2>4 DEF Next
<1> QED
  BY <1>1, InitIInv, PTL DEF Spec

\* Types, for any server.
THEOREM TypeCorrect == Spec => []TypeOK
  BY Invariant, PTL DEF IInv

\* Wherever roles are taken and members leave while squads, leads and team leads are
\* named: on_member_update and on_member_remove leave no record behind but those
\* LeadsHoldTheirRole names.
THEOREM LeadsAreKept == Spec => []LeadsHoldTheirRole
  BY Invariant, PTL DEF IInv

\* Replacing the roles of a project, one transaction per squad, does what it says,
\* whatever others did meanwhile to other squads than those in question.
THEOREM AssignedExactly == Spec => AssignmentIsExact
<1> DEFINE Exact(u) ==
      LET f == form[u] IN
      f.at = "assigning" /\ form'[u] = Back(u) /\ f.add = {} /\ f.drop = {} =>
         /\ \A r \in f.want, v \in Users :
               r \in holds[v] /\ Bearers(r) # {} /\ Bearers(r) \cap f.theirs = {} =>
                  CanCreate(v) /\ CanView(v) /\ Eligible(v) /\ CanMutateByRole(v) /\ CanOpenTree(v)
         /\ mapped \ f.theirs \subseteq Assignable(f)
         /\ f.theirs = {} => \A v \in Users :
               CanCreate(v) \/ Eligible(v) \/ CanOpenTree(v) => v \in Admins \/ InProject(v)
<1>1. ASSUME IInv, NEW u \in Users PROVE Exact(u)
  <2> SUFFICES ASSUME form[u].at = "assigning", form[u].add = {}, form[u].drop = {} PROVE Exact(u)
    OBVIOUS
  <2>1. Progress(u) /\ mapped \subseteq Squads /\ form[u].want \subseteq Roles /\ form[u].theirs \subseteq Names
    BY <1>1 DEF IInv, Assigning, TypeOK
  <2>2. ASSUME NEW r \in form[u].want, NEW v \in Users, r \in holds[v], Bearers(r) # {},
               Bearers(r) \cap form[u].theirs = {}
        PROVE  InProject(v)
    <3>1. PICK n \in mapped \cup form[u].theirs : squad[n] = r
      BY <2>1, <2>2 DEF Progress
    <3>2. n \in mapped
      BY <2>1, <2>2, <3>1, GovernanceAssumption DEF Bearers, Squads
    <3> QED
      BY <2>2, <3>1, <3>2 DEF InProject, ProjectRoles
  <2>3. form[u].theirs = {} => ProjectRoles # {}
    BY <2>1 DEF Progress, ProjectRoles
  <2>4. mapped \ form[u].theirs \subseteq Assignable(form[u])
    BY <2>1 DEF Progress
  <2>5. \A v \in Users : InProject(v) => CanCreate(v) /\ CanView(v) /\ Eligible(v) /\ CanMutateByRole(v) /\ CanOpenTree(v)
    BY DEF CanCreate, CanView, Eligible, CanMutateByRole, CanOpenTree
  <2>6. ProjectRoles # {} =>
          \A v \in Users : CanCreate(v) \/ Eligible(v) \/ CanOpenTree(v) => v \in Admins \/ InProject(v)
    BY DEF CanCreate, Eligible, CanOpenTree
  <2> QED
    BY <2>2, <2>3, <2>4, <2>5, <2>6
<1>2. IInv => [\A u \in Users : Exact(u)]_vars
  BY <1>1
<1> QED
  BY <1>2, Invariant, PTL DEF AssignmentIsExact

\* An error in the middle of an assignment, wherever it strikes and whoever interferes,
\* leaves no old squad beside a new one.
THEOREM FailedOnOneSide == Spec => FailureNeverMixes
<1> DEFINE OneSide(u) ==
      LET f == form[u] IN
      f.at = "assigning" /\ form'[u].at # "assigning" =>
         \/ mapped \ f.theirs \subseteq f.drop
         \/ f.drop = {} /\ mapped \ f.theirs \subseteq Assignable(f)
<1>1. ASSUME IInv, NEW u \in Users PROVE OneSide(u)
  BY <1>1 DEF IInv, Assigning, Progress
<1>2. IInv => [\A u \in Users : OneSide(u)]_vars
  BY <1>1
<1> QED
  BY <1>2, Invariant, PTL DEF FailureNeverMixes

=============================================================================
