---------------------------- MODULE MCGovernance ----------------------------
(* A small instance of Governance for TLC: an administrator and a member.  *)
EXTENDS Governance

CONSTANTS a, m, r, q, n1, n2

\* Two roles with one name.
SameName == [x \in {r, q} |-> n1]

\* No squad, one under a name of its own, two with one role.
Starts == {[x \in {n1, n2} |-> NoRole], [x \in {n1, n2} |-> IF x = n2 THEN r ELSE NoRole],
           [x \in {n1, n2} |-> r]}

\* The administrator uses the menus, the member the commands, if it may.
Asked == ({a} \X {"assign", "remove", "clear", "lead", "team", "leads"}) \cup ({m} \X {"role", "squad"})

\* One role or one member at a time is team lead.
FewTeamLeads == Cardinality(teamRoles) + Cardinality(teamUsers) <= 1
=============================================================================
