SPECIFICATION Spec
CONSTANTS
    a = a
    m = m
    r = r
    q = q
    n1 = n1
    n2 = n2
    Nobody = Nobody
    NoRole = NoRole
    Users = {a, m}
    Admins = {a}
    Crew = {m}
    Roles = {r, q}
    Names = {n1, n2}
    NameOf <- SameName
    Founded <- Starts
    Uses <- Asked
    MaxEvents = 1
CONSTRAINT FewTeamLeads
INVARIANT LeadsHoldTheirRole
PROPERTIES  FailureNeverMixes
CHECK_DEADLOCK FALSE
