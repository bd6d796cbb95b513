CONSTANTS
    a = a
    b = b
    nobody = nobody
    worker = worker
    Users <- MCUsers
    Nobody = nobody
    Actors <- MCActors
    Worker = worker
    Watchers <- MCWatchers
    Creator = a
    Holder = b
    Pref <- MCPref
    Ops <- MCOps
    Waiting <- MCWaiting
    MaxChanges = 2
    MaxTries = 2
    MaxFaults = 1

SPECIFICATION Spec
CHECK_DEADLOCK FALSE

INVARIANTS
    SettledShowsTask
    EachToldOnce
