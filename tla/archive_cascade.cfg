SPECIFICATION PresenceSpec
CONSTANTS
    p1 = p1
    p2 = p2
    p3 = p3
    f1 = f1
    f2 = f2
    t1 = t1
    t2 = t2
    Projects = {p1, p2, p3}
    Bound <- Shared
    Forums = {f1, f2}
    NoForum = NoForum
    Tasks = {t1, t2}
    Owner <- OwnerOf
    Born <- Ages
    Limit <- Limits
    Std = Std
    Slots = 3
    Actors = {x1}
    Ops = {"archive"}
    MaxOps = 1
    MaxThreads = 2
    MaxFaults = 0
INVARIANT ArchiveCascades
CHECK_DEADLOCK FALSE
