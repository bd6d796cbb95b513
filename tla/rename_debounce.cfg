SPECIFICATION Spec
CONSTANTS
    Titles = {t1, t2, t3}
    MaxSyncs = 4
    Window = 2
    MaxRenames = 2
    RetryAfter = 1
SYMMETRY Symmetry
INVARIANTS PendingHasTask WindowRespected TitleSettlesUnlessDropped
CHECK_DEADLOCK FALSE
