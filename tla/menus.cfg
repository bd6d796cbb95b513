CONSTANTS
    MaxClicks = 4
    MaxSent = 2
    MaxFaults = 1
    Starts = {"unsent", "wizard"}
    PageSize = 2
    MaxItems = 3
    Fetched = 2

SPECIFICATION Spec
CHECK_DEADLOCK FALSE

INVARIANTS
    PublicStays
    OneMenu
    PageShowsItems
