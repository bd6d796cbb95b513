SPECIFICATION CardsSpec
CONSTANTS
    c = c
    l = l
    x = x
    y = y
    Nobody = Nobody
    Users = {c, l}
    Creator = c
    Managers = {}
    Lead = l
    Others = {x}
    Shown = {x}
    Uses <- Split
    Values = {0, 1}
    MaxVersion = 3
PROPERTIES SaveTouchesOnlyEdits RefusedSaveIsClean BlockedIsConfirmed TakenOnlyIfOvertaken SelectionKeepsOthersEdges
CHECK_DEADLOCK FALSE
