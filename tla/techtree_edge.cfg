SPECIFICATION FairSearch
CONSTANT Nodes = {n1, n2, n3, n4}
INVARIANTS AcceptedEdgeKeepsDag RefusalIsJustified
PROPERTIES Terminates
CHECK_DEADLOCK FALSE
