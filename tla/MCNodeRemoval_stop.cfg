SPECIFICATION FairSpec
CONSTANTS
    Node = {n1, n2}
    Budgets <- Cleanup
PROPERTIES StopEnds
CHECK_DEADLOCK FALSE
