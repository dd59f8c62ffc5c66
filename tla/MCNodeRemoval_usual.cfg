SPECIFICATION FairSpec
CONSTANTS
    Node = {n1, n2, n3}
    Budgets <- Usual
INVARIANTS TypeOK MaintenanceIsAnnounced
PROPERTIES RemovalSpec DepartureCompletes
CHECK_DEADLOCK FALSE
