SPECIFICATION FairSpec
CONSTANTS
    u1 = u1
    u2 = u2
    u3 = u3
    Unit = {u1, u2, u3}
    ClusterCount = 2
    Starts <- GrowthAndLoss
    MaxRequest = 1
INVARIANTS NoStrangers NoChangesMeansClean
PROPERTIES RingForms RemovalSpreads
CHECK_DEADLOCK FALSE
