SPECIFICATION Spec
CONSTANTS
    u1 = u1
    u2 = u2
    u3 = u3
    Unit = {u1, u2, u3}
    ClusterCount = 2
    Starts <- Faults
    MaxRequest = 2
SYMMETRY Sym
INVARIANTS TypeOK
PROPERTIES RequestsHandledOnce RingFollowsConf
CHECK_DEADLOCK FALSE
