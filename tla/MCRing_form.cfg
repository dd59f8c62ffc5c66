SPECIFICATION Spec
CONSTANTS
    u1 = u1
    u2 = u2
    u3 = u3
    Unit = {u1, u2, u3}
    ClusterCount = 3
    Starts <- Deployment
    MaxRequest = 0
SYMMETRY Sym
INVARIANTS NoRingTooEarly MembersRegistered
PROPERTIES FormationSpec
CHECK_DEADLOCK FALSE
