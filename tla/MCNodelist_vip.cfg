SPECIFICATION Spec
CONSTANTS
    Unit = {u1, u2}
    Vip = vip
    None = None
    Starts <- Placed
INVARIANTS NoVipInFiles
CHECK_DEADLOCK FALSE
