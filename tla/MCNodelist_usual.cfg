SPECIFICATION FairSpec
CONSTANTS
    Unit = {u1, u2}
    Vip = vip
    None = None
    Starts <- Usual
INVARIANTS TypeOK AddressesAgree TransportsAgree
PROPERTIES MoveSpreads
CHECK_DEADLOCK FALSE
