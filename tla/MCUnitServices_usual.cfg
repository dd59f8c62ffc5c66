SPECIFICATION FairSpec
CONSTANTS
    Unit = {u1, u2}
    PCMKR_MAX_RETRIES = 2
    Budgets <- Usual
INVARIANTS TypeOK NoMixedCluster PausedIsEmpty
PROPERTIES OnlyOldGoDown UpgradeCompletes
CHECK_DEADLOCK FALSE
