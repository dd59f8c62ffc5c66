SPECIFICATION FairSpec
CONSTANTS
    Unit = {u1, u2}
    Policies = {"stop", "ignore"}
    Budgets <- UsualBudgets
INVARIANTS TypeOK QuorumApplied MaintenanceApplied
PROPERTIES StonithKept OptionsInForce
CHECK_DEADLOCK FALSE
