SPECIFICATION FairSpec
CONSTANTS
    Node = {n1, n2}
    None = None
    MaxPolls = 2
    MaxRetries = 1
    MaxJobs = 2
    Budgets <- Usual
INVARIANTS TypeOK OneServer
PROPERTIES NodesComeBack NameFollows
CHECK_DEADLOCK FALSE
