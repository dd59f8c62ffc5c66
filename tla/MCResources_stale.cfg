SPECIFICATION Spec
CONSTANTS
    vip = vip  haproxy = haproxy  group = group  clone = clone  order = order
    colocation = colocation  n1 = n1  n2 = n2  r1 = r1  r2 = r2  None = None
    Unit = {u1}
    Params = {a, b}
    Primitive = {vip}
    Definition = {}
    Node = {n1}
    Remote = {}
    Kind <- Kinds
    Refers <- References
    Within <- Names
    Longer <- LongerNames
    Rank <- Ranks
    Budgets <- Again
PROPERTY UnchangedMeansApplied
CHECK_DEADLOCK FALSE
