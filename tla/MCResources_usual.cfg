SPECIFICATION Spec
CONSTANTS
    vip = vip  haproxy = haproxy  group = group  clone = clone  order = order
    colocation = colocation  n1 = n1  n2 = n2  r1 = r1  r2 = r2  None = None
    Unit = {u1, u2}
    Params = {a, b}
    Primitive = {vip, haproxy}
    Definition = {group, clone, order, colocation}
    Node = {n1, n2}
    Remote = {r1, r2}
    Kind <- Kinds
    Refers <- References
    Within <- Names
    Longer <- LongerNames
    Rank <- Ranks
    Budgets <- Usual
SYMMETRY Sym
INVARIANTS TypeOK HashesAreTrue ResourcesInForce DeletedAreGone ConstraintsInForce RunnableSomewhere RemotesSpread
CHECK_DEADLOCK FALSE
