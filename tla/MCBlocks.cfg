CONSTANTS
    Worker = {w1, w2}
    Client = {c1, c2}
    Owner = c1
    MaxTasks = 3
    MaxScopes = 2
    Child = {k1, k2, k3}
SPECIFICATION MCSpec
INVARIANTS Inv ScopesAlive BareInv
PROPERTY JoinsEnd
CHECK_DEADLOCK FALSE
