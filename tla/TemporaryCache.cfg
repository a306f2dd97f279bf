SPECIFICATION Spec
CONSTANTS
    a = a
    b = b
    ab1 = ab1
    a0 = a0
    k1 = k1
    k2 = k2
    k3 = k3
    w1 = w1
    w2 = w2
    None = None
    Workers = {w1, w2}
    Users = {a, b}
    Contexts = {ab1, a0}
    Tabless = {a0}
    UsersOf <- MCUsersOf
    Values = {0}
    Keys = {k1, k2, k3}
SYMMETRY Alike
INVARIANTS
    TypeOK
    KeysStayInTheirTab
    AckedKeyServes
CHECK_DEADLOCK FALSE
