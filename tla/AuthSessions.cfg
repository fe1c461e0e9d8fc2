SPECIFICATION Spec
CONSTANTS
    Procs = {p1, p2, p3}
    UserIds = {u1, u2}
    Emails = {alice}
    Jtis = {j1, j2, j3, j4}
    NULL = NULL
    Lifetime = 2
    MaxNow = 2
INVARIANTS
    ExchangedIsRevoked
    OneSessionPerLogin
PROPERTIES
    ImplementsSessions
SYMMETRY Symmetry
CHECK_DEADLOCK FALSE
