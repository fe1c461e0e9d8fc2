SPECIFICATION Spec
CONSTANTS
    Procs = {p1, p2}
    UserIds = {u1, u2}
    Emails = {alice}
    Jtis = {j1, j2, j3}
    NULL = NULL
    Lifetime = 2
    MaxNow = 2
INVARIANTS
    RotatedIsDead
SYMMETRY Symmetry
CHECK_DEADLOCK FALSE
