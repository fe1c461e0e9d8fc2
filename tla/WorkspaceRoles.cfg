SPECIFICATION Spec
CONSTANTS
    Procs = {p1, p2}
    Users = {u1, u2, u3}
    WorkspaceIds = {w1}
    MembershipIds = {m1, m2, m3}
    NULL = NULL
INVARIANTS
    OwnerIsMember
    ManagedUnlessGivenUp
PROPERTIES
    ManagersGrant
SYMMETRY Symmetry
CHECK_DEADLOCK FALSE
