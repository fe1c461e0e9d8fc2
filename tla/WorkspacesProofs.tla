--------------------------- MODULE WorkspacesProofs ---------------------------
(***************************************************************************)
(* For all numbers of users, workspaces and concurrent requests: who is a  *)
(* member is unambiguous, an owner stays a member, roles come from         *)
(* managers, and a workspace loses its last manager only to itself or to   *)
(* requests that overlap.                                                  *)
(***************************************************************************)
EXTENDS Workspaces, TLAPS

\* No membership of a workspace that does not exist.
RowsCreated ==
    \A m \in MembershipIds : ~Free(m) => Created(memberships[m].workspace)

\* The history knows every manager there is.
ManagersKnown ==
    \A m \in MembershipIds :
        ~Free(m) /\ memberships[m].role \in MANAGER_ROLES =>
            memberships[m].user \in managed[memberships[m].workspace]

\* A request at work has been let in by a manager, and the row it is about to
\* update is the member's.
Authorized(p) ==
    pc[p] # "idle" =>
        /\ req[p] \in AddMember_t
        /\ Created(req[p].workspace)
        /\ req[p].actor \in managed[req[p].workspace]
        /\ pc[p] = "update" => /\ req[p].existing \in MembershipIds
                               /\ memberships[req[p].existing] # NULL
                               /\ memberships[req[p].existing].workspace = req[p].workspace
                               /\ memberships[req[p].existing].user = req[p].user

\* Where no two requests have overlapped, the one at work is still a manager's.
Alone(w) ==
    w \notin overlapped =>
        \A p \in Procs : AtWork(p, w) =>
            /\ \E m \in MembershipIds : /\ memberships[m] # NULL
                                        /\ memberships[m].workspace = w
                                        /\ memberships[m].user = req[p].actor
                                        /\ memberships[m].role \in MANAGER_ROLES
            /\ \A q \in Procs : AtWork(q, w) => p = q

\* Some manager is left in w.
Managed(w) ==
    \E m \in MembershipIds : /\ memberships[m] # NULL
                             /\ memberships[m].workspace = w
                             /\ memberships[m].role \in MANAGER_ROLES

Reachable(w) == Created(w) /\ w \notin givenUp /\ w \notin overlapped => Managed(w)

IInv ==
    /\ TypeOK
    /\ OneMembership
    /\ OwnerIsMember
    /\ RowsCreated
    /\ ManagersKnown
    /\ \A p \in Procs : Authorized(p)
    /\ \A w \in WorkspaceIds : Alone(w) /\ Reachable(w)
-----------------------------------------------------------------------------
\* A row that is not free is a Membership.
LEMMA RowType ==
    ASSUME TypeOK, NEW m \in MembershipIds, memberships[m] # NULL
    PROVE  /\ memberships[m] \in Membership
           /\ memberships[m].user \in Users
           /\ memberships[m].workspace \in WorkspaceIds
           /\ memberships[m].role \in Role
<1>1. memberships[m] \in Membership
  BY DEF TypeOK
<1> QED
  BY <1>1 DEF Membership

\* What a request works with has its type.
LEMMA RequestType ==
    ASSUME NEW r \in AddMember_t
    PROVE  /\ r.workspace \in WorkspaceIds /\ r.actor \in Users /\ r.user \in Users
           /\ r.role \in Role /\ r.existing \in MembershipIds \cup {NULL} /\ r.loaded \in Role
BY DEF AddMember_t

\* A step that leaves the rows alone, or adds one where there was none, or changes
\* a role: no row changes hands.
RowsStay ==
    \A m \in MembershipIds : memberships[m] # NULL =>
        /\ memberships'[m] # NULL
        /\ memberships'[m].user = memberships[m].user
        /\ memberships'[m].workspace = memberships[m].workspace

\* The rows of an idle request, and of one that the step is not of, stay authorized.
LEMMA AuthorizedStays ==
    ASSUME RowsStay, NEW p \in Procs, Authorized(p), TypeOK,
           pc'[p] = "idle" \/ (pc'[p] = pc[p] /\ req'[p] = req[p]),
           \A w \in WorkspaceIds : Created(w) => Created(w)',
           \A w \in WorkspaceIds : managed[w] \subseteq managed'[w]
    PROVE  Authorized(p)'
<1>1. CASE pc'[p] = "idle"
  BY <1>1 DEF Authorized
<1>2. CASE pc[p] # "idle" /\ pc'[p] = pc[p] /\ req'[p] = req[p]
  <2> DEFINE r == req[p]
  <2>1. r \in AddMember_t /\ Created(r.workspace) /\ r.actor \in managed[r.workspace]
    BY <1>2 DEF Authorized
  <2>2. r.workspace \in WorkspaceIds
    BY <2>1, RequestType
  <2>3. workspaces'[r.workspace] # NULL /\ r.actor \in managed'[r.workspace]
    BY <2>1, <2>2 DEF Created
  <2>4. pc[p] = "update" => /\ r.existing \in MembershipIds
                            /\ memberships[r.existing] # NULL
                            /\ memberships[r.existing].workspace = r.workspace
                            /\ memberships[r.existing].user = r.user
    BY <1>2 DEF Authorized
  <2>5. pc[p] = "update" => /\ memberships'[r.existing] # NULL
                            /\ memberships'[r.existing].workspace = r.workspace
                            /\ memberships'[r.existing].user = r.user
    BY <2>4 DEF RowsStay
  <2> QED
    BY <1>2, <2>1, <2>3, <2>4, <2>5 DEF Authorized, Created
<1> QED
  BY <1>1, <1>2

\* An owner stays a member as long as no row changes hands.
LEMMA OwnersStay ==
    ASSUME RowsStay, OwnerIsMember, workspaces' = workspaces
    PROVE  OwnerIsMember'
BY DEF RowsStay, OwnerIsMember, IsMember, IsMembership, Free, Created

\* The initial state: nothing is there.
LEMMA InitInv == Init => IInv
<1> SUFFICES ASSUME Init PROVE IInv
  OBVIOUS
<1> USE DEF Init
<1>1. TypeOK
  BY DEF TypeOK
<1>2. OneMembership /\ OwnerIsMember /\ RowsCreated /\ ManagersKnown
  BY DEF OneMembership, OwnerIsMember, RowsCreated, ManagersKnown, Free, Created
<1>3. \A p \in Procs : Authorized(p)
  BY DEF Authorized
<1>4. \A w \in WorkspaceIds : Alone(w) /\ Reachable(w)
  BY DEF Alone, Reachable, Created, AtWork
<1> QED
  BY <1>1, <1>2, <1>3, <1>4 DEF IInv

\* A step that leaves the tables and the history alone.
LEMMA QuietInv ==
    ASSUME IInv, UNCHANGED <<tables, managed, givenUp>>,
           TypeOK', \A p \in Procs : Authorized(p)', \A w \in WorkspaceIds : Alone(w)',
           overlapped \subseteq overlapped'
    PROVE  IInv'
<1> USE DEF IInv, tables
<1>1. OneMembership' /\ OwnerIsMember' /\ RowsCreated' /\ ManagersKnown'
  BY DEF OneMembership, OwnerIsMember, RowsCreated, ManagersKnown, Free, Created, IsMember,
         IsMembership
<1>2. \A w \in WorkspaceIds : Reachable(w)'
  BY DEF Reachable, Managed, Created
<1> QED
  BY <1>1, <1>2

\* A manager's request begins.
LEMMA AddMemberInv ==
    ASSUME IInv, NEW p \in Procs, NEW w \in WorkspaceIds, NEW a \in Users, NEW u \in Users,
           NEW r \in Role, AddMember(p, w, a, u, r)
    PROVE  IInv'
<1>1. PICK m \in MembershipIds :
        /\ pc[p] = "idle"
        /\ memberships[m] # NULL /\ memberships[m].workspace = w /\ memberships[m].user = a
        /\ memberships[m].role \in MANAGER_ROLES
        /\ pc' = [pc EXCEPT ![p] = "find"]
        /\ req' = [req EXCEPT ![p] = [workspace |-> w, actor |-> a, user |-> u, role |-> r,
                                      existing |-> NULL, loaded |-> memberships[m].role]]
        /\ overlapped' = IF \E q \in Procs : AtWork(q, w) THEN overlapped \cup {w}
                                                          ELSE overlapped
        /\ UNCHANGED <<tables, managed, givenUp>>
  BY DEF AddMember, IsMembership, Free, Goto
<1>2. /\ TypeOK
      /\ pc \in [Procs -> {"idle", "find", "update", "insert"}]
      /\ req \in [Procs -> AddMember_t \cup {NULL}]
      /\ workspaces' = workspaces /\ memberships' = memberships
      /\ managed' = managed /\ givenUp' = givenUp
  BY <1>1 DEF IInv, TypeOK, tables
<1>3. req'[p] \in AddMember_t
  <2>1. memberships[m].role \in Role
    BY <1>1, <1>2, RowType
  <2> QED
    BY <2>1, <1>1, <1>2 DEF AddMember_t
<1>4. /\ pc'[p] = "find" /\ req'[p].workspace = w /\ req'[p].actor = a
      /\ \A q \in Procs : q # p => pc'[q] = pc[q] /\ req'[q] = req[q]
  BY <1>1, <1>2
<1>5. TypeOK'
  <2>1. pc' \in [Procs -> {"idle", "find", "update", "insert"}]
    BY <1>1, <1>2
  <2>2. req' \in [Procs -> AddMember_t \cup {NULL}]
    BY <1>1, <1>2, <1>3, <1>4
  <2>3. overlapped' \subseteq WorkspaceIds
    BY <1>1, <1>2 DEF TypeOK
  <2> QED
    BY <2>1, <2>2, <2>3, <1>2 DEF TypeOK
<1>6. \A q \in Procs : Authorized(q)'
  <2>1. ASSUME NEW q \in Procs, q # p PROVE Authorized(q)'
    <3>1. RowsStay
      BY <1>2 DEF RowsStay
    <3> QED
      BY <2>1, <3>1, <1>2, <1>4, AuthorizedStays DEF IInv, Created
  <2>2. Authorized(p)'
    <3>1. workspaces[w] # NULL /\ a \in managed[w]
      BY <1>1 DEF IInv, RowsCreated, ManagersKnown, Free, Created
    <3> QED
      BY <3>1, <1>2, <1>3, <1>4 DEF Authorized, Created
  <2> QED
    BY <2>1, <2>2
<1>7. ASSUME NEW v \in WorkspaceIds PROVE Alone(v)'
  <2>1. CASE v # w
    <3>1. v \notin overlapped' => v \notin overlapped
      BY <1>1
    <3>2. \A q \in Procs : AtWork(q, v)' => AtWork(q, v) /\ q # p
      BY <2>1, <1>4 DEF AtWork
    <3> QED
      BY <3>1, <3>2, <1>2, <1>4 DEF IInv, Alone
  <2>2. CASE v = w
    <3> SUFFICES ASSUME w \notin overlapped' PROVE Alone(v)'
      BY <2>2 DEF Alone
    <3>1. \A q \in Procs : ~ AtWork(q, w)
      BY <1>1
    <3>2. \A q \in Procs : AtWork(q, w)' => q = p
      BY <3>1, <1>4 DEF AtWork
    <3> QED
      BY <2>2, <3>2, <1>1, <1>2, <1>4 DEF Alone
  <2> QED
    BY <2>1, <2>2
<1>8. overlapped \subseteq overlapped'
  BY <1>1
<1> QED
  BY <1>2, <1>5, <1>6, <1>7, <1>8, QuietInv DEF tables

\* A request of p that moves on or ends, and is still about the same workspace and actor.
LEMMA OnwardInv ==
    ASSUME IInv, NEW p \in Procs, UNCHANGED <<tables, history>>,
           NEW label \in {"idle", "update", "insert"}, NEW r \in AddMember_t \cup {NULL},
           Goto(p, label, r), pc[p] # "idle",
           label # "idle" => /\ r \in AddMember_t
                             /\ r.workspace = req[p].workspace
                             /\ r.actor = req[p].actor
                             /\ r.user = req[p].user,
           label = "update" => /\ r.existing \in MembershipIds
                               /\ IsMembership(r.existing, r.workspace, r.user)
    PROVE  IInv'
<1>1. /\ TypeOK
      /\ pc \in [Procs -> {"idle", "find", "update", "insert"}]
      /\ req \in [Procs -> AddMember_t \cup {NULL}]
      /\ workspaces' = workspaces /\ memberships' = memberships
      /\ managed' = managed /\ givenUp' = givenUp /\ overlapped' = overlapped
  BY DEF IInv, TypeOK, tables, history
<1>2. /\ pc' = [pc EXCEPT ![p] = label] /\ req' = [req EXCEPT ![p] = r]
      /\ pc'[p] = label /\ req'[p] = r
      /\ \A q \in Procs : q # p => pc'[q] = pc[q] /\ req'[q] = req[q]
  BY <1>1 DEF Goto
<1>3. TypeOK'
  <2>1. pc' \in [Procs -> {"idle", "find", "update", "insert"}]
    BY <1>1, <1>2
  <2>2. req' \in [Procs -> AddMember_t \cup {NULL}]
    BY <1>1, <1>2
  <2> QED
    BY <2>1, <2>2, <1>1 DEF TypeOK
<1>4. \A q \in Procs : Authorized(q)'
  <2>1. ASSUME NEW q \in Procs, q # p PROVE Authorized(q)'
    <3>1. RowsStay
      BY <1>1 DEF RowsStay
    <3> QED
      BY <2>1, <3>1, <1>1, <1>2, AuthorizedStays DEF IInv, Created
  <2>2. Authorized(p)'
    <3>1. Created(req[p].workspace) /\ req[p].actor \in managed[req[p].workspace]
      BY DEF IInv, Authorized
    <3> QED
      BY <3>1, <1>1, <1>2 DEF Authorized, Created, IsMembership, Free
  <2> QED
    BY <2>1, <2>2
<1>5. ASSUME NEW v \in WorkspaceIds PROVE Alone(v)'
  <2>1. \A q \in Procs : AtWork(q, v)' => AtWork(q, v) /\ req'[q].actor = req[q].actor
    BY <1>2 DEF AtWork
  <2> QED
    BY <2>1, <1>1 DEF IInv, Alone
<1> QED
  BY <1>1, <1>3, <1>4, <1>5, QuietInv DEF tables

\* The look-up of the member.
LEMMA FindMemberInv ==
    ASSUME IInv, NEW p \in Procs, FindMember(p)
    PROVE  IInv'
<1> DEFINE r == req[p]
<1>1. /\ TypeOK /\ pc[p] = "find" /\ UNCHANGED <<tables, history>>
      /\ r \in AddMember_t
  BY DEF FindMember, IInv, Authorized
<1>2. CASE \E m \in MembershipIds :
               /\ IsMembership(m, r.workspace, r.user)
               /\ Goto(p, "update",
                       [r EXCEPT !.existing = m,
                                 !.loaded = IF r.user = r.actor THEN @ ELSE memberships[m].role])
  <2>1. PICK m \in MembershipIds :
               /\ IsMembership(m, r.workspace, r.user)
               /\ Goto(p, "update",
                       [r EXCEPT !.existing = m,
                                 !.loaded = IF r.user = r.actor THEN @ ELSE memberships[m].role])
    BY <1>2
  <2> DEFINE new == [r EXCEPT !.existing = m,
                              !.loaded = IF r.user = r.actor THEN @ ELSE memberships[m].role]
  <2>2. memberships[m].role \in Role
    BY <1>1, <2>1, RowType DEF IsMembership, Free
  <2>3. /\ new \in AddMember_t /\ new.workspace = r.workspace /\ new.actor = r.actor
        /\ new.user = r.user /\ new.existing = m
    BY <1>1, <2>2 DEF AddMember_t
  <2>4. Goto(p, "update", new)
    BY <2>1
  <2> HIDE DEF new
  <2> QED
    BY <1>1, <2>1, <2>3, <2>4, OnwardInv
<1>3. CASE Goto(p, "insert", r)
  BY <1>1, <1>3, OnwardInv
<1> QED
  BY <1>2, <1>3 DEF FindMember

\* A request that ends without having written.
LEMMA EndInv ==
    ASSUME IInv, NEW p \in Procs, InsertMemberConflict(p) \/ Abort(p)
    PROVE  IInv'
<1>1. Goto(p, "idle", NULL) /\ pc[p] # "idle" /\ UNCHANGED <<tables, history>>
  BY DEF InsertMemberConflict, Abort
<1> QED
  BY <1>1, OnwardInv
-----------------------------------------------------------------------------
\* One row is written: m0, which was free or had the same user and workspace.
WritesRow(m0, row) ==
    /\ m0 \in MembershipIds
    /\ row \in Membership
    /\ memberships' = [memberships EXCEPT ![m0] = row]
    /\ memberships[m0] # NULL => /\ memberships[m0].user = row.user
                                 /\ memberships[m0].workspace = row.workspace
    /\ memberships[m0] = NULL => ~IsMember(row.workspace, row.user)
    /\ NoteRole(row.workspace, row.user, row.role)
    /\ workspaces'[row.workspace] # NULL

\* What the rows decide survives it.
LEMMA WriteKeepsRows ==
    ASSUME IInv, NEW m0, NEW row, WritesRow(m0, row),
           workspaces' \in [WorkspaceIds -> Users \cup {NULL}],
           \A w \in WorkspaceIds : workspaces[w] # NULL => workspaces'[w] = workspaces[w]
    PROVE  /\ memberships' \in [MembershipIds -> Membership \cup {NULL}]
           /\ managed' \in [WorkspaceIds -> SUBSET Users]
           /\ \A w \in WorkspaceIds : managed[w] \subseteq managed'[w]
           /\ RowsStay
           /\ memberships'[m0] = row /\ row # NULL
           /\ \A m \in MembershipIds : m # m0 => memberships'[m] = memberships[m]
           /\ OneMembership' /\ RowsCreated' /\ ManagersKnown'
<1>1. /\ TypeOK /\ OneMembership /\ RowsCreated /\ ManagersKnown
      /\ m0 \in MembershipIds /\ row \in Membership /\ row # NULL
      /\ memberships \in [MembershipIds -> Membership \cup {NULL}]
      /\ managed \in [WorkspaceIds -> SUBSET Users]
  BY WorkspaceConstants DEF IInv, TypeOK, WritesRow
<1>2. row.user \in Users /\ row.workspace \in WorkspaceIds /\ row.role \in Role
  BY <1>1 DEF Membership
<1>3. /\ memberships' \in [MembershipIds -> Membership \cup {NULL}]
      /\ memberships'[m0] = row
      /\ \A m \in MembershipIds : m # m0 => memberships'[m] = memberships[m]
  BY <1>1 DEF WritesRow
<1>4. /\ managed' \in [WorkspaceIds -> SUBSET Users]
      /\ \A w \in WorkspaceIds : managed[w] \subseteq managed'[w]
      /\ row.role \in MANAGER_ROLES => row.user \in managed'[row.workspace]
  BY <1>1, <1>2 DEF WritesRow, NoteRole
<1>5. RowsStay
  BY <1>1, <1>3 DEF WritesRow, RowsStay
<1>6. OneMembership'
  <2> SUFFICES ASSUME NEW m \in MembershipIds, NEW n \in MembershipIds,
                      memberships'[m] # NULL, memberships'[n] # NULL,
                      memberships'[m].user = memberships'[n].user,
                      memberships'[m].workspace = memberships'[n].workspace
               PROVE  m = n
    BY DEF OneMembership, Free
  <2>1. CASE m # m0 /\ n # m0
    BY <2>1, <1>1, <1>3 DEF OneMembership, Free
  <2>2. ASSUME NEW k \in MembershipIds, k # m0, memberships[k] # NULL,
               memberships[k].user = row.user, memberships[k].workspace = row.workspace
        PROVE  FALSE
    <3>1. memberships[m0] # NULL
      BY <2>2 DEF WritesRow, IsMember, IsMembership, Free
    <3> QED
      BY <2>2, <3>1, <1>1 DEF WritesRow, OneMembership, Free
  <2> QED
    BY <2>1, <2>2, <1>3
<1>7. RowsCreated'
  <2> SUFFICES ASSUME NEW m \in MembershipIds, memberships'[m] # NULL
               PROVE  workspaces'[memberships'[m].workspace] # NULL
    BY DEF RowsCreated, Free, Created
  <2>1. CASE m = m0
    BY <2>1, <1>3 DEF WritesRow
  <2>2. CASE m # m0
    <3>1. memberships'[m] = memberships[m] /\ memberships[m] # NULL
      BY <2>2, <1>3
    <3>2. workspaces[memberships[m].workspace] # NULL
      BY <3>1, <1>1 DEF RowsCreated, Free, Created
    <3>3. memberships[m].workspace \in WorkspaceIds
      BY <3>1, <1>1, RowType
    <3> QED
      BY <3>1, <3>2, <3>3
  <2> QED
    BY <2>1, <2>2
<1>8. ManagersKnown'
  <2> SUFFICES ASSUME NEW m \in MembershipIds, memberships'[m] # NULL,
                      memberships'[m].role \in MANAGER_ROLES
               PROVE  memberships'[m].user \in managed'[memberships'[m].workspace]
    BY DEF ManagersKnown, Free
  <2>1. CASE m = m0
    BY <2>1, <1>3, <1>4
  <2>2. CASE m # m0
    <3>1. memberships'[m] = memberships[m] /\ memberships[m] # NULL
      BY <2>2, <1>3
    <3>2. memberships[m].user \in managed[memberships[m].workspace]
      BY <3>1, <1>1 DEF ManagersKnown, Free
    <3>3. memberships[m].workspace \in WorkspaceIds
      BY <3>1, <1>1, RowType
    <3> QED
      BY <3>1, <3>2, <3>3, <1>4
  <2> QED
    BY <2>1, <2>2
<1> QED
  BY <1>1, <1>3, <1>4, <1>5, <1>6, <1>7, <1>8

\* A workspace begins with its owner as its manager.
LEMMA CreateWorkspaceInv ==
    ASSUME IInv, NEW u \in Users, NEW w \in WorkspaceIds, NEW m0 \in MembershipIds,
           CreateWorkspace(u, w, m0)
    PROVE  IInv'
<1> DEFINE row == [user |-> u, workspace |-> w, role |-> "owner"]
<1>1. /\ TypeOK /\ workspaces[w] = NULL /\ memberships[m0] = NULL
      /\ workspaces \in [WorkspaceIds -> Users \cup {NULL}]
      /\ workspaces' = [workspaces EXCEPT ![w] = u]
      /\ memberships' = [memberships EXCEPT ![m0] = row]
      /\ NoteRole(w, u, "owner")
      /\ pc' = pc /\ req' = req /\ overlapped' = overlapped /\ givenUp' = givenUp
  BY DEF CreateWorkspace, Created, Free, IInv, TypeOK
<1>2. /\ row \in Membership /\ row.user = u /\ row.workspace = w /\ row.role = "owner"
      /\ u # NULL
  BY WorkspaceConstants DEF Membership, Role
<1> HIDE DEF row
<1>3. /\ workspaces' \in [WorkspaceIds -> Users \cup {NULL}]
      /\ \A v \in WorkspaceIds : workspaces[v] # NULL => workspaces'[v] = workspaces[v]
      /\ \A v \in WorkspaceIds : v # w => workspaces'[v] = workspaces[v]
      /\ workspaces'[w] = u
  BY <1>1
<1>4. \A m \in MembershipIds : memberships[m] # NULL => memberships[m].workspace # w
  BY <1>1 DEF IInv, RowsCreated, Free, Created
<1>5. WritesRow(m0, row)
  BY <1>1, <1>2, <1>3, <1>4 DEF WritesRow, IsMember, IsMembership, Free
<1>6. /\ memberships' \in [MembershipIds -> Membership \cup {NULL}]
      /\ managed' \in [WorkspaceIds -> SUBSET Users]
      /\ \A v \in WorkspaceIds : managed[v] \subseteq managed'[v]
      /\ RowsStay
      /\ memberships'[m0] = row /\ row # NULL
      /\ \A m \in MembershipIds : m # m0 => memberships'[m] = memberships[m]
      /\ OneMembership' /\ RowsCreated' /\ ManagersKnown'
  BY <1>3, <1>5, WriteKeepsRows
<1>7. TypeOK'
  BY <1>1, <1>3, <1>6 DEF TypeOK
<1>8. OwnerIsMember'
  <2> SUFFICES ASSUME NEW v \in WorkspaceIds, workspaces'[v] # NULL
               PROVE  \E m \in MembershipIds : /\ memberships'[m] # NULL
                                               /\ memberships'[m].workspace = v
                                               /\ memberships'[m].user = workspaces'[v]
    BY DEF OwnerIsMember, IsMember, IsMembership, Free, Created
  <2>1. CASE v = w
    BY <2>1, <1>2, <1>3, <1>6
  <2>2. CASE v # w
    BY <2>2, <1>3, <1>6 DEF IInv, OwnerIsMember, IsMember, IsMembership, Free, Created, RowsStay
  <2> QED
    BY <2>1, <2>2
<1>9. \A p \in Procs : Authorized(p)'
  BY <1>1, <1>3, <1>6, AuthorizedStays DEF IInv, Created
<1>10. ASSUME NEW v \in WorkspaceIds PROVE Alone(v)' /\ Reachable(v)'
  <2>1. \A p \in Procs : AtWork(p, v)' <=> AtWork(p, v)
    BY <1>1 DEF AtWork
  <2>2. \A m \in MembershipIds : memberships[m] # NULL => memberships'[m] = memberships[m]
    BY <1>1, <1>6
  <2>3. Alone(v)'
    BY <2>1, <2>2, <1>1 DEF IInv, Alone
  <2>4. CASE v = w
    BY <2>3, <2>4, <1>2, <1>6 DEF Reachable, Managed, MANAGER_ROLES
  <2>5. CASE v # w
    BY <2>2, <2>3, <2>5, <1>1, <1>3 DEF IInv, Reachable, Managed, Created
  <2> QED
    BY <2>4, <2>5
<1> QED
  BY <1>6, <1>7, <1>8, <1>9, <1>10 DEF IInv

\* A request of p writes its row and ends: the ones of the others stay authorized.
LEMMA WriteInv ==
    ASSUME IInv, NEW p \in Procs, pc[p] # "idle", NEW m0, NEW row, WritesRow(m0, row),
           row.workspace = req[p].workspace, row.user = req[p].user,
           Goto(p, "idle", NULL), workspaces' = workspaces, overlapped' = overlapped,
           givenUp' = givenUp \/ givenUp' = givenUp \cup {row.workspace},
           memberships[m0] # NULL /\ row.user = req[p].actor /\ row.role \notin MANAGER_ROLES
               => row.workspace \in givenUp'
    PROVE  IInv'
<1> DEFINE w == row.workspace
<1>1. /\ TypeOK /\ m0 \in MembershipIds /\ row \in Membership
      /\ pc \in [Procs -> {"idle", "find", "update", "insert"}]
      /\ req \in [Procs -> AddMember_t \cup {NULL}]
      /\ workspaces \in [WorkspaceIds -> Users \cup {NULL}]
  BY DEF IInv, TypeOK, WritesRow
<1>2. w \in WorkspaceIds /\ row.user \in Users
  BY <1>1 DEF Membership
<1>3. /\ memberships' \in [MembershipIds -> Membership \cup {NULL}]
      /\ managed' \in [WorkspaceIds -> SUBSET Users]
      /\ \A v \in WorkspaceIds : managed[v] \subseteq managed'[v]
      /\ RowsStay
      /\ memberships'[m0] = row /\ row # NULL
      /\ \A m \in MembershipIds : m # m0 => memberships'[m] = memberships[m]
      /\ OneMembership' /\ RowsCreated' /\ ManagersKnown'
  BY <1>1, WriteKeepsRows
<1>4. /\ pc' = [pc EXCEPT ![p] = "idle"] /\ req' = [req EXCEPT ![p] = NULL]
      /\ pc'[p] = "idle"
      /\ \A q \in Procs : q # p => pc'[q] = pc[q] /\ req'[q] = req[q]
  BY <1>1 DEF Goto
<1>5. TypeOK'
  <2>1. givenUp' \subseteq WorkspaceIds
    BY <1>1, <1>2 DEF TypeOK
  <2>2. pc' \in [Procs -> {"idle", "find", "update", "insert"}]
    BY <1>1, <1>4
  <2>3. req' \in [Procs -> AddMember_t \cup {NULL}]
    BY <1>1, <1>4
  <2> QED
    BY <2>1, <2>2, <2>3, <1>1, <1>3 DEF TypeOK
<1>6. OwnerIsMember'
  BY <1>3, OwnersStay DEF IInv
<1>7. ASSUME NEW q \in Procs PROVE Authorized(q)'
  <2>1. pc'[q] = "idle" \/ (pc'[q] = pc[q] /\ req'[q] = req[q])
    BY <1>4
  <2> QED
    BY <2>1, <1>1, <1>3, AuthorizedStays DEF IInv, Created
<1>8. ASSUME NEW v \in WorkspaceIds, v # w PROVE Alone(v)' /\ Reachable(v)'
  <2>1. \A m \in MembershipIds : memberships'[m] # NULL /\ memberships'[m].workspace = v
                                 <=> memberships[m] # NULL /\ memberships[m].workspace = v
    BY <1>8, <1>3 DEF WritesRow
  <2>2. \A m \in MembershipIds : memberships[m] # NULL /\ memberships[m].workspace = v
                                 => memberships'[m] = memberships[m]
    BY <1>8, <1>3 DEF WritesRow
  <2>3. \A q \in Procs : AtWork(q, v)' => AtWork(q, v) /\ req'[q] = req[q]
    BY <1>4 DEF AtWork
  <2>4. Alone(v)'
    BY <2>2, <2>3 DEF IInv, Alone
  <2>5. v \notin givenUp' => v \notin givenUp
    OBVIOUS
  <2>6. Reachable(v)'
    BY <2>2, <2>5 DEF IInv, Reachable, Managed, Created
  <2> QED
    BY <2>4, <2>6
<1>9. w \notin overlapped => \A q \in Procs : AtWork(q, w) => q = p
  BY <1>2 DEF IInv, Alone, AtWork
<1>10. Alone(w)'
  <2>1. \A q \in Procs : AtWork(q, w)' => AtWork(q, w) /\ q # p
    BY <1>4 DEF AtWork
  <2> HIDE DEF w
  <2> QED
    BY <2>1, <1>9 DEF Alone
<1>11. Reachable(w)'
  <2> SUFFICES ASSUME w \notin givenUp', w \notin overlapped
               PROVE  \E m \in MembershipIds : /\ memberships'[m] # NULL
                                               /\ memberships'[m].workspace = w
                                               /\ memberships'[m].role \in MANAGER_ROLES
    BY DEF Reachable, Managed
  <2>1. PICK m \in MembershipIds : /\ memberships[m] # NULL
                                   /\ memberships[m].workspace = w
                                   /\ memberships[m].user = req[p].actor
                                   /\ memberships[m].role \in MANAGER_ROLES
    BY <1>2 DEF IInv, Alone, AtWork
  <2>2. CASE m = m0
    <3>1. row.user = req[p].actor
      BY <2>1, <2>2 DEF WritesRow
    <3>2. row.role \in MANAGER_ROLES
      BY <3>1, <2>1, <2>2
    <3> QED
      BY <3>2, <1>1, <1>3
  <2>3. CASE m # m0
    BY <2>1, <2>3, <1>3
  <2> QED
    BY <2>2, <2>3
<1>12. ASSUME NEW v \in WorkspaceIds PROVE Alone(v)' /\ Reachable(v)'
  <2>1. CASE v = w
    BY <2>1, <1>10, <1>11
  <2>2. CASE v # w
    BY <2>2, <1>8
  <2> QED
    BY <2>1, <2>2
<1> QED
  BY <1>3, <1>5, <1>6, <1>7, <1>12 DEF IInv

\* The role of an existing member.
LEMMA UpdateMemberInv ==
    ASSUME IInv, NEW p \in Procs, UpdateMember(p)
    PROVE  IInv'
<1> DEFINE r == req[p]
           old == memberships[r.existing]
           row == [user |-> r.user, workspace |-> r.workspace, role |-> r.role]
<1>1. /\ TypeOK /\ pc[p] = "update" /\ r \in AddMember_t
      /\ Created(r.workspace) /\ r.existing \in MembershipIds
      /\ old # NULL /\ old.workspace = r.workspace /\ old.user = r.user
      /\ Goto(p, "idle", NULL) /\ workspaces' = workspaces /\ overlapped' = overlapped
  BY DEF UpdateMember, IInv, Authorized
<1>2. CASE r.role = r.loaded
  <2>1. UNCHANGED <<tables, history>>
    BY <1>1, <1>2 DEF UpdateMember, tables, history
  <2> QED
    BY <1>1, <2>1, OnwardInv
<1>3. CASE r.role # r.loaded
  <2>1. /\ r.workspace \in WorkspaceIds /\ r.user \in Users /\ r.role \in Role
        /\ old \in Membership
    BY <1>1, RequestType, RowType
  <2>2. /\ row \in Membership /\ row.user = r.user /\ row.workspace = r.workspace
        /\ row.role = r.role
    BY <2>1 DEF Membership
  <2>3. /\ memberships' = [memberships EXCEPT ![r.existing].role = r.role]
        /\ NoteRole(r.workspace, r.user, r.role)
        /\ givenUp' = IF r.user = r.actor /\ r.role \notin MANAGER_ROLES
                      THEN givenUp \cup {r.workspace} ELSE givenUp
    BY <1>3 DEF UpdateMember
  <2>4. [old EXCEPT !.role = r.role] = row
    BY <1>1, <2>1 DEF Membership
  <2>5. memberships' = [memberships EXCEPT ![r.existing] = row]
    BY <2>3, <2>4
  <2> HIDE DEF row
  <2>6. WritesRow(r.existing, row)
    BY <1>1, <2>2, <2>3, <2>5 DEF WritesRow, Created
  <2> QED
    BY <1>1, <2>2, <2>3, <2>6, WriteInv
<1> QED
  BY <1>2, <1>3

\* A new member.
LEMMA InsertMemberInv ==
    ASSUME IInv, NEW p \in Procs, NEW m0 \in MembershipIds, InsertMember(p, m0)
    PROVE  IInv'
<1> DEFINE r == req[p]
           row == [user |-> r.user, workspace |-> r.workspace, role |-> r.role]
<1>1. /\ TypeOK /\ pc[p] = "insert" /\ r \in AddMember_t /\ Created(r.workspace)
      /\ memberships[m0] = NULL /\ ~IsMember(r.workspace, r.user)
      /\ memberships' = [memberships EXCEPT ![m0] = row]
      /\ NoteRole(r.workspace, r.user, r.role) /\ Goto(p, "idle", NULL)
      /\ workspaces' = workspaces /\ overlapped' = overlapped /\ givenUp' = givenUp
  BY DEF InsertMember, IInv, Authorized, Free
<1>2. /\ row \in Membership /\ row.user = r.user /\ row.workspace = r.workspace
      /\ row.role = r.role
  BY <1>1, RequestType DEF Membership
<1> HIDE DEF row
<1>3. WritesRow(m0, row)
  BY <1>1, <1>2 DEF WritesRow, Created
<1> QED
  BY <1>1, <1>2, <1>3, WriteInv
-----------------------------------------------------------------------------
\* Every step keeps the invariant, and so does a stutter.
LEMMA InductiveInv == IInv /\ [Next]_vars => IInv'
<1> SUFFICES ASSUME IInv, [Next]_vars PROVE IInv'
  OBVIOUS
<1>1. CASE \E u \in Users, w \in WorkspaceIds, m \in MembershipIds : CreateWorkspace(u, w, m)
  BY <1>1, CreateWorkspaceInv
<1>2. ASSUME NEW p \in Procs, Handle(p) PROVE IInv'
  BY <1>2, AddMemberInv, FindMemberInv, UpdateMemberInv, InsertMemberInv, EndInv DEF Handle
<1>3. CASE UNCHANGED vars
  <2>1. /\ UNCHANGED <<tables, history>> /\ pc' = pc /\ req' = req
    BY <1>3 DEF vars, tables, history
  <2>2. TypeOK' /\ \A p \in Procs : Authorized(p)'
    BY <2>1 DEF IInv, TypeOK, Authorized, Created, tables, history
  <2>3. \A w \in WorkspaceIds : Alone(w)'
    BY <2>1 DEF IInv, Alone, AtWork, tables, history
  <2> QED
    BY <2>1, <2>2, <2>3, QuietInv DEF tables, history
<1> QED
  BY <1>1, <1>2, <1>3 DEF Next

\* The invariant holds of every behaviour.
LEMMA Invariance == Spec => []IInv
<1>1. Init => IInv
  BY InitInv
<1>2. IInv /\ [Next]_vars => IInv'
  BY InductiveInv
<1> QED
  BY <1>1, <1>2, PTL DEF Spec

\* Every variable keeps its type.
THEOREM TypesAreKept == Spec => []TypeOK
<1>1. IInv => TypeOK
  BY DEF IInv
<1> QED
  BY <1>1, Invariance, PTL

\* A user has one membership in a workspace, however many requests add it at once.
THEOREM MembershipIsUnique == Spec => []OneMembership
<1>1. IInv => OneMembership
  BY DEF IInv
<1> QED
  BY <1>1, Invariance, PTL

\* The owner of a workspace is always a member of it.
THEOREM OwnersStayMembers == Spec => []OwnerIsMember
<1>1. IInv => OwnerIsMember
  BY DEF IInv
<1> QED
  BY <1>1, Invariance, PTL

\* A workspace loses its last manager only to itself or to requests that overlap.
THEOREM ManagersRemain == Spec => []ManagedUnlessGivenUp
<1>1. IInv => ManagedUnlessGivenUp
  <2> SUFFICES ASSUME IInv, NEW w \in WorkspaceIds,
                      Created(w), w \notin givenUp, w \notin overlapped
               PROVE  Managers(w) # {}
    BY DEF ManagedUnlessGivenUp
  <2>1. PICK m \in MembershipIds : /\ memberships[m] # NULL
                                   /\ memberships[m].workspace = w
                                   /\ memberships[m].role \in MANAGER_ROLES
    BY DEF IInv, Reachable, Managed
  <2>2. memberships[m].user \in Users
    BY <2>1, RowType DEF IInv
  <2>3. memberships[m].user \in Managers(w)
    BY <2>1, <2>2 DEF Managers, Manages, IsMembership, Free
  <2> QED
    BY <2>3
<1> QED
  BY <1>1, Invariance, PTL

\* What a step may do to the membership of u in w.
Granted(w, u) ==
    (\E m \in MembershipIds :
        /\ memberships'[m] # NULL /\ memberships'[m].workspace = w /\ memberships'[m].user = u
        /\ memberships[m] # NULL /\ memberships[m].workspace = w /\ memberships[m].user = u
               => memberships'[m].role # memberships[m].role)
    => \/ workspaces[w] = NULL /\ workspaces'[w] = u
       \/ \E p \in Procs : AtWork(p, w) /\ pc'[p] = "idle" /\ req[p].actor \in managed[w]

\* A step that writes no membership grants nothing.
LEMMA NothingGranted ==
    ASSUME memberships' = memberships, NEW w \in WorkspaceIds, NEW u \in Users
    PROVE  Granted(w, u)
BY DEF Granted

\* A request that is done has been let in by a manager of its workspace.
LEMMA ActorGrants ==
    ASSUME IInv, NEW p \in Procs, pc[p] # "idle", pc'[p] = "idle",
           NEW m0 \in MembershipIds, NEW row,
           memberships' = [memberships EXCEPT ![m0] = row], row.workspace = req[p].workspace,
           NEW w \in WorkspaceIds, NEW u \in Users
    PROVE  Granted(w, u)
<1>1. memberships \in [MembershipIds -> Membership \cup {NULL}]
  BY DEF IInv, TypeOK
<1>2. req[p].actor \in managed[req[p].workspace]
  BY DEF IInv, Authorized
<1>3. CASE w = req[p].workspace
  BY <1>2, <1>3 DEF Granted, AtWork
<1>4. CASE w # req[p].workspace
  BY <1>1, <1>4 DEF Granted
<1> QED
  BY <1>3, <1>4

\* Who is in a workspace, and in what role, is changed only by requests of those
\* who have been its managers.
THEOREM RolesComeFromManagers == Spec => ManagersGrant
<1>1. IInv /\ [Next]_vars =>
        [\A w \in WorkspaceIds, u \in Users : Granted(w, u)]_vars
  <2> SUFFICES ASSUME IInv, Next, NEW w \in WorkspaceIds, NEW u \in Users
               PROVE  Granted(w, u)
    OBVIOUS
  <2>1. memberships \in [MembershipIds -> Membership \cup {NULL}]
        /\ workspaces \in [WorkspaceIds -> Users \cup {NULL}]
        /\ pc \in [Procs -> {"idle", "find", "update", "insert"}]
    BY DEF IInv, TypeOK
  <2>2. ASSUME NEW o \in Users, NEW v \in WorkspaceIds, NEW m \in MembershipIds,
               CreateWorkspace(o, v, m)
        PROVE  Granted(w, u)
    BY <2>1, <2>2 DEF CreateWorkspace, Granted, Created
  <2>3. ASSUME NEW p \in Procs, Handle(p) PROVE Granted(w, u)
    <3>1. CASE \/ \E v \in WorkspaceIds, a, x \in Users, r \in Role : AddMember(p, v, a, x, r)
               \/ FindMember(p) \/ InsertMemberConflict(p) \/ Abort(p)
      <4>1. memberships' = memberships
        BY <3>1 DEF AddMember, FindMember, InsertMemberConflict, Abort, tables
      <4> QED
        BY <4>1, NothingGranted
    <3>2. CASE UpdateMember(p)
      <4> DEFINE row == [memberships[req[p].existing] EXCEPT !.role = req[p].role]
      <4>1. /\ pc[p] = "update" /\ pc'[p] = "idle" /\ req[p].existing \in MembershipIds
            /\ memberships[req[p].existing] # NULL
            /\ memberships[req[p].existing].workspace = req[p].workspace
        BY <2>1, <3>2 DEF UpdateMember, Goto, IInv, Authorized
      <4>2. memberships' = memberships \/ memberships' = [memberships EXCEPT ![req[p].existing] = row]
        BY <3>2 DEF UpdateMember
      <4>3. row.workspace = req[p].workspace
        <5>1. memberships[req[p].existing] \in Membership
          BY <4>1, RowType DEF IInv
        <5> QED
          BY <4>1, <5>1 DEF Membership
      <4> HIDE DEF row
      <4> QED
        BY <4>1, <4>2, <4>3, NothingGranted, ActorGrants
    <3>3. ASSUME NEW m \in MembershipIds, InsertMember(p, m) PROVE Granted(w, u)
      <4> DEFINE row == [user |-> req[p].user, workspace |-> req[p].workspace,
                         role |-> req[p].role]
      <4>1. /\ pc[p] # "idle" /\ pc'[p] = "idle"
            /\ memberships' = [memberships EXCEPT ![m] = row]
            /\ row.workspace = req[p].workspace
        BY <2>1, <3>3 DEF InsertMember, Goto
      <4> HIDE DEF row
      <4> QED
        BY <4>1, ActorGrants
    <3> QED
      BY <2>3, <3>1, <3>2, <3>3 DEF Handle
  <2> QED
    BY <2>2, <2>3 DEF Next
<1>2. (\A w \in WorkspaceIds, u \in Users : Granted(w, u)) =>
        \A w \in WorkspaceIds, u \in Users :
          LET Row(m) == IsMembership(m, w, u)
          IN  (\E m \in MembershipIds : Row(m)' /\ (Row(m) => memberships'[m].role # memberships[m].role))
              => \/ ~Created(w) /\ workspaces'[w] = u
                 \/ \E p \in Procs : AtWork(p, w) /\ pc'[p] = "idle" /\ req[p].actor \in managed[w]
  BY DEF Granted, IsMembership, Free, Created
<1> QED
  BY <1>1, <1>2, Invariance, PTL DEF Spec, ManagersGrant
=============================================================================
