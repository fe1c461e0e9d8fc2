----------------------------- MODULE Workspaces -----------------------------
(***************************************************************************)
(* Workspaces and the roles of their members: create_workspace and         *)
(* add_member of app/services/workspace_service.py.                        *)
(*                                                                         *)
(* add_member reads the actor's membership, then the member's, then writes: *)
(* three stretches with awaits between them, and nothing it has read is    *)
(* looked at again.  A request that ends in 403 or 404 changes nothing and *)
(* has no action; nor has one for a user who does not exist, which the     *)
(* foreign key refuses.  No operation removes a member or a workspace.     *)
(***************************************************************************)
EXTENDS Naturals

CONSTANTS
    Procs,          \* request handlers
    Users,
    WorkspaceIds,
    MembershipIds,
    NULL

VARIABLES
    workspaces,     \* the workspaces table: owner_id of each row
    memberships,    \* the memberships table
    pc,
    req,            \* what each add_member works with
    managed,        \* users who have been managers of a workspace at some time
    overlapped,     \* workspaces on which two add_member requests have overlapped
    givenUp         \* workspaces in which a manager has taken the role from itself

vars == <<workspaces, memberships, pc, req, managed, overlapped, givenUp>>
tables == <<workspaces, memberships>>
history == <<managed, overlapped, givenUp>>
-----------------------------------------------------------------------------
Role == {"owner", "admin", "member", "viewer"}

MANAGER_ROLES == {"owner", "admin"}

Membership == [user : Users, workspace : WorkspaceIds, role : Role]

\* existing: the row found for the member; loaded: the role it had when it was
\* read into the session.
AddMember_t == [workspace : WorkspaceIds, actor : Users, user : Users, role : Role,
                existing : MembershipIds \cup {NULL}, loaded : Role]

ASSUME WorkspaceConstants ==
    /\ NULL \notin Users \cup MembershipIds \cup Membership \cup AddMember_t

Created(w) == workspaces[w] # NULL

Free(m) == memberships[m] = NULL

\* get_membership
IsMembership(m, w, u) ==
    /\ ~Free(m)
    /\ memberships[m].workspace = w
    /\ memberships[m].user = u

IsMember(w, u) == \E m \in MembershipIds : IsMembership(m, w, u)

Manages(w, u) ==
    \E m \in MembershipIds : IsMembership(m, w, u) /\ memberships[m].role \in MANAGER_ROLES

Managers(w) == {u \in Users : Manages(w, u)}

\* A request of p is at work on w.
AtWork(p, w) == pc[p] # "idle" /\ req[p].workspace = w

Goto(p, label, r) ==
    /\ pc' = [pc EXCEPT ![p] = label]
    /\ req' = [req EXCEPT ![p] = r]

\* u has been given role in w.
NoteRole(w, u, role) ==
    managed' = IF role \in MANAGER_ROLES
               THEN [managed EXCEPT ![w] = @ \cup {u}]
               ELSE managed

Init ==
    /\ workspaces = [w \in WorkspaceIds |-> NULL]
    /\ memberships = [m \in MembershipIds |-> NULL]
    /\ pc = [p \in Procs |-> "idle"]
    /\ req = [p \in Procs |-> NULL]
    /\ managed = [w \in WorkspaceIds |-> {}]
    /\ overlapped = {}
    /\ givenUp = {}
-----------------------------------------------------------------------------
\* Mutants: the workspace is committed before its membership is added; the
\* membership has the default role of its column.
CreateWorkspaceAlone(u, w, m) ==
    /\ ~Created(w)
    /\ Free(m)
    /\ workspaces' = [workspaces EXCEPT ![w] = u]
    /\ UNCHANGED <<memberships, pc, req, history>>

CreateWorkspaceDefault(u, w, m) ==
    /\ ~Created(w)
    /\ Free(m)
    /\ workspaces' = [workspaces EXCEPT ![w] = u]
    /\ memberships' = [memberships EXCEPT
                          ![m] = [user |-> u, workspace |-> w, role |-> "member"]]
    /\ UNCHANGED <<pc, req, history>>

\* Both rows in one transaction.
CreateWorkspace(u, w, m) ==
    /\ ~Created(w)
    /\ Free(m)
    /\ workspaces' = [workspaces EXCEPT ![w] = u]
    /\ memberships' = [memberships EXCEPT
                          ![m] = [user |-> u, workspace |-> w, role |-> "owner"]]
    /\ NoteRole(w, u, "owner")
    /\ UNCHANGED <<pc, req, overlapped, givenUp>>

\* Mutant: any member may manage members.
AddMemberUnchecked(p, w, a, u, r) ==
    \E m \in MembershipIds :
        /\ pc[p] = "idle"
        /\ IsMembership(m, w, a)
        /\ Goto(p, "find", [workspace |-> w, actor |-> a, user |-> u, role |-> r,
                            existing |-> NULL, loaded |-> memberships[m].role])
        /\ UNCHANGED <<tables, history>>

\* add_member: the actor is a member, and a manager.
AddMember(p, w, a, u, r) ==
    \E m \in MembershipIds :
        /\ pc[p] = "idle"
        /\ IsMembership(m, w, a)
        /\ memberships[m].role \in MANAGER_ROLES
        /\ Goto(p, "find", [workspace |-> w, actor |-> a, user |-> u, role |-> r,
                            existing |-> NULL, loaded |-> memberships[m].role])
        /\ overlapped' = IF \E q \in Procs : AtWork(q, w) THEN overlapped \cup {w}
                                                          ELSE overlapped
        /\ UNCHANGED <<tables, managed, givenUp>>

\* The second get_membership.  A row the session already has, the actor's own,
\* keeps the values it was loaded with.
FindMember(p) ==
    LET r == req[p]
    IN  /\ pc[p] = "find"
        /\ \/ \E m \in MembershipIds :
                /\ IsMembership(m, r.workspace, r.user)
                /\ Goto(p, "update",
                        [r EXCEPT !.existing = m,
                                  !.loaded = IF r.user = r.actor THEN @
                                             ELSE memberships[m].role])
           \/ ~IsMember(r.workspace, r.user) /\ Goto(p, "insert", r)
        /\ UNCHANGED <<tables, history>>

\* The UPDATE is of the role, if it is not the one that was loaded.
UpdateMember(p) ==
    LET r == req[p]
        gives == r.role # r.loaded
    IN  /\ pc[p] = "update"
        /\ IF gives
           THEN /\ memberships' = [memberships EXCEPT ![r.existing].role = r.role]
                /\ NoteRole(r.workspace, r.user, r.role)
           ELSE UNCHANGED <<memberships, managed>>
        /\ givenUp' = IF gives /\ r.user = r.actor /\ r.role \notin MANAGER_ROLES
                      THEN givenUp \cup {r.workspace}
                      ELSE givenUp
        /\ Goto(p, "idle", NULL)
        /\ UNCHANGED <<workspaces, overlapped>>

InsertMember(p, m) ==
    LET r == req[p]
    IN  /\ pc[p] = "insert"
        /\ Free(m)
        /\ ~IsMember(r.workspace, r.user)
        /\ memberships' = [memberships EXCEPT
               ![m] = [user |-> r.user, workspace |-> r.workspace, role |-> r.role]]
        /\ NoteRole(r.workspace, r.user, r.role)
        /\ Goto(p, "idle", NULL)
        /\ UNCHANGED <<workspaces, overlapped, givenUp>>

\* Another request has added the member meanwhile: the IntegrityError nobody
\* handles ends the request, and the role it asked for is not set.
InsertMemberConflict(p) ==
    /\ pc[p] = "insert"
    /\ IsMember(req[p].workspace, req[p].user)
    /\ Goto(p, "idle", NULL)
    /\ UNCHANGED <<tables, history>>

\* The request dies, or its commit fails.
Abort(p) ==
    /\ pc[p] # "idle"
    /\ Goto(p, "idle", NULL)
    /\ UNCHANGED <<tables, history>>
-----------------------------------------------------------------------------
Handle(p) ==
    \/ \E w \in WorkspaceIds, a, u \in Users, r \in Role : AddMember(p, w, a, u, r)
    \/ FindMember(p)
    \/ UpdateMember(p)
    \/ \E m \in MembershipIds : InsertMember(p, m)
    \/ InsertMemberConflict(p)
    \/ Abort(p)

Next ==
    \/ \E u \in Users, w \in WorkspaceIds, m \in MembershipIds : CreateWorkspace(u, w, m)
    \/ \E p \in Procs : Handle(p)

Spec == Init /\ [][Next]_vars
-----------------------------------------------------------------------------
(* Properties *)

\* Every variable has its type.
TypeOK ==
    /\ workspaces \in [WorkspaceIds -> Users \cup {NULL}]
    /\ memberships \in [MembershipIds -> Membership \cup {NULL}]
    /\ pc \in [Procs -> {"idle", "find", "update", "insert"}]
    /\ req \in [Procs -> AddMember_t \cup {NULL}]
    /\ managed \in [WorkspaceIds -> SUBSET Users]
    /\ overlapped \subseteq WorkspaceIds
    /\ givenUp \subseteq WorkspaceIds

\* However many requests add the same user at once, a user has one membership
\* in a workspace: get_membership, which every tenant check goes through, never
\* finds two rows.
OneMembership ==
    \A m, n \in MembershipIds :
        ~Free(m) /\ ~Free(n) /\ memberships[m].user = memberships[n].user
                 /\ memberships[m].workspace = memberships[n].workspace => m = n

\* A workspace is never out of reach of the user who owns it: whatever roles
\* have been given since, owner_id is the id of a member.
OwnerIsMember ==
    \A w \in WorkspaceIds : Created(w) => IsMember(w, workspaces[w])

\* Authority comes from authority: who is in a workspace, and in what role, is
\* changed only by a request of someone who has been a manager of that very
\* workspace, never by an outsider or a plain member.
ManagersGrant ==
    [][\A w \in WorkspaceIds, u \in Users :
         LET Row(m) == IsMembership(m, w, u)
         IN  (\E m \in MembershipIds : Row(m)' /\ (Row(m) => memberships'[m].role # memberships[m].role))
             => \/ ~Created(w) /\ workspaces'[w] = u
                \/ \E p \in Procs : AtWork(p, w) /\ pc'[p] = "idle" /\ req[p].actor \in managed[w]]_vars

\* A workspace does not lose its last manager, unless one has taken the role
\* from itself or two requests on the workspace have overlapped: managers who
\* demote each other at the same time leave it with none, one after the other
\* they do not.
ManagedUnlessGivenUp ==
    \A w \in WorkspaceIds :
        Created(w) /\ w \notin givenUp /\ w \notin overlapped => Managers(w) # {}
=============================================================================
