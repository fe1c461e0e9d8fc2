----------------------------- MODULE AuthTokens -----------------------------
(***************************************************************************)
(* Registration, login, refresh-token rotation and logout:                 *)
(* app/services/auth_service.py over token_service.py and user_service.py. *)
(*                                                                         *)
(* A request loads a row, awaits, and writes at its commit.  What it checks *)
(* when it loads is not checked again when it writes: the UPDATE that sets *)
(* revoked_at has no condition on it.  Nothing in the program deactivates  *)
(* or deletes a user, so the look-ups of an existing user always succeed   *)
(* and need no step of their own.  A request that ends in 401 or 409       *)
(* changes nothing and has no action.                                      *)
(***************************************************************************)
EXTENDS Naturals

CONSTANTS
    Procs,      \* request handlers
    UserIds,
    Emails,
    Jtis,       \* ids of refresh tokens
    NULL,
    Lifetime,   \* refresh_token_expire_days, in ticks of the clock
    MaxNow      \* bound: ticks of the clock

VARIABLES
    users,      \* the users table: the email of each row
    tokens,     \* the refresh_tokens table, by jti
    now,
    pc,
    req         \* the email or the jti each request works with

vars == <<users, tokens, now, pc, req>>
-----------------------------------------------------------------------------
\* parent and login are no columns: the token this one was exchanged for, and
\* the token of the login it descends from.
RefreshToken == [user : UserIds, expires_at : Nat, revoked : BOOLEAN,
                 parent : Jtis \cup {NULL}, login : Jtis]

ASSUME TokenConstants ==
    /\ NULL \notin UserIds \cup Emails \cup Jtis \cup RefreshToken
    /\ Lifetime \in Nat \ {0}
    /\ MaxNow \in Nat

Issued(j) == tokens[j] # NULL

\* get_active, and the same expiry inside the JWT.
Active(j) == Issued(j) /\ ~tokens[j].revoked /\ now < tokens[j].expires_at

Registered(e) == \E u \in UserIds : users[u] = e

\* persist: the row of a token issued to user u.
NewToken(u, parent, login) ==
    [user |-> u, expires_at |-> now + Lifetime, revoked |-> FALSE,
     parent |-> parent, login |-> login]

Goto(p, label, r) ==
    /\ pc' = [pc EXCEPT ![p] = label]
    /\ req' = [req EXCEPT ![p] = r]

Init ==
    /\ users = [u \in UserIds |-> NULL]
    /\ tokens = [j \in Jtis |-> NULL]
    /\ now = 0
    /\ pc = [p \in Procs |-> "idle"]
    /\ req = [p \in Procs |-> NULL]
-----------------------------------------------------------------------------
\* create_user: no user has the email, then the INSERT, which the unique index
\* on email refuses (an IntegrityError nobody handles) if one has it by then.
Register(p, e) ==
    /\ pc[p] = "idle"
    /\ ~Registered(e)
    /\ Goto(p, "create", e)
    /\ UNCHANGED <<users, tokens, now>>

CreateUser(p, u) ==
    /\ pc[p] = "create"
    /\ users[u] = NULL
    /\ ~Registered(req[p])
    /\ users' = [users EXCEPT ![u] = req[p]]
    /\ Goto(p, "idle", NULL)
    /\ UNCHANGED <<tokens, now>>

CreateUserConflict(p) ==
    /\ pc[p] = "create"
    /\ Registered(req[p])
    /\ Goto(p, "idle", NULL)
    /\ UNCHANGED <<users, tokens, now>>

\* authenticate, _issue_tokens and the commit.
Login(p, u, j) ==
    /\ pc[p] = "idle"
    /\ users[u] # NULL
    /\ ~Issued(j)
    /\ tokens' = [tokens EXCEPT ![j] = NewToken(u, NULL, j)]
    /\ UNCHANGED <<users, now, pc, req>>

\* Mutant: get_active without the test of expires_at.
RefreshExpired(p, j) ==
    /\ pc[p] = "idle"
    /\ Issued(j) /\ ~tokens[j].revoked
    /\ Goto(p, "rotate", j)
    /\ UNCHANGED <<users, tokens, now>>

\* refresh: the presented token is active and its user is there.
Refresh(p, j) ==
    /\ pc[p] = "idle"
    /\ Active(j)
    /\ Goto(p, "rotate", j)
    /\ UNCHANGED <<users, tokens, now>>

\* Mutant: the new pair is issued, the presented token is not revoked.
RefreshKeep(p, k) ==
    /\ pc[p] = "rotate"
    /\ ~Issued(k)
    /\ tokens' = [tokens EXCEPT ![k] = NewToken(tokens[req[p]].user, req[p],
                                                tokens[req[p]].login)]
    /\ Goto(p, "idle", NULL)
    /\ UNCHANGED <<users, now>>

\* revoke, _issue_tokens and the commit: one UPDATE and one INSERT, whatever
\* has happened to the presented token since it was loaded.
RefreshRotate(p, k) ==
    LET j == req[p]
    IN  /\ pc[p] = "rotate"
        /\ ~Issued(k)
        /\ tokens' = [tokens EXCEPT ![j].revoked = TRUE,
                                    ![k] = NewToken(tokens[j].user, j, tokens[j].login)]
        /\ Goto(p, "idle", NULL)
        /\ UNCHANGED <<users, now>>

Logout(p, j) ==
    /\ pc[p] = "idle"
    /\ Active(j)
    /\ Goto(p, "revoke", j)
    /\ UNCHANGED <<users, tokens, now>>

LogoutRevoke(p) ==
    /\ pc[p] = "revoke"
    /\ tokens' = [tokens EXCEPT ![req[p]].revoked = TRUE]
    /\ Goto(p, "idle", NULL)
    /\ UNCHANGED <<users, now>>

\* The request dies, or its commit fails: the transaction is undone.
Abort(p) ==
    /\ pc[p] # "idle"
    /\ Goto(p, "idle", NULL)
    /\ UNCHANGED <<users, tokens, now>>

Tick ==
    /\ now < MaxNow
    /\ now' = now + 1
    /\ UNCHANGED <<users, tokens, pc, req>>
-----------------------------------------------------------------------------
Handle(p) ==
    \/ \E e \in Emails : Register(p, e)
    \/ \E u \in UserIds : CreateUser(p, u)
    \/ CreateUserConflict(p)
    \/ \E u \in UserIds, j \in Jtis : Login(p, u, j)
    \/ \E j \in Jtis : Refresh(p, j) \/ RefreshRotate(p, j) \/ Logout(p, j)
    \/ LogoutRevoke(p)
    \/ Abort(p)

Next == Tick \/ \E p \in Procs : Handle(p)

Spec == Init /\ [][Next]_vars
-----------------------------------------------------------------------------
(* Properties *)

\* Every variable has its type.
TypeOK ==
    /\ users \in [UserIds -> Emails \cup {NULL}]
    /\ tokens \in [Jtis -> RefreshToken \cup {NULL}]
    /\ now \in Nat
    /\ pc \in [Procs -> {"idle", "create", "rotate", "revoke"}]
    /\ req \in [Procs -> Emails \cup Jtis \cup {NULL}]

\* However many registrations race between the look-up and the INSERT, no two
\* users have the same email.
UniqueEmails ==
    \A u, v \in UserIds : u # v /\ users[u] # NULL => users[u] # users[v]

\* Rotation: a token that has been exchanged is revoked from then on, even if
\* several requests exchanged it or logged it out at the same time.
ExchangedIsRevoked ==
    \A j, k \in Jtis : Issued(k) /\ tokens[k].parent = j => Issued(j) /\ tokens[j].revoked

\* Revocation is final: no request that loaded the row before writes it back,
\* and a token never changes hands.
RevocationIsFinal ==
    [][\A j \in Jtis : Issued(j) =>
         /\ tokens'[j].user = tokens[j].user
         /\ tokens[j].revoked => tokens'[j].revoked]_vars

\* A token is exchanged only by the requests that loaded it while it was
\* active: no new request can, once it has been exchanged.
ExchangersWereEarly ==
    [][\A p \in Procs : pc[p] = "idle" /\ pc'[p] = "rotate" =>
         \A k \in Jtis : Issued(k) => tokens[k].parent # req'[p]]_vars

\* A revoked token can no longer be exchanged, whether a logout has revoked it or
\* an exchange.
RevokedIsDead ==
    [][\A j, k \in Jtis :
         Issued(j) /\ tokens[j].revoked /\ ~Issued(k) /\ Issued(k)'
            => tokens'[k].parent # j]_vars

\* Token j has been exchanged more than once.
Forked(j) ==
    \E a, b \in Jtis :
        a # b /\ Issued(a) /\ Issued(b) /\ tokens[a].parent = j /\ tokens[b].parent = j

\* A rotated token can no longer be exchanged: it has been exchanged once.
RotatedIsDead == \A j \in Jtis : ~Forked(j)

\* A login is good for one session at a time: of the tokens that descend from
\* it at most one has not been revoked, unless requests that overlapped have
\* exchanged one of them twice.
OneSessionPerLogin ==
    \A j, k \in Jtis :
        /\ j # k
        /\ Issued(j) /\ ~tokens[j].revoked
        /\ Issued(k) /\ ~tokens[k].revoked
        /\ tokens[j].login = tokens[k].login
        => \E a \in Jtis : Issued(a) /\ tokens[a].login = tokens[j].login /\ Forked(a)

\* A session can still go on from a token that is active, and from one that a
\* request loaded while it was.
Good(j) == Active(j) \/ \E p \in Procs : pc[p] = "rotate" /\ req[p] = j

Promised == INSTANCE Sessions WITH
    Users <- UserIds,
    Tokens <- Jtis,
    email <- users,
    owner <- [j \in Jtis |-> IF Issued(j) THEN tokens[j].user ELSE NULL],
    session <- [j \in Jtis |-> IF Issued(j) THEN tokens[j].login ELSE NULL],
    good <- {j \in Jtis : Good(j)}

\* Whatever overlaps, expires or dies, the tokens are those of Sessions: an email
\* has one user, a token comes from a login or from a good token of the same user
\* and session, and one that has stopped being good, revoked or expired with no
\* request at work on it, never is again.
ImplementsSessions == Promised!Spec
=============================================================================
