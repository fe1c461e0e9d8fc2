-------------------------- MODULE AuthTokensProofs --------------------------
(***************************************************************************)
(* What rotation and registration keep, for any number of requests, users  *)
(* and tokens, and what they keep when requests are not concurrent.        *)
(***************************************************************************)
EXTENDS AuthTokens, TLAPS

\* A request at work holds what it was called with.
Loaded ==
    \A p \in Procs :
        /\ pc[p] = "create" => req[p] \in Emails
        /\ pc[p] \in {"rotate", "revoke"} => req[p] \in Jtis /\ Issued(req[p])

TokenTypes == TypeOK /\ Loaded

\* A row of the table, and a new one, is a record.
LEMMA RowsAreTokens ==
  ASSUME TypeOK
  PROVE  /\ \A j \in Jtis : Issued(j) <=> tokens[j] \in RefreshToken
         /\ \A u \in UserIds, j \in Jtis \cup {NULL}, k \in Jtis :
              NewToken(u, j, k) \in RefreshToken
<1>1. ASSUME NEW u \in UserIds, NEW j \in Jtis \cup {NULL}, NEW k \in Jtis
      PROVE  NewToken(u, j, k) \in RefreshToken
  <2>1. now + Lifetime \in Nat
    BY TokenConstants DEF TypeOK
  <2> QED BY <2>1 DEF NewToken, RefreshToken
<1>2. ASSUME NEW j \in Jtis
      PROVE  Issued(j) <=> tokens[j] \in RefreshToken
  BY TokenConstants DEF Issued, TypeOK
<1> QED BY <1>1, <1>2

\* What a rotation does to the table: one token is added, the presented one
\* is revoked, the others stay.
LEMMA RotationOf ==
  ASSUME TokenTypes, NEW p \in Procs, NEW k \in Jtis, RefreshRotate(p, k)
  PROVE  /\ req[p] \in Jtis /\ req[p] # k /\ Issued(req[p]) /\ ~Issued(k)
         /\ tokens' \in [Jtis -> RefreshToken \cup {NULL}]
         /\ tokens'[req[p]] = [tokens[req[p]] EXCEPT !.revoked = TRUE]
         /\ tokens'[req[p]] \in RefreshToken
         /\ tokens'[k] = NewToken(tokens[req[p]].user, req[p], tokens[req[p]].login)
         /\ tokens'[k] \in RefreshToken
         /\ \A j \in Jtis \ {req[p], k} : tokens'[j] = tokens[j]
<1> DEFINE j == req[p]
           old == [tokens[j] EXCEPT !.revoked = TRUE]
           new == NewToken(tokens[j].user, j, tokens[j].login)
<1>1. /\ j \in Jtis /\ Issued(j) /\ ~Issued(k) /\ j # k
      /\ tokens' = [tokens EXCEPT ![j].revoked = TRUE, ![k] = new]
  BY DEF RefreshRotate, TokenTypes, Loaded
<1>2. tokens[j] \in RefreshToken
  BY <1>1, RowsAreTokens DEF TokenTypes
<1>3. old \in RefreshToken
  BY <1>2 DEF RefreshToken
<1>4. new \in RefreshToken
  <2>1. tokens[j].user \in UserIds /\ tokens[j].login \in Jtis
    BY <1>2 DEF RefreshToken
  <2> QED BY <1>1, <2>1, RowsAreTokens DEF TokenTypes
<1>5. /\ tokens'[j] = old /\ tokens'[k] = new
      /\ \A i \in Jtis \ {j, k} : tokens'[i] = tokens[i]
      /\ tokens' \in [Jtis -> RefreshToken \cup {NULL}]
  <2> HIDE DEF new
  <2>1. tokens \in [Jtis -> RefreshToken \cup {NULL}]
    BY DEF TokenTypes, TypeOK
  <2>2. tokens' = [[tokens EXCEPT ![j] = old] EXCEPT ![k] = new]
    BY <1>1, <2>1
  <2> HIDE DEF old, j
  <2> QED BY <1>1, <1>3, <1>4, <2>1, <2>2
<1> QED BY <1>1, <1>3, <1>4, <1>5

\* What a logout does to the table.
LEMMA RevocationOf ==
  ASSUME TokenTypes, NEW p \in Procs, LogoutRevoke(p)
  PROVE  /\ req[p] \in Jtis /\ Issued(req[p])
         /\ tokens' \in [Jtis -> RefreshToken \cup {NULL}]
         /\ tokens'[req[p]] = [tokens[req[p]] EXCEPT !.revoked = TRUE]
         /\ tokens'[req[p]] \in RefreshToken
         /\ \A j \in Jtis \ {req[p]} : tokens'[j] = tokens[j]
<1> DEFINE j == req[p]
           old == [tokens[j] EXCEPT !.revoked = TRUE]
<1>1. /\ j \in Jtis /\ Issued(j)
      /\ tokens' = [tokens EXCEPT ![j].revoked = TRUE]
  BY DEF LogoutRevoke, TokenTypes, Loaded
<1>2. tokens[j] \in RefreshToken /\ tokens \in [Jtis -> RefreshToken \cup {NULL}]
  BY <1>1, RowsAreTokens DEF TokenTypes, TypeOK
<1>3. old \in RefreshToken
  BY <1>2 DEF RefreshToken
<1>4. tokens' = [tokens EXCEPT ![j] = old]
  BY <1>1, <1>2
<1> HIDE DEF old, j
<1>5. /\ tokens'[j] = old
      /\ \A i \in Jtis \ {j} : tokens'[i] = tokens[i]
      /\ tokens' \in [Jtis -> RefreshToken \cup {NULL}]
  BY <1>1, <1>2, <1>3, <1>4
<1> QED BY <1>1, <1>3, <1>5 DEF old, j

\* What a login does to the table.
LEMMA LoginOf ==
  ASSUME TokenTypes, NEW p \in Procs, NEW u \in UserIds, NEW k \in Jtis, Login(p, u, k)
  PROVE  /\ ~Issued(k)
         /\ tokens' \in [Jtis -> RefreshToken \cup {NULL}]
         /\ tokens'[k] = NewToken(u, NULL, k)
         /\ tokens'[k] \in RefreshToken
         /\ \A j \in Jtis \ {k} : tokens'[j] = tokens[j]
<1>1. NewToken(u, NULL, k) \in RefreshToken
  BY RowsAreTokens DEF TokenTypes
<1> QED BY <1>1 DEF Login, TokenTypes, TypeOK

\* Tokens are never taken out of the table, keep their owner, their parent and
\* their login, and stay revoked.
TokensLast ==
    \A j \in Jtis : Issued(j) =>
        /\ Issued(j)'
        /\ tokens'[j].user = tokens[j].user
        /\ tokens'[j].parent = tokens[j].parent
        /\ tokens'[j].login = tokens[j].login
        /\ tokens[j].revoked => tokens'[j].revoked

\* Every step lets the issued tokens last.
LEMMA TokensLastStep ==
  ASSUME TokenTypes, [Next]_vars
  PROVE  TokensLast
<1>1. CASE UNCHANGED tokens
  BY <1>1 DEF TokensLast, Issued
<1>2. ASSUME NEW p \in Procs, NEW u \in UserIds, NEW k \in Jtis, Login(p, u, k)
      PROVE  TokensLast
  BY <1>2, LoginOf DEF TokensLast, Issued
<1>3. ASSUME NEW p \in Procs, NEW k \in Jtis, RefreshRotate(p, k)
      PROVE  TokensLast
  <2> SUFFICES ASSUME NEW j \in Jtis, Issued(j)
               PROVE  /\ tokens'[j] # NULL
                      /\ tokens'[j].user = tokens[j].user
                      /\ tokens'[j].parent = tokens[j].parent
                      /\ tokens'[j].login = tokens[j].login
                      /\ tokens[j].revoked => tokens'[j].revoked
    BY DEF TokensLast, Issued
  <2>1. tokens[j] \in RefreshToken
    BY RowsAreTokens DEF TokenTypes
  <2>2. CASE j = req[p]
    <3>1. tokens'[j] = [tokens[j] EXCEPT !.revoked = TRUE] /\ tokens'[j] \in RefreshToken
      BY <1>3, <2>2, RotationOf
    <3> QED BY <2>1, <3>1, TokenConstants DEF RefreshToken
  <2>3. CASE j # req[p]
    <3>1. ~Issued(k) /\ \A i \in Jtis \ {req[p], k} : tokens'[i] = tokens[i]
      BY <1>3, RotationOf
    <3>2. tokens'[j] = tokens[j]
      BY <2>3, <3>1
    <3> QED BY <3>2 DEF Issued
  <2> QED BY <2>2, <2>3
<1>4. ASSUME NEW p \in Procs, LogoutRevoke(p)
      PROVE  TokensLast
  <2> SUFFICES ASSUME NEW j \in Jtis, Issued(j)
               PROVE  /\ tokens'[j] # NULL
                      /\ tokens'[j].user = tokens[j].user
                      /\ tokens'[j].parent = tokens[j].parent
                      /\ tokens'[j].login = tokens[j].login
                      /\ tokens[j].revoked => tokens'[j].revoked
    BY DEF TokensLast, Issued
  <2>1. tokens[j] \in RefreshToken
    BY RowsAreTokens DEF TokenTypes
  <2>2. CASE j = req[p]
    <3>1. tokens'[j] = [tokens[j] EXCEPT !.revoked = TRUE] /\ tokens'[j] \in RefreshToken
      BY <1>4, <2>2, RevocationOf
    <3> QED BY <2>1, <3>1, TokenConstants DEF RefreshToken
  <2>3. CASE j # req[p]
    BY <1>4, <2>3, RevocationOf DEF Issued
  <2> QED BY <2>2, <2>3
<1>5. CASE UNCHANGED vars
  BY <1>1, <1>5 DEF vars
<1>6. CASE Tick
  BY <1>1, <1>6 DEF Tick
<1>7. ASSUME NEW p \in Procs, Handle(p) PROVE TokensLast
  <2>1. \/ UNCHANGED tokens
        \/ \E u \in UserIds, k \in Jtis : Login(p, u, k)
        \/ \E k \in Jtis : RefreshRotate(p, k)
        \/ LogoutRevoke(p)
    BY <1>7 DEF Handle, Register, CreateUser, CreateUserConflict, Refresh, Logout, Abort
  <2> QED BY <1>1, <1>2, <1>3, <1>4, <2>1
<1> QED BY <1>5, <1>6, <1>7 DEF Next

\* Types and arguments are kept by every step.
LEMMA TokenTypesStep == TokenTypes /\ [Next]_vars => TokenTypes'
<1> SUFFICES ASSUME TokenTypes, [Next]_vars PROVE TokenTypes'
  OBVIOUS
<1>1. \A j \in Jtis : Issued(j) => Issued(j)'
  BY TokensLastStep DEF TokensLast
<1>2. ASSUME NEW p \in Procs, NEW l \in {"idle", "create", "rotate", "revoke"},
             NEW r \in Emails \cup Jtis \cup {NULL}, Goto(p, l, r),
             l = "create" => r \in Emails,
             l \in {"rotate", "revoke"} => r \in Jtis /\ Issued(r)
      PROVE  /\ pc' \in [Procs -> {"idle", "create", "rotate", "revoke"}]
             /\ req' \in [Procs -> Emails \cup Jtis \cup {NULL}]
             /\ Loaded'
  <2>1. /\ pc' \in [Procs -> {"idle", "create", "rotate", "revoke"}]
        /\ req' \in [Procs -> Emails \cup Jtis \cup {NULL}]
        /\ pc'[p] = l /\ req'[p] = r
        /\ \A q \in Procs \ {p} : pc'[q] = pc[q] /\ req'[q] = req[q]
    BY <1>2 DEF Goto, TokenTypes, TypeOK
  <2> QED BY <1>1, <1>2, <2>1 DEF Loaded, TokenTypes
<1>3. ASSUME NEW p \in Procs, Handle(p) PROVE TokenTypes'
  <2>1. ASSUME NEW e \in Emails, Register(p, e) PROVE TokenTypes'
    BY <1>2, <2>1 DEF Register, TokenTypes, TypeOK
  <2>2. ASSUME NEW u \in UserIds, CreateUser(p, u) PROVE TokenTypes'
    <3>1. req[p] \in Emails
      BY <2>2 DEF CreateUser, TokenTypes, Loaded
    <3> QED BY <1>2, <2>2, <3>1 DEF CreateUser, TokenTypes, TypeOK
  <2>3. CASE CreateUserConflict(p)
    BY <1>2, <2>3 DEF CreateUserConflict, TokenTypes, TypeOK
  <2>4. ASSUME NEW u \in UserIds, NEW k \in Jtis, Login(p, u, k) PROVE TokenTypes'
    <3>1. TypeOK'
      BY <2>4, LoginOf DEF Login, TokenTypes, TypeOK
    <3>2. Loaded'
      BY <1>1, <2>4 DEF Login, TokenTypes, Loaded
    <3> QED BY <3>1, <3>2 DEF TokenTypes
  <2>5. ASSUME NEW j \in Jtis, Refresh(p, j) PROVE TokenTypes'
    BY <1>2, <2>5 DEF Refresh, Active, TokenTypes, TypeOK
  <2>6. ASSUME NEW k \in Jtis, RefreshRotate(p, k) PROVE TokenTypes'
    <3>1. Goto(p, "idle", NULL) /\ UNCHANGED <<users, now>>
      BY <2>6 DEF RefreshRotate
    <3> QED BY <1>2, <2>6, <3>1, RotationOf DEF TokenTypes, TypeOK
  <2>7. ASSUME NEW j \in Jtis, Logout(p, j) PROVE TokenTypes'
    BY <1>2, <2>7 DEF Logout, Active, TokenTypes, TypeOK
  <2>8. CASE LogoutRevoke(p)
    <3>1. Goto(p, "idle", NULL) /\ UNCHANGED <<users, now>>
      BY <2>8 DEF LogoutRevoke
    <3> QED BY <1>2, <2>8, <3>1, RevocationOf DEF TokenTypes, TypeOK
  <2>9. CASE Abort(p)
    BY <1>2, <2>9 DEF Abort, TokenTypes, TypeOK
  <2> QED BY <1>3, <2>1, <2>2, <2>3, <2>4, <2>5, <2>6, <2>7, <2>8, <2>9 DEF Handle
<1>4. CASE Tick
  BY <1>4 DEF Tick, TokenTypes, TypeOK, Loaded, Issued
<1>5. CASE UNCHANGED vars
  BY <1>5 DEF vars, TokenTypes, TypeOK, Loaded, Issued
<1> QED BY <1>3, <1>4, <1>5 DEF Next

\* Types and arguments are right in every reachable state.
LEMMA TokenTypesInvariant == Spec => []TokenTypes
<1>1. Init => TokenTypes
  BY DEF Init, TokenTypes, TypeOK, Loaded
<1> QED BY <1>1, TokenTypesStep, PTL DEF Spec
-----------------------------------------------------------------------------
(* Any number of requests at a time *)

\* Every variable keeps its type.
THEOREM TokenTypesAreKept == Spec => []TypeOK
<1>1. TokenTypes => TypeOK
  BY DEF TokenTypes
<1> QED BY <1>1, TokenTypesInvariant, PTL

\* No two users have the same email, however many registrations race.
THEOREM EmailsAreUnique == Spec => []UniqueEmails
<1>1. Init => UniqueEmails
  BY DEF Init, UniqueEmails
<1>2. TokenTypes /\ UniqueEmails /\ [Next]_vars => UniqueEmails'
  <2> SUFFICES ASSUME TokenTypes, UniqueEmails, [Next]_vars PROVE UniqueEmails'
    OBVIOUS
  <2>1. CASE UNCHANGED users
    BY <2>1 DEF UniqueEmails
  <2>2. ASSUME NEW p \in Procs, NEW u \in UserIds, CreateUser(p, u) PROVE UniqueEmails'
    <3>1. /\ users'[u] = req[p]
          /\ \A v \in UserIds \ {u} : users'[v] = users[v]
          /\ \A v \in UserIds : users[v] # req[p]
      BY <2>2 DEF CreateUser, Registered, TokenTypes, TypeOK
    <3> QED BY <3>1 DEF UniqueEmails
  <2>3. ASSUME NEW p \in Procs, Handle(p)
        PROVE  UNCHANGED users \/ \E u \in UserIds : CreateUser(p, u)
    BY <2>3 DEF Handle, Register, CreateUserConflict, Login, Refresh, RefreshRotate,
                Logout, LogoutRevoke, Abort
  <2> QED BY <2>1, <2>2, <2>3 DEF Next, Tick, vars
<1> QED BY <1>1, <1>2, TokenTypesInvariant, PTL DEF Spec

\* The steps that write the table of tokens.
LEMMA TokenWriters ==
  ASSUME [Next]_vars
  PROVE  \/ UNCHANGED tokens
         \/ \E p \in Procs, u \in UserIds, k \in Jtis : Login(p, u, k)
         \/ \E p \in Procs, k \in Jtis : RefreshRotate(p, k)
         \/ \E p \in Procs : LogoutRevoke(p)
<1>1. ASSUME NEW p \in Procs, Handle(p)
      PROVE  \/ UNCHANGED tokens
             \/ \E u \in UserIds, k \in Jtis : Login(p, u, k)
             \/ \E k \in Jtis : RefreshRotate(p, k)
             \/ LogoutRevoke(p)
  BY <1>1 DEF Handle, Register, CreateUser, CreateUserConflict, Refresh, Logout, Abort
<1> QED BY <1>1 DEF Next, Tick, vars

\* Where a token that was not there before comes from, and what becomes of the
\* one it was exchanged for.
LEMMA NewTokens ==
  ASSUME TokenTypes, [Next]_vars, NEW k \in Jtis, ~Issued(k), Issued(k)'
  PROVE  \/ /\ tokens'[k].parent = NULL
            /\ tokens'[k].login = k
            /\ ~tokens'[k].revoked
            /\ \A i \in Jtis \ {k} : tokens'[i] = tokens[i]
         \/ \E p \in Procs :
              /\ pc[p] = "rotate" /\ pc'[p] = "idle"
              /\ req[p] \in Jtis \ {k}
              /\ Issued(req[p])
              /\ tokens'[k].parent = req[p]
              /\ tokens'[k].login = tokens[req[p]].login
              /\ tokens'[req[p]].revoked
              /\ \A i \in Jtis \ {k, req[p]} : tokens'[i] = tokens[i]
<1>1. ~UNCHANGED tokens
  BY DEF Issued
<1>2. ASSUME NEW p \in Procs, LogoutRevoke(p) PROVE FALSE
  <2>1. k # req[p] /\ \A i \in Jtis \ {req[p]} : tokens'[i] = tokens[i]
    BY <1>2, RevocationOf
  <2> QED BY <2>1 DEF Issued
<1>3. ASSUME NEW p \in Procs, NEW u \in UserIds, NEW l \in Jtis, Login(p, u, l)
      PROVE  /\ tokens'[k].parent = NULL
             /\ tokens'[k].login = k
             /\ ~tokens'[k].revoked
             /\ \A i \in Jtis \ {k} : tokens'[i] = tokens[i]
  <2>1. k = l
    BY <1>3, LoginOf DEF Issued
  <2>2. /\ tokens'[k] = NewToken(u, NULL, k)
        /\ \A i \in Jtis \ {k} : tokens'[i] = tokens[i]
    BY <1>3, <2>1, LoginOf
  <2> QED BY <2>2 DEF NewToken
<1>4. ASSUME NEW p \in Procs, NEW l \in Jtis, RefreshRotate(p, l)
      PROVE  /\ pc[p] = "rotate" /\ pc'[p] = "idle"
             /\ req[p] \in Jtis \ {k}
             /\ Issued(req[p])
             /\ tokens'[k].parent = req[p]
             /\ tokens'[k].login = tokens[req[p]].login
             /\ tokens'[req[p]].revoked
             /\ \A i \in Jtis \ {k, req[p]} : tokens'[i] = tokens[i]
  <2>1. /\ req[p] \in Jtis /\ req[p] # l /\ Issued(req[p])
        /\ tokens'[l] = NewToken(tokens[req[p]].user, req[p], tokens[req[p]].login)
        /\ tokens'[req[p]] = [tokens[req[p]] EXCEPT !.revoked = TRUE]
        /\ \A i \in Jtis \ {req[p], l} : tokens'[i] = tokens[i]
    BY <1>4, RotationOf
  <2>2. k = l
    BY <2>1 DEF Issued
  <2>3. tokens[req[p]] \in RefreshToken
    BY <2>1, RowsAreTokens DEF TokenTypes
  <2>4. tokens'[req[p]].revoked
    BY <2>1, <2>3 DEF RefreshToken
  <2>5. pc[p] = "rotate" /\ pc'[p] = "idle"
    BY <1>4 DEF RefreshRotate, Goto, TokenTypes, TypeOK
  <2>6. tokens'[k].parent = req[p] /\ tokens'[k].login = tokens[req[p]].login
    BY <2>1, <2>2 DEF NewToken
  <2> QED BY <2>1, <2>2, <2>4, <2>5, <2>6
<1> QED BY <1>1, <1>2, <1>3, <1>4, TokenWriters

\* Whoever exchanged it, and however many did so at once: a token that has
\* been exchanged is revoked.
THEOREM RotationRevokes == Spec => []ExchangedIsRevoked
<1>1. Init => ExchangedIsRevoked
  BY DEF Init, ExchangedIsRevoked, Issued
<1>2. TokenTypes /\ ExchangedIsRevoked /\ [Next]_vars => ExchangedIsRevoked'
  <2> SUFFICES ASSUME TokenTypes, ExchangedIsRevoked, [Next]_vars,
                      NEW j \in Jtis, NEW k \in Jtis, Issued(k)', tokens'[k].parent = j
               PROVE  Issued(j)' /\ tokens'[j].revoked
    BY DEF ExchangedIsRevoked
  <2>1. TokensLast
    BY TokensLastStep
  <2>2. CASE Issued(k)
    BY <2>1, <2>2 DEF TokensLast, ExchangedIsRevoked
  <2>3. CASE ~Issued(k)
    <3>1. j # NULL
      BY TokenConstants
    <3>2. Issued(j) /\ tokens'[j].revoked
      BY <2>3, <3>1, NewTokens
    <3> QED BY <2>1, <3>2 DEF TokensLast
  <2> QED BY <2>2, <2>3
<1> QED BY <1>1, <1>2, TokenTypesInvariant, PTL DEF Spec

\* A revoked token stays revoked, and every token stays its owner's.
THEOREM RevokedStaysRevoked == Spec => RevocationIsFinal
<1>1. TokenTypes /\ [Next]_vars =>
        [\A j \in Jtis : Issued(j) =>
           /\ tokens'[j].user = tokens[j].user
           /\ tokens[j].revoked => tokens'[j].revoked]_vars
  BY TokensLastStep DEF TokensLast
<1> QED BY <1>1, TokenTypesInvariant, PTL DEF Spec, RevocationIsFinal

\* No request that arrives after a token has been exchanged can exchange it.
THEOREM LateExchangesFail == Spec => ExchangersWereEarly
<1>1. TokenTypes /\ ExchangedIsRevoked /\ [Next]_vars =>
        [\A p \in Procs : pc[p] = "idle" /\ pc'[p] = "rotate" =>
           \A k \in Jtis : Issued(k) => tokens[k].parent # req'[p]]_vars
  <2> SUFFICES ASSUME TokenTypes, ExchangedIsRevoked, Next, NEW p \in Procs,
                      pc[p] = "idle", pc'[p] = "rotate", NEW k \in Jtis, Issued(k)
               PROVE  tokens[k].parent # req'[p]
    OBVIOUS
  <2>1. PICK j \in Jtis : Refresh(p, j)
    <3>1. ASSUME NEW q \in Procs, Handle(q), ~\E j \in Jtis : Refresh(q, j)
          PROVE  pc'[p] # "rotate"
      BY <3>1 DEF Handle, Register, CreateUser, CreateUserConflict, Login, RefreshRotate,
                  Logout, LogoutRevoke, Abort, Goto, TokenTypes, TypeOK
    <3>2. PICK q \in Procs, j \in Jtis : Refresh(q, j)
      BY <3>1 DEF Next, Tick
    <3>3. q = p
      BY <3>2 DEF Refresh, Goto, TokenTypes, TypeOK
    <3> QED BY <3>2, <3>3
  <2>2. req'[p] = j /\ ~tokens[j].revoked
    BY <2>1 DEF Refresh, Active, Goto, TokenTypes, TypeOK
  <2> QED BY <2>2 DEF ExchangedIsRevoked
<1> QED BY <1>1, TokenTypesInvariant, RotationRevokes, PTL DEF Spec, ExchangersWereEarly
-----------------------------------------------------------------------------
(* Sessions *)

\* The login a token descends from was made, and a token has its parent's.
Descent ==
    \A j \in Jtis : Issued(j) =>
        /\ Issued(tokens[j].login)
        /\ tokens[j].parent # NULL =>
             Issued(tokens[j].parent) /\ tokens[tokens[j].parent].login = tokens[j].login

Childless(j) == \A k \in Jtis : Issued(k) => tokens[k].parent # j

ForkOf(l) == \E a \in Jtis : Issued(a) /\ tokens[a].login = l /\ Forked(a)

\* In a session nobody has forked, only one token has not been exchanged.
OneLeaf ==
    \A l, j, k \in Jtis :
        /\ Issued(j) /\ tokens[j].login = l
        /\ Issued(k) /\ tokens[k].login = l
        /\ Childless(j) /\ Childless(k)
        => j = k \/ ForkOf(l)

\* Descent is kept by every step.
LEMMA DescentStep == TokenTypes /\ Descent /\ [Next]_vars => Descent'
<1> SUFFICES ASSUME TokenTypes, Descent, [Next]_vars, NEW k \in Jtis, Issued(k)'
             PROVE  /\ tokens'[tokens'[k].login] # NULL
                    /\ tokens'[k].parent # NULL =>
                         /\ tokens'[tokens'[k].parent] # NULL
                         /\ tokens'[tokens'[k].parent].login = tokens'[k].login
  BY DEF Descent, Issued
<1>1. TokensLast
  BY TokensLastStep
<1>2. \A j \in Jtis : Issued(j) => tokens[j].login \in Jtis /\ tokens[j].parent \in Jtis \cup {NULL}
  BY RowsAreTokens DEF TokenTypes, RefreshToken
<1>3. CASE Issued(k)
  <2>1. /\ tokens'[k].login = tokens[k].login /\ tokens'[k].parent = tokens[k].parent
        /\ tokens[k].login \in Jtis /\ Issued(tokens[k].login)
    BY <1>1, <1>2, <1>3 DEF TokensLast, Descent
  <2>2. ASSUME tokens[k].parent # NULL
        PROVE  /\ tokens[k].parent \in Jtis /\ Issued(tokens[k].parent)
               /\ tokens[tokens[k].parent].login = tokens[k].login
    BY <1>2, <1>3, <2>2 DEF Descent
  <2> QED BY <1>1, <2>1, <2>2 DEF TokensLast, Issued
<1>4. CASE ~Issued(k)
  <2>1. CASE tokens'[k].parent = NULL /\ tokens'[k].login = k
    BY <2>1 DEF Issued
  <2>2. ASSUME NEW j \in Jtis, Issued(j), tokens'[k].parent = j,
               tokens'[k].login = tokens[j].login
        PROVE  /\ tokens'[tokens'[k].login] # NULL
               /\ tokens'[j] # NULL
               /\ tokens'[j].login = tokens'[k].login
    <3>1. tokens[j].login \in Jtis /\ Issued(tokens[j].login)
      BY <1>2, <2>2 DEF Descent
    <3> QED BY <1>1, <2>2, <3>1 DEF TokensLast, Issued
  <2> QED BY <1>4, <2>1, <2>2, NewTokens
<1> QED BY <1>3, <1>4

\* A fork is never mended.
LEMMA ForksLast ==
  ASSUME TokensLast, NEW l \in Jtis, ForkOf(l)
  PROVE  ForkOf(l)'
<1>1. PICK a \in Jtis, b \in Jtis, c \in Jtis :
        /\ Issued(a) /\ tokens[a].login = l
        /\ b # c /\ Issued(b) /\ Issued(c) /\ tokens[b].parent = a /\ tokens[c].parent = a
  BY DEF ForkOf, Forked
<1>2. /\ Issued(a)' /\ tokens'[a].login = l
      /\ Issued(b)' /\ Issued(c)' /\ tokens'[b].parent = a /\ tokens'[c].parent = a
  BY <1>1 DEF TokensLast
<1> QED BY <1>1, <1>2 DEF ForkOf, Forked

\* A rotation moves the end of a session to the new token, or forks it.
LEMMA OneLeafStep == TokenTypes /\ Descent /\ OneLeaf /\ [Next]_vars => OneLeaf'
<1> SUFFICES ASSUME TokenTypes, Descent, OneLeaf, [Next]_vars,
                    NEW l \in Jtis, NEW j \in Jtis, NEW k \in Jtis, Issued(j)', Issued(k)',
                    tokens'[j].login = l, tokens'[k].login = l,
                    Childless(j)', Childless(k)', j # k
             PROVE  ForkOf(l)'
  BY DEF OneLeaf
<1>1. TokensLast
  BY TokensLastStep
<1>2. \A i \in Jtis : Issued(i) /\ Childless(i)' => Childless(i)
  BY <1>1 DEF TokensLast, Childless
<1>3. \* A token that is new is the only childless one of an unforked session.
      ASSUME NEW x \in Jtis, NEW y \in Jtis, x # y, Issued(x)', Issued(y)', ~Issued(y),
             tokens'[x].login = l, tokens'[y].login = l, Childless(x)'
      PROVE  ForkOf(l)'
  <2>1. CASE /\ tokens'[y].login = y
             /\ \A i \in Jtis \ {y} : tokens'[i] = tokens[i]
    <3>1. Issued(x) /\ tokens[x].login = y
      BY <1>3, <2>1 DEF Issued
    <3> QED BY <1>3, <3>1 DEF Descent
  <2>2. ASSUME NEW r \in Jtis \ {y}, Issued(r), tokens'[y].parent = r,
               tokens'[y].login = tokens[r].login,
               \A i \in Jtis \ {y, r} : tokens'[i] = tokens[i]
        PROVE  ForkOf(l)'
    <3>1. x # r
      BY <1>3, <2>2 DEF Childless
    <3>2. tokens'[x] = tokens[x] /\ Issued(x) /\ Childless(x)
      BY <1>2, <1>3, <2>2, <3>1 DEF Issued
    <3>3. CASE Childless(r)
      <4>1. ForkOf(l)
        BY <1>3, <2>2, <3>1, <3>2, <3>3 DEF OneLeaf
      <4> QED BY <1>1, <3>2, <4>1, ForksLast
    <3>4. CASE ~Childless(r)
      <4>1. PICK c \in Jtis : Issued(c) /\ tokens[c].parent = r
        BY <3>4 DEF Childless
      <4>2. c # y /\ Issued(c)' /\ tokens'[c].parent = r
        BY <1>1, <1>3, <4>1 DEF TokensLast
      <4>3. Issued(r)' /\ tokens'[r].login = l
        BY <1>1, <1>3, <2>2 DEF TokensLast
      <4> QED BY <1>3, <2>2, <4>2, <4>3 DEF ForkOf, Forked
    <3> QED BY <3>3, <3>4
  <2> QED BY <1>3, <2>1, <2>2, NewTokens
<1>4. CASE Issued(j) /\ Issued(k)
  <2>1. tokens'[j].login = tokens[j].login /\ tokens'[k].login = tokens[k].login
    BY <1>1, <1>4 DEF TokensLast
  <2>2. ForkOf(l)
    BY <1>2, <1>4, <2>1 DEF OneLeaf
  <2> QED BY <1>1, <2>1, <2>2, ForksLast
<1>5. CASE ~Issued(k)
  BY <1>3, <1>5
<1>6. CASE ~Issued(j)
  BY <1>3, <1>6
<1> QED BY <1>4, <1>5, <1>6

\* A login is good for one session, unless one of its tokens was exchanged by
\* two requests that overlapped.
THEOREM OneSessionUnlessForked == Spec => []OneSessionPerLogin
<1>1. Init => Descent /\ OneLeaf
  BY DEF Init, Descent, OneLeaf, Issued
<1>2. TypeOK /\ ExchangedIsRevoked /\ OneLeaf => OneSessionPerLogin
  <2> SUFFICES ASSUME TypeOK, ExchangedIsRevoked, OneLeaf, NEW j \in Jtis, NEW k \in Jtis, j # k,
                      Issued(j), ~tokens[j].revoked, Issued(k), ~tokens[k].revoked,
                      tokens[j].login = tokens[k].login
               PROVE  ForkOf(tokens[j].login)
    BY DEF OneSessionPerLogin, ForkOf
  <2>0. tokens[j].login \in Jtis
    BY RowsAreTokens DEF RefreshToken
  <2>1. Childless(j) /\ Childless(k)
    BY DEF ExchangedIsRevoked, Childless
  <2> QED BY <2>0, <2>1 DEF OneLeaf
<1> QED
  BY <1>1, <1>2, TokenTypesInvariant, TokenTypesAreKept, RotationRevokes, DescentStep, OneLeafStep, PTL DEF Spec
-----------------------------------------------------------------------------
(* One request at a time *)

OneAtATime == \A p, q \in Procs : p = q

\* The token a rotation is about to revoke has not been revoked meanwhile.
StillActive ==
    \A p \in Procs : pc[p] = "rotate" => ~tokens[req[p]].revoked

\* Without concurrency what a request has loaded is still so when it writes.
LEMMA StillActiveInvariant ==
  ASSUME OneAtATime
  PROVE  Spec => []StillActive
<1>1. Init => StillActive
  BY DEF Init, StillActive
<1>2. TokenTypes /\ StillActive /\ [Next]_vars => StillActive'
  <2> SUFFICES ASSUME TokenTypes, StillActive, [Next]_vars,
                      NEW p \in Procs, pc'[p] = "rotate"
               PROVE  ~tokens'[req'[p]].revoked
    BY DEF StillActive
  <2>1. CASE UNCHANGED vars \/ Tick
    BY <2>1 DEF vars, Tick, StillActive
  <2>2. ASSUME Handle(p) PROVE ~tokens'[req'[p]].revoked
    <3>1. ASSUME NEW u \in UserIds, NEW k \in Jtis, Login(p, u, k)
          PROVE  ~tokens'[req'[p]].revoked
      <4>1. pc[p] = "rotate" /\ pc[p] = "idle"
        BY <3>1 DEF Login
      <4> QED BY <4>1
    <3>2. ASSUME NEW j \in Jtis, Refresh(p, j) PROVE ~tokens'[req'[p]].revoked
      BY <3>2 DEF Refresh, Active, Goto, TokenTypes, TypeOK
    <3>3. ASSUME ~\E j \in Jtis : Refresh(p, j),
                 ~\E u \in UserIds, k \in Jtis : Login(p, u, k)
          PROVE  pc'[p] # "rotate"
      BY <2>2, <3>3 DEF Handle, Register, CreateUser, CreateUserConflict, RefreshRotate,
                        Logout, LogoutRevoke, Abort, Goto, TokenTypes, TypeOK
    <3> QED BY <3>1, <3>2, <3>3
  <2>3. ASSUME NEW q \in Procs, Handle(q) PROVE q = p
    BY OneAtATime DEF OneAtATime
  <2> QED BY <2>1, <2>2, <2>3 DEF Next
<1> QED BY <1>1, <1>2, TokenTypesInvariant, PTL DEF Spec

\* As long as requests do not overlap, a revoked or rotated token can no
\* longer be exchanged.
THEOREM RevokedIsDeadSerially ==
  ASSUME OneAtATime
  PROVE  Spec => RevokedIsDead
<1>1. TokenTypes /\ StillActive /\ [Next]_vars =>
        [\A j, k \in Jtis :
           Issued(j) /\ tokens[j].revoked /\ ~Issued(k) /\ Issued(k)'
              => tokens'[k].parent # j]_vars
  <2> SUFFICES ASSUME TokenTypes, StillActive, [Next]_vars, NEW j \in Jtis, NEW k \in Jtis,
                      tokens[j].revoked, ~Issued(k), Issued(k)'
               PROVE  tokens'[k].parent # j
    OBVIOUS
  <2>1. j # NULL
    BY TokenConstants
  <2> QED BY <2>1, NewTokens DEF StillActive
<1> QED BY <1>1, TokenTypesInvariant, StillActiveInvariant, PTL DEF Spec, RevokedIsDead

\* Nor is one exchanged twice: only requests that overlap can do that.
THEOREM RotatedIsDeadSerially ==
  ASSUME OneAtATime
  PROVE  Spec => []RotatedIsDead
<1>1. Init => RotatedIsDead
  BY DEF Init, RotatedIsDead, Forked, Issued
<1>2. TokenTypes /\ StillActive /\ ExchangedIsRevoked /\ RotatedIsDead /\ [Next]_vars
        => RotatedIsDead'
  <2> SUFFICES ASSUME TokenTypes, StillActive, ExchangedIsRevoked, RotatedIsDead, [Next]_vars,
                      NEW j \in Jtis, NEW a \in Jtis, NEW b \in Jtis, a # b,
                      Issued(a)', Issued(b)', tokens'[a].parent = j, tokens'[b].parent = j
               PROVE  FALSE
    BY DEF RotatedIsDead, Forked
  <2>1. TokensLast /\ j # NULL
    BY TokensLastStep, TokenConstants
  \* One of the two was there before, and so is the token revoked that both are
  \* of; the new one is issued by the only request, which holds it unrevoked.
  <2>2. ASSUME NEW i \in Jtis, NEW k \in Jtis, i # k, Issued(i), ~Issued(k), Issued(k)',
               tokens'[i].parent = j, tokens'[k].parent = j
        PROVE  FALSE
    <3>1. tokens[j].revoked
      BY <2>1, <2>2 DEF TokensLast, ExchangedIsRevoked
    <3> QED BY <2>1, <2>2, <3>1, NewTokens DEF StillActive
  \* No step issues two tokens.
  <2>3. ASSUME ~Issued(a), ~Issued(b) PROVE FALSE
    BY <2>1, <2>3, NewTokens DEF Issued
  <2>4. ASSUME Issued(a), Issued(b) PROVE FALSE
    BY <2>1, <2>4 DEF TokensLast, RotatedIsDead, Forked
  <2> QED BY <2>2, <2>3, <2>4
<1> QED
  BY <1>1, <1>2, TokenTypesInvariant, StillActiveInvariant, RotationRevokes, PTL DEF Spec
-----------------------------------------------------------------------------
(* The promises of Sessions *)

Owner == [j \in Jtis |-> IF Issued(j) THEN tokens[j].user ELSE NULL]
Session == [j \in Jtis |-> IF Issued(j) THEN tokens[j].login ELSE NULL]
GoodOnes == {j \in Jtis : Good(j)}

\* The request p is about to exchange j.
Holds(p, j) == pc[p] = "rotate" /\ req[p] = j

\* A step that Sessions takes or does not see.
Kept == [Promised!Next]_(Promised!vars)

\* A step that at most takes tokens from the good ones: they are revoked or expire.
LEMMA GoodLost ==
  ASSUME users' = users, Owner' = Owner, Session' = Session, GoodOnes' \subseteq GoodOnes
  PROVE  Kept
<1> DEFINE lost == GoodOnes \ GoodOnes'
<1>1. GoodOnes' = GoodOnes \ lost
  OBVIOUS
<1>2. CASE lost = {}
  <2>1. GoodOnes' = GoodOnes
    BY <1>2
  <2> QED BY <2>1 DEF Kept, Promised!vars, Owner, Session, GoodOnes
<1>3. CASE lost # {}
  <2>1. lost \in SUBSET GoodOnes
    OBVIOUS
  <2>2. Promised!Lose(lost)
    BY <1>1, <1>3 DEF Promised!Lose, Owner, Session, GoodOnes
  <2> QED BY <2>1, <2>2 DEF Kept, Promised!Next, GoodOnes
<1> QED BY <1>2, <1>3

\* A token nobody has begun to exchange and that has not become active is not
\* better than it was.
LEMMA NoBetter ==
  ASSUME UNCHANGED <<users, tokens>>,
         \A j \in Jtis : Active(j)' => Active(j),
         \A p \in Procs, j \in Jtis : Holds(p, j)' => Holds(p, j) \/ Active(j)
  PROVE  Kept
<1>1. Owner' = Owner /\ Session' = Session
  BY DEF Owner, Session, Issued
<1>2. GoodOnes' \subseteq GoodOnes
  BY DEF GoodOnes, Good, Holds
<1> QED BY <1>1, <1>2, GoodLost

\* CreateUser signs a user up.
LEMMA CreateUserKept ==
  ASSUME TokenTypes, NEW p \in Procs, NEW u \in UserIds, CreateUser(p, u)
  PROVE  Kept
<1>1. req[p] \in Emails
  BY DEF CreateUser, TokenTypes, Loaded
<1>2. Owner' = Owner /\ Session' = Session
  BY DEF CreateUser, Owner, Session, Issued
<1>3. GoodOnes' = GoodOnes
  <2>1. \A q \in Procs, j \in Jtis : Holds(q, j)' <=> Holds(q, j)
    BY DEF CreateUser, Goto, Holds, TokenTypes, TypeOK
  <2>2. \A j \in Jtis : Active(j)' <=> Active(j)
    BY DEF CreateUser, Active, Issued
  <2> QED BY <2>1, <2>2 DEF GoodOnes, Good, Holds
<1>4. Promised!SignUp(u, req[p])
  BY <1>2, <1>3 DEF CreateUser, Registered, Promised!SignUp, Owner, Session, GoodOnes
<1> QED BY <1>1, <1>4 DEF Kept, Promised!Next

\* A login opens a session.
LEMMA LoginKept ==
  ASSUME TokenTypes, NEW p \in Procs, NEW u \in UserIds, NEW k \in Jtis, Login(p, u, k)
  PROVE  Kept
<1>1. /\ ~Issued(k) /\ tokens'[k] = NewToken(u, NULL, k) /\ tokens'[k] # NULL
      /\ \A j \in Jtis \ {k} : tokens'[j] = tokens[j]
  BY LoginOf, TokenConstants
<1>2. Owner' = [Owner EXCEPT ![k] = u] /\ Session' = [Session EXCEPT ![k] = k]
  <2>1. tokens'[k].user = u /\ tokens'[k].login = k
    BY <1>1 DEF NewToken
  <2> QED BY <1>1, <2>1 DEF Owner, Session, Issued
<1>3. GoodOnes' = GoodOnes \cup {k}
  <2>1. Active(k)'
    BY <1>1, TokenConstants DEF Active, Issued, NewToken, Login, TokenTypes, TypeOK
  <2>2. \A j \in Jtis \ {k} : Active(j)' <=> Active(j)
    BY <1>1 DEF Active, Issued, Login
  <2>3. \A q \in Procs, j \in Jtis : Holds(q, j)' <=> Holds(q, j)
    BY DEF Login, Holds
  <2> QED BY <2>1, <2>2, <2>3 DEF GoodOnes, Good, Holds
<1>4. u # NULL
  BY TokenConstants
<1>5. Promised!Open(u, k)
  BY <1>1, <1>2, <1>3, <1>4
     DEF Promised!Open, Promised!Unissued, Login, Owner, Session, GoodOnes
<1> QED BY <1>5 DEF Kept, Promised!Next

\* A rotation exchanges the token that p holds.  Other requests that hold it too
\* keep it good.
LEMMA RotationKept ==
  ASSUME TokenTypes, NEW p \in Procs, NEW k \in Jtis, RefreshRotate(p, k)
  PROVE  Kept
<1> DEFINE j == req[p]
<1>1. /\ j \in Jtis /\ j # k /\ Issued(j) /\ ~Issued(k)
      /\ tokens'[j] = [tokens[j] EXCEPT !.revoked = TRUE]
      /\ tokens[j] \in RefreshToken /\ tokens'[j] \in RefreshToken
      /\ tokens'[k] = NewToken(tokens[j].user, j, tokens[j].login)
      /\ tokens'[k] \in RefreshToken
      /\ \A i \in Jtis \ {j, k} : tokens'[i] = tokens[i]
  BY RotationOf, RowsAreTokens DEF TokenTypes
<1>2. /\ tokens'[j] # NULL /\ tokens'[k] # NULL
      /\ tokens'[j].user = tokens[j].user /\ tokens'[j].login = tokens[j].login
      /\ tokens'[j].revoked
      /\ tokens'[k].user = tokens[j].user /\ tokens'[k].login = tokens[j].login
      /\ ~tokens'[k].revoked /\ tokens'[k].expires_at = now + Lifetime
  <2>1. tokens'[j] # NULL /\ tokens'[k] # NULL
    BY <1>1, TokenConstants
  <2>2. /\ tokens'[j].user = tokens[j].user /\ tokens'[j].login = tokens[j].login
        /\ tokens'[j].revoked
    <3> HIDE DEF j
    <3> QED BY <1>1 DEF RefreshToken
  <2>3. /\ tokens'[k].user = tokens[j].user /\ tokens'[k].login = tokens[j].login
        /\ ~tokens'[k].revoked /\ tokens'[k].expires_at = now + Lifetime
    BY <1>1 DEF NewToken
  <2> QED BY <2>1, <2>2, <2>3
<1>3. Owner' = [Owner EXCEPT ![k] = Owner[j]] /\ Session' = [Session EXCEPT ![k] = Session[j]]
  <2> HIDE DEF j
  <2> QED BY <1>1, <1>2 DEF Owner, Session, Issued
<1>4. Holds(p, j) /\ pc'[p] = "idle" /\ \A q \in Procs \ {p}, i \in Jtis : Holds(q, i)' <=> Holds(q, i)
  BY DEF RefreshRotate, Goto, Holds, TokenTypes, TypeOK
<1>5. Active(k)'
  <2>1. now' = now /\ now < now + Lifetime
    BY TokenConstants DEF RefreshRotate, TokenTypes, TypeOK
  <2>2. Issued(k)' /\ now' < tokens'[k].expires_at
    BY <1>2, <2>1 DEF Issued
  <2> QED BY <1>2, <2>2 DEF Active
<1>6. \A i \in Jtis \ {j, k} : Active(i)' <=> Active(i)
  BY <1>1 DEF Active, Issued, RefreshRotate
<1> HIDE DEF j
<1>7. GoodOnes' \in {GoodOnes \cup {k}, (GoodOnes \cup {k}) \ {j}}
  <2>1. \A i \in Jtis \ {j} : i \in GoodOnes' <=> i \in GoodOnes \/ i = k
    BY <1>1, <1>4, <1>5, <1>6 DEF GoodOnes, Good, Holds
  <2>2. j \in GoodOnes /\ GoodOnes \subseteq Jtis /\ GoodOnes' \subseteq Jtis
    BY <1>1, <1>4 DEF GoodOnes, Good, Holds
  <2>3. CASE j \in GoodOnes'
    <3>1. GoodOnes' = GoodOnes \cup {k}
      BY <1>1, <2>1, <2>2, <2>3
    <3> QED BY <3>1
  <2>4. CASE j \notin GoodOnes'
    <3>1. GoodOnes' = (GoodOnes \cup {k}) \ {j}
      BY <1>1, <2>1, <2>2, <2>4
    <3> QED BY <3>1
  <2> QED BY <2>3, <2>4
<1>8. j \in GoodOnes
  BY <1>1, <1>4 DEF GoodOnes, Good, Holds
<1>9. users' = users
  BY DEF RefreshRotate
<1>10. Promised!Exchange(j, k)
  BY <1>1, <1>3, <1>7, <1>8, <1>9
     DEF Promised!Exchange, Promised!Unissued, Owner, Session, GoodOnes
<1> QED BY <1>1, <1>10 DEF Kept, Promised!Next

\* A logout takes a token from the good ones, unless a request holds it.
LEMMA RevocationKept ==
  ASSUME TokenTypes, NEW p \in Procs, LogoutRevoke(p)
  PROVE  Kept
<1> DEFINE j == req[p]
<1>1. /\ j \in Jtis /\ Issued(j)
      /\ tokens'[j] = [tokens[j] EXCEPT !.revoked = TRUE]
      /\ tokens[j] \in RefreshToken /\ tokens'[j] \in RefreshToken
      /\ \A i \in Jtis \ {j} : tokens'[i] = tokens[i]
  BY RevocationOf, RowsAreTokens DEF TokenTypes
<1>2. /\ tokens'[j] # NULL /\ tokens'[j].revoked
      /\ tokens'[j].user = tokens[j].user /\ tokens'[j].login = tokens[j].login
  BY <1>1, TokenConstants DEF RefreshToken
<1>3. \A q \in Procs, i \in Jtis : Holds(q, i)' => Holds(q, i)
  BY DEF LogoutRevoke, Goto, Holds, TokenTypes, TypeOK
<1>4. users' = users /\ now' = now
  BY DEF LogoutRevoke
<1> HIDE DEF j
<1>5. Owner' = Owner /\ Session' = Session
  BY <1>1, <1>2 DEF Owner, Session, Issued
<1>6. \A i \in Jtis : Active(i)' => Active(i)
  BY <1>1, <1>2, <1>4 DEF Active, Issued
<1>7. GoodOnes' \subseteq GoodOnes
  BY <1>3, <1>6 DEF GoodOnes, Good, Holds
<1> QED BY <1>4, <1>5, <1>7, GoodLost

\* Every step of a request or of the clock is one of Sessions, or none it sees.
LEMMA SessionStep == TokenTypes /\ [Next]_vars => Kept
<1> SUFFICES ASSUME TokenTypes, [Next]_vars PROVE Kept
  OBVIOUS
<1>1. CASE Tick
  <2>1. \A j \in Jtis : Active(j)' => Active(j)
    <3> SUFFICES ASSUME NEW j \in Jtis, Active(j)' PROVE Active(j)
      OBVIOUS
    <3>1. tokens[j] \in RefreshToken
      BY <1>1, RowsAreTokens DEF Tick, Active, Issued, TokenTypes
    <3> QED BY <1>1, <3>1 DEF Tick, Active, Issued, RefreshToken, TokenTypes, TypeOK
  <2>2. \A p \in Procs, j \in Jtis : Holds(p, j)' => Holds(p, j)
    BY <1>1 DEF Tick, Holds
  <2> QED BY <1>1, <2>1, <2>2, NoBetter DEF Tick
<1>2. CASE UNCHANGED vars
  BY <1>2, NoBetter DEF vars, Active, Issued, Holds
<1>3. ASSUME NEW p \in Procs, NEW r,
             \/ pc'[p] # "rotate" \/ Active(r),
             \E label \in {pc'[p]} : Goto(p, label, r), UNCHANGED <<users, tokens, now>>
      PROVE  Kept
  <2>1. \A j \in Jtis : Active(j)' => Active(j)
    BY <1>3 DEF Active, Issued
  <2>2. \A q \in Procs, j \in Jtis : Holds(q, j)' => Holds(q, j) \/ Active(j)
    BY <1>3 DEF Goto, Holds, TokenTypes, TypeOK
  <2> QED BY <1>3, <2>1, <2>2, NoBetter
<1>4. ASSUME NEW p \in Procs, Handle(p) PROVE Kept
  <2>1. ASSUME NEW e \in Emails, Register(p, e) PROVE Kept
    <3>1. pc'[p] = "create"
      BY <2>1 DEF Register, Goto, TokenTypes, TypeOK
    <3> QED BY <1>3, <2>1, <3>1 DEF Register
  <2>2. CASE CreateUserConflict(p) \/ Abort(p)
    <3>1. pc'[p] = "idle"
      BY <2>2 DEF CreateUserConflict, Abort, Goto, TokenTypes, TypeOK
    <3> QED BY <1>3, <2>2, <3>1 DEF CreateUserConflict, Abort
  <2>3. ASSUME NEW j \in Jtis, Refresh(p, j) \/ Logout(p, j) PROVE Kept
    <3>1. pc'[p] \in {"rotate", "revoke"}
      BY <2>3 DEF Refresh, Logout, Goto, TokenTypes, TypeOK
    <3>2. Goto(p, pc'[p], j) /\ Active(j) /\ UNCHANGED <<users, tokens, now>>
      BY <2>3, <3>1 DEF Refresh, Logout, Goto, TokenTypes, TypeOK
    <3> QED BY <1>3, <3>2
  <2> QED BY <1>4, <2>1, <2>2, <2>3, CreateUserKept, LoginKept, RotationKept, RevocationKept
          DEF Handle
<1> QED BY <1>1, <1>2, <1>4 DEF Next

\* However many requests are at work on one token, and whichever of them die:
\* sessions begin, go on and end as Sessions says.
THEOREM TokensImplementSessions == Spec => ImplementsSessions
<1>1. Init => Promised!Init
  BY DEF Init, Promised!Init, Good, Active, Issued
<1>2. TokenTypes /\ [Next]_vars => [Promised!Next]_(Promised!vars)
  BY SessionStep DEF Kept
<1> QED BY <1>1, <1>2, TokenTypesInvariant, PTL DEF Spec, ImplementsSessions, Promised!Spec

\* A session that is over, with all of its tokens revoked or expired and no
\* request at work on one of them, is over for good.
THEOREM SessionsEndForGood == Spec => Promised!OverForGood
<1>1. TokenTypes /\ [Next]_vars =>
        [/\ \A t \in Jtis : ~Promised!Unissued(t) /\ t \notin GoodOnes => t \notin GoodOnes'
         /\ \A l \in Jtis : Promised!Over(l) => Promised!Over(l)']_(Promised!vars)
  <2> SUFFICES ASSUME TokenTypes, [Next]_vars, Promised!Next
               PROVE  /\ \A t \in Jtis : Owner[t] # NULL /\ t \notin GoodOnes => t \notin GoodOnes'
                      /\ \A l \in Jtis :
                           /\ Session[l] = l /\ \A t \in GoodOnes : Session[t] # l
                           => Session'[l] = l /\ \A t \in GoodOnes' : Session'[t] # l
    BY SessionStep DEF Kept, Promised!Unissued, Promised!Over, Owner, Session, GoodOnes
  <2>1. \A l \in Jtis : Session[l] = l => Owner[l] # NULL
    BY TokenConstants, RowsAreTokens DEF Session, Owner, TokenTypes, RefreshToken
  <2>2. GoodOnes \subseteq Jtis
    BY DEF GoodOnes
  <2>3. CASE Session' = Session /\ GoodOnes' \subseteq GoodOnes
    BY <2>3
  <2>4. ASSUME NEW u \in UserIds, NEW t \in Jtis, Promised!Open(u, t)
        PROVE  /\ Owner[t] = NULL /\ GoodOnes' = GoodOnes \cup {t}
               /\ Session' = [Session EXCEPT ![t] = t]
    BY <2>4 DEF Promised!Open, Promised!Unissued, Owner, Session, GoodOnes
  <2>5. ASSUME NEW s \in Jtis, NEW t \in Jtis, Promised!Exchange(s, t)
        PROVE  /\ s \in GoodOnes /\ Owner[t] = NULL /\ GoodOnes' \subseteq GoodOnes \cup {t}
               /\ Session' = [Session EXCEPT ![t] = Session[s]]
    BY <2>5 DEF Promised!Exchange, Promised!Unissued, Owner, Session, GoodOnes
  <2>6. DOMAIN Session = Jtis
    BY DEF Session
  <2>7. ASSUME NEW t \in Jtis, NEW s \in GoodOnes \cup {t}, Owner[t] = NULL,
               GoodOnes' \subseteq GoodOnes \cup {t},
               \/ Session' = [Session EXCEPT ![t] = t]
               \/ s \in GoodOnes /\ Session' = [Session EXCEPT ![t] = Session[s]]
        PROVE  /\ \A i \in Jtis : Owner[i] # NULL /\ i \notin GoodOnes => i \notin GoodOnes'
               /\ \A l \in Jtis :
                    /\ Session[l] = l /\ \A i \in GoodOnes : Session[i] # l
                    => Session'[l] = l /\ \A i \in GoodOnes' : Session'[i] # l
    <3> HIDE DEF Owner, Session, GoodOnes
    <3> QED BY <2>1, <2>2, <2>6, <2>7
  <2>8. CASE \E u \in UserIds, e \in Emails : Promised!SignUp(u, e)
    BY <2>3, <2>8 DEF Promised!SignUp, Session, GoodOnes
  <2>9. CASE \E lost \in SUBSET {j \in Jtis : Good(j)} : Promised!Lose(lost)
    BY <2>3, <2>9 DEF Promised!Lose, Session, GoodOnes
  <2>10. CASE \E u \in UserIds, t \in Jtis : Promised!Open(u, t)
    BY <2>4, <2>7, <2>10
  <2>11. CASE \E s, t \in Jtis : Promised!Exchange(s, t)
    BY <2>5, <2>7, <2>11
  <2> QED BY <2>8, <2>9, <2>10, <2>11 DEF Promised!Next
<1> QED BY <1>1, TokenTypesInvariant, PTL
        DEF Spec, Promised!OverForGood, GoodOnes
=============================================================================
