------------------------------ MODULE Sessions ------------------------------
(***************************************************************************)
(* What registration, login, refresh and logout promise, and all a client  *)
(* can count on: which accounts there are, and from which refresh tokens a *)
(* session can still go on.  Requests, their stale rows, revoked_at and    *)
(* the clock are AuthTokens' business.                                     *)
(***************************************************************************)
CONSTANTS
    Users,
    Emails,
    Tokens,
    NULL

VARIABLES
    email,      \* of each user; NULL: there is no such user
    owner,      \* of each token; NULL: it has not been issued
    session,    \* the token of the login each token descends from
    good        \* the tokens that a session can still go on from

vars == <<email, owner, session, good>>

Unissued(t) == owner[t] = NULL
-----------------------------------------------------------------------------
Init ==
    /\ email = [u \in Users |-> NULL]
    /\ owner = [t \in Tokens |-> NULL]
    /\ session = [t \in Tokens |-> NULL]
    /\ good = {}

\* An email has one user.
SignUp(u, e) ==
    /\ email[u] = NULL
    /\ e \notin {email[v] : v \in Users}
    /\ email' = [email EXCEPT ![u] = e]
    /\ UNCHANGED <<owner, session, good>>

\* A login opens a session of its own.
Open(u, t) ==
    /\ email[u] # NULL
    /\ Unissued(t)
    /\ owner' = [owner EXCEPT ![t] = u]
    /\ session' = [session EXCEPT ![t] = t]
    /\ good' = good \cup {t}
    /\ UNCHANGED email

\* A good token is exchanged for a new one of the same user and session.  It is
\* spent, unless somebody else is exchanging it at the same time.
Exchange(s, t) ==
    /\ s \in good
    /\ Unissued(t)
    /\ owner' = [owner EXCEPT ![t] = owner[s]]
    /\ session' = [session EXCEPT ![t] = session[s]]
    /\ good' \in {good \cup {t}, (good \cup {t}) \ {s}}
    /\ UNCHANGED email

\* Tokens are revoked or expire.
Lose(lost) ==
    /\ lost # {}
    /\ good' = good \ lost
    /\ UNCHANGED <<email, owner, session>>

Next ==
    \/ \E u \in Users, e \in Emails : SignUp(u, e)
    \/ \E u \in Users, t \in Tokens : Open(u, t)
    \/ \E s, t \in Tokens : Exchange(s, t)
    \/ \E lost \in SUBSET good : Lose(lost)

Spec == Init /\ [][Next]_vars
-----------------------------------------------------------------------------
\* A session is over when it has no good token left.
Over(l) == session[l] = l /\ \A t \in good : session[t] # l

\* "A revoked or rotated token can no longer be exchanged": a token that is not
\* good any more never is again, and a session that is over does not come back.
OverForGood ==
    [][/\ \A t \in Tokens : ~Unissued(t) /\ t \notin good => t \notin good'
       /\ \A l \in Tokens : Over(l) => Over(l)']_vars
=============================================================================
