---------------------------- MODULE RateLimiter ----------------------------
(***************************************************************************)
(* RateLimitMiddleware of app/core/ratelimit.py: requests per caller in    *)
(* windows of a fixed length, cut out of the monotonic clock.              *)
(*                                                                         *)
(* dispatch has no await before its verdict, so a request is one action.   *)
(* Requests for the exempt paths, and all of them when the limiter is      *)
(* switched off, pass without touching its state and have no action.       *)
(* The state is that of one process: each replica counts for itself.       *)
(***************************************************************************)
EXTENDS Naturals, Sequences

CONSTANTS
    Keys,           \* _client_key: a digest of the bearer token, or an address
    Limit,          \* settings.rate_limit_requests
    WindowSeconds,  \* settings.rate_limit_window_seconds
    Resolution,     \* ticks of the clock in a second
    MaxTime,        \* bound: ticks of the clock
    MaxHits         \* bound: requests of one caller in one window

ASSUME LimiterConstants ==
    /\ Limit \in Nat \ {0}
    /\ WindowSeconds \in Nat \ {0}
    /\ Resolution \in Nat \ {0}
    /\ MaxTime \in Nat
    /\ MaxHits \in Nat

VARIABLES
    now,        \* time.monotonic(), in ticks
    hits,       \* _hits; window 0 with no request stands for an absent key
    admitted,   \* when each caller's requests were let through
    retryAt     \* when a caller that has been refused may come back; 0 after
                \* a request that was let through

vars == <<now, hits, admitted, retryAt>>
-----------------------------------------------------------------------------
Period == WindowSeconds * Resolution

WindowOf(t) == t \div Period

\* Mutant: the second that has begun counts as over.
RetryRounded(t) ==
    LET left == WindowSeconds - (((t % Period) + Resolution - 1) \div Resolution)
    IN  IF left = 0 THEN 1 ELSE left

\* Retry-After, in seconds: int() drops the fraction of the second that has begun.
RetryAfter(t) == WindowSeconds - ((t % Period) \div Resolution)

\* Mutant: the counter of an earlier window goes on.
CountKept(k) == hits[k].count + 1

\* The stored count if it is this window's, and this request.
CountOf(k) == IF hits[k].window = WindowOf(now) THEN hits[k].count + 1 ELSE 1

Init ==
    /\ now = 0
    /\ hits = [k \in Keys |-> [window |-> 0, count |-> 0]]
    /\ admitted = [k \in Keys |-> <<>>]
    /\ retryAt = [k \in Keys |-> 0]

\* Mutant: one request too many.
AdmitOneMore(k) ==
    /\ CountOf(k) <= Limit + 1
    /\ CountOf(k) <= MaxHits
    /\ hits' = [hits EXCEPT ![k] = [window |-> WindowOf(now), count |-> CountOf(k)]]
    /\ admitted' = [admitted EXCEPT ![k] = Append(@, now)]
    /\ retryAt' = [retryAt EXCEPT ![k] = 0]
    /\ UNCHANGED now

\* dispatch, up to call_next.
Admit(k) ==
    /\ CountOf(k) <= Limit
    /\ CountOf(k) <= MaxHits
    /\ hits' = [hits EXCEPT ![k] = [window |-> WindowOf(now), count |-> CountOf(k)]]
    /\ admitted' = [admitted EXCEPT ![k] = Append(@, now)]
    /\ retryAt' = [retryAt EXCEPT ![k] = 0]
    /\ UNCHANGED now

\* dispatch, with a 429: a refused request counts too.
Refuse(k) ==
    /\ CountOf(k) > Limit
    /\ CountOf(k) <= MaxHits
    /\ hits' = [hits EXCEPT ![k] = [window |-> WindowOf(now), count |-> CountOf(k)]]
    /\ retryAt' = [retryAt EXCEPT ![k] = now + RetryAfter(now) * Resolution]
    /\ UNCHANGED <<now, admitted>>

Tick ==
    /\ now < MaxTime
    /\ now' = now + 1
    /\ UNCHANGED <<hits, admitted, retryAt>>

Next == Tick \/ \E k \in Keys : Admit(k) \/ Refuse(k)

Spec == Init /\ [][Next]_vars
-----------------------------------------------------------------------------
(* Properties *)

\* A request of k arrives in this step: every one is counted.
Requested(k) == hits'[k] # hits[k]

LetThrough(k) == admitted'[k] # admitted[k]

\* Every variable has its type.
TypeOK ==
    /\ now \in Nat
    /\ hits \in [Keys -> [window : Nat, count : Nat]]
    /\ admitted \in [Keys -> Seq(Nat)]
    /\ retryAt \in [Keys -> Nat]

\* "Caps requests": no window of the clock lets more than Limit requests of
\* one caller through, whatever was refused in between.
WindowCap ==
    \A k \in Keys : \A i \in 1 .. Len(admitted[k]) :
        i + Limit <= Len(admitted[k]) =>
            WindowOf(admitted[k][i]) < WindowOf(admitted[k][i + Limit])

\* What a fixed window is worth to the server: any span as long as a window,
\* wherever it starts, sees at most twice the limit of one caller.
SlidingBound ==
    \A k \in Keys : \A i \in 1 .. Len(admitted[k]) :
        i + 2 * Limit <= Len(admitted[k]) =>
            admitted[k][i + 2 * Limit] - admitted[k][i] > Period

\* No caller is refused for the requests of another, nor for those of an
\* earlier window: a refusal means that Limit of its requests were let
\* through in this very window.
RefusedOnlyAtLimit ==
    [][\A k \in Keys : Requested(k) /\ ~LetThrough(k) =>
         /\ Len(admitted[k]) >= Limit
         /\ WindowOf(admitted[k][Len(admitted[k]) - Limit + 1]) = WindowOf(now)]_vars

\* Retry-After is long enough: a refused caller that stays away for as long as
\* it was told to is let through, in whatever part of a second it was refused.
RetryAfterSuffices ==
    [][\A k \in Keys : Requested(k) /\ retryAt[k] # 0 /\ now >= retryAt[k]
         => LetThrough(k)]_vars

\* Retry-After is not longer than its unit demands: a second less would fall
\* into the window that has refused the caller.
RetryAfterTight ==
    \A k \in Keys : retryAt[k] # 0 =>
        /\ retryAt[k] >= Resolution
        /\ WindowOf(retryAt[k] - Resolution) < WindowOf(retryAt[k])
=============================================================================
