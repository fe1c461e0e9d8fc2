------------------------------ MODULE HttpStack ------------------------------
(***************************************************************************)
(* Requests on their way through the middleware that create_app of         *)
(* app/main.py stacks up: the request context, the metrics, the security   *)
(* headers, the rate limiter (RateLimiter), and inside them the exception  *)
(* handlers of app/core/errors.py, the current user of app/api/deps.py and *)
(* an endpoint.  Outside them all Starlette answers what nobody handled.   *)
(*                                                                         *)
(* call_next runs what is inside in a task of its own, so every layer, in  *)
(* and out, is a step, and other requests run in between.  One process and *)
(* its one clock; bodies and log lines are left out.                       *)
(***************************************************************************)
EXTENDS RateLimiter, FiniteSets

CONSTANTS
    Requests,       \* requests, each made once
    Traffic,        \* what a client may send: records of Message
    Tokens,         \* bearer tokens, keys of the limiter
    Addresses,      \* client addresses, the other keys
    AccessTokens,   \* those tokens of ours that are access tokens
    Expiry,         \* when each of those expires
    Buckets,        \* _DEFAULT_BUCKETS, in ticks
    MaxOpen,        \* bound: requests open at a time
    NULL

\* path is exempt from the limiter, open to anyone or for a current user only;
\* sent is the client's own X-Request-ID.
Message == [path : {"exempt", "open", "guarded"}, token : Tokens \cup {NULL},
            address : Addresses, sent : {"trace", NULL}]

ASSUME StackConstants ==
    /\ Traffic \subseteq Message
    /\ Tokens \cup Addresses \subseteq Keys
    /\ AccessTokens \subseteq Tokens
    /\ Expiry \in [AccessTokens -> Nat]
    /\ Buckets \subseteq Nat
    /\ MaxOpen \in Nat
    /\ NULL \notin Tokens \cup Requests

VARIABLES
    request,    \* what each request has sent
    stage,      \* how far it has come, and on the way back what it has as an answer
    context,    \* _request_id, as the task of each request sees it
    started,    \* when MetricsMiddleware saw it; 0 before and after
    answer,     \* what its client gets
    inFlight,   \* http_in_flight
    counted,    \* http_requests, by status
    errors,     \* http_errors
    durations   \* http_duration: its cumulative buckets and its count

metricVars == <<inFlight, counted, errors, durations>>
stackVars == <<request, stage, context, started, answer, metricVars>>
-----------------------------------------------------------------------------
Statuses == {200, 401, 404, 429, 500}

\* An answer without one of the error envelopes of errors.py.
NoEnvelope == "no envelope"

Nothing == [status |-> 0, envelope |-> NoEnvelope, secured |-> FALSE, id |-> NULL]

\* The tasks of a request, and so of its endpoint and its handlers, have copies
\* of the context RequestContextMiddleware has set.
get_request_id(r) == context[r]

error_body(r, status) ==
    [status |-> status, envelope |-> get_request_id(r), secured |-> FALSE, id |-> NULL]

Plain == [status |-> 200, envelope |-> NoEnvelope, secured |-> FALSE, id |-> NULL]

ClientKey(m) == IF m.token = NULL THEN m.address ELSE m.token

\* get_current_user.  Users are neither removed nor made inactive by the code.
CurrentUser(token) == token \in AccessTokens /\ now < Expiry[token]

StackInit ==
    /\ Init
    /\ request = [r \in Requests |-> NULL]
    /\ stage = [r \in Requests |-> "idle"]
    /\ context = [r \in Requests |-> NULL]
    /\ started = [r \in Requests |-> 0]
    /\ answer = [r \in Requests |-> Nothing]
    /\ inFlight = 0
    /\ counted = [s \in Statuses |-> 0]
    /\ errors = 0
    /\ durations = [buckets |-> [b \in Buckets |-> 0], count |-> 0]
-----------------------------------------------------------------------------
Goto(r, from, to) == stage[r] = from /\ stage' = [stage EXCEPT ![r] = to]

\* uuid4().hex is no other request's id: it is modelled by the request itself.
RequestId(r, m) == IF m.sent = NULL THEN r ELSE m.sent

\* Mutant: the id is kept in a variable of the module, not of the task.
ReceiveGlobally(r, m) ==
    /\ Cardinality({q \in Requests : stage[q] \notin {"idle", "answered"}}) < MaxOpen
    /\ Goto(r, "idle", "received")
    /\ request' = [request EXCEPT ![r] = m]
    /\ context' = [q \in Requests |-> RequestId(r, m)]
    /\ UNCHANGED <<vars, started, answer, metricVars>>

\* RequestContextMiddleware.dispatch, up to call_next.
Receive(r, m) ==
    /\ Cardinality({q \in Requests : stage[q] \notin {"idle", "answered"}}) < MaxOpen
    /\ Goto(r, "idle", "received")
    /\ request' = [request EXCEPT ![r] = m]
    /\ context' = [context EXCEPT ![r] = RequestId(r, m)]
    /\ UNCHANGED <<vars, started, answer, metricVars>>

\* MetricsMiddleware.dispatch, up to call_next.  SecurityHeadersMiddleware does
\* nothing on the way in.
Measure(r) ==
    /\ Goto(r, "received", "measured")
    /\ inFlight' = inFlight + 1
    /\ started' = [started EXCEPT ![r] = now]
    /\ UNCHANGED <<vars, request, context, answer, counted, errors, durations>>

\* Mutant: the paths of the probes are counted as well.
ExemptNone(m) == FALSE

\* _EXEMPT_PREFIXES.
Exempt(m) == m.path = "exempt"

\* RateLimitMiddleware.dispatch.
Pass(r) ==
    /\ Goto(r, "measured", "admitted")
    /\ \/ Exempt(request[r]) /\ UNCHANGED vars
       \/ ~Exempt(request[r]) /\ Admit(ClientKey(request[r]))
    /\ UNCHANGED <<request, context, started, answer, metricVars>>

Throttle(r) ==
    /\ Goto(r, "measured", "returning")
    /\ ~Exempt(request[r])
    /\ Refuse(ClientKey(request[r]))
    /\ answer' = [answer EXCEPT ![r] = error_body(r, 429)]
    /\ UNCHANGED <<request, context, started, metricVars>>

\* The dependencies of a guarded endpoint, before it runs: a missing, forged,
\* expired or wrong token is an HTTPException.
Authenticate(r) ==
    /\ stage[r] = "admitted"
    /\ IF request[r].path = "guarded" /\ ~CurrentUser(request[r].token)
       THEN /\ Goto(r, "admitted", "returning")
            /\ answer' = [answer EXCEPT ![r] = error_body(r, 401)]
       ELSE Goto(r, "admitted", "endpoint") /\ UNCHANGED answer
    /\ UNCHANGED <<vars, request, context, started, metricVars>>

\* The endpoint returns, or raises an HTTPException or a validation error.
Return(r) ==
    /\ Goto(r, "endpoint", "returning")
    /\ \E a \in {Plain, error_body(r, 404)} : answer' = [answer EXCEPT ![r] = a]
    /\ UNCHANGED <<vars, request, context, started, metricVars>>

\* It raises something no handler of ExceptionMiddleware is for.
Raise(r) ==
    /\ Goto(r, "endpoint", "raising")
    /\ UNCHANGED <<vars, request, context, started, answer, metricVars>>
-----------------------------------------------------------------------------
observe(t) ==
    durations' = [buckets |-> [b \in Buckets |-> durations.buckets[b] + IF t <= b THEN 1 ELSE 0],
                  count |-> durations.count + 1]

\* Mutant: no finally; an exception skips what follows call_next.
RecordReturned(r, status) ==
    IF status = 500 THEN UNCHANGED metricVars
    ELSE /\ inFlight' = inFlight - 1
         /\ observe(now - started[r])
         /\ counted' = [counted EXCEPT ![status] = @ + 1]
         /\ UNCHANGED errors

\* The finally of MetricsMiddleware.dispatch, which has no await.
Record(r, status) ==
    /\ inFlight' = inFlight - 1
    /\ observe(now - started[r])
    /\ counted' = [counted EXCEPT ![status] = @ + 1]
    /\ errors' = IF status >= 500 THEN errors + 1 ELSE errors

\* SecurityHeadersMiddleware and MetricsMiddleware, on the way out.
Leave(r) ==
    /\ Goto(r, "returning", "recorded")
    /\ Record(r, answer[r].status)
    /\ answer' = [answer EXCEPT ![r].secured = TRUE]
    /\ started' = [started EXCEPT ![r] = 0]
    /\ UNCHANGED <<vars, request, context>>

LeaveRaising(r) ==
    /\ Goto(r, "raising", "failed")
    /\ Record(r, 500)
    /\ started' = [started EXCEPT ![r] = 0]
    /\ UNCHANGED <<vars, request, context, answer>>

\* RequestContextMiddleware, on the way out; the body of a stream may follow, of
\* which no layer takes notice.
Respond(r) ==
    /\ Goto(r, "recorded", "answered")
    /\ answer' = [answer EXCEPT ![r].id = RequestId(r, request[r])]
    /\ context' = [context EXCEPT ![r] = NULL]
    /\ UNCHANGED <<vars, request, started, metricVars>>

\* It resets the id for an exception as well ...
ResetRaising(r) ==
    /\ Goto(r, "failed", "unhandled")
    /\ context' = [context EXCEPT ![r] = NULL]
    /\ UNCHANGED <<vars, request, started, answer, metricVars>>

\* ... before ServerErrorMiddleware calls _unhandled_exception_handler.
AnswerUnhandled(r) ==
    /\ Goto(r, "unhandled", "answered")
    /\ answer' = [answer EXCEPT ![r] = error_body(r, 500)]
    /\ UNCHANGED <<vars, request, context, started, metricVars>>

StackNext ==
    \/ Tick /\ UNCHANGED stackVars
    \/ \E r \in Requests :
         \/ \E m \in Traffic : Receive(r, m)
         \/ Measure(r)
         \/ Pass(r)
         \/ Throttle(r)
         \/ Authenticate(r)
         \/ Return(r)
         \/ Raise(r)
         \/ Leave(r)
         \/ LeaveRaising(r)
         \/ Respond(r)
         \/ ResetRaising(r)
         \/ AnswerUnhandled(r)

StackSpec == StackInit /\ [][StackNext]_<<vars, stackVars>>
-----------------------------------------------------------------------------
(* Properties *)

Answered == {r \in Requests : stage[r] = "answered"}

Within == {"measured", "admitted", "endpoint", "returning", "raising"}

\* "So ids reach metrics, security headers, throttled responses and error
\* envelopes alike": whatever runs at the same time, an answer carries its own
\* request's id in its header and, if it is an error, in its envelope, and the
\* security headers.  An answer to what no handler was for may lack them (see
\* UniformAnswers), but has never the id of another request.
AnswersCarryTheirId ==
    \A r \in Answered :
        LET id == RequestId(r, request[r])
        IN  IF answer[r].status = 500
            THEN {answer[r].id, answer[r].envelope} \subseteq {id, NULL}
            ELSE /\ answer[r].secured /\ answer[r].id = id
                 /\ answer[r].envelope = IF answer[r].status = 200 THEN NoEnvelope ELSE id

\* "Uniform error envelope with the correlation id on every failure", "security
\* response headers applied to every response": an answer to an exception that
\* nobody handled is no exception.
UniformAnswers ==
    \A r \in Answered :
        /\ answer[r].secured
        /\ answer[r].status >= 400 => answer[r].envelope = RequestId(r, request[r])

\* The collectors agree with each other at every scrape: a request that is being
\* answered is in flight, and one that is through is counted once by its status,
\* once as a duration and, if nobody handled it, once as an error.
MetricsAddUp ==
    LET through == {r \in Requests : stage[r] \notin Within \cup {"idle", "received"}}
    IN  /\ inFlight = Cardinality({r \in Requests : stage[r] \in Within})
        /\ durations.count = Cardinality(through)
        /\ \A s \in Statuses :
             counted[s] = Cardinality({r \in through :
                             IF stage[r] \in {"failed", "unhandled"} THEN s = 500
                                                                     ELSE s = answer[r].status})
        /\ errors = counted[500]
        /\ \A b, c \in Buckets : b <= c => durations.buckets[b] <= durations.buckets[c]
        /\ \A b \in Buckets : durations.buckets[b] <= durations.count

\* The requests with this key, probes apart, that the limiter has let in.
LetIn(k) == {r \in Requests : /\ stage[r] \notin {"idle", "received", "measured"}
                              /\ request[r].path # "exempt" /\ ClientKey(request[r]) = k
                              /\ answer[r].status # 429}

\* "So orchestrator probes are never throttled", nor do they throttle: however many
\* probes of one key are mixed with its other requests, none of them is answered
\* with a 429, and what is has had Limit others of its key let in before it.
ThrottledByOwnTraffic ==
    \A r \in Requests : answer[r].status = 429 =>
        /\ request[r].path # "exempt"
        /\ Cardinality(LetIn(ClientKey(request[r]))) >= Limit
=============================================================================
