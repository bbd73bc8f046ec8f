------------------------------ MODULE Pipeline ------------------------------
(***************************************************************************)
(* The life of a request in HypershuntService::dispatch                    *)
(* (src/src/listener/service.rs): what is answered before routing, the     *)
(* identity of the client, access policy, rate limits, the handler and the *)
(* cookies of the response.  Requests of several connections interleave at *)
(* the awaits, and between reading the clock and locking a bucket.  At an  *)
(* await hyper may drop the request because its client went away, and      *)
(* inside the handler timeout it may be answered 408.                      *)
(*                                                                         *)
(* The configuration has sessions (JWT with a credential back-end), OIDC   *)
(* with bearer tokens and refresh, and a handler timeout.                  *)
(***************************************************************************)
EXTENDS RateLimit, Access, FiniteSets, SequencesExt

CONSTANTS
    Slot,        \* requests that can be in flight at a time
    Input,       \* the requests that clients make
    Groups,      \* the groups of a user, as the back-ends know them
    Policy,      \* the policy of a location, NoPolicy if it has none
    NeedsPrincipal, \* the locations whose templates use the principal
    RateLimits,  \* the rate_limits of a location, in order
    KeyKind,     \* what the buckets of a rule are keyed by
    MaxArrivals  \* bound on the requests made

Location == DOMAIN Policy
NoPolicy == << >>

VARIABLES
    ready,    \* OidcManager::is_ready
    req,      \* the requests in flight
    active,   \* metrics.requests_active
    arrivals

vars == <<rateVars, ready, req, active, arrivals>>

\* A request in flight: where it is, what it asks, jwt_identity, the
\* principal that the policy judged and the one that the templates use,
\* the rule at work with the time it read, pending_set_cookies and then the
\* Set-Cookie headers of the response.
NoInput == [path |-> "none", user |-> ""]
Idle == [pc |-> "idle", in |-> NoInput, id |-> Anonymous, judged |-> Anonymous,
         principal |-> Anonymous, rule |-> 0, now |-> 0, cookies |-> << >>]

At(r, pc) == req[r].pc = pc
Go(r, f) == req' = [req EXCEPT ![r] = f]
Respond(r) == Go(r, [Idle EXCEPT !.pc = "finish", !.in = req[r].in])

-----------------------------------------------------------------------------
(***************************************************************************)
(* Arrival: everything up to the first await.                              *)
(***************************************************************************)
Builtin == {"acme", "health", "jwks"}
OidcPath == {"login", "callback", "backchannel", "logout"}
\* A back-channel logout that is no POST is refused before anything else.
NeedsIdp(q) == q.path \in OidcPath /\ (q.path = "backchannel" => q.method_ok)

\* normalize_host and the listener's body limit answer before inc_active.
RefusedAtEntry(q) == q.host = "bad" \/ q.size = "huge"

\* Which of dispatch's early exits takes a request.
Exit(q) ==
    IF RefusedAtEntry(q) THEN "uncounted"
    ELSE IF q.path \in Builtin THEN "answered"
    ELSE IF NeedsIdp(q) /\ ~ready THEN "notready"
    ELSE IF q.path \in {"login", "logout"} THEN "answered"
    ELSE IF q.path \in OidcPath THEN "oidc"
    ELSE IF q.host = "missing" THEN "hostless"
    ELSE "none"

IdentityOf(user) == [username |-> user, groups |-> Groups[user]]

\* The session token first, then the client certificate, which names no
\* groups, then a bearer token that the IdP's keys verify.
jwt_identity(q) ==
    IF q.token THEN IdentityOf(q.user)
    ELSE IF q.cert THEN [username |-> q.user, groups |-> {}]
    ELSE IF q.bearer /\ ready THEN IdentityOf(q.user)
    ELSE Anonymous

\* Mutant: a refusal at entry calls dec_active like every other answer.
Leftover_Dec(q) == IF Exit(q) = "uncounted" THEN -1 ELSE 0

\* What an exit without an await adds to the gauge: nothing, or 1 where the
\* code returns between inc_active and dec_active.
Leftover(q) == IF Exit(q) \in {"notready", "hostless"} THEN 1 ELSE 0

AnswerAtOnce(q) ==
    /\ Exit(q) \in {"uncounted", "answered", "notready", "hostless"}
    /\ active' = active + Leftover(q)
    /\ UNCHANGED req

Admit(r, q) ==
    /\ Exit(q) \in {"oidc", "none"}
    /\ active' = active + 1
    /\ LET id == jwt_identity(q) IN
       Go(r, [Idle EXCEPT !.in = q, !.id = IF Exit(q) = "none" THEN id ELSE @,
                          !.pc = IF Exit(q) = "oidc" THEN "oidc"
                                 ELSE IF id = Anonymous /\ ready /\ q.sid THEN "refresh"
                                 ELSE "authorize"])

Arrive(r, q) ==
    /\ At(r, "idle")
    /\ arrivals < MaxArrivals
    /\ arrivals' = arrivals + 1
    /\ AnswerAtOnce(q) \/ Admit(r, q)
    /\ UNCHANGED <<rateVars, ready>>

\* The IdP answered the refresh: a new session cookie (signing it may fail)
\* and, if the IdP rotated the session, a new refresh cookie; or it refused,
\* and the refresh cookie is cleared.
Refresh(r) ==
    /\ At(r, "refresh")
    /\ \/ \E cookies \in {<<"session">>, <<"session", "sid">>, << >>, <<"sid">>} :
            Go(r, [req[r] EXCEPT !.pc = "authorize", !.cookies = cookies,
                                 !.id = IdentityOf(req[r].in.user)])
       \/ Go(r, [req[r] EXCEPT !.pc = "authorize", !.cookies = <<"clear">>])
    /\ UNCHANGED <<rateVars, ready, active, arrivals>>

-----------------------------------------------------------------------------
(***************************************************************************)
(* serve_fut, which the handler timeout covers.                            *)
(***************************************************************************)
\* What the credential back-end may answer: it may fail, or change its mind.
BackEnd(q) == {Anonymous} \cup IF q.basic THEN {IdentityOf(q.user)} ELSE {}

\* RequestAuthProvider::authenticate
Answers(r) == IF req[r].id # Anonymous THEN {req[r].id} ELSE BackEnd(req[r].in)

Limits(r) == RateLimits[req[r].in.path]

\* The templates' principal is known: the location's body limit, then the
\* first rate limit.
Admitted(r, judged, p) ==
    IF req[r].in.size = "large" THEN Respond(r)
    ELSE Go(r, [req[r] EXCEPT !.judged = judged, !.principal = p, !.rule = 1,
                !.pc = IF Limits(r) = << >> THEN "handler" ELSE "limit"])

\* Mutant: the templates ask the back-end even about a client with a session.
Allowed_AsksAnyway(r, p) ==
    IF req[r].in.path \notin NeedsPrincipal \/ p # Anonymous THEN Admitted(r, p, p)
    ELSE Go(r, [req[r] EXCEPT !.pc = "resolve", !.judged = p])

\* The policy allowed the request.  Templates that use the principal ask for
\* it if the policy did not learn one.
Allowed(r, p) ==
    IF req[r].in.path \notin NeedsPrincipal \/ p # Anonymous THEN Admitted(r, p, p)
    ELSE IF req[r].id # Anonymous THEN Admitted(r, p, req[r].id)
    ELSE Go(r, [req[r] EXCEPT !.pc = "resolve", !.judged = p])

\* A challenge, which is any denial with code 401, is a redirect to the login
\* page for a browser when OIDC is ready, else a 401; the pages of 401 and of
\* a denial are read from disk.
Judge(r, p) ==
    LET q == req[r].in
        outcome == evaluate(Policy[q.path], q, p)
    IN  IF outcome = "allow"
        THEN Allowed(r, IF AsksPolicy(Policy[q.path], q, p) THEN p ELSE Anonymous)
        ELSE IF outcome = "redirect" \/ (outcome = "challenge" /\ q.html /\ ready)
        THEN Respond(r)
        ELSE Go(r, [Idle EXCEPT !.pc = "refuse", !.in = q])

Authorize(r) ==
    /\ At(r, "authorize")
    /\ IF req[r].in.path \notin Location THEN Respond(r)
       ELSE IF Policy[req[r].in.path] = NoPolicy THEN Allowed(r, Anonymous)
       ELSE \E p \in Answers(r) : Judge(r, p)
    /\ UNCHANGED <<rateVars, ready, active, arrivals>>

RefusePage(r) ==
    /\ At(r, "refuse")
    /\ Respond(r)
    /\ UNCHANGED <<rateVars, ready, active, arrivals>>

Resolve(r) ==
    /\ At(r, "resolve")
    /\ \E p \in BackEnd(req[r].in) : Admitted(r, req[r].judged, p)
    /\ UNCHANGED <<rateVars, ready, active, arrivals>>

\* RateLimitRule::key_string
key_string(r, rule) ==
    CASE KeyKind[rule] = "client-ip" -> req[r].in.peer
      [] KeyKind[rule] = "user" -> req[r].principal.username
      [] KeyKind[rule] = "header" -> req[r].in.api_key

BucketOf(r) == LET rule == Limits(r)[req[r].rule] IN <<rule, key_string(r, rule)>>

\* RateLimitRule::check: the clock is read, then the map is locked.
ReadClock(r) ==
    /\ At(r, "limit")
    /\ Go(r, [req[r] EXCEPT !.pc = "lock", !.now = clock])
    /\ UNCHANGED <<rateVars, ready, active, arrivals>>

CheckRule(r) ==
    /\ At(r, "lock")
    /\ check_at(BucketOf(r), req[r].now)
    /\ IF ~Allow(BucketOf(r), req[r].now) THEN Respond(r)
       ELSE IF req[r].rule = Len(Limits(r))
       THEN Go(r, [req[r] EXCEPT !.pc = "handler", !.now = 0])
       ELSE Go(r, [req[r] EXCEPT !.pc = "limit", !.now = 0, !.rule = @ + 1])
    /\ UNCHANGED <<ready, active, arrivals>>

\* Mutant: a principal is given a session whatever it came from.
FreshSession_Always(r) == req[r].principal # Anonymous

\* !used_jwt and a principal: it came from credentials.
FreshSession(r) == req[r].id = Anonymous /\ req[r].principal # Anonymous

\* The handler, or the cache, answered.
Handle(r) ==
    /\ At(r, "handler")
    /\ \E fresh \in {<<"session">>, << >>} :
          /\ fresh # << >> => FreshSession(r)
          /\ Go(r, [Idle EXCEPT !.pc = "finish", !.in = req[r].in,
                                !.cookies = req[r].cookies \o fresh])
    /\ UNCHANGED <<rateVars, ready, active, arrivals>>

\* The awaits of serve_fut.
Timed(r) ==
    \/ At(r, "handler") \/ At(r, "resolve") \/ At(r, "refuse")
    \/ /\ At(r, "authorize")
       /\ req[r].in.path \in Location /\ req[r].id = Anonymous
       /\ AsksPolicy(Policy[req[r].in.path], req[r].in, Anonymous)

\* Mutant: the answer of the timeout counts the request down, as dispatch
\* does again when it ends.
Timeout_Dec(r) ==
    /\ Timed(r)
    /\ Respond(r)
    /\ active' = active - 1
    /\ UNCHANGED <<rateVars, ready, arrivals>>

Timeout(r) ==
    /\ Timed(r)
    /\ Respond(r)
    /\ UNCHANGED <<rateVars, ready, active, arrivals>>

-----------------------------------------------------------------------------
Leave(r) == active' = active - 1

\* An OIDC endpoint answered, or the body is compressed: dec_active.
Finish(r) ==
    /\ At(r, "finish") \/ At(r, "oidc")
    /\ Go(r, Idle)
    /\ Leave(r)
    /\ UNCHANGED <<rateVars, ready, arrivals>>

\* hyper drops the future at an await: nothing after it runs.
Drop(r) ==
    /\ Timed(r) \/ At(r, "oidc") \/ At(r, "refresh") \/ At(r, "finish")
    /\ Go(r, Idle)
    /\ UNCHANGED <<rateVars, ready, active, arrivals>>

\* The discovery task reached the IdP.
Discovered ==
    /\ ~ready
    /\ ready' = TRUE
    /\ UNCHANGED <<rateVars, req, active, arrivals>>

pipelineVars == <<ready, req, active, arrivals>>

\* The windows of RateLimit's observer all start at time 0 here.
Background ==
    \/ Discovered
    \/ Tick /\ UNCHANGED pipelineVars
    \/ \E now \in 0 .. clock : evict_idle_at(now) /\ UNCHANGED pipelineVars

Init ==
    /\ RateInit
    /\ ready = FALSE
    /\ req = [r \in Slot |-> Idle]
    /\ active = 0
    /\ arrivals = 0

Next ==
    \/ \E r \in Slot :
          \/ \E q \in Input : Arrive(r, q)
          \/ Refresh(r) \/ Authorize(r) \/ RefusePage(r) \/ Resolve(r)
          \/ ReadClock(r) \/ CheckRule(r) \/ Handle(r) \/ Timeout(r)
          \/ Finish(r) \/ Drop(r)
    \/ Background

Spec == Init /\ [][Next]_vars

-----------------------------------------------------------------------------
(***************************************************************************)
(* Properties.                                                             *)
(***************************************************************************)
InFlight == {r \in Slot : ~At(r, "idle")}

\* The state has its shape; in particular the gauge, a signed counter that
\* nothing in the code bounds, is never negative and never above the number
\* of requests made.
TypeOK ==
    /\ RateTypeOK
    /\ ready \in BOOLEAN
    /\ \A r \in Slot :
          /\ req[r].pc \in {"idle", "oidc", "refresh", "authorize", "refuse",
                            "resolve", "limit", "lock", "handler", "finish"}
          /\ req[r].in \in Input \cup {NoInput}
          /\ req[r].pc \in {"limit", "lock"} => req[r].rule \in DOMAIN Limits(r)
          /\ req[r].now \in 0 .. clock
    /\ active \in 0 .. arrivals
    /\ arrivals \in 0 .. MaxArrivals

\* requests_active never falls below the requests in flight: of the many
\* returns of dispatch, and the answers made inside it, none takes down the
\* count of another request.  It is not more than a bound.  A request that is
\* dropped at an await, turned away because OIDC is not ready, or refused for
\* want of a Host leaves its count behind (Drop, Leftover), so the gauge only
\* drifts upwards, against src/src/metrics.rs:920-921 ("counts in-flight
\* requests") and src/src/handler/metrics.rs:253.
GaugeCoversInFlight == active >= Cardinality(InFlight)

\* Whoever reaches the handler of a location with a policy is permitted by
\* it, with predicates read as plain true or false: the lazy, three-valued
\* evaluation admits no one that the rules in order would not.  A client
\* judged as the anonymous may still get a principal afterwards, for the
\* templates and the limits, whom the rules would have refused: the back-end
\* is asked again (src/src/listener/service.rs:1062) and may answer otherwise.
AllowedByPolicy ==
    \A r \in Slot :
        LET q == req[r].in IN
        At(r, "handler") /\ Policy[q.path] # NoPolicy =>
            /\ Permits(Policy[q.path], q, req[r].judged)
            /\ req[r].judged \in {Anonymous, req[r].principal}

\* A response never sets two session cookies, whether the session was just
\* refreshed or the client presented credentials (the comment at
\* src/src/listener/service.rs:1237-1239).
SingleSessionCookie ==
    \A r \in Slot :
        Cardinality({i \in DOMAIN req[r].cookies : req[r].cookies[i] = "session"}) <= 1

\* The identity of a session token, a certificate, a bearer token or a
\* refresh stands (the comments at src/src/listener/service.rs:900-906 and
\* 1041-1046): where templates use the principal it is the one they get, whether
\* or not the policy came to ask for it, and it is one that the policy permits
\* even if the policy decided without asking.
EstablishedIdentityStands ==
    \A r \in Slot :
        LET q == req[r].in IN
        At(r, "handler") /\ q.path \in NeedsPrincipal /\ req[r].id # Anonymous =>
            /\ req[r].principal = req[r].id
            /\ Policy[q.path] # NoPolicy => Permits(Policy[q.path], q, req[r].id)

\* A rule keyed by the user has a bucket for each of them: a client whom the
\* server has authenticated is not in the one of the anonymous
\* (docs/guide.md:2007-2008).
UserBuckets ==
    \A r \in Slot :
        At(r, "lock") /\ KeyKind[Limits(r)[req[r].rule]] = "user"
            /\ req[r].id # Anonymous
        => BucketOf(r)[2] = req[r].id.username
=============================================================================
