---------------------------- MODULE LoadBalancer ----------------------------
(***************************************************************************)
(* The upstream pool of a reverse proxy location (src/src/lb.rs) and the   *)
(* requests that go through it (ProxyHandler::handle in                    *)
(* src/src/handler/proxy.rs): picking, the in-flight guard, passive        *)
(* ejection, the retry loop and the active health prober.                  *)
(*                                                                         *)
(* One atomic memory operation is one step, because the requests run on    *)
(* several threads: the cursor's fetch_add, each upstream that a pick      *)
(* looks at, each gauge it loads, the guard's increment, the error         *)
(* counter's fetch_add and the store of the ejection deadline.  A clock is *)
(* read together with the memory operation that follows it.                *)
(* The two loads of one is_available(now_ms) are one step.  For a pass     *)
(* whose now_ms is fixed an ejection never lifts, so the call answers what *)
(* holds at its first load, or, if it finds an ejection, at its second.    *)
(*                                                                         *)
(* Times are ticks and a deadline is kept as the time left to it (the      *)
(* code's ejected_remaining_ms), so that behaviours need not be bounded.   *)
(***************************************************************************)
EXTENDS Integers, FiniteSetsExt, Functions

CONSTANTS
    N,               \* number of upstreams; upstream i is upstreams[i]
    Weight,          \* configured weight of each upstream, 0 parks it
    Group,           \* configured group of each upstream, or NoGroup
    NoGroup,         \* no group label / no group-by value
    Policies,        \* load-balancing policies to consider
    Request,         \* concurrent requests
    Key,             \* what a hash policy hashes (client address, header)
    NoKey,           \* the request has no such address or header
    HashOf,          \* the hash of each key
    CounterSpan,     \* the round-robin counter counts modulo this (2^64)
    Shapes,          \* the requests: [key, group, max], max attempts >= 1
    Answers,         \* the answers upstreams give
    EjectAfter,      \* passive.eject_after
    NeverEject,      \* the eject_after that turns ejection off (u32::MAX)
    EjectFor,        \* passive.eject_for_secs, in ticks
    ActiveHealth,    \* is an active-health block configured?
    UnhealthyAfter,  \* active-health unhealthy_after
    HealthyAfter,    \* active-health healthy_after
    NoUpstream       \* pick() returned None

Upstream == 0 .. N - 1

(***************************************************************************)
(* The answers a request can get from an upstream: success, a 5xx that is  *)
(* on the retry allowlist, a 5xx that is not, and an allowlisted status    *)
(* outside 5xx (429, say).  "502" is the answer made when no upstream was  *)
(* found.                                                                  *)
(***************************************************************************)
Status == {"ok", "retry5xx", "other5xx", "retry4xx"}

IsServerError(s) == s \in {"retry5xx", "other5xx"}

ShouldRetry(s) == s \in {"retry5xx", "retry4xx"}

Groups == {Group[u] : u \in Upstream} \cup {NoGroup}

ASSUME LBAssumption ==
    /\ N \in Nat
    /\ Weight \in [Upstream -> Nat]
    /\ CounterSpan \in Nat \ {0}
    /\ HashOf \in [Key -> 0 .. CounterSpan - 1]
    /\ Shapes \subseteq [key : Key \cup {NoKey}, group : Groups, max : Nat \ {0}]
    /\ Answers \subseteq Status
    /\ EjectAfter \in Nat \ {0}
    /\ EjectFor \in Nat
    /\ ActiveHealth \in BOOLEAN
    /\ UnhealthyAfter \in Nat \ {0}
    /\ HealthyAfter \in Nat \ {0}
    /\ NoUpstream \notin Upstream
    /\ NoKey \notin Key
    /\ IsFiniteSet(Request)

VARIABLES
    policy,              \* the pool's policy, fixed when it is built
    rr_counter,          \* the round-robin cursor
    in_flight,           \* requests holding a guard, per upstream
    consecutive_errors,  \* failures since the last success, per upstream
    ejected_left,        \* ticks until a passive ejection lifts
    healthy,             \* last verdict of the active prober
    probe,               \* the prober's run lengths, per upstream
    probeAt,             \* the upstream the prober's loop has reached
    req                  \* the requests

poolVars == <<rr_counter, in_flight, consecutive_errors, ejected_left>>
probeVars == <<healthy, probe, probeAt>>
vars == <<policy, rr_counter, in_flight, consecutive_errors, ejected_left,
          healthy, probe, probeAt, req>>

(***************************************************************************)
(* The locals of a selection pass: the group it is restricted to, where it *)
(* starts (the salt of least-conn), how far it is, its best candidate with *)
(* its cost, and the upstreams whose ejection has lifted since the pass    *)
(* read the clock, which its now_ms still shows as ejected.                *)
(***************************************************************************)
NoScan == [pass |-> NoGroup, start |-> 0, offset |-> 0, best |-> NoUpstream,
           cost |-> 0, late |-> {}]

(***************************************************************************)
(* A request: where it is in handle(), the upstream it tries, the attempt  *)
(* number, its hash key and group, how often it may try, the status of the *)
(* current attempt, the last retryable response kept in last_resp and the  *)
(* pass of a pick under way.                                               *)
(***************************************************************************)
Idle == [pc |-> "idle", up |-> NoUpstream, attempt |-> 0, key |-> NoKey,
         group |-> NoGroup, max |-> 1, status |-> "none", last |-> "none",
         scan |-> NoScan]

Goto(r, p) == req' = [req EXCEPT ![r] = [@ EXCEPT !.pc = p]]

Holding == {"sent", "replied", "eject", "recorded"}

-----------------------------------------------------------------------------
(***************************************************************************)
(* Picking.                                                                *)
(***************************************************************************)
IsAvailable(u) == Weight[u] > 0 /\ healthy[u] /\ ejected_left[u] = 0

InPass(u, g) == g = NoGroup \/ Group[u] = g

RingLen == SumFunction(Weight)

\* weighted_ring: upstream i repeated Weight[i] times, in order.
weighted_ring ==
    [p \in 0 .. RingLen - 1 |->
        CHOOSE u \in Upstream :
            LET before == SumFunctionOnSet(Weight, 0 .. u - 1)
            IN  before <= p /\ p < before + Weight[u]]

Inc(c) == (c + 1) % CounterSpan

\* Mutant: the position is reduced by the number of upstreams, not of slots.
RingAt_ByUpstreams(start, offset) ==
    weighted_ring[((start + offset) % CounterSpan) % N]

RingAt(start, offset) ==
    weighted_ring[((start + offset) % CounterSpan) % RingLen]

Cost(u) == (in_flight[u] * 1000) \div Weight[u]

\* A policy that hashes falls back to the counter when there is no key.
UsesCounter(key) == policy \in {"round-robin", "random", "least-conn"} \/ key = NoKey

Counter == 0 .. CounterSpan - 1

\* Where a pass may start: the cursor it took, the key's hash, anywhere.
Starts(key) ==
    IF policy = "random" THEN Counter
    ELSE IF UsesCounter(key) THEN {rr_counter} ELSE {HashOf[key]}

Declared(g) == g # NoGroup /\ \E u \in Upstream : Group[u] = g

\* Mutant: the scan misses the last slot of the turn.
ScanLen_Short == IF policy = "least-conn" THEN N ELSE RingLen - 1

\* least-conn looks at every upstream once, the others at every slot.
ScanLen == IF policy = "least-conn" THEN N ELSE RingLen

\* The upstream a pass looks at.
Looked(p) == IF policy = "least-conn" THEN p.offset ELSE RingAt(p.start, p.offset)

-----------------------------------------------------------------------------
Init ==
    /\ policy \in Policies
    /\ rr_counter = 0
    /\ in_flight = [u \in Upstream |-> 0]
    /\ consecutive_errors = [u \in Upstream |-> 0]
    /\ ejected_left = [u \in Upstream |-> 0]
    /\ healthy = [u \in Upstream |-> TRUE]
    /\ probe = [u \in Upstream |-> [failures |-> 0, successes |-> 0]]
    /\ probeAt = 0
    /\ req = [r \in Request |-> Idle]

(***************************************************************************)
(* handle() is entered by a request of some shape: the key a hash policy   *)
(* would find on it, its group, and its attempts (one for an upgrade, or   *)
(* when retries are off, else retry.max + 1).                              *)
(***************************************************************************)
Enter(r) ==
    /\ req[r].pc = "idle"
    /\ \E s \in Shapes :
         req' = [req EXCEPT ![r] =
                   [Idle EXCEPT !.pc = IF s.max = 1 THEN "pick" ELSE "collect",
                                !.key = s.key, !.group = s.group, !.max = s.max]]
    /\ UNCHANGED <<policy, poolVars, probeVars>>

\* A request that may be retried first reads its body to the end.
CollectBody(r) ==
    /\ req[r].pc = "collect"
    /\ \/ Goto(r, "pick")
       \/ req' = [req EXCEPT ![r] = [@ EXCEPT !.pc = "done", !.status = "502"]]
    /\ UNCHANGED <<policy, poolVars, probeVars>>

\* What the client is answered when an attempt finds no upstream: the last
\* retryable response, or a 502.
Exhausted(r) == IF req[r].last = "none" THEN "502" ELSE req[r].last

\* pick() returns u to handle().
Picked(r, u) ==
    req' = [req EXCEPT ![r] =
              IF u = NoUpstream
              THEN [@ EXCEPT !.pc = "done", !.up = u, !.status = Exhausted(r),
                             !.scan = NoScan]
              ELSE [@ EXCEPT !.pc = "picked", !.up = u, !.scan = NoScan]]

\* pick_where begins a pass over group g: the clock, then the cursor.
BeginPass(r, g) ==
    /\ rr_counter' = IF UsesCounter(req[r].key) THEN Inc(rr_counter) ELSE rr_counter
    /\ \E start \in Starts(req[r].key) :
         req' = [req EXCEPT ![r] =
                   [@ EXCEPT !.pc = "visit",
                             !.scan = [NoScan EXCEPT !.pass = g, !.start = start]]]

\* pick: a declared group's own members first, otherwise the whole pool.  A
\* pool without upstreams, or without a slot, returns before it counts.
Pick(r) ==
    /\ req[r].pc = "pick"
    /\ IF N = 0 \/ (RingLen = 0 /\ policy # "least-conn")
       THEN Picked(r, NoUpstream) /\ UNCHANGED rr_counter
       ELSE BeginPass(r, IF Declared(req[r].group) THEN req[r].group ELSE NoGroup)
    /\ UNCHANGED <<policy, in_flight, consecutive_errors, ejected_left, probeVars>>

\* After an upstream or slot: the next one; else the pass returns its best, or
\* pick() turns from the group to the whole pool.
GoOn(r, p) ==
    IF p.offset + 1 < ScanLen
    THEN req' = [req EXCEPT ![r] =
                   [@ EXCEPT !.pc = "visit", !.scan = [p EXCEPT !.offset = @ + 1]]]
    ELSE IF p.best = NoUpstream /\ p.pass # NoGroup
    THEN req' = [req EXCEPT ![r] = [@ EXCEPT !.pc = "whole", !.scan = NoScan]]
    ELSE Picked(r, p.best)

\* The second call of pick_where, with a clock of its own.
PickWhole(r) ==
    /\ req[r].pc = "whole"
    /\ BeginPass(r, NoGroup)
    /\ UNCHANGED <<policy, in_flight, consecutive_errors, ejected_left, probeVars>>

\* is_available with the time of the pass's start.
AvailableTo(u, p) == IsAvailable(u) /\ u \notin p.late

\* eligible: the ring scan takes the first upstream that passes, least-conn
\* goes on to read its gauge.
Look(r) ==
    /\ req[r].pc = "visit"
    /\ \E u \in Upstream :
         /\ u = Looked(req[r].scan)
         /\ IF AvailableTo(u, req[r].scan) /\ InPass(u, req[r].scan.pass)
            THEN IF policy = "least-conn" THEN Goto(r, "load") ELSE Picked(r, u)
            ELSE GoOn(r, req[r].scan)
    /\ UNCHANGED <<policy, poolVars, probeVars>>

\* Does the loop of pick_least_conn prefer u to its candidate so far?
Takes(p, u) ==
    \/ p.best = NoUpstream
    \/ Cost(u) < p.cost
    \/ Cost(u) = p.cost /\ (u + p.start) % 2 = 0

\* pick_least_conn reads the gauge of an eligible upstream.
LoadInFlight(r) ==
    /\ req[r].pc = "load"
    /\ \E u \in Upstream :
         /\ u = Looked(req[r].scan)
         /\ GoOn(r, IF Takes(req[r].scan, u)
                    THEN [req[r].scan EXCEPT !.best = u, !.cost = Cost(u)]
                    ELSE req[r].scan)
    /\ UNCHANGED <<policy, poolVars, probeVars>>

\* Mutant: the guard is handed out without counting.
InFlightGuard_NoCount(r) ==
    /\ req[r].pc = "picked"
    /\ Goto(r, "sent")
    /\ UNCHANGED <<policy, poolVars, probeVars>>

InFlightGuard(r) ==
    /\ req[r].pc = "picked"
    /\ in_flight' = [in_flight EXCEPT ![req[r].up] = @ + 1]
    /\ Goto(r, "sent")
    /\ UNCHANGED <<policy, rr_counter, consecutive_errors, ejected_left, probeVars>>

\* The upstream answers, or the attempt fails (serve() turns that into 502).
Serve(r) ==
    /\ req[r].pc = "sent"
    /\ \E s \in Answers :
         req' = [req EXCEPT ![r] = [@ EXCEPT !.pc = "replied", !.status = s]]
    /\ UNCHANGED <<policy, poolVars, probeVars>>

\* The guard is dropped where the attempt's scope ends.
DropGuard(r) == in_flight' = [in_flight EXCEPT ![req[r].up] = @ - 1]

\* Mutant: a dropped future keeps its guard's count.
Cancel_LeaksGuard(r) ==
    /\ req[r].pc \in {"collect", "sent"}
    /\ req' = [req EXCEPT ![r] = Idle]
    /\ UNCHANGED <<policy, poolVars, probeVars>>

(***************************************************************************)
(* The client goes away, or the handler timeout fires, while handle()      *)
(* awaits the body or the upstream: the future is dropped, its guard, if   *)
(* it has one, with it, and no outcome is recorded.                        *)
(***************************************************************************)
Cancel(r) ==
    /\ \/ req[r].pc = "collect" /\ UNCHANGED in_flight
       \/ req[r].pc = "sent" /\ DropGuard(r)
    /\ req' = [req EXCEPT ![r] = Idle]
    /\ UNCHANGED <<policy, rr_counter, consecutive_errors, ejected_left, probeVars>>

\* Mutant: a success does not clear the error counter.
RecordSuccess_KeepsErrors(r) ==
    /\ req[r].pc = "replied"
    /\ ~IsServerError(req[r].status)
    /\ Goto(r, "recorded")
    /\ UNCHANGED <<policy, poolVars, probeVars>>

RecordSuccess(r) ==
    /\ req[r].pc = "replied"
    /\ ~IsServerError(req[r].status)
    /\ consecutive_errors' = [consecutive_errors EXCEPT ![req[r].up] = 0]
    /\ Goto(r, "recorded")
    /\ UNCHANGED <<policy, rr_counter, in_flight, ejected_left, probeVars>>

\* The first half of record_failure; the counter sticks at the threshold in
\* the model, which no test of it can tell from counting on.
CountFailure(r) ==
    /\ req[r].pc = "replied"
    /\ IsServerError(req[r].status)
    /\ LET n == consecutive_errors[req[r].up] + 1
       IN  /\ consecutive_errors' =
                [consecutive_errors EXCEPT
                    ![req[r].up] = IF n > EjectAfter THEN EjectAfter ELSE n]
           /\ Goto(r, IF EjectAfter # NeverEject /\ n >= EjectAfter
                      THEN "eject" ELSE "recorded")
    /\ UNCHANGED <<policy, rr_counter, in_flight, ejected_left, probeVars>>

\* The second half: the ejection deadline is stored.
Eject(r) ==
    /\ req[r].pc = "eject"
    /\ ejected_left' = [ejected_left EXCEPT ![req[r].up] = EjectFor]
    /\ Goto(r, "recorded")
    /\ UNCHANGED <<policy, rr_counter, in_flight, consecutive_errors, probeVars>>

\* Mutant: one attempt too few.
MayRetry_OneTooFew(r) == ShouldRetry(req[r].status) /\ req[r].attempt + 2 < req[r].max

MayRetry(r) == ShouldRetry(req[r].status) /\ req[r].attempt + 1 < req[r].max

\* Mutant: the attempt is not counted.
NextAttempt_Uncounted(r) ==
    [req[r] EXCEPT !.pc = "pick", !.up = NoUpstream,
                   !.last = req[r].status, !.status = "none"]

NextAttempt(r) ==
    [req[r] EXCEPT !.pc = "pick", !.up = NoUpstream, !.attempt = @ + 1,
                   !.last = req[r].status, !.status = "none"]

\* Retry with another pick, or answer; either way the guard is dropped.
Decide(r) ==
    /\ req[r].pc = "recorded"
    /\ DropGuard(r)
    /\ req' = [req EXCEPT ![r] = IF MayRetry(r) THEN NextAttempt(r)
                                 ELSE [@ EXCEPT !.pc = "done"]]
    /\ UNCHANGED <<policy, rr_counter, consecutive_errors, ejected_left, probeVars>>

\* The answer is on its way and the slot serves the next request.
Finish(r) ==
    /\ req[r].pc = "done"
    /\ req' = [req EXCEPT ![r] = Idle]
    /\ UNCHANGED <<policy, poolVars, probeVars>>

-----------------------------------------------------------------------------
(***************************************************************************)
(* The prober's loop: one probe after the other, in index order.  Run      *)
(* lengths stick at their threshold, as no comparison goes beyond it.      *)
(***************************************************************************)
CapAt(n, top) == IF n > top THEN top ELSE n

\* Mutants: recovery asks for one success more than it counts, and a
\* failed probe starts its run anew.
ProbeSucceeds_OffByOne(u) ==
    LET run == CapAt(probe[u].successes + 1, HealthyAfter)
    IN  /\ probe' = [probe EXCEPT ![u] = [failures |-> 0, successes |-> run]]
        /\ healthy' = [healthy EXCEPT ![u] = @ \/ run > HealthyAfter]

ProbeFails_NoRun(u) ==
    /\ probe' = [probe EXCEPT ![u] = [failures |-> 1, successes |-> 0]]
    /\ healthy' = [healthy EXCEPT ![u] = @ /\ 1 < UnhealthyAfter]

ProbeSucceeds(u) ==
    LET run == CapAt(probe[u].successes + 1, HealthyAfter)
    IN  /\ probe' = [probe EXCEPT ![u] = [failures |-> 0, successes |-> run]]
        /\ healthy' = [healthy EXCEPT ![u] = @ \/ run >= HealthyAfter]

ProbeFails(u) ==
    LET run == CapAt(probe[u].failures + 1, UnhealthyAfter)
    IN  /\ probe' = [probe EXCEPT ![u] = [failures |-> run, successes |-> 0]]
        /\ healthy' = [healthy EXCEPT ![u] = @ /\ run < UnhealthyAfter]

Probe ==
    /\ ActiveHealth /\ N > 0
    /\ ProbeSucceeds(probeAt) \/ ProbeFails(probeAt)
    /\ probeAt' = (probeAt + 1) % N
    /\ UNCHANGED <<policy, poolVars, req>>

-----------------------------------------------------------------------------
Scanning == {"visit", "load"}

\* A pass does not see that the ejection of some upstreams lifts.
Outdated(p, lifting) == [p EXCEPT !.late = @ \cup lifting]

\* The clock.  A pass keeps the time it began with.
Tick ==
    /\ \E u \in Upstream : ejected_left[u] > 0
    /\ ejected_left' = [u \in Upstream |->
                          IF ejected_left[u] > 0 THEN ejected_left[u] - 1 ELSE 0]
    /\ LET lifting == {u \in Upstream : ejected_left[u] = 1}
       IN  req' = [r \in Request |->
                     IF req[r].pc \in Scanning
                     THEN [req[r] EXCEPT !.scan = Outdated(@, lifting)]
                     ELSE req[r]]
    /\ UNCHANGED <<policy, rr_counter, in_flight, consecutive_errors, probeVars>>

Progress(r) ==
    \/ CollectBody(r) \/ Pick(r) \/ Look(r) \/ LoadInFlight(r) \/ PickWhole(r)
    \/ InFlightGuard(r) \/ Serve(r) \/ RecordSuccess(r) \/ CountFailure(r)
    \/ Eject(r) \/ Decide(r) \/ Finish(r)

Next ==
    \/ \E r \in Request : Enter(r) \/ Progress(r) \/ Cancel(r)
    \/ Probe
    \/ Tick

Spec == Init /\ [][Next]_vars

(***************************************************************************)
(* Fairness: the runtime polls every runnable task, the prober's interval  *)
(* keeps ticking and time passes.  Of an attempt it assumes that its       *)
(* upstream answers or its connection fails some day: the code bounds the  *)
(* connect alone, not the wait for an answer.  Nothing makes a client come *)
(* or go away.                                                             *)
(***************************************************************************)
Fairness ==
    /\ \A r \in Request : WF_vars(Progress(r))
    /\ WF_vars(Probe)
    /\ WF_vars(Tick)

FairSpec == Spec /\ Fairness

-----------------------------------------------------------------------------
PC == {"idle", "collect", "pick", "whole", "picked", "done"} \cup Scanning \cup Holding

Scan == [pass : Groups, start : Counter, offset : Nat,
         best : Upstream \cup {NoUpstream}, cost : Nat, late : SUBSET Upstream]

RequestRecord ==
    [pc : PC, up : Upstream \cup {NoUpstream}, attempt : Nat,
     key : Key \cup {NoKey}, group : Groups, max : Nat \ {0},
     status : Status \cup {"none", "502"}, last : Status \cup {"none"},
     scan : Scan]

TypeOK ==
    /\ policy \in Policies
    /\ rr_counter \in Counter
    /\ in_flight \in [Upstream -> Nat]
    /\ consecutive_errors \in [Upstream -> 0 .. EjectAfter]
    /\ ejected_left \in [Upstream -> 0 .. EjectFor]
    /\ healthy \in [Upstream -> BOOLEAN]
    /\ probe \in [Upstream -> [failures : 0 .. UnhealthyAfter,
                               successes : 0 .. HealthyAfter]]
    /\ probeAt \in Upstream \cup {0}
    /\ req \in [Request -> RequestRecord]
    /\ \A r \in Request :
         req[r].pc \in Holding \cup {"picked"} => req[r].up \in Upstream

(***************************************************************************)
(* The in-flight gauge that least-conn balances on is exactly the number   *)
(* of requests holding a guard on the upstream, whatever way their         *)
(* attempts end: answered, retried elsewhere, or dropped by the client     *)
(* (InFlightGuard and its Drop in lb.rs).  In particular the unsigned      *)
(* counter never wraps below zero.                                         *)
(***************************************************************************)
Holders(u) == {r \in Request : req[r].pc \in Holding /\ req[r].up = u}

InFlightMatchesGuards == \A u \in Upstream : in_flight[u] = Cardinality(Holders(u))

(***************************************************************************)
(* The retry loop spends its whole budget: a client is handed an answer    *)
(* that is on the retry list only from the last attempt it was allowed, or *)
(* because its last pick found none; and handle() never attempts more often    *)
(* than retry.max + 1 times.                                               *)
(***************************************************************************)
RetryBudgetSpent ==
    [][\A r \in Request :
         /\ req'[r].attempt < req'[r].max
         /\ (req[r].pc # "done" /\ req'[r].pc = "done" /\ ShouldRetry(req'[r].status)) =>
               req[r].attempt + 1 = req[r].max \/ req'[r].up = NoUpstream]_vars

(***************************************************************************)
(* Every request that handle() accepts is answered or dropped: retries end.*)
(***************************************************************************)
RequestsEnd == \A r \in Request : req[r].pc = "pick" ~> req[r].pc \in {"idle", "done"}

(***************************************************************************)
(* An upstream that from some time on answers every request and every      *)
(* probe is back in rotation for good, whatever late failures of older     *)
(* requests still eject it (ejections lift, HealthyAfter probes pass); one *)
(* whose probes all fail from some time on is taken out by the prober.     *)
(***************************************************************************)
Probes(u) == probeAt = u /\ <<probe, probeAt>>' # <<probe, probeAt>>

FailsNow(u) ==
    \/ Probes(u) /\ probe'[u].failures > 0
    \/ \E r \in Request : /\ req[r].pc = "sent" /\ req'[r].pc = "replied"
                          /\ req[r].up = u /\ IsServerError(req'[r].status)

RecoversForGood ==
    \A u \in Upstream :
        Weight[u] > 0 => (<>[][~FailsNow(u)]_vars => <>[]IsAvailable(u))

PassesProbe(u) == Probes(u) /\ probe'[u].successes > 0

DownIsDetected ==
    \A u \in Upstream : <>[][~PassesProbe(u)]_vars => <>[](~healthy[u])
=============================================================================
