# A TLA+ model of hypershunt

hypershunt is an HTTP server, reverse proxy and layer-4 proxy in Rust (`src/src/`).
This directory holds TLA+ modules for the parts of it where order matters: several
requests, background tasks, reloads and signals acting on shared state. TLC checks
them on small instances; TLAPS proves some results for every instance.
`PROJECT.json` maps each definition to the lines it models, and lists the parts,
the runs, the hazards and the theorems.

## The system and its parts

A process parses a configuration, binds its listeners and serves. Everything runs
on the tokio runtime: a task is interrupted only at an await, tasks run in parallel
on several threads, a future that is dropped stops at its last await.

| Part | Source | Module |
|---|---|---|
| load balancer, health prober, retries | `lb.rs`, `handler/proxy.rs` | `LoadBalancer` |
| reload on SIGHUP, certificate registry, listener builders | `reload.rs`, `reload/`, `bootstrap.rs`, `task.rs` | `Reload` |
| accept loops, drain, shutdown, upgrade on SIGUSR2 | `listener/http.rs`, `listener.rs`, `main.rs`, `reload/lifecycle.rs`, `inherit.rs` | `Lifecycle` |
| response cache | `cache/`, `listener/service.rs` | `ResponseCache` |
| datagram proxy | `listener/datagram.rs` | `DatagramFlows` |
| rate limits | `rate_limit.rs` | `RateLimit` |
| access policies | `access.rs` | `Access` (operators) |
| the life of a request | `listener/service.rs` | `Pipeline`, which composes `RateLimit` and `Access` |

The other parts (router, stream and QUIC listeners, upstream connections,
WebSockets, ACME orders, OCSP, OIDC sessions, static files, CGI, templates,
metrics, logging, configuration) are listed in `PROJECT.json` with the reason why
they are left out or planned.

The parts meet as follows. `Pipeline` stops at the handler; for a proxy location
`LoadBalancer` goes on from there, and for a cached one `ResponseCache` stands in
between. `Reload` replaces the configuration that these take as constants.
`Lifecycle` takes the listeners as given and ends them.

## How the modules correspond to the code

State variables carry the names of the fields and locals they stand for, actions
the names of the functions or of what a stretch between two awaits does. Variables
called history in a comment are read by properties only.

* **LoadBalancer.** `pick` takes a cursor (or a hash) in one step and then looks at
  one upstream after another, least-conn loading each gauge in a step of its own, so
  requests, ejections and the prober come between its reads; the guard
  (`InFlightGuard`) is a further step. A request goes on to `sent`, `replied`,
  perhaps `eject`, `recorded`, `done`, and may be dropped by its client (`Cancel`). The
  prober works through the pool. The ring of weighted slots is `weighted_ring`; the
  64-bit counter counts modulo `CounterSpan`, in `lb_pick` no multiple of the ring, as
  2^64 need not be. Times are ticks left. `MCLoadBalancerHistory` adds the history
  for the cursors served and for ejection streaks.
* **Reload.** One action per stretch of `reload()` that ends in publishing shared
  state, an early return or an await; a failure at any step returns as the code does.
  Listener tasks build, start, accept and drain meanwhile; renewal loops are counted
  per certificate and source, because aborting a supervised handle does not stop them.
* **Lifecycle.** Accept loops with their connection permits, drains with their
  timers, `main`'s shutdown sequence, the parent's and children's sides of an
  upgrade. A child that is told to stop exits at once, or if it was ready leaves the
  way its parent would: lame duck and drain with its sockets still open. A timer at
  zero is handled before time goes on. `graceful-drain-timeout` is chosen at the start.
  `MCLifecycle` adds the time since a listener was told to stop.
* **ResponseCache.** A store with exact sizes, the registry of fetches in flight,
  and tasks that look up, drop a stale entry, claim the fetch, lead, follow,
  revalidate or refresh in the background: each locks the store or the registry in a
  step of its own. Ages are compared in whole seconds (`as_secs`), request directives
  count only where the location honours them (`rcc`), and a varying header is told
  apart by its first line, a value that is not ASCII like none (`Selected`). The
  origin changes its content while fetches are under way.
* **DatagramFlows.** The table behind its mutex, the accept loop, a reply task per
  flow and the evictor, which holds the mutex across awaits.
* **RateLimit.** `check_at` and `evict_idle_at` with a time that was read earlier.
  Tokens are integers counted in refill time: a tick refills one unit, a request
  costs `Cost` units. The code uses floating point, whose rounding is not modelled.
* **Access.** Predicates as records, `eval_predicate` in three values, `evaluate` on
  rules in order, and `Holds`/`Permits`, the two-valued reference.
* **Pipeline.** `dispatch` from await to await: `Arrive` (with every answer before
  routing), `Refresh`, `Authorize`, `Resolve`, `ReadClock` and `CheckRule` per limit,
  `Handle`, `Timeout`, `Finish`, and `Drop` where hyper drops the future. A configured
  denial with code 401 is a challenge like any other. Requests are records
  of what the code tests: whether a token is valid, not the token.

## Runs

Passing runs:

| Run | Question | Instance |
|---|---|---|
| `lb_pick` | Does a pick return an upstream that it saw available, do cursors go round by weight, are gauges exact, retries bounded, streaks ejected? | 2 weighted upstreams, one in a group, 2 requests, round-robin and least-conn |
| `lb_health` | Do retries end, recovered upstreams return, dead ones leave? (liveness) | 1 request, prober on, ip-hash, random and least-conn |
| `reload` | Is an applied reload complete, are unchanged listeners left alone, is every registered certificate renewed, and is every running listener one that the reload which removes it can stop? | 2 listeners, one named certificate, three sources, six configs in any order, failures at every step |
| `lifecycle` | Is every address served until shutdown, does every upgrade settle with one server, is each connection granted its drain, does draining end? (liveness) | 2 listeners, one of them added by a reload, 2 connections, limit 1, 2 children, no, a short and a long graceful drain |
| `cache` | Byte budget, leader registry, bounded staleness, sharing between clients and variants only as declared, no-cache | 2 keys, one of HEAD requests, 2 tasks, four workloads |
| `datagram` | Is every listed flow served, do failed and idle flows leave? (liveness) | 2 clients, 2 flows |
| `pipeline` | Rate bound, Retry-After, the active gauge from below, policy against its reference, an established identity, session cookies | 2 requests, two rules with five buckets, 16 kinds of request, clock to 2 |

Runs that show where code and text disagree (see `findings`):

| Run | What it shows |
|---|---|
| `reload_failed` | a reload that fails late leaves rules and certificates of the new config published |
| `reload_renewal` | after a certificate source is replaced, two renewal loops run |
| `lifecycle_drain` | with graceful-drain-timeout 0 an upgrade still cuts connections, at the constant 30 s |
| `datagram_sockets` | an evicted flow keeps its upstream socket; a client that returns has two |
| `pipeline_user_key` | a limit by user on a location without identity policy or templates counts everyone in one bucket |

### Bounds

Two actors of a kind suffice for the races here, all of which are between two
steps of two parties (a request and the prober, a reload and a listener of an
earlier one, a leader and its follower). Counters are capped at the value where
the code's comparison is decided (`EjectAfter`, `UnhealthyAfter`, `Idle`), so nothing
is lost. `MaxLoops` caps a count of which only "none, one" matters. `MaxTime`, `MaxVersion`,
`MaxClock` and `MaxArrivals` end the behaviours; they are chosen so that an entry
becomes stale inside and outside of its stale windows, and a Retry-After comes due
and a bucket is swept. In `lb_pick`
`CounterSpan` is 4 for a ring of 3 slots, so the counter wraps in the middle of a scan. Two requests are too few for weights to decide a least-conn
choice: the run checks the least load, and cannot tell weighted from unweighted load.

`cache` starts in one of four workloads (`MCResponseCache`), each the requests and
replies that make one group of questions interesting: an origin that fails and an
entry that is refreshed in the background, both for 5 half-second ticks, enough to
outlive each stale window; clients and variants; and a byte budget that two replies
exceed. A behaviour stays
in its workload.

`pipeline` uses symmetry of the request slots, which no property or constant tells
apart; its checks of several requests are late, denied and granted in the instance.
`lb_pick` and `cache` use that of requests and tasks. The rate results do not depend
on the bounds: they are proved.

### What the passing properties do not say

* A pick can find no upstream although one is available: at the wrap of the counter
  a scan misses a slot of the ring, and an upstream may come back behind it.
  `PickIsSound` says that each upstream a failed scan came across was unavailable at
  some time during it, which is less than the comment at `src/src/lb.rs:239-241`.
* `DrainIsGranted` is about the listeners that `main` joins. The connections of a
  listener that a reload added are cut when the process exits, whatever the manual
  grants them (`docs/manual.md:69`).
* `DrainingEnds` has an exception, `WaitsForPermit`: an accept loop at its connection
  limit sees no signal while it waits for a permit, and a parent upgraded with
  `graceful-drain-timeout` 0 waits for it as long.
* `SharedAsDeclared` tells clients apart as the code does, by `Authorization`. Two
  clients known by cookie or certificate share an entry that the origin did not mark
  private.
* `GaugeCoversInFlight` bounds `requests_active` from below. From above it is not
  exact: a request without a Host, one that needs OIDC before it is ready, and every
  request dropped at an await leave their count behind, against
  `src/src/metrics.rs:920-921`.
* `AllowedByPolicy` is about the principal that the policy judged. A client judged
  anonymous is looked up once more for the templates (`src/src/listener/service.rs:1062`),
  and that answer is judged by nobody. `EstablishedIdentityStands` covers the clients
  whose identity does not come from the back-end.

### Fairness

Runnable tasks are polled, timers fire and time passes: weak fairness of the
corresponding steps. `Lifecycle` assumes strong fairness of leaving the accept loop,
because `select!` polls its branches in random order. `DatagramFlows` assumes it of
the steps that wait for the mutex, which tokio grants in turn. `LoadBalancer`
assumes that an attempt ends one day, since the code bounds only the connect.
A child that was told to stop leaves in the end (`ChildLeaves`), as its own lame duck
and drain are timed; a child that starts is under no fairness, and neither are clients
and upstreams. `Pipeline` has safety
properties only, and states no fairness: after the handler timeout the response is
still held until its body is collected for compression, which may never end.

Deadlock checking is off where the modelled system stops (a process that exited, a
clock or a number of requests at its bound).

## Proofs

**LoadBalancer_proofs**, from `LBAssumption` (a finite set of requests and
well-formed constants). `TypeCorrect` and `GaugeExact`, for any pool, policy and number of requests:
the in-flight counter of an upstream is the number of requests that hold a guard
on it. The inductive invariant is `IInv == TypeOK /\ InFlightMatchesGuards /\ Divides`: the
types are needed because a request that holds a guard must name an upstream, and
`Divides` because the cost that least-conn stores is a quotient by the weight of the
upstream it looks at, which is then not zero. Each action
either keeps the set of holders, or adds or removes one request together with the
increment or decrement (`HoldersSame`, `HoldersJoin`, `HoldersLeave`).

**RateLimit_proofs**, from `RateAssumption` (positive rate, burst, idle threshold and
second). `RateTypeCorrect`, `RateBounded` and `RetryAfterHonest`, for any buckets. The
properties are not inductive. `RInv` adds, for each bucket, an account (what was
granted plus what the bucket holds is at most the burst, what time refilled and
what late checks refilled twice) and a promise (while a Retry-After is outstanding,
the missing tokens come by then). The sweep is the delicate case: the entries it
drops are full, and no entry counts as full. The theorems are about `RateSpec`. `Pipeline`
changes the buckets by the same actions, `check_at` and `evict_idle_at` with a time no
later than the clock, and `Tick`, so they apply to it by construction; its observed
windows start at time 0, while the theorem is about windows that start anywhere.

Only model-checked: all liveness, the action properties of `LoadBalancer`,
everything in `Reload`, `Lifecycle`, `ResponseCache` and `DatagramFlows`, and what depends
on `Access`, whose recursive operators keep it out of the prover's reach.

## Plan

Done so far: the modules above. Next, in this order:

1. `OidcSessions`: the maps of pending logins and refresh sessions under concurrent
   refresh, logout and back-channel logout, composed with the cookies of `Pipeline`
   (three hazards are waiting for it).
2. `Router`: vhost and location choice with rewrites, as operators against a
   reference.
3. Streams and QUIC: their accept loops, drains and certificate rotation, beside
   `Lifecycle`; the end of the two directions of an upgraded connection.
4. Certificates: ACME order, retry and renewal schedule, OCSP refresh.
5. `Reload` with the probers that each router build starts, and with the listeners
   that are removed while they build.
6. The HTTP/3 state of an upstream (`handler/proxy/inner.rs`).
7. Abstract specifications: a linearizable cache and a listener set that the
   detailed modules implement.

Proofs: the inductive invariants of `DatagramFlows` (`ListedFlowsArePumped`), `Reload`
(`HandlesTrackRegistry`, `AppliedIsComplete`), `ResponseCache` (`RegistryExact`) and of
`Pipeline`'s gauge, the last after its policy evaluation is abstracted from the
recursive operators.
