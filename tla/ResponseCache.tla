--------------------------- MODULE ResponseCache ----------------------------
(***************************************************************************)
(* The response cache: the store with its byte budget and its registry of  *)
(* fetches in flight (src/src/cache/store.rs), entries and their freshness *)
(* (cache/entry.rs), the policy (cache/policy.rs), and the read-through    *)
(* path of a request with its background refresh (listener/service.rs).    *)
(*                                                                         *)
(* A step of a request is one critical section of the store or of the      *)
(* registry, or what it does after an await: it awaits the handler (the    *)
(* origin), a body, or the leader of its key.  The content of a resource   *)
(* changes at the origin while requests are in flight; a version is what   *)
(* is current between two changes.  Durations are ticks, the directives of *)
(* a client are whole seconds.                                             *)
(***************************************************************************)
EXTENDS Integers, Sequences, SequencesExt, FiniteSetsExt

CONSTANTS
    Key,         \* cache keys
    HeadKey,     \* those of HEAD requests
    HonorKey,    \* those of locations with honor-client-cache-control
    Task,        \* requests being served and refresh tasks
    Request,     \* [key, lines, who, auth, no_store, no_cache, only_if_cached,
                 \*  max_age, min_fresh, max_stale]: lines are the values of the
                 \*  header a reply may vary on, who the client, auth whether it
                 \*  sends Authorization
    Reply,       \* [status, storable, public, varies, max_age, age, swr, sie,
                 \*  etag, length], what an origin answers
    Opaque,      \* a header value that is not visible ASCII
    AnyStale,    \* max-stale without a number
    Second,      \* ticks in a second
    MaxBytes,    \* max-size of the store
    MaxObject,   \* max-object-size
    TTL,         \* ttl of the location
    MaxTime,     \* bound: the clock
    MaxVersion,  \* bound: versions of each resource
    Unset        \* an absent directive or header; None of the source

ASSUME CacheAssumption ==
    /\ {MaxBytes, MaxObject, TTL, MaxTime} \subseteq Nat
    /\ Second \in Nat \ {0}
    /\ HeadKey \subseteq Key /\ HonorKey \subseteq Key
    /\ MaxVersion \in [Key -> Nat]
    /\ Unset \notin Nat /\ AnyStale \notin Nat \cup {Unset}

VARIABLES
    store,     \* Inner::map: entries, least recently used first
    bytes,     \* Inner::bytes
    inflight,  \* the task that leads the fetch of a key
    task,      \* requests and refresh tasks
    clock,
    changed,   \* per key, the times at which the origin's content changed
    served     \* the response the last step sent to a client

vars == <<store, bytes, inflight, task, clock, changed, served>>

Idle == [st |-> "idle", mode |-> "none"]
Nothing == [via |-> "nothing"]

Version(k) == Len(changed[k]) + 1

\* When a body stopped being current.
Superseded(body) ==
    IF body.ver \in DOMAIN changed[body.key] THEN changed[body.key][body.ver] ELSE clock

-----------------------------------------------------------------------------
(***************************************************************************)
(* The store.                                                              *)
(***************************************************************************)
Sizes(s) == FoldSeq(LAMBDA e, sum : e.size + sum, 0, s)

Without(s, k) == SelectSeq(s, LAMBDA e : e.key # k)

Held(s, k) == {e \in ToSet(s) : e.key = k}

Entry(k) == CHOOSE e \in Held(store, k) : TRUE

SatSub(a, b) == IF a < b THEN 0 ELSE a - b

\* Mutant: the bytes of a replaced entry stay on the account.
Charged_Twice(k, size) == bytes + size

\* The account after put: the replaced entry is given back.
Charged(k, size) ==
    SatSub(bytes, MapThenSumSet(LAMBDA e : e.size, Held(store, k))) + size

\* The number of entries pop_lru takes until the budget holds, never the last.
Evicted(s, b) ==
    Min({n \in 0 .. Len(s) - 1 :
            n = Len(s) - 1 \/ SatSub(b, Sizes(SubSeq(s, 1, n))) <= MaxBytes})

insert(e) ==
    IF e.size > MaxBytes THEN UNCHANGED <<store, bytes>>
    ELSE LET s == Append(Without(store, e.key), e)
             charged == Charged(e.key, e.size)
             n == Evicted(s, charged)
         IN  /\ store' = SubSeq(s, n + 1, Len(s))
             /\ bytes' = SatSub(charged, Sizes(SubSeq(s, 1, n)))

Drop(gone) ==
    /\ store' = SelectSeq(store, LAMBDA e : e \notin gone)
    /\ bytes' = SatSub(bytes, MapThenSumSet(LAMBDA e : e.size, gone))

\* get: recency is bumped.
Touch(k) ==
    /\ store' = Without(store, k) \o SelectSeq(store, LAMBDA e : e.key = k)
    /\ UNCHANGED bytes

-----------------------------------------------------------------------------
(***************************************************************************)
(* Entries and the policy.                                                 *)
(***************************************************************************)
InCache(e, now) == SatSub(now, e.stored_at)
is_fresh(e, now) == InCache(e, now) < e.lifetime
current_age(e, now) == e.age + InCache(e, now)
remaining_freshness(e, now) == SatSub(e.lifetime, InCache(e, now))
staleness(e, now) == SatSub(InCache(e, now), e.lifetime)

as_secs(ticks) == ticks \div Second

\* What the cache reads of a header: its first line, if that is text.
Selected(lines) ==
    IF lines = <<>> \/ Head(lines) = Opaque THEN [value |-> Unset] ELSE [value |-> Head(lines)]

vary_matches(e, q) == e.vary \in {Unset, Selected(q.lines)}

\* Mutant: no-cache does not force a revalidation of a fresh entry.
usable_fresh_NoCache(e, q, now) == is_fresh(e, now)

usable_fresh(e, q, now) ==
    /\ is_fresh(e, now) /\ ~q.no_cache
    /\ q.max_age = Unset \/ as_secs(current_age(e, now)) <= q.max_age
    /\ q.min_fresh = Unset \/ as_secs(remaining_freshness(e, now)) >= q.min_fresh

max_stale_ok(e, q, now) ==
    /\ ~q.no_cache /\ q.max_stale # Unset
    /\ q.max_stale = AnyStale \/ as_secs(staleness(e, now)) <= q.max_stale

Within(window, e, now) == window # 0 /\ staleness(e, now) <= window

\* The outcomes of lookup for an entry; "drop" is a miss that removes it.
lookup_entry(e, q, now) ==
    CASE ~vary_matches(e, q) -> "miss"
      [] usable_fresh(e, q, now) -> "hit"
      [] is_fresh(e, now) -> IF e.etag THEN "revalidate" ELSE "miss"
      [] max_stale_ok(e, q, now) -> "max_stale"
      [] ~q.no_cache /\ Within(e.swr, e, now) -> "swr"
      [] e.etag \/ Within(e.sie, e, now) -> "revalidate"
      [] OTHER -> "drop"

lookup(q, now) ==
    IF Held(store, q.key) = {} THEN "absent" ELSE lookup_entry(Entry(q.key), q, now)

serve_stale_on_error(e, now) == ~is_fresh(e, now) /\ Within(e.sie, e, now)

\* Mutant: the ttl does not cap what the origin declares.
lifetime_from_Uncapped(r) == IF r.max_age = Unset THEN TTL ELSE r.max_age

lifetime_from(r) == IF r.max_age = Unset THEN TTL ELSE Min({r.max_age, TTL})

\* Mutant: the Authorization rule is missing.
evaluate_AnyAuth(r, q) == r.storable /\ r.status = "ok" /\ lifetime_from(r) > 0

\* Is the reply cacheable?  "storable" stands for the headers that forbid it,
\* "ok" for cacheable_status.
evaluate(r, q) ==
    /\ r.storable
    /\ ~q.auth \/ r.public
    /\ r.status = "ok"
    /\ lifetime_from(r) > 0

fits(r) == r.length # Unset /\ r.length <= MaxObject

\* Mutant: the freshness clock starts when the body has arrived.
StoredAt_OnArrival(t) == clock

\* stored_at is the time the request was looked up, before the fetch.
StoredAt(t) == task[t].now

\* A refresh asks with GET, also for the key of a HEAD request.
BodySize(t) ==
    IF task[t].req.key \in HeadKey /\ task[t].mode # "refresh" THEN 0 ELSE task[t].reply.length

StoredResponse(t) ==
    LET r == task[t].reply IN
    [key |-> task[t].req.key, body |-> task[t].body, size |-> BodySize(t),
     stored_at |-> StoredAt(t), lifetime |-> lifetime_from(r), age |-> r.age,
     vary |-> IF r.varies THEN Selected(task[t].req.lines) ELSE Unset,
     swr |-> r.swr, sie |-> r.sie, etag |-> r.etag]

\* After a 304: body, variant and stale windows stay.
refreshed(t) ==
    [task[t].entry EXCEPT !.stored_at = StoredAt(t), !.lifetime = lifetime_from(task[t].reply),
                          !.age = task[t].reply.age]

-----------------------------------------------------------------------------
(***************************************************************************)
(* Serving a request.                                                      *)
(***************************************************************************)
Send(t, q, now, body, via, window) ==
    served' = IF task[t].mode = "refresh" THEN Nothing
              ELSE [via |-> via, req |-> q, now |-> now, body |-> body, window |-> window]

Fetching(q, now, mode, entry) ==
    [st |-> "fetch", req |-> q, now |-> now, mode |-> mode, entry |-> entry]

Waiting(q) == [st |-> "wait", mode |-> "follow", req |-> q]

\* Tasks whose leader has dropped its guard.
Woken(ts, k) ==
    [u \in Task |->
        IF ts[u].st = "wait" /\ ts[u].req.key = k THEN [ts[u] EXCEPT !.st = "woken"] ELSE ts[u]]

Leads(t) == task[t].st \in {"fetch", "reply"} /\ task[t].mode \in {"lead", "refresh"}

\* Mutant: dropping the guard wakes the followers and leaves the key registered.
End_KeepsLead(t) ==
    LET ts == [task EXCEPT ![t] = Idle]
        k == task[t].req.key
    IN  /\ task' = IF Leads(t) THEN Woken(ts, k) ELSE ts
        /\ UNCHANGED inflight

\* Task t ends.  A LeaderGuard it holds is dropped, which wakes the followers.
End(t) ==
    LET ts == [task EXCEPT ![t] = Idle]
        k == task[t].req.key
    IN  IF Leads(t)
        THEN inflight' = [inflight EXCEPT ![k] = Unset] /\ task' = Woken(ts, k)
        ELSE task' = ts /\ UNCHANGED inflight

Go(t, next) == task' = [task EXCEPT ![t] = next] /\ UNCHANGED inflight

HasLead(k) == inflight[k] # Unset

\* The client's directives, empty unless the location honours them.
rcc(q) ==
    IF q.key \in HonorKey THEN q
    ELSE [q EXCEPT !.no_store = FALSE, !.no_cache = FALSE, !.only_if_cached = FALSE,
                   !.max_age = Unset, !.min_fresh = Unset, !.max_stale = Unset]

\* The outcomes of a lookup, which holds the lock of the store while it takes
\* the entry.
Hit(t, q, found) ==
    /\ found \in {"hit", "max_stale"}
    /\ Send(t, q, clock, Entry(q.key).body, found, 0)

StaleWhileRevalidate(t, q, found) ==
    /\ found = "swr"
    /\ Send(t, q, clock, Entry(q.key).body, "swr", Entry(q.key).swr)
    /\ \E u \in Task \ {t} :
          /\ task[u] = Idle
          /\ Go(u, [st |-> "spawned", mode |-> "refresh", req |-> q, entry |-> Entry(q.key)])

Revalidate(t, q, found) ==
    /\ found = "revalidate"
    /\ Go(t, Fetching(q, clock, "revalidate", Entry(q.key)))
    /\ served' = Nothing

\* A miss: the request goes on to the registry, or first removes the entry.
Miss(t, q, found) ==
    /\ found \in {"absent", "miss", "drop"}
    /\ Go(t, [st |-> IF found = "drop" THEN "remove" ELSE "claim", mode |-> "miss",
              req |-> q, now |-> clock])
    /\ served' = Nothing

\* The origin's answer is passed on; the cache is not touched any more.
NoStore ==
    /\ served' = Nothing
    /\ UNCHANGED <<store, bytes, task, inflight>>

Lookup(t, q) ==
    /\ Touch(q.key)
    /\ LET found == lookup(q, clock) IN
       \/ Hit(t, q, found) /\ UNCHANGED <<task, inflight>>
       \/ StaleWhileRevalidate(t, q, found)
       \/ Revalidate(t, q, found)
       \/ Miss(t, q, found)

\* A request arrives.
serve_with_cache(t, q) ==
    /\ task[t] = Idle
    /\ IF rcc(q).no_store THEN NoStore ELSE Lookup(t, rcc(q))
    /\ UNCHANGED <<clock, changed>>

\* The entry the key holds by now is removed, not only the one looked up.
remove(t) ==
    /\ task[t].st = "remove"
    /\ Drop(Held(store, task[t].req.key))
    /\ Go(t, IF task[t].mode = "miss" THEN [task[t] EXCEPT !.st = "claim"]
             ELSE Fetching(task[t].req, task[t].now, "refetch", Unset))
    /\ served' = Nothing
    /\ UNCHANGED <<clock, changed>>

\* only-if-cached is answered with 504; another request leads or follows.
begin_fetch(t) ==
    /\ task[t].st = "claim"
    /\ LET q == task[t].req IN
       \/ q.only_if_cached /\ Go(t, Idle)
       \/ ~q.only_if_cached /\ HasLead(q.key) /\ Go(t, Waiting(q))
       \/ /\ ~q.only_if_cached /\ ~HasLead(q.key)
          /\ inflight' = [inflight EXCEPT ![q.key] = t]
          /\ task' = [task EXCEPT ![t] = Fetching(q, @.now, "lead", Unset)]
    /\ served' = Nothing
    /\ UNCHANGED <<store, bytes, clock, changed>>

\* A follower goes on: only a hit is used, whatever else lookup says.
Follow(t) ==
    /\ task[t].st = "woken"
    /\ LET q == task[t].req
           found == lookup(q, clock)
       IN  /\ Touch(q.key)
           /\ \/ Hit(t, q, found) /\ End(t)
              \/ /\ found \notin {"hit", "max_stale"}
                 /\ served' = Nothing
                 /\ Go(t, IF found = "drop"
                          THEN [st |-> "remove", mode |-> "follow", req |-> q, now |-> clock]
                          ELSE Fetching(q, clock, "refetch", Unset))
    /\ UNCHANGED <<clock, changed>>

\* The refresh task starts: it gives up if the key has a leader.
spawn_swr_refresh(u) ==
    /\ task[u].st = "spawned"
    /\ LET k == task[u].req.key IN
       IF HasLead(k) THEN Go(u, Idle)
       ELSE /\ inflight' = [inflight EXCEPT ![k] = u]
            /\ task' = [task EXCEPT ![u] = Fetching(@.req, clock, "refresh", @.entry)]
    /\ served' = Nothing
    /\ UNCHANGED <<store, bytes, clock, changed>>

\* The request of a refresh cannot be built and its guard is dropped.
RefreshFails(u) ==
    /\ task[u].st = "fetch" /\ task[u].mode = "refresh"
    /\ End(u)
    /\ served' = Nothing
    /\ UNCHANGED <<store, bytes, clock, changed>>

\* The origin handles a request: 304 when the validator sent is current.
Conditional(t) == task[t].entry # Unset /\ task[t].entry.etag

Answer(t, r) ==
    /\ task[t].st = "fetch"
    /\ LET q == task[t].req
           body == [key |-> q.key, ver |-> Version(q.key),
                    lines |-> IF r.varies THEN q.lines ELSE Unset,
                    who |-> IF q.auth /\ ~r.public THEN q.who ELSE Unset]
           same == r.status = "ok" /\ Conditional(t) /\ task[t].entry.body = body
       IN  Go(t, [task[t] EXCEPT !.st = "reply"] @@
                 [body |-> body, reply |-> IF same THEN [r EXCEPT !.status = "304"] ELSE r])
    /\ served' = Nothing
    /\ UNCHANGED <<store, bytes, clock, changed>>

Forward(t) ==
    /\ Send(t, task[t].req, task[t].now, task[t].body, "origin", 0)
    /\ End(t)

\* serve_revalidated
NotModified(t) ==
    /\ task[t].reply.status = "304"
    /\ insert(refreshed(t))
    /\ Send(t, task[t].req, task[t].now, task[t].entry.body, "origin", 0)
    /\ End(t)

StaleIfError(t) ==
    /\ task[t].mode = "revalidate" /\ task[t].reply.status = "error"
    /\ serve_stale_on_error(task[t].entry, task[t].now)
    /\ Send(t, task[t].req, task[t].now, task[t].entry.body, "sie", task[t].entry.sie)
    /\ End(t)
    /\ UNCHANGED <<store, bytes>>

\* maybe_store: the reply is forwarded uncached; or its body is collected,
\* stored and sent; or the body cannot be read (502).  What is decided before
\* the await on the body depends on the reply alone.
maybe_store(t) ==
    /\ task[t].reply.status # "304"
    /\ ~(task[t].mode = "revalidate" /\ task[t].reply.status = "error"
         /\ serve_stale_on_error(task[t].entry, task[t].now))
    /\ IF evaluate(task[t].reply, task[t].req) /\ fits(task[t].reply)
       THEN \/ insert(StoredResponse(t)) /\ Forward(t)
            \/ End(t) /\ served' = Nothing /\ UNCHANGED <<store, bytes>>
       ELSE Forward(t) /\ UNCHANGED <<store, bytes>>

Receive(t) ==
    /\ task[t].st = "reply"
    /\ NotModified(t) \/ StaleIfError(t) \/ maybe_store(t)
    /\ UNCHANGED <<clock, changed>>

\* The client goes away and the future is dropped at the await it is at.
Cancel(t) ==
    /\ task[t].mode # "refresh" /\ task[t].st \in {"fetch", "reply", "wait", "woken"}
    /\ End(t)
    /\ served' = Nothing
    /\ UNCHANGED <<store, bytes, clock, changed>>

evict_expired ==
    /\ Drop({e \in ToSet(store) : ~is_fresh(e, clock)})
    /\ served' = Nothing
    /\ UNCHANGED <<inflight, task, clock, changed>>

\* The origin's content changes; time passes.
Change(k) ==
    /\ Version(k) < MaxVersion[k]
    /\ changed' = [changed EXCEPT ![k] = Append(@, clock)]
    /\ served' = Nothing
    /\ UNCHANGED <<store, bytes, inflight, task, clock>>

Tick ==
    /\ clock < MaxTime
    /\ clock' = clock + 1
    /\ served' = Nothing
    /\ UNCHANGED <<store, bytes, inflight, task, changed>>

Init ==
    /\ store = <<>> /\ bytes = 0
    /\ inflight = [k \in Key |-> Unset]
    /\ task = [t \in Task |-> Idle]
    /\ clock = 0 /\ changed = [k \in Key |-> <<>>]
    /\ served = Nothing

Steps(requests, replies) ==
    \/ \E t \in Task, q \in requests : serve_with_cache(t, q)
    \/ \E t \in Task :
          \/ remove(t) \/ begin_fetch(t) \/ Follow(t) \/ Cancel(t)
          \/ spawn_swr_refresh(t) \/ RefreshFails(t) \/ Receive(t)
    \/ \E t \in Task, r \in replies : Answer(t, r)
    \/ evict_expired
    \/ \E k \in Key : Change(k)
    \/ Tick

Next == Steps(Request, Reply)

Spec == Init /\ [][Next]_vars

-----------------------------------------------------------------------------
(***************************************************************************)
(* Properties.                                                             *)
(***************************************************************************)
\* The types of the cache's state; every task has a state of the protocol.
TypeOK ==
    /\ \A e \in ToSet(store) :
          /\ e.key \in Key /\ e.body.key = e.key
          /\ {e.size, e.stored_at, e.lifetime, e.age, e.swr, e.sie} \subseteq Nat
          /\ e.stored_at <= clock /\ e.lifetime <= TTL
    /\ bytes \in Nat
    /\ inflight \in [Key -> Task \cup {Unset}]
    /\ \A t \in Task :
          <<task[t].st, task[t].mode>> \in
              {<<"idle", "none">>, <<"spawned", "refresh">>, <<"wait", "follow">>, <<"woken", "follow">>,
               <<"remove", "miss">>, <<"remove", "follow">>, <<"claim", "miss">>}
              \cup {"fetch", "reply"} \X {"lead", "refetch", "revalidate", "refresh"}
    /\ clock \in 0 .. MaxTime
    /\ \A k \in Key : Version(k) <= MaxVersion[k]

\* The byte account is exact and never above the budget, through
\* replacements, evictions, sweeps and refreshed entries; a key is held once.
WithinBudget ==
    /\ bytes = Sizes(store) /\ bytes <= MaxBytes
    /\ \A i, j \in DOMAIN store : store[i].key = store[j].key => i = j

\* The registry names exactly the live leaders, whatever ends a fetch (an
\* answer, a failed body, a client that leaves): no two fetches lead one key,
\* no key stays blocked, and a follower waits only while there is a leader.
RegistryExact ==
    /\ \A k \in Key, t \in Task : inflight[k] = t <=> Leads(t) /\ task[t].req.key = k
    /\ \A t \in Task : task[t].st = "wait" => HasLead(task[t].req.key)

\* How long before the lookup a response may have ceased to be current: the
\* ttl, and the stale window it was served under.
Allowance ==
    CASE served.via = "origin" -> 0
      [] served.via = "hit" -> TTL - 1
      [] served.via = "max_stale" -> TTL + (served.req.max_stale + 1) * Second - 1
      [] OTHER -> TTL + served.window

\* However slow origins are and however fetches, revalidations and refreshes
\* overtake each other, a response was current less than the ttl before the
\* request was looked up, or at most the ttl and the stale window it was served
\* under.  A max-stale of n lasts until n + 1 seconds are over, and max-stale
\* without a number has no bound.
BoundedStaleness ==
    served # Nothing /\ ~(served.via = "max_stale" /\ served.req.max_stale = AnyStale) =>
        Superseded(served.body) >= served.now - Allowance

\* What the origin made for a client that sent Authorization, and did not
\* declare public, is never served to another client; and what it made for
\* one value of a header it varies on is not served for another, as far as
\* the first line of that header, read as ASCII, tells them apart.  Clients
\* known by a session cookie or a certificate do share a response that the
\* origin does not mark private, and so do requests that differ only in a
\* second line or in a value that is not ASCII, where guide.md:2067-2069 says
\* that the selected headers match.
SharedAsDeclared ==
    served # Nothing =>
        /\ served.body.key = served.req.key
        /\ served.body.lines # Unset => Selected(served.body.lines) = Selected(served.req.lines)
        /\ served.body.who \in {Unset, served.req.who}

\* On a location with honor-client-cache-control, which is off by default, a
\* client that sends no-cache gets what the origin confirmed after the request
\* came in; only a failing origin lets it have a stale copy.
NoCacheIsValidated ==
    served # Nothing /\ served.req.no_cache => served.via \in {"origin", "sie"}
=============================================================================
