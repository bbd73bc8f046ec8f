----------------------------- MODULE RateLimit ------------------------------
(***************************************************************************)
(* The token buckets of the rate-limit rules (src/src/rate_limit.rs).  A   *)
(* bucket belongs to a rule and a key string.  check() reads the clock,    *)
(* then takes the lock, so a check and a sweep may run with a time that is *)
(* already past, and two of them in either order.                          *)
(*                                                                         *)
(* Tokens are counted in the time it takes to refill them: a tick refills  *)
(* one unit, a request costs Cost units, and the bucket holds Full units.  *)
(* This is tokens / rate_per_sec of the code; the parser refuses a rate    *)
(* and a burst of 0.                                                       *)
(***************************************************************************)
EXTENDS Integers

CONSTANTS
    Bucket,    \* the pairs of a rule and a key string
    Cost,      \* ticks that refill one token, of a bucket's rule
    Burst,     \* tokens a bucket of the rule holds
    IdleAfter, \* idle_threshold of the sweep, in ticks
    Second,    \* ticks in a second
    MaxClock   \* bound: the clock stops there

ASSUME RateAssumption ==
    /\ Cost \in [Bucket -> Nat \ {0}]
    /\ Burst \in [Bucket -> Nat \ {0}]
    /\ IdleAfter \in Nat \ {0}
    /\ Second \in Nat \ {0}
    /\ MaxClock \in Nat

VARIABLES
    clock,
    held,         \* the buckets that have an entry in the rule's map
    tokens,       \* BucketEntry::tokens
    last_refill,  \* BucketEntry::last_refill
    \* History, read by the properties only.  For each bucket a window of
    \* time is observed, which starts anywhere:
    from,         \* when it started
    spent,        \* what was granted in it
    asOf,         \* the time of the last check or sweep in it
    late,         \* the time that checks went back, in all
    retryAt       \* when the last denials said to come back, 0 if none did
                  \* since a request was granted

entryVars == <<held, tokens, last_refill>>
historyVars == <<from, spent, asOf, late, retryAt>>
rateVars == <<clock, entryVars, historyVars>>

Least(a, b) == IF a < b THEN a ELSE b
Greatest(a, b) == IF a < b THEN b ELSE a

Full(b) == Burst[b] * Cost[b]

-----------------------------------------------------------------------------
(***************************************************************************)
(* RateLimitRule::check_at.                                                *)
(***************************************************************************)
\* saturating_duration_since
Elapsed(b, now) == Greatest(0, now - last_refill[b])

\* A bucket without an entry gets one that is full as of now.
Refilled(b, now) ==
    IF b \in held THEN Least(tokens[b] + Elapsed(b, now), Full(b)) ELSE Full(b)

Allow(b, now) == Refilled(b, now) >= Cost[b]

\* Mutant: the time to the next token is rounded down.
retry_after_secs_Floor(b, now) ==
    Greatest(1, (Cost[b] - Refilled(b, now)) \div Second)

\* The seconds until there is a token, rounded up, at least 1.
retry_after_secs(b, now) ==
    Greatest(1, (Cost[b] - Refilled(b, now) + Second - 1) \div Second)

\* What the observer notes of a check.
ObserveCheck(b, now) ==
    /\ asOf' = [asOf EXCEPT ![b] = now]
    /\ late' = [late EXCEPT ![b] = @ + Greatest(0, asOf[b] - now)]
    /\ spent' = [spent EXCEPT ![b] = IF Allow(b, now) THEN @ + Cost[b] ELSE @]
    /\ retryAt' = [retryAt EXCEPT ![b] =
          LET due == now + Second * retry_after_secs(b, now)
          IN  IF Allow(b, now) THEN 0 ELSE IF @ = 0 THEN due ELSE Least(@, due)]
    /\ UNCHANGED from

check_at(b, now) ==
    /\ held' = held \cup {b}
    /\ tokens' = [tokens EXCEPT ![b] =
          Refilled(b, now) - (IF Allow(b, now) THEN Cost[b] ELSE 0)]
    /\ last_refill' = [last_refill EXCEPT ![b] = now]
    /\ ObserveCheck(b, now)
    /\ UNCHANGED clock

(***************************************************************************)
(* The sweep: one pass over a rule's map under its lock.                   *)
(***************************************************************************)
\* Mutant: an idle entry goes, full or not.
Evictable_Drained(b, now) == b \in held /\ Elapsed(b, now) >= IdleAfter

Evictable(b, now) ==
    /\ b \in held
    /\ Elapsed(b, now) >= IdleAfter
    /\ Refilled(b, now) >= Full(b)

evict_idle_at(now) ==
    LET gone == {b \in Bucket : Evictable(b, now)} IN
    /\ gone # {}
    /\ held' = held \ gone
    /\ tokens' = [b \in Bucket |-> IF b \in gone THEN 0 ELSE tokens[b]]
    /\ last_refill' = [b \in Bucket |-> IF b \in gone THEN 0 ELSE last_refill[b]]
    /\ asOf' = [b \in Bucket |-> IF b \in gone THEN Greatest(asOf[b], now) ELSE asOf[b]]
    /\ UNCHANGED <<clock, from, spent, late, retryAt>>

Tick ==
    /\ clock < MaxClock
    /\ clock' = clock + 1
    /\ UNCHANGED <<entryVars, historyVars>>

\* The observer starts the window of a bucket afresh.
OpenWindow(b) ==
    /\ from[b] < clock
    /\ from' = [from EXCEPT ![b] = clock]
    /\ spent' = [spent EXCEPT ![b] = 0]
    /\ asOf' = [asOf EXCEPT ![b] = clock]
    /\ late' = [late EXCEPT ![b] = 0]
    /\ UNCHANGED <<clock, entryVars, retryAt>>

RateInit ==
    /\ clock = 0
    /\ held = {}
    /\ tokens = [b \in Bucket |-> 0]
    /\ last_refill = [b \in Bucket |-> 0]
    /\ from = [b \in Bucket |-> 0]
    /\ spent = [b \in Bucket |-> 0]
    /\ asOf = [b \in Bucket |-> 0]
    /\ late = [b \in Bucket |-> 0]
    /\ retryAt = [b \in Bucket |-> 0]

\* Checks and sweeps by anyone, each with a time it read before.
RateNext ==
    \/ \E b \in Bucket, now \in 0 .. clock : check_at(b, now)
    \/ \E now \in 0 .. clock : evict_idle_at(now)
    \/ Tick
    \/ \E b \in Bucket : OpenWindow(b)

RateSpec == RateInit /\ [][RateNext]_rateVars

-----------------------------------------------------------------------------
(***************************************************************************)
(* Properties.                                                             *)
(***************************************************************************)
RateTypeOK ==
    /\ clock \in 0 .. MaxClock
    /\ held \subseteq Bucket
    /\ tokens \in [Bucket -> Nat]
    /\ \A b \in Bucket : tokens[b] <= Full(b)
    /\ last_refill \in [Bucket -> 0 .. clock]
    /\ from \in [Bucket -> 0 .. clock]
    /\ spent \in [Bucket -> Nat]
    /\ asOf \in [Bucket -> 0 .. clock]
    /\ late \in [Bucket -> Nat]
    /\ retryAt \in [Bucket -> Nat]

\* In any window of time a bucket grants at most its burst and what the
\* window refills, whatever is swept meanwhile.  check() reads the clock
\* before it has the lock and check_at stores that time as last_refill, so
\* each unit of time that a check goes back is refilled twice: the excess is
\* what checks went back, and there is none when they come in order.
WithinRate ==
    \A b \in Bucket : spent[b] <= Full(b) + (clock - from[b]) + late[b]

\* A 429 says when to come back: from then on, unless another request was
\* granted meanwhile, the bucket grants one (docs/guide.md:1982-1983).  Late
\* checks, further denials and sweeps in between do not break the promise.
RetryAfterSuffices ==
    \A b \in Bucket :
        retryAt[b] # 0 /\ clock >= retryAt[b] => Allow(b, clock)
=============================================================================
