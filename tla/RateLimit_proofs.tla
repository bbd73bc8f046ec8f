-------------------------- MODULE RateLimit_proofs --------------------------
(***************************************************************************)
(* Proofs about RateLimit for every set of buckets, rates, bursts, idle    *)
(* threshold and length of a second.                                       *)
(***************************************************************************)
EXTENDS RateLimit, TLAPS

\* A bucket that granted something in the window has its account: what was
\* granted and what is left is the burst, the time accounted for and the time
\* that was refilled twice.  An evicted bucket had been full again.
Account(b) ==
    /\ asOf[b] - from[b] + late[b] >= 0
    /\ spent[b] # 0 /\ b \in held =>
          /\ last_refill[b] = asOf[b]
          /\ spent[b] + tokens[b] <= Full(b) + (asOf[b] - from[b]) + late[b]
    /\ spent[b] # 0 /\ b \notin held => spent[b] <= (asOf[b] - from[b]) + late[b]

\* What a denial promised is refilled by then.
Promise(b) ==
    retryAt[b] # 0 /\ b \in held =>
        tokens[b] + (retryAt[b] - last_refill[b]) >= Cost[b]

RInv == RateTypeOK /\ \A b \in Bucket : Account(b) /\ Promise(b)

(***************************************************************************)
(* A full bucket holds at least one token.                                 *)
(***************************************************************************)
LEMMA Product ==
    ASSUME NEW m \in Nat \ {0}, NEW n \in Nat \ {0}
    PROVE  m * n \in Nat /\ m * n >= n
<1>1. m * n = (m - 1) * n + n
  BY SMT
<1>2. (m - 1) * n \in Nat
  BY SMT
<1>3. QED
  BY <1>1, <1>2

(***************************************************************************)
(* What the assumptions on rate and burst say of one bucket.               *)
(***************************************************************************)
LEMMA FullFacts ==
    ASSUME NEW b \in Bucket
    PROVE  /\ Full(b) \in Nat /\ Cost[b] \in Nat /\ Cost[b] > 0
           /\ Full(b) >= Cost[b]
BY RateAssumption, Product DEF Full

(***************************************************************************)
(* The seconds of a Retry-After header cover the time to the next token.   *)
(***************************************************************************)
LEMMA RoundedUp ==
    ASSUME NEW a \in Nat, NEW s \in Nat \ {0}
    PROVE  /\ (a + s - 1) \div s \in Nat
           /\ s * ((a + s - 1) \div s) >= a
<1> DEFINE x == a + s - 1
<1>1. x \in Nat
  OBVIOUS
<1>2. /\ x = s * (x \div s) + (x % s) /\ x \div s \in Int /\ x % s \in 0 .. (s - 1)
  BY <1>1, SMT
<1>3. s * (x \div s) \in Int
  BY <1>2
<1>4. s * (x \div s) >= a
  BY <1>2, <1>3
<1>5. x \div s \in Nat
  BY <1>1, <1>2, SMT
<1>6. QED
  BY <1>4, <1>5

(***************************************************************************)
(* What a check computes: never more than a full bucket, and a promise     *)
(* that the refill keeps.                                                  *)
(***************************************************************************)
LEMMA RefilledFacts ==
    ASSUME RateTypeOK, NEW b \in Bucket, NEW now \in 0 .. clock
    PROVE  /\ Refilled(b, now) \in 0 .. Full(b)
           /\ b \in held /\ now >= last_refill[b] =>
                Refilled(b, now) <= tokens[b] + (now - last_refill[b])
           /\ b \in held /\ now < last_refill[b] => Refilled(b, now) <= tokens[b]
           /\ b \in held /\ ~Allow(b, now) =>
                Refilled(b, now) = tokens[b] + Elapsed(b, now)
           /\ ~Allow(b, now) => b \in held
BY FullFacts, SMT DEF RateTypeOK, Refilled, Elapsed, Least, Greatest, Allow

(***************************************************************************)
(* The Retry-After of a denial is positive and covers the missing tokens.  *)
(***************************************************************************)
LEMMA RetryFacts ==
    ASSUME RateTypeOK, NEW b \in Bucket, NEW now \in 0 .. clock, ~Allow(b, now)
    PROVE  /\ Second * retry_after_secs(b, now) \in Nat \ {0}
           /\ Second * retry_after_secs(b, now) >= Cost[b] - Refilled(b, now)
<1> DEFINE a == Cost[b] - Refilled(b, now)
           secs == (a + Second - 1) \div Second
<1>1. a \in Nat /\ a > 0
  BY RefilledFacts, FullFacts, SMT DEF Allow
<1>2. Second \in Nat \ {0}
  BY RateAssumption
<1>3. secs \in Nat /\ Second * secs >= a
  BY <1>1, <1>2, RoundedUp
<1>4. secs # 0
  <2>1. Second * 0 = 0
    BY <1>2
  <2>2. QED
    BY <1>1, <1>3, <2>1
<1>5. retry_after_secs(b, now) = secs
  BY <1>3, <1>4 DEF retry_after_secs, Greatest
<1>6. Second * secs \in Nat /\ Second * secs # 0
  BY <1>1, <1>2, <1>3
<1>7. QED
  BY <1>3, <1>5, <1>6

(***************************************************************************)
(* The initial state satisfies the invariant: no bucket has an entry.      *)
(***************************************************************************)
LEMMA RInvInit == RateInit => RInv
<1> SUFFICES ASSUME RateInit PROVE RInv
  OBVIOUS
<1>1. \A b \in Bucket : Full(b) \in Nat
  BY FullFacts
<1>2. QED
  BY <1>1, RateAssumption DEF RateInit, RInv, RateTypeOK, Account, Promise

(***************************************************************************)
(* Every step of the limiter keeps the invariant.                          *)
(***************************************************************************)
LEMMA CheckKeeps ==
    ASSUME RInv, NEW c \in Bucket, NEW now \in 0 .. clock, check_at(c, now)
    PROVE  RInv'
<1> DEFINE r == Refilled(c, now)
           due == now + Second * retry_after_secs(c, now)
<1>1. RateTypeOK /\ Full(c) \in Nat /\ Cost[c] \in Nat /\ Cost[c] > 0 /\ Full(c) >= Cost[c]
  BY FullFacts DEF RInv
<1>2. r \in 0 .. Full(c)
  BY <1>1, RefilledFacts
<1>3. ~Allow(c, now) => due \in Nat /\ due # 0 /\ r + (due - now) >= Cost[c]
  BY <1>1, <1>2, RetryFacts
<1>4. Allow(c, now) => r >= Cost[c]
  BY DEF Allow
<1>5. RateTypeOK'
  <2>1. tokens' \in [Bucket -> Nat] /\ tokens'[c] <= Full(c)
    BY <1>1, <1>2, <1>4 DEF check_at, RateTypeOK
  <2>2. \A b \in Bucket : tokens'[b] <= Full(b)
    BY <1>1, <2>1 DEF check_at, RateTypeOK
  <2>3. /\ clock' = clock /\ held' \subseteq Bucket
        /\ last_refill' \in [Bucket -> 0 .. clock] /\ from' = from
        /\ asOf' \in [Bucket -> 0 .. clock]
    BY <1>1 DEF check_at, ObserveCheck, RateTypeOK
  <2>4. spent' \in [Bucket -> Nat]
    BY <1>1 DEF check_at, ObserveCheck, RateTypeOK
  <2>5. late' \in [Bucket -> Nat]
    BY <1>1 DEF check_at, ObserveCheck, RateTypeOK, Greatest
  <2>6. retryAt' \in [Bucket -> Nat]
    <3> DEFINE v == IF Allow(c, now) THEN 0
                    ELSE IF retryAt[c] = 0 THEN due ELSE Least(retryAt[c], due)
    <3>1. v \in Nat
      BY <1>1, <1>3 DEF Least, RateTypeOK
    <3>2. retryAt' = [retryAt EXCEPT ![c] = v]
      BY DEF check_at, ObserveCheck
    <3> HIDE DEF v
    <3>3. QED
      BY <1>1, <3>1, <3>2 DEF RateTypeOK
  <2>7. \A b \in Bucket : Full(b)' = Full(b)
    BY DEF Full
  <2>8. QED
    BY <1>1, <2>1, <2>2, <2>3, <2>4, <2>5, <2>6, <2>7 DEF RateTypeOK
<1>6. ASSUME NEW b \in Bucket, b # c PROVE Account(b)' /\ Promise(b)'
  <2>1. /\ asOf'[b] = asOf[b] /\ late'[b] = late[b] /\ spent'[b] = spent[b]
        /\ retryAt'[b] = retryAt[b] /\ from' = from /\ tokens'[b] = tokens[b]
        /\ last_refill'[b] = last_refill[b] /\ (b \in held' <=> b \in held)
    BY <1>1, <1>6 DEF check_at, ObserveCheck, RateTypeOK
  <2>2. Account(b) /\ Promise(b)
    BY DEF RInv
  <2>3. QED
    BY <2>1, <2>2 DEF Account, Promise, Full
<1>7. Account(c)'
  <2>1. /\ asOf'[c] = now /\ late'[c] = late[c] + Greatest(0, asOf[c] - now)
        /\ from'[c] = from[c] /\ c \in held' /\ last_refill'[c] = now
        /\ spent'[c] = IF Allow(c, now) THEN spent[c] + Cost[c] ELSE spent[c]
        /\ tokens'[c] = r - (IF Allow(c, now) THEN Cost[c] ELSE 0)
    BY <1>1 DEF check_at, ObserveCheck, RateTypeOK
  <2>2. spent'[c] + tokens'[c] = spent[c] + r
    BY <1>1, <1>2, <2>1 DEF RateTypeOK
  <2>3. Account(c)
    BY DEF RInv
  <2>4. asOf'[c] - from'[c] + late'[c] >= 0
    BY <1>1, <2>1, <2>3 DEF Account, RateTypeOK, Greatest
  <2>5. spent[c] + r <= Full(c) + (asOf'[c] - from'[c]) + late'[c]
    <3>1. CASE spent[c] = 0
      BY <1>1, <1>2, <2>1, <2>4, <3>1 DEF RateTypeOK, Greatest
    <3>2. CASE spent[c] # 0 /\ c \notin held
      BY <1>1, <1>2, <2>1, <2>3, <3>2 DEF RateTypeOK, Account, Greatest
    <3>3. CASE spent[c] # 0 /\ c \in held
      <4>1. /\ last_refill[c] = asOf[c]
            /\ spent[c] + tokens[c] <= Full(c) + (asOf[c] - from[c]) + late[c]
        BY <2>3, <3>3 DEF Account
      <4>2. /\ now >= asOf[c] => r <= tokens[c] + (now - asOf[c])
            /\ now < asOf[c] => r <= tokens[c]
        BY <1>1, <3>3, <4>1, RefilledFacts
      <4>3. QED
        BY <1>1, <1>2, <2>1, <4>1, <4>2 DEF RateTypeOK, Greatest
    <3>4. QED
      BY <3>1, <3>2, <3>3
  <2>6. Full(c)' = Full(c)
    BY DEF Full
  <2>7. QED
    BY <2>1, <2>2, <2>4, <2>5, <2>6 DEF Account
<1>8. Promise(c)'
  <2>1. CASE Allow(c, now)
    BY <1>1, <2>1 DEF check_at, ObserveCheck, RateTypeOK, Promise
  <2>2. CASE ~Allow(c, now)
    <3>1. /\ last_refill'[c] = now /\ tokens'[c] = r
          /\ retryAt'[c] = IF retryAt[c] = 0 THEN due ELSE Least(retryAt[c], due)
      BY <1>1, <1>2, <2>2 DEF check_at, ObserveCheck, RateTypeOK
    <3>2. c \in held /\ r = tokens[c] + Elapsed(c, now)
      BY <1>1, <2>2, RefilledFacts
    <3>3. Promise(c)
      BY DEF RInv
    <3>4. retryAt[c] # 0 => r + (retryAt[c] - now) >= Cost[c]
      BY <1>1, <3>2, <3>3 DEF Promise, Elapsed, Greatest, RateTypeOK
    <3>5. QED
      BY <1>1, <1>2, <1>3, <2>2, <3>1, <3>4 DEF Promise, Least, RateTypeOK
  <2>3. QED
    BY <2>1, <2>2
<1>9. QED
  BY <1>5, <1>6, <1>7, <1>8 DEF RInv

(***************************************************************************)
(* The sweep keeps the invariant: the entries that it drops are full, and  *)
(* a bucket without an entry counts as full.                               *)
(***************************************************************************)
LEMMA SweepKeeps ==
    ASSUME RInv, NEW now \in 0 .. clock, evict_idle_at(now)
    PROVE  RInv'
<1> DEFINE gone == {b \in Bucket : Evictable(b, now)}
<1>1. RateTypeOK /\ \A b \in Bucket : Full(b) \in Nat /\ Full(b)' = Full(b)
  BY FullFacts DEF RInv, Full
<1>2. RateTypeOK'
  BY <1>1 DEF evict_idle_at, RateTypeOK, Greatest
<1>3. ASSUME NEW b \in Bucket PROVE Account(b)' /\ Promise(b)'
  <2>1. /\ late' = late /\ spent' = spent /\ from' = from /\ retryAt' = retryAt
        /\ Account(b) /\ Promise(b)
    BY DEF evict_idle_at, RInv
  <2>2. CASE b \notin gone
    <3>1. /\ asOf'[b] = asOf[b] /\ tokens'[b] = tokens[b]
          /\ last_refill'[b] = last_refill[b] /\ (b \in held' <=> b \in held)
      BY <2>2 DEF evict_idle_at
    <3>2. QED
      BY <1>1, <2>1, <3>1 DEF Account, Promise
  <2>3. CASE b \in gone
    <3>1. b \notin held' /\ asOf'[b] = Greatest(asOf[b], now)
      BY <2>3 DEF evict_idle_at
    <3>2. /\ b \in held /\ now > last_refill[b]
          /\ tokens[b] + (now - last_refill[b]) >= Full(b)
      <4>1. b \in held /\ Elapsed(b, now) >= IdleAfter /\ Refilled(b, now) >= Full(b)
        BY <2>3 DEF Evictable
      <4>2. now > last_refill[b]
        BY <1>1, <4>1, RateAssumption DEF Elapsed, Greatest, RateTypeOK
      <4>3. QED
        BY <1>1, <4>1, <4>2, RefilledFacts DEF RateTypeOK
    <3>3. asOf'[b] - from[b] + late[b] >= 0
      BY <1>1, <2>1, <3>1 DEF Account, Greatest, RateTypeOK
    <3>4. spent[b] # 0 => spent[b] <= (asOf'[b] - from[b]) + late[b]
      <4>1. SUFFICES ASSUME spent[b] # 0
                     PROVE  spent[b] <= (asOf'[b] - from[b]) + late[b]
        OBVIOUS
      <4>2. /\ last_refill[b] = asOf[b]
            /\ spent[b] + tokens[b] <= Full(b) + (asOf[b] - from[b]) + late[b]
        BY <2>1, <3>2, <4>1 DEF Account
      <4>3. QED
        BY <1>1, <3>1, <3>2, <4>2 DEF Greatest, RateTypeOK
    <3>5. QED
      BY <2>1, <3>1, <3>3, <3>4 DEF Account, Promise
  <2>4. QED
    BY <2>2, <2>3
<1>4. QED
  BY <1>2, <1>3 DEF RInv

(***************************************************************************)
(* Time that passes keeps the invariant.                                   *)
(***************************************************************************)
LEMMA TickKeeps ==
    ASSUME RInv, Tick
    PROVE  RInv'
<1>1. RateTypeOK'
  BY RateAssumption DEF Tick, RInv, RateTypeOK, entryVars, historyVars, Full
<1>2. \A b \in Bucket : Account(b)' /\ Promise(b)'
  BY DEF Tick, RInv, Account, Promise, entryVars, historyVars, Full
<1>3. QED
  BY <1>1, <1>2 DEF RInv

(***************************************************************************)
(* A window that starts afresh keeps the invariant: the bucket holds at    *)
(* most its burst.                                                         *)
(***************************************************************************)
LEMMA OpenKeeps ==
    ASSUME RInv, NEW c \in Bucket, OpenWindow(c)
    PROVE  RInv'
<1>1. RateTypeOK'
  BY DEF OpenWindow, RInv, RateTypeOK, entryVars, Full
<1>2. ASSUME NEW b \in Bucket PROVE Account(b)' /\ Promise(b)'
  <2>1. Promise(b)'
    BY DEF OpenWindow, RInv, Promise, entryVars
  <2>2. CASE b = c
    BY <2>1, <2>2 DEF OpenWindow, RInv, RateTypeOK, Account, entryVars
  <2>3. CASE b # c
    BY <2>1, <2>3 DEF OpenWindow, RInv, RateTypeOK, Account, entryVars, Full
  <2>4. QED
    BY <2>2, <2>3
<1>3. QED
  BY <1>1, <1>2 DEF RInv

(***************************************************************************)
(* The invariant gives the two properties.                                 *)
(***************************************************************************)
LEMMA RInvWithinRate == RInv => WithinRate
<1> SUFFICES ASSUME RInv, NEW b \in Bucket
             PROVE  spent[b] <= Full(b) + (clock - from[b]) + late[b]
  BY DEF WithinRate
<1>1. RateTypeOK /\ Account(b) /\ Full(b) \in Nat
  BY FullFacts DEF RInv
<1>2. QED
  BY <1>1 DEF RateTypeOK, Account

(***************************************************************************)
(* By its promise a bucket has a token when the Retry-After is over.       *)
(***************************************************************************)
LEMMA RInvRetryAfter == RInv => RetryAfterSuffices
<1> SUFFICES ASSUME RInv, NEW b \in Bucket, retryAt[b] # 0, clock >= retryAt[b]
             PROVE  Allow(b, clock)
  BY DEF RetryAfterSuffices
<1>1. RateTypeOK /\ Promise(b) /\ Full(b) \in Nat /\ Cost[b] \in Nat /\ Full(b) >= Cost[b]
  BY FullFacts DEF RInv
<1>2. QED
  BY <1>1 DEF RateTypeOK, Promise, Allow, Refilled, Elapsed, Least, Greatest

(***************************************************************************)
(* Every step keeps the invariant.                                         *)
(***************************************************************************)
LEMMA RInvInductive == RInv /\ [RateNext]_rateVars => RInv'
<1> SUFFICES ASSUME RInv, [RateNext]_rateVars PROVE RInv'
  OBVIOUS
<1>1. CASE RateNext
  BY <1>1, CheckKeeps, SweepKeeps, TickKeeps, OpenKeeps DEF RateNext
<1>2. CASE UNCHANGED rateVars
  BY <1>2 DEF rateVars, entryVars, historyVars, RInv, RateTypeOK, Account, Promise, Full
<1>3. QED
  BY <1>1, <1>2

(***************************************************************************)
(* For every set of buckets, rate, burst and idle threshold: the state of  *)
(* the limiter is well typed, and no bucket holds more than its burst.     *)
(***************************************************************************)
THEOREM RateTypeCorrect == RateSpec => []RateTypeOK
<1>1. RInv => RateTypeOK
  BY DEF RInv
<1>2. QED
  BY <1>1, RInvInit, RInvInductive, PTL DEF RateSpec

(***************************************************************************)
(* check_at and evict_idle_at never grant more than the burst and the      *)
(* refill of a window, plus what checks went back.                         *)
(***************************************************************************)
THEOREM RateBounded == RateSpec => []WithinRate
BY RInvInit, RInvInductive, RInvWithinRate, PTL DEF RateSpec

(***************************************************************************)
(* The Retry-After of a denial is always long enough.                      *)
(***************************************************************************)
THEOREM RetryAfterHonest == RateSpec => []RetryAfterSuffices
BY RInvInit, RInvInductive, RInvRetryAfter, PTL DEF RateSpec
=============================================================================
