------------------------ MODULE MCLoadBalancerHistory -----------------------
(***************************************************************************)
(* MCLoadBalancer with the history that properties over several requests   *)
(* need.                                                                   *)
(***************************************************************************)
EXTENDS MCLoadBalancer, Sequences

VARIABLES
    seen,      \* what each pass under way could have seen
    served,    \* the upstream that each value of the cursor led to
    streak     \* failures recorded since the last success, up to EjectAfter

mcVars == <<vars, seen, served, streak>>

Unseen == [ever |-> {}, steady |-> {}, quiet |-> TRUE]

Unserved == [c \in Counter |-> NoUpstream]

MCInit ==
    /\ Init
    /\ seen = [r \in Request |-> Unseen]
    /\ served = Unserved
    /\ streak = [u \in Upstream |-> 0]

Begins(r) == req[r].pc \notin Scanning /\ req'[r].pc \in Scanning

Ends(r) == req[r].pc \in Scanning /\ req'[r].pc \notin Scanning

Records(r) == req[r].pc = "replied" /\ req'[r].pc \in {"eject", "recorded"}

\* Since a pass began: the upstreams that were available at some time, those
\* that were available all the time, and whether nothing that least-conn
\* reads has changed.
NextSeen(r) ==
    LET before == IF Begins(r) THEN [Unseen EXCEPT !.steady = Upstream] ELSE seen[r]
        now == {u \in Upstream : IsAvailable(u)'}
    IN  IF req'[r].pc \notin Scanning THEN Unseen
        ELSE [ever |-> before.ever \cup now,
              steady |-> before.steady \cap now,
              quiet |-> policy = "least-conn" =>
                          /\ before.quiet /\ in_flight' = in_flight
                          /\ \A u \in Upstream : IsAvailable(u)' = IsAvailable(u)]

\* Picks over the whole pool during which nothing in it was unavailable.
Weighted == {u \in Upstream : Weight[u] > 0}

NextServed ==
    [c \in Counter |->
        IF \E r \in Request : Begins(r) /\ (req'[r].scan.start - c) \notin 1 .. RingLen - 1
        THEN NoUpstream
        ELSE IF \E r \in Request :
                  /\ Ends(r) /\ req[r].scan.start = c /\ req[r].scan.pass = NoGroup
                  /\ Weighted \subseteq seen[r].steady
        THEN req'[CHOOSE r \in Request : Ends(r)].up
        ELSE served[c]]

NextStreak(u) ==
    IF \E r \in Request : Records(r) /\ req[r].up = u
    THEN LET r == CHOOSE x \in Request : Records(x)
         IN  IF IsServerError(req[r].status)
             THEN CapAt(streak[u] + 1, EjectAfter) ELSE 0
    ELSE streak[u]

MCNext ==
    /\ Next
    /\ seen' = [r \in Request |-> NextSeen(r)]
    /\ served' = IF policy = "round-robin" THEN NextServed ELSE Unserved
    /\ streak' = [u \in Upstream |-> NextStreak(u)]

MCSpec == MCInit /\ [][MCNext]_mcVars /\ Fairness

(***************************************************************************)
(* Round-robin spreads by weight: RingLen consecutive values of the cursor *)
(* lead to each upstream exactly as often as its weight, in whatever order *)
(* the picks that took them end, if the pool stayed available during each  *)
(* of those picks (weighted_ring and rr_counter in pick_where).  This is   *)
(* so for a turn that does not run over the end of the counter: 2^64 need  *)
(* not be a multiple of the ring's length, and the turn in which it wraps  *)
(* repeats some slots and leaves others out.                               *)
(***************************************************************************)
RoundRobinByWeight ==
    \A c \in 0 .. CounterSpan - RingLen :
        LET turn == c .. c + RingLen - 1
        IN  (\A t \in turn : served[t] # NoUpstream) =>
                \A u \in Upstream : Weight[u] = Cardinality({t \in turn : served[t] = u})

\* The upstreams a pass comes across.  They are all of them unless the start
\* of a ring scan is so high that start + offset wraps around.
OnTheWay(p) ==
    IF policy = "least-conn" THEN Upstream
    ELSE {RingAt(p.start, k) : k \in 0 .. RingLen - 1}

(***************************************************************************)
(* What a pass of pick() may return while prober, failures and other picks *)
(* change the pool under it.  The upstream has a weight, belongs to the    *)
(* group of the pass, and during the pass was healthy at some time and not *)
(* ejected at some time.  A pass comes back with nothing (whereupon pick() *)
(* leaves the group, or answers None) only if every upstream of the group  *)
(* that it came across was unavailable at some time during the pass.  If   *)
(* the pool did not change during the pass, least-conn returns an upstream *)
(* of least load per weight.                                               *)
(***************************************************************************)
PickIsSound ==
    [][\A r \in Request :
         Ends(r) =>
           LET p == req[r].scan
               u == req'[r].up
           IN  IF req'[r].pc = "picked"
               THEN /\ Weight[u] > 0 /\ InPass(u, p.pass)
                    /\ u \in seen[r].ever
                    /\ policy = "least-conn" /\ seen[r].quiet =>
                          \A v \in seen[r].steady :
                              InPass(v, p.pass) => Cost(u) <= Cost(v)
               ELSE \A v \in seen[r].steady \cap OnTheWay(p) : ~InPass(v, p.pass)]_mcVars

(***************************************************************************)
(* record_failure ejects exactly when the upstream's last EjectAfter       *)
(* recorded outcomes, over all requests and threads, are failures: neither *)
(* earlier, nor missed when two failures race.                             *)
(***************************************************************************)
EjectsOnStreak ==
    [][\A r \in Request :
         Records(r) =>
           ((req'[r].pc = "eject") <=>
              (streak'[req[r].up] = EjectAfter))]_mcVars

=============================================================================
