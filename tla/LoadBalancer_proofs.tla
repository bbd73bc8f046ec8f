------------------------ MODULE LoadBalancer_proofs -------------------------
(***************************************************************************)
(* Proofs about LoadBalancer for every pool, policy, set of requests and   *)
(* threshold.                                                              *)
(***************************************************************************)
EXTENDS LoadBalancer, FiniteSetTheorems, TLAPS

\* The gauge that least-conn is about to divide is that of an upstream with
\* a weight.
Divides == \A r \in Request : req[r].pc = "load" => Weight[Looked(req[r].scan)] > 0

IInv == TypeOK /\ InFlightMatchesGuards /\ Divides

(***************************************************************************)
(* Assigning well-typed values to fields of a request keeps it well typed. *)
(***************************************************************************)
LEMMA SetPc ==
    ASSUME NEW q \in RequestRecord, NEW p \in PC
    PROVE  /\ [q EXCEPT !.pc = p] \in RequestRecord
           /\ [q EXCEPT !.pc = p].pc = p
           /\ [q EXCEPT !.pc = p].up = q.up
BY DEF RequestRecord

(***************************************************************************)
(* The same, for an attempt that got an answer.                            *)
(***************************************************************************)
LEMMA SetStatus ==
    ASSUME NEW q \in RequestRecord, NEW p \in PC,
           NEW s \in Status \cup {"none", "502"}
    PROVE  /\ [q EXCEPT !.pc = p, !.status = s] \in RequestRecord
           /\ [q EXCEPT !.pc = p, !.status = s].pc = p
           /\ [q EXCEPT !.pc = p, !.status = s].up = q.up
BY DEF RequestRecord

(***************************************************************************)
(* The same, for a pick that goes on.                                      *)
(***************************************************************************)
LEMMA SetScan ==
    ASSUME NEW q \in RequestRecord, NEW p \in PC, NEW s \in Scan
    PROVE  /\ [q EXCEPT !.pc = p, !.scan = s] \in RequestRecord
           /\ [q EXCEPT !.pc = p, !.scan = s].pc = p
BY DEF RequestRecord

(***************************************************************************)
(* The same, for a request that goes on to its next attempt.               *)
(***************************************************************************)
LEMMA SetAttempt ==
    ASSUME NEW q \in RequestRecord, NEW p \in PC, NEW l \in Status
    PROVE  /\ [q EXCEPT !.pc = p, !.up = NoUpstream, !.attempt = @ + 1,
                        !.last = l, !.status = "none"] \in RequestRecord
           /\ [q EXCEPT !.pc = p, !.up = NoUpstream, !.attempt = @ + 1,
                        !.last = l, !.status = "none"].pc = p
<1> DEFINE n == q.attempt + 1
<1>1. n \in Nat
  BY DEF RequestRecord
<1> HIDE DEF n
<1>2. /\ [q EXCEPT !.pc = p, !.up = NoUpstream, !.attempt = n,
                   !.last = l, !.status = "none"] \in RequestRecord
      /\ [q EXCEPT !.pc = p, !.up = NoUpstream, !.attempt = n,
                   !.last = l, !.status = "none"].pc = p
  BY <1>1 DEF RequestRecord
<1>3. QED
  BY <1>2 DEF n

(***************************************************************************)
(* The points of a request that the actions name are control points.       *)
(***************************************************************************)
LEMMA PCs ==
    /\ {"idle", "collect", "pick", "whole", "visit", "load", "picked", "done"} \subseteq PC
    /\ {"sent", "replied", "eject", "recorded"} \subseteq PC
BY DEF PC, Holding, Scanning

(***************************************************************************)
(* The locals of a pass that has not begun are well typed.                 *)
(***************************************************************************)
LEMMA NoScanTyped == NoScan \in Scan
BY LBAssumption DEF LBAssumption, NoScan, Scan, Groups, Counter

(***************************************************************************)
(* A request that is not in flight is well typed and holds no guard.       *)
(***************************************************************************)
LEMMA IdleTyped ==
    Idle \in RequestRecord /\ Idle.pc \notin Holding \cup {"picked"} /\ Idle.pc = "idle"
<1> DEFINE n == NoScan
<1>1. n \in Scan
  BY NoScanTyped
<1> HIDE DEF n
<1>2. QED
  BY <1>1 DEF Idle, RequestRecord, PC, Holding, Groups, n

(***************************************************************************)
(* A step that replaces one request by a well-typed one keeps the part of  *)
(* the type invariant about requests.                                      *)
(***************************************************************************)
LEMMA RequestsTyped ==
    ASSUME TypeOK,
           NEW r \in Request,
           NEW q \in RequestRecord,
           req' = [req EXCEPT ![r] = q],
           q.pc \in Holding \cup {"picked"} => q.up \in Upstream
    PROVE  /\ req' \in [Request -> RequestRecord]
           /\ \A s \in Request :
                req'[s].pc \in Holding \cup {"picked"} => req'[s].up \in Upstream
BY DEF TypeOK

(***************************************************************************)
(* A step after which no other request is about to divide keeps Divides.   *)
(***************************************************************************)
LEMMA DividesKept ==
    ASSUME IInv,
           NEW r \in Request,
           NEW q \in RequestRecord,
           req' = [req EXCEPT ![r] = q],
           q.pc # "load",
           UNCHANGED policy
    PROVE  Divides'
<1>1. req \in [Request -> RequestRecord]
  BY DEF IInv, TypeOK
<1>2. QED
  BY <1>1 DEF IInv, Divides, Looked

(***************************************************************************)
(* The set of guard holders does not change when a request moves between   *)
(* two program points that agree on holding a guard.                       *)
(***************************************************************************)
LEMMA HoldersSame ==
    ASSUME TypeOK,
           NEW r \in Request,
           NEW q \in RequestRecord,
           req' = [req EXCEPT ![r] = q],
           \/ q.pc \notin Holding /\ req[r].pc \notin Holding
           \/ q.pc \in Holding /\ req[r].pc \in Holding /\ q.up = req[r].up,
           NEW u \in Upstream
    PROVE  Holders(u)' = Holders(u)
BY DEF Holders, TypeOK

(***************************************************************************)
(* Taking a guard adds the request to the holders of its upstream alone.   *)
(***************************************************************************)
LEMMA HoldersJoin ==
    ASSUME TypeOK,
           NEW r \in Request,
           NEW q \in RequestRecord,
           req' = [req EXCEPT ![r] = q],
           q.pc \in Holding,
           req[r].pc \notin Holding,
           NEW u \in Upstream
    PROVE  Holders(u)' = IF u = q.up THEN Holders(u) \cup {r} ELSE Holders(u)
BY DEF Holders, TypeOK

(***************************************************************************)
(* Dropping one removes the request from the holders of its upstream.      *)
(***************************************************************************)
LEMMA HoldersLeave ==
    ASSUME TypeOK,
           NEW r \in Request,
           NEW q \in RequestRecord,
           req' = [req EXCEPT ![r] = q],
           q.pc \notin Holding,
           req[r].pc \in Holding,
           NEW u \in Upstream
    PROVE  Holders(u)' = IF u = req[r].up THEN Holders(u) \ {r} ELSE Holders(u)
BY DEF Holders, TypeOK

(***************************************************************************)
(* Finitely many requests hold a guard on an upstream.                     *)
(***************************************************************************)
LEMMA HoldersFinite == \A u \in Upstream : IsFiniteSet(Holders(u))
BY LBAssumption, FS_Subset DEF Holders, LBAssumption

(***************************************************************************)
(* What an attempt does to the pool's types and to the gauge, action by    *)
(* action.  An action that changes one request and leaves the gauge alone  *)
(* keeps the gauge exact if it keeps the holders.                          *)
(***************************************************************************)
LEMMA GaugeKept ==
    ASSUME IInv,
           NEW r \in Request,
           NEW q \in RequestRecord,
           req' = [req EXCEPT ![r] = q],
           \/ q.pc \notin Holding /\ req[r].pc \notin Holding
           \/ q.pc \in Holding /\ req[r].pc \in Holding /\ q.up = req[r].up,
           UNCHANGED in_flight
    PROVE  InFlightMatchesGuards'
<1>1. \A u \in Upstream : Holders(u)' = Holders(u)
  BY HoldersSame DEF IInv
<1>2. QED
  BY <1>1 DEF IInv, InFlightMatchesGuards

(***************************************************************************)
(* Dropping the guard of a request that held one keeps the gauge exact, and*)
(* the unsigned counter does not go below zero.                            *)
(***************************************************************************)
LEMMA GaugeDropped ==
    ASSUME IInv,
           NEW r \in Request,
           NEW q \in RequestRecord,
           req' = [req EXCEPT ![r] = q],
           q.pc \notin Holding,
           req[r].pc \in Holding,
           DropGuard(r)
    PROVE  InFlightMatchesGuards' /\ in_flight' \in [Upstream -> Nat]
<1>1. req[r].up \in Upstream /\ in_flight \in [Upstream -> Nat]
  BY DEF IInv, TypeOK
<1>2. ASSUME NEW u \in Upstream
      PROVE  in_flight'[u] = Cardinality(Holders(u)') /\ in_flight'[u] \in Nat
  <2>1. CASE u = req[r].up
    <3>1. Holders(u)' = Holders(u) \ {r} /\ r \in Holders(u)
      BY <2>1, HoldersLeave DEF IInv, Holders
    <3>2. /\ IsFiniteSet(Holders(u)')
          /\ Cardinality(Holders(u)') = Cardinality(Holders(u)) - 1
      BY <3>1, HoldersFinite, FS_RemoveElement
    <3>3. Cardinality(Holders(u)') \in Nat
      BY <3>2, FS_CardinalityType
    <3>4. in_flight'[u] = in_flight[u] - 1
      BY <1>1, <2>1 DEF DropGuard
    <3>5. QED
      BY <3>2, <3>3, <3>4 DEF IInv, InFlightMatchesGuards
  <2>2. CASE u # req[r].up
    <3>1. Holders(u)' = Holders(u)
      BY <2>2, HoldersLeave DEF IInv
    <3>2. in_flight'[u] = in_flight[u] /\ in_flight[u] \in Nat
      BY <1>1, <2>2 DEF DropGuard
    <3>3. QED
      BY <3>1, <3>2 DEF IInv, InFlightMatchesGuards
  <2>3. QED
    BY <2>1, <2>2
<1>3. in_flight' \in [Upstream -> Nat]
  <2>1. in_flight' = [u \in Upstream |-> in_flight'[u]]
    BY <1>1 DEF DropGuard
  <2>2. QED
    BY <1>2, <2>1
<1>4. QED
  BY <1>2, <1>3 DEF InFlightMatchesGuards

(***************************************************************************)
(* A pick that returns leaves a well-typed request at "picked" or "done".  *)
(***************************************************************************)
LEMMA PickedTyped ==
    ASSUME TypeOK, NEW r \in Request, NEW u \in Upstream \cup {NoUpstream}, Picked(r, u)
    PROVE  \E q \in RequestRecord :
             /\ req' = [req EXCEPT ![r] = q]
             /\ q.pc \in {"picked", "done"}
             /\ q.pc = "picked" => q.up \in Upstream
<1> USE LBAssumption
<1>t. req[r] \in RequestRecord /\ NoScan \in Scan
  BY NoScanTyped DEF TypeOK
<1> DEFINE s == NoScan
<1>s. s \in Scan
  BY <1>t
<1>1. CASE u = NoUpstream
  <2>1. Exhausted(r) \in Status \cup {"none", "502"}
    BY <1>t DEF Exhausted, RequestRecord
  <2> DEFINE x == Exhausted(r)
             q == [req[r] EXCEPT !.pc = "done", !.up = u, !.status = x, !.scan = s]
  <2>2. req' = [req EXCEPT ![r] = q] /\ x \in Status \cup {"none", "502"}
    BY <1>1, <2>1 DEF Picked
  <2> HIDE DEF x, s
  <2>3. q \in RequestRecord /\ q.pc = "done"
    BY <1>t, <1>s, <2>2, PCs DEF RequestRecord
  <2> HIDE DEF q
  <2>4. QED
    BY <2>2, <2>3
<1>2. CASE u # NoUpstream
  <2> DEFINE q == [req[r] EXCEPT !.pc = "picked", !.up = u, !.scan = s]
  <2>1. req' = [req EXCEPT ![r] = q]
    BY <1>2 DEF Picked
  <2> HIDE DEF s
  <2>2. q \in RequestRecord /\ q.pc = "picked" /\ q.up = u
    BY <1>t, <1>s, PCs DEF RequestRecord
  <2> HIDE DEF q
  <2>3. QED
    BY <1>2, <2>1, <2>2
<1>3. QED
  BY <1>1, <1>2

(***************************************************************************)
(* A pass begins with a well-typed cursor and at its first upstream.       *)
(***************************************************************************)
LEMMA BeginPassTyped ==
    ASSUME TypeOK, NEW r \in Request, NEW g \in Groups, BeginPass(r, g)
    PROVE  /\ rr_counter' \in Counter
           /\ \E q \in RequestRecord : req' = [req EXCEPT ![r] = q] /\ q.pc = "visit"
<1> USE LBAssumption
<1>t. req[r] \in RequestRecord /\ rr_counter \in Counter /\ NoScan \in Scan
  BY NoScanTyped DEF TypeOK
<1>1. Inc(rr_counter) \in Counter
  BY <1>t DEF Inc, Counter, LBAssumption
<1>2. PICK start \in Starts(req[r].key) :
        req' = [req EXCEPT ![r] =
                  [@ EXCEPT !.pc = "visit",
                            !.scan = [NoScan EXCEPT !.pass = g, !.start = start]]]
  BY DEF BeginPass
<1>3. start \in Counter
  <2>1. req[r].key \in Key \cup {NoKey}
    BY <1>t DEF RequestRecord
  <2>2. QED
    BY <1>t, <2>1 DEF Starts, UsesCounter, Counter, LBAssumption
<1> DEFINE s == [NoScan EXCEPT !.pass = g, !.start = start]
           q == [req[r] EXCEPT !.pc = "visit", !.scan = s]
<1>4. s \in Scan
  BY <1>t, <1>3 DEF Scan
<1>5. req' = [req EXCEPT ![r] = q]
  BY <1>2
<1> HIDE DEF s
<1>6. q \in RequestRecord /\ q.pc = "visit"
  BY <1>t, <1>4, PCs, SetScan
<1> HIDE DEF q
<1>7. QED
  BY <1>t, <1>1, <1>5, <1>6 DEF BeginPass

(***************************************************************************)
(* A pass that goes on does so at a control point where no guard is held   *)
(* and no gauge read.                                                      *)
(***************************************************************************)
LEMMA GoOnTyped ==
    ASSUME TypeOK, NEW r \in Request, NEW p \in Scan, GoOn(r, p)
    PROVE  \E q \in RequestRecord :
             /\ req' = [req EXCEPT ![r] = q]
             /\ q.pc \in {"visit", "whole", "picked", "done"}
             /\ q.pc = "picked" => q.up \in Upstream
<1>t. req[r] \in RequestRecord /\ NoScan \in Scan
  BY NoScanTyped DEF TypeOK
<1>1. CASE p.offset + 1 < ScanLen
  <2> DEFINE s == [p EXCEPT !.offset = @ + 1]
             q == [req[r] EXCEPT !.pc = "visit", !.scan = s]
  <2>1. s \in Scan
    BY DEF Scan
  <2>2. req' = [req EXCEPT ![r] = q]
    BY <1>1 DEF GoOn
  <2> HIDE DEF s
  <2>3. q \in RequestRecord /\ q.pc = "visit"
    BY <1>t, <2>1, PCs, SetScan
  <2> HIDE DEF q
  <2>4. QED
    BY <2>2, <2>3
<1>2. CASE ~(p.offset + 1 < ScanLen) /\ p.best = NoUpstream /\ p.pass # NoGroup
  <2> DEFINE s == NoScan
             q == [req[r] EXCEPT !.pc = "whole", !.scan = s]
  <2>1. req' = [req EXCEPT ![r] = q]
    BY <1>2 DEF GoOn
  <2> HIDE DEF s
  <2>2. q \in RequestRecord /\ q.pc = "whole"
    BY <1>t, PCs, SetScan DEF s
  <2> HIDE DEF q
  <2>3. QED
    BY <2>1, <2>2
<1>3. CASE ~(p.offset + 1 < ScanLen) /\ ~(p.best = NoUpstream /\ p.pass # NoGroup)
  <2>1. Picked(r, p.best) /\ p.best \in Upstream \cup {NoUpstream}
    BY <1>3 DEF GoOn, Scan
  <2>2. QED
    BY <2>1, PickedTyped
<1>4. QED
  BY <1>1, <1>2, <1>3

(***************************************************************************)
(* Every step preserves the inductive invariant: the gauge cannot be kept  *)
(* within Nat without knowing that it counts the holders, so the type      *)
(* invariant and the gauge's are proved together.                          *)
(***************************************************************************)
LEMMA Inductive == IInv /\ [Next]_vars => IInv'
<1> SUFFICES ASSUME IInv, [Next]_vars PROVE IInv'
  OBVIOUS
<1> USE LBAssumption
<1>t. TypeOK /\ req \in [Request -> RequestRecord]
  BY DEF IInv, TypeOK
<1>1. ASSUME NEW r \in Request, Enter(r) PROVE IInv'
  <2>1. PICK s \in Shapes : req' = [req EXCEPT ![r] =
          [Idle EXCEPT !.pc = IF s.max = 1 THEN "pick" ELSE "collect",
                       !.key = s.key, !.group = s.group, !.max = s.max]]
    BY <1>1 DEF Enter
  <2> DEFINE q == [Idle EXCEPT !.pc = IF s.max = 1 THEN "pick" ELSE "collect",
                       !.key = s.key, !.group = s.group, !.max = s.max]
  <2>2. q \in RequestRecord /\ q.pc \notin Holding \cup {"picked"} /\ q.pc # "load"
    BY IdleTyped DEF LBAssumption, RequestRecord, PC, Holding
  <2>3. req[r].pc \notin Holding
    BY <1>1 DEF Enter, Holding
  <2> HIDE DEF q
  <2>4. InFlightMatchesGuards'
    BY <1>1, <2>1, <2>2, <2>3, GaugeKept DEF Enter, poolVars, q
  <2>5. TypeOK'
    BY <1>1, <1>t, <2>1, <2>2, RequestsTyped DEF Enter, poolVars, probeVars, TypeOK, q
  <2>6. Divides'
    BY <1>1, <2>1, <2>2, DividesKept DEF Enter, q
  <2>7. QED
    BY <2>4, <2>5, <2>6 DEF IInv
<1>2. ASSUME NEW r \in Request, CollectBody(r) PROVE IInv'
  <2>1. PICK q \in RequestRecord : /\ req' = [req EXCEPT ![r] = q]
                                   /\ q.pc \in {"pick", "done"}
    <3>1. CASE Goto(r, "pick")
      BY <1>t, <3>1, SetPc DEF Goto, PC
    <3>2. CASE req' = [req EXCEPT ![r] = [@ EXCEPT !.pc = "done", !.status = "502"]]
      <4> DEFINE q == [req[r] EXCEPT !.pc = "done", !.status = "502"]
      <4>1. req[r] \in RequestRecord /\ "done" \in PC
        BY <1>t, PCs
      <4>2. q \in RequestRecord /\ q.pc = "done"
        BY <4>1, SetStatus
      <4>3. req' = [req EXCEPT ![r] = q]
        BY <3>2
      <4> HIDE DEF q
      <4>4. QED
        BY <4>2, <4>3
    <3>3. QED
      BY <1>2, <3>1, <3>2 DEF CollectBody
  <2>2. InFlightMatchesGuards'
    BY <1>2, <2>1, GaugeKept DEF CollectBody, poolVars, Holding
  <2>3. TypeOK'
    BY <1>2, <1>t, <2>1, RequestsTyped DEF CollectBody, poolVars, probeVars, TypeOK, Holding
  <2>4. Divides'
    BY <1>2, <2>1, DividesKept DEF CollectBody
  <2>5. QED
    BY <2>2, <2>3, <2>4 DEF IInv
<1>3. ASSUME NEW r \in Request, Pick(r) PROVE IInv'
  <2>1. /\ rr_counter' \in Counter
        /\ \E q \in RequestRecord : /\ req' = [req EXCEPT ![r] = q]
                                    /\ q.pc \in {"visit", "picked", "done"}
                                    /\ q.pc = "picked" => q.up \in Upstream
    <3>1. CASE Picked(r, NoUpstream) /\ UNCHANGED rr_counter
      BY <1>t, <3>1, PickedTyped DEF TypeOK
    <3>2. CASE BeginPass(r, IF Declared(req[r].group) THEN req[r].group ELSE NoGroup)
      <4> DEFINE g == IF Declared(req[r].group) THEN req[r].group ELSE NoGroup
      <4>1. g \in Groups
        BY <1>t DEF RequestRecord, Groups
      <4> HIDE DEF g
      <4>2. BeginPass(r, g)
        BY <3>2 DEF g
      <4>3. QED
        BY <1>t, <4>1, <4>2, BeginPassTyped
    <3>3. QED
      BY <1>3, <3>1, <3>2 DEF Pick
  <2>2. PICK q \in RequestRecord : /\ req' = [req EXCEPT ![r] = q]
                                   /\ q.pc \in {"visit", "picked", "done"}
                                   /\ q.pc = "picked" => q.up \in Upstream
    BY <2>1
  <2>3. InFlightMatchesGuards' /\ Divides'
    BY <1>3, <2>2, GaugeKept, DividesKept DEF Pick, Holding
  <2>4. TypeOK'
    BY <1>3, <1>t, <2>1, <2>2, RequestsTyped DEF Pick, probeVars, TypeOK, Holding
  <2>5. QED
    BY <2>3, <2>4 DEF IInv
<1>4. ASSUME NEW r \in Request, PickWhole(r) PROVE IInv'
  <2>1. /\ rr_counter' \in Counter
        /\ \E q \in RequestRecord : req' = [req EXCEPT ![r] = q] /\ q.pc = "visit"
    BY <1>4, <1>t, BeginPassTyped DEF PickWhole, Groups
  <2>2. PICK q \in RequestRecord : req' = [req EXCEPT ![r] = q] /\ q.pc = "visit"
    BY <2>1
  <2>3. InFlightMatchesGuards' /\ Divides'
    BY <1>4, <2>2, GaugeKept, DividesKept DEF PickWhole, Holding
  <2>4. TypeOK'
    BY <1>4, <1>t, <2>1, <2>2, RequestsTyped DEF PickWhole, probeVars, TypeOK, Holding
  <2>5. QED
    BY <2>3, <2>4 DEF IInv
<1>5. ASSUME NEW r \in Request, Look(r) PROVE IInv'
  <2>1. req[r].scan \in Scan /\ req[r] \in RequestRecord
    BY <1>t DEF RequestRecord
  <2>2. PICK u \in Upstream :
          /\ u = Looked(req[r].scan)
          /\ IF AvailableTo(u, req[r].scan) /\ InPass(u, req[r].scan.pass)
             THEN IF policy = "least-conn" THEN Goto(r, "load") ELSE Picked(r, u)
             ELSE GoOn(r, req[r].scan)
    BY <1>5 DEF Look
  <2>3. CASE Goto(r, "load") /\ Weight[u] > 0
    <3> DEFINE q == [req[r] EXCEPT !.pc = "load"]
    <3>1. q \in RequestRecord /\ q.pc = "load" /\ q.scan = req[r].scan
      BY <2>1, PCs DEF RequestRecord
    <3>2. req' = [req EXCEPT ![r] = q]
      BY <2>3 DEF Goto
    <3> HIDE DEF q
    <3>3. InFlightMatchesGuards'
      BY <1>5, <3>1, <3>2, GaugeKept DEF Look, poolVars, Holding
    <3>4. Divides'
      BY <1>5, <1>t, <2>2, <2>3, <3>1, <3>2 DEF Look, IInv, Divides, Looked
    <3>5. TypeOK'
      BY <1>5, <1>t, <3>1, <3>2, RequestsTyped DEF Look, poolVars, probeVars, TypeOK, Holding
    <3>6. QED
      BY <3>3, <3>4, <3>5 DEF IInv
  <2>4. CASE Picked(r, u) \/ GoOn(r, req[r].scan)
    <3>1. PICK q \in RequestRecord : /\ req' = [req EXCEPT ![r] = q]
                                     /\ q.pc \in {"visit", "whole", "picked", "done"}
                                     /\ q.pc = "picked" => q.up \in Upstream
      BY <1>t, <2>1, <2>4, PickedTyped, GoOnTyped
    <3>2. InFlightMatchesGuards' /\ Divides'
      BY <1>5, <3>1, GaugeKept, DividesKept DEF Look, poolVars, Holding
    <3>3. TypeOK'
      BY <1>5, <1>t, <3>1, RequestsTyped DEF Look, poolVars, probeVars, TypeOK, Holding
    <3>4. QED
      BY <3>2, <3>3 DEF IInv
  <2>5. QED
    BY <2>2, <2>3, <2>4 DEF AvailableTo, IsAvailable
<1>6. ASSUME NEW r \in Request, LoadInFlight(r) PROVE IInv'
  <2>1. req[r].scan \in Scan
    BY <1>t DEF RequestRecord
  <2>2. PICK u \in Upstream :
          /\ u = Looked(req[r].scan)
          /\ GoOn(r, IF Takes(req[r].scan, u)
                     THEN [req[r].scan EXCEPT !.best = u, !.cost = Cost(u)]
                     ELSE req[r].scan)
    BY <1>6 DEF LoadInFlight
  <2>3. Cost(u) \in Nat
    <3>1. Weight[u] \in Nat \ {0} /\ in_flight[u] \in Nat
      BY <1>6, <1>t, <2>2 DEF LoadInFlight, IInv, Divides, TypeOK, LBAssumption
    <3>2. QED
      BY <3>1 DEF Cost
  <2> DEFINE p == IF Takes(req[r].scan, u)
                  THEN [req[r].scan EXCEPT !.best = u, !.cost = Cost(u)]
                  ELSE req[r].scan
  <2>4. p \in Scan
    <3> DEFINE c == Cost(u)
    <3>1. c \in Nat
      BY <2>3
    <3> HIDE DEF c
    <3>2. [req[r].scan EXCEPT !.best = u, !.cost = c] \in Scan
      BY <2>1, <3>1 DEF Scan
    <3>3. QED
      BY <2>1, <3>2 DEF c
  <2>5. GoOn(r, p)
    BY <2>2
  <2> HIDE DEF p
  <2>6. PICK q \in RequestRecord : /\ req' = [req EXCEPT ![r] = q]
                                   /\ q.pc \in {"visit", "whole", "picked", "done"}
                                   /\ q.pc = "picked" => q.up \in Upstream
    BY <1>t, <2>4, <2>5, GoOnTyped
  <2>7. InFlightMatchesGuards' /\ Divides'
    BY <1>6, <2>6, GaugeKept, DividesKept DEF LoadInFlight, poolVars, Holding
  <2>8. TypeOK'
    BY <1>6, <1>t, <2>6, RequestsTyped DEF LoadInFlight, poolVars, probeVars, TypeOK, Holding
  <2>9. QED
    BY <2>7, <2>8 DEF IInv
<1>7. ASSUME NEW r \in Request, InFlightGuard(r) PROVE IInv'
  <2> DEFINE q == [req[r] EXCEPT !.pc = "sent"]
  <2>1. q \in RequestRecord /\ req' = [req EXCEPT ![r] = q]
    BY <1>7, <1>t, SetPc DEF InFlightGuard, Goto, PC, Holding
  <2>2. q.pc = "sent" /\ q.up = req[r].up /\ req[r].up \in Upstream
    BY <1>7, <1>t, SetPc DEF InFlightGuard, TypeOK, PC, Holding
  <2> HIDE DEF q
  <2>3. req[r].pc \notin Holding /\ q.pc \in Holding
    BY <1>7, <2>2 DEF InFlightGuard, Holding
  <2>4. ASSUME NEW u \in Upstream
        PROVE  in_flight'[u] = Cardinality(Holders(u)') /\ in_flight'[u] \in Nat
    <3>1. Holders(u)' = IF u = req[r].up THEN Holders(u) \cup {r} ELSE Holders(u)
      BY <2>1, <2>2, <2>3, HoldersJoin DEF IInv
    <3>2. r \notin Holders(u)
      BY <2>3 DEF Holders
    <3>3. in_flight[u] \in Nat /\ in_flight[u] = Cardinality(Holders(u))
      BY DEF IInv, TypeOK, InFlightMatchesGuards
    <3>4. in_flight'[u] = IF u = req[r].up THEN in_flight[u] + 1 ELSE in_flight[u]
      BY <1>7, <2>2 DEF InFlightGuard, IInv, TypeOK
    <3>5. CASE u = req[r].up
      <4>1. Cardinality(Holders(u) \cup {r}) = Cardinality(Holders(u)) + 1
        BY <3>2, HoldersFinite, FS_AddElement
      <4>2. QED
        BY <3>1, <3>3, <3>4, <3>5, <4>1
    <3>6. CASE u # req[r].up
      BY <3>1, <3>3, <3>4, <3>6
    <3>7. QED
      BY <3>5, <3>6
  <2>5. in_flight' \in [Upstream -> Nat]
    <3>1. in_flight' = [u \in Upstream |-> in_flight'[u]]
      BY <1>7 DEF InFlightGuard, IInv, TypeOK
    <3>2. QED
      BY <2>4, <3>1
  <2>6. TypeOK'
    BY <1>7, <1>t, <2>1, <2>2, <2>5, RequestsTyped DEF InFlightGuard, probeVars, TypeOK
  <2>7. Divides'
    BY <1>7, <2>1, <2>2, DividesKept DEF InFlightGuard
  <2>8. QED
    BY <2>4, <2>6, <2>7 DEF IInv, InFlightMatchesGuards
<1>8. ASSUME NEW r \in Request, Serve(r) PROVE IInv'
  <2>1. PICK q \in RequestRecord : /\ req' = [req EXCEPT ![r] = q]
                                   /\ q.pc \in {"replied"} /\ q.up = req[r].up
    <3>1. PICK s \in Answers :
            req' = [req EXCEPT ![r] = [@ EXCEPT !.pc = "replied", !.status = s]]
      BY <1>8 DEF Serve
    <3> DEFINE q == [req[r] EXCEPT !.pc = "replied", !.status = s]
    <3>2. req[r] \in RequestRecord /\ "replied" \in PC /\ s \in Status \cup {"none", "502"}
      BY <1>t, PCs DEF LBAssumption
    <3>3. q \in RequestRecord /\ q.pc = "replied" /\ q.up = req[r].up
      BY <3>2 DEF RequestRecord
    <3>4. req' = [req EXCEPT ![r] = q]
      BY <3>1
    <3> HIDE DEF q
    <3>5. QED
      BY <3>3, <3>4
  <2>2. req[r].up \in Upstream /\ req[r].pc \in Holding
    BY <1>8, <1>t DEF Serve, TypeOK, Holding
  <2>3. InFlightMatchesGuards'
    BY <1>8, <2>1, <2>2, GaugeKept DEF Serve, poolVars, Holding
  <2>4. TypeOK'
    BY <1>8, <1>t, <2>1, <2>2, RequestsTyped DEF Serve, poolVars, probeVars, TypeOK, LBAssumption
  <2>5. Divides'
    BY <1>8, <2>1, DividesKept DEF Serve
  <2>6. QED
    BY <2>3, <2>4, <2>5 DEF IInv
<1>9. ASSUME NEW r \in Request, Cancel(r) PROVE IInv'
  <2>1. /\ Idle \in RequestRecord /\ Idle.pc \notin Holding \cup {"picked"}
        /\ Idle.pc # "load"
    BY IdleTyped
  <2>2. InFlightMatchesGuards' /\ in_flight' \in [Upstream -> Nat]
    <3>1. CASE req[r].pc = "collect" /\ UNCHANGED in_flight
      <4>1. req[r].pc \notin Holding
        BY <3>1 DEF Holding
      <4>2. QED
        BY <1>9, <2>1, <3>1, <4>1, GaugeKept DEF Cancel, IInv, TypeOK
    <3>2. CASE req[r].pc = "sent" /\ DropGuard(r)
      BY <1>9, <2>1, <3>2, GaugeDropped DEF Cancel, Holding
    <3>3. QED
      BY <1>9, <3>1, <3>2 DEF Cancel
  <2>3. TypeOK'
    BY <1>9, <1>t, <2>1, <2>2, RequestsTyped DEF Cancel, probeVars, TypeOK
  <2>4. Divides'
    BY <1>9, <2>1, DividesKept DEF Cancel
  <2>5. QED
    BY <2>2, <2>3, <2>4 DEF IInv
<1>10. ASSUME NEW r \in Request, RecordSuccess(r) PROVE IInv'
  <2>1. PICK q \in RequestRecord : /\ req' = [req EXCEPT ![r] = q]
                                   /\ q.pc \in {"recorded"} /\ q.up = req[r].up
    BY <1>10, <1>t, SetPc DEF RecordSuccess, Goto, PC, Holding
  <2>2. req[r].up \in Upstream /\ req[r].pc \in Holding
    BY <1>10, <1>t DEF RecordSuccess, TypeOK, Holding
  <2>3. InFlightMatchesGuards'
    BY <1>10, <2>1, <2>2, GaugeKept DEF RecordSuccess, poolVars, Holding
  <2>4. TypeOK'
    BY <1>10, <1>t, <2>1, <2>2, RequestsTyped DEF RecordSuccess, poolVars, probeVars, TypeOK, LBAssumption
  <2>5. Divides'
    BY <1>10, <2>1, DividesKept DEF RecordSuccess
  <2>6. QED
    BY <2>3, <2>4, <2>5 DEF IInv
<1>11. ASSUME NEW r \in Request, CountFailure(r) PROVE IInv'
  <2>1. PICK q \in RequestRecord : /\ req' = [req EXCEPT ![r] = q]
                                   /\ q.pc \in {"eject", "recorded"} /\ q.up = req[r].up
    <3>1. PICK p \in {"eject", "recorded"} : Goto(r, p)
      BY <1>11 DEF CountFailure
    <3>2. QED
      <4> DEFINE q == [req[r] EXCEPT !.pc = p]
      <4>1. req[r] \in RequestRecord /\ p \in PC
        BY <1>t, PCs
      <4>2. q \in RequestRecord /\ q.pc = p /\ q.up = req[r].up
        BY <4>1, SetPc
      <4>3. req' = [req EXCEPT ![r] = q]
        BY <3>1 DEF Goto
      <4> HIDE DEF q
      <4>4. QED
        BY <4>2, <4>3
  <2>2. req[r].up \in Upstream /\ req[r].pc \in Holding
    BY <1>11, <1>t DEF CountFailure, TypeOK, Holding
  <2>3. InFlightMatchesGuards'
    BY <1>11, <2>1, <2>2, GaugeKept DEF CountFailure, Holding
  <2>4. consecutive_errors' \in [Upstream -> 0 .. EjectAfter]
    BY <1>11, <2>2 DEF CountFailure, IInv, TypeOK, LBAssumption
  <2>5. TypeOK'
    BY <1>11, <1>t, <2>1, <2>2, <2>4, RequestsTyped DEF CountFailure, probeVars, TypeOK
  <2>6. Divides'
    BY <1>11, <2>1, DividesKept DEF CountFailure
  <2>7. QED
    BY <2>3, <2>5, <2>6 DEF IInv
<1>12. ASSUME NEW r \in Request, Eject(r) PROVE IInv'
  <2>1. PICK q \in RequestRecord : /\ req' = [req EXCEPT ![r] = q]
                                   /\ q.pc \in {"recorded"} /\ q.up = req[r].up
    BY <1>12, <1>t, SetPc DEF Eject, Goto, PC, Holding
  <2>2. req[r].up \in Upstream /\ req[r].pc \in Holding
    BY <1>12, <1>t DEF Eject, TypeOK, Holding
  <2>3. InFlightMatchesGuards'
    BY <1>12, <2>1, <2>2, GaugeKept DEF Eject, poolVars, Holding
  <2>4. TypeOK'
    BY <1>12, <1>t, <2>1, <2>2, RequestsTyped DEF Eject, poolVars, probeVars, TypeOK, LBAssumption
  <2>5. Divides'
    BY <1>12, <2>1, DividesKept DEF Eject
  <2>6. QED
    BY <2>3, <2>4, <2>5 DEF IInv
<1>13. ASSUME NEW r \in Request, Decide(r) PROVE IInv'
  <2>1. PICK q \in RequestRecord : /\ req' = [req EXCEPT ![r] = q]
                                   /\ q.pc \in {"pick", "done"}
    <3>1. CASE MayRetry(r)
      <4>1. NextAttempt(r) \in RequestRecord /\ NextAttempt(r).pc = "pick"
        <5>1. req[r] \in RequestRecord /\ "pick" \in PC /\ req[r].status \in Status
          BY <1>t, <3>1, PCs DEF MayRetry, ShouldRetry, Status
        <5>2. QED
          BY <5>1, SetAttempt DEF NextAttempt
      <4>2. QED
        BY <1>13, <1>t, <3>1, <4>1 DEF Decide
    <3>2. CASE ~MayRetry(r)
      <4> DEFINE q == [req[r] EXCEPT !.pc = "done"]
      <4>1. q \in RequestRecord /\ q.pc = "done"
        BY <1>t, PCs, SetPc
      <4>2. req' = [req EXCEPT ![r] = q]
        BY <1>13, <3>2 DEF Decide
      <4> HIDE DEF q
      <4>3. QED
        BY <4>1, <4>2
    <3>3. QED
      BY <3>1, <3>2
  <2>2. InFlightMatchesGuards' /\ in_flight' \in [Upstream -> Nat]
    BY <1>13, <2>1, GaugeDropped DEF Decide, Holding
  <2>3. TypeOK'
    BY <1>13, <1>t, <2>1, <2>2, RequestsTyped DEF Decide, probeVars, TypeOK, Holding
  <2>4. Divides'
    BY <1>13, <2>1, DividesKept DEF Decide
  <2>5. QED
    BY <2>2, <2>3, <2>4 DEF IInv
<1>14. ASSUME NEW r \in Request, Finish(r) PROVE IInv'
  <2>1. /\ Idle \in RequestRecord /\ Idle.pc \notin Holding \cup {"picked"}
        /\ Idle.pc # "load"
    BY IdleTyped
  <2>2. InFlightMatchesGuards'
    BY <1>14, <2>1, GaugeKept DEF Finish, poolVars, Holding
  <2>3. TypeOK'
    BY <1>14, <1>t, <2>1, RequestsTyped DEF Finish, poolVars, probeVars, TypeOK
  <2>4. Divides'
    BY <1>14, <2>1, DividesKept DEF Finish
  <2>5. QED
    BY <2>2, <2>3, <2>4 DEF IInv
<1>15. CASE Probe
  <2>1. probeAt \in Upstream /\ probeAt' \in Upstream
    <3>1. N \in Nat \ {0} /\ probeAt \in 0 .. N - 1 /\ probeAt' = (probeAt + 1) % N
      BY <1>15, <1>t DEF Probe, TypeOK, LBAssumption, Upstream
    <3>2. QED
      BY <3>1 DEF Upstream
  <2>2. /\ healthy' \in [Upstream -> BOOLEAN]
        /\ probe' \in [Upstream -> [failures : 0 .. UnhealthyAfter,
                                    successes : 0 .. HealthyAfter]]
    <3>1. /\ probe[probeAt].failures \in 0 .. UnhealthyAfter
          /\ probe[probeAt].successes \in 0 .. HealthyAfter
      BY <1>t, <2>1 DEF TypeOK
    <3>2. CASE ProbeSucceeds(probeAt)
      <4>1. CapAt(probe[probeAt].successes + 1, HealthyAfter) \in 0 .. HealthyAfter
        BY <3>1 DEF CapAt, LBAssumption
      <4>2. QED
        BY <1>t, <2>1, <3>2, <4>1 DEF ProbeSucceeds, TypeOK, LBAssumption
    <3>3. CASE ProbeFails(probeAt)
      <4>1. CapAt(probe[probeAt].failures + 1, UnhealthyAfter) \in 0 .. UnhealthyAfter
        BY <3>1 DEF CapAt, LBAssumption
      <4>2. QED
        BY <1>t, <2>1, <3>3, <4>1 DEF ProbeFails, TypeOK, LBAssumption
    <3>4. QED
      BY <1>15, <3>2, <3>3 DEF Probe
  <2>3. InFlightMatchesGuards'
    BY <1>15 DEF Probe, poolVars, IInv, InFlightMatchesGuards, Holders
  <2>4. TypeOK'
    BY <1>15, <2>1, <2>2 DEF Probe, poolVars, IInv, TypeOK
  <2>5. Divides'
    BY <1>15 DEF Probe, IInv, Divides, Looked
  <2>6. QED
    BY <2>3, <2>4, <2>5 DEF IInv
<1>16. CASE Tick
  <2>1. ejected_left' \in [Upstream -> 0 .. EjectFor]
    BY <1>16 DEF Tick, IInv, TypeOK, LBAssumption
  <2>2. PICK l \in SUBSET Upstream :
          req' = [r \in Request |->
                    IF req[r].pc \in Scanning
                    THEN [req[r] EXCEPT !.scan = Outdated(@, l)]
                    ELSE req[r]]
    BY <1>16 DEF Tick
  <2>3. ASSUME NEW r \in Request
        PROVE  /\ req'[r] \in RequestRecord
               /\ req'[r].pc = req[r].pc /\ req'[r].up = req[r].up
               /\ req'[r].scan.offset = req[r].scan.offset
               /\ req'[r].scan.start = req[r].scan.start
    <3> DEFINE q == req[r]
               s == Outdated(q.scan, l)
    <3>0. req'[r] = IF req[r].pc \in Scanning
                    THEN [req[r] EXCEPT !.scan = Outdated(@, l)]
                    ELSE req[r]
      BY <2>2, Zenon
    <3>1. q \in RequestRecord
      BY <1>t
    <3>2. q.scan \in Scan
      BY <3>1 DEF RequestRecord
    <3>3. s \in Scan /\ s.offset = q.scan.offset /\ s.start = q.scan.start
      BY <3>2 DEF Scan, Outdated
    <3>4. req'[r] = [q EXCEPT !.scan = s] \/ req'[r] = q
      BY <3>0
    <3> HIDE DEF s, q
    <3>5. /\ [q EXCEPT !.scan = s] \in RequestRecord /\ [q EXCEPT !.scan = s].scan = s
          /\ [q EXCEPT !.scan = s].pc = q.pc /\ [q EXCEPT !.scan = s].up = q.up
      BY <3>1, <3>3 DEF RequestRecord
    <3>6. QED
      BY <3>1, <3>3, <3>4, <3>5 DEF q
  <2>4. req' \in [Request -> RequestRecord]
    <3>1. req' = [r \in Request |-> req'[r]]
      BY <2>2
    <3>2. QED
      BY <2>3, <3>1
  <2>5. InFlightMatchesGuards'
    <3>1. \A u \in Upstream : Holders(u)' = Holders(u)
      BY <2>3 DEF Holders
    <3>2. QED
      BY <1>16, <3>1 DEF Tick, IInv, InFlightMatchesGuards
  <2>6. Divides'
    BY <1>16, <2>3 DEF Tick, IInv, Divides, Looked
  <2>7. TypeOK'
    BY <1>16, <2>1, <2>3, <2>4 DEF Tick, probeVars, IInv, TypeOK
  <2>8. QED
    BY <2>5, <2>6, <2>7 DEF IInv
<1>17. CASE UNCHANGED vars
  BY <1>17 DEF vars, IInv, TypeOK, InFlightMatchesGuards, Holders, Divides, Looked
<1>18. QED
  BY <1>1, <1>2, <1>3, <1>4, <1>5, <1>6, <1>7, <1>8, <1>9,
     <1>10, <1>11, <1>12, <1>13, <1>14, <1>15, <1>16, <1>17
     DEF Next, Progress

(***************************************************************************)
(* The invariant holds at the start: no request, no guard.                 *)
(***************************************************************************)
LEMMA InitiallyExact == Init => IInv
<1> SUFFICES ASSUME Init PROVE IInv
  OBVIOUS
<1>1. TypeOK
  BY LBAssumption, IdleTyped DEF Init, TypeOK, LBAssumption, Counter
<1>2. \A u \in Upstream : Holders(u) = {}
  BY DEF Init, Holders, Idle, Holding
<1>3. InFlightMatchesGuards
  BY <1>2, FS_EmptySet DEF Init, InFlightMatchesGuards
<1>4. Divides
  BY DEF Init, Divides, Idle
<1>5. QED
  BY <1>1, <1>3, <1>4 DEF IInv

(***************************************************************************)
(* The pool and the requests are always well typed; in particular the      *)
(* unsigned in-flight counter never goes below zero.                       *)
(***************************************************************************)
THEOREM TypeCorrect == Spec => []TypeOK
<1>1. IInv => TypeOK
  BY DEF IInv
<1>2. QED
  BY <1>1, InitiallyExact, Inductive, PTL DEF Spec

(***************************************************************************)
(* The in-flight gauge of every upstream is the number of requests holding *)
(* a guard on it, in every reachable state of every pool.                  *)
(***************************************************************************)
THEOREM GaugeExact == Spec => []InFlightMatchesGuards
<1>1. IInv => InFlightMatchesGuards
  BY DEF IInv
<1>2. QED
  BY <1>1, InitiallyExact, Inductive, PTL DEF Spec
=============================================================================
