-------------------------- MODULE MCResponseCache ---------------------------
(***************************************************************************)
(* ResponseCache for TLC, under four workloads: one key for long enough    *)
(* that the stale window can be exceeded, of an origin that fails and of   *)
(* one that is refreshed in the background; one key with clients and       *)
(* variants that must be told apart; and two keys whose large replies do   *)
(* not fit the store together, one of them the key of HEAD requests.  The  *)
(* location of the first key honours the client's directives.              *)
(***************************************************************************)
EXTENDS ResponseCache

CONSTANTS a, b, x, y, alice, bob, nobody

VARIABLE load  \* the workload

MCKey == {a, b}
MCHeadKey == {b}
MCHonorKey == {a}
MCMaxVersion == [k \in MCKey |-> IF k = a THEN 2 ELSE 1]

Get(k) ==
    [key |-> k, lines |-> <<x>>, who |-> nobody, auth |-> FALSE, no_store |-> FALSE,
     no_cache |-> FALSE, only_if_cached |-> FALSE, max_age |-> Unset, min_fresh |-> Unset,
     max_stale |-> Unset]

Plain ==
    [status |-> "ok", storable |-> TRUE, public |-> FALSE, varies |-> FALSE, max_age |-> Unset,
     age |-> 0, swr |-> 0, sie |-> 0, etag |-> FALSE, length |-> 1]

Failure == [Plain EXCEPT !.status = "error"]

Errors ==
    [requests |-> {Get(a)},
     replies |-> {[Plain EXCEPT !.sie = 2], Failure},
     time |-> 5]

Refreshes ==
    [requests |-> {Get(a),
                   [Get(a) EXCEPT !.max_stale = 0, !.min_fresh = 1],
                   [Get(a) EXCEPT !.max_stale = AnyStale, !.max_age = 0, !.only_if_cached = TRUE]},
     replies |-> {[Plain EXCEPT !.swr = 1, !.sie = 2, !.max_age = 4, !.etag = TRUE], Failure},
     time |-> 5]

Clients ==
    [requests |-> {Get(a),
                   [Get(a) EXCEPT !.lines = <<Opaque>>, !.who = alice, !.auth = TRUE,
                                  !.no_cache = TRUE],
                   [Get(a) EXCEPT !.lines = <<>>, !.who = bob, !.auth = TRUE],
                   [Get(a) EXCEPT !.lines = <<x, y>>, !.who = bob]},
     replies |-> {[Plain EXCEPT !.varies = TRUE, !.public = TRUE, !.etag = TRUE],
                  [Plain EXCEPT !.storable = FALSE, !.varies = TRUE],
                  Plain},
     time |-> 1]

Budget ==
    [requests |-> {Get(a), [Get(a) EXCEPT !.no_store = TRUE],
                   [Get(b) EXCEPT !.no_store = TRUE, !.no_cache = TRUE, !.max_age = 0]},
     replies |-> {[Plain EXCEPT !.swr = 2, !.length = 2],
                  [Plain EXCEPT !.age = 1, !.etag = TRUE],
                  [Plain EXCEPT !.length = 3]},
     time |-> 2]

MCRequest == Errors.requests \cup Refreshes.requests \cup Clients.requests \cup Budget.requests
MCReply == Errors.replies \cup Refreshes.replies \cup Clients.replies \cup Budget.replies

MCInit == Init /\ load \in {Errors, Refreshes, Clients, Budget}

MCNext == Steps(load.requests, load.replies) /\ clock' <= load.time /\ UNCHANGED load

MCSpec == MCInit /\ [][MCNext]_<<vars, load>>

Symmetry == Permutations(Task)
=============================================================================
