--------------------------- MODULE MCLoadBalancer ---------------------------
(***************************************************************************)
(* LoadBalancer on a small pool: a double-weight upstream outside any      *)
(* group and a single-weight one in group grp, a request that may be       *)
(* retried once and one (an upgrade, say) that names the group and has a   *)
(* hash key.                                                               *)
(***************************************************************************)
EXTENDS LoadBalancer, TLC

CONSTANTS key1, grp

MCWeight == (0 :> 2) @@ (1 :> 1)
MCGroup == (0 :> NoGroup) @@ (1 :> grp)
MCHashOf == (key1 :> 2)
MCShapes == {[key |-> NoKey, group |-> NoGroup, max |-> 2],
             [key |-> key1, group |-> grp, max |-> 1]}

Symmetry == Permutations(Request)
=============================================================================
