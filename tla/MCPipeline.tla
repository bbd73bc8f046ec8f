---------------------------- MODULE MCPipeline -----------------------------
(***************************************************************************)
(* Instances of Pipeline: locations, policies, limits and the requests.    *)
(***************************************************************************)
EXTENDS Pipeline, TLC

Slots == Permutations(Slot)

MCGroups == [ann |-> {"staff"}, bob |-> {}]

\* A grant that asks for no identity, a conjunction that a challenge must
\* stop, a negation that turns one into a match, a denial, a grant to the
\* anonymous, one by name, and a denial with code 401 for anyone else.
MCPolicy ==
    [open |-> NoPolicy,
     shop |-> << [pred |-> Country({"ZZ"}), action |-> "allow"],
                 [pred |-> And(<<Address({"in"}), Group({"staff"})>>), action |-> "allow"],
                 [pred |-> And(<<Not(Authenticated), Country({"XX"})>>), action |-> "redirect"],
                 [pred |-> Country({"XX"}), action |-> "deny"],
                 [pred |-> And(<<Not(Authenticated), Address({"out"})>>), action |-> "allow"],
                 [pred |-> User({"ann"}), action |-> "allow"],
                 [pred |-> Authenticated, action |-> "challenge"] >>]

MCNeedsPrincipal == {"shop"}
MCRateLimits == [open |-> <<"who">>, shop |-> <<"ip", "who">>]
MCKeyKind == [ip |-> "client-ip", who |-> "user"]
MCBucket == {<<"ip", "in">>, <<"ip", "out">>, <<"who", "">>, <<"who", "ann">>, <<"who", "bob">>}

\* A limit by user refills in a tick, one by address in three: 2 ticks of
\* clock suffice for a Retry-After that comes due and for a sweep.
MCCost == [b \in Bucket |-> IF b[1] = "ip" THEN 3 ELSE 1]
MCBurst == [b \in Bucket |-> 1]

Plain == [path |-> "open", user |-> "ann", host |-> "ok", size |-> "small",
          method_ok |-> TRUE, peer |-> "in", country |-> "YY", token |-> FALSE,
          cert |-> FALSE, bearer |-> FALSE, sid |-> FALSE, basic |-> FALSE,
          html |-> FALSE, api_key |-> ""]
Shop == [Plain EXCEPT !.path = "shop"]

Early ==
    {[Plain EXCEPT !.host = "bad"], [Plain EXCEPT !.size = "huge"],
     [Plain EXCEPT !.path = "health"], [Plain EXCEPT !.path = "login"],
     [Plain EXCEPT !.path = "callback"], [Plain EXCEPT !.host = "missing"],
     [Plain EXCEPT !.path = "backchannel", !.method_ok = FALSE],
     [Plain EXCEPT !.path = "nowhere"]}

Routed ==
    {[Plain EXCEPT !.bearer = TRUE], [Shop EXCEPT !.basic = TRUE, !.html = TRUE],
     [Shop EXCEPT !.cert = TRUE], [Shop EXCEPT !.sid = TRUE, !.basic = TRUE],
     [Shop EXCEPT !.token = TRUE, !.size = "large"],
     [Shop EXCEPT !.peer = "out", !.country = "XX", !.basic = TRUE],
     [Shop EXCEPT !.country = "ZZ", !.cert = TRUE, !.basic = TRUE],
     [Shop EXCEPT !.peer = "out", !.basic = TRUE, !.user = "bob", !.html = TRUE]}

MCInput == Early \cup Routed

\* The location of the guide's example: a limit by user and no policy.
ApiPolicy == [api |-> NoPolicy]
ApiRateLimits == [api |-> <<"who">>]
ApiInput ==
    {[Plain EXCEPT !.path = "api", !.token = TRUE, !.user = u] : u \in {"ann", "bob"}}
=============================================================================
