------------------------------- MODULE Access -------------------------------
(***************************************************************************)
(* Access policies (src/src/access.rs): a list of rules, each a predicate  *)
(* and an action.  A predicate on the client's identity asks for the       *)
(* principal, at most once per request, and one that is asked of an        *)
(* anonymous client neither matches nor fails: it is a challenge.  The     *)
(* outcome of a challenge is Deny(401), so a rule whose action is to deny  *)
(* with that code has the action "challenge".                              *)
(*                                                                         *)
(* A client q has the fields peer and country; a principal is Anonymous or *)
(* a record of username and groups.                                        *)
(***************************************************************************)
EXTENDS Naturals, Sequences, FiniteSetsExt

Anonymous == [username |-> "", groups |-> {}]

\* The predicates, as the parser builds them.
Address(nets) == [op |-> "address", of |-> nets]
Country(codes) == [op |-> "country", of |-> codes]
Authenticated == [op |-> "authenticated", of |-> {}]
User(names) == [op |-> "user", of |-> names]
Group(groups) == [op |-> "group", of |-> groups]
Not(inner) == [op |-> "not", of |-> inner]
And(preds) == [op |-> "and", of |-> preds]

Identity == {"authenticated", "user", "group"}

\* What a predicate on the identity says of an authenticated principal.
Fits(pred, p) ==
    \/ pred.op = "authenticated"
    \/ pred.op = "user" /\ p.username \in pred.of
    \/ pred.op = "group" /\ p.groups \cap pred.of # {}

\* Mutant: a challenge does not stop the conjunction.
FirstFailure_SkipsChallenge(results) ==
    LET failed == {i \in DOMAIN results : results[i] = "nomatch"}
    IN  IF failed = {} THEN "match" ELSE results[Min(failed)]

\* The loop of And: the first result that is no match.
FirstFailure(results) ==
    LET failed == {i \in DOMAIN results : results[i] # "match"}
    IN  IF failed = {} THEN "match" ELSE results[Min(failed)]

MatchIf(cond) == IF cond THEN "match" ELSE "nomatch"

RECURSIVE eval_predicate(_, _, _)
eval_predicate(pred, q, p) ==
    CASE pred.op = "address" -> MatchIf(q.peer \in pred.of)
      [] pred.op = "country" -> MatchIf(q.country \in pred.of)
      [] pred.op \in Identity ->
            IF p = Anonymous THEN "challenge" ELSE MatchIf(Fits(pred, p))
      [] pred.op = "not" -> MatchIf(eval_predicate(pred.of, q, p) # "match")
      [] pred.op = "and" ->
            FirstFailure([i \in DOMAIN pred.of |-> eval_predicate(pred.of[i], q, p)])

\* Whether the evaluation comes to ask for the principal.
RECURSIVE Asks(_, _, _)
Asks(pred, q, p) ==
    CASE pred.op \in Identity -> TRUE
      [] pred.op = "not" -> Asks(pred.of, q, p)
      [] pred.op = "and" ->
            \E i \in DOMAIN pred.of :
                /\ Asks(pred.of[i], q, p)
                /\ \A j \in 1 .. i - 1 : eval_predicate(pred.of[j], q, p) = "match"
      [] OTHER -> FALSE

\* The rules that end the evaluation; the first of them does.
Decisive(policy, q, p) ==
    {i \in DOMAIN policy : eval_predicate(policy[i].pred, q, p) # "nomatch"}

evaluate(policy, q, p) ==
    LET decisive == Decisive(policy, q, p) IN
    IF decisive = {} THEN "deny"
    ELSE LET rule == policy[Min(decisive)] IN
         IF eval_predicate(rule.pred, q, p) = "challenge" THEN "challenge"
         ELSE rule.action

AsksPolicy(policy, q, p) ==
    \E i \in DOMAIN policy :
        /\ Asks(policy[i].pred, q, p)
        /\ \A j \in 1 .. i - 1 : j \notin Decisive(policy, q, p)

-----------------------------------------------------------------------------
(***************************************************************************)
(* What a policy means, in two truth values: the reference that the        *)
(* properties use.                                                         *)
(***************************************************************************)
RECURSIVE Holds(_, _, _)
Holds(pred, q, p) ==
    CASE pred.op = "address" -> q.peer \in pred.of
      [] pred.op = "country" -> q.country \in pred.of
      [] pred.op \in Identity -> p # Anonymous /\ Fits(pred, p)
      [] pred.op = "not" -> ~Holds(pred.of, q, p)
      [] pred.op = "and" -> \A i \in DOMAIN pred.of : Holds(pred.of[i], q, p)

\* The first rule that holds allows the request.
Permits(policy, q, p) ==
    \E i \in DOMAIN policy :
        /\ policy[i].action = "allow"
        /\ Holds(policy[i].pred, q, p)
        /\ \A j \in 1 .. i - 1 : ~Holds(policy[j].pred, q, p)
=============================================================================
