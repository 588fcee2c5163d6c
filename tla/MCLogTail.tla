----------------------------- MODULE MCLogTail -----------------------------
(* Records of two iterations and the queries of a user of `loop journal`.  *)
EXTENDS LogTail

PartOf(text, part) == text = part \/ <<text, part>> = <<12, 2>>

TwoIterations == {[iteration |-> 2, type |-> 5], [iteration |-> 12, type |-> 6]}

Iteration(n) == Filter(<<Predicate("iteration", "=", n)>>, <<>>)

\* No clause; --iteration 2; a filter and --iteration 12; sort and limit; a
\* disjunction that only its reading from the left makes false.
UserQueries ==
  { <<>>,
    <<Iteration(2)>>,
    <<Filter(<<Predicate("type", "!=", 6)>>, <<>>), Iteration(12)>>,
    <<Filter(<<Predicate("iteration", "like", 2)>>, <<>>), Sort("type", TRUE), Limit(1)>>,
    <<Filter(<<Predicate("type", "=", 5), Predicate("iteration", "=", 2),
               Predicate("type", "=", 6)>>, <<"or", "and">>)>> }
=============================================================================
