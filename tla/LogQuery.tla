------------------------------ MODULE LogQuery ------------------------------
(***************************************************************************)
(* The query of `mini job logs` and `mini loop logs|journal`               *)
(* (logging/log_query.py) and what the JSONL backend makes of it           *)
(* (logging/backend.py): parse, filter one record, search a file.          *)
(*                                                                         *)
(* A record maps field names to texts; a text is a number, ordered as the  *)
(* texts are, 0 the empty one.  A query is a sequence of clauses.  The     *)
(* grammar, the projection to `fields` and the match on the whole record   *)
(* (@message) are left out.                                                *)
(***************************************************************************)
EXTENDS Integers, Sequences, FiniteSets, SequencesExt

CONSTANT HasPart(_, _)   \* the first text has the second as a part

Text(rec, f) == IF f \in DOMAIN rec THEN rec[f] ELSE 0

Predicate(f, op, v) == [field |-> f, op |-> op, value |-> v]
Filter(preds, connectors) ==
  [verb |-> "filter", predicates |-> preds, connectors |-> connectors]
Sort(key, desc) == [verb |-> "sort", key |-> key, desc |-> desc]
Limit(n) == [verb |-> "limit", n |-> n]

NoFilter == [predicates |-> <<>>, connectors |-> <<>>]
EmptyQuery == [filters |-> NoFilter, key |-> "timestamp", desc |-> FALSE, limit |-> -1]

\* One clause after the other; a later one of the same verb replaces the first.
Parse(clauses) ==
  FoldLeft(LAMBDA q, c :
             CASE c.verb = "filter" ->
                    [q EXCEPT !.filters = [predicates |-> c.predicates,
                                           connectors |-> c.connectors]]
               [] c.verb = "sort" -> [q EXCEPT !.key = c.key, !.desc = c.desc]
               [] c.verb = "limit" -> [q EXCEPT !.limit = c.n],
           EmptyQuery, clauses)

Holds(pred, rec) ==
  LET actual == Text(rec, pred.field) IN
  CASE pred.op = "=" -> actual = pred.value
    [] pred.op = "!=" -> actual # pred.value
    [] pred.op = "like" -> HasPart(actual, pred.value)

\* Left to right: `a or b and c` is `(a or b) and c`.
FilterOk(filters, rec) ==
  LET preds == filters.predicates
      join(sofar, i) ==
        IF filters.connectors[i] = "and" THEN sofar /\ Holds(preds[i + 1], rec)
        ELSE sofar \/ Holds(preds[i + 1], rec)
  IN  FoldLeft(join, Holds(preds[1], rec), [i \in 1..(Len(preds) - 1) |-> i])

Matches(q, rec) == q.filters = NoFilter \/ FilterOk(q.filters, rec)

\* The stable order of the indexes of recs by one field.
Before(recs, key, desc, i, j) ==
  LET a == Text(recs[i], key)  b == Text(recs[j], key) IN
  IF a = b THEN i < j ELSE IF desc THEN a > b ELSE a < b

\* The elements of a finite set, each at the place its predecessors leave it.
Listing(S, before) ==
  [n \in 1..Cardinality(S) |-> CHOOSE x \in S : Cardinality(before[x]) = n - 1]

\* The indexes of recs that a search returns: filtered, sorted, cut.
Search(q, recs) ==
  LET hits == {i \in DOMAIN recs : Matches(q, recs[i])}
      sorted == Listing(hits, [i \in hits |-> {j \in hits : Before(recs, q.key, q.desc, j, i)}])
  IN  IF q.limit < 0 \/ q.limit >= Cardinality(hits) THEN sorted
      ELSE [n \in 1..q.limit |-> sorted[n]]
=============================================================================
