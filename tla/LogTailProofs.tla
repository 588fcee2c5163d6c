--------------------------- MODULE LogTailProofs ---------------------------
(***************************************************************************)
(* Proofs about a log follow, for any records, queries, file and runs: it  *)
(* prints every line once and in order, the last ones included, and with a *)
(* query every record that the query keeps.                                *)
(***************************************************************************)
EXTENDS LogTail, FiniteSetTheorems, TLAPS

-----------------------------------------------------------------------------
(* Lists made of a finite set.                                             *)

LEMMA Ranked ==
  ASSUME NEW S, IsFiniteSet(S), NEW below,
         \A x \in S : below[x] \subseteq S /\ x \notin below[x],
         \A x, y \in S : y \in below[x] => below[y] \subseteq below[x],
         \A x, y \in S : x # y => x \in below[y] \/ y \in below[x]
  PROVE  \E at \in [1..Cardinality(S) -> S] :
           /\ \A i \in 1..Cardinality(S) : at[i] = CHOOSE x \in S : Cardinality(below[x]) = i - 1
           /\ \A x \in S : \E i \in 1..Cardinality(S) : at[i] = x
           /\ \A i, j \in 1..Cardinality(S) : at[i] = at[j] => i = j
<1> DEFINE n == Cardinality(S)
           rank == [x \in S |-> Cardinality(below[x]) + 1]
<1>1. n \in Nat /\ IsFiniteSet(1..n) /\ Cardinality(1..n) = n
  <2>1. n \in Nat
    BY FS_CardinalityType
  <2> HIDE DEF n
  <2>2. IsFiniteSet(1..n) /\ Cardinality(1..n) = IF 1 > n THEN 0 ELSE n - 1 + 1
    BY <2>1, FS_Interval
  <2>3. QED BY <2>1, <2>2
<1>2. ASSUME NEW x \in S
      PROVE  IsFiniteSet(below[x]) /\ Cardinality(below[x]) \in Nat /\ Cardinality(below[x]) < n
  <2>1. below[x] \in SUBSET S
    OBVIOUS
  <2>2. IsFiniteSet(below[x]) /\ Cardinality(below[x]) <= n /\ Cardinality(below[x]) \in Nat
    BY <2>1, FS_Subset, FS_CardinalityType
  <2>3. Cardinality(below[x]) # n
    BY <2>1, FS_Subset
  <2> HIDE DEF n
  <2>4. QED BY <1>1, <2>2, <2>3
<1>3. ASSUME NEW x \in S, NEW y \in S, y \in below[x]
      PROVE  Cardinality(below[y]) < Cardinality(below[x])
  <2>1. below[y] \in SUBSET below[x] /\ below[y] # below[x]
    BY <1>3
  <2>2. Cardinality(below[y]) <= Cardinality(below[x]) /\ Cardinality(below[y]) # Cardinality(below[x])
    BY <1>2, <2>1, FS_Subset
  <2>3. QED BY <1>2, <2>2
<1>4. rank \in [S -> 1..n]
  <2> HIDE DEF n
  <2>1. \A x \in S : Cardinality(below[x]) + 1 \in 1..n
    BY <1>1, <1>2
  <2>2. QED BY <2>1
<1>5. \A x, y \in S : rank[x] = rank[y] => x = y
  <2>1. SUFFICES ASSUME NEW x \in S, NEW y \in S, rank[x] = rank[y], x # y PROVE FALSE
    OBVIOUS
  <2>2. Cardinality(below[x]) = Cardinality(below[y])
    BY <1>2, <2>1
  <2>3. QED BY <1>2, <1>3, <2>1, <2>2
<1>6. rank \in Injection(S, 1..n)
  <2> HIDE DEF rank, n
  <2>1. DOMAIN rank = S
    BY <1>4
  <2>2. QED BY <1>4, <1>5, <2>1 DEF Injection, IsInjective
<1>7. rank \in Surjection(S, 1..n)
  <2> HIDE DEF rank
  <2>1. QED BY <1>1, <1>6, FS_Injection
<1>8. \A i \in 1..n : \E x \in S : rank[x] = i
  <2> HIDE DEF rank, n
  <2>1. QED BY <1>7 DEF Surjection
<1> DEFINE at == [i \in 1..n |-> CHOOSE x \in S : Cardinality(below[x]) = i - 1]
<1>9. ASSUME NEW i \in 1..n PROVE at[i] \in S /\ rank[at[i]] = i
  <2>1. PICK x \in S : rank[x] = i
    BY <1>8
  <2>2. Cardinality(below[x]) = i - 1
    BY <1>2, <2>1
  <2>3. at[i] \in S /\ Cardinality(below[at[i]]) = i - 1
    BY <2>2
  <2> HIDE DEF at
  <2>4. QED BY <2>3
<1>10. \A i \in 1..n : at[i] = CHOOSE x \in S : Cardinality(below[x]) = i - 1
  OBVIOUS
<1>11. at = [i \in 1..n |-> at[i]]
  OBVIOUS
<1> HIDE DEF at, rank, n
<1>12. at \in [1..n -> S]
  BY <1>9, <1>11
<1>13. \A x \in S : rank[x] \in 1..n /\ at[rank[x]] = x
  BY <1>4, <1>5, <1>9
<1>14. \A i, j \in 1..n : at[i] = at[j] => i = j
  BY <1>9
<1>15. QED BY <1>10, <1>12, <1>13, <1>14 DEF n

\* A listing has each element of its set once.
LEMMA ListingIs ==
  ASSUME NEW S, IsFiniteSet(S), NEW before,
         \A x \in S : before[x] \subseteq S /\ x \notin before[x],
         \A x, y \in S : y \in before[x] => before[y] \subseteq before[x],
         \A x, y \in S : x # y => x \in before[y] \/ y \in before[x],
         NEW list, list = Listing(S, before)
  PROVE  /\ DOMAIN list = 1..Cardinality(S) /\ Cardinality(S) \in Nat
         /\ list = [n \in 1..Cardinality(S) |-> list[n]]
         /\ \A n \in 1..Cardinality(S) : list[n] \in S
         /\ \A x \in S : \E n \in 1..Cardinality(S) : list[n] = x
         /\ \A m, n \in 1..Cardinality(S) : list[m] = list[n] => m = n
<1>1. PICK at \in [1..Cardinality(S) -> S] :
        /\ \A i \in 1..Cardinality(S) : at[i] = CHOOSE x \in S : Cardinality(before[x]) = i - 1
        /\ \A x \in S : \E i \in 1..Cardinality(S) : at[i] = x
        /\ \A i, j \in 1..Cardinality(S) : at[i] = at[j] => i = j
  BY Ranked
<1>2. /\ DOMAIN list = 1..Cardinality(S) /\ list = [n \in 1..Cardinality(S) |-> list[n]]
      /\ \A n \in 1..Cardinality(S) : list[n] = at[n]
  BY <1>1 DEF Listing
<1>3. Cardinality(S) \in Nat
  BY FS_CardinalityType
<1>4. QED BY <1>1, <1>2, <1>3

\* A sequence, and how one is known.
IsSeq(s) == Len(s) \in Nat /\ s = [i \in 1..Len(s) |-> s[i]]

LEMMA Listed ==
  ASSUME NEW n \in Nat, NEW s, s = [i \in 1..n |-> s[i]]
  PROVE  IsSeq(s) /\ Len(s) = n /\ DOMAIN s = 1..n
<1> DEFINE S == {s[i] : i \in 1..n}
<1>1. s \in Seq(S)
  OBVIOUS
<1>2. DOMAIN s = 1..n
  OBVIOUS
<1>3. Len(s) = n
  BY <1>1, <1>2
<1>4. QED BY <1>2, <1>3 DEF IsSeq

LEMMA SequenceOf ==
  ASSUME NEW n \in Nat, NEW s, s = [i \in 1..n |-> s[i]], NEW S, \A i \in 1..n : s[i] \in S
  PROVE  s \in Seq(S)
  OBVIOUS

LEMMA JoinedLists ==
  ASSUME NEW m \in Nat, NEW s, s = [i \in 1..m |-> s[i]],
         NEW n \in Nat, NEW t, t = [i \in 1..n |-> t[i]], NEW u, u = s \o t
  PROVE  /\ u = [i \in 1..(m + n) |-> u[i]] /\ DOMAIN u = 1..(m + n) /\ Len(u) = m + n
         /\ \A i \in 1..m : u[i] = s[i]
         /\ \A i \in 1..n : u[m + i] = t[i]
         /\ \A i \in DOMAIN u : i \in 1..m \/ (i - m \in 1..n /\ u[i] = t[i - m])
<1> DEFINE S == {s[i] : i \in 1..m} \cup {t[i] : i \in 1..n}
<1>1. s \in Seq(S) /\ t \in Seq(S)
  <2>1. (\A i \in 1..m : s[i] \in S) /\ (\A i \in 1..n : t[i] \in S)
    OBVIOUS
  <2> HIDE DEF S
  <2>2. QED BY <2>1, SequenceOf
<1>2. Len(s) = m /\ Len(t) = n
  BY Listed
<1> HIDE DEF S
<1>3. u \in Seq(S) /\ Len(u) = m + n
  BY <1>1, <1>2
<1>4. \A i \in 1..(m + n) : u[i] = IF i <= m THEN s[i] ELSE t[i - m]
  BY <1>1, <1>2
<1>5. DOMAIN u = 1..(m + n)
  BY <1>3
<1>6. u = [i \in 1..(m + n) |-> u[i]]
  <2>1. u = [i \in 1..Len(u) |-> u[i]] /\ Len(u) \in Nat
    BY <1>3
  <2>2. QED BY <1>3, <2>1
<1>7. QED BY <1>3, <1>4, <1>5, <1>6

LEMMA JoinedIsSeq == ASSUME NEW s, IsSeq(s), NEW t, IsSeq(t), NEW u, u = s \o t PROVE IsSeq(u)
<1>1. PICK m \in Nat : s = [i \in 1..m |-> s[i]]
  BY DEF IsSeq
<1>2. PICK n \in Nat : t = [i \in 1..n |-> t[i]]
  BY DEF IsSeq
<1>3. u = [i \in 1..(m + n) |-> u[i]]
  BY <1>1, <1>2, JoinedLists
<1>4. PICK l \in Nat : l = m + n
  OBVIOUS
<1>5. u = [i \in 1..l |-> u[i]]
  BY <1>3, <1>4
<1>6. QED BY <1>5, Listed


-----------------------------------------------------------------------------
(* What a search finds and what a follow prints of a piece of the file.    *)

\* A record of the file has its texts, and so has a line that is none.
Texts(rec) == \A f \in DOMAIN rec : rec[f] \in Int

LEMMA TextIsInt == ASSUME NEW rec, Texts(rec), NEW f PROVE Text(rec, f) \in Int
  BY DEF Texts, Text

\* A search finds matching records, each once, and with no limit all of them.
Finds(found, m, q, recs, n) ==
  /\ m \in Nat /\ found = [k \in 1..m |-> found[k]]
  /\ \A k \in 1..m : found[k] \in 1..n
  /\ \A j, k \in 1..m : found[j] = found[k] => j = k
  /\ q.limit < 0 => \A i \in 1..n : Matches(q, recs[i]) => \E k \in 1..m : found[k] = i

LEMMA SearchIs ==
  ASSUME NEW n, n \in Nat, NEW recs, DOMAIN recs = 1..n, \A i \in 1..n : Texts(recs[i]),
         NEW q, q.limit \in Int
  PROVE  \E m : Finds(Search(q, recs), m, q, recs, n)
<1> DEFINE hits == {i \in DOMAIN recs : Matches(q, recs[i])}
           before == [i \in hits |-> {j \in hits : Before(recs, q.key, q.desc, j, i)}]
           sorted == Listing(hits, before)
           c == Cardinality(hits)
           v(i) == Text(recs[i], q.key)
           found == Search(q, recs)
<1>1. IsFiniteSet(hits)
  <2>1. IsFiniteSet(1..n)
    BY FS_Interval
  <2>2. hits \in SUBSET (1..n)
    OBVIOUS
  <2>3. QED BY <2>1, <2>2, FS_Subset
<1>2. \A i \in 1..n : v(i) \in Int
  BY TextIsInt
<1>3. ASSUME NEW i \in hits, NEW j \in hits
      PROVE  j \in before[i] <=> IF v(j) = v(i) THEN j < i
                                 ELSE IF q.desc THEN v(j) > v(i) ELSE v(j) < v(i)
  BY DEF Before
<1>4. \A i \in hits : before[i] \subseteq hits
  OBVIOUS
<1>5. hits \subseteq 1..n /\ \A i \in 1..n : i \in hits <=> Matches(q, recs[i])
  OBVIOUS
<1>6. found = IF q.limit < 0 \/ q.limit >= c THEN sorted ELSE [k \in 1..q.limit |-> sorted[k]]
  BY DEF Search
<1> HIDE DEF hits, before, v, found
<1>7. ASSUME NEW x \in hits PROVE x \in Int /\ v(x) \in Int /\ x \notin before[x]
  <2>1. x \in Int /\ v(x) \in Int
    BY <1>2, <1>5
  <2>2. QED BY <1>3, <2>1
<1>8. ASSUME NEW x \in hits, NEW y \in hits, x # y PROVE x \in before[y] \/ y \in before[x]
  <2>1. x \in Int /\ v(x) \in Int /\ y \in Int /\ v(y) \in Int
    BY <1>7
  <2>2. QED BY <1>3, <1>8, <2>1
<1>9. \A x, y \in hits : y \in before[x] => before[y] \subseteq before[x]
  <2>1. ASSUME NEW x \in hits, NEW y \in hits, y \in before[x], NEW z \in before[y] PROVE z \in before[x]
    <3>1. z \in hits
      BY <1>4, <2>1
    <3>2. v(x) \in Int /\ v(y) \in Int /\ v(z) \in Int /\ x \in Int /\ y \in Int /\ z \in Int
      BY <1>2, <1>5, <3>1
    <3>3. /\ IF v(y) = v(x) THEN y < x ELSE IF q.desc THEN v(y) > v(x) ELSE v(y) < v(x)
          /\ IF v(z) = v(y) THEN z < y ELSE IF q.desc THEN v(z) > v(y) ELSE v(z) < v(y)
      BY <1>3, <2>1, <3>1
    <3>4. IF v(z) = v(x) THEN z < x ELSE IF q.desc THEN v(z) > v(x) ELSE v(z) < v(x)
      BY <3>2, <3>3
    <3>5. QED BY <1>3, <2>1, <3>1, <3>4
  <2>2. QED BY <2>1
<1>10. /\ DOMAIN sorted = 1..c /\ c \in Nat /\ sorted = [k \in 1..c |-> sorted[k]]
       /\ \A k \in 1..c : sorted[k] \in hits
       /\ \A x \in hits : \E k \in 1..c : sorted[k] = x
       /\ \A j, k \in 1..c : sorted[j] = sorted[k] => j = k
  <2>1. sorted = Listing(hits, before) /\ c = Cardinality(hits)
    OBVIOUS
  <2>2. \A x \in hits : before[x] \subseteq hits /\ x \notin before[x]
    BY <1>4, <1>7
  <2> HIDE DEF sorted, c
  <2>3. QED BY ONLY <1>1, <1>8, <1>9, <2>1, <2>2, ListingIs
<1> HIDE DEF sorted, c
<1>11. CASE q.limit < 0 \/ q.limit >= c
  <2>1. found = sorted
    BY <1>6, <1>11
  <2>2. Finds(found, c, q, recs, n)
    BY <1>5, <1>10, <2>1 DEF Finds
  <2>3. QED BY <2>2 DEF found
<1>12. CASE ~(q.limit < 0 \/ q.limit >= c)
  <2>1. found = [k \in 1..q.limit |-> sorted[k]] /\ q.limit \in Nat /\ 1..q.limit \subseteq 1..c
    BY <1>6, <1>10, <1>12
  <2>2. \A k \in 1..q.limit : found[k] = sorted[k]
    BY <2>1
  <2>3. found = [k \in 1..q.limit |-> found[k]]
    BY <2>1
  <2>4. ~(q.limit < 0)
    BY <1>12
  <2>5. Finds(found, q.limit, q, recs, n)
    BY <1>5, <1>10, <2>1, <2>2, <2>3, <2>4 DEF Finds
  <2>6. QED BY <2>5 DEF found
<1>13. QED BY <1>11, <1>12

\* What a query keeps of n pieces read: some of them, in their order and each once.
Pick(e, m, of, pieces, n) ==
  /\ m \in Nat /\ of \in [1..m -> 1..n] /\ e = [k \in 1..m |-> pieces[of[k]]]
  /\ \A j, k \in 1..m : of[j] = of[k] => j = k
  /\ \A i \in 1..n : Matches(follow.query, Parsed(pieces[i])) => \E k \in 1..m : of[k] = i

LEMMA EmittedIs ==
  ASSUME NEW n, n \in Nat, NEW pieces, pieces = [k \in 1..n |-> pieces[k]], ~follow.raw
  PROVE  \E m, of : Pick(Emitted(pieces), m, of, pieces, n)
<1> DEFINE kept == {k \in DOMAIN pieces : Matches(follow.query, Parsed(pieces[k]))}
           before == [k \in kept |-> {j \in kept : j < k}]
           order == Listing(kept, before)
           m == Cardinality(kept)
           e == Emitted(pieces)
<1>0. DOMAIN pieces = 1..n
  OBVIOUS
<1>1. kept \subseteq 1..n /\ \A i \in 1..n : i \in kept <=> Matches(follow.query, Parsed(pieces[i]))
  BY <1>0
<1>2. IsFiniteSet(kept)
  <2>1. IsFiniteSet(1..n)
    BY FS_Interval
  <2>2. kept \in SUBSET (1..n)
    BY <1>1
  <2> HIDE DEF kept
  <2>3. QED BY <2>1, <2>2, FS_Subset
<1>3. e = [k \in DOMAIN order |-> pieces[order[k]]]
  BY DEF Emitted
<1>4. \A x, y \in kept : y \in before[x] <=> y < x
  OBVIOUS
<1>5. \A x \in kept : before[x] \subseteq kept
  OBVIOUS
<1> HIDE DEF kept, before, e
<1>6. \A x \in kept : x \notin before[x]
  BY <1>1, <1>4
<1>7. \A x, y \in kept : x # y => x \in before[y] \/ y \in before[x]
  BY <1>1, <1>4
<1>8. \A x, y \in kept : y \in before[x] => before[y] \subseteq before[x]
  <2>1. ASSUME NEW x \in kept, NEW y \in kept, y \in before[x], NEW z \in before[y] PROVE z \in before[x]
    <3>1. z \in kept
      BY <1>5, <2>1
    <3>2. x \in Int /\ y \in Int /\ z \in Int
      BY <1>1, <3>1
    <3>3. y < x /\ z < y
      BY <1>4, <2>1, <3>1
    <3>4. z < x
      BY <3>2, <3>3
    <3>5. QED BY <1>4, <3>1, <3>4
  <2>2. QED BY <2>1
<1>9. /\ DOMAIN order = 1..m /\ m \in Nat /\ order = [k \in 1..m |-> order[k]]
      /\ \A k \in 1..m : order[k] \in kept
      /\ \A x \in kept : \E k \in 1..m : order[k] = x
      /\ \A j, k \in 1..m : order[j] = order[k] => j = k
  BY <1>2, <1>5, <1>6, <1>7, <1>8, ListingIs
<1> HIDE DEF order, m
<1>10. order \in [1..m -> 1..n]
  BY <1>1, <1>9
<1>11. e = [k \in 1..m |-> pieces[order[k]]]
  BY <1>3, <1>9
<1>12. /\ \A j, k \in 1..m : order[j] = order[k] => j = k
       /\ \A i \in 1..n : Matches(follow.query, Parsed(pieces[i])) => \E k \in 1..m : order[k] = i
  BY <1>1, <1>9
<1>13. m \in Nat
  BY <1>9
<1>14. Pick(e, m, order, pieces, n)
  BY <1>10, <1>11, <1>12, <1>13 DEF Pick
<1>15. QED BY <1>14 DEF e


-----------------------------------------------------------------------------
(* The file, and what a follow has printed of it.                          *)

Ended == IF open THEN Len(file) - 1 ELSE Len(file)

FileInv ==
  /\ open \in BOOLEAN
  /\ file \in Seq([rec : Record, long : BOOLEAN, whole : BOOLEAN])
  /\ Len(file) > 0 /\ (open => file[Len(file)].long)
  /\ closed \in Nat /\ closed <= Ended

\* A position a reader can be at: behind an ended line, or in the middle of a long one.
Position(pos) ==
  /\ pos \in [lines : Nat, head : BOOLEAN] /\ pos.lines <= Ended
  /\ pos.head => pos.lines < Len(file) /\ file[pos.lines + 1].long

Has(s, i, part) == \E k \in DOMAIN s : s[k] = [line |-> i, part |-> part]

\* A raw follow has printed all before its position, each once and in order.
RawShown(s, pos) ==
  /\ \A j, k \in DOMAIN s : s[j] = s[k] => j = k
  /\ \A j, k \in DOMAIN s : j < k => s[j].line <= s[k].line
  /\ \A k \in DOMAIN s :
       /\ s[k].line \in Nat
       /\ s[k].line <= pos.lines \/ (pos.head /\ s[k] = [line |-> pos.lines + 1, part |-> "head"])
  /\ \A i \in 1..pos.lines :
       IF Has(s, i, "whole") THEN ~Has(s, i, "head") /\ ~Has(s, i, "rest")
       ELSE Has(s, i, "head") /\ Has(s, i, "rest")
  /\ pos.head => Has(s, pos.lines + 1, "head")

\* The lines between two that a query wants are on the terminal.
Kept(s, from, to) == \A i \in 1..Len(file) : Wanted(i) /\ from < i /\ i <= to => Has(s, i, "whole")

\* A follow with a query has printed no whole line twice and none it has not come to.
WholeOnce(s, to) ==
  /\ \A j, k \in DOMAIN s : s[j].part = "whole" /\ s[j] = s[k] => j = k
  /\ \A k \in DOMAIN s : s[k].part = "whole" => s[k].line \in Nat /\ s[k].line <= to

Found(s) == follow.query.limit < 0 => Kept(s, 0, follow.searched)

QueryShown(s, pos) ==
  WholeOnce(s, pos.lines) /\ Found(s) /\ Kept(s, follow.opened, pos.lines)

\* What a read finds from a position on.
PartAt(i, pos) ==
  IF pos.head /\ i = pos.lines + 1 THEN "rest"
  ELSE IF open /\ i = Len(file) THEN "head" ELSE "whole"

LEMMA PiecesAre ==
  ASSUME FileInv, NEW pos, Position(pos), NEW pieces, pieces = Pieces(pos), NEW n,
         n = IF pos.head /\ open /\ pos.lines + 1 = Len(file) THEN 0 ELSE Len(file) - pos.lines
  PROVE  /\ IsSeq(pieces) /\ Len(pieces) = n
         /\ \A k \in 1..n : pieces[k] = [line |-> pos.lines + k, part |-> PartAt(pos.lines + k, pos)]
<1>1. Len(file) \in Nat /\ pos.lines \in Nat /\ pos.lines <= Len(file) /\ pos.head \in BOOLEAN
  BY DEF FileInv, Position, Ended
<1>2. n \in Nat
  BY <1>1
<1>3. ASSUME NEW i \in Nat, ~(pos.head /\ open /\ pos.lines + 1 = Len(file))
      PROVE  Piece(i, pos) = [line |-> i, part |-> PartAt(i, pos)]
  <2>1. CASE pos.head /\ i = pos.lines + 1
    BY <1>3, <2>1 DEF Piece, PartAt
  <2>2. CASE open /\ i = Len(file)
    BY <1>3, <2>2 DEF Piece, PartAt
  <2>3. CASE ~(pos.head /\ i = pos.lines + 1) /\ ~(open /\ i = Len(file))
    BY <2>3 DEF Piece, PartAt
  <2>4. QED BY <2>1, <2>2, <2>3
<1>4. pieces = [k \in 1..n |-> Piece(pos.lines + k, pos)]
  <2>1. CASE pos.head /\ open /\ pos.lines + 1 = Len(file)
    <3>1. pieces = <<>> /\ n = 0
      BY <2>1 DEF Pieces
    <3>2. QED BY <3>1
  <2>2. CASE ~(pos.head /\ open /\ pos.lines + 1 = Len(file))
    BY <2>2 DEF Pieces
  <2>3. QED BY <2>1, <2>2
<1>5. pieces = [k \in 1..n |-> pieces[k]]
  BY <1>4
<1>6. ASSUME NEW k \in 1..n
      PROVE  pieces[k] = [line |-> pos.lines + k, part |-> PartAt(pos.lines + k, pos)]
  <2>1. ~(pos.head /\ open /\ pos.lines + 1 = Len(file)) /\ pos.lines + k \in Nat
    BY <1>1, <1>6
  <2>2. pieces[k] = Piece(pos.lines + k, pos)
    BY <1>4
  <2>3. QED BY <1>3, <2>1, <2>2
<1>7. IsSeq(pieces) /\ Len(pieces) = n
  BY <1>2, <1>5, Listed
<1>8. QED BY <1>6, <1>7

\* Where a read of some pieces ends.
Past(i) == IF open /\ i = Len(file) THEN [lines |-> i - 1, head |-> TRUE]
           ELSE [lines |-> i, head |-> FALSE]

LEMMA PositionType ==
  ASSUME NEW n \in Nat, NEW h \in BOOLEAN, NEW p, p = [lines |-> n, head |-> h]
  PROVE  p \in [lines : Nat, head : BOOLEAN]
  OBVIOUS

Read(pos, m, to) ==
  /\ Position(pos) /\ ~(pos.head /\ open /\ pos.lines + 1 = Len(file))
  /\ m \in Nat \ {0} /\ pos.lines + m <= Len(file) /\ to = Past(pos.lines + m)

LEMMA PastIs ==
  ASSUME FileInv, NEW pos, NEW m, NEW to, Read(pos, m, to)
  PROVE  \E e \in Nat \ {0} :
           /\ e = pos.lines + m
           /\ Position(to) /\ to.lines \in Nat /\ (to.lines = e - 1 \/ to.lines = e)
           /\ to.head <=> to.lines = e - 1
           /\ to.head <=> open /\ e = Len(file)
           /\ to.head => PartAt(e, pos) = "head"
           /\ \A k \in 1..m : pos.lines + k <= to.lines =>
                PartAt(pos.lines + k, pos) = IF pos.head /\ k = 1 THEN "rest" ELSE "whole"
<1> DEFINE e == pos.lines + m
<1>0. /\ Position(pos) /\ ~(pos.head /\ open /\ pos.lines + 1 = Len(file))
      /\ m \in Nat \ {0} /\ e <= Len(file) /\ to = Past(e)
  BY DEF Read
<1>1. /\ Len(file) \in Nat /\ pos.lines \in Nat /\ pos.head \in BOOLEAN /\ open \in BOOLEAN
      /\ e \in Nat \ {0} /\ e = pos.lines + m
  BY <1>0 DEF FileInv, Position
<1> HIDE DEF e
<1>2. CASE open /\ e = Len(file)
  <2>1. to = [lines |-> e - 1, head |-> TRUE]
    BY <1>0, <1>2 DEF Past
  <2>2. to.lines = e - 1 /\ to.head = TRUE /\ to \in [lines : Nat, head : BOOLEAN]
    <3>1. e - 1 \in Nat
      BY <1>1
    <3>2. to \in [lines : Nat, head : BOOLEAN]
      BY ONLY <2>1, <3>1, PositionType
    <3>3. to.lines = e - 1
      BY <2>1
    <3>4. to.head = TRUE
      BY <2>1
    <3>5. QED BY <3>2, <3>3, <3>4
  <2>3. file[Len(file)].long
    BY <1>2 DEF FileInv
  <2>4. Position(to)
    <3>1. to.lines + 1 = Len(file) /\ Ended = Len(file) - 1
      BY <1>1, <1>2, <2>2 DEF Ended
    <3>2. to.lines <= Ended /\ to.lines < Len(file) /\ file[to.lines + 1].long
      BY <1>1, <2>2, <2>3, <3>1
    <3>3. QED BY <2>2, <3>2 DEF Position
  <2>5. /\ to.lines \in Nat /\ (to.lines = e - 1 \/ to.lines = e)
        /\ to.head <=> to.lines = e - 1
        /\ to.head <=> open /\ e = Len(file)
    BY <1>1, <1>2, <2>2
  <2>6. to.head => PartAt(e, pos) = "head"
    BY <1>0, <1>1, <1>2, <2>2 DEF PartAt
  <2>7. ASSUME NEW k \in 1..m, pos.lines + k <= to.lines
        PROVE  PartAt(pos.lines + k, pos) = IF pos.head /\ k = 1 THEN "rest" ELSE "whole"
    BY <1>0, <1>1, <1>2, <2>2, <2>7 DEF PartAt
  <2>8. QED BY <1>1, <2>4, <2>5, <2>6, <2>7
<1>3. CASE ~(open /\ e = Len(file))
  <2>1. to = [lines |-> e, head |-> FALSE]
    BY <1>0, <1>3 DEF Past
  <2>2. to.lines = e /\ to.head = FALSE /\ to \in [lines : Nat, head : BOOLEAN]
    <3>1. e \in Nat
      BY <1>1
    <3>2. to \in [lines : Nat, head : BOOLEAN]
      BY ONLY <2>1, <3>1, PositionType
    <3>3. to.lines = e
      BY <2>1
    <3>4. to.head = FALSE
      BY <2>1
    <3>5. QED BY <3>2, <3>3, <3>4
  <2>3. e <= Ended
    BY <1>0, <1>1, <1>3 DEF Ended
  <2>4. Position(to)
    BY <2>2, <2>3 DEF Position
  <2>5. /\ to.lines \in Nat /\ (to.lines = e - 1 \/ to.lines = e)
        /\ to.head <=> to.lines = e - 1
        /\ to.head <=> open /\ e = Len(file)
    BY <1>1, <1>3, <2>2
  <2>6. to.head => PartAt(e, pos) = "head"
    BY <1>0, <1>1, <1>3, <2>2 DEF PartAt
  <2>7. ASSUME NEW k \in 1..m, pos.lines + k <= to.lines
        PROVE  PartAt(pos.lines + k, pos) = IF pos.head /\ k = 1 THEN "rest" ELSE "whole"
    BY <1>0, <1>1, <1>3, <2>2, <2>7 DEF PartAt
  <2>8. QED BY <1>1, <2>4, <2>5, <2>6, <2>7
<1>4. QED BY <1>2, <1>3

\* A read of the next m pieces keeps what a raw follow promises.
LEMMA RawReads ==
  ASSUME FileInv, NEW pos, NEW m, NEW to, Read(pos, m, to),
         NEW ps, ps = [k \in 1..m |-> ps[k]],
         \A k \in 1..m : ps[k] = [line |-> pos.lines + k, part |-> PartAt(pos.lines + k, pos)],
         NEW l \in Nat, NEW s, s = [k \in 1..l |-> s[k]], RawShown(s, pos),
         NEW u, u = s \o ps
  PROVE  RawShown(u, to)
<1> DEFINE part(k) == PartAt(pos.lines + k, pos)
<1>0. /\ Position(pos) /\ ~(pos.head /\ open /\ pos.lines + 1 = Len(file))
      /\ m \in Nat \ {0} /\ pos.lines + m <= Len(file)
  BY DEF Read
<1>1. /\ Len(file) \in Nat /\ pos.lines \in Nat /\ pos.head \in BOOLEAN /\ open \in BOOLEAN
      /\ m \in Nat \ {0}
  BY <1>0 DEF FileInv, Position
<1>2. PICK e \in Nat \ {0} :
        /\ e = pos.lines + m
        /\ to.lines \in Nat /\ (to.lines = e - 1 \/ to.lines = e) /\ (to.head <=> to.lines = e - 1)
        /\ to.head => PartAt(e, pos) = "head"
        /\ \A k \in 1..m : pos.lines + k <= to.lines =>
             PartAt(pos.lines + k, pos) = IF pos.head /\ k = 1 THEN "rest" ELSE "whole"
  BY PastIs
<1>3. /\ DOMAIN u = 1..(l + m) /\ DOMAIN s = 1..l /\ DOMAIN ps = 1..m
      /\ \A i \in 1..l : u[i] = s[i]
      /\ \A i \in 1..m : u[l + i] = ps[i]
      /\ \A i \in DOMAIN u : i \in 1..l \/ (i - l \in 1..m /\ u[i] = ps[i - l])
  <2>1. m \in Nat
    BY <1>1
  <2>2. DOMAIN s = 1..l /\ DOMAIN ps = 1..m
    OBVIOUS
  <2>3. QED BY <2>1, <2>2, JoinedLists
<1>4. \A k \in 1..m : ps[k] = [line |-> pos.lines + k, part |-> part(k)]
  OBVIOUS
<1>5. ASSUME NEW k \in 1..m PROVE ps[k].line = pos.lines + k /\ ps[k].part = part(k)
  <2>1. ps[k] = [line |-> pos.lines + k, part |-> part(k)]
    BY <1>4
  <2> HIDE DEF part
  <2>2. QED BY <2>1
<1>6. pos.head => part(1) # "head"
  BY <1>0, <1>1 DEF PartAt
<1> HIDE DEF part
<1>7. /\ \A j, k \in 1..l : s[j] = s[k] => j = k
      /\ \A j, k \in 1..l : j < k => s[j].line <= s[k].line
      /\ \A k \in 1..l : s[k].line <= pos.lines
                         \/ (pos.head /\ s[k] = [line |-> pos.lines + 1, part |-> "head"])
      /\ \A k \in 1..l : s[k].line \in Nat
  BY <1>3 DEF RawShown
\* What was on the terminal already is not there again.
<1>8. ASSUME NEW j \in 1..l, NEW k \in 1..m PROVE s[j] # ps[k] /\ s[j].line <= ps[k].line
  <2>1. ps[k].line = pos.lines + k /\ ps[k].part = part(k)
    BY <1>5
  <2>2. CASE s[j].line <= pos.lines
    BY <1>1, <1>7, <2>1, <2>2
  <2>3. CASE pos.head /\ s[j] = [line |-> pos.lines + 1, part |-> "head"]
    <3>1. s[j].line = pos.lines + 1 /\ s[j].part = "head"
      BY <2>3
    <3>2. CASE k = 1
      BY <1>1, <1>6, <1>7, <2>1, <2>3, <3>1, <3>2
    <3>3. CASE k > 1
      BY <1>1, <2>1, <3>1, <3>3
    <3>4. QED BY <3>2, <3>3, <3>1, <2>1, <1>1
  <2>4. QED BY <1>7, <2>2, <2>3
<1>9. \A j, k \in 1..m : (ps[j] = ps[k] => j = k) /\ (j < k => ps[j].line <= ps[k].line)
  BY <1>1, <1>5
<1>10. ASSUME NEW j \in DOMAIN u, NEW k \in DOMAIN u
       PROVE  (u[j] = u[k] => j = k) /\ (j < k => u[j].line <= u[k].line)
  <2>1. CASE j \in 1..l /\ k \in 1..l
    BY <1>3, <1>7, <2>1
  <2>2. CASE j \in 1..l /\ k - l \in 1..m /\ u[k] = ps[k - l]
    <3>1. u[j] = s[j]
      BY <1>3, <2>2
    <3>2. s[j] # ps[k - l] /\ s[j].line <= ps[k - l].line
      BY <1>8, <2>2
    <3>3. QED BY <2>2, <3>1, <3>2
  <2>3. CASE j - l \in 1..m /\ u[j] = ps[j - l] /\ k \in 1..l
    <3>1. u[k] = s[k]
      BY <1>3, <2>3
    <3>2. s[k] # ps[j - l]
      BY <1>8, <2>3
    <3>3. ~(j < k)
      BY <2>3, <1>3
    <3>4. QED BY <2>3, <3>1, <3>2, <3>3
  <2>4. CASE j - l \in 1..m /\ u[j] = ps[j - l] /\ k - l \in 1..m /\ u[k] = ps[k - l]
    <3>1. PICK a \in 1..m, b \in 1..m : a = j - l /\ b = k - l
      BY <2>4
    <3>2. (a = b => j = k) /\ (j < k => a < b)
      BY <3>1, <1>3
    <3>3. u[j] = ps[a] /\ u[k] = ps[b]
      BY <2>4, <3>1
    <3>4. QED BY <1>9, <3>2, <3>3
  <2>5. QED BY <1>3, <2>1, <2>2, <2>3, <2>4
\* What a piece read, or one read before, is of.
<1>11. ASSUME NEW i, NEW x PROVE Has(u, i, x) <=> Has(s, i, x) \/ Has(ps, i, x)
  <2>1. DOMAIN ps = 1..m
    BY <1>3
  <2>2. Has(s, i, x) => Has(u, i, x)
    BY <1>1, <1>3 DEF Has
  <2>3. ASSUME Has(ps, i, x) PROVE Has(u, i, x)
    <3>1. PICK k \in 1..m : ps[k] = [line |-> i, part |-> x]
      BY <2>1, <2>3 DEF Has
    <3>2. l + k \in DOMAIN u /\ u[l + k] = ps[k]
      BY <1>1, <1>3
    <3>3. QED BY <3>1, <3>2 DEF Has
  <2>4. ASSUME Has(u, i, x) PROVE Has(s, i, x) \/ Has(ps, i, x)
    <3>1. PICK k \in DOMAIN u : u[k] = [line |-> i, part |-> x]
      BY <2>4 DEF Has
    <3>2. QED BY <1>3, <2>1, <3>1 DEF Has
  <2>5. QED BY <2>2, <2>3, <2>4
<1>12. ASSUME NEW i \in Nat, NEW x
       PROVE  Has(ps, i, x) <=> i - pos.lines \in 1..m /\ part(i - pos.lines) = x
  <2>1. DOMAIN ps = 1..m
    BY <1>3
  <2>2. ASSUME Has(ps, i, x) PROVE i - pos.lines \in 1..m /\ part(i - pos.lines) = x
    <3>1. PICK k \in 1..m : ps[k] = [line |-> i, part |-> x]
      BY <2>1, <2>2 DEF Has
    <3>2. ps[k].line = i /\ ps[k].part = x
      BY <3>1
    <3>3. pos.lines + k = i /\ part(k) = x
      BY <1>5, <3>2
    <3>4. k = i - pos.lines
      BY <1>1, <3>3
    <3>5. QED BY <3>3, <3>4
  <2>3. ASSUME i - pos.lines \in 1..m, part(i - pos.lines) = x PROVE Has(ps, i, x)
    <3>1. PICK k \in 1..m : k = i - pos.lines
      BY <2>3
    <3>2. pos.lines + k = i /\ part(k) = x
      BY <1>1, <2>3, <3>1
    <3>3. ps[k] = [line |-> i, part |-> x]
      BY <1>4, <3>2
    <3>4. QED BY <2>1, <3>3 DEF Has
  <2>4. QED BY <2>2, <2>3
<1>13. ASSUME NEW i \in Nat, i > pos.lines, NEW x, Has(s, i, x)
       PROVE  pos.head /\ i = pos.lines + 1 /\ x = "head"
  <2>1. PICK k \in 1..l : s[k] = [line |-> i, part |-> x]
    BY <1>3, <1>13 DEF Has
  <2>2. s[k].line = i /\ s[k].part = x
    BY <2>1
  <2>3. pos.head /\ s[k] = [line |-> pos.lines + 1, part |-> "head"]
    BY <1>1, <1>7, <1>13, <2>2
  <2>4. s[k].line = pos.lines + 1 /\ s[k].part = "head"
    BY <2>3
  <2>5. QED BY <2>2, <2>3, <2>4
\* Each line up to the new position is there, whole or in both its parts.
<1>14. ASSUME NEW i \in 1..to.lines
       PROVE  IF Has(u, i, "whole") THEN ~Has(u, i, "head") /\ ~Has(u, i, "rest")
              ELSE Has(u, i, "head") /\ Has(u, i, "rest")
  <2>1. CASE i <= pos.lines
    <3>1. i \in 1..pos.lines /\ ~(i - pos.lines \in 1..m)
      BY <1>1, <1>2, <2>1
    <3>2. \A x : Has(u, i, x) <=> Has(s, i, x)
      BY <1>11, <1>12, <3>1
    <3>3. QED BY <3>1, <3>2 DEF RawShown
  <2>2. CASE i > pos.lines
    <3>1. PICK k \in 1..m : k = i - pos.lines
      BY <1>1, <1>2, <2>2
    <3>2. pos.lines + k <= to.lines /\ i = pos.lines + k /\ i \in Nat
      BY <1>1, <1>2, <3>1
    <3>3. part(k) = IF pos.head /\ k = 1 THEN "rest" ELSE "whole"
      BY <1>2, <3>2 DEF part
    <3>4. \A x : Has(ps, i, x) <=> part(k) = x
      BY <1>12, <3>1, <3>2
    <3>5. \A x : Has(s, i, x) => pos.head /\ k = 1 /\ x = "head"
      BY <1>1, <1>13, <2>2, <3>1, <3>2
    <3>6. CASE pos.head /\ k = 1
      <4>1. Has(s, i, "head")
        BY <3>2, <3>6 DEF RawShown
      <4>2. QED BY <1>11, <3>3, <3>4, <3>5, <3>6, <4>1
    <3>7. CASE ~(pos.head /\ k = 1)
      BY <1>11, <3>3, <3>4, <3>5, <3>7
    <3>8. QED BY <3>6, <3>7
  <2>3. QED BY <1>1, <1>2, <2>1, <2>2
<1>15. ASSUME NEW k \in DOMAIN u
       PROVE  /\ u[k].line \in Nat
              /\ u[k].line <= to.lines \/ (to.head /\ u[k] = [line |-> to.lines + 1, part |-> "head"])
  <2>1. CASE k \in 1..l
    <3>1. u[k] = s[k]
      BY <1>3, <2>1
    <3>2. CASE s[k].line <= pos.lines
      BY <1>1, <1>2, <1>7, <2>1, <3>1, <3>2
    <3>3. CASE pos.head /\ s[k] = [line |-> pos.lines + 1, part |-> "head"]
      <4>1. s[k].line = pos.lines + 1
        BY <3>3
      <4>2. pos.lines + 1 <= to.lines
        <5>1. e = pos.lines + 1 => ~to.head
          BY <1>2, <1>6, <3>3 DEF part
        <5>2. e = pos.lines + 1 \/ e >= pos.lines + 2
          BY <1>1, <1>2
        <5>3. QED BY <1>1, <1>2, <5>1, <5>2
      <4>3. QED BY <1>7, <2>1, <3>1, <4>1, <4>2
    <3>4. QED BY <1>7, <2>1, <3>2, <3>3
  <2>2. CASE k - l \in 1..m /\ u[k] = ps[k - l]
    <3>1. PICK a \in 1..m : a = k - l
      BY <2>2
    <3>2. u[k] = [line |-> pos.lines + a, part |-> part(a)] /\ u[k].line = pos.lines + a
      BY <1>4, <1>5, <2>2, <3>1
    <3>3. CASE pos.lines + a <= to.lines
      BY <1>1, <3>2, <3>3
    <3>4. CASE ~(pos.lines + a <= to.lines)
      <4>1. to.head /\ a = m /\ pos.lines + a = e /\ to.lines + 1 = e
        BY <1>1, <1>2, <3>4
      <4>2. part(a) = "head"
        BY <1>2, <4>1 DEF part
      <4>3. QED BY <1>1, <3>2, <4>1, <4>2
    <3>5. QED BY <3>3, <3>4
  <2>3. QED BY <1>3, <2>1, <2>2
<1>16. to.head => Has(u, to.lines + 1, "head")
  <2>1. SUFFICES ASSUME to.head PROVE Has(u, to.lines + 1, "head")
    OBVIOUS
  <2>2. to.lines + 1 = e /\ e - pos.lines = m /\ m \in 1..m
    BY <1>1, <1>2, <2>1
  <2>3. part(m) = "head"
    BY <1>2, <2>1 DEF part
  <2>4. Has(ps, e, "head")
    BY <1>1, <1>12, <2>2, <2>3
  <2>5. QED BY <1>11, <2>2, <2>4
<1>17. QED BY <1>10, <1>14, <1>15, <1>16 DEF RawShown

LEMMA StillHas ==
  ASSUME NEW m \in Nat, NEW s, s = [k \in 1..m |-> s[k]],
         NEW n \in Nat, NEW t, t = [k \in 1..n |-> t[k]], NEW u, u = s \o t,
         NEW i, NEW x, Has(s, i, x)
  PROVE  Has(u, i, x)
<1>1. DOMAIN s = 1..m
  OBVIOUS
<1>2. PICK k \in 1..m : s[k] = [line |-> i, part |-> x]
  BY <1>1 DEF Has
<1>3. DOMAIN u = 1..(m + n) /\ \A j \in 1..m : u[j] = s[j]
  BY JoinedLists
<1>4. k \in DOMAIN u /\ u[k] = s[k]
  BY <1>3
<1>5. QED BY <1>2, <1>4 DEF Has

\* And what a follow with a query promises: t is what it keeps of the pieces.
LEMMA KeptReads ==
  ASSUME FileInv, NEW pos, NEW m, NEW to, Read(pos, m, to), NEW ps,
         \A k \in 1..m : ps[k] = [line |-> pos.lines + k, part |-> PartAt(pos.lines + k, pos)],
         NEW l \in Nat, NEW s, s = [k \in 1..l |-> s[k]], QueryShown(s, pos),
         NEW t, NEW n, NEW of, Pick(t, n, of, ps, m), NEW u, u = s \o t
  PROVE  QueryShown(u, to)
<1> DEFINE part(k) == PartAt(pos.lines + k, pos)
<1>0. /\ Position(pos) /\ ~(pos.head /\ open /\ pos.lines + 1 = Len(file))
      /\ m \in Nat \ {0} /\ pos.lines + m <= Len(file)
  BY DEF Read
<1>1. /\ Len(file) \in Nat /\ pos.lines \in Nat /\ pos.head \in BOOLEAN /\ open \in BOOLEAN
      /\ m \in Nat \ {0}
  BY <1>0 DEF FileInv, Position
<1>2. PICK e \in Nat \ {0} :
        /\ e = pos.lines + m
        /\ to.lines \in Nat /\ (to.lines = e - 1 \/ to.lines = e) /\ (to.head <=> to.lines = e - 1)
        /\ to.head => PartAt(e, pos) = "head"
        /\ \A k \in 1..m : pos.lines + k <= to.lines =>
             PartAt(pos.lines + k, pos) = IF pos.head /\ k = 1 THEN "rest" ELSE "whole"
  BY PastIs
<1>3. /\ \A j, k \in 1..n : of[j] = of[k] => j = k
      /\ \A i \in 1..m : Matches(follow.query, Parsed(ps[i])) => \E k \in 1..n : of[k] = i
  BY DEF Pick
<1>4. ASSUME NEW k \in 1..m PROVE ps[k].line = pos.lines + k /\ ps[k].part = part(k)
  <2>1. ps[k] = [line |-> pos.lines + k, part |-> part(k)]
    OBVIOUS
  <2> HIDE DEF part
  <2>2. QED BY <2>1
<1>5. \A k \in 1..m : ps[k] = [line |-> pos.lines + k, part |-> part(k)]
  OBVIOUS
<1> HIDE DEF part
<1>7. n \in Nat /\ t = [k \in 1..n |-> t[k]] /\ \A k \in 1..n : t[k] = ps[of[k]] /\ of[k] \in 1..m
  BY DEF Pick
<1>8. /\ DOMAIN u = 1..(l + n) /\ DOMAIN s = 1..l
      /\ \A i \in 1..l : u[i] = s[i]
      /\ \A i \in 1..n : u[l + i] = t[i]
      /\ \A i \in DOMAIN u : i \in 1..l \/ (i - l \in 1..n /\ u[i] = t[i - l])
  <2>1. DOMAIN s = 1..l
    OBVIOUS
  <2>2. QED BY <1>7, <2>1, JoinedLists
<1>9. /\ \A j, k \in 1..l : s[j].part = "whole" /\ s[j] = s[k] => j = k
      /\ \A k \in 1..l : s[k].part = "whole" => s[k].line \in Nat /\ s[k].line <= pos.lines
  BY <1>8 DEF QueryShown, WholeOnce
<1>10. pos.lines \in Nat /\ to.lines \in Nat /\ pos.lines <= to.lines
  BY <1>1, <1>2
<1>11. ASSUME NEW k \in 1..n
       PROVE  /\ t[k].line \in Nat /\ t[k].line > pos.lines /\ t[k].line = pos.lines + of[k]
              /\ t[k].part = "whole" => t[k].line <= to.lines
  <2>1. PICK i \in 1..m : i = of[k]
    BY <1>7
  <2>2. t[k].line = pos.lines + i /\ t[k].part = part(i)
    BY <1>4, <1>7, <2>1
  <2>3. part(m) = "head" \/ ~to.head
    BY <1>2 DEF part
  <2>4. part(i) = "whole" => pos.lines + i <= to.lines
    <3>1. CASE i = m
      BY <1>1, <1>2, <2>3, <3>1
    <3>2. CASE i < m
      BY <1>1, <1>2, <3>2
    <3>3. QED BY <1>1, <3>1, <3>2
  <2>5. QED BY <1>1, <2>1, <2>2, <2>4
<1>12. ASSUME NEW j \in 1..n, NEW k \in 1..n, t[j] = t[k] PROVE j = k
  <2>1. pos.lines + of[j] = pos.lines + of[k]
    BY <1>11, <1>12
  <2>2. PICK a \in 1..m, b \in 1..m : a = of[j] /\ b = of[k]
    BY <1>7
  <2>3. a = b
    BY <1>1, <2>1, <2>2
  <2>4. QED BY <1>3, <2>2, <2>3
<1>13. WholeOnce(u, to.lines)
  <2>1. ASSUME NEW k \in DOMAIN u, u[k].part = "whole" PROVE u[k].line \in Nat /\ u[k].line <= to.lines
    <3>1. CASE k \in 1..l
      <4>1. PICK x \in Nat : x = u[k].line /\ x <= pos.lines
        BY <1>8, <1>9, <2>1, <3>1
      <4>2. QED BY <1>10, <4>1
    <3>2. CASE k - l \in 1..n /\ u[k] = t[k - l]
      BY <1>11, <2>1, <3>2
    <3>3. QED BY <1>8, <3>1, <3>2
  <2>2. ASSUME NEW j \in 1..l, NEW k \in 1..n, s[j].part = "whole" PROVE s[j] # t[k]
    <3>1. s[j].line \in Nat /\ s[j].line <= pos.lines
      BY <1>9, <2>2
    <3>2. t[k].line \in Nat /\ t[k].line > pos.lines
      BY <1>11
    <3>3. s[j].line # t[k].line
      BY <1>1, <3>1, <3>2
    <3>4. QED BY <3>3
  <2>3. ASSUME NEW j \in DOMAIN u, NEW k \in DOMAIN u, u[j].part = "whole", u[j] = u[k] PROVE j = k
    <3>1. CASE j \in 1..l /\ k \in 1..l
      BY <1>8, <1>9, <2>3, <3>1
    <3>2. CASE j \in 1..l /\ k - l \in 1..n /\ u[k] = t[k - l]
      BY <1>8, <2>2, <2>3, <3>2
    <3>3. CASE j - l \in 1..n /\ u[j] = t[j - l] /\ k \in 1..l
      BY <1>8, <2>2, <2>3, <3>3
    <3>4. CASE j - l \in 1..n /\ u[j] = t[j - l] /\ k - l \in 1..n /\ u[k] = t[k - l]
      <4>1. j - l = k - l
        BY <1>12, <2>3, <3>4
      <4>2. j \in Int /\ k \in Int
        BY <1>8
      <4>3. QED BY <4>1, <4>2
    <3>5. QED BY <1>8, <3>1, <3>2, <3>3, <3>4
  <2>4. QED BY <2>1, <2>3 DEF WholeOnce
<1>14. \A i, x : Has(s, i, x) => Has(u, i, x)
  BY <1>7, StillHas
<1>15. Found(u)
  BY <1>14 DEF QueryShown, Found, Kept
<1>16. ASSUME NEW i \in 1..Len(file), Wanted(i), follow.opened < i, i <= to.lines
       PROVE  Has(u, i, "whole")
  <2>1. CASE i <= pos.lines
    BY <1>14, <1>16, <2>1 DEF QueryShown, Kept
  <2>2. CASE i > pos.lines
    <3>1. PICK k \in 1..m : k = i - pos.lines
      <4>1. i - pos.lines \in 1..m
        BY <1>1, <1>2, <1>16, <2>2
      <4>2. QED BY <4>1
    <3>2. pos.lines + k = i
      BY <1>1, <3>1
    <3>3. ~(pos.head /\ k = 1)
      <4>1. file[i].long = FALSE \/ ~file[i].long
        BY <1>16 DEF Wanted
      <4>2. QED BY <1>0, <1>16, <3>2 DEF Position, Wanted
    <3>4. part(k) = "whole"
      BY <1>2, <1>16, <3>2, <3>3 DEF part
    <3>5. ps[k] = [line |-> i, part |-> "whole"] /\ ps[k].line = i /\ ps[k].part = "whole"
      BY <1>4, <1>5, <3>2, <3>4
    <3>6. Parsed(ps[k]) = file[i].rec
      BY <1>16, <3>5 DEF Parsed, Wanted
    <3>7. Matches(follow.query, Parsed(ps[k]))
      BY <1>16, <3>6 DEF Wanted
    <3>8. PICK j \in 1..n : of[j] = k
      BY <1>3, <3>7
    <3>9. l + j \in DOMAIN u /\ u[l + j] = [line |-> i, part |-> "whole"]
      BY <1>7, <1>8, <3>5, <3>8
    <3>10. QED BY <3>9 DEF Has
  <2>3. QED BY <1>1, <2>1, <2>2
<1>18. QED BY <1>13, <1>15, <1>16 DEF QueryShown, Kept

LEMMA QueryReads ==
  ASSUME FileInv, NEW pos, NEW m, NEW to, Read(pos, m, to),
         NEW ps, ps = [k \in 1..m |-> ps[k]],
         \A k \in 1..m : ps[k] = [line |-> pos.lines + k, part |-> PartAt(pos.lines + k, pos)],
         ~follow.raw, NEW l \in Nat, NEW s, s = [k \in 1..l |-> s[k]], QueryShown(s, pos),
         NEW u, u = s \o Emitted(ps)
  PROVE  QueryShown(u, to)
<1>1. m \in Nat
  BY DEF Read
<1>2. PICK n, of : Pick(Emitted(ps), n, of, ps, m)
  BY <1>1, EmittedIs
<1>3. QED BY <1>2, KeptReads

-----------------------------------------------------------------------------
(* The file beside the follow.                                             *)

LogLine == [rec : Record, long : BOOLEAN, whole : BOOLEAN]

\* A line of the file stays, but for being one record.
SameLine(l, k) == k \in LogLine /\ k.rec = l.rec /\ k.long = l.long /\ (k.whole => l.whole)

LEMMA LineMarked ==
  ASSUME NEW l \in LogLine, NEW k, k = [l EXCEPT !.whole = FALSE] PROVE SameLine(l, k)
  BY DEF LogLine, SameLine

LEMMA LastMarked ==
  ASSUME NEW f \in Seq(LogLine), Len(f) > 0, NEW g, g = [f EXCEPT ![Len(f)].whole = FALSE]
  PROVE  g \in Seq(LogLine) /\ Len(g) = Len(f) /\ \A i \in 1..Len(f) : SameLine(f[i], g[i])
<1>1. PICK n \in Nat \ {0} : n = Len(f)
  <2>1. Len(f) \in Nat
    OBVIOUS
  <2>2. QED BY <2>1
<1>2. /\ f = [i \in 1..n |-> f[i]] /\ DOMAIN f = 1..n /\ \A i \in 1..n : f[i] \in LogLine
  BY <1>1
<1>3. PICK k : k = [f[n] EXCEPT !.whole = FALSE]
  OBVIOUS
<1>4. SameLine(f[n], k)
  <2>1. f[n] \in LogLine
    BY <1>1, <1>2
  <2>2. QED BY <1>3, <2>1, LineMarked
<1>5. g = [i \in 1..n |-> IF i = n THEN k ELSE f[i]]
  <2>1. g = [f EXCEPT ![n] = [f[n] EXCEPT !.whole = FALSE]]
    BY <1>1
  <2>2. g = [f EXCEPT ![n] = k]
    BY <1>3, <2>1
  <2>3. QED BY <1>2, <2>2
<1>6. \A i \in 1..n : f[i] \in LogLine => SameLine(f[i], f[i])
  BY DEF SameLine
<1>7. \A i \in 1..n : SameLine(f[i], g[i])
  BY <1>2, <1>4, <1>5, <1>6
<1>8. \A i \in 1..n : g[i] \in LogLine
  BY <1>7 DEF SameLine
<1>9. g = [i \in 1..n |-> g[i]]
  BY <1>5
<1>10. g \in Seq(LogLine) /\ Len(g) = n
  <2>1. n \in Nat
    BY <1>1
  <2>2. g \in Seq(LogLine)
    BY <1>8, <1>9, <2>1, SequenceOf
  <2>3. Len(g) = n
    BY <1>9, <2>1, Listed
  <2>4. QED BY <2>2, <2>3
<1>11. QED BY <1>1, <1>7, <1>10

Grown ==
  /\ Len(file') \in Nat /\ Len(file') >= Len(file) /\ Ended' \in Nat /\ Ended' >= Ended
  /\ \A i \in 1..Len(file) : SameLine(file[i], file'[i])

LEMMA LineAdded ==
  ASSUME NEW f \in Seq(LogLine), NEW l \in LogLine, NEW g, g = Append(f, l)
  PROVE  /\ g \in Seq(LogLine) /\ Len(g) = Len(f) + 1 /\ g[Len(g)] = l
         /\ \A i \in 1..Len(f) : SameLine(f[i], g[i])
<1>1. g \in Seq(LogLine) /\ Len(g) = Len(f) + 1 /\ g[Len(g)] = l
  OBVIOUS
<1>2. \A i \in 1..Len(f) : g[i] = f[i] /\ f[i] \in LogLine
  OBVIOUS
<1>3. QED BY <1>1, <1>2 DEF SameLine

\* What the engine and the commands make of the file.
LEMMA FileStep ==
  ASSUME FileInv, WriteLine \/ WriteHead \/ WriteRest \/ Finish \/ Stopped \/ Killed \/ Reconcile \/ Resume
  PROVE  FileInv' /\ Grown
<1>1. /\ open \in BOOLEAN /\ file \in Seq(LogLine) /\ Len(file) \in Nat /\ Len(file) > 0
      /\ closed \in Nat /\ closed <= Ended /\ (open => file[Len(file)].long)
  BY DEF FileInv, LogLine
<1>2. Ended \in Nat /\ Ended = IF open THEN Len(file) - 1 ELSE Len(file)
  BY <1>1 DEF Ended
<1>3. \A i \in 1..Len(file) : SameLine(file[i], file[i])
  <2>1. \A i \in 1..Len(file) : file[i] \in LogLine
    BY <1>1
  <2>2. QED BY <2>1 DEF SameLine
<1>4. \A r \in Record : Line(r, TRUE) \in LogLine /\ Line(r, FALSE) \in LogLine /\ Line(r, TRUE).long
  BY DEF Line, LogLine
\* With the lines as they are, or the last one marked, and the same end.
<1>5. ASSUME file' \in Seq(LogLine), Len(file') = Len(file), open' = open \/ open' = FALSE,
             \A i \in 1..Len(file) : SameLine(file[i], file'[i]),
             closed' = closed \/ (closed' = Ended /\ open' = open)
      PROVE  FileInv' /\ Grown
  <2>1. Ended' = IF open' THEN Len(file) - 1 ELSE Len(file)
    BY <1>5 DEF Ended
  <2>2. Ended' \in Nat /\ Ended' >= Ended
    BY <1>1, <1>2, <1>5, <2>1
  <2>3. closed' \in Nat /\ closed' <= Ended'
    BY <1>1, <1>2, <1>5, <2>2
  <2>4. open' => file'[Len(file')].long
    <3>1. Len(file) \in 1..Len(file)
      BY <1>1
    <3>2. file'[Len(file)].long = file[Len(file)].long
      BY <1>5, <3>1 DEF SameLine
    <3>3. QED BY <1>1, <1>5, <3>2
  <2>5. FileInv'
    BY <1>1, <1>5, <2>3, <2>4 DEF FileInv, LogLine
  <2>6. QED BY <1>1, <1>5, <2>2, <2>5 DEF Grown
\* With a new line.
<1>6. ASSUME NEW l \in LogLine, ~open, file' = Append(file, l), open' \in BOOLEAN, open' => l.long,
             closed' = closed
      PROVE  FileInv' /\ Grown
  <2>1. /\ file' \in Seq(LogLine) /\ Len(file') = Len(file) + 1 /\ file'[Len(file')] = l
        /\ \A i \in 1..Len(file) : SameLine(file[i], file'[i])
    BY <1>1, <1>6, LineAdded
  <2>2. Ended' = IF open' THEN Len(file) ELSE Len(file) + 1
    BY <1>1, <2>1 DEF Ended
  <2>3. Ended' \in Nat /\ Ended' >= Ended
    BY <1>1, <1>2, <1>6, <2>2
  <2>4. closed' \in Nat /\ closed' <= Ended'
    BY <1>1, <1>2, <1>6, <2>3
  <2>5. FileInv'
    BY <1>1, <1>6, <2>1, <2>4 DEF FileInv, LogLine
  <2>6. QED BY <1>1, <2>1, <2>3, <2>5 DEF Grown
<1>7. CASE WriteLine
  <2>1. PICK r \in Record : file' = Appended(r)
    BY <1>7 DEF WriteLine
  <2>2. open' = FALSE /\ closed' = closed
    BY <1>7 DEF WriteLine
  <2>3. CASE open
    <3>1. file' = [file EXCEPT ![Len(file)].whole = FALSE]
      BY <2>1, <2>3 DEF Appended
    <3>2. QED BY <1>1, <1>5, <2>2, <3>1, LastMarked
  <2>4. CASE ~open
    <3>1. file' = Append(file, Line(r, FALSE))
      BY <2>1, <2>4 DEF Appended
    <3>2. QED BY <1>4, <1>6, <2>2, <2>4, <3>1
  <2>5. QED BY <2>3, <2>4
<1>8. CASE WriteHead
  <2>1. PICK r \in Record : file' = Append(file, Line(r, TRUE))
    BY <1>8 DEF WriteHead
  <2>2. ~open /\ open' = TRUE /\ closed' = closed
    BY <1>8 DEF WriteHead
  <2>3. QED BY <1>4, <1>6, <2>1, <2>2
<1>9. CASE WriteRest
  BY <1>1, <1>3, <1>5, <1>9 DEF WriteRest
<1>10. CASE Killed
  <2>1. CASE open
    <3>1. file' = [file EXCEPT ![Len(file)].whole = FALSE] /\ open' = open /\ closed' = closed
      BY <1>10, <2>1 DEF Killed
    <3>2. QED BY <1>1, <1>5, <3>1, LastMarked
  <2>2. CASE ~open
    BY <1>1, <1>3, <1>5, <1>10, <2>2 DEF Killed
  <2>3. QED BY <2>1, <2>2
<1>11. CASE Finish \/ Stopped \/ Reconcile \/ Resume
  <2>1. file' = file /\ open' = open /\ (closed' = closed \/ closed' = Ended)
    BY <1>11 DEF Finish, Stopped, Reconcile, Resume, LeaveRunning, Ended
  <2>2. QED BY <1>1, <1>3, <1>5, <2>1
<1>12. QED BY <1>7, <1>8, <1>9, <1>10, <1>11

-----------------------------------------------------------------------------
(* The follow.                                                             *)

Promise(s, pos) == IF follow.raw THEN RawShown(s, pos) ELSE QueryShown(s, pos)

FollowInv ==
  /\ follow = [at |-> follow.at, raw |-> follow.raw, query |-> follow.query, pos |-> follow.pos,
               searched |-> follow.searched, opened |-> follow.opened, shown |-> follow.shown]
  /\ follow.at \in {"print", "search", "open", "tail", "poll", "drain", "done"}
  /\ follow.raw \in BOOLEAN /\ follow.query.limit \in Int
  /\ IsSeq(follow.shown)
  /\ follow.searched \in Nat /\ follow.searched <= Len(file)
  /\ follow.at \in {"print", "search"} => follow.shown = <<>>
  /\ follow.at = "print" => follow.raw
  /\ follow.at \in {"search", "open"} => ~follow.raw
  /\ follow.at = "open" => WholeOnce(follow.shown, Ended) /\ Found(follow.shown)
  /\ follow.at \in {"tail", "poll", "drain"} =>
       Position(follow.pos) /\ Promise(follow.shown, follow.pos)

\* What was promised of a shorter file holds of a longer one.
LEMMA StillPromised == ASSUME FileInv, FollowInv, Grown, UNCHANGED follow PROVE FollowInv'
<1>1. PICK s, pos : s = follow.shown /\ pos = follow.pos
  OBVIOUS
<1>2. PICK n \in Nat : n = follow.searched /\ n <= Len(file)
  BY DEF FollowInv
<1>3. /\ Len(file) \in Nat /\ Len(file') \in Nat /\ Len(file) <= Len(file')
      /\ Ended \in Nat /\ Ended' \in Nat /\ Ended <= Ended' /\ Ended <= Len(file)
      /\ \A i \in 1..Len(file) : SameLine(file[i], file'[i])
  BY DEF FileInv, Grown, Ended
<1>4. ASSUME NEW i \in Nat, i > 0, i <= Len(file), Wanted(i)' PROVE Wanted(i)
  <2>1. SameLine(file[i], file'[i])
    BY <1>3, <1>4
  <2>2. QED BY <1>4, <2>1 DEF Wanted, SameLine
<1>5. ASSUME NEW a, NEW b, b \in Nat, b <= Len(file), Kept(s, a, b) PROVE Kept(s, a, b)'
  <2>1. ASSUME NEW i \in 1..Len(file'), Wanted(i)', a < i, i <= b PROVE Has(s, i, "whole")
    <3>1. i \in Nat /\ i > 0 /\ i <= Len(file)
      BY <1>3, <1>5, <2>1
    <3>2. i \in 1..Len(file) /\ Wanted(i)
      BY <1>3, <1>4, <2>1, <3>1
    <3>3. QED BY <1>5, <2>1, <3>2 DEF Kept
  <2>2. QED BY <2>1 DEF Kept
<1>7. ASSUME Found(s) PROVE Found(s)'
  <2>1. follow.query.limit < 0 => Kept(s, 0, n)
    BY <1>2, <1>7 DEF Found
  <2>2. follow.query.limit < 0 => Kept(s, 0, n)'
    BY <1>2, <1>5, <2>1
  <2>3. QED BY <1>2, <2>2 DEF Found
<1>8. ASSUME WholeOnce(s, Ended) PROVE WholeOnce(s, Ended')
  <2>1. PICK x \in Nat, y \in Nat : x = Ended /\ y = Ended' /\ x <= y
    BY <1>3
  <2>2. WholeOnce(s, x)
    BY <1>8, <2>1
  <2>3. WholeOnce(s, y)
    BY <2>1, <2>2 DEF WholeOnce
  <2>4. QED BY <2>1, <2>3
<1>9. ASSUME Position(pos) PROVE Position(pos)' /\ pos.lines \in Nat /\ pos.lines <= Len(file)
  <2>1. pos \in [lines : Nat, head : BOOLEAN] /\ pos.lines \in Nat /\ pos.lines <= Ended
    BY <1>9 DEF Position
  <2>2. pos.lines <= Ended' /\ pos.lines <= Len(file)
    BY <1>3, <2>1
  <2>3. ASSUME pos.head PROVE pos.lines < Len(file') /\ file'[pos.lines + 1].long
    <3>1. pos.lines < Len(file) /\ file[pos.lines + 1].long
      BY <1>9, <2>3 DEF Position
    <3>2. pos.lines + 1 \in 1..Len(file)
      BY <1>3, <2>1, <3>1
    <3>3. SameLine(file[pos.lines + 1], file'[pos.lines + 1])
      BY <1>3, <3>2
    <3>4. QED BY <1>3, <2>1, <3>1, <3>3 DEF SameLine
  <2>4. QED BY <2>1, <2>2, <2>3 DEF Position
<1>10. ASSUME Position(pos), Promise(s, pos) PROVE Promise(s, pos)'
  <2>1. CASE follow.raw
    BY <1>10, <2>1 DEF Promise, RawShown, Has
  <2>2. CASE ~follow.raw
    <3>1. WholeOnce(s, pos.lines) /\ Found(s) /\ Kept(s, follow.opened, pos.lines)
      BY <1>10, <2>2 DEF Promise, QueryShown
    <3>2. PICK o : o = follow.opened
      OBVIOUS
    <3>3. Kept(s, o, pos.lines)'
      BY <1>5, <1>9, <1>10, <3>1, <3>2
    <3>4. Kept(s, follow.opened, pos.lines)'
      BY <3>2, <3>3 DEF Kept
    <3>5. Found(s)' /\ WholeOnce(s, pos.lines)' /\ follow'.raw = follow.raw
      BY <1>7, <3>1 DEF WholeOnce
    <3>6. QED BY <2>2, <3>4, <3>5 DEF Promise, QueryShown
  <2>3. QED BY <2>1, <2>2
<1>11. s = follow'.shown /\ pos = follow'.pos /\ follow' = follow
  BY <1>1
<1>12. WholeOnce(follow.shown, Ended) /\ Found(follow.shown)
         => WholeOnce(follow.shown, Ended)' /\ Found(follow.shown)'
  <2>1. Found(s)' => Found(follow.shown)'
    BY <1>11 DEF Found, Kept
  <2>2. QED BY <1>1, <1>7, <1>8, <1>11, <2>1
<1>13. Position(follow.pos) /\ Promise(follow.shown, follow.pos)
         => Position(follow.pos)' /\ Promise(follow.shown, follow.pos)'
  <2>1. Position(pos)' => Position(follow.pos)'
    BY <1>11 DEF Position
  <2>2. Promise(s, pos)' => Promise(follow.shown, follow.pos)'
    BY <1>11 DEF Promise, RawShown, QueryShown, WholeOnce, Found, Kept
  <2>3. QED BY <1>1, <1>9, <1>10, <2>1, <2>2
<1>14. follow.searched <= Len(file')
  BY <1>2, <1>3
<1>15. QED BY <1>12, <1>13, <1>14 DEF FollowInv

\* A read keeps the promise.
Takes(pos, m, to, ps) ==
  /\ Read(pos, m, to) /\ ps = [k \in 1..m |-> ps[k]]
  /\ \A k \in 1..m : ps[k] = [line |-> pos.lines + k, part |-> PartAt(pos.lines + k, pos)]

LEMMA SomeRead ==
  ASSUME FileInv, NEW pos, NEW m, NEW to, NEW ps, Takes(pos, m, to, ps),
         NEW s, IsSeq(s), Promise(s, pos), NEW u, u = s \o Emitted(ps)
  PROVE  IsSeq(u) /\ Promise(u, to) /\ Position(to)
<1>1. PICK l \in Nat : s = [k \in 1..l |-> s[k]]
  BY DEF IsSeq
<1>2. /\ m \in Nat /\ Read(pos, m, to) /\ ps = [k \in 1..m |-> ps[k]]
      /\ \A k \in 1..m : ps[k] = [line |-> pos.lines + k, part |-> PartAt(pos.lines + k, pos)]
  BY DEF Read, Takes
<1>3. Position(to)
  BY <1>2, PastIs
<1>4. CASE follow.raw
  <2>1. Emitted(ps) = ps /\ RawShown(s, pos)
    BY <1>4 DEF Emitted, Promise
  <2>2. u = s \o ps
    BY <2>1
  <2>3. RawShown(u, to)
    BY <1>1, <1>2, <2>1, <2>2, RawReads
  <2>4. IsSeq(ps)
    BY <1>2, Listed
  <2>5. IsSeq(u)
    BY <2>2, <2>4, JoinedIsSeq
  <2>6. QED BY <1>3, <1>4, <2>3, <2>5 DEF Promise
<1>5. CASE ~follow.raw
  <2>1. QueryShown(s, pos)
    BY <1>5 DEF Promise
  <2>2. QueryShown(u, to)
    BY <1>1, <1>2, <1>5, <2>1, QueryReads
  <2>3. PICK n, of : Pick(Emitted(ps), n, of, ps, m)
    BY <1>2, <1>5, EmittedIs
  <2>4. PICK t : t = Emitted(ps)
    OBVIOUS
  <2>5. n \in Nat /\ t = [k \in 1..n |-> t[k]]
    BY <2>3, <2>4 DEF Pick
  <2>6. u = s \o t
    BY <2>4
  <2>7. IsSeq(t)
    BY <2>5, Listed
  <2>8. IsSeq(u)
    BY <2>6, <2>7, JoinedIsSeq
  <2>9. QED BY <1>3, <1>5, <2>2, <2>8 DEF Promise
<1>6. QED BY <1>4, <1>5

\* Where the file ends.
LEMMA EndIs ==
  ASSUME FileInv
  PROVE  End = Past(Len(file)) /\ Position(End) /\ End.lines = Ended /\ Ended \in Nat
<1>1. Len(file) \in Nat \ {0} /\ (open => file[Len(file)].long) /\ open \in BOOLEAN
  BY DEF FileInv
<1>2. End = Past(Len(file))
  BY DEF End, Past
<1>3. CASE open
  <2>1. PICK n \in Nat : n = Len(file) - 1
    BY <1>1
  <2>2. End = [lines |-> n, head |-> TRUE] /\ Ended = n /\ n + 1 = Len(file)
    BY <1>1, <1>3, <2>1 DEF End, Ended
  <2>3. End \in [lines : Nat, head : BOOLEAN]
    BY <2>2, PositionType
  <2>4. End.lines = n /\ End.head = TRUE
    BY <2>2
  <2>5. QED BY <1>1, <1>2, <1>3, <2>1, <2>2, <2>3, <2>4 DEF Position
<1>4. CASE ~open
  <2>1. PICK n \in Nat : n = Len(file)
    BY <1>1
  <2>2. End = [lines |-> n, head |-> FALSE] /\ Ended = n
    BY <1>1, <1>4, <2>1 DEF End, Ended
  <2>3. End \in [lines : Nat, head : BOOLEAN]
    BY <2>2, PositionType
  <2>4. End.lines = n /\ End.head = FALSE
    BY <2>2
  <2>5. QED BY <1>1, <1>2, <1>4, <2>1, <2>2, <2>3, <2>4 DEF Position
<1>5. QED BY <1>1, <1>3, <1>4

\* Nothing read, nothing printed.
LEMMA NothingRead ==
  ASSUME NEW s, IsSeq(s), NEW ps, IsSeq(ps), Len(ps) = 0 PROVE s \o Emitted(ps) = s
<1>1. PICK l \in Nat : s = [k \in 1..l |-> s[k]]
  BY DEF IsSeq
<1>2. ps = [k \in 1..0 |-> ps[k]] /\ 0 \in Nat
  BY DEF IsSeq
<1>3. PICK t : t = Emitted(ps)
  OBVIOUS
<1>4. t = [k \in 1..0 |-> t[k]]
  <2>1. CASE follow.raw
    BY <1>2, <1>3, <2>1 DEF Emitted
  <2>2. CASE ~follow.raw
    <3>1. PICK n, of : Pick(Emitted(ps), n, of, ps, 0)
      BY <1>2, <2>2, EmittedIs
    <3>2. n \in Nat /\ of \in [1..n -> 1..0] /\ t = [k \in 1..n |-> t[k]]
      BY <1>3, <3>1 DEF Pick
    <3>3. n = 0
      <4>1. ~(1 \in 1..n)
        BY <3>2
      <4>2. QED BY <3>2, <4>1
    <3>4. QED BY <3>2, <3>3
  <2>3. QED BY <2>1, <2>2
<1>5. PICK u : u = s \o t
  OBVIOUS
<1>6. u = [k \in 1..(l + 0) |-> u[k]] /\ \A i \in 1..l : u[i] = s[i]
  BY <1>1, <1>2, <1>4, <1>5, JoinedLists
<1>7. l + 0 = l
  BY <1>1
<1>8. u = s
  BY <1>1, <1>6, <1>7
<1>9. QED BY <1>3, <1>5, <1>8

\* All that is left is read.
LEMMA AllRead ==
  ASSUME FileInv, NEW pos, Position(pos), NEW s, IsSeq(s), Promise(s, pos),
         NEW u, u = s \o Emitted(Pieces(pos))
  PROVE  IsSeq(u) /\ Promise(u, End) /\ Position(End)
<1>1. PICK m : m = IF pos.head /\ open /\ pos.lines + 1 = Len(file) THEN 0 ELSE Len(file) - pos.lines
  OBVIOUS
<1>2. PICK ps : ps = Pieces(pos)
  OBVIOUS
<1>3. /\ IsSeq(ps) /\ Len(ps) = m
      /\ \A k \in 1..m : ps[k] = [line |-> pos.lines + k, part |-> PartAt(pos.lines + k, pos)]
  BY <1>1, <1>2, PiecesAre
<1>4. /\ Len(file) \in Nat /\ pos.lines \in Nat /\ pos.lines <= Ended /\ Ended \in Nat
      /\ (pos.head => pos.lines < Len(file)) /\ pos.head \in BOOLEAN
  BY EndIs DEF FileInv, Position
<1>5. CASE m = 0
  <2>1. u = s
    BY <1>2, <1>3, <1>5, NothingRead
  <2>2. End = pos
    <3>1. CASE pos.head /\ open /\ pos.lines + 1 = Len(file)
      <4>1. End = [lines |-> Len(file) - 1, head |-> TRUE]
        BY <3>1 DEF End
      <4>2. pos = [lines |-> pos.lines, head |-> pos.head] /\ pos.head = TRUE
        BY <3>1 DEF Position
      <4>3. Len(file) - 1 = pos.lines
        BY <1>4, <3>1
      <4>4. QED BY <4>1, <4>2, <4>3
    <3>2. CASE ~(pos.head /\ open /\ pos.lines + 1 = Len(file))
      <4>1. Len(file) = pos.lines
        BY <1>1, <1>4, <1>5, <3>2
      <4>2. ~open /\ pos.head = FALSE
        BY <1>4, <4>1 DEF Ended
      <4>3. End = [lines |-> pos.lines, head |-> FALSE]
        BY <4>1, <4>2 DEF End
      <4>4. pos = [lines |-> pos.lines, head |-> pos.head]
        BY DEF Position
      <4>5. QED BY <4>2, <4>3, <4>4
    <3>3. QED BY <3>1, <3>2
  <2>3. QED BY <2>1, <2>2, EndIs
<1>6. CASE m # 0
  <2>1. m \in Nat \ {0} /\ pos.lines + m = Len(file) /\ ~(pos.head /\ open /\ pos.lines + 1 = Len(file))
    BY <1>1, <1>4, <1>6 DEF Ended
  <2>2. Read(pos, m, End)
    BY <1>4, <2>1, EndIs DEF Read
  <2>3. ps = [k \in 1..m |-> ps[k]]
    BY <1>3 DEF IsSeq
  <2>4. u = s \o Emitted(ps)
    BY <1>2
  <2>5. Takes(pos, m, End, ps)
    BY <1>3, <2>2, <2>3 DEF Takes
  <2>6. QED BY <2>4, <2>5, SomeRead
<1>7. QED BY <1>5, <1>6

\* A step of the follow, by what it leaves.
LEMMA FollowTo ==
  ASSUME FollowInv, UNCHANGED engineVars, NEW at \in {"open", "tail", "poll", "drain", "done"},
         NEW to, NEW searched \in Nat, searched <= Len(file), NEW opened, NEW u, IsSeq(u),
         follow' = [at |-> at, raw |-> follow.raw, query |-> follow.query, pos |-> to,
                    searched |-> searched, opened |-> opened, shown |-> u],
         at = "open" => /\ ~follow.raw /\ WholeOnce(u, Ended)
                        /\ follow.query.limit < 0 => Kept(u, 0, searched),
         at \in {"tail", "poll", "drain"} =>
           /\ Position(to)
           /\ IF follow.raw THEN RawShown(u, to)
              ELSE /\ WholeOnce(u, to.lines) /\ Kept(u, opened, to.lines)
                   /\ follow.query.limit < 0 => Kept(u, 0, searched)
  PROVE  FollowInv'
<1>1. /\ follow'.at = at /\ follow'.raw = follow.raw /\ follow'.query = follow.query /\ follow'.pos = to
      /\ follow'.searched = searched /\ follow'.opened = opened /\ follow'.shown = u
  OBVIOUS
<1>2. file' = file /\ open' = open /\ Ended' = Ended
  BY DEF engineVars, Ended
<1>3. ASSUME NEW a, NEW b, Kept(u, a, b) PROVE Kept(u, a, b)'
  BY <1>1, <1>2, <1>3 DEF Kept, Wanted, Has
<1>4. follow' = [at |-> follow'.at, raw |-> follow'.raw, query |-> follow'.query, pos |-> follow'.pos,
                 searched |-> follow'.searched, opened |-> follow'.opened, shown |-> follow'.shown]
  BY <1>1
<1>5. (follow.query.limit < 0 => Kept(u, 0, searched)) => Found(follow.shown)'
  <2>1. (follow.query.limit < 0 => Kept(u, 0, searched)) => (follow'.query.limit < 0 => Kept(u, 0, searched)')
    BY <1>1, <1>3
  <2>2. QED BY <1>1, <2>1 DEF Found, Kept
<1>6. at = "open" => WholeOnce(follow.shown, Ended)' /\ Found(follow.shown)'
  BY <1>1, <1>2, <1>5
<1>7. Position(to) => Position(follow.pos)'
  BY <1>1, <1>2 DEF Position
<1>8. ASSUME at \in {"tail", "poll", "drain"} PROVE Promise(follow.shown, follow.pos)'
  <2>1. CASE follow.raw
    BY <1>1, <1>8, <2>1 DEF Promise
  <2>2. CASE ~follow.raw
    <3>1. Kept(u, opened, to.lines)'
      BY <1>3, <1>8, <2>2
    <3>2. Kept(follow.shown, follow.opened, follow.pos.lines)'
      BY <1>1, <3>1 DEF Kept
    <3>3. WholeOnce(follow.shown, follow.pos.lines)' /\ Found(follow.shown)'
      BY <1>1, <1>5, <1>8, <2>2
    <3>4. QED BY <1>1, <2>2, <3>2, <3>3 DEF Promise, QueryShown
  <2>3. QED BY <2>1, <2>2
<1>9. /\ follow'.raw \in BOOLEAN /\ follow'.query.limit \in Int
      /\ (follow'.at = "print" => follow'.raw) /\ follow'.at \notin {"print", "search"}
  BY <1>1 DEF FollowInv
<1>10. IsSeq(follow.shown)'
  BY <1>1 DEF IsSeq
<1>11. QED BY <1>1, <1>2, <1>4, <1>6, <1>7, <1>8, <1>9, <1>10 DEF FollowInv

LEMMA StartIs ==
  ASSUME FileInv PROVE Position(Start) /\ Start.lines = 0 /\ Start.head = FALSE
<1>1. Start.lines = 0 /\ Start.head = FALSE /\ Start \in [lines : Nat, head : BOOLEAN]
  BY DEF Start
<1>2. QED BY <1>1, EndIs DEF Position

LEMMA NoneShown ==
  ASSUME FileInv, NEW s, s = <<>>
  PROVE  IsSeq(s) /\ RawShown(s, Start)
<1>1. IsSeq(s) /\ DOMAIN s = {}
  BY DEF IsSeq
<1>2. 1..Start.lines = {} /\ Start.head = FALSE
  <2>1. Start.lines = 0 /\ Start.head = FALSE
    BY StartIs
  <2>2. QED BY <2>1
<1>3. QED BY <1>1, <1>2 DEF RawShown

\* What the search finds is a line each, and with no limit all that are wanted.
LEMMA SearchStep ==
  ASSUME FileInv, FollowInv, SearchFile PROVE FollowInv'
<1>1. PICK n \in Nat : n = Len(file) /\ n # 0
  BY DEF FileInv
<1>2. /\ n \in Nat /\ n # 0 /\ open \in BOOLEAN /\ DOMAIN file = 1..n
      /\ \A i \in 1..n : file[i] \in LogLine
      /\ open => file[n].long
  <2>1. file \in Seq(LogLine) /\ open \in BOOLEAN /\ (open => file[Len(file)].long)
    BY DEF FileInv, LogLine
  <2>2. QED BY <1>1, <2>1
<1>3. PICK ps : ps = Pieces(Start)
  OBVIOUS
<1>4. /\ IsSeq(ps) /\ Len(ps) = n
      /\ \A k \in 1..n : ps[k] = [line |-> Start.lines + k, part |-> PartAt(Start.lines + k, Start)]
  <2>1. n = IF Start.head /\ open /\ Start.lines + 1 = Len(file) THEN 0 ELSE Len(file) - Start.lines
    <3>1. Start.lines = 0 /\ Start.head = FALSE
      BY StartIs
    <3>2. QED BY <1>1, <1>2, <3>1
  <2>2. QED BY <1>3, <2>1, StartIs, PiecesAre
<1>5. ASSUME NEW k \in 1..n
      PROVE  /\ ps[k].line = k /\ ps[k].part = IF open /\ k = n THEN "head" ELSE "whole"
             /\ ps[k] = [line |-> k, part |-> ps[k].part]
  <2>1. Start.lines = 0 /\ Start.head = FALSE
    BY StartIs
  <2>2. Start.lines + k = k
    BY <2>1
  <2>3. PICK x : x = PartAt(k, Start)
    OBVIOUS
  <2>4. ps[k] = [line |-> k, part |-> x]
    BY <1>4, <2>2, <2>3
  <2>5. x = IF open /\ k = n THEN "head" ELSE "whole"
    BY <1>1, <2>1, <2>3 DEF PartAt
  <2>6. ps[k].line = k /\ ps[k].part = x
    BY <2>4
  <2>7. QED BY <2>4, <2>5, <2>6
<1>6. PICK recs : recs = [i \in DOMAIN file |-> Parsed(ps[i])]
  OBVIOUS
<1>7. DOMAIN recs = 1..n /\ \A i \in 1..n : recs[i] = Parsed(ps[i]) /\ Texts(recs[i])
  <2>1. ASSUME NEW i \in 1..n PROVE recs[i] = Parsed(ps[i])
    BY <1>2, <1>6
  <2>2. Texts(Unparsable)
    BY DEF Texts, Unparsable
  <2>3. ASSUME NEW i \in 1..n PROVE Texts(file[i].rec)
    <3>1. file[i].rec \in Record
      BY <1>2 DEF LogLine
    <3>2. QED BY <3>1, TextsAssumption DEF Texts
  <2>4. ASSUME NEW i \in 1..n PROVE Texts(recs[i])
    <3>1. ps[i].line = i
      BY <1>5
    <3>2. QED BY <2>1, <2>2, <2>3, <3>1 DEF Parsed
  <2>5. QED BY <1>2, <1>6, <2>1, <2>4
<1>8. PICK found : found = Search(follow.query, recs)
  OBVIOUS
<1>9. follow.query.limit \in Int
  BY DEF FollowInv
<1>23. PICK l : Finds(found, l, follow.query, recs, n)
  BY <1>1, <1>7, <1>8, <1>9, SearchIs
<1>10. PICK m \in Nat :
         /\ found = [k \in 1..m |-> found[k]]
         /\ \A k \in 1..m : found[k] \in 1..n
         /\ \A j, k \in 1..m : found[j] = found[k] => j = k
         /\ follow.query.limit < 0 =>
              \A i \in 1..n : Matches(follow.query, recs[i]) => \E k \in 1..m : found[k] = i
  BY <1>23 DEF Finds
<1>11. PICK u : u = [i \in DOMAIN found |-> ps[found[i]]]
  OBVIOUS
<1>12. DOMAIN found = 1..m
  BY <1>10
<1>13. DOMAIN u = 1..m /\ u = [k \in 1..m |-> u[k]] /\ \A k \in 1..m : u[k] = ps[found[k]]
  BY <1>11, <1>12
<1>14. IsSeq(u)
  BY <1>13, Listed
<1>15. \A k \in 1..m : /\ u[k].line = found[k] /\ u[k].part = IF open /\ found[k] = n THEN "head" ELSE "whole"
  <2>1. ASSUME NEW k \in 1..m
        PROVE  /\ u[k].line = found[k]
               /\ u[k].part = IF open /\ found[k] = n THEN "head" ELSE "whole"
    <3>1. PICK i \in 1..n : i = found[k]
      BY <1>10
    <3>2. u[k] = ps[i]
      BY <1>13, <3>1
    <3>3. QED BY <1>5, <3>1, <3>2
  <2>2. QED BY <2>1
<1>16. WholeOnce(u, Ended)
  <2>1. ASSUME NEW k \in 1..m, u[k].part = "whole" PROVE u[k].line \in Nat /\ u[k].line <= Ended
    <3>1. PICK i \in 1..n : i = found[k]
      BY <1>10
    <3>2. u[k].line = i /\ ~(open /\ i = n)
      BY <1>15, <2>1, <3>1
    <3>3. QED BY <1>1, <1>2, <3>2 DEF Ended
  <2>2. \A j, k \in 1..m : u[j] = u[k] => j = k
    BY <1>10, <1>15
  <2>3. QED BY <1>13, <2>1, <2>2 DEF WholeOnce
<1>17. ASSUME follow.query.limit < 0, NEW i \in 1..n, Wanted(i) PROVE Has(u, i, "whole")
  <2>1. ~(open /\ i = n)
    BY <1>2, <1>17 DEF Wanted
  <2>2. ps[i] = [line |-> i, part |-> "whole"] /\ ps[i].line = i /\ ps[i].part = "whole"
    BY <1>5, <2>1
  <2>3. recs[i] = file[i].rec
    BY <1>7, <1>17, <2>2 DEF Parsed, Wanted
  <2>4. PICK k \in 1..m : found[k] = i
    BY <1>10, <1>17, <2>3 DEF Wanted
  <2>5. QED BY <1>13, <2>2, <2>4 DEF Has
<1>18. follow.query.limit < 0 => Kept(u, 0, n)
  BY <1>1, <1>17 DEF Kept
<1>19. ~follow.raw /\ UNCHANGED engineVars
  BY DEF SearchFile, FollowInv
<1>20. follow' = [at |-> "open", raw |-> follow.raw, query |-> follow.query, pos |-> follow.pos,
                  searched |-> n, opened |-> follow.opened, shown |-> u]
  <2>1. follow' = [follow EXCEPT !.at = "open", !.searched = n, !.shown = u]
    BY <1>1, <1>3, <1>6, <1>8, <1>11 DEF SearchFile
  <2>2. QED BY <2>1 DEF FollowInv
<1>21. n <= Len(file)
  BY <1>1, <1>2
<1>22. QED BY <1>2, <1>14, <1>16, <1>18, <1>19, <1>20, <1>21, FollowTo

LEMMA PieceIs ==
  ASSUME NEW n \in Nat, NEW x, NEW p, p = [line |-> n, part |-> x] PROVE p.line = n /\ p.part = x
  OBVIOUS

LEMMA ReadLineStep ==
  ASSUME FileInv, FollowInv, ReadLine PROVE FollowInv'
<1>1. PICK pos, s : pos = follow.pos /\ s = follow.shown
  OBVIOUS
<1>2. PICK pieces : pieces = Pieces(pos)
  OBVIOUS
<1>3. PICK p : p = Head(pieces)
  OBVIOUS
<1>4. PICK to : to = After(p)
  OBVIOUS
<1>5. PICK ps : ps = <<p>>
  OBVIOUS
<1>6. PICK u : u = s \o Emitted(ps)
  OBVIOUS
<1>7. /\ follow.at = "tail" /\ pieces # <<>> /\ Position(pos) /\ Promise(s, pos) /\ IsSeq(s)
      /\ UNCHANGED engineVars
  BY <1>1, <1>2 DEF ReadLine, FollowInv
<1>8. follow' = [follow EXCEPT !.shown = u, !.pos = to]
  BY <1>1, <1>2, <1>3, <1>4, <1>5, <1>6 DEF ReadLine, Printed
<1>9. PICK m : m = IF pos.head /\ open /\ pos.lines + 1 = Len(file) THEN 0 ELSE Len(file) - pos.lines
  OBVIOUS
<1>10. /\ IsSeq(pieces) /\ Len(pieces) = m
       /\ \A k \in 1..m : pieces[k] = [line |-> pos.lines + k, part |-> PartAt(pos.lines + k, pos)]
  BY <1>2, <1>7, <1>9, PiecesAre
<1>11. m \in Nat /\ m # 0 /\ p = pieces[1]
  <2>1. m \in Nat /\ pieces = [k \in 1..m |-> pieces[k]]
    BY <1>10 DEF IsSeq
  <2>2. m # 0
    BY <1>7, <2>1
  <2>3. QED BY <1>3, <2>1, <2>2
<1>12. /\ Len(file) \in Nat /\ pos.lines \in Nat /\ pos.lines + 1 <= Len(file)
       /\ ~(pos.head /\ open /\ pos.lines + 1 = Len(file)) /\ open \in BOOLEAN
  BY <1>7, <1>9, <1>11 DEF FileInv, Position
<1>13. PICK n \in Nat : n = pos.lines + 1
  BY <1>12
<1>14. p = [line |-> n, part |-> PartAt(n, pos)]
  <2>1. 1 \in 1..m
    BY <1>11
  <2>2. QED BY <1>10, <1>11, <1>13, <2>1
<1>15. p.line = n /\ p.part = PartAt(n, pos)
  <2>1. PICK x : x = PartAt(n, pos)
    OBVIOUS
  <2>2. QED BY <1>14, <2>1, PieceIs
<1>16. to = Past(n)
  <2>1. p.part = "head" <=> open /\ n = Len(file)
    BY <1>12, <1>13, <1>15 DEF PartAt
  <2>2. QED BY <1>4, <1>15, <2>1 DEF After, Past
<1>17. Read(pos, 1, to)
  BY <1>7, <1>12, <1>13, <1>16 DEF Read
<1>18. ps = [k \in 1..1 |-> ps[k]] /\ ps[1] = p
  BY <1>5
<1>19. \A k \in 1..1 : ps[k] = [line |-> pos.lines + k, part |-> PartAt(pos.lines + k, pos)]
  BY <1>13, <1>14, <1>18
<1>20. IsSeq(u) /\ Promise(u, to) /\ Position(to)
  <2>1. Takes(pos, 1, to, ps)
    BY <1>17, <1>18, <1>19 DEF Takes
  <2>2. QED BY <1>6, <1>7, <2>1, SomeRead
<1>21. follow' = [at |-> "tail", raw |-> follow.raw, query |-> follow.query, pos |-> to,
                  searched |-> follow.searched, opened |-> follow.opened, shown |-> u]
  BY <1>7, <1>8 DEF FollowInv
<1>22. QED BY <1>7, <1>20, <1>21, FollowTo DEF FollowInv, Promise, QueryShown, Found

LEMMA ReadAllStep ==
  ASSUME FileInv, FollowInv, PrintFile \/ Drain
  PROVE  \E u : /\ IsSeq(u) /\ Promise(u, End) /\ Position(End)
                /\ follow' = [at |-> IF follow.at = "print" THEN "tail" ELSE "done",
                              raw |-> follow.raw, query |-> follow.query, pos |-> End,
                              searched |-> follow.searched, opened |-> follow.opened, shown |-> u]
<1>1. PICK s : s = follow.shown /\ IsSeq(s)
  BY DEF FollowInv
<1>2. CASE PrintFile
  <2>1. follow.at = "print" /\ follow.raw /\ s = <<>>
    BY <1>1, <1>2 DEF PrintFile, FollowInv
  <2>2. Position(Start) /\ Promise(s, Start)
    BY <2>1, StartIs, NoneShown DEF Promise
  <2>3. PICK u : u = s \o Emitted(Pieces(Start))
    OBVIOUS
  <2>4. IsSeq(u) /\ Promise(u, End) /\ Position(End)
    BY <1>1, <2>2, <2>3, AllRead
  <2>5. follow' = [follow EXCEPT !.at = "tail", !.shown = u, !.pos = End]
    BY <1>1, <1>2, <2>3 DEF PrintFile, Printed
  <2>6. follow' = [at |-> "tail", raw |-> follow.raw, query |-> follow.query, pos |-> End,
                   searched |-> follow.searched, opened |-> follow.opened, shown |-> u]
    BY <2>5 DEF FollowInv
  <2>7. QED BY <2>1, <2>4, <2>6
<1>3. CASE Drain
  <2>1. follow.at = "drain" /\ Position(follow.pos) /\ Promise(follow.shown, follow.pos)
    BY <1>3 DEF Drain, FollowInv
  <2>2. PICK u : u = follow.shown \o Emitted(Pieces(follow.pos))
    OBVIOUS
  <2>3. IsSeq(u) /\ Promise(u, End) /\ Position(End)
    BY <1>1, <2>1, <2>2, AllRead
  <2>4. follow' = [follow EXCEPT !.at = "done", !.shown = u, !.pos = End]
    BY <1>3, <2>2 DEF Drain, Printed
  <2>5. follow' = [at |-> "done", raw |-> follow.raw, query |-> follow.query, pos |-> End,
                   searched |-> follow.searched, opened |-> follow.opened, shown |-> u]
    BY <2>4 DEF FollowInv
  <2>6. QED BY <2>1, <2>3, <2>5
<1>4. QED BY <1>2, <1>3

LEMMA FollowStep ==
  ASSUME FileInv, FollowInv, Follow PROVE FollowInv'
<1>1. CASE PrintFile \/ Drain
  <2>1. PICK u : /\ IsSeq(u) /\ Promise(u, End) /\ Position(End)
                 /\ follow' = [at |-> IF follow.at = "print" THEN "tail" ELSE "done",
                               raw |-> follow.raw, query |-> follow.query, pos |-> End,
                               searched |-> follow.searched, opened |-> follow.opened, shown |-> u]
    BY <1>1, ReadAllStep
  <2>2. UNCHANGED engineVars
    BY <1>1 DEF PrintFile, Drain
  <2>3. QED BY <2>1, <2>2, FollowTo DEF FollowInv, Promise, QueryShown, Found
<1>2. CASE SearchFile
  BY <1>2, SearchStep
<1>3. CASE ReadLine
  BY <1>3, ReadLineStep
<1>4. CASE OpenAtEnd
  <2>1. /\ follow.at = "open" /\ ~follow.raw /\ WholeOnce(follow.shown, Ended) /\ Found(follow.shown)
        /\ UNCHANGED engineVars
    BY <1>4 DEF OpenAtEnd, FollowInv
  <2>2. follow' = [follow EXCEPT !.at = "tail", !.pos = End, !.opened = Len(file)]
    BY <1>4 DEF OpenAtEnd
  <2>3. follow' = [at |-> "tail", raw |-> follow.raw, query |-> follow.query, pos |-> End,
                   searched |-> follow.searched, opened |-> Len(file), shown |-> follow.shown]
    BY <2>2 DEF FollowInv
  <2>4. Kept(follow.shown, Len(file), End.lines)
    <3>1. Len(file) \in Nat
      BY DEF FileInv
    <3>2. \A i \in 1..Len(file) : ~(Len(file) < i)
      BY <3>1
    <3>3. QED BY <3>2 DEF Kept
  <2>5. Position(End) /\ WholeOnce(follow.shown, End.lines)
    BY <2>1, EndIs
  <2>6. QED BY <2>1, <2>3, <2>4, <2>5, FollowTo DEF FollowInv, Found
<1>5. CASE NothingNew \/ PollStatus
  <2>1. PICK at \in {"tail", "poll", "drain"} : follow' = [follow EXCEPT !.at = at]
    BY <1>5 DEF NothingNew, PollStatus
  <2>2. follow.at \in {"tail", "poll"} /\ UNCHANGED engineVars
    BY <1>5 DEF NothingNew, PollStatus
  <2>3. follow' = [at |-> at, raw |-> follow.raw, query |-> follow.query, pos |-> follow.pos,
                   searched |-> follow.searched, opened |-> follow.opened, shown |-> follow.shown]
    BY <2>1 DEF FollowInv
  <2>4. QED BY <2>1, <2>2, <2>3, FollowTo DEF FollowInv, Promise, QueryShown, Found
<1>6. QED BY <1>1, <1>2, <1>3, <1>4, <1>5 DEF Follow

-----------------------------------------------------------------------------
(* What has been printed when the follow ends.                             *)

Places(s, r) == {k \in DOMAIN s : s[k] = r}

LEMMA CountIs ==
  ASSUME NEW s, NEW r, \A j, k \in DOMAIN s : s[j] = r /\ s[k] = r => j = k
  PROVE  Cardinality(Places(s, r)) = IF \E k \in DOMAIN s : s[k] = r THEN 1 ELSE 0
<1>1. CASE \E k \in DOMAIN s : s[k] = r
  <2>1. PICK k \in DOMAIN s : s[k] = r
    BY <1>1
  <2>2. Places(s, r) = {k}
    BY <2>1 DEF Places
  <2>3. QED BY <1>1, <2>2, FS_Singleton
<1>2. CASE ~\E k \in DOMAIN s : s[k] = r
  <2>1. Places(s, r) = {}
    BY <1>2 DEF Places
  <2>2. QED BY <1>2, <2>1, FS_EmptySet
<1>3. QED BY <1>1, <1>2

LEMMA LastRead ==
  ASSUME FileInv, FollowInv, [Next]_vars, follow.at # "done", follow'.at = "done"
  PROVE  IF follow.raw THEN InOrder' /\ \A i \in 1..closed : Once(i)'
         ELSE \A i \in 1..closed :
                /\ Times(i, "whole")' <= 1
                /\ Wanted(i) /\ (i > follow.opened \/ (i <= follow.searched /\ follow.query.limit < 0))
                     => Times(i, "whole")' = 1
<1>1. Drain
  <2>1. CASE SearchFile \/ OpenAtEnd \/ ReadLine \/ NothingNew \/ PollStatus \/ PrintFile
    <3>1. follow'.at # "done"
      BY <2>1 DEF SearchFile, OpenAtEnd, ReadLine, NothingNew, PollStatus, PrintFile, FollowInv
    <3>2. QED BY <3>1
  <2>2. follow' # follow
    OBVIOUS
  <2>3. QED BY <2>1, <2>2 DEF Next, vars, Follow, WriteLine, WriteHead, WriteRest, Finish, Stopped,
             Killed, Reconcile, Resume
<1>2. PICK u : /\ IsSeq(u) /\ Promise(u, End) /\ follow'.shown = u
  <2>1. PICK u : /\ IsSeq(u) /\ Promise(u, End)
                 /\ follow' = [at |-> IF follow.at = "print" THEN "tail" ELSE "done",
                               raw |-> follow.raw, query |-> follow.query, pos |-> End,
                               searched |-> follow.searched, opened |-> follow.opened, shown |-> u]
    BY <1>1, ReadAllStep
  <2>2. QED BY <2>1
<1>3. PICK n \in Nat : n = End.lines /\ \A i \in 1..closed : i \in 1..n
  <2>1. PICK n \in Nat : n = End.lines /\ n = Ended
    BY EndIs
  <2>2. closed \in Nat /\ closed <= n
    BY <2>1 DEF FileInv
  <2>3. QED BY <2>1, <2>2
<1>4. ASSUME NEW i, NEW x
      PROVE  Times(i, x)' = Cardinality(Places(u, [line |-> i, part |-> x]))
  BY <1>2 DEF Times, Places
<1>5. ASSUME NEW i, NEW x,
             \A j, k \in DOMAIN u : u[j] = [line |-> i, part |-> x] /\ u[k] = [line |-> i, part |-> x] => j = k
      PROVE  Times(i, x)' = IF Has(u, i, x) THEN 1 ELSE 0
  <2>1. PICK r : r = [line |-> i, part |-> x]
    OBVIOUS
  <2>2. Cardinality(Places(u, r)) = IF \E k \in DOMAIN u : u[k] = r THEN 1 ELSE 0
    BY <1>5, <2>1, CountIs
  <2>3. QED BY <1>4, <2>1, <2>2 DEF Has
<1>6. CASE follow.raw
  <2>1. RawShown(u, End)
    BY <1>2, <1>6 DEF Promise
  <2>2. InOrder'
    BY <1>2, <2>1 DEF RawShown, InOrder
  <2>3. ASSUME NEW i \in 1..closed PROVE Once(i)'
    <3>1. \A x : Times(i, x)' = IF Has(u, i, x) THEN 1 ELSE 0
      BY <1>5, <2>1 DEF RawShown
    <3>2. IF Has(u, i, "whole") THEN ~Has(u, i, "head") /\ ~Has(u, i, "rest")
          ELSE Has(u, i, "head") /\ Has(u, i, "rest")
      BY <1>3, <2>1 DEF RawShown
    <3>3. QED BY <3>1, <3>2 DEF Once
  <2>4. QED BY <1>6, <2>2, <2>3
<1>7. CASE ~follow.raw
  <2>1. WholeOnce(u, End.lines) /\ Found(u) /\ Kept(u, follow.opened, End.lines)
    BY <1>2, <1>7 DEF Promise, QueryShown
  <2>2. ASSUME NEW i \in 1..closed PROVE Times(i, "whole")' = IF Has(u, i, "whole") THEN 1 ELSE 0
    <3>1. PICK r : r = [line |-> i, part |-> "whole"]
      OBVIOUS
    <3>2. r.part = "whole"
      BY <3>1
    <3>3. \A j, k \in DOMAIN u : u[j] = r /\ u[k] = r => j = k
      BY <2>1, <3>2 DEF WholeOnce
    <3>4. QED BY <1>5, <3>1, <3>3
  <2>3. ASSUME NEW i \in 1..closed, Wanted(i),
               i > follow.opened \/ (i <= follow.searched /\ follow.query.limit < 0)
        PROVE  Has(u, i, "whole")
    <3>1. i \in 1..Len(file) /\ i <= End.lines /\ 0 < i
      BY <1>3, EndIs DEF FileInv, Ended
    <3>2. CASE i > follow.opened
      BY <2>1, <2>3, <3>1, <3>2 DEF Kept
    <3>3. CASE i <= follow.searched /\ follow.query.limit < 0
      BY <2>1, <2>3, <3>1, <3>3 DEF Kept, Found
    <3>4. QED BY <2>3, <3>2, <3>3
  <2>4. QED BY <1>7, <2>2, <2>3
<1>8. QED BY <1>6, <1>7

-----------------------------------------------------------------------------
(* The theorems.                                                           *)

Inv == FileInv /\ FollowInv

LEMMA InitInv == Init => Inv
<1> SUFFICES ASSUME Init PROVE Inv
  OBVIOUS
<1>1. PICK r \in Record : file = <<Line(r, FALSE)>>
  BY DEF Init
<1>2. file \in Seq(LogLine) /\ Len(file) = 1
  BY <1>1 DEF Line, LogLine
<1>3. FileInv
  <2>1. open = FALSE /\ closed = 0
    BY DEF Init
  <2>2. Ended = 1
    BY <1>2, <2>1 DEF Ended
  <2>3. file \in Seq([rec : Record, long : BOOLEAN, whole : BOOLEAN])
    BY <1>2 DEF LogLine
  <2>4. closed \in Nat /\ closed <= Ended
    BY <2>1, <2>2
  <2>5. Len(file) > 0
    BY <1>2
  <2>6. open \in BOOLEAN
    BY <2>1
  <2>7. QED BY <2>1, <2>3, <2>4, <2>5, <2>6 DEF FileInv
<1>4. PICK raw \in BOOLEAN, q \in Queries :
        follow = [at |-> IF raw THEN "print" ELSE "search", raw |-> raw, query |-> Parse(q),
                  pos |-> Start, searched |-> 0, opened |-> 0, shown |-> <<>>]
  BY DEF Init
<1>5. PICK p : p = Parse(q) /\ p.limit \in Int
  BY QueriesAssumption
<1>6. follow = [at |-> IF raw THEN "print" ELSE "search", raw |-> raw, query |-> p,
                pos |-> Start, searched |-> 0, opened |-> 0, shown |-> <<>>]
  BY <1>4, <1>5
<1>7. IsSeq(<<>>)
  BY DEF IsSeq
<1>8. FollowInv
  <2>1. CASE raw
    BY <1>2, <1>5, <1>6, <1>7, <2>1 DEF FollowInv
  <2>2. CASE ~raw
    BY <1>2, <1>5, <1>6, <1>7, <2>2 DEF FollowInv
  <2>3. QED BY <2>1, <2>2
<1>9. QED BY <1>3, <1>8 DEF Inv

LEMMA InvStep == ASSUME Inv, [Next]_vars PROVE Inv'
<1>1. FileInv /\ FollowInv
  BY DEF Inv
<1>2. CASE WriteLine \/ WriteHead \/ WriteRest \/ Finish \/ Stopped \/ Killed \/ Reconcile \/ Resume
  <2>1. FileInv' /\ Grown
    BY <1>1, <1>2, FileStep
  <2>2. UNCHANGED follow
    BY <1>2 DEF WriteLine, WriteHead, WriteRest, Finish, Stopped, Killed, Reconcile, Resume
  <2>3. QED BY <1>1, <2>1, <2>2, StillPromised DEF Inv
<1>3. CASE Follow
  <2>1. UNCHANGED engineVars
    BY <1>3 DEF Follow, PrintFile, SearchFile, OpenAtEnd, ReadLine, NothingNew, PollStatus, Drain
  <2>2. FileInv'
    BY <1>1, <2>1 DEF engineVars, FileInv, Ended
  <2>3. FollowInv'
    BY <1>1, <1>3, FollowStep
  <2>4. QED BY <2>2, <2>3 DEF Inv
<1>4. CASE UNCHANGED vars
  BY <1>1, <1>4 DEF vars, Inv, FileInv, Ended, FollowInv, Promise, RawShown, QueryShown, WholeOnce,
      Found, Kept, Has, Wanted, Position
<1>5. QED BY <1>2, <1>3, <1>4 DEF Next

\* The file grows line by line and the follow has what lies before it, in every
\* state of a follow of any log.
THEOREM FollowInvariant == FairSpec => []Inv
<1>1. Init /\ [][Next]_vars => []Inv
  BY InitInv, InvStep, PTL
<1>2. QED BY <1>1, PTL DEF FairSpec

\* A follow that has ended by itself has printed each line of the run once and in
\* order, and with a query each wanted one (cli/job.py and cli/loop.py, `-f`).
THEOREM FollowsAreComplete == FairSpec => FollowComplete
<1>1. ASSUME Inv, [Next]_vars, follow.at # "done", follow'.at = "done"
      PROVE  IF follow.raw THEN InOrder' /\ \A i \in 1..closed : Once(i)'
             ELSE \A i \in 1..closed :
                    /\ Times(i, "whole")' <= 1
                    /\ Wanted(i) /\ (i > follow.opened \/ (i <= follow.searched /\ follow.query.limit < 0))
                         => Times(i, "whole")' = 1
  BY <1>1, LastRead DEF Inv
<1>2. FairSpec => []Inv /\ [][Next]_vars
  BY FollowInvariant, PTL DEF FairSpec
<1>3. QED BY <1>1, <1>2, PTL DEF FollowComplete

=============================================================================
