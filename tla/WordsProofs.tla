----------------------------- MODULE WordsProofs -----------------------------
(***************************************************************************)
(* What redaction, moderation, the HTTP edge and the translator promise,    *)
(* for every value of their constants: however many identifiers, texts,     *)
(* policies, chunks and blocks there are. One part each, with its           *)
(* inductive invariant; the lists they are about are reasoned about by the  *)
(* lemmas of ListsProofs.                                                   *)
(***************************************************************************)
EXTENDS Redaction, Moderation, Admission, Translation, Places, ListsProofs, FiniteSetTheorems

-----------------------------------------------------------------------------
(***************************************************************************)
(* Redaction.                                                               *)
(***************************************************************************)

\* The n-th span identifier i found in text t.
Nth(i, t, n) == [by |-> i, text |-> t, nth |-> n]

\* What an identifier found: the spans of each text, by their place in its report.
LEMMA FoundByFacts ==
  ASSUME NEW i
  PROVE  \A f : f \in FoundBy(i) <=>
           \E t \in 1 .. Texts : \E n \in DOMAIN reports[i][t] : f = Nth(i, t, n)
BY DEF FoundBy, Nth

\* The spans that are in, of one text.
LEMMA FoundInFacts ==
  ASSUME NEW t \in 1 .. Texts
  PROVE  \A f : f \in FoundIn(t) <=>
           \E i \in ToSet(came) : \E n \in DOMAIN reports[i][t] : f = Nth(i, t, n)
<1>1. \A f : f \in FoundIn(t) <=> /\ f.text = t
                                 /\ \E i \in ToSet(came) : f \in FoundBy(i)
  BY DEF FoundIn
<1> QED BY <1>1, FoundByFacts DEF Nth

\* Reports and what is in of them are well-formed.
ReportsInOrder == reports \in Seq(Report) /\ came \in Seq(Identifiers)

\* A span that is in is one of a well-formed report.
LEMMA SpanFacts ==
  ASSUME ReportsInOrder, NEW t \in 1 .. Texts, NEW f \in FoundIn(t)
  PROVE  /\ f.by \in Nat /\ f.nth \in Nat /\ f.text = t /\ f = Nth(f.by, t, f.nth)
         /\ f.by \in ToSet(came) /\ SpanOf(f) \in Span
<1>1. PICK i \in ToSet(came) : \E n \in DOMAIN reports[i][t] : f = Nth(i, t, n)
  BY FoundInFacts
<1>2. i \in Identifiers
  BY DEF ReportsInOrder, ToSet
<1>3. reports[i] \in Report /\ i \in Nat
  BY <1>2 DEF ReportsInOrder, Identifiers
<1>4. reports[i][t] \in Seq(Span)
  BY <1>3 DEF Report
<1>5. PICK n \in DOMAIN reports[i][t] : f = Nth(i, t, n)
  BY <1>1
<1>6. n \in Nat /\ reports[i][t][n] \in Span
  BY <1>4
<1>7. f.by = i /\ f.text = t /\ f.nth = n
  BY <1>5 DEF Nth
<1> QED BY <1>3, <1>5, <1>6, <1>7 DEF SpanOf

\* Finitely many spans are in of a text.
LEMMA FoundInFinite ==
  ASSUME ReportsInOrder, NEW t \in 1 .. Texts
  PROVE  IsFiniteSet(FoundIn(t))
<1> DEFINE in(i) == {Nth(i, t, n) : n \in DOMAIN reports[i][t]}
           sets == {in(i) : i \in ToSet(came)}
<1>1. FoundIn(t) = UNION sets
  BY FoundInFacts
<1>2. ASSUME NEW i \in ToSet(came) PROVE IsFiniteSet(in(i))
  <2> DEFINE S == DOMAIN reports[i][t]
             f == [n \in S |-> Nth(i, t, n)]
  <2>1. reports[i][t] \in Seq(Span)
    <3>1. i \in Identifiers
      BY DEF ReportsInOrder, ToSet
    <3>2. reports[i] \in Report
      BY <3>1 DEF ReportsInOrder, Identifiers
    <3> QED BY <3>2 DEF Report
  <2>2. IsFiniteSet(S)
    <3>1. S = 1 .. Len(reports[i][t]) /\ Len(reports[i][t]) \in Int
      BY <2>1
    <3> QED BY <3>1, FS_Interval
  <2>3. IsFiniteSet({f[n] : n \in S})
    <3>1. f = [n \in S |-> f[n]]
      OBVIOUS
    <3> HIDE DEF f, S
    <3> QED BY <2>2, <3>1, ImageFinite
  <2>4. {f[n] : n \in S} = in(i)
    OBVIOUS
  <2> QED BY <2>3, <2>4
<1>3. IsFiniteSet(ToSet(came))
  <2> DEFINE S == DOMAIN came
  <2>1. IsFiniteSet(S)
    <3>1. S = 1 .. Len(came) /\ Len(came) \in Int
      BY DEF ReportsInOrder
    <3> QED BY <3>1, FS_Interval
  <2>2. came = [n \in S |-> came[n]]
    BY DEF ReportsInOrder
  <2>3. IsFiniteSet({came[n] : n \in S})
    <3> HIDE DEF S
    <3> QED BY <2>1, <2>2, ImageFinite
  <2> QED BY <2>3 DEF ToSet
<1>4. IsFiniteSet(sets)
  <2> DEFINE S == ToSet(came)
             f == [i \in S |-> in(i)]
  <2>1. f = [i \in S |-> f[i]] /\ {f[i] : i \in S} = sets
    OBVIOUS
  <2>2. IsFiniteSet({f[i] : i \in S})
    <3> HIDE DEF f, S
    <3> QED BY <1>3, <2>1, ImageFinite DEF S
  <2> QED BY <2>1, <2>2
<1>5. \A T \in sets : IsFiniteSet(T)
  BY <1>2
<1> HIDE DEF sets
<1> QED BY <1>1, <1>4, <1>5, FS_UNION

-----------------------------------------------------------------------------
\* resolve.

\* Outranks orders the spans of a text.
Ordering(found) ==
  /\ \A f \in found : ~Outranks(f, f)
  /\ \A f, g \in found : f = g \/ Outranks(f, g) \/ Outranks(g, f)
  /\ \A f, g, h \in found : Outranks(f, g) /\ Outranks(g, h) => Outranks(f, h)

\* The order resolve takes them in is a strict total order.
LEMMA FoundInOrdered ==
  ASSUME ReportsInOrder, NEW t \in 1 .. Texts
  PROVE  Ordering(FoundIn(t))
<1>1. ASSUME NEW f \in FoundIn(t)
      PROVE  /\ Length(f) \in Int /\ f.by \in Nat /\ f.nth \in Nat
             /\ f = Nth(f.by, t, f.nth)
  BY SpanFacts DEF Length, Span
<1>2. \A f \in FoundIn(t) : ~Outranks(f, f)
  BY <1>1 DEF Outranks, Earlier
<1>3. ASSUME NEW f \in FoundIn(t), NEW g \in FoundIn(t)
      PROVE  f = g \/ Outranks(f, g) \/ Outranks(g, f)
  <2>1. CASE f.by = g.by /\ f.nth = g.nth
    BY <1>1, <2>1
  <2>2. CASE ~ (f.by = g.by /\ f.nth = g.nth)
    BY <1>1, <2>2 DEF Outranks, Earlier
  <2> QED BY <2>1, <2>2
<1>4. ASSUME NEW f \in FoundIn(t), NEW g \in FoundIn(t), NEW h \in FoundIn(t),
             Outranks(f, g), Outranks(g, h)
      PROVE  Outranks(f, h)
  BY <1>1, <1>4 DEF Outranks, Earlier
<1> QED BY <1>2, <1>3, <1>4 DEF Ordering

\* How many outrank a span.
Outranking(f, found) == {g \in found : Outranks(g, f)}
RankOf(f, found) == Cardinality(Outranking(f, found))

\* A span's rank is the number of spans before it: no two have the same, and the
\* higher one has the smaller.
LEMMA RankFacts ==
  ASSUME NEW found, IsFiniteSet(found), Ordering(found)
  PROVE  /\ \A f \in found : RankOf(f, found) \in 0 .. Cardinality(found) - 1
         /\ \A f, g \in found : Outranks(f, g) => RankOf(f, found) < RankOf(g, found)
<1>1. ASSUME NEW f \in found PROVE RankOf(f, found) \in 0 .. Cardinality(found) - 1
  <2>1. Outranking(f, found) \in SUBSET found /\ f \notin Outranking(f, found)
    BY DEF Outranking, Ordering
  <2>2. /\ Cardinality(found) \in Nat /\ RankOf(f, found) \in Nat
        /\ RankOf(f, found) < Cardinality(found)
    BY <2>1, SmallerPart DEF RankOf
  <2> QED BY <2>2
<1>2. ASSUME NEW f \in found, NEW g \in found, Outranks(f, g)
      PROVE  RankOf(f, found) < RankOf(g, found)
  <2>1. Outranking(f, found) \in SUBSET Outranking(g, found) /\ f \in Outranking(g, found)
        /\ f \notin Outranking(f, found)
    BY <1>2 DEF Outranking, Ordering
  <2>2. IsFiniteSet(Outranking(g, found))
    <3>1. Outranking(g, found) \in SUBSET found
      BY DEF Outranking
    <3> QED BY <3>1, FS_Subset
  <2> QED BY <2>1, <2>2, SmallerPart DEF RankOf
<1> QED BY <1>1, <1>2

\* ByRank lists every span, once, in the order of the ranks.
LEMMA ByRankFacts ==
  ASSUME NEW found, IsFiniteSet(found), Ordering(found)
  PROVE  LET N == Cardinality(found)
         IN  /\ N \in Nat
             /\ \A n \in 1 .. N : /\ ByRank(found)[n] \in found
                                  /\ RankOf(ByRank(found)[n], found) = n - 1
             /\ \A f \in found : \E n \in 1 .. N : ByRank(found)[n] = f
<1> DEFINE N == Cardinality(found)
           rank == [f \in found |-> RankOf(f, found)]
           Ranks == {rank[f] : f \in found}
<1>1. N \in Nat
  BY FS_CardinalityType
<1>2. rank \in [found -> 0 .. N - 1] /\ \A f \in found : rank[f] = RankOf(f, found)
  BY RankFacts
<1>3. \A f, g \in found : rank[f] = rank[g] => f = g
  <2> SUFFICES ASSUME NEW f \in found, NEW g \in found, rank[f] = rank[g] PROVE f = g
    OBVIOUS
  <2>1. RankOf(f, found) \in Int /\ RankOf(g, found) \in Int
    BY RankFacts, <1>1
  <2>2. ~Outranks(f, g) /\ ~Outranks(g, f)
    BY <1>2, <2>1, RankFacts
  <2> QED BY <2>2 DEF Ordering
<1> HIDE DEF rank
<1>4. rank \in Injection(found, 0 .. N - 1)
  <2> HIDE DEF N
  <2> QED BY <1>2, <1>3 DEF Injection, IsInjective
<1>5. IsFiniteSet(0 .. N - 1) /\ Cardinality(0 .. N - 1) = N
  <2> HIDE DEF N
  <2>1. 0 \in Int /\ N - 1 \in Int /\ (IF 0 > N - 1 THEN 0 ELSE (N - 1) - 0 + 1) = N
    BY <1>1
  <2> QED BY <2>1, FS_Interval
<1>6. rank \in Surjection(found, 0 .. N - 1)
  BY <1>4, <1>5, FS_Injection
<1>7. ASSUME NEW n \in 1 .. N
      PROVE  ByRank(found)[n] \in found /\ RankOf(ByRank(found)[n], found) = n - 1
  <2>1. n - 1 \in 0 .. N - 1
    BY <1>1
  <2>2. \E f \in found : RankOf(f, found) = n - 1
    BY <1>2, <1>6, <2>1 DEF Surjection
  <2>3. ByRank(found)[n] = CHOOSE f \in found : RankOf(f, found) = n - 1
    BY DEF ByRank, RankOf, Outranking
  <2> QED BY <2>2, <2>3
<1>8. ASSUME NEW f \in found PROVE \E n \in 1 .. N : ByRank(found)[n] = f
  <2>1. rank[f] \in 0 .. N - 1
    BY <1>2
  <2>2. rank[f] + 1 \in 1 .. N /\ (rank[f] + 1) - 1 = rank[f]
    BY <1>1, <2>1
  <2> DEFINE n == rank[f] + 1
             g == ByRank(found)[n]
  <2>3. g \in found /\ RankOf(g, found) = rank[f]
    BY <1>7, <2>2
  <2> HIDE DEF g
  <2>4. g = f
    BY <1>2, <1>3, <2>3
  <2> QED BY <2>2, <2>4 DEF g
<1> QED BY <1>1, <1>7, <1>8

\* chosen[n] is what is chosen among the first n by rank.
ChosenUpto(found, chosen) ==
  /\ chosen[0] = {}
  /\ \A n \in 1 .. Cardinality(found) :
       chosen[n] = IF \E f \in chosen[n - 1] : Overlap(f, ByRank(found)[n])
                   THEN chosen[n - 1] ELSE chosen[n - 1] \cup {ByRank(found)[n]}

\* Resolve's recursive function is one.
LEMMA ChosenExists ==
  ASSUME NEW found, IsFiniteSet(found), Ordering(found)
  PROVE  \E chosen \in [0 .. Cardinality(found) -> SUBSET found] :
            ChosenUpto(found, chosen) /\ Resolve(found) = chosen[Cardinality(found)]
<1> DEFINE N == Cardinality(found)
           b == ByRank(found)
           Wider(n, c) == IF \E f \in c : Overlap(f, b[n]) THEN c ELSE c \cup {b[n]}
           step == [n \in 1 .. N |-> [c \in SUBSET found |-> Wider(n, c)]]
           chosen[n \in 0 .. N] ==
             IF n = 0 THEN {}
             ELSE IF \E f \in chosen[n - 1] : Overlap(f, ByRank(found)[n])
                  THEN chosen[n - 1] ELSE chosen[n - 1] \cup {ByRank(found)[n]}
<1>1. N \in Nat /\ \A n \in 1 .. N : b[n] \in found
  BY ByRankFacts
<1> HIDE DEF b
<1>2. step \in [1 .. N -> [SUBSET found -> SUBSET found]]
  BY <1>1
<1>3. PICK g \in [0 .. N -> SUBSET found] : Follows(g, N, {}, step)
  <2> DEFINE V  == SUBSET found
             v0 == {}
  <2>1. N \in Nat /\ v0 \in V /\ step \in [1 .. N -> [V -> V]]
    BY <1>1, <1>2
  <2> HIDE DEF step, N, V, v0, chosen, Wider
  <2>2. \E g \in [0 .. N -> V] : Follows(g, N, v0, step)
    BY <2>1, Recursion
  <2> QED BY <2>2 DEF V, v0
<1> HIDE DEF N, Wider
<1>4. \A k \in 1 .. N : g[k] = Wider(k, g[k - 1])
  <2> SUFFICES ASSUME NEW k \in 1 .. N PROVE g[k] = Wider(k, g[k - 1])
    OBVIOUS
  <2>1. k - 1 \in 0 .. N
    BY <1>1
  <2>2. g[k - 1] \in SUBSET found
    BY <2>1, <1>3
  <2> QED BY <1>3, <2>2 DEF Follows
<1>5. g = [n \in 0 .. N |->
             IF n = 0 THEN {}
             ELSE IF \E f \in g[n - 1] : Overlap(f, ByRank(found)[n])
                  THEN g[n - 1] ELSE g[n - 1] \cup {ByRank(found)[n]}]
  <2>1. ASSUME NEW n \in 0 .. N
        PROVE  g[n] = IF n = 0 THEN {}
                      ELSE IF \E f \in g[n - 1] : Overlap(f, ByRank(found)[n])
                           THEN g[n - 1] ELSE g[n - 1] \cup {ByRank(found)[n]}
    <3>1. CASE n = 0
      BY <3>1, <1>3 DEF Follows
    <3>2. CASE n # 0
      <4>1. n \in 1 .. N
        BY <3>2, <1>1
      <4>2. g[n] = Wider(n, g[n - 1])
        BY <4>1, <1>4
      <4> QED BY <3>2, <4>2 DEF Wider, b
    <3> QED BY <3>1, <3>2
  <2>2. g = [n \in 0 .. N |-> g[n]]
    BY <1>3
  <2> QED BY <2>1, <2>2, Zenon
<1>6. chosen = [n \in 0 .. N |->
                IF n = 0 THEN {}
                ELSE IF \E f \in chosen[n - 1] : Overlap(f, ByRank(found)[n])
                     THEN chosen[n - 1] ELSE chosen[n - 1] \cup {ByRank(found)[n]}]
  BY <1>5, Zenon
<1>7. Resolve(found) = chosen[N]
  BY DEF Resolve, N
<1> HIDE DEF chosen
<1>8. chosen[0] = {} /\ \A n \in 1 .. N : chosen[n] = Wider(n, chosen[n - 1])
  <2>1. ASSUME NEW n \in 0 .. N
        PROVE  chosen[n] = IF n = 0 THEN {} ELSE Wider(n, chosen[n - 1])
    BY <1>6 DEF Wider, b
  <2>2. 0 \in 0 .. N /\ \A n \in 1 .. N : n \in 0 .. N /\ n # 0
    BY <1>1
  <2> QED BY <2>1, <2>2
<1>9. ChosenUpto(found, chosen)
  BY <1>8 DEF ChosenUpto, Wider, N, b
<1>10. \A n \in 0 .. N : chosen[n] = g[n]
  <2> DEFINE S == {n \in Nat : n <= N => chosen[n] = g[n]}
  <2>1. 0 \in S
    BY <1>3, <1>8 DEF Follows
  <2>2. ASSUME NEW n \in Nat, n \in S PROVE n + 1 \in S
    <3> SUFFICES ASSUME n + 1 <= N PROVE chosen[n + 1] = g[n + 1]
      OBVIOUS
    <3>1. chosen[n] = g[n] /\ n + 1 \in 1 .. N /\ (n + 1) - 1 = n
      BY <1>1, <2>2
    <3> QED BY <1>4, <1>8, <3>1
  <2>3. Nat \subseteq S
    <3> HIDE DEF S
    <3> QED BY <2>1, <2>2, NatSets
  <2> QED BY <2>3, <1>1
<1>11. chosen \in [0 .. N -> SUBSET found]
  <2>1. chosen = [n \in 0 .. N |-> chosen[n]]
    BY <1>6
  <2> QED BY <2>1, <1>3, <1>10
<1> QED BY <1>7, <1>9, <1>11 DEF N

\* What is chosen among the first n by rank: none of them overlap, and one
\* that is not chosen overlaps a chosen one of a lower rank.
Settled(found, c, n) ==
  /\ \A f \in c : \E m \in 1 .. n : f = ByRank(found)[m]
  /\ \A f, g \in c : f # g => ~Overlap(f, g)
  /\ \A m \in 1 .. n :
       \/ ByRank(found)[m] \in c
       \/ \E g \in c : Overlap(g, ByRank(found)[m])
                       /\ RankOf(g, found) < m - 1

\* The next span by rank is chosen when it overlaps none chosen before it.
LEMMA SettledNext ==
  ASSUME NEW found, IsFiniteSet(found), Ordering(found),
         NEW n \in Nat, n + 1 <= Cardinality(found),
         NEW c, Settled(found, c, n),
         NEW d, d = IF \E f \in c : Overlap(f, ByRank(found)[n + 1])
                    THEN c ELSE c \cup {ByRank(found)[n + 1]}
  PROVE  Settled(found, d, n + 1)
<1> DEFINE b == ByRank(found)
           N == Cardinality(found)
<1>1. /\ N \in Nat
      /\ \A m \in 1 .. N : b[m] \in found /\ RankOf(b[m], found) = m - 1
  BY ByRankFacts
<1>2. \A m \in 1 .. n : m \in 1 .. N /\ m \in Nat
  BY <1>1
<1>3. /\ \A f \in c : \E m \in 1 .. n : f = b[m]
      /\ \A f, g \in c : f # g => ~Overlap(f, g)
      /\ \A m \in 1 .. n : b[m] \in c \/ \E g \in c : Overlap(g, b[m])
                                                      /\ RankOf(g, found) < m - 1
  BY DEF Settled
<1>4. \A m \in 1 .. n + 1 : m \in 1 .. n \/ m = n + 1
  OBVIOUS
<1>5. \A m \in 1 .. n : m \in 1 .. n + 1
  OBVIOUS
<1>6. n + 1 \in 1 .. n + 1 /\ (n + 1) - 1 = n
  OBVIOUS
<1>7. c \subseteq d
  OBVIOUS
<1>8. \A f \in c : RankOf(f, found) < n
  <2> SUFFICES ASSUME NEW f \in c PROVE RankOf(f, found) < n
    OBVIOUS
  <2>1. PICK m \in 1 .. n : f = b[m]
    BY <1>3
  <2>2. RankOf(f, found) = m - 1 /\ m \in Nat /\ m <= n
    BY <1>1, <1>2, <2>1
  <2> QED BY <2>2
<1> HIDE DEF b, N
<1>9. CASE \E f \in c : Overlap(f, b[n + 1])
  <2>1. d = c
    BY <1>9 DEF b
  <2>2. PICK f \in c : Overlap(f, b[n + 1])
    BY <1>9
  <2>3. RankOf(f, found) < (n + 1) - 1
    BY <1>6, <1>8
  <2>4. \A m \in 1 .. n + 1 : b[m] \in c \/ \E g \in c : Overlap(g, b[m])
                                                      /\ RankOf(g, found) < m - 1
    BY <1>3, <1>4, <2>2, <2>3
  <2>5. \A h \in c : \E m \in 1 .. n + 1 : h = b[m]
    BY <1>3, <1>5
  <2> QED BY <1>3, <2>1, <2>4, <2>5 DEF Settled, b
<1>10. CASE ~ \E f \in c : Overlap(f, b[n + 1])
  <2>1. d = c \cup {b[n + 1]}
    BY <1>10 DEF b
  <2>2. \A m \in 1 .. n + 1 : b[m] \in d \/ \E g \in d : Overlap(g, b[m])
                                                      /\ RankOf(g, found) < m - 1
    BY <1>3, <1>4, <1>7, <2>1
  <2>3. \A h \in d : \E m \in 1 .. n + 1 : h = b[m]
    BY <1>3, <1>5, <1>6, <2>1
  <2>4. \A f, g : Overlap(f, g) <=> Overlap(g, f)
    BY DEF Overlap
  <2>5. \A f, g \in d : f # g => ~Overlap(f, g)
    BY <1>3, <1>10, <2>1, <2>4
  <2> QED BY <2>2, <2>3, <2>5 DEF Settled, b
<1> QED BY <1>9, <1>10

\* What resolve makes of the spans of a text.
LEMMA ResolveFacts ==
  ASSUME NEW found, IsFiniteSet(found), Ordering(found)
  PROVE  /\ Resolve(found) \subseteq found
         /\ \A f, g \in Resolve(found) : f # g => ~Overlap(f, g)
         /\ \A f \in found : f \in Resolve(found)
              \/ \E g \in Resolve(found) : Overlap(g, f) /\ Outranks(g, f)
<1> DEFINE N == Cardinality(found)
           b == ByRank(found)
<1>1. /\ N \in Nat
      /\ \A m \in 1 .. N : b[m] \in found /\ RankOf(b[m], found) = m - 1
      /\ \A f \in found : \E n \in 1 .. N : b[n] = f
  BY ByRankFacts
<1>2. PICK chosen \in [0 .. N -> SUBSET found] :
        ChosenUpto(found, chosen) /\ Resolve(found) = chosen[N]
  BY ChosenExists
<1> DEFINE S == {n \in Nat : n <= N => Settled(found, chosen[n], n)}
<1>3. 0 \in S
  <2>1. chosen[0] = {}
    BY <1>2 DEF ChosenUpto
  <2>2. Settled(found, {}, 0)
    BY DEF Settled
  <2> QED BY <2>1, <2>2
<1>4. ASSUME NEW n \in Nat, n \in S PROVE n + 1 \in S
  <2> SUFFICES ASSUME n + 1 <= N PROVE Settled(found, chosen[n + 1], n + 1)
    OBVIOUS
  <2>1. n + 1 \in 1 .. N /\ (n + 1) - 1 = n /\ n <= N
    BY <1>1
  <2>2. chosen[n + 1] = IF \E f \in chosen[n] : Overlap(f, b[n + 1])
                        THEN chosen[n] ELSE chosen[n] \cup {b[n + 1]}
    BY <1>2, <2>1 DEF ChosenUpto
  <2>3. Settled(found, chosen[n], n)
    BY <1>4, <2>1
  <2> DEFINE c == chosen[n]
             d == chosen[n + 1]
  <2>4. /\ Settled(found, c, n) /\ n + 1 <= Cardinality(found)
        /\ d = IF \E f \in c : Overlap(f, ByRank(found)[n + 1])
               THEN c ELSE c \cup {ByRank(found)[n + 1]}
    BY <2>2, <2>3
  <2> HIDE DEF c, d, S, N, b
  <2>5. Settled(found, d, n + 1)
    BY <2>4, SettledNext
  <2> QED BY <2>5 DEF d
<1>5. Settled(found, Resolve(found), N)
  <2>1. N \in S
    <3> HIDE DEF S
    <3> QED BY <1>1, <1>3, <1>4, NatSets
  <2> QED BY <1>1, <1>2, <2>1
<1>6. Resolve(found) \subseteq found
  <2>1. N \in 0 .. N
    BY <1>1
  <2> QED BY <1>2, <2>1
<1>7. \A f, g \in Resolve(found) : f # g => ~Overlap(f, g)
  BY <1>5 DEF Settled
<1>8. ASSUME NEW f \in found, f \notin Resolve(found)
      PROVE  \E g \in Resolve(found) : Overlap(g, f) /\ Outranks(g, f)
  <2>1. PICK n \in 1 .. N : b[n] = f
    BY <1>1
  <2>2. PICK g \in Resolve(found) : Overlap(g, f) /\ RankOf(g, found) < n - 1
    BY <1>5, <1>8, <2>1 DEF Settled
  <2>3. RankOf(f, found) = n - 1 /\ g \in found
    BY <1>1, <1>6, <2>1
  <2>4. /\ RankOf(f, found) \in Int /\ RankOf(g, found) \in Int
        /\ RankOf(g, found) < RankOf(f, found)
    BY <1>1, <2>2, <2>3, RankFacts
  <2>5. f # g /\ ~Outranks(f, g)
    <3>1. f = g => FALSE
      BY <2>4
    <3>2. Outranks(f, g) => RankOf(f, found) < RankOf(g, found)
      BY <2>3, RankFacts
    <3> QED BY <2>4, <3>1, <3>2
  <2>6. Outranks(g, f)
    BY <2>3, <2>5 DEF Ordering
  <2> QED BY <2>2, <2>6
<1> QED BY <1>6, <1>7, <1>8

-----------------------------------------------------------------------------
\* redact.

\* What is replaced: what resolve makes of each text's spans.
Replaced == UNION {Resolve(FoundIn(t)) : t \in 1 .. Texts}

\* What is replaced is finite, is in, and does not overlap within its text.
LEMMA ReplacedFacts ==
  ASSUME ReportsInOrder, RedactionAssumption
  PROVE  /\ IsFiniteSet(Replaced)
         /\ \A f \in Replaced : f.text \in 1 .. Texts /\ f \in FoundIn(f.text)
         /\ \A f \in Replaced : f.by \in ToSet(came) /\ SpanOf(f) \in Span
         /\ \A f, g \in Replaced : f # g => ~Overlap(f, g)
         /\ \A t \in 1 .. Texts : \A f \in FoundIn(t) :
              f \in Replaced \/ \E g \in Replaced : Overlap(g, f) /\ Outranks(g, f)
<1> DEFINE R(t) == Resolve(FoundIn(t))
           sets == {R(t) : t \in 1 .. Texts}
<1>1. ASSUME NEW t \in 1 .. Texts
      PROVE  /\ R(t) \subseteq FoundIn(t)
             /\ \A f, g \in R(t) : f # g => ~Overlap(f, g)
             /\ \A f \in FoundIn(t) : f \in R(t)
                  \/ \E g \in R(t) : Overlap(g, f) /\ Outranks(g, f)
             /\ IsFiniteSet(R(t))
  <2> DEFINE found == FoundIn(t)
  <2>1. IsFiniteSet(found) /\ Ordering(found)
    BY FoundInFinite, FoundInOrdered
  <2> HIDE DEF found
  <2>2. /\ Resolve(found) \subseteq found
        /\ \A f, g \in Resolve(found) : f # g => ~Overlap(f, g)
        /\ \A f \in found : f \in Resolve(found)
             \/ \E g \in Resolve(found) : Overlap(g, f) /\ Outranks(g, f)
    BY <2>1, ResolveFacts
  <2>3. IsFiniteSet(Resolve(found))
    BY <2>1, <2>2, FS_Subset
  <2> QED BY <2>2, <2>3 DEF found
<1>2. ASSUME NEW f \in Replaced
      PROVE  f.text \in 1 .. Texts /\ f \in R(f.text) /\ f \in FoundIn(f.text)
  <2>1. PICK t \in 1 .. Texts : f \in R(t)
    BY DEF Replaced
  <2>2. f \in FoundIn(t)
    BY <1>1, <2>1
  <2>3. f.text = t
    BY <2>2, SpanFacts
  <2> QED BY <2>1, <2>2, <2>3
<1>3. \A t \in 1 .. Texts : R(t) \subseteq Replaced
  BY DEF Replaced
<1>4. IsFiniteSet(Replaced)
  <2>1. IsFiniteSet(1 .. Texts)
    BY FS_Interval DEF RedactionAssumption
  <2>2. IsFiniteSet(sets)
    <3> DEFINE S == 1 .. Texts
               r == [t \in S |-> R(t)]
    <3>1. r = [t \in S |-> r[t]] /\ {r[t] : t \in S} = sets
      OBVIOUS
    <3>2. IsFiniteSet({r[t] : t \in S})
      <4> HIDE DEF r, S
      <4> QED BY <2>1, <3>1, ImageFinite DEF S
    <3> QED BY <3>1, <3>2
  <2>3. \A T \in sets : IsFiniteSet(T)
    BY <1>1
  <2>4. Replaced = UNION sets
    BY DEF Replaced
  <2> HIDE DEF sets
  <2> QED BY <2>2, <2>3, <2>4, FS_UNION
<1> HIDE DEF R
<1>5. ASSUME NEW f \in Replaced, NEW g \in Replaced, f # g PROVE ~Overlap(f, g)
  <2>1. CASE f.text = g.text
    BY <1>1, <1>2, <1>5, <2>1
  <2>2. CASE f.text # g.text
    BY <2>2 DEF Overlap
  <2> QED BY <2>1, <2>2
<1>6. ASSUME NEW f \in Replaced PROVE f.by \in ToSet(came) /\ SpanOf(f) \in Span
  BY <1>2, SpanFacts
<1>7. ASSUME NEW t \in 1 .. Texts, NEW f \in FoundIn(t), f \notin Replaced
      PROVE  \E g \in Replaced : Overlap(g, f) /\ Outranks(g, f)
  <2>1. PICK g \in R(t) : Overlap(g, f) /\ Outranks(g, f)
    BY <1>1, <1>3, <1>7
  <2> QED BY <1>3, <2>1
<1> QED BY <1>2, <1>4, <1>5, <1>6, <1>7

\* A span's value and entity.
SameValue(f, g) == /\ SpanOf(f).entity = SpanOf(g).entity
                   /\ SpanOf(f).value = SpanOf(g).value

\* Of some spans, one that no other precedes.
LEMMA FirstExists ==
  ASSUME NEW K, K # {}, \A k \in K : k.text \in Nat /\ SpanOf(k).start \in Nat
  PROVE  \E h \in K : \A k \in K : ~Precedes(k, h)
<1> DEFINE texts == {k.text : k \in K}
<1>1. PICK t \in texts : \A u \in texts : t <= u
  <2>1. texts \subseteq Nat /\ texts # {}
    OBVIOUS
  <2> HIDE DEF texts
  <2> QED BY <2>1, SmallestOf
<1> DEFINE starts == {SpanOf(k).start : k \in {j \in K : j.text = t}}
<1>2. PICK s \in starts : \A u \in starts : s <= u
  <2>1. starts \subseteq Nat /\ starts # {}
    OBVIOUS
  <2> HIDE DEF starts
  <2> QED BY <2>1, SmallestOf
<1>3. PICK h \in K : h.text = t /\ SpanOf(h).start = s
  OBVIOUS
<1>4. ASSUME NEW k \in K, Precedes(k, h) PROVE FALSE
  <2>1. k.text \in Nat /\ h.text \in Nat /\ SpanOf(k).start \in Nat /\ SpanOf(h).start \in Nat
    OBVIOUS
  <2>2. h.text <= k.text
    BY <1>1, <1>3
  <2>3. k.text = h.text /\ SpanOf(k).start < SpanOf(h).start
    BY <1>4, <2>1, <2>2 DEF Precedes
  <2>4. SpanOf(h).start <= SpanOf(k).start
    BY <1>2, <1>3, <2>3
  <2> QED BY <2>1, <2>3, <2>4
<1> QED BY <1>3, <1>4

\* The replaced spans stand in one order.
InPlace ==
  /\ \A f, g \in Replaced : f = g \/ Precedes(f, g) \/ Precedes(g, f)
  /\ \A f, g \in Replaced : Precedes(f, g) => f # g /\ ~Precedes(g, f)
  /\ \A f, g, h \in Replaced : Precedes(f, g) /\ Precedes(g, h) => Precedes(f, h)

\* They do when all of them are sound: none empty, and none over another.
LEMMA ReplacedInPlace ==
  ASSUME ReportsInOrder, RedactionAssumption, \A f \in Replaced : Sound(SpanOf(f))
  PROVE  InPlace
<1>1. ASSUME NEW f \in Replaced
      PROVE  /\ f.text \in Nat /\ SpanOf(f).start \in Nat /\ SpanOf(f).end \in Nat
             /\ SpanOf(f).start < SpanOf(f).end
  BY ReplacedFacts DEF Span, Sound
<1>2. ASSUME NEW f \in Replaced, NEW g \in Replaced, f # g
      PROVE  Precedes(f, g) \/ Precedes(g, f)
  <2>1. ~Overlap(f, g)
    BY <1>2, ReplacedFacts
  <2> QED BY <1>1, <2>1 DEF Overlap, Precedes
<1>3. \A f, g \in Replaced : Precedes(f, g) => f # g /\ ~Precedes(g, f)
  BY <1>1 DEF Precedes
<1>4. ASSUME NEW f \in Replaced, NEW g \in Replaced, NEW h \in Replaced,
             Precedes(f, g), Precedes(g, h)
      PROVE  Precedes(f, h)
  BY <1>1, <1>4 DEF Precedes
<1> QED BY <1>2, <1>3, <1>4 DEF InPlace

\* The spans up to the first one with f's value, and their values.
UpTo(f) == {h \in Replaced :
              /\ SpanOf(h).entity = SpanOf(f).entity
              /\ \A k \in Replaced :
                   SpanOf(k).entity = SpanOf(f).entity /\ SpanOf(k).value = SpanOf(f).value
                     => h = k \/ Precedes(h, k)}
ValuesUpTo(f) == {SpanOf(h).value : h \in UpTo(f)}

\* Two values of an entity have different numbers.
LEMMA NumbersDiffer ==
  ASSUME ReportsInOrder, RedactionAssumption, InPlace,
         NEW f \in Replaced, NEW g \in Replaced,
         SpanOf(f).entity = SpanOf(g).entity, SpanOf(f).value # SpanOf(g).value
  PROVE  Cardinality(ValuesUpTo(f)) # Cardinality(ValuesUpTo(g))
<1> DEFINE First(h, x) == /\ h \in Replaced /\ SameValue(h, x)
                          /\ \A k \in Replaced : SameValue(k, x) => h = k \/ Precedes(h, k)
<1>1. ASSUME NEW x \in Replaced PROVE \E h : First(h, x)
  <2> DEFINE K == {k \in Replaced : SameValue(k, x)}
  <2>1. K # {} /\ \A k \in K : k.text \in Nat /\ SpanOf(k).start \in Nat
    BY ReplacedFacts DEF SameValue, Span
  <2>2. PICK h \in K : \A k \in K : ~Precedes(k, h)
    <3> HIDE DEF K
    <3> QED BY <2>1, FirstExists
  <2>3. First(h, x)
    BY <2>2 DEF InPlace
  <2> QED BY <2>3
<1>2. ASSUME NEW x \in Replaced, NEW y \in Replaced, SpanOf(x).entity = SpanOf(y).entity,
             SpanOf(x).value # SpanOf(y).value,
             NEW hx, First(hx, x), NEW hy, First(hy, y), Precedes(hx, hy)
      PROVE  Cardinality(ValuesUpTo(x)) < Cardinality(ValuesUpTo(y))
  <2>1. ASSUME NEW h \in UpTo(x) PROVE h \in UpTo(y)
    <3>1. h \in Replaced /\ SpanOf(h).entity = SpanOf(y).entity
      BY <1>2 DEF UpTo
    <3>2. h = hx \/ Precedes(h, hx)
      BY <1>2 DEF UpTo, SameValue
    <3>3. Precedes(h, hy)
      BY <1>2, <3>1, <3>2 DEF InPlace
    <3>4. ASSUME NEW k \in Replaced, SameValue(k, y) PROVE h = k \/ Precedes(h, k)
      <4>1. hy = k \/ Precedes(hy, k)
        BY <1>2, <3>4
      <4> QED BY <1>2, <3>1, <3>3, <4>1 DEF InPlace
    <3> QED BY <3>1, <3>4 DEF UpTo, SameValue
  <2>2. hy \in UpTo(y) /\ SpanOf(hy).value = SpanOf(y).value
    BY <1>2 DEF UpTo, SameValue
  <2>3. ASSUME NEW h \in UpTo(x), SpanOf(h).value = SpanOf(y).value PROVE FALSE
    <3>1. h \in Replaced /\ SameValue(h, y)
      BY <1>2, <2>3 DEF UpTo, SameValue
    <3>2. hy = h \/ Precedes(hy, h)
      BY <1>2, <3>1
    <3>3. h = hx \/ Precedes(h, hx)
      BY <1>2 DEF UpTo, SameValue
    <3> QED BY <1>2, <3>1, <3>2, <3>3 DEF InPlace
  <2>4. ValuesUpTo(x) \in SUBSET ValuesUpTo(y) /\ ValuesUpTo(x) # ValuesUpTo(y)
    BY <2>1, <2>2, <2>3 DEF ValuesUpTo
  <2>5. IsFiniteSet(ValuesUpTo(y))
    <3> DEFINE S == UpTo(y)
               v == [h \in S |-> SpanOf(h).value]
    <3>1. IsFiniteSet(S)
      BY ReplacedFacts, FS_Subset DEF UpTo
    <3>2. v = [h \in S |-> v[h]] /\ {v[h] : h \in S} = ValuesUpTo(y)
      BY DEF ValuesUpTo
    <3>3. IsFiniteSet({v[h] : h \in S})
      <4> HIDE DEF v, S
      <4> QED BY <3>1, <3>2, ImageFinite
    <3> QED BY <3>2, <3>3
  <2> QED BY <2>4, <2>5, SmallerPart
<1>3. ASSUME NEW x \in Replaced PROVE Cardinality(ValuesUpTo(x)) \in Int
  <2> DEFINE S == UpTo(x)
             v == [h \in S |-> SpanOf(h).value]
  <2>1. IsFiniteSet(S)
    BY ReplacedFacts, FS_Subset DEF UpTo
  <2>2. v = [h \in S |-> v[h]] /\ {v[h] : h \in S} = ValuesUpTo(x)
    BY DEF ValuesUpTo
  <2> HIDE DEF v, S
  <2>3. IsFiniteSet({v[h] : h \in S})
    BY <2>1, <2>2, ImageFinite
  <2>4. IsFiniteSet(ValuesUpTo(x))
    BY <2>2, <2>3
  <2> QED BY <2>4, FS_CardinalityType
<1>4. PICK hf : First(hf, f)
  BY <1>1
<1>5. PICK hg : First(hg, g)
  BY <1>1
<1>6. hf # hg
  BY <1>4, <1>5 DEF SameValue
<1>7. Precedes(hf, hg) \/ Precedes(hg, hf)
  BY <1>4, <1>5, <1>6 DEF InPlace
<1>8. CASE Precedes(hf, hg)
  <2>1. Cardinality(ValuesUpTo(f)) < Cardinality(ValuesUpTo(g))
    BY <1>2, <1>4, <1>5, <1>8
  <2> QED BY <1>3, <2>1
<1>9. CASE Precedes(hg, hf)
  <2>1. Cardinality(ValuesUpTo(g)) < Cardinality(ValuesUpTo(f))
    BY <1>2, <1>4, <1>5, <1>9
  <2> QED BY <1>3, <2>1
<1> QED BY <1>7, <1>8, <1>9

\* What redact makes of it: the tags of two spans are the same for one value of
\* one entity, and otherwise not.
Redacted == [replaced |-> Replaced,
             tags |-> [f \in Replaced |-> Tag(f, Replaced)],
             done |-> TRUE]

\* Two replaced spans have one tag exactly when they have one entity and one value.
LEMMA TagsTellValues ==
  ASSUME ReportsInOrder, RedactionAssumption, \A f \in Replaced : Sound(SpanOf(f)),
         NEW f \in Replaced, NEW g \in Replaced
  PROVE  Tag(f, Replaced) = Tag(g, Replaced) <=> SameValue(f, g)
<1>1. \A x : /\ Tag(x, Replaced).entity = SpanOf(x).entity
             /\ Tag(x, Replaced).number = Cardinality(ValuesUpTo(x))
  BY DEF Tag, Numbered, ValuesUpTo, UpTo
<1>2. \A x, y : Tag(x, Replaced) = Tag(y, Replaced)
                <=> /\ SpanOf(x).entity = SpanOf(y).entity
                    /\ Cardinality(ValuesUpTo(x)) = Cardinality(ValuesUpTo(y))
  <2>1. \A x : Tag(x, Replaced) = [entity |-> SpanOf(x).entity,
                                   number |-> Cardinality(ValuesUpTo(x))]
    BY DEF Tag, Numbered, ValuesUpTo, UpTo
  <2> QED BY <1>1, <2>1
<1>3. SameValue(f, g) => ValuesUpTo(f) = ValuesUpTo(g)
  BY DEF SameValue, ValuesUpTo, UpTo
<1>4. ASSUME SpanOf(f).entity = SpanOf(g).entity, ~SameValue(f, g)
      PROVE  Cardinality(ValuesUpTo(f)) # Cardinality(ValuesUpTo(g))
  BY <1>4, ReplacedInPlace, NumbersDiffer DEF SameValue
<1> QED BY <1>2, <1>3, <1>4 DEF SameValue

-----------------------------------------------------------------------------
\* The invariant.

\* An identifier is still reading, failed or in; one is in only when all its
\* spans are sound, and then it reads nothing more.
IdentifiersInv ==
  /\ ReportsInOrder
  /\ reading \subseteq Identifiers \X (1 .. Texts)
  /\ ToSet(came) \cap failed = {}
  /\ \A i \in Identifiers \ failed : \A t \in 1 .. Texts :
       <<i, t>> \in reading \/ /\ \A span \in ToSet(reports[i][t]) : Sound(span)
                               /\ (ReadingOf(i) = {} => i \in ToSet(came))
  /\ \A c \in reading : c[1] \notin failed \cup ToSet(came)

\* redact runs once, when every call is back, on what is then in.
RedactedInv ==
  \/ redacted = NotYet
  \/ reading = {} /\ redacted = Redacted

RedactionInv == IdentifiersInv /\ RedactedInv

\* What redact makes of it depends on nothing but the reports and who is in.
LEMMA RedactedStays ==
  ASSUME reports' = reports, came' = came
  PROVE  Redacted' = Redacted
<1>1. Replaced' = Replaced
  <2>1. ASSUME NEW t PROVE Resolve(FoundIn(t))' = Resolve(FoundIn(t))
    BY SMT DEF Resolve, ByRank, Outranks, Earlier, Length, SpanOf, Overlap, FoundIn, FoundBy
  <2> QED BY <2>1 DEF Replaced
<1>2. \A f, replaced : Tag(f, replaced)' = Tag(f, replaced)
  BY SMT DEF Tag, Numbered, Precedes, SpanOf
<1> QED BY <1>1, <1>2 DEF Redacted

\* The invariant holds before any identifier has answered.
LEMMA RedactionStarts == RedactionAssumption /\ RedactionInit => RedactionInv
<1> SUFFICES ASSUME RedactionAssumption, RedactionInit PROVE RedactionInv
  OBVIOUS
<1>1. reports \in Seq(Report) /\ came = <<>> /\ came \in Seq(Identifiers)
  BY DEF RedactionInit, RedactionAssumption
<1>2. ToSet(came) = {}
  BY <1>1 DEF ToSet
<1>3. \A i \in Identifiers, t \in 1 .. Texts : <<i, t>> \in reading
  BY DEF RedactionInit, Identifiers
<1>4. IdentifiersInv
  BY <1>1, <1>2, <1>3 DEF IdentifiersInv, ReportsInOrder, RedactionInit, Identifiers
<1> QED BY <1>4 DEF RedactionInv, RedactedInv, RedactionInit

\* An identifier that fails leaves nothing behind.
LEMMA DropKeeps ==
  ASSUME RedactionInv, NEW i \in Identifiers, NEW t \in 1 .. Texts,
         <<i, t>> \in reading, Drop(i)
  PROVE  RedactionInv'
<1> USE DEF RedactionInv
<1>1. /\ reports' = reports /\ came' = came /\ redacted' = redacted
      /\ failed' = failed \cup {i} /\ reading' = reading \ ReadingOf(i)
      /\ Identifiers' = Identifiers
  BY DEF Drop, Identifiers
<1>2. redacted' = NotYet
  BY <1>1 DEF RedactedInv
<1>3. \A c : c \in reading' <=> c \in reading /\ c[1] # i
  BY <1>1 DEF ReadingOf
<1>4. \A j \in Identifiers \ failed' : ReadingOf(j)' = ReadingOf(j)
  BY <1>1, <1>3 DEF ReadingOf
<1>5. i \notin ToSet(came)
  BY DEF IdentifiersInv
<1>6. /\ ReportsInOrder'
      /\ reading' \subseteq Identifiers \X (1 .. Texts)
      /\ ToSet(came) \cap failed' = {}
  BY <1>1, <1>5 DEF IdentifiersInv, ReportsInOrder
<1>7. \A c \in reading' : c[1] \notin failed' \cup ToSet(came)
  BY <1>1, <1>3 DEF IdentifiersInv
<1>8. ASSUME NEW j \in Identifiers \ failed', NEW u \in 1 .. Texts
      PROVE  <<j, u>> \in reading' \/ /\ \A span \in ToSet(reports[j][u]) : Sound(span)
                                      /\ (ReadingOf(j)' = {} => j \in ToSet(came))
  <2>1. j \in Identifiers \ failed /\ j # i
    BY <1>1
  <2>2. <<j, u>> \in reading \/ /\ \A span \in ToSet(reports[j][u]) : Sound(span)
                                /\ (ReadingOf(j) = {} => j \in ToSet(came))
    BY <2>1 DEF IdentifiersInv
  <2> QED BY <1>3, <1>4, <2>1, <2>2
<1> QED BY <1>1, <1>2, <1>6, <1>7, <1>8 DEF IdentifiersInv, RedactedInv, NotYet

\* A step of redaction preserves it.
LEMMA RedactionSteps ==
  RedactionAssumption /\ RedactionInv /\ [RedactionNext]_rvars => RedactionInv'
<1> SUFFICES ASSUME RedactionAssumption, RedactionInv, [RedactionNext]_rvars
             PROVE  RedactionInv'
  OBVIOUS
<1> USE DEF RedactionInv
<1>1. ASSUME NEW c \in reading, Identify(c[1], c[2]) PROVE RedactionInv'
  <2> DEFINE i == c[1]
             t == c[2]
  <2>1. i \in Identifiers /\ t \in 1 .. Texts /\ c = <<i, t>> /\ <<i, t>> \in reading
    BY DEF IdentifiersInv
  <2> HIDE DEF i, t
  <2>2. CASE \A span \in ToSet(reports[i][t]) : Sound(span)
    <3>1. /\ reading' = reading \ {<<i, t>>}
          /\ came' = IF ReadingOf(i) = {<<i, t>>} THEN Append(came, i) ELSE came
          /\ reports' = reports /\ failed' = failed /\ redacted' = redacted
          /\ Identifiers' = Identifiers
      BY <1>1, <2>2 DEF Identify, Identifiers, i, t
    <3>2. redacted' = NotYet
      BY <2>1, <3>1 DEF RedactedInv
    <3>3. i \notin failed /\ i \notin ToSet(came) /\ came \in Seq(Identifiers)
      BY <2>1 DEF IdentifiersInv, ReportsInOrder
    <3>4. ToSet(came') = IF ReadingOf(i) = {<<i, t>>} THEN ToSet(came) \cup {i}
                                                      ELSE ToSet(came)
      <4>1. ToSet(Append(came, i)) = ToSet(came) \cup {i}
        BY <2>1, <3>3, AppendMembers
      <4> QED BY <3>1, <4>1
    <3>5. came' \in Seq(Identifiers)
      BY <2>1, <3>1, <3>3
    <3>6. \A j : ReadingOf(j)' = IF j = i THEN ReadingOf(j) \ {<<i, t>>} ELSE ReadingOf(j)
      BY <3>1 DEF ReadingOf
    <3>7. <<i, t>> \in ReadingOf(i)
      BY <2>1 DEF ReadingOf
    <3>8. /\ ReportsInOrder' /\ reading' \subseteq Identifiers \X (1 .. Texts)
          /\ ToSet(came') \cap failed' = {}
      BY <3>1, <3>3, <3>4, <3>5 DEF IdentifiersInv, ReportsInOrder
    <3>9. \A d \in reading' : d[1] \notin failed' \cup ToSet(came')
      <4> SUFFICES ASSUME NEW d \in reading' PROVE d[1] \notin failed' \cup ToSet(came')
        OBVIOUS
      <4>1. d \in reading /\ d # <<i, t>>
        BY <3>1
      <4>2. d[1] = i => ReadingOf(i) # {<<i, t>>}
        BY <4>1 DEF ReadingOf
      <4> QED BY <3>1, <3>4, <4>1, <4>2 DEF IdentifiersInv
    <3>10. ASSUME NEW j \in Identifiers \ failed', NEW u \in 1 .. Texts
           PROVE  <<j, u>> \in reading'
                  \/ /\ \A span \in ToSet(reports[j][u]) : Sound(span)
                     /\ (ReadingOf(j)' = {} => j \in ToSet(came'))
      <4>1. j \in Identifiers \ failed
        BY <3>1
      <4>2. <<j, u>> \in reading
            \/ /\ \A span \in ToSet(reports[j][u]) : Sound(span)
               /\ (ReadingOf(j) = {} => j \in ToSet(came))
        BY <4>1 DEF IdentifiersInv
      <4>3. <<j, u>> \notin reading' => \A span \in ToSet(reports[j][u]) : Sound(span)
        BY <2>2, <3>1, <4>2
      <4>4. CASE j # i
        BY <3>1, <3>4, <3>6, <4>2, <4>4
      <4>5. CASE j = i
        <5>1. ReadingOf(j)' = {} => ReadingOf(i) = {<<i, t>>}
          BY <3>6, <3>7, <4>5
        <5>2. ReadingOf(j)' = {} => j \in ToSet(came')
          BY <3>4, <4>5, <5>1
        <5> QED BY <4>3, <5>2
      <4> QED BY <4>4, <4>5
    <3> QED BY <3>1, <3>2, <3>8, <3>9, <3>10 DEF IdentifiersInv, RedactedInv, NotYet
  <2>3. CASE ~ \A span \in ToSet(reports[i][t]) : Sound(span)
    <3>1. Drop(i)
      BY <1>1, <2>3 DEF Identify, i, t
    <3> QED BY <2>1, <3>1, DropKeeps
  <2> QED BY <2>2, <2>3
<1>2. ASSUME NEW c \in reading, IdentifierFails(c[1], c[2]) PROVE RedactionInv'
  <2>1. /\ c[1] \in Identifiers /\ c[2] \in 1 .. Texts
        /\ <<c[1], c[2]>> \in reading /\ Drop(c[1])
    BY <1>2 DEF IdentifiersInv, IdentifierFails
  <2> QED BY <2>1, DropKeeps
<1>3. CASE Redact
  <2>1. /\ reports' = reports /\ reading' = reading /\ failed' = failed /\ came' = came
        /\ reading = {} /\ redacted' = Redacted
    BY <1>3 DEF Redact, Redacted, Replaced
  <2>2. Redacted' = Redacted
    BY <2>1, RedactedStays
  <2>3. IdentifiersInv'
    BY <2>1 DEF IdentifiersInv, ReportsInOrder, Identifiers, ReadingOf, Sound
  <2> QED BY <2>1, <2>2, <2>3 DEF RedactedInv
<1>4. CASE UNCHANGED rvars
  <2>1. /\ reports' = reports /\ reading' = reading /\ failed' = failed /\ came' = came
        /\ redacted' = redacted
    BY <1>4 DEF rvars
  <2>2. Redacted' = Redacted
    BY <2>1, RedactedStays
  <2>3. IdentifiersInv'
    BY <2>1 DEF IdentifiersInv, ReportsInOrder, Identifiers, ReadingOf, Sound
  <2> QED BY <2>1, <2>2, <2>3 DEF RedactedInv, NotYet
<1> QED BY <1>1, <1>2, <1>3, <1>4 DEF RedactionNext

\* In every state each identifier is reading, failed or in, and what redact
\* returns is what the identifiers that are in make of the texts (redact_texts).
THEOREM RedactionInvariance == RedactionSpec => []RedactionInv
<1>1. RedactionInit => RedactionInv
  BY RedactionStarts, RedactionAssumption
<1>2. RedactionInv /\ [RedactionNext]_rvars => RedactionInv'
  BY RedactionSteps, RedactionAssumption
<1> QED BY <1>1, <1>2, PTL DEF RedactionSpec

\* When it is done, every identifier failed or is in, and all that is found is
\* sound.
LEMMA EveryoneIsIn ==
  ASSUME IdentifiersInv, RedactionAssumption, reading = {}
  PROVE  /\ \A i \in Identifiers \ failed : \A f \in FoundBy(i) :
              f.text \in 1 .. Texts /\ f \in FoundIn(f.text) /\ f.by = i
         /\ \A f \in Replaced : f.by \notin failed /\ Sound(SpanOf(f))
<1>1. ASSUME NEW i \in Identifiers \ failed, NEW f \in FoundBy(i)
      PROVE  f.text \in 1 .. Texts /\ f \in FoundIn(f.text) /\ f.by = i
  <2>1. PICK t \in 1 .. Texts : \E n \in DOMAIN reports[i][t] : f = Nth(i, t, n)
    BY FoundByFacts
  <2>2. f.text = t /\ f.by = i
    BY <2>1 DEF Nth
  <2>3. ReadingOf(i) = {} /\ <<i, t>> \notin reading
    BY DEF ReadingOf
  <2>4. i \in ToSet(came)
    BY <2>3 DEF IdentifiersInv
  <2> QED BY <2>1, <2>2, <2>4, FoundInFacts
<1>2. ASSUME NEW f \in Replaced PROVE f.by \notin failed /\ Sound(SpanOf(f))
  <2>1. ReportsInOrder
    BY DEF IdentifiersInv
  <2>2. /\ f.text \in 1 .. Texts /\ f \in FoundIn(f.text) /\ f.by \in ToSet(came)
    BY <2>1, ReplacedFacts
  <2>3. f.by \notin failed /\ f.by \in Identifiers
    BY <2>1, <2>2 DEF IdentifiersInv, ReportsInOrder, ToSet
  <2>4. PICK i \in ToSet(came) : \E n \in DOMAIN reports[i][f.text] : f = Nth(i, f.text, n)
    BY <2>2, FoundInFacts
  <2>5. PICK n \in DOMAIN reports[i][f.text] : f = Nth(i, f.text, n)
    BY <2>4
  <2>6. f.by = i /\ f.nth = n
    BY <2>5 DEF Nth
  <2>7. SpanOf(f) \in ToSet(reports[f.by][f.text])
    BY <2>5, <2>6 DEF SpanOf, ToSet
  <2>8. \A span \in ToSet(reports[f.by][f.text]) : Sound(span)
    BY <2>2, <2>3 DEF IdentifiersInv
  <2> QED BY <2>3, <2>7, <2>8
<1> QED BY <1>1, <1>2

\* Every span of an identifier that did not fail is replaced or gives way to a
\* longer one, or one named earlier, whatever order they came back in; one that
\* failed leaves none (redact_texts, resolve).
THEOREM RedactionByRank == RedactionSpec => []RedactedByRank
<1>1. RedactionInv => RedactedByRank
  <2> SUFFICES ASSUME RedactionInv, redacted.done PROVE RedactedByRank
    BY DEF RedactedByRank
  <2>1. IdentifiersInv /\ ReportsInOrder /\ reading = {} /\ redacted.replaced = Replaced
    BY DEF RedactionInv, RedactedInv, IdentifiersInv, NotYet, Redacted
  <2>2. \A f \in Replaced : f.by \notin failed
    BY <2>1, EveryoneIsIn, RedactionAssumption
  <2>3. \A f, g \in Replaced : f # g => ~Overlap(f, g)
    BY <2>1, ReplacedFacts, RedactionAssumption
  <2>4. ASSUME NEW i \in Identifiers \ failed, NEW f \in FoundBy(i), f \notin Replaced
        PROVE  \E g \in Replaced :
                 /\ Overlap(f, g)
                 /\ \/ Length(g) > Length(f)
                    \/ Length(g) = Length(f) /\ g.by < i
                    \/ Length(g) = Length(f) /\ g.by = i /\ g.nth < f.nth
    <3>1. f.text \in 1 .. Texts /\ f \in FoundIn(f.text) /\ f.by = i
      BY <2>1, EveryoneIsIn, RedactionAssumption
    <3>2. PICK g \in Replaced : Overlap(g, f) /\ Outranks(g, f)
      BY <2>1, <2>4, <3>1, ReplacedFacts, RedactionAssumption
    <3>3. Overlap(f, g)
      BY <3>2 DEF Overlap
    <3> QED BY <3>1, <3>2, <3>3 DEF Outranks, Earlier
  <2> QED BY <2>1, <2>2, <2>3, <2>4 DEF RedactedByRank
<1> QED BY <1>1, RedactionInvariance, PTL

\* A value has one tag in all the texts of a turn and shares it with no other, so
\* what is revealed is what the tag stood for (redact, Visibility).
THEOREM RedactionOneTagPerValue == RedactionSpec => []OneTagPerValue
<1>1. RedactionInv => OneTagPerValue
  <2> SUFFICES ASSUME RedactionInv, redacted.done PROVE OneTagPerValue
    BY DEF OneTagPerValue
  <2>1. /\ IdentifiersInv /\ ReportsInOrder /\ reading = {} /\ redacted.replaced = Replaced
        /\ redacted.tags = [f \in Replaced |-> Tag(f, Replaced)]
    BY DEF RedactionInv, RedactedInv, IdentifiersInv, NotYet, Redacted
  <2>2. \A f \in Replaced : Sound(SpanOf(f))
    BY <2>1, EveryoneIsIn, RedactionAssumption
  <2>3. \A f, g \in Replaced : redacted.tags[f] = redacted.tags[g] <=> SameValue(f, g)
    BY <2>1, <2>2, TagsTellValues, RedactionAssumption
  <2>4. ASSUME NEW h \in Held
        PROVE  \E f \in Replaced : /\ SpanOf(f).entity \in Keeps
                                   /\ h.tag = redacted.tags[f] /\ h.value = SpanOf(f).value
    BY <2>1 DEF Held
  <2>5. \A h \in Held : h.tag.entity \in Keeps
    <3> SUFFICES ASSUME NEW h \in Held PROVE h.tag.entity \in Keeps
      OBVIOUS
    <3>1. PICK f \in Replaced : SpanOf(f).entity \in Keeps /\ h.tag = redacted.tags[f]
      BY <2>4
    <3>2. h.tag = Tag(f, Replaced)
      BY <2>1, <3>1
    <3> QED BY <3>1, <3>2 DEF Tag
  <2>6. ASSUME NEW g \in Held, NEW h \in Held, g.tag = h.tag PROVE g.value = h.value
    <3>1. PICK x \in Replaced : g.tag = redacted.tags[x] /\ g.value = SpanOf(x).value
      BY <2>4
    <3>2. PICK y \in Replaced : h.tag = redacted.tags[y] /\ h.value = SpanOf(y).value
      BY <2>4
    <3> QED BY <2>3, <2>6, <3>1, <3>2 DEF SameValue
  <2> QED BY <2>1, <2>3, <2>5, <2>6 DEF OneTagPerValue, SameValue
<1> QED BY <1>1, RedactionInvariance, PTL

-----------------------------------------------------------------------------
(***************************************************************************)
(* Moderation.                                                              *)
(***************************************************************************)

\* The policies of a pack are policies, each of an id of its own.
PackFacts ==
  /\ pack \in Seq(Policy) /\ question \in Seq(Vocabulary)
  /\ \A i, j \in DOMAIN pack : pack[i].id = pack[j].id => i = j

\* The words the first n policies strip, and their ids.
StruckBy(n) == UNION {pack[i].words : i \in {j \in 1 .. n : pack[j].kind = "words"}}
FirstIds(n) == [i \in 1 .. n |-> pack[i].id]

\* A policy takes a word of the question out when it is the first to list it.
TakesOut(i) ==
  /\ pack[i].kind = "words"
  /\ \E w \in ToSet(question) : w \in pack[i].words /\ w \notin StruckBy(i - 1)
Warned == {pack[i].id : i \in {j \in 1 .. Len(pack) : TakesOut(j)}}

CleanedInv ==
  /\ checked \in 0 .. Len(pack)
  /\ query = Strip(question, StruckBy(checked))
  /\ warnings = Keep(FirstIds(checked), Warned)

DecisionInv ==
  \/ decision = Unset
  \/ /\ checked = Len(pack) /\ (ModelPolicies = <<>> \/ model # Unset)
     /\ decision = Decision

ModerationInv == PackFacts /\ CleanedInv /\ DecisionInv

\* What the policies of a pack are.
LEMMA PolicyFacts ==
  ASSUME PackFacts
  PROVE  /\ Len(pack) \in Nat /\ DOMAIN pack = 1 .. Len(pack)
         /\ \A i \in 1 .. Len(pack) :
              /\ pack[i] \in Policy /\ pack[i].id \in PolicyIds
              /\ pack[i].kind \in {"words", "model"}
              /\ pack[i].kind = "words" => pack[i].words \subseteq Vocabulary
<1>1. pack \in Seq(Policy)
  BY DEF PackFacts
<1>2. Len(pack) \in Nat /\ DOMAIN pack = 1 .. Len(pack)
  BY <1>1
<1>3. \A i \in 1 .. Len(pack) : pack[i] \in Policy
  BY <1>1
<1>4. \A p \in Policy : /\ p.id \in PolicyIds /\ p.kind \in {"words", "model"}
                        /\ p.kind = "words" => p.words \subseteq Vocabulary
  BY DEF Policy
<1> QED BY <1>2, <1>3, <1>4

\* One policy more strikes its words more, if it is a list of words.
LEMMA StruckNext ==
  ASSUME PackFacts, NEW n \in Nat, n + 1 <= Len(pack)
  PROVE  StruckBy(n + 1) = IF pack[n + 1].kind = "words"
                           THEN StruckBy(n) \cup pack[n + 1].words ELSE StruckBy(n)
<1>1. \A j : j \in 1 .. n + 1 <=> j \in 1 .. n \/ j = n + 1
  OBVIOUS
<1> QED BY <1>1 DEF StruckBy

\* The next check takes words out when, and only when, its policy is the first
\* to list one.
LEMMA StripNext ==
  ASSUME PackFacts, CleanedInv, checked < Len(pack),
         NEW clean, clean = IF pack[checked + 1].kind = "words"
                            THEN Strip(query, pack[checked + 1].words) ELSE query
  PROVE  /\ clean = Strip(question, StruckBy(checked + 1))
         /\ clean = query <=> ~TakesOut(checked + 1)
<1> DEFINE n == checked
           p == pack[n + 1]
           A == StruckBy(n)
<1>1. n \in Nat /\ n + 1 \in 1 .. Len(pack) /\ n + 1 <= Len(pack) /\ (n + 1) - 1 = n
  BY PolicyFacts DEF CleanedInv
<1>2. /\ question \in Seq(Vocabulary) /\ query = Keep(question, Vocabulary \ A)
      /\ ToSet(question) \subseteq Vocabulary
  BY DEF PackFacts, CleanedInv, Strip, ToSet
<1>3. query \in Seq(Vocabulary) /\ ToSet(query) = ToSet(question) \cap (Vocabulary \ A)
  BY <1>2, KeepPlaces, KeepMembers
<1>4. StruckBy(n + 1) = IF p.kind = "words" THEN A \cup p.words ELSE A
  BY <1>1, StruckNext
<1>5. TakesOut(n + 1) <=> p.kind = "words" /\ \E w \in ToSet(query) : w \in p.words
  BY <1>1, <1>2, <1>3 DEF TakesOut
<1> HIDE DEF A, p
<1>6. CASE p.kind # "words"
  BY <1>2, <1>4, <1>5, <1>6 DEF Strip, p, n, A
<1>7. CASE p.kind = "words"
  <2>1. clean = Keep(Keep(question, Vocabulary \ A), Vocabulary \ p.words)
    BY <1>2, <1>7 DEF Strip, p
  <2>2. clean = Keep(question, (Vocabulary \ A) \cap (Vocabulary \ p.words))
    BY <1>2, <2>1, KeepTwice
  <2>3. (Vocabulary \ A) \cap (Vocabulary \ p.words) = Vocabulary \ (A \cup p.words)
    OBVIOUS
  <2>4. clean = Strip(question, StruckBy(n + 1))
    BY <1>4, <1>7, <2>2, <2>3 DEF Strip
  <2>5. clean = Keep(query, Vocabulary \ p.words)
    BY <1>7 DEF Strip, p
  <2>6. ToSet(clean) = ToSet(query) \cap (Vocabulary \ p.words)
    BY <1>3, <2>5, KeepMembers
  <2>7. ASSUME clean = query PROVE ~TakesOut(n + 1)
    BY <1>5, <2>6, <2>7
  <2>8. ASSUME ~TakesOut(n + 1) PROVE clean = query
    <3>1. ToSet(query) \subseteq Vocabulary \ p.words
      BY <1>3, <1>5, <1>7, <2>8
    <3> QED BY <1>3, <2>5, <3>1, KeepAll
  <2> QED BY <2>4, <2>7, <2>8
<1> QED BY <1>6, <1>7

\* The invariant holds before the first policy is checked.
LEMMA ModerationStarts == ModerationAssumption /\ ModerationInit => ModerationInv
<1> SUFFICES ASSUME ModerationAssumption, ModerationInit PROVE ModerationInv
  OBVIOUS
<1>1. PackFacts
  BY DEF ModerationAssumption, ModerationInit, PackFacts
<1>2. Len(pack) \in Nat /\ question \in Seq(Vocabulary) /\ checked = 0
  BY <1>1, PolicyFacts DEF PackFacts, ModerationInit
<1>3. StruckBy(0) = {} /\ FirstIds(0) = <<>>
  BY DEF StruckBy, FirstIds
<1>4. Keep(question, Vocabulary \ {}) = question
  <2>1. ToSet(question) \subseteq Vocabulary \ {}
    BY <1>2 DEF ToSet
  <2> QED BY <1>2, <2>1, KeepAll
<1>5. CleanedInv
  <2>1. checked \in 0 .. Len(pack)
    BY <1>2
  <2>2. query = Strip(question, StruckBy(checked))
    BY <1>2, <1>3, <1>4 DEF Strip, ModerationInit
  <2>3. warnings = Keep(FirstIds(checked), Warned)
    BY <1>2, <1>3, KeepOfNothing DEF ModerationInit
  <2> QED BY <2>1, <2>2, <2>3 DEF CleanedInv
<1> QED BY <1>1, <1>5 DEF ModerationInv, DecisionInv, ModerationInit

\* A step of moderation preserves it.
LEMMA ModerationSteps ==
  ModerationInv /\ [ModerationNext]_mvars => ModerationInv'
<1> SUFFICES ASSUME ModerationInv, [ModerationNext]_mvars PROVE ModerationInv'
  OBVIOUS
<1>0. PackFacts /\ CleanedInv /\ DecisionInv
  BY DEF ModerationInv
<1>1. CASE CheckWords
  <2> DEFINE n == checked
             p == pack[n + 1]
             clean == IF p.kind = "words" THEN Strip(query, p.words) ELSE query
  <2>1. /\ n < Len(pack) /\ query' = clean /\ checked' = n + 1
        /\ warnings' = IF clean = query THEN warnings ELSE Append(warnings, p.id)
        /\ pack' = pack /\ question' = question /\ model' = model /\ decision' = decision
    BY <1>1 DEF CheckWords
  <2>2. /\ clean = Strip(question, StruckBy(n + 1))
        /\ clean = query <=> ~TakesOut(n + 1)
    BY <1>0, <2>1, StripNext
  <2> HIDE DEF clean
  <2>3. n \in Nat /\ n + 1 \in 1 .. Len(pack) /\ Len(pack) \in Nat
    BY <1>0, <2>1, PolicyFacts DEF CleanedInv
  <2>4. p.id \in Warned <=> TakesOut(n + 1)
    BY <1>0, <2>3, PolicyFacts DEF Warned, PackFacts
  <2>5. FirstIds(n + 1) = Append(FirstIds(n), p.id) /\ FirstIds(n) \in Seq(PolicyIds) /\ p.id \in PolicyIds
    <3>1. \A i \in 1 .. n + 1 : pack[i].id \in PolicyIds
      BY <1>0, <2>3, PolicyFacts
    <3>2. FirstIds(n) \in Seq(PolicyIds) /\ Len(FirstIds(n)) = n /\ p.id \in PolicyIds
      BY <2>3, <3>1 DEF FirstIds
    <3>3. FirstIds(n + 1) \in Seq(PolicyIds) /\ Len(FirstIds(n + 1)) = n + 1
      BY <2>3, <3>1 DEF FirstIds
    <3>4. \A i \in 1 .. n + 1 : FirstIds(n + 1)[i] = Append(FirstIds(n), p.id)[i]
      BY <2>3, <3>1 DEF FirstIds
    <3> QED BY <2>3, <3>2, <3>3, <3>4
  <2> DEFINE id == p.id
             was == FirstIds(n)
  <2>6. Keep(Append(was, id), Warned)
          = IF id \in Warned THEN Append(Keep(was, Warned), id) ELSE Keep(was, Warned)
    <3>1. was \in Seq(PolicyIds) /\ id \in PolicyIds
      BY <2>5
    <3> HIDE DEF was, id
    <3> QED BY <3>1, KeepOfAppend
  <2>7. warnings' = Keep(FirstIds(n + 1), Warned)
    BY <1>0, <2>1, <2>2, <2>4, <2>5, <2>6 DEF CleanedInv
  <2>8. Warned' = Warned /\ \A m : StruckBy(m)' = StruckBy(m) /\ FirstIds(m)' = FirstIds(m)
    BY <2>1 DEF Warned, TakesOut, StruckBy, FirstIds
  <2>9. PackFacts'
    BY <1>0, <2>1 DEF PackFacts
  <2>10. CleanedInv'
    <3>1. checked' \in 0 .. Len(pack')
      BY <2>1, <2>3
    <3>2. query' = Strip(question', StruckBy(checked)')
      BY <2>1, <2>2, <2>8 DEF StruckBy
    <3>3. warnings' = Keep(FirstIds(checked)', Warned')
      BY <2>1, <2>7, <2>8 DEF FirstIds
    <3> QED BY <3>1, <3>2, <3>3 DEF CleanedInv
  <2>11. DecisionInv'
    BY <1>0, <2>1, <2>3 DEF DecisionInv, CleanedInv
  <2> QED BY <2>9, <2>10, <2>11 DEF ModerationInv
<1>2. ASSUME UNCHANGED <<pack, question, query, warnings, checked>> PROVE PackFacts' /\ CleanedInv'
  BY <1>0, <1>2 DEF PackFacts, CleanedInv, StruckBy, FirstIds, Warned, TakesOut
<1>3. CASE AskModel
  <2>1. UNCHANGED <<pack, question, query, warnings, checked>> /\ decision' = decision
    BY <1>3 DEF AskModel
  <2>2. decision = Unset
    BY <1>0, <1>3 DEF AskModel, DecisionInv
  <2> QED BY <1>2, <2>1, <2>2 DEF ModerationInv, DecisionInv
<1>4. CASE Decide
  <2>1. UNCHANGED <<pack, question, query, warnings, checked>> /\ model' = model
    BY <1>4 DEF Decide
  <2>2. Decision' = Decision /\ ModelPolicies' = ModelPolicies
    BY <2>1 DEF Decision, ModelPolicies, OnModelFailure
  <2>3. DecisionInv'
    BY <1>4, <2>1, <2>2 DEF Decide, DecisionInv
  <2> QED BY <1>2, <2>1, <2>3 DEF ModerationInv
<1>5. CASE UNCHANGED mvars
  <2>1. UNCHANGED <<pack, question, query, warnings, checked>>
        /\ model' = model /\ decision' = decision
    BY <1>5 DEF mvars
  <2>2. Decision' = Decision /\ ModelPolicies' = ModelPolicies
    BY <2>1 DEF Decision, ModelPolicies, OnModelFailure
  <2>3. DecisionInv'
    BY <1>0, <2>1, <2>2 DEF DecisionInv
  <2> QED BY <1>2, <2>1, <2>3 DEF ModerationInv
<1> QED BY <1>1, <1>3, <1>4, <1>5 DEF ModerationNext

\* In every state the query is the question less the words of the policies
\* checked, the warnings are those that took one out, in the pack's order, and a
\* decision is made once all is checked and the model heard (moderate).
THEOREM ModerationInvariance == ModerationSpec => []ModerationInv
<1>1. ModerationInit => ModerationInv
  BY ModerationStarts, ModerationAssumption
<1>2. ModerationInv /\ [ModerationNext]_mvars => ModerationInv'
  BY ModerationSteps
<1> QED BY <1>1, <1>2, PTL DEF ModerationSpec

\* Of each word that is struck, the policy that takes it out.
LEMMA StrikerFacts ==
  ASSUME PackFacts, NEW w \in Struck
  PROVE  \E i \in 1 .. Len(pack) :
           /\ Striker(w) = pack[i] /\ pack[i].kind = "words" /\ w \in pack[i].words
           /\ w \notin StruckBy(i - 1)
           /\ \A j \in 1 .. Len(pack) : /\ pack[j].kind = "words" /\ w \in pack[j].words
                                        /\ w \notin StruckBy(j - 1)
                                        => j = i
<1> DEFINE T == {i \in 1 .. Len(pack) : pack[i].kind = "words" /\ w \in pack[i].words}
           First(i) == /\ pack[i].kind = "words" /\ w \in pack[i].words
                       /\ \A j \in 1 .. i - 1 : pack[j].kind = "words" => w \notin pack[j].words
<1>1. Len(pack) \in Nat /\ DOMAIN pack = 1 .. Len(pack)
  BY PolicyFacts
<1>2. T # {} /\ T \subseteq Nat
  BY <1>1 DEF Struck, ToSet
<1>3. PICK i \in T : \A j \in T : i <= j
  <2> HIDE DEF T
  <2> QED BY <1>2, SmallestOf
<1>4. \A n \in 1 .. Len(pack) : First(n) <=> /\ pack[n].kind = "words" /\ w \in pack[n].words
                                             /\ w \notin StruckBy(n - 1)
  BY DEF StruckBy
<1>5. i \in 1 .. Len(pack) /\ First(i)
  <2>1. ASSUME NEW j \in 1 .. i - 1, pack[j].kind = "words", w \in pack[j].words PROVE FALSE
    <3>1. j \in T
      BY <1>1, <2>1
    <3>2. i <= j /\ i \in Nat /\ j \in Nat
      BY <1>2, <1>3, <3>1
    <3> QED BY <3>2
  <2> QED BY <2>1
<1>6. ASSUME NEW m \in 1 .. Len(pack), First(m) PROVE m = i
  <2>1. m \in T
    BY <1>6
  <2>2. i <= m
    BY <1>3, <2>1
  <2>3. i \in 1 .. Len(pack) /\ pack[i].kind = "words" /\ w \in pack[i].words
    BY <1>5
  <2>4. ~ (i \in 1 .. m - 1)
    BY <1>6, <2>3
  <2> QED BY <1>1, <2>2, <2>3, <2>4
<1>7. Striker(w) = pack[CHOOSE n \in DOMAIN pack : First(n)]
  BY DEF Striker
<1> HIDE DEF First
<1>8. (CHOOSE n \in DOMAIN pack : First(n)) = i
  BY <1>1, <1>5, <1>6
<1> QED BY <1>4, <1>5, <1>6, <1>7, <1>8

\* The ids warned of are those of the policies that took a word out.
LEMMA WarnedFacts ==
  ASSUME PackFacts
  PROVE  /\ Warned = {Striker(w).id : w \in ToSet(question) \cap Struck}
         /\ Struck = StruckBy(Len(pack))
<1>1. Len(pack) \in Nat /\ DOMAIN pack = 1 .. Len(pack)
  BY PolicyFacts
<1>2. Struck = StruckBy(Len(pack))
  BY <1>1 DEF Struck, StruckBy, ToSet
<1>3. ASSUME NEW w \in ToSet(question) \cap Struck PROVE Striker(w).id \in Warned
  <2>1. PICK i \in 1 .. Len(pack) :
           /\ Striker(w) = pack[i] /\ pack[i].kind = "words" /\ w \in pack[i].words
           /\ w \notin StruckBy(i - 1)
    BY StrikerFacts
  <2> QED BY <2>1 DEF Warned, TakesOut
<1>4. ASSUME NEW id \in Warned
      PROVE  \E w \in ToSet(question) \cap Struck : id = Striker(w).id
  <2>1. PICK i \in 1 .. Len(pack) : TakesOut(i) /\ id = pack[i].id
    BY DEF Warned
  <2>2. PICK w \in ToSet(question) :
          pack[i].kind = "words" /\ w \in pack[i].words /\ w \notin StruckBy(i - 1)
    BY <2>1 DEF TakesOut
  <2>3. w \in Struck
    BY <1>1, <2>2 DEF Struck, ToSet
  <2>4. Striker(w) = pack[i]
    BY <2>2, <2>3, StrikerFacts
  <2> QED BY <2>1, <2>3, <2>4
<1> QED BY <1>2, <1>3, <1>4

\* The policies the model judges are those of its kind.
LEMMA JudgedFacts ==
  ASSUME PackFacts
  PROVE  /\ ToSet(ModelPolicies) = {p \in ToSet(pack) : p.kind = "model"}
         /\ \A p \in ToSet(ModelPolicies) : p.id \in PolicyIds
<1> DEFINE models == {p \in ToSet(pack) : p.kind = "model"}
<1>1. ToSet(Keep(pack, models)) = ToSet(pack) \cap models
  <2> HIDE DEF models
  <2> QED BY KeepMembers DEF PackFacts
<1>2. ToSet(ModelPolicies) = models
  BY <1>1 DEF ModelPolicies
<1>3. \A p \in ToSet(pack) : p.id \in PolicyIds
  BY PolicyFacts DEF ToSet
<1> QED BY <1>2, <1>3

\* A model that fails closes the turn if one of its policies says so, and a
\* question that is let through goes on without the words that were struck, each
\* policy that struck one warned of once (moderate).
THEOREM ModerationFailsAsThePolicySays == ModerationSpec => []FailsTheWayThePolicySays
<1>1. ModerationInv => FailsTheWayThePolicySays
  <2> SUFFICES ASSUME ModerationInv, decision # Unset PROVE FailsTheWayThePolicySays
    BY DEF FailsTheWayThePolicySays
  <2> DEFINE judged == ToSet(ModelPolicies)
             found  == ToSet(question) \cap Struck
             ids    == [i \in DOMAIN pack |-> pack[i].id]
             Ruled  == \E p \in judged : /\ p.id = model /\ decision.policy = p.id
                                         /\ decision.outcome = p.outcome
             Failed == /\ decision.policy = Unset
                       /\ (decision.outcome = "proceed") <=> (\A p \in judged : p.open)
                       /\ (decision.reason = "moderation_unavailable")
                            <=> (\E p \in judged : ~p.open)
             Clean  == /\ decision.outcome = "proceed"
                       /\ decision.clean = IF found = {} THEN Unset ELSE Strip(question, Struck)
                       /\ ToSet(decision.warned) = {Striker(word).id : word \in found}
                       /\ decision.warned = Keep(ids, ToSet(decision.warned))
  <2>1. PackFacts /\ CleanedInv /\ checked = Len(pack) /\ decision = Decision
    BY DEF ModerationInv, DecisionInv
  <2>2. \A p \in judged : p.id \in PolicyIds
    BY <2>1, JudgedFacts
  <2>3. ASSUME \E p \in judged : p.id = model PROVE Ruled /\ model # "failed"
    <3>1. model # "failed"
      BY <2>2, <2>3, ModerationAssumption DEF ModerationAssumption
    <3> DEFINE fired == CHOOSE p \in judged : p.id = model
    <3>2. fired \in judged /\ fired.id = model
      BY <2>3
    <3>3. decision = Stop(fired.outcome, ReasonFor(fired.id), fired.id)
      BY <2>1, <2>3, <3>1 DEF Decision
    <3> HIDE DEF fired
    <3>4. decision.policy = fired.id /\ decision.outcome = fired.outcome
      BY <3>3 DEF Stop
    <3> QED BY <3>1, <3>2, <3>4
  <2>4. ASSUME model = "failed" PROVE Failed
    <3>1. decision = OnModelFailure
      BY <2>1, <2>4 DEF Decision
    <3> QED BY <3>1, ModerationAssumption DEF OnModelFailure, Proceed, Stop, ModerationAssumption
  <2>5. ASSUME model # "failed", ~ \E p \in judged : p.id = model PROVE Clean
    <3>1. decision = Proceed(IF warnings = <<>> THEN Unset ELSE query, warnings)
      BY <2>1, <2>5 DEF Decision
    <3>2. /\ decision.outcome = "proceed" /\ decision.warned = warnings
          /\ decision.clean = IF warnings = <<>> THEN Unset ELSE query
      BY <3>1 DEF Proceed
    <3>3. ids = FirstIds(Len(pack)) /\ ids \in Seq(PolicyIds) /\ Warned \subseteq ToSet(ids)
      BY <2>1, PolicyFacts DEF FirstIds, Warned, ToSet
    <3>4. warnings = Keep(ids, Warned) /\ query = Strip(question, Struck)
      BY <2>1, <3>3, WarnedFacts DEF CleanedInv
    <3> HIDE DEF ids
    <3>5. ToSet(warnings) = Warned /\ warnings \in Seq(PolicyIds)
      <4>1. warnings \in Seq(PolicyIds) /\ ToSet(warnings) = ToSet(ids) \cap Warned
        <5> HIDE DEF Ruled, Failed, Clean
        <5>1. Keep(ids, Warned) \in Seq(PolicyIds)
          BY <3>3, KeepPlaces
        <5>2. ToSet(Keep(ids, Warned)) = ToSet(ids) \cap Warned
          BY <3>3, KeepMembers
        <5> QED BY <3>4, <5>1, <5>2
      <4> QED BY <3>3, <4>1
    <3>6. Warned = {Striker(word).id : word \in found}
      BY <2>1, WarnedFacts
    <3>7. warnings = <<>> <=> found = {}
      <4>1. warnings = <<>> <=> Warned = {}
        BY <3>5, NoMembers
      <4> QED BY <3>6, <4>1
    <3> QED BY <3>2, <3>4, <3>5, <3>6, <3>7
  <2> QED BY <2>3, <2>4, <2>5 DEF FailsTheWayThePolicySays
<1> QED BY <1>1, ModerationInvariance, PTL

-----------------------------------------------------------------------------
(***************************************************************************)
(* Admission.                                                               *)
(***************************************************************************)

\* A request is one, and how far its body is read.
BodyInv ==
  /\ sent \in Requests
  /\ got \in 0 .. Len(sent.chunks) /\ held \in Nat /\ owed \in Nat
  /\ held <= Cap /\ BytesRead(got) <= Cap
  /\ held + owed = Inflates(got) /\ (~sent.gzip => owed = 0)
  /\ gate = "headers" => got = 0
  /\ gate \in {"parse", "map"} \/ problem = 200 => got = Len(sent.chunks) /\ owed = 0

\* Why it is over.
EndInv ==
  /\ problem # Absent => gate = "done"
  /\ problem = 413 =>
       \/ sent.declared # Absent /\ sent.declared > Cap /\ got = 0
       \/ BytesRead(Len(sent.chunks)) > Cap
       \/ Inflates(Len(sent.chunks)) > Cap
  /\ problem = 200 =>
       /\ Asked # {} /\ Acted(sent.thread[Current].content)
       /\ input = sent.thread[Current].content
       /\ before = [i \in 1 .. Current - 1 |-> History(sent.thread[i])]

AdmissionInv == BodyInv /\ EndInv

\* What the chunks of a request add up to.
LEMMA RequestFacts ==
  ASSUME AdmissionAssumption, sent \in Requests
  PROVE  /\ Cap \in Nat /\ Absent \notin Nat /\ sent \in Request
         /\ Len(sent.chunks) \in Nat
         /\ \A i \in 1 .. Len(sent.chunks) :
              /\ sent.chunks[i].read \in Nat /\ sent.chunks[i].makes \in Nat
              /\ ~sent.gzip => sent.chunks[i].makes = sent.chunks[i].read
         /\ sent.declared \in Nat \cup {Absent}
<1>1. Cap \in Nat /\ Absent \notin Nat /\ sent \in Request
  BY DEF AdmissionAssumption
<1>2. sent.chunks \in Seq(Chunk)
      /\ sent.declared \in Nat \cup {Absent}
  BY <1>1 DEF Request
<1>3. DOMAIN sent.chunks = 1 .. Len(sent.chunks) /\ Len(sent.chunks) \in Nat
  BY <1>2
<1>4. ASSUME NEW i \in 1 .. Len(sent.chunks)
      PROVE  sent.chunks[i].read \in Nat /\ sent.chunks[i].makes \in Nat
  <2>1. sent.chunks[i] \in Chunk
    BY <1>2, <1>3
  <2> QED BY <2>1 DEF Chunk
<1>5. \A i \in DOMAIN sent.chunks : sent.gzip \/ sent.chunks[i].makes = sent.chunks[i].read
  BY DEF AdmissionAssumption
<1> QED BY <1>1, <1>2, <1>3, <1>4, <1>5

\* What the first chunks of a request add up to, as read and as inflated.
LEMMA SumFacts ==
  ASSUME AdmissionAssumption, sent \in Requests
  PROVE  LET N == Len(sent.chunks)
         IN  /\ BytesRead(0) = 0 /\ Inflates(0) = 0
             /\ \A n \in 0 .. N : BytesRead(n) \in Nat /\ Inflates(n) \in Nat
             /\ \A n \in 0 .. N : BytesRead(n) <= BytesRead(N) /\ Inflates(n) <= Inflates(N)
             /\ \A n \in 0 .. N - 1 :
                  /\ BytesRead(n + 1) = BytesRead(n) + sent.chunks[n + 1].read
                  /\ Inflates(n + 1) = Inflates(n) + sent.chunks[n + 1].makes
<1> DEFINE N == Len(sent.chunks)
           read == [i \in 1 .. N |-> sent.chunks[i].read]
           makes == [i \in 1 .. N |-> sent.chunks[i].makes]
<1>1. N \in Nat /\ read \in [1 .. N -> Nat] /\ makes \in [1 .. N -> Nat]
  BY RequestFacts
<1>2. \A n \in 0 .. N : FirstSizes(read, n) = [i \in 1 .. n |-> sent.chunks[i].read]
                        /\ FirstSizes(makes, n) = [i \in 1 .. n |-> sent.chunks[i].makes]
  BY <1>1 DEF FirstSizes
<1>3. \A n \in 0 .. N : BytesRead(n) = Total(FirstSizes(read, n))
                        /\ Inflates(n) = Total(FirstSizes(makes, n))
  BY <1>2 DEF BytesRead, Inflates
<1>4. \A n \in 0 .. N - 1 : n + 1 \in 1 .. N /\ read[n + 1] = sent.chunks[n + 1].read
                            /\ makes[n + 1] = sent.chunks[n + 1].makes
  BY <1>1
<1> HIDE DEF N, read, makes
<1>5. /\ Total(FirstSizes(read, 0)) = 0
      /\ \A n \in 0 .. N : Total(FirstSizes(read, n)) \in Nat
      /\ \A n \in 0 .. N - 1 :
           Total(FirstSizes(read, n + 1)) = Total(FirstSizes(read, n)) + read[n + 1]
      /\ \A m, n \in 0 .. N : m <= n => Total(FirstSizes(read, m)) <= Total(FirstSizes(read, n))
  BY <1>1, TotalOfFirst
<1>6. /\ Total(FirstSizes(makes, 0)) = 0
      /\ \A n \in 0 .. N : Total(FirstSizes(makes, n)) \in Nat
      /\ \A n \in 0 .. N - 1 :
           Total(FirstSizes(makes, n + 1)) = Total(FirstSizes(makes, n)) + makes[n + 1]
      /\ \A m, n \in 0 .. N : m <= n => Total(FirstSizes(makes, m)) <= Total(FirstSizes(makes, n))
  BY <1>1, TotalOfFirst
<1>7. /\ 0 \in 0 .. N /\ N \in 0 .. N
      /\ \A n \in 0 .. N : n <= N
      /\ \A n \in 0 .. N - 1 : n \in 0 .. N /\ n + 1 \in 0 .. N
  BY <1>1
<1> QED BY <1>3, <1>4, <1>5, <1>6, <1>7 DEF N

\* The invariant holds before the headers are read.
LEMMA AdmissionStarts == AdmissionAssumption /\ AdmissionInit => AdmissionInv
<1> SUFFICES ASSUME AdmissionAssumption, AdmissionInit PROVE AdmissionInv
  OBVIOUS
<1>1. /\ sent \in Requests /\ gate = "headers" /\ got = 0 /\ held = 0 /\ owed = 0
      /\ problem = Absent
  BY DEF AdmissionInit
<1>2. /\ Cap \in Nat /\ Absent \notin Nat /\ Len(sent.chunks) \in Nat
      /\ BytesRead(0) = 0 /\ Inflates(0) = 0
  BY <1>1, RequestFacts, SumFacts
<1>3. BodyInv
  BY <1>1, <1>2 DEF BodyInv
<1> QED BY <1>1, <1>2, <1>3 DEF AdmissionInv, EndInv

\* A step that leaves the request alone leaves its sums and its thread alone.
LEMMA SentStays ==
  ASSUME sent' = sent
  PROVE  /\ \A n : BytesRead(n)' = BytesRead(n) /\ Inflates(n)' = Inflates(n)
         /\ Asked' = Asked /\ Current' = Current
BY DEF BytesRead, Inflates, Asked, Current

\* A problem other than the size ends the request whatever was read.
LEMMA RefuseKeeps ==
  ASSUME AdmissionAssumption, AdmissionInv, NEW status, Refuse(status),
         status \in {400, 406, 413, 415, 422, 503},
         status = 413 => \/ sent.declared # Absent /\ sent.declared > Cap /\ got = 0
                         \/ BytesRead(Len(sent.chunks)) > Cap
                         \/ Inflates(Len(sent.chunks)) > Cap
  PROVE  AdmissionInv'
<1>1. /\ problem' = status /\ gate' = "done" /\ sent' = sent /\ got' = got
      /\ held' = held /\ owed' = owed /\ input' = input /\ before' = before
  BY DEF Refuse
<1>2. \A n : BytesRead(n)' = BytesRead(n) /\ Inflates(n)' = Inflates(n)
  BY <1>1, SentStays
<1>3. status # 200
  OBVIOUS
<1>4. BodyInv'
  BY <1>1, <1>2, <1>3 DEF AdmissionInv, BodyInv, BytesRead, Inflates
<1>5. EndInv'
  BY <1>1, <1>2, <1>3 DEF EndInv, BytesRead, Inflates
<1> QED BY <1>4, <1>5 DEF AdmissionInv

\* So does one that passes to the next gate, if the body is in by then.
LEMMA PassKeeps ==
  ASSUME AdmissionAssumption, AdmissionInv, problem = Absent, NEW next, Pass(next),
         next \in {"parse", "map"} => gate \in {"parse", "map"}, next # "headers"
  PROVE  AdmissionInv'
<1>1. /\ gate' = next /\ UNCHANGED <<sent, got, held, owed, problem, input, before>>
  BY DEF Pass
<1>2. Absent \notin Nat
  BY DEF AdmissionAssumption
<1>3. BodyInv'
  BY <1>1, <1>2 DEF AdmissionInv, BodyInv, BytesRead, Inflates
<1>4. EndInv'
  BY <1>1, <1>2 DEF EndInv
<1> QED BY <1>3, <1>4 DEF AdmissionInv

\* A chunk that is read is counted, and what it makes is held up to the cap and
\* owed beyond it.
LEMMA ReadChunkKeeps ==
  ASSUME AdmissionAssumption, AdmissionInv, ReadChunk
  PROVE  AdmissionInv'
<1> DEFINE N     == Len(sent.chunks)
           chunk == sent.chunks[got + 1]
           due   == owed + chunk.makes
           made  == IF sent.gzip THEN Inflated(due) ELSE chunk.makes
<1>1. BodyInv /\ sent \in Requests /\ gate = "body" /\ got < N /\ problem = Absent
  BY DEF AdmissionInv, BodyInv, EndInv, ReadChunk
<1>2. /\ Cap \in Nat /\ N \in Nat /\ got \in Nat /\ got + 1 \in 1 .. N
      /\ got \in 0 .. N /\ got \in 0 .. N - 1 /\ got + 1 \in 0 .. N
      /\ chunk.read \in Nat /\ chunk.makes \in Nat
      /\ (~sent.gzip => chunk.makes = chunk.read)
  BY <1>1, RequestFacts DEF BodyInv
<1>3. /\ BytesRead(got + 1) = BytesRead(got) + chunk.read
      /\ Inflates(got + 1) = Inflates(got) + chunk.makes
      /\ BytesRead(got + 1) <= BytesRead(N) /\ Inflates(got + 1) <= Inflates(N)
      /\ BytesRead(got + 1) \in Nat /\ Inflates(got + 1) \in Nat /\ Inflates(got) \in Nat
      /\ BytesRead(N) \in Nat /\ Inflates(N) \in Nat
  <2>1. N \in 0 .. N
    BY <1>2
  <2> QED BY <1>1, <1>2, <2>1, SumFacts
<1>4. held \in Nat /\ owed \in Nat /\ held <= Cap /\ held + owed = Inflates(got)
  BY <1>1 DEF BodyInv
<1>5. held + due = Inflates(got + 1) /\ due \in Nat
  <2> HIDE DEF chunk
  <2> QED BY SMTT(30), <1>2, <1>3, <1>4
<1>6. CASE BytesRead(got + 1) > Cap
  <2>1. Refuse(413)
    BY <1>6 DEF ReadChunk
  <2>2. BytesRead(N) > Cap
    BY <1>2, <1>3, <1>6
  <2> QED BY <2>1, <2>2, RefuseKeeps
<1>7. CASE ~ (BytesRead(got + 1) > Cap) /\ sent.gzip /\ ~chunk.sound
  <2>1. Refuse(400)
    BY <1>7 DEF ReadChunk
  <2> QED BY <2>1, RefuseKeeps
<1>8. CASE ~ (BytesRead(got + 1) > Cap) /\ ~ (sent.gzip /\ ~chunk.sound)
  <2>1. PICK tail \in IF sent.gzip /\ made = Room THEN BOOLEAN ELSE {FALSE} :
          IF tail \/ held + made > Cap THEN Refuse(413) ELSE Hold(made, due - made)
    BY <1>8 DEF ReadChunk
  <2>2. made \in Nat /\ made <= due
    <3>1. CASE sent.gzip
      <4>1. Room \in Nat /\ Room # 0
        BY <1>2, <1>4 DEF Room
      <4> QED BY <1>5, <3>1, <4>1 DEF Inflated, Least
    <3>2. CASE ~sent.gzip
      BY <1>2, <1>4, <3>2
    <3> QED BY <3>1, <3>2
  <2>3. tail => held + made > Cap
    <3> SUFFICES ASSUME tail PROVE held + made > Cap
      OBVIOUS
    <3>1. made = Room
      BY <2>1
    <3> HIDE DEF made, due, chunk
    <3> QED BY <1>2, <1>4, <3>1 DEF Room
  <2> HIDE DEF made, due, N
  <2>4. CASE held + made > Cap
    <3>1. Refuse(413)
      BY <2>1, <2>4
    <3>2. Inflates(N) > Cap
      BY <1>2, <1>3, <1>4, <1>5, <2>2, <2>4
    <3> QED BY <3>1, <3>2, RefuseKeeps DEF N
  <2>5. CASE ~ (held + made > Cap)
    <3>1. Hold(made, due - made)
      BY <2>1, <2>3, <2>5
    <3>2. /\ got' = got + 1 /\ held' = held + made /\ owed' = due - made
          /\ UNCHANGED <<sent, gate, problem, input, before>>
      BY <3>1 DEF Hold
    <3>3. \A n : BytesRead(n)' = BytesRead(n) /\ Inflates(n)' = Inflates(n)
      BY <3>2, SentStays
    <3>4. held' \in Nat /\ owed' \in Nat /\ held' <= Cap /\ held' + owed' = Inflates(got + 1)
      BY <1>2, <1>4, <1>5, <2>2, <2>5, <3>2
    <3>5. ~sent.gzip => owed' = 0
      <4> SUFFICES ASSUME ~sent.gzip PROVE owed' = 0
        OBVIOUS
      <4>1. owed = 0 /\ made = chunk.makes /\ due = owed + chunk.makes
        BY <1>1 DEF BodyInv, made, due
      <4> HIDE DEF chunk
      <4> QED BY <1>2, <3>2, <4>1
    <3>6. BytesRead(got)' = BytesRead(got + 1) /\ Inflates(got)' = Inflates(got + 1)
      BY <3>2 DEF BytesRead, Inflates
    <3>7. BytesRead(got + 1) <= Cap
      BY <1>2, <1>3, <1>8
    <3>8. problem # 200
      BY <1>1, RequestFacts
    <3>9. BodyInv'
      <4>1. sent' \in Requests /\ got' \in 0 .. Len(sent'.chunks)
        BY <1>1, <1>2, <3>2 DEF N
      <4>2. (BytesRead(got) <= Cap)' /\ (held + owed = Inflates(got))'
        BY <3>4, <3>6, <3>7
      <4>3. gate' = "body" /\ problem' # 200
        BY <1>1, <3>2, <3>8
      <4> QED BY <3>2, <3>4, <3>5, <4>1, <4>2, <4>3 DEF BodyInv
    <3>10. EndInv'
      BY <1>1, <3>2, <3>8, RequestFacts DEF EndInv
    <3> QED BY <3>9, <3>10 DEF AdmissionInv
  <2> QED BY <2>4, <2>5
<1> QED BY <1>6, <1>7, <1>8

\* A body that has ended is whole, what was owed of it with it.
LEMMA EndBodyKeeps ==
  ASSUME AdmissionAssumption, AdmissionInv, EndBody
  PROVE  AdmissionInv'
<1> DEFINE N == Len(sent.chunks)
<1>1. BodyInv /\ sent \in Requests /\ gate = "body" /\ got = N /\ problem = Absent
  BY DEF AdmissionInv, BodyInv, EndInv, EndBody
<1>2. /\ held \in Nat /\ owed \in Nat /\ held + owed = Inflates(N) /\ Cap \in Nat /\ N \in Nat
      /\ problem # 200 /\ problem # 413
  BY <1>1, RequestFacts DEF BodyInv
<1>3. CASE sent.gzip /\ ~sent.complete
  BY <1>3, RefuseKeeps DEF EndBody
<1>4. CASE ~ (sent.gzip /\ ~sent.complete) /\ held + owed > Cap
  <2>1. Refuse(413) /\ Inflates(N) > Cap
    BY <1>2, <1>4 DEF EndBody
  <2> QED BY <2>1, RefuseKeeps
<1>5. CASE ~ (sent.gzip /\ ~sent.complete) /\ ~ (held + owed > Cap)
  <2>1. /\ held' = held + owed /\ owed' = 0 /\ gate' = "parse"
        /\ UNCHANGED <<sent, got, problem, input, before>>
    BY <1>5 DEF EndBody
  <2>2. BytesRead(got)' = BytesRead(got) /\ Inflates(got)' = Inflates(got)
    BY <2>1 DEF BytesRead, Inflates
  <2>3. held' \in Nat /\ held' <= Cap /\ held' + owed' = Inflates(got)
    BY <1>1, <1>2, <1>5, <2>1
  <2>4. BodyInv'
    BY <1>1, <2>1, <2>2, <2>3 DEF BodyInv
  <2>5. EndInv'
    BY <1>1, <1>2, <2>1 DEF EndInv
  <2> QED BY <2>4, <2>5 DEF AdmissionInv
<1> QED BY <1>3, <1>4, <1>5

\* A step through the gates preserves it.
LEMMA AdmissionSteps ==
  AdmissionAssumption /\ AdmissionInv /\ [AdmissionNext]_dvars => AdmissionInv'
<1> SUFFICES ASSUME AdmissionAssumption, AdmissionInv, [AdmissionNext]_dvars
             PROVE  AdmissionInv'
  OBVIOUS
<1>0. \A g : gate = g /\ g # "done" => problem = Absent
  BY DEF AdmissionInv, EndInv
<1>1. CASE CheckHeaders
  <2>1. gate = "headers" /\ got = 0 /\ problem = Absent
    BY <1>0, <1>1 DEF CheckHeaders, AdmissionInv, BodyInv
  <2>2. \/ Refuse(503) \/ Refuse(415) \/ Refuse(406) \/ Pass("body")
        \/ Refuse(413) /\ sent.declared # Absent /\ sent.declared > Cap
    BY <1>1 DEF CheckHeaders
  <2> QED BY <2>1, <2>2, RefuseKeeps, PassKeeps
<1>2. CASE ReadChunk
  BY <1>2, ReadChunkKeeps
<1>3. CASE EndBody
  BY <1>3, EndBodyKeeps
<1>4. CASE Parse
  <2>1. gate = "parse" /\ problem = Absent
    BY <1>0, <1>4 DEF Parse
  <2>2. Refuse(400) \/ Refuse(422) \/ Pass("map")
    BY <1>4 DEF Parse
  <2> QED BY <2>1, <2>2, RefuseKeeps, PassKeeps
<1>5. CASE MapTurn
  <2>1. gate = "map" /\ problem = Absent
    BY <1>0, <1>5 DEF MapTurn
  <2>2. CASE sent.sort = "untagged" \/ Asked = {} \/ ~Acted(sent.thread[Current].content)
    BY <1>5, <2>2, RefuseKeeps DEF MapTurn
  <2>3. CASE ~ (sent.sort = "untagged" \/ Asked = {} \/ ~Acted(sent.thread[Current].content))
    <3>1. /\ problem' = 200 /\ gate' = "done" /\ input' = sent.thread[Current].content
          /\ before' = [i \in 1 .. Current - 1 |-> History(sent.thread[i])]
          /\ UNCHANGED <<sent, got, held, owed>>
      BY <1>5, <2>3 DEF MapTurn
    <3>2. Asked' = Asked /\ Current' = Current
      BY <3>1 DEF Asked, Current
    <3>3. BodyInv'
      BY <2>1, <3>1 DEF AdmissionInv, BodyInv, BytesRead, Inflates
    <3>4. EndInv'
      BY <2>3, <3>1, <3>2 DEF EndInv
    <3> QED BY <3>3, <3>4 DEF AdmissionInv
  <2> QED BY <2>2, <2>3
<1>6. CASE UNCHANGED dvars
  <2>1. UNCHANGED <<sent, gate, got, held, owed, problem, input, before>>
    BY <1>6 DEF dvars
  <2>2. Asked' = Asked /\ Current' = Current
    BY <2>1 DEF Asked, Current
  <2>3. BodyInv'
    BY <2>1 DEF AdmissionInv, BodyInv, BytesRead, Inflates
  <2>4. EndInv'
    BY <2>1, <2>2 DEF AdmissionInv, EndInv, BytesRead, Inflates
  <2> QED BY <2>3, <2>4 DEF AdmissionInv
<1> QED BY <1>1, <1>2, <1>3, <1>4, <1>5, <1>6 DEF AdmissionNext

\* In every state what is held and owed is what the chunks read so far make, and
\* a request that is over is so for the reason its problem says (_decoded_body).
THEOREM AdmissionInvariance == AdmissionSpec => []AdmissionInv
<1>1. AdmissionInit => AdmissionInv
  BY AdmissionStarts, AdmissionAssumption
<1>2. AdmissionInv /\ [AdmissionNext]_dvars => AdmissionInv'
  BY AdmissionSteps, AdmissionAssumption
<1> QED BY <1>1, <1>2, PTL DEF AdmissionSpec

\* Nothing past the cap is held, a body that fits is not refused for its size,
\* and one that is admitted is whole (_decoded_body).
THEOREM AdmissionWithinTheCap == AdmissionSpec => []AdmittedWithinTheCap
<1>1. AdmissionInv => AdmittedWithinTheCap
  <2> SUFFICES ASSUME AdmissionInv PROVE AdmittedWithinTheCap
    OBVIOUS
  <2>1. BodyInv /\ EndInv
    BY DEF AdmissionInv
  <2>2. gate \in {"parse", "map"} \/ problem = 200 => got = Len(sent.chunks) /\ held = Inflates(got)
    BY <2>1 DEF BodyInv
  <2> QED BY <2>1, <2>2 DEF AdmittedWithinTheCap, BodyInv, EndInv
<1> QED BY <1>1, AdmissionInvariance, PTL

\* A turn that is admitted acts on the last thing the farmer sent, of one kind,
\* and has all that came before it as its history (mapping.py).
THEOREM AdmissionActsOnTheLastWord == AdmissionSpec => []ActsOnTheLastWord
<1>1. AdmissionInv => ActsOnTheLastWord
  <2> SUFFICES ASSUME AdmissionInv, problem = 200 PROVE ActsOnTheLastWord
    BY DEF ActsOnTheLastWord
  <2> DEFINE thread == sent.thread
             c == Current
  <2>1. /\ Asked # {} /\ Acted(thread[c].content) /\ input = thread[c].content
        /\ before = [i \in 1 .. c - 1 |-> History(thread[i])]
        /\ sent \in Requests
    BY DEF AdmissionInv, EndInv, BodyInv
  <2>2. thread \in Seq(Message)
    BY <2>1, RequestFacts, AdmissionAssumption DEF Request
  <2>3. Len(thread) \in Nat /\ Asked \subseteq 0 .. Len(thread) /\ DOMAIN thread = 1 .. Len(thread)
    BY <2>2 DEF Asked
  <2>4. c \in Asked /\ \A j \in Asked : j <= c
    <3>1. \E i \in Asked : \A j \in Asked : j <= i
      BY <2>1, <2>3, LargestOf
    <3> QED BY <3>1 DEF Current
  <2> HIDE DEF c
  <2>5. c \in 1 .. Len(thread) /\ thread[c].role = "user"
    BY <2>3, <2>4 DEF Asked
  <2>6. \A i \in 1 .. Len(thread) : thread[i].role = "user" => i <= c
    BY <2>3, <2>4 DEF Asked
  <2>7. Len(before) = c - 1 /\ DOMAIN before = 1 .. c - 1 /\ Len(before) + 1 = c
    BY <2>1, <2>3, <2>5
  <2>8. \A i \in c + 1 .. Len(thread) : thread[i].role # "user"
    BY <2>3, <2>5, <2>6
  <2>9. \A i \in DOMAIN before : before[i].role = thread[i].role
    BY <2>1, <2>7 DEF History
  <2>10. /\ \A i, j \in DOMAIN input : input[i].type = input[j].type
         /\ \A i \in DOMAIN input : input[i].type = "form" =>
              Len(input) = 1 /\ input[i].submission /\ input[i].filled
    <3>1. input \in Seq(Item)
      <4>1. thread[c] \in Message
        BY <2>2, <2>3, <2>5
      <4>2. thread[c].content \in Seq(Item)
        BY <4>1 DEF Message
      <4> QED BY <2>1, <4>2
    <3>2. \A i \in DOMAIN input : input[i].type \in Kinds(input)
      BY DEF Kinds, ToSet
    <3>3. CASE Kinds(input) = {"text"}
      BY <3>2, <3>3
    <3>4. CASE Kinds(input) = {"form"} /\ Len(input) = 1 /\ input[1].submission /\ input[1].filled
      <4>1. DOMAIN input = {1}
        BY <3>1, <3>4
      <4> QED BY <3>4, <4>1
    <3> QED BY <2>1, <3>3, <3>4 DEF Acted
  <2> QED BY <2>1, <2>5, <2>7, <2>8, <2>9, <2>10 DEF ActsOnTheLastWord
<1> QED BY <1>1, AdmissionInvariance, PTL

-----------------------------------------------------------------------------
(***************************************************************************)
(* Translation.                                                             *)
(***************************************************************************)

\* The core's texts: each translated, or blank as it was, in its own place.
CoreTexts ==
  [i \in DOMAIN farmer.texts |->
     IF Route = Lost \/ IsBlank(farmer.texts[i]) THEN farmer.texts[i]
     ELSE In(farmer.texts[i], Route)]

\* What a text of the reply may be rendered as.
Renderings(i, j) ==
  IF reply[i].own THEN Localized(reply[i].texts[j]) ELSE {In(reply[i].texts[j], CoreTag)}

\* A block is being streamed.
Amid ==
  /\ reply # Lost /\ Unrendered = {} /\ Route # Lost
  /\ Len(Claims) < Len(reply) /\ Speaks(NextBlock)

\* The n-th claim is the n-th block's.
Claimed(claim, n) ==
  /\ claim.type = reply[n].type
  /\ IF Route = Lost \/ ~Speaks(reply[n])
     THEN \A j \in DOMAIN reply[n].texts : claim.texts[j].text = reply[n].texts[j]
     ELSE \A k \in DOMAIN claim.texts :
            /\ claim.texts[k].of.text = reply[n].texts[1] /\ claim.texts[k].part = k
            /\ ~IsBlank(reply[n].texts[1]) =>
                 Len(claim.texts) = 2 /\ claim.texts[k].into = farmer.tag

CoreInv ==
  /\ farmer \in [texts : TurnTexts, tag : Tongues, form : BOOLEAN]
  /\ core # Lost => core = CoreTexts

ReplyInv ==
  /\ reply = Lost => rendered = <<>> /\ wire = <<>> /\ piece = 0 /\ fate # "finished"
  /\ reply # Lost => /\ reply \in Answers /\ DOMAIN rendered = DOMAIN reply
                     /\ \A i \in DOMAIN reply : DOMAIN rendered[i] = DOMAIN reply[i].texts
  /\ \A i \in DOMAIN rendered : \A j \in DOMAIN rendered[i] :
       rendered[i][j] = Lost \/ rendered[i][j] \in Renderings(i, j)

\* The wire is the claims so far and the pieces of the block that is next.
WireInv ==
  /\ wire \in Seq(ToSet(wire)) /\ piece \in Nat
  /\ \A n \in DOMAIN Claims : Claimed(Claims[n], n)
  /\ LastClaim(wire) + piece = Len(wire)
  /\ piece # 0 => Amid /\ piece <= Len(Pieces)
  /\ \A k \in 1 .. piece : wire[LastClaim(wire) + k] = [kind |-> "piece", is |-> Pieces[k]]
  /\ fate = "finished" => Len(Claims) = Len(reply)

TranslationInv == CoreInv /\ ReplyInv /\ WireInv

-----------------------------------------------------------------------------
\* Claims.

ClaimsOf(s) == Keep(s, {event \in ToSet(s) : event.kind = "claim"})

\* The last claim of some events is one, and none comes after it.
LEMMA LastClaimIs ==
  ASSUME NEW T, NEW s \in Seq(T)
  PROVE  /\ LastClaim(s) \in 0 .. Len(s)
         /\ LastClaim(s) # 0 => s[LastClaim(s)].kind = "claim"
         /\ \A i \in 1 .. Len(s) : s[i].kind = "claim" => i <= LastClaim(s)
<1> DEFINE claims == {i \in DOMAIN s : s[i].kind = "claim"}
<1>1. Len(s) \in Nat /\ DOMAIN s = 1 .. Len(s)
  OBVIOUS
<1>2. LastClaim(s) = IF claims = {} THEN 0 ELSE CHOOSE i \in claims : \A j \in claims : j <= i
  BY DEF LastClaim
<1>3. CASE claims = {}
  BY <1>1, <1>2, <1>3
<1>4. CASE claims # {}
  <2>1. claims \subseteq 0 .. Len(s)
    BY <1>1
  <2> HIDE DEF claims
  <2>2. \E i \in claims : \A j \in claims : j <= i
    BY <1>1, <1>4, <2>1, LargestOf
  <2>3. LastClaim(s) \in claims /\ \A j \in claims : j <= LastClaim(s)
    BY <1>2, <1>4, <2>2
  <2> QED BY <1>1, <2>1, <2>3 DEF claims
<1> QED BY <1>3, <1>4

\* An event more.
LEMMA ClaimsOfAppend ==
  ASSUME NEW s, s \in Seq(ToSet(s)), NEW e
  PROVE  LET t == Append(s, e)
         IN  /\ t \in Seq(ToSet(t)) /\ Len(t) = Len(s) + 1 /\ Len(s) \in Nat
             /\ t[Len(s) + 1] = e /\ \A i \in 1 .. Len(s) : t[i] = s[i]
             /\ ClaimsOf(t) = IF e.kind = "claim" THEN Append(ClaimsOf(s), e) ELSE ClaimsOf(s)
             /\ LastClaim(t) = IF e.kind = "claim" THEN Len(s) + 1 ELSE LastClaim(s)
             /\ ClaimsOf(s) \in Seq(ToSet(s) \cup {e})
<1> DEFINE T == ToSet(s) \cup {e}
           t == Append(s, e)
           K == {event \in ToSet(t) : event.kind = "claim"}
           L == {event \in ToSet(s) : event.kind = "claim"}
<1>1. s \in Seq(T) /\ e \in T
  <2>1. ToSet(s) \subseteq T
    OBVIOUS
  <2> QED BY <2>1
<1> HIDE DEF T
<1>2. /\ t \in Seq(T) /\ ToSet(t) = ToSet(s) \cup {e}
      /\ Len(t) = Len(s) + 1 /\ Len(s) \in Nat
      /\ t[Len(s) + 1] = e /\ \A i \in 1 .. Len(s) : t[i] = s[i]
  BY <1>1, AppendMembers
<1>3. Keep(t, K) = IF e \in K THEN Append(Keep(s, K), e) ELSE Keep(s, K)
  <2> HIDE DEF K
  <2> QED BY <1>1, KeepOfAppend
<1>4. e \in K <=> e.kind = "claim"
  BY <1>2
<1>5. Keep(s, K) = Keep(s, L)
  <2>1. \A x \in ToSet(s) : x \in K <=> x \in L
    BY <1>2
  <2> HIDE DEF K, L
  <2> QED BY <1>1, <2>1, KeepSame
<1>6. ClaimsOf(t) = IF e.kind = "claim" THEN Append(ClaimsOf(s), e) ELSE ClaimsOf(s)
  BY <1>3, <1>4, <1>5 DEF ClaimsOf
<1>7. ClaimsOf(s) \in Seq(T)
  <2> HIDE DEF L
  <2>1. Keep(s, L) \in Seq(T)
    BY <1>1, KeepPlaces
  <2> QED BY <2>1 DEF ClaimsOf, L
<1> HIDE DEF t
<1>8. LastClaim(t) = IF e.kind = "claim" THEN Len(s) + 1 ELSE LastClaim(s)
  <2>1. /\ LastClaim(s) \in 0 .. Len(s)
        /\ LastClaim(s) # 0 => s[LastClaim(s)].kind = "claim"
        /\ \A i \in 1 .. Len(s) : s[i].kind = "claim" => i <= LastClaim(s)
    BY <1>1, LastClaimIs
  <2>2. /\ LastClaim(t) \in 0 .. Len(t)
        /\ LastClaim(t) # 0 => t[LastClaim(t)].kind = "claim"
        /\ \A i \in 1 .. Len(t) : t[i].kind = "claim" => i <= LastClaim(t)
    BY <1>2, LastClaimIs
  <2>3. CASE e.kind = "claim"
    <3>1. Len(s) + 1 <= LastClaim(t)
      BY <1>2, <2>2, <2>3
    <3> QED BY <1>2, <2>2, <2>3, <3>1
  <2>4. CASE e.kind # "claim"
    <3>1. LastClaim(t) \in 0 .. Len(s)
      BY <1>2, <2>2, <2>4
    <3>2. LastClaim(t) # 0 => LastClaim(t) <= LastClaim(s)
      BY <1>2, <2>1, <2>2, <3>1
    <3>3. LastClaim(s) # 0 => LastClaim(s) <= LastClaim(t)
      BY <1>2, <2>1, <2>2
    <3> QED BY <1>2, <2>1, <2>4, <3>1, <3>2, <3>3
  <2> QED BY <2>3, <2>4
<1>9. t \in Seq(ToSet(t))
  BY <1>2 DEF T
<1> QED BY <1>2, <1>6, <1>7, <1>8, <1>9 DEF t, T

-----------------------------------------------------------------------------
\* In.

\* One dropped, one added.
LEMMA OneLess ==
  ASSUME NEW T, NEW s \in Seq(T), NEW i \in DOMAIN s
  PROVE  Len(RemoveAt(s, i)) = Len(s) - 1
<1>1. i \in Nat /\ 1 <= i /\ i <= Len(s) /\ Len(s) \in Nat
  OBVIOUS
<1>2. SubSeq(s, 1, i - 1) \in Seq(T) /\ Len(SubSeq(s, 1, i - 1)) = i - 1
  BY <1>1
<1>3. SubSeq(s, i + 1, Len(s)) \in Seq(T) /\ Len(SubSeq(s, i + 1, Len(s))) = Len(s) - i
  BY <1>1
<1> QED BY SMTT(30), <1>1, <1>2, <1>3 DEF RemoveAt

\* One more is one longer.
LEMMA OneMore ==
  ASSUME NEW T, NEW s \in Seq(T), NEW i \in DOMAIN s, NEW e \in T
  PROVE  Len(InsertAt(s, i, e)) = Len(s) + 1
<1> DEFINE front == SubSeq(s, 1, i - 1)
           back  == SubSeq(s, i, Len(s))
           more  == Append(front, e)
<1>1. i \in Nat /\ 1 <= i /\ i <= Len(s) /\ Len(s) \in Nat
  OBVIOUS
<1>2. front \in Seq(T) /\ Len(front) = i - 1
  BY <1>1
<1>3. back \in Seq(T) /\ Len(back) = Len(s) - i + 1
  BY <1>1
<1> HIDE DEF front, back
<1>4. more \in Seq(T) /\ Len(more) = i
  BY <1>1, <1>2
<1>5. front \o <<e>> = more
  BY <1>2
<1>6. InsertAt(s, i, e) = more \o back
  BY <1>5 DEF InsertAt, front, back
<1> HIDE DEF more
<1>7. Len(more \o back) = Len(more) + Len(back)
  BY <1>3, <1>4
<1> QED BY <1>1, <1>3, <1>4, <1>6, <1>7

\* A batch that is accepted is whole, and each text that was sent takes its own
\* translation.
LEMMA BatchFits ==
  ASSUME TranslationAssumption, CoreInv, NEW results \in Replies(ToSend), Fits(ToSend, results)
  PROVE  InOrder(farmer.texts, results) = IF Route = Lost THEN InOrder(farmer.texts, results)
                                          ELSE CoreTexts
<1> DEFINE batch == ToSend
           whole == [i \in DOMAIN batch |-> In(batch[i], Route)]
           texts == farmer.texts
           K     == ToSet(texts) \ Spaces
<1>1. texts \in Seq(Words \cup Spaces)
  BY DEF TranslationAssumption, CoreInv
<1>2. batch = Keep(texts, K) /\ batch \in Seq(Words \cup Spaces)
  <2> HIDE DEF K
  <2>1. Keep(texts, K) \in Seq(Words \cup Spaces)
    BY <1>1, KeepPlaces
  <2> QED BY <2>1 DEF ToSend, K
<1>3. results = whole
  <2>1. results \in {whole} \cup {RemoveAt(whole, i) : i \in DOMAIN whole}
                            \cup {InsertAt(whole, i, In(Empty, Route)) : i \in DOMAIN whole}
    BY DEF Replies
  <2> DEFINE T == {In(w, Route) : w \in Words \cup Spaces}
             e == In(Empty, Route)
  <2>2. whole \in Seq(T) /\ Len(whole) = Len(batch) /\ Len(batch) \in Nat
    <3> DEFINE W == Words \cup Spaces
    <3>1. batch \in Seq(W)
      BY <1>2
    <3> HIDE DEF batch, W, whole, T
    <3>2. DOMAIN batch = 1 .. Len(batch) /\ Len(batch) \in Nat
          /\ \A i \in 1 .. Len(batch) : batch[i] \in W
      BY <3>1
    <3>3. whole \in [1 .. Len(batch) -> T]
      BY <3>2 DEF whole, T, W
    <3> QED BY <3>2, <3>3
  <2>3. e \in T
    BY DEF TranslationAssumption
  <2> HIDE DEF T, whole, batch, e
  <2>4. \A i \in DOMAIN whole : Len(RemoveAt(whole, i)) = Len(whole) - 1
    BY <2>2, OneLess
  <2>5. \A i \in DOMAIN whole : Len(InsertAt(whole, i, e)) = Len(whole) + 1
    BY <2>2, <2>3, OneMore
  <2>6. Len(results) = Len(batch)
    BY DEF Fits, batch
  <2>7. results \in {whole} \cup {RemoveAt(whole, i) : i \in DOMAIN whole}
                            \cup {InsertAt(whole, i, e) : i \in DOMAIN whole}
    BY <2>1 DEF e
  <2> QED BY <2>2, <2>4, <2>5, <2>6, <2>7
<1>4. ASSUME NEW i \in DOMAIN texts, ~IsBlank(texts[i])
      PROVE  results[Cardinality({j \in 1 .. i : ~IsBlank(texts[j])})] = In(texts[i], Route)
  <2> DEFINE k == Cardinality({j \in 1 .. i : texts[j] \in K})
             kept == Keep(texts, K)
  <2>1. i \in 1 .. Len(texts) /\ texts[i] \in K
    BY <1>1, <1>4 DEF IsBlank, ToSet
  <2>2. {j \in 1 .. i : ~IsBlank(texts[j])} = {j \in 1 .. i : texts[j] \in K}
    BY <1>1, <2>1 DEF IsBlank, ToSet
  <2>3. k \in 1 .. Len(batch) /\ batch[k] = texts[i]
    <3>1. k \in 1 .. Len(kept) /\ kept[k] = texts[i]
      <4> DEFINE W == Words \cup Spaces
      <4>1. texts \in Seq(W)
        BY <1>1
      <4> HIDE DEF K, texts, W
      <4>2. \A m \in 1 .. Len(texts) : texts[m] \in K =>
              /\ Cardinality({j \in 1 .. m : texts[j] \in K}) \in 1 .. Len(Keep(texts, K))
              /\ Keep(texts, K)[Cardinality({j \in 1 .. m : texts[j] \in K})] = texts[m]
        BY <4>1, KeepCounts
      <4> QED BY <2>1, <4>2
    <3> QED BY <1>2, <3>1
  <2>4. results[k] = In(texts[i], Route)
    <3> HIDE DEF k, batch, texts
    <3>1. k \in DOMAIN batch
      BY <1>2, <2>3
    <3> QED BY <1>3, <2>3, <3>1
  <2> QED BY <2>2, <2>4
<1>5. CASE Route = Lost
  BY <1>5
<1>6. CASE Route # Lost
  <2>1. \A i \in DOMAIN texts :
          (IF IsBlank(texts[i]) THEN texts[i]
           ELSE results[Cardinality({j \in 1 .. i : ~IsBlank(texts[j])})])
          = IF Route = Lost \/ IsBlank(texts[i]) THEN texts[i] ELSE In(texts[i], Route)
    BY <1>4, <1>6
  <2>2. InOrder(texts, results) = CoreTexts
    BY <2>1 DEF InOrder, CoreTexts
  <2> QED BY <1>6, <2>2
<1> QED BY <1>5, <1>6

\* What the core is given is the turn's texts, or the turn has failed.
LEMMA TranslateInKeeps ==
  ASSUME TranslationAssumption, CoreInv, TranslateIn
  PROVE  CoreInv' /\ fate' \in {fate, "failed"}
<1>1. farmer' = farmer
  BY DEF TranslateIn
<1>2. CoreTexts' = CoreTexts
  BY <1>1 DEF CoreTexts, Route, IsBlank, In
<1>3. farmer.texts \in Seq(Words \cup Spaces)
  BY DEF TranslationAssumption, CoreInv
<1>4. CASE Route = Lost \/ ToSend = <<>>
  <2>1. core' = farmer.texts /\ fate' = fate
    BY <1>4 DEF TranslateIn
  <2>2. ASSUME Route # Lost, NEW i \in DOMAIN farmer.texts PROVE IsBlank(farmer.texts[i])
    <3> DEFINE K == ToSet(farmer.texts) \ Spaces
    <3>1. Keep(farmer.texts, K) = <<>>
      BY <1>4, <2>2 DEF ToSend
    <3>2. ToSet(<<>>) = {}
      BY DEF ToSet
    <3>3. ToSet(farmer.texts) \cap K = {}
      <4>1. ToSet(Keep(farmer.texts, K)) = ToSet(farmer.texts) \cap K
        <5> HIDE DEF K
        <5> QED BY <1>3, KeepMembers
      <4> QED BY <3>1, <3>2, <4>1
    <3> QED BY <3>3 DEF IsBlank, ToSet
  <2>3. farmer.texts = [i \in DOMAIN farmer.texts |-> farmer.texts[i]]
    BY <1>3
  <2>4. \A i \in DOMAIN farmer.texts :
          farmer.texts[i] = IF Route = Lost \/ IsBlank(farmer.texts[i]) THEN farmer.texts[i]
                            ELSE In(farmer.texts[i], Route)
    BY <2>2
  <2>5. farmer.texts = CoreTexts
    BY <2>3, <2>4 DEF CoreTexts
  <2> QED BY <1>1, <1>2, <2>1, <2>5 DEF CoreInv
<1>5. CASE Route # Lost /\ ToSend # <<>>
  <2>1. CASE \E results \in Replies(ToSend) :
               IF Fits(ToSend, results)
               THEN core' = InOrder(farmer.texts, results) /\ UNCHANGED fate
               ELSE fate' = "failed" /\ UNCHANGED core
    <3>1. PICK results \in Replies(ToSend) :
               IF Fits(ToSend, results)
               THEN core' = InOrder(farmer.texts, results) /\ UNCHANGED fate
               ELSE fate' = "failed" /\ UNCHANGED core
      BY <2>1
    <3>2. CASE Fits(ToSend, results)
      <4>1. core' = CoreTexts /\ fate' = fate
        BY <1>5, <3>1, <3>2, BatchFits
      <4> QED BY <1>1, <1>2, <4>1 DEF CoreInv
    <3>3. CASE ~Fits(ToSend, results)
      BY <1>1, <1>2, <3>1, <3>3 DEF CoreInv
    <3> QED BY <3>2, <3>3
  <2>2. CASE fate' = "failed" /\ UNCHANGED core
    BY <1>1, <1>2, <2>2 DEF CoreInv
  <2> QED BY <1>5, <2>1, <2>2 DEF TranslateIn
<1> QED BY <1>4, <1>5

-----------------------------------------------------------------------------
\* What the steps share.

\* A step that leaves the turn and the core's texts alone keeps them in place.
LEMMA CoreStays ==
  ASSUME CoreInv, UNCHANGED <<farmer, core>>
  PROVE  CoreInv'
BY DEF CoreInv, CoreTexts, Route, IsBlank, In

\* One that renders nothing keeps what is rendered.
LEMMA ReplyStays ==
  ASSUME ReplyInv, UNCHANGED <<farmer, reply, rendered>>,
         reply = Lost => UNCHANGED <<piece, wire>> /\ fate' # "finished"
  PROVE  ReplyInv'
<1>1. \A i, j : Renderings(i, j)' = Renderings(i, j)
  BY DEF Renderings, Localized, CoreTag, Route, IsBlank, IsWithin, In
<1> QED BY <1>1 DEF ReplyInv

\* The words of a text of the reply that is rendered are its own.
LEMMA OwnWords ==
  ASSUME ReplyInv, NEW i \in DOMAIN rendered, NEW j \in DOMAIN rendered[i],
         rendered[i][j] # Lost
  PROVE  rendered[i][j].text = reply[i].texts[j]
<1>1. rendered[i][j] \in Renderings(i, j)
  BY DEF ReplyInv
<1>2. CASE reply[i].own
  BY <1>1, <1>2 DEF Renderings, Localized, In
<1>3. CASE ~reply[i].own
  BY <1>1, <1>3 DEF Renderings, In
<1> QED BY <1>2, <1>3

\* What is left to render.
LEMMA LeftToRender ==
  /\ \A c \in Unrendered : /\ c = <<c[1], c[2]>> /\ c[1] \in DOMAIN rendered
                            /\ c[2] \in DOMAIN rendered[c[1]]
  /\ Unrendered = {} => \A i \in DOMAIN rendered : \A j \in DOMAIN rendered[i] :
                           rendered[i][j] # Lost
<1>1. ASSUME NEW c \in Unrendered
      PROVE  c = <<c[1], c[2]>> /\ c[1] \in DOMAIN rendered /\ c[2] \in DOMAIN rendered[c[1]]
  BY DEF Unrendered
<1>2. ASSUME NEW i \in DOMAIN rendered, NEW j \in DOMAIN rendered[i], rendered[i][j] = Lost
      PROVE  Unrendered # {}
  <2>1. <<i, j>> \in {<<i, k>> : k \in {m \in DOMAIN rendered[i] : rendered[i][m] = Lost}}
    BY <1>2
  <2>2. <<i, j>> \in Unrendered
    BY <2>1 DEF Unrendered
  <2> QED BY <2>2
<1> QED BY <1>1, <1>2

\* The block that is next, once the reply is rendered.
LEMMA NextIs ==
  ASSUME TranslationAssumption, ReplyInv, WireInv,
         reply # Lost, Unrendered = {}, Len(Claims) < Len(reply)
  PROVE  LET n == Len(Claims) + 1
         IN  /\ Len(Claims) \in Nat /\ n \in DOMAIN reply /\ n \in DOMAIN rendered
             /\ DOMAIN rendered[n] = DOMAIN reply[n].texts
             /\ \A j \in DOMAIN reply[n].texts : rendered[n][j].text = reply[n].texts[j]
             /\ Speaks(reply[n]) => Uttered.text = reply[n].texts[1]
<1> DEFINE n == Len(Claims) + 1
<1>1. Claims \in Seq(ToSet(wire))
  <2>1. Claims = ClaimsOf(wire)
    BY DEF Claims, ClaimsOf
  <2> DEFINE K == {event \in ToSet(wire) : event.kind = "claim"}
             T == ToSet(wire)
  <2>2. Keep(wire, K) \in Seq(T)
    <3>1. wire \in Seq(T)
      BY DEF WireInv
    <3> HIDE DEF K, T
    <3> QED BY <3>1, KeepPlaces
  <2> QED BY <2>2 DEF Claims
<1>2. Len(Claims) \in Nat
  BY <1>1
<1>3. reply \in Answers /\ reply \in Seq(Block) /\ DOMAIN rendered = DOMAIN reply
      /\ \A i \in DOMAIN reply : DOMAIN rendered[i] = DOMAIN reply[i].texts
  BY DEF ReplyInv, TranslationAssumption
<1>4. n \in DOMAIN reply
  BY <1>2, <1>3
<1>5. DOMAIN rendered[n] = DOMAIN reply[n].texts /\ n \in DOMAIN rendered
  BY <1>3, <1>4
<1> HIDE DEF n
<1>6. ASSUME NEW j \in DOMAIN reply[n].texts PROVE rendered[n][j].text = reply[n].texts[j]
  <2>1. rendered[n][j] # Lost
    BY <1>5, LeftToRender
  <2> QED BY <1>5, <2>1, OwnWords
<1>7. ASSUME Speaks(reply[n]) PROVE Uttered.text = reply[n].texts[1]
  <2>1. Len(reply[n].texts) = 1
    BY <1>3, <1>4, <1>7 DEF TranslationAssumption, Speaks
  <2>2. reply[n].texts \in Seq(Words \cup Spaces)
    <3>1. reply[n] \in Block
      BY <1>3, <1>4
    <3> QED BY <3>1 DEF Block
  <2>3. 1 \in DOMAIN reply[n].texts
    BY <2>1, <2>2
  <2> QED BY <1>6, <2>3 DEF Uttered, n
<1> QED BY <1>2, <1>4, <1>5, <1>6, <1>7 DEF n

\* What a text is streamed as.
LEMMA PiecesAre ==
  ASSUME TranslationAssumption
  PROVE  /\ Len(Pieces) \in Nat
         /\ \A k \in 1 .. Len(Pieces) : Pieces[k].of = Uttered /\ Pieces[k].part = k
         /\ ~IsBlank(Uttered.text) =>
              Len(Pieces) = 2 /\ \A k \in 1 .. Len(Pieces) : Pieces[k].into = farmer.tag
<1>1. CASE Uttered.text = Empty
  BY <1>1 DEF Pieces, TranslationAssumption, IsBlank
<1>2. CASE Uttered.text # Empty /\ IsBlank(Uttered.text)
  BY <1>2 DEF Pieces
<1>3. CASE Uttered.text # Empty /\ ~IsBlank(Uttered.text)
  BY <1>3 DEF Pieces
<1> QED BY <1>1, <1>2, <1>3

\* What a step that adds nothing to the wire must keep.
LEMMA WireStays ==
  ASSUME WireInv, UNCHANGED <<farmer, reply, wire, piece>>,
         piece # 0 => UNCHANGED rendered,
         fate' = "finished" => Len(Claims) = Len(reply)
  PROVE  WireInv'
<1>1. Claims' = Claims /\ LastClaim(wire)' = LastClaim(wire) /\ Route' = Route
  BY DEF Claims, Route, LastClaim
<1>2. piece # 0 => (Amid' <=> Amid) /\ Pieces' = Pieces
  BY <1>1 DEF Amid, Pieces, Uttered, IsBlank, Unrendered, NextBlock, Speaks
<1>3. \A n \in DOMAIN Claims : Claimed(Claims[n], n)'
  BY <1>1 DEF WireInv, Claimed, Speaks, IsBlank
<1>4. wire' \in Seq(ToSet(wire')) /\ piece' \in Nat
  BY DEF WireInv
<1>5. (LastClaim(wire) + piece = Len(wire))'
  BY <1>1 DEF WireInv
<1>6. (piece # 0 => Amid /\ piece <= Len(Pieces))'
  BY <1>2 DEF WireInv
<1>7. (\A k \in 1 .. piece : wire[LastClaim(wire) + k] = [kind |-> "piece", is |-> Pieces[k]])'
  <2>1. CASE piece = 0
    BY <2>1
  <2>2. CASE piece # 0
    BY <1>1, <1>2, <2>2 DEF WireInv
  <2> QED BY <2>1, <2>2
<1>8. (fate = "finished" => Len(Claims) = Len(reply))'
  BY <1>1
<1> QED BY <1>1, <1>3, <1>4, <1>5, <1>6, <1>7, <1>8 DEF WireInv

\* A claim is added: it is the next block's.
LEMMA ClaimKeeps ==
  ASSUME TranslationAssumption, ReplyInv, WireInv, NEW texts, Claim(texts),
         fate # "finished", Len(Claims) < Len(reply),
         Claimed([kind |-> "claim", type |-> NextBlock.type, texts |-> texts],
                 Len(Claims) + 1)
  PROVE  WireInv'
<1> DEFINE e == [kind |-> "claim", type |-> NextBlock.type, texts |-> texts]
<1>1. wire' = Append(wire, e) /\ piece' = 0 /\ UNCHANGED <<farmer, core, reply, rendered, fate>>
  BY DEF Claim
<1>2. e.kind = "claim"
  OBVIOUS
<1>3. Claimed(e, Len(Claims) + 1)
  OBVIOUS
<1> HIDE DEF e
<1>4. wire \in Seq(ToSet(wire))
  BY DEF WireInv
<1>5. /\ wire' \in Seq(ToSet(wire')) /\ Len(wire') = Len(wire) + 1 /\ Len(wire) \in Nat
      /\ ClaimsOf(wire') = Append(ClaimsOf(wire), e)
      /\ LastClaim(wire') = Len(wire) + 1
      /\ ClaimsOf(wire) \in Seq(ToSet(wire) \cup {e})
  BY ZenonT(40), <1>1, <1>2, <1>4, ClaimsOfAppend
<1>6. Claims = ClaimsOf(wire) /\ Claims' = Append(Claims, e) /\ Claims \in Seq(ToSet(wire) \cup {e})
  BY <1>5 DEF Claims, ClaimsOf
<1>7. /\ DOMAIN Claims' = 1 .. Len(Claims) + 1 /\ Len(Claims) \in Nat
      /\ DOMAIN Claims = 1 .. Len(Claims)
      /\ Claims'[Len(Claims) + 1] = e /\ \A n \in 1 .. Len(Claims) : Claims'[n] = Claims[n]
  BY <1>6
<1>8. ASSUME NEW n \in DOMAIN Claims' PROVE Claimed(Claims[n], n)'
  <2>1. Claimed(Claims'[n], n)
    <3>1. CASE n = Len(Claims) + 1
      BY <1>3, <1>7, <3>1
    <3>2. CASE n # Len(Claims) + 1
      <4>1. n \in DOMAIN Claims /\ Claims'[n] = Claims[n]
        BY <1>7, <3>2
      <4> QED BY <4>1 DEF WireInv
    <3> QED BY <3>1, <3>2
  <2>2. Route' = Route
    BY <1>1 DEF Route
  <2> QED BY <1>1, <2>1, <2>2 DEF Claimed, Speaks, IsBlank
<1>9. (LastClaim(wire) + piece = Len(wire))' /\ piece' \in Nat
  BY <1>1, <1>5
<1>10. fate' # "finished"
  BY <1>1
<1> QED BY <1>1, <1>5, <1>8, <1>9, <1>10 DEF WireInv

-----------------------------------------------------------------------------
\* The steps.

\* The core answers.
LEMMA AnswerKeeps ==
  ASSUME TranslationAssumption, TranslationInv, Answer
  PROVE  TranslationInv'
<1>1. /\ reply = Lost /\ reply' \in Answers
      /\ rendered' = [i \in DOMAIN reply' |-> [j \in DOMAIN reply'[i].texts |-> Lost]]
      /\ UNCHANGED <<farmer, core, piece, wire, fate>>
  BY DEF Answer
<1>2. CoreInv'
  BY <1>1, CoreStays DEF TranslationInv
<1>3. rendered = <<>> /\ wire = <<>> /\ piece = 0 /\ fate # "finished"
  BY <1>1 DEF TranslationInv, ReplyInv
<1>4. ReplyInv'
  <2>1. reply' # Lost
    BY <1>1 DEF TranslationAssumption
  <2> QED BY <1>1, <2>1 DEF ReplyInv
<1>5. WireInv'
  <2>1. Claims' = <<>>
    <3>1. wire' = <<>>
      BY <1>1, <1>3
    <3> DEFINE K == {event \in ToSet(wire') : event.kind = "claim"}
    <3>2. Keep(<<>>, K) = <<>>
      BY KeepOfNothing
    <3> QED BY <3>1, <3>2 DEF Claims
  <2>2. LastClaim(wire') = 0
    BY <1>1, <1>3 DEF LastClaim
  <2>3. wire' \in Seq(ToSet(wire')) /\ Len(wire') = 0
    BY <1>1, <1>3
  <2> QED BY <1>1, <1>3, <2>1, <2>2, <2>3 DEF WireInv
<1> QED BY <1>2, <1>4, <1>5 DEF TranslationInv

\* A rendering comes back (_each_concurrently).
LEMMA RenderKeeps ==
  ASSUME TranslationInv, NEW i, NEW j, Render(i, j)
  PROVE  TranslationInv'
<1>1. /\ <<i, j>> \in Unrendered /\ i \in DOMAIN rendered /\ j \in DOMAIN rendered[i]
      /\ UNCHANGED <<farmer, core, reply, piece, wire, fate>>
  BY LeftToRender DEF Render
<1>2. PICK text \in Renderings(i, j) : rendered' = [rendered EXCEPT ![i][j] = text]
  BY DEF Render, Renderings
<1>3. CoreInv'
  BY <1>1, CoreStays DEF TranslationInv
<1>4. ReplyInv'
  <2>1. \A m, k : Renderings(m, k)' = Renderings(m, k)
    BY <1>1 DEF Renderings, Localized, CoreTag, Route, IsBlank, IsWithin, In
  <2>2. reply # Lost
    BY <1>1 DEF TranslationInv, ReplyInv
  <2>3. /\ DOMAIN rendered' = DOMAIN rendered
        /\ \A m \in DOMAIN rendered : DOMAIN rendered'[m] = DOMAIN rendered[m]
        /\ \A m \in DOMAIN rendered : \A k \in DOMAIN rendered[m] :
             rendered'[m][k] = IF m = i /\ k = j THEN text ELSE rendered[m][k]
    BY <1>1, <1>2
  <2>4. \A m \in DOMAIN rendered' : \A k \in DOMAIN rendered'[m] :
          rendered'[m][k] = Lost \/ rendered'[m][k] \in Renderings(m, k)'
    BY <2>1, <2>3 DEF TranslationInv, ReplyInv
  <2> QED BY <1>1, <2>2, <2>3, <2>4 DEF TranslationInv, ReplyInv
<1>5. WireInv'
  <2>1. piece = 0
    BY <1>1 DEF TranslationInv, WireInv, Amid
  <2>2. fate' = "finished" => Len(Claims) = Len(reply)
    BY <1>1 DEF TranslationInv, WireInv
  <2> QED BY <1>1, <2>1, <2>2, WireStays DEF TranslationInv
<1> QED BY <1>3, <1>4, <1>5 DEF TranslationInv

\* A piece of a text's translation comes.
LEMMA StreamPieceKeeps ==
  ASSUME TranslationAssumption, TranslationInv, StreamPiece
  PROVE  TranslationInv'
<1> DEFINE e == [kind |-> "piece", is |-> Pieces[piece']]
<1>1. /\ Streaming /\ piece < Len(Pieces) /\ piece' = piece + 1 /\ wire' = Append(wire, e)
      /\ UNCHANGED <<farmer, core, reply, rendered, fate>>
  BY DEF StreamPiece
<1>2. Amid /\ fate = "running" /\ reply # Lost
  BY <1>1 DEF Streaming, Ready, Amid
<1>3. CoreInv' /\ ReplyInv'
  BY <1>1, <1>2, CoreStays, ReplyStays DEF TranslationInv
<1>4. e.kind # "claim"
  OBVIOUS
<1>5. wire \in Seq(ToSet(wire)) /\ piece \in Nat /\ LastClaim(wire) + piece = Len(wire)
  BY DEF TranslationInv, WireInv
<1> HIDE DEF e
<1>6. /\ wire' \in Seq(ToSet(wire')) /\ Len(wire') = Len(wire) + 1 /\ Len(wire) \in Nat
      /\ wire'[Len(wire) + 1] = e /\ \A k \in 1 .. Len(wire) : wire'[k] = wire[k]
      /\ ClaimsOf(wire') = ClaimsOf(wire)
      /\ LastClaim(wire') = LastClaim(wire)
  <2> DEFINE t == Append(wire, e)
  <2>1. /\ t \in Seq(ToSet(t)) /\ Len(t) = Len(wire) + 1 /\ Len(wire) \in Nat
        /\ t[Len(wire) + 1] = e /\ \A k \in 1 .. Len(wire) : t[k] = wire[k]
    <3> DEFINE T == ToSet(wire) \cup {e}
    <3>1. wire \in Seq(T) /\ e \in T
      <4>1. ToSet(wire) \subseteq T
        OBVIOUS
      <4> QED BY <1>5, <4>1
    <3> HIDE DEF T
    <3>2. ToSet(t) = ToSet(wire) \cup {e} /\ t \in Seq(T)
      BY <3>1, AppendMembers
    <3>3. t \in Seq(ToSet(t))
      BY <3>2 DEF T
    <3> QED BY <3>1, <3>3
  <2>2. ClaimsOf(t) = ClaimsOf(wire) /\ LastClaim(t) = LastClaim(wire)
    BY <1>4, <1>5, ClaimsOfAppend
  <2>3. wire' = t
    BY <1>1
  <2> HIDE DEF t
  <2> QED BY <2>1, <2>2, <2>3
<1>7. Claims' = Claims /\ Route' = Route
  BY <1>1, <1>6 DEF Claims, ClaimsOf, Route
<1>8. Pieces' = Pieces /\ Amid'
  BY <1>1, <1>2, <1>7 DEF Pieces, Uttered, IsBlank, Amid, Unrendered, NextBlock, Speaks
<1>9. \A n \in DOMAIN Claims : Claimed(Claims[n], n)'
  BY <1>1, <1>7 DEF TranslationInv, WireInv, Claimed, Speaks, IsBlank
<1>10. piece' \in Nat /\ (LastClaim(wire) + piece = Len(wire))'
  <2>1. LastClaim(wire) \in Nat
    BY <1>5, LastClaimIs
  <2>2. LastClaim(wire) + (piece + 1) = Len(wire) + 1 /\ piece + 1 \in Nat
    BY <1>5, <2>1
  <2>3. piece' = piece + 1
    BY <1>1
  <2>4. LastClaim(wire') = LastClaim(wire) /\ Len(wire') = Len(wire) + 1
    BY <1>6
  <2> QED BY <2>2, <2>3, <2>4
<1>11. piece' <= Len(Pieces)
  BY <1>1, <1>5, PiecesAre
<1>12. ASSUME NEW k \in 1 .. piece'
       PROVE  wire'[LastClaim(wire) + k] = [kind |-> "piece", is |-> Pieces[k]]
  <2>1. LastClaim(wire) \in Nat
    BY <1>5, LastClaimIs
  <2>2. CASE k = piece'
    <3>1. LastClaim(wire) + k = Len(wire) + 1
      BY <1>1, <1>5, <2>1, <2>2
    <3> QED BY <1>6, <2>2, <3>1 DEF e
  <2>3. CASE k # piece'
    <3>1. k \in 1 .. piece /\ LastClaim(wire) + k \in 1 .. Len(wire)
      BY <1>1, <1>5, <1>6, <2>1, <2>3
    <3>2. wire[LastClaim(wire) + k] = [kind |-> "piece", is |-> Pieces[k]]
      BY <3>1 DEF TranslationInv, WireInv
    <3> QED BY <1>6, <3>1, <3>2
  <2> QED BY <2>2, <2>3
<1>13. fate' # "finished"
  BY <1>1, <1>2
<1>14. WireInv'
  BY <1>6, <1>7, <1>8, <1>9, <1>10, <1>11, <1>12, <1>13 DEF WireInv
<1> QED BY <1>3, <1>14 DEF TranslationInv

\* A text whose pieces are all in is claimed as they wrote it (AnswerStream.claim).
LEMMA ClaimSpokenKeeps ==
  ASSUME TranslationAssumption, TranslationInv, ClaimSpoken
  PROVE  TranslationInv'
<1> DEFINE texts == [k \in DOMAIN Written |-> Written[k].is]
           n == Len(Claims) + 1
<1>1. Streaming /\ piece = Len(Pieces) /\ Claim(texts)
  BY DEF ClaimSpoken
<1>2. /\ reply # Lost /\ fate = "running" /\ Unrendered = {} /\ Route # Lost
      /\ Len(Claims) < Len(reply) /\ Speaks(NextBlock)
  BY <1>1 DEF Streaming, Ready
<1>3. UNCHANGED <<farmer, core, reply, rendered, fate>>
  BY <1>1 DEF Claim
<1>4. CoreInv' /\ ReplyInv'
  BY <1>2, <1>3, CoreStays, ReplyStays DEF TranslationInv
<1>5. /\ n \in DOMAIN reply /\ NextBlock = reply[n]
      /\ Uttered.text = reply[n].texts[1]
  BY <1>2, NextIs DEF TranslationInv, NextBlock
<1>6. DOMAIN texts = 1 .. Len(Pieces) /\ \A k \in 1 .. Len(Pieces) : texts[k] = Pieces[k]
  <2> DEFINE L == LastClaim(wire)
             T == ToSet(wire)
  <2>1. wire \in Seq(T) /\ L + piece = Len(wire) /\ L \in Nat /\ piece \in Nat
    <3>1. wire \in Seq(ToSet(wire)) /\ LastClaim(wire) + piece = Len(wire) /\ piece \in Nat
      BY DEF TranslationInv, WireInv
    <3>2. LastClaim(wire) \in Nat
      BY <3>1, LastClaimIs
    <3> QED BY <3>1, <3>2
  <2>2. \A k \in 1 .. piece : wire[L + k] = [kind |-> "piece", is |-> Pieces[k]]
    BY DEF TranslationInv, WireInv
  <2>3. Written = SubSeq(wire, L + 1, Len(wire))
    BY DEF Written
  <2> HIDE DEF L, T
  <2>4. /\ Written \in Seq(T) /\ Len(Written) = piece
        /\ \A k \in 1 .. piece : Written[k] = wire[L + k]
    BY SMTT(30), <2>1, <2>3
  <2>5. DOMAIN Written = 1 .. piece
    BY <2>4
  <2>6. piece = Len(Pieces)
    BY <1>1
  <2>7. \A k \in 1 .. piece : Written[k].is = Pieces[k]
    <3> SUFFICES ASSUME NEW k \in 1 .. piece PROVE Written[k].is = Pieces[k]
      OBVIOUS
    <3>1. Written[k] = [kind |-> "piece", is |-> Pieces[k]]
      BY <2>2, <2>4, Zenon
    <3>2. [kind |-> "piece", is |-> Pieces[k]].is = Pieces[k]
      OBVIOUS
    <3> QED BY <3>1, <3>2, Zenon
  <2>8. DOMAIN texts = 1 .. piece /\ \A k \in 1 .. piece : texts[k] = Written[k].is
    BY <2>5
  <2> HIDE DEF texts
  <2> QED BY <2>6, <2>7, <2>8
<1> HIDE DEF texts, n
<1>7. Len(texts) = Len(Pieces)
  <2>1. Len(Pieces) \in Nat
    BY PiecesAre
  <2> QED BY <1>6, <2>1
<1>8. Claimed([kind |-> "claim", type |-> NextBlock.type, texts |-> texts], n)
  <2>1. Route # Lost /\ Speaks(reply[n])
    BY <1>2, <1>5
  <2>2. \A k \in DOMAIN texts :
          /\ texts[k].of.text = reply[n].texts[1] /\ texts[k].part = k
          /\ ~IsBlank(reply[n].texts[1]) => Len(texts) = 2 /\ texts[k].into = farmer.tag
    BY <1>5, <1>6, <1>7, PiecesAre
  <2> QED BY <1>5, <2>1, <2>2 DEF Claimed
<1>9. WireInv'
  <2>1. Claimed([kind |-> "claim", type |-> NextBlock.type, texts |-> texts], Len(Claims) + 1)
    BY <1>8 DEF n
  <2>2. ReplyInv /\ WireInv /\ Claim(texts) /\ fate # "finished" /\ Len(Claims) < Len(reply)
    BY <1>1, <1>2 DEF TranslationInv, texts
  <2>3. \A written : Claim(written) /\ Claimed([kind |-> "claim", type |-> NextBlock.type,
                                               texts |-> written], Len(Claims) + 1) => WireInv'
    BY <2>2, ClaimKeeps
  <2> QED BY <2>1, <2>2, <2>3
<1> QED BY <1>4, <1>9 DEF TranslationInv

\* A block that is not translated is claimed as it was rendered (add_block).
LEMMA ClaimAsItIsKeeps ==
  ASSUME TranslationAssumption, TranslationInv, ClaimAsItIs
  PROVE  TranslationInv'
<1> DEFINE n == Len(Claims) + 1
           texts == rendered[Len(Claims) + 1]
<1>1. /\ reply # Lost /\ Unrendered = {} /\ fate = "running" /\ Len(Claims) < Len(reply)
      /\ Route = Lost \/ ~Speaks(NextBlock)
      /\ Claim(texts)
  BY DEF ClaimAsItIs, Ready
<1>2. UNCHANGED <<farmer, core, reply, rendered, fate>>
  BY <1>1 DEF Claim
<1>3. CoreInv' /\ ReplyInv'
  BY <1>1, <1>2, CoreStays, ReplyStays DEF TranslationInv
<1>4. /\ NextBlock = reply[n]
      /\ \A j \in DOMAIN reply[n].texts : texts[j].text = reply[n].texts[j]
  BY <1>1, NextIs DEF TranslationInv, NextBlock
<1>5. Claimed([kind |-> "claim", type |-> NextBlock.type, texts |-> texts], n)
  BY <1>1, <1>4 DEF Claimed
<1>6. WireInv'
  <2>1. ReplyInv /\ WireInv /\ fate # "finished"
    BY <1>1 DEF TranslationInv
  <2> QED BY <1>1, <1>5, <2>1, ClaimKeeps
<1> QED BY <1>3, <1>6 DEF TranslationInv

\* The farmer's texts go in.
LEMMA TranslateInStep ==
  ASSUME TranslationAssumption, TranslationInv, TranslateIn
  PROVE  TranslationInv'
<1>1. UNCHANGED <<farmer, reply, rendered, piece, wire>>
  BY DEF TranslateIn
<1>2. CoreInv' /\ fate' \in {fate, "failed"}
  BY TranslateInKeeps DEF TranslationInv
<1>3. ReplyInv'
  BY <1>1, <1>2, ReplyStays DEF TranslationInv, ReplyInv
<1>4. WireInv'
  BY <1>1, <1>2, WireStays DEF TranslationInv, WireInv
<1> QED BY <1>2, <1>3, <1>4 DEF TranslationInv

\* A stream that breaks, the end of a turn, and a step that changes nothing.
LEMMA FateKeeps ==
  ASSUME TranslationInv, StreamBreaks \/ EndTurn \/ UNCHANGED tvars
  PROVE  TranslationInv'
<1>1. UNCHANGED <<farmer, core, reply, rendered, piece, wire>>
  BY DEF StreamBreaks, EndTurn, tvars
<1>2. fate' = "finished" => Len(Claims) = Len(reply)
  BY DEF StreamBreaks, EndTurn, tvars, TranslationInv, WireInv
<1>3. reply = Lost => fate' # "finished"
  BY DEF StreamBreaks, EndTurn, tvars, Streaming, Ready, TranslationInv, ReplyInv
<1>4. CoreInv' /\ ReplyInv' /\ WireInv'
  BY <1>1, <1>2, <1>3, CoreStays, ReplyStays, WireStays DEF TranslationInv
<1> QED BY <1>4 DEF TranslationInv

\* The invariant holds when a turn comes in.
LEMMA TranslationStarts ==
  ASSUME TranslationAssumption, TranslationInit
  PROVE  TranslationInv
<1>1. CoreInv /\ ReplyInv
  BY DEF TranslationInit, CoreInv, ReplyInv
<1>2. Claims = <<>>
  <2> DEFINE K == {event \in ToSet(wire) : event.kind = "claim"}
  <2>1. Keep(<<>>, K) = <<>>
    BY KeepOfNothing
  <2> QED BY <2>1 DEF Claims, TranslationInit
<1>3. LastClaim(wire) = 0
  BY DEF LastClaim, TranslationInit
<1>4. WireInv
  BY <1>2, <1>3 DEF WireInv, TranslationInit
<1> QED BY <1>1, <1>4 DEF TranslationInv

\* In every state the core's texts are the turn's, each rendering is of its own
\* text, and the wire is the claims of the blocks so far and the pieces of the
\* next (translate_in, localize_answer, translate_out).
THEOREM TranslationInvariance == TranslationSpec => []TranslationInv
<1>1. TranslationInit => TranslationInv
  BY TranslationStarts, TranslationAssumption
<1>2. TranslationInv /\ [TranslationNext]_tvars => TranslationInv'
  <2> SUFFICES ASSUME TranslationInv, [TranslationNext]_tvars PROVE TranslationInv'
    OBVIOUS
  <2>1. CASE TranslateIn
    BY <2>1, TranslateInStep, TranslationAssumption
  <2>2. CASE Answer
    BY <2>2, AnswerKeeps, TranslationAssumption
  <2>3. CASE \E c \in Unrendered : Render(c[1], c[2])
    BY <2>3, RenderKeeps
  <2>4. CASE StreamPiece
    BY <2>4, StreamPieceKeeps, TranslationAssumption
  <2>5. CASE ClaimSpoken
    BY <2>5, ClaimSpokenKeeps, TranslationAssumption
  <2>6. CASE ClaimAsItIs
    BY <2>6, ClaimAsItIsKeeps, TranslationAssumption
  <2>7. CASE StreamBreaks \/ EndTurn \/ UNCHANGED tvars
    BY <2>7, FateKeeps
  <2> QED BY <2>1, <2>2, <2>3, <2>4, <2>5, <2>6, <2>7 DEF TranslationNext
<1> QED BY <1>1, <1>2, PTL DEF TranslationSpec

\* The core runs on each text in its own place, each block is claimed once, in
\* its own place and with its own words, and a finished turn said them all.
THEOREM TranslationKeepsTexts == TranslationSpec => []EachTextInItsPlace
<1>1. ASSUME TranslationInv PROVE EachTextInItsPlace
  <2>1. ASSUME core # Lost
        PROVE  /\ Len(core) = Len(farmer.texts)
               /\ \A i \in DOMAIN core :
                    core[i] = IF Route = Lost \/ IsBlank(farmer.texts[i]) THEN farmer.texts[i]
                              ELSE In(farmer.texts[i], Route)
    <3>1. core = CoreTexts /\ farmer.texts \in Seq(Words \cup Spaces)
      BY <1>1, <2>1, TranslationAssumption DEF TranslationInv, CoreInv, TranslationAssumption
    <3>2. DOMAIN farmer.texts = 1 .. Len(farmer.texts) /\ Len(farmer.texts) \in Nat
      BY <3>1
    <3>3. DOMAIN core = DOMAIN farmer.texts
      BY <3>1 DEF CoreTexts
    <3>4. Len(core) = Len(farmer.texts)
      BY <3>2, <3>3
    <3> QED BY <3>1, <3>3, <3>4 DEF CoreTexts
  <2>2. \A n \in DOMAIN Claims : Claimed(Claims[n], n)
    BY <1>1 DEF TranslationInv, WireInv
  <2>3. fate = "finished" => Len(Claims) = Len(reply)
    BY <1>1 DEF TranslationInv, WireInv
  <2> QED BY <2>1, <2>2, <2>3 DEF EachTextInItsPlace, Claimed, Spoken
<1> QED BY <1>1, TranslationInvariance, PTL

-----------------------------------------------------------------------------
\* Tags.

\* The shorter forms of a tag begin it, and what begins it and ends on no
\* singleton is one of them.
LEMMA FormsBegin ==
  ASSUME NEW tag, IsTag(tag)
  PROVE  /\ tag \in Forms(tag)
         /\ \A t \in Forms(tag) : Len(t) \in 1 .. Len(tag) /\ t = SubSeq(tag, 1, Len(t))
         /\ \A t : /\ IsTag(t) /\ Len(t) <= Len(tag) /\ t = SubSeq(tag, 1, Len(t))
                   /\ t[Len(t)] \notin Singletons
                   => t \in Forms(tag)
<1>1. tag \in Seq(ToSet(tag)) /\ tag # <<>> /\ Len(tag) \in Nat /\ Len(tag) # 0
  BY EmptySeq DEF IsTag
<1>2. tag = SubSeq(tag, 1, Len(tag))
  BY <1>1
<1>3. ASSUME NEW n \in 1 .. Len(tag) - 1
      PROVE  Len(SubSeq(tag, 1, n)) = n /\ n \in 1 .. Len(tag)
  BY <1>1
<1>4. ASSUME NEW t \in Forms(tag) PROVE Len(t) \in 1 .. Len(tag) /\ t = SubSeq(tag, 1, Len(t))
  <2>1. CASE t = tag
    BY <1>1, <1>2, <2>1
  <2>2. CASE t # tag
    <3>1. PICK n \in 1 .. Len(tag) - 1 : t = SubSeq(tag, 1, n)
      BY <2>2 DEF Forms
    <3> QED BY <1>3, <3>1
  <2> QED BY <2>1, <2>2
<1>5. ASSUME NEW t, IsTag(t), Len(t) <= Len(tag), t = SubSeq(tag, 1, Len(t)),
             t[Len(t)] \notin Singletons
      PROVE  t \in Forms(tag)
  <2>1. Len(t) \in Nat /\ Len(t) # 0
    BY <1>5, EmptySeq DEF IsTag
  <2>2. CASE Len(t) = Len(tag)
    BY <1>2, <1>5, <2>2 DEF Forms
  <2>3. CASE Len(t) # Len(tag)
    <3>1. Len(t) \in 1 .. Len(tag) - 1
      BY <1>1, <1>5, <2>1, <2>3
    <3>2. t[Len(t)] = tag[Len(t)]
      <4> DEFINE n == Len(t)
      <4>1. n \in 1 .. Len(tag) - 1 /\ t = SubSeq(tag, 1, n)
        BY <1>5, <3>1
      <4> HIDE DEF n
      <4>2. SubSeq(tag, 1, n)[n] = tag[n]
        BY <1>1, <4>1
      <4> QED BY <4>1, <4>2 DEF n
    <3> QED BY <1>5, <3>1, <3>2 DEF Forms
  <2> QED BY <2>2, <2>3
<1>6. tag \in Forms(tag)
  BY DEF Forms
<1> QED BY <1>4, <1>5, <1>6

\* The closest prompt is English, or the longest of those the tag's forms have.
LEMMA ClosestIs ==
  ASSUME NEW tag, IsTag(tag)
  PROVE  IF Forms(tag) \cap Prompts = {} THEN Closest(tag) = English
         ELSE /\ Closest(tag) \in Forms(tag) \cap Prompts
              /\ \A u \in Forms(tag) \cap Prompts : Len(u) <= Len(Closest(tag))
<1> DEFINE has == Forms(tag) \cap Prompts
           sizes == {Len(t) : t \in has}
<1>1. CASE has = {}
  BY <1>1 DEF Closest
<1>2. CASE has # {}
  <2>1. Len(tag) \in Nat /\ \A t \in has : Len(t) \in 1 .. Len(tag)
    BY FormsBegin DEF IsTag
  <2>2. sizes \subseteq 0 .. Len(tag) /\ sizes # {}
    <3> HIDE DEF has
    <3>1. \A t \in has : Len(t) \in 0 .. Len(tag)
      BY <2>1
    <3>2. PICK t \in has : TRUE
      BY <1>2
    <3>3. Len(t) \in sizes
      BY <3>2
    <3>4. sizes \subseteq 0 .. Len(tag)
      BY <3>1, Zenon
    <3> QED BY <3>3, <3>4
  <2>3. PICK x \in sizes : \A y \in sizes : y <= x
    <3> HIDE DEF sizes
    <3> QED BY <2>1, <2>2, LargestOf
  <2>4. PICK t \in has : x = Len(t)
    BY <2>3
  <2>5. \A u \in has : Len(u) <= Len(t)
    BY <2>3, <2>4
  <2> HIDE DEF sizes
  <2>6. Closest(tag) = CHOOSE c \in has : \A u \in has : Len(u) <= Len(c)
    BY <1>2 DEF Closest
  <2> HIDE DEF has
  <2>7. Closest(tag) \in has /\ \A u \in has : Len(u) <= Len(Closest(tag))
    BY <2>4, <2>5, <2>6
  <2> QED BY <1>2, <2>7 DEF has
<1> QED BY <1>1, <1>2

\* What the DSS says itself is rendered by the farmer's language's own prompt
\* wherever one works, and never by another language's.
THEOREM TranslationSpeaksTheirLanguage == TranslationSpec => []RenderedInTheirLanguage
<1>1. ASSUME TranslationInv PROVE RenderedInTheirLanguage
  <2> SUFFICES ASSUME NEW i \in DOMAIN rendered, NEW j \in DOMAIN rendered[i],
                      rendered[i][j] # Lost, rendered[i][j].by # Lost
               PROVE  LET by == rendered[i][j].by
                      IN  /\ CoreTag[1] # English[1] /\ rendered[i][j].tag = CoreTag
                          /\ IsPrefix(by, CoreTag) \/ by = English
                          /\ by = English => ~\E tag \in Prompts \ Broken :
                               /\ IsPrefix(tag, CoreTag) /\ tag[Len(tag)] \notin Singletons
                               /\ \A longer \in Prompts :
                                    IsPrefix(longer, CoreTag) => Len(longer) <= Len(tag)
    BY DEF RenderedInTheirLanguage
  <2> USE TranslationAssumption
  <2>1. /\ rendered[i][j].by = PromptFor(CoreTag) /\ rendered[i][j].tag = CoreTag
        /\ English \notin Forms(CoreTag)
    <3>1. rendered[i][j] \in Renderings(i, j)
      BY <1>1 DEF TranslationInv, ReplyInv
    <3> QED BY <3>1 DEF Renderings, Localized, In, IsWithin
  <2>2. IsTag(CoreTag) /\ IsTag(English)
    BY <1>1 DEF TranslationInv, CoreInv, CoreTag, Route, TranslationAssumption
  <2> HIDE TranslationAssumption
  <2> DEFINE tag == CoreTag
             by  == PromptFor(tag)
  <2>3. tag[1] # English[1]
    <3> SUFFICES ASSUME tag[1] = English[1] PROVE FALSE
      OBVIOUS
    <3> HIDE DEF tag
    <3>1. tag \in Seq(ToSet(tag)) /\ Len(tag) \in Nat /\ 1 <= Len(tag)
      BY <2>2, EmptySeq DEF IsTag, tag
    <3>2. Len(English) = 1 /\ English[1] \notin Singletons /\ English \in Seq(ToSet(English))
      BY <2>2, TranslationAssumption DEF TranslationAssumption, IsTag
    <3>3. English = <<tag[1]>>
      BY <3>2
    <3>4. SubSeq(tag, 1, 1) = <<tag[1]>>
      <4> DEFINE T == ToSet(tag)
      <4>1. tag \in Seq(T)
        BY <3>1
      <4> HIDE DEF T
      <4>2. /\ SubSeq(tag, 1, 1) \in Seq(T) /\ Len(SubSeq(tag, 1, 1)) = 1
            /\ SubSeq(tag, 1, 1)[1] = tag[1]
        BY <3>1, <4>1
      <4> DEFINE one == SubSeq(tag, 1, 1)
      <4>3. one \in Seq(T) /\ Len(one) = 1 /\ one[1] = tag[1]
        BY <4>2
      <4> HIDE DEF one
      <4>4. one = <<tag[1]>>
        BY <4>3
      <4> QED BY <4>4 DEF one
    <3>5. English = SubSeq(tag, 1, Len(English))
      BY <3>2, <3>3, <3>4
    <3>6. English \in Forms(tag)
      BY <2>2, <3>1, <3>2, <3>5, FormsBegin DEF tag
    <3> QED BY <2>1, <3>6 DEF tag
  <2>4. IsPrefix(by, tag) \/ by = English
    <3>1. CASE by = Closest(tag) /\ Closest(tag) \in Forms(tag)
      <4> DEFINE t == Closest(tag)
      <4>1. Len(t) \in 1 .. Len(tag) /\ t = SubSeq(tag, 1, Len(t)) /\ Len(tag) \in Nat
        BY <2>2, <3>1, FormsBegin DEF IsTag
      <4>2. SubSeq(t, 1, Len(t)) = t
        BY <2>2, <4>1 DEF IsTag
      <4> HIDE DEF t, tag, by
      <4>3. IsPrefix(t, tag)
        BY <4>1, <4>2 DEF IsPrefix
      <4> QED BY <3>1, <4>3 DEF t
    <3>2. CASE ~(by = Closest(tag) /\ Closest(tag) \in Forms(tag))
      BY <2>2, <3>2, ClosestIs DEF PromptFor
    <3> QED BY <3>1, <3>2
  <2>5. ASSUME by = English, NEW t \in Prompts \ Broken, IsPrefix(t, tag),
               t[Len(t)] \notin Singletons,
               \A longer \in Prompts : IsPrefix(longer, tag) => Len(longer) <= Len(t)
        PROVE  FALSE
    <3>1. IsTag(t)
      BY TranslationAssumption DEF TranslationAssumption
    <3>2. Len(t) <= Len(tag) /\ t = SubSeq(tag, 1, Len(t))
      <4>1. SubSeq(t, 1, Len(t)) = t
        BY <3>1 DEF IsTag
      <4> QED BY <2>5, <4>1 DEF IsPrefix
    <3>3. t \in Forms(tag) \cap Prompts
      BY <2>2, <2>5, <3>1, <3>2, FormsBegin
    <3> DEFINE c == Closest(tag)
    <3>4. c \in Forms(tag) \cap Prompts /\ Len(t) <= Len(c)
      BY <2>2, <3>3, ClosestIs
    <3>5. Len(c) \in 1 .. Len(tag) /\ c = SubSeq(tag, 1, Len(c)) /\ Len(tag) \in Nat
      BY <2>2, <3>4, FormsBegin DEF IsTag
    <3>6. IsPrefix(c, tag)
      <4>1. IsTag(c)
        BY <3>4, TranslationAssumption DEF TranslationAssumption
      <4>2. SubSeq(c, 1, Len(c)) = c
        BY <4>1 DEF IsTag
      <4> HIDE DEF c, tag
      <4> QED BY <3>5, <4>2 DEF IsPrefix
    <3>7. Len(c) <= Len(t) /\ Len(t) \in Nat
      BY <2>5, <3>1, <3>4, <3>6 DEF IsTag
    <3>8. c = t
      <4> HIDE DEF c, tag
      <4>1. Len(c) = Len(t)
        BY <3>4, <3>5, <3>7
      <4> QED BY <3>2, <3>5, <4>1
    <3>9. by = t
      BY <2>5, <3>8 DEF PromptFor
    <3>10. English \in Forms(tag)
      BY <2>5, <3>3, <3>9
    <3> QED BY <2>1, <3>10
  <2> QED BY <2>1, <2>3, <2>4, <2>5
<1> QED BY <1>1, TranslationInvariance, PTL

-----------------------------------------------------------------------------
(***************************************************************************)
(* Places.                                                                  *)
(***************************************************************************)

\* A sequence, whatever it is of.
IsList(s) == s \in Seq(ToSet(s))

\* A list of anything is a list of its members.
LEMMA ListOf == ASSUME NEW T, NEW s \in Seq(T) PROVE IsList(s)
BY DEF IsList, ToSet

\* One thing is a list.
LEMMA ListOfOne == ASSUME NEW x PROVE IsList(<<x>>) /\ ToSet(<<x>>) = {x}
BY DEF IsList, ToSet

\* What a source may answer with: a place, and the list of those above it.
AreMatches(ms) == IsList(ms) /\ \A m \in ToSet(ms) : IsList(m.within)

\* The rows of a key are guesses or none is.
LEMMA RowsAre ==
  ASSUME NEW key, NEW g \in BOOLEAN
  PROVE  AreMatches(RowsOf(key, g)) /\ \A m \in ToSet(RowsOf(key, g)) : m.isGuess = g
<1> DEFINE rows  == Keep(Rows, {row \in ToSet(Rows) : key \in row.keys})
           found == [i \in DOMAIN rows |-> MatchOf(rows[i], g)]
<1>1. Rows \in Seq(Row)
  BY PlacesAssumption DEF PlacesAssumption
<1>2. rows \in Seq(Row)
  BY <1>1, KeepWhere
<1>3. RowsOf(key, g) = found
  BY DEF RowsOf
<1> HIDE DEF rows
<1>4. \A i \in DOMAIN rows : found[i].within = rows[i].within /\ found[i].isGuess = g
  BY DEF MatchOf
<1>5. \A i \in DOMAIN rows : IsList(rows[i].within)
  <2> SUFFICES ASSUME NEW i \in DOMAIN rows PROVE IsList(rows[i].within)
    OBVIOUS
  <2>1. rows[i] \in Row
    BY <1>2
  <2>2. rows[i].within \in Seq(Names)
    BY <2>1 DEF Row
  <2> QED BY <2>2, ListOf
<1>6. found \in Seq(ToSet(found))
  BY <1>2 DEF ToSet
<1>7. \A m \in ToSet(found) : \E i \in DOMAIN rows : m = found[i]
  BY DEF ToSet
<1> HIDE DEF found
<1> QED BY <1>3, <1>4, <1>5, <1>6, <1>7 DEF AreMatches, IsList

\* A list and a list after it are one.
LEMMA JoinedList ==
  ASSUME NEW s, NEW t, IsList(s), IsList(t)
  PROVE  IsList(s \o t) /\ ToSet(s \o t) \subseteq ToSet(s) \cup ToSet(t)
<1> DEFINE T == ToSet(s) \cup ToSet(t)
           u == s \o t
<1>1. s \in Seq(T) /\ t \in Seq(T)
  BY DEF IsList
<1> HIDE DEF T
<1>2. u \in Seq(T)
  BY <1>1
<1> HIDE DEF u
<1>3. ToSet(u) \subseteq T
  BY <1>2 DEF ToSet
<1> QED BY <1>2, <1>3, ListOf DEF u, T

\* Of two lists of answers, one after the other.
LEMMA OneAfterTheOther ==
  ASSUME NEW s, NEW t, AreMatches(s), AreMatches(t)
  PROVE  AreMatches(s \o t)
BY JoinedList DEF AreMatches

\* What the file answers are matches.
LEMMA CsvAre == ASSUME NEW name PROVE AreMatches(CsvResolve(name))
<1> DEFINE keys == Keep(Keys, {key \in Names : <<name, key>> \in Starts})
           each == [i \in DOMAIN keys |-> RowsOf(keys[i], TRUE)]
           all  == UNION {ToSet(each[i]) : i \in DOMAIN keys}
<1>1. AreMatches(QualifiedBy(name))
  <2>1. keys \in Seq(Names)
    BY PlacesAssumption, KeepWhere DEF PlacesAssumption
  <2>2. QualifiedBy(name) = FlattenSeq(each)
    BY DEF QualifiedBy
  <2> HIDE DEF keys
  <2>3. \A i \in DOMAIN keys : AreMatches(each[i])
    <3> SUFFICES ASSUME NEW i \in DOMAIN keys PROVE AreMatches(each[i])
      OBVIOUS
    <3>1. TRUE \in BOOLEAN
      OBVIOUS
    <3>2. AreMatches(RowsOf(keys[i], TRUE))
      BY <3>1, RowsAre
    <3> QED BY <3>2
  <2>4. DOMAIN each = DOMAIN keys
    OBVIOUS
  <2>5. \A i \in DOMAIN keys : each[i] \in Seq(all)
    <3> SUFFICES ASSUME NEW i \in DOMAIN keys PROVE each[i] \in Seq(all)
      OBVIOUS
    <3> HIDE DEF each
    <3>1. each[i] \in Seq(ToSet(each[i])) /\ ToSet(each[i]) \subseteq all
      BY <2>3 DEF AreMatches, IsList
    <3> HIDE DEF all
    <3> QED BY <3>1
  <2>6. \A m \in all : IsList(m.within)
    BY <2>3 DEF AreMatches
  <2> HIDE DEF all
  <2>7. each \in Seq(Seq(all))
    <3>1. DOMAIN keys = 1 .. Len(keys) /\ Len(keys) \in Nat
      BY <2>1
    <3>2. each = [i \in 1 .. Len(keys) |-> each[i]]
      BY <3>1
    <3> HIDE DEF each
    <3> QED BY <2>5, <3>1, <3>2
  <2> HIDE DEF each
  <2>8. /\ FlattenSeq(each) \in Seq(all)
        /\ \A x : x \in ToSet(FlattenSeq(each)) => x \in all
    <3>1. FlattenSeq(each) \in Seq(all)
      BY <2>7, FlattenWhere
    <3> QED BY <3>1 DEF ToSet
  <2> QED BY <2>2, <2>6, <2>8, ListOf DEF AreMatches
<1>2. AreMatches(RowsOf(name, FALSE))
  <2>1. FALSE \in BOOLEAN
    OBVIOUS
  <2> QED BY <2>1, RowsAre
<1>3. AreMatches(RegionsNamed(name))
  <2> DEFINE rows == Keep(Rows, {row \in ToSet(Rows) : Len(row.within) >= 2 /\ row.within[2] = name})
             one == [name |-> name, within |-> <<rows[1].within[1]>>, region |-> rows[1].region,
                     point |-> None, isRegion |-> TRUE, isGuess |-> FALSE]
  <2>1. RegionsNamed(name) = IF rows = <<>> THEN <<>> ELSE <<one>>
    BY DEF RegionsNamed
  <2>2. one.within = <<rows[1].within[1]>>
    OBVIOUS
  <2> HIDE DEF rows, one
  <2>3. IsList(one.within)
    BY <2>2, ListOfOne
  <2>4. IsList(<<>>) /\ ToSet(<<>>) = {}
    BY DEF IsList, ToSet
  <2>5. IsList(<<one>>) /\ ToSet(<<one>>) = {one}
    BY ListOfOne
  <2> QED BY <2>1, <2>3, <2>4, <2>5 DEF AreMatches
<1> QED BY <1>1, <1>2, <1>3, OneAfterTheOther DEF CsvResolve

\* What the geocoder answers is a list of places of that name, no guesses.
LEMMA PhotonAre ==
  ASSUME NEW name
  PROVE  AreMatches(PhotonResolve(name)) /\ \A m \in ToSet(PhotonResolve(name)) : ~m.isGuess
<1> DEFINE named   == Keep(Features, {f \in ToSet(Features) : f.name = name})
           inside  == {AboveNamesake(f) : f \in {g \in ToSet(named) : InNamesake(g)}}
           open    == {f \in ToSet(named) : InNamesake(f) \/ FeatureMatch(f).within \notin inside}
           kept    == Keep(named, open)
           matches == [i \in DOMAIN kept |-> FeatureMatch(kept[i])]
           alone   == {i \in DOMAIN matches :
                         \A j \in 1 .. i - 1 : matches[j].within # matches[i].within}
           at      == [i \in DOMAIN matches |-> i]
           firsts  == Keep(at, alone)
           answer  == [k \in DOMAIN firsts |-> matches[firsts[k]]]
<1>1. PhotonResolve(name) = answer
  BY DEF PhotonResolve, NotAround, FirstOfEach
<1>2. named \in Seq(Feature)
  BY PlacesAssumption, KeepWhere DEF PlacesAssumption
<1> HIDE DEF named, open
<1>3. kept \in Seq(Feature)
  BY <1>2, KeepWhere
<1> HIDE DEF kept
<1>4. at \in Seq(DOMAIN matches)
  BY <1>3
<1>5. \A i \in DOMAIN matches : ~matches[i].isGuess /\ IsList(matches[i].within)
  <2> SUFFICES ASSUME NEW i \in DOMAIN matches
               PROVE  ~matches[i].isGuess /\ IsList(matches[i].within)
    OBVIOUS
  <2>1. kept[i] \in Feature
    BY <1>3
  <2>2. kept[i].parts \in Seq(Names)
    BY <2>1 DEF Feature
  <2> DEFINE above == Keep(kept[i].parts, Names \ {kept[i].name})
  <2>3. above \in Seq(Names)
    BY <2>2, KeepWhere
  <2>4. ~matches[i].isGuess /\ matches[i].within = above
    BY DEF FeatureMatch
  <2> HIDE DEF above
  <2> QED BY <2>3, <2>4, ListOf
<1> HIDE DEF alone, at, matches
<1>6. firsts \in Seq(DOMAIN matches)
  BY <1>4, KeepWhere
<1> HIDE DEF firsts
<1>7. \A k \in DOMAIN firsts : /\ answer[k] \in ToSet(answer)
                                /\ ~answer[k].isGuess /\ IsList(answer[k].within)
  BY <1>5, <1>6 DEF ToSet
<1>8. answer \in Seq(ToSet(answer))
  BY <1>6, <1>7
<1>9. \A m \in ToSet(answer) : \E k \in DOMAIN firsts : m = answer[k]
  BY DEF ToSet
<1> HIDE DEF answer
<1> QED BY <1>1, <1>7, <1>8, <1>9 DEF IsList, AreMatches

KnownAs(name) == ToSet(CsvResolve(name)) \cup ToSet(PhotonResolve(name))

\* What is found by a name is known by that name, and is a guess only where the
\* file has nothing but guesses, whether the geocoder answers or not.
LEMMA FoundAre ==
  ASSUME NEW name, NEW down
  PROVE  LET found == ExactFirst(Lookup(<<name>>, down))
         IN  /\ AreMatches(found)
             /\ \A m \in ToSet(found) : /\ m \in KnownAs(name)
                                        /\ m.isGuess => AllGuesses(CsvResolve(name))
<1> DEFINE rows     == CsvResolve(name)
           features == IF name \in down THEN <<>> ELSE PhotonResolve(name)
           answer      == Lookup(<<name>>, down)
           exact    == Keep(answer, {m \in ToSet(answer) : ~m.isGuess})
           found    == ExactFirst(answer)
<1>1. answer = IF ~AllGuesses(rows) \/ features = <<>> THEN rows ELSE features
  BY DEF Lookup
<1>2. AreMatches(rows) /\ AreMatches(features) /\ \A m \in ToSet(features) : ~m.isGuess
  <2>1. AreMatches(<<>>) /\ ToSet(<<>>) = {}
    BY DEF AreMatches, IsList, ToSet
  <2> QED BY <2>1, CsvAre, PhotonAre
<1>3. AreMatches(answer)
  BY <1>1, <1>2
<1>4. \A m \in ToSet(answer) : m \in KnownAs(name)
  <2>1. ToSet(<<>>) = {}
    BY DEF ToSet
  <2> QED BY <1>1, <2>1 DEF KnownAs
<1> HIDE DEF rows, features, answer
<1>5. /\ IsList(exact) /\ (exact = <<>> <=> \A m \in ToSet(answer) : m.isGuess)
      /\ \A m \in ToSet(exact) : m \in ToSet(answer) /\ ~m.isGuess
  <2>1. /\ exact \in Seq(ToSet(answer))
        /\ \A x : x \in ToSet(exact) <=> x \in ToSet(answer) /\ x \in {m \in ToSet(answer) : ~m.isGuess}
    BY <1>3, KeepWhere DEF IsList, AreMatches
  <2>2. exact = <<>> <=> ToSet(exact) = {}
    BY <2>1, NoMembers
  <2> QED BY <2>1, <2>2, ListOf
<1>6. found = IF exact = <<>> THEN answer ELSE exact
  BY DEF ExactFirst
<1> HIDE DEF exact, found
<1>7. ASSUME NEW m \in ToSet(found), m.isGuess
      PROVE  AllGuesses(rows)
  <2>1. found = answer /\ \A n \in ToSet(answer) : n.isGuess
    BY <1>5, <1>6, <1>7
  <2>2. answer = rows
    <3>1. CASE answer = features
      <4>1. ~m.isGuess
        BY <1>2, <2>1, <3>1, <1>7
      <4> QED BY <1>7, <4>1
    <3> QED BY <1>1, <3>1
  <2> QED BY <2>1, <2>2 DEF AllGuesses
<1>8. AreMatches(found) /\ \A m \in ToSet(found) : m \in KnownAs(name)
  BY <1>3, <1>4, <1>5, <1>6 DEF AreMatches
<1> QED BY <1>7, <1>8 DEF found, answer, rows

\* What is kept of a list.
LEMMA KeptIsAList ==
  ASSUME NEW s, IsList(s), NEW K, K \subseteq ToSet(s)
  PROVE  /\ IsList(Keep(s, K)) /\ ToSet(Keep(s, K)) = K
         /\ Keep(s, K) = <<>> <=> K = {}
<1>1. /\ Keep(s, K) \in Seq(ToSet(s))
      /\ \A x : x \in ToSet(Keep(s, K)) <=> x \in ToSet(s) /\ x \in K
  BY KeepWhere DEF IsList
<1>2. ToSet(Keep(s, K)) = K
  BY <1>1
<1> QED BY <1>1, <1>2, ListOf, NoMembers

\* The matches a text leaves are some of them, and sit in its last part.
LEMMA LeftAre ==
  ASSUME NEW matches, AreMatches(matches), matches # <<>>, NEW parts, IsList(parts),
         parts # <<>> => Inside(matches, parts) # <<>>
  PROVE  LET left == Left(matches, parts)
         IN  /\ AreMatches(left) /\ left # <<>> /\ ToSet(left) \subseteq ToSet(matches)
             /\ parts # <<>> => \A m \in ToSet(left) : Last(parts) \in Above(m)
<1> DEFINE D == {m \in ToSet(matches) :
                   parts # <<>> /\ m.within # <<>> /\ Last(m.within) = Last(parts)}
           I == {m \in ToSet(matches) : ToSet(parts) \subseteq Above(m)}
           direct == Directly(matches, parts)
           inside == Inside(matches, parts)
           fit == IF direct # <<>> THEN direct ELSE IF inside # <<>> THEN inside ELSE matches
           R == {m \in ToSet(fit) : m.region = location.region}
           here == Keep(fit, R)
           left == Left(matches, parts)
<1>1. left = IF Len(fit) > 1 /\ here # <<>> THEN here ELSE fit
  BY DEF Left
<1>2. IsList(direct) /\ ToSet(direct) = D
  BY KeptIsAList DEF Directly, AreMatches
<1>3. IsList(inside) /\ ToSet(inside) = I
  BY KeptIsAList DEF Inside, AreMatches
<1>4. fit = matches \/ fit = direct \/ fit = inside
  OBVIOUS
<1>5. fit # <<>>
  OBVIOUS
<1>6. parts # <<>> => fit = direct \/ fit = inside
  OBVIOUS
<1> HIDE DEF fit, direct, inside
<1>7. IsList(fit) /\ ToSet(fit) \subseteq ToSet(matches)
  BY <1>2, <1>3, <1>4 DEF AreMatches
<1>8. IsList(here) /\ ToSet(here) \subseteq ToSet(fit)
  BY <1>7, KeptIsAList
<1> HIDE DEF here, left
<1>9. IsList(left) /\ left # <<>> /\ ToSet(left) \subseteq ToSet(fit)
  BY <1>1, <1>5, <1>7, <1>8
<1>10. ASSUME parts # <<>>, NEW m \in ToSet(fit)
       PROVE  Last(parts) \in Above(m)
  <2>1. Last(parts) \in ToSet(parts)
    BY <1>10 DEF Last, ToSet, IsList
  <2>2. CASE fit = inside
    BY <1>3, <1>10, <2>1, <2>2
  <2>3. CASE fit = direct
    <3>1. m.within # <<>> /\ Last(m.within) = Last(parts) /\ m \in ToSet(matches)
      BY <1>2, <1>10, <2>3
    <3>2. IsList(m.within)
      BY <3>1 DEF AreMatches
    <3> QED BY <3>1, <3>2 DEF Above, Last, ToSet, IsList
  <2> QED BY <1>6, <1>10, <2>2, <2>3
<1> QED BY <1>7, <1>9, <1>10 DEF left, AreMatches

\* The places a name is read as: what is found, less the regions and what is
\* nested in another.
LEMMA NestedAre ==
  ASSUME NEW found, AreMatches(found)
  PROVE  LET nested == DropNested(NotRegions(found))
         IN  AreMatches(nested) /\ \A m \in ToSet(nested) : m \in ToSet(found) /\ ~m.isRegion
<1> DEFINE P == {m \in ToSet(found) : ~m.isRegion}
           places1 == Keep(found, P)
           Q == {m \in ToSet(places1) :
                   \A outer \in ToSet(places1) : m.within # Append(outer.within, outer.name)}
           nested == Keep(places1, Q)
<1>1. IsList(places1) /\ ToSet(places1) = P
  BY KeptIsAList DEF AreMatches
<1>2. DropNested(NotRegions(found)) = nested
  BY DEF DropNested, NotRegions
<1> HIDE DEF places1
<1>3. IsList(nested) /\ ToSet(nested) = Q
  BY <1>1, KeptIsAList
<1> HIDE DEF nested
<1> QED BY <1>1, <1>2, <1>3 DEF AreMatches

\* A place of the farmer's own is in the region that was named.
LEMMA OwnIsInside ==
  ASSUME NEW region, NEW down, OwnPlace(region, down) # NoPlace
  PROVE  /\ OwnPlace(region, down).source = "near_user"
         /\ region.name \in ToSet(OwnPlace(region, down).within)
<1> DEFINE area == AreaNamed(down)
           near == IF location.point = None THEN None ELSE Nearest(location.point)
<1>1. CASE Len(area) = 1 /\ region.name \in Above(area[1])
  <2>1. OwnPlace(region, down) = Resolved(area[1], "near_user")
    BY <1>1 DEF OwnPlace
  <2> QED BY <1>1, <2>1 DEF Resolved, Above
<1>2. CASE ~(Len(area) = 1 /\ region.name \in Above(area[1])) /\ near # None /\ region.name \in Above(near)
  <2>1. OwnPlace(region, down) = [Resolved(near, "near_user") EXCEPT !.point = location.point]
    BY <1>2 DEF OwnPlace
  <2> HIDE DEF near
  <2>2. /\ OwnPlace(region, down).source = "near_user"
        /\ OwnPlace(region, down).within = near.within
    BY <2>1 DEF Resolved
  <2> QED BY <1>2, <2>2 DEF Above
<1>3. CASE ~(Len(area) = 1 /\ region.name \in Above(area[1])) /\ ~(near # None /\ region.name \in Above(near))
  BY <1>3 DEF OwnPlace
<1> QED BY <1>1, <1>2, <1>3

\* What a text of several parts ends with is what its parts after the name do.
LEMMA LastPart ==
  ASSUME NEW text, IsList(text), text # <<>>
  PROVE  /\ IsList(Tail(text))
         /\ Tail(text) # <<>> <=> Len(text) > 1
         /\ Len(text) > 1 => Last(Tail(text)) = Last(text)
<1>1. text \in Seq(ToSet(text)) /\ Len(text) \in Nat /\ Len(text) >= 1
  BY DEF IsList
<1>2. /\ Tail(text) \in Seq(ToSet(text)) /\ Len(Tail(text)) = Len(text) - 1
      /\ \A i \in 1 .. Len(text) - 1 : Tail(text)[i] = text[i + 1]
  BY <1>1
<1>3. Len(text) > 1 => Tail(text)[Len(text) - 1] = text[Len(text)]
  BY <1>1, <1>2
<1>4. Tail(text) # <<>> <=> Len(text) > 1
  <2>1. Tail(text) = <<>> <=> Len(Tail(text)) = 0
    BY <1>2
  <2> QED BY <1>1, <1>2, <2>1
<1> QED BY <1>2, <1>3, <1>4, ListOf DEF Last

\* What a resolved place that was named by a text is.
NeverAnother(place, text) ==
  IF place.source = "near_user"
  THEN \E m \in KnownAs(text[1]) : m.isRegion /\ m.name \in ToSet(place.within)
  ELSE \E m \in KnownAs(text[1]) :
         /\ IsMatch(place, m) /\ ~m.isRegion
         /\ Len(text) > 1 => Last(text) \in Above(m)
         /\ m.isGuess =>
              /\ \A n \in ToSet(CsvResolve(text[1])) : n.isGuess
              /\ \E down \in Downs : Near(UserPoint(down), m)

\* A name that was said is placed where the sources know it, or with the farmer
\* (_resolve_named).
LEMMA NamedWell ==
  ASSUME NEW text, IsList(text), text # <<>>, NEW down \in Downs,
         ResolveNamed(text, down).kind = "resolved"
  PROVE  NeverAnother(ResolveNamed(text, down), text)
<1> DEFINE found   == ExactFirst(Lookup(<<text[1]>>, down))
           R       == {m \in ToSet(found) : m.isRegion}
           regions == Keep(found, R)
           nested  == DropNested(NotRegions(found))
           parts   == Tail(text)
           left    == Left(nested, parts)
           N       == {m \in ToSet(left) : Near(UserPoint(down), m)}
           near    == Keep(left, N)
           tied    == Len(left) > 1 \/ left[1].isGuess
           own     == OwnPlace(regions[1], down)
           lost    == nested = <<>> \/ (Len(text) > 1 /\ Inside(nested, parts) = <<>>)
           place   == ResolveNamed(text, down)
<1>1. place = IF regions # <<>> /\ NotRegions(found) = <<>>
              THEN IF own # NoPlace THEN own ELSE Unresolved(text, regions[1].name)
              ELSE IF lost THEN Unresolved(text, None)
              ELSE IF tied /\ Len(near) = 1 THEN Resolved(near[1], "named")
              ELSE IF tied THEN Ambiguous(text, left)
              ELSE Resolved(left[1], "named")
  BY DEF ResolveNamed
<1>2. /\ AreMatches(found)
      /\ \A m \in ToSet(found) : /\ m \in KnownAs(text[1])
                                 /\ m.isGuess => AllGuesses(CsvResolve(text[1]))
  BY FoundAre
<1>3. IsList(regions) /\ ToSet(regions) = R
  BY <1>2, KeptIsAList DEF AreMatches
<1>4. AreMatches(nested) /\ \A m \in ToSet(nested) : m \in ToSet(found) /\ ~m.isRegion
  BY <1>2, NestedAre
<1>5. /\ IsList(parts) /\ (parts # <<>> <=> Len(text) > 1)
      /\ Len(text) > 1 => Last(parts) = Last(text)
  BY LastPart
<1>6. place.kind = "resolved"
  OBVIOUS
<1> SUFFICES NeverAnother(place, text)
  OBVIOUS
<1> HIDE DEF found, nested, parts, place, R, N
<1>7. CASE regions # <<>> /\ NotRegions(found) = <<>>
  <2>1. own # NoPlace /\ place = own
    BY <1>1, <1>6, <1>7 DEF Unresolved
  <2>2. own.source = "near_user" /\ regions[1].name \in ToSet(own.within)
    BY <2>1, OwnIsInside
  <2>3. regions[1] \in ToSet(regions)
    BY <1>3, <1>7 DEF IsList, ToSet
  <2>4. regions[1] \in KnownAs(text[1]) /\ regions[1].isRegion
    BY <1>2, <1>3, <2>3 DEF R
  <2> HIDE DEF own, regions
  <2> QED BY <2>1, <2>2, <2>4 DEF NeverAnother
<1>8. CASE ~(regions # <<>> /\ NotRegions(found) = <<>>)
  <2>1. ~lost
    BY <1>1, <1>6, <1>8 DEF Unresolved
  <2> HIDE DEF left, regions, own
  <2>2. /\ AreMatches(left) /\ left # <<>> /\ ToSet(left) \subseteq ToSet(nested)
        /\ parts # <<>> => \A m \in ToSet(left) : Last(parts) \in Above(m)
    BY <1>4, <1>5, <2>1, LeftAre DEF left
  <2>3. IsList(near) /\ ToSet(near) = N
    <3>1. N \subseteq ToSet(left)
      BY DEF N
    <3> QED BY <2>2, <3>1, KeptIsAList DEF AreMatches
  <2> HIDE DEF near, lost
  <2>4. \E m \in ToSet(left) : /\ place = Resolved(m, "named")
                               /\ m.isGuess => Near(UserPoint(down), m)
    <3>1. CASE tied /\ Len(near) = 1
      <4>1. near[1] \in ToSet(near)
        BY <2>3, <3>1 DEF IsList, ToSet
      <4>2. near[1] \in ToSet(left) /\ Near(UserPoint(down), near[1])
        BY <2>3, <4>1 DEF N
      <4> HIDE DEF tied
      <4>3. place = Resolved(near[1], "named")
        BY <1>1, <1>8, <2>1, <3>1
      <4> QED BY <4>2, <4>3
    <3>2. CASE ~tied
      <4>1. left[1] \in ToSet(left)
        BY <2>2 DEF AreMatches, IsList, ToSet
      <4>2. ~left[1].isGuess
        BY <3>2
      <4> HIDE DEF tied
      <4>3. place = Resolved(left[1], "named")
        BY <1>1, <1>8, <2>1, <3>2
      <4> QED BY <4>1, <4>2, <4>3
    <3>3. CASE tied /\ Len(near) # 1
      <4> HIDE DEF tied
      <4>1. place = Ambiguous(text, left)
        BY <1>1, <1>8, <2>1, <3>3
      <4> QED BY <1>6, <4>1 DEF Ambiguous
    <3> QED BY <3>1, <3>2, <3>3
  <2>5. PICK m \in ToSet(left) : place = Resolved(m, "named") /\ (m.isGuess => Near(UserPoint(down), m))
    BY <2>4
  <2>6. place.source = "named" /\ IsMatch(place, m)
    BY <2>5 DEF Resolved, IsMatch
  <2>7. /\ m \in KnownAs(text[1]) /\ ~m.isRegion
        /\ m.isGuess => \A n \in ToSet(CsvResolve(text[1])) : n.isGuess
    BY <1>2, <1>4, <2>2 DEF AllGuesses
  <2>8. Len(text) > 1 => Last(text) \in Above(m)
    BY <1>5, <2>2
  <2>9. m.isGuess => \E d \in Downs : Near(UserPoint(d), m)
    BY <2>5
  <2> QED BY <2>6, <2>7, <2>8, <2>9 DEF NeverAnother
<1> QED BY <1>7, <1>8

\* A line is a list of names, if the question is.
LEMMA LinesAre ==
  ASSUME NEW place, IsList(place.text), NEW line \in Lines(place)
  PROVE  IsList(line.text)
<1>1. ASSUME NEW candidates, NEW l \in CandidateLines(candidates)
      PROVE  IsList(l.text)
  <2>1. PICK i \in DOMAIN candidates :
          l.text = <<candidates[i].name>> \o
                   StandoutPart(candidates[i].within,
                                [j \in DOMAIN RemoveAt(candidates, i) |->
                                   RemoveAt(candidates, i)[j].within])
    BY <1>1 DEF CandidateLines
  <2>2. \A within, others : StandoutPart(within, others) = <<>>
                            \/ \E x : StandoutPart(within, others) = <<x>>
    BY DEF StandoutPart
  <2> DEFINE standout == StandoutPart(candidates[i].within,
                                      [j \in DOMAIN RemoveAt(candidates, i) |->
                                         RemoveAt(candidates, i)[j].within])
             name == candidates[i].name
  <2>3. standout = <<>> \/ \E x : standout = <<x>>
    BY <2>2
  <2>4. l.text = <<name>> \o standout
    BY <2>1
  <2> HIDE DEF standout, name
  <2>5. IsList(standout)
    <3>1. IsList(<<>>)
      BY DEF IsList, ToSet
    <3> QED BY <2>3, <3>1, ListOfOne
  <2> QED BY <2>4, <2>5, ListOfOne, JoinedList
<1>2. ASSUME NEW candidates, NEW l \in GroupLines(place.text, candidates)
      PROVE  l \in CandidateLines(candidates) \/ \E part : l.text = Append(place.text, part)
  <2> DEFINE depths == {d \in UNION {DOMAIN m.within : m \in ToSet(candidates)} :
                          Len(PartsAt(candidates, d)) > 1}
             depth == CHOOSE d \in depths : \A e \in depths : d <= e
             shown == SubSeq(PartsAt(candidates, depth), 1, MaxChoices)
             G(part) == {m \in ToSet(candidates) : Len(m.within) >= depth /\ m.within[depth] = part}
             text == place.text
  <2>1. GroupLines(text, candidates) =
          IF depths = {} THEN CandidateLines(candidates)
          ELSE {[text |-> Append(text, part), group |-> G(part)] : part \in ToSet(shown)}
    BY DEF GroupLines
  <2> HIDE DEF depths, shown, G
  <2>2. CASE depths = {}
    BY <1>2, <2>1, <2>2
  <2>3. CASE depths # {}
    <3>1. PICK part \in ToSet(shown) : l = [text |-> Append(text, part), group |-> G(part)]
      BY <1>2, <2>1, <2>3
    <3> QED BY <3>1
  <2> QED BY <2>2, <2>3
<1>3. \A part : IsList(Append(place.text, part))
  <2> TAKE part
  <2> DEFINE T == ToSet(place.text) \cup {part}
  <2>1. place.text \in Seq(T) /\ part \in T
    <3>1. ToSet(place.text) \subseteq T
      OBVIOUS
    <3> QED BY <3>1 DEF IsList
  <2> HIDE DEF T
  <2> QED BY <2>1, AppendMembers, ListOf
<1> QED BY <1>1, <1>2, <1>3 DEF Lines

-----------------------------------------------------------------------------
\* What the asks hold, as far as the turn has come.

\* The place of an ask that names none.
Lent(down) == IF FromLocation(down) # NoPlace THEN FromLocation(down) ELSE Sibling

AskedInv ==
  /\ IsList(heard) /\ \A text \in ToSet(heard) : IsList(text)
  /\ IsList(asks) /\ \A text \in ToSet(asks) : IsList(text)
  /\ IsList(places) /\ Len(places) <= Len(asks) /\ (heard # <<>> => places = <<>>)
  /\ lent \in 0 .. Len(asks) /\ (lent # 0 => Named)

\* A text that was said is placed as it is looked up, and one that names none as
\* the farmer's place or a sibling's.
PlacedInv ==
  /\ \A i \in DOMAIN places : asks[i] # <<>> =>
       \E down \in Downs : places[i] = ResolveNamed(asks[i], down)
  /\ \A i \in 1 .. lent : asks[i] = <<>> =>
       \E down \in Downs : (~unanswered => down = {}) /\ places[i] = Lent(down)

PlacesInv == AskedInv /\ PlacedInv

\* A turn begins with nothing asked.
LEMMA TurnBegins ==
  ASSUME NEW texts, IsList(texts), \A text \in ToSet(texts) : IsList(text),
         heard' = texts, asks' = <<>>, places' = <<>>, lent' = 0
  PROVE  PlacesInv'
<1>1. IsList(<<>>) /\ ToSet(<<>>) = {} /\ Len(<<>>) = 0 /\ DOMAIN <<>> = {}
  BY DEF IsList, ToSet
<1>2. AskedInv'
  BY <1>1 DEF AskedInv, IsList
<1>3. PlacedInv'
  BY <1>1 DEF PlacedInv
<1> QED BY <1>2, <1>3 DEF PlacesInv

\* What is looked up does not change while the turn says where the farmer is.
LEMMA LookedUpStays ==
  ASSUME location' = location
  PROVE  \A down : /\ \A text : ResolveNamed(text, down)' = ResolveNamed(text, down)
                   /\ FromLocation(down)' = FromLocation(down)
<1>1. \A down : AreaNamed(down)' = AreaNamed(down)
  BY DEF AreaNamed
<1>2. \A down : UserPoint(down)' = UserPoint(down)
  BY <1>1 DEF UserPoint
<1>3. \A down : FromLocation(down)' = FromLocation(down)
  BY <1>1 DEF FromLocation
<1>4. \A region, down : OwnPlace(region, down)' = OwnPlace(region, down)
  BY <1>1 DEF OwnPlace
<1>5. \A matches, parts : Left(matches, parts)' = Left(matches, parts)
  BY DEF Left
<1>6. \A text, down : ResolveNamed(text, down)' = ResolveNamed(text, down)
  <2> TAKE text, down
  <2> DEFINE found   == ExactFirst(Lookup(<<text[1]>>, down))
             regions == Keep(found, {m \in ToSet(found) : m.isRegion})
             nested  == DropNested(NotRegions(found))
             left    == Left(nested, Tail(text))
             N       == {m \in ToSet(left) : Near(UserPoint(down), m)}
             near    == Keep(left, N)
             own     == OwnPlace(regions[1], down)
             tied    == Len(left) > 1 \/ left[1].isGuess
             lost    == nested = <<>> \/ (Len(text) > 1 /\ Inside(nested, Tail(text)) = <<>>)
  <2>1. left' = left /\ own' = own
    BY <1>4, <1>5
  <2>2. N' = N
    BY <1>2, <2>1
  <2>3. near' = near
    BY <2>1, <2>2
  <2>4. ResolveNamed(text, down) =
          IF regions # <<>> /\ NotRegions(found) = <<>>
          THEN IF own # NoPlace THEN own ELSE Unresolved(text, regions[1].name)
          ELSE IF lost THEN Unresolved(text, None)
          ELSE IF tied /\ Len(near) = 1 THEN Resolved(near[1], "named")
          ELSE IF tied THEN Ambiguous(text, left)
          ELSE Resolved(left[1], "named")
    BY DEF ResolveNamed
  <2>5. ResolveNamed(text, down)' =
          IF regions # <<>> /\ NotRegions(found) = <<>>
          THEN IF own' # NoPlace THEN own' ELSE Unresolved(text, regions[1].name)
          ELSE IF lost THEN Unresolved(text, None)
          ELSE IF tied' /\ Len(near') = 1 THEN Resolved(near'[1], "named")
          ELSE IF tied' THEN Ambiguous(text, left')
          ELSE Resolved(left'[1], "named")
    BY DEF ResolveNamed
  <2>6. tied' = tied
    BY <2>1
  <2> HIDE DEF found, regions, nested, left, N, near, own, tied, lost
  <2> QED BY <2>1, <2>3, <2>4, <2>5, <2>6
<1> QED BY <1>3, <1>6

\* Splitting a text reads the lists of its parts, and places nothing.
LEMMA SplitAsksKeeps ==
  ASSUME PlacesInv, NEW down \in Downs, SplitAsk(down)
  PROVE  PlacesInv'
<1> DEFINE text == Head(heard)
           new  == SplitJoined(text, down)
<1>1. /\ heard # <<>> /\ asks' = asks \o new /\ heard' = Tail(heard)
      /\ places' = places /\ lent' = lent
  BY DEF SplitAsk
<1>2. /\ IsList(heard) /\ IsList(asks) /\ places = <<>> /\ lent = 0
      /\ \A t \in ToSet(heard) : IsList(t)
      /\ \A t \in ToSet(asks) : IsList(t)
  <2>1. lent = 0
    BY <1>1 DEF PlacesInv, AskedInv, Named
  <2> QED BY <1>1, <2>1 DEF PlacesInv, AskedInv
<1>3. text \in ToSet(heard)
  BY <1>1, <1>2 DEF IsList, ToSet
<1>4. IsList(Tail(heard)) /\ ToSet(Tail(heard)) \subseteq ToSet(heard)
  <2>1. IsList(Tail(heard))
    BY <1>1, <1>2, LastPart
  <2>2. Tail(heard) \in Seq(ToSet(heard))
    BY <1>1, <1>2 DEF IsList
  <2> QED BY <2>1, <2>2 DEF ToSet
<1>5. IsList(new) /\ \A t \in ToSet(new) : IsList(t)
  <2>1. new = <<text>> \/ (Len(text) > 1 /\ new = <<Front(text), <<Last(text)>>>>)
    BY DEF SplitJoined
  <2>2. IsList(text)
    BY <1>2, <1>3
  <2> HIDE DEF text, new
  <2>3. CASE new = <<text>>
    BY <2>2, <2>3, ListOfOne
  <2>4. CASE Len(text) > 1 /\ new = <<Front(text), <<Last(text)>>>>
    <3>1. IsList(Front(text))
      <4>1. Front(text) \in Seq(ToSet(text))
        BY <2>2, <2>4 DEF Front, IsList
      <4> QED BY <4>1, ListOf
    <3>2. IsList(<<Last(text)>>)
      BY ListOfOne
    <3>3. ToSet(new) = {Front(text), <<Last(text)>>} /\ IsList(new)
      BY <2>4 DEF IsList, ToSet
    <3> QED BY <3>1, <3>2, <3>3
  <2> QED BY <2>1, <2>3, <2>4
<1> HIDE DEF new, text
<1>6. IsList(asks') /\ \A t \in ToSet(asks') : IsList(t)
  BY <1>1, <1>2, <1>5, JoinedList
<1>7. Len(places') <= Len(asks') /\ lent' \in 0 .. Len(asks')
  <2>1. Len(asks') \in Nat
    BY <1>6 DEF IsList
  <2> QED BY <1>1, <1>2, <2>1
<1>8. AskedInv'
  BY <1>1, <1>2, <1>4, <1>6, <1>7 DEF AskedInv, IsList
<1>9. PlacedInv'
  BY <1>1, <1>2 DEF PlacedInv
<1> QED BY <1>8, <1>9 DEF PlacesInv

\* Naming places the next text by what the sources say of it, and no other.
LEMMA NameAsksKeeps ==
  ASSUME PlacesInv, NEW down \in Downs, NameAsk(down)
  PROVE  PlacesInv'
<1> DEFINE n == Len(places) + 1
           place == IF asks[n] = <<>> THEN NoPlace ELSE ResolveNamed(asks[n], down)
<1>1. /\ heard = <<>> /\ Len(places) < Len(asks) /\ places' = Append(places, place)
      /\ heard' = heard /\ asks' = asks /\ lent' = lent /\ location' = location
  BY DEF NameAsk
<1>2. IsList(places) /\ IsList(asks) /\ lent = 0
  <2>1. lent = 0
    BY <1>1 DEF PlacesInv, AskedInv, Named
  <2> QED BY <2>1 DEF PlacesInv, AskedInv
<1> HIDE DEF place
<1>3. /\ IsList(places') /\ Len(places') = n /\ n \in Nat /\ places'[n] = place
      /\ DOMAIN places' = 1 .. n
      /\ \A i \in 1 .. Len(places) : places'[i] = places[i]
  <2> DEFINE T == ToSet(places) \cup {place}
             u == Append(places, place)
  <2>1. places \in Seq(T) /\ place \in T
    <3>1. ToSet(places) \subseteq T
      OBVIOUS
    <3> QED BY <1>2, <3>1 DEF IsList
  <2> HIDE DEF T
  <2>2. /\ u \in Seq(T) /\ Len(u) = n /\ n \in Nat /\ u[n] = place /\ DOMAIN u = 1 .. n
        /\ \A i \in 1 .. Len(places) : u[i] = places[i]
    BY <2>1
  <2>3. places' = u
    BY <1>1
  <2> HIDE DEF u, n
  <2> QED BY <2>2, <2>3, ListOf
<1>4. n <= Len(asks) /\ Len(asks) \in Nat
  BY <1>1, <1>2, <1>3 DEF IsList
<1>5. AskedInv'
  <2>1. /\ IsList(heard) /\ \A text \in ToSet(heard) : IsList(text)
        /\ IsList(asks) /\ \A text \in ToSet(asks) : IsList(text)
    BY DEF PlacesInv, AskedInv
  <2> QED BY <1>1, <1>2, <1>3, <1>4, <2>1 DEF AskedInv, IsList
<1>6. PlacedInv'
  <2>1. \A i \in DOMAIN places' : asks[i] # <<>> =>
          \E d \in Downs : places'[i] = ResolveNamed(asks[i], d)
    <3> SUFFICES ASSUME NEW i \in 1 .. n, asks[i] # <<>>
                 PROVE  \E d \in Downs : places'[i] = ResolveNamed(asks[i], d)
      BY <1>3
    <3>1. CASE i = n
      BY <1>3, <3>1 DEF place
    <3>2. CASE i # n
      <4>1. i \in 1 .. Len(places) /\ i \in DOMAIN places
        BY <1>2, <1>3, <3>2 DEF IsList
      <4>2. \E d \in Downs : places[i] = ResolveNamed(asks[i], d)
        BY <4>1 DEF PlacesInv, PlacedInv
      <4> QED BY <1>3, <4>1, <4>2
    <3> QED BY <3>1, <3>2
  <2>2. \A i \in DOMAIN places' : asks'[i] # <<>> =>
          \E d \in Downs' : places'[i] = ResolveNamed(asks[i], d)'
    BY <1>1, <2>1, LookedUpStays DEF Downs
  <2>3. 1 .. lent' = {}
    BY <1>1, <1>2
  <2> QED BY <1>1, <2>2, <2>3 DEF PlacedInv
<1> QED BY <1>5, <1>6 DEF PlacesInv

\* What the siblings named does not change while places are lent.
LEMMA SiblingStays ==
  ASSUME AskedInv, asks' = asks, \A i \in DOMAIN asks : asks[i] # <<>> => places'[i] = places[i]
  PROVE  Sibling' = Sibling
<1> DEFINE placed == {i \in DOMAIN asks : asks[i] # <<>> /\ places[i].kind = "resolved"}
           first  == CHOOSE i \in placed : \A j \in placed : i <= j
<1>1. placed' = placed
  OBVIOUS
<1>2. first' = first
  BY <1>1
<1>3. placed # {} => first \in placed
  <2>1. placed \subseteq Nat
    BY DEF AskedInv, IsList
  <2> HIDE DEF placed
  <2> QED BY <2>1, SmallestOf
<1>4. Sibling = IF placed = {} THEN NoPlace ELSE places[first]
  BY DEF Sibling
<1>5. Sibling' = IF placed' = {} THEN NoPlace ELSE places'[first']
  BY DEF Sibling, NoPlace
<1> QED BY <1>1, <1>2, <1>3, <1>4, <1>5

\* A place that is lent is resolved or none, and is where the order of trust
\* puts it.
LEMMA LentWell ==
  ASSUME AskedInv, NEW down
  PROVE  Lent(down).kind \in {"resolved", "none"} /\ Trusted(Lent(down), down)
<1> DEFINE placed == {i \in DOMAIN asks : asks[i] # <<>> /\ places[i].kind = "resolved"}
           first  == CHOOSE i \in placed : \A j \in placed : i <= j
           area   == AreaNamed(down)
<1>1. placed # {} => first \in placed /\ \A j \in placed : first <= j
  <2>1. placed \subseteq Nat
    BY DEF AskedInv, IsList
  <2> HIDE DEF placed
  <2> QED BY <2>1, SmallestOf
<1>2. Sibling = IF placed = {} THEN NoPlace ELSE places[first]
  BY DEF Sibling
<1>3. /\ placed = {} => Sibling = NoPlace
      /\ placed # {} => /\ Sibling.kind = "resolved"
                        /\ \E j \in placed : Sibling = places[j] /\ \A k \in placed : j <= k
  <2> HIDE DEF first
  <2> QED BY <1>1, <1>2
<1>4. NoPlace.kind = "none"
  BY DEF NoPlace
<1>5. Trusted(Lent(down), down) <=>
        IF location.point # None
        THEN Lent(down).kind = "resolved" /\ Lent(down).point = location.point
        ELSE IF Len(area) = 1
        THEN /\ Lent(down).kind = "resolved" /\ IsMatch(Lent(down), area[1])
             /\ Lent(down).point = area[1].point
        ELSE IF placed = {} THEN Lent(down) = NoPlace
        ELSE \E j \in placed : Lent(down) = places[j] /\ \A k \in placed : j <= k
  BY DEF Trusted
<1> HIDE DEF placed, first, area
<1>6. CASE location.point # None
  <2>1. FromLocation(down).kind = "resolved" /\ FromLocation(down).point = location.point
    BY <1>6 DEF FromLocation
  <2>2. Lent(down) = FromLocation(down)
    BY <1>4, <2>1 DEF Lent
  <2> QED BY <1>5, <1>6, <2>1, <2>2
<1>7. CASE location.point = None /\ Len(area) = 1
  <2>1. FromLocation(down) = Resolved(area[1], "asserted_area")
    BY <1>7 DEF FromLocation, area
  <2>2. /\ FromLocation(down).kind = "resolved" /\ IsMatch(FromLocation(down), area[1])
        /\ FromLocation(down).point = area[1].point
    BY <2>1 DEF Resolved, IsMatch
  <2>3. Lent(down) = FromLocation(down)
    BY <1>4, <2>2 DEF Lent
  <2> QED BY <1>5, <1>7, <2>2, <2>3
<1>8. CASE location.point = None /\ Len(area) # 1
  <2>1. FromLocation(down) = NoPlace
    BY <1>8 DEF FromLocation, area
  <2>2. Lent(down) = Sibling
    BY <2>1 DEF Lent
  <2> QED BY <1>3, <1>4, <1>5, <1>8, <2>2
<1> QED BY <1>6, <1>7, <1>8

\* A question is about the text that was said.
LEMMA AmbiguousIs ==
  ASSUME NEW text, NEW down, ResolveNamed(text, down).kind = "ambiguous"
  PROVE  ResolveNamed(text, down).text = text
<1> DEFINE place == ResolveNamed(text, down)
<1>1. \/ \E region : place = OwnPlace(region, down) /\ place # NoPlace
      \/ \E region : place = Unresolved(text, region)
      \/ \E m : place = Resolved(m, "named")
      \/ \E ms : place = Ambiguous(text, ms)
  BY DEF ResolveNamed
<1>2. \A region : OwnPlace(region, down) = NoPlace \/ OwnPlace(region, down).kind = "resolved"
  BY DEF OwnPlace, Resolved
<1> HIDE DEF place
<1> QED BY <1>1, <1>2 DEF place, Unresolved, Resolved, Ambiguous

\* Borrowing places an ask without a name, and leaves what a text came to.
LEMMA LendsKeeps ==
  ASSUME PlacesInv, NEW down \in Downs, LendPlace(down)
  PROVE  PlacesInv'
<1> DEFINE n == lent + 1
           place == Lent(down)
<1>1. /\ Named /\ lent < Len(asks) /\ lent' = n
      /\ places' = IF asks[n] # <<>> THEN places ELSE [places EXCEPT ![n] = place]
      /\ heard' = heard /\ asks' = asks /\ location' = location
      /\ unanswered' = (unanswered \/ down # {})
  BY DEF LendPlace, Lent, Asking
<1>2. /\ IsList(places) /\ IsList(asks) /\ Len(places) = Len(asks) /\ heard = <<>>
      /\ lent \in Nat /\ Len(asks) \in Nat /\ n \in 1 .. Len(asks)
      /\ DOMAIN places = 1 .. Len(asks) /\ DOMAIN asks = 1 .. Len(asks)
  BY <1>1 DEF PlacesInv, AskedInv, Named, IsList
<1> HIDE DEF place
<1>3. /\ IsList(places') /\ Len(places') = Len(asks) /\ DOMAIN places' = 1 .. Len(asks)
      /\ \A i \in 1 .. Len(asks) : i # n \/ asks[i] # <<>> => places'[i] = places[i]
      /\ asks[n] = <<>> => places'[n] = place
  <2> DEFINE u == [places EXCEPT ![n] = place]
             T == ToSet(places) \cup {place}
  <2>1. CASE asks[n] # <<>>
    BY <1>1, <1>2, <2>1
  <2>2. CASE asks[n] = <<>>
    <3>1. places' = u
      BY <1>1, <2>2
    <3>2. places \in Seq(T) /\ place \in T
      <4>1. ToSet(places) \subseteq T
        OBVIOUS
      <4> QED BY <1>2, <4>1 DEF IsList
    <3> HIDE DEF T, n
    <3>3. /\ u \in Seq(T) /\ Len(u) = Len(asks) /\ DOMAIN u = 1 .. Len(asks) /\ u[n] = place
          /\ \A i \in 1 .. Len(asks) : i # n => u[i] = places[i]
      BY <1>2, <3>2
    <3> HIDE DEF u
    <3>4. \A i \in 1 .. Len(asks) : i # n \/ asks[i] # <<>> => places'[i] = places[i]
      BY <2>2, <3>1, <3>3
    <3> QED BY <3>1, <3>3, <3>4, ListOf
  <2> QED BY <2>1, <2>2
<1>4. AskedInv'
  <2>1. /\ \A text \in ToSet(asks) : IsList(text)
        /\ \A text \in ToSet(heard) : IsList(text) /\ IsList(heard)
    BY DEF PlacesInv, AskedInv
  <2>2. Named' /\ n \in 0 .. Len(asks)
    BY <1>1, <1>2, <1>3 DEF Named
  <2>3. (/\ IsList(heard) /\ \A text \in ToSet(heard) : IsList(text)
         /\ IsList(asks) /\ \A text \in ToSet(asks) : IsList(text))'
    <3>1. heard = <<>> /\ IsList(<<>>)
      BY <1>2 DEF IsList, ToSet
    <3> QED BY <1>1, <1>2, <2>1, <3>1 DEF IsList
  <2>4. IsList(places)' /\ Len(places') <= Len(asks')
    BY <1>1, <1>2, <1>3 DEF IsList
  <2> HIDE DEF n
  <2> QED BY <1>1, <1>2, <2>2, <2>3, <2>4 DEF AskedInv
<1>5. Sibling' = Sibling
  BY <1>1, <1>2, <1>3, SiblingStays DEF PlacesInv
<1>6. \A d : Lent(d)' = Lent(d)
  BY <1>1, <1>5, LookedUpStays DEF Lent
<1>7. \A i \in DOMAIN places : asks[i] # <<>> =>
        \E d \in Downs : places'[i] = ResolveNamed(asks[i], d)'
  BY <1>1, <1>2, <1>3, LookedUpStays DEF PlacesInv, PlacedInv
<1>8. \A i \in 1 .. n : asks[i] = <<>> =>
        \E d \in Downs : (~unanswered' => d = {}) /\ places'[i] = Lent(d)'
  <2> SUFFICES ASSUME NEW i \in 1 .. n, asks[i] = <<>>
               PROVE  \E d \in Downs : (~unanswered' => d = {}) /\ places'[i] = Lent(d)
    BY <1>6
  <2>1. CASE i = n
    BY <1>1, <1>3, <2>1 DEF place
  <2>2. CASE i # n
    <3>1. i \in 1 .. lent /\ i \in 1 .. Len(asks)
      BY <1>2, <2>2
    <3>2. PICK d \in Downs : (~unanswered => d = {}) /\ places[i] = Lent(d)
      BY <3>1 DEF PlacesInv, PlacedInv
    <3> HIDE DEF n
    <3> QED BY <1>1, <1>3, <2>2, <3>1, <3>2
  <2> QED BY <2>1, <2>2
<1> HIDE DEF n
<1>9. PlacedInv'
  BY <1>1, <1>2, <1>3, <1>7, <1>8 DEF PlacedInv, Downs
<1> QED BY <1>4, <1>9 DEF PlacesInv

\* A picked line is a text, and the turn it begins has nothing asked.
LEMMA PickKeeps ==
  ASSUME PlacesInv, Pick
  PROVE  PlacesInv'
<1>1. PICK i \in DOMAIN places :
        /\ places[i].kind = "ambiguous" /\ Placed
        /\ \E line \in Lines(places[i]) : Begin(<<line.text>>)
  BY DEF Pick
<1>2. PICK line \in Lines(places[i]) : Begin(<<line.text>>)
  BY <1>1
<1>3. i \in 1 .. lent /\ i \in DOMAIN asks /\ IsList(asks[i]) /\ ToSet(<<>>) = {}
  <2>1. lent = Len(asks) /\ Len(places) = Len(asks)
    BY <1>1 DEF Placed, Named
  <2>2. /\ IsList(places) /\ IsList(asks)
        /\ \A text \in ToSet(asks) : IsList(text)
    BY DEF PlacesInv, AskedInv
  <2>3. DOMAIN places = 1 .. Len(places) /\ DOMAIN asks = 1 .. Len(asks)
    BY <2>2 DEF IsList
  <2>4. i \in 1 .. lent /\ i \in DOMAIN asks
    BY <2>1, <2>3
  <2>5. asks[i] \in ToSet(asks) /\ ToSet(<<>>) = {}
    BY <2>4 DEF ToSet
  <2> QED BY <2>2, <2>4, <2>5
<1>4. asks[i] # <<>>
  <2> SUFFICES ASSUME asks[i] = <<>> PROVE FALSE
    OBVIOUS
  <2>1. PICK d \in Downs : places[i] = Lent(d)
    BY <1>3 DEF PlacesInv, PlacedInv
  <2>2. AskedInv
    BY DEF PlacesInv
  <2> QED BY <1>1, <1>3, <2>1, <2>2, LentWell
<1>5. PICK d \in Downs : places[i] = ResolveNamed(asks[i], d)
  BY <1>4 DEF PlacesInv, PlacedInv
<1>6. IsList(places[i].text)
  BY <1>1, <1>3, <1>5, AmbiguousIs
<1>7. IsList(line.text)
  BY <1>6, LinesAre
<1> DEFINE text == line.text
<1>8. IsList(<<text>>) /\ ToSet(<<text>>) = {text}
  BY ListOfOne
<1> HIDE DEF text
<1>9. \A t \in ToSet(<<text>>) : IsList(t)
  BY <1>7, <1>8 DEF text
<1>10. heard' = <<text>> /\ asks' = <<>> /\ places' = <<>> /\ lent' = 0
  BY <1>2 DEF Begin, text
<1> QED BY <1>8, <1>9, <1>10, TurnBegins

\* A conversation begins with a turn that has nothing asked.
LEMMA PlacesStart == Init => PlacesInv
<1> SUFFICES ASSUME Init PROVE PlacesInv
  OBVIOUS
<1>1. heard \in Seq(Text) /\ asks = <<>> /\ places = <<>> /\ lent = 0
  BY PlacesAssumption DEF PlacesAssumption, Init
<1>2. \A text \in ToSet(heard) : text \in Seq(Names)
  BY <1>1 DEF ToSet, Text
<1>3. IsList(heard) /\ \A text \in ToSet(heard) : IsList(text)
  BY <1>1, <1>2, ListOf
<1>4. IsList(<<>>) /\ ToSet(<<>>) = {} /\ Len(<<>>) = 0 /\ DOMAIN <<>> = {}
  BY DEF IsList, ToSet
<1>5. AskedInv
  BY <1>1, <1>3, <1>4 DEF AskedInv
<1>6. PlacedInv
  BY <1>1, <1>4 DEF PlacedInv
<1> QED BY <1>5, <1>6 DEF PlacesInv

\* Nothing happening keeps it.
LEMMA PlacesStutter ==
  ASSUME PlacesInv, UNCHANGED vars
  PROVE  PlacesInv'
<1>1. /\ heard' = heard /\ asks' = asks /\ places' = places /\ lent' = lent
      /\ location' = location /\ unanswered' = unanswered
  BY DEF vars
<1>2. AskedInv'
  BY <1>1 DEF PlacesInv, AskedInv, Named
<1>3. Sibling' = Sibling
  BY <1>1 DEF Sibling
<1>4. \A down : Lent(down)' = Lent(down)
  BY <1>1, <1>3, LookedUpStays DEF Lent
<1>5. \A text, down : ResolveNamed(text, down)' = ResolveNamed(text, down)
  BY <1>1, LookedUpStays
<1>6. PlacedInv'
  BY <1>1, <1>4, <1>5 DEF PlacesInv, PlacedInv, Downs
<1> QED BY <1>2, <1>6 DEF PlacesInv

\* Every place of a turn is what its text, or where the farmer is, comes to: the
\* asks are split before they are named, named before any borrows, and what was
\* named is not named again (resolve_places, the turn a pick begins).
THEOREM PlacesInvariance == Spec => []PlacesInv
<1>1. Init => PlacesInv
  BY PlacesStart
<1>2. PlacesInv /\ [Next]_vars => PlacesInv'
  <2> SUFFICES ASSUME PlacesInv, [Next]_vars PROVE PlacesInv'
    OBVIOUS
  <2>1. CASE \E down \in Downs : SplitAsk(down)
    BY <2>1, SplitAsksKeeps
  <2>2. CASE \E down \in Downs : NameAsk(down)
    BY <2>2, NameAsksKeeps
  <2>3. CASE \E down \in Downs : LendPlace(down)
    BY <2>3, LendsKeeps
  <2>4. CASE Pick
    BY <2>4, PickKeeps
  <2>5. CASE UNCHANGED vars
    BY <2>5, PlacesStutter
  <2> QED BY <2>1, <2>2, <2>3, <2>4, <2>5 DEF Next
<1> QED BY <1>1, <1>2, PTL DEF Spec

\* A place that was named is one the sources know by that name, whatever source
\* answered and however often the geocoder failed (_resolve_named).
THEOREM PlacesNeverAnother == Spec => []NeverAnotherPlace
<1>1. PlacesInv => NeverAnotherPlace
  <2> SUFFICES ASSUME PlacesInv, NEW i \in DOMAIN places,
                      asks[i] # <<>>, places[i].kind = "resolved"
               PROVE  NeverAnother(places[i], asks[i])
    BY DEF NeverAnotherPlace, NeverAnother, KnownAs
  <2>1. PICK down \in Downs : places[i] = ResolveNamed(asks[i], down)
    BY DEF PlacesInv, PlacedInv
  <2>2. /\ IsList(places) /\ IsList(asks) /\ Len(places) <= Len(asks)
        /\ \A text \in ToSet(asks) : IsList(text)
    BY DEF PlacesInv, AskedInv
  <2>3. i \in DOMAIN asks
    BY <2>2 DEF IsList
  <2>4. asks[i] \in ToSet(asks)
    BY <2>3 DEF ToSet
  <2> QED BY <2>1, <2>2, <2>4, NamedWell
<1> QED BY <1>1, PlacesInvariance, PTL

\* An ask that names no place is where the order of trust puts it: the device's
\* point, else the one place the farmer's area names, else the first a sibling
\* named, else nowhere; and while the geocoder answers, all of them are in one
\* place (resolve_places, second pass).
THEOREM PlacesHereIsTheFarmer == Spec => []HereIsTheFarmer
<1>1. PlacesInv => HereIsTheFarmer
  <2> SUFFICES ASSUME PlacesInv, Placed, NEW i \in DOMAIN asks, asks[i] = <<>>
               PROVE  /\ \E down \in Downs :
                           (~unanswered => down = {}) /\ Trusted(places[i], down)
                      /\ \A j \in DOMAIN asks :
                           asks[j] = <<>> /\ ~unanswered => places[j] = places[i]
    BY DEF HereIsTheFarmer
  <2>1. AskedInv /\ DOMAIN asks = 1 .. lent
    BY DEF PlacesInv, AskedInv, Placed, IsList
  <2>2. \A j \in DOMAIN asks : asks[j] = <<>> =>
          \E down \in Downs : (~unanswered => down = {}) /\ places[j] = Lent(down)
    BY <2>1 DEF PlacesInv, PlacedInv
  <2>3. PICK down \in Downs : (~unanswered => down = {}) /\ places[i] = Lent(down)
    BY <2>2
  <2>4. Trusted(places[i], down)
    BY <2>1, <2>3, LentWell
  <2>5. \A j \in DOMAIN asks : asks[j] = <<>> /\ ~unanswered => places[j] = places[i]
    BY <2>2, <2>3
  <2> QED BY <2>3, <2>4, <2>5
<1> QED BY <1>1, PlacesInvariance, PTL
=============================================================================
