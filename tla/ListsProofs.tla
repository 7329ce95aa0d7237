----------------------------- MODULE ListsProofs -----------------------------
(***************************************************************************)
(* What the operators on lists return, for lists of any length: Keep,      *)
(* Total and the community modules' FlattenSeq, all recursive functions.   *)
(*                                                                         *)
(* Induction goes by sets: a set of numbers that holds 0 and is closed     *)
(* under +1 holds them all (NatSets, from the well-foundedness of <). A    *)
(* function defined by recursion exists because its values can be built up *)
(* step by step (Recursion), and what it returns is stated as where each   *)
(* member of the new list stood in the old (PlacedAt, TakenFrom), which is *)
(* easy to extend by one member and says the members and their order.      *)
(***************************************************************************)
EXTENDS Lists, Integers, FiniteSets, SequencesExt, TLAPS,
        WellFoundedInduction, SequenceTheorems, FiniteSetTheorems

-----------------------------------------------------------------------------
\* Induction, and recursion.

\* Induction over the natural numbers, as a fact about sets.
LEMMA NatSets ==
  ASSUME NEW S, 0 \in S, \A n \in Nat : n \in S => n + 1 \in S
  PROVE  Nat \subseteq S
<1> SUFFICES ASSUME ~ (Nat \subseteq S) PROVE FALSE
  OBVIOUS
<1> DEFINE R == OpToRel(<, Nat)
           T == Nat \ S
<1>1. IsWellFoundedOn(R, Nat)
  BY NatLessThanWellFounded
<1>2. T \subseteq Nat /\ T # {}
  OBVIOUS
<1>3. PICK x \in T : \A y \in T : ~ (<<y, x>> \in R)
  <2> HIDE DEF R, T
  <2> QED BY <1>1, <1>2, WFMin
<1>4. x \in Nat /\ x # 0
  BY <1>3
<1>5. x - 1 \in Nat /\ x - 1 < x /\ (x - 1) + 1 = x
  BY <1>4
<1>6. <<x - 1, x>> \in R
  BY <1>4, <1>5 DEF OpToRel
<1>7. x - 1 \in S
  BY <1>3, <1>5, <1>6
<1> QED BY <1>3, <1>5, <1>7

\* A set of numbers that is not empty has a least one, and a bounded one a
\* greatest one.
LEMMA SmallestOf ==
  ASSUME NEW T, T \subseteq Nat, T # {}
  PROVE  \E x \in T : \A y \in T : x <= y
<1> DEFINE R == OpToRel(<, Nat)
<1>1. IsWellFoundedOn(R, Nat)
  BY NatLessThanWellFounded
<1>2. PICK x \in T : \A y \in T : ~ (<<y, x>> \in R)
  <2> HIDE DEF R
  <2> QED BY <1>1, WFMin
<1>3. ASSUME NEW y \in T PROVE x <= y
  <2>1. x \in Nat /\ y \in Nat
    OBVIOUS
  <2>2. ~ (y < x)
    BY <1>2, <2>1 DEF OpToRel
  <2> QED BY <2>1, <2>2
<1> QED BY <1>3

\* A set of numbers up to N that is not empty has a largest.
LEMMA LargestOf ==
  ASSUME NEW N \in Nat, NEW T, T \subseteq 0 .. N, T # {}
  PROVE  \E x \in T : \A y \in T : y <= x
<1> DEFINE U == {N - x : x \in T}
<1>1. \A x \in T : x \in Nat /\ N - x \in Nat
  OBVIOUS
<1>2. U \subseteq Nat /\ U # {}
  BY <1>1
<1>3. PICK u \in U : \A v \in U : u <= v
  <2> HIDE DEF U
  <2> QED BY <1>2, SmallestOf
<1>4. PICK x \in T : u = N - x
  BY <1>3
<1>5. ASSUME NEW y \in T PROVE y <= x
  <2>1. N - x <= N - y
    BY <1>3, <1>4
  <2> QED BY <2>1, <1>1
<1> QED BY <1>5

\* The values of g are those the steps lead to from v0.
Follows(g, N, v0, step) ==
  /\ g[0] = v0
  /\ \A k \in 1 .. N : g[k] = step[k][g[k - 1]]

\* Values can be built up by any list of steps that stay within V.
LEMMA Recursion ==
  ASSUME NEW N \in Nat, NEW V, NEW v0 \in V, NEW step \in [1 .. N -> [V -> V]]
  PROVE  \E g \in [0 .. N -> V] : Follows(g, N, v0, step)
<1> DEFINE Upto(g, n) == /\ g \in [0 .. n -> V]
                         /\ g[0] = v0
                         /\ \A k \in 1 .. n : g[k] = step[k][g[k - 1]]
           S == {n \in Nat : n <= N => \E g : Upto(g, n)}
<1>1. 0 \in S
  <2> Upto([k \in 0 .. 0 |-> v0], 0)
    OBVIOUS
  <2> QED OBVIOUS
<1>2. ASSUME NEW n \in Nat, n \in S PROVE n + 1 \in S
  <2> SUFFICES ASSUME n + 1 <= N PROVE \E g : Upto(g, n + 1)
    OBVIOUS
  <2>1. PICK g : Upto(g, n)
    BY <1>2
  <2> DEFINE v == step[n + 1][g[n]]
             h == [k \in 0 .. n + 1 |-> IF k = n + 1 THEN v ELSE g[k]]
  <2>2. v \in V
    BY <2>1
  <2>3. h \in [0 .. n + 1 -> V]
    BY <2>1, <2>2
  <2>4. h[0] = v0
    BY <2>1
  <2>5. ASSUME NEW k \in 1 .. n + 1 PROVE h[k] = step[k][h[k - 1]]
    <3>1. CASE k = n + 1
      <4>1. h[n + 1] = v /\ h[n] = g[n] /\ k - 1 = n
        BY <3>1
      <4> QED BY <3>1, <4>1
    <3>2. CASE k # n + 1
      BY <3>2, <2>1
    <3> QED BY <3>1, <3>2
  <2> HIDE DEF h
  <2> QED BY <2>3, <2>4, <2>5
<1>3. N \in S
  <2> HIDE DEF S
  <2> QED BY <1>1, <1>2, NatSets
<1> QED BY <1>3 DEF Follows

-----------------------------------------------------------------------------
\* Keep.

\* kept[n] is what is kept of the first n members.
KeptUpto(s, K, kept) ==
  /\ kept[0] = <<>>
  /\ \A n \in 1 .. Len(s) :
       kept[n] = IF s[n] \in K THEN Append(kept[n - 1], s[n]) ELSE kept[n - 1]

\* Keep's recursive function is one.
LEMMA KeepExists ==
  ASSUME NEW T, NEW s \in Seq(T), NEW K
  PROVE  \E kept \in [0 .. Len(s) -> Seq(T)] :
            KeptUpto(s, K, kept) /\ Keep(s, K) = kept[Len(s)]
<1> DEFINE N == Len(s)
           Longer(n, prefix) == IF s[n] \in K THEN Append(prefix, s[n]) ELSE prefix
           step == [n \in 1 .. N |-> [prefix \in Seq(T) |-> Longer(n, prefix)]]
           kept[n \in 0 .. N] ==
             IF n = 0 THEN <<>>
             ELSE IF s[n] \in K THEN Append(kept[n - 1], s[n]) ELSE kept[n - 1]
<1>1. N \in Nat /\ \A n \in 1 .. N : s[n] \in T
  OBVIOUS
<1>2. step \in [1 .. N -> [Seq(T) -> Seq(T)]]
  BY <1>1
<1>3. PICK g \in [0 .. N -> Seq(T)] :
        Follows(g, N, <<>>, step)
  <2> DEFINE V  == Seq(T)
             v0 == <<>>
  <2>1. N \in Nat /\ v0 \in V /\ step \in [1 .. N -> [V -> V]]
    BY <1>2
  <2> HIDE DEF step, N, V, v0, kept, Longer
  <2>2. \E g \in [0 .. N -> V] : Follows(g, N, v0, step)
    BY <2>1, Recursion
  <2> QED BY <2>2 DEF V, v0
<1>4. \A k \in 1 .. N : g[k] = Longer(k, g[k - 1])
  <2> SUFFICES ASSUME NEW k \in 1 .. N PROVE g[k] = Longer(k, g[k - 1])
    OBVIOUS
  <2>1. k - 1 \in 0 .. N
    BY <1>1
  <2>2. g[k - 1] \in Seq(T)
    BY <2>1, <1>3
  <2> QED BY <1>3, <2>2 DEF Follows
<1>5. g = [n \in 0 .. N |->
             IF n = 0 THEN <<>>
             ELSE IF s[n] \in K THEN Append(g[n - 1], s[n]) ELSE g[n - 1]]
  <2>1. ASSUME NEW n \in 0 .. N
        PROVE  g[n] = IF n = 0 THEN <<>>
                      ELSE IF s[n] \in K THEN Append(g[n - 1], s[n]) ELSE g[n - 1]
    <3>1. CASE n = 0
      BY <3>1, <1>3 DEF Follows
    <3>2. CASE n # 0
      <4>1. n \in 1 .. N
        BY <3>2, <1>1
      <4> QED BY <3>2, <4>1, <1>4
    <3> QED BY <3>1, <3>2
  <2>2. g = [n \in 0 .. N |-> g[n]]
    BY <1>3
  <2> QED BY <2>1, <2>2, Zenon
<1>6. kept = [n \in 0 .. N |->
                IF n = 0 THEN <<>>
                ELSE IF s[n] \in K THEN Append(kept[n - 1], s[n]) ELSE kept[n - 1]]
  BY <1>5, Zenon
<1>7. Keep(s, K) = kept[N]
  BY DEF Keep
<1> HIDE DEF kept
<1>8. kept[0] = <<>> /\ \A n \in 1 .. N : kept[n] = Longer(n, kept[n - 1])
  <2>1. ASSUME NEW n \in 0 .. N
        PROVE  kept[n] = IF n = 0 THEN <<>> ELSE Longer(n, kept[n - 1])
    BY <1>6
  <2>2. 0 \in 0 .. N /\ \A n \in 1 .. N : n \in 0 .. N /\ n # 0
    BY <1>1
  <2> QED BY <2>1, <2>2
<1>9. KeptUpto(s, K, kept)
  BY <1>8 DEF KeptUpto
<1>10. \A n \in 0 .. N : kept[n] = g[n]
  <2> DEFINE S == {n \in Nat : n <= N => kept[n] = g[n]}
  <2>1. 0 \in S
    BY <1>3, <1>8 DEF Follows
  <2>2. ASSUME NEW n \in Nat, n \in S PROVE n + 1 \in S
    <3> SUFFICES ASSUME n + 1 <= N PROVE kept[n + 1] = g[n + 1]
      OBVIOUS
    <3>1. kept[n] = g[n] /\ n + 1 \in 1 .. N /\ (n + 1) - 1 = n
      BY <1>1, <2>2
    <3> QED BY <1>4, <1>8, <3>1
  <2>3. Nat \subseteq S
    <3> HIDE DEF S
    <3> QED BY <2>1, <2>2, NatSets
  <2> QED BY <2>3, <1>1
<1>11. kept \in [0 .. N -> Seq(T)]
  <2>1. kept = [n \in 0 .. N |-> kept[n]]
    BY <1>6
  <2> QED BY <2>1, <1>3, <1>10
<1> QED BY <1>7, <1>9, <1>11

\* The i-th member of t is the at[i]-th of s, and t has all the members of K
\* among the first n of s, in their order.
PlacedAt(t, s, K, n, at) ==
  /\ at \in [1 .. Len(t) -> 1 .. n]
  /\ \A i \in 1 .. Len(t) : t[i] = s[at[i]] /\ t[i] \in K
  /\ \A i, j \in 1 .. Len(t) : i < j => at[i] < at[j]
  /\ \A m \in 1 .. n : s[m] \in K => \E i \in 1 .. Len(t) : at[i] = m

\* Where the members of a Keep stood.
LEMMA KeepPlaces ==
  ASSUME NEW T, NEW s \in Seq(T), NEW K
  PROVE  /\ Keep(s, K) \in Seq(T)
         /\ \E at : PlacedAt(Keep(s, K), s, K, Len(s), at)
<1>1. PICK kept \in [0 .. Len(s) -> Seq(T)] :
        KeptUpto(s, K, kept) /\ Keep(s, K) = kept[Len(s)]
  BY KeepExists
<1>2. Len(s) \in Nat /\ \A n \in 1 .. Len(s) : s[n] \in T
  OBVIOUS
<1> DEFINE S == {n \in Nat : n <= Len(s) => \E at : PlacedAt(kept[n], s, K, n, at)}
<1>3. 0 \in S
  <2>1. kept[0] = <<>>
    BY <1>1 DEF KeptUpto
  <2>2. PlacedAt(<<>>, s, K, 0, [i \in {} |-> 0])
    BY DEF PlacedAt
  <2> QED BY <2>1, <2>2
<1>4. ASSUME NEW n \in Nat, n \in S PROVE n + 1 \in S
  <2> SUFFICES ASSUME n + 1 <= Len(s)
               PROVE  \E at : PlacedAt(kept[n + 1], s, K, n + 1, at)
    OBVIOUS
  <2>1. PICK at : PlacedAt(kept[n], s, K, n, at)
    BY <1>2, <1>4
  <2> DEFINE t == kept[n]
  <2>2. t \in Seq(T) /\ s[n + 1] \in T
    BY SMTT(30), <1>1, <1>2
  <2>3. kept[n + 1] = IF s[n + 1] \in K THEN Append(t, s[n + 1]) ELSE t
    <3>1. n + 1 \in 1 .. Len(s) /\ (n + 1) - 1 = n
      BY <1>2
    <3> QED BY <1>1, <3>1 DEF KeptUpto
  <2> HIDE DEF t
  <2>4. CASE s[n + 1] \notin K
    <3>1. PlacedAt(t, s, K, n + 1, at)
      BY <2>1, <2>4, <2>2 DEF PlacedAt, t
    <3> QED BY <3>1, <2>3, <2>4
  <2>5. CASE s[n + 1] \in K
    <3> DEFINE u  == Append(t, s[n + 1])
               to == [i \in 1 .. Len(t) + 1 |-> IF i = Len(t) + 1 THEN n + 1 ELSE at[i]]
    <3>1. /\ Len(t) \in Nat /\ Len(u) = Len(t) + 1
          /\ \A i \in 1 .. Len(t) : u[i] = t[i]
          /\ u[Len(t) + 1] = s[n + 1]
      BY <2>2
    <3>2. PlacedAt(t, s, K, n, at)
      BY <2>1 DEF t
    <3> HIDE DEF u
    <3>3. /\ to \in [1 .. Len(u) -> 1 .. n + 1]
          /\ to[Len(t) + 1] = n + 1 /\ \A i \in 1 .. Len(t) : to[i] = at[i]
      BY <3>1, <3>2 DEF PlacedAt
    <3> HIDE DEF to
    <3>4. \A i \in 1 .. Len(u) : i \in 1 .. Len(t) \/ i = Len(t) + 1
      BY <3>1
    <3>5. \A i \in 1 .. Len(u) : u[i] = s[to[i]] /\ u[i] \in K
      BY <3>1, <3>2, <3>3, <3>4, <2>5 DEF PlacedAt
    <3>6. \A i, j \in 1 .. Len(u) : i < j => to[i] < to[j]
      BY SMTT(30), <3>1, <3>2, <3>3, <3>4 DEF PlacedAt
    <3>7. ASSUME NEW m \in 1 .. n + 1, s[m] \in K
          PROVE  \E i \in 1 .. Len(u) : to[i] = m
      <4>1. CASE m = n + 1
        BY <4>1, <3>1, <3>3
      <4>2. CASE m \in 1 .. n
        <5>1. PICK i \in 1 .. Len(t) : at[i] = m
          BY <4>2, <3>2, <3>7 DEF PlacedAt
        <5>2. i \in 1 .. Len(u) /\ to[i] = m
          BY <5>1, <3>1, <3>3
        <5> QED BY <5>2
      <4> QED BY <4>1, <4>2
    <3>8. PlacedAt(u, s, K, n + 1, to)
      BY <3>3, <3>5, <3>6, <3>7 DEF PlacedAt
    <3> QED BY <3>8, <2>3, <2>5 DEF u
  <2> QED BY <2>4, <2>5
<1>5. Len(s) \in S
  <2> HIDE DEF S
  <2> QED BY <1>2, <1>3, <1>4, NatSets
<1> QED BY <1>1, <1>2, <1>5

\* Which members a Keep has.
LEMMA KeepMembers ==
  ASSUME NEW T, NEW s \in Seq(T), NEW K
  PROVE  ToSet(Keep(s, K)) = ToSet(s) \cap K
<1>1. PICK at : PlacedAt(Keep(s, K), s, K, Len(s), at)
  BY KeepPlaces
<1>2. Keep(s, K) \in Seq(T)
  BY KeepPlaces
<1>3. ASSUME NEW i \in DOMAIN Keep(s, K) PROVE Keep(s, K)[i] \in ToSet(s) \cap K
  BY <1>1, <1>2 DEF PlacedAt, ToSet
<1>4. ASSUME NEW m \in DOMAIN s, s[m] \in K
      PROVE  \E i \in DOMAIN Keep(s, K) : Keep(s, K)[i] = s[m]
  BY SMTT(30), <1>1, <1>2, <1>4 DEF PlacedAt
<1> QED BY <1>3, <1>4 DEF ToSet

\* The same, member by member.
LEMMA KeepWhere ==
  ASSUME NEW T, NEW s \in Seq(T), NEW K
  PROVE  /\ Keep(s, K) \in Seq(T)
         /\ \A x : x \in ToSet(Keep(s, K)) <=> x \in ToSet(s) /\ x \in K
BY KeepPlaces, KeepMembers

\* A list is empty when it has no members.
LEMMA NoMembers ==
  ASSUME NEW T, NEW s \in Seq(T)
  PROVE  s = <<>> <=> ToSet(s) = {}
BY EmptySeq DEF ToSet

\* There is nothing to keep of nothing.
LEMMA KeepOfNothing == ASSUME NEW K PROVE Keep(<<>>, K) = <<>>
<1>1. <<>> \in Seq({})
  OBVIOUS
<1>2. Keep(<<>>, K) \in Seq({})
  BY <1>1, KeepPlaces
<1> QED BY <1>2

\* Appending adds one member.
LEMMA AppendMembers ==
  ASSUME NEW T, NEW s \in Seq(T), NEW x \in T
  PROVE  /\ Append(s, x) \in Seq(T)
         /\ ToSet(Append(s, x)) = ToSet(s) \cup {x}
<1> DEFINE t == Append(s, x)
<1>1. /\ t \in Seq(T) /\ Len(t) = Len(s) + 1 /\ Len(s) \in Nat
      /\ DOMAIN t = 1 .. Len(s) + 1 /\ DOMAIN s = 1 .. Len(s)
      /\ \A i \in 1 .. Len(s) : t[i] = s[i]
      /\ t[Len(s) + 1] = x
  OBVIOUS
<1> HIDE DEF t
<1>2. \A i : i \in 1 .. Len(s) + 1 <=> i \in 1 .. Len(s) \/ i = Len(s) + 1
  BY <1>1
<1>3. ToSet(t) = ToSet(s) \cup {x}
  BY <1>1, <1>2 DEF ToSet
<1> QED BY <1>1, <1>3 DEF t

\* What is kept at each step of two filters is one thing, when it is at the
\* start and the steps keep it so.
KeptFrom(g, s, K, N) ==
  /\ g[0] = <<>>
  /\ \A n \in 1 .. N : g[n] = IF s[n] \in K THEN Append(g[n - 1], s[n]) ELSE g[n - 1]

\* One member more of the list Keep builds.
LEMMA KeepStep ==
  ASSUME NEW T, NEW s, NEW K, NEW N, NEW g, NEW kept,
         s \in Seq(T), N \in Nat, N <= Len(s),
         KeptFrom(g, s, K, N), KeptUpto(s, K, kept)
  PROVE  kept[N] = g[N]
<1>1. Len(s) \in Nat /\ N \in Nat
  OBVIOUS
<1> DEFINE S == {n \in Nat : n <= N => kept[n] = g[n]}
<1>2. 0 \in S
  BY DEF KeptUpto, KeptFrom
<1>3. ASSUME NEW n \in Nat, n \in S PROVE n + 1 \in S
  <2> SUFFICES ASSUME n + 1 <= N PROVE kept[n + 1] = g[n + 1]
    OBVIOUS
  <2>1. /\ n + 1 \in 1 .. N /\ n + 1 \in 1 .. Len(s) /\ (n + 1) - 1 = n
        /\ kept[n] = g[n]
    BY <1>1, <1>3
  <2>2. kept[n + 1] = IF s[n + 1] \in K THEN Append(kept[n], s[n + 1]) ELSE kept[n]
    BY <2>1 DEF KeptUpto
  <2>3. g[n + 1] = IF s[n + 1] \in K THEN Append(g[n], s[n + 1]) ELSE g[n]
    BY <2>1 DEF KeptFrom
  <2> QED BY <2>1, <2>2, <2>3
<1>4. N \in S
  <2> HIDE DEF S
  <2> QED BY <1>1, <1>2, <1>3, NatSets
<1> QED BY <1>4

\* A list that grows at its end grows what is kept of it.
LEMMA KeepOfAppend ==
  ASSUME NEW T, NEW s \in Seq(T), NEW x \in T, NEW K
  PROVE  Keep(Append(s, x), K) = IF x \in K THEN Append(Keep(s, K), x) ELSE Keep(s, K)
<1> DEFINE u == Append(s, x)
           N == Len(s)
<1>1. /\ u \in Seq(T) /\ Len(u) = N + 1 /\ N \in Nat /\ u[N + 1] = x
      /\ \A i \in 1 .. N : u[i] = s[i]
  OBVIOUS
<1> HIDE DEF u
<1>2. PICK g \in [0 .. N -> Seq(T)] : KeptUpto(s, K, g) /\ Keep(s, K) = g[N]
  BY KeepExists
<1>3. PICK kept \in [0 .. Len(u) -> Seq(T)] : KeptUpto(u, K, kept) /\ Keep(u, K) = kept[Len(u)]
  BY <1>1, KeepExists
<1> HIDE DEF N
<1>4. kept[N] = g[N]
  <2>1. N \in Nat /\ N <= Len(u)
    BY <1>1
  <2>2. KeptFrom(g, u, K, N)
    BY <1>1, <1>2 DEF KeptUpto, KeptFrom, N
  <2>3. u \in Seq(T) /\ KeptUpto(u, K, kept)
    BY <1>1, <1>3
  <2>4. \A a, b : KeptFrom(b, u, K, N) /\ KeptUpto(u, K, a) => a[N] = b[N]
    BY <2>1, <2>3, KeepStep
  <2> QED BY <2>2, <2>3, <2>4
<1>5. kept[N + 1] = IF x \in K THEN Append(kept[N], x) ELSE kept[N]
  <2>1. N + 1 \in 1 .. Len(u) /\ (N + 1) - 1 = N
    BY <1>1
  <2> QED BY <1>1, <1>3, <2>1 DEF KeptUpto
<1> QED BY <1>1, <1>2, <1>3, <1>4, <1>5 DEF u

\* Only whether the list's own members are in the set counts.
LEMMA KeepSame ==
  ASSUME NEW T, NEW s \in Seq(T), NEW K, NEW L, \A x \in ToSet(s) : x \in K <=> x \in L
  PROVE  Keep(s, K) = Keep(s, L)
<1>1. PICK g \in [0 .. Len(s) -> Seq(T)] : KeptUpto(s, L, g) /\ Keep(s, L) = g[Len(s)]
  BY KeepExists
<1>2. PICK kept \in [0 .. Len(s) -> Seq(T)] : KeptUpto(s, K, kept) /\ Keep(s, K) = kept[Len(s)]
  BY KeepExists
<1>3. \A n \in 1 .. Len(s) : s[n] \in K <=> s[n] \in L
  BY DEF ToSet
<1>4. KeptFrom(g, s, K, Len(s))
  BY <1>1, <1>3 DEF KeptUpto, KeptFrom
<1>5. Len(s) \in Nat /\ Len(s) <= Len(s)
  OBVIOUS
<1>6. kept[Len(s)] = g[Len(s)]
  BY <1>2, <1>4, <1>5, KeepStep
<1> QED BY <1>1, <1>2, <1>6

\* A list all of whose members are kept is kept as it is.
LEMMA KeepAll ==
  ASSUME NEW T, NEW s \in Seq(T), NEW K, ToSet(s) \subseteq K
  PROVE  Keep(s, K) = s
<1> DEFINE g == [n \in 0 .. Len(s) |-> SubSeq(s, 1, n)]
<1>1. PICK kept \in [0 .. Len(s) -> Seq(T)] : KeptUpto(s, K, kept) /\ Keep(s, K) = kept[Len(s)]
  BY KeepExists
<1>2. \A n \in 1 .. Len(s) : s[n] \in K
  BY DEF ToSet
<1>3. ASSUME NEW n \in 1 .. Len(s)
      PROVE  g[n] = IF s[n] \in K THEN Append(g[n - 1], s[n]) ELSE g[n - 1]
  <2>1. g[n] = SubSeq(s, 1, n) /\ g[n - 1] = SubSeq(s, 1, n - 1)
    OBVIOUS
  <2>2. SubSeq(s, 1, n) = Append(SubSeq(s, 1, n - 1), s[n])
    OBVIOUS
  <2> HIDE DEF g
  <2> QED BY <1>2, <2>1, <2>2
<1>4. g[0] = <<>> /\ g[Len(s)] = s /\ Len(s) \in Nat /\ Len(s) <= Len(s)
  OBVIOUS
<1> HIDE DEF g
<1>5. KeptFrom(g, s, K, Len(s))
  BY <1>3, <1>4 DEF KeptFrom
<1>6. kept[Len(s)] = g[Len(s)]
  BY <1>1, <1>4, <1>5, KeepStep
<1> QED BY <1>1, <1>4, <1>6

\* Filtering twice is filtering by both.
LEMMA KeepTwice ==
  ASSUME NEW T, NEW s \in Seq(T), NEW K, NEW L
  PROVE  Keep(Keep(s, K), L) = Keep(s, K \cap L)
<1>1. PICK first \in [0 .. Len(s) -> Seq(T)] : KeptUpto(s, K, first) /\ Keep(s, K) = first[Len(s)]
  BY KeepExists
<1>2. PICK kept \in [0 .. Len(s) -> Seq(T)] :
        KeptUpto(s, K \cap L, kept) /\ Keep(s, K \cap L) = kept[Len(s)]
  BY KeepExists
<1> DEFINE g == [n \in 0 .. Len(s) |-> Keep(first[n], L)]
<1>3. \A n \in 0 .. Len(s) : g[n] = Keep(first[n], L)
  OBVIOUS
<1> HIDE DEF g
<1>4. g[0] = <<>>
  BY <1>1, <1>3, KeepOfNothing DEF KeptUpto
<1>5. ASSUME NEW n \in 1 .. Len(s)
      PROVE  g[n] = IF s[n] \in K \cap L THEN Append(g[n - 1], s[n]) ELSE g[n - 1]
  <2>1. n \in 0 .. Len(s) /\ n - 1 \in 0 .. Len(s) /\ s[n] \in T
    OBVIOUS
  <2>2. first[n - 1] \in Seq(T)
    BY <1>1, <2>1
  <2>3. first[n] = IF s[n] \in K THEN Append(first[n - 1], s[n]) ELSE first[n - 1]
    BY <1>1 DEF KeptUpto
  <2> DEFINE t == first[n - 1]
             x == s[n]
  <2>4. Keep(Append(t, x), L) = IF x \in L THEN Append(Keep(t, L), x) ELSE Keep(t, L)
    <3>1. t \in Seq(T) /\ x \in T
      BY <2>1, <2>2
    <3> HIDE DEF t, x
    <3> QED BY <3>1, KeepOfAppend
  <2>5. g[n] = Keep(first[n], L) /\ g[n - 1] = Keep(first[n - 1], L)
    BY <1>3, <2>1
  <2> QED BY <2>3, <2>4, <2>5
<1>6. Len(s) \in Nat /\ Len(s) <= Len(s) /\ Len(s) \in 0 .. Len(s)
  OBVIOUS
<1>7. KeptFrom(g, s, K \cap L, Len(s))
  BY <1>4, <1>5 DEF KeptFrom
<1>8. kept[Len(s)] = g[Len(s)]
  BY <1>2, <1>6, <1>7, KeepStep
<1> QED BY <1>1, <1>2, <1>3, <1>6, <1>8

\* What is kept comes in the places it had: the member at m is the k-th kept
\* when k of the first m are kept.
LEMMA KeepCounts ==
  ASSUME NEW T, NEW s \in Seq(T), NEW K, NEW m \in 1 .. Len(s), s[m] \in K
  PROVE  LET k == Cardinality({j \in 1 .. m : s[j] \in K})
         IN  k \in 1 .. Len(Keep(s, K)) /\ Keep(s, K)[k] = s[m]
<1> DEFINE t == Keep(s, K)
           C == {j \in 1 .. m : s[j] \in K}
<1>1. PICK at : PlacedAt(t, s, K, Len(s), at)
  BY KeepPlaces
<1>2. t \in Seq(T) /\ Len(t) \in Nat
  BY KeepPlaces
<1> HIDE DEF t
<1>3. /\ at \in [1 .. Len(t) -> 1 .. Len(s)]
      /\ \A i \in 1 .. Len(t) : t[i] = s[at[i]] /\ t[i] \in K
      /\ \A i, j \in 1 .. Len(t) : i < j => at[i] < at[j]
      /\ \A n \in 1 .. Len(s) : s[n] \in K => \E i \in 1 .. Len(t) : at[i] = n
  BY <1>1 DEF PlacedAt
<1>4. PICK k \in 1 .. Len(t) : at[k] = m
  BY <1>3
<1> DEFINE f == [i \in 1 .. k |-> at[i]]
<1>5. k \in Nat /\ \A i \in 1 .. k : i \in 1 .. Len(t) /\ f[i] = at[i]
  BY <1>2
<1>6. f \in [1 .. k -> C]
  <2> SUFFICES ASSUME NEW i \in 1 .. k PROVE at[i] \in C
    OBVIOUS
  <2>1. i \in 1 .. Len(t) /\ (i = k \/ i < k)
    BY <1>5
  <2>2. at[i] \in 1 .. Len(s) /\ s[at[i]] \in K /\ (at[i] = m \/ at[i] < m)
    BY <1>3, <1>4, <2>1
  <2> QED BY <2>2
<1>7. \A i, j \in 1 .. k : f[i] = f[j] => i = j
  <2> SUFFICES ASSUME NEW i \in 1 .. k, NEW j \in 1 .. k, i # j PROVE f[i] # f[j]
    OBVIOUS
  <2>1. i < j \/ j < i
    OBVIOUS
  <2>2. at[i] \in Int /\ at[j] \in Int
    <3>1. i \in 1 .. Len(t) /\ j \in 1 .. Len(t)
      BY <1>5
    <3>2. at[i] \in 1 .. Len(s) /\ at[j] \in 1 .. Len(s)
      BY <1>3, <3>1
    <3> QED BY <3>2
  <2> QED BY <1>3, <1>5, <2>1, <2>2
<1>8. \A c \in C : \E i \in 1 .. k : f[i] = c
  <2> SUFFICES ASSUME NEW c \in C PROVE \E i \in 1 .. k : f[i] = c
    OBVIOUS
  <2>1. c \in 1 .. Len(s) /\ c <= m /\ s[c] \in K
    OBVIOUS
  <2>2. PICK i \in 1 .. Len(t) : at[i] = c
    BY <1>3, <2>1
  <2>3. ~ (k < i)
    BY <1>3, <1>4, <2>1, <2>2
  <2>4. i \in 1 .. k
    BY <2>3
  <2> QED BY <1>5, <2>2, <2>4
<1> HIDE DEF f, C
<1>9. ExistsBijection(1 .. k, C)
  BY <1>6, <1>7, <1>8 DEF ExistsBijection, Bijection, Injection, Surjection, IsInjective
<1>10. Cardinality(C) = k
  <2>1. IsFiniteSet(1 .. k) /\ Cardinality(1 .. k) = k
    <3>1. 1 \in Int /\ k \in Int /\ (IF 1 > k THEN 0 ELSE k - 1 + 1) = k
      OBVIOUS
    <3> QED BY <3>1, FS_Interval
  <2> QED BY <1>9, <2>1, FS_Bijection
<1> QED BY <1>3, <1>4, <1>10 DEF C, t

-----------------------------------------------------------------------------
\* FlattenSeq.

\* flat[n] is the first n lists joined.
FlatUpto(seqs, flat) ==
  /\ flat[1] = seqs[1]
  /\ \A n \in 2 .. Len(seqs) : flat[n] = flat[n - 1] \o seqs[n]

\* FlattenSeq's recursive function is one.
LEMMA FlattenExists ==
  ASSUME NEW T, NEW seqs \in Seq(Seq(T)), Len(seqs) # 0
  PROVE  \E flat \in [1 .. Len(seqs) -> Seq(T)] :
            FlatUpto(seqs, flat) /\ FlattenSeq(seqs) = flat[Len(seqs)]
<1> DEFINE N == Len(seqs)
           step == [n \in 1 .. N |-> [prefix \in Seq(T) |-> prefix \o seqs[n]]]
           flat[n \in 1 .. N] == IF n = 1 THEN seqs[n] ELSE flat[n - 1] \o seqs[n]
<1>1. N \in Nat \ {0} /\ \A n \in 1 .. N : seqs[n] \in Seq(T)
  OBVIOUS
<1>2. step \in [1 .. N -> [Seq(T) -> Seq(T)]]
  BY <1>1
<1>3. PICK g \in [0 .. N -> Seq(T)] : Follows(g, N, <<>>, step)
  <2> DEFINE V  == Seq(T)
             v0 == <<>>
  <2>1. N \in Nat /\ v0 \in V /\ step \in [1 .. N -> [V -> V]]
    BY <1>1, <1>2
  <2> HIDE DEF step, N, V, v0, flat
  <2>2. \E g \in [0 .. N -> V] : Follows(g, N, v0, step)
    BY <2>1, Recursion
  <2> QED BY <2>2 DEF V, v0
<1>4. \A k \in 1 .. N : g[k] = g[k - 1] \o seqs[k]
  <2> SUFFICES ASSUME NEW k \in 1 .. N PROVE g[k] = g[k - 1] \o seqs[k]
    OBVIOUS
  <2>1. k - 1 \in 0 .. N
    BY <1>1
  <2>2. g[k - 1] \in Seq(T)
    BY <2>1, <1>3
  <2> QED BY <1>3, <2>2 DEF Follows
<1> DEFINE h == [n \in 1 .. N |-> g[n]]
<1>5. h \in [1 .. N -> Seq(T)]
  BY <1>1, <1>3
<1>6. h[1] = seqs[1]
  <2>1. g[0] = <<>> /\ g[1] = g[0] \o seqs[1] /\ seqs[1] \in Seq(T)
    <3>1. 1 \in 1 .. N /\ 1 - 1 = 0
      BY <1>1
    <3>2. g[0] = <<>>
      BY <1>3 DEF Follows
    <3>3. g[1] = g[1 - 1] \o seqs[1]
      BY <3>1, <1>4
    <3> QED BY <3>1, <3>2, <3>3, <1>1
  <2>2. <<>> \o seqs[1] = seqs[1]
    BY <2>1
  <2> QED BY <2>1, <2>2, <1>1
<1>7. ASSUME NEW n \in 2 .. N PROVE h[n] = h[n - 1] \o seqs[n]
  <2>1. n \in 1 .. N /\ n - 1 \in 1 .. N
    BY <1>1
  <2>2. h[n] = g[n] /\ h[n - 1] = g[n - 1]
    BY <2>1
  <2> QED BY <2>1, <2>2, <1>4
<1> HIDE DEF h
<1>8. h = [n \in 1 .. N |-> IF n = 1 THEN seqs[n] ELSE h[n - 1] \o seqs[n]]
  <2>1. ASSUME NEW n \in 1 .. N
        PROVE  h[n] = IF n = 1 THEN seqs[n] ELSE h[n - 1] \o seqs[n]
    <3>1. CASE n = 1
      BY <3>1, <1>6
    <3>2. CASE n # 1
      <4>1. n \in 2 .. N
        BY <3>2, <1>1
      <4> QED BY <3>2, <4>1, <1>7
    <3> QED BY <3>1, <3>2
  <2>2. h = [n \in 1 .. N |-> h[n]]
    BY <1>5
  <2> QED BY <2>1, <2>2, Zenon
<1>9. flat = [n \in 1 .. N |-> IF n = 1 THEN seqs[n] ELSE flat[n - 1] \o seqs[n]]
  BY <1>8, Zenon
<1>10. FlattenSeq(seqs) = flat[N]
  BY <1>1 DEF FlattenSeq
<1> HIDE DEF flat
<1>11. flat[1] = seqs[1] /\ \A n \in 2 .. N : flat[n] = flat[n - 1] \o seqs[n]
  <2>1. ASSUME NEW n \in 1 .. N
        PROVE  flat[n] = IF n = 1 THEN seqs[n] ELSE flat[n - 1] \o seqs[n]
    BY <1>9
  <2>2. 1 \in 1 .. N /\ \A n \in 2 .. N : n \in 1 .. N /\ n # 1
    BY <1>1
  <2> QED BY <2>1, <2>2
<1>12. \A n \in 1 .. N : flat[n] = h[n]
  <2> DEFINE S == {n \in Nat : n + 1 <= N => flat[n + 1] = h[n + 1]}
  <2>1. 0 \in S
    BY <1>6, <1>11
  <2>2. ASSUME NEW n \in Nat, n \in S PROVE n + 1 \in S
    <3> SUFFICES ASSUME n + 2 <= N PROVE flat[n + 2] = h[n + 2]
      OBVIOUS
    <3>1. flat[n + 1] = h[n + 1] /\ n + 2 \in 2 .. N /\ (n + 2) - 1 = n + 1
      BY <1>1, <2>2
    <3> QED BY <1>7, <1>11, <3>1
  <2>3. Nat \subseteq S
    <3> HIDE DEF S
    <3> QED BY <2>1, <2>2, NatSets
  <2>4. ASSUME NEW n \in 1 .. N PROVE flat[n] = h[n]
    <3>1. n - 1 \in Nat /\ (n - 1) + 1 = n /\ n <= N
      BY <1>1
    <3> QED BY <3>1, <2>3
  <2> QED BY <2>4
<1>13. flat \in [1 .. N -> Seq(T)]
  <2>1. flat = [n \in 1 .. N |-> flat[n]]
    BY <1>9
  <2> QED BY <2>1, <1>5, <1>12
<1>14. FlatUpto(seqs, flat)
  BY <1>11 DEF FlatUpto
<1> QED BY <1>10, <1>13, <1>14

\* The i-th member of t is one of the from[i]-th list, whole lists follow one
\* another, and t has every member of the first n.
TakenFrom(t, seqs, n, from) ==
  /\ from \in [1 .. Len(t) -> 1 .. n]
  /\ \A i \in 1 .. Len(t) : \E m \in 1 .. Len(seqs[from[i]]) : t[i] = seqs[from[i]][m]
  /\ \A i, j \in 1 .. Len(t) : i < j => from[i] <= from[j]
  /\ \A k \in 1 .. n : \A m \in 1 .. Len(seqs[k]) :
       \E i \in 1 .. Len(t) : from[i] = k /\ t[i] = seqs[k][m]

\* One more list joined on.
LEMMA TakenNext ==
  ASSUME NEW T, NEW seqs \in Seq(Seq(T)), NEW n \in 0 .. Len(seqs) - 1,
         NEW t \in Seq(T), NEW from, TakenFrom(t, seqs, n, from)
  PROVE  \E to : TakenFrom(t \o seqs[n + 1], seqs, n + 1, to)
<1> DEFINE s  == seqs[n + 1]
           u  == t \o s
           to == [i \in 1 .. Len(t) + Len(s) |-> IF i <= Len(t) THEN from[i] ELSE n + 1]
<1>1. n \in Nat /\ n + 1 \in 1 .. Len(seqs) /\ s \in Seq(T)
  OBVIOUS
<1>2. Len(t) \in Nat /\ Len(s) \in Nat
  BY <1>1
<1>3. /\ Len(u) = Len(t) + Len(s)
      /\ \A i \in 1 .. Len(t) : u[i] = t[i]
      /\ \A m \in 1 .. Len(s) : u[Len(t) + m] = s[m]
  <2> HIDE DEF s
  <2> QED BY <1>1
<1>4. /\ \A i \in 1 .. Len(t) : i \in 1 .. Len(u) /\ to[i] = from[i]
      /\ \A m \in 1 .. Len(s) : Len(t) + m \in 1 .. Len(u) /\ to[Len(t) + m] = n + 1
      /\ \A i \in 1 .. Len(u) : \/ i \in 1 .. Len(t)
                                \/ i - Len(t) \in 1 .. Len(s) /\ i = Len(t) + (i - Len(t))
  <2> HIDE DEF s, u
  <2> QED BY <1>2, <1>3
<1>5. /\ from \in [1 .. Len(t) -> 1 .. n]
      /\ \A i \in 1 .. Len(t) : \E m \in 1 .. Len(seqs[from[i]]) : t[i] = seqs[from[i]][m]
      /\ \A i, j \in 1 .. Len(t) : i < j => from[i] <= from[j]
      /\ \A k \in 1 .. n : \A m \in 1 .. Len(seqs[k]) :
           \E i \in 1 .. Len(t) : from[i] = k /\ t[i] = seqs[k][m]
  BY DEF TakenFrom
<1>6. to \in [1 .. Len(u) -> 1 .. n + 1]
  <2>1. \A i \in 1 .. Len(t) + Len(s) : to[i] \in 1 .. n + 1
    <3> SUFFICES ASSUME NEW i \in 1 .. Len(t) + Len(s) PROVE to[i] \in 1 .. n + 1
      OBVIOUS
    <3> HIDE DEF s, u
    <3>1. CASE i <= Len(t)
      <4>1. to[i] = from[i] /\ i \in 1 .. Len(t)
        BY <3>1, <1>2
      <4>2. from[i] \in 1 .. n
        BY <4>1, <1>5
      <4> QED BY <4>1, <4>2, <1>1
    <3>2. CASE ~ (i <= Len(t))
      BY <3>2, <1>1
    <3> QED BY <3>1, <3>2
  <2> QED BY <2>1, <1>3
<1> HIDE DEF u, to
<1>7. ASSUME NEW i \in 1 .. Len(u)
      PROVE  \E m \in 1 .. Len(seqs[to[i]]) : u[i] = seqs[to[i]][m]
  <2>1. CASE i \in 1 .. Len(t)
    <3>1. to[i] = from[i] /\ u[i] = t[i]
      BY <2>1, <1>3, <1>4
    <3>2. \E m \in 1 .. Len(seqs[from[i]]) : t[i] = seqs[from[i]][m]
      BY <2>1, <1>5
    <3> QED BY <3>1, <3>2
  <2>2. CASE i - Len(t) \in 1 .. Len(s) /\ i = Len(t) + (i - Len(t))
    <3> DEFINE m == i - Len(t)
    <3>1. m \in 1 .. Len(s) /\ i = Len(t) + m
      BY <2>2
    <3> HIDE DEF m
    <3>2. u[i] = s[m] /\ to[i] = n + 1
      BY <3>1, <1>3, <1>4
    <3> QED BY <3>1, <3>2
  <2> QED BY <2>1, <2>2, <1>4
<1>8. ASSUME NEW i \in 1 .. Len(u), NEW j \in 1 .. Len(u), i < j PROVE to[i] <= to[j]
  <2>1. CASE j \in 1 .. Len(t)
    <3>1. i \in 1 .. Len(t)
      BY <2>1, <1>2, <1>8
    <3> QED BY <2>1, <3>1, <1>4, <1>5, <1>8
  <2>2. CASE j - Len(t) \in 1 .. Len(s) /\ j = Len(t) + (j - Len(t))
    <3>1. to[j] = n + 1
      BY <2>2, <1>4
    <3>2. to[i] \in 1 .. n + 1
      BY <1>6
    <3> QED BY <3>1, <3>2, <1>1
  <2> QED BY <2>1, <2>2, <1>4
<1>9. ASSUME NEW k \in 1 .. n + 1, NEW m \in 1 .. Len(seqs[k])
      PROVE  \E i \in 1 .. Len(u) : to[i] = k /\ u[i] = seqs[k][m]
  <2>1. CASE k \in 1 .. n
    <3>1. PICK i \in 1 .. Len(t) : from[i] = k /\ t[i] = seqs[k][m]
      BY <2>1, <1>5, <1>9
    <3> QED BY <3>1, <1>3, <1>4
  <2>2. CASE k = n + 1
    <3>1. /\ Len(t) + m \in 1 .. Len(u)
          /\ to[Len(t) + m] = n + 1 /\ u[Len(t) + m] = s[m]
      BY <2>2, <1>3, <1>4, <1>9
    <3> QED BY <3>1, <2>2
  <2> QED BY <2>1, <2>2, <1>1
<1>10. TakenFrom(u, seqs, n + 1, to)
  BY <1>6, <1>7, <1>8, <1>9 DEF TakenFrom
<1> QED BY <1>10 DEF u

\* Where the members of a flattened list came from.
LEMMA FlattenPlaces ==
  ASSUME NEW T, NEW seqs \in Seq(Seq(T))
  PROVE  /\ FlattenSeq(seqs) \in Seq(T)
         /\ \E from : TakenFrom(FlattenSeq(seqs), seqs, Len(seqs), from)
<1>1. CASE Len(seqs) = 0
  <2>1. FlattenSeq(seqs) = <<>>
    BY <1>1 DEF FlattenSeq
  <2>2. TakenFrom(<<>>, seqs, 0, [i \in {} |-> 0])
    BY DEF TakenFrom
  <2> QED BY <1>1, <2>1, <2>2
<1>2. CASE Len(seqs) # 0
  <2> DEFINE N == Len(seqs)
  <2>1. PICK flat \in [1 .. N -> Seq(T)] :
          FlatUpto(seqs, flat) /\ FlattenSeq(seqs) = flat[N]
    BY <1>2, FlattenExists
  <2>2. N \in Nat \ {0}
    BY <1>2
  <2> DEFINE S == {n \in Nat : n + 1 <= N => \E from : TakenFrom(flat[n + 1], seqs, n + 1, from)}
  <2>3. 0 \in S
    <3>1. TakenFrom(<<>>, seqs, 0, [i \in {} |-> 0])
      BY DEF TakenFrom
    <3>2. 0 \in 0 .. Len(seqs) - 1 /\ <<>> \in Seq(T)
      BY <2>2
    <3>3. \E to : TakenFrom(<<>> \o seqs[0 + 1], seqs, 0 + 1, to)
      <4> HIDE DEF N, S
      <4> QED BY <3>1, <3>2, TakenNext
    <3>4. flat[0 + 1] = <<>> \o seqs[0 + 1]
      <4>1. flat[1] = seqs[1] /\ seqs[1] \in Seq(T)
        BY <2>1, <2>2 DEF FlatUpto
      <4> QED BY <4>1
    <3> QED BY <3>3, <3>4
  <2>4. ASSUME NEW n \in Nat, n \in S PROVE n + 1 \in S
    <3> SUFFICES ASSUME n + 2 <= N
                 PROVE  \E from : TakenFrom(flat[n + 2], seqs, n + 2, from)
      OBVIOUS
    <3>1. PICK from : TakenFrom(flat[n + 1], seqs, n + 1, from)
      BY <2>2, <2>4
    <3>2. /\ n + 1 \in 0 .. Len(seqs) - 1 /\ n + 1 \in 1 .. N /\ n + 2 \in 2 .. N
          /\ (n + 1) + 1 = n + 2 /\ (n + 2) - 1 = n + 1
      BY <2>2
    <3>3. flat[n + 1] \in Seq(T)
      BY <2>1, <3>2
    <3>4. flat[n + 2] = flat[n + 1] \o seqs[n + 2]
      BY <2>1, <3>2 DEF FlatUpto
    <3>5. \E to : TakenFrom(flat[n + 1] \o seqs[(n + 1) + 1], seqs, (n + 1) + 1, to)
      <4> DEFINE m == n + 1
                 t == flat[n + 1]
      <4>1. m \in 0 .. Len(seqs) - 1 /\ t \in Seq(T) /\ TakenFrom(t, seqs, m, from)
        BY <3>1, <3>2, <3>3
      <4> HIDE DEF m, t, S, N
      <4>2. \E to : TakenFrom(t \o seqs[m + 1], seqs, m + 1, to)
        BY <4>1, TakenNext
      <4> QED BY <4>2 DEF m, t
    <3> QED BY <3>2, <3>4, <3>5
  <2>5. N - 1 \in S /\ (N - 1) + 1 = N
    <3>1. N - 1 \in Nat /\ (N - 1) + 1 = N
      BY <2>2
    <3> HIDE DEF S, N
    <3> QED BY <2>3, <2>4, <3>1, NatSets
  <2>6. flat[N] \in Seq(T)
    <3>1. N \in 1 .. N
      BY <2>2
    <3> HIDE DEF N
    <3> QED BY <2>1, <3>1
  <2> QED BY <2>1, <2>2, <2>5, <2>6
<1> QED BY <1>1, <1>2

\* Which members a flattened list has.
LEMMA FlattenMembers ==
  ASSUME NEW T, NEW seqs \in Seq(Seq(T))
  PROVE  ToSet(FlattenSeq(seqs)) = UNION {ToSet(seqs[k]) : k \in DOMAIN seqs}
<1>1. PICK from : TakenFrom(FlattenSeq(seqs), seqs, Len(seqs), from)
  BY FlattenPlaces
<1>2. FlattenSeq(seqs) \in Seq(T)
  BY FlattenPlaces
<1> DEFINE F == FlattenSeq(seqs)
<1> HIDE DEF F
<1>3. DOMAIN F = 1 .. Len(F) /\ DOMAIN seqs = 1 .. Len(seqs)
  BY <1>2 DEF F
<1>4. \A k \in DOMAIN seqs : DOMAIN seqs[k] = 1 .. Len(seqs[k])
  OBVIOUS
<1>5. ASSUME NEW i \in DOMAIN F
      PROVE  \E k \in DOMAIN seqs : F[i] \in ToSet(seqs[k])
  <2>1. from[i] \in DOMAIN seqs /\ \E m \in 1 .. Len(seqs[from[i]]) : F[i] = seqs[from[i]][m]
    BY <1>1, <1>3 DEF TakenFrom, F
  <2> QED BY <2>1, <1>4 DEF ToSet
<1>6. ASSUME NEW k \in DOMAIN seqs, NEW m \in DOMAIN seqs[k]
      PROVE  \E i \in DOMAIN F : F[i] = seqs[k][m]
  <2>1. k \in 1 .. Len(seqs) /\ m \in 1 .. Len(seqs[k])
    BY <1>3, <1>4, <1>6
  <2>2. \E i \in 1 .. Len(F) : from[i] = k /\ F[i] = seqs[k][m]
    BY <1>1, <2>1 DEF TakenFrom, F
  <2> QED BY <2>2, <1>3
<1> QED BY <1>5, <1>6 DEF ToSet, F

\* The same, member by member.
LEMMA FlattenWhere ==
  ASSUME NEW T, NEW seqs \in Seq(Seq(T))
  PROVE  /\ FlattenSeq(seqs) \in Seq(T)
         /\ \A x : x \in ToSet(FlattenSeq(seqs))
                     <=> \E k \in DOMAIN seqs : x \in ToSet(seqs[k])
BY FlattenPlaces, FlattenMembers

-----------------------------------------------------------------------------
\* Total.

\* sum[n] is the sum of the first n.
SumUpto(sizes, sum) ==
  sum[0] = 0 /\ \A n \in 1 .. Len(sizes) : sum[n] = sum[n - 1] + sizes[n]

\* Total's recursive function is one.
LEMMA TotalExists ==
  ASSUME NEW sizes \in Seq(Nat)
  PROVE  \E sum \in [0 .. Len(sizes) -> Nat] :
            SumUpto(sizes, sum) /\ Total(sizes) = sum[Len(sizes)]
<1> DEFINE N == Len(sizes)
           step == [n \in 1 .. N |-> [v \in Nat |-> v + sizes[n]]]
           sum[n \in 0 .. N] == IF n = 0 THEN 0 ELSE sum[n - 1] + sizes[n]
<1>1. N \in Nat /\ \A n \in 1 .. N : sizes[n] \in Nat
  OBVIOUS
<1> HIDE DEF N
<1>2. step \in [1 .. N -> [Nat -> Nat]]
  BY <1>1
<1>3. PICK g \in [0 .. N -> Nat] : Follows(g, N, 0, step)
  <2> HIDE DEF step, sum
  <2> QED BY <1>1, <1>2, Recursion
<1>4. \A k \in 1 .. N : g[k] = g[k - 1] + sizes[k]
  <2> SUFFICES ASSUME NEW k \in 1 .. N PROVE g[k] = g[k - 1] + sizes[k]
    OBVIOUS
  <2>1. g[k - 1] \in Nat
    BY <1>1, <1>3
  <2> QED BY <1>3, <2>1 DEF Follows
<1>5. g = [n \in 0 .. N |-> IF n = 0 THEN 0 ELSE g[n - 1] + sizes[n]]
  <2>1. ASSUME NEW n \in 0 .. N
        PROVE  g[n] = IF n = 0 THEN 0 ELSE g[n - 1] + sizes[n]
    <3>1. CASE n = 0
      BY <3>1, <1>3 DEF Follows
    <3>2. CASE n # 0
      <4>1. n \in 1 .. N
        BY <3>2, <1>1
      <4> QED BY <3>2, <4>1, <1>4
    <3> QED BY <3>1, <3>2
  <2>2. g = [n \in 0 .. N |-> g[n]]
    BY <1>3
  <2> QED BY <2>1, <2>2, Zenon
<1>6. sum = [n \in 0 .. N |-> IF n = 0 THEN 0 ELSE sum[n - 1] + sizes[n]]
  BY <1>5, Zenon
<1>7. Total(sizes) = sum[N]
  BY DEF Total, N
<1> HIDE DEF sum
<1>8. sum[0] = 0 /\ \A n \in 1 .. N : sum[n] = sum[n - 1] + sizes[n]
  <2>1. ASSUME NEW n \in 0 .. N
        PROVE  sum[n] = IF n = 0 THEN 0 ELSE sum[n - 1] + sizes[n]
    BY <1>6
  <2>2. 0 \in 0 .. N /\ \A n \in 1 .. N : n \in 0 .. N /\ n # 0
    BY <1>1
  <2> QED BY <2>1, <2>2
<1>9. \A n \in 0 .. N : sum[n] = g[n]
  <2> DEFINE S == {n \in Nat : n <= N => sum[n] = g[n]}
  <2>1. 0 \in S
    BY <1>3, <1>8 DEF Follows
  <2>2. ASSUME NEW n \in Nat, n \in S PROVE n + 1 \in S
    <3> SUFFICES ASSUME n + 1 <= N PROVE sum[n + 1] = g[n + 1]
      OBVIOUS
    <3>1. sum[n] = g[n] /\ n + 1 \in 1 .. N /\ (n + 1) - 1 = n
      BY <1>1, <2>2
    <3> QED BY <1>4, <1>8, <3>1
  <2>3. Nat \subseteq S
    <3> HIDE DEF S
    <3> QED BY <2>1, <2>2, NatSets
  <2> QED BY <2>3, <1>1
<1>10. sum \in [0 .. N -> Nat]
  <2>1. sum = [n \in 0 .. N |-> sum[n]]
    BY <1>6
  <2> QED BY <2>1, <1>3, <1>9
<1> QED BY <1>7, <1>8, <1>10 DEF SumUpto, N

\* The first n sizes of a list, and what they add up to.
FirstSizes(f, n) == [i \in 1 .. n |-> f[i]]

\* And their total is built up one by one.
LEMMA TotalOfFirst ==
  ASSUME NEW N \in Nat, NEW f \in [1 .. N -> Nat]
  PROVE  /\ Total(FirstSizes(f, 0)) = 0
         /\ \A n \in 0 .. N : Total(FirstSizes(f, n)) \in Nat
         /\ \A n \in 0 .. N - 1 : Total(FirstSizes(f, n + 1)) = Total(FirstSizes(f, n)) + f[n + 1]
         /\ \A m, n \in 0 .. N : m <= n => Total(FirstSizes(f, m)) <= Total(FirstSizes(f, n))
<1>1. ASSUME NEW n \in 0 .. N
      PROVE  /\ FirstSizes(f, n) \in Seq(Nat) /\ Len(FirstSizes(f, n)) = n
             /\ \A i \in 1 .. n : FirstSizes(f, n)[i] = f[i]
  BY DEF FirstSizes
<1>2. PICK sum \in [0 .. N -> Nat] :
        sum[0] = 0 /\ \A k \in 1 .. N : sum[k] = sum[k - 1] + f[k]
  <2>1. N \in 0 .. N
    OBVIOUS
  <2>2. PICK sum \in [0 .. Len(FirstSizes(f, N)) -> Nat] : SumUpto(FirstSizes(f, N), sum)
    BY <1>1, <2>1, TotalExists
  <2> QED BY <1>1, <2>1, <2>2 DEF SumUpto
<1>3. ASSUME NEW n \in 0 .. N PROVE Total(FirstSizes(f, n)) = sum[n]
  <2> DEFINE t == FirstSizes(f, n)
  <2>1. t \in Seq(Nat) /\ Len(t) = n /\ \A i \in 1 .. n : t[i] = f[i]
    BY <1>1
  <2> HIDE DEF t
  <2>2. PICK g \in [0 .. Len(t) -> Nat] : SumUpto(t, g) /\ Total(t) = g[Len(t)]
    BY <2>1, TotalExists
  <2> DEFINE S == {k \in Nat : k <= n => g[k] = sum[k]}
  <2>3. 0 \in S
    BY <1>2, <2>2 DEF SumUpto
  <2>4. ASSUME NEW k \in Nat, k \in S PROVE k + 1 \in S
    <3> SUFFICES ASSUME k + 1 <= n PROVE g[k + 1] = sum[k + 1]
      OBVIOUS
    <3>1. g[k] = sum[k] /\ k + 1 \in 1 .. N /\ k + 1 \in 1 .. n /\ (k + 1) - 1 = k
      BY <2>4
    <3>2. g[k + 1] = g[k] + t[k + 1] /\ t[k + 1] = f[k + 1]
      BY <2>1, <2>2, <3>1 DEF SumUpto
    <3>3. sum[k + 1] = sum[k] + f[k + 1]
      BY <1>2, <3>1
    <3> QED BY <3>1, <3>2, <3>3
  <2>5. n \in S
    <3>1. n \in Nat
      OBVIOUS
    <3> HIDE DEF S
    <3>2. Nat \subseteq S
      BY <2>3, <2>4, NatSets
    <3> QED BY <3>1, <3>2
  <2> QED BY <2>1, <2>2, <2>5 DEF t
<1>4. \A m, n \in 0 .. N : m <= n => sum[m] <= sum[n]
  <2> SUFFICES ASSUME NEW m \in 0 .. N PROVE \A n \in 0 .. N : m <= n => sum[m] <= sum[n]
    OBVIOUS
  <2> DEFINE S == {n \in Nat : m <= n /\ n <= N => sum[m] <= sum[n]}
  <2>1. 0 \in S
    BY <1>2
  <2>2. ASSUME NEW n \in Nat, n \in S PROVE n + 1 \in S
    <3> SUFFICES ASSUME m <= n + 1, n + 1 <= N PROVE sum[m] <= sum[n + 1]
      OBVIOUS
    <3>1. CASE m = n + 1
      BY <1>2, <3>1
    <3>2. CASE m # n + 1
      <4>1. m <= n /\ n <= N /\ n \in 0 .. N /\ n + 1 \in 1 .. N /\ (n + 1) - 1 = n
        BY <3>2
      <4>2. sum[m] <= sum[n] /\ sum[n + 1] = sum[n] + f[n + 1]
        BY <1>2, <2>2, <4>1
      <4>3. sum[m] \in Nat /\ sum[n] \in Nat /\ f[n + 1] \in Nat
        BY <1>2, <4>1
      <4> QED BY <4>2, <4>3
    <3> QED BY <3>1, <3>2
  <2>3. Nat \subseteq S
    <3> HIDE DEF S
    <3> QED BY <2>1, <2>2, NatSets
  <2> QED BY <2>3
<1>5. \A n \in 0 .. N - 1 : n \in 0 .. N /\ n + 1 \in 0 .. N /\ n + 1 \in 1 .. N /\ (n + 1) - 1 = n
  OBVIOUS
<1> QED BY <1>2, <1>3, <1>4, <1>5

-----------------------------------------------------------------------------
\* Finite sets.

\* The image of a finite set is finite.
LEMMA ImageFinite ==
  ASSUME NEW S, IsFiniteSet(S), NEW f, f = [x \in S |-> f[x]]
  PROVE  IsFiniteSet({f[x] : x \in S})
<1> DEFINE T == {f[x] : x \in S}
<1>1. f \in Surjection(S, T)
  <2>1. f \in [S -> T]
    OBVIOUS
  <2>2. \A t \in T : \E x \in S : f[x] = t
    OBVIOUS
  <2> HIDE DEF T
  <2> QED BY <2>1, <2>2 DEF Surjection
<1> HIDE DEF T
<1> QED BY <1>1, FS_Surjection DEF T

\* A part of a finite set that is not all of it is smaller.
LEMMA SmallerPart ==
  ASSUME NEW S, IsFiniteSet(S), NEW T \in SUBSET S, T # S
  PROVE  /\ Cardinality(S) \in Nat /\ Cardinality(T) \in Nat
         /\ Cardinality(T) < Cardinality(S)
<1>1. IsFiniteSet(T) /\ Cardinality(T) <= Cardinality(S)
      /\ (Cardinality(S) = Cardinality(T) => S = T)
  BY FS_Subset
<1>2. Cardinality(S) \in Nat /\ Cardinality(T) \in Nat
  BY <1>1, FS_CardinalityType
<1> QED BY <1>1, <1>2

-----------------------------------------------------------------------------
\* Lists joined.

\* One more list is joined on at the end.
LEMMA FlattenAppend ==
  ASSUME NEW T, NEW seqs \in Seq(Seq(T)), NEW x \in Seq(T)
  PROVE  FlattenSeq(Append(seqs, x)) = FlattenSeq(seqs) \o x
<1> DEFINE u == Append(seqs, x)
           N == Len(seqs)
<1>1. /\ u \in Seq(Seq(T)) /\ Len(u) = N + 1 /\ N \in Nat /\ u[N + 1] = x
      /\ \A i \in 1 .. N : u[i] = seqs[i] /\ seqs[i] \in Seq(T)
  OBVIOUS
<1> HIDE DEF u
<1>2. Len(u) # 0
  BY <1>1
<1>3. PICK flat \in [1 .. Len(u) -> Seq(T)] : FlatUpto(u, flat) /\ FlattenSeq(u) = flat[Len(u)]
  <2> HIDE DEF N
  <2> QED BY <1>1, <1>2, FlattenExists
<1>4. CASE N = 0
  <2>1. FlattenSeq(seqs) = <<>>
    BY <1>4 DEF FlattenSeq
  <2>2. FlattenSeq(u) = x
    BY <1>1, <1>3, <1>4 DEF FlatUpto
  <2> QED BY <2>1, <2>2 DEF u
<1>5. CASE N # 0
  <2>1. PICK g \in [1 .. N -> Seq(T)] : FlatUpto(seqs, g) /\ FlattenSeq(seqs) = g[N]
    BY <1>5, FlattenExists
  <2> HIDE DEF N
  <2> DEFINE S == {n \in Nat : n + 1 <= N => flat[n + 1] = g[n + 1]}
  <2>2. 0 \in S
    BY <1>1, <1>3, <2>1 DEF FlatUpto
  <2>3. ASSUME NEW n \in Nat, n \in S PROVE n + 1 \in S
    <3> SUFFICES ASSUME n + 2 <= N PROVE flat[n + 2] = g[n + 2]
      OBVIOUS
    <3>1. /\ n + 2 \in 2 .. N /\ n + 2 \in 2 .. Len(u) /\ n + 2 \in 1 .. N
          /\ (n + 2) - 1 = n + 1 /\ flat[n + 1] = g[n + 1]
      BY <1>1, <2>3
    <3>2. flat[n + 2] = flat[n + 1] \o u[n + 2]
      BY <1>3, <3>1 DEF FlatUpto
    <3>3. g[n + 2] = g[n + 1] \o seqs[n + 2]
      BY <2>1, <3>1 DEF FlatUpto, N
    <3> QED BY <1>1, <3>1, <3>2, <3>3
  <2>4. N - 1 \in Nat /\ (N - 1) + 1 = N
    BY <1>1, <1>5
  <2>5. flat[N] = g[N]
    <3>1. N - 1 \in S
      <4> HIDE DEF S
      <4> QED BY <2>2, <2>3, <2>4, NatSets
    <3> QED BY <3>1, <2>4
  <2>6. flat[N + 1] = flat[N] \o x
    <3>1. N + 1 \in 2 .. Len(u) /\ (N + 1) - 1 = N
      BY <1>1, <1>5
    <3> QED BY <1>1, <1>3, <3>1 DEF FlatUpto
  <2> QED BY <1>1, <1>3, <2>1, <2>5, <2>6 DEF u
<1> QED BY <1>4, <1>5

\* Nothing, and one list.
LEMMA FlattenNone == FlattenSeq(<<>>) = <<>>
BY DEF FlattenSeq

\* And one list.
LEMMA FlattenOne ==
  ASSUME NEW T, NEW x \in Seq(T)
  PROVE  FlattenSeq(<<x>>) = x
<1>1. <<>> \in Seq(Seq(T)) /\ Append(<<>>, x) = <<x>> /\ <<>> \o x = x
  OBVIOUS
<1>2. FlattenSeq(Append(<<>>, x)) = FlattenSeq(<<>>) \o x
  BY <1>1, FlattenAppend
<1> QED BY <1>1, <1>2, FlattenNone

\* The first n of a list, and one more.
LEMMA TakenOne ==
  ASSUME NEW S, NEW s \in Seq(S), NEW n \in 0 .. Len(s) - 1
  PROVE  /\ SubSeq(s, 1, n) \in Seq(S) /\ s[n + 1] \in S
         /\ SubSeq(s, 1, n + 1) = Append(SubSeq(s, 1, n), s[n + 1])
         /\ SubSeq(s, 1, Len(s)) = s
<1>1. n \in Nat /\ n + 1 \in 1 .. Len(s) /\ Len(s) \in Nat
  OBVIOUS
<1>2. /\ SubSeq(s, 1, n) \in Seq(S)
      /\ Len(SubSeq(s, 1, n)) = n
      /\ \A i \in 1 .. n : SubSeq(s, 1, n)[i] = s[i]
  BY <1>1, SubSeqProperties
<1>3. /\ SubSeq(s, 1, n + 1) \in Seq(S)
      /\ Len(SubSeq(s, 1, n + 1)) = n + 1
      /\ \A i \in 1 .. n + 1 : SubSeq(s, 1, n + 1)[i] = s[i]
  BY <1>1, SubSeqProperties
<1>4. s[n + 1] \in S
  BY <1>1
<1>5. /\ Append(SubSeq(s, 1, n), s[n + 1]) \in Seq(S)
      /\ Len(Append(SubSeq(s, 1, n), s[n + 1])) = n + 1
      /\ \A i \in 1 .. n + 1 : Append(SubSeq(s, 1, n), s[n + 1])[i] = s[i]
  BY <1>1, <1>2, <1>4
<1>6. SubSeq(s, 1, n + 1) = Append(SubSeq(s, 1, n), s[n + 1])
  BY <1>3, <1>5, SeqEqual
<1>7. SubSeq(s, 1, Len(s)) = s
  BY SubSeqFull
<1> QED BY <1>2, <1>4, <1>6, <1>7

\* Lists joined in two goes are joined.
LEMMA FlattenConcat ==
  ASSUME NEW T, NEW a \in Seq(Seq(T)), NEW b \in Seq(Seq(T))
  PROVE  FlattenSeq(a \o b) = FlattenSeq(a) \o FlattenSeq(b)
<1> DEFINE u(n) == a \o SubSeq(b, 1, n)
           S == {n \in Nat : n <= Len(b) =>
                   FlattenSeq(a \o SubSeq(b, 1, n)) = FlattenSeq(a) \o FlattenSeq(SubSeq(b, 1, n))}
<1>1. FlattenSeq(a) \in Seq(T)
  BY FlattenPlaces
<1>2. 0 \in S
  <2>1. SubSeq(b, 1, 0) = <<>> /\ FlattenSeq(<<>>) = <<>>
    BY FlattenNone, SubSeqEmpty
  <2>2. a \o <<>> = a /\ FlattenSeq(a) \o <<>> = FlattenSeq(a)
    BY <1>1
  <2> QED BY <2>1, <2>2
<1>3. ASSUME NEW n \in Nat, n \in S PROVE n + 1 \in S
  <2> SUFFICES ASSUME n + 1 <= Len(b)
      PROVE  FlattenSeq(a \o SubSeq(b, 1, n + 1)) = FlattenSeq(a) \o FlattenSeq(SubSeq(b, 1, n + 1))
    OBVIOUS
  <2> DEFINE v == SubSeq(b, 1, n)
             x == b[n + 1]
  <2>1. v \in Seq(Seq(T)) /\ x \in Seq(T) /\ SubSeq(b, 1, n + 1) = Append(v, x)
    BY TakenOne
  <2>2. FlattenSeq(a \o v) = FlattenSeq(a) \o FlattenSeq(v)
    BY <1>3
  <2> HIDE DEF v, x
  <2>3. a \o Append(v, x) = Append(a \o v, x) /\ a \o v \in Seq(Seq(T))
    BY SMTT(30), <2>1
  <2>4. FlattenSeq(Append(a \o v, x)) = FlattenSeq(a \o v) \o x
    BY <2>1, <2>3, FlattenAppend
  <2>5. FlattenSeq(Append(v, x)) = FlattenSeq(v) \o x /\ FlattenSeq(v) \in Seq(T)
    BY <2>1, FlattenAppend, FlattenPlaces
  <2>6. (FlattenSeq(a) \o FlattenSeq(v)) \o x = FlattenSeq(a) \o (FlattenSeq(v) \o x)
    <3> DEFINE p == FlattenSeq(a)
               q == FlattenSeq(v)
    <3>1. p \in Seq(T) /\ q \in Seq(T) /\ x \in Seq(T)
      BY <1>1, <2>1, <2>5
    <3> HIDE DEF p, q
    <3>2. (p \o q) \o x = p \o (q \o x)
      BY SMTT(30), <3>1
    <3> QED BY <3>2 DEF p, q
  <2> QED BY <2>1, <2>2, <2>3, <2>4, <2>5, <2>6
<1>4. Len(b) \in S /\ Len(b) <= Len(b) /\ SubSeq(b, 1, Len(b)) = b
  <2>1. Len(b) \in Nat /\ SubSeq(b, 1, Len(b)) = b
    BY SubSeqFull
  <2>2. Len(b) \in S
    <3> HIDE DEF S
    <3> QED BY <1>2, <1>3, <2>1, NatSets
  <2> QED BY <2>1, <2>2
<1> QED BY <1>4

\* What becomes of a list, symbol by symbol, when it is read in two parts.
LEMMA FlattenParts ==
  ASSUME NEW T, NEW f \in Seq(Seq(T)), NEW g \in Seq(Seq(T)), NEW h \in Seq(Seq(T)),
         Len(f) = Len(g) + Len(h),
         \A i \in 1 .. Len(g) : f[i] = g[i],
         \A i \in 1 .. Len(h) : f[Len(g) + i] = h[i]
  PROVE  FlattenSeq(f) = FlattenSeq(g) \o FlattenSeq(h)
<1>1. /\ g \o h \in Seq(Seq(T)) /\ Len(g \o h) = Len(g) + Len(h)
      /\ Len(g) \in Nat /\ Len(h) \in Nat
      /\ \A i \in 1 .. Len(g) : (g \o h)[i] = g[i]
      /\ \A i \in 1 .. Len(h) : (g \o h)[Len(g) + i] = h[i]
  OBVIOUS
<1>2. ASSUME NEW i \in 1 .. Len(f) PROVE f[i] = (g \o h)[i]
  <2>1. CASE i <= Len(g)
    BY <1>1, <2>1
  <2>2. CASE ~(i <= Len(g))
    <3>1. i - Len(g) \in 1 .. Len(h) /\ Len(g) + (i - Len(g)) = i
      BY <1>1, <2>2
    <3> QED BY <1>1, <3>1
  <2> QED BY <2>1, <2>2
<1>3. f = g \o h
  BY <1>1, <1>2, SeqEqual
<1> QED BY <1>3, FlattenConcat

\* What stays as it is, symbol by symbol, stays; of what goes nothing stays.
LEMMA FlattenSingles ==
  ASSUME NEW T, NEW t \in Seq(T), NEW f \in Seq(Seq(T)), Len(f) = Len(t),
         \A i \in 1 .. Len(t) : f[i] = <<t[i]>>
  PROVE  FlattenSeq(f) = t
<1> DEFINE S == {n \in Nat : n <= Len(t) => FlattenSeq(SubSeq(f, 1, n)) = SubSeq(t, 1, n)}
<1>1. 0 \in S
  <2>1. SubSeq(t, 1, 0) = <<>> /\ SubSeq(f, 1, 0) = <<>>
    BY SubSeqEmpty
  <2> QED BY <2>1, FlattenNone
<1>2. ASSUME NEW n \in Nat, n \in S PROVE n + 1 \in S
  <2> SUFFICES ASSUME n + 1 <= Len(t) PROVE FlattenSeq(SubSeq(f, 1, n + 1)) = SubSeq(t, 1, n + 1)
    OBVIOUS
  <2>1. n \in 0 .. Len(t) - 1 /\ n + 1 \in 1 .. Len(t)
    OBVIOUS
  <2>2. /\ SubSeq(t, 1, n + 1) = Append(SubSeq(t, 1, n), t[n + 1])
        /\ SubSeq(t, 1, n) \in Seq(T) /\ t[n + 1] \in T
    BY <2>1, TakenOne
  <2>3. /\ SubSeq(f, 1, n + 1) = Append(SubSeq(f, 1, n), f[n + 1])
        /\ SubSeq(f, 1, n) \in Seq(Seq(T)) /\ f[n + 1] \in Seq(T)
    BY <2>1, TakenOne
  <2>4. FlattenSeq(SubSeq(f, 1, n + 1)) = FlattenSeq(SubSeq(f, 1, n)) \o f[n + 1]
    BY <2>3, FlattenAppend
  <2>5. FlattenSeq(SubSeq(f, 1, n)) = SubSeq(t, 1, n)
    BY <1>2, <2>1
  <2>6. f[n + 1] = <<t[n + 1]>>
    BY <2>1
  <2> DEFINE p == SubSeq(t, 1, n)
             x == t[n + 1]
  <2>7. p \in Seq(T) /\ x \in T
    BY <2>2
  <2> HIDE DEF p, x
  <2>8. p \o <<x>> = Append(p, x)
    BY <2>7
  <2>9. FlattenSeq(SubSeq(f, 1, n + 1)) = p \o <<x>>
    BY <2>4, <2>5, <2>6 DEF p, x
  <2> QED BY <2>2, <2>8, <2>9 DEF p, x
<1>3. Len(t) \in S
  <2>1. Len(t) \in Nat
    OBVIOUS
  <2> HIDE DEF S
  <2> QED BY <1>1, <1>2, <2>1, NatSets
<1>4. Len(t) \in Nat /\ Len(t) <= Len(t) /\ SubSeq(t, 1, Len(t)) = t /\ SubSeq(f, 1, Len(t)) = f
  BY SubSeqFull
<1> QED BY <1>3, <1>4


\* Of lists of nothing nothing is left.
LEMMA FlattenNothing ==
  ASSUME NEW T, NEW f \in Seq(Seq(T)), \A i \in 1 .. Len(f) : f[i] = <<>>
  PROVE  FlattenSeq(f) = <<>>
<1> DEFINE F == FlattenSeq(f)
<1>1. F \in Seq(T) /\ \A x : x \in ToSet(F) <=> \E k \in DOMAIN f : x \in ToSet(f[k])
  BY FlattenWhere
<1>2. \A x : x \notin ToSet(F)
  <2>1. ToSet(<<>>) = {}
    BY DEF ToSet
  <2>2. DOMAIN f = 1 .. Len(f)
    OBVIOUS
  <2> QED BY <1>1, <2>1, <2>2
<1>3. F = <<>>
  <2> HIDE DEF F
  <2>1. ASSUME F # <<>> PROVE FALSE
    <3>1. 1 \in DOMAIN F
      BY <1>1, <2>1
    <3> QED BY <1>2, <3>1 DEF ToSet
  <2> QED BY <2>1
<1> QED BY <1>3
=============================================================================
