-------------------------- MODULE AnswerTextProofs --------------------------
(***************************************************************************)
(* The farmer reads what the composer wrote, however it came in pieces,    *)
(* for any drafts, sources, tags and place question.                       *)
(*                                                                         *)
(* Every filter gives out, of what it has been given, what it would give   *)
(* out if it were given it whole, less the end it holds (Numbered,         *)
(* Revealing, CitedSo). A marker or a tag never lies across what is out    *)
(* and what is held, since its beginning would have been held (Holds), so  *)
(* what is read in two parts is read as one (PlainJoin, NumbersJoin,       *)
(* RevealJoin). cite_per_paragraph's texts differ from those of the        *)
(* paragraphs read whole in where the last blanks stand, and this lasts    *)
(* through the filters after it (Same, CiteLate): a blank is a seam at     *)
(* which they read on their own (Seam).                                    *)
(***************************************************************************)
EXTENDS AnswerText, ListsProofs

\* The symbols of a text on its way: the composer's, and those the filters put.
Sign == Symbol \cup {Value[name] : name \in DOMAIN Value}
               \cup {Numeral[n] : n \in Nat \cup {Min({})}}

\* The symbols the filters look for are apart from the words and the digits.
LEMMA Signs ==
  /\ Symbol \subseteq Sign /\ Digits \subseteq Sign
  /\ {" ", "newline", "[", "]", "<<", ">>"} \subseteq Sign
  /\ \A x \in Digits : x \notin {" ", "newline", "[", "]", "<<", ">>"}
  /\ \A x \in TagNames \cup Digits \cup {Word} : x \notin {" ", "newline", "[", "]", "<<", ">>"}
BY AnswerTextAssumption DEF Sign, Symbol, Blank

-----------------------------------------------------------------------------
\* Cutting a text.

\* A text is what is before a place and what follows.
LEMMA CutAt ==
  ASSUME NEW S, NEW s \in Seq(S), NEW k \in 1 .. Len(s) + 1
  PROVE  /\ Before(s, k) \in Seq(S) /\ Len(Before(s, k)) = k - 1
         /\ \A i \in 1 .. k - 1 : Before(s, k)[i] = s[i]
         /\ Suffix(s, k) \in Seq(S) /\ Len(Suffix(s, k)) = Len(s) + 1 - k
         /\ \A i \in 1 .. Len(s) + 1 - k : Suffix(s, k)[i] = s[k - 1 + i]
         /\ s = Before(s, k) \o Suffix(s, k)
<1>1. Len(s) \in Nat /\ k \in Nat /\ k - 1 \in Int /\ 1 \in Int /\ k \in Int
  OBVIOUS
<1>2. /\ SubSeq(s, 1, k - 1) \in Seq(S)
      /\ Len(SubSeq(s, 1, k - 1)) = IF 1 <= k - 1 THEN (k - 1) - 1 + 1 ELSE 0
      /\ \A i \in 1 .. (k - 1) - 1 + 1 : SubSeq(s, 1, k - 1)[i] = s[1 + i - 1]
  <2>1. \A i \in 1 .. k - 1 : s[i] \in S
    BY <1>1
  <2> QED BY <1>1, <2>1, SubSeqProperties
<1>3. /\ SubSeq(s, k, Len(s)) \in Seq(S)
      /\ Len(SubSeq(s, k, Len(s))) = IF k <= Len(s) THEN Len(s) - k + 1 ELSE 0
      /\ \A i \in 1 .. Len(s) - k + 1 : SubSeq(s, k, Len(s))[i] = s[k + i - 1]
  <2>1. \A i \in k .. Len(s) : s[i] \in S
    BY <1>1
  <2> QED BY <1>1, <2>1, SubSeqProperties
<1> DEFINE a == Before(s, k)
           b == Suffix(s, k)
<1>4. /\ a \in Seq(S) /\ Len(a) = k - 1
      /\ \A i \in 1 .. k - 1 : a[i] = s[i]
  BY <1>1, <1>2 DEF Before
<1>5. /\ b \in Seq(S) /\ Len(b) = Len(s) + 1 - k
      /\ \A i \in 1 .. Len(s) + 1 - k : b[i] = s[k - 1 + i]
  BY <1>1, <1>3 DEF Suffix
<1> HIDE DEF a, b
<1>6. s = a \o b
  <2>1. a \o b \in Seq(S) /\ Len(a \o b) = Len(s)
    BY <1>1, <1>4, <1>5
  <2>2. ASSUME NEW i \in 1 .. Len(s) PROVE (a \o b)[i] = s[i]
    <3>1. CASE i <= k - 1
      BY <1>1, <1>4, <1>5, <3>1
    <3>2. CASE ~(i <= k - 1)
      <4>1. i - (k - 1) \in 1 .. Len(s) + 1 - k /\ k - 1 + (i - (k - 1)) = i
        BY <1>1, <3>2
      <4>2. (a \o b)[i] = b[i - (k - 1)]
        BY <1>1, <1>4, <1>5, <3>2
      <4> QED BY <1>5, <4>1, <4>2
    <3> QED BY <3>1, <3>2
  <2> QED BY <2>1, <2>2, SeqEqual
<1> QED BY <1>4, <1>5, <1>6 DEF a, b

\* What is joined on comes after the length of what was there.
LEMMA Joining ==
  ASSUME NEW S, NEW s \in Seq(S), NEW t \in Seq(S)
  PROVE  /\ s \o t \in Seq(S) /\ Len(s \o t) = Len(s) + Len(t)
         /\ Len(s) \in Nat /\ Len(t) \in Nat
         /\ \A i \in 1 .. Len(s) : (s \o t)[i] = s[i]
         /\ \A i \in 1 .. Len(t) : (s \o t)[Len(s) + i] = t[i]
         /\ DOMAIN s = 1 .. Len(s) /\ DOMAIN t = 1 .. Len(t)
         /\ DOMAIN (s \o t) = 1 .. Len(s) + Len(t)
OBVIOUS

\* The first of the places where more may follow, or the text's end.
LEMMA HeldAt ==
  ASSUME NEW S, NEW s \in Seq(S), NEW M \in SUBSET (1 .. Len(s))
  PROVE  /\ HeldFrom(s, M) \in 1 .. Len(s) + 1
         /\ HeldFrom(s, M) \in M \/ HeldFrom(s, M) = Len(s) + 1
         /\ \A m \in M : HeldFrom(s, M) <= m
<1> DEFINE U == M \cup {Len(s) + 1}
<1>1. Len(s) \in Nat
  OBVIOUS
<1>2. U \subseteq Nat /\ U # {} /\ U \subseteq 1 .. Len(s) + 1
  <2>1. \A m \in M : m \in 1 .. Len(s)
    OBVIOUS
  <2>2. \A m \in U : m \in 1 .. Len(s) + 1 /\ m \in Nat
    BY <1>1, <2>1
  <2> QED BY <2>2
<1>3. \E x \in U : \A y \in U : x <= y
  <2> HIDE DEF U
  <2> QED BY <1>2, SmallestOf
<1>4. HeldFrom(s, M) \in U /\ \A y \in U : HeldFrom(s, M) <= y
  <2> HIDE DEF U
  <2>1. Min(U) \in U /\ \A y \in U : Min(U) <= y
    BY <1>3 DEF Min
  <2> QED BY <2>1 DEF HeldFrom, U
<1> QED BY <1>2, <1>4

-----------------------------------------------------------------------------
\* Markers.

\* A marker ends at its first bracket.
LEMMA OneEnd ==
  ASSUME NEW t \in Seq(Sign), NEW i \in 1 .. Len(t),
         NEW j \in MarkerAt(t, i), NEW k \in MarkerAt(t, i)
  PROVE  j = k
<1>1. /\ j \in i + 2 .. Len(t) /\ k \in i + 2 .. Len(t)
      /\ t[j] = "]" /\ t[k] = "]"
      /\ \A m \in i + 1 .. j - 1 : t[m] \in Digits
      /\ \A m \in i + 1 .. k - 1 : t[m] \in Digits
  BY DEF MarkerAt
<1>2. "]" \notin Digits
  BY Signs
<1>3. i \in Nat /\ Len(t) \in Nat
  OBVIOUS
<1>4. CASE j < k
  <2>1. j \in i + 1 .. k - 1
    BY <1>1, <1>3, <1>4
  <2> QED BY <1>1, <1>2, <2>1
<1>5. CASE k < j
  <2>1. k \in i + 1 .. j - 1
    BY <1>1, <1>3, <1>5
  <2> QED BY <1>1, <1>2, <2>1
<1> QED BY <1>1, <1>3, <1>4, <1>5

\* No marker of s \o t begins in s and ends in t.
Apart(s, t) == \A i \in 1 .. Len(s) : \A j \in MarkerAt(s \o t, i) : j <= Len(s)

\* The markers of a text's beginning are those it has on its own.
LEMMA MarkersBefore ==
  ASSUME NEW s \in Seq(Sign), NEW t \in Seq(Sign), Apart(s, t), NEW i \in 1 .. Len(s)
  PROVE  MarkerAt(s \o t, i) = MarkerAt(s, i)
<1> DEFINE u == s \o t
<1>1. /\ Len(u) = Len(s) + Len(t) /\ Len(s) \in Nat /\ Len(t) \in Nat
      /\ \A m \in 1 .. Len(s) : u[m] = s[m]
  BY Joining
<1>2. \A j \in MarkerAt(u, i) : j <= Len(s)
  BY DEF Apart
<1> HIDE DEF u
<1>3. ASSUME NEW j \in MarkerAt(u, i) PROVE j \in MarkerAt(s, i)
  <2>1. /\ j \in i + 2 .. Len(u) /\ u[i] = "[" /\ u[j] = "]"
        /\ \A m \in i + 1 .. j - 1 : u[m] \in Digits
    BY DEF MarkerAt
  <2>2. j \in i + 2 .. Len(s) /\ \A m \in i + 1 .. j - 1 : m \in 1 .. Len(s)
    BY <1>1, <1>2, <2>1
  <2>3. s[i] = "[" /\ s[j] = "]" /\ \A m \in i + 1 .. j - 1 : s[m] \in Digits
    BY <1>1, <2>1, <2>2
  <2> QED BY <2>2, <2>3 DEF MarkerAt
<1>4. ASSUME NEW j \in MarkerAt(s, i) PROVE j \in MarkerAt(u, i)
  <2>1. /\ j \in i + 2 .. Len(s) /\ s[i] = "[" /\ s[j] = "]"
        /\ \A m \in i + 1 .. j - 1 : s[m] \in Digits
    BY DEF MarkerAt
  <2>2. j \in i + 2 .. Len(u) /\ \A m \in i + 1 .. j - 1 : m \in 1 .. Len(s)
    BY <1>1, <2>1
  <2>3. u[i] = "[" /\ u[j] = "]" /\ \A m \in i + 1 .. j - 1 : u[m] \in Digits
    BY <1>1, <2>1, <2>2
  <2> QED BY <2>2, <2>3 DEF MarkerAt
<1> QED BY <1>3, <1>4 DEF u

\* And those of its end, further on.
LEMMA MarkersAfter ==
  ASSUME NEW s \in Seq(Sign), NEW t \in Seq(Sign), NEW i \in 1 .. Len(t)
  PROVE  /\ \A j \in MarkerAt(s \o t, Len(s) + i) : j - Len(s) \in MarkerAt(t, i)
         /\ \A j \in MarkerAt(t, i) : Len(s) + j \in MarkerAt(s \o t, Len(s) + i)
<1> DEFINE u == s \o t
           n == Len(s)
<1>1. /\ Len(u) = n + Len(t) /\ n \in Nat /\ Len(t) \in Nat
      /\ \A m \in 1 .. Len(t) : u[n + m] = t[m]
  BY Joining
<1> HIDE DEF u, n
<1>2. ASSUME NEW j \in MarkerAt(u, n + i) PROVE j - n \in MarkerAt(t, i)
  <2>1. /\ j \in n + i + 2 .. Len(u) /\ u[n + i] = "[" /\ u[j] = "]"
        /\ \A m \in n + i + 1 .. j - 1 : u[m] \in Digits
    BY DEF MarkerAt
  <2>2. /\ j - n \in i + 2 .. Len(t) /\ j - n \in 1 .. Len(t) /\ n + (j - n) = j
        /\ \A m \in i + 1 .. (j - n) - 1 : m \in 1 .. Len(t) /\ n + m \in n + i + 1 .. j - 1
    BY <1>1, <2>1
  <2>3. /\ t[i] = "[" /\ t[j - n] = "]"
        /\ \A m \in i + 1 .. (j - n) - 1 : t[m] \in Digits
    BY <1>1, <2>1, <2>2
  <2> QED BY <2>2, <2>3 DEF MarkerAt
<1>3. ASSUME NEW j \in MarkerAt(t, i) PROVE n + j \in MarkerAt(u, n + i)
  <2>1. /\ j \in i + 2 .. Len(t) /\ t[i] = "[" /\ t[j] = "]"
        /\ \A m \in i + 1 .. j - 1 : t[m] \in Digits
    BY DEF MarkerAt
  <2>2. /\ n + j \in n + i + 2 .. Len(u) /\ j \in 1 .. Len(t)
        /\ \A m \in n + i + 1 .. n + j - 1 : m - n \in i + 1 .. j - 1 /\ m - n \in 1 .. Len(t)
                                             /\ n + (m - n) = m
    BY <1>1, <2>1
  <2>3. u[n + i] = "[" /\ u[n + j] = "]"
    BY <1>1, <2>1, <2>2
  <2>4. ASSUME NEW m \in n + i + 1 .. n + j - 1 PROVE u[m] \in Digits
    <3> DEFINE d == m - n
    <3>1. d \in i + 1 .. j - 1 /\ d \in 1 .. Len(t) /\ n + d = m
      BY <2>2
    <3> HIDE DEF d
    <3>2. u[n + d] = t[d] /\ t[d] \in Digits
      BY <1>1, <2>1, <3>1
    <3> QED BY <3>1, <3>2
  <2> DEFINE a == n + i
             e == n + j
  <2>5. /\ e \in a + 2 .. Len(u) /\ u[a] = "[" /\ u[e] = "]"
        /\ \A m \in a + 1 .. e - 1 : u[m] \in Digits
    <3>1. e \in a + 2 .. Len(u) /\ u[a] = "[" /\ u[e] = "]"
      BY <2>2, <2>3
    <3>2. j \in Int /\ n + (j - 1) = (n + j) - 1
      BY <1>1, <2>1
    <3>3. \A m \in a + 1 .. e - 1 : u[m] \in Digits
      BY <2>4, <3>2
    <3> QED BY <3>1, <3>3
  <2> HIDE DEF a, e
  <2>6. e \in MarkerAt(u, a)
    BY <2>5 DEF MarkerAt
  <2> QED BY <2>6 DEF a, e
<1>4. /\ \A j \in MarkerAt(u, n + i) : j - n \in MarkerAt(t, i)
      /\ \A j \in MarkerAt(t, i) : n + j \in MarkerAt(u, n + i)
  BY <1>2, <1>3
<1> QED BY <1>4, Zenon DEF u, n

\* A marker's id is what it holds.
LEMMA IdIs ==
  ASSUME NEW t \in Seq(Sign), NEW i \in 1 .. Len(t), NEW j \in MarkerAt(t, i)
  PROVE  /\ IdAt(t, i) = SubSeq(t, i + 1, j - 1) /\ IdAt(t, i) \in Seq(Sign)
         /\ Cites(t, i) /\ j \in i + 2 .. Len(t)
<1>1. (CHOOSE k \in MarkerAt(t, i) : TRUE) = j
  BY OneEnd
<1>2. IdAt(t, i) = SubSeq(t, i + 1, j - 1)
  BY <1>1 DEF IdAt
<1>3. j \in i + 2 .. Len(t) /\ i \in Nat /\ Len(t) \in Nat
  BY DEF MarkerAt
<1>4. SubSeq(t, i + 1, j - 1) \in Seq(Sign)
  <2>1. i + 1 \in Int /\ j - 1 \in Int /\ \A m \in i + 1 .. j - 1 : t[m] \in Sign
    BY <1>3
  <2> QED BY <2>1, SubSeqProperties
<1>5. Cites(t, i)
  BY DEF Cites
<1> QED BY <1>2, <1>3, <1>4, <1>5

\* What a symbol of the first part is, it is in the whole.
LEMMA FirstPart ==
  ASSUME NEW s \in Seq(Sign), NEW t \in Seq(Sign), Apart(s, t), NEW i \in 1 .. Len(s)
  PROVE  /\ Cites(s \o t, i) <=> Cites(s, i)
         /\ Cites(s, i) => IdAt(s \o t, i) = IdAt(s, i)
         /\ InMarker(s \o t, i) <=> InMarker(s, i)
<1> DEFINE u == s \o t
<1>1. \A h \in 1 .. Len(s) : MarkerAt(u, h) = MarkerAt(s, h)
  BY MarkersBefore
<1>2. u \in Seq(Sign) /\ Len(s) \in Nat /\ Len(u) = Len(s) + Len(t) /\ Len(t) \in Nat
  BY Joining
<1> HIDE DEF u
<1>3. 1 .. i \subseteq 1 .. Len(s)
  BY <1>2
<1>4. Cites(u, i) <=> Cites(s, i)
  BY <1>1 DEF Cites
<1>5. InMarker(u, i) <=> InMarker(s, i)
  BY <1>1, <1>3 DEF InMarker
<1>6. ASSUME Cites(s, i) PROVE IdAt(u, i) = IdAt(s, i)
  <2>1. PICK j : j \in MarkerAt(s, i)
    BY <1>6 DEF Cites
  <2>2. j \in MarkerAt(u, i) /\ i \in 1 .. Len(u)
    BY <1>1, <1>2, <2>1
  <2>3. IdAt(s, i) = SubSeq(s, i + 1, j - 1) /\ j \in i + 2 .. Len(s)
    BY <2>1, IdIs
  <2>4. IdAt(u, i) = SubSeq(u, i + 1, j - 1)
    BY <1>2, <2>2, IdIs
  <2>5. SubSeq(u, i + 1, j - 1) = SubSeq(s, i + 1, j - 1)
    <3>1. i + 1 \in 1 .. Len(s) /\ j - 1 \in 1 .. Len(s)
      BY <1>2, <2>3
    <3> QED BY <3>1, SubSeqOfConcat1 DEF u
  <2> QED BY <2>3, <2>4, <2>5
<1> QED BY <1>4, <1>5, <1>6 DEF u

\* And of the second.
LEMMA SecondPart ==
  ASSUME NEW s \in Seq(Sign), NEW t \in Seq(Sign), Apart(s, t), NEW i \in 1 .. Len(t)
  PROVE  /\ Cites(s \o t, Len(s) + i) <=> Cites(t, i)
         /\ Cites(t, i) => IdAt(s \o t, Len(s) + i) = IdAt(t, i)
         /\ InMarker(s \o t, Len(s) + i) <=> InMarker(t, i)
<1> DEFINE u == s \o t
           n == Len(s)
<1>1. \A h \in 1 .. Len(t) :
        /\ \A j \in MarkerAt(u, n + h) : j - n \in MarkerAt(t, h)
        /\ \A j \in MarkerAt(t, h) : n + j \in MarkerAt(u, n + h)
  BY MarkersAfter
<1>2. u \in Seq(Sign) /\ n \in Nat /\ Len(u) = n + Len(t) /\ Len(t) \in Nat
  BY Joining
<1>3. \A h \in 1 .. n : \A j \in MarkerAt(u, h) : j <= n
  BY DEF Apart
<1> HIDE DEF u, n
<1>4. \A h \in 1 .. Len(t) : \A j \in MarkerAt(t, h) : j \in h + 2 .. Len(t)
  BY DEF MarkerAt
<1>5. \A h \in 1 .. Len(u) : \A j \in MarkerAt(u, h) : j \in h + 2 .. Len(u)
  BY DEF MarkerAt
<1>6. Cites(u, n + i) <=> Cites(t, i)
  BY <1>1 DEF Cites
<1>7. ASSUME InMarker(u, n + i) PROVE InMarker(t, i)
  <2>1. PICK h \in 1 .. n + i : \E j \in MarkerAt(u, h) : n + i <= j
    BY <1>7 DEF InMarker
  <2>2. PICK j \in MarkerAt(u, h) : n + i <= j
    BY <2>1
  <2>3. h \in 1 .. Len(u) /\ j \in h + 2 .. Len(u)
    BY <1>2, <1>5, <2>2
  <2>4. h \notin 1 .. n
    BY <1>2, <1>3, <2>2, <2>3
  <2>5. h - n \in 1 .. i /\ h - n \in 1 .. Len(t) /\ n + (h - n) = h /\ i <= j - n
    BY <1>2, <2>2, <2>3, <2>4
  <2>6. j - n \in MarkerAt(t, h - n)
    BY <1>1, <2>2, <2>5
  <2> QED BY <2>5, <2>6 DEF InMarker
<1>8. ASSUME InMarker(t, i) PROVE InMarker(u, n + i)
  <2>1. PICK h \in 1 .. i : \E j \in MarkerAt(t, h) : i <= j
    BY <1>8 DEF InMarker
  <2>2. PICK j \in MarkerAt(t, h) : i <= j
    BY <2>1
  <2>3. h \in 1 .. Len(t) /\ n + h \in 1 .. n + i
    BY <1>2
  <2>4. n + j \in MarkerAt(u, n + h) /\ j \in h + 2 .. Len(t)
    BY <1>1, <1>4, <2>2, <2>3
  <2>5. n + i <= n + j
    BY <1>2, <2>2, <2>4
  <2> QED BY <2>3, <2>4, <2>5 DEF InMarker
<1>9. ASSUME Cites(t, i) PROVE IdAt(u, n + i) = IdAt(t, i)
  <2>1. PICK j : j \in MarkerAt(t, i)
    BY <1>9 DEF Cites
  <2>2. n + j \in MarkerAt(u, n + i) /\ n + i \in 1 .. Len(u)
    BY <1>1, <1>2, <2>1
  <2>3. IdAt(t, i) = SubSeq(t, i + 1, j - 1) /\ j \in i + 2 .. Len(t)
    BY <2>1, IdIs
  <2>4. IdAt(u, n + i) = SubSeq(u, (n + i) + 1, (n + j) - 1)
    <3> DEFINE e == n + j
               h == n + i
    <3>1. e \in MarkerAt(u, h) /\ h \in 1 .. Len(u)
      BY <2>2
    <3> HIDE DEF e, h
    <3>2. IdAt(u, h) = SubSeq(u, h + 1, e - 1)
      BY <1>2, <3>1, IdIs
    <3> QED BY <3>2 DEF e, h
  <2>5. SubSeq(u, (n + i) + 1, (n + j) - 1) = SubSeq(t, i + 1, j - 1)
    <3>1. /\ (n + i) + 1 \in n + 1 .. n + Len(t) /\ (n + j) - 1 \in n + 1 .. n + Len(t)
          /\ ((n + i) + 1) - n = i + 1 /\ ((n + j) - 1) - n = j - 1
      BY <1>2, <2>3
    <3> DEFINE a == (n + i) + 1
               b == (n + j) - 1
    <3>2. a \in Len(s) + 1 .. Len(s) + Len(t) /\ b \in Len(s) + 1 .. Len(s) + Len(t)
      BY <3>1 DEF n
    <3>3. a - n = i + 1 /\ b - n = j - 1
      BY <3>1
    <3> HIDE DEF a, b
    <3>4. SubSeq(s \o t, a, b) = SubSeq(t, a - Len(s), b - Len(s))
      BY <3>2, SubSeqOfConcat2
    <3> QED BY <3>3, <3>4 DEF u, n, a, b
  <2> QED BY <2>3, <2>4, <2>5
<1>10. /\ Cites(u, n + i) <=> Cites(t, i)
       /\ Cites(t, i) => IdAt(u, n + i) = IdAt(t, i)
       /\ InMarker(u, n + i) <=> InMarker(t, i)
  BY <1>6, <1>7, <1>8, <1>9
<1> QED BY <1>10 DEF u, n

-----------------------------------------------------------------------------
\* What becomes of a text is a text.

IdParts(t)     == [i \in DOMAIN t |-> IF Cites(t, i) THEN <<IdAt(t, i)>> ELSE <<>>]
PlainParts(t)  == [i \in DOMAIN t |->
                     IF InMarker(t, i) \/ (t[i] = " " /\ InMarker(t, i + 1))
                     THEN <<>> ELSE <<t[i]>>]
NumberParts(t, cited) ==
  [i \in DOMAIN t |-> IF Cites(t, i) THEN Number(IdAt(t, i), cited)
                      ELSE IF InMarker(t, i) THEN <<>> ELSE <<t[i]>>]
RevealParts(t) ==
  [i \in DOMAIN t |->
     IF HeldTag(t, i) THEN <<Value[t[i + 1]]>>
     ELSE IF HeldTag(t, i - 1) \/ HeldTag(t, i - 2) THEN <<>> ELSE <<t[i]>>]
LetterParts(t) == [i \in DOMAIN t |-> IF t[i] \in Blank THEN <<>> ELSE <<t[i]>>]

\* What becomes of a text is what becomes of its symbols, joined.
LEMMA Parts ==
  ASSUME NEW t, NEW cited
  PROVE  /\ Ids(t) = FlattenSeq(IdParts(t))
         /\ Unmarked(t) = FlattenSeq(PlainParts(t))
         /\ Renumbered(t, cited) = FlattenSeq(NumberParts(t, cited))
         /\ Revealed(t) = FlattenSeq(RevealParts(t))
         /\ Unspaced(t) = FlattenSeq(LetterParts(t))
BY DEF Ids, Unmarked, Renumbered, Revealed, Unspaced,
       IdParts, PlainParts, NumberParts, RevealParts, LetterParts

\* What takes a marker's place is a text.
LEMMA NumberIs ==
  ASSUME NEW id, NEW cited \in Seq(Seq(Sign))
  PROVE  Number(id, cited) \in Seq(Sign)
<1> DEFINE M == {n \in DOMAIN cited : cited[n] = id}
<1>1. M \subseteq Nat
  OBVIOUS
<1>2. Min(M) \in Nat \cup {Min({})}
  <2> HIDE DEF M
  <2>1. CASE M = {}
    BY <2>1
  <2>2. CASE M # {}
    <3>1. \E x \in M : \A y \in M : x <= y
      BY <1>1, <2>2, SmallestOf
    <3> QED BY <1>1, <3>1 DEF Min
  <2> QED BY <2>1, <2>2
<1> DEFINE d == Numeral[Min(M)]
<1>3. d \in Sign
  BY <1>2 DEF Sign
<1>4. Number(id, cited) = IF id \in Known THEN <<"[", d, "]">> ELSE <<>>
  BY DEF Number
<1> HIDE DEF d
<1>5. "[" \in Sign /\ "]" \in Sign
  BY Signs
<1>6. <<"[", d, "]">> \in Seq(Sign) /\ <<>> \in Seq(Sign)
  BY <1>3, <1>5
<1> QED BY <1>4, <1>6

\* What becomes of each symbol is a text.
LEMMA PartsAre ==
  ASSUME NEW t \in Seq(Sign), NEW cited \in Seq(Seq(Sign))
  PROVE  /\ IdParts(t) \in Seq(Seq(Seq(Sign))) /\ Len(IdParts(t)) = Len(t)
         /\ PlainParts(t) \in Seq(Seq(Sign)) /\ Len(PlainParts(t)) = Len(t)
         /\ NumberParts(t, cited) \in Seq(Seq(Sign)) /\ Len(NumberParts(t, cited)) = Len(t)
         /\ RevealParts(t) \in Seq(Seq(Sign)) /\ Len(RevealParts(t)) = Len(t)
         /\ LetterParts(t) \in Seq(Seq(Sign)) /\ Len(LetterParts(t)) = Len(t)
<1>1. DOMAIN t = 1 .. Len(t) /\ Len(t) \in Nat /\ \A i \in 1 .. Len(t) : t[i] \in Sign
  OBVIOUS
<1>2. \A i \in 1 .. Len(t) : <<t[i]>> \in Seq(Sign) /\ <<>> \in Seq(Sign)
  BY <1>1
<1>3. \A i \in 1 .. Len(t) :
        (IF Cites(t, i) THEN <<IdAt(t, i)>> ELSE <<>>) \in Seq(Seq(Sign))
  <2> SUFFICES ASSUME NEW i \in 1 .. Len(t), Cites(t, i) PROVE <<IdAt(t, i)>> \in Seq(Seq(Sign))
    OBVIOUS
  <2>1. IdAt(t, i) \in Seq(Sign)
    BY IdIs DEF Cites
  <2> HIDE DEF Cites
  <2> QED BY <2>1
<1>4. \A i \in 1 .. Len(t) :
        (IF HeldTag(t, i) THEN <<Value[t[i + 1]]>>
         ELSE IF HeldTag(t, i - 1) \/ HeldTag(t, i - 2) THEN <<>> ELSE <<t[i]>>) \in Seq(Sign)
  <2> SUFFICES ASSUME NEW i \in 1 .. Len(t), HeldTag(t, i) PROVE <<Value[t[i + 1]]>> \in Seq(Sign)
    BY <1>2
  <2>1. Value[t[i + 1]] \in Sign
    BY DEF HeldTag, Sign
  <2> QED BY <2>1
<1>5. \A id : Number(id, cited) \in Seq(Sign)
  BY NumberIs
<1>6. IdParts(t) \in [1 .. Len(t) -> Seq(Seq(Sign))]
  BY <1>1, <1>3 DEF IdParts
<1>7. PlainParts(t) \in [1 .. Len(t) -> Seq(Sign)]
  BY <1>1, <1>2 DEF PlainParts
<1>8. NumberParts(t, cited) \in [1 .. Len(t) -> Seq(Sign)]
  BY <1>1, <1>2, <1>5 DEF NumberParts
<1>9. RevealParts(t) \in [1 .. Len(t) -> Seq(Sign)]
  BY <1>1, <1>4 DEF RevealParts
<1>10. LetterParts(t) \in [1 .. Len(t) -> Seq(Sign)]
  BY <1>1, <1>2 DEF LetterParts
<1>11. \A S : \A f \in [1 .. Len(t) -> S] : f \in Seq(S) /\ Len(f) = Len(t)
  BY <1>1
<1> QED BY <1>6, <1>7, <1>8, <1>9, <1>10, <1>11

\* What becomes of a text is a text, and its ids are.
LEMMA TextsAre ==
  ASSUME NEW t \in Seq(Sign), NEW cited \in Seq(Seq(Sign))
  PROVE  /\ Ids(t) \in Seq(Seq(Sign)) /\ Unmarked(t) \in Seq(Sign)
         /\ Renumbered(t, cited) \in Seq(Sign) /\ Revealed(t) \in Seq(Sign)
         /\ Unspaced(t) \in Seq(Sign)
BY Parts, PartsAre, FlattenPlaces

\* A text read in two parts.
LEMMA LettersJoin ==
  ASSUME NEW s \in Seq(Sign), NEW t \in Seq(Sign)
  PROVE  Unspaced(s \o t) = Unspaced(s) \o Unspaced(t)
<1> DEFINE u == s \o t
           f == LetterParts(u)
           g == LetterParts(s)
           h == LetterParts(t)
<1>1. u \in Seq(Sign) /\ DOMAIN u = 1 .. Len(s) + Len(t)
  BY Joining
<1>2. <<>> \in Seq(Seq(Sign))
  OBVIOUS
<1>3. f \in Seq(Seq(Sign)) /\ g \in Seq(Seq(Sign)) /\ h \in Seq(Seq(Sign))
      /\ Len(f) = Len(s) + Len(t) /\ Len(g) = Len(s) /\ Len(h) = Len(t)
  <2> HIDE DEF f, g, h, u
  <2>1. f \in Seq(Seq(Sign)) /\ Len(f) = Len(u)
    BY <1>1, <1>2, PartsAre DEF f
  <2>2. g \in Seq(Seq(Sign)) /\ Len(g) = Len(s) /\ h \in Seq(Seq(Sign)) /\ Len(h) = Len(t)
    BY <1>2, PartsAre DEF g, h
  <2>3. Len(u) = Len(s) + Len(t)
    BY Joining DEF u
  <2> QED BY <2>1, <2>2, <2>3
<1>4. \A i \in 1 .. Len(s) : u[i] = s[i] /\ i \in 1 .. Len(s) + Len(t)
  BY Joining
<1>5. \A i \in 1 .. Len(t) : u[Len(s) + i] = t[i] /\ Len(s) + i \in 1 .. Len(s) + Len(t)
  BY Joining
<1>6. DOMAIN s = 1 .. Len(s) /\ DOMAIN t = 1 .. Len(t)
  OBVIOUS
<1> HIDE DEF u
<1>7. \A i \in 1 .. Len(s) : f[i] = g[i]
  BY <1>1, <1>4, <1>6 DEF LetterParts
<1>8. \A i \in 1 .. Len(t) : f[Len(s) + i] = h[i]
  BY <1>1, <1>5, <1>6 DEF LetterParts
<1> HIDE DEF f, g, h
<1>9. FlattenSeq(f) = FlattenSeq(g) \o FlattenSeq(h)
  <2>1. Len(f) = Len(g) + Len(h)
    BY <1>3
  <2>2. \A i \in 1 .. Len(g) : f[i] = g[i]
    BY <1>3, <1>7
  <2>3. \A i \in 1 .. Len(h) : f[Len(g) + i] = h[i]
    BY <1>3, <1>8
  <2> QED BY <1>3, <2>1, <2>2, <2>3, FlattenParts
<1> QED BY <1>9, Parts DEF f, g, h, u

\* Its ids.
LEMMA IdsJoin ==
  ASSUME NEW s \in Seq(Sign), NEW t \in Seq(Sign), Apart(s, t)
  PROVE  Ids(s \o t) = Ids(s) \o Ids(t)
<1> DEFINE u == s \o t
           f == IdParts(u)
           g == IdParts(s)
           h == IdParts(t)
<1>1. u \in Seq(Sign) /\ DOMAIN u = 1 .. Len(s) + Len(t)
  BY Joining
<1>2. <<>> \in Seq(Seq(Sign))
  OBVIOUS
<1>3. f \in Seq(Seq(Seq(Sign))) /\ g \in Seq(Seq(Seq(Sign))) /\ h \in Seq(Seq(Seq(Sign)))
      /\ Len(f) = Len(s) + Len(t) /\ Len(g) = Len(s) /\ Len(h) = Len(t)
  <2> HIDE DEF f, g, h, u
  <2>1. f \in Seq(Seq(Seq(Sign))) /\ Len(f) = Len(u)
    BY <1>1, <1>2, PartsAre DEF f
  <2>2. g \in Seq(Seq(Seq(Sign))) /\ Len(g) = Len(s) /\ h \in Seq(Seq(Seq(Sign))) /\ Len(h) = Len(t)
    BY <1>2, PartsAre DEF g, h
  <2>3. Len(u) = Len(s) + Len(t)
    BY Joining DEF u
  <2> QED BY <2>1, <2>2, <2>3
<1>4. \A i \in 1 .. Len(s) : (Cites(u, i) <=> Cites(s, i)) /\ (Cites(s, i) => IdAt(u, i) = IdAt(s, i))
  BY FirstPart
<1>5. \A i \in 1 .. Len(t) : /\ Cites(u, Len(s) + i) <=> Cites(t, i)
                             /\ Cites(t, i) => IdAt(u, Len(s) + i) = IdAt(t, i)
  BY SecondPart
<1>6. /\ DOMAIN s = 1 .. Len(s) /\ DOMAIN t = 1 .. Len(t)
      /\ \A i \in 1 .. Len(s) : i \in 1 .. Len(s) + Len(t)
      /\ \A i \in 1 .. Len(t) : Len(s) + i \in 1 .. Len(s) + Len(t)
  OBVIOUS
<1> HIDE DEF u
<1>7. \A i \in 1 .. Len(s) : f[i] = g[i]
  BY <1>1, <1>4, <1>6 DEF IdParts
<1>8. \A i \in 1 .. Len(t) : f[Len(s) + i] = h[i]
  BY <1>1, <1>5, <1>6 DEF IdParts
<1> HIDE DEF f, g, h
<1>9. FlattenSeq(f) = FlattenSeq(g) \o FlattenSeq(h)
  <2>1. Len(f) = Len(g) + Len(h)
    BY <1>3
  <2>2. \A i \in 1 .. Len(g) : f[i] = g[i]
    BY <1>3, <1>7
  <2>3. \A i \in 1 .. Len(h) : f[Len(g) + i] = h[i]
    BY <1>3, <1>8
  <2> QED BY <1>3, <2>1, <2>2, <2>3, FlattenParts
<1> QED BY <1>9, Parts DEF f, g, h, u

\* Its markers, numbered.
LEMMA NumbersJoin ==
  ASSUME NEW s \in Seq(Sign), NEW t \in Seq(Sign), Apart(s, t), NEW cited \in Seq(Seq(Sign))
  PROVE  Renumbered(s \o t, cited) = Renumbered(s, cited) \o Renumbered(t, cited)
<1> DEFINE u == s \o t
           f == NumberParts(u, cited)
           g == NumberParts(s, cited)
           h == NumberParts(t, cited)
<1>1. u \in Seq(Sign) /\ DOMAIN u = 1 .. Len(s) + Len(t)
  BY Joining
<1>3. f \in Seq(Seq(Sign)) /\ g \in Seq(Seq(Sign)) /\ h \in Seq(Seq(Sign))
      /\ Len(f) = Len(s) + Len(t) /\ Len(g) = Len(s) /\ Len(h) = Len(t)
  <2> HIDE DEF f, g, h, u
  <2>1. f \in Seq(Seq(Sign)) /\ Len(f) = Len(u)
    BY <1>1, PartsAre DEF f
  <2>2. g \in Seq(Seq(Sign)) /\ Len(g) = Len(s) /\ h \in Seq(Seq(Sign)) /\ Len(h) = Len(t)
    BY PartsAre DEF g, h
  <2>3. Len(u) = Len(s) + Len(t)
    BY Joining DEF u
  <2> QED BY <2>1, <2>2, <2>3
<1>4. \A i \in 1 .. Len(s) :
        /\ Cites(u, i) <=> Cites(s, i)
        /\ Cites(s, i) => IdAt(u, i) = IdAt(s, i)
        /\ InMarker(u, i) <=> InMarker(s, i)
        /\ u[i] = s[i]
  BY FirstPart, Joining
<1>5. \A i \in 1 .. Len(t) :
        /\ Cites(u, Len(s) + i) <=> Cites(t, i)
        /\ Cites(t, i) => IdAt(u, Len(s) + i) = IdAt(t, i)
        /\ InMarker(u, Len(s) + i) <=> InMarker(t, i)
        /\ u[Len(s) + i] = t[i]
  BY SecondPart, Joining
<1>6. /\ DOMAIN s = 1 .. Len(s) /\ DOMAIN t = 1 .. Len(t)
      /\ \A i \in 1 .. Len(s) : i \in 1 .. Len(s) + Len(t)
      /\ \A i \in 1 .. Len(t) : Len(s) + i \in 1 .. Len(s) + Len(t)
  OBVIOUS
<1> HIDE DEF u
<1>7. \A i \in 1 .. Len(s) : f[i] = g[i]
  BY <1>1, <1>4, <1>6 DEF NumberParts
<1>8. \A i \in 1 .. Len(t) : f[Len(s) + i] = h[i]
  BY <1>1, <1>5, <1>6 DEF NumberParts
<1> HIDE DEF f, g, h
<1>9. FlattenSeq(f) = FlattenSeq(g) \o FlattenSeq(h)
  <2>1. Len(f) = Len(g) + Len(h)
    BY <1>3
  <2>2. \A i \in 1 .. Len(g) : f[i] = g[i]
    BY <1>3, <1>7
  <2>3. \A i \in 1 .. Len(h) : f[Len(g) + i] = h[i]
    BY <1>3, <1>8
  <2> QED BY <1>3, <2>1, <2>2, <2>3, FlattenParts
<1> QED BY <1>9, Parts DEF f, g, h, u

\* The space a marker of t would take along is not s's last.
SpaceStays(s, t) == ~(s # <<>> /\ s[Len(s)] = " " /\ InMarker(t, 1))

\* No marker reaches beyond the end.
LEMMA NoneBeyond ==
  ASSUME NEW s \in Seq(Sign), NEW k \in Nat, k > Len(s)
  PROVE  ~InMarker(s, k)
<1>1. \A i \in 1 .. k : \A j \in MarkerAt(s, i) : j <= Len(s)
  BY DEF MarkerAt
<1>2. \A i \in 1 .. k : \A j \in MarkerAt(s, i) : j \in Nat
  BY DEF MarkerAt
<1>3. Len(s) \in Nat
  OBVIOUS
<1> QED BY <1>1, <1>2, <1>3 DEF InMarker

\* A text without its markers.
LEMMA PlainJoin ==
  ASSUME NEW s \in Seq(Sign), NEW t \in Seq(Sign), Apart(s, t), SpaceStays(s, t)
  PROVE  Unmarked(s \o t) = Unmarked(s) \o Unmarked(t)
<1> DEFINE u == s \o t
           f == PlainParts(u)
           g == PlainParts(s)
           h == PlainParts(t)
<1>1. u \in Seq(Sign) /\ DOMAIN u = 1 .. Len(s) + Len(t) /\ Len(u) = Len(s) + Len(t)
      /\ Len(s) \in Nat /\ Len(t) \in Nat
  BY Joining
<1>2. <<>> \in Seq(Seq(Sign))
  OBVIOUS
<1>3. f \in Seq(Seq(Sign)) /\ g \in Seq(Seq(Sign)) /\ h \in Seq(Seq(Sign))
      /\ Len(f) = Len(s) + Len(t) /\ Len(g) = Len(s) /\ Len(h) = Len(t)
  <2> HIDE DEF f, g, h, u
  <2>1. f \in Seq(Seq(Sign)) /\ Len(f) = Len(u)
    BY <1>1, <1>2, PartsAre DEF f
  <2>2. g \in Seq(Seq(Sign)) /\ Len(g) = Len(s) /\ h \in Seq(Seq(Sign)) /\ Len(h) = Len(t)
    BY <1>2, PartsAre DEF g, h
  <2> QED BY <2>1, <2>2, <1>1
<1>4. \A i \in 1 .. Len(s) : (InMarker(u, i) <=> InMarker(s, i)) /\ u[i] = s[i]
  BY FirstPart, Joining
<1>5. \A i \in 1 .. Len(t) : (InMarker(u, Len(s) + i) <=> InMarker(t, i)) /\ u[Len(s) + i] = t[i]
  BY SecondPart, Joining
<1>6. /\ DOMAIN s = 1 .. Len(s) /\ DOMAIN t = 1 .. Len(t)
      /\ \A i \in 1 .. Len(s) : i \in 1 .. Len(s) + Len(t)
      /\ \A i \in 1 .. Len(t) : Len(s) + i \in 1 .. Len(s) + Len(t)
  OBVIOUS
<1> HIDE DEF u
<1>7. ~InMarker(s, Len(s) + 1) /\ ~InMarker(t, Len(t) + 1) /\ ~InMarker(u, Len(u) + 1)
  BY <1>1, NoneBeyond
<1>8. ASSUME NEW i \in 1 .. Len(s) PROVE s[i] = " " => (InMarker(u, i + 1) <=> InMarker(s, i + 1))
  <2>1. CASE i < Len(s)
    <3>1. i + 1 \in 1 .. Len(s)
      BY <1>1, <2>1
    <3> QED BY <1>4, <3>1
  <2>2. CASE i = Len(s) /\ Len(t) # 0
    <3>1. 1 \in 1 .. Len(t) /\ s # <<>>
      BY <1>1, <2>2
    <3>2. InMarker(u, Len(s) + 1) <=> InMarker(t, 1)
      BY <1>5, <3>1
    <3> QED BY <1>7, <2>2, <3>1, <3>2 DEF SpaceStays
  <2>3. CASE i = Len(s) /\ Len(t) = 0
    <3>1. i + 1 = Len(s) + 1 /\ Len(u) + 1 = Len(s) + 1
      BY <1>1, <2>3
    <3> QED BY <1>7, <3>1
  <2>4. i < Len(s) \/ i = Len(s)
    BY <1>1
  <2> HIDE DEF f, g, h
  <2> QED BY <2>1, <2>2, <2>3, <2>4
<1>9. ASSUME NEW i \in 1 .. Len(t)
      PROVE  InMarker(u, Len(s) + i + 1) <=> InMarker(t, i + 1)
  <2>1. CASE i < Len(t)
    <3>1. i + 1 \in 1 .. Len(t) /\ Len(s) + i + 1 = Len(s) + (i + 1)
      BY <1>1, <2>1
    <3> QED BY <1>5, <3>1
  <2>2. CASE i = Len(t)
    <3>1. Len(s) + i + 1 = Len(u) + 1
      BY <1>1, <2>2
    <3> QED BY <1>7, <2>2, <3>1
  <2> QED BY <1>1, <2>1, <2>2
<1>10. \A i \in 1 .. Len(s) : f[i] = g[i]
  BY <1>1, <1>4, <1>6, <1>8 DEF PlainParts
<1>11. \A i \in 1 .. Len(t) : f[Len(s) + i] = h[i]
  BY <1>1, <1>5, <1>6, <1>9 DEF PlainParts
<1> HIDE DEF f, g, h
<1>12. FlattenSeq(f) = FlattenSeq(g) \o FlattenSeq(h)
  <2>1. Len(f) = Len(g) + Len(h)
    BY <1>3
  <2>2. \A i \in 1 .. Len(g) : f[i] = g[i]
    BY <1>3, <1>10
  <2>3. \A i \in 1 .. Len(h) : f[Len(g) + i] = h[i]
    BY <1>3, <1>11
  <2> QED BY <1>3, <2>1, <2>2, <2>3, FlattenParts
<1> QED BY <1>12, Parts DEF f, g, h, u

\* No held tag of s \o t begins in s and ends in t.
TagsApart(s, t) == \A i \in 1 .. Len(s) : HeldTag(s \o t, i) => i + 2 <= Len(s)

\* The farmer's own values.
LEMMA RevealJoin ==
  ASSUME NEW s \in Seq(Sign), NEW t \in Seq(Sign), TagsApart(s, t)
  PROVE  Revealed(s \o t) = Revealed(s) \o Revealed(t)
<1> DEFINE u == s \o t
           f == RevealParts(u)
           g == RevealParts(s)
           h == RevealParts(t)
<1>1. u \in Seq(Sign) /\ DOMAIN u = 1 .. Len(s) + Len(t) /\ Len(u) = Len(s) + Len(t)
      /\ Len(s) \in Nat /\ Len(t) \in Nat
  BY Joining
<1>2. <<>> \in Seq(Seq(Sign))
  OBVIOUS
<1>3. f \in Seq(Seq(Sign)) /\ g \in Seq(Seq(Sign)) /\ h \in Seq(Seq(Sign))
      /\ Len(f) = Len(s) + Len(t) /\ Len(g) = Len(s) /\ Len(h) = Len(t)
  <2> HIDE DEF f, g, h, u
  <2>1. f \in Seq(Seq(Sign)) /\ Len(f) = Len(u)
    BY <1>1, <1>2, PartsAre DEF f
  <2>2. g \in Seq(Seq(Sign)) /\ Len(g) = Len(s) /\ h \in Seq(Seq(Sign)) /\ Len(h) = Len(t)
    BY <1>2, PartsAre DEF g, h
  <2> QED BY <2>1, <2>2, <1>1
<1>4. \A i \in 1 .. Len(s) : u[i] = s[i]
  BY Joining
<1>5. \A i \in 1 .. Len(t) : u[Len(s) + i] = t[i]
  BY Joining
<1>6. /\ DOMAIN s = 1 .. Len(s) /\ DOMAIN t = 1 .. Len(t)
      /\ \A i \in 1 .. Len(s) : i \in 1 .. Len(s) + Len(t)
      /\ \A i \in 1 .. Len(t) : Len(s) + i \in 1 .. Len(s) + Len(t)
  OBVIOUS
<1>7. \A i \in 1 .. Len(s) : HeldTag(u, i) => i + 2 <= Len(s)
  BY DEF TagsApart
<1> HIDE DEF u
<1>8. ASSUME NEW i \in Int, i <= Len(s) PROVE HeldTag(u, i) <=> HeldTag(s, i)
  <2>1. CASE i \in 1 .. Len(s) - 2
    <3>1. i \in 1 .. Len(s) /\ i + 1 \in 1 .. Len(s) /\ i + 2 \in 1 .. Len(s)
          /\ i \in 1 .. Len(u) - 2
      BY <1>1, <2>1
    <3> QED BY <1>4, <2>1, <3>1 DEF HeldTag
  <2>2. CASE i \notin 1 .. Len(s) - 2
    <3>1. ~HeldTag(s, i)
      BY <2>2 DEF HeldTag
    <3>2. ASSUME HeldTag(u, i) PROVE FALSE
      <4>1. i \in 1 .. Len(s)
        BY <1>1, <1>8, <3>2 DEF HeldTag
      <4>2. i + 2 <= Len(s)
        BY <1>7, <3>2, <4>1
      <4> QED BY <1>1, <2>2, <4>1, <4>2
    <3> QED BY <3>1, <3>2
  <2> QED BY <2>1, <2>2
<1>9. ASSUME NEW i \in Int, i <= Len(t), i >= 1 PROVE HeldTag(u, Len(s) + i) <=> HeldTag(t, i)
  <2>1. CASE i \in 1 .. Len(t) - 2
    <3>1. /\ i \in 1 .. Len(t) /\ i + 1 \in 1 .. Len(t) /\ i + 2 \in 1 .. Len(t)
          /\ Len(s) + i \in 1 .. Len(u) - 2
          /\ (Len(s) + i) + 1 = Len(s) + (i + 1) /\ (Len(s) + i) + 2 = Len(s) + (i + 2)
      BY <1>1, <2>1
    <3> DEFINE k == Len(s) + i
    <3>2. u[k] = t[i] /\ u[k + 1] = t[i + 1] /\ u[k + 2] = t[i + 2] /\ k \in 1 .. Len(u) - 2
      BY <1>5, <3>1
    <3> HIDE DEF k
    <3>3. HeldTag(u, k) <=> HeldTag(t, i)
      BY <2>1, <3>2 DEF HeldTag
    <3> QED BY <3>3 DEF k
  <2>2. CASE i \notin 1 .. Len(t) - 2
    <3>1. Len(s) + i \notin 1 .. Len(u) - 2
      BY <1>1, <1>9, <2>2
    <3> DEFINE k == Len(s) + i
    <3> HIDE DEF k
    <3>2. ~HeldTag(u, k) /\ ~HeldTag(t, i)
      BY <2>2, <3>1 DEF HeldTag, k
    <3> QED BY <3>2 DEF k
  <2> QED BY <2>1, <2>2
  \* Two places before the second part's start there is no tag in either.
<1>10. ASSUME NEW i \in Int, i <= 0, i >= -1
       PROVE  ~HeldTag(u, Len(s) + i) /\ ~HeldTag(t, i)
  <2>1. ~HeldTag(t, i)
    BY <1>10 DEF HeldTag
  <2> DEFINE k == Len(s) + i
  <2>2. k \in Int /\ k <= Len(s) /\ k + 2 > Len(s)
    BY <1>1, <1>10
  <2> HIDE DEF k
  <2>3. ~HeldTag(s, k)
    BY <1>1, <2>2 DEF HeldTag
  <2>4. ~HeldTag(u, k)
    BY <1>8, <2>2, <2>3
  <2> QED BY <2>1, <2>4 DEF k
<1>11. ASSUME NEW i \in 1 .. Len(s) PROVE f[i] = g[i]
  <2>1. /\ HeldTag(u, i) <=> HeldTag(s, i)
        /\ HeldTag(u, i - 1) <=> HeldTag(s, i - 1)
        /\ HeldTag(u, i - 2) <=> HeldTag(s, i - 2)
    <3>1. i \in Int /\ i - 1 \in Int /\ i - 2 \in Int /\ i <= Len(s) /\ i - 1 <= Len(s) /\ i - 2 <= Len(s)
      BY <1>1
    <3> QED BY <1>8, <3>1
  <2>2. HeldTag(s, i) => u[i + 1] = s[i + 1]
    <3>1. HeldTag(s, i) => i + 1 \in 1 .. Len(s)
      BY <1>1 DEF HeldTag
    <3> QED BY <1>4, <3>1
  <2>3. u[i] = s[i] /\ i \in DOMAIN u /\ i \in DOMAIN s
    BY <1>1, <1>4, <1>6
  <2> QED BY <2>1, <2>2, <2>3 DEF RevealParts
<1>12. ASSUME NEW i \in 1 .. Len(t) PROVE f[Len(s) + i] = h[i]
  <2>1. HeldTag(u, Len(s) + i) <=> HeldTag(t, i)
    BY <1>1, <1>9
  <2>2. HeldTag(u, Len(s) + (i - 1)) <=> HeldTag(t, i - 1)
    <3>1. i - 1 \in Int /\ i - 1 <= Len(t) /\ (i - 1 >= 1 \/ (i - 1 <= 0 /\ i - 1 >= -1))
      BY <1>1
    <3> QED BY <1>9, <1>10, <3>1
  <2>3. HeldTag(u, Len(s) + (i - 2)) <=> HeldTag(t, i - 2)
    <3>1. i - 2 \in Int /\ i - 2 <= Len(t) /\ (i - 2 >= 1 \/ (i - 2 <= 0 /\ i - 2 >= -1))
      BY <1>1
    <3> QED BY <1>9, <1>10, <3>1
  <2>4. HeldTag(t, i) => u[Len(s) + (i + 1)] = t[i + 1]
    <3>1. HeldTag(t, i) => i + 1 \in 1 .. Len(t)
      BY <1>1 DEF HeldTag
    <3> QED BY <1>5, <3>1
  <2> DEFINE k == Len(s) + i
  <2>5. k - 1 = Len(s) + (i - 1) /\ k - 2 = Len(s) + (i - 2) /\ k + 1 = Len(s) + (i + 1)
    BY <1>1
  <2>6. u[k] = t[i] /\ k \in DOMAIN u /\ i \in DOMAIN t
    BY <1>1, <1>5, <1>6
  <2>7. /\ HeldTag(u, k) <=> HeldTag(t, i)
        /\ HeldTag(u, k - 1) <=> HeldTag(t, i - 1)
        /\ HeldTag(u, k - 2) <=> HeldTag(t, i - 2)
        /\ HeldTag(t, i) => u[k + 1] = t[i + 1]
    BY <2>1, <2>2, <2>3, <2>4, <2>5
  <2> HIDE DEF k
  <2>8. f[k] = h[i]
    BY <2>6, <2>7 DEF RevealParts
  <2> QED BY <2>8 DEF k
<1> HIDE DEF f, g, h
<1>13. FlattenSeq(f) = FlattenSeq(g) \o FlattenSeq(h)
  <2>1. Len(f) = Len(g) + Len(h)
    BY <1>3
  <2>2. \A i \in 1 .. Len(g) : f[i] = g[i]
    BY <1>3, <1>11
  <2>3. \A i \in 1 .. Len(h) : f[Len(g) + i] = h[i]
    BY <1>3, <1>12
  <2> QED BY <1>3, <2>1, <2>2, <2>3, FlattenParts
<1> QED BY <1>13, Parts DEF f, g, h, u

-----------------------------------------------------------------------------
\* The sources cited.

KnownParts(ids) == [i \in DOMAIN ids |-> IF ids[i] \in Known THEN <<ids[i]>> ELSE <<>>]
NewParts(cited, ids) ==
  [i \in DOMAIN ids |-> IF ids[i] \in ToSet(cited) \cup {ids[j] : j \in 1 .. i - 1}
                        THEN <<>> ELSE <<ids[i]>>]

\* What becomes of a list of sources is what becomes of each, joined.
LEMMA SourceParts ==
  ASSUME NEW S, NEW ids \in Seq(S), NEW cited
  PROVE  /\ KnownOnly(ids) = FlattenSeq(KnownParts(ids))
         /\ Extend(cited, ids) = cited \o FlattenSeq(NewParts(cited, ids))
         /\ KnownParts(ids) \in Seq(Seq(S)) /\ Len(KnownParts(ids)) = Len(ids)
         /\ NewParts(cited, ids) \in Seq(Seq(S)) /\ Len(NewParts(cited, ids)) = Len(ids)
<1>1. KnownOnly(ids) = FlattenSeq(KnownParts(ids))
  BY DEF KnownOnly, KnownParts
<1>2. Extend(cited, ids) = cited \o FlattenSeq(NewParts(cited, ids))
  BY DEF Extend, NewParts
<1>3. /\ DOMAIN ids = 1 .. Len(ids) /\ Len(ids) \in Nat
      /\ \A i \in 1 .. Len(ids) : <<ids[i]>> \in Seq(S) /\ <<>> \in Seq(S)
  OBVIOUS
<1>4. KnownParts(ids) \in [1 .. Len(ids) -> Seq(S)]
  BY <1>3 DEF KnownParts
<1>5. NewParts(cited, ids) \in [1 .. Len(ids) -> Seq(S)]
  BY <1>3 DEF NewParts
<1>6. \A f \in [1 .. Len(ids) -> Seq(S)] : f \in Seq(Seq(S)) /\ Len(f) = Len(ids)
  BY <1>3
<1> QED BY <1>1, <1>2, <1>4, <1>5, <1>6

\* The known ones.
LEMMA KnownAre ==
  ASSUME NEW S, NEW ids \in Seq(S)
  PROVE  /\ KnownOnly(ids) \in Seq(S)
         /\ \A x : x \in ToSet(KnownOnly(ids)) <=> x \in ToSet(ids) /\ x \in Known
<1> DEFINE f == KnownParts(ids)
<1>1. f \in Seq(Seq(S)) /\ Len(f) = Len(ids) /\ KnownOnly(ids) = FlattenSeq(f)
  BY SourceParts
<1>2. /\ KnownOnly(ids) \in Seq(S)
      /\ \A x : x \in ToSet(KnownOnly(ids)) <=> \E k \in DOMAIN f : x \in ToSet(f[k])
  <2> HIDE DEF f
  <2> QED BY <1>1, FlattenWhere
<1>3. DOMAIN f = DOMAIN ids
  BY DEF KnownParts
<1>4. \A k \in DOMAIN ids : f[k] = IF ids[k] \in Known THEN <<ids[k]>> ELSE <<>>
  BY DEF KnownParts
<1>5. ToSet(<<>>) = {} /\ \A y : ToSet(<<y>>) = {y}
  BY DEF ToSet
<1> HIDE DEF f
<1>6. \A k \in DOMAIN ids : \A x : x \in ToSet(f[k]) <=> x = ids[k] /\ x \in Known
  BY ZenonT(40), <1>4, <1>5
<1>7. \A x : x \in ToSet(ids) <=> \E k \in DOMAIN ids : x = ids[k]
  BY DEF ToSet
<1> QED BY <1>2, <1>3, <1>6, <1>7

\* The known ones of two lists.
LEMMA KnownJoin ==
  ASSUME NEW S, NEW a \in Seq(S), NEW b \in Seq(S)
  PROVE  KnownOnly(a \o b) = KnownOnly(a) \o KnownOnly(b)
<1> DEFINE u == a \o b
           f == KnownParts(u)
           g == KnownParts(a)
           h == KnownParts(b)
<1>1. /\ u \in Seq(S) /\ Len(u) = Len(a) + Len(b)
      /\ DOMAIN u = 1 .. Len(a) + Len(b) /\ DOMAIN a = 1 .. Len(a) /\ DOMAIN b = 1 .. Len(b)
      /\ Len(a) \in Nat /\ Len(b) \in Nat
      /\ \A i \in 1 .. Len(a) : u[i] = a[i]
      /\ \A i \in 1 .. Len(b) : u[Len(a) + i] = b[i]
  BY Joining
<1> HIDE DEF u
<1>2. /\ f \in Seq(Seq(S)) /\ g \in Seq(Seq(S)) /\ h \in Seq(Seq(S))
      /\ Len(f) = Len(g) + Len(h) /\ Len(g) = Len(a) /\ Len(h) = Len(b)
  <2>1. f \in Seq(Seq(S)) /\ Len(f) = Len(u)
    BY <1>1, SourceParts
  <2>2. g \in Seq(Seq(S)) /\ h \in Seq(Seq(S)) /\ Len(g) = Len(a) /\ Len(h) = Len(b)
    BY SourceParts
  <2> HIDE DEF f, g, h
  <2> QED BY <1>1, <2>1, <2>2
<1>3. \A i \in 1 .. Len(g) : f[i] = g[i]
  <2>1. \A i \in 1 .. Len(a) : i \in DOMAIN u /\ i \in DOMAIN a
    BY <1>1
  <2>2. \A i \in 1 .. Len(a) : f[i] = g[i]
    BY <1>1, <2>1 DEF KnownParts
  <2> QED BY <1>2, <2>2
<1>4. \A i \in 1 .. Len(h) : f[Len(g) + i] = h[i]
  <2>1. \A i \in 1 .. Len(b) : Len(a) + i \in DOMAIN u /\ i \in DOMAIN b
    BY <1>1
  <2>2. \A i \in 1 .. Len(b) : f[Len(a) + i] = h[i]
    BY <1>1, <2>1 DEF KnownParts
  <2> QED BY <1>2, <2>2
<1> HIDE DEF f, g, h
<1>5. FlattenSeq(f) = FlattenSeq(g) \o FlattenSeq(h)
  BY <1>2, <1>3, <1>4, FlattenParts
<1>6. KnownOnly(u) = FlattenSeq(f) /\ KnownOnly(a) = FlattenSeq(g) /\ KnownOnly(b) = FlattenSeq(h)
  BY <1>1, SourceParts DEF f, g, h
<1> QED BY <1>5, <1>6 DEF u

\* What has been cited stays, and every id is cited then.
LEMMA ExtendAre ==
  ASSUME NEW S, NEW cited \in Seq(S), NEW ids \in Seq(S)
  PROVE  /\ Extend(cited, ids) \in Seq(S)
         /\ \E more \in Seq(S) : Extend(cited, ids) = cited \o more
         /\ \A x : x \in ToSet(Extend(cited, ids)) <=> x \in ToSet(cited) \/ x \in ToSet(ids)
<1> DEFINE f == NewParts(cited, ids)
           F == FlattenSeq(f)
<1>1. f \in Seq(Seq(S)) /\ Len(f) = Len(ids) /\ Extend(cited, ids) = cited \o F
  BY SourceParts
<1>2. F \in Seq(S) /\ \A x : x \in ToSet(F) <=> \E k \in DOMAIN f : x \in ToSet(f[k])
  <2> HIDE DEF f
  <2> QED BY <1>1, FlattenWhere
<1>3. /\ DOMAIN f = DOMAIN ids
      /\ \A k \in DOMAIN ids : f[k] = IF ids[k] \in ToSet(cited) \cup {ids[j] : j \in 1 .. k - 1}
                                      THEN <<>> ELSE <<ids[k]>>
  BY DEF NewParts
<1>4. ToSet(<<>>) = {} /\ \A y : ToSet(<<y>>) = {y}
  BY DEF ToSet
<1> HIDE DEF f
<1>5. \A k \in DOMAIN ids : \A x :
        x \in ToSet(f[k]) <=> /\ x = ids[k] /\ x \notin ToSet(cited)
                              /\ x \notin {ids[j] : j \in 1 .. k - 1}
  BY <1>3, <1>4
<1>6. ASSUME NEW x, x \in ToSet(ids), x \notin ToSet(cited) PROVE x \in ToSet(F)
  <2> DEFINE M == {k \in DOMAIN ids : ids[k] = x}
  <2>1. M \subseteq Nat /\ M # {} /\ DOMAIN ids = 1 .. Len(ids) /\ Len(ids) \in Nat
    BY <1>6 DEF ToSet
  <2>2. PICK k \in M : \A m \in M : k <= m
    <3> HIDE DEF M
    <3> QED BY <2>1, SmallestOf
  <2>3. x \notin {ids[j] : j \in 1 .. k - 1}
    <3> SUFFICES ASSUME NEW j \in 1 .. k - 1, ids[j] = x PROVE FALSE
      OBVIOUS
    <3>1. j \in DOMAIN ids /\ j < k /\ j \in Nat /\ k \in Nat
      BY <2>1, <2>2
    <3>2. j \in M
      BY <3>1
    <3> QED BY <2>2, <3>1, <3>2
  <2>4. k \in DOMAIN ids /\ x = ids[k]
    BY <2>2
  <2>5. x \in ToSet(f[k])
    BY <1>5, <1>6, <2>3, <2>4
  <2> QED BY <1>2, <1>3, <2>4, <2>5
<1>7. ASSUME NEW x, x \in ToSet(F) PROVE x \in ToSet(ids)
  <2>1. PICK k \in DOMAIN ids : x = ids[k]
    BY <1>2, <1>3, <1>5, <1>7
  <2> QED BY <2>1 DEF ToSet
<1> HIDE DEF F
<1>8. \A x : x \in ToSet(cited \o F) <=> x \in ToSet(cited) \/ x \in ToSet(F)
  <2> DEFINE u == cited \o F
  <2>1. /\ DOMAIN u = 1 .. Len(cited) + Len(F) /\ DOMAIN cited = 1 .. Len(cited)
        /\ DOMAIN F = 1 .. Len(F) /\ Len(cited) \in Nat /\ Len(F) \in Nat
        /\ \A i \in 1 .. Len(cited) : u[i] = cited[i]
        /\ \A i \in 1 .. Len(F) : u[Len(cited) + i] = F[i]
    BY <1>2, Joining
  <2> HIDE DEF u
  <2>2. ASSUME NEW i \in DOMAIN u
        PROVE  (\E j \in DOMAIN cited : u[i] = cited[j]) \/ \E j \in DOMAIN F : u[i] = F[j]
    <3>1. CASE i <= Len(cited)
      BY <2>1, <3>1
    <3>2. CASE ~(i <= Len(cited))
      <4>1. i - Len(cited) \in DOMAIN F /\ Len(cited) + (i - Len(cited)) = i
        BY <2>1, <3>2
      <4> QED BY <2>1, <4>1
    <3> QED BY <3>1, <3>2
  <2>3. ASSUME NEW i \in DOMAIN cited PROVE \E j \in DOMAIN u : u[j] = cited[i]
    <3>1. i \in DOMAIN u
      BY <2>1
    <3> QED BY <2>1, <3>1
  <2>4. ASSUME NEW i \in DOMAIN F PROVE \E j \in DOMAIN u : u[j] = F[i]
    <3>1. Len(cited) + i \in DOMAIN u
      BY <2>1
    <3> QED BY <2>1, <3>1
  <2>5. \A x : x \in ToSet(u) <=> x \in ToSet(cited) \/ x \in ToSet(F)
    BY <2>2, <2>3, <2>4 DEF ToSet
  <2> QED BY <2>5 DEF u
<1>9. cited \o F \in Seq(S)
  BY <1>2
<1> QED BY <1>1, <1>2, <1>6, <1>7, <1>8, <1>9

\* Citing in two goes.
LEMMA ExtendJoin ==
  ASSUME NEW S, NEW cited \in Seq(S), NEW a \in Seq(S), NEW b \in Seq(S)
  PROVE  Extend(cited, a \o b) = Extend(Extend(cited, a), b)
<1> DEFINE u == a \o b
           c == Extend(cited, a)
           f == NewParts(cited, u)
           g == NewParts(cited, a)
           h == NewParts(c, b)
<1>1. /\ u \in Seq(S) /\ Len(u) = Len(a) + Len(b)
      /\ DOMAIN u = 1 .. Len(a) + Len(b) /\ DOMAIN a = 1 .. Len(a) /\ DOMAIN b = 1 .. Len(b)
      /\ Len(a) \in Nat /\ Len(b) \in Nat
      /\ \A i \in 1 .. Len(a) : u[i] = a[i]
      /\ \A i \in 1 .. Len(b) : u[Len(a) + i] = b[i]
  BY Joining
<1>2. c \in Seq(S) /\ \A x : x \in ToSet(c) <=> x \in ToSet(cited) \/ x \in ToSet(a)
  BY ExtendAre
<1> HIDE DEF u, c
<1>3. /\ f \in Seq(Seq(S)) /\ g \in Seq(Seq(S)) /\ h \in Seq(Seq(S))
      /\ Len(f) = Len(g) + Len(h) /\ Len(g) = Len(a) /\ Len(h) = Len(b)
  <2>1. f \in Seq(Seq(S)) /\ Len(f) = Len(u)
    BY <1>1, SourceParts
  <2>2. g \in Seq(Seq(S)) /\ h \in Seq(Seq(S)) /\ Len(g) = Len(a) /\ Len(h) = Len(b)
    BY SourceParts
  <2> HIDE DEF f, g, h
  <2> QED BY <1>1, <2>1, <2>2
<1>4. ASSUME NEW i \in 1 .. Len(g) PROVE f[i] = g[i]
  <2>1. i \in DOMAIN u /\ i \in DOMAIN a /\ u[i] = a[i]
    BY <1>1, <1>3
  <2>2. \A j \in 1 .. i - 1 : u[j] = a[j]
    BY <1>1, <2>1
  <2>3. {u[j] : j \in 1 .. i - 1} = {a[j] : j \in 1 .. i - 1}
    BY <2>2
  <2> QED BY <2>1, <2>3 DEF NewParts
<1>5. ASSUME NEW i \in 1 .. Len(h) PROVE f[Len(g) + i] = h[i]
  <2> DEFINE k == Len(a) + i
  <2>1. k \in DOMAIN u /\ i \in DOMAIN b /\ u[k] = b[i] /\ Len(g) + i = k
    BY <1>1, <1>3
  <2>7. i \in 1 .. Len(b) /\ \A x : x \in ToSet(a) <=> \E j \in 1 .. Len(a) : x = a[j]
    BY <1>1, <1>3 DEF ToSet
  <2> HIDE DEF f, g, h
  <2>2. ASSUME NEW j \in 1 .. k - 1
        PROVE  u[j] \in ToSet(a) \/ \E m \in 1 .. i - 1 : u[j] = b[m]
    <3>1. CASE j <= Len(a)
      <4>1. j \in 1 .. Len(a)
        BY <1>1, <3>1
      <4> QED BY <1>1, <2>7, <4>1
    <3>2. CASE ~(j <= Len(a))
      <4>1. /\ j - Len(a) \in 1 .. i - 1 /\ j - Len(a) \in 1 .. Len(b)
            /\ Len(a) + (j - Len(a)) = j
        BY <1>1, <2>7, <3>2
      <4> QED BY <1>1, <4>1
    <3> QED BY <3>1, <3>2
  <2>3. ASSUME NEW x \in ToSet(a) PROVE \E j \in 1 .. k - 1 : u[j] = x
    <3>1. PICK j \in 1 .. Len(a) : x = a[j]
      BY <2>7
    <3>2. j \in 1 .. k - 1
      BY <1>1, <2>7
    <3> QED BY <1>1, <3>1, <3>2
  <2>4. ASSUME NEW m \in 1 .. i - 1 PROVE \E j \in 1 .. k - 1 : u[j] = b[m]
    <3>1. Len(a) + m \in 1 .. k - 1 /\ m \in 1 .. Len(b)
      BY <1>1, <2>7
    <3> QED BY <1>1, <3>1
  <2>5. ToSet(cited) \cup {u[j] : j \in 1 .. k - 1} = ToSet(c) \cup {b[m] : m \in 1 .. i - 1}
    <3> HIDE DEF k
    <3>1. \A x : x \in {u[j] : j \in 1 .. k - 1} =>
                  x \in ToSet(a) \/ x \in {b[m] : m \in 1 .. i - 1}
      BY <2>2
    <3>2. \A x : x \in ToSet(a) \/ x \in {b[m] : m \in 1 .. i - 1} =>
                  x \in {u[j] : j \in 1 .. k - 1}
      <4> SUFFICES ASSUME NEW x, x \in ToSet(a) \/ x \in {b[m] : m \in 1 .. i - 1}
                   PROVE  \E j \in 1 .. k - 1 : u[j] = x
        OBVIOUS
      <4>1. CASE x \in ToSet(a)
        BY <2>3, <4>1
      <4>2. CASE x \in {b[m] : m \in 1 .. i - 1}
        <5>1. PICK m \in 1 .. i - 1 : x = b[m]
          BY <4>2
        <5> QED BY <2>4, <5>1
      <4> QED BY <4>1, <4>2
    <3> DEFINE U == {u[j] : j \in 1 .. k - 1}
               B == {b[m] : m \in 1 .. i - 1}
    <3> HIDE DEF U, B
    <3> QED BY <1>2, <3>1, <3>2 DEF U, B
  <2> HIDE DEF k
  <2>6. f[k] = h[i]
    BY <2>1, <2>5 DEF NewParts, f, h
  <2> QED BY <2>1, <2>6
<1> HIDE DEF f, g, h
<1>6. FlattenSeq(f) = FlattenSeq(g) \o FlattenSeq(h)
  BY <1>3, <1>4, <1>5, FlattenParts
<1>7. /\ Extend(cited, u) = cited \o FlattenSeq(f)
      /\ c = cited \o FlattenSeq(g)
      /\ Extend(c, b) = c \o FlattenSeq(h)
  BY <1>1, SourceParts DEF f, g, h, c
<1>8. FlattenSeq(g) \in Seq(S) /\ FlattenSeq(h) \in Seq(S)
  BY <1>3, FlattenPlaces
<1> DEFINE p == FlattenSeq(g)
           q == FlattenSeq(h)
<1>9. cited \o (p \o q) = (cited \o p) \o q
  <2>1. p \in Seq(S) /\ q \in Seq(S)
    BY <1>8
  <2> HIDE DEF p, q
  <2> QED BY <2>1
<1> QED BY <1>6, <1>7, <1>9 DEF u, c

\* A source's number stays when more are cited.
LEMMA NumberStays ==
  ASSUME NEW S, NEW cited \in Seq(S), NEW more \in Seq(S), NEW id \in ToSet(cited)
  PROVE  Number(id, cited \o more) = Number(id, cited)
<1> DEFINE u == cited \o more
           M == {n \in DOMAIN cited : cited[n] = id}
           N == {n \in DOMAIN u : u[n] = id}
<1>1. /\ DOMAIN u = 1 .. Len(cited) + Len(more) /\ DOMAIN cited = 1 .. Len(cited)
      /\ Len(cited) \in Nat /\ Len(more) \in Nat
      /\ \A i \in 1 .. Len(cited) : u[i] = cited[i]
  BY Joining
<1> HIDE DEF u
<1>2. M # {} /\ M \subseteq Nat /\ N \subseteq Nat
  BY <1>1 DEF ToSet
<1>3. \A m \in M : m \in N /\ m <= Len(cited)
  BY <1>1
<1>4. \A n \in N : n <= Len(cited) => n \in M
  BY <1>1
<1>5. PICK m \in M : \A n \in M : m <= n
  <2> HIDE DEF M
  <2> QED BY <1>2, SmallestOf
<1>6. \A n \in N : m <= n
  <2> SUFFICES ASSUME NEW n \in N PROVE m <= n
    OBVIOUS
  <2> HIDE DEF M, N
  <2>1. n \in Nat /\ m \in Nat /\ m <= Len(cited)
    BY <1>2, <1>3, <1>5
  <2>2. CASE n <= Len(cited)
    BY <1>4, <1>5, <2>2
  <2>3. CASE ~(n <= Len(cited))
    BY <1>1, <2>1, <2>3
  <2> QED BY <2>2, <2>3
<1>7. Min(M) = m /\ Min(N) = m
  <2> HIDE DEF M, N
  <2>1. m \in M /\ m \in N /\ \A n \in M : m <= n
    BY <1>3, <1>5
  <2>2. ASSUME NEW x \in M, \A n \in M : x <= n PROVE x = m
    <3>1. x <= m /\ m <= x /\ x \in Nat /\ m \in Nat
      BY <1>2, <2>1, <2>2
    <3> QED BY <3>1
  <2>3. ASSUME NEW x \in N, \A n \in N : x <= n PROVE x = m
    <3>1. x <= m /\ m <= x /\ x \in Nat /\ m \in Nat
      BY <1>2, <1>6, <2>1, <2>3
    <3> QED BY <3>1
  <2> QED BY <1>6, <2>1, <2>2, <2>3 DEF Min
<1> QED BY <1>7 DEF Number, u

-----------------------------------------------------------------------------
\* Texts that read as they are.

\* A text that cites nothing is read as it is.
LEMMA NoneCited ==
  ASSUME NEW t \in Seq(Sign), NEW cited \in Seq(Seq(Sign)),
         \A i \in 1 .. Len(t) : ~Cites(t, i)
  PROVE  /\ Ids(t) = <<>> /\ Unmarked(t) = t /\ Renumbered(t, cited) = t
         /\ \A k \in Nat : ~InMarker(t, k)
<1>1. DOMAIN t = 1 .. Len(t) /\ Len(t) \in Nat
  OBVIOUS
<1>2. ASSUME NEW k \in Nat PROVE ~InMarker(t, k)
  <2>1. ASSUME NEW i \in 1 .. k PROVE MarkerAt(t, i) = {}
    <3>1. CASE i <= Len(t)
      BY <1>1, <3>1 DEF Cites
    <3>2. CASE ~(i <= Len(t))
      <4>1. i + 2 .. Len(t) = {}
        BY <1>1, <3>2
      <4> QED BY <4>1 DEF MarkerAt
    <3> QED BY <3>1, <3>2
  <2> QED BY <2>1 DEF InMarker
<1>3. /\ IdParts(t) \in Seq(Seq(Seq(Sign))) /\ Len(IdParts(t)) = Len(t)
      /\ PlainParts(t) \in Seq(Seq(Sign)) /\ Len(PlainParts(t)) = Len(t)
      /\ NumberParts(t, cited) \in Seq(Seq(Sign)) /\ Len(NumberParts(t, cited)) = Len(t)
  BY PartsAre
<1>4. \A i \in 1 .. Len(t) : i \in Nat /\ i + 1 \in Nat
  OBVIOUS
<1>5. \A i \in 1 .. Len(t) : IdParts(t)[i] = <<>>
  BY <1>1 DEF IdParts
<1>6. \A i \in 1 .. Len(t) : PlainParts(t)[i] = <<t[i]>>
  BY <1>1, <1>2, <1>4 DEF PlainParts
<1>7. \A i \in 1 .. Len(t) : NumberParts(t, cited)[i] = <<t[i]>>
  BY <1>1, <1>2, <1>4 DEF NumberParts
<1> DEFINE f == IdParts(t)
           g == PlainParts(t)
           h == NumberParts(t, cited)
<1>8. FlattenSeq(f) = <<>>
  <2>1. \A i \in 1 .. Len(f) : f[i] = <<>>
    BY <1>3, <1>5
  <2> HIDE DEF f
  <2> QED BY <1>3, <2>1, FlattenNothing DEF f
<1>9. FlattenSeq(g) = t
  <2> HIDE DEF g
  <2> QED BY <1>3, <1>6, FlattenSingles DEF g
<1>10. FlattenSeq(h) = t
  <2> HIDE DEF h
  <2> QED BY <1>3, <1>7, FlattenSingles DEF h
<1> QED BY <1>2, <1>8, <1>9, <1>10, Parts

\* A text without one of the two brackets cites nothing.
LEMMA NoBracket ==
  ASSUME NEW t \in Seq(Sign),
         (\A i \in 1 .. Len(t) : t[i] # "[") \/ (\A i \in 1 .. Len(t) : t[i] # "]")
  PROVE  \A i \in 1 .. Len(t) : ~Cites(t, i)
<1> SUFFICES ASSUME NEW i \in 1 .. Len(t), NEW j \in MarkerAt(t, i) PROVE FALSE
  BY DEF Cites
<1>1. j \in i + 2 .. Len(t) /\ t[i] = "[" /\ t[j] = "]" /\ j \in 1 .. Len(t)
  BY DEF MarkerAt
<1> QED BY <1>1

\* A text without a held tag is shown as it is.
LEMMA NoTags ==
  ASSUME NEW t \in Seq(Sign), \A i \in 1 .. Len(t) : ~HeldTag(t, i)
  PROVE  Revealed(t) = t
<1>1. DOMAIN t = 1 .. Len(t) /\ Len(t) \in Nat
  OBVIOUS
<1>2. \A i \in Int : ~HeldTag(t, i)
  <2> SUFFICES ASSUME NEW i \in Int, HeldTag(t, i) PROVE FALSE
    OBVIOUS
  <2>1. i \in 1 .. Len(t)
    BY <1>1 DEF HeldTag
  <2> QED BY <2>1
<1>3. RevealParts(t) \in Seq(Seq(Sign)) /\ Len(RevealParts(t)) = Len(t)
  <2>1. <<>> \in Seq(Seq(Sign))
    OBVIOUS
  <2> QED BY <2>1, PartsAre
<1>4. \A i \in 1 .. Len(t) : RevealParts(t)[i] = <<t[i]>>
  <2>1. \A i \in 1 .. Len(t) : i \in Int /\ i - 1 \in Int /\ i - 2 \in Int
    OBVIOUS
  <2> QED BY <1>1, <1>2, <2>1 DEF RevealParts
<1> DEFINE f == RevealParts(t)
<1>5. FlattenSeq(f) = t
  <2> HIDE DEF f
  <2> QED BY <1>3, <1>4, FlattenSingles DEF f
<1> QED BY <1>5, Parts

\* The ids of a text are those of its markers.
LEMMA IdIn ==
  ASSUME NEW t \in Seq(Sign), NEW i \in 1 .. Len(t), Cites(t, i)
  PROVE  IdAt(t, i) \in ToSet(Ids(t))
<1> DEFINE f == IdParts(t)
<1>1. f \in Seq(Seq(Seq(Sign))) /\ Len(f) = Len(t) /\ Ids(t) = FlattenSeq(f)
  <2>1. <<>> \in Seq(Seq(Sign))
    OBVIOUS
  <2> QED BY <2>1, PartsAre, Parts
<1>2. i \in DOMAIN f /\ f[i] = <<IdAt(t, i)>>
  BY DEF IdParts
<1> HIDE DEF f
<1>3. \A x : x \in ToSet(FlattenSeq(f)) <=> \E k \in DOMAIN f : x \in ToSet(f[k])
  <2> DEFINE T == Seq(Sign)
  <2>1. f \in Seq(Seq(T))
    BY <1>1
  <2> HIDE DEF T
  <2> QED BY <2>1, FlattenWhere
<1>4. IdAt(t, i) \in ToSet(<<IdAt(t, i)>>)
  BY DEF ToSet
<1> QED BY <1>1, <1>2, <1>3, <1>4

\* The numbers stay when more sources are cited.
LEMMA NumbersStay ==
  ASSUME NEW t \in Seq(Sign), NEW cited \in Seq(Seq(Sign)), NEW more \in Seq(Seq(Sign)),
         \A x \in ToSet(Ids(t)) : x \in Known => x \in ToSet(cited)
  PROVE  Renumbered(t, cited \o more) = Renumbered(t, cited)
<1>1. ASSUME NEW i \in 1 .. Len(t), Cites(t, i)
      PROVE  Number(IdAt(t, i), cited \o more) = Number(IdAt(t, i), cited)
  <2>1. IdAt(t, i) \in ToSet(Ids(t))
    BY <1>1, IdIn
  <2>2. CASE IdAt(t, i) \in Known
    <3>1. IdAt(t, i) \in ToSet(cited)
      BY <2>1, <2>2
    <3> QED BY <3>1, NumberStays
  <2>3. CASE IdAt(t, i) \notin Known
    BY <2>3 DEF Number
  <2> QED BY <2>2, <2>3
<1>2. DOMAIN t = 1 .. Len(t)
  OBVIOUS
<1>3. NumberParts(t, cited \o more) = NumberParts(t, cited)
  BY <1>1, <1>2 DEF NumberParts
<1> QED BY <1>3, Parts

-----------------------------------------------------------------------------
\* A blank is a seam: what is read on its two sides is read on its own.

\* No marker begins before and goes on with any other symbol.
LEMMA ApartThere ==
  ASSUME NEW s \in Seq(Sign), NEW t \in Seq(Sign),
         t # <<>> => t[1] \notin Digits \cup {"]"}
  PROVE  Apart(s, t)
<1> DEFINE u == s \o t
<1>1. /\ Len(u) = Len(s) + Len(t) /\ Len(s) \in Nat /\ Len(t) \in Nat
      /\ \A i \in 1 .. Len(t) : u[Len(s) + i] = t[i]
  BY Joining
<1> SUFFICES ASSUME NEW i \in 1 .. Len(s), NEW j \in MarkerAt(u, i), ~(j <= Len(s)) PROVE FALSE
  BY DEF Apart
<1> HIDE DEF u
<1>2. /\ j \in i + 2 .. Len(u) /\ u[j] = "]"
      /\ \A m \in i + 1 .. j - 1 : u[m] \in Digits
  BY DEF MarkerAt
<1>3. 1 \in 1 .. Len(t) /\ Len(s) + 1 \in i + 1 .. j
  BY <1>1, <1>2
<1>4. u[Len(s) + 1] \in Digits \cup {"]"}
  <2>1. CASE Len(s) + 1 = j
    BY <1>2, <2>1
  <2>2. CASE Len(s) + 1 # j
    <3>1. Len(s) + 1 \in i + 1 .. j - 1
      <4>1. i \in Int /\ j \in Int /\ Len(s) \in Int
        BY <1>1, <1>2
      <4> QED BY <1>3, <2>2, <4>1
    <3> QED BY <1>2, <3>1
  <2> QED BY <2>1, <2>2
<1>5. u[Len(s) + 1] = t[1] /\ t # <<>>
  BY <1>1, <1>3
<1> QED BY <1>4, <1>5

\* Nor does a held tag.
LEMMA TagsApartThere ==
  ASSUME NEW s \in Seq(Sign), NEW t \in Seq(Sign),
         t # <<>> => t[1] \notin TagNames \cup {">>"}
  PROVE  TagsApart(s, t)
<1> DEFINE u == s \o t
<1>1. /\ Len(u) = Len(s) + Len(t) /\ Len(s) \in Nat /\ Len(t) \in Nat
      /\ \A i \in 1 .. Len(t) : u[Len(s) + i] = t[i]
  BY Joining
<1> SUFFICES ASSUME NEW i \in 1 .. Len(s), HeldTag(u, i), ~(i + 2 <= Len(s)) PROVE FALSE
  BY DEF TagsApart
<1> HIDE DEF u
<1>2. i \in 1 .. Len(u) - 2 /\ u[i + 1] \in DOMAIN Value /\ u[i + 2] = ">>"
  BY DEF HeldTag
<1>3. 1 \in 1 .. Len(t) /\ (Len(s) + 1 = i + 1 \/ Len(s) + 1 = i + 2)
  BY <1>1, <1>2
<1>4. DOMAIN Value \subseteq TagNames
  BY AnswerTextAssumption
<1>5. u[Len(s) + 1] = t[1] /\ t # <<>>
  BY <1>1, <1>3
<1>6. u[Len(s) + 1] \in TagNames \cup {">>"}
  BY <1>2, <1>3, <1>4
<1> QED BY <1>5, <1>6

\* What the farmer is shown of a text that is numbered so, up to its blanks.
Reads(t, cited) == Unspaced(Revealed(Renumbered(t, cited)))

\* It is a text.
LEMMA ReadsAre ==
  ASSUME NEW t \in Seq(Sign), NEW cited \in Seq(Seq(Sign))
  PROVE  Reads(t, cited) \in Seq(Sign)
<1>1. Renumbered(t, cited) \in Seq(Sign)
  BY TextsAre
<1>2. Revealed(Renumbered(t, cited)) \in Seq(Sign)
  BY <1>1, TextsAre
<1> QED BY <1>2, TextsAre DEF Reads

\* Of blanks nothing is read.
LEMMA Blanks ==
  ASSUME NEW v \in Seq(Blank), NEW cited \in Seq(Seq(Sign))
  PROVE  /\ v \in Seq(Sign) /\ Ids(v) = <<>> /\ Renumbered(v, cited) = v
         /\ Revealed(v) = v /\ Unspaced(v) = <<>> /\ Unmarked(v) = v /\ Reads(v, cited) = <<>>
<1>1. \A i \in 1 .. Len(v) : v[i] \in Blank /\ v[i] # "[" /\ v[i] # "<<"
  <2>1. \A i \in 1 .. Len(v) : v[i] \in Blank
    OBVIOUS
  <2> QED BY <2>1 DEF Blank
<1>2. v \in Seq(Sign)
  <2>1. Blank \subseteq Sign
    BY Signs DEF Blank
  <2> QED BY <2>1, SeqMonotonic
<1>3. \A i \in 1 .. Len(v) : ~Cites(v, i)
  BY <1>1, <1>2, NoBracket
<1>4. Ids(v) = <<>> /\ Renumbered(v, cited) = v /\ Unmarked(v) = v
  BY <1>2, <1>3, NoneCited
<1>5. Revealed(v) = v
  <2>1. \A i \in 1 .. Len(v) : ~HeldTag(v, i)
    BY <1>1 DEF HeldTag
  <2> QED BY <1>2, <2>1, NoTags
<1>6. Unspaced(v) = <<>>
  <2> DEFINE f == LetterParts(v)
  <2>1. f \in Seq(Seq(Sign)) /\ Len(f) = Len(v)
    BY <1>2, PartsAre
  <2>2. \A i \in 1 .. Len(f) : f[i] = <<>>
    <3>1. DOMAIN v = 1 .. Len(v)
      OBVIOUS
    <3> QED BY <1>1, <2>1, <3>1 DEF LetterParts
  <2>3. FlattenSeq(f) = <<>>
    <3> HIDE DEF f
    <3> QED BY <2>1, <2>2, FlattenNothing
  <2> QED BY <2>3, Parts
<1> QED BY <1>2, <1>4, <1>5, <1>6 DEF Reads

\* The blank itself is not read.
LEMMA Seam ==
  ASSUME NEW s \in Seq(Sign), NEW t \in Seq(Sign), NEW b \in Blank, NEW cited \in Seq(Seq(Sign))
  PROVE  /\ s \o (<<b>> \o t) \in Seq(Sign)
         /\ Ids(s \o (<<b>> \o t)) = Ids(s) \o Ids(t)
         /\ Reads(s \o (<<b>> \o t), cited) = Reads(s, cited) \o Reads(t, cited)
<1>1. b \in Sign /\ b \notin Digits /\ b \notin TagNames /\ b \notin {"[", "]", "<<", ">>"}
  BY Signs DEF Blank
<1> DEFINE one == <<b>>
           rest == one \o t
<1>2. one \in Seq(Blank) /\ one \in Seq(Sign) /\ one # <<>> /\ one[1] = b /\ Len(one) = 1
  BY <1>1
<1>3. /\ Ids(one) = <<>> /\ Renumbered(one, cited) = one /\ Revealed(one) = one
      /\ Unspaced(one) = <<>>
  <2> HIDE DEF one
  <2> QED BY <1>2, Blanks
<1>4. rest \in Seq(Sign) /\ rest # <<>> /\ rest[1] = b
  BY <1>2, Joining
<1> HIDE DEF one
<1>5. s \o rest \in Seq(Sign)
  BY <1>4
<1>6. Apart(s, rest)
  <2> HIDE DEF rest
  <2> QED BY <1>1, <1>4, ApartThere
<1>7. Apart(one, t)
  <2> DEFINE u == one \o t
  <2>1. u[1] = b
    BY <1>2, Joining
  <2> SUFFICES ASSUME NEW i \in 1 .. Len(one), NEW j \in MarkerAt(u, i) PROVE FALSE
    BY DEF Apart
  <2> HIDE DEF u
  <2>2. i = 1 /\ u[i] = "["
    BY <1>2 DEF MarkerAt
  <2> QED BY <1>1, <2>1, <2>2
<1>8. Ids(s \o rest) = Ids(s) \o Ids(t)
  <2>1. Ids(s \o rest) = Ids(s) \o Ids(rest)
    <3> HIDE DEF rest
    <3> QED BY <1>4, <1>6, IdsJoin
  <2>2. Ids(rest) = Ids(one) \o Ids(t)
    BY <1>2, <1>7, IdsJoin
  <2>3. Ids(t) \in Seq(Seq(Sign))
    BY TextsAre
  <2>4. <<>> \o Ids(t) = Ids(t)
    BY <2>3
  <2> QED BY <1>3, <2>1, <2>2, <2>4
<1> DEFINE S == Renumbered(s, cited)
           R == Renumbered(t, cited)
<1>9. S \in Seq(Sign) /\ R \in Seq(Sign)
  BY TextsAre
<1>10. Renumbered(s \o rest, cited) = S \o (one \o R)
  <2>1. Renumbered(s \o rest, cited) = S \o Renumbered(rest, cited)
    <3> HIDE DEF rest
    <3> QED BY <1>4, <1>6, NumbersJoin
  <2>2. Renumbered(rest, cited) = one \o R
    <3>1. Renumbered(one \o t, cited) = Renumbered(one, cited) \o Renumbered(t, cited)
      <4> HIDE DEF S, R, rest
      <4> QED BY <1>2, <1>7, NumbersJoin
    <3> QED BY <1>3, <3>1
  <2> QED BY <2>1, <2>2
<1> HIDE DEF S, R, rest
<1>11. Revealed(S \o (one \o R)) = Revealed(S) \o (one \o Revealed(R))
  <2> DEFINE r == one \o R
  <2>1. r \in Seq(Sign) /\ r # <<>> /\ r[1] = b
    BY <1>2, <1>9, Joining
  <2>2. TagsApart(one, R)
    <3> SUFFICES ASSUME NEW i \in 1 .. Len(one), HeldTag(r, i) PROVE FALSE
      BY DEF TagsApart
    <3>1. i = 1 /\ r[i] = "<<"
      BY <1>2 DEF HeldTag
    <3> QED BY <1>1, <2>1, <3>1
  <2>3. Revealed(r) = one \o Revealed(R)
    BY <1>2, <1>3, <1>9, <2>2, RevealJoin
  <2> HIDE DEF r
  <2>4. TagsApart(S, r)
    BY <1>1, <1>9, <2>1, TagsApartThere
  <2>5. Revealed(S \o r) = Revealed(S) \o Revealed(r)
    BY <1>9, <2>1, <2>4, RevealJoin
  <2> QED BY <2>3, <2>5 DEF r
<1> DEFINE p == Revealed(S)
           q == Revealed(R)
<1>12. p \in Seq(Sign) /\ q \in Seq(Sign)
  <2>1. <<>> \in Seq(Seq(Sign))
    OBVIOUS
  <2> QED BY <1>9, <2>1, TextsAre
<1> HIDE DEF p, q
<1>13. Unspaced(p \o (one \o q)) = Unspaced(p) \o Unspaced(q)
  <2>1. one \o q \in Seq(Sign)
    BY <1>2, <1>12
  <2>2. Unspaced(p \o (one \o q)) = Unspaced(p) \o Unspaced(one \o q)
    BY <1>12, <2>1, LettersJoin
  <2>3. Unspaced(one \o q) = Unspaced(one) \o Unspaced(q)
    BY <1>2, <1>12, LettersJoin
  <2>4. Unspaced(q) \in Seq(Sign)
    <3>1. <<>> \in Seq(Seq(Sign))
      OBVIOUS
    <3> QED BY <1>12, <3>1, TextsAre
  <2>5. <<>> \o Unspaced(q) = Unspaced(q)
    BY <2>4
  <2> QED BY <1>3, <2>2, <2>3, <2>5
<1> QED BY <1>5, <1>8, <1>10, <1>11, <1>13 DEF Reads, S, R, p, q, rest, one

-----------------------------------------------------------------------------
\* What a filter holds back.

\* The end of two texts joined that begins in the first.
LEMMA SuffixEarly ==
  ASSUME NEW s \in Seq(Sign), NEW t \in Seq(Sign), NEW j \in 1 .. Len(s)
  PROVE  /\ Suffix(s, j) \in Seq(Sign) /\ Suffix(s, j) # <<>>
         /\ Suffix(s \o t, j) = Suffix(s, j) \o t
         /\ Suffix(s \o t, j) \in Seq(Sign)
<1> DEFINE u == s \o t
           v == Suffix(u, j)
<1>1. /\ u \in Seq(Sign) /\ Len(u) = Len(s) + Len(t) /\ Len(s) \in Nat /\ Len(t) \in Nat
      /\ \A i \in 1 .. Len(s) : u[i] = s[i]
      /\ \A i \in 1 .. Len(t) : u[Len(s) + i] = t[i]
  BY Joining
<1> HIDE DEF u
<1>2. /\ v \in Seq(Sign) /\ Len(v) = (Len(u) + 1) - j
      /\ \A i \in 1 .. (Len(u) + 1) - j : v[i] = u[j - 1 + i]
  <2>1. j \in 1 .. Len(u) + 1 /\ Len(u) + 1 - j = (Len(u) + 1) - j
    BY <1>1
  <2>2. /\ Suffix(u, j) \in Seq(Sign) /\ Len(Suffix(u, j)) = Len(u) + 1 - j
        /\ \A i \in 1 .. Len(u) + 1 - j : Suffix(u, j)[i] = u[j - 1 + i]
    BY <1>1, <2>1, CutAt
  <2> QED BY <2>1, <2>2
<1> HIDE DEF v
<1>3. QED
  <2>0. j <= Len(s)
    OBVIOUS
  <2> DEFINE a == Suffix(s, j)
  <2>1. /\ a \in Seq(Sign) /\ Len(a) = (Len(s) + 1) - j
        /\ \A i \in 1 .. (Len(s) + 1) - j : a[i] = s[j - 1 + i]
    <3>1. j \in 1 .. Len(s) + 1 /\ Len(s) + 1 - j = (Len(s) + 1) - j
      BY <1>1, <2>0
    <3>2. /\ Suffix(s, j) \in Seq(Sign) /\ Len(Suffix(s, j)) = Len(s) + 1 - j
          /\ \A i \in 1 .. Len(s) + 1 - j : Suffix(s, j)[i] = s[j - 1 + i]
      BY <3>1, CutAt
    <3> QED BY <3>1, <3>2
  <2> HIDE DEF a
  <2> DEFINE c == a \o t
  <2>2. /\ c \in Seq(Sign) /\ Len(c) = Len(a) + Len(t)
        /\ \A i \in 1 .. Len(a) : c[i] = a[i]
        /\ \A i \in 1 .. Len(t) : c[Len(a) + i] = t[i]
    <3>1. a \in Seq(Sign)
      BY <2>1
    <3> QED BY <3>1, Joining
  <2> HIDE DEF c
  <2>3. Len(v) = Len(c)
    BY <1>1, <1>2, <2>0, <2>1, <2>2
  <2>4. ASSUME NEW i \in 1 .. Len(v) PROVE v[i] = c[i]
    <3>1. i \in 1 .. (Len(u) + 1) - j /\ v[i] = u[j - 1 + i] /\ i \in Int /\ j \in Int
      BY <1>2
    <3>2. CASE i <= Len(a)
      <4>1. i \in 1 .. Len(a) /\ i \in 1 .. (Len(s) + 1) - j /\ j - 1 + i \in 1 .. Len(s)
        BY <1>1, <2>0, <2>1, <3>1, <3>2
      <4> QED BY <1>1, <2>1, <2>2, <3>1, <4>1
    <3>3. CASE ~(i <= Len(a))
      <4> DEFINE d == i - Len(a)
      <4>1. d \in 1 .. Len(t) /\ Len(a) + d = i /\ j - 1 + i = Len(s) + d
        BY <1>1, <2>0, <2>1, <3>1, <3>3
      <4> HIDE DEF d
      <4>2. c[Len(a) + d] = t[d] /\ u[Len(s) + d] = t[d]
        BY <1>1, <2>2, <4>1
      <4> QED BY <3>1, <4>1, <4>2
    <3> QED BY <3>2, <3>3
  <2>5. v = c
    BY <1>2, <2>2, <2>3, <2>4, SeqEqual
  <2>6. a # <<>>
    <3>1. Len(a) > 0
      BY <1>1, <2>0, <2>1
    <3> QED BY <3>1
  <2> QED BY <1>1, <1>2, <2>0, <2>1, <2>5, <2>6 DEF a, c, u, v

\* And the one that begins in the second.
LEMMA SuffixLate ==
  ASSUME NEW s \in Seq(Sign), NEW t \in Seq(Sign), NEW j \in 1 .. Len(s) + Len(t), j > Len(s)
  PROVE  Suffix(s \o t, j) = Suffix(t, j - Len(s)) /\ Suffix(s \o t, j) \in Seq(Sign)
<1> DEFINE u == s \o t
           v == Suffix(u, j)
<1>1. /\ u \in Seq(Sign) /\ Len(u) = Len(s) + Len(t) /\ Len(s) \in Nat /\ Len(t) \in Nat
      /\ \A i \in 1 .. Len(s) : u[i] = s[i]
      /\ \A i \in 1 .. Len(t) : u[Len(s) + i] = t[i]
  BY Joining
<1> HIDE DEF u
<1>2. /\ v \in Seq(Sign) /\ Len(v) = (Len(u) + 1) - j
      /\ \A i \in 1 .. (Len(u) + 1) - j : v[i] = u[j - 1 + i]
  <2>1. j \in 1 .. Len(u) + 1 /\ Len(u) + 1 - j = (Len(u) + 1) - j
    BY <1>1
  <2>2. /\ Suffix(u, j) \in Seq(Sign) /\ Len(Suffix(u, j)) = Len(u) + 1 - j
        /\ \A i \in 1 .. Len(u) + 1 - j : Suffix(u, j)[i] = u[j - 1 + i]
    BY <1>1, <2>1, CutAt
  <2> QED BY <2>1, <2>2
<1> HIDE DEF v
<1>3. QED
  <2>0. ~(j <= Len(s))
    OBVIOUS
  <2> DEFINE m == j - Len(s)
             b == Suffix(t, m)
  <2>1. m \in 1 .. Len(t) + 1 /\ Len(t) + 1 - m = (Len(t) + 1) - m /\ j = Len(s) + m /\ j \in Int
    BY <1>1, <2>0
  <2> HIDE DEF m
  <2>2. /\ b \in Seq(Sign) /\ Len(b) = (Len(t) + 1) - m
        /\ \A i \in 1 .. (Len(t) + 1) - m : b[i] = t[m - 1 + i]
    <3>1. /\ Suffix(t, m) \in Seq(Sign) /\ Len(Suffix(t, m)) = Len(t) + 1 - m
          /\ \A i \in 1 .. Len(t) + 1 - m : Suffix(t, m)[i] = t[m - 1 + i]
      BY <2>1, CutAt
    <3> QED BY <2>1, <3>1
  <2> HIDE DEF b
  <2>3. Len(v) = Len(b)
    BY <1>1, <1>2, <2>1, <2>2
  <2>4. ASSUME NEW i \in 1 .. Len(v) PROVE v[i] = b[i]
    <3> DEFINE d == m - 1 + i
    <3>1. i \in Int /\ m \in Int
      BY <2>1
    <3>2. /\ d \in 1 .. Len(t) /\ j - 1 + i = Len(s) + d
          /\ i \in 1 .. (Len(t) + 1) - m /\ i \in 1 .. (Len(u) + 1) - j
      BY <1>1, <1>2, <2>1, <2>2, <2>3, <3>1
    <3>3. b[i] = t[d] /\ v[i] = u[j - 1 + i]
      BY <1>2, <2>2, <3>2
    <3> HIDE DEF d
    <3> QED BY <1>1, <3>2, <3>3
  <2>5. v = b
    BY <1>2, <2>2, <2>3, <2>4, SeqEqual
  <2>6. v = Suffix(t, j - Len(s))
    BY <2>5 DEF b, m
  <2> QED BY <1>1, <1>2, <2>0, <2>6 DEF u, v

\* A text is cut in two.
LEMMA Halves ==
  ASSUME NEW text \in Seq(Sign), NEW k \in 1 .. Len(text) + 1
  PROVE  /\ Before(text, k) \in Seq(Sign) /\ Len(Before(text, k)) = k - 1
         /\ Suffix(text, k) \in Seq(Sign) /\ Len(Suffix(text, k)) = Len(text) + 1 - k
         /\ text = Before(text, k) \o Suffix(text, k)
BY CutAt

\* The beginning of what may be more may be more.
Closed(M) ==
  /\ \A t \in M : t \in Seq(Sign) /\ t # <<>>
  /\ \A t, r \in Seq(Sign) : t # <<>> /\ t \o r \in M => t \in M

\* Nothing of w may be more, and all of h may be.
Holds(M, w, h) ==
  /\ h = <<>> \/ h \in M
  /\ \A j \in 1 .. Len(w) : Suffix(w \o h, j) \notin M

\* Where what may be more begins.
HeldIn(M, text) == {i \in DOMAIN text : Suffix(text, i) \in M}

\* The text is cut where what may be more begins.
HeldRight(M, w, text, k) ==
  /\ Before(text, k) \in Seq(Sign) /\ Suffix(text, k) \in Seq(Sign)
  /\ text = Before(text, k) \o Suffix(text, k)
  /\ Holds(M, w \o Before(text, k), Suffix(text, k))
  /\ k \in 1 .. Len(text) + 1
  /\ \A i \in 1 .. k - 1 : Suffix(text, i) \notin M

\* One piece more, and a filter holds as much as it has to.
LEMMA HeldStep ==
  ASSUME NEW M, Closed(M), NEW w \in Seq(Sign), NEW h \in Seq(Sign), NEW p \in Seq(Sign),
         Holds(M, w, h), NEW k, k = HeldFrom(h \o p, HeldIn(M, h \o p))
  PROVE  HeldRight(M, w, h \o p, k)
<1> DEFINE text == h \o p
           ks == HeldIn(M, text)
           ready == Before(text, k)
           rest == Suffix(text, k)
<1>1. /\ text \in Seq(Sign) /\ DOMAIN text = 1 .. Len(text) /\ Len(text) = Len(h) + Len(p)
      /\ Len(text) \in Nat /\ Len(h) \in Nat /\ Len(p) \in Nat /\ Len(w) \in Nat
  BY Joining
<1>0. k = HeldFrom(text, ks) /\ (\A i \in ks : i \in 1 .. Len(text) /\ Suffix(text, i) \in M)
      /\ \A i \in 1 .. Len(text) : Suffix(text, i) \in M => i \in ks
  BY <1>1 DEF HeldIn
<1> HIDE DEF ks, text
<1>2. /\ k \in 1 .. Len(text) + 1
      /\ k \in ks \/ k = Len(text) + 1
      /\ \A m \in ks : k <= m
  <2>1. ks \in SUBSET (1 .. Len(text))
    BY <1>0
  <2>2. /\ HeldFrom(text, ks) \in 1 .. Len(text) + 1
        /\ HeldFrom(text, ks) \in ks \/ HeldFrom(text, ks) = Len(text) + 1
        /\ \A m \in ks : HeldFrom(text, ks) <= m
    BY <1>1, <2>1, HeldAt
  <2> QED BY <1>0, <2>2
<1>3. \A i \in 1 .. k - 1 : Suffix(text, i) \notin M
  <2> SUFFICES ASSUME NEW i \in 1 .. k - 1, Suffix(text, i) \in M PROVE FALSE
    OBVIOUS
  <2>1. i \in 1 .. Len(text) /\ ~(k <= i)
    BY <1>1, <1>2
  <2>2. i \in ks
    BY <1>0, <2>1
  <2> QED BY <1>2, <2>1, <2>2
<1>4. /\ ready \in Seq(Sign) /\ Len(ready) = k - 1 /\ rest \in Seq(Sign)
      /\ text = ready \o rest /\ Len(rest) = Len(text) + 1 - k
  <2>1. Len(text) + 1 - k = Len(text) + (1 - k)
    OBVIOUS
  <2>2. /\ Before(text, k) \in Seq(Sign) /\ Len(Before(text, k)) = k - 1
        /\ Suffix(text, k) \in Seq(Sign) /\ Len(Suffix(text, k)) = Len(text) + 1 - k
        /\ text = Before(text, k) \o Suffix(text, k)
    <3>1. k \in 1 .. Len(text) + 1
      BY <1>2
    <3>2. text \in Seq(Sign)
      BY <1>1
    <3> QED BY <3>1, <3>2, Halves
  <2> QED BY <2>2
<1>5. rest = <<>> \/ rest \in M
  <2>1. CASE k \in ks
    BY <1>0, <2>1
  <2>2. CASE k = Len(text) + 1
    <3> HIDE DEF rest
    <3>1. Len(rest) = 0
      BY <1>1, <1>4, <2>2
    <3> QED BY <1>4, <3>1
  <2> QED BY <1>2, <2>1, <2>2
<1>6. (w \o ready) \o rest = w \o text
  <2> HIDE DEF ready, rest
  <2>1. (w \o ready) \o rest = w \o (ready \o rest)
    BY SMTT(30), <1>4
  <2> QED BY <1>4, <2>1
<1>9. w \o ready \in Seq(Sign) /\ Len(w \o ready) = Len(w) + (k - 1)
  <2> HIDE DEF ready
  <2>1. w \o ready \in Seq(Sign) /\ Len(w \o ready) = Len(w) + Len(ready)
    <3>1. ready \in Seq(Sign)
      BY <1>4
    <3> QED BY <3>1, Joining
  <2> QED BY <1>4, <2>1
<1>7. ASSUME NEW j \in 1 .. Len(w \o ready) PROVE Suffix(w \o text, j) \notin M
  <2>0. j \in 1 .. Len(w) + (k - 1)
    BY <1>9
  <2> HIDE DEF ready, rest
  <2>1. j \in 1 .. Len(w) + Len(text) /\ j \in Int /\ k \in Int
    BY <1>1, <1>2, <2>0
  <2>2. CASE j <= Len(w)
    <3> DEFINE a == Suffix(w \o h, j)
               b == Suffix(w, j)
    <3>1. j \in 1 .. Len(w) + Len(h) /\ j \in 1 .. Len(w)
      BY <1>1, <2>1, <2>2
    <3>2. a \in Seq(Sign) /\ a = b \o h /\ b # <<>> /\ b \in Seq(Sign)
      BY <3>1, SuffixEarly
    <3>3. Suffix(w \o text, j) = b \o text
      <4>1. text \in Seq(Sign)
        BY <1>1
      <4>2. j \in 1 .. Len(w)
        BY <3>1
      <4>3. Suffix(w \o text, j) = Suffix(w, j) \o text
        BY <4>1, <4>2, SuffixEarly
      <4> QED BY <4>3
    <3>5. a \notin M
      BY <3>1 DEF Holds
    <3> HIDE DEF a, b
    <3>4. b \o text = a \o p /\ a # <<>>
      <4>1. (b \o h) \o p = b \o (h \o p)
        BY SMTT(30), <3>2
      <4>2. Len(b) > 0 /\ Len(b) \in Nat
        BY <3>2
      <4>3. Len(b \o h) = Len(b) + Len(h)
        BY <3>2
      <4>4. Len(a) > 0
        BY <1>1, <3>2, <4>2, <4>3
      <4> QED BY <3>2, <4>1, <4>4 DEF text
    <3>6. a \o p \notin M
      BY <3>2, <3>4, <3>5 DEF Closed
    <3> QED BY <3>3, <3>4, <3>6
  <2>3. CASE ~(j <= Len(w))
    <3>1. Suffix(w \o text, j) = Suffix(text, j - Len(w))
      <4>1. /\ text \in Seq(Sign) /\ j \in 1 .. Len(w) + Len(text) /\ j > Len(w)
        BY <1>1, <2>1, <2>3
      <4>2. Suffix(w \o text, j) = Suffix(text, j - Len(w))
        BY <4>1, SuffixLate
      <4> QED BY <4>1, <4>2
    <3>2. j - Len(w) \in 1 .. k - 1
      BY <1>1, <1>2, <2>0, <2>1, <2>3
    <3> QED BY <1>3, <3>1, <3>2
  <2> QED BY <2>2, <2>3
<1>8. Holds(M, w \o ready, rest)
  BY <1>5, <1>6, <1>7 DEF Holds
<1>10. HeldRight(M, w, text, k)
  BY <1>2, <1>3, <1>4, <1>8 DEF HeldRight
<1> QED BY <1>10 DEF text

\* s goes the way of h as far as it goes.
Along(h, s) == \A i \in 1 .. Len(s) : i <= Len(h) => s[i] = h[i]

\* What a filter reads begins the way of what it held.
LEMMA AlongBefore ==
  ASSUME NEW h \in Seq(Sign), NEW p \in Seq(Sign), NEW s \in Seq(Sign), NEW r \in Seq(Sign),
         s \o r = h \o p
  PROVE  Along(h, s)
<1>1. \A i \in 1 .. Len(s) : (s \o r)[i] = s[i]
  BY Joining
<1>2. \A i \in 1 .. Len(h) : (h \o p)[i] = h[i]
  BY Joining
<1>3. \A i \in 1 .. Len(s) : i <= Len(h) => i \in 1 .. Len(h)
  OBVIOUS
<1> QED BY <1>1, <1>2, <1>3 DEF Along

HoldsMarkers(M) ==
  /\ \A t \in Seq(Sign) : PartMarker(t) => t \in M
  /\ \A t \in M : t[1] \in {" ", "newline", "["}

HoldsTags(M) ==
  /\ \A t \in Seq(Sign) : OpenTag(t) => t \in M
  /\ \A t \in M : t[1] = "<<"

\* The beginning of w, and what follows, are in the same symbols.
LEMMA MarkersHeld ==
  ASSUME NEW M, HoldsMarkers(M), NEW w \in Seq(Sign), NEW h \in Seq(Sign),
         NEW s \in Seq(Sign), Along(h, s), Holds(M, w, h)
  PROVE  Apart(w, s)
<1> DEFINE u == w \o s
           v == w \o h
<1>1. /\ u \in Seq(Sign) /\ Len(u) = Len(w) + Len(s) /\ Len(w) \in Nat /\ Len(s) \in Nat
      /\ \A i \in 1 .. Len(w) : u[i] = w[i]
      /\ \A i \in 1 .. Len(s) : u[Len(w) + i] = s[i]
  BY Joining
<1>2. /\ v \in Seq(Sign) /\ Len(v) = Len(w) + Len(h) /\ Len(h) \in Nat
      /\ \A i \in 1 .. Len(w) : v[i] = w[i]
      /\ \A i \in 1 .. Len(h) : v[Len(w) + i] = h[i]
  BY Joining
<1>3. \A i \in 1 .. Len(s) : i <= Len(h) => s[i] = h[i]
  BY DEF Along
<1>4. \A j \in 1 .. Len(w) : Suffix(v, j) \notin M
  BY DEF Holds
<1> SUFFICES ASSUME NEW i \in 1 .. Len(w), NEW j \in MarkerAt(u, i), ~(j <= Len(w)) PROVE FALSE
  BY DEF Apart
<1> HIDE DEF u, v
<1>5. /\ j \in i + 2 .. Len(u) /\ u[i] = "[" /\ u[j] = "]"
      /\ \A m \in i + 1 .. j - 1 : u[m] \in Digits
  BY DEF MarkerAt
<1>6. ASSUME NEW m \in 1 .. Len(v), m <= j PROVE v[m] = u[m]
  <2>1. CASE m <= Len(w)
    <3>1. m \in 1 .. Len(w)
      BY <2>1
    <3> QED BY <1>1, <1>2, <3>1
  <2>2. CASE ~(m <= Len(w))
    <3> DEFINE d == m - Len(w)
    <3>1. j \in Int /\ m \in Int
      BY <1>5
    <3>2. d \in 1 .. Len(s) /\ d \in 1 .. Len(h) /\ d <= Len(h) /\ Len(w) + d = m
      BY <1>1, <1>2, <1>5, <1>6, <2>2, <3>1
    <3> HIDE DEF d
    <3> QED BY <1>1, <1>2, <1>3, <3>2
  <2> QED BY <2>1, <2>2
<1>7. CASE j <= Len(v)
  <2>1. 1 \in 1 .. Len(h) /\ Len(w) + 1 \in 1 .. Len(v) /\ Len(w) + 1 <= j /\ h # <<>>
    BY <1>1, <1>2, <1>5, <1>7
  <2>2. u[Len(w) + 1] \in Digits \cup {"]"}
    <3>1. CASE Len(w) + 1 = j
      BY <1>5, <3>1
    <3>2. CASE Len(w) + 1 # j
      <4>0. Len(w) \in Int /\ i \in Int /\ j \in Int /\ i <= Len(w) /\ Len(w) + 1 <= j
        BY <1>1, <1>5, <2>1
      <4>1. Len(w) + 1 \in i + 1 .. j - 1
        BY <4>0, <3>2
      <4> QED BY <1>5, <4>1
    <3> QED BY <3>1, <3>2
  <2>3. h[1] \in Digits \cup {"]"}
    BY <1>2, <1>6, <2>1, <2>2
  <2>4. h[1] \in {" ", "newline", "["}
    BY <2>1 DEF Holds, HoldsMarkers
  <2> QED BY <2>3, <2>4, Signs
<1>8. CASE ~(j <= Len(v))
  <2> DEFINE a == Suffix(v, i)
  <2>1. i \in 1 .. Len(v) /\ i \in 1 .. Len(v) + 1 /\ i \in Nat
    BY <1>1, <1>2
  <2>2. /\ a \in Seq(Sign) /\ Len(a) = Len(v) + 1 - i
        /\ \A m \in 1 .. Len(v) + 1 - i : a[m] = v[i - 1 + m]
    BY <1>2, <2>1, CutAt
  <2> HIDE DEF a
  <2>3. a # <<>> /\ a[1] = "["
    <3>1. Len(v) + 1 - i > 0 /\ 1 \in 1 .. Len(v) + 1 - i /\ i - 1 + 1 = i /\ i <= j
      BY <1>2, <1>5, <2>1
    <3>2. a[1] = v[i] /\ v[i] = u[i]
      BY <1>6, <2>1, <2>2, <3>1
    <3> QED BY <1>5, <2>2, <3>1, <3>2
  <2>4. ASSUME NEW m \in 2 .. Len(a) PROVE a[m] \in Digits
    <3>1. /\ m \in 1 .. Len(v) + 1 - i /\ i - 1 + m \in i + 1 .. j - 1
          /\ i - 1 + m \in 1 .. Len(v) /\ i - 1 + m <= j
      BY <1>2, <1>5, <1>8, <2>1, <2>2
    <3> QED BY <1>5, <1>6, <2>2, <3>1
  <2>5. PartMarker(a)
    BY <2>3, <2>4 DEF PartMarker
  <2> QED BY <1>4, <2>2, <2>5 DEF a, HoldsMarkers
<1> QED BY <1>7, <1>8

\* So are the symbols of a tag.
LEMMA TagsHeld ==
  ASSUME NEW M, HoldsTags(M), NEW w \in Seq(Sign), NEW h \in Seq(Sign),
         NEW s \in Seq(Sign), Along(h, s), Holds(M, w, h)
  PROVE  TagsApart(w, s)
<1> DEFINE u == w \o s
           v == w \o h
<1>1. /\ u \in Seq(Sign) /\ Len(u) = Len(w) + Len(s) /\ Len(w) \in Nat /\ Len(s) \in Nat
      /\ \A i \in 1 .. Len(w) : u[i] = w[i]
      /\ \A i \in 1 .. Len(s) : u[Len(w) + i] = s[i]
  BY Joining
<1>2. /\ v \in Seq(Sign) /\ Len(v) = Len(w) + Len(h) /\ Len(h) \in Nat
      /\ \A i \in 1 .. Len(w) : v[i] = w[i]
      /\ \A i \in 1 .. Len(h) : v[Len(w) + i] = h[i]
  BY Joining
<1>3. \A i \in 1 .. Len(s) : i <= Len(h) => s[i] = h[i]
  BY DEF Along
<1>4. \A j \in 1 .. Len(w) : Suffix(v, j) \notin M
  BY DEF Holds
<1> SUFFICES ASSUME NEW i \in 1 .. Len(w), HeldTag(u, i), ~(i + 2 <= Len(w)) PROVE FALSE
  BY DEF TagsApart
<1> HIDE DEF u, v
<1>5. i \in 1 .. Len(u) - 2 /\ u[i] = "<<" /\ u[i + 1] \in DOMAIN Value /\ u[i + 2] = ">>"
  BY DEF HeldTag
<1>6. DOMAIN Value \subseteq TagNames /\ \A x \in TagNames \cup {">>"} : x # "<<"
  BY AnswerTextAssumption, Signs
<1>7. ASSUME NEW m \in 1 .. Len(v), m <= i + 2 PROVE v[m] = u[m]
  <2>1. CASE m <= Len(w)
    <3>1. m \in 1 .. Len(w)
      BY <2>1
    <3> QED BY <1>1, <1>2, <3>1
  <2>2. CASE ~(m <= Len(w))
    <3> DEFINE d == m - Len(w)
    <3>1. d \in 1 .. Len(s) /\ d \in 1 .. Len(h) /\ d <= Len(h) /\ Len(w) + d = m
      BY <1>1, <1>2, <1>5, <1>7, <2>2
    <3> HIDE DEF d
    <3> QED BY <1>1, <1>2, <1>3, <3>1
  <2> QED BY <2>1, <2>2
<1>8. CASE i + 2 <= Len(v)
  <2>1. /\ 1 \in 1 .. Len(h) /\ Len(w) + 1 \in 1 .. Len(v) /\ h # <<>>
        /\ Len(w) + 1 = i + 1 \/ Len(w) + 1 = i + 2
    <3>1. i \in Int /\ i <= Len(w) /\ ~(i + 2 <= Len(w)) /\ i + 2 <= Len(v) /\ Len(w) \in Int
      BY <1>1, <1>5, <1>8
    <3>2. Len(v) = Len(w) + Len(h) /\ Len(h) \in Int
      BY <1>2
    <3>3. 1 <= Len(h) /\ (i = Len(w) \/ i + 1 = Len(w))
      BY <3>1, <3>2
    <3> QED BY <3>1, <3>2, <3>3
  <2>2. u[Len(w) + 1] \in TagNames \cup {">>"}
    BY <1>5, <1>6, <2>1
  <2>3. h[1] \in TagNames \cup {">>"}
    BY <1>2, <1>7, <2>1, <2>2
  <2>4. h[1] = "<<"
    BY <2>1 DEF Holds, HoldsTags
  <2> QED BY <1>6, <2>3, <2>4
<1>9. CASE ~(i + 2 <= Len(v))
  <2> DEFINE a == Suffix(v, i)
  <2>1. i \in 1 .. Len(v) /\ i \in 1 .. Len(v) + 1 /\ i \in Nat
    BY <1>1, <1>2
  <2>2. /\ a \in Seq(Sign) /\ Len(a) = Len(v) + 1 - i
        /\ \A m \in 1 .. Len(v) + 1 - i : a[m] = v[i - 1 + m]
    BY <1>2, <2>1, CutAt
  <2> HIDE DEF a
  <2>3. a # <<>> /\ a[1] = "<<"
    <3>1. Len(v) + 1 - i > 0 /\ 1 \in 1 .. Len(v) + 1 - i /\ i - 1 + 1 = i /\ i <= i + 2
      BY <1>2, <2>1
    <3>2. a[1] = v[i] /\ v[i] = u[i]
      BY <1>7, <2>1, <2>2, <3>1
    <3> QED BY <1>5, <2>2, <3>1, <3>2
  <2>4. ASSUME NEW m \in 2 .. Len(a) PROVE a[m] \in TagNames
    <3>1. /\ m \in 1 .. Len(v) + 1 - i /\ i - 1 + m = i + 1
          /\ i + 1 \in 1 .. Len(v) /\ i + 1 <= i + 2
      BY <1>2, <1>9, <2>1, <2>2
    <3>2. a[m] = u[i + 1]
      BY <1>7, <2>2, <3>1
    <3> QED BY <1>5, <1>6, <3>2
  <2>5. OpenTag(a)
    BY <1>5, <2>3, <2>4 DEF OpenTag
  <2> QED BY <1>4, <2>2, <2>5 DEF a, HoldsTags
<1> QED BY <1>8, <1>9

-----------------------------------------------------------------------------
\* What each filter holds back.

CiteMore   == {t \in Seq(Sign) : MayCite(t)}
NumberMore == {t \in Seq(Sign) : MayNumber(t)}
TagMore    == {t \in Seq(Sign) : OpenTag(t)}

\* x begins with t.
Begins(t, x) == Len(t) <= Len(x) /\ \A i \in 1 .. Len(t) : t[i] = x[i]

\* A text is chomped of one symbol, or of none.
LEMMA ChompedIs ==
  ASSUME NEW t \in Seq(Sign)
  PROVE  /\ Chomped(t) \in Seq(Sign) /\ Begins(Chomped(t), t)
         /\ Chomped(t) = t \/ (Len(Chomped(t)) = Len(t) - 1 /\ t[Len(t)] = "newline")
         /\ Len(Chomped(t)) \in Nat /\ Len(t) \in Nat
<1>1. Len(t) \in Nat
  OBVIOUS
<1>2. CASE t # <<>> /\ t[Len(t)] = "newline"
  <2>1. Len(t) \in 1 .. Len(t) + 1
    BY <1>1, <1>2
  <2> DEFINE n == Len(t)
             c == Before(t, n)
  <2>2. n \in 1 .. Len(t) + 1 /\ n \in Nat
    BY <1>1, <2>1
  <2> HIDE DEF n
  <2>3. c \in Seq(Sign) /\ Len(c) = n - 1 /\ \A i \in 1 .. n - 1 : c[i] = t[i]
    BY <2>2, CutAt
  <2>4. Chomped(t) = c
    BY <1>2 DEF Chomped, n
  <2> HIDE DEF c
  <2>5. Len(c) <= Len(t) /\ Len(c) \in Nat
    BY <2>1, <2>2, <2>3 DEF n
  <2> QED BY <1>1, <1>2, <2>3, <2>4, <2>5 DEF Begins, n
<1>3. CASE ~(t # <<>> /\ t[Len(t)] = "newline")
  <2>1. Chomped(t) = t
    BY <1>3 DEF Chomped
  <2> QED BY <1>1, <2>1 DEF Begins
<1> QED BY <1>2, <1>3

\* The beginning of a text is in what it is chomped to.
LEMMA BeginsChomped ==
  ASSUME NEW t \in Seq(Sign), NEW r \in Seq(Sign), r # <<>>
  PROVE  Begins(t, Chomped(t \o r))
<1> DEFINE x == t \o r
           c == Chomped(x)
<1>1. /\ x \in Seq(Sign) /\ Len(x) = Len(t) + Len(r) /\ Len(t) \in Nat /\ Len(r) \in Nat
      /\ \A i \in 1 .. Len(t) : x[i] = t[i]
  BY Joining
<1>2. Len(r) > 0
  BY <1>1
<1> HIDE DEF x
<1>3. /\ Begins(c, x) /\ Len(c) \in Nat
      /\ c = x \/ Len(c) = Len(x) - 1
  BY <1>1, ChompedIs
<1> HIDE DEF c
<1>4. Len(t) <= Len(c)
  BY <1>1, <1>2, <1>3
<1>5. \A i \in 1 .. Len(t) : i \in 1 .. Len(c)
  BY <1>1, <1>3, <1>4
<1> QED BY <1>1, <1>3, <1>4, <1>5 DEF Begins, c, x

\* A text joined on to begins as it did.
LEMMA BeginsJoin ==
  ASSUME NEW t \in Seq(Sign), NEW r \in Seq(Sign)
  PROVE  Begins(t, t \o r)
<1>1. /\ Len(t \o r) = Len(t) + Len(r) /\ Len(t) \in Nat /\ Len(r) \in Nat
      /\ \A i \in 1 .. Len(t) : (t \o r)[i] = t[i]
  BY Joining
<1> QED BY <1>1 DEF Begins

\* The beginning of a partial marker is one.
LEMMA PartBegins ==
  ASSUME NEW x \in Seq(Sign), NEW t \in Seq(Sign), t # <<>>, Begins(t, x), PartMarker(x)
  PROVE  PartMarker(t)
<1>1. Len(t) \in Nat /\ Len(x) \in Nat /\ Len(t) > 0
  OBVIOUS
<1>2. \A i \in 1 .. Len(t) : t[i] = x[i]
  BY DEF Begins
<1>3. t[1] = "["
  BY <1>1, <1>2 DEF PartMarker
<1>4. \A i \in 2 .. Len(t) : i \in 2 .. Len(x) /\ i \in 1 .. Len(t)
  BY <1>1 DEF Begins
<1> QED BY <1>2, <1>3, <1>4 DEF PartMarker

\* One blank is one symbol.
LEMMA OneBlank ==
  ASSUME NEW c, c \in {<<" ">>, <<"newline">>}
  PROVE  c # <<>> /\ Len(c) = 1 /\ c[1] \in {" ", "newline"}
<1>1. CASE c = <<" ">>
  BY <1>1
<1>2. CASE c = <<"newline">>
  BY <1>2
<1> QED BY <1>1, <1>2

\* _MAYBE_MORE, chomped.
Citing(c) ==
  \/ c \in {<<" ">>, <<"newline">>}
  \/ PartMarker(c)
  \/ c # <<>> /\ c[1] = " " /\ PartMarker(Suffix(c, 2))

\* The beginning of what is held for a citation is too.
LEMMA CitingBegins ==
  ASSUME NEW x \in Seq(Sign), NEW t \in Seq(Sign), t # <<>>, Begins(t, x), Citing(x)
  PROVE  Citing(t)
<1>1. Len(t) \in Nat /\ Len(x) \in Nat /\ Len(t) > 0 /\ Len(t) <= Len(x)
  BY DEF Begins
<1>2. \A i \in 1 .. Len(t) : t[i] = x[i]
  BY DEF Begins
<1>6. t[1] = x[1]
  <2>1. 1 \in 1 .. Len(t)
    BY <1>1
  <2> QED BY <1>2, <2>1
<1>3. CASE x \in {<<" ">>, <<"newline">>}
  <2>0. Len(x) = 1
    BY <1>3, OneBlank
  <2>1. x[1] \in {" ", "newline"}
    BY <1>3, OneBlank
  <2>2. Len(t) = 1 /\ t[1] = x[1]
    BY <1>1, <1>6, <2>0
  <2>3. t = <<t[1]>>
    BY <2>2
  <2> QED BY <2>1, <2>2, <2>3 DEF Citing
<1>4. CASE PartMarker(x)
  BY <1>4, PartBegins DEF Citing
<1>5. CASE x # <<>> /\ x[1] = " " /\ PartMarker(Suffix(x, 2))
  <2>1. t[1] = " "
    BY <1>5, <1>6
  <2>2. CASE Len(t) = 1
    <3>1. t = <<t[1]>>
      BY <2>2
    <3> QED BY <2>1, <3>1 DEF Citing
  <2>3. CASE Len(t) # 1
    <3> DEFINE a == Suffix(t, 2)
               y == Suffix(x, 2)
    <3>1. 2 \in 1 .. Len(t) + 1 /\ 2 \in 1 .. Len(x) + 1
      BY <1>1, <2>3
    <3>2. /\ a \in Seq(Sign) /\ Len(a) = Len(t) + 1 - 2
          /\ \A i \in 1 .. Len(t) + 1 - 2 : a[i] = t[2 - 1 + i]
      BY <3>1, CutAt
    <3>3. /\ y \in Seq(Sign) /\ Len(y) = Len(x) + 1 - 2
          /\ \A i \in 1 .. Len(x) + 1 - 2 : y[i] = x[2 - 1 + i]
      BY <3>1, CutAt
    <3>7. PartMarker(y)
      BY <1>5
    <3> HIDE DEF a, y
    <3>4. Len(a) > 0 /\ Len(a) <= Len(y)
      BY <1>1, <2>3, <3>2, <3>3
    <3>5. \A i \in 1 .. Len(a) : a[i] = y[i]
      <4>1. \A i \in 1 .. Len(a) : /\ i \in 1 .. Len(t) + 1 - 2 /\ i \in 1 .. Len(x) + 1 - 2
                                   /\ 2 - 1 + i \in 1 .. Len(t)
        BY <1>1, <3>2, <3>3, <3>4
      <4> QED BY <1>2, <3>2, <3>3, <4>1
    <3>6. a # <<>>
      BY <3>4
    <3>8. PartMarker(a)
      BY <3>2, <3>3, <3>4, <3>5, <3>6, <3>7, PartBegins DEF Begins
    <3> QED BY <2>1, <3>8 DEF Citing, a
  <2> QED BY <2>2, <2>3
<1> QED BY <1>3, <1>4, <1>5 DEF Citing

\* How it begins: no marker ends in it, no newline comes later.
LEMMA CitingFirst ==
  ASSUME NEW c \in Seq(Sign), Citing(c)
  PROVE  /\ c # <<>> /\ c[1] \in {" ", "newline", "["}
         /\ \A i \in 1 .. Len(c) : c[i] # "]" /\ (i = 1 \/ c[i] # "newline")
<1>1. CASE c \in {<<" ">>, <<"newline">>}
  <2>1. Len(c) = 1 /\ c[1] \in {" ", "newline"} /\ c # <<>>
    BY <1>1, OneBlank
  <2>2. \A i \in 1 .. Len(c) : i = 1
    <3>1. Len(c) = 1
      BY <2>1
    <3> QED BY <3>1
  <2>3. c[1] # "]"
    BY <2>1
  <2> QED BY <2>1, <2>2, <2>3
<1>2. "]" \notin Digits /\ "newline" \notin Digits
  BY Signs
<1>3. CASE PartMarker(c)
  <2>1. c # <<>> /\ c[1] = "[" /\ \A i \in 2 .. Len(c) : c[i] \in Digits
    BY <1>3 DEF PartMarker
  <2>2. \A i \in 1 .. Len(c) : i = 1 \/ i \in 2 .. Len(c)
    OBVIOUS
  <2> QED BY <1>2, <2>1, <2>2
<1>4. CASE c # <<>> /\ c[1] = " " /\ PartMarker(Suffix(c, 2))
  <2> DEFINE a == Suffix(c, 2)
  <2>0. Len(c) \in Nat /\ Len(c) # 0
    <3>1. c # <<>>
      BY <1>4
    <3> QED BY <3>1
  <2>1. Len(c) \in Nat /\ Len(c) > 0 /\ 2 \in 1 .. Len(c) + 1
    BY <2>0
  <2>2. /\ a \in Seq(Sign) /\ Len(a) = Len(c) + 1 - 2
        /\ \A i \in 1 .. Len(c) + 1 - 2 : a[i] = c[2 - 1 + i]
    BY <2>1, CutAt
  <2>3. a # <<>> /\ a[1] = "[" /\ \A i \in 2 .. Len(a) : a[i] \in Digits
    BY <1>4 DEF PartMarker
  <2> HIDE DEF a
  <2>4. ASSUME NEW i \in 1 .. Len(c) PROVE c[i] # "]" /\ (i = 1 \/ c[i] # "newline")
    <3>1. CASE i = 1
      BY <1>4, <3>1
    <3>2. CASE i = 2
      <4>1. 1 \in 1 .. Len(c) + 1 - 2 /\ 2 - 1 + 1 = 2
        BY <2>1, <3>2
      <4>2. a[1] = c[2]
        BY <2>2, <4>1
      <4> QED BY <2>3, <3>2, <4>2
    <3>3. CASE i > 2
      <4> DEFINE d == i - 1
      <4>1. d \in 1 .. Len(c) + 1 - 2 /\ d \in 2 .. Len(a) /\ 2 - 1 + d = i
        BY <2>1, <2>2, <3>3
      <4> HIDE DEF d
      <4>2. a[d] = c[i]
        BY <2>2, <4>1
      <4> QED BY <1>2, <2>3, <4>1, <4>2
    <3> QED BY <3>1, <3>2, <3>3
  <2> QED BY <1>4, <2>4
<1> QED BY <1>1, <1>3, <1>4 DEF Citing

\* What may be more is held as it is, or chomped.
LEMMA MayAre ==
  ASSUME NEW t
  PROVE  /\ MayCite(t) <=> (Citing(t) \/ Citing(Chomped(t)))
         /\ MayNumber(t) <=> (PartMarker(t) \/ PartMarker(Chomped(t)))
<1>1. MayCite(t) <=> \E c \in {t, Chomped(t)} : Citing(c)
  BY DEF MayCite, Citing
<1>2. MayNumber(t) <=> \E c \in {t, Chomped(t)} : PartMarker(c)
  BY DEF MayNumber
<1> QED BY <1>1, <1>2

\* Chomping keeps the first symbol.
LEMMA ChompedFirst ==
  ASSUME NEW t \in Seq(Sign), Chomped(t) # <<>>
  PROVE  t # <<>> /\ t[1] = Chomped(t)[1]
<1> DEFINE c == Chomped(t)
<1>1. c \in Seq(Sign) /\ Begins(c, t) /\ Len(c) \in Nat /\ Len(t) \in Nat
  BY ChompedIs
<1> HIDE DEF c
<1>2. c # <<>>
  BY DEF c
<1>3. Len(c) > 0
  BY <1>1, <1>2
<1>4. Len(t) > 0 /\ t[1] = c[1]
  BY <1>1, <1>3 DEF Begins
<1> QED BY <1>4 DEF c

\* What is held for a citation begins so, and no marker ends in it.
LEMMA CiteMoreIs ==
  ASSUME NEW t \in CiteMore
  PROVE  /\ t \in Seq(Sign) /\ t # <<>> /\ t[1] \in {" ", "newline", "["}
         /\ \A i \in 1 .. Len(t) : t[i] # "]"
<1>1. t \in Seq(Sign) /\ (Citing(t) \/ Citing(Chomped(t)))
  BY MayAre DEF CiteMore
<1>2. CASE Citing(t)
  BY <1>1, <1>2, CitingFirst
<1>3. CASE Citing(Chomped(t))
  <2> DEFINE c == Chomped(t)
  <2>1. /\ c \in Seq(Sign) /\ Begins(c, t) /\ Len(c) \in Nat /\ Len(t) \in Nat
        /\ c = t \/ (Len(c) = Len(t) - 1 /\ t[Len(t)] = "newline")
    BY <1>1, ChompedIs
  <2> HIDE DEF c
  <2>2. Citing(c)
    BY <1>3 DEF c
  <2>3. c # <<>> /\ c[1] \in {" ", "newline", "["} /\ \A i \in 1 .. Len(c) : c[i] # "]"
    BY <2>1, <2>2, CitingFirst
  <2>4. t # <<>> /\ t[1] = c[1]
    BY <1>1, <2>3, ChompedFirst DEF c
  <2>5. \A i \in 1 .. Len(t) : i \in 1 .. Len(c) \/ i = Len(t)
    BY <2>1
  <2>6. \A i \in 1 .. Len(t) : i \in 1 .. Len(c) => t[i] # "]"
    BY <2>1, <2>3 DEF Begins
  <2>7. c # t => t[Len(t)] # "]"
    BY <2>1
  <2> QED BY <1>1, <2>3, <2>4, <2>5, <2>6, <2>7
<1> QED BY <1>1, <1>2, <1>3

\* A partial marker is held for a citation.
LEMMA PartIsCiting == \A c : PartMarker(c) => Citing(c)
BY DEF Citing

\* What CitationNumbers holds, cite_per_paragraph holds.
LEMMA NumberMoreIs ==
  ASSUME NEW t \in NumberMore
  PROVE  t \in CiteMore
BY MayAre, PartIsCiting DEF CiteMore, NumberMore

\* It begins with its bracket.
LEMMA NumberFirst ==
  ASSUME NEW t \in NumberMore
  PROVE  t[1] = "["
<1>1. t \in Seq(Sign) /\ (PartMarker(t) \/ PartMarker(Chomped(t)))
  BY MayAre DEF NumberMore
<1>2. CASE PartMarker(t)
  BY <1>2 DEF PartMarker
<1>3. CASE PartMarker(Chomped(t))
  <2>1. Chomped(t) # <<>> /\ Chomped(t)[1] = "["
    BY <1>3 DEF PartMarker
  <2> QED BY <1>1, <2>1, ChompedFirst
<1> QED BY <1>1, <1>2, <1>3

\* What StreamReveal holds begins a tag, and no tag ends in it.
LEMMA TagMoreIs ==
  ASSUME NEW t \in TagMore
  PROVE  /\ t \in Seq(Sign) /\ t # <<>> /\ t[1] = "<<"
         /\ \A i \in 1 .. Len(t) : t[i] # ">>"
<1>1. /\ t \in Seq(Sign) /\ t # <<>> /\ t[1] = "<<"
      /\ \A i \in 2 .. Len(t) : t[i] \in TagNames \cup Digits \cup {Word}
  BY DEF TagMore, OpenTag
<1>2. \A i \in 1 .. Len(t) : i = 1 \/ i \in 2 .. Len(t)
  OBVIOUS
<1>3. ">>" \notin TagNames \cup Digits \cup {Word}
  BY Signs
<1> QED BY <1>1, <1>2, <1>3

\* Each filter holds its partial markers or tags.
LEMMA MoreHolds ==
  /\ HoldsMarkers(CiteMore) /\ HoldsMarkers(NumberMore) /\ HoldsTags(TagMore)
<1>1. \A t \in Seq(Sign) : PartMarker(t) => t \in CiteMore /\ t \in NumberMore
  BY MayAre, PartIsCiting DEF CiteMore, NumberMore
<1>2. \A t \in CiteMore : t[1] \in {" ", "newline", "["}
  BY CiteMoreIs
<1>3. \A t \in NumberMore : t[1] \in {" ", "newline", "["}
  BY NumberFirst
<1>4. \A t \in TagMore : t[1] = "<<"
  BY TagMoreIs
<1>5. \A t \in Seq(Sign) : OpenTag(t) => t \in TagMore
  BY DEF TagMore
<1>6. HoldsMarkers(CiteMore)
  BY <1>1, <1>2 DEF HoldsMarkers
<1>7. HoldsMarkers(NumberMore)
  BY <1>1, <1>3 DEF HoldsMarkers
<1> QED BY <1>4, <1>5, <1>6, <1>7 DEF HoldsTags

\* And with what may be more its beginning.
LEMMA MoreClosed == Closed(CiteMore) /\ Closed(NumberMore) /\ Closed(TagMore)
<1>1. Closed(CiteMore)
  <2>1. \A t \in CiteMore : t \in Seq(Sign) /\ t # <<>>
    BY CiteMoreIs
  <2>2. ASSUME NEW t \in Seq(Sign), NEW r \in Seq(Sign), t # <<>>, t \o r \in CiteMore
        PROVE  t \in CiteMore
    <3>1. t \o r \in Seq(Sign) /\ (Citing(t \o r) \/ Citing(Chomped(t \o r)))
      BY <2>2, MayAre DEF CiteMore
    <3>2. CASE r = <<>>
      <4>1. t \o r = t
        BY <3>2
      <4> QED BY <2>2, <4>1
    <3>3. CASE r # <<>> /\ Citing(t \o r)
      <4>1. Citing(t)
        BY <2>2, <3>1, <3>3, BeginsJoin, CitingBegins
      <4> QED BY <4>1, MayAre DEF CiteMore
    <3>4. CASE r # <<>> /\ Citing(Chomped(t \o r))
      <4>1. Begins(t, Chomped(t \o r)) /\ Chomped(t \o r) \in Seq(Sign)
        BY <3>1, <3>4, BeginsChomped, ChompedIs
      <4>2. Citing(t)
        BY <2>2, <3>4, <4>1, CitingBegins
      <4> QED BY <4>2, MayAre DEF CiteMore
    <3> QED BY <3>1, <3>2, <3>3, <3>4
  <2> QED BY <2>1, <2>2 DEF Closed
<1>2. Closed(NumberMore)
  <2>1. \A t \in NumberMore : t \in Seq(Sign) /\ t # <<>>
    BY CiteMoreIs, NumberMoreIs
  <2>2. ASSUME NEW t \in Seq(Sign), NEW r \in Seq(Sign), t # <<>>, t \o r \in NumberMore
        PROVE  t \in NumberMore
    <3>1. t \o r \in Seq(Sign) /\ (PartMarker(t \o r) \/ PartMarker(Chomped(t \o r)))
      BY <2>2, MayAre DEF NumberMore
    <3>2. CASE r = <<>>
      <4>1. t \o r = t
        BY <3>2
      <4> QED BY <2>2, <4>1
    <3>3. CASE r # <<>> /\ PartMarker(t \o r)
      <4>1. PartMarker(t)
        BY <2>2, <3>1, <3>3, BeginsJoin, PartBegins
      <4> QED BY <4>1, MayAre DEF NumberMore
    <3>4. CASE r # <<>> /\ PartMarker(Chomped(t \o r))
      <4>1. Begins(t, Chomped(t \o r)) /\ Chomped(t \o r) \in Seq(Sign)
        BY <3>1, <3>4, BeginsChomped, ChompedIs
      <4>2. PartMarker(t)
        BY <2>2, <3>4, <4>1, PartBegins
      <4> QED BY <4>2, MayAre DEF NumberMore
    <3> QED BY <3>1, <3>2, <3>3, <3>4
  <2> QED BY <2>1, <2>2 DEF Closed
<1>3. Closed(TagMore)
  <2>1. \A t \in TagMore : t \in Seq(Sign) /\ t # <<>>
    BY TagMoreIs
  <2>2. ASSUME NEW t \in Seq(Sign), NEW r \in Seq(Sign), t # <<>>, t \o r \in TagMore
        PROVE  t \in TagMore
    <3> DEFINE x == t \o r
    <3>1. /\ Len(t) \in Nat /\ Len(t) > 0 /\ Len(x) \in Nat /\ Len(t) <= Len(x)
          /\ \A i \in 1 .. Len(t) : t[i] = x[i]
      <4>1. Len(t) \in Nat /\ Len(t) > 0
        BY <2>2
      <4>2. Begins(t, x) /\ Len(x) = Len(t) + Len(r) /\ Len(r) \in Nat
        BY BeginsJoin, Joining
      <4> QED BY <4>1, <4>2 DEF Begins
    <3>2. OpenTag(x)
      BY <2>2 DEF TagMore
    <3> HIDE DEF x
    <3>3. t[1] = "<<" /\ DOMAIN Value # {}
      BY <3>1, <3>2 DEF OpenTag
    <3>4. \A i \in 2 .. Len(t) : i \in 2 .. Len(x) /\ i \in 1 .. Len(t)
      BY <3>1
    <3>5. OpenTag(t)
      BY <2>2, <3>1, <3>2, <3>3, <3>4 DEF OpenTag
    <3> QED BY <3>5 DEF TagMore
  <2> QED BY <2>1, <2>2 DEF Closed
<1> QED BY <1>1, <1>2, <1>3

\* The places a filter looks for are those.
LEMMA HeldAre ==
  ASSUME NEW text \in Seq(Sign)
  PROVE  /\ {i \in DOMAIN text : MayCite(Suffix(text, i))} = HeldIn(CiteMore, text)
         /\ {i \in DOMAIN text : MayNumber(Suffix(text, i))} = HeldIn(NumberMore, text)
         /\ {i \in DOMAIN text : OpenTag(Suffix(text, i))} = HeldIn(TagMore, text)
<1>1. ASSUME NEW i \in DOMAIN text PROVE Suffix(text, i) \in Seq(Sign)
  <2>1. i \in 1 .. Len(text) + 1
    OBVIOUS
  <2> QED BY <2>1, Halves
<1> QED BY <1>1 DEF HeldIn, CiteMore, NumberMore, TagMore

-----------------------------------------------------------------------------
\* CitationNumbers and StreamReveal read what they are given, less what they hold.

\* The known sources a text cites, in the order it first cites them.
CitedIn(y) == Extend(<<>>, KnownOnly(Ids(y)))

\* Given x, CitationNumbers is in this state and has put out so much.
Numbered(x, state, out) ==
  \E y \in Seq(Sign) :
    /\ state.held \in Seq(Sign) /\ x = y \o state.held
    /\ Holds(NumberMore, y, state.held)
    /\ state.cited = CitedIn(y)
    /\ out = Renumbered(y, CitedIn(y))

\* Given x, StreamReveal holds so much and has put out so much.
Revealing(x, held, out) ==
  \E z \in Seq(Sign) :
    /\ held \in Seq(Sign) /\ x = z \o held
    /\ Holds(TagMore, z, held)
    /\ out = Revealed(z)

\* No source is a list of sources.
LEMMA NoSource == <<>> \in Seq(Seq(Sign))
OBVIOUS

\* Three texts are joined in either order.
LEMMA JoinThree ==
  ASSUME NEW a \in Seq(Sign), NEW b \in Seq(Sign), NEW c \in Seq(Sign)
  PROVE  (a \o b) \o c = a \o (b \o c)
OBVIOUS

\* Citing in two goes, from nothing.
LEMMA ExtendTwice ==
  ASSUME NEW a \in Seq(Seq(Sign)), NEW b \in Seq(Seq(Sign))
  PROVE  Extend(<<>>, a \o b) = Extend(Extend(<<>>, a), b)
<1> DEFINE none == <<>>
<1>1. none \in Seq(Seq(Sign))
  OBVIOUS
<1> HIDE DEF none
<1>2. Extend(none, a \o b) = Extend(Extend(none, a), b)
  BY <1>1, ExtendJoin
<1> QED BY <1>2 DEF none

\* They are the known ones among its ids.
LEMMA CitedAre ==
  ASSUME NEW y \in Seq(Sign)
  PROVE  /\ CitedIn(y) \in Seq(Seq(Sign))
         /\ \A x : x \in ToSet(CitedIn(y)) <=> x \in ToSet(Ids(y)) /\ x \in Known
<1>1. Ids(y) \in Seq(Seq(Sign))
  BY NoSource, TextsAre
<1> DEFINE ids == Ids(y)
           known == KnownOnly(ids)
<1>2. /\ known \in Seq(Seq(Sign))
      /\ \A x : x \in ToSet(known) <=> x \in ToSet(ids) /\ x \in Known
  <2> HIDE DEF ids
  <2> QED BY <1>1, KnownAre DEF ids
<1> HIDE DEF known
<1>3. /\ Extend(<<>>, known) \in Seq(Seq(Sign))
      /\ \A x : x \in ToSet(Extend(<<>>, known)) <=> x \in ToSet(<<>>) \/ x \in ToSet(known)
  BY <1>2, NoSource, ExtendAre
<1>4. \A x : x \notin ToSet(<<>>)
  BY DEF ToSet
<1> QED BY <1>2, <1>3, <1>4 DEF CitedIn, known

\* More text is numbered on from what has been cited.
LEMMA NumbersGoOn ==
  ASSUME NEW y \in Seq(Sign), NEW s \in Seq(Sign), Apart(y, s)
  PROVE  /\ CitedIn(y \o s) = Extend(CitedIn(y), KnownOnly(Ids(s)))
         /\ Renumbered(y \o s, CitedIn(y \o s))
              = Renumbered(y, CitedIn(y)) \o Renumbered(s, CitedIn(y \o s))
<1> DEFINE a == Ids(y)
           b == Ids(s)
           C == CitedIn(y)
           D == CitedIn(y \o s)
<1>1. a \in Seq(Seq(Sign)) /\ b \in Seq(Seq(Sign)) /\ Ids(y \o s) = a \o b
  BY NoSource, TextsAre, IdsJoin
<1>2. C \in Seq(Seq(Sign)) /\ \A x : x \in ToSet(C) <=> x \in ToSet(a) /\ x \in Known
  BY CitedAre
<1>3. D = Extend(C, KnownOnly(b))
  <2> HIDE DEF a, b
  <2> DEFINE ka == KnownOnly(a)
             kb == KnownOnly(b)
  <2>1. KnownOnly(a \o b) = ka \o kb
    BY <1>1, KnownJoin
  <2>2. ka \in Seq(Seq(Sign)) /\ kb \in Seq(Seq(Sign))
    BY <1>1, KnownAre
  <2> HIDE DEF ka, kb
  <2>3. Extend(<<>>, ka \o kb) = Extend(Extend(<<>>, ka), kb)
    BY <2>2, ExtendTwice
  <2> QED BY <1>1, <2>1, <2>3 DEF CitedIn, a, ka, kb
<1>4. PICK more \in Seq(Seq(Sign)) : D = C \o more
  <2> DEFINE kb == KnownOnly(b)
  <2>1. kb \in Seq(Seq(Sign))
    <3> HIDE DEF b
    <3> QED BY <1>1, KnownAre
  <2> HIDE DEF kb, C
  <2>2. \E more \in Seq(Seq(Sign)) : Extend(C, kb) = C \o more
    BY <1>2, <2>1, ExtendAre
  <2> QED BY <1>3, <2>2 DEF kb, C
<1>5. D \in Seq(Seq(Sign))
  <2> HIDE DEF C, D
  <2> QED BY <1>2, <1>4
<1>6. Renumbered(y \o s, D) = Renumbered(y, D) \o Renumbered(s, D)
  <2> HIDE DEF D
  <2> QED BY <1>5, NumbersJoin
<1>7. Renumbered(y, C \o more) = Renumbered(y, C)
  <2>1. \A x \in ToSet(Ids(y)) : x \in Known => x \in ToSet(C)
    BY <1>2
  <2> HIDE DEF C
  <2> QED BY <1>2, <2>1, NumbersStay
<1> QED BY <1>3, <1>4, <1>6, <1>7

\* One piece more for CitationNumbers.
LEMMA NumberStep ==
  ASSUME NEW x, NEW state, NEW out, NEW p \in Seq(Sign), Numbered(x, state, out)
  PROVE  /\ Numbered(x \o p, NumberPiece(state, p).state, out \o NumberPiece(state, p).out)
         /\ NumberPiece(state, p).out \in Seq(Sign)
<1>1. PICK y \in Seq(Sign) :
        /\ state.held \in Seq(Sign) /\ x = y \o state.held
        /\ Holds(NumberMore, y, state.held)
        /\ state.cited = CitedIn(y)
        /\ out = Renumbered(y, CitedIn(y))
  BY DEF Numbered
<1> DEFINE h == state.held
           text == h \o p
           k == HeldFrom(text, {i \in DOMAIN text : MayNumber(Suffix(text, i))})
           ready == Before(text, k)
           rest == Suffix(text, k)
           D == Extend(CitedIn(y), KnownOnly(Ids(ready)))
<1>2. h \in Seq(Sign) /\ Holds(NumberMore, y, h)
  BY <1>1
<1>3. NumberPiece(state, p)
        = [out |-> Renumbered(ready, D), state |-> [held |-> rest, cited |-> D]]
  BY <1>1 DEF NumberPiece
<1> HIDE DEF h
<1>4. text \in Seq(Sign)
  BY <1>2
<1>5. k = HeldFrom(text, HeldIn(NumberMore, text))
  BY <1>4, HeldAre
<1> HIDE DEF k
<1>6. /\ ready \in Seq(Sign) /\ rest \in Seq(Sign) /\ text = ready \o rest
      /\ Holds(NumberMore, y \o ready, rest)
  <2>1. Closed(NumberMore)
    BY MoreClosed
  <2>2. h \in Seq(Sign)
    BY <1>2
  <2>3. Holds(NumberMore, y, h)
    BY <1>2
  <2>4. k = HeldFrom(h \o p, HeldIn(NumberMore, h \o p))
    BY <1>5
  <2>5. HeldRight(NumberMore, y, h \o p, k)
    BY <2>1, <2>2, <2>3, <2>4, HeldStep
  <2> QED BY <2>5 DEF HeldRight
<1> HIDE DEF ready, rest
<1>7. Along(h, ready)
  BY <1>2, <1>6, AlongBefore
<1>8. Apart(y, ready)
  BY <1>2, <1>6, <1>7, MoreHolds, MarkersHeld
<1>9. /\ D = CitedIn(y \o ready)
      /\ Renumbered(y \o ready, D) = Renumbered(y, CitedIn(y)) \o Renumbered(ready, D)
  BY <1>6, <1>8, NumbersGoOn
<1> HIDE DEF D
<1>10. y \o ready \in Seq(Sign) /\ D \in Seq(Seq(Sign))
  <2>1. y \o ready \in Seq(Sign)
    BY <1>6
  <2> QED BY <1>9, <2>1, CitedAre
<1>11. Renumbered(ready, D) \in Seq(Sign)
  BY <1>6, <1>10, TextsAre
<1>12. x \o p = (y \o ready) \o rest
  <2>0. h \in Seq(Sign) /\ ready \in Seq(Sign) /\ rest \in Seq(Sign)
    BY <1>2, <1>6
  <2>1. (y \o h) \o p = y \o (h \o p) /\ (y \o ready) \o rest = y \o (ready \o rest)
    <3>1. (y \o h) \o p = y \o (h \o p)
      BY <2>0, JoinThree
    <3>2. (y \o ready) \o rest = y \o (ready \o rest)
      BY <2>0, JoinThree
    <3> QED BY <3>1, <3>2
  <2> QED BY <1>1, <1>6, <2>1 DEF h
<1> DEFINE after == NumberPiece(state, p).state
           more == NumberPiece(state, p).out
<1>13. after.held = rest /\ after.cited = D /\ more = Renumbered(ready, D)
  BY <1>3
<1>14. out \o more = Renumbered(y \o ready, D)
  BY <1>1, <1>9, <1>13
<1> HIDE DEF after, more
<1>15. Numbered(x \o p, after, out \o more)
  BY <1>6, <1>9, <1>10, <1>12, <1>13, <1>14 DEF Numbered
<1> QED BY <1>11, <1>13, <1>15 DEF after, more

\* One piece more for StreamReveal.
LEMMA RevealStep ==
  ASSUME NEW x, NEW held, NEW out, NEW p \in Seq(Sign), Revealing(x, held, out)
  PROVE  Revealing(x \o p, RevealPiece(held, p).held, out \o RevealPiece(held, p).out)
<1>1. PICK z \in Seq(Sign) :
        /\ held \in Seq(Sign) /\ x = z \o held
        /\ Holds(TagMore, z, held)
        /\ out = Revealed(z)
  BY DEF Revealing
<1> DEFINE text == held \o p
           k == HeldFrom(text, {i \in DOMAIN text : OpenTag(Suffix(text, i))})
           ready == Before(text, k)
           rest == Suffix(text, k)
<1>2. held \in Seq(Sign) /\ Holds(TagMore, z, held)
  BY <1>1
<1>3. RevealPiece(held, p) = [out |-> Revealed(ready), held |-> rest]
  BY DEF RevealPiece
<1>4. text \in Seq(Sign)
  BY <1>2
<1>5. k = HeldFrom(text, HeldIn(TagMore, text))
  BY <1>4, HeldAre
<1> HIDE DEF k
<1>6. /\ ready \in Seq(Sign) /\ rest \in Seq(Sign) /\ text = ready \o rest
      /\ Holds(TagMore, z \o ready, rest)
  <2>1. Closed(TagMore)
    BY MoreClosed
  <2>2. held \in Seq(Sign)
    BY <1>2
  <2>3. Holds(TagMore, z, held)
    BY <1>2
  <2>4. k = HeldFrom(held \o p, HeldIn(TagMore, held \o p))
    BY <1>5
  <2>5. HeldRight(TagMore, z, held \o p, k)
    BY <2>1, <2>2, <2>3, <2>4, HeldStep
  <2> QED BY <2>5 DEF HeldRight
<1> HIDE DEF ready, rest
<1>7. Along(held, ready)
  BY <1>2, <1>6, AlongBefore
<1>8. TagsApart(z, ready)
  BY <1>2, <1>6, <1>7, MoreHolds, TagsHeld
<1>9. Revealed(z \o ready) = Revealed(z) \o Revealed(ready)
  BY <1>6, <1>8, RevealJoin
<1>10. x \o p = (z \o ready) \o rest
  <2>0. held \in Seq(Sign) /\ ready \in Seq(Sign) /\ rest \in Seq(Sign)
    BY <1>2, <1>6
  <2>1. (z \o held) \o p = z \o (held \o p) /\ (z \o ready) \o rest = z \o (ready \o rest)
    <3>1. (z \o held) \o p = z \o (held \o p)
      BY <2>0, JoinThree
    <3>2. (z \o ready) \o rest = z \o (ready \o rest)
      BY <2>0, JoinThree
    <3> QED BY <3>1, <3>2
  <2> QED BY <1>1, <1>6, <2>1
<1>11. z \o ready \in Seq(Sign)
  BY <1>6
<1> DEFINE more == RevealPiece(held, p).held
           now == RevealPiece(held, p).out
<1>12. more = rest /\ now = Revealed(ready)
  BY <1>3
<1>13. out \o now = Revealed(z \o ready)
  BY <1>1, <1>9, <1>12
<1> HIDE DEF more, now
<1>14. Revealing(x \o p, more, out \o now)
  BY <1>6, <1>10, <1>11, <1>12, <1>13 DEF Revealing
<1> QED BY <1>14 DEF more, now

-----------------------------------------------------------------------------
\* The end of the answer.

\* No more ids, no more sources.
LEMMA ExtendNone ==
  ASSUME NEW cited \in Seq(Seq(Sign))
  PROVE  KnownOnly(<<>>) = <<>> /\ Extend(cited, <<>>) = cited
<1> DEFINE none == <<>>
<1>1. none \in Seq(Seq(Sign)) /\ Len(none) = 0
  OBVIOUS
<1>2. FlattenSeq(<<>>) = <<>>
  BY FlattenNone
<1>3. KnownParts(<<>>) = <<>> /\ NewParts(cited, <<>>) = <<>>
  <2> HIDE DEF none
  <2>1. /\ KnownParts(none) \in Seq(Seq(Seq(Sign))) /\ Len(KnownParts(none)) = Len(none)
        /\ NewParts(cited, none) \in Seq(Seq(Seq(Sign))) /\ Len(NewParts(cited, none)) = Len(none)
    BY <1>1, SourceParts
  <2>2. KnownParts(none) = <<>> /\ NewParts(cited, none) = <<>>
    BY <1>1, <2>1
  <2> QED BY <2>2 DEF none
<1>4. KnownOnly(<<>>) = FlattenSeq(KnownParts(<<>>))
      /\ Extend(cited, <<>>) = cited \o FlattenSeq(NewParts(cited, <<>>))
  <2> HIDE DEF none
  <2>1. KnownOnly(none) = FlattenSeq(KnownParts(none))
        /\ Extend(cited, none) = cited \o FlattenSeq(NewParts(cited, none))
    BY <1>1, SourceParts
  <2> QED BY <2>1 DEF none
<1>5. cited \o <<>> = cited
  OBVIOUS
<1> QED BY <1>2, <1>3, <1>4, <1>5

\* The place question holds no bracket and no tag.
LEMMA QuestionIs ==
  /\ Question \in Seq(Sign)
  /\ \A i \in 1 .. Len(Question) : Question[i] \notin {"[", "<<", ">>"}
<1>1. Question \in Seq(Symbol) /\ ToSet(Question) \cap {"[", "<<", ">>"} = {}
  BY AnswerTextAssumption
<1>2. Question \in Seq(Sign)
  BY <1>1, Signs, SeqMonotonic
<1>3. \A i \in 1 .. Len(Question) : Question[i] \in ToSet(Question)
  BY <1>2 DEF ToSet
<1> QED BY <1>1, <1>2, <1>3

\* The place question passes through the numbers.
LEMMA AskedIs ==
  ASSUME NEW state, state.held = <<>>, state.cited \in Seq(Seq(Sign))
  PROVE  NumberPiece(state, Question).out = Question
<1> DEFINE q == Question
           ks == {i \in DOMAIN q : MayNumber(Suffix(q, i))}
           k == HeldFrom(q, ks)
           ready == Before(q, k)
           rest == Suffix(q, k)
           D == Extend(state.cited, KnownOnly(Ids(ready)))
<1>1. q \in Seq(Sign) /\ \A i \in 1 .. Len(q) : q[i] # "["
  BY QuestionIs
<1>2. NumberPiece(state, q).out = Renumbered(ready, D)
  <2>1. <<>> \o q = q
    BY <1>1
  <2> QED BY <2>1 DEF NumberPiece
<1> HIDE DEF q
<1>3. ks = {}
  <2>1. ks = HeldIn(NumberMore, q)
    BY <1>1, HeldAre
  <2> SUFFICES ASSUME NEW i \in HeldIn(NumberMore, q) PROVE FALSE
    BY <2>1
  <2>2. i \in 1 .. Len(q) /\ Suffix(q, i) \in NumberMore
    BY <1>1 DEF HeldIn
  <2>3. Suffix(q, i)[1] = "["
    BY <2>2, NumberFirst
  <2>4. i \in 1 .. Len(q) + 1 /\ 1 \in 1 .. Len(q) + 1 - i /\ i - 1 + 1 = i
    BY <1>1, <2>2
  <2>5. Suffix(q, i)[1] = q[i - 1 + 1]
    BY <1>1, <2>4, CutAt
  <2> QED BY <1>1, <2>2, <2>3, <2>4, <2>5
<1>4. k = Len(q) + 1
  <2> DEFINE none == {}
  <2>1. none \in SUBSET (1 .. Len(q))
    OBVIOUS
  <2>2. HeldFrom(q, none) \in none \/ HeldFrom(q, none) = Len(q) + 1
    <3> HIDE DEF none
    <3> QED BY <1>1, <2>1, HeldAt
  <2> QED BY <1>3, <2>2
<1> HIDE DEF k
<1>5. ready = q
  <2>1. Len(q) \in Nat /\ k \in 1 .. Len(q) + 1
    BY <1>1, <1>4
  <2>2. /\ ready \in Seq(Sign) /\ Len(ready) = k - 1
        /\ rest \in Seq(Sign) /\ Len(rest) = Len(q) + 1 - k
        /\ q = ready \o rest
    BY <1>1, <2>1, Halves
  <2> HIDE DEF ready, rest
  <2>3. Len(rest) = 0
    BY <1>4, <2>1, <2>2
  <2>4. rest = <<>>
    BY <2>2, <2>3
  <2> QED BY <2>2, <2>4
<1> HIDE DEF ready
<1>6. \A i \in 1 .. Len(q) : ~Cites(q, i)
  BY <1>1, NoBracket
<1>7. D \in Seq(Seq(Sign))
  <2>1. Ids(ready) \in Seq(Seq(Sign))
    BY <1>1, <1>5, NoSource, TextsAre
  <2>2. KnownOnly(Ids(ready)) \in Seq(Seq(Sign))
    BY <2>1, KnownAre
  <2> QED BY <2>2, ExtendAre
<1> HIDE DEF D
<1>8. Renumbered(q, D) = q
  BY <1>1, <1>6, <1>7, NoneCited
<1> QED BY <1>2, <1>5, <1>8 DEF q

\* Nothing is held that a marker ends in.
LEMMA HeldReads ==
  ASSUME NEW h \in Seq(Sign), h = <<>> \/ h \in CiteMore, NEW cited \in Seq(Seq(Sign))
  PROVE  /\ \A i \in 1 .. Len(h) : ~Cites(h, i)
         /\ Ids(h) = <<>> /\ Renumbered(h, cited) = h /\ Unmarked(h) = h
<1>1. \A i \in 1 .. Len(h) : h[i] # "]"
  <2>1. CASE h = <<>>
    BY <2>1
  <2>2. CASE h \in CiteMore
    BY <2>2, CiteMoreIs
  <2> QED BY <2>1, <2>2
<1>2. \A i \in 1 .. Len(h) : ~Cites(h, i)
  BY <1>1, NoBracket
<1> QED BY <1>2, NoneCited

\* A text goes its own way.
LEMMA AlongItself == ASSUME NEW h PROVE Along(h, h)
BY DEF Along

\* The rest that CitationNumbers holds follows as it is.
LEMMA NumberRest ==
  ASSUME NEW x, NEW state, NEW out, Numbered(x, state, out)
  PROVE  /\ x \in Seq(Sign) /\ state.cited = CitedIn(x)
         /\ state.held \in Seq(Sign) /\ out \in Seq(Sign)
         /\ Renumbered(state.held, state.cited) = state.held
         /\ out \o state.held = Renumbered(x, CitedIn(x))
<1>1. PICK y \in Seq(Sign) :
        /\ state.held \in Seq(Sign) /\ x = y \o state.held
        /\ Holds(NumberMore, y, state.held)
        /\ state.cited = CitedIn(y)
        /\ out = Renumbered(y, CitedIn(y))
  BY DEF Numbered
<1> DEFINE h == state.held
           C == CitedIn(y)
<1>2. h \in Seq(Sign) /\ Holds(NumberMore, y, h) /\ x = y \o h
  BY <1>1
<1>3. state.cited = C /\ out = Renumbered(y, C)
  BY <1>1
<1> HIDE DEF h
<1>4. C \in Seq(Seq(Sign)) /\ out \in Seq(Sign)
  <2>1. C \in Seq(Seq(Sign))
    BY CitedAre
  <2>2. Renumbered(y, C) \in Seq(Sign)
    BY <2>1, TextsAre
  <2> QED BY <1>3, <2>1, <2>2
<1>5. Apart(y, h)
  BY <1>2, AlongItself, MoreHolds, MarkersHeld
<1>6. h = <<>> \/ h \in CiteMore
  BY <1>2, NumberMoreIs DEF Holds
<1>7. Ids(h) = <<>> /\ Renumbered(h, C) = h
  BY <1>2, <1>4, <1>6, HeldReads
<1>8. CitedIn(y \o h) = C
  <2>1. CitedIn(y \o h) = Extend(C, KnownOnly(Ids(h)))
    BY <1>2, <1>5, NumbersGoOn
  <2> HIDE DEF C
  <2> QED BY <1>4, <1>7, <2>1, ExtendNone
<1>9. Renumbered(y \o h, CitedIn(y \o h)) = Renumbered(y, C) \o Renumbered(h, CitedIn(y \o h))
  BY <1>2, <1>5, NumbersGoOn
<1>10. x \in Seq(Sign)
  BY <1>2
<1> QED BY <1>2, <1>3, <1>4, <1>7, <1>8, <1>9, <1>10 DEF h

\* And the rest that StreamReveal holds.
LEMMA RevealRest ==
  ASSUME NEW x, NEW held, NEW out, Revealing(x, held, out)
  PROVE  out \o held = Revealed(x) /\ x \in Seq(Sign)
<1>1. PICK z \in Seq(Sign) :
        /\ held \in Seq(Sign) /\ x = z \o held
        /\ Holds(TagMore, z, held)
        /\ out = Revealed(z)
  BY DEF Revealing
<1>2. TagsApart(z, held)
  <2>1. held \in Seq(Sign) /\ Holds(TagMore, z, held)
    BY <1>1
  <2> QED BY <2>1, AlongItself, MoreHolds, TagsHeld
<1>3. Revealed(held) = held
  <2>1. \A i \in 1 .. Len(held) : held[i] # ">>"
    <3>1. CASE held = <<>>
      BY <3>1
    <3>2. CASE held \in TagMore
      BY <3>2, TagMoreIs
    <3> QED BY <1>1, <3>1, <3>2 DEF Holds
  <2>2. \A i \in 1 .. Len(held) : ~HeldTag(held, i)
    <3> SUFFICES ASSUME NEW i \in 1 .. Len(held), HeldTag(held, i) PROVE FALSE
      OBVIOUS
    <3>1. i \in 1 .. Len(held) - 2 /\ held[i + 2] = ">>"
      BY DEF HeldTag
    <3>2. i + 2 \in 1 .. Len(held)
      <4>1. Len(held) \in Nat
        BY <1>1
      <4> QED BY <3>1, <4>1
    <3> QED BY <2>1, <3>1, <3>2
  <2>3. held \in Seq(Sign)
    BY <1>1
  <2> QED BY <2>2, <2>3, NoTags
<1>4. Revealed(z \o held) = Revealed(z) \o Revealed(held)
  <2>1. held \in Seq(Sign)
    BY <1>1
  <2> QED BY <1>2, <2>1, RevealJoin
<1>5. x \in Seq(Sign)
  BY <1>1
<1> QED BY <1>1, <1>3, <1>4, <1>5

\* The place question is shown as it is.
LEMMA QuestionShown ==
  ASSUME NEW t \in Seq(Sign)
  PROVE  Revealed(t \o Question) = Revealed(t) \o Question
<1> DEFINE q == Question
<1>1. q \in Seq(Sign) /\ \A i \in 1 .. Len(q) : q[i] # "<<" /\ q[i] # ">>"
  BY QuestionIs
<1> HIDE DEF q
<1>2. Revealed(q) = q
  <2>1. \A i \in 1 .. Len(q) : ~HeldTag(q, i)
    BY <1>1 DEF HeldTag
  <2> QED BY <1>1, <2>1, NoTags
<1>3. TagsApart(t, q)
  <2> DEFINE u == t \o q
  <2>1. /\ Len(u) = Len(t) + Len(q) /\ Len(t) \in Nat /\ Len(q) \in Nat
        /\ \A i \in 1 .. Len(q) : u[Len(t) + i] = q[i]
    BY <1>1, Joining
  <2> SUFFICES ASSUME NEW i \in 1 .. Len(t), HeldTag(u, i), ~(i + 2 <= Len(t)) PROVE FALSE
    BY DEF TagsApart
  <2> HIDE DEF u
  <2>2. i \in 1 .. Len(u) - 2 /\ u[i + 2] = ">>"
    BY DEF HeldTag
  <2> DEFINE d == i + 2 - Len(t)
  <2>3. d \in 1 .. Len(q) /\ Len(t) + d = i + 2
    BY <2>1, <2>2
  <2> HIDE DEF d
  <2>4. u[Len(t) + d] = q[d]
    BY <2>1, <2>3
  <2> QED BY <1>1, <2>2, <2>3, <2>4
<1>4. Revealed(t \o q) = Revealed(t) \o Revealed(q)
  BY <1>1, <1>3, RevealJoin
<1> QED BY <1>2, <1>4 DEF q

\* What follows the last piece completes what the farmer is shown.
ShownAll(t, out, reveal) ==
  /\ t \in Seq(Sign)
  /\ out \o reveal.out \o reveal.held = Revealed(Renumbered(t, CitedIn(t))) \o Question

\* CitationNumbers and StreamReveal, flushed.
LEMMA AllShown ==
  ASSUME NEW x, NEW L \in Seq(Sign), NEW state, NEW n, NEW held, NEW out,
         Numbered(x, state, n), Revealing(n, held, out),
         NEW last, last = NumberPiece(state, L),
         NEW rest, rest = Renumbered(last.state.held, last.state.cited),
         NEW asked, asked = NumberPiece([last.state EXCEPT !.held = <<>>], Question),
         NEW reveal, reveal = RevealPiece(held, last.out \o rest \o asked.out)
  PROVE  ShownAll(x \o L, out, reveal)
<1> DEFINE y == x \o L
           R == Renumbered(y, CitedIn(y))
           put == n \o last.out
<1>1. Numbered(y, last.state, put) /\ last.out \in Seq(Sign)
  BY NumberStep
<1>2. /\ y \in Seq(Sign) /\ last.state.cited = CitedIn(y)
      /\ last.state.held \in Seq(Sign)
      /\ Renumbered(last.state.held, last.state.cited) = last.state.held
      /\ put \o last.state.held = R
  <2> HIDE DEF y, put
  <2> QED BY <1>1, NumberRest
<1> HIDE DEF y
<1>3. R \in Seq(Sign)
  <2>1. CitedIn(y) \in Seq(Seq(Sign))
    BY <1>2, CitedAre
  <2> QED BY <1>2, <2>1, TextsAre
<1> HIDE DEF R
<1>4. asked.out = Question
  <2> DEFINE after == [last.state EXCEPT !.held = <<>>]
  <2>1. after.held = <<>> /\ after.cited = last.state.cited
    <3>1. last.state = [held |-> last.state.held, cited |-> last.state.cited]
      BY DEF NumberPiece
    <3> QED BY <3>1
  <2>2. after.cited \in Seq(Seq(Sign))
    BY <1>2, <2>1, CitedAre
  <2>3. asked = NumberPiece(after, Question)
    OBVIOUS
  <2> HIDE DEF after
  <2> QED BY <2>1, <2>2, <2>3, AskedIs
<1> DEFINE h == last.state.held
           o == last.out
           p == (o \o h) \o Question
<1>5. rest = h
  BY <1>2
<1>6. reveal = RevealPiece(held, p)
  BY <1>4, <1>5
<1>7. n \in Seq(Sign)
  BY NumberRest
<1>8. o \in Seq(Sign) /\ h \in Seq(Sign) /\ Question \in Seq(Sign) /\ (n \o o) \o h = R
  BY <1>1, <1>2, QuestionIs
<1> HIDE DEF o, h
<1>9. p \in Seq(Sign)
  BY <1>8
<1>10. n \o p = R \o Question
  <2> DEFINE q == Question
  <2>1. q \in Seq(Sign)
    BY <1>8
  <2> HIDE DEF q
  <2> DEFINE oh == o \o h
  <2>2. oh \in Seq(Sign)
    BY <1>8
  <2>3. (n \o o) \o h = n \o oh
    BY <1>7, <1>8, JoinThree
  <2> HIDE DEF oh
  <2>4. (n \o oh) \o q = n \o (oh \o q)
    BY <1>7, <2>1, <2>2, JoinThree
  <2> QED BY <1>8, <2>3, <2>4 DEF oh, q
<1> HIDE DEF p
<1>11. Revealing(n \o p, reveal.held, out \o reveal.out)
  BY <1>6, <1>9, RevealStep
<1>12. (out \o reveal.out) \o reveal.held = Revealed(n \o p)
  BY <1>11, RevealRest
<1>13. Revealed(R \o Question) = Revealed(R) \o Question
  BY <1>3, QuestionShown
<1> QED BY <1>2, <1>10, <1>12, <1>13 DEF R, y, ShownAll

-----------------------------------------------------------------------------
\* Texts that read the same up to their blanks.

Same(s, t) ==
  /\ Ids(s) = Ids(t)
  /\ \A cited \in Seq(Seq(Sign)) : Reads(s, cited) = Reads(t, cited)

\* d is nothing or ends with a blank.
Ended(d) == d = <<>> \/ \E e \in Seq(Sign), b \in Blank : d = e \o <<b>>

\* A text that is not empty is cut before its last symbol.
LEMMA LastIs ==
  ASSUME NEW S, NEW s \in Seq(S), s # <<>>
  PROVE  \E e \in Seq(S) : s = e \o <<s[Len(s)]>> /\ s[Len(s)] \in S
<1>1. Len(s) \in Nat /\ Len(s) > 0
  OBVIOUS
<1> DEFINE n == Len(s) - 1
<1>2. n \in 0 .. Len(s) - 1 /\ n + 1 = Len(s)
  BY <1>1
<1> HIDE DEF n
<1>3. /\ SubSeq(s, 1, n) \in Seq(S) /\ s[n + 1] \in S
      /\ SubSeq(s, 1, n + 1) = Append(SubSeq(s, 1, n), s[n + 1])
      /\ SubSeq(s, 1, Len(s)) = s
  BY <1>2, TakenOne
<1> DEFINE e == SubSeq(s, 1, n)
<1>4. e \in Seq(S) /\ s = Append(e, s[Len(s)]) /\ s[Len(s)] \in S
  BY <1>2, <1>3
<1> HIDE DEF e
<1>5. Append(e, s[Len(s)]) = e \o <<s[Len(s)]>>
  BY <1>4
<1> QED BY <1>4, <1>5

\* And after its first.
LEMMA FirstIs ==
  ASSUME NEW S, NEW s \in Seq(S), s # <<>>
  PROVE  /\ s = <<s[1]>> \o Suffix(s, 2) /\ s[1] \in S /\ Suffix(s, 2) \in Seq(S)
         /\ Len(Suffix(s, 2)) = Len(s) - 1
<1>1. Len(s) \in Nat /\ Len(s) > 0
  OBVIOUS
<1>2. 2 \in 1 .. Len(s) + 1
  BY <1>1
<1> DEFINE a == Before(s, 2)
           b == Suffix(s, 2)
<1>3. /\ a \in Seq(S) /\ Len(a) = 2 - 1 /\ \A i \in 1 .. 2 - 1 : a[i] = s[i]
      /\ b \in Seq(S) /\ Len(b) = Len(s) + 1 - 2
      /\ s = a \o b
  BY ZenonT(40), <1>2, CutAt
<1>4. s[1] \in S
  BY <1>1
<1> HIDE DEF a, b
<1>5. a = <<s[1]>>
  <2>1. Len(a) = 1 /\ a[1] = s[1]
    BY <1>3
  <2> QED BY <1>3, <2>1
<1>6. Len(b) = Len(s) - 1
  BY <1>1, <1>3
<1> QED BY <1>3, <1>4, <1>5, <1>6 DEF b

\* Of nothing nothing is read.
LEMMA NothingReads ==
  ASSUME NEW cited \in Seq(Seq(Sign))
  PROVE  <<>> \in Seq(Sign) /\ Ids(<<>>) = <<>> /\ Unmarked(<<>>) = <<>> /\ Reads(<<>>, cited) = <<>>
<1> DEFINE v == <<>>
<1>1. v \in Seq(Blank)
  OBVIOUS
<1> HIDE DEF v
<1>2. /\ v \in Seq(Sign) /\ Ids(v) = <<>> /\ Unmarked(v) = v /\ Reads(v, cited) = <<>>
  BY <1>1, Blanks
<1> QED BY <1>2 DEF v

\* What follows a blank is read on its own.
LEMMA EndedJoin ==
  ASSUME NEW d \in Seq(Sign), Ended(d), NEW r \in Seq(Sign), NEW cited \in Seq(Seq(Sign))
  PROVE  /\ Ids(d \o r) = Ids(d) \o Ids(r)
         /\ Reads(d \o r, cited) = Reads(d, cited) \o Reads(r, cited)
<1>1. Ids(r) \in Seq(Seq(Sign)) /\ Reads(r, cited) \in Seq(Sign)
  BY TextsAre, ReadsAre
<1>2. CASE d = <<>>
  <2>1. d \o r = r /\ <<>> \o Ids(r) = Ids(r) /\ <<>> \o Reads(r, cited) = Reads(r, cited)
    <3>1. <<>> \o r = r
      OBVIOUS
    <3> DEFINE a == Ids(r)
               b == Reads(r, cited)
    <3>2. a \in Seq(Seq(Sign)) /\ b \in Seq(Sign)
      BY <1>1
    <3> HIDE DEF a, b
    <3>3. <<>> \o a = a /\ <<>> \o b = b
      BY <3>2
    <3> QED BY <1>2, <3>1, <3>3 DEF a, b
  <2> QED BY <1>2, <2>1, NothingReads
<1>3. CASE d # <<>>
  <2>1. PICK e \in Seq(Sign), b \in Blank : d = e \o <<b>>
    BY <1>3 DEF Ended
  <2> DEFINE one == <<b>>
             none == <<>>
  <2>2. one \in Seq(Sign) /\ none \in Seq(Sign)
    <3>1. b \in Sign
      BY Signs DEF Blank
    <3> QED BY <3>1
  <2>3. d \o r = e \o (one \o r)
    <3>1. d = e \o one
      BY <2>1
    <3> HIDE DEF one, none
    <3>2. (e \o one) \o r = e \o (one \o r)
      BY <2>2, JoinThree
    <3> QED BY <3>1, <3>2
  <2>4. one \o none = one
    BY <2>2
  <2>5. /\ Ids(e \o (<<b>> \o r)) = Ids(e) \o Ids(r)
        /\ Reads(e \o (<<b>> \o r), cited) = Reads(e, cited) \o Reads(r, cited)
    BY Seam
  <2>6. /\ Ids(e \o (<<b>> \o none)) = Ids(e) \o Ids(none)
        /\ Reads(e \o (<<b>> \o none), cited) = Reads(e, cited) \o Reads(none, cited)
    <3> HIDE DEF none
    <3> QED BY ZenonT(40), <2>2, Seam
  <2>7. Ids(d) = Ids(e) /\ Reads(d, cited) = Reads(e, cited)
    <3>1. Ids(none) = <<>> /\ Reads(none, cited) = <<>>
      BY NothingReads
    <3> DEFINE a == Ids(e)
               c == Reads(e, cited)
    <3>2. a \in Seq(Seq(Sign)) /\ c \in Seq(Sign)
      BY TextsAre, ReadsAre
    <3>3. d = e \o (<<b>> \o none)
      BY <2>1, <2>4
    <3> HIDE DEF a, c, none
    <3>4. a \o <<>> = a /\ c \o <<>> = c
      BY <3>2
    <3> QED BY <2>6, <3>1, <3>3, <3>4 DEF a, c
  <2> QED BY <2>3, <2>5, <2>7
<1> QED BY <1>2, <1>3

\* Joining on to ended texts that read the same.
LEMMA SameEnded ==
  ASSUME NEW d \in Seq(Sign), Ended(d), NEW f \in Seq(Sign), Ended(f), Same(d, f),
         NEW r \in Seq(Sign), NEW q \in Seq(Sign), Same(r, q)
  PROVE  Same(d \o r, f \o q)
<1>1. Ids(d \o r) = Ids(d) \o Ids(r) /\ Ids(f \o q) = Ids(f) \o Ids(q)
  BY NoSource, EndedJoin
<1>2. ASSUME NEW cited \in Seq(Seq(Sign))
      PROVE  Reads(d \o r, cited) = Reads(f \o q, cited)
  <2>1. Reads(d \o r, cited) = Reads(d, cited) \o Reads(r, cited)
    BY EndedJoin
  <2>2. Reads(f \o q, cited) = Reads(f, cited) \o Reads(q, cited)
    BY EndedJoin
  <2> QED BY <2>1, <2>2 DEF Same
<1> QED BY <1>1, <1>2 DEF Same

\* Blanks at the end are not read.
LEMMA BlanksEnd ==
  ASSUME NEW t \in Seq(Sign), NEW v \in Seq(Blank), v # <<>>
  PROVE  Ended(t \o v) /\ t \o v \in Seq(Sign) /\ Same(t \o v, t)
<1>1. PICK e \in Seq(Blank) : v = e \o <<v[Len(v)]>> /\ v[Len(v)] \in Blank
  BY LastIs
<1> DEFINE b == v[Len(v)]
           one == <<b>>
<1>2. b \in Blank /\ v = e \o <<b>>
  BY <1>1
<1>3. e \in Seq(Sign) /\ v \in Seq(Sign)
  BY NoSource, Blanks
<1> HIDE DEF b
<1>4. one \in Seq(Sign)
  <2>1. b \in Sign
    BY <1>2, Signs DEF Blank
  <2> QED BY <2>1
<1>5. t \o v = (t \o e) \o <<b>>
  <2>1. v = e \o one
    BY <1>2
  <2> HIDE DEF one
  <2>2. (t \o e) \o one = t \o (e \o one)
    BY <1>3, <1>4, JoinThree
  <2>3. t \o v = (t \o e) \o one
    BY <2>1, <2>2
  <2> QED BY <2>3 DEF one
<1>6. t \o e \in Seq(Sign) /\ t \o v \in Seq(Sign)
  BY <1>3
<1>7. Ended(t \o v)
  BY <1>2, <1>5, <1>6 DEF Ended
<1>8. PICK c : c \in Blank /\ c = v[1] /\ v = <<c>> \o Suffix(v, 2) /\ Suffix(v, 2) \in Seq(Blank)
  BY FirstIs
<1> DEFINE w == Suffix(v, 2)
<1>9. w \in Seq(Sign) /\ Ids(w) = <<>> /\ \A cited \in Seq(Seq(Sign)) : Reads(w, cited) = <<>>
  <2>1. w \in Seq(Blank)
    BY <1>8
  <2> HIDE DEF w
  <2> QED BY <2>1, NoSource, Blanks
<1>10. v = <<c>> \o w
  BY <1>8
<1> HIDE DEF w
<1>11. Ids(t \o v) = Ids(t)
  <2>1. Ids(t \o (<<c>> \o w)) = Ids(t) \o Ids(w)
    BY <1>8, <1>9, NoSource, Seam
  <2>2. Ids(t) \in Seq(Seq(Sign))
    BY NoSource, TextsAre
  <2>3. Ids(t) \o <<>> = Ids(t)
    BY <2>2
  <2> QED BY <1>9, <1>10, <2>1, <2>3
<1>12. ASSUME NEW cited \in Seq(Seq(Sign)) PROVE Reads(t \o v, cited) = Reads(t, cited)
  <2>1. Reads(t \o (<<c>> \o w), cited) = Reads(t, cited) \o Reads(w, cited)
    BY <1>8, <1>9, Seam
  <2> DEFINE a == Reads(t, cited)
  <2>2. a \in Seq(Sign)
    BY ReadsAre
  <2> HIDE DEF a
  <2>3. a \o <<>> = a
    BY <2>2
  <2> QED BY <1>9, <1>10, <2>1, <2>3 DEF a
<1> QED BY <1>6, <1>7, <1>11, <1>12 DEF Same

\* More blanks or fewer, in the same place.
LEMMA BlankRun ==
  ASSUME NEW t \in Seq(Sign), NEW v \in Seq(Blank), v # <<>>, NEW w \in Seq(Blank), w # <<>>,
         NEW r \in Seq(Sign)
  PROVE  Same((t \o v) \o r, (t \o w) \o r)
<1> DEFINE p == t \o v
           q == t \o w
<1>1. Ended(p) /\ p \in Seq(Sign) /\ Same(p, t)
  BY BlanksEnd
<1>2. Ended(q) /\ q \in Seq(Sign) /\ Same(q, t)
  BY BlanksEnd
<1> HIDE DEF p, q
<1>3. Same(p, q) /\ Same(r, r)
  BY <1>1, <1>2 DEF Same
<1>4. Same(p \o r, q \o r)
  BY <1>1, <1>2, <1>3, SameEnded
<1> QED BY <1>4 DEF p, q

-----------------------------------------------------------------------------
\* The citations of a paragraph, after it.

\* A list of one.
LEMMA Single ==
  ASSUME NEW S, NEW x \in S
  PROVE  <<x>> \in Seq(S) /\ <<x>> # <<>> /\ Len(<<x>>) = 1
OBVIOUS

\* A function from 1 to n is a list.
LEMMA FromTo ==
  ASSUME NEW S, NEW n \in Nat, NEW f \in [1 .. n -> S]
  PROVE  f \in Seq(S)
OBVIOUS

Marks(cited) == FlattenSeq([k \in DOMAIN cited |-> <<"[">> \o cited[k] \o <<"]">>])
After(cited) == IF cited = <<>> THEN <<>> ELSE <<" ">> \o Marks(cited)

\* The markers are a text.
LEMMA MarksAre ==
  ASSUME NEW cited \in Seq(Seq(Sign))
  PROVE  Marks(cited) \in Seq(Sign)
<1> DEFINE f == [k \in DOMAIN cited |-> <<"[">> \o cited[k] \o <<"]">>]
           l == <<"[">>
           r == <<"]">>
<1>1. l \in Seq(Sign) /\ r \in Seq(Sign)
  <2>1. "[" \in Sign /\ "]" \in Sign
    BY Signs
  <2> QED BY <2>1
<1>2. DOMAIN cited = 1 .. Len(cited) /\ Len(cited) \in Nat
  OBVIOUS
<1>3. ASSUME NEW k \in DOMAIN cited PROVE l \o cited[k] \o r \in Seq(Sign)
  <2>1. cited[k] \in Seq(Sign)
    OBVIOUS
  <2> HIDE DEF l, r
  <2> QED BY <1>1, <2>1
<1> HIDE DEF l, r
<1>4. f \in [1 .. Len(cited) -> Seq(Sign)]
  BY <1>2, <1>3 DEF l, r
<1> HIDE DEF f
<1>5. f \in Seq(Seq(Sign))
  <2>1. Len(cited) \in Nat
    BY <1>2
  <2> QED BY <1>4, <2>1, FromTo
<1> QED BY <1>5, FlattenPlaces DEF Marks, f

\* A text is what is left when its last blanks are stripped, and blanks.
LEMMA StrippedIs ==
  ASSUME NEW text \in Seq(Sign)
  PROVE  Stripped(text) \in Seq(Sign) /\ \E v \in Seq(Blank) : text = Stripped(text) \o v
<1> DEFINE n == Len(text) + 1
           K == {k \in 1 .. n : \A i \in k .. Len(text) : text[i] \in Blank}
           k == Min(K)
<1>1. Len(text) \in Nat /\ n \in Nat /\ n = Len(text) + 1 /\ n \in 1 .. n
  OBVIOUS
<1>2. n \in K
  <2>1. \A i \in n .. Len(text) : FALSE
    BY <1>1
  <2> QED BY <1>1, <2>1
<1>3. K \subseteq Nat /\ K # {}
  BY <1>1, <1>2
<1>4. Stripped(text) = Before(text, k)
  BY DEF Stripped
<1> HIDE DEF n
<1>5. k \in K
  <2> HIDE DEF K
  <2>1. \E x \in K : \A y \in K : x <= y
    BY <1>3, SmallestOf
  <2> QED BY <2>1 DEF Min
<1> HIDE DEF k
<1>6. k \in 1 .. Len(text) + 1 /\ \A i \in k .. Len(text) : text[i] \in Blank
  BY <1>1, <1>5
<1> DEFINE b == Suffix(text, k)
<1>7. /\ Before(text, k) \in Seq(Sign)
      /\ b \in Seq(Sign) /\ Len(b) = Len(text) + 1 - k
      /\ \A i \in 1 .. Len(text) + 1 - k : b[i] = text[k - 1 + i]
      /\ text = Before(text, k) \o b
  BY <1>6, CutAt
<1> HIDE DEF b
<1>8. b \in Seq(Blank)
  <2>1. ASSUME NEW i \in 1 .. Len(b) PROVE b[i] \in Blank
    <3>1. i \in 1 .. Len(text) + 1 - k /\ k - 1 + i \in k .. Len(text)
      BY <1>1, <1>6, <1>7
    <3> QED BY <1>6, <1>7, <3>1
  <2> QED BY <1>7, <2>1
<1> QED BY <1>4, <1>7, <1>8

\* A paragraph with its citations is a text: they follow it, after a space.
LEMMA CiteIs ==
  ASSUME NEW u \in Seq(Sign), NEW cited \in Seq(Seq(Sign))
  PROVE  /\ Cite(u, cited) \in Seq(Sign)
         /\ Cite(u, cited) = IF cited = <<>> THEN u ELSE (Stripped(u) \o <<" ">>) \o Marks(cited)
<1> DEFINE sp == <<" ">>
           m == Marks(cited)
           s == Stripped(u)
<1>1. m \in Seq(Sign) /\ s \in Seq(Sign)
  BY MarksAre, StrippedIs
<1>2. sp \in Seq(Sign)
  <2>1. " " \in Sign
    BY Signs
  <2> QED BY <2>1, Single
<1>3. (s \o sp) \o m \in Seq(Sign)
  <2> HIDE DEF sp, m, s
  <2> QED BY <1>1, <1>2
<1>4. Cite(u, cited) = IF cited = <<>> THEN u ELSE (s \o sp) \o m
  BY DEF Cite, Marks
<1> QED BY <1>3, <1>4

Three(a, b, c) == (a \o b) \o c = a \o (b \o c)

\* Three texts are joined in either order.
LEMMA ThreeJoin ==
  ASSUME NEW a \in Seq(Sign), NEW b \in Seq(Sign), NEW c \in Seq(Sign)
  PROVE  Three(a, b, c)
BY DEF Three

FiveOnce(a, s, p, m, r) == (a \o ((s \o p) \o m)) \o r = ((a \o s) \o p) \o (m \o r)

SixOnce(a, s, v, p, m, r) ==
  ((a \o (s \o v)) \o (p \o m)) \o r = ((a \o s) \o (v \o p)) \o (m \o r)

\* Five texts are.
LEMMA RegroupOne ==
  ASSUME NEW a \in Seq(Sign), NEW s \in Seq(Sign), NEW p \in Seq(Sign), NEW m \in Seq(Sign),
         NEW r \in Seq(Sign)
  PROVE  FiveOnce(a, s, p, m, r)
<1> DEFINE sp == s \o p
           q == a \o sp
<1>1. sp \in Seq(Sign)
  OBVIOUS
<1>2. (a \o s) \o p = a \o sp
  <2>1. Three(a, s, p)
    BY ThreeJoin
  <2> QED BY <2>1 DEF Three
<1> HIDE DEF sp
<1>3. q \in Seq(Sign)
  BY <1>1
<1>4. (a \o sp) \o m = a \o (sp \o m)
  <2>1. Three(a, sp, m)
    BY <1>1, ThreeJoin
  <2> QED BY <2>1 DEF Three
<1> HIDE DEF q
<1>5. (q \o m) \o r = q \o (m \o r)
  <2>1. Three(q, m, r)
    BY <1>3, ThreeJoin
  <2> QED BY <2>1 DEF Three
<1> QED BY <1>2, <1>4, <1>5 DEF sp, q, FiveOnce

\* And six.
LEMMA RegroupTwo ==
  ASSUME NEW a \in Seq(Sign), NEW s \in Seq(Sign), NEW v \in Seq(Sign), NEW p \in Seq(Sign),
         NEW m \in Seq(Sign), NEW r \in Seq(Sign)
  PROVE  SixOnce(a, s, v, p, m, r)
<1> DEFINE as == a \o s
           vp == v \o p
           q == as \o v
           t == as \o vp
<1>1. as \in Seq(Sign)
  OBVIOUS
<1>2. vp \in Seq(Sign)
  OBVIOUS
<1>3. (a \o s) \o v = a \o (s \o v)
  <2>1. Three(a, s, v)
    BY ThreeJoin
  <2> QED BY <2>1 DEF Three
<1> HIDE DEF as
<1>4. q \in Seq(Sign)
  <2> HIDE DEF vp, t
  <2> QED BY <1>1, Joining
<1>5. (as \o v) \o p = as \o (v \o p)
  <2>1. Three(as, v, p)
    BY <1>1, ThreeJoin
  <2> QED BY <2>1 DEF Three
<1> HIDE DEF q
<1>6. (q \o p) \o m = q \o (p \o m)
  <2>1. Three(q, p, m)
    BY <1>4, ThreeJoin
  <2> QED BY <2>1 DEF Three
<1> HIDE DEF vp
<1>7. t \in Seq(Sign)
  BY <1>1, <1>2, Joining
<1> HIDE DEF t
<1>8. (t \o m) \o r = t \o (m \o r)
  <2>1. Three(t, m, r)
    BY <1>7, ThreeJoin
  <2> QED BY <2>1 DEF Three
<1>9. q \o p = t
  BY <1>5 DEF q, t, vp
<1>10. a \o (s \o v) = q
  BY <1>3 DEF q, as
<1> QED BY <1>6, <1>8, <1>9, <1>10 DEF t, as, vp, SixOnce

\* The citations take the place of the last blanks.
LEMMA CiteSame ==
  ASSUME NEW a \in Seq(Sign), NEW u \in Seq(Sign), NEW r \in Seq(Sign),
         NEW cited \in Seq(Seq(Sign))
  PROVE  Same((a \o Cite(u, cited)) \o r, ((a \o u) \o After(cited)) \o r)
<1>1. CASE cited = <<>>
  <2>1. a \o u \in Seq(Sign)
    OBVIOUS
  <2> DEFINE w == a \o u
  <2> HIDE DEF w
  <2>2. w \o <<>> = w
    BY <2>1 DEF w
  <2>3. Cite(u, cited) = u /\ After(cited) = <<>>
    BY <1>1, CiteIs DEF After
  <2> QED BY <2>2, <2>3 DEF Same, w
<1>2. CASE cited # <<>>
  <2> DEFINE s == Stripped(u)
             p == <<" ">>
             m == Marks(cited)
  <2>1. s \in Seq(Sign) /\ m \in Seq(Sign)
    BY StrippedIs, MarksAre
  <2>2. PICK v \in Seq(Blank) : u = s \o v
    BY StrippedIs
  <2>3. p \in Seq(Blank) /\ p # <<>> /\ Len(p) = 1
    <3>1. " " \in Blank
      BY DEF Blank
    <3> QED BY <3>1, Single
  <2>4. Cite(u, cited) = (s \o p) \o m /\ After(cited) = p \o m
    BY <1>2, CiteIs DEF After
  <2> HIDE DEF s, p, m
  <2>5. p \in Seq(Sign) /\ v \in Seq(Sign)
    BY <2>3, NoSource, Blanks
  <2> DEFINE w == v \o p
             t == a \o s
             z == m \o r
  <2>6. w \in Seq(Blank) /\ w # <<>> /\ t \in Seq(Sign) /\ z \in Seq(Sign)
    <3>1. w \in Seq(Blank) /\ Len(w) = Len(v) + 1 /\ Len(v) \in Nat
      <4>1. p \in Seq(Blank)
        BY <2>3
      <4>2. w \in Seq(Blank) /\ Len(w) = Len(v) + Len(p) /\ Len(v) \in Nat
        BY <4>1, Joining
      <4> QED BY <2>3, <4>2
    <3>2. w # <<>>
      <4> HIDE DEF w
      <4>1. Len(w) # 0
        BY <3>1
      <4> QED BY <4>1
    <3>3. t \in Seq(Sign) /\ z \in Seq(Sign)
      BY <2>1
    <3> QED BY <3>1, <3>2, <3>3
  <2>7. (a \o ((s \o p) \o m)) \o r = (t \o p) \o z
    <3>1. s \in Seq(Sign)
      BY <2>1
    <3>2. m \in Seq(Sign)
      BY <2>1
    <3>3. p \in Seq(Sign)
      BY <2>5
    <3>4. FiveOnce(a, s, p, m, r)
      BY <3>1, <3>2, <3>3, RegroupOne
    <3> QED BY <3>4 DEF FiveOnce
  <2>8. ((a \o (s \o v)) \o (p \o m)) \o r = (t \o w) \o z
    <3>1. s \in Seq(Sign)
      BY <2>1
    <3>2. m \in Seq(Sign)
      BY <2>1
    <3>3. p \in Seq(Sign)
      BY <2>5
    <3>5. v \in Seq(Sign)
      BY <2>5
    <3>4. SixOnce(a, s, v, p, m, r)
      BY <3>1, <3>2, <3>3, <3>5, RegroupTwo
    <3> QED BY <3>4 DEF SixOnce
  <2> HIDE DEF w, t, z
  <2>9. Same((t \o p) \o z, (t \o w) \o z)
    BY <2>3, <2>6, BlankRun
  <2> QED BY <2>2, <2>4, <2>7, <2>8, <2>9
<1> QED BY <1>1, <1>2

-----------------------------------------------------------------------------
\* Paragraphs.

EndedParts(ended) == [m \in DOMAIN ended |-> ended[m] \o Break]
EndedText(ended)  == FlattenSeq(EndedParts(ended))

\* An empty line is two newlines.
LEMMA BreakIs ==
  /\ Break \in Seq(Sign) /\ Break # <<>> /\ Len(Break) = 2
  /\ Break[1] = "newline" /\ Break[2] = "newline"
<1>1. "newline" \in Sign
  BY Signs
<1> DEFINE x == "newline"
<1>2. x \in Sign
  BY <1>1
<1>3. Break = <<x, x>>
  BY DEF Break
<1> HIDE DEF x
<1>4. <<x, x>> \in Seq(Sign) /\ Len(<<x, x>>) = 2 /\ <<x, x>>[1] = x /\ <<x, x>>[2] = x /\ <<x, x>> # <<>>
  BY <1>2
<1> QED BY <1>3, <1>4 DEF x

\* Paragraphs that have ended are a text.
LEMMA EndedPartsAre ==
  ASSUME NEW ended \in Seq(Seq(Sign))
  PROVE  /\ EndedParts(ended) \in Seq(Seq(Sign)) /\ Len(EndedParts(ended)) = Len(ended)
         /\ EndedText(ended) \in Seq(Sign)
         /\ \A m \in 1 .. Len(ended) : EndedParts(ended)[m] = ended[m] \o Break
<1> DEFINE f == EndedParts(ended)
<1>1. DOMAIN ended = 1 .. Len(ended) /\ Len(ended) \in Nat
  OBVIOUS
<1>2. ASSUME NEW m \in 1 .. Len(ended) PROVE ended[m] \o Break \in Seq(Sign)
  <2>1. ended[m] \in Seq(Sign)
    BY <1>1
  <2> QED BY <2>1, BreakIs, Joining
<1>3. f \in [1 .. Len(ended) -> Seq(Sign)] /\ \A m \in 1 .. Len(ended) : f[m] = ended[m] \o Break
  BY <1>1, <1>2 DEF EndedParts
<1> HIDE DEF f
<1>4. f \in Seq(Seq(Sign)) /\ Len(f) = Len(ended)
  <2> DEFINE n == Len(ended)
  <2>1. n \in Nat /\ f \in [1 .. n -> Seq(Sign)]
    BY <1>1, <1>3
  <2> HIDE DEF n
  <2>2. f \in Seq(Seq(Sign))
    BY <2>1, FromTo
  <2>3. Len(f) = n
    BY <2>1, <2>2
  <2> QED BY <2>2, <2>3 DEF n
<1>5. FlattenSeq(f) \in Seq(Sign)
  BY <1>4, FlattenPlaces
<1> QED BY <1>3, <1>4, <1>5 DEF f, EndedText

\* Two lists of them are, one after the other.
LEMMA EndedTextJoin ==
  ASSUME NEW a \in Seq(Seq(Sign)), NEW b \in Seq(Seq(Sign))
  PROVE  EndedText(a \o b) = EndedText(a) \o EndedText(b)
<1> DEFINE u == a \o b
           f == EndedParts(u)
           g == EndedParts(a)
           h == EndedParts(b)
<1>1. /\ u \in Seq(Seq(Sign)) /\ Len(u) = Len(a) + Len(b)
      /\ Len(a) \in Nat /\ Len(b) \in Nat
      /\ \A i \in 1 .. Len(a) : u[i] = a[i]
      /\ \A i \in 1 .. Len(b) : u[Len(a) + i] = b[i]
  BY Joining
<1> HIDE DEF u
<1>2. f \in Seq(Seq(Sign)) /\ Len(f) = Len(u) /\ \A m \in 1 .. Len(u) : f[m] = u[m] \o Break
  <2>1. u \in Seq(Seq(Sign))
    BY <1>1
  <2> QED BY <2>1, EndedPartsAre
<1>3. g \in Seq(Seq(Sign)) /\ Len(g) = Len(a) /\ \A m \in 1 .. Len(a) : g[m] = a[m] \o Break
  BY EndedPartsAre
<1>4. h \in Seq(Seq(Sign)) /\ Len(h) = Len(b) /\ \A m \in 1 .. Len(b) : h[m] = b[m] \o Break
  BY EndedPartsAre
<1> HIDE DEF f, g, h
<1>5. \A i \in 1 .. Len(g) : f[i] = g[i]
  <2> SUFFICES ASSUME NEW i \in 1 .. Len(g) PROVE f[i] = g[i]
    OBVIOUS
  <2>1. i \in 1 .. Len(a) /\ i \in 1 .. Len(u)
    BY <1>1, <1>3
  <2>2. u[i] = a[i]
    BY <1>1, <2>1
  <2>3. f[i] = u[i] \o Break /\ g[i] = a[i] \o Break
    BY <1>2, <1>3, <2>1
  <2> QED BY <2>2, <2>3
<1>6. \A i \in 1 .. Len(h) : f[Len(g) + i] = h[i]
  <2> SUFFICES ASSUME NEW i \in 1 .. Len(h) PROVE f[Len(g) + i] = h[i]
    OBVIOUS
  <2>1. i \in 1 .. Len(b) /\ Len(a) + i \in 1 .. Len(u) /\ Len(g) + i = Len(a) + i
    BY <1>1, <1>3, <1>4
  <2>2. u[Len(a) + i] = b[i]
    BY <1>1, <2>1
  <2>3. f[Len(a) + i] = u[Len(a) + i] \o Break /\ h[i] = b[i] \o Break
    BY <1>2, <1>4, <2>1
  <2> QED BY <2>1, <2>2, <2>3
<1>7. Len(f) = Len(g) + Len(h)
  BY <1>1, <1>2, <1>3, <1>4
<1>8. FlattenSeq(f) = FlattenSeq(g) \o FlattenSeq(h)
  <2>1. f \in Seq(Seq(Sign)) /\ g \in Seq(Seq(Sign)) /\ h \in Seq(Seq(Sign))
    BY <1>2, <1>3, <1>4
  <2> QED BY <1>5, <1>6, <1>7, <2>1, FlattenParts
<1> QED BY <1>8 DEF f, g, h, u, EndedText

\* One of them, and none.
LEMMA EndedTextOne ==
  ASSUME NEW p \in Seq(Sign)
  PROVE  EndedText(<<p>>) = p \o Break /\ EndedText(<<>>) = <<>>
<1> DEFINE one == <<p>>
           f == EndedParts(one)
           x == p \o Break
<1>1. one \in Seq(Seq(Sign)) /\ Len(one) = 1 /\ one[1] = p
  OBVIOUS
<1>2. x \in Seq(Sign)
  BY BreakIs, Joining
<1> HIDE DEF one
<1>3. f \in Seq(Seq(Sign)) /\ Len(f) = 1 /\ f[1] = x
  <2>1. one \in Seq(Seq(Sign))
    BY <1>1
  <2>2. f \in Seq(Seq(Sign)) /\ Len(f) = Len(one) /\ \A m \in 1 .. Len(one) : f[m] = one[m] \o Break
    BY <2>1, EndedPartsAre
  <2>3. 1 \in 1 .. Len(one)
    BY <1>1
  <2> QED BY <1>1, <2>2, <2>3
<1> HIDE DEF f, x
<1>4. f = <<x>>
  BY <1>3
<1>5. FlattenSeq(<<x>>) = x
  BY <1>2, FlattenOne
<1>6. EndedText(<<>>) = <<>>
  <2> DEFINE none == <<>>
  <2>1. none \in Seq(Seq(Sign)) /\ Len(none) = 0
    OBVIOUS
  <2> HIDE DEF none
  <2>2. EndedParts(none) \in Seq(Seq(Sign)) /\ Len(EndedParts(none)) = 0
    BY <2>1, EndedPartsAre
  <2>3. EndedParts(none) = <<>>
    BY <2>2
  <2> QED BY <2>3, FlattenNone DEF EndedText, none
<1> QED BY <1>4, <1>5, <1>6 DEF EndedText, f, x, one

\* The text of the paragraphs that have ended and of the current one.
LEMMA JoinedIs ==
  ASSUME NEW p
  PROVE  Joined(p) = EndedText(p.ended) \o p.current
BY DEF Joined, EndedText, EndedParts

\* No empty line is inside.
NoBreak(t) == \A b \in 1 .. Len(t) - 1 : ~(t[b] = "newline" /\ t[b + 1] = "newline")

Split == [ended : Seq(Seq(Sign)), current : Seq(Sign)]

\* One symbol more of a text.
SplitOn(before, x) ==
  LET line == Append(before.current, x)
      n    == Len(line)
  IN  IF n > 1 /\ Suffix(line, n - 1) = Break
      THEN [ended |-> Append(before.ended, Before(line, n - 1)), current |-> <<>>]
      ELSE [ended |-> before.ended, current |-> line]

Unbroken(p) == NoBreak(p.current) /\ \A m \in 1 .. Len(p.ended) : NoBreak(p.ended[m])

\* The current line, with one symbol more.
LEMMA NoBreakStep ==
  ASSUME NEW c \in Seq(Sign), NoBreak(c), NEW x \in Sign,
         NEW line, line = Append(c, x), NEW n, n = Len(line)
  PROVE  /\ line \in Seq(Sign) /\ n = Len(c) + 1 /\ Len(c) \in Nat /\ line = c \o <<x>>
         /\ n > 1 => /\ Before(line, n - 1) \in Seq(Sign)
                     /\ Suffix(line, n - 1) \in Seq(Sign)
                     /\ line = Before(line, n - 1) \o Suffix(line, n - 1)
                     /\ NoBreak(Before(line, n - 1))
         /\ ~(n > 1 /\ Suffix(line, n - 1) = Break) => NoBreak(line)
<1>1. /\ line \in Seq(Sign) /\ n = Len(c) + 1 /\ Len(c) \in Nat /\ line = c \o <<x>>
      /\ \A i \in 1 .. Len(c) : line[i] = c[i]
  OBVIOUS
<1>2. \A b \in 1 .. Len(c) - 1 : ~(line[b] = "newline" /\ line[b + 1] = "newline")
  <2>1. \A b \in 1 .. Len(c) - 1 : b \in 1 .. Len(c) /\ b + 1 \in 1 .. Len(c)
    BY <1>1
  <2>2. \A b \in 1 .. Len(c) - 1 : line[b] = c[b] /\ line[b + 1] = c[b + 1]
    BY <1>1, <2>1
  <2> QED BY <2>2 DEF NoBreak
<1>3. ASSUME n > 1
      PROVE  /\ Before(line, n - 1) \in Seq(Sign)
             /\ Suffix(line, n - 1) \in Seq(Sign)
             /\ line = Before(line, n - 1) \o Suffix(line, n - 1)
             /\ NoBreak(Before(line, n - 1))
             /\ Len(Suffix(line, n - 1)) = 2
             /\ Suffix(line, n - 1)[1] = line[n - 1] /\ Suffix(line, n - 1)[2] = line[n]
  <2> DEFINE k == n - 1
             a == Before(line, k)
             z == Suffix(line, k)
  <2>1. k \in 1 .. Len(line) + 1 /\ k = Len(c) /\ Len(line) + 1 - k = 2 /\ k - 1 + 1 = k
        /\ k - 1 + 2 = n /\ k = n - 1 /\ k \in Nat
    BY <1>1, <1>3
  <2> HIDE DEF k
  <2>2. /\ a \in Seq(Sign) /\ Len(a) = k - 1
        /\ \A i \in 1 .. k - 1 : a[i] = line[i]
        /\ z \in Seq(Sign) /\ Len(z) = Len(line) + 1 - k
        /\ \A i \in 1 .. Len(line) + 1 - k : z[i] = line[k - 1 + i]
        /\ line = a \o z
    <3>1. k \in 1 .. Len(line) + 1
      BY <2>1
    <3>2. line \in Seq(Sign)
      BY <1>1
    <3> QED BY ZenonT(40), <3>1, <3>2, CutAt
  <2> HIDE DEF a, z
  <2>3. Len(z) = 2 /\ z[1] = line[k] /\ z[2] = line[n]
    <3>1. 1 \in 1 .. Len(line) + 1 - k /\ 2 \in 1 .. Len(line) + 1 - k
      BY <2>1
    <3>2. z[1] = line[k - 1 + 1] /\ z[2] = line[k - 1 + 2]
      BY <2>2, <3>1
    <3> QED BY <2>1, <2>2, <3>2
  <2>4. NoBreak(a)
    <3>1. \A b \in 1 .. Len(a) - 1 : /\ b \in 1 .. k - 1 /\ b + 1 \in 1 .. k - 1
                                     /\ b \in 1 .. Len(c) - 1
      BY <2>1, <2>2
    <3>2. \A b \in 1 .. Len(a) - 1 : a[b] = line[b] /\ a[b + 1] = line[b + 1]
      BY <2>2, <3>1
    <3> QED BY <1>2, <3>1, <3>2 DEF NoBreak
  <2> QED BY <2>1, <2>2, <2>3, <2>4 DEF a, z
<1>4. ASSUME ~(n > 1 /\ Suffix(line, n - 1) = Break) PROVE NoBreak(line)
  <2> SUFFICES ASSUME NEW b \in 1 .. Len(line) - 1, line[b] = "newline" /\ line[b + 1] = "newline"
               PROVE  FALSE
    BY DEF NoBreak
  <2>1. b = n - 1 /\ b + 1 = n /\ n > 1
    <3>1. b \in 1 .. Len(c) /\ b \notin 1 .. Len(c) - 1
      BY <1>1, <1>2
    <3> QED BY <1>1, <3>1
  <2> DEFINE z == Suffix(line, n - 1)
  <2>2. z \in Seq(Sign) /\ Len(z) = 2 /\ z[1] = line[n - 1] /\ z[2] = line[n] /\ z # Break
    BY <1>3, <1>4, <2>1
  <2> HIDE DEF z
  <2>3. z[1] = Break[1] /\ z[2] = Break[2]
    BY <2>1, <2>2, BreakIs
  <2>4. \A i \in 1 .. 2 : i = 1 \/ i = 2
    OBVIOUS
  <2>5. \A i \in 1 .. Len(z) : z[i] = Break[i]
    BY <2>2, <2>3, <2>4
  <2>6. z = Break
    BY <2>2, <2>5, BreakIs, SeqEqual
  <2> QED BY <2>2, <2>6
<1> QED BY <1>1, <1>3, <1>4

\* One symbol more keeps the paragraphs whole and loses nothing.
LEMMA SplitStep ==
  ASSUME NEW p \in Split, Unbroken(p), NEW x \in Sign
  PROVE  /\ SplitOn(p, x) \in Split /\ Unbroken(SplitOn(p, x))
         /\ Joined(p) \in Seq(Sign)
         /\ Joined(SplitOn(p, x)) = Append(Joined(p), x)
<1> DEFINE c == p.current
           e == p.ended
           line == Append(c, x)
           n == Len(line)
           a == Before(line, n - 1)
           z == Suffix(line, n - 1)
           E == EndedText(e)
<1>1. c \in Seq(Sign) /\ e \in Seq(Seq(Sign)) /\ NoBreak(c) /\ \A m \in 1 .. Len(e) : NoBreak(e[m])
  BY DEF Split, Unbroken
<1>2. SplitOn(p, x) = IF n > 1 /\ z = Break THEN [ended |-> Append(e, a), current |-> <<>>]
                      ELSE [ended |-> e, current |-> line]
  BY DEF SplitOn
<1>3. E \in Seq(Sign)
  BY <1>1, EndedPartsAre
<1>4. Joined(p) = E \o c
  BY JoinedIs
<1> HIDE DEF c, e
<1>5. /\ line \in Seq(Sign) /\ n = Len(c) + 1 /\ Len(c) \in Nat /\ line = c \o <<x>>
      /\ n > 1 => /\ a \in Seq(Sign) /\ line = a \o z /\ NoBreak(a)
      /\ ~(n > 1 /\ z = Break) => NoBreak(line)
  BY <1>1, NoBreakStep
<1> HIDE DEF E, line, n, a, z
<1>6. E \o c \in Seq(Sign)
  BY <1>1, <1>3
<1>7. Append(E \o c, x) = E \o line
  <2> DEFINE one == <<x>>
             w == E \o c
  <2>1. one \in Seq(Sign)
    OBVIOUS
  <2>2. Append(w, x) = w \o one
    <3>1. w \in Seq(Sign)
      BY <1>6
    <3> HIDE DEF w
    <3> QED BY <3>1
  <2>3. Three(E, c, one)
    <3> HIDE DEF one
    <3> QED BY <1>1, <1>3, <2>1, ThreeJoin
  <2> QED BY <1>5, <2>2, <2>3 DEF Three
<1>8. CASE n > 1 /\ z = Break
  <2> DEFINE q == [ended |-> Append(e, a), current |-> <<>>]
             f == Append(e, a)
  <2>1. a \in Seq(Sign) /\ NoBreak(a) /\ line = a \o Break
    BY <1>5, <1>8
  <2>2. f \in Seq(Seq(Sign)) /\ f = e \o <<a>>
        /\ Len(f) = Len(e) + 1 /\ Len(e) \in Nat /\ f[Len(e) + 1] = a
        /\ \A m \in 1 .. Len(e) : f[m] = e[m]
    BY SMTT(30), <1>1, <2>1
  <2> HIDE DEF f
  <2>3. \A m \in 1 .. Len(f) : NoBreak(f[m])
    <3>1. \A m \in 1 .. Len(f) : m \in 1 .. Len(e) \/ m = Len(e) + 1
      BY <2>2
    <3> QED BY <1>1, <2>1, <2>2, <3>1
  <2>4. <<>> \in Seq(Sign) /\ NoBreak(<<>>)
    <3>1. Len(<<>>) = 0
      OBVIOUS
    <3> QED BY <3>1 DEF NoBreak
  <2>5. q = [ended |-> f, current |-> <<>>]
    BY DEF f
  <2> HIDE DEF q
  <2>6. q \in Split /\ Unbroken(q)
    BY <2>2, <2>3, <2>4, <2>5 DEF Split, Unbroken
  <2>7. EndedText(f) = E \o line
    <3> DEFINE one == <<a>>
    <3>1. one \in Seq(Seq(Sign))
      BY <2>1
    <3>2. EndedText(one) = a \o Break
      BY <2>1, EndedTextOne
    <3> HIDE DEF one
    <3>3. EndedText(e \o one) = E \o EndedText(one)
      BY <1>1, <3>1, EndedTextJoin DEF E
    <3> QED BY <2>1, <2>2, <3>2, <3>3 DEF one
  <2>8. E \o line \in Seq(Sign)
    BY <1>3, <1>5
  <2>9. Joined(q) = E \o line
    <3>1. Joined(q) = EndedText(f) \o <<>>
      BY <2>5, JoinedIs
    <3> DEFINE w == E \o line
    <3>2. w \in Seq(Sign)
      BY <2>8
    <3>3. Joined(q) = w \o <<>>
      BY <2>7, <3>1
    <3> HIDE DEF w
    <3>4. w \o <<>> = w
      BY <3>2
    <3> QED BY <3>3, <3>4 DEF w
  <2> QED BY <1>2, <1>4, <1>6, <1>7, <1>8, <2>6, <2>9 DEF q
<1>9. CASE ~(n > 1 /\ z = Break)
  <2> DEFINE q == [ended |-> e, current |-> line]
  <2>1. SplitOn(p, x) = q
    BY <1>2, <1>9
  <2>2. q.ended = e /\ q.current = line /\ q \in Split
    BY <1>1, <1>5 DEF Split
  <2> HIDE DEF q
  <2>3. Unbroken(q)
    BY <1>1, <1>5, <1>9, <2>2 DEF Unbroken
  <2>4. Joined(q) = E \o line
    BY <2>2, JoinedIs DEF E
  <2> QED BY <1>4, <1>6, <1>7, <2>1, <2>2, <2>3, <2>4
<1> QED BY <1>8, <1>9

Splits == {p \in Split : Unbroken(p)}
Empty  == [ended |-> <<>>, current |-> <<>>]

\* Nothing has no paragraph but an empty one.
LEMMA EmptyIs == Empty \in Splits /\ Joined(Empty) = <<>>
<1>1. NoBreak(<<>>)
  <2>1. Len(<<>>) = 0
    OBVIOUS
  <2> QED BY <2>1 DEF NoBreak
<1>2. Empty \in Split
  <2>1. <<>> \in Seq(Sign) /\ <<>> \in Seq(Seq(Sign))
    OBVIOUS
  <2> QED BY <2>1 DEF Empty, Split
<1>3. Unbroken(Empty)
  <2>1. Empty.ended = <<>> /\ Empty.current = <<>> /\ Len(<<>>) = 0
    BY DEF Empty
  <2> QED BY <1>1, <2>1 DEF Unbroken
<1>4. Joined(Empty) = <<>>
  <2>1. Joined(Empty) = EndedText(Empty.ended) \o Empty.current
    BY JoinedIs
  <2>2. Empty.ended = <<>> /\ Empty.current = <<>>
    BY DEF Empty
  <2>3. EndedText(<<>>) = <<>>
    <3>1. <<>> \in Seq(Sign)
      OBVIOUS
    <3> QED BY <3>1, EndedTextOne
  <2>4. <<>> \o <<>> = <<>>
    OBVIOUS
  <2> QED BY <2>1, <2>2, <2>3, <2>4
<1> QED BY <1>2, <1>3, <1>4 DEF Splits

\* split[n] is the split of the first n symbols.
SplitUpto(t, split) ==
  /\ split[0] = Empty
  /\ \A n \in 1 .. Len(t) : split[n] = SplitOn(split[n - 1], t[n])

\* The function text.split builds exists.
LEMMA SplitExists ==
  ASSUME NEW t \in Seq(Sign)
  PROVE  \E split : SplitUpto(t, split) /\ Paragraphs(t) = split[Len(t)]
<1> DEFINE N == Len(t)
           step == [n \in 1 .. N |-> [p \in Splits |-> SplitOn(p, t[n])]]
           split[i \in 0 .. N] ==
             IF i = 0 THEN [ended |-> <<>>, current |-> <<>>]
             ELSE LET ended == split[i - 1].ended
                      line  == Append(split[i - 1].current, t[i])
                      n     == Len(line)
                  IN  IF n > 1 /\ Suffix(line, n - 1) = Break
                      THEN [ended |-> Append(ended, Before(line, n - 1)), current |-> <<>>]
                      ELSE [ended |-> ended, current |-> line]
<1>1. N \in Nat /\ \A n \in 1 .. N : t[n] \in Sign
  OBVIOUS
<1>2. step \in [1 .. N -> [Splits -> Splits]]
  <2>1. ASSUME NEW n \in 1 .. N, NEW p \in Splits PROVE SplitOn(p, t[n]) \in Splits
    <3>1. p \in Split /\ Unbroken(p) /\ t[n] \in Sign
      BY <1>1 DEF Splits
    <3> QED BY <3>1, SplitStep DEF Splits
  <2> QED BY <2>1
<1>3. PICK g \in [0 .. N -> Splits] : Follows(g, N, Empty, step)
  <2> DEFINE V  == Splits
             v0 == Empty
  <2>1. N \in Nat /\ v0 \in V /\ step \in [1 .. N -> [V -> V]]
    BY <1>1, <1>2, EmptyIs
  <2> HIDE DEF step, N, V, v0, split
  <2>2. \E g \in [0 .. N -> V] : Follows(g, N, v0, step)
    BY <2>1, Recursion
  <2> QED BY <2>2 DEF V, v0
<1>4. \A k \in 1 .. N : g[k] = SplitOn(g[k - 1], t[k])
  <2> SUFFICES ASSUME NEW k \in 1 .. N PROVE g[k] = SplitOn(g[k - 1], t[k])
    OBVIOUS
  <2>1. k - 1 \in 0 .. N
    BY <1>1
  <2>2. g[k - 1] \in Splits
    BY <2>1, <1>3
  <2> QED BY <1>3, <2>2 DEF Follows
<1>5. ASSUME NEW f
      PROVE  [i \in 0 .. N |-> IF i = 0 THEN Empty ELSE SplitOn(f[i - 1], t[i])]
             = [i \in 0 .. N |->
                 IF i = 0 THEN [ended |-> <<>>, current |-> <<>>]
                 ELSE LET ended == f[i - 1].ended
                          line  == Append(f[i - 1].current, t[i])
                          n     == Len(line)
                      IN  IF n > 1 /\ Suffix(line, n - 1) = Break
                          THEN [ended |-> Append(ended, Before(line, n - 1)), current |-> <<>>]
                          ELSE [ended |-> ended, current |-> line]]
  BY DEF SplitOn, Empty
<1>6. g = [i \in 0 .. N |-> IF i = 0 THEN Empty ELSE SplitOn(g[i - 1], t[i])]
  <2>1. ASSUME NEW n \in 0 .. N
        PROVE  g[n] = IF n = 0 THEN Empty ELSE SplitOn(g[n - 1], t[n])
    <3>1. CASE n = 0
      BY <3>1, <1>3 DEF Follows
    <3>2. CASE n # 0
      <4>1. n \in 1 .. N
        BY <3>2, <1>1
      <4> QED BY <3>2, <4>1, <1>4
    <3> QED BY <3>1, <3>2
  <2>2. g = [n \in 0 .. N |-> g[n]]
    BY <1>3
  <2> QED BY <2>1, <2>2, Zenon
<1>7. g = [i \in 0 .. N |->
             IF i = 0 THEN [ended |-> <<>>, current |-> <<>>]
             ELSE LET ended == g[i - 1].ended
                      line  == Append(g[i - 1].current, t[i])
                      n     == Len(line)
                  IN  IF n > 1 /\ Suffix(line, n - 1) = Break
                      THEN [ended |-> Append(ended, Before(line, n - 1)), current |-> <<>>]
                      ELSE [ended |-> ended, current |-> line]]
  BY <1>5, <1>6, Zenon
<1>8. split = [i \in 0 .. N |->
                 IF i = 0 THEN [ended |-> <<>>, current |-> <<>>]
                 ELSE LET ended == split[i - 1].ended
                          line  == Append(split[i - 1].current, t[i])
                          n     == Len(line)
                      IN  IF n > 1 /\ Suffix(line, n - 1) = Break
                          THEN [ended |-> Append(ended, Before(line, n - 1)), current |-> <<>>]
                          ELSE [ended |-> ended, current |-> line]]
  BY <1>7, Zenon
<1>9. Paragraphs(t) = split[N]
  BY DEF Paragraphs
<1> HIDE DEF split
<1>10. split = [i \in 0 .. N |-> IF i = 0 THEN Empty ELSE SplitOn(split[i - 1], t[i])]
  BY <1>5, <1>8, Zenon
<1>11. SplitUpto(t, split)
  <2>1. ASSUME NEW n \in 0 .. N
        PROVE  split[n] = IF n = 0 THEN Empty ELSE SplitOn(split[n - 1], t[n])
    BY <1>10
  <2>2. 0 \in 0 .. N /\ \A n \in 1 .. N : n \in 0 .. N /\ n # 0
    BY <1>1
  <2> QED BY <2>1, <2>2 DEF SplitUpto
<1> QED BY <1>9, <1>11

\* The paragraphs of a text: none has an empty line inside, and they are the text.
LEMMA ParagraphsAre ==
  ASSUME NEW t \in Seq(Sign)
  PROVE  Paragraphs(t) \in Split /\ Unbroken(Paragraphs(t)) /\ Joined(Paragraphs(t)) = t
<1> DEFINE N == Len(t)
<1>1. N \in Nat /\ \A n \in 1 .. N : t[n] \in Sign
  OBVIOUS
<1>2. PICK split : SplitUpto(t, split) /\ Paragraphs(t) = split[N]
  BY SplitExists
<1> DEFINE S == {n \in Nat : n <= N => split[n] \in Splits /\ Joined(split[n]) = SubSeq(t, 1, n)}
<1>3. 0 \in S
  <2>1. SubSeq(t, 1, 0) = <<>>
    BY SubSeqEmpty
  <2>2. split[0] = Empty
    BY <1>2 DEF SplitUpto
  <2> QED BY <2>1, <2>2, EmptyIs
<1>4. ASSUME NEW n \in Nat, n \in S PROVE n + 1 \in S
  <2> SUFFICES ASSUME n + 1 <= N
               PROVE  split[n + 1] \in Splits /\ Joined(split[n + 1]) = SubSeq(t, 1, n + 1)
    OBVIOUS
  <2> DEFINE p == split[n]
             x == t[n + 1]
  <2>1. n + 1 \in 1 .. N /\ (n + 1) - 1 = n /\ n \in 0 .. Len(t) - 1
    BY <1>1
  <2>2. p \in Splits /\ Joined(p) = SubSeq(t, 1, n)
    BY <1>1, <1>4
  <2>3. split[n + 1] = SplitOn(p, x) /\ x \in Sign
    BY <1>1, <1>2, <2>1 DEF SplitUpto
  <2>4. SubSeq(t, 1, n + 1) = Append(SubSeq(t, 1, n), t[n + 1])
    BY <2>1, TakenOne
  <2> HIDE DEF p
  <2>5. p \in Split /\ Unbroken(p)
    BY <2>2 DEF Splits
  <2>6. SplitOn(p, x) \in Splits /\ Joined(SplitOn(p, x)) = Append(Joined(p), x)
    <3> HIDE DEF x
    <3> QED BY <2>3, <2>5, SplitStep DEF Splits
  <2> QED BY <2>2, <2>3, <2>4, <2>6
<1>5. N \in S
  <2> HIDE DEF S
  <2>1. Nat \subseteq S
    BY <1>3, <1>4, NatSets
  <2> QED BY <1>1, <2>1
<1>6. split[N] \in Splits /\ Joined(split[N]) = SubSeq(t, 1, N)
  BY <1>1, <1>5
<1>7. SubSeq(t, 1, N) = t
  OBVIOUS
<1> QED BY <1>2, <1>6, <1>7 DEF Splits

-----------------------------------------------------------------------------
\* The paragraphs that have ended, with their citations.

OneCited(p, begun) == Cite(Unmarked(p), Extend(begun, Ids(p))) \o Break

CitedParts(e, begun) == [m \in DOMAIN e |-> OneCited(e[m], IF m = 1 THEN begun ELSE <<>>)]

\* They are each one's, joined.
LEMMA CitedPartsFlat ==
  ASSUME NEW e, NEW begun
  PROVE  CitedParagraphs(e, begun) = FlattenSeq(CitedParts(e, begun))
BY DEF CitedParagraphs, CitedParts, OneCited

\* Two texts that end with a blank, joined, do.
LEMMA EndedTwo ==
  ASSUME NEW x \in Seq(Sign), NEW y \in Seq(Sign), Ended(x), Ended(y)
  PROVE  Ended(x \o y) /\ x \o y \in Seq(Sign)
<1>1. x \o y \in Seq(Sign)
  OBVIOUS
<1>2. CASE y = <<>>
  <2>1. x \o <<>> = x
    OBVIOUS
  <2> QED BY <1>1, <1>2, <2>1
<1>3. CASE y # <<>>
  <2>1. PICK e \in Seq(Sign), b \in Blank : y = e \o <<b>>
    BY <1>3 DEF Ended
  <2> DEFINE one == <<b>>
             z == x \o e
  <2>2. one \in Seq(Sign) /\ z \in Seq(Sign)
    <3>1. b \in Sign
      BY Signs DEF Blank
    <3> QED BY <3>1, Single, Joining
  <2>3. Three(x, e, one)
    <3> HIDE DEF one, z
    <3> QED BY <2>2, ThreeJoin
  <2>4. x \o y = z \o one
    <3> HIDE DEF one
    <3>1. y = e \o one
      BY <2>1 DEF one
    <3> QED BY <2>3, <3>1 DEF Three
  <2> HIDE DEF z
  <2>5. x \o y = z \o <<b>>
    BY <2>4
  <2> QED BY <1>1, <2>2, <2>5 DEF Ended
<1> QED BY <1>2, <1>3

\* One of them ends with a blank.
LEMMA OneCitedIs ==
  ASSUME NEW p \in Seq(Sign), NEW begun \in Seq(Seq(Sign))
  PROVE  /\ OneCited(p, begun) \in Seq(Sign) /\ Ended(OneCited(p, begun))
         /\ Extend(begun, Ids(p)) \in Seq(Seq(Sign)) /\ Unmarked(p) \in Seq(Sign)
<1>1. Unmarked(p) \in Seq(Sign) /\ Ids(p) \in Seq(Seq(Sign))
  BY NoSource, TextsAre
<1>2. Extend(begun, Ids(p)) \in Seq(Seq(Sign))
  BY <1>1, ExtendAre
<1> DEFINE c == Cite(Unmarked(p), Extend(begun, Ids(p)))
<1>3. c \in Seq(Sign)
  BY <1>1, <1>2, CiteIs
<1> HIDE DEF c
<1>4. Break \in Seq(Blank) /\ Break # <<>>
  <2> DEFINE x == "newline"
  <2>1. x \in Blank
    BY DEF Blank
  <2>2. Break = <<x, x>>
    BY DEF Break
  <2> HIDE DEF x
  <2>3. <<x, x>> \in Seq(Blank) /\ <<x, x>> # <<>>
    BY <2>1
  <2> QED BY <2>2, <2>3
<1>5. Ended(c \o Break) /\ c \o Break \in Seq(Sign)
  BY <1>3, <1>4, BlanksEnd
<1> QED BY <1>1, <1>2, <1>5 DEF OneCited, c

\* All of them are texts.
LEMMA CitedPartsAre ==
  ASSUME NEW e \in Seq(Seq(Sign)), NEW begun \in Seq(Seq(Sign))
  PROVE  /\ CitedParts(e, begun) \in Seq(Seq(Sign)) /\ Len(CitedParts(e, begun)) = Len(e)
         /\ \A m \in 1 .. Len(e) : CitedParts(e, begun)[m] = OneCited(e[m], IF m = 1 THEN begun ELSE <<>>)
         /\ CitedParagraphs(e, begun) \in Seq(Sign)
<1> DEFINE f == CitedParts(e, begun)
           n == Len(e)
<1>1. DOMAIN e = 1 .. n /\ n \in Nat /\ \A m \in 1 .. n : e[m] \in Seq(Sign)
  OBVIOUS
<1>2. ASSUME NEW m \in 1 .. n PROVE OneCited(e[m], IF m = 1 THEN begun ELSE <<>>) \in Seq(Sign)
  <2>1. e[m] \in Seq(Sign)
    BY <1>1
  <2>2. (IF m = 1 THEN begun ELSE <<>>) \in Seq(Seq(Sign))
    BY NoSource
  <2> QED BY <2>1, <2>2, OneCitedIs
<1>3. /\ f \in [1 .. n -> Seq(Sign)]
      /\ \A m \in 1 .. n : f[m] = OneCited(e[m], IF m = 1 THEN begun ELSE <<>>)
  BY <1>1, <1>2 DEF CitedParts
<1> HIDE DEF f, n
<1>4. f \in Seq(Seq(Sign))
  BY <1>1, <1>3, FromTo
<1>5. Len(f) = n
  BY <1>1, <1>3, <1>4
<1>6. FlattenSeq(f) \in Seq(Sign)
  BY <1>4, FlattenPlaces
<1> QED BY <1>3, <1>4, <1>5, <1>6, CitedPartsFlat DEF f, n

\* More of them follow, when the first has its beginning's citations.
LEMMA CitedJoin ==
  ASSUME NEW a \in Seq(Seq(Sign)), NEW b \in Seq(Seq(Sign)), NEW begun \in Seq(Seq(Sign)),
         a # <<>> \/ begun = <<>>
  PROVE  CitedParagraphs(a \o b, begun) = CitedParagraphs(a, begun) \o CitedParagraphs(b, <<>>)
<1> DEFINE u == a \o b
           f == CitedParts(u, begun)
           g == CitedParts(a, begun)
           h == CitedParts(b, <<>>)
           At(m) == IF m = 1 THEN begun ELSE <<>>
<1>1. /\ u \in Seq(Seq(Sign)) /\ Len(u) = Len(a) + Len(b)
      /\ Len(a) \in Nat /\ Len(b) \in Nat
      /\ \A i \in 1 .. Len(a) : u[i] = a[i]
      /\ \A i \in 1 .. Len(b) : u[Len(a) + i] = b[i]
  BY Joining
<1> HIDE DEF u
<1>2. f \in Seq(Seq(Sign)) /\ Len(f) = Len(u) /\ \A m \in 1 .. Len(u) : f[m] = OneCited(u[m], At(m))
  <2>1. u \in Seq(Seq(Sign))
    BY <1>1
  <2> QED BY <2>1, CitedPartsAre
<1>3. g \in Seq(Seq(Sign)) /\ Len(g) = Len(a) /\ \A m \in 1 .. Len(a) : g[m] = OneCited(a[m], At(m))
  BY CitedPartsAre
<1>4. h \in Seq(Seq(Sign)) /\ Len(h) = Len(b) /\ \A m \in 1 .. Len(b) : h[m] = OneCited(b[m], <<>>)
  <2>1. /\ h \in Seq(Seq(Sign)) /\ Len(h) = Len(b)
        /\ \A m \in 1 .. Len(b) : h[m] = OneCited(b[m], IF m = 1 THEN <<>> ELSE <<>>)
    BY NoSource, CitedPartsAre
  <2> QED BY <2>1
<1>0. ASSUME NEW i \in 1 .. Len(b) PROVE At(Len(a) + i) = <<>>
  <2>1. CASE begun = <<>>
    BY <2>1
  <2>2. CASE a # <<>>
    <3>1. Len(a) # 0
      BY <2>2
    <3>2. Len(a) + i # 1
      BY <1>1, <3>1
    <3> QED BY <3>2
  <2> QED BY <2>1, <2>2
<1> HIDE DEF f, g, h, At
<1>5. \A i \in 1 .. Len(g) : f[i] = g[i]
  <2> SUFFICES ASSUME NEW i \in 1 .. Len(g) PROVE f[i] = g[i]
    OBVIOUS
  <2>1. i \in 1 .. Len(a) /\ i \in 1 .. Len(u)
    BY <1>1, <1>3
  <2>2. u[i] = a[i]
    BY <1>1, <2>1
  <2>3. f[i] = OneCited(u[i], At(i)) /\ g[i] = OneCited(a[i], At(i))
    BY <1>2, <1>3, <2>1
  <2> QED BY <2>2, <2>3
<1>6. \A i \in 1 .. Len(h) : f[Len(g) + i] = h[i]
  <2> SUFFICES ASSUME NEW i \in 1 .. Len(h) PROVE f[Len(g) + i] = h[i]
    OBVIOUS
  <2>1. i \in 1 .. Len(b) /\ Len(a) + i \in 1 .. Len(u) /\ Len(g) + i = Len(a) + i
    BY <1>1, <1>3, <1>4
  <2>2. u[Len(a) + i] = b[i]
    BY <1>1, <2>1
  <2>3. f[Len(a) + i] = OneCited(u[Len(a) + i], At(Len(a) + i)) /\ h[i] = OneCited(b[i], <<>>)
    BY <1>2, <1>4, <2>1
  <2> QED BY <1>0, <2>1, <2>2, <2>3
<1>7. Len(f) = Len(g) + Len(h)
  BY <1>1, <1>2, <1>3, <1>4
<1>8. FlattenSeq(f) = FlattenSeq(g) \o FlattenSeq(h)
  <2>1. f \in Seq(Seq(Sign)) /\ g \in Seq(Seq(Sign)) /\ h \in Seq(Seq(Sign))
    BY <1>2, <1>3, <1>4
  <2> QED BY <1>5, <1>6, <1>7, <2>1, FlattenParts
<1> QED BY <1>8, CitedPartsFlat DEF f, g, h, u

\* One of them, and none.
LEMMA CitedOne ==
  ASSUME NEW p \in Seq(Sign), NEW begun \in Seq(Seq(Sign))
  PROVE  CitedParagraphs(<<p>>, begun) = OneCited(p, begun) /\ CitedParagraphs(<<>>, begun) = <<>>
<1> DEFINE one == <<p>>
           f == CitedParts(one, begun)
           x == OneCited(p, begun)
<1>1. one \in Seq(Seq(Sign)) /\ Len(one) = 1 /\ one[1] = p /\ 1 \in 1 .. Len(one)
  OBVIOUS
<1>2. x \in Seq(Sign)
  BY OneCitedIs
<1> HIDE DEF one
<1>3. f \in Seq(Seq(Sign)) /\ Len(f) = 1 /\ f[1] = x
  <2>1. one \in Seq(Seq(Sign))
    BY <1>1
  <2>2. /\ f \in Seq(Seq(Sign)) /\ Len(f) = Len(one)
        /\ \A m \in 1 .. Len(one) : f[m] = OneCited(one[m], IF m = 1 THEN begun ELSE <<>>)
    BY <2>1, CitedPartsAre
  <2> QED BY <1>1, <2>2
<1> HIDE DEF f, x
<1>4. f = <<x>>
  BY <1>3
<1>5. FlattenSeq(<<x>>) = x
  BY <1>2, FlattenOne
<1>6. CitedParagraphs(<<>>, begun) = <<>>
  <2> DEFINE none == <<>>
  <2>1. none \in Seq(Seq(Sign)) /\ Len(none) = 0
    OBVIOUS
  <2> HIDE DEF none
  <2>2. CitedParts(none, begun) \in Seq(Seq(Sign)) /\ Len(CitedParts(none, begun)) = 0
    BY <2>1, CitedPartsAre
  <2>3. CitedParts(none, begun) = <<>>
    BY <2>2
  <2> QED BY <2>3, FlattenNone, CitedPartsFlat DEF none
<1> QED BY <1>4, <1>5, <1>6, CitedPartsFlat DEF f, x, one

\* What goes out for paragraphs that have ended ends with a blank.
LEMMA CitedEnded ==
  ASSUME NEW e \in Seq(Seq(Sign)), NEW begun \in Seq(Seq(Sign))
  PROVE  Ended(CitedParagraphs(e, begun)) /\ CitedParagraphs(e, begun) \in Seq(Sign)
<1>1. ASSUME NEW b \in Seq(Seq(Sign))
      PROVE  Ended(CitedParagraphs(b, <<>>)) /\ CitedParagraphs(b, <<>>) \in Seq(Sign)
  <2>1. CASE b = <<>>
    <3>1. <<>> \in Seq(Sign) /\ <<>> \in Seq(Seq(Sign))
      OBVIOUS
    <3>2. CitedParagraphs(<<>>, <<>>) = <<>>
      BY <3>1, CitedOne
    <3> QED BY <2>1, <3>1, <3>2 DEF Ended
  <2>2. CASE b # <<>>
    <3>1. PICK a \in Seq(Seq(Sign)) : b = a \o <<b[Len(b)]>> /\ b[Len(b)] \in Seq(Sign)
      BY <2>2, LastIs
    <3> DEFINE q == b[Len(b)]
               one == <<q>>
               none == <<>>
    <3>2. q \in Seq(Sign) /\ one \in Seq(Seq(Sign)) /\ b = a \o one /\ none \in Seq(Seq(Sign))
      BY SMTT(30), <3>1
    <3>3. CitedParagraphs(<<q>>, none) = OneCited(q, none)
      <4> HIDE DEF q, none
      <4> QED BY <3>2, CitedOne
    <3>4. OneCited(q, none) \in Seq(Sign) /\ Ended(OneCited(q, none))
      <4> HIDE DEF q, none
      <4> QED BY <3>2, OneCitedIs
    <3>5. CitedParagraphs(a, none) \in Seq(Sign)
      BY <3>2, CitedPartsAre
    <3>6. CitedParagraphs(a \o one, none) = CitedParagraphs(a, none) \o CitedParagraphs(one, <<>>)
      <4>1. none = <<>>
        OBVIOUS
      <4> HIDE DEF one, none
      <4> QED BY <3>2, <4>1, CitedJoin
    <3> DEFINE x == CitedParagraphs(a, none)
               y == OneCited(q, none)
    <3> HIDE DEF q
    <3>7. CitedParagraphs(b, <<>>) = x \o y
      BY <3>2, <3>3, <3>6
    <3>8. x \in Seq(Sign) /\ y \in Seq(Sign) /\ Ended(y) /\ y # <<>>
      <4>1. y # <<>>
        <5> DEFINE c == Cite(Unmarked(q), Extend(none, Ids(q)))
        <5>1. c \in Seq(Sign)
          <6>1. Extend(none, Ids(q)) \in Seq(Seq(Sign)) /\ Unmarked(q) \in Seq(Sign)
            <7> HIDE DEF none
            <7> QED BY <3>2, OneCitedIs
          <6> QED BY <6>1, CiteIs
        <5>2. y = c \o Break
          BY DEF OneCited
        <5> HIDE DEF c, y
        <5>3. Break \in Seq(Sign) /\ Len(Break) = 2
          BY BreakIs
        <5>4. Len(c \o Break) = Len(c) + Len(Break)
          BY <5>1, <5>3, Joining
        <5>5. Len(c) \in Nat
          BY <5>1
        <5>6. Len(y) # 0
          BY <5>2, <5>3, <5>4, <5>5
        <5> QED BY <5>6
      <4> QED BY <3>4, <3>5, <4>1
    <3> HIDE DEF x, y
    <3>9. PICK z \in Seq(Sign), bl \in Blank : y = z \o <<bl>>
      BY <3>8 DEF Ended
    <3>10. Ended(x \o y) /\ x \o y \in Seq(Sign)
      <4> DEFINE l == <<bl>>
                 w == x \o z
      <4>1. l \in Seq(Sign) /\ w \in Seq(Sign) /\ x \o y \in Seq(Sign)
        <5>1. bl \in Sign
          BY Signs DEF Blank
        <5>2. l \in Seq(Sign)
          BY <5>1, Single
        <5>3. w \in Seq(Sign)
          BY <3>8, Joining
        <5>4. x \o y \in Seq(Sign)
          BY <3>8, Joining
        <5> QED BY <5>2, <5>3, <5>4
      <4>2. Three(x, z, l)
        <5> HIDE DEF l, w
        <5> QED BY <3>8, <4>1, ThreeJoin
      <4>3. x \o y = w \o <<bl>>
        <5>1. y = z \o l
          BY <3>9
        <5> HIDE DEF l
        <5>2. x \o y = w \o l
          BY <4>2, <5>1 DEF Three
        <5> QED BY <5>2 DEF l
      <4> HIDE DEF w
      <4> QED BY <4>1, <4>3 DEF Ended
    <3> QED BY <3>7, <3>10
  <2> QED BY <2>1, <2>2
<1>2. CASE e = <<>>
  <2>1. <<>> \in Seq(Sign)
    OBVIOUS
  <2>2. CitedParagraphs(<<>>, begun) = <<>>
    BY <2>1, CitedOne
  <2> QED BY <1>2, <2>1, <2>2 DEF Ended
<1>3. CASE e # <<>>
  <2> DEFINE p == e[1]
             one == <<p>>
             rest == Suffix(e, 2)
  <2>1. e = one \o rest /\ p \in Seq(Sign) /\ rest \in Seq(Seq(Sign))
    BY <1>3, FirstIs
  <2>2. one \in Seq(Seq(Sign)) /\ one # <<>>
    BY <2>1, Single
  <2>3. CitedParagraphs(one, begun) = OneCited(p, begun)
    <3> HIDE DEF p
    <3> QED BY <2>1, CitedOne
  <2> HIDE DEF p, one, rest
  <2>4. CitedParagraphs(one \o rest, begun) = CitedParagraphs(one, begun) \o CitedParagraphs(rest, <<>>)
    BY <2>1, <2>2, CitedJoin
  <2> DEFINE x == OneCited(p, begun)
             y == CitedParagraphs(rest, <<>>)
  <2>5. x \in Seq(Sign) /\ Ended(x) /\ y \in Seq(Sign) /\ Ended(y)
    BY <1>1, <2>1, OneCitedIs
  <2>6. CitedParagraphs(e, begun) = x \o y
    BY <2>1, <2>3, <2>4
  <2> HIDE DEF x, y
  <2> QED BY <2>5, <2>6, EndedTwo
<1> QED BY <1>2, <1>3

-----------------------------------------------------------------------------
\* The last symbol that is out, and what is held.

\* A text that is not empty has a first symbol and a last.
LEMMA NotEmpty ==
  ASSUME NEW S, NEW s \in Seq(S), s # <<>>
  PROVE  Len(s) \in Nat /\ Len(s) # 0 /\ Len(s) \in 1 .. Len(s) /\ 1 \in 1 .. Len(s)
<1>1. Len(s) \in Nat /\ Len(s) # 0
  OBVIOUS
<1> QED BY <1>1

\* One symbol and nothing after it.
LEMMA AndNothing == \A x : <<x>> \o <<>> = <<x>>
OBVIOUS

\* Texts of one symbol and of two.
LEMMA OfOne ==
  ASSUME NEW S, NEW s \in Seq(S), Len(s) = 1
  PROVE  s = <<s[1]>>
OBVIOUS

\* A text of two symbols is these.
LEMMA OfTwo ==
  ASSUME NEW S, NEW s \in Seq(S), Len(s) = 2
  PROVE  s = <<s[1], s[2]>>
OBVIOUS

\* One symbol and a text after it.
LEMMA OneAndRest ==
  ASSUME NEW S, NEW x \in S, NEW c \in Seq(S)
  PROVE  /\ <<x>> \o c \in Seq(S) /\ <<x>> \o c # <<>>
         /\ Len(<<x>> \o c) = 1 + Len(c) /\ Len(c) \in Nat
         /\ (<<x>> \o c)[1] = x
         /\ \A i \in 1 .. Len(c) : (<<x>> \o c)[1 + i] = c[i]
         /\ Suffix(<<x>> \o c, 2) = c
<1> DEFINE o == <<x>>
           t == o \o c
<1>1. o \in Seq(S) /\ Len(o) = 1 /\ o[1] = x
  OBVIOUS
<1> HIDE DEF o
<1>2. /\ t \in Seq(S) /\ Len(t) = Len(o) + Len(c) /\ Len(c) \in Nat
      /\ \A i \in 1 .. Len(o) : t[i] = o[i]
      /\ \A i \in 1 .. Len(c) : t[Len(o) + i] = c[i]
  <2>1. o \in Seq(S)
    BY <1>1
  <2>2. /\ o \o c \in Seq(S) /\ Len(o \o c) = Len(o) + Len(c)
        /\ Len(o) \in Nat /\ Len(c) \in Nat
        /\ \A i \in 1 .. Len(o) : (o \o c)[i] = o[i]
        /\ \A i \in 1 .. Len(c) : (o \o c)[Len(o) + i] = c[i]
    BY <2>1, Joining
  <2> QED BY <2>2
<1> HIDE DEF t
<1>3. 1 \in 1 .. Len(o) /\ 2 \in 1 .. Len(t) + 1
  BY <1>1, <1>2
<1>4. t[1] = x /\ Len(t) = 1 + Len(c) /\ \A i \in 1 .. Len(c) : t[1 + i] = c[i]
  BY <1>1, <1>2, <1>3
<1>5. t # <<>>
  BY <1>2, <1>4
<1>6. /\ Suffix(t, 2) \in Seq(S) /\ Len(Suffix(t, 2)) = Len(t) + 1 - 2
      /\ \A i \in 1 .. Len(t) + 1 - 2 : Suffix(t, 2)[i] = t[2 - 1 + i]
  BY ZenonT(40), <1>2, <1>3, CutAt
<1>7. Suffix(t, 2) = c
  <2> DEFINE v == Suffix(t, 2)
  <2>1. v \in Seq(S) /\ Len(v) = Len(c)
    BY <1>2, <1>4, <1>6
  <2>2. ASSUME NEW i \in 1 .. Len(v)
        PROVE  v[i] = c[i]
    <3>1. i \in 1 .. Len(t) + 1 - 2 /\ i \in 1 .. Len(c) /\ 2 - 1 + i = 1 + i
      BY <1>2, <1>4, <2>1
    <3> QED BY <1>4, <1>6, <3>1
  <2> HIDE DEF v
  <2>3. v = c
    BY <2>1, <2>2, SeqEqual
  <2> QED BY <2>3 DEF v
<1> QED BY <1>2, <1>4, <1>5, <1>7 DEF t, o

\* What begins with the last symbol of a text is that symbol and the rest.
LEMMA LastAndRest ==
  ASSUME NEW w \in Seq(Sign), w # <<>>, NEW h \in Seq(Sign)
  PROVE  /\ Len(w) \in 1 .. Len(w) /\ w[Len(w)] \in Sign
         /\ Suffix(w \o h, Len(w)) = <<w[Len(w)]>> \o h
<1>1. Len(w) \in 1 .. Len(w) /\ w[Len(w)] \in Sign
  BY NotEmpty
<1>2. Suffix(w \o h, Len(w)) = Suffix(w, Len(w)) \o h
  BY <1>1, SuffixEarly
<1>3. Suffix(w, Len(w)) = <<w[Len(w)]>>
  <2> DEFINE v == Suffix(w, Len(w))
  <2>1. Len(w) \in Nat /\ Len(w) \in 1 .. Len(w) + 1
    BY <1>1
  <2>2. /\ v \in Seq(Sign) /\ Len(v) = Len(w) + 1 - Len(w)
        /\ \A i \in 1 .. Len(w) + 1 - Len(w) : v[i] = w[Len(w) - 1 + i]
    BY ZenonT(40), <2>1, CutAt
  <2> HIDE DEF v
  <2>3. Len(v) = 1 /\ v[1] = w[Len(w) - 1 + 1] /\ Len(w) - 1 + 1 = Len(w)
    BY <2>1, <2>2
  <2>4. v = <<v[1]>>
    BY <2>2, <2>3, OfOne
  <2> QED BY <2>3, <2>4 DEF v
<1> QED BY <1>1, <1>2, <1>3

\* What is cited for is held.
LEMMA CitingIn ==
  ASSUME NEW c \in Seq(Sign), Citing(c) \/ Citing(Chomped(c))
  PROVE  c \in CiteMore
<1>1. MayCite(c)
  BY MayAre
<1> QED BY <1>1 DEF CiteMore

\* And what is held is cited for, chomped or not.
LEMMA CitingOf ==
  ASSUME NEW c \in CiteMore
  PROVE  Citing(c) \/ Citing(Chomped(c))
<1>1. MayCite(c)
  BY DEF CiteMore
<1> QED BY <1>1, MayAre

\* A single blank is cited for.
LEMMA BlankIsCiting ==
  ASSUME NEW b, b \in Blank
  PROVE  <<b>> \in CiteMore
<1>1. b \in Sign
  BY Signs DEF Blank
<1>2. <<b>> \in Seq(Sign)
  BY <1>1, Single
<1>3. Citing(<<b>>)
  BY DEF Citing, Blank
<1> QED BY <1>2, <1>3, CitingIn

\* What begins with a newline and is cited for is one newline.
LEMMA CitingLine ==
  ASSUME NEW c, Citing(c), c[1] = "newline"
  PROVE  c = <<"newline">>
<1>1. ~PartMarker(c)
  BY DEF PartMarker
<1>2. c # <<" ">>
  <2>1. <<" ">>[1] = " "
    OBVIOUS
  <2> QED BY <2>1
<1> QED BY <1>1, <1>2 DEF Citing

\* What is held from a newline on is one newline or two.
LEMMA LinesHeld ==
  ASSUME NEW h \in CiteMore, h[1] = "newline"
  PROVE  h \in {<<"newline">>, Break}
<1>1. h \in Seq(Sign) /\ h # <<>>
  BY CiteMoreIs
<1>2. Citing(h) \/ Citing(Chomped(h))
  BY CitingOf
<1>3. CASE Citing(h)
  BY <1>3, CitingLine
<1>4. CASE Citing(Chomped(h)) /\ ~Citing(h)
  <2> DEFINE c == Chomped(h)
  <2>1. c \in Seq(Sign) /\ (c = h \/ (Len(c) = Len(h) - 1 /\ h[Len(h)] = "newline"))
        /\ Len(h) \in Nat /\ Len(c) \in Nat
    BY <1>1, ChompedIs
  <2>2. c # h
    BY <1>4
  <2>3. c # <<>>
    BY <1>4, <2>1, CitingFirst
  <2>4. c[1] = h[1]
    BY <1>1, <2>3, ChompedFirst
  <2>5. c = <<"newline">>
    BY <1>4, <2>4, CitingLine
  <2>6. Len(c) = 1
    BY <2>5
  <2> HIDE DEF c
  <2>7. Len(h) = 2 /\ h[2] = "newline"
    BY <2>1, <2>2, <2>6
  <2>8. h = <<h[1], h[2]>>
    BY <1>1, <2>7
  <2> QED BY <2>7, <2>8 DEF Break
<1> QED BY <1>2, <1>3, <1>4

\* After a newline something is held; if it is a newline, there are two.
LEMMA LinesAfter ==
  ASSUME NEW w \in Seq(Sign), w # <<>>, w[Len(w)] = "newline",
         NEW h \in Seq(Sign), Holds(CiteMore, w, h)
  PROVE  h # <<>> /\ (h[1] = "newline" => h = Break)
<1>1. Len(w) \in 1 .. Len(w) /\ Suffix(w \o h, Len(w)) = <<"newline">> \o h
  BY LastAndRest
<1>2. <<"newline">> \o h \notin CiteMore
  BY <1>1 DEF Holds
<1>3. <<"newline">> \in CiteMore
  BY BlankIsCiting DEF Blank
<1>4. h # <<>>
  <2>1. ASSUME h = <<>>
        PROVE  FALSE
    <3>1. <<"newline">> \o <<>> = <<"newline">>
      OBVIOUS
    <3> QED BY <1>2, <1>3, <2>1, <3>1
  <2> QED BY <2>1
<1>5. ASSUME h[1] = "newline"
      PROVE  h = Break
  <2>1. h \in CiteMore
    BY <1>4 DEF Holds
  <2>2. h \in {<<"newline">>, Break}
    BY <2>1, <1>5, LinesHeld
  <2>3. Break \in CiteMore
    <3>1. Break \in Seq(Sign)
      BY BreakIs
    <3>2. Chomped(Break) = <<"newline">>
      <4>1. Break # <<>> /\ Len(Break) = 2 /\ Break[2] = "newline" /\ Break[1] = "newline"
        BY BreakIs
      <4>2. Chomped(Break) = Before(Break, 2)
        BY <4>1 DEF Chomped
      <4>3. 2 \in 1 .. Len(Break) + 1 /\ 1 \in 1 .. 2 - 1
        BY <4>1
      <4>4. /\ Before(Break, 2) \in Seq(Sign) /\ Len(Before(Break, 2)) = 2 - 1
            /\ \A i \in 1 .. 2 - 1 : Before(Break, 2)[i] = Break[i]
        BY ZenonT(40), <3>1, <4>3, CutAt
      <4>5. Len(Before(Break, 2)) = 1 /\ Before(Break, 2)[1] = "newline"
        BY <4>1, <4>3, <4>4
      <4>6. Before(Break, 2) = <<Before(Break, 2)[1]>>
        BY <4>4, <4>5, OfOne
      <4> QED BY <4>2, <4>5, <4>6
    <3>3. Citing(<<"newline">>)
      BY DEF Citing
    <3> QED BY <3>1, <3>2, <3>3, CitingIn
  <2>4. <<"newline">> \o <<"newline">> = Break
    <3> DEFINE o == <<"newline">>
               t == o \o o
    <3>1. "newline" \in Sign
      BY Signs
    <3>2. o \in Seq(Sign) /\ Len(o) = 1
      BY <3>1, Single
    <3>3. /\ t \in Seq(Sign) /\ Len(t) = 1 + Len(o) /\ t[1] = "newline"
          /\ \A i \in 1 .. Len(o) : t[1 + i] = o[i]
      BY <3>1, <3>2, OneAndRest
    <3>4. o[1] = "newline" /\ 1 \in 1 .. Len(o)
      BY <3>2
    <3> HIDE DEF o, t
    <3>5. Len(t) = 2 /\ t[2] = "newline"
      BY <3>2, <3>3, <3>4
    <3>6. t = <<t[1], t[2]>>
      BY <3>3, <3>5, OfTwo
    <3>7. t = Break
      BY <3>3, <3>5, <3>6 DEF Break
    <3> QED BY <3>7 DEF t, o
  <2> QED BY <1>2, <2>2, <2>3, <2>4
<1> QED BY <1>4, <1>5

\* A space that is out stays: no marker follows it.
LEMMA SpacesStay ==
  ASSUME NEW w \in Seq(Sign), NEW h \in Seq(Sign), Holds(CiteMore, w, h),
         NEW s \in Seq(Sign), Along(h, s)
  PROVE  SpaceStays(w, s)
<1>0. SUFFICES ASSUME w # <<>>, w[Len(w)] = " ", InMarker(s, 1)
               PROVE  FALSE
  BY DEF SpaceStays
<1>1. Len(w) \in 1 .. Len(w) /\ Suffix(w \o h, Len(w)) = <<" ">> \o h
  <2>1. w # <<>>
    BY <1>0
  <2>2. Len(w) \in 1 .. Len(w) /\ Suffix(w \o h, Len(w)) = <<w[Len(w)]>> \o h
    BY <2>1, LastAndRest
  <2> QED BY <1>0, <2>2
<1> DEFINE b == <<" ">> \o h
<1>2. b \notin CiteMore
  BY <1>1 DEF Holds
<1>3. h # <<>>
  <2>1. <<" ">> \in CiteMore
    BY BlankIsCiting DEF Blank
  <2>2. ASSUME h = <<>>
        PROVE  FALSE
    <3>1. <<" ">> \o <<>> = <<" ">>
      BY AndNothing
    <3> QED BY <1>2, <2>1, <2>2, <3>1 DEF b
  <2> QED BY <2>2
<1> HIDE DEF b
<1>4. h[1] = "["
  <2>1. PICK j : j \in MarkerAt(s, 1)
    <3>1. \E i \in 1 .. 1 : \E j \in MarkerAt(s, i) : 1 <= j
      BY <1>0 DEF InMarker
    <3>2. \A i \in 1 .. 1 : i = 1
      OBVIOUS
    <3> QED BY <3>1, <3>2
  <2>2. s[1] = "[" /\ 1 \in 1 .. Len(s) /\ 1 <= Len(h)
    <3>1. j \in 1 + 2 .. Len(s) /\ s[1] = "["
      BY <2>1 DEF MarkerAt
    <3>2. Len(s) \in Nat /\ Len(h) \in Nat /\ 1 \in 1 .. Len(h)
      <4>1. Len(h) \in Nat /\ Len(h) # 0 /\ Len(h) \in 1 .. Len(h) /\ 1 \in 1 .. Len(h)
        BY <1>3, NotEmpty
      <4> QED BY <4>1
    <3>3. 1 \in 1 .. Len(s) /\ 1 <= Len(h)
      BY <3>1, <3>2
    <3> QED BY <3>1, <3>3
  <2> QED BY <2>2 DEF Along
<1>5. h \in CiteMore
  BY <1>3 DEF Holds
<1>6. Citing(h) \/ Citing(Chomped(h))
  BY <1>5, CitingOf
<1>7. \A c : Citing(c) /\ c[1] = "[" => PartMarker(c)
  <2> TAKE c
  <2> SUFFICES ASSUME Citing(c), c[1] = "["
               PROVE  PartMarker(c)
    OBVIOUS
  <2>1. <<" ">>[1] = " " /\ <<"newline">>[1] = "newline"
    OBVIOUS
  <2>2. c # <<" ">> /\ c # <<"newline">> /\ c[1] # " "
    BY <2>1
  <2> QED BY <2>2 DEF Citing
<1>8. " " \in Sign /\ <<" ">> \in Seq(Sign)
  <2>1. " " \in Sign
    BY Signs
  <2> QED BY <2>1, Single
<1>9. \A c \in Seq(Sign) : /\ <<" ">> \o c \in Seq(Sign) /\ (<<" ">> \o c)[1] = " "
                           /\ <<" ">> \o c # <<>> /\ Suffix(<<" ">> \o c, 2) = c
  <2> TAKE c \in Seq(Sign)
  <2>1. " " \in Sign
    BY <1>8
  <2>2. /\ <<" ">> \o c \in Seq(Sign) /\ <<" ">> \o c # <<>>
        /\ Len(<<" ">> \o c) = 1 + Len(c) /\ Len(c) \in Nat
        /\ (<<" ">> \o c)[1] = " "
        /\ \A i \in 1 .. Len(c) : (<<" ">> \o c)[1 + i] = c[i]
        /\ Suffix(<<" ">> \o c, 2) = c
    BY ZenonT(40), <2>1, OneAndRest
  <2> QED BY <2>2
<1>10. \A c \in Seq(Sign) : PartMarker(c) => Citing(<<" ">> \o c)
  BY <1>9 DEF Citing
<1>11. CASE Citing(h)
  <2>1. Citing(b)
    BY <1>4, <1>7, <1>10, <1>11 DEF b
  <2>2. b \in Seq(Sign)
    BY <1>9 DEF b
  <2> QED BY <1>2, <2>1, <2>2, CitingIn
<1>12. CASE Citing(Chomped(h))
  <2> DEFINE c == Chomped(h)
  <2>1. c \in Seq(Sign)
    BY ChompedIs
  <2>2. c # <<>>
    BY <1>12, <2>1, CitingFirst
  <2>3. c[1] = "["
    BY <1>4, <2>2, ChompedFirst
  <2>4. Citing(<<" ">> \o c)
    BY <1>7, <1>10, <1>12, <2>1, <2>3
  <2>5. Chomped(b) = <<" ">> \o c
    <3> DEFINE n == Len(h)
    <3>1. n \in Nat /\ n # 0 /\ n \in 1 .. n
      BY <1>3, NotEmpty
    <3>2. /\ b \in Seq(Sign) /\ b # <<>> /\ Len(b) = 1 + n
          /\ \A i \in 1 .. n : b[1 + i] = h[i]
      <4>1. " " \in Sign
        BY <1>8
      <4>2. /\ <<" ">> \o h \in Seq(Sign) /\ <<" ">> \o h # <<>>
            /\ Len(<<" ">> \o h) = 1 + Len(h) /\ Len(h) \in Nat
            /\ (<<" ">> \o h)[1] = " "
            /\ \A i \in 1 .. Len(h) : (<<" ">> \o h)[1 + i] = h[i]
            /\ Suffix(<<" ">> \o h, 2) = h
        BY ZenonT(40), <4>1, OneAndRest
      <4> QED BY <4>2 DEF b
    <3>3. b[Len(b)] = h[n]
      BY <3>1, <3>2
    <3>4. CASE h[n] = "newline"
      <4>1. c = Before(h, n) /\ Chomped(b) = Before(b, 1 + n)
        BY <1>3, <3>2, <3>3, <3>4 DEF Chomped
      <4>2. n \in 1 .. Len(h) + 1 /\ 1 + n \in 1 .. Len(b) + 1
        BY <3>1, <3>2
      <4> DEFINE f == Before(h, n)
                 g == Before(b, 1 + n)
                 e == <<" ">> \o f
      <4>3. /\ f \in Seq(Sign) /\ Len(f) = n - 1 /\ \A i \in 1 .. n - 1 : f[i] = h[i]
        BY <4>2, CutAt
      <4>4. /\ g \in Seq(Sign) /\ Len(g) = 1 + n - 1
            /\ \A i \in 1 .. 1 + n - 1 : g[i] = b[i]
        BY <3>2, <4>2, CutAt
      <4>5. /\ e \in Seq(Sign) /\ Len(e) = 1 + Len(f) /\ e[1] = " "
            /\ \A i \in 1 .. Len(f) : e[1 + i] = f[i]
        <5>1. " " \in Sign /\ f \in Seq(Sign)
          BY <1>8, <4>3
        <5> HIDE DEF f
        <5>2. /\ <<" ">> \o f \in Seq(Sign) /\ <<" ">> \o f # <<>>
              /\ Len(<<" ">> \o f) = 1 + Len(f) /\ Len(f) \in Nat
              /\ (<<" ">> \o f)[1] = " "
              /\ \A i \in 1 .. Len(f) : (<<" ">> \o f)[1 + i] = f[i]
              /\ Suffix(<<" ">> \o f, 2) = f
          BY ZenonT(40), <5>1, OneAndRest
        <5> QED BY <5>2 DEF e
      <4>6. b[1] = " "
        BY <1>9 DEF b
      <4> HIDE DEF n, f, g, e
      <4>7. Len(e) = Len(g)
        BY <3>1, <4>3, <4>4, <4>5
      <4>8. ASSUME NEW i \in 1 .. Len(e)
            PROVE  e[i] = g[i]
        <5>1. g[i] = b[i]
          <6>1. i \in 1 .. 1 + n - 1
            BY <4>4, <4>7
          <6> QED BY <4>4, <6>1
        <5>2. CASE i = 1
          BY <4>5, <4>6, <5>1, <5>2
        <5>3. CASE i # 1
          <6> DEFINE m == i - 1
          <6>1. m \in 1 .. Len(f) /\ m \in 1 .. n - 1 /\ m \in 1 .. n /\ 1 + m = i
            <7>1. Len(e) = 1 + Len(f) /\ Len(f) = n - 1 /\ n \in Nat
              BY <3>1, <4>3, <4>5
            <7>2. i \in Nat /\ 1 <= i /\ i <= n
              BY <7>1
            <7> QED BY <5>3, <7>1, <7>2
          <6> HIDE DEF m
          <6> QED BY <3>2, <4>3, <4>5, <5>1, <6>1
        <5> QED BY <5>2, <5>3
      <4>9. e = g
        BY <4>4, <4>5, <4>7, <4>8, SeqEqual
      <4> QED BY <4>1, <4>9 DEF e, f, g
    <3>5. CASE h[n] # "newline"
      BY <3>2, <3>3, <3>5 DEF Chomped, b
    <3> QED BY <3>4, <3>5
  <2>6. b \in Seq(Sign)
    BY <1>9 DEF b
  <2> HIDE DEF c
  <2> QED BY <1>2, <2>4, <2>5, <2>6, CitingIn
<1> QED BY <1>6, <1>11, <1>12

-----------------------------------------------------------------------------
\* Empty lines.

Lines(t) == \A i \in 1 .. Len(t) : t[i] = "newline"

\* The text ends with an empty line.
EndsBreak(t) == Len(t) > 1 /\ t[Len(t)] = "newline" /\ t[Len(t) - 1] = "newline"

\* Nothing but newlines follows where it has to.
LinesFollow(w, s) ==
  w # <<>> /\ s # <<>> /\ w[Len(w)] = "newline" /\ (s[1] = "newline" \/ EndsBreak(w))
    => Lines(s)

\* A text without an empty line inside is one paragraph.
LEMMA UnbrokenOne ==
  ASSUME NEW t \in Seq(Sign), NoBreak(t)
  PROVE  OneParagraph(t)
BY DEF NoBreak, OneParagraph

\* And so is one of newlines only.
LEMMA LinesOne ==
  ASSUME NEW t \in Seq(Sign), Lines(t)
  PROVE  OneParagraph(t)
<1> SUFFICES ASSUME NEW b \in 1 .. Len(t) - 1, NEW i \in b .. Len(t)
             PROVE  t[i] = "newline"
  BY DEF OneParagraph
<1>1. i \in 1 .. Len(t)
  OBVIOUS
<1> QED BY <1>1 DEF Lines

\* Two parts of one paragraph.
LEMMA OneJoin ==
  ASSUME NEW w \in Seq(Sign), NEW s \in Seq(Sign), OneParagraph(w), OneParagraph(s),
         LinesFollow(w, s)
  PROVE  OneParagraph(w \o s)
<1> DEFINE t == w \o s
           n == Len(w)
<1>1. /\ t \in Seq(Sign) /\ Len(t) = n + Len(s) /\ n \in Nat /\ Len(s) \in Nat
      /\ \A i \in 1 .. n : t[i] = w[i]
      /\ \A i \in 1 .. Len(s) : t[n + i] = s[i]
  <2>1. /\ w \o s \in Seq(Sign) /\ Len(w \o s) = Len(w) + Len(s)
        /\ Len(w) \in Nat /\ Len(s) \in Nat
        /\ \A i \in 1 .. Len(w) : (w \o s)[i] = w[i]
        /\ \A i \in 1 .. Len(s) : (w \o s)[Len(w) + i] = s[i]
    BY Joining
  <2> QED BY <2>1
<1> HIDE DEF t
<1>2. ASSUME NEW b \in 1 .. Len(t) - 1, t[b] = "newline", t[b + 1] = "newline",
             NEW i \in b .. Len(t)
      PROVE  t[i] = "newline"
  <2>1. b \in Nat /\ i \in Nat /\ 1 <= b /\ b < Len(t) /\ b <= i /\ i <= n + Len(s)
    BY <1>1
  <2>2. CASE b + 1 <= n
    <3>1. b \in 1 .. n - 1 /\ b \in 1 .. n /\ b + 1 \in 1 .. n
      BY <1>1, <2>1, <2>2
    <3>2. w[b] = "newline" /\ w[b + 1] = "newline"
      BY <1>1, <1>2, <3>1
    <3>3. \A m \in b .. n : w[m] = "newline"
      BY <3>1, <3>2 DEF OneParagraph
    <3>4. CASE i <= n
      <4>1. i \in b .. n /\ i \in 1 .. n
        BY <1>1, <2>1, <3>4
      <4> QED BY <1>1, <3>3, <4>1
    <3>5. CASE i > n
      <4>1. n \in b .. n /\ n - 1 \in b .. n /\ n > 1
        BY <1>1, <2>1, <2>2
      <4>2. EndsBreak(w) /\ w[n] = "newline"
        BY <3>3, <4>1 DEF EndsBreak
      <4> DEFINE m == i - n
      <4>3. m \in 1 .. Len(s) /\ n + m = i
        BY <1>1, <2>1, <3>5
      <4> HIDE DEF m
      <4>4. w # <<>> /\ s # <<>>
        <5>1. Len(w) # 0 /\ Len(s) # 0
          BY <1>1, <4>1, <4>3
        <5> QED BY <5>1
      <4>5. Lines(s)
        BY <4>2, <4>4 DEF LinesFollow
      <4>6. s[m] = "newline"
        BY <4>3, <4>5 DEF Lines
      <4> QED BY <1>1, <4>3, <4>6
    <3> QED BY <1>1, <2>1, <3>4, <3>5
  <2>3. CASE b = n
    <3>1. n \in 1 .. n /\ 1 \in 1 .. Len(s) /\ n + 1 = b + 1
      BY <1>1, <2>1, <2>3
    <3>2. w[n] = "newline" /\ s[1] = "newline"
      BY <1>1, <1>2, <2>3, <3>1
    <3>3. w # <<>> /\ s # <<>>
      <4>1. Len(w) # 0 /\ Len(s) # 0
        BY <1>1, <3>1
      <4> QED BY <4>1
    <3>4. Lines(s)
      BY <3>2, <3>3 DEF LinesFollow
    <3>5. CASE i = n
      BY <1>1, <3>1, <3>2, <3>5
    <3>6. CASE i > n
      <4> DEFINE m == i - n
      <4>1. m \in 1 .. Len(s) /\ n + m = i
        BY <1>1, <2>1, <3>6
      <4> HIDE DEF m
      <4>2. s[m] = "newline"
        BY <3>4, <4>1 DEF Lines
      <4> QED BY <1>1, <4>1, <4>2
    <3> QED BY <1>1, <2>1, <2>3, <3>5, <3>6
  <2>4. CASE b > n
    <3> DEFINE c == b - n
               m == i - n
    <3>1. c \in 1 .. Len(s) - 1 /\ c \in 1 .. Len(s) /\ c + 1 \in 1 .. Len(s)
          /\ n + c = b /\ n + (c + 1) = b + 1
      BY <1>1, <2>1, <2>4
    <3>2. m \in c .. Len(s) /\ m \in 1 .. Len(s) /\ n + m = i
      BY <1>1, <2>1, <2>4
    <3> HIDE DEF c, m
    <3>3. s[c] = "newline" /\ s[c + 1] = "newline"
      <4>1. t[n + c] = s[c] /\ t[n + (c + 1)] = s[c + 1]
        BY <1>1, <3>1
      <4> QED BY <1>2, <3>1, <4>1
    <3>4. s[m] = "newline"
      BY <3>1, <3>2, <3>3 DEF OneParagraph
    <3> QED BY <1>1, <3>2, <3>4
  <2> QED BY <1>1, <2>1, <2>2, <2>3, <2>4
<1> QED BY <1>2 DEF OneParagraph, t

\* What is held is two newlines, or has no empty line inside.
LEMMA HeldUnbroken ==
  ASSUME NEW h \in CiteMore
  PROVE  h = Break \/ NoBreak(h)
<1> SUFFICES ASSUME NEW b \in 1 .. Len(h) - 1, h[b] = "newline", h[b + 1] = "newline"
             PROVE  h = Break
  BY DEF NoBreak
<1>1. h \in Seq(Sign) /\ h # <<>> /\ Len(h) \in Nat
  <2>1. h \in Seq(Sign) /\ h # <<>>
    BY CiteMoreIs
  <2> QED BY <2>1
<1>2. b \in 1 .. Len(h) /\ b + 1 \in 1 .. Len(h) /\ b + 1 # 1
  BY <1>1
<1>3. ~Citing(h)
  BY <1>1, <1>2, CitingFirst
<1>4. Citing(Chomped(h))
  BY <1>3, CitingOf
<1> DEFINE c == Chomped(h)
<1>5. /\ c \in Seq(Sign) /\ Begins(c, h) /\ Len(c) \in Nat
      /\ (c = h \/ (Len(c) = Len(h) - 1 /\ h[Len(h)] = "newline"))
  BY <1>1, ChompedIs
<1>6. c # h
  BY <1>3, <1>4
<1> HIDE DEF c
<1>7. b \in 1 .. Len(c) /\ c[b] = h[b]
  <2>1. Len(c) = Len(h) - 1
    BY <1>5, <1>6
  <2>2. b \in 1 .. Len(c)
    BY <2>1
  <2> QED BY <1>5, <2>2 DEF Begins
<1>8. b = 1
  <2>1. \A i \in 1 .. Len(c) : c[i] # "]" /\ (i = 1 \/ c[i] # "newline")
    BY <1>4, <1>5, CitingFirst DEF c
  <2> QED BY <1>7, <2>1
<1>9. h \in {<<"newline">>, Break}
  BY <1>8, LinesHeld
<1>10. Len(h) > 1
  BY <1>1
<1>11. Len(<<"newline">>) = 1
  OBVIOUS
<1> QED BY <1>9, <1>10, <1>11

\* The paragraph that has begun, and what is held after it.
Begun(w, h) ==
  /\ w \in Seq(Sign) /\ h \in Seq(Sign) /\ Holds(CiteMore, w, h)
  /\ OneParagraph(w) /\ (EndsBreak(w) => h = Break)

\* What is held after a newline, when it has to be newlines.
LEMMA BegunLines ==
  ASSUME NEW w, NEW h, Begun(w, h), NEW s \in Seq(Sign), Along(h, s),
         w # <<>>, s # <<>>, w[Len(w)] = "newline", s[1] = "newline" \/ EndsBreak(w)
  PROVE  h = Break
<1>1. w \in Seq(Sign) /\ h \in Seq(Sign) /\ Holds(CiteMore, w, h)
  BY DEF Begun
<1>2. h # <<>> /\ (h[1] = "newline" => h = Break)
  BY <1>1, LinesAfter
<1>3. CASE EndsBreak(w)
  BY <1>3 DEF Begun
<1>4. CASE s[1] = "newline"
  <2>1. 1 \in 1 .. Len(s)
    BY NotEmpty
  <2>2. 1 \in 1 .. Len(h) /\ Len(h) \in Nat
    BY <1>1, <1>2, NotEmpty
  <2>3. 1 <= Len(h)
    BY <2>2
  <2>4. s[1] = h[1]
    BY <2>1, <2>3 DEF Along
  <2> QED BY <1>2, <1>4, <2>4
<1> QED BY <1>3, <1>4

\* The paragraph goes on, as one.
LEMMA BegunOn ==
  ASSUME NEW w, NEW h, Begun(w, h), NEW s \in Seq(Sign), Along(h, s),
         NoBreak(s) \/ s = Break
  PROVE  OneParagraph(w \o s)
<1>1. w \in Seq(Sign) /\ OneParagraph(w)
  BY DEF Begun
<1>2. Lines(Break)
  BY BreakIs DEF Lines
<1>3. OneParagraph(s)
  BY <1>2, UnbrokenOne, LinesOne
<1>4. LinesFollow(w, s)
  <2> SUFFICES ASSUME w # <<>>, s # <<>>, w[Len(w)] = "newline",
                      s[1] = "newline" \/ EndsBreak(w), NoBreak(s)
               PROVE  Lines(s)
    BY <1>2 DEF LinesFollow
  <2>1. h = Break
    BY BegunLines
  <2>2. Len(h) = 2 /\ h[1] = "newline" /\ h[2] = "newline"
    BY <2>1, BreakIs
  <2>3. \A i \in 1 .. Len(s) : i <= 2 => s[i] = "newline"
    <3>1. \A i \in 1 .. 2 : h[i] = "newline"
      BY <2>2
    <3>2. \A i \in 1 .. Len(s) : i <= 2 => s[i] = h[i]
      BY <2>2 DEF Along
    <3> QED BY <3>1, <3>2
  <2>4. Len(s) \in Nat
    OBVIOUS
  <2>5. ~(Len(s) > 1)
    <3> SUFFICES ASSUME Len(s) > 1 PROVE FALSE
      OBVIOUS
    <3>1. 1 \in 1 .. Len(s) /\ 2 \in 1 .. Len(s) /\ 1 \in 1 .. Len(s) - 1 /\ 1 + 1 = 2
      BY <2>4
    <3>2. s[1] = "newline" /\ s[2] = "newline"
      BY <2>3, <3>1
    <3> QED BY <3>1, <3>2 DEF NoBreak
  <2>6. \A i \in 1 .. Len(s) : i <= 2
    BY <2>4, <2>5
  <2> QED BY <2>3, <2>6 DEF Lines
<1> QED BY <1>1, <1>3, <1>4, OneJoin

-----------------------------------------------------------------------------
\* One piece more: the paragraphs that have been read.

\* What is held is held after the last paragraph too.
LEMMA HoldsAfter ==
  ASSUME NEW M, NEW a \in Seq(Sign), NEW c \in Seq(Sign), NEW h \in Seq(Sign),
         Holds(M, a \o c, h)
  PROVE  Holds(M, c, h)
<1>1. h = <<>> \/ h \in M
  BY DEF Holds
<1>2. ASSUME NEW j \in 1 .. Len(c)
      PROVE  Suffix(c \o h, j) \notin M
  <2> DEFINE n == Len(a)
             r == c \o h
             i == n + j
  <2>1. r \in Seq(Sign) /\ Len(r) = Len(c) + Len(h) /\ Len(c) \in Nat /\ Len(h) \in Nat
    <3>1. /\ c \o h \in Seq(Sign) /\ Len(c \o h) = Len(c) + Len(h)
          /\ Len(c) \in Nat /\ Len(h) \in Nat
      BY Joining
    <3> QED BY <3>1
  <2>2. n \in Nat /\ Len(a \o c) = n + Len(c)
    <3>1. Len(a \o c) = Len(a) + Len(c) /\ Len(a) \in Nat
      BY Joining
    <3> QED BY <3>1
  <2>3. (a \o c) \o h = a \o r
    BY ThreeJoin DEF Three
  <2> HIDE DEF n, r
  <2>4. i \in 1 .. Len(a \o c) /\ i \in 1 .. n + Len(r) /\ i > n /\ i - n = j
    BY <2>1, <2>2
  <2> HIDE DEF i
  <2>5. Suffix(a \o r, i) = Suffix(r, j)
    <3>1. i \in 1 .. Len(a) + Len(r) /\ i > Len(a) /\ i - Len(a) = j
      BY <2>4 DEF n
    <3>2. Suffix(a \o r, i) = Suffix(r, i - Len(a))
      BY <2>1, <3>1, SuffixLate
    <3> QED BY <3>1, <3>2
  <2>6. Suffix((a \o c) \o h, i) \notin M
    BY <2>4 DEF Holds
  <2> QED BY <2>3, <2>5, <2>6 DEF r
<1> QED BY <1>1, <1>2 DEF Holds

\* The first paragraph that ends.
LEMMA FirstEnded ==
  ASSUME NEW p \in Split, Unbroken(p), p.ended # <<>>
  PROVE  /\ p.ended[1] \in Seq(Sign) /\ NoBreak(p.ended[1])
         /\ Suffix(p.ended, 2) \in Seq(Seq(Sign))
         /\ p.ended = <<p.ended[1]>> \o Suffix(p.ended, 2)
         /\ EndedText(p.ended) = (p.ended[1] \o Break) \o EndedText(Suffix(p.ended, 2))
<1> DEFINE e == p.ended
           x == e[1]
           r == Suffix(e, 2)
<1>1. e \in Seq(Seq(Sign)) /\ e # <<>>
  BY DEF Split
<1> HIDE DEF e
<1>2. e = <<e[1]>> \o Suffix(e, 2) /\ e[1] \in Seq(Sign) /\ Suffix(e, 2) \in Seq(Seq(Sign))
  BY <1>1, FirstIs
<1>3. NoBreak(x)
  <2>1. 1 \in 1 .. Len(e)
    BY <1>1, NotEmpty
  <2> QED BY <2>1 DEF Unbroken, e
<1> DEFINE o == <<x>>
<1>4. x \in Seq(Sign) /\ r \in Seq(Seq(Sign)) /\ e = o \o r
  BY <1>2
<1>5. o \in Seq(Seq(Sign)) /\ EndedText(o) = x \o Break
  <2> HIDE DEF x
  <2> QED BY <1>4, Single, EndedTextOne
<1> HIDE DEF o, r, x
<1>6. EndedText(e) = EndedText(o) \o EndedText(r)
  BY <1>4, <1>5, EndedTextJoin
<1> QED BY <1>2, <1>3, <1>5, <1>6 DEF e, x, r

\* Where what is read begins, it goes the way of what was held.
LEMMA ReadAlong ==
  ASSUME NEW h \in Seq(Sign), NEW p \in Seq(Sign), NEW ready \in Seq(Sign), NEW rest \in Seq(Sign),
         h \o p = ready \o rest, NEW split, split = Paragraphs(ready)
  PROVE  /\ split \in Split /\ Unbroken(split) /\ Joined(split) = ready
         /\ split.ended = <<>> => split.current = ready /\ Along(h, ready) /\ NoBreak(ready)
         /\ split.ended # <<>> => Along(h, split.ended[1])
<1>1. split \in Split /\ Unbroken(split) /\ Joined(split) = ready
  BY ParagraphsAre
<1>2. split.current \in Seq(Sign) /\ split.ended \in Seq(Seq(Sign))
  BY <1>1 DEF Split
<1>3. ready = EndedText(split.ended) \o split.current
  BY <1>1, JoinedIs
<1>4. CASE split.ended = <<>>
  <2>1. EndedText(<<>>) = <<>>
    <3>1. <<>> \in Seq(Sign)
      OBVIOUS
    <3> QED BY <3>1, EndedTextOne
  <2>2. split.current = ready
    <3>1. <<>> \o split.current = split.current
      BY <1>2
    <3> QED BY <1>3, <1>4, <2>1, <3>1
  <2>3. Along(h, ready)
    <3>1. ready \o rest = h \o p
      OBVIOUS
    <3> QED BY <3>1, AlongBefore
  <2>4. NoBreak(ready)
    BY <1>1, <2>2 DEF Unbroken
  <2> QED BY <1>1, <1>4, <2>2, <2>3, <2>4
<1>5. CASE split.ended # <<>>
  <2> DEFINE x == split.ended[1]
             r == Suffix(split.ended, 2)
             a == EndedText(r)
  <2>1. x \in Seq(Sign) /\ r \in Seq(Seq(Sign)) /\ EndedText(split.ended) = (x \o Break) \o a
    BY <1>1, <1>5, FirstEnded
  <2> HIDE DEF x, r
  <2>2. a \in Seq(Sign)
    BY <2>1, EndedPartsAre
  <2> HIDE DEF a
  <2> DEFINE b == a \o split.current
             c == b \o rest
             d == Break \o c
  <2>3. b \in Seq(Sign) /\ c \in Seq(Sign) /\ d \in Seq(Sign) /\ Break \in Seq(Sign)
        /\ x \o Break \in Seq(Sign)
    <3>1. b \in Seq(Sign)
      BY <1>2, <2>2, Joining
    <3> HIDE DEF b
    <3>2. c \in Seq(Sign)
      BY <3>1, Joining
    <3> HIDE DEF c
    <3>3. Break \in Seq(Sign)
      BY BreakIs
    <3>4. d \in Seq(Sign)
      BY <3>2, <3>3, Joining
    <3>5. x \o Break \in Seq(Sign)
      BY <2>1, <3>3, Joining
    <3> QED BY <3>1, <3>2, <3>3, <3>4, <3>5
  <2>4. ((x \o Break) \o a) \o split.current = (x \o Break) \o b
    <3> DEFINE y == x \o Break
               u == split.current
    <3>1. y \in Seq(Sign) /\ a \in Seq(Sign) /\ u \in Seq(Sign)
      BY <1>2, <2>2, <2>3
    <3> HIDE DEF y, u, b
    <3>2. Three(y, a, u)
      BY <3>1, ThreeJoin
    <3> QED BY <3>2 DEF Three, y, u, b
  <2>5. ((x \o Break) \o b) \o rest = (x \o Break) \o c
    <3> DEFINE y == x \o Break
    <3>1. y \in Seq(Sign) /\ b \in Seq(Sign)
      BY <2>3
    <3> HIDE DEF y, b, c
    <3>2. Three(y, b, rest)
      BY <3>1, ThreeJoin
    <3> QED BY <3>2 DEF Three, y, c
  <2>6. (x \o Break) \o c = x \o d
    <3> DEFINE e == Break
    <3>1. x \in Seq(Sign) /\ e \in Seq(Sign) /\ c \in Seq(Sign)
      BY <2>1, <2>3
    <3> HIDE DEF c, d, e
    <3>2. Three(x, e, c)
      BY <3>1, ThreeJoin
    <3> QED BY <3>2 DEF Three, d, e
  <2> HIDE DEF b, c, d
  <2>7. x \o d = h \o p
    BY <1>3, <2>1, <2>4, <2>5, <2>6
  <2>8. Along(h, x)
    BY <2>1, <2>3, <2>7, AlongBefore
  <2> QED BY <1>1, <1>5, <2>8 DEF x
<1> QED BY <1>4, <1>5

\* The paragraph that has begun, one piece later.
LEMMA BegunStep ==
  ASSUME NEW w, NEW h, Begun(w, h), NEW ready \in Seq(Sign), NEW rest \in Seq(Sign),
         NEW p \in Seq(Sign), h \o p = ready \o rest, Holds(CiteMore, w \o ready, rest),
         NEW split, split = Paragraphs(ready)
  PROVE  /\ split.ended = <<>> => Begun(w \o split.current, rest)
         /\ split.ended # <<>> => OneParagraph(w \o split.ended[1]) /\ Begun(split.current, rest)
<1>1. w \in Seq(Sign) /\ h \in Seq(Sign) /\ Holds(CiteMore, w, h)
      /\ OneParagraph(w) /\ (EndsBreak(w) => h = Break)
  BY DEF Begun
<1>2. /\ split \in Split /\ Unbroken(split) /\ Joined(split) = ready
      /\ split.ended = <<>> => split.current = ready /\ Along(h, ready) /\ NoBreak(ready)
      /\ split.ended # <<>> => Along(h, split.ended[1])
  BY <1>1, ReadAlong
<1>3. split.current \in Seq(Sign) /\ split.ended \in Seq(Seq(Sign)) /\ NoBreak(split.current)
  BY <1>2 DEF Split, Unbroken
<1>4. CASE split.ended = <<>>
  <2> DEFINE v == w \o ready
  <2>1. v \in Seq(Sign) /\ Len(v) = Len(w) + Len(ready) /\ Len(w) \in Nat /\ Len(ready) \in Nat
        /\ (\A i \in 1 .. Len(w) : v[i] = w[i])
        /\ (\A i \in 1 .. Len(ready) : v[Len(w) + i] = ready[i])
    <3>1. /\ w \o ready \in Seq(Sign) /\ Len(w \o ready) = Len(w) + Len(ready)
          /\ Len(w) \in Nat /\ Len(ready) \in Nat
          /\ \A i \in 1 .. Len(w) : (w \o ready)[i] = w[i]
          /\ \A i \in 1 .. Len(ready) : (w \o ready)[Len(w) + i] = ready[i]
      BY <1>1, Joining
    <3> QED BY <3>1
  <2>2. Along(h, ready) /\ NoBreak(ready) /\ split.current = ready
    BY <1>2, <1>4
  <2>3. OneParagraph(v)
    BY <2>2, BegunOn
  <2>4. Holds(CiteMore, v, rest)
    OBVIOUS
  <2> HIDE DEF v
  <2>5. ASSUME EndsBreak(v)
        PROVE  rest = Break
    <3> DEFINE n == Len(w)
               m == Len(ready)
    <3>1. n \in Nat /\ m \in Nat /\ Len(v) = n + m /\ n + m > 1
          /\ v[n + m] = "newline" /\ v[n + m - 1] = "newline"
      BY <2>1, <2>5 DEF EndsBreak
    <3>2. v # <<>> /\ v[Len(v)] = "newline"
      <4>1. Len(v) # 0
        BY <3>1
      <4> QED BY <3>1, <4>1
    <3>3. rest # <<>> /\ (rest[1] = "newline" => rest = Break)
      BY <2>1, <2>4, <3>2, LinesAfter
    <3>4. CASE m = 0
      <4>1. n > 1 /\ w[n] = "newline" /\ w[n - 1] = "newline"
        <5>1. n > 1 /\ n \in 1 .. n /\ n - 1 \in 1 .. n /\ n + m = n /\ n + m - 1 = n - 1
          BY <3>1, <3>4
        <5>2. v[n] = w[n] /\ v[n - 1] = w[n - 1]
          BY <2>1, <5>1
        <5> QED BY <3>1, <5>1, <5>2
      <4>2. h = Break
        BY <1>1, <4>1 DEF EndsBreak
      <4>3. ready = <<>>
        BY <3>4
      <4>4. h \o p = rest
        <5>1. <<>> \o rest = rest
          OBVIOUS
        <5> QED BY <4>3, <5>1
      <4>5. rest[1] = "newline"
        <5>1. 1 \in 1 .. Len(h) /\ h[1] = "newline"
          <6>1. Len(h) = 2 /\ h[1] = "newline"
            BY <4>2, BreakIs
          <6> QED BY <6>1
        <5>2. \A i \in 1 .. Len(h) : (h \o p)[i] = h[i]
          BY <1>1, Joining
        <5> QED BY <4>4, <5>1, <5>2
      <4> QED BY <3>3, <4>5
    <3>5. CASE m = 1
      <4>1. w[n] = "newline" /\ w # <<>>
        <5>1. n \in 1 .. n /\ n + m - 1 = n
          BY <3>1, <3>5
        <5>2. v[n] = w[n]
          BY <2>1, <5>1
        <5>3. w # <<>>
          <6>1. Len(w) # 0
            BY <5>1
          <6> QED BY <6>1
        <5> QED BY <3>1, <5>1, <5>2, <5>3
      <4>2. ready[1] = "newline" /\ ready # <<>>
        <5>1. 1 \in 1 .. m /\ n + m = n + 1
          BY <3>1, <3>5
        <5>2. v[n + 1] = ready[1]
          BY <2>1, <5>1
        <5>3. ready # <<>>
          <6>1. Len(ready) # 0
            BY <3>5
          <6> QED BY <6>1
        <5> QED BY <3>1, <5>1, <5>2, <5>3
      <4>3. h = Break
        <5>1. w[Len(w)] = "newline"
          BY <4>1
        <5> HIDE DEF n, m
        <5> QED BY <2>2, <4>1, <4>2, <5>1, BegunLines
      <4>4. rest[1] = "newline"
        <5> DEFINE t == h \o p
        <5>1. Len(h) = 2 /\ h[2] = "newline" /\ 2 \in 1 .. Len(h)
          <6>1. Len(h) = 2 /\ h[2] = "newline"
            BY <4>3, BreakIs
          <6> QED BY <6>1
        <5>2. \A i \in 1 .. Len(h) : (h \o p)[i] = h[i]
          BY <1>1, Joining
        <5>3. t[2] = "newline"
          BY <5>1, <5>2
        <5>4. \A i \in 1 .. Len(rest) : (ready \o rest)[Len(ready) + i] = rest[i]
          BY Joining
        <5>5. 1 \in 1 .. Len(rest)
          BY <3>3, NotEmpty
        <5>6. (ready \o rest)[2] = rest[1]
          <6>1. Len(ready) + 1 = 2
            BY <3>5
          <6>2. (ready \o rest)[Len(ready) + 1] = rest[1]
            BY <5>4, <5>5
          <6> QED BY <6>1, <6>2
        <5> QED BY <5>3, <5>6
      <4> QED BY <3>3, <4>4
    <3>6. CASE m > 1
      <4>1. m \in 1 .. m /\ m - 1 \in 1 .. m /\ m - 1 \in 1 .. m - 1 /\ (m - 1) + 1 = m
            /\ n + (m - 1) = n + m - 1
        BY <3>1, <3>6
      <4>2. ready[m] = "newline" /\ ready[m - 1] = "newline"
        <5>1. v[n + m] = ready[m] /\ v[n + (m - 1)] = ready[m - 1]
          BY <2>1, <4>1
        <5> QED BY <3>1, <4>1, <5>1
      <4> QED BY <2>2, <4>1, <4>2 DEF NoBreak
    <3>7. m = 0 \/ m = 1 \/ m > 1
      <4>1. m \in Nat
        BY <3>1
      <4> HIDE DEF m
      <4> QED BY <4>1
    <3> QED BY <3>4, <3>5, <3>6, <3>7
  <2> QED BY <1>4, <2>1, <2>2, <2>3, <2>4, <2>5 DEF Begun, v
<1>5. CASE split.ended # <<>>
  <2> DEFINE x == split.ended[1]
             a == EndedText(split.ended)
             c == split.current
  <2>1. x \in Seq(Sign) /\ NoBreak(x) /\ Along(h, x)
    BY <1>2, <1>5, FirstEnded
  <2>2. OneParagraph(w \o x)
    <3> HIDE DEF x
    <3> QED BY <2>1, BegunOn
  <2>3. a \in Seq(Sign) /\ c \in Seq(Sign) /\ ready = a \o c
    <3>1. a \in Seq(Sign)
      BY <1>3, EndedPartsAre
    <3>2. Joined(split) = a \o c
      BY JoinedIs
    <3> QED BY <1>2, <1>3, <3>1, <3>2
  <2> HIDE DEF a, c, x
  <2>4. Holds(CiteMore, c, rest)
    <3>1. w \o (a \o c) = (w \o a) \o c
      <4>1. w \in Seq(Sign) /\ a \in Seq(Sign) /\ c \in Seq(Sign)
        BY <1>1, <2>3
      <4>2. Three(w, a, c)
        BY <4>1, ThreeJoin
      <4> QED BY <4>2 DEF Three
    <3> DEFINE e == w \o a
    <3>2. e \in Seq(Sign)
      BY <1>1, <2>3, Joining
    <3>3. Holds(CiteMore, e \o c, rest)
      BY <2>3, <3>1
    <3> HIDE DEF e
    <3> QED BY <2>3, <3>2, <3>3, HoldsAfter
  <2>5. NoBreak(c)
    BY <1>3 DEF c
  <2>6. OneParagraph(c)
    BY <2>3, <2>5, UnbrokenOne
  <2>7. ~EndsBreak(c)
    <3> SUFFICES ASSUME EndsBreak(c) PROVE FALSE
      OBVIOUS
    <3> DEFINE n == Len(c)
               b == n - 1
    <3>1. n \in Nat /\ n > 1 /\ c[n] = "newline" /\ c[n - 1] = "newline"
      BY <2>3 DEF EndsBreak
    <3>2. b \in 1 .. n - 1 /\ b + 1 = n
      BY <3>1
    <3>3. c[b] = "newline" /\ c[b + 1] = "newline"
      BY <3>1, <3>2
    <3> HIDE DEF b
    <3> QED BY <2>5, <3>2, <3>3 DEF NoBreak
  <2>8. Begun(c, rest)
    BY <2>3, <2>4, <2>6, <2>7 DEF Begun
  <2> QED BY <1>5, <2>2, <2>8 DEF x, c
<1> QED BY <1>4, <1>5

-----------------------------------------------------------------------------
\* A paragraph's citations are the same, however it comes.

\* Reading the same is an equivalence.
LEMMA SameAs ==
  /\ \A s : Same(s, s)
  /\ \A s, t : Same(s, t) => Same(t, s)
  /\ \A s, t, r : Same(s, t) /\ Same(t, r) => Same(s, r)
<1>1. \A s : Same(s, s)
  BY DEF Same
<1>2. \A s, t : Same(s, t) => Same(t, s)
  BY DEF Same
<1>3. \A s, t, r : Same(s, t) /\ Same(t, r) => Same(s, r)
  BY DEF Same
<1> QED BY <1>1, <1>2, <1>3

\* What went out before the citations has its place among them.
LEMMA CiteLate ==
  ASSUME NEW a \in Seq(Sign), NEW u \in Seq(Sign), NEW r \in Seq(Sign),
         NEW cited \in Seq(Seq(Sign))
  PROVE  Same((a \o Cite(u, cited)) \o r, Cite(a \o u, cited) \o r)
<1> DEFINE b == a \o u
           x == (a \o Cite(u, cited)) \o r
           y == (b \o After(cited)) \o r
           z == Cite(b, cited) \o r
<1>1. Same(x, y)
  BY CiteSame
<1>2. b \in Seq(Sign)
  BY Joining
<1>3. Same(z, y)
  <2> DEFINE none == <<>>
             c == Cite(b, cited)
  <2>1. none \in Seq(Sign)
    OBVIOUS
  <2>2. c \in Seq(Sign)
    <3> HIDE DEF b
    <3> QED BY <1>2, CiteIs
  <2>3. none \o c = c /\ none \o b = b
    <3>1. \A t \in Seq(Sign) : <<>> \o t = t
      OBVIOUS
    <3> HIDE DEF b, c
    <3> QED BY <1>2, <2>2, <3>1
  <2>4. Same((none \o c) \o r, ((none \o b) \o After(cited)) \o r)
    <3> HIDE DEF b, none
    <3> QED BY <1>2, <2>1, CiteSame
  <2> HIDE DEF none, c, b
  <2> QED BY <2>3, <2>4 DEF c
<1> HIDE DEF x, y, z
<1>4. Same(x, z)
  BY <1>1, <1>3, SameAs
<1> QED BY <1>4 DEF x, z, b

\* A paragraph that ends, of which the beginning went out before.
LEMMA OneSame ==
  ASSUME NEW w \in Seq(Sign), NEW s \in Seq(Sign), Apart(w, s), SpaceStays(w, s)
  PROVE  Same(Unmarked(w) \o OneCited(s, Extend(<<>>, Ids(w))), OneCited(w \o s, <<>>))
<1> DEFINE a == Unmarked(w)
           u == Unmarked(s)
           none == <<>>
           begun == Extend(none, Ids(w))
           cited == Extend(begun, Ids(s))
           c == Cite(u, cited)
<1>1. none \in Seq(Seq(Sign))
  BY NoSource
<1>2. a \in Seq(Sign) /\ u \in Seq(Sign) /\ Ids(w) \in Seq(Seq(Sign)) /\ Ids(s) \in Seq(Seq(Sign))
  BY <1>1, TextsAre
<1>3. begun \in Seq(Seq(Sign))
  <2> HIDE DEF none
  <2> QED BY <1>1, <1>2, ExtendAre
<1>4. cited \in Seq(Seq(Sign))
  <2> HIDE DEF begun
  <2> QED BY <1>2, <1>3, ExtendAre
<1>5. cited = Extend(none, Ids(w \o s))
  <2>1. Extend(<<>>, Ids(w) \o Ids(s)) = Extend(Extend(<<>>, Ids(w)), Ids(s))
    BY <1>2, ExtendTwice
  <2>2. Ids(w \o s) = Ids(w) \o Ids(s)
    BY IdsJoin
  <2> QED BY <2>1, <2>2
<1>6. Unmarked(w \o s) = a \o u
  BY PlainJoin
<1>7. OneCited(s, begun) = c \o Break
  BY DEF OneCited
<1>8. OneCited(w \o s, none) = Cite(a \o u, cited) \o Break
  <2>1. OneCited(w \o s, none) = Cite(Unmarked(w \o s), Extend(none, Ids(w \o s))) \o Break
    BY DEF OneCited
  <2> HIDE DEF cited, none, a, u
  <2> QED BY <1>5, <1>6, <2>1
<1> HIDE DEF cited, a, u
<1>9. c \in Seq(Sign) /\ Break \in Seq(Sign)
  BY <1>2, <1>4, CiteIs, BreakIs
<1>10. Same((a \o c) \o Break, Cite(a \o u, cited) \o Break)
  <2> DEFINE b == Break
  <2>1. b \in Seq(Sign)
    BY <1>9
  <2> HIDE DEF b
  <2>2. Same((a \o Cite(u, cited)) \o b, Cite(a \o u, cited) \o b)
    BY <1>2, <1>4, <2>1, CiteLate
  <2> QED BY <2>2 DEF b
<1>11. (a \o c) \o Break = a \o (c \o Break)
  <2> DEFINE b == Break
  <2>1. b \in Seq(Sign) /\ a \in Seq(Sign) /\ c \in Seq(Sign)
    BY <1>2, <1>9
  <2> HIDE DEF b, c
  <2>2. Three(a, c, b)
    BY <2>1, ThreeJoin
  <2> QED BY <2>2 DEF Three, b
<1> HIDE DEF c, begun, none
<1>12. Same(a \o OneCited(s, begun), OneCited(w \o s, none))
  BY <1>7, <1>8, <1>10, <1>11
<1> QED BY <1>12 DEF a, begun, none

\* What ends a paragraph ends with a blank.
LEMMA OneEnded ==
  ASSUME NEW a \in Seq(Sign), NEW p \in Seq(Sign), NEW begun \in Seq(Seq(Sign))
  PROVE  /\ a \o OneCited(p, begun) \in Seq(Sign) /\ Ended(a \o OneCited(p, begun))
         /\ OneCited(p, begun) # <<>>
<1> DEFINE c == Cite(Unmarked(p), Extend(begun, Ids(p)))
           b == Break
           t == a \o c
<1>1. c \in Seq(Sign) /\ OneCited(p, begun) = c \o b
  <2>1. Extend(begun, Ids(p)) \in Seq(Seq(Sign)) /\ Unmarked(p) \in Seq(Sign)
    BY OneCitedIs
  <2>2. c \in Seq(Sign)
    BY <2>1, CiteIs
  <2> QED BY <2>2 DEF OneCited
<1>2. b \in Seq(Sign) /\ Len(b) = 2 /\ b # <<>> /\ b \in Seq(Blank)
  <2>1. b \in Seq(Blank)
    BY DEF Break, Blank
  <2> QED BY <2>1, BreakIs
<1> HIDE DEF c, b
<1>3. t \in Seq(Sign)
  BY <1>1, Joining
<1>4. t \o b = a \o (c \o b)
  <2>1. Three(a, c, b)
    BY <1>1, <1>2, ThreeJoin
  <2> QED BY <2>1 DEF Three
<1> HIDE DEF t
<1>5. Ended(t \o b) /\ t \o b \in Seq(Sign)
  BY <1>2, <1>3, BlanksEnd
<1>6. c \o b # <<>>
  <2>1. Len(c \o b) = Len(c) + Len(b) /\ Len(c) \in Nat
    BY ZenonT(40), <1>1, <1>2, Joining
  <2>2. Len(c \o b) # 0
    BY <1>2, <2>1
  <2> QED BY <2>2
<1> QED BY <1>1, <1>4, <1>5, <1>6

-----------------------------------------------------------------------------
\* What has been read, and more.

\* Reading on from what has been read.
LEMMA ReadOnIs ==
  ASSUME NEW before \in Split, NEW split \in Split, Unbroken(split)
  PROVE  /\ ReadOn(before, split) \in Split
         /\ split.ended = <<>> =>
              /\ ReadOn(before, split).ended = before.ended
              /\ ReadOn(before, split).current = before.current \o split.current
         /\ split.ended # <<>> =>
              /\ ReadOn(before, split).ended
                   = (before.ended \o <<before.current \o split.ended[1]>>) \o Suffix(split.ended, 2)
              /\ ReadOn(before, split).current = split.current
<1> DEFINE p == ReadOn(before, split)
<1>1. /\ before.ended \in Seq(Seq(Sign)) /\ before.current \in Seq(Sign)
      /\ split.ended \in Seq(Seq(Sign)) /\ split.current \in Seq(Sign)
      /\ before = [ended |-> before.ended, current |-> before.current]
  BY DEF Split
<1>2. CASE split.ended = <<>>
  <2>1. p = [before EXCEPT !.current = @ \o split.current]
    BY <1>2 DEF ReadOn
  <2>2. p = [ended |-> before.ended, current |-> before.current \o split.current]
    BY <1>1, <2>1
  <2>3. before.current \o split.current \in Seq(Sign)
    BY <1>1, Joining
  <2> HIDE DEF p
  <2>4. p.ended = before.ended /\ p.current = before.current \o split.current /\ p \in Split
    BY <1>1, <2>2, <2>3 DEF Split
  <2> QED BY <1>2, <2>4 DEF p
<1>3. CASE split.ended # <<>>
  <2> DEFINE x == before.current \o split.ended[1]
             r == Suffix(split.ended, 2)
             o == <<x>>
             e == before.ended
  <2>1. p = [ended |-> Append(e, x) \o r, current |-> split.current]
    BY <1>3 DEF ReadOn
  <2>2. split.ended[1] \in Seq(Sign) /\ r \in Seq(Seq(Sign))
    BY <1>3, FirstEnded
  <2>3. x \in Seq(Sign)
    <3> DEFINE y == split.ended[1]
    <3> HIDE DEF y
    <3> QED BY <1>1, <2>2, Joining DEF y
  <2> HIDE DEF x, r, p
  <2>4. Append(e, x) = e \o o
    <3> HIDE DEF e
    <3>1. e \in Seq(Seq(Sign))
      BY <1>1 DEF e
    <3> QED BY <2>3, <3>1
  <2>5. o \in Seq(Seq(Sign))
    BY <2>3, Single
  <2> HIDE DEF o
  <2>6. (e \o o) \o r \in Seq(Seq(Sign))
    <3> DEFINE f == e \o o
    <3>1. f \in Seq(Seq(Sign))
      BY <1>1, <2>5, Joining
    <3> HIDE DEF f
    <3>2. f \o r \in Seq(Seq(Sign))
      BY <2>2, <3>1, Joining
    <3> QED BY <3>2 DEF f
  <2>7. p.ended = (e \o o) \o r /\ p.current = split.current /\ p \in Split
    BY <1>1, <2>1, <2>4, <2>6 DEF Split
  <2> QED BY <1>3, <2>7 DEF p, o, x, r
<1> QED BY <1>2, <1>3

\* Nothing that is read is lost.
LEMMA ReadOnJoined ==
  ASSUME NEW before \in Split, NEW split \in Split, Unbroken(split)
  PROVE  /\ Joined(before) \in Seq(Sign) /\ Joined(split) \in Seq(Sign)
         /\ Joined(ReadOn(before, split)) = Joined(before) \o Joined(split)
<1> DEFINE p == ReadOn(before, split)
           e == before.ended
           w == before.current
           f == split.ended
           c == split.current
           a == EndedText(e)
<1>1. e \in Seq(Seq(Sign)) /\ w \in Seq(Sign) /\ f \in Seq(Seq(Sign)) /\ c \in Seq(Sign)
  BY DEF Split
<1>2. Joined(p) = EndedText(p.ended) \o p.current /\ Joined(before) = a \o w
      /\ Joined(split) = EndedText(f) \o c
  BY JoinedIs
<1>3. /\ f = <<>> => p.ended = e /\ p.current = w \o c
      /\ f # <<>> => p.ended = (e \o <<w \o f[1]>>) \o Suffix(f, 2) /\ p.current = c
  BY ReadOnIs
<1>4. f # <<>> => /\ f[1] \in Seq(Sign) /\ Suffix(f, 2) \in Seq(Seq(Sign))
                  /\ EndedText(f) = (f[1] \o Break) \o EndedText(Suffix(f, 2))
  BY FirstEnded
<1> HIDE DEF p, e, w, f, c
<1>5. a \in Seq(Sign) /\ EndedText(f) \in Seq(Sign)
  BY <1>1, EndedPartsAre
<1> HIDE DEF a
<1>6. a \o w \in Seq(Sign) /\ EndedText(f) \o c \in Seq(Sign)
  <2>1. a \o w \in Seq(Sign)
    BY <1>1, <1>5, Joining
  <2> DEFINE g == EndedText(f)
  <2>2. g \in Seq(Sign)
    BY <1>5
  <2> HIDE DEF g
  <2>3. g \o c \in Seq(Sign)
    BY <1>1, <2>2, Joining
  <2> QED BY <2>1, <2>3 DEF g
<1>7. CASE f = <<>>
  <2>1. EndedText(f) \o c = c
    <3>1. EndedText(<<>>) = <<>>
      <4>1. <<>> \in Seq(Sign)
        OBVIOUS
      <4> QED BY <4>1, EndedTextOne
    <3>2. <<>> \o c = c
      BY <1>1
    <3> QED BY <1>7, <3>1, <3>2
  <2>2. Joined(p) = a \o (w \o c)
    BY <1>2, <1>3, <1>7 DEF a
  <2>3. Three(a, w, c)
    BY <1>1, <1>5, ThreeJoin
  <2>4. (a \o w) \o c = a \o (w \o c)
    BY <2>3 DEF Three
  <2> QED BY <1>2, <1>6, <2>1, <2>2, <2>4 DEF p
<1>8. CASE f # <<>>
  <2> DEFINE x == f[1]
             r == Suffix(f, 2)
             y == w \o x
             o == <<y>>
             t == EndedText(r)
             b == Break
  <2>1. x \in Seq(Sign) /\ r \in Seq(Seq(Sign)) /\ EndedText(f) = (x \o b) \o t
    BY <1>4, <1>8
  <2> HIDE DEF x, r
  <2>2. y \in Seq(Sign)
    BY <1>1, <2>1, Joining
  <2> HIDE DEF y
  <2>3. o \in Seq(Seq(Sign)) /\ EndedText(o) = y \o b
    BY <2>2, Single, EndedTextOne
  <2>4. t \in Seq(Sign) /\ b \in Seq(Sign)
    BY <2>1, EndedPartsAre, BreakIs
  <2> HIDE DEF o, b
  <2>5. EndedText((e \o o) \o r) = (a \o (y \o b)) \o t
    <3> DEFINE g == e \o o
    <3>1. g \in Seq(Seq(Sign)) /\ EndedText(g) = a \o EndedText(o)
      BY <1>1, <2>3, Joining, EndedTextJoin DEF a
    <3> HIDE DEF g
    <3>2. EndedText(g \o r) = EndedText(g) \o EndedText(r)
      BY <2>1, <3>1, EndedTextJoin
    <3> QED BY <2>3, <3>1, <3>2 DEF g
  <2> HIDE DEF t
  <2>6. Joined(p) = ((a \o (y \o b)) \o t) \o c
    BY <1>2, <1>3, <1>8, <2>5 DEF o, y, x, r
  <2>7. Joined(split) = ((x \o b) \o t) \o c
    BY <1>2, <2>1
  <2>8. (a \o w) \o (((x \o b) \o t) \o c) = ((a \o (y \o b)) \o t) \o c
    <3> DEFINE v == a \o w
               xb == x \o b
               yb == y \o b
               xbt == xb \o t
               l == v \o xb
    <3>1. v \in Seq(Sign) /\ xb \in Seq(Sign) /\ yb \in Seq(Sign)
      <4>1. v \in Seq(Sign)
        BY <1>6
      <4>2. xb \in Seq(Sign)
        BY <2>1, <2>4, Joining
      <4>3. yb \in Seq(Sign)
        BY <2>2, <2>4, Joining
      <4> QED BY <4>1, <4>2, <4>3
    <3>2. yb = w \o xb
      <4>1. Three(w, x, b)
        BY <1>1, <2>1, <2>4, ThreeJoin
      <4> QED BY <4>1 DEF Three, y
    <3> HIDE DEF xb, v, yb
    <3>3. xbt \in Seq(Sign)
      BY <2>4, <3>1, Joining
    <3> HIDE DEF xbt
    <3>4. v \o (xbt \o c) = (v \o xbt) \o c
      <4>1. Three(v, xbt, c)
        BY <1>1, <3>1, <3>3, ThreeJoin
      <4> QED BY <4>1 DEF Three
    <3>5. v \o xbt = l \o t
      <4>1. Three(v, xb, t)
        BY <2>4, <3>1, ThreeJoin
      <4> QED BY <4>1 DEF Three, xbt
    <3>6. l = a \o yb
      <4>1. Three(a, w, xb)
        BY <1>1, <1>5, <3>1, ThreeJoin
      <4> QED BY <3>2, <4>1 DEF Three, v
    <3> HIDE DEF l
    <3>7. v \o (xbt \o c) = ((a \o yb) \o t) \o c
      BY <3>4, <3>5, <3>6
    <3> QED BY <3>7 DEF v, xbt, xb, yb
  <2> QED BY <1>2, <1>6, <2>6, <2>7, <2>8 DEF p
<1> QED BY <1>7, <1>8

-----------------------------------------------------------------------------
\* cite_per_paragraph.

\* What has gone out reads like the paragraphs that have been read: those that
\* have ended with their citations, and the current one without its markers.
CitedSo(before, state, x) ==
  /\ before \in Split
  /\ Begun(before.current, state.held)
  /\ \A m \in 1 .. Len(before.ended) : OneParagraph(before.ended[m])
  /\ state.cited = Extend(<<>>, Ids(before.current))
  /\ \E d \in Seq(Sign) :
       /\ Ended(d) /\ Same(d, CitedParagraphs(before.ended, <<>>))
       /\ x = d \o Unmarked(before.current)

\* One piece is cut into what is read and what is held.
CutSo(state, w, p, c, ready, rest) ==
  /\ state.held \o p = ready \o rest /\ Holds(CiteMore, w \o ready, rest)
  /\ c.read = Paragraphs(ready) /\ c.state.held = rest
  /\ c.out = CitedParagraphs(c.read.ended, state.cited) \o Unmarked(c.read.current)
  /\ c.state.cited = Extend(IF c.read.ended = <<>> THEN state.cited ELSE <<>>,
                            Ids(c.read.current))

\* cite_per_paragraph cuts what it has where what may be more begins.
LEMMA CiteCut ==
  ASSUME NEW state, NEW w, Begun(w, state.held), NEW p \in Seq(Sign),
         NEW c, c = CitePiece(state, p)
  PROVE  \E ready \in Seq(Sign), rest \in Seq(Sign) : CutSo(state, w, p, c, ready, rest)
<1> DEFINE h == state.held
           text == h \o p
           k == HeldFrom(text, {i \in DOMAIN text : MayCite(Suffix(text, i))})
           ready == Before(text, k)
           rest == Suffix(text, k)
           split == Paragraphs(ready)
<1>1. h \in Seq(Sign) /\ w \in Seq(Sign) /\ Holds(CiteMore, w, h)
  BY DEF Begun
<1>2. text \in Seq(Sign)
  BY <1>1, Joining
<1>3. k = HeldFrom(text, HeldIn(CiteMore, text))
  <2> HIDE DEF text
  <2>1. {i \in DOMAIN text : MayCite(Suffix(text, i))} = HeldIn(CiteMore, text)
    BY <1>2, HeldAre
  <2> QED BY <2>1
<1>4. c = [out   |-> CitedParagraphs(split.ended, state.cited) \o Unmarked(split.current),
           state |-> [held |-> rest, cited |-> Extend(IF split.ended = <<>> THEN state.cited ELSE <<>>,
                                                      Ids(split.current))],
           read  |-> split]
  BY DEF CitePiece
<1> HIDE DEF k, h
<1>5. HeldRight(CiteMore, w, h \o p, k)
  BY <1>1, <1>3, MoreClosed, HeldStep DEF text
<1>6. /\ ready \in Seq(Sign) /\ rest \in Seq(Sign) /\ text = ready \o rest
      /\ Holds(CiteMore, w \o ready, rest)
  BY <1>5 DEF HeldRight
<1> HIDE DEF ready, rest, split
<1>7. /\ c.read = split /\ c.state.held = rest
      /\ c.out = CitedParagraphs(split.ended, state.cited) \o Unmarked(split.current)
      /\ c.state.cited = Extend(IF split.ended = <<>> THEN state.cited ELSE <<>>, Ids(split.current))
  BY <1>4
<1>8. state.held \o p = ready \o rest
  BY <1>6 DEF text, h
<1> HIDE DEF text
<1>9. split = Paragraphs(ready)
  BY DEF split
<1>10. Holds(CiteMore, w \o ready, rest)
  BY <1>6
<1>11. CutSo(state, w, p, c, ready, rest)
  BY <1>7, <1>8, <1>9, <1>10 DEF CutSo
<1> QED BY <1>6, <1>11

\* A part of a paragraph goes on to its citations.
LEMMA CiteOn ==
  ASSUME NEW w \in Seq(Sign), NEW h \in Seq(Sign), Holds(CiteMore, w, h),
         NEW s \in Seq(Sign), Along(h, s)
  PROVE  /\ Apart(w, s) /\ SpaceStays(w, s)
         /\ Unmarked(w \o s) = Unmarked(w) \o Unmarked(s)
         /\ Extend(<<>>, Ids(w \o s)) = Extend(Extend(<<>>, Ids(w)), Ids(s))
<1>1. Apart(w, s)
  <2>1. HoldsMarkers(CiteMore)
    BY MoreHolds
  <2> QED BY <2>1, MarkersHeld
<1>2. SpaceStays(w, s)
  BY SpacesStay
<1>3. Unmarked(w \o s) = Unmarked(w) \o Unmarked(s)
  BY <1>1, <1>2, PlainJoin
<1>4. Ids(w \o s) = Ids(w) \o Ids(s)
  BY <1>1, IdsJoin
<1>5. Ids(w) \in Seq(Seq(Sign)) /\ Ids(s) \in Seq(Seq(Sign))
  BY TextsAre, NoSource
<1>6. Extend(<<>>, Ids(w) \o Ids(s)) = Extend(Extend(<<>>, Ids(w)), Ids(s))
  BY <1>5, ExtendTwice
<1> QED BY <1>1, <1>2, <1>3, <1>4, <1>6

\* What the reading of one piece keeps.
ReadsOn(before, h, p, rest, after) ==
  /\ after \in Split /\ Begun(after.current, rest)
  /\ \A m \in 1 .. Len(after.ended) : OneParagraph(after.ended[m])
  /\ (Joined(before) \o h) \o p = Joined(after) \o rest

\* The paragraphs read stay one paragraph each, and nothing is lost.
LEMMA CiteReads ==
  ASSUME NEW before, NEW h, before \in Split, Begun(before.current, h),
         \A m \in 1 .. Len(before.ended) : OneParagraph(before.ended[m]),
         NEW ready \in Seq(Sign), NEW rest \in Seq(Sign), NEW p \in Seq(Sign),
         h \o p = ready \o rest, Holds(CiteMore, before.current \o ready, rest),
         NEW split, split = Paragraphs(ready), NEW after, after = ReadOn(before, split)
  PROVE  ReadsOn(before, h, p, rest, after)
<1> DEFINE w == before.current
           e == before.ended
           f == split.ended
<1>1. w \in Seq(Sign) /\ e \in Seq(Seq(Sign)) /\ h \in Seq(Sign)
  BY DEF Split, Begun
<1>2. /\ split \in Split /\ Unbroken(split) /\ Joined(split) = ready
      /\ split.ended = <<>> => split.current = ready /\ Along(h, ready) /\ NoBreak(ready)
      /\ split.ended # <<>> => Along(h, split.ended[1])
  BY <1>1, ReadAlong
<1>3. /\ split.ended = <<>> => Begun(before.current \o split.current, rest)
      /\ split.ended # <<>> => OneParagraph(before.current \o split.ended[1]) /\ Begun(split.current, rest)
  BY <1>1, BegunStep
<1>4. /\ after \in Split
      /\ split.ended = <<>> =>
           /\ after.ended = before.ended
           /\ after.current = before.current \o split.current
      /\ split.ended # <<>> =>
           /\ after.ended = (before.ended \o <<before.current \o split.ended[1]>>)
                              \o Suffix(split.ended, 2)
           /\ after.current = split.current
  BY <1>2, ReadOnIs
<1>5. Begun(after.current, rest)
  BY <1>3, <1>4
<1>6. \A m \in 1 .. Len(after.ended) : OneParagraph(after.ended[m])
  <2>1. CASE f = <<>>
    BY <1>4, <2>1
  <2>2. CASE f # <<>>
    <3> DEFINE x == f[1]
               r == Suffix(f, 2)
               y == w \o x
               o == <<y>>
               g == e \o o
    <3>1. x \in Seq(Sign) /\ r \in Seq(Seq(Sign)) /\ f = <<x>> \o r /\ f \in Seq(Seq(Sign))
      <4>1. f \in Seq(Seq(Sign))
        BY <1>2 DEF Split
      <4> QED BY <1>2, <2>2, <4>1, FirstEnded
    <3>2. \A m \in 1 .. Len(r) : OneParagraph(r[m])
      <4> TAKE m \in 1 .. Len(r)
      <4>1. \A i \in 1 .. Len(f) : f[i] \in Seq(Sign) /\ NoBreak(f[i])
        <5>1. \A i \in 1 .. Len(split.ended) : NoBreak(split.ended[i])
          BY <1>2 DEF Unbroken
        <5>2. f \in Seq(Seq(Sign))
          BY <3>1
        <5> HIDE DEF f
        <5>3. \A i \in 1 .. Len(f) : f[i] \in Seq(Sign)
          BY <5>2
        <5>4. \A i \in 1 .. Len(f) : NoBreak(f[i])
          BY <5>1 DEF f
        <5> QED BY <5>3, <5>4
      <4>2. /\ Len(<<x>> \o r) = 1 + Len(r) /\ Len(r) \in Nat
            /\ \A i \in 1 .. Len(r) : (<<x>> \o r)[1 + i] = r[i]
        <5>1. x \in Seq(Sign) /\ r \in Seq(Seq(Sign))
          BY <3>1
        <5> HIDE DEF x, r
        <5>2. /\ <<x>> \o r \in Seq(Seq(Sign)) /\ <<x>> \o r # <<>>
              /\ Len(<<x>> \o r) = 1 + Len(r) /\ Len(r) \in Nat
              /\ (<<x>> \o r)[1] = x
              /\ \A i \in 1 .. Len(r) : (<<x>> \o r)[1 + i] = r[i]
              /\ Suffix(<<x>> \o r, 2) = r
          BY <5>1, OneAndRest
        <5> QED BY <5>2
      <4>3. 1 + m \in 1 .. Len(f) /\ f[1 + m] = r[m]
        <5>1. Len(f) = 1 + Len(r) /\ f[1 + m] = (<<x>> \o r)[1 + m]
          BY <3>1, <4>2
        <5> HIDE DEF f, r, x
        <5>2. 1 + m \in 1 .. Len(f)
          BY <4>2, <5>1
        <5> QED BY <4>2, <5>1, <5>2
      <4>4. r[m] \in Seq(Sign) /\ NoBreak(r[m])
        BY <4>1, <4>3
      <4> QED BY <4>4, UnbrokenOne
    <3>3. OneParagraph(y)
      BY <1>3, <2>2
    <3> HIDE DEF x, r
    <3>4. y \in Seq(Sign)
      BY <1>1, <3>1, Joining
    <3> HIDE DEF y
    <3>5. o \in Seq(Seq(Sign)) /\ Len(o) = 1 /\ o[1] = y
      BY <3>4, Single
    <3> HIDE DEF o
    <3>6. g \in Seq(Seq(Sign)) /\ \A m \in 1 .. Len(g) : OneParagraph(g[m])
      <4>1. /\ e \o o \in Seq(Seq(Sign)) /\ Len(e \o o) = Len(e) + Len(o) /\ Len(e) \in Nat
            /\ \A i \in 1 .. Len(e) : (e \o o)[i] = e[i]
            /\ \A i \in 1 .. Len(o) : (e \o o)[Len(e) + i] = o[i]
        <5>1. e \in Seq(Seq(Sign)) /\ o \in Seq(Seq(Sign))
          BY <1>1, <3>5
        <5> HIDE DEF e
        <5>2. /\ e \o o \in Seq(Seq(Sign)) /\ Len(e \o o) = Len(e) + Len(o)
              /\ Len(e) \in Nat /\ Len(o) \in Nat
              /\ \A i \in 1 .. Len(e) : (e \o o)[i] = e[i]
              /\ \A i \in 1 .. Len(o) : (e \o o)[Len(e) + i] = o[i]
          BY <5>1, Joining
        <5> QED BY <5>2
      <4>2. ASSUME NEW m \in 1 .. Len(e \o o)
            PROVE  OneParagraph((e \o o)[m])
        <5> DEFINE n == Len(e)
        <5>1. n \in Nat /\ m \in 1 .. n + 1
          BY <3>5, <4>1
        <5>2. CASE m \in 1 .. n
          BY <4>1, <5>2
        <5>3. CASE m = n + 1
          <6>1. 1 \in 1 .. Len(o)
            BY <3>5
          <6>2. (e \o o)[n + 1] = y
            BY <3>5, <4>1, <6>1
          <6> QED BY <3>3, <5>3, <6>2
        <5>4. m \in 1 .. n \/ m = n + 1
          <6> HIDE DEF n
          <6> QED BY <5>1
        <5> QED BY <5>2, <5>3, <5>4
      <4> QED BY <4>1, <4>2
    <3> HIDE DEF g
    <3>7. \A m \in 1 .. Len(g \o r) : OneParagraph((g \o r)[m])
      <4>1. /\ g \o r \in Seq(Seq(Sign)) /\ Len(g \o r) = Len(g) + Len(r)
            /\ Len(g) \in Nat /\ Len(r) \in Nat
            /\ \A i \in 1 .. Len(g) : (g \o r)[i] = g[i]
            /\ \A i \in 1 .. Len(r) : (g \o r)[Len(g) + i] = r[i]
        BY <3>1, <3>6, Joining
      <4> TAKE m \in 1 .. Len(g \o r)
      <4> DEFINE n == Len(g)
                 i == m - n
      <4>2. CASE m <= n
        <5>1. m \in 1 .. n
          BY <4>1, <4>2
        <5> QED BY <3>6, <4>1, <5>1
      <4>3. CASE m > n
        <5>1. i \in 1 .. Len(r) /\ n + i = m
          BY <4>1, <4>3
        <5> HIDE DEF i
        <5>2. (g \o r)[m] = r[i]
          BY <4>1, <5>1
        <5> QED BY <3>2, <5>1, <5>2
      <4> QED BY <4>1, <4>2, <4>3
    <3>8. after.ended = g \o r
      BY <1>4, <2>2 DEF g, o, y, x, r
    <3> QED BY <3>7, <3>8
  <2> QED BY <2>1, <2>2
<1>7. (Joined(before) \o h) \o p = Joined(after) \o rest
  <2> DEFINE a == Joined(before)
             b == Joined(split)
  <2>1. a \in Seq(Sign) /\ b \in Seq(Sign) /\ Joined(after) = a \o b
    BY <1>2, ReadOnJoined
  <2> HIDE DEF a
  <2>2. b = ready
    BY <1>2
  <2> HIDE DEF b
  <2>3. Three(a, h, p)
    BY <1>1, <2>1, ThreeJoin
  <2>4. Three(a, ready, rest)
    BY <2>1, ThreeJoin
  <2>5. (a \o h) \o p = (a \o ready) \o rest
    BY <2>3, <2>4 DEF Three
  <2> QED BY <2>1, <2>2, <2>5 DEF a
<1> QED BY <1>4, <1>5, <1>6, <1>7 DEF ReadsOn

FiveLate(d, a, o, q, u) == (d \o a) \o ((o \o q) \o u) = ((d \o (a \o o)) \o q) \o u

\* Five texts are joined in either order.
LEMMA RegroupLate ==
  ASSUME NEW d \in Seq(Sign), NEW a \in Seq(Sign), NEW o \in Seq(Sign), NEW q \in Seq(Sign),
         NEW u \in Seq(Sign)
  PROVE  FiveLate(d, a, o, q, u)
<1> DEFINE v == d \o a
           oq == o \o q
           ao == a \o o
           l == d \o ao
<1>1. v \in Seq(Sign) /\ oq \in Seq(Sign) /\ ao \in Seq(Sign)
  BY Joining
<1>2. v \o o = l
  <2>1. Three(d, a, o)
    BY ThreeJoin
  <2> QED BY <2>1 DEF Three
<1>3. v \o oq = (v \o o) \o q
  <2> HIDE DEF v
  <2>1. Three(v, o, q)
    BY <1>1, ThreeJoin
  <2> QED BY <2>1 DEF Three
<1>4. v \o (oq \o u) = (v \o oq) \o u
  <2> HIDE DEF v, oq
  <2>1. Three(v, oq, u)
    BY <1>1, ThreeJoin
  <2> QED BY <2>1 DEF Three
<1> HIDE DEF v, oq, l
<1>5. v \o (oq \o u) = (l \o q) \o u
  BY <1>2, <1>3, <1>4
<1> QED BY <1>5 DEF FiveLate, v, oq, l, ao

\* The paragraphs that end with a piece, the first of them begun before it.
LEMMA CiteEnds ==
  ASSUME NEW d \in Seq(Sign), Ended(d), NEW e \in Seq(Seq(Sign)),
         Same(d, CitedParagraphs(e, <<>>)),
         NEW w \in Seq(Sign), NEW s \in Seq(Sign), Apart(w, s), SpaceStays(w, s),
         NEW r \in Seq(Seq(Sign)), NEW begun, begun = Extend(<<>>, Ids(w)),
         NEW z, z = (d \o (Unmarked(w) \o OneCited(s, begun))) \o CitedParagraphs(r, <<>>)
  PROVE  /\ z \in Seq(Sign) /\ Ended(z)
         /\ Same(z, CitedParagraphs((e \o <<w \o s>>) \o r, <<>>))
<1> DEFINE none == <<>>
           a == Unmarked(w)
           o == OneCited(s, begun)
           ao == a \o o
           y == w \o s
           t == OneCited(y, none)
           q == CitedParagraphs(r, none)
           g == CitedParagraphs(e, none)
           l == d \o ao
           one == <<y>>
           f == e \o one
<1>1. none \in Seq(Seq(Sign))
  BY NoSource
<1>2. a \in Seq(Sign) /\ y \in Seq(Sign)
  <2>1. a \in Seq(Sign)
    BY <1>1, TextsAre
  <2>2. y \in Seq(Sign)
    BY Joining
  <2> QED BY <2>1, <2>2
<1>3. begun \in Seq(Seq(Sign))
  <2>1. Ids(w) \in Seq(Seq(Sign))
    BY <1>1, TextsAre
  <2>2. Extend(none, Ids(w)) \in Seq(Seq(Sign))
    <3> HIDE DEF none
    <3> QED BY <1>1, <2>1, ExtendAre
  <2> QED BY <2>2
<1>4. Same(ao, t)
  BY OneSame
<1> HIDE DEF none, a, y
<1>5. ao \in Seq(Sign) /\ Ended(ao) /\ o # <<>>
  BY <1>2, <1>3, OneEnded
<1>6. t \in Seq(Sign) /\ Ended(t)
  BY <1>1, <1>2, OneCitedIs
<1>7. q \in Seq(Sign) /\ Ended(q) /\ g \in Seq(Sign) /\ Ended(g)
  BY <1>1, CitedEnded
<1>8. Same(d, g)
  BY DEF none
<1> HIDE DEF ao, t, q, g, o
<1>9. Same(d \o ao, g \o t)
  BY <1>4, <1>5, <1>6, <1>7, <1>8, SameEnded
<1>10. l \in Seq(Sign) /\ Ended(l)
  BY <1>5, EndedTwo
<1>11. g \o t \in Seq(Sign) /\ Ended(g \o t)
  BY <1>6, <1>7, EndedTwo
<1>12. l \o q \in Seq(Sign) /\ Ended(l \o q)
  <2> HIDE DEF l
  <2> QED BY <1>7, <1>10, EndedTwo
<1>13. Same(l \o q, (g \o t) \o q)
  <2> DEFINE gt == g \o t
  <2>1. gt \in Seq(Sign) /\ Ended(gt) /\ Same(l, gt)
    BY <1>9, <1>11
  <2>2. Same(q, q)
    BY SameAs
  <2> HIDE DEF l, gt
  <2>3. Same(l \o q, gt \o q)
    BY <1>7, <1>10, <2>1, <2>2, SameEnded
  <2> QED BY <2>3 DEF gt
<1>14. one \in Seq(Seq(Sign)) /\ CitedParagraphs(one, none) = t
  <2>1. one \in Seq(Seq(Sign))
    BY <1>2, Single
  <2>2. CitedParagraphs(<<y>>, none) = OneCited(y, none) /\ CitedParagraphs(<<>>, none) = <<>>
    BY <1>1, <1>2, CitedOne
  <2> QED BY <2>1, <2>2 DEF t
<1> HIDE DEF one
<1>15. f \in Seq(Seq(Sign)) /\ CitedParagraphs(f, none) = g \o t
  <2>1. f \in Seq(Seq(Sign))
    BY <1>14, Joining
  <2>2. none = <<>>
    BY DEF none
  <2>3. CitedParagraphs(e \o one, none) = CitedParagraphs(e, none) \o CitedParagraphs(one, <<>>)
    BY <1>1, <1>14, <2>2, CitedJoin
  <2> QED BY <1>14, <2>1, <2>2, <2>3 DEF g
<1> HIDE DEF f
<1>16. CitedParagraphs(f \o r, none) = (g \o t) \o q
  <2>1. none = <<>>
    BY DEF none
  <2>2. CitedParagraphs(f \o r, none) = CitedParagraphs(f, none) \o CitedParagraphs(r, <<>>)
    BY <1>1, <1>15, <2>1, CitedJoin
  <2> QED BY <1>15, <2>1, <2>2 DEF q
<1>17. z = l \o q
  BY DEF l, ao, a, o, q, none
<1> HIDE DEF l
<1>18. z \in Seq(Sign) /\ Ended(z) /\ Same(z, CitedParagraphs(f \o r, none))
  BY <1>12, <1>13, <1>16, <1>17
<1> QED BY <1>18 DEF f, one, y, none

\* One piece more, and what has gone out reads like what has been read.
CiteGoes(before, state, x, p, c, after) ==
  /\ c.out \in Seq(Sign) /\ CitedSo(after, c.state, x \o c.out)
  /\ (Joined(before) \o state.held) \o p = Joined(after) \o c.state.held

\* One piece more for cite_per_paragraph.
THEOREM CiteStep ==
  ASSUME NEW before, NEW state, NEW x, CitedSo(before, state, x), NEW p \in Seq(Sign),
         NEW c, c = CitePiece(state, p), NEW after, after = ReadOn(before, c.read)
  PROVE  CiteGoes(before, state, x, p, c, after)
<1> DEFINE w == before.current
           e == before.ended
           h == state.held
           split == c.read
           f == split.ended
           u == Unmarked(split.current)
           a == Unmarked(w)
           begun == state.cited
           none == <<>>
<1>1. /\ before \in Split /\ Begun(w, h) /\ begun = Extend(<<>>, Ids(w))
      /\ \A m \in 1 .. Len(e) : OneParagraph(e[m])
      /\ \E d \in Seq(Sign) :
           Ended(d) /\ Same(d, CitedParagraphs(e, <<>>)) /\ x = d \o a
  BY DEF CitedSo
<1>2. PICK ready \in Seq(Sign), rest \in Seq(Sign) :
        /\ h \o p = ready \o rest /\ Holds(CiteMore, w \o ready, rest)
        /\ split = Paragraphs(ready) /\ c.state.held = rest
        /\ c.out = CitedParagraphs(f, begun) \o u
        /\ c.state.cited = Extend(IF f = <<>> THEN begun ELSE <<>>, Ids(split.current))
  <2>1. Begun(w, state.held)
    BY <1>1
  <2> HIDE DEF w
  <2>2. \E ready \in Seq(Sign), rest \in Seq(Sign) : CutSo(state, w, p, c, ready, rest)
    BY <2>1, CiteCut
  <2> QED BY <2>2 DEF CutSo, w
<1>3. /\ after \in Split /\ Begun(after.current, rest)
      /\ \A m \in 1 .. Len(after.ended) : OneParagraph(after.ended[m])
      /\ (Joined(before) \o h) \o p = Joined(after) \o rest
  <2>1. before \in Split
    BY <1>1
  <2>2. Begun(before.current, h)
    BY <1>1
  <2>3. \A m \in 1 .. Len(before.ended) : OneParagraph(before.ended[m])
    BY <1>1
  <2>4. h \o p = ready \o rest
    BY <1>2
  <2>5. Holds(CiteMore, before.current \o ready, rest)
    BY <1>2
  <2>6. split = Paragraphs(ready) /\ after = ReadOn(before, split)
    BY <1>2
  <2> HIDE DEF h, split
  <2>7. ReadsOn(before, h, p, rest, after)
    BY <2>1, <2>2, <2>3, <2>4, <2>5, <2>6, CiteReads
  <2> QED BY <2>7 DEF ReadsOn
<1>4. w \in Seq(Sign) /\ e \in Seq(Seq(Sign)) /\ h \in Seq(Sign) /\ Holds(CiteMore, w, h)
  BY <1>1 DEF Split, Begun
<1>5. /\ split \in Split /\ Unbroken(split)
      /\ f = <<>> => split.current = ready /\ Along(h, ready)
      /\ f # <<>> => Along(h, f[1])
  <2>1. h \in Seq(Sign) /\ h \o p = ready \o rest /\ split = Paragraphs(ready)
    BY <1>2, <1>4
  <2> HIDE DEF h, split
  <2>2. /\ split \in Split /\ Unbroken(split) /\ Joined(split) = ready
        /\ split.ended = <<>> => split.current = ready /\ Along(h, ready) /\ NoBreak(ready)
        /\ split.ended # <<>> => Along(h, split.ended[1])
    BY <2>1, ReadAlong
  <2> QED BY <2>2
<1>6. /\ f = <<>> => after.ended = e /\ after.current = w \o split.current
      /\ f # <<>> => /\ after.ended = (e \o <<w \o f[1]>>) \o Suffix(f, 2)
                     /\ after.current = split.current
  BY <1>1, <1>5, ReadOnIs
<1>7. PICK d \in Seq(Sign) : Ended(d) /\ Same(d, CitedParagraphs(e, <<>>)) /\ x = d \o a
  BY <1>1
<1>8. split.current \in Seq(Sign) /\ f \in Seq(Seq(Sign))
  BY <1>5 DEF Split
<1>9. none \in Seq(Seq(Sign))
  BY NoSource
<1>10. u \in Seq(Sign) /\ a \in Seq(Sign) /\ Ids(w) \in Seq(Seq(Sign))
  BY <1>4, <1>8, <1>9, TextsAre
<1>11. begun \in Seq(Seq(Sign))
  <2>1. Extend(none, Ids(w)) \in Seq(Seq(Sign))
    <3> HIDE DEF none, w
    <3> QED BY <1>9, <1>10, ExtendAre
  <2> QED BY <1>1, <2>1
<1>12. CASE f = <<>>
  <2>1. split.current = ready /\ Along(h, ready)
    BY <1>5, <1>12
  <2>2. Unmarked(w \o ready) = a \o u /\ Extend(<<>>, Ids(w \o ready)) = Extend(begun, Ids(ready))
    <3>1. /\ Unmarked(w \o ready) = Unmarked(w) \o Unmarked(ready)
          /\ Extend(<<>>, Ids(w \o ready)) = Extend(Extend(<<>>, Ids(w)), Ids(ready))
      <4> HIDE DEF w, h
      <4> QED BY <1>4, <2>1, CiteOn
    <3> QED BY <1>1, <2>1, <3>1
  <2>3. c.out = u
    <3>1. CitedParagraphs(<<>>, begun) = <<>>
      <4>1. \A b \in Seq(Seq(Sign)) : CitedParagraphs(<<>>, b) = <<>>
        <5>1. <<>> \in Seq(Sign)
          OBVIOUS
        <5> QED BY <5>1, CitedOne
      <4> QED BY <1>11, <4>1
    <3>2. <<>> \o u = u
      <4> HIDE DEF u
      <4> QED BY <1>10
    <3> QED BY <1>2, <1>12, <3>1, <3>2
  <2>4. x \o u = d \o Unmarked(after.current)
    <3> HIDE DEF a, u
    <3>1. Three(d, a, u)
      BY <1>10, ThreeJoin
    <3>2. after.current = w \o ready
      BY <1>6, <1>12, <2>1
    <3> QED BY <1>7, <2>2, <3>1, <3>2 DEF Three
  <2>5. c.state.cited = Extend(<<>>, Ids(after.current))
    BY <1>2, <1>6, <1>12, <2>1, <2>2
  <2>6. Same(d, CitedParagraphs(after.ended, <<>>))
    BY <1>6, <1>7, <1>12
  <2>7. CitedSo(after, c.state, x \o c.out)
    <3>1. x \o c.out = d \o Unmarked(after.current)
      BY <2>3, <2>4
    <3>2. Begun(after.current, c.state.held)
      BY <1>2, <1>3
    <3> HIDE DEF w, e, h, split, f, u, a, begun, none
    <3> QED BY <1>3, <1>7, <2>5, <2>6, <3>1, <3>2 DEF CitedSo
  <2> QED BY <1>2, <1>3, <1>10, <2>3, <2>7 DEF CiteGoes
<1>13. CASE f # <<>>
  <2> DEFINE s == f[1]
             r == Suffix(f, 2)
             o == OneCited(s, begun)
             q == CitedParagraphs(r, none)
             z == (d \o (a \o o)) \o q
  <2>1. s \in Seq(Sign) /\ r \in Seq(Seq(Sign)) /\ f = <<s>> \o r
    BY <1>5, <1>13, FirstEnded
  <2>2. Along(h, s)
    BY <1>5, <1>13
  <2>3. Apart(w, s) /\ SpaceStays(w, s)
    <3> HIDE DEF w, h, s
    <3> QED BY <1>4, <2>1, <2>2, CiteOn
  <2> HIDE DEF f, s, r
  <2>4. o \in Seq(Sign) /\ q \in Seq(Sign)
    <3>1. o \in Seq(Sign)
      BY <1>11, <2>1, OneCitedIs
    <3>2. q \in Seq(Sign)
      BY <1>9, <2>1, CitedPartsAre
    <3> QED BY <3>1, <3>2
  <2>5. CitedParagraphs(f, begun) = o \o q
    <3> DEFINE one == <<s>>
    <3>1. one \in Seq(Seq(Sign)) /\ one # <<>>
      BY <2>1, Single
    <3>2. CitedParagraphs(one, begun) = o
      BY <1>11, <2>1, CitedOne
    <3> HIDE DEF one, begun
    <3>3. CitedParagraphs(one \o r, begun) = CitedParagraphs(one, begun) \o CitedParagraphs(r, <<>>)
      BY <1>11, <2>1, <3>1, CitedJoin
    <3> QED BY <2>1, <3>2, <3>3 DEF one
  <2>6. /\ z \in Seq(Sign) /\ Ended(z)
        /\ Same(z, CitedParagraphs((e \o <<w \o s>>) \o r, <<>>))
    <3>1. z = (d \o (Unmarked(w) \o OneCited(s, begun))) \o CitedParagraphs(r, <<>>)
      OBVIOUS
    <3>2. Ended(d) /\ Same(d, CitedParagraphs(e, <<>>)) /\ begun = Extend(<<>>, Ids(w))
      BY <1>1, <1>7
    <3> HIDE DEF z, w, e, begun
    <3> QED BY <1>4, <2>1, <2>3, <3>1, <3>2, CiteEnds
  <2>7. x \o c.out = z \o u
    <3>1. c.out = (o \o q) \o u
      BY <1>2, <2>5
    <3> HIDE DEF a, u, o, q
    <3>2. FiveLate(d, a, o, q, u)
      BY <1>10, <2>4, RegroupLate
    <3> QED BY <1>7, <3>1, <3>2 DEF FiveLate
  <2>8. after.ended = (e \o <<w \o s>>) \o r /\ after.current = split.current
    BY <1>6, <1>13 DEF s, r
  <2>9. c.state.cited = Extend(<<>>, Ids(after.current))
    BY <1>2, <1>13, <2>8
  <2>10. c.out \in Seq(Sign)
    <3> DEFINE oq == o \o q
    <3>1. c.out = oq \o u
      BY <1>2, <2>5
    <3> HIDE DEF o, q, u
    <3>2. oq \in Seq(Sign)
      BY <2>4, Joining
    <3> HIDE DEF oq
    <3>3. oq \o u \in Seq(Sign)
      BY <1>10, <3>2, Joining
    <3> QED BY <3>1, <3>3
  <2>11. CitedSo(after, c.state, x \o c.out)
    <3>1. x \o c.out = z \o Unmarked(after.current)
      BY <2>7, <2>8
    <3>2. Begun(after.current, c.state.held)
      BY <1>2, <1>3
    <3>3. z \in Seq(Sign) /\ Ended(z) /\ Same(z, CitedParagraphs(after.ended, <<>>))
      BY <2>6, <2>8
    <3> HIDE DEF w, e, h, split, u, a, begun, none, z
    <3> QED BY <1>3, <2>9, <3>1, <3>2, <3>3 DEF CitedSo
  <2> QED BY <1>2, <1>3, <2>10, <2>11 DEF CiteGoes
<1> QED BY <1>12, <1>13

-----------------------------------------------------------------------------
\* The end of the answer, as it is read whole.

\* What goes out at the end reads like the paragraphs read whole.
EndRead(before, h, x, last, after) ==
  /\ after \in Split /\ last \in Seq(Sign)
  /\ OneParagraph(after.current)
  /\ \A m \in DOMAIN after.ended : OneParagraph(after.ended[m])
  /\ Joined(after) = Joined(before) \o h
  /\ Same(x \o last, CitedWhole(after))

\* What it holds follows with the citations of the last paragraph.
LEMMA CiteRest ==
  ASSUME NEW before, NEW state, NEW x, CitedSo(before, state, x),
         NEW last, last = Cite(state.held, state.cited),
         NEW after, after = [before EXCEPT !.current = @ \o state.held]
  PROVE  EndRead(before, state.held, x, last, after)
<1> DEFINE w == before.current
           e == before.ended
           h == state.held
           a == Unmarked(w)
           cited == state.cited
           none == <<>>
           g == CitedParagraphs(e, none)
           v == w \o h
<1>1. /\ before \in Split /\ Begun(w, h) /\ cited = Extend(<<>>, Ids(w))
      /\ \A m \in 1 .. Len(e) : OneParagraph(e[m])
      /\ \E d \in Seq(Sign) :
           Ended(d) /\ Same(d, CitedParagraphs(e, <<>>)) /\ x = d \o a
  BY DEF CitedSo
<1>2. PICK d \in Seq(Sign) : Ended(d) /\ Same(d, g) /\ x = d \o a
  BY <1>1
<1>3. w \in Seq(Sign) /\ e \in Seq(Seq(Sign)) /\ h \in Seq(Sign) /\ Holds(CiteMore, w, h)
  BY <1>1 DEF Split, Begun
<1>4. none \in Seq(Seq(Sign)) /\ none \in Seq(Sign)
  <2>1. none \in Seq(Seq(Sign))
    BY NoSource
  <2> QED BY <2>1
<1>5. a \in Seq(Sign) /\ Ids(w) \in Seq(Seq(Sign))
  BY <1>3, <1>4, TextsAre
<1>6. cited \in Seq(Seq(Sign))
  <2>1. Extend(none, Ids(w)) \in Seq(Seq(Sign))
    <3> HIDE DEF none, w
    <3> QED BY <1>4, <1>5, ExtendAre
  <2> QED BY <1>1, <2>1
<1>7. after = [ended |-> e, current |-> v]
  <2>1. before = [ended |-> e, current |-> w]
    BY <1>1 DEF Split
  <2> QED BY <2>1
<1>8. v \in Seq(Sign)
  <2> HIDE DEF w, h
  <2> QED BY <1>3, Joining
<1> HIDE DEF v
<1>9. after \in Split /\ after.ended = e /\ after.current = v
  <2>1. e \in Seq(Seq(Sign)) /\ v \in Seq(Sign)
    BY <1>3, <1>8
  <2> HIDE DEF e
  <2>2. after.ended = e /\ after.current = v
    BY <1>7
  <2>3. after \in Split
    <3>1. [ended |-> e, current |-> v] \in Split
      BY <2>1 DEF Split
    <3> QED BY <1>7, <3>1 DEF e
  <2> QED BY <2>2, <2>3
<1>10. last \in Seq(Sign)
  <2> HIDE DEF h, cited
  <2> QED BY <1>3, <1>6, CiteIs DEF h, cited
<1>11. OneParagraph(after.current)
  <2>1. h = <<>> \/ h \in CiteMore
    BY <1>3 DEF Holds
  <2>2. NoBreak(h) \/ h = Break
    <3>1. NoBreak(<<>>)
      <4>1. Len(<<>>) = 0
        OBVIOUS
      <4> QED BY <4>1 DEF NoBreak
    <3>2. h \in CiteMore => (h = Break \/ NoBreak(h))
      BY HeldUnbroken
    <3> QED BY <2>1, <3>1, <3>2
  <2>3. Along(h, h)
    BY AlongItself
  <2>4. OneParagraph(w \o h)
    <3> HIDE DEF w, h
    <3> QED BY <1>1, <1>3, <2>2, <2>3, BegunOn
  <2> QED BY <1>9, <2>4 DEF v
<1>12. \A m \in DOMAIN after.ended : OneParagraph(after.ended[m])
  <2>1. DOMAIN e = 1 .. Len(e)
    <3> HIDE DEF e
    <3> QED BY <1>3
  <2> QED BY <1>1, <1>9, <2>1
<1>13. Joined(after) = Joined(before) \o h
  <2> DEFINE b == EndedText(e)
  <2>1. Joined(after) = b \o v /\ Joined(before) = b \o w
    BY <1>9, JoinedIs
  <2>2. b \in Seq(Sign)
    BY <1>3, EndedPartsAre
  <2> HIDE DEF b, w, h
  <2>3. Three(b, w, h)
    BY <1>3, <2>2, ThreeJoin
  <2> QED BY <2>1, <2>3 DEF Three, v
<1>14. Same(x \o last, CitedWhole(after))
  <2> DEFINE c == Cite(a \o h, cited)
             al == a \o last
  <2>1. Ids(v) = Ids(w) /\ Unmarked(v) = a \o h
    <3>1. Along(h, h)
      BY AlongItself
    <3>2. Apart(w, h) /\ SpaceStays(w, h) /\ Unmarked(w \o h) = Unmarked(w) \o Unmarked(h)
      <4> HIDE DEF w, h
      <4> QED BY <1>3, <3>1, CiteOn
    <3>3. Ids(h) = <<>> /\ Unmarked(h) = h
      <4>1. h = <<>> \/ h \in CiteMore
        BY <1>3 DEF Holds
      <4> HIDE DEF h, none
      <4> QED BY <1>3, <1>4, <4>1, HeldReads
    <3>4. Ids(w \o h) = Ids(w) \o Ids(h)
      <4> HIDE DEF w, h
      <4> QED BY <1>3, <3>2, IdsJoin
    <3>5. Ids(w) \o <<>> = Ids(w)
      <4> DEFINE i == Ids(w)
      <4>1. i \in Seq(Seq(Sign))
        BY <1>5
      <4> HIDE DEF i
      <4>2. i \o <<>> = i
        BY <4>1
      <4> QED BY <4>2 DEF i
    <3> QED BY <3>2, <3>3, <3>4, <3>5 DEF v
  <2>2. CitedWhole(after) = g \o c
    <3>1. CitedWhole(after) = CitedParagraphs(after.ended, <<>>)
                                \o Cite(Unmarked(after.current), Extend(<<>>, Ids(after.current)))
      BY DEF CitedWhole
    <3>2. Extend(<<>>, Ids(after.current)) = cited
      BY <1>1, <1>9, <2>1
    <3>3. Unmarked(after.current) = a \o h
      BY <1>9, <2>1
    <3> HIDE DEF a, h, cited
    <3> QED BY <1>9, <3>1, <3>2, <3>3
  <2>3. last = Cite(h, cited)
    OBVIOUS
  <2>4. al \in Seq(Sign) /\ c \in Seq(Sign) /\ Same(al, c)
    <3> HIDE DEF a, h, cited
    <3>1. a \o h \in Seq(Sign)
      BY <1>3, <1>5, Joining
    <3>2. c \in Seq(Sign)
      <4> DEFINE ah == a \o h
      <4>1. ah \in Seq(Sign)
        BY <3>1
      <4> HIDE DEF ah
      <4>2. Cite(ah, cited) \in Seq(Sign)
        BY <1>6, <4>1, CiteIs
      <4> QED BY <4>2 DEF ah
    <3>3. al \in Seq(Sign)
      BY <1>5, <1>10, Joining
    <3>4. Same((a \o Cite(h, cited)) \o none, Cite(a \o h, cited) \o none)
      <4> HIDE DEF none
      <4> QED BY <1>3, <1>4, <1>5, <1>6, CiteLate
    <3>5. \A t \in Seq(Sign) : t \o none = t
      OBVIOUS
    <3> HIDE DEF none, c, al
    <3>6. al \o none = al /\ c \o none = c
      BY <3>2, <3>3, <3>5
    <3>7. Same(al \o none, c \o none)
      BY <2>3, <3>4 DEF al, c
    <3> QED BY <3>2, <3>3, <3>6, <3>7
  <2>5. g \in Seq(Sign) /\ Ended(g)
    BY <1>3, <1>4, CitedEnded
  <2> HIDE DEF g, c, al
  <2>6. Same(d \o al, g \o c)
    BY <1>2, <2>4, <2>5, SameEnded
  <2>7. x \o last = d \o al
    <3> HIDE DEF a
    <3>1. Three(d, a, last)
      BY <1>5, <1>10, ThreeJoin
    <3> QED BY <1>2, <3>1 DEF Three, al
  <2> QED BY <2>2, <2>6, <2>7
<1> QED BY <1>9, <1>10, <1>11, <1>12, <1>13, <1>14 DEF EndRead

-----------------------------------------------------------------------------
\* The invariant.

\* The three filters: what cite_per_paragraph has put out, CitationNumbers has
\* been given, and what that has put out, StreamReveal.
Filtered ==
  \E x, n : CitedSo(read, cites, x) /\ Numbered(x, numbers, n) /\ Revealing(n, tail, shown)

AnswerInv ==
  /\ draft \in Seq(Sign) /\ over \in BOOLEAN
  /\ over => draft = <<>>
  /\ ~over => Filtered /\ answer = (Joined(read) \o cites.held) \o draft
  /\ ReadsAsWritten

\* After nothing, a filter holds nothing.
LEMMA NothingHeld ==
  ASSUME NEW M
  PROVE  Holds(M, <<>>, <<>>)
<1>1. Len(<<>>) = 0
  OBVIOUS
<1> QED BY <1>1 DEF Holds

\* At first nothing has been read.
LEMMA AnswerInvInit == AnswerInit => AnswerInv
<1> SUFFICES ASSUME AnswerInit PROVE AnswerInv
  OBVIOUS
<1> DEFINE none == <<>>
<1>1. /\ cites.held = none /\ cites.cited = none /\ numbers.held = none /\ numbers.cited = none
      /\ tail = none /\ shown = none /\ read = Empty /\ over = FALSE
      /\ draft \in Drafts /\ answer = draft
  BY DEF AnswerInit, Empty
<1>2. draft \in Seq(Sign)
  <2>1. draft \in Seq(Symbol)
    BY <1>1, AnswerTextAssumption
  <2>2. Symbol \subseteq Sign
    BY Signs
  <2> QED BY <2>1, <2>2
<1>3. Empty \in Split /\ Joined(Empty) = none /\ Empty.ended = none /\ Empty.current = none
  BY EmptyIs DEF Splits, Empty
<1>4. none \in Seq(Sign) /\ none \in Seq(Seq(Sign)) /\ Len(none) = 0
  BY NoSource
<1>5. Ids(none) = none /\ Unmarked(none) = none
  <2>1. \A cited \in Seq(Seq(Sign)) : Ids(<<>>) = <<>> /\ Unmarked(<<>>) = <<>>
    BY NothingReads
  <2> QED BY <1>4, <2>1
<1>6. KnownOnly(none) = none /\ Extend(none, none) = none
  <2> HIDE DEF none
  <2>1. KnownOnly(<<>>) = <<>> /\ Extend(none, <<>>) = none
    BY <1>4, ExtendNone
  <2> QED BY <2>1 DEF none
<1>7. CitedParagraphs(none, none) = none
  <2>1. \A p \in Seq(Sign), b \in Seq(Seq(Sign)) : CitedParagraphs(<<>>, b) = <<>>
    BY CitedOne
  <2> QED BY <1>4, <2>1
<1>8. Begun(none, none)
  <2>1. Holds(CiteMore, none, none)
    BY NothingHeld
  <2>2. NoBreak(none)
    BY <1>4 DEF NoBreak
  <2>3. ~EndsBreak(none)
    BY <1>4 DEF EndsBreak
  <2> HIDE DEF none
  <2>4. OneParagraph(none)
    BY <1>4, <2>2, UnbrokenOne
  <2> QED BY <1>4, <2>1, <2>3, <2>4 DEF Begun
<1>9. none \o none = none
  OBVIOUS
<1>10. CitedSo(read, cites, none)
  <2>1. Ended(none)
    BY DEF Ended
  <2>2. Same(none, none)
    BY SameAs
  <2> HIDE DEF none
  <2>3. read \in Split /\ Begun(read.current, cites.held)
    BY <1>1, <1>3, <1>8
  <2>4. cites.cited = Extend(none, Ids(read.current))
    BY <1>1, <1>3, <1>5, <1>6
  <2>5. Same(none, CitedParagraphs(read.ended, none)) /\ none = none \o Unmarked(read.current)
    BY <1>1, <1>3, <1>5, <1>7, <1>9, <2>2
  <2>6. \A m \in 1 .. Len(read.ended) : OneParagraph(read.ended[m])
    BY <1>1, <1>3, <1>4
  <2> QED BY <1>4, <2>1, <2>3, <2>4, <2>5, <2>6 DEF CitedSo, none
<1>11. Renumbered(none, none) = none /\ CitedIn(none) = none /\ Revealed(none) = none
  <2>1. none \in Seq(Blank)
    OBVIOUS
  <2> HIDE DEF none
  <2>2. Renumbered(none, none) = none /\ Revealed(none) = none
    BY <1>4, <2>1, Blanks
  <2> QED BY <1>5, <1>6, <2>2 DEF CitedIn, none
<1>12. Numbered(none, numbers, none)
  <2>1. Holds(NumberMore, none, none)
    BY NothingHeld
  <2> HIDE DEF none
  <2> QED BY <1>1, <1>4, <1>9, <1>11, <2>1 DEF Numbered
<1>13. Revealing(none, tail, shown)
  <2>1. Holds(TagMore, none, none)
    BY NothingHeld
  <2> HIDE DEF none
  <2> QED BY <1>1, <1>4, <1>9, <1>11, <2>1 DEF Revealing
<1>14. Filtered
  BY <1>10, <1>12, <1>13 DEF Filtered
<1>15. answer = (Joined(read) \o cites.held) \o draft
  <2>1. none \o draft = draft
    BY <1>2
  <2> HIDE DEF none
  <2> QED BY <1>1, <1>3, <1>9, <2>1
<1>16. ReadsAsWritten
  BY <1>1 DEF ReadsAsWritten
<1> QED BY <1>1, <1>2, <1>14, <1>15, <1>16 DEF AnswerInv

\* One more piece through the three filters.
LEMMA WriteKeeps == AnswerInv /\ Write => AnswerInv'
<1> SUFFICES ASSUME AnswerInv, Write PROVE AnswerInv'
  OBVIOUS
<1>1. /\ draft # <<>> /\ answer' = answer /\ over' = over
      /\ draft \in Seq(Sign) /\ ~over
  BY DEF AnswerInv, Write
<1>2. answer = (Joined(read) \o cites.held) \o draft
  BY <1>1 DEF AnswerInv
<1>3. PICK x, n : CitedSo(read, cites, x) /\ Numbered(x, numbers, n) /\ Revealing(n, tail, shown)
  BY <1>1 DEF AnswerInv, Filtered
<1>4. PICK k \in 1 .. MaxPiece :
        /\ k <= Len(draft)
        /\ LET cite   == CitePiece(cites, SubSeq(draft, 1, k))
               number == NumberPiece(numbers, cite.out)
               reveal == RevealPiece(tail, number.out)
           IN  /\ draft' = Suffix(draft, k + 1)
               /\ cites' = cite.state
               /\ read' = ReadOn(read, cite.read)
               /\ numbers' = number.state
               /\ tail' = reveal.held
               /\ shown' = shown \o reveal.out
  BY DEF Write
<1> DEFINE p == SubSeq(draft, 1, k)
           rest == Suffix(draft, k + 1)
           cite == CitePiece(cites, p)
           number == NumberPiece(numbers, cite.out)
           reveal == RevealPiece(tail, number.out)
<1>5. /\ draft' = rest /\ cites' = cite.state /\ read' = ReadOn(read, cite.read)
      /\ numbers' = number.state /\ tail' = reveal.held /\ shown' = shown \o reveal.out
  BY <1>4
<1>6. p \in Seq(Sign) /\ rest \in Seq(Sign) /\ draft = p \o rest
  <2>1. k \in Nat /\ k >= 1 /\ k <= Len(draft) /\ Len(draft) \in Nat
    <3>1. MaxPiece \in Nat
      BY AnswerTextAssumption
    <3> QED BY <1>1, <1>4, <3>1
  <2> DEFINE m == k + 1
  <2>2. m \in 1 .. Len(draft) + 1 /\ m - 1 = k
    BY <2>1
  <2> HIDE DEF m
  <2>3. /\ Before(draft, m) \in Seq(Sign) /\ Suffix(draft, m) \in Seq(Sign)
        /\ draft = Before(draft, m) \o Suffix(draft, m)
    BY <1>1, <2>2, Halves
  <2>4. Before(draft, m) = p
    BY <2>2 DEF Before
  <2> QED BY <2>3, <2>4 DEF m
<1> HIDE DEF p, rest
<1>7. /\ cite.out \in Seq(Sign) /\ CitedSo(read', cites', x \o cite.out)
      /\ (Joined(read) \o cites.held) \o p = Joined(read') \o cites'.held
  <2> DEFINE c == cite
             after == ReadOn(read, c.read)
  <2>1. c = CitePiece(cites, p)
    OBVIOUS
  <2>2. after = ReadOn(read, c.read)
    OBVIOUS
  <2> HIDE DEF c, after
  <2>3. CitedSo(read, cites, x)
    BY <1>3
  <2>4. CiteGoes(read, cites, x, p, c, after)
    BY <1>6, <2>1, <2>2, <2>3, CiteStep
  <2>5. read' = after /\ cites' = c.state
    BY <1>5 DEF c, after
  <2>6. cite.out = c.out
    BY DEF c
  <2> HIDE DEF cite
  <2> QED BY <2>4, <2>5, <2>6 DEF CiteGoes
<1> HIDE DEF cite
<1> DEFINE y == x \o cite.out
           o == n \o number.out
<1>8. number.out \in Seq(Sign) /\ Numbered(y, numbers', o)
  <2> DEFINE q == cite.out
  <2>1. q \in Seq(Sign) /\ Numbered(x, numbers, n)
    BY <1>3, <1>7
  <2> HIDE DEF q
  <2>2. /\ Numbered(x \o q, NumberPiece(numbers, q).state, n \o NumberPiece(numbers, q).out)
        /\ NumberPiece(numbers, q).out \in Seq(Sign)
    BY <2>1, NumberStep
  <2>3. numbers' = NumberPiece(numbers, q).state
    BY <1>5 DEF q
  <2> QED BY <2>2, <2>3 DEF q
<1> HIDE DEF number, y
<1>9. Revealing(o, tail', shown')
  <2> DEFINE q == number.out
  <2>1. q \in Seq(Sign) /\ Revealing(n, tail, shown)
    BY <1>3, <1>8
  <2> HIDE DEF q
  <2>2. Revealing(n \o q, RevealPiece(tail, q).held, shown \o RevealPiece(tail, q).out)
    BY <2>1, RevealStep
  <2>3. tail' = RevealPiece(tail, q).held /\ shown' = shown \o RevealPiece(tail, q).out
    BY <1>5 DEF q
  <2> QED BY <2>2, <2>3 DEF q
<1> HIDE DEF o
<1>10. Filtered'
  BY <1>7, <1>8, <1>9 DEF Filtered, y
<1>11. answer' = (Joined(read') \o cites'.held) \o draft'
  <2> DEFINE g == Joined(read) \o cites.held
             j == Joined(read)
  <2>1. g \in Seq(Sign)
    <3>1. read \in Split /\ cites.held \in Seq(Sign)
      BY <1>3 DEF CitedSo, Begun
    <3>2. Unbroken(Empty) /\ Empty \in Split
      BY EmptyIs DEF Splits
    <3>3. j \in Seq(Sign)
      BY <3>1, <3>2, ReadOnJoined
    <3> HIDE DEF j
    <3>4. j \o cites.held \in Seq(Sign)
      <4> DEFINE h == cites.held
      <4>1. h \in Seq(Sign)
        BY <3>1
      <4> HIDE DEF h
      <4>2. j \o h \in Seq(Sign)
        BY <3>3, <4>1, Joining
      <4> QED BY <4>2 DEF h
    <3> QED BY <3>4 DEF j
  <2>2. answer = g \o draft /\ g \o p = Joined(read') \o cites'.held
    BY <1>2, <1>7
  <2> HIDE DEF g
  <2>3. Three(g, p, rest)
    BY <1>6, <2>1, ThreeJoin
  <2>4. (g \o p) \o rest = g \o (p \o rest)
    BY <2>3 DEF Three
  <2>5. answer' = (g \o p) \o draft'
    BY <1>1, <1>5, <1>6, <2>2, <2>4
  <2> QED BY <2>2, <2>5
<1>12. draft' \in Seq(Sign) /\ over' = FALSE
  BY <1>1, <1>5, <1>6 DEF AnswerInv
<1>13. ReadsAsWritten'
  BY <1>12 DEF ReadsAsWritten
<1> QED BY <1>10, <1>11, <1>12, <1>13 DEF AnswerInv

\* What follows the last piece.
LEMMA FinishKeeps == AnswerInv /\ Finish => AnswerInv'
<1> SUFFICES ASSUME AnswerInv, Finish PROVE AnswerInv'
  OBVIOUS
<1> DEFINE last == Cite(cites.held, cites.cited)
           number == NumberPiece(numbers, last)
           rest == Renumbered(number.state.held, number.state.cited)
           asked == NumberPiece([number.state EXCEPT !.held = <<>>], Question)
           reveal == RevealPiece(tail, number.out \o rest \o asked.out)
           whole == CitedWhole(read')
<1>1. /\ draft = <<>> /\ ~over /\ over' = TRUE /\ draft' = draft /\ answer' = answer
      /\ read' = [read EXCEPT !.current = @ \o cites.held]
  BY DEF Finish
<1>2. shown' = shown \o reveal.out \o reveal.held
  BY DEF Finish
<1>3. answer = (Joined(read) \o cites.held) \o draft
  BY <1>1 DEF AnswerInv
<1>4. PICK x, n : CitedSo(read, cites, x) /\ Numbered(x, numbers, n) /\ Revealing(n, tail, shown)
  BY <1>1 DEF AnswerInv, Filtered
<1>5. EndRead(read, cites.held, x, last, read')
  <2> DEFINE after == [read EXCEPT !.current = @ \o cites.held]
  <2>1. last = Cite(cites.held, cites.cited) /\ after = [read EXCEPT !.current = @ \o cites.held]
    OBVIOUS
  <2> HIDE DEF last, after
  <2>2. CitedSo(read, cites, x)
    BY <1>4
  <2>3. EndRead(read, cites.held, x, last, after)
    BY <2>1, <2>2, CiteRest
  <2> QED BY <1>1, <2>1, <2>3
<1>6. /\ read' \in Split /\ last \in Seq(Sign)
      /\ OneParagraph(read'.current)
      /\ \A m \in DOMAIN read'.ended : OneParagraph(read'.ended[m])
      /\ Joined(read') = Joined(read) \o cites.held
      /\ Same(x \o last, whole)
  BY <1>5 DEF EndRead
<1> DEFINE y == x \o last
           t == Revealed(Renumbered(y, CitedIn(y)))
<1>7. y \in Seq(Sign) /\ shown' = t \o Question
  <2>1. Numbered(x, numbers, n) /\ Revealing(n, tail, shown) /\ last \in Seq(Sign)
    BY <1>4, <1>6
  <2>2. number = NumberPiece(numbers, last)
        /\ rest = Renumbered(number.state.held, number.state.cited)
        /\ asked = NumberPiece([number.state EXCEPT !.held = <<>>], Question)
        /\ reveal = RevealPiece(tail, number.out \o rest \o asked.out)
    OBVIOUS
  <2> HIDE DEF last, number, rest, asked, reveal
  <2>3. ShownAll(x \o last, shown, reveal)
    BY <2>1, <2>2, AllShown
  <2> QED BY <1>2, <2>3 DEF ShownAll
<1> HIDE DEF last, y
<1>8. <<>> \in Seq(Seq(Sign)) /\ CitedIn(y) \in Seq(Seq(Sign))
  BY <1>7, NoSource, CitedAre
<1>9. t \in Seq(Sign)
  <2> DEFINE cited == CitedIn(y)
             r == Renumbered(y, cited)
  <2>1. cited \in Seq(Seq(Sign))
    BY <1>8
  <2> HIDE DEF cited
  <2>2. r \in Seq(Sign)
    BY <1>7, <2>1, TextsAre
  <2> HIDE DEF r
  <2>3. Revealed(r) \in Seq(Sign)
    BY <2>1, <2>2, TextsAre
  <2> QED BY <2>3 DEF r, cited
<1>10. Unspaced(shown') = Unspaced(t) \o Unspaced(Question)
  <2>1. Question \in Seq(Sign)
    BY QuestionIs
  <2> HIDE DEF t
  <2> QED BY <1>7, <1>9, <2>1, LettersJoin
<1>11. Unspaced(t) = Unspaced(ReadWhole(read'))
  <2>1. Ids(y) = Ids(whole) /\ \A c \in Seq(Seq(Sign)) : Reads(y, c) = Reads(whole, c)
    BY <1>6 DEF Same, y
  <2>2. CitedIn(whole) = CitedIn(y)
    BY <2>1 DEF CitedIn
  <2>3. Unspaced(t) = Reads(y, CitedIn(y))
    BY DEF Reads
  <2>4. ReadWhole(read') = Revealed(Renumbered(whole, CitedIn(whole)))
    BY DEF ReadWhole, CitedIn
  <2>5. Unspaced(ReadWhole(read')) = Reads(whole, CitedIn(whole))
    BY <2>4 DEF Reads
  <2> QED BY <1>8, <2>1, <2>2, <2>3, <2>5
<1>12. answer' = Joined(read')
  <2> DEFINE g == Joined(read) \o cites.held
  <2>1. g \in Seq(Sign)
    <3>1. g = Joined(read') /\ read' \in Split
      BY <1>6
    <3> DEFINE after == read'
    <3>2. after \in Split /\ Empty \in Split /\ Unbroken(Empty)
      BY <3>1, EmptyIs DEF Splits
    <3> HIDE DEF after
    <3>3. Joined(after) \in Seq(Sign)
      BY <3>2, ReadOnJoined
    <3> QED BY <3>1, <3>3 DEF after
  <2>2. answer = g \o draft /\ Joined(read') = g
    BY <1>3, <1>6
  <2> HIDE DEF g
  <2>3. g \o <<>> = g
    BY <2>1
  <2> QED BY <1>1, <2>2, <2>3
<1>13. ReadsAsWritten'
  BY <1>6, <1>10, <1>11, <1>12 DEF ReadsAsWritten
<1> QED BY <1>1, <1>13 DEF AnswerInv

\* And when nothing happens.
LEMMA StutterKeeps == AnswerInv /\ UNCHANGED avars => AnswerInv'
<1> SUFFICES ASSUME AnswerInv, UNCHANGED avars PROVE AnswerInv'
  OBVIOUS
<1>1. /\ draft' = draft /\ cites' = cites /\ numbers' = numbers /\ tail' = tail
      /\ shown' = shown /\ answer' = answer /\ read' = read /\ over' = over
  BY DEF avars
<1>2. ReadsAsWritten'
  BY <1>1 DEF AnswerInv, ReadsAsWritten
<1>3. ~over' => Filtered'
  BY <1>1 DEF AnswerInv, Filtered
<1> QED BY <1>1, <1>2, <1>3 DEF AnswerInv

\* However the model cuts its answer into pieces, the farmer reads what the
\* answer says when it is read whole (stream_response: cite_per_paragraph,
\* CitationNumbers, StreamReveal), for any drafts, sources, tags and question.
THEOREM WrittenIsRead == AnswerSpec => []ReadsAsWritten
<1>1. AnswerInit => AnswerInv
  BY AnswerInvInit
<1>2. AnswerInv /\ [AnswerNext]_avars => AnswerInv'
  BY WriteKeeps, FinishKeeps, StutterKeeps DEF AnswerNext
<1>3. AnswerInv => ReadsAsWritten
  BY DEF AnswerInv
<1> QED BY <1>1, <1>2, <1>3, PTL DEF AnswerSpec
=============================================================================
