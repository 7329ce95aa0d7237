---------------------------- MODULE PlannerProofs ----------------------------
(***************************************************************************)
(* Planner's safety properties and its refinement of Gathering, for any    *)
(* asks, candidates, offers and any number of tool calls; and what a select *)
(* asks for (Selecting), for any packs and whatever the model writes.      *)
(***************************************************************************)
EXTENDS Planner, Selecting, ListsProofs

Call == [tool  : {"select", "select_next"},
         ask   : Asks,
         picks : {NoPick} \cup Candidates,
         stage : {"requested", "consulting", "done"},
         slots : Seq(Candidates),
         got   : [Candidates -> {"unasked"} \cup Return]]

\* The type of every variable.
PlannerTypeOK ==
  /\ offers \in [Asks -> Seq(Candidates)]
  /\ ranked \subseteq Asks /\ placed \subseteq Asks
  /\ running \in {"model", "tools", "ended", "broken"}
  /\ calls \in Seq(Call)
  /\ answers \subseteq Asks \X Candidates
  /\ failures \subseteq Asks \X Candidates
  /\ waiting \in [Asks -> Seq(Candidates)]

\* A candidate the ask's calls may consult: offered for it, with a place to
\* ask about unless its pack needs none.
May(a, c) == c \in InOffer(a) /\ (a \in placed \/ TypeOf[c] \in PlaceFree)

\* How far a call is says what it has consulted, and what it consults is what
\* its ask may: the place was checked for the pick, and the ranked candidates
\* beside it are of the pick's @type.
CallInv(call) ==
  /\ call.stage # "done" => call.got = Unasked
  /\ call.stage = "requested" => call.slots = <<>>
  /\ call.stage = "consulting" => call.slots # <<>>
  /\ \A c \in ToSet(call.slots) : May(call.ask, c)
  /\ \A c \in Candidates : call.got[c] # "unasked" => c \in ToSet(call.slots)

CallsInv == \A i \in DOMAIN calls : CallInv(calls[i])

-----------------------------------------------------------------------------
LEMMA CallType ==
  ASSUME PlannerTypeOK, NEW i \in DOMAIN calls
  PROVE  calls[i] \in Call
<1>1. calls \in Seq(Call)
  BY DEF PlannerTypeOK
<1> QED BY <1>1

\* What a select consults is offered for its ask, and is never nobody.
LEMMA ConsultingFacts ==
  ASSUME PlannerTypeOK, NEW i \in DOMAIN calls, Callable(i)
  PROVE  /\ Consulting(i) \in Seq(Candidates) /\ Consulting(i) # <<>>
         /\ \A c \in ToSet(Consulting(i)) : May(calls[i].ask, c)
<1> DEFINE a == calls[i].ask
           p == calls[i].picks
           s == offers[a]
<1>1. a \in Asks /\ s \in Seq(Candidates)
  <2>1. a \in Asks
    BY CallType DEF Call
  <2> QED BY <2>1 DEF PlannerTypeOK
<1>2. p \in ToSet(s) /\ p \in Candidates /\ (a \in placed \/ TypeOf[p] \in PlaceFree)
  BY <1>1 DEF Callable, InOffer, ToSet
<1>3. CASE a \in ranked
  <2> DEFINE K == {c \in Candidates : TypeOf[c] = TypeOf[p]}
  <2>1. Consulting(i) = Keep(s, K)
    BY <1>3 DEF Consulting
  <2>2. Keep(s, K) \in Seq(Candidates) /\ ToSet(Keep(s, K)) = ToSet(s) \cap K
    <3> HIDE DEF s, K
    <3> QED BY <1>1, KeepPlaces, KeepMembers
  <2>3. p \in ToSet(Keep(s, K))
    BY <1>2, <2>2
  <2>4. Keep(s, K) # <<>>
    BY <2>3 DEF ToSet
  <2>5. \A c \in ToSet(Keep(s, K)) : May(a, c)
    BY <1>2, <2>2 DEF May, InOffer
  <2> QED BY <2>1, <2>2, <2>4, <2>5
<1>4. CASE a \notin ranked
  <2>1. Consulting(i) = <<p>>
    BY <1>4 DEF Consulting
  <2>2. \A c \in ToSet(<<p>>) : c = p
    BY DEF ToSet
  <2> QED BY <1>2, <2>1, <2>2 DEF May, InOffer
<1> QED BY <1>3, <1>4

\* What a consultation leaves to use: the providers that came back with data.
LEMMA WithDataFacts ==
  ASSUME NEW slots \in Seq(Candidates), NEW got \in [ToSet(slots) -> Return]
  PROVE  /\ WithData(slots, got) \in Seq(Candidates)
         /\ \A c : c \in ToSet(WithData(slots, got))
                     <=> c \in ToSet(slots) /\ got[c] = "data"
         /\ WithData(slots, got) = <<>> <=> \A c \in ToSet(slots) : got[c] # "data"
<1> DEFINE K == {c \in DOMAIN got : got[c] = "data"}
           w == Keep(slots, K)
<1>1. WithData(slots, got) = w
  BY DEF WithData
<1>2. w \in Seq(Candidates) /\ ToSet(w) = ToSet(slots) \cap K
  <2> HIDE DEF K
  <2> QED BY KeepPlaces, KeepMembers
<1>3. \A c : c \in ToSet(w) <=> c \in ToSet(slots) /\ got[c] = "data"
  <2> HIDE DEF w
  <2> QED BY <1>2
<1>4. w = <<>> <=> ToSet(w) = {}
  <2> HIDE DEF w
  <2> QED BY <1>2 DEF ToSet
<1>5. w = <<>> <=> \A c \in ToSet(slots) : got[c] # "data"
  <2> HIDE DEF w
  <2> QED BY <1>3, <1>4
<1> QED BY <1>1, <1>2, <1>3, <1>5

\* The best of a list that is not empty, and the rest of it.
LEMMA HeadAndRest ==
  ASSUME NEW w \in Seq(Candidates), w # <<>>
  PROVE  /\ Head(w) \in ToSet(w) /\ Head(w) \in Candidates
         /\ Tail(w) \in Seq(Candidates) /\ ToSet(Tail(w)) \subseteq ToSet(w)
<1>1. Len(w) \in Nat \ {0} /\ DOMAIN w = 1 .. Len(w)
  BY EmptySeq
<1>2. Head(w) = w[1] /\ 1 \in DOMAIN w
  BY <1>1
<1>3. /\ Tail(w) \in Seq(Candidates) /\ DOMAIN Tail(w) = 1 .. Len(w) - 1
      /\ \A n \in 1 .. Len(w) - 1 : Tail(w)[n] = w[n + 1]
  OBVIOUS
<1>4. \A n \in 1 .. Len(w) - 1 : n + 1 \in DOMAIN w
  BY <1>1
<1> QED BY <1>2, <1>3, <1>4 DEF ToSet

-----------------------------------------------------------------------------
\* One call moves on: the others are as they were.
LEMMA OneCall ==
  ASSUME PlannerTypeOK, CallsInv, UNCHANGED fixed,
         NEW i \in DOMAIN calls, NEW call \in Call, CallInv(call),
         calls' = [calls EXCEPT ![i] = call]
  PROVE  /\ calls' \in Seq(Call) /\ CallsInv'
         /\ DOMAIN calls' = DOMAIN calls /\ calls'[i] = call
         /\ \A j \in DOMAIN calls : j # i => calls'[j] = calls[j]
<1>1. calls \in Seq(Call)
  BY DEF PlannerTypeOK
<1>2. /\ calls' \in Seq(Call) /\ DOMAIN calls' = DOMAIN calls /\ calls'[i] = call
      /\ \A j \in DOMAIN calls : j # i => calls'[j] = calls[j]
  BY <1>1
<1>3. offers' = offers /\ placed' = placed
  BY DEF fixed
<1>4. \A a, c : May(a, c)' = May(a, c)
  BY <1>3 DEF May, InOffer
<1>5. ASSUME NEW j \in DOMAIN calls' PROVE CallInv(calls[j])' 
  <2>1. CASE j = i
    BY <2>1, <1>2, <1>4 DEF CallInv
  <2>2. CASE j # i
    BY <2>2, <1>2, <1>4 DEF CallInv, CallsInv
  <2> QED BY <2>1, <2>2
<1> QED BY <1>2, <1>5 DEF CallsInv

\* A call that moved on keeps its ask, and what providers returned to it.
Carried ==
  \A j \in DOMAIN calls :
    /\ j \in DOMAIN calls' /\ calls'[j].ask = calls[j].ask
    /\ calls'[j].got = calls[j].got \/ calls[j].got = Unasked

\* Some finished select for the ask got data from the candidate.
Said(a, c) == \E i \in DOMAIN calls : calls[i].ask = a /\ calls[i].got[c] = "data"

\* What was said to an ask stays said.
LEMMA SaidStays ==
  ASSUME Carried, NEW a, NEW c \in Candidates, Said(a, c)
  PROVE  Said(a, c)'
<1>1. PICK i \in DOMAIN calls : calls[i].ask = a /\ calls[i].got[c] = "data"
  BY DEF Said
<1>2. calls[i].got # Unasked
  BY <1>1 DEF Unasked
<1>3. i \in DOMAIN calls' /\ calls'[i].ask = a /\ calls'[i].got[c] = "data"
  BY <1>1, <1>2 DEF Carried
<1> QED BY <1>3 DEF Said

\* An answer, or a next choice, is kept, or is data just returned.
LEMMA SaidKept ==
  ASSUME AnswersAreSaid, Carried, UNCHANGED fixed,
         \A a \in Asks, c \in Candidates :
            (<<a, c>> \in answers' \/ c \in ToSet(waiting'[a]))
              => \/ <<a, c>> \in answers \/ c \in ToSet(waiting[a])
                 \/ May(a, c) /\ Said(a, c)',
         waiting' \in [Asks -> Seq(Candidates)]
  PROVE  AnswersAreSaid'
<1>1. \A a \in Asks : ToSet(waiting'[a]) \subseteq Candidates
  BY DEF ToSet
<1>2. \A a, c : May(a, c)' = May(a, c)
  BY DEF May, InOffer, fixed
<1> SUFFICES ASSUME NEW a \in Asks, NEW c \in Candidates,
                    <<a, c>> \in answers' \/ c \in ToSet(waiting'[a])
             PROVE  May(a, c)' /\ Said(a, c)'
  BY <1>1 DEF AnswersAreSaid, May, Said
<1>3. CASE <<a, c>> \in answers \/ c \in ToSet(waiting[a])
  <2>1. May(a, c) /\ Said(a, c)
    BY <1>3 DEF AnswersAreSaid, May, Said
  <2> QED BY <2>1, <1>2, SaidStays
<1>4. CASE May(a, c) /\ Said(a, c)'
  BY <1>4, <1>2
<1> QED BY <1>3, <1>4

\* The two halves of OneFailureCostsNothing.
DataAnswers ==
  \A i \in DOMAIN calls : \A c \in Candidates :
    calls[i].got[c] = "data" => HasData(calls[i].ask)

\* The select a failure was booked for.
Refused(i, pair) ==
  /\ calls[i].ask = pair[1]
  /\ calls[i].got[pair[2]] = "failed"
  /\ \A c \in Candidates : calls[i].got[c] # "data"

FailuresStand == \A pair \in failures : \E i \in DOMAIN calls : Refused(i, pair)

\* The property, as its two halves.
LEMMA Halves == OneFailureCostsNothing <=> DataAnswers /\ FailuresStand
BY DEF OneFailureCostsNothing, DataAnswers, FailuresStand, Refused

\* A failure stands while calls only move on.
LEMMA FailuresStay ==
  ASSUME PlannerTypeOK, FailuresStand, Carried,
         \A pair \in failures' \ failures : \E i \in DOMAIN calls' : Refused(i, pair)'
  PROVE  FailuresStand'
<1> SUFFICES ASSUME NEW pair \in failures' PROVE \E i \in DOMAIN calls' : Refused(i, pair)'
  BY DEF FailuresStand
<1>1. CASE pair \in failures
  <2>1. PICK i \in DOMAIN calls : Refused(i, pair)
    BY <1>1 DEF FailuresStand
  <2>2. pair[2] \in Candidates
    BY <1>1 DEF PlannerTypeOK
  <2>3. calls[i].got # Unasked
    BY <2>1, <2>2 DEF Refused, Unasked
  <2>4. i \in DOMAIN calls' /\ Refused(i, pair)'
    BY <2>1, <2>3 DEF Refused, Carried
  <2> QED BY <2>4
<1>2. CASE pair \notin failures
  BY <1>2
<1> QED BY <1>1, <1>2

\* A step that books no evidence on a call, and costs no ask its answer.
LEMMA DataStays ==
  ASSUME DataAnswers, \A a : HasData(a) => HasData(a)',
         \A j \in DOMAIN calls' :
           \/ j \in DOMAIN calls /\ calls'[j].ask = calls[j].ask
                                 /\ calls'[j].got = calls[j].got
           \/ HasData(calls[j].ask)'
           \/ \A c \in Candidates : calls'[j].got[c] # "data"
  PROVE  DataAnswers'
BY DEF DataAnswers, HasData

-----------------------------------------------------------------------------
\* One lemma for each step that changes anything.

\* The inductive invariant: where every call stands, what is held is data that
\* came back, data answers its ask, and every failure is a refused select's.
PlannerInv ==
  /\ PlannerTypeOK /\ CallsInv /\ AnswersAreSaid /\ DataAnswers /\ FailuresStand

\* Before the first call nothing is held and nothing has failed.
LEMMA PlannerInitInv == Init => PlannerInv
<1> SUFFICES ASSUME Init PROVE PlannerInv
  OBVIOUS
<1>1. PICK turn \in Turns :
        offers = turn.offers /\ ranked = turn.ranked /\ placed = turn.placed
  BY DEF Init
<1>2. turn \in [offers : [Asks -> Seq(Candidates)],
                ranked : SUBSET Asks, placed : SUBSET Asks]
  BY TurnsAssumption
<1>3. /\ offers \in [Asks -> Seq(Candidates)]
      /\ ranked \subseteq Asks /\ placed \subseteq Asks
  BY <1>1, <1>2
<1>4. calls = <<>> /\ DOMAIN calls = {} /\ calls \in Seq(Call)
  BY DEF Init
<1>5. answers = {} /\ failures = {} /\ running = "model"
  BY DEF Init
<1>6. waiting = [a \in Asks |-> <<>>] /\ \A a \in Asks : ToSet(waiting[a]) = {}
  BY DEF Init, ToSet
<1>7. waiting \in [Asks -> Seq(Candidates)]
  BY <1>6
<1>8. PlannerTypeOK
  BY <1>3, <1>4, <1>5, <1>7 DEF PlannerTypeOK
<1>9. AnswersAreSaid
  BY <1>5, <1>6 DEF AnswersAreSaid
<1> QED BY <1>4, <1>5, <1>8, <1>9 DEF PlannerInv, CallsInv, DataAnswers, FailuresStand

\* The model writes one more call.
LEMMA RequestKeeps ==
  ASSUME PlannerInv, NEW tool \in {"select", "select_next"}, NEW a \in Asks,
         NEW c \in {NoPick} \cup Candidates, RequestTool(tool, a, c)
  PROVE  PlannerInv'
<1> DEFINE call == [tool |-> tool, ask |-> a, picks |-> c, stage |-> "requested",
                    slots |-> <<>>, got |-> Unasked]
<1>1. calls' = Append(calls, call) /\ UNCHANGED <<fixed, running, deps>>
  BY DEF RequestTool
<1>2. calls \in Seq(Call)
  BY DEF PlannerInv, PlannerTypeOK
<1>3. call \in Call
  BY DEF Call, Unasked
<1>4. CallInv(call)
  BY DEF CallInv, Unasked, ToSet
<1>5. \A d \in Candidates : call.got[d] # "data"
  BY DEF Unasked
<1> HIDE DEF call
<1>6. /\ calls' \in Seq(Call) /\ DOMAIN calls' = DOMAIN calls \cup {Len(calls) + 1}
      /\ \A j \in DOMAIN calls : calls'[j] = calls[j]
      /\ calls'[Len(calls) + 1] = call
  BY <1>1, <1>2, <1>3
<1>7. /\ offers' = offers /\ ranked' = ranked /\ placed' = placed
      /\ answers' = answers /\ failures' = failures /\ waiting' = waiting
      /\ running' = running
  BY <1>1 DEF fixed, deps
<1>8. PlannerTypeOK'
  BY <1>6, <1>7 DEF PlannerInv, PlannerTypeOK
<1>9. CallsInv'
  <2>1. \A b, d : May(b, d)' = May(b, d)
    BY <1>7 DEF May, InOffer
  <2>2. ASSUME NEW j \in DOMAIN calls' PROVE CallInv(calls[j])'
    <3>1. CASE j \in DOMAIN calls
      <4>1. CallInv(calls[j]) /\ calls'[j] = calls[j]
        BY <3>1, <1>6 DEF PlannerInv, CallsInv
      <4> QED BY <2>1, <4>1 DEF CallInv
    <3>2. CASE j = Len(calls) + 1
      <4>1. calls'[j] = call
        BY <3>2, <1>6
      <4> QED BY <2>1, <1>4, <4>1 DEF CallInv
    <3> QED BY <3>1, <3>2, <1>6
  <2> QED BY <2>2 DEF CallsInv
<1>10. Carried
  BY <1>6 DEF Carried
<1>11. AnswersAreSaid'
  <2>1. AnswersAreSaid /\ UNCHANGED fixed /\ waiting' \in [Asks -> Seq(Candidates)]
    BY <1>1, <1>7 DEF PlannerInv, PlannerTypeOK
  <2> QED BY <2>1, <1>7, <1>10, SaidKept
<1>12. DataAnswers'
  BY <1>5, <1>6, <1>7, DataStays DEF PlannerInv, HasData
<1>13. FailuresStand'
  BY <1>7, <1>10, FailuresStay DEF PlannerInv
<1> QED BY <1>8, <1>9, <1>11, <1>12, <1>13 DEF PlannerInv

\* A call that ends without asking anybody, or is about to ask.
LEMMA QuietCall ==
  ASSUME PlannerInv, UNCHANGED <<fixed, running>>, NEW i \in DOMAIN calls, NEW call \in Call,
         CallInv(call), calls' = [calls EXCEPT ![i] = call],
         call.ask = calls[i].ask, call.got = calls[i].got
  PROVE  /\ calls' \in Seq(Call) /\ CallsInv' /\ Carried
         /\ (\A a : HasData(a) => HasData(a)') => DataAnswers'
         /\ failures' = failures => FailuresStand'
<1>1. PlannerTypeOK /\ CallsInv /\ UNCHANGED fixed
  BY DEF PlannerInv
<1>2. /\ calls' \in Seq(Call) /\ CallsInv'
      /\ DOMAIN calls' = DOMAIN calls /\ calls'[i] = call
      /\ \A j \in DOMAIN calls : j # i => calls'[j] = calls[j]
  BY <1>1, OneCall
<1>3. Carried
  BY <1>2 DEF Carried
<1>4. (\A a : HasData(a) => HasData(a)') => DataAnswers'
  BY <1>2, DataStays DEF PlannerInv
<1>5. failures' = failures => FailuresStand'
  BY <1>3, FailuresStay DEF PlannerInv
<1> QED BY <1>2, <1>3, <1>4, <1>5

\* A call that ends without consulting anybody.
LEMMA DoneCall ==
  ASSUME PlannerInv, NEW i \in DOMAIN calls, Done(i), calls[i].stage # "consulting"
  PROVE  LET call == [calls[i] EXCEPT !.stage = "done"]
         IN  /\ call \in Call /\ CallInv(call) /\ calls' = [calls EXCEPT ![i] = call]
             /\ call.ask = calls[i].ask /\ call.got = calls[i].got
<1> DEFINE call == [calls[i] EXCEPT !.stage = "done"]
<1>1. calls[i] \in Call /\ CallInv(calls[i])
  BY CallType DEF PlannerInv, CallsInv
<1>2. /\ call \in Call /\ call.stage = "done" /\ call.slots = calls[i].slots
      /\ call.ask = calls[i].ask /\ call.got = calls[i].got
  BY <1>1 DEF Call
<1>3. calls' = [calls EXCEPT ![i] = call]
  BY DEF Done
<1>4. CallInv(call)
  BY <1>1, <1>2 DEF CallInv
<1> QED BY <1>2, <1>3, <1>4

\* A select that is turned away.
LEMMA TurnAwayKeeps ==
  ASSUME PlannerInv, NEW i \in DOMAIN calls, TurnAway(i)
  PROVE  PlannerInv'
<1> DEFINE call == [calls[i] EXCEPT !.stage = "done"]
<1>1. /\ Done(i) /\ calls[i].stage # "consulting"
      /\ UNCHANGED <<fixed, running>> /\ UNCHANGED deps
  BY DEF TurnAway, Requested
<1>2. /\ call \in Call /\ CallInv(call) /\ calls' = [calls EXCEPT ![i] = call]
      /\ call.ask = calls[i].ask /\ call.got = calls[i].got
  BY <1>1, DoneCall
<1> HIDE DEF call
<1>3. answers' = answers /\ failures' = failures /\ waiting' = waiting
  BY <1>1 DEF deps
<1>4. /\ calls' \in Seq(Call) /\ CallsInv' /\ Carried
      /\ DataAnswers' /\ FailuresStand'
  BY <1>1, <1>2, <1>3, QuietCall DEF HasData
<1>5. PlannerTypeOK'
  BY <1>1, <1>3, <1>4 DEF PlannerInv, PlannerTypeOK, fixed
<1>6. AnswersAreSaid'
  BY <1>1, <1>3, <1>4, SaidKept DEF PlannerInv, PlannerTypeOK
<1> QED BY <1>4, <1>5, <1>6 DEF PlannerInv

\* A select that calls its providers.
LEMMA ConsultKeeps ==
  ASSUME PlannerInv, NEW i \in DOMAIN calls, ConsultAll(i)
  PROVE  PlannerInv'
<1> DEFINE call == [calls[i] EXCEPT !.stage = "consulting", !.slots = Consulting(i)]
<1>1. /\ calls[i].stage = "requested" /\ Callable(i)
      /\ UNCHANGED <<fixed, running>> /\ UNCHANGED deps
  BY DEF ConsultAll, Requested
<1>2. calls[i] \in Call /\ CallInv(calls[i])
  BY CallType DEF PlannerInv, CallsInv
<1>3. /\ Consulting(i) \in Seq(Candidates) /\ Consulting(i) # <<>>
      /\ \A c \in ToSet(Consulting(i)) : May(calls[i].ask, c)
  BY <1>1, ConsultingFacts DEF PlannerInv
<1>4. /\ call.stage = "consulting" /\ call.slots = Consulting(i)
      /\ call.ask = calls[i].ask /\ call.got = calls[i].got
      /\ call \in Call
  <2> DEFINE slots == Consulting(i)
  <2>1. slots \in Seq(Candidates)
    BY <1>3
  <2> HIDE DEF slots
  <2>2. call = [calls[i] EXCEPT !.stage = "consulting", !.slots = slots]
    BY DEF slots
  <2> HIDE DEF call
  <2>3. call \in Call
    BY <1>2, <2>1, <2>2 DEF Call
  <2> QED BY <1>2, <2>2, <2>3 DEF Call, slots
<1>5. calls' = [calls EXCEPT ![i] = call]
  BY DEF ConsultAll
<1>6. calls[i].got = Unasked
  BY <1>1, <1>2 DEF CallInv
<1> HIDE DEF call
<1>7. CallInv(call)
  BY <1>3, <1>4, <1>6 DEF CallInv, Unasked
<1>8. answers' = answers /\ failures' = failures /\ waiting' = waiting
  BY <1>1 DEF deps
<1>9. /\ calls' \in Seq(Call) /\ CallsInv' /\ Carried
      /\ DataAnswers' /\ FailuresStand'
  BY <1>1, <1>4, <1>5, <1>7, <1>8, QuietCall DEF HasData
<1>10. PlannerTypeOK'
  BY <1>1, <1>8, <1>9 DEF PlannerInv, PlannerTypeOK, fixed
<1>11. AnswersAreSaid'
  BY <1>1, <1>8, <1>9, SaidKept DEF PlannerInv, PlannerTypeOK
<1> QED BY <1>9, <1>10, <1>11 DEF PlannerInv

\* A select whose providers have all returned, whatever is made of it.
LEMMA ConsultedCall ==
  ASSUME PlannerInv, NEW i \in DOMAIN calls, NEW got, Consulted(i, got), UNCHANGED fixed
  PROVE  /\ calls' \in Seq(Call) /\ CallsInv' /\ Carried
         /\ DOMAIN calls' = DOMAIN calls
         /\ \A j \in DOMAIN calls : j # i => calls'[j] = calls[j]
         /\ calls'[i].ask = calls[i].ask /\ calls'[i].slots = calls[i].slots
         /\ calls[i].ask \in Asks
         /\ calls[i].slots \in Seq(Candidates) /\ calls[i].slots # <<>>
         /\ ToSet(calls[i].slots) \subseteq Candidates
         /\ got \in [ToSet(calls[i].slots) -> Return]
         /\ \A c \in ToSet(calls[i].slots) :
              May(calls[i].ask, c) /\ calls'[i].got[c] = got[c]
         /\ \A c \in Candidates \ ToSet(calls[i].slots) : calls'[i].got[c] = "unasked"
<1> DEFINE slots == calls[i].slots
           back  == [c \in Candidates |-> IF c \in DOMAIN got THEN got[c] ELSE "unasked"]
           call  == [calls[i] EXCEPT !.stage = "done", !.got = back]
<1>1. /\ calls[i].stage = "consulting" /\ got \in [ToSet(slots) -> Return]
      /\ calls' = [calls EXCEPT ![i] = call]
  BY DEF Consulted
<1>2. calls[i] \in Call /\ CallInv(calls[i])
  BY CallType DEF PlannerInv, CallsInv
<1>3. back \in [Candidates -> {"unasked"} \cup Return]
  BY <1>1
<1>4. slots \in Seq(Candidates) /\ slots # <<>> /\ ToSet(slots) \subseteq Candidates
  BY <1>1, <1>2 DEF CallInv, Call, ToSet
<1>5. /\ \A c \in ToSet(slots) : back[c] = got[c]
      /\ \A c \in Candidates \ ToSet(slots) : back[c] = "unasked"
  BY <1>1, <1>4
<1> HIDE DEF back
<1>6. /\ call \in Call /\ call.stage = "done" /\ call.got = back
      /\ call.slots = slots /\ call.ask = calls[i].ask
  BY <1>2, <1>3 DEF Call
<1> HIDE DEF call
<1>7. CallInv(call)
  BY <1>2, <1>5, <1>6 DEF CallInv
<1>8. /\ calls' \in Seq(Call) /\ CallsInv'
      /\ DOMAIN calls' = DOMAIN calls /\ calls'[i] = call
      /\ \A j \in DOMAIN calls : j # i => calls'[j] = calls[j]
  BY <1>1, <1>6, <1>7, OneCall DEF PlannerInv
<1>9. calls[i].got = Unasked
  BY <1>1, <1>2 DEF CallInv
<1>10. Carried
  BY <1>6, <1>8, <1>9 DEF Carried
<1>11. calls[i].ask \in Asks /\ \A c \in ToSet(slots) : May(calls[i].ask, c)
  BY <1>2 DEF Call, CallInv
<1> QED BY <1>1, <1>4, <1>5, <1>6, <1>8, <1>10, <1>11

\* The best-ranked data answers the ask, the rest is held.
LEMMA UseFirstKeeps ==
  ASSUME PlannerInv, NEW i \in DOMAIN calls, NEW got, UseFirst(i, got)
  PROVE  PlannerInv'
<1>. PICK a \in Asks : a = calls[i].ask
  BY CallType DEF PlannerInv, Call
<1> DEFINE s == calls[i].slots
           w == WithData(s, got)
<1>1. /\ Consulted(i, got) /\ w # <<>>
      /\ answers' = answers \cup {<<a, Head(w)>>}
      /\ waiting' = [waiting EXCEPT ![a] = Tail(w)]
      /\ UNCHANGED <<fixed, running>> /\ failures' = failures
  BY DEF UseFirst, HoldAfter
<1>2. /\ calls' \in Seq(Call) /\ CallsInv' /\ Carried /\ DOMAIN calls' = DOMAIN calls
      /\ \A j \in DOMAIN calls : j # i => calls'[j] = calls[j]
      /\ calls'[i].ask = a
      /\ s \in Seq(Candidates) /\ got \in [ToSet(s) -> Return]
      /\ \A c \in ToSet(s) : May(a, c) /\ calls'[i].got[c] = got[c]
      /\ ToSet(s) \subseteq Candidates
  BY <1>1, ConsultedCall
<1>3. w \in Seq(Candidates) /\ \A c : c \in ToSet(w) <=> c \in ToSet(s) /\ got[c] = "data"
  <2> HIDE DEF s
  <2> QED BY <1>2, WithDataFacts
<1> HIDE DEF w
<1>4. /\ Head(w) \in ToSet(w) /\ Head(w) \in Candidates
      /\ Tail(w) \in Seq(Candidates) /\ ToSet(Tail(w)) \subseteq ToSet(w)
  BY <1>1, <1>3, HeadAndRest
<1>5. \A c \in ToSet(w) : May(a, c) /\ Said(a, c)'
  BY <1>2, <1>3 DEF Said
<1> HIDE DEF s
<1>6. /\ waiting' \in [Asks -> Seq(Candidates)] /\ answers' \subseteq Asks \X Candidates
      /\ waiting'[a] = Tail(w) /\ \A b \in Asks : b # a => waiting'[b] = waiting[b]
  BY <1>1, <1>2, <1>4 DEF PlannerInv, PlannerTypeOK
<1>7. PlannerTypeOK'
  BY <1>1, <1>2, <1>6 DEF PlannerInv, PlannerTypeOK, fixed
<1>8. ASSUME NEW b \in Asks, NEW c \in Candidates,
             <<b, c>> \in answers' \/ c \in ToSet(waiting'[b])
      PROVE  \/ <<b, c>> \in answers \/ c \in ToSet(waiting[b])
             \/ May(b, c) /\ Said(b, c)'
  <2>1. CASE b = a /\ c \in ToSet(w)
    BY <2>1, <1>5
  <2>2. CASE ~ (b = a /\ c \in ToSet(w))
    <3>1. <<b, c>> \in answers' => <<b, c>> \in answers
      BY <2>2, <1>1, <1>4
    <3>2. c \in ToSet(waiting'[b]) => c \in ToSet(waiting[b])
      BY <2>2, <1>4, <1>6
    <3> QED BY <1>8, <3>1, <3>2
  <2> QED BY <2>1, <2>2
<1>9. AnswersAreSaid'
  BY <1>1, <1>2, <1>6, <1>8, SaidKept DEF PlannerInv
<1>10. HasData(a)' /\ \A b : HasData(b) => HasData(b)'
  BY <1>1, <1>4 DEF HasData
<1>11. DataAnswers'
  <2>1. \A j \in DOMAIN calls' :
           \/ j \in DOMAIN calls /\ calls'[j].ask = calls[j].ask
                                 /\ calls'[j].got = calls[j].got
           \/ HasData(calls[j].ask)'
    BY <1>2, <1>10 DEF HasData
  <2> QED BY <2>1, <1>10, DataStays DEF PlannerInv
<1>12. FailuresStand'
  BY <1>1, <1>2, FailuresStay DEF PlannerInv
<1> QED BY <1>2, <1>7, <1>9, <1>11, <1>12 DEF PlannerInv

\* No data came back: the failures are booked.
LEMMA NothingKeeps ==
  ASSUME PlannerInv, NEW i \in DOMAIN calls, NEW got, NothingCameBack(i, got)
  PROVE  PlannerInv'
<1> DEFINE a == calls[i].ask
           s == calls[i].slots
<1>1. /\ Consulted(i, got) /\ WithData(s, got) = <<>>
      /\ failures' = failures \cup {<<a, c>> : c \in Failed(got)}
      /\ UNCHANGED <<fixed, running>> /\ answers' = answers /\ waiting' = waiting
  BY DEF NothingCameBack
<1>2. /\ calls' \in Seq(Call) /\ CallsInv' /\ Carried /\ DOMAIN calls' = DOMAIN calls
      /\ \A j \in DOMAIN calls : j # i => calls'[j] = calls[j]
      /\ calls'[i].ask = a /\ a \in Asks
      /\ s \in Seq(Candidates) /\ got \in [ToSet(s) -> Return]
      /\ \A c \in ToSet(s) : calls'[i].got[c] = got[c]
      /\ \A c \in Candidates \ ToSet(s) : calls'[i].got[c] = "unasked"
      /\ ToSet(s) \subseteq Candidates
  BY <1>1, ConsultedCall
<1>3. \A c \in ToSet(s) : got[c] # "data"
  <2> HIDE DEF s
  <2> QED BY <1>1, <1>2, WithDataFacts
<1>4. \A c \in Candidates : calls'[i].got[c] # "data"
  BY <1>2, <1>3
<1>5. \A c \in Failed(got) : c \in Candidates /\ calls'[i].got[c] = "failed"
  BY <1>2 DEF Failed
<1> HIDE DEF a, s
<1>6. PlannerTypeOK'
  <2>1. failures' \subseteq Asks \X Candidates
    BY <1>1, <1>2, <1>5 DEF PlannerInv, PlannerTypeOK
  <2> QED BY <1>1, <1>2, <2>1 DEF PlannerInv, PlannerTypeOK, fixed
<1>7. AnswersAreSaid'
  BY <1>1, <1>2, SaidKept DEF PlannerInv, PlannerTypeOK
<1>8. DataAnswers'
  BY <1>1, <1>2, <1>4, DataStays DEF PlannerInv, HasData
<1>9. FailuresStand'
  <2>1. ASSUME NEW pair \in failures' \ failures
        PROVE  \E j \in DOMAIN calls' : Refused(j, pair)'
    <3>1. PICK c \in Failed(got) : pair = <<a, c>>
      BY <1>1
    <3>2. Refused(i, pair)'
      BY <1>2, <1>4, <1>5, <3>1 DEF Refused
    <3> QED BY <3>2, <1>2
  <2> QED BY <1>2, <2>1, FailuresStay DEF PlannerInv
<1> QED BY <1>2, <1>6, <1>7, <1>8, <1>9 DEF PlannerInv

\* The next choice replaces the ask's answer.
LEMMA SelectNextKeeps ==
  ASSUME PlannerInv, NEW i \in DOMAIN calls, SelectNext(i)
  PROVE  PlannerInv'
<1> DEFINE a    == calls[i].ask
           call == [calls[i] EXCEPT !.stage = "done"]
           w    == waiting[a]
<1>1. /\ Done(i) /\ calls[i].stage # "consulting"
      /\ UNCHANGED <<fixed, running>> /\ failures' = failures
  BY DEF SelectNext, Requested
<1>2. /\ call \in Call /\ CallInv(call) /\ calls' = [calls EXCEPT ![i] = call]
      /\ call.ask = calls[i].ask /\ call.got = calls[i].got
  BY <1>1, DoneCall
<1> HIDE DEF call
<1>3. /\ calls' \in Seq(Call) /\ CallsInv' /\ Carried /\ FailuresStand'
      /\ (\A b : HasData(b) => HasData(b)') => DataAnswers'
  BY <1>1, <1>2, QuietCall
<1>4. a \in Asks /\ w \in Seq(Candidates)
  <2>1. a \in Asks
    BY CallType DEF PlannerInv, Call
  <2> QED BY <2>1 DEF PlannerInv, PlannerTypeOK
<1>5. CASE w = <<>>
  <2>1. answers' = answers /\ waiting' = waiting
    BY <1>5 DEF SelectNext
  <2>2. PlannerTypeOK'
    BY <1>1, <1>3, <2>1 DEF PlannerInv, PlannerTypeOK, fixed
  <2>3. AnswersAreSaid'
    BY <1>1, <1>3, <2>1, SaidKept DEF PlannerInv, PlannerTypeOK
  <2> QED BY <1>3, <2>1, <2>2, <2>3 DEF PlannerInv, HasData
<1>6. CASE w # <<>>
  <2>1. /\ answers' = {pair \in answers : pair[1] # a} \cup {<<a, Head(w)>>}
        /\ waiting' = [waiting EXCEPT ![a] = Tail(w)]
    BY <1>6 DEF SelectNext
  <2>2. /\ Head(w) \in ToSet(w) /\ Head(w) \in Candidates
        /\ Tail(w) \in Seq(Candidates) /\ ToSet(Tail(w)) \subseteq ToSet(w)
    <3> HIDE DEF w
    <3> QED BY <1>4, <1>6, HeadAndRest
  <2>3. /\ waiting' \in [Asks -> Seq(Candidates)] /\ answers' \subseteq Asks \X Candidates
        /\ waiting'[a] = Tail(w) /\ \A b \in Asks : b # a => waiting'[b] = waiting[b]
    BY <1>4, <2>1, <2>2 DEF PlannerInv, PlannerTypeOK
  <2>4. PlannerTypeOK'
    BY <1>1, <1>3, <2>3 DEF PlannerInv, PlannerTypeOK, fixed
  <2>5. ASSUME NEW b \in Asks, NEW c \in Candidates,
               <<b, c>> \in answers' \/ c \in ToSet(waiting'[b])
        PROVE  <<b, c>> \in answers \/ c \in ToSet(waiting[b])
    <3>1. <<b, c>> \in answers' => <<b, c>> \in answers \/ c \in ToSet(waiting[b])
      BY <2>1, <2>2
    <3>2. c \in ToSet(waiting'[b]) => c \in ToSet(waiting[b])
      BY <2>2, <2>3
    <3> QED BY <2>5, <3>1, <3>2
  <2>6. AnswersAreSaid'
    BY <1>1, <1>3, <2>3, <2>5, SaidKept DEF PlannerInv
  <2>7. \A b : HasData(b) => HasData(b)'
    BY <2>1, <2>2 DEF HasData
  <2> QED BY <1>3, <2>4, <2>6, <2>7 DEF PlannerInv
<1> QED BY <1>5, <1>6

-----------------------------------------------------------------------------
LEMMA PlannerStepInv == PlannerInv /\ [Next]_vars => PlannerInv'
<1> SUFFICES ASSUME PlannerInv, [Next]_vars PROVE PlannerInv'
  OBVIOUS
<1>1. ASSUME UNCHANGED <<fixed, calls, deps>>, running' \in {"model", "tools", "ended", "broken"}
      PROVE  PlannerInv'
  <2>1. PlannerTypeOK'
    BY <1>1 DEF fixed, deps, PlannerInv, PlannerTypeOK
  <2>2. CallsInv'
    BY <1>1 DEF fixed, PlannerInv, CallsInv, CallInv, May, InOffer
  <2>3. AnswersAreSaid'
    BY <1>1 DEF fixed, deps, PlannerInv, AnswersAreSaid, InOffer
  <2>4. DataAnswers' /\ FailuresStand'
    BY <1>1 DEF deps, PlannerInv, DataAnswers, FailuresStand, Refused, HasData
  <2> QED BY <2>1, <2>2, <2>3, <2>4 DEF PlannerInv
<1>2. ASSUME NEW a \in Asks, NEW c \in Candidates, RequestTool("select", a, c) PROVE PlannerInv'
  BY <1>2, RequestKeeps
<1>3. ASSUME NEW a \in Asks, RequestTool("select_next", a, NoPick) PROVE PlannerInv'
  BY <1>3, RequestKeeps
<1>4. CASE RunTools
  BY <1>1, <1>4 DEF RunTools
<1>5. CASE ToolsReturn
  BY <1>1, <1>5 DEF ToolsReturn
<1>6. CASE PlanEnds
  BY <1>1, <1>6 DEF PlanEnds
<1>7. CASE PlanRaises
  BY <1>1, <1>7 DEF PlanRaises
<1>8. ASSUME NEW i \in DOMAIN calls, ToolStep(i) PROVE PlannerInv'
  <2>1. CASE TurnAway(i)
    BY <2>1, TurnAwayKeeps
  <2>2. CASE ConsultAll(i)
    BY <2>2, ConsultKeeps
  <2>3. CASE SelectNext(i)
    BY <2>3, SelectNextKeeps
  <2>4. ASSUME NEW got, UseFirst(i, got) \/ NothingCameBack(i, got) PROVE PlannerInv'
    BY <2>4, UseFirstKeeps, NothingKeeps
  <2> QED BY <1>8, <2>1, <2>2, <2>3, <2>4 DEF ToolStep
<1>9. CASE UNCHANGED vars
  BY <1>1, <1>9 DEF vars, PlannerInv, PlannerTypeOK
<1> QED BY <1>2, <1>3, <1>4, <1>5, <1>6, <1>7, <1>8, <1>9 DEF Next, Progress, Model

\* The invariant the four theorems below rest on holds at every step of every
\* turn (planner.py, plan.py).
THEOREM PlannerInvariance == Spec => []PlannerInv
<1> QED BY PlannerInitInv, PlannerStepInv, PTL DEF Spec

\* The type of every variable, at any step.
THEOREM PlannerTypeCorrect == Spec => []PlannerTypeOK
<1>1. PlannerInv => PlannerTypeOK
  BY DEF PlannerInv
<1> QED BY <1>1, PlannerInvariance, PTL

\* Every answer and every next choice is data returned for its own ask by a
\* provider discovery offered for it (_provider_data, NextChoices).
THEOREM PlannerAnswersAreSaid == Spec => []AnswersAreSaid
<1>1. PlannerInv => AnswersAreSaid
  BY DEF PlannerInv
<1> QED BY <1>1, PlannerInvariance, PTL

\* A finished select with any data left its ask answered, and no failure
\* counts but one of a select with no data at all (_nothing_came_back).
THEOREM PlannerOneFailureCostsNothing == Spec => []OneFailureCostsNothing
<1>1. PlannerInv => OneFailureCostsNothing
  BY Halves DEF PlannerInv
<1> QED BY <1>1, PlannerInvariance, PTL

-----------------------------------------------------------------------------
\* The refinement of Gathering: what the mapping reads off a state.
Asked    == {calls[i].ask : i \in {i \in DOMAIN calls : calls[i].slots # <<>>}}
Answered == {a \in Asks : HasData(a)}
FailedOn == {pair[1] : pair \in failures}

\* Nothing is gathered before the first call.
LEMMA PlannerGatheringInit == Init => Gathered!GInit
BY DEF Init, Gathered!GInit, HasData

\* What one step does to the three sets is a Consult or nothing.
LEMMA ConsultStep ==
  ASSUME NEW a \in Asks, Asked' = Asked \cup {a},
         \/ Answered' = Answered \cup {a} /\ FailedOn' = FailedOn
         \/ FailedOn' = FailedOn \cup {a} /\ Answered' = Answered
         \/ Answered' = Answered /\ FailedOn' = FailedOn
  PROVE  Gathered!GNext
BY DEF Gathered!GNext, Gathered!Consult, Asked, Answered, FailedOn

\* A step that changes none of the three sets stutters.
LEMMA GatherStutter ==
  ASSUME Asked' = Asked, Answered' = Answered, FailedOn' = FailedOn
  PROVE  UNCHANGED Gathered!gvars
BY DEF Gathered!gvars, Asked, Answered, FailedOn

\* The asks consulted for, when only call i may have changed.
LEMMA AskedAfter ==
  ASSUME NEW i \in DOMAIN calls, DOMAIN calls' = DOMAIN calls,
         \A j \in DOMAIN calls : j # i => calls'[j] = calls[j],
         calls'[i].ask = calls[i].ask
  PROVE  /\ calls'[i].slots = calls[i].slots => Asked' = Asked
         /\ calls[i].slots = <<>> /\ calls'[i].slots # <<>>
              => Asked' = Asked \cup {calls[i].ask}
         /\ calls[i].slots # <<>> => calls[i].ask \in Asked
<1>1. ASSUME calls'[i].slots = calls[i].slots PROVE Asked' = Asked
  <2>1. \A j \in DOMAIN calls :
          calls'[j].ask = calls[j].ask /\ calls'[j].slots = calls[j].slots
    BY <1>1
  <2> QED BY <2>1 DEF Asked
<1>2. ASSUME calls[i].slots = <<>>, calls'[i].slots # <<>>
      PROVE  Asked' = Asked \cup {calls[i].ask}
  <2>1. \A j \in DOMAIN calls : calls'[j].ask = calls[j].ask
    OBVIOUS
  <2>2. {j \in DOMAIN calls' : calls'[j].slots # <<>>}
          = {j \in DOMAIN calls : calls[j].slots # <<>>} \cup {i}
    BY <1>2
  <2> QED BY <2>1, <2>2 DEF Asked
<1> QED BY <1>1, <1>2 DEF Asked

\* Every step of the loop consults for one ask, or stutters.
LEMMA PlannerGatheringStep ==
  PlannerInv /\ [Next]_vars => [Gathered!GNext]_(Gathered!gvars)
<1> SUFFICES ASSUME PlannerInv, [Next]_vars PROVE Gathered!GNext \/ UNCHANGED Gathered!gvars
  OBVIOUS
<1>1. ASSUME UNCHANGED <<calls, deps>> PROVE UNCHANGED Gathered!gvars
  BY <1>1, GatherStutter DEF deps, Asked, Answered, FailedOn, HasData
<1>2. ASSUME NEW tool, NEW a, NEW c, RequestTool(tool, a, c)
      PROVE  UNCHANGED Gathered!gvars
  <2>1. calls \in Seq(Call)
    BY DEF PlannerInv, PlannerTypeOK
  <2>2. /\ DOMAIN calls' = DOMAIN calls \cup {Len(calls) + 1}
        /\ \A j \in DOMAIN calls : calls'[j] = calls[j]
        /\ calls'[Len(calls) + 1].slots = <<>>
    BY <2>1, <1>2 DEF RequestTool
  <2>3. Asked' = Asked
    <3>1. {j \in DOMAIN calls' : calls'[j].slots # <<>>}
            = {j \in DOMAIN calls : calls[j].slots # <<>>}
      BY <2>2
    <3> QED BY <2>2, <3>1 DEF Asked
  <2>4. Answered' = Answered /\ FailedOn' = FailedOn
    BY <1>2 DEF RequestTool, deps, Answered, FailedOn, HasData
  <2> QED BY <2>3, <2>4, GatherStutter
<1>3. ASSUME NEW i \in DOMAIN calls, TurnAway(i) PROVE UNCHANGED Gathered!gvars
  <2>1. /\ DOMAIN calls' = DOMAIN calls
        /\ \A j \in DOMAIN calls : j # i => calls'[j] = calls[j]
        /\ calls'[i].ask = calls[i].ask /\ calls'[i].slots = calls[i].slots
    BY <1>3, CallType DEF TurnAway, Done, PlannerInv, Call
  <2>2. Answered' = Answered /\ FailedOn' = FailedOn
    BY <1>3 DEF TurnAway, deps, Answered, FailedOn, HasData
  <2> QED BY <2>1, <2>2, AskedAfter, GatherStutter
<1>4. ASSUME NEW i \in DOMAIN calls, ConsultAll(i) PROVE Gathered!GNext
  <2>1. calls[i] \in Call /\ CallInv(calls[i])
    BY CallType DEF PlannerInv, CallsInv
  <2>2. Consulting(i) # <<>> /\ calls[i].slots = <<>>
    BY <1>4, <2>1, ConsultingFacts DEF ConsultAll, Requested, CallInv, PlannerInv
  <2>3. /\ DOMAIN calls' = DOMAIN calls
        /\ \A j \in DOMAIN calls : j # i => calls'[j] = calls[j]
        /\ calls'[i].ask = calls[i].ask /\ calls'[i].slots = Consulting(i)
    <3> DEFINE slots == Consulting(i)
    <3>1. calls' = [calls EXCEPT ![i] = [@ EXCEPT !.stage = "consulting", !.slots = slots]]
      BY <1>4 DEF ConsultAll
    <3> HIDE DEF slots
    <3>2. /\ DOMAIN calls' = DOMAIN calls
          /\ \A j \in DOMAIN calls : j # i => calls'[j] = calls[j]
          /\ calls'[i] = [calls[i] EXCEPT !.stage = "consulting", !.slots = slots]
      BY <3>1
    <3> QED BY <2>1, <3>2 DEF Call, slots
  <2>4. Asked' = Asked \cup {calls[i].ask}
    BY <2>2, <2>3, AskedAfter
  <2>5. Answered' = Answered /\ FailedOn' = FailedOn
    BY <1>4 DEF ConsultAll, deps, Answered, FailedOn, HasData
  <2>6. calls[i].ask \in Asks
    BY <2>1 DEF Call
  <2> QED BY <2>4, <2>5, <2>6, ConsultStep
<1>5. ASSUME NEW i \in DOMAIN calls, NEW got, UseFirst(i, got) PROVE Gathered!GNext
  <2>1. PICK a \in Asks : a = calls[i].ask
    BY CallType DEF PlannerInv, Call
  <2>2. Consulted(i, got) /\ UNCHANGED fixed /\ failures' = failures
    BY <1>5 DEF UseFirst
  <2>3. /\ DOMAIN calls' = DOMAIN calls
        /\ \A j \in DOMAIN calls : j # i => calls'[j] = calls[j]
        /\ calls'[i].ask = calls[i].ask /\ calls'[i].slots = calls[i].slots
        /\ calls[i].slots \in Seq(Candidates) /\ calls[i].slots # <<>>
        /\ got \in [ToSet(calls[i].slots) -> Return]
    BY <2>2, ConsultedCall
  <2>4. Asked' = Asked \cup {a}
    BY <2>1, <2>3, AskedAfter
  <2>5. PICK c \in Candidates : answers' = answers \cup {<<a, c>>}
    <3> DEFINE s == calls[i].slots
               w == WithData(s, got)
    <3>1. w # <<>> /\ answers' = answers \cup {<<a, Head(w)>>}
      BY <1>5, <2>1 DEF UseFirst
    <3>2. w \in Seq(Candidates)
      <4> HIDE DEF s
      <4> QED BY <2>3, WithDataFacts DEF s
    <3> HIDE DEF w
    <3> QED BY <3>1, <3>2, HeadAndRest
  <2>6. Answered' = Answered \cup {a}
    BY <2>5 DEF Answered, HasData
  <2> QED BY <2>2, <2>4, <2>6, ConsultStep DEF FailedOn
<1>6. ASSUME NEW i \in DOMAIN calls, NEW got, NothingCameBack(i, got)
      PROVE  Gathered!GNext
  <2>1. PICK a \in Asks : a = calls[i].ask
    BY CallType DEF PlannerInv, Call
  <2>2. /\ Consulted(i, got) /\ UNCHANGED fixed /\ answers' = answers
        /\ failures' = failures \cup {<<a, c>> : c \in Failed(got)}
    BY <1>6, <2>1 DEF NothingCameBack
  <2>3. /\ DOMAIN calls' = DOMAIN calls
        /\ \A j \in DOMAIN calls : j # i => calls'[j] = calls[j]
        /\ calls'[i].ask = calls[i].ask /\ calls'[i].slots = calls[i].slots
        /\ calls[i].slots # <<>>
    BY <2>2, ConsultedCall
  <2>4. Asked' = Asked \cup {a}
    BY <2>1, <2>3, AskedAfter
  <2>5. Answered' = Answered
    BY <2>2 DEF Answered, HasData
  <2>6. FailedOn' = FailedOn \/ FailedOn' = FailedOn \cup {a}
    BY <2>2 DEF FailedOn
  <2> QED BY <2>4, <2>5, <2>6, ConsultStep
<1>7. ASSUME NEW i \in DOMAIN calls, SelectNext(i) PROVE UNCHANGED Gathered!gvars
  <2>1. PICK a \in Asks : a = calls[i].ask
    BY CallType DEF PlannerInv, Call
  <2>2. /\ DOMAIN calls' = DOMAIN calls
        /\ \A j \in DOMAIN calls : j # i => calls'[j] = calls[j]
        /\ calls'[i].ask = calls[i].ask /\ calls'[i].slots = calls[i].slots
    BY <1>7, CallType DEF SelectNext, Done, PlannerInv, Call
  <2>3. Asked' = Asked
    BY <2>2, AskedAfter
  <2>4. FailedOn' = FailedOn
    BY <1>7 DEF SelectNext, FailedOn
  <2>5. Answered' = Answered
    <3>1. CASE waiting[a] = <<>>
      BY <1>7, <2>1, <3>1 DEF SelectNext, Answered, HasData
    <3>2. CASE waiting[a] # <<>>
      <4> DEFINE w == waiting[a]
      <4>1. w \in Seq(Candidates) /\ w # <<>>
        BY <3>2 DEF PlannerInv, PlannerTypeOK
      <4>2. answers' = {pair \in answers : pair[1] # a} \cup {<<a, Head(w)>>}
        BY <1>7, <2>1, <3>2 DEF SelectNext
      <4>3. HasData(a)
        <5>1. Head(w) \in ToSet(w) /\ Head(w) \in Candidates
          <6> HIDE DEF w
          <6> QED BY <4>1, HeadAndRest
        <5>2. PICK j \in DOMAIN calls : /\ calls[j].ask = a
                                        /\ calls[j].got[Head(w)] = "data"
          BY <5>1 DEF PlannerInv, AnswersAreSaid
        <5> QED BY <5>1, <5>2 DEF PlannerInv, DataAnswers
      <4>4. Head(w) \in Candidates
        <5> HIDE DEF w
        <5> QED BY <4>1, HeadAndRest
      <4> HIDE DEF w
      <4>5. ASSUME NEW b \in Asks PROVE HasData(b)' <=> HasData(b)
        BY <4>2, <4>3, <4>4 DEF HasData
      <4> QED BY <4>5 DEF Answered
    <3> QED BY <3>1, <3>2
  <2> QED BY <2>3, <2>4, <2>5, GatherStutter
<1>8. ASSUME NEW i \in DOMAIN calls, ToolStep(i)
      PROVE  Gathered!GNext \/ UNCHANGED Gathered!gvars
  BY <1>3, <1>4, <1>5, <1>6, <1>7, <1>8 DEF ToolStep
<1>9. CASE RunTools \/ ToolsReturn \/ PlanEnds \/ PlanRaises \/ UNCHANGED vars
  BY <1>1, <1>9 DEF RunTools, ToolsReturn, PlanEnds, PlanRaises, vars
<1> QED BY <1>2, <1>8, <1>9 DEF Next, Progress, Model

\* The tool loop is what TextTurn takes it for: a planner that consults one ask
\* at a time, and whose every consultation adds a result, failures, or nothing.
THEOREM PlannerGathersAsPromised == Spec => GathersAsPromised
<1> QED BY PlannerInvariance, PlannerGatheringInit, PlannerGatheringStep, PTL
        DEF Spec, GathersAsPromised, Gathered!GSpec

-----------------------------------------------------------------------------
(***************************************************************************)
(* What a select asks for (Selecting), for any packs, whatever they         *)
(* advertise and whatever the model writes. First, the leaves of a value,   *)
(* which are those of what it holds, one level down.                        *)
(***************************************************************************)

Paths == Seq(Segment)

\* The leaves of all values, for any paths that can be filtered by.
LeafSets == [Json -> [SUBSET Paths -> SUBSET Paths]]

\* A sequence is a prefix of it with more behind it.
LEMMA OneIsStrictPrefix ==
  ASSUME NEW S, NEW x \in S, NEW l \in Seq(S), l # <<>>
  PROVE  IsStrictPrefix(<<x>>, <<x>> \o l)
<1> DEFINE one == <<x>>
           more == <<x>> \o l
<1>1. more \in Seq(S) /\ Len(more) = 1 + Len(l) /\ more[1] = x
  OBVIOUS
<1>2. one \in Seq(S) /\ Len(one) = 1 /\ one[1] = x
  OBVIOUS
<1>3. Len(more) > 1
  BY <1>1
<1> HIDE DEF one, more
<1>4. LET cut == SubSeq(more, 1, 1) IN cut \in Seq(S) /\ Len(cut) = 1 /\ cut[1] = x
  BY <1>1, <1>3
<1>5. SubSeq(more, 1, 1) = one /\ SubSeq(one, 1, 1) = one
  BY <1>2, <1>4, SeqEqual
<1> QED BY <1>1, <1>2, <1>3, <1>5 DEF IsStrictPrefix, IsPrefix, one, more

\* What a key spells is a path, and so is what is left of one.
LEMMA SegmentsArePaths ==
  ASSUME SelectingAssumption
  PROVE  /\ <<>> \in Paths /\ \A k \in Segment : <<k>> \in Paths /\ Segments(k) \in Paths
         /\ \A p, q \in Paths : p \o q \in Paths
         /\ \A s \in Paths : \A paths \in SUBSET Paths : Below(s, paths) \in SUBSET Paths
<1>1. ASSUME NEW k \in Segment PROVE <<k>> \in Paths /\ Segments(k) \in Paths
  <2>1. <<k>> \in Paths
    BY DEF Paths
  <2>2. k \in PathKeys => ReadsAs[k] \in Paths
    BY DEF SelectingAssumption, PathKeys, Paths
  <2> QED BY <2>1, <2>2 DEF Segments
<1>4. <<>> \in Paths
  BY DEF Paths
<1>2. ASSUME NEW p \in Paths, NEW q \in Paths PROVE p \o q \in Paths
  BY DEF Paths
<1>3. ASSUME NEW s \in Paths, NEW paths \in SUBSET Paths PROVE Below(s, paths) \in SUBSET Paths
  <2> SUFFICES ASSUME NEW p \in paths PROVE SubSeq(p, Len(s) + 1, Len(p)) \in Paths
    BY DEF Below
  <2>1. p \in Seq(Segment) /\ Len(s) \in Nat
    BY DEF Paths
  <2> QED BY <2>1 DEF Paths
<1> QED BY <1>1, <1>2, <1>3, <1>4

\* The leaves of a value are paths when those of what it holds are.
LEMMA LeavesArePaths ==
  ASSUME SelectingAssumption, NEW held \in LeafSets, NEW value \in Json,
         NEW stops \in SUBSET Paths
  PROVE  LeavesOf(value, stops, held) \in SUBSET Paths
<1> DEFINE At(s, v) == {s \o l : l \in held[v][Below(s, stops)]}
           OfKey(k) == LET s == Segments(k) IN IF s \in stops THEN {s} ELSE At(s, value.fields[k])
           OfItem(i) == IF i.kind = "object" THEN At(<<"[]">>, i) ELSE held[i][stops]
           nested == UNION {OfItem(i) : i \in ToSet(value.items)}
<1>1. <<"[]">> \in Paths /\ <<>> \in Paths
  <2>1. "[]" \in Segment
    BY DEF Segment
  <2> QED BY <2>1, SegmentsArePaths
<1>2. ASSUME NEW s \in Paths, NEW v \in Json PROVE At(s, v) \subseteq Paths
  <2>1. Below(s, stops) \in SUBSET Paths
    BY SegmentsArePaths
  <2>2. held[v][Below(s, stops)] \subseteq Paths
    BY <2>1 DEF LeafSets
  <2> QED BY <2>2, SegmentsArePaths
<1> HIDE DEF At
<1>3. ASSUME value.kind = "object", NEW k \in DOMAIN value.fields PROVE OfKey(k) \subseteq Paths
  <2>1. k \in Segment /\ value.fields[k] \in Json
    BY <1>3 DEF SelectingAssumption, Segment
  <2>2. Segments(k) \in Paths
    BY <2>1, SegmentsArePaths
  <2> QED BY <1>2, <2>1, <2>2
<1>4. ASSUME value.kind = "list", NEW i \in ToSet(value.items) PROVE OfItem(i) \subseteq Paths
  <2>1. value.items \in Seq(Json)
    BY <1>4 DEF SelectingAssumption
  <2>2. i \in Json
    BY <2>1 DEF ToSet
  <2>3. held[i][stops] \subseteq Paths
    BY <2>2 DEF LeafSets
  <2> QED BY <1>1, <1>2, <2>2, <2>3
<1>5. LeavesOf(value, stops, held) =
        CASE value.kind = "object" -> UNION {OfKey(k) : k \in DOMAIN value.fields}
          [] value.kind = "list" -> IF nested = {} THEN {<<>>} ELSE nested
          [] OTHER -> {<<>>}
  BY DEF LeavesOf, At
<1> HIDE DEF OfKey, OfItem
<1>6. CASE value.kind = "object"
  BY <1>3, <1>5, <1>6
<1>7. CASE value.kind = "list"
  BY <1>1, <1>4, <1>5, <1>7
<1>8. CASE value.kind # "object" /\ value.kind # "list"
  BY <1>1, <1>5, <1>8
<1> QED BY <1>6, <1>7, <1>8

\* One level deeper.
LEMMA OneDeeper ==
  ASSUME NEW n \in Nat, NEW m \in Nat, n + 1 <= m
  PROVE  n + 1 \in 0 .. m /\ n + 1 # 0 /\ (n + 1) - 1 = n /\ n <= m
<1>1. n + 1 \in 0 .. m /\ n <= m
  OBVIOUS
<1>2. n + 1 # 0 /\ (n + 1) - 1 = n
  OBVIOUS
<1> QED BY <1>1, <1>2

\* The leaves of a value are those of what it holds, one level down.
LEMMA LeavesAre ==
  ASSUME SelectingAssumption
  PROVE  \E held \in LeafSets : \A value \in Json, stops \in SUBSET Paths :
           leaves[value][stops] = LeavesOf(value, stops, held)
<1> DEFINE N == MaxDepth
           step == [n \in 1 .. N |-> [held \in LeafSets |->
                     [value \in Json |-> [stops \in SUBSET Paths |-> LeavesOf(value, stops, held)]]]]
           none == [value \in Json |-> [stops \in SUBSET Paths |-> {<<>>}]]
<1>1. N \in Nat /\ N # 0
  BY DEF SelectingAssumption
<1>2. none \in LeafSets
  BY DEF LeafSets, Paths
<1>3. step \in [1 .. N -> [LeafSets -> LeafSets]]
  <2>1. \A held \in LeafSets :
          [value \in Json |-> [stops \in SUBSET Paths |-> LeavesOf(value, stops, held)]] \in LeafSets
    BY LeavesArePaths DEF LeafSets
  <2> HIDE DEF N
  <2> QED BY <2>1
<1> HIDE DEF N
<1>4. PICK g \in [0 .. N -> LeafSets] : Follows(g, N, none, step)
  <2> HIDE DEF step, none
  <2> QED BY <1>1, <1>2, <1>3, Recursion
<1>5. ASSUME NEW n \in 0 .. N
      PROVE  g[n] = [value \in Json |-> [stops \in SUBSET Paths |->
                       IF n = 0 THEN {<<>>} ELSE LeavesOf(value, stops, g[n - 1])]]
  <2>1. CASE n = 0
    <3>1. g[0] = none
      <4> HIDE DEF step, none
      <4> QED BY <1>4 DEF Follows
    <3>2. g[n] = none
      BY <2>1, <3>1
    <3> HIDE DEF step
    <3> QED BY <2>1, <3>2
  <2>2. CASE n # 0
    <3>1. n \in 1 .. N /\ n - 1 \in 0 .. N
      BY <1>1, <2>2
    <3>2. g[n - 1] \in LeafSets
      BY <1>4, <3>1
    <3>3. g[n] = step[n][g[n - 1]]
      BY <1>4, <3>1 DEF Follows
    <3> QED BY <2>2, <3>1, <3>2, <3>3
  <2> QED BY <2>1, <2>2
<1>6. g = [n \in 0 .. MaxDepth |-> [value \in Json |-> [stops \in SUBSET Seq(Segment) |->
            IF n = 0 THEN {<<>>} ELSE LeavesOf(value, stops, g[n - 1])]]]
  <2>1. g = [n \in 0 .. N |-> g[n]]
    BY <1>4
  <2> QED BY <1>5, <2>1, Zenon DEF N, Paths
<1>7. leavesTo = [n \in 0 .. MaxDepth |-> [value \in Json |-> [stops \in SUBSET Seq(Segment) |->
                   IF n = 0 THEN {<<>>} ELSE LeavesOf(value, stops, leavesTo[n - 1])]]]
  BY <1>6, Zenon DEF leavesTo
<1>8. \A n \in 0 .. N : leavesTo[n] = [value \in Json |-> [stops \in SUBSET Paths |->
         IF n = 0 THEN {<<>>} ELSE LeavesOf(value, stops, leavesTo[n - 1])]]
  BY <1>7 DEF N, Paths
<1> DEFINE S == {n \in Nat : n <= N => leavesTo[n] \in LeafSets}
<1>9. 0 \in S
  <2>1. 0 \in 0 .. N
    BY <1>1
  <2>2. leavesTo[0] = [value \in Json |-> [stops \in SUBSET Paths |->
           IF 0 = 0 THEN {<<>>} ELSE LeavesOf(value, stops, leavesTo[0 - 1])]]
    BY <1>8, <2>1, Zenon
  <2>3. leavesTo[0] = none
    BY <2>2
  <2> QED BY <1>2, <2>3
<1>10. ASSUME NEW n \in Nat, n \in S PROVE n + 1 \in S
  <2> SUFFICES ASSUME n + 1 <= N PROVE leavesTo[n + 1] \in LeafSets
    OBVIOUS
  <2> HIDE DEF S, step, none
  <2>1. n + 1 \in 0 .. N /\ n + 1 # 0 /\ (n + 1) - 1 = n /\ n <= N
    <3>1. n \in Nat /\ N \in Nat /\ n + 1 <= N
      BY <1>1, <1>10
    <3> QED BY <3>1, OneDeeper
  <2>4. leavesTo[n] \in LeafSets
    BY <1>10, <2>1 DEF S
  <2>5. leavesTo[n + 1] = [value \in Json |-> [stops \in SUBSET Paths |->
           IF n + 1 = 0 THEN {<<>>} ELSE LeavesOf(value, stops, leavesTo[(n + 1) - 1])]]
    BY <1>8, <2>1, Zenon
  <2>2. leavesTo[n + 1] = [value \in Json |-> [stops \in SUBSET Paths |->
                             LeavesOf(value, stops, leavesTo[n])]]
    BY <2>1, <2>5
  <2>3. \A value \in Json, stops \in SUBSET Paths : LeavesOf(value, stops, leavesTo[n]) \in SUBSET Paths
    BY <2>4, LeavesArePaths
  <2> QED BY <2>2, <2>3 DEF LeafSets
<1>11. N - 1 \in S
  <2> HIDE DEF S
  <2>1. N - 1 \in Nat
    BY <1>1
  <2> QED BY <1>9, <1>10, <2>1, NatSets
<1>12. leavesTo[N - 1] \in LeafSets
  BY <1>1, <1>11
<1>13. leaves = [value \in Json |-> [stops \in SUBSET Paths |-> LeavesOf(value, stops, leavesTo[N - 1])]]
  <2>1. N \in 0 .. N /\ N # 0 /\ leaves = leavesTo[N]
    BY <1>1 DEF leaves, N
  <2>2. leavesTo[N] = [value \in Json |-> [stops \in SUBSET Paths |->
           IF N = 0 THEN {<<>>} ELSE LeavesOf(value, stops, leavesTo[N - 1])]]
    BY <1>8, <2>1, Zenon
  <2> QED BY <2>1, <2>2
<1> QED BY <1>12, <1>13

\* The paths that can be filtered by inside a field are paths.
LEMMA InsideIsPaths ==
  ASSUME SelectingAssumption, offer \in Offers, NEW f \in STRING
  PROVE  Inside(f) \in SUBSET Paths
<1>1. Schema(offer.schema)
  BY DEF SelectingAssumption
<1>2. Filterable(offer.schema) \in SUBSET Paths
  BY <1>1 DEF Schema, Filterable, Paths
<1>3. <<f>> \in Paths
  BY SegmentsArePaths DEF Segment
<1> QED BY <1>2, <1>3, SegmentsArePaths DEF Inside

\* The attributes are built once, of arguments that were found to fit.
SelectingInv ==
  /\ offer \in Offers /\ args \in Written
  /\ verdict = "ok" => Fits(offer.schema)
  /\ sent # Null => verdict = "ok" /\ sent = Attributes

\* Of a field that fits each leaf is a path that can be filtered by, and one that
\* is filtered by as a whole holds nothing or values of its fixed set only.
LEMMA FittingField ==
  ASSUME SelectingAssumption, offer \in Offers, args \in Written,
         NEW f \in DOMAIN args.fields, Fits(offer.schema)
  PROVE  /\ \A l \in leaves[args.fields[f]][Inside(f)] : <<f>> \o l \in Filterable(offer.schema)
         /\ Whole(f) => HoldsNothing(args.fields[f]) \/ Listed(f, offer.schema)
<1> DEFINE found == leaves[args.fields[f]][Inside(f)]
<1>1. \A l \in found : <<f>> \o l \in Filterable(offer.schema) /\ (l = <<>> => Listed(f, offer.schema))
  BY DEF Fits, Inside
<1>2. f \in STRING /\ args.fields[f] \in Json
  BY DEF SelectingAssumption
<1>3. Inside(f) \in SUBSET Paths
  BY <1>2, InsideIsPaths
<1>4. found \in SUBSET Paths
  BY <1>2, <1>3, LeavesAre, LeavesArePaths
<1>5. ASSUME NEW l \in found, Whole(f) PROVE l = <<>>
  <2> SUFFICES ASSUME l # <<>> PROVE FALSE
    OBVIOUS
  <2> DEFINE p == <<f>> \o l
  <2>1. l \in Seq(Segment) /\ f \in Segment
    BY <1>2, <1>4 DEF Paths, Segment
  <2>2. IsStrictPrefix(<<f>>, p)
    BY <2>1, OneIsStrictPrefix
  <2>3. p \in Filterable(offer.schema)
    BY <1>1
  <2> HIDE DEF p
  <2>7. SubSeq(p, Len(<<f>>) + 1, Len(p)) \in Inside(f)
    BY <2>2, <2>3, Zenon DEF Inside, Below
  <2> QED BY <1>5, <2>7 DEF Whole
<1>6. ASSUME Whole(f), ~HoldsNothing(args.fields[f]) PROVE Listed(f, offer.schema)
  <2>1. Inside(f) = {} /\ found = leaves[args.fields[f]][{}]
    BY <1>6 DEF Whole
  <2>2. PICK l \in found : TRUE
    BY <1>6, <2>1 DEF HoldsNothing
  <2> QED BY <1>1, <1>5, <1>6, <2>2
<1> QED BY <1>1, <1>6

\* What stands for a selector is it itself or an item of the list that it
\* matches; it is itself only where it matches none, or the list has an item
\* that says nothing.
LEMMA MatchingSelects ==
  ASSUME NEW selector, NEW list \in Seq(Json),
         \A j \in ToSet(list) : j.kind = "object" => DOMAIN j.fields # {}
  PROVE  LET item == Matching(selector, list)
         IN  \/ item \in ToSet(list)
             \/ item = selector /\ ~\E j \in ToSet(list) : Matches(selector, j)
<1> DEFINE K     == {item \in ToSet(list) : Matches(selector, item)}
           found == Keep(list, K)
<1>1. /\ found \in Seq(Json)
      /\ \A x : x \in ToSet(found) <=> x \in ToSet(list) /\ x \in K
  <2> HIDE DEF K
  <2> QED BY KeepWhere
<1>2. CASE found = <<>>
  <2>1. ToSet(found) = {}
    BY <1>1, <1>2, NoMembers
  <2>2. ~\E j \in ToSet(list) : Matches(selector, j)
    BY <1>1, <2>1
  <2>3. Matching(selector, list) = selector
    BY <1>2 DEF Matching
  <2> QED BY <2>2, <2>3
<1>3. CASE found # <<>>
  <2>1. found[1] \in ToSet(found)
    <3> HIDE DEF found
    <3> QED BY <1>1, <1>3 DEF ToSet
  <2>2. found[1] \in ToSet(list) /\ Matches(selector, found[1])
    BY <1>1, <2>1
  <2>3. DOMAIN found[1].fields # {}
    BY <2>2 DEF Matches
  <2>4. Matching(selector, list) = found[1]
    BY <1>3, <2>3 DEF Matching
  <2> QED BY <2>2, <2>4
<1> QED BY <1>2, <1>3

\* What stands for a selector is it itself or an object of the list.
LEMMA MatchingIs ==
  ASSUME NEW selector, NEW list \in Seq(Json)
  PROVE  LET item == Matching(selector, list)
         IN  item = selector \/ (item \in ToSet(list) /\ item.kind = "object")
<1> DEFINE K     == {item \in ToSet(list) : Matches(selector, item)}
           found == Keep(list, K)
<1>1. /\ found \in Seq(Json)
      /\ \A x : x \in ToSet(found) <=> x \in ToSet(list) /\ x \in K
  <2> HIDE DEF K
  <2> QED BY KeepWhere
<1>2. Matching(selector, list) = selector \/ (found # <<>> /\ Matching(selector, list) = found[1])
  BY DEF Matching
<1>3. ASSUME found # <<>> PROVE found[1] \in ToSet(list) /\ found[1].kind = "object"
  <2>1. found[1] \in ToSet(found)
    <3> HIDE DEF found
    <3> QED BY <1>1, <1>3 DEF ToSet
  <2> QED BY <1>1, <2>1 DEF Matches
<1> QED BY <1>2, <1>3

\* What the model says of an advertised field leaves it as it is advertised.
LEMMA NarrowedFaithfully ==
  ASSUME SelectingAssumption, NEW value \in Json, NEW offered \in Json
  PROVE  Faithful(Narrowed(value, offered), offered)
<1> DEFINE narrow == Narrowed(value, offered)
<1>1. CASE value.kind = "object" /\ offered.kind = "object"
  <2>1. narrow = Object(Merged(value.fields, offered.fields))
    BY <1>1 DEF Narrowed
  <2>2. narrow.kind = "object" /\ narrow.fields = Merged(value.fields, offered.fields)
    BY <2>1 DEF Object
  <2>3. ASSUME NEW k \in DOMAIN offered.fields
        PROVE  k \in DOMAIN narrow.fields /\ narrow.fields[k] = offered.fields[k]
    <3> HIDE DEF narrow
    <3> QED BY <2>2 DEF Merged
  <2> HIDE DEF narrow
  <2>4. Faithful(narrow, offered)
    BY <1>1, <2>2, <2>3 DEF Faithful
  <2> QED BY <2>4 DEF narrow
<1>2. CASE value.kind # "list" \/ offered.kind # "list"
  <2>1. ~(value.kind = "object" /\ offered.kind = "object") => narrow = value
    BY <1>2 DEF Narrowed
  <2>2. ~(value.kind = "object" /\ offered.kind = "object") => Faithful(value, offered)
    BY <1>2 DEF Faithful, OfObjects
  <2> QED BY <1>1, <2>1, <2>2
<1>3. CASE value.kind = "list" /\ offered.kind = "list"
  <2>1. value.items \in Seq(Json) /\ offered.items \in Seq(Json)
    BY <1>3 DEF SelectingAssumption
  <2>2. CASE \E i \in ToSet(value.items) : i.kind # "object"
    BY <1>3, <2>2 DEF Narrowed, Faithful, OfObjects
  <2>3. CASE \A i \in ToSet(value.items) : i.kind = "object"
    <3> DEFINE items == [i \in DOMAIN value.items |-> Matching(value.items[i], offered.items)]
    <3>1. narrow = List(items)
      BY <1>3, <2>3 DEF Narrowed
    <3>2. narrow.kind = "list" /\ narrow.items = items
      BY <3>1 DEF List
    <3>3. SUFFICES ASSUME \A j \in ToSet(offered.items) : j.kind = "object" => DOMAIN j.fields # {},
                          NEW x \in ToSet(items)
                   PROVE  x \in ToSet(offered.items) \/ ~\E j \in ToSet(offered.items) : Matches(x, j)
      BY <1>3, <3>2 DEF Faithful
    <3>4. PICK i \in DOMAIN items : x = items[i]
      BY DEF ToSet
    <3>5. i \in DOMAIN value.items /\ x = Matching(value.items[i], offered.items)
      BY <3>4
    <3>6. LET item == Matching(value.items[i], offered.items)
          IN  \/ item \in ToSet(offered.items)
              \/ /\ item = value.items[i]
                 /\ ~\E j \in ToSet(offered.items) : Matches(value.items[i], j)
      BY <2>1, <3>3, MatchingSelects
    <3> QED BY <3>5, <3>6
  <2> QED BY <2>2, <2>3
<1> QED BY <1>2, <1>3

\* Each leaf of a part of what is advertised is a leaf of what the model says or
\* of what is advertised, but where the part is a list and its items hold nothing.
LEMMA NarrowedLeaves ==
  ASSUME SelectingAssumption, NEW value \in Json, NEW offered \in Json,
         Narrowed(value, offered) \in Json, NEW stops \in SUBSET Paths,
         NEW l \in leaves[Narrowed(value, offered)][stops]
  PROVE  \/ l \in leaves[value][stops] \/ l \in leaves[offered][stops]
         \/ l = <<>> /\ OfObjects(Narrowed(value, offered))
<1> DEFINE narrow == Narrowed(value, offered)
<1>1. PICK held \in LeafSets : \A v \in Json :
        leaves[v][stops] = LeavesOf(v, stops, held)
  BY LeavesAre
<1> DEFINE At(s, v) == {s \o m : m \in held[v][Below(s, stops)]}
           OfKey(k, v) == LET s == Segments(k) IN IF s \in stops THEN {s} ELSE At(s, v)
           OfItem(i) == IF i.kind = "object" THEN At(<<"[]">>, i) ELSE held[i][stops]
           nested(v) == UNION {OfItem(i) : i \in ToSet(v.items)}
<1>2. /\ \A v \in Json : v.kind = "object" =>
             leaves[v][stops] = UNION {OfKey(k, v.fields[k]) : k \in DOMAIN v.fields}
      /\ \A v \in Json : v.kind = "list" =>
             leaves[v][stops] = IF nested(v) = {} THEN {<<>>} ELSE nested(v)
  BY <1>1 DEF LeavesOf
<1> HIDE DEF OfKey, OfItem
<1>3. CASE value.kind = "object" /\ offered.kind = "object"
  <2>1. narrow = Object(Merged(value.fields, offered.fields))
    BY <1>3 DEF Narrowed
  <2>2. narrow.kind = "object" /\ narrow.fields = Merged(value.fields, offered.fields)
    BY <2>1 DEF Object
  <2>3. /\ DOMAIN narrow.fields = DOMAIN value.fields \cup DOMAIN offered.fields
        /\ \A k \in DOMAIN narrow.fields : narrow.fields[k] =
             IF k \in DOMAIN offered.fields THEN offered.fields[k] ELSE value.fields[k]
    BY <2>2 DEF Merged
  <2>4. narrow \in Json /\ l \in leaves[narrow][stops]
    OBVIOUS
  <2> HIDE DEF narrow
  <2>5. PICK k \in DOMAIN narrow.fields : l \in OfKey(k, narrow.fields[k])
    BY <1>2, <2>2, <2>4
  <2>6. CASE k \in DOMAIN offered.fields
    BY <1>2, <1>3, <2>3, <2>5, <2>6
  <2>7. CASE k \notin DOMAIN offered.fields
    BY <1>2, <1>3, <2>3, <2>5, <2>7
  <2> QED BY <2>6, <2>7
<1>4. CASE ~(value.kind = "object" /\ offered.kind = "object")
           /\ (value.kind # "list" \/ offered.kind # "list")
  BY <1>4 DEF Narrowed
<1>5. CASE value.kind = "list" /\ offered.kind = "list"
  <2>1. value.items \in Seq(Json) /\ offered.items \in Seq(Json)
    BY <1>5 DEF SelectingAssumption
  <2>2. CASE \E i \in ToSet(value.items) : i.kind # "object"
    BY <1>5, <2>2 DEF Narrowed
  <2>3. CASE \A i \in ToSet(value.items) : i.kind = "object"
    <3> DEFINE items == [i \in DOMAIN value.items |-> Matching(value.items[i], offered.items)]
    <3>1. narrow = List(items)
      BY <1>5, <2>3 DEF Narrowed
    <3>2. narrow.kind = "list" /\ narrow.items = items
      BY <3>1 DEF List
    <3>3. ASSUME NEW x \in ToSet(items)
          PROVE  /\ x.kind = "object"
                 /\ x \in ToSet(value.items) \/ x \in ToSet(offered.items)
      <4>1. PICK i \in DOMAIN items : x = items[i]
        BY DEF ToSet
      <4>2. i \in DOMAIN value.items /\ x = Matching(value.items[i], offered.items)
        BY <4>1
      <4>3. value.items[i] \in ToSet(value.items)
        BY <4>2 DEF ToSet
      <4> QED BY <2>1, <2>3, <4>2, <4>3, MatchingIs
    <3>4. OfObjects(narrow)
      BY <3>2, <3>3 DEF OfObjects
    <3>5. narrow \in Json /\ l \in leaves[narrow][stops]
      OBVIOUS
    <3> HIDE DEF narrow, items
    <3>8. leaves[narrow][stops] = IF nested(narrow) = {} THEN {<<>>} ELSE nested(narrow)
      BY <1>2, <3>2, <3>5
    <3>6. l = <<>> \/ l \in nested(narrow)
      BY <3>5, <3>8
    <3>7. ASSUME l \in nested(narrow) PROVE l \in leaves[value][stops] \/ l \in leaves[offered][stops]
      <4>1. PICK x \in ToSet(items) : l \in OfItem(x)
        BY <3>2, <3>7
      <4>2. CASE x \in ToSet(value.items)
        <5>1. l \in nested(value)
          BY <4>1, <4>2
        <5> QED BY <1>2, <1>5, <5>1
      <4>3. CASE x \in ToSet(offered.items)
        <5>1. l \in nested(offered)
          BY <4>1, <4>3
        <5> QED BY <1>2, <1>5, <5>1
      <4> QED BY <3>3, <4>2, <4>3
    <3> QED BY <3>4, <3>6, <3>7 DEF narrow
  <2> QED BY <2>2, <2>3
<1> QED BY <1>3, <1>4, <1>5

\* An advertised value is faithful to itself.
LEMMA EchoedFaithfully ==
  ASSUME NEW value PROVE Faithful(value, value)
BY DEF Faithful

\* What is sent under a name: the turn's own before the model's, the model's
\* before the provider's.
LEMMA AttributesAre ==
  ASSUME SelectingAssumption
  PROVE  /\ DOMAIN Attributes = DOMAIN Echoed \cup DOMAIN Reconciled \cup Ours
         /\ \A f \in DOMAIN Structural : Attributes[f] = Structural[f]
         /\ "location" \in Ours => Attributes["location"] = Point
         /\ "validity" \in Ours => Attributes["validity"] = Today
         /\ \A f \in DOMAIN Attributes \ Ours :
              Attributes[f] = IF f \in DOMAIN Reconciled THEN Reconciled[f] ELSE Echoed[f]
<1> DEFINE place  == [f \in IF Placed THEN {"location"} ELSE {} |-> Point]
           window == [f \in IF offer.schema.priced THEN {"validity"} ELSE {} |-> Today]
           model  == Merged(Echoed, Reconciled)
           turn   == Merged(model, Structural)
           there  == Merged(turn, place)
<1>1. Attributes = Merged(there, window)
  BY DEF Attributes
<1>2. /\ DOMAIN place = IF Placed THEN {"location"} ELSE {}
      /\ \A k \in DOMAIN place : place[k] = Point
      /\ DOMAIN window = IF offer.schema.priced THEN {"validity"} ELSE {}
      /\ \A k \in DOMAIN window : window[k] = Today
  OBVIOUS
<1>3. DOMAIN Structural \cap {"location", "validity"} = {}
  BY DEF SelectingAssumption
<1>4. Ours = DOMAIN Structural \cup DOMAIN place \cup DOMAIN window
  BY <1>2 DEF Ours
<1> HIDE DEF place, window
<1>5. /\ DOMAIN model = DOMAIN Echoed \cup DOMAIN Reconciled
      /\ \A k \in DOMAIN model :
           model[k] = IF k \in DOMAIN Reconciled THEN Reconciled[k] ELSE Echoed[k]
  BY DEF Merged
<1> HIDE DEF model
<1>6. /\ DOMAIN turn = DOMAIN model \cup DOMAIN Structural
      /\ \A k \in DOMAIN turn :
           turn[k] = IF k \in DOMAIN Structural THEN Structural[k] ELSE model[k]
  BY DEF Merged
<1> HIDE DEF turn
<1>7. /\ DOMAIN there = DOMAIN turn \cup DOMAIN place
      /\ \A k \in DOMAIN there : there[k] = IF k \in DOMAIN place THEN place[k] ELSE turn[k]
  BY DEF Merged
<1> HIDE DEF there
<1>8. /\ DOMAIN Attributes = DOMAIN there \cup DOMAIN window
      /\ \A k \in DOMAIN Attributes :
           Attributes[k] = IF k \in DOMAIN window THEN window[k] ELSE there[k]
  BY <1>1 DEF Merged
<1>9. DOMAIN Attributes = DOMAIN Echoed \cup DOMAIN Reconciled \cup Ours
  BY <1>4, <1>5, <1>6, <1>7, <1>8
<1>10. ASSUME NEW f \in DOMAIN Structural PROVE Attributes[f] = Structural[f]
  BY <1>2, <1>3, <1>6, <1>7, <1>8, <1>10
<1>11. ASSUME "location" \in Ours PROVE Attributes["location"] = Point
  BY <1>2, <1>3, <1>4, <1>7, <1>8, <1>11
<1>12. ASSUME "validity" \in Ours PROVE Attributes["validity"] = Today
  BY <1>2, <1>3, <1>4, <1>8, <1>12
<1>13. ASSUME NEW f \in DOMAIN Attributes \ Ours
       PROVE  Attributes[f] = IF f \in DOMAIN Reconciled THEN Reconciled[f] ELSE Echoed[f]
  BY <1>4, <1>5, <1>6, <1>7, <1>8
<1> QED BY <1>9, <1>10, <1>11, <1>12, <1>13

\* What is made of the model's value of a field: for what is observed one the
\* provider serves, a part of what is advertised, or the value itself.
LEMMA ReconciledAre ==
  ASSUME SelectingAssumption, offer \in Offers, NEW f \in DOMAIN Reconciled
  PROVE  /\ f \in DOMAIN args.fields
         /\ f = "observationType" => Reconciled[f] = args.fields[f] \/ Serves(f, Reconciled[f])
         /\ f # "observationType" =>
              Reconciled[f] = IF f \in DOMAIN Echoed THEN Narrowed(args.fields[f], Echoed[f])
                              ELSE args.fields[f]
<1> DEFINE Value(g) ==
             IF g = "observationType"
             THEN Supported(args.fields[g], Offered("supportedObservationTypes"))
             ELSE IF g \in DOMAIN Echoed THEN Narrowed(args.fields[g], Echoed[g])
             ELSE args.fields[g]
           fields == DOMAIN args.fields \ (IF Placed THEN {"coverageAreas"} ELSE {})
<1>1. Reconciled = [g \in {h \in fields : Value(h) # Is(Null)} |-> Value(g)]
  BY DEF Reconciled
<1>2. f \in DOMAIN args.fields /\ Reconciled[f] = Value(f) /\ Value(f) # Is(Null)
  BY <1>1
<1>3. ASSUME f = "observationType"
      PROVE  Reconciled[f] = args.fields[f] \/ Serves(f, Reconciled[f])
  <2> DEFINE served == Offered("supportedObservationTypes")
  <2>1. Reconciled[f] = Supported(args.fields[f], served)
    BY <1>2, <1>3
  <2>2. CASE served.kind # "list" \/ args.fields[f] \in ToSet(served.items)
    BY <2>1, <2>2 DEF Supported
  <2>3. CASE served.kind = "list" /\ Len(served.items) = 1
    <3>1. Reconciled[f] = args.fields[f] \/ Reconciled[f] = served.items[1]
      BY <2>1, <2>3 DEF Supported
    <3>2. served.kind = "list" => served \in Json
      <4>1. CASE "supportedObservationTypes" \in DOMAIN offer.advertised
        BY <4>1 DEF Offered, SelectingAssumption
      <4>2. CASE "supportedObservationTypes" \notin DOMAIN offer.advertised
        BY <4>2 DEF Offered, Is
      <4> QED BY <4>1, <4>2
    <3> HIDE DEF served
    <3>3. served.items \in Seq(Json)
      BY <2>3, <3>2 DEF SelectingAssumption
    <3>4. 1 \in DOMAIN served.items
      BY <2>3, <3>3
    <3>5. served.items[1] \in Items(served)
      BY <2>3, <3>4 DEF Items, ToSet
    <3> QED BY <1>3, <3>1, <3>5 DEF Serves, served
  <2> QED BY <1>2, <2>1, <2>2, <2>3 DEF Supported
<1> QED BY <1>2, <1>3

\* What goes out under a name that is not the turn's own.
LEMMA SentOfTheModel ==
  ASSUME SelectingAssumption, NarrowingAssumption, offer \in Offers, args \in Written,
         Fits(offer.schema), sent = Attributes, NEW f \in DOMAIN Attributes \ Ours
  PROVE  /\ f \in Allowed(offer.schema) /\ f # "observationType" => Faithful(Attributes[f], Offered(f))
         /\ Serves(f, Attributes[f]) \/ NothingSmuggled(f)
         /\ f \in DOMAIN offer.schema.enums /\ Whole(f) /\ Attributes[f] # Offered(f) =>
              \/ HoldsNothing(args.fields[f]) \/ Serves(f, Attributes[f])
              \/ Items(Attributes[f]) \subseteq {Is(u) : u \in offer.schema.enums[f]}
<1> DEFINE value == Attributes[f]
<1>1. /\ f \in DOMAIN Echoed \cup DOMAIN Reconciled
      /\ value = IF f \in DOMAIN Reconciled THEN Reconciled[f] ELSE Echoed[f]
  BY AttributesAre
<1>2. f \in DOMAIN Echoed => f \in Allowed(offer.schema) /\ Echoed[f] = Offered(f)
  BY DEF Echoed, Offered
<1>3. f \in Allowed(offer.schema) /\ f \notin DOMAIN Echoed => Offered(f) = Is(Null)
  BY DEF Echoed, Offered
<1>4. f \in DOMAIN Echoed => Echoed[f] \in Json
  BY DEF Echoed, SelectingAssumption
<1>5. CASE f \notin DOMAIN Reconciled
  <2>1. value = Offered(f) /\ f \in Allowed(offer.schema)
    BY <1>1, <1>2, <1>5
  <2>2. Faithful(value, Offered(f))
    BY <2>1, EchoedFaithfully
  <2>3. NothingSmuggled(f)
    BY <1>1, <1>5 DEF NothingSmuggled
  <2> QED BY <2>1, <2>2, <2>3
<1>6. CASE f \in DOMAIN Reconciled
  <2> DEFINE said == args.fields[f]
  <2>1. f \in DOMAIN args.fields
    BY <1>6, ReconciledAre
  <2>2. said \in Json
    BY <2>1 DEF SelectingAssumption
  <2>3. /\ \A l \in leaves[said][Inside(f)] : <<f>> \o l \in Filterable(offer.schema)
        /\ Whole(f) => HoldsNothing(said) \/ Listed(f, offer.schema)
    BY <2>1, FittingField
  <2>4. f = "observationType" => value = said \/ Serves(f, value)
    BY <1>1, <1>6, ReconciledAre
  <2>5. f # "observationType" =>
          value = IF f \in DOMAIN Echoed THEN Narrowed(said, Echoed[f]) ELSE said
    BY <1>1, <1>6, ReconciledAre
  <2>9. sent[f] = value
    OBVIOUS
  <2>10. f \in DOMAIN Echoed => Narrowed(said, Echoed[f]) \in Json
    BY <2>1 DEF NarrowingAssumption, Echoed
  <2>11. f \in STRING
    BY <2>1 DEF SelectingAssumption
  <2> HIDE DEF value, said
  <2>6. ASSUME f \in Allowed(offer.schema), f # "observationType"
        PROVE  Faithful(value, Offered(f))
    <3>1. CASE f \in DOMAIN Echoed
      BY <1>2, <1>4, <2>2, <2>5, <2>6, <3>1, NarrowedFaithfully
    <3>2. CASE f \notin DOMAIN Echoed
      <4>1. Offered(f).kind = "value"
        BY <1>3, <2>6, <3>2 DEF Is
      <4> QED BY <4>1 DEF Faithful
    <3> QED BY <3>1, <3>2
  <2>7. Serves(f, value) \/ NothingSmuggled(f)
    <3>1. CASE value = said
      BY <2>3, <2>9, <3>1 DEF NothingSmuggled
    <3>2. CASE f # "observationType" /\ f \in DOMAIN Echoed
      <4>1. value = Narrowed(said, Echoed[f]) /\ Inside(f) \in SUBSET Paths
        BY <2>5, <2>11, <3>2, InsideIsPaths
      <4>2. \A l \in leaves[value][Inside(f)] :
              \/ l \in leaves[said][Inside(f)] \/ l \in leaves[Echoed[f]][Inside(f)]
              \/ l = <<>> /\ OfObjects(value)
        BY <1>4, <2>2, <2>10, <3>2, <4>1, NarrowedLeaves
      <4> QED BY <2>3, <2>9, <3>2, <4>2 DEF NothingSmuggled
    <3> QED BY <2>4, <2>5, <3>1, <3>2
  <2>8. ASSUME f \in DOMAIN offer.schema.enums, Listed(f, offer.schema)
        PROVE  Serves(f, value) \/ Items(value) \subseteq {Is(u) : u \in offer.schema.enums[f]}
    <3> DEFINE ofSet == {Is(u) : u \in offer.schema.enums[f]}
    <3>1. Items(said) \subseteq ofSet
      BY <2>8 DEF Listed, said
    <3>2. \A x \in Items(said) : x.kind = "value"
      BY <3>1 DEF Is
    <3>3. CASE value = said
      BY <3>1, <3>3
    <3>4. CASE f # "observationType" /\ f \in DOMAIN Echoed
      <4>1. value = Narrowed(said, Echoed[f])
        BY <2>5, <3>4
      <4>2. CASE said.kind # "list"
        <5>1. said.kind = "value"
          BY <3>2, <4>2 DEF Items
        <5> QED BY <3>3, <4>1, <5>1 DEF Narrowed
      <4>3. CASE said.kind = "list" /\ ToSet(said.items) # {}
        <5>1. \E i \in ToSet(said.items) : i.kind # "object"
          BY <3>2, <4>3 DEF Items
        <5> QED BY <3>3, <4>1, <4>3, <5>1 DEF Narrowed
      <4>4. CASE said.kind = "list" /\ ToSet(said.items) = {}
        <5> DEFINE list == [i \in DOMAIN said.items |-> Matching(said.items[i], Echoed[f].items)]
        <5>1. value = said \/ value = List(list)
          BY <4>1, <4>4 DEF Narrowed
        <5>2. ASSUME NEW n \in DOMAIN said.items PROVE FALSE
          <6>1. said.items[n] \in ToSet(said.items)
            BY DEF ToSet
          <6> QED BY <4>4, <6>1
        <5>3. ToSet(list) = {}
          BY <5>2 DEF ToSet
        <5> HIDE DEF list
        <5>4. Items(List(list)) = {}
          BY <5>3 DEF Items, List
        <5> QED BY <3>3, <5>1, <5>4
      <4> QED BY <4>2, <4>3, <4>4
    <3> QED BY <2>4, <2>5, <3>3, <3>4
  <2> QED BY <2>3, <2>6, <2>7, <2>8 DEF value, said
<1> QED BY <1>5, <1>6

\* What is sent of what was found to fit is as ModelRewritesNothing says.
LEMMA AttributesRewriteNothing ==
  ASSUME SelectingAssumption, NarrowingAssumption, SelectingInv PROVE ModelRewritesNothing
<1> SUFFICES ASSUME sent # Null PROVE ModelRewritesNothing
  BY DEF ModelRewritesNothing
<1>1. /\ offer \in Offers /\ args \in Written /\ Fits(offer.schema)
      /\ sent = Attributes
  BY DEF SelectingInv
<1>2. /\ DOMAIN Structural \subseteq DOMAIN sent /\ Ours \subseteq DOMAIN sent
      /\ \A f \in DOMAIN Structural : sent[f] = Structural[f]
      /\ "location" \in Ours => sent["location"] = Point
      /\ "validity" \in Ours => sent["validity"] = Today
  BY <1>1, AttributesAre DEF Ours
<1>3. \A f \in DOMAIN sent \ Ours :
        /\ f \in Allowed(offer.schema) /\ f # "observationType" => Faithful(sent[f], Offered(f))
        /\ Serves(f, sent[f]) \/ NothingSmuggled(f)
        /\ f \in DOMAIN offer.schema.enums /\ Whole(f) /\ sent[f] # Offered(f) =>
             \/ HoldsNothing(args.fields[f]) \/ Serves(f, sent[f])
             \/ Items(sent[f]) \subseteq {Is(u) : u \in offer.schema.enums[f]}
  BY <1>1, SentOfTheModel
<1> QED BY <1>2, <1>3 DEF ModelRewritesNothing

\* A select is validated before it is built and built once.
THEOREM SelectingInvariance == SelectingSpec => []SelectingInv
<1>1. SelectingInit => SelectingInv
  BY DEF SelectingInit, SelectingInv
<1>2. SelectingInv /\ [SelectingNext]_svars => SelectingInv'
  <2> SUFFICES ASSUME SelectingInv, [SelectingNext]_svars PROVE SelectingInv'
    OBVIOUS
  <2>1. CASE ValidateArguments
    <3>1. UNCHANGED <<offer, args, here, sent>> /\ sent = Null
      BY <2>1 DEF ValidateArguments, SelectingInv
    <3>2. verdict' = "ok" => Fits(offer.schema)
      BY <2>1 DEF ValidateArguments
    <3>3. Fits(offer.schema) => Fits(offer.schema)'
      BY <3>1 DEF Fits, Misshapen, Listed
    <3> QED BY <3>1, <3>2, <3>3 DEF SelectingInv
  <2>2. CASE BuildAttributes
    <3>1. UNCHANGED <<offer, args, here, verdict>> /\ verdict = "ok" /\ sent' = Attributes
      BY <2>2 DEF BuildAttributes
    <3>2. Fits(offer.schema) => Fits(offer.schema)'
      BY <3>1 DEF Fits, Misshapen, Listed
    <3>3. Attributes' = Attributes
      BY <3>1 DEF Attributes, Echoed, Reconciled, Placed, Offered
    <3> QED BY <3>1, <3>2, <3>3 DEF SelectingInv
  <2>3. CASE UNCHANGED svars
    <3>1. UNCHANGED <<offer, args, here, verdict, sent>>
      BY <2>3 DEF svars
    <3>2. Fits(offer.schema) => Fits(offer.schema)'
      BY <3>1 DEF Fits, Misshapen, Listed
    <3>3. Attributes' = Attributes
      BY <3>1 DEF Attributes, Echoed, Reconciled, Placed, Offered
    <3> QED BY <3>1, <3>2, <3>3 DEF SelectingInv
  <2> QED BY <2>1, <2>2, <2>3 DEF SelectingNext
<1> QED BY <1>1, <1>2, PTL DEF SelectingSpec

\* However the model writes a select, what the turn knows and what the provider
\* advertises go out as they are, and under any other name no leaf goes out,
\* however deep, that neither the pack nor the provider offers, but what the
\* provider says it serves (validate_arguments, build_resource_attributes).
THEOREM NothingIsRewritten == SelectingSpec => []ModelRewritesNothing
<1>1. SelectingInv => ModelRewritesNothing
  BY SelectingAssumption, NarrowingAssumption, AttributesRewriteNothing
<1> QED BY <1>1, SelectingInvariance, PTL
=============================================================================
