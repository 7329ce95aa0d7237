------------------------------ MODULE Planner -------------------------------
(***************************************************************************)
(* The planner's tool loop (orchestration/planner.py, plan.py) for one     *)
(* cleared turn: the model answers with tool calls, the calls of one       *)
(* response run concurrently, and all of them write the same answers,      *)
(* failures and next choices.  A select consults its providers             *)
(* concurrently in turn; one provider call is Invocation, taken here as    *)
(* the outcome it ends with.                                               *)
(*                                                                         *)
(* The model and the agent framework are external: any calls, in any       *)
(* batches, and a retry budget that may run out on any ModelRetry.         *)
(***************************************************************************)
EXTENDS Naturals, SequencesExt, Lists

CONSTANTS
  Asks,         \* the asks that are not a form's
  Candidates,   \* resources discovery may offer
  TypeOf,       \* each candidate's @type (ProviderCapability.capability)
  ProviderOf,   \* each candidate's provider
  PlaceFree,    \* the @types whose pack needs no place
  Turns,        \* the turns discovery may hand over: offers, ranked, placed
  MaxCalls,     \* bound: tool calls the model makes in the turn
  NoPick        \* model value: a select_next names no candidate

ASSUME CallsAssumption == MaxCalls \in Nat
ASSUME TurnsAssumption ==
  Turns \subseteq [offers : [Asks -> Seq(Candidates)],
                   ranked : SUBSET Asks, placed : SUBSET Asks]
ASSUME NoPickAssumption == NoPick \notin Candidates

VARIABLES
  offers,     \* DiscoveryResult.capabilities, per ask
  ranked,     \* asks a client ranking governs (priority_for_ask)
  placed,     \* asks with a resolved place; the others name none
  running,    \* "model" | "tools" | "ended" | "broken"
  calls,      \* the tool calls so far: the tool, its ask, the candidate it
              \* names, how far it is ("requested", "consulting", "done"), the
              \* candidates it consults in order, what each came back with
  answers,    \* raw_answers: <<ask, candidate>> pairs
  failures,   \* failures: <<ask, candidate>> pairs
  waiting     \* NextChoices.waiting, per ask

fixed == <<offers, ranked, placed>>
deps  == <<answers, failures, waiting>>
vars  == <<fixed, running, calls, deps>>

\* What one provider came back with: data, a readable nothing, or the
\* adapter's last failure.
Return == {"data", "empty", "failed"}
Unasked == [c \in Candidates |-> "unasked"]

InOffer(a) == ToSet(offers[a])

Init ==
  /\ \E turn \in Turns :
       offers = turn.offers /\ ranked = turn.ranked /\ placed = turn.placed
  /\ running = "model"
  /\ calls = <<>>
  /\ answers = {} /\ failures = {}
  /\ waiting = [a \in Asks |-> <<>>]

-----------------------------------------------------------------------------
\* The model.

Open == {i \in DOMAIN calls : calls[i].stage # "done"}

\* One more tool call in the response the model is writing.
RequestTool(tool, a, c) ==
  /\ running = "model" /\ Len(calls) < MaxCalls
  /\ calls' = Append(calls, [tool |-> tool, ask |-> a, picks |-> c,
                             stage |-> "requested", slots |-> <<>>,
                             got |-> Unasked])
  /\ UNCHANGED <<fixed, running, deps>>

\* The response is in: the framework runs its calls together.
RunTools ==
  /\ running = "model" /\ Open # {}
  /\ running' = "tools"
  /\ UNCHANGED <<fixed, calls, deps>>

\* Every call has returned: the model reads the lot.
ToolsReturn ==
  /\ running = "tools" /\ Open = {}
  /\ running' = "model"
  /\ UNCHANGED <<fixed, calls, deps>>

\* The model is done, and the evidence is assembled from the dependencies.
PlanEnds ==
  /\ running = "model" /\ Open = {}
  /\ running' = "ended"
  /\ UNCHANGED <<fixed, calls, deps>>

\* The model's call failed, its retry budget ran out, or a tool raised what is
\* not a failed select: the run raises, and its calls are cancelled.
PlanRaises ==
  /\ running \in {"model", "tools"}
  /\ running' = "broken"
  /\ UNCHANGED <<fixed, calls, deps>>

Done(i) == calls' = [calls EXCEPT ![i].stage = "done"]

-----------------------------------------------------------------------------
\* select.

Requested(i, tool) ==
  running = "tools" /\ calls[i].tool = tool /\ calls[i].stage = "requested"

\* find_capability and the place check.
Callable(i) ==
  /\ calls[i].picks \in InOffer(calls[i].ask)
  /\ calls[i].ask \in placed \/ TypeOf[calls[i].picks] \in PlaceFree

\* No such candidate, no schema, an invented field: a ModelRetry; nowhere to
\* search: the tool says so.  Either way nobody is called.
TurnAway(i) ==
  /\ Requested(i, "select")
  /\ Done(i)
  /\ UNCHANGED <<fixed, running, deps>>

\* _consulting: with a ranking every candidate of the pick's @type in ranked
\* order, without one the pick alone.
Consulting(i) ==
  IF calls[i].ask \in ranked
  THEN Keep(offers[calls[i].ask],
            {c \in Candidates : TypeOf[c] = TypeOf[calls[i].picks]})
  ELSE <<calls[i].picks>>

\* _select up to the await of _consult_all: every provider is called at once.
ConsultAll(i) ==
  /\ Requested(i, "select") /\ Callable(i)
  /\ calls' = [calls EXCEPT ![i].stage = "consulting",
                            ![i].slots = Consulting(i)]
  /\ UNCHANGED <<fixed, running, deps>>

\* The task group is through: each provider has returned, in whatever order,
\* and nothing was read until the last had.
Consulted(i, got) ==
  /\ running = "tools" /\ calls[i].stage = "consulting"
  /\ got \in [ToSet(calls[i].slots) -> Return]
  /\ calls' = [calls EXCEPT ![i].stage = "done",
                 ![i].got = [c \in Candidates |->
                   IF c \in DOMAIN got THEN got[c] ELSE "unasked"]]

WithData(slots, got) == Keep(slots, {c \in DOMAIN got : got[c] = "data"})

Failed(got) == {c \in DOMAIN got : got[c] = "failed"}

\* Mutant of HoldAfter: every lower-ranked provider is held, those that came
\* back with nothing too.
HoldEveryone(slots, got) == Tail(slots)

\* NextChoices.hold_after: the lower-ranked providers that have data.
HoldAfter(slots, got) == Tail(WithData(slots, got))

\* Mutant of UseFirst: one provider that failed costs the ask its answer.
UseUnlessOneFailed(i, got) ==
  LET slots == calls[i].slots
      a     == calls[i].ask
  IN  /\ Consulted(i, got)
      /\ WithData(slots, got) # <<>>
      /\ answers' = IF Failed(got) # {} THEN answers
                    ELSE answers \cup {<<a, Head(WithData(slots, got))>>}
      /\ waiting' = [waiting EXCEPT ![a] = HoldAfter(slots, got)]
      /\ UNCHANGED <<fixed, running, failures>>

\* The best-ranked provider with data answers the ask; the rest are held for
\* select_next, in place of whatever was held before.
UseFirst(i, got) ==
  LET slots == calls[i].slots
      a     == calls[i].ask
  IN  /\ Consulted(i, got)
      /\ WithData(slots, got) # <<>>
      /\ answers' = answers \cup {<<a, Head(WithData(slots, got))>>}
      /\ waiting' = [waiting EXCEPT ![a] = HoldAfter(slots, got)]
      /\ UNCHANGED <<fixed, running, failures>>

\* _nothing_came_back: only now does a provider's failure count.
NothingCameBack(i, got) ==
  /\ Consulted(i, got)
  /\ WithData(calls[i].slots, got) = <<>>
  /\ failures' = failures \cup {<<calls[i].ask, c>> : c \in Failed(got)}
  /\ UNCHANGED <<fixed, running, answers, waiting>>

-----------------------------------------------------------------------------
\* select_next.

\* Mutant of SelectNext: the next choice's data is taken from every ask.
SelectNextForgetful(i) ==
  /\ Requested(i, "select_next")
  /\ Done(i)
  /\ LET a == calls[i].ask
     IN  IF waiting[a] = <<>>
         THEN UNCHANGED <<answers, waiting>>
         ELSE /\ answers' = {<<a, Head(waiting[a])>>}
              /\ waiting' = [waiting EXCEPT ![a] = Tail(@)]
  /\ UNCHANGED <<fixed, running, failures>>

\* NextChoices.take and _replace_answers, with no await between; calls nobody.
SelectNext(i) ==
  /\ Requested(i, "select_next")
  /\ Done(i)
  /\ LET a == calls[i].ask
     IN  IF waiting[a] = <<>>
         THEN UNCHANGED <<answers, waiting>>
         ELSE /\ answers' = {pair \in answers : pair[1] # a}
                              \cup {<<a, Head(waiting[a])>>}
              /\ waiting' = [waiting EXCEPT ![a] = Tail(@)]
  /\ UNCHANGED <<fixed, running, failures>>

-----------------------------------------------------------------------------
ToolStep(i) ==
  \/ TurnAway(i) \/ ConsultAll(i) \/ SelectNext(i)
  \/ \E got \in [ToSet(calls[i].slots) -> Return] :
       UseFirst(i, got) \/ NothingCameBack(i, got)

Model ==
  \/ \E a \in Asks : \/ \E c \in Candidates : RequestTool("select", a, c)
                    \/ RequestTool("select_next", a, NoPick)
  \/ RunTools \/ ToolsReturn \/ PlanEnds

Progress == Model \/ \E i \in DOMAIN calls : ToolStep(i)

Next == Progress \/ PlanRaises

Spec == Init /\ [][Next]_vars

\* The model's and the providers' calls carry timeouts; nothing need raise.
FairSpec == Spec /\ WF_vars(Progress)

-----------------------------------------------------------------------------
\* Properties.

HasData(a) == \E c \in Candidates : <<a, c>> \in answers

Gathered == INSTANCE Gathering WITH
  consulted <- {calls[i].ask : i \in {i \in DOMAIN calls : calls[i].slots # <<>>}},
  results   <- {a \in Asks : HasData(a)},
  failed    <- {pair[1] : pair \in failures}

\* Whatever the model calls and however the calls interleave, an ask that has
\* an answer keeps one, one ask's calls never touch another's evidence, and no
\* failure is booked on an ask nobody was consulted for.
GathersAsPromised == Gathered!GSpec

\* One unreachable provider does not cost the farmer the answer another one
\* had: a finished select with any data left its ask answered, and no failure
\* counts but one of a select that came back with no data at all.
OneFailureCostsNothing ==
  /\ \A i \in DOMAIN calls :
       (\E c \in Candidates : calls[i].got[c] = "data")
         => HasData(calls[i].ask)
  /\ \A pair \in failures : \E i \in DOMAIN calls :
       /\ calls[i].ask = pair[1]
       /\ calls[i].got[pair[2]] = "failed"
       /\ \A c \in Candidates : calls[i].got[c] # "data"

\* Every answer, and every next choice, is data its provider returned to a
\* finished select for that ask, so a switch never leaves the ask with none;
\* and that provider was one discovery offered for this very ask, with a place
\* to ask about unless its pack needs none.
AnswersAreSaid ==
  \A a \in Asks :
    \A c \in {c \in Candidates : <<a, c>> \in answers} \cup ToSet(waiting[a]) :
      /\ c \in InOffer(a)
      /\ a \in placed \/ TypeOf[c] \in PlaceFree
      /\ \E i \in DOMAIN calls : calls[i].ask = a /\ calls[i].got[c] = "data"

\* The tool loop ends, the model being held to MaxCalls.
PlanReturns == <>(running \in {"ended", "broken"})

\* orchestration/planner.py 228: "One ask is still answered by one provider:
\* the next choice's data replaces the first's, never joins it."
OneProviderPerAsk ==
  \A x, y \in answers :
    x[1] = y[1] /\ x[1] \in ranked => ProviderOf[x[2]] = ProviderOf[y[2]]
=============================================================================
