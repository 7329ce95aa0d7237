------------------------------ MODULE TextTurn ------------------------------
(***************************************************************************)
(* One text turn, from the request the router admitted to the frame that   *)
(* ends it: Orchestrator.run, TextPath.run and its three generator layers  *)
(* (core, translation, edge), run_turn's two concurrent branches, and the  *)
(* router's _frames / _single that drain them.                             *)
(*                                                                         *)
(* What the models, the network and the caller do is nondeterministic; the *)
(* planner's tool loop is abstracted to which asks it consults a provider  *)
(* for and what came back.                                                 *)
(***************************************************************************)
EXTENDS Naturals, Sequences

CONSTANTS
  Asks,        \* the asks a classification may hold
  MaxPieces,   \* bound: the pieces one block is written in
  NoReply      \* model value: the core has not settled its reply

ASSUME PiecesAssumption == MaxPieces \in Nat

VARIABLES
  mode,        \* "sse" | "json": the transport the caller accepted
  routed,      \* does edge translation have a route for this turn?
  pc,          \* where the turn's generator stands
  mod,         \* the moderation branch of run_turn
  chain,       \* the intent -> location -> discovery branch of run_turn
  decision,    \* TurnResult.decision, "unset" until run_turn returns
  intent,      \* TurnResult.intent: the asks
  place,       \* what resolve_places made of each ask's place
  found,       \* what discovery found for each ask
  placeless,   \* asks with an option whose pack needs no place
  formed,      \* asks the form registry holds a form for
  results,     \* asks with a result in the evidence
  failures,    \* per ask, the kinds of failure in the evidence
  consulted,   \* asks a provider was called for
  reply,       \* the core's TurnFinished, settled before it is written
  claimed,     \* the edge's AnswerStream: the blocks claimed
  unclaimed,   \* the edge's AnswerStream: pieces since the last claim
  held,        \* does StreamReveal hold back the start of a tag?
  counted,     \* the asks telemetry counted (TurnRecorder.asked)
  record,      \* the turn sink: "absent" | "opened" | the closing status
  sent,        \* the kinds of frame written to the caller
  terminal     \* the terminal frame's [status, content]

request  == <<mode, routed>>
branches == <<mod, chain>>
network  == <<place, found, placeless, formed>>
evidence == <<results, failures, consulted>>
edge     == <<claimed, unclaimed, held>>
wires    == <<sent, terminal>>
vars     == <<request, pc, branches, decision, intent, network, evidence,
              reply, edge, counted, record, wires>>

Outcome   == {"proceed", "reject", "clarify", "no_match"}
Place     == {"resolved", "ambiguous", "unresolved", "none"}
\* DiscoveryResult.answers and DiscoveryResult.capabilities.
Option    == {"direct", "ondemand"}
Failure   == {"place", "provider"}
TurnStatus == {"answered", "partially_answered", "rejected", "no_match",
               "requires_input", "unavailable"}

\* A reply's content: whether it has words, and the asks whose form it carries.
Content   == [words : BOOLEAN, forms : SUBSET Asks]
Nothing   == [words |-> FALSE, forms |-> {}]
Reply     == [status : TurnStatus, content : Content, mentions : SUBSET Asks]
NoFrame   == [status |-> "none", content |-> Nothing]
Terminal  == [status : TurnStatus \cup {"none", "internal"}, content : Content]

ASSUME NoReplyAssumption == NoReply \notin Reply

\* A tool's result, a model's reply and a provider's answer are all awaited:
\* these are the stages at which the turn can be waiting for one.
Stage == {"start", "redact", "open", "translate_in", "understand", "gate",
          "plan", "compose", "speak", "claim", "offer", "finish",
          "ended", "dropped"}

Init ==
  /\ mode \in {"sse", "json"}
  /\ routed \in BOOLEAN
  /\ pc = "start"
  /\ mod = "idle" /\ chain = "idle"
  /\ decision = "unset"
  /\ intent = {}
  /\ place = [a \in Asks |-> "none"]
  /\ found = [a \in Asks |-> {}]
  /\ placeless = {} /\ formed = {}
  /\ results = {} /\ consulted = {}
  /\ failures = [a \in Asks |-> {}]
  /\ reply = NoReply
  /\ claimed = Nothing /\ unclaimed = 0 /\ held = FALSE
  /\ counted = {}
  /\ record = "absent"
  /\ sent = <<>> /\ terminal = NoFrame

-----------------------------------------------------------------------------
\* The wire.

\* A stream forwards each event; a single response drops all but the last.
Emit(kind) == sent' = IF mode = "sse" THEN Append(sent, kind) ELSE sent

End(status, content) ==
  /\ pc' = "ended"
  /\ sent' = Append(sent, "terminal")
  /\ terminal' = [status |-> status, content |-> content]

\* The turn raised: the router reports an internal failure, with no content.
\* What was written stays written; a branch still running is cancelled.
Break ==
  /\ End("internal", Nothing)
  /\ mod' = IF mod = "running" THEN "cancelled" ELSE mod
  /\ chain' = IF chain \in {"intent", "location", "discovery"}
              THEN "cancelled" ELSE chain
  /\ UNCHANGED <<request, decision, intent, network, evidence, reply, edge,
                 counted, record>>

-----------------------------------------------------------------------------
\* The edge, before the core runs.

\* Orchestrator.run: the first event, before any path runs.
Start ==
  /\ pc = "start"
  /\ pc' = "redact"
  /\ Emit("created")
  /\ UNCHANGED <<request, branches, decision, intent, network, evidence,
                 reply, edge, counted, record, terminal>>

\* Identifiers that fail are dropped, so redaction itself never raises.
Redact ==
  /\ pc = "redact"
  /\ pc' = "open"
  /\ UNCHANGED <<request, branches, decision, intent, network, evidence,
                 reply, edge, counted, record, wires>>

\* TurnSink.opened: required, so a failed write breaks the turn.
OpenRecord ==
  /\ pc = "open"
  /\ \/ /\ record' = "opened"
        /\ pc' = IF routed THEN "translate_in" ELSE "understand"
        /\ mod' = IF routed THEN mod ELSE "running"
        /\ chain' = IF routed THEN chain ELSE "intent"
        /\ UNCHANGED <<request, decision, intent, network, evidence, reply,
                       edge, counted, wires>>
     \/ Break

TranslateIn ==
  /\ pc = "translate_in"
  /\ \/ /\ pc' = "understand"
        /\ mod' = "running" /\ chain' = "intent"
        /\ UNCHANGED <<request, decision, intent, network, evidence, reply,
                       edge, counted, record, wires>>
     \/ Break

-----------------------------------------------------------------------------
\* run_turn: moderation beside intent -> location -> discovery.

\* A failing model call is answered by the fail mode, so this never raises.
Moderate ==
  /\ pc = "understand" /\ mod = "running"
  /\ mod' \in Outcome
  /\ UNCHANGED <<request, pc, chain, decision, intent, network, evidence,
                 reply, edge, counted, record, wires>>

ClassifyIntent ==
  /\ pc = "understand" /\ chain = "intent"
  /\ chain' = "location"
  /\ intent' \in SUBSET Asks
  /\ UNCHANGED <<request, pc, mod, decision, network, evidence, reply, edge,
                 counted, record, wires>>

ResolvePlaces ==
  /\ pc = "understand" /\ chain = "location"
  /\ chain' = "discovery"
  /\ \E p \in [intent -> Place] :
       place' = [a \in Asks |-> IF a \in intent THEN p[a] ELSE "none"]
  /\ UNCHANGED <<request, pc, mod, decision, intent, found, placeless, formed,
                 evidence, reply, edge, counted, record, wires>>

\* _find_asks_to_discover: an ask with nowhere to search is not searched.
Searchable == {a \in intent : place[a] \in {"resolved", "none"}}

Discover ==
  /\ pc = "understand" /\ chain = "discovery"
  /\ chain' = "done"
  /\ \E f \in [Searchable -> SUBSET Option] :
       /\ found' = [a \in Asks |-> IF a \in Searchable THEN f[a] ELSE {}]
       /\ placeless' \in SUBSET {a \in Searchable :
                                   place[a] = "none" /\ f[a] # {}}
  /\ formed' \in SUBSET intent
  /\ UNCHANGED <<request, pc, mod, decision, intent, place, evidence, reply,
                 edge, counted, record, wires>>

\* Either branch raising cancels the other and raises out of the task group.
ChainRaises ==
  /\ pc = "understand"
  /\ chain \in {"intent", "location", "discovery"}
  /\ Break

\* Mutant of Join: the intent and discovery of a held turn are not blanked.
JoinUnblanked ==
  /\ pc = "understand" /\ mod \in Outcome /\ chain = "done"
  /\ pc' = "gate"
  /\ decision' = mod
  /\ UNCHANGED <<request, branches, intent, network, evidence, reply, edge,
                 counted, record, wires>>

\* Both branches are in: a turn that will not proceed surfaces neither
\* intent nor discovery.
Join ==
  /\ pc = "understand" /\ mod \in Outcome /\ chain = "done"
  /\ pc' = "gate"
  /\ decision' = mod
  /\ IF mod = "proceed"
     THEN UNCHANGED <<intent, network>>
     ELSE /\ intent' = {}
          /\ place' = [a \in Asks |-> "none"]
          /\ found' = [a \in Asks |-> {}]
          /\ placeless' = {} /\ formed' = {}
  /\ UNCHANGED <<request, branches, evidence, reply, edge, counted, record,
                 wires>>

-----------------------------------------------------------------------------
\* _run_core, from the barrier to the reply.

Serves(a) == found[a] # {}

\* find_forms: a provider serves the ask and the registry has its form.
Awaiting == {a \in intent : Serves(a) /\ a \in formed}

PlaceOptional ==
  {a \in intent : place[a] = "none" /\ (Serves(a) => a \in placeless)}
    \cup Awaiting

\* question_for_unplaced_asks: the asks the closing question is about.
AskedAbout ==
  {a \in intent : \/ place[a] = "ambiguous"
                  \/ place[a] = "none" /\ a \notin PlaceOptional}

\* answer_for_unplaced_asks: does any ask have the place it needs?
AnyAnswerable ==
  \E a \in intent : \/ place[a] = "resolved"
                    \/ place[a] = "none" /\ a \in PlaceOptional

PlaceFailures ==
  {a \in intent : \/ place[a] \in {"unresolved", "ambiguous"}
                  \/ place[a] = "none" /\ a \notin PlaceOptional}

NobodyServes == \A a \in intent : ~Serves(a)

\* The reply is whole: with a route it is translated and streamed, without
\* one it goes to the edge as it is.
Settle(status, content, mentions) ==
  /\ reply' = [status |-> status, content |-> content, mentions |-> mentions]
  /\ pc' = IF routed THEN "speak" ELSE "finish"

Words == [words |-> TRUE, forms |-> {}]

StatusFor(outcome) ==
  CASE outcome = "reject"   -> "rejected"
    [] outcome = "clarify"  -> "requires_input"
    [] outcome = "no_match" -> "no_match"

Refuse ==
  /\ pc = "gate" /\ decision \in Outcome \ {"proceed"}
  /\ Settle(StatusFor(decision), Words, {})
  /\ UNCHANGED <<request, branches, decision, intent, network, evidence, edge,
                 counted, record, wires>>

ReplyNoMatch ==
  /\ pc = "gate" /\ decision = "proceed" /\ intent = {}
  /\ Settle("no_match", Words, {})
  /\ UNCHANGED <<request, branches, decision, intent, network, evidence, edge,
                 counted, record, wires>>

\* Every ask lacks a place it needs: one question covers them all.
AskWhichPlace ==
  /\ pc = "gate" /\ decision = "proceed" /\ intent # {}
  /\ ~AnyAnswerable
  /\ counted' = intent
  /\ Settle("requires_input", Words, intent)
  /\ UNCHANGED <<request, branches, decision, intent, network, evidence, edge,
                 record, wires>>

\* answer_for_unserved_asks gives a line to each ask whose place is settled;
\* the question follows for those whose place is not.
ReplyUnserved ==
  /\ pc = "gate" /\ decision = "proceed" /\ intent # {}
  /\ AnyAnswerable /\ NobodyServes
  /\ counted' = intent
  /\ LET lines == {a \in intent : place[a] \in {"none", "resolved"}}
     IN  Settle(IF AskedAbout = {} THEN "no_match" ELSE "requires_input",
                Words, lines \cup AskedAbout)
  /\ UNCHANGED <<request, branches, decision, intent, network, evidence, edge,
                 record, wires>>

\* Direct answers need no call; place failures are known before the run.
StartPlan ==
  /\ pc = "gate" /\ decision = "proceed" /\ intent # {}
  /\ AnyAnswerable /\ ~NobodyServes
  /\ counted' = intent
  /\ pc' = "plan"
  /\ results' = {a \in intent : "direct" \in found[a]}
  /\ failures' = [a \in Asks |-> IF a \in PlaceFailures THEN {"place"} ELSE {}]
  /\ UNCHANGED <<request, branches, decision, intent, network, consulted,
                 reply, edge, record, wires>>

\* The planner's select: only past the verdict, only for an ask with an
\* OnDemand candidate, never without a place its pack needs.  The provider
\* answers, has nothing, or cannot be reached.
ConsultProvider(a) ==
  /\ pc = "plan"
  /\ intent \ Awaiting # {}
  /\ decision = "proceed"
  /\ "ondemand" \in found[a]
  /\ place[a] = "resolved" \/ (place[a] = "none" /\ a \in placeless)
  /\ consulted' = consulted \cup {a}
  /\ \/ results' = results \cup {a} /\ UNCHANGED failures
     \/ UNCHANGED <<results, failures>>
     \/ failures' = [failures EXCEPT ![a] = @ \cup {"provider"}]
        /\ UNCHANGED results
  /\ UNCHANGED <<request, pc, branches, decision, intent, network, reply,
                 edge, counted, record, wires>>

\* The model's retry budget ran out, or its call failed.
PlanRaises ==
  /\ pc = "plan" /\ intent \ Awaiting # {}
  /\ Break

\* Mutant of EvidenceStatus: any failure, a place failure too, counts as a
\* provider that could not be reached.
AnyFailureStatus ==
  CASE Awaiting # {} -> "requires_input"
    [] Awaiting = {} /\ results = {} ->
         IF \E a \in intent : failures[a] # {} THEN "unavailable" ELSE "no_match"
    [] Awaiting = {} /\ results # {} ->
         IF intent \ results = {} THEN "answered" ELSE "partially_answered"

\* _status_for, off the evidence.
EvidenceStatus ==
  CASE Awaiting # {} -> "requires_input"
    [] Awaiting = {} /\ results = {} ->
         IF \E a \in intent : "provider" \in failures[a]
         THEN "unavailable" ELSE "no_match"
    [] Awaiting = {} /\ results # {} ->
         IF intent \ results = {} THEN "answered" ELSE "partially_answered"

\* assemble_evidence holds an entry for every ask, so the composer is told of
\* each; one form block is offered per awaiting ask.
PlanEnds ==
  /\ pc = "plan"
  /\ pc' = "compose"
  /\ reply' = [status |-> EvidenceStatus,
               content |-> [words |-> TRUE, forms |-> Awaiting],
               mentions |-> intent]
  /\ UNCHANGED <<request, branches, decision, intent, network, evidence, edge,
                 counted, record, wires>>

-----------------------------------------------------------------------------
\* Writing the reply: the composer's pieces, or the translator's.

\* With a route the composer's pieces are drained unseen, and its finished
\* reply is what the translator streams.
Writing == pc = "speak" \/ (pc = "compose" /\ ~routed)

\* StreamReveal.feed: a piece reaches the farmer, less the start of a tag it
\* may end in; or the whole of it is held back.
WritePiece ==
  /\ Writing /\ unclaimed < MaxPieces
  /\ \/ /\ Emit("delta")
        /\ unclaimed' = unclaimed + 1
        /\ held' \in BOOLEAN
     \/ /\ held' = TRUE
        /\ UNCHANGED <<unclaimed, sent>>
  /\ UNCHANGED <<request, pc, branches, decision, intent, network, evidence,
                 reply, claimed, counted, record, terminal>>

\* Mutant of StopWriting: the pieces end without the claim that holds them.
StopUnclaimed ==
  /\ Writing
  /\ pc' = "offer"
  /\ UNCHANGED <<request, branches, decision, intent, network, evidence,
                 reply, edge, counted, record, wires>>

\* The stream ended: what is left of the block is its claim.
StopWriting ==
  /\ Writing
  /\ pc' = "claim"
  /\ UNCHANGED <<request, branches, decision, intent, network, evidence,
                 reply, edge, counted, record, wires>>

\* The composer's own events stop at translate_out, which waits for the last.
ComposeUnseen ==
  /\ pc = "compose" /\ routed
  /\ pc' = "speak"
  /\ UNCHANGED <<request, branches, decision, intent, network, evidence,
                 reply, edge, counted, record, wires>>

\* A failure mid-stream propagates: nothing can be recalled or retried.
WriterRaises ==
  /\ pc \in {"compose", "speak"}
  /\ Break

\* StreamReveal.flush: what was held goes out before the claim.
FlushHeld ==
  /\ pc = "claim" /\ held
  /\ Emit("delta")
  /\ unclaimed' = unclaimed + 1
  /\ held' = FALSE
  /\ UNCHANGED <<request, pc, branches, decision, intent, network, evidence,
                 reply, claimed, counted, record, terminal>>

\* AnswerStream.claim: the claim's text is the pieces since the last one.
ClaimWords ==
  /\ pc = "claim" /\ ~held
  /\ pc' = "offer"
  /\ Emit("claim")
  /\ claimed' = [claimed EXCEPT !.words = TRUE]
  /\ unclaimed' = 0
  /\ UNCHANGED <<request, branches, decision, intent, network, evidence,
                 reply, held, counted, record, terminal>>

\* AnswerStream.add_block, which refuses a block while pieces are unclaimed.
OfferForm(a) ==
  /\ pc = "offer"
  /\ a \in reply.content.forms \ claimed.forms
  /\ IF unclaimed = 0
     THEN /\ Emit("claim")
          /\ claimed' = [claimed EXCEPT !.forms = @ \cup {a}]
          /\ UNCHANGED <<request, pc, branches, decision, intent, network,
                         evidence, reply, unclaimed, held, counted, record,
                         terminal>>
     ELSE Break

-----------------------------------------------------------------------------
\* The end.

HasClaims == claimed # Nothing

\* Mutant of EdgeContent: the farmer's copy is always what was streamed.
StreamedContent == claimed

\* A streamed reply ends on what was streamed, a fixed one on the whole reply.
EdgeContent == IF HasClaims THEN claimed ELSE reply.content

\* Mutant of ReadyToFinish: a fixed reply never gets to the edge's end.
StreamedIsReady == pc = "offer" /\ reply.content.forms \subseteq claimed.forms

ReadyToFinish ==
  \/ pc = "finish"
  \/ pc = "offer" /\ reply.content.forms \subseteq claimed.forms

\* Mutant of FinishTurn: the farmer's copy goes out, the record stays open.
FinishUnrecorded ==
  /\ ReadyToFinish
  /\ End(reply.status, EdgeContent)
  /\ UNCHANGED <<request, branches, decision, intent, network, evidence, reply,
                 edge, counted, record>>

\* _record_finished writes the record, then the farmer's copy goes out: no
\* await lies between.  A failed write breaks the turn instead.
FinishTurn ==
  /\ ReadyToFinish
  /\ \/ /\ record' = reply.status
        /\ End(reply.status, EdgeContent)
        /\ UNCHANGED <<request, branches, decision, intent, network, evidence,
                       reply, edge, counted>>
     \/ Break

\* The caller of a stream goes away: the cancellation unwinds the generators
\* at whichever await they stand, and nothing more is recorded.
Disconnect ==
  /\ mode = "sse" /\ pc \notin {"ended", "dropped"}
  /\ pc' = "dropped"
  /\ mod' = IF mod = "running" THEN "cancelled" ELSE mod
  /\ chain' = IF chain \in {"intent", "location", "discovery"}
              THEN "cancelled" ELSE chain
  /\ UNCHANGED <<request, decision, intent, network, evidence, reply, edge,
                 counted, record, wires>>

-----------------------------------------------------------------------------
\* What the server does; only the caller's going away is not its doing.
Advance ==
  \/ Start \/ Redact \/ OpenRecord \/ TranslateIn
  \/ Moderate \/ ClassifyIntent \/ ResolvePlaces \/ Discover \/ ChainRaises
  \/ Join
  \/ Refuse \/ ReplyNoMatch \/ AskWhichPlace \/ ReplyUnserved \/ StartPlan
  \/ (\E a \in intent : ConsultProvider(a)) \/ PlanRaises \/ PlanEnds
  \/ WritePiece \/ StopWriting \/ ComposeUnseen \/ WriterRaises
  \/ FlushHeld \/ ClaimWords \/ (\E a \in Asks : OfferForm(a))
  \/ FinishTurn

Next == Advance \/ Disconnect

Spec == Init /\ [][Next]_vars

\* Every model, translator and network call carries a timeout, so an awaited
\* step ends, one way or the other.
FairSpec == Spec /\ WF_vars(Advance)
-----------------------------------------------------------------------------
\* Properties.

TypeOK ==
  /\ mode \in {"sse", "json"} /\ routed \in BOOLEAN
  /\ pc \in Stage
  /\ mod \in Outcome \cup {"idle", "running", "cancelled"}
  /\ chain \in {"idle", "intent", "location", "discovery", "done", "cancelled"}
  /\ decision \in Outcome \cup {"unset"}
  /\ intent \in SUBSET Asks
  /\ place \in [Asks -> Place]
  /\ found \in [Asks -> SUBSET Option]
  /\ placeless \in SUBSET Asks /\ formed \in SUBSET Asks
  /\ results \in SUBSET Asks /\ consulted \in SUBSET Asks
  /\ failures \in [Asks -> SUBSET Failure]
  /\ reply \in Reply \cup {NoReply}
  /\ claimed \in Content /\ unclaimed \in Nat /\ held \in BOOLEAN
  /\ counted \in SUBSET Asks
  /\ record \in TurnStatus \cup {"absent", "opened"}
  /\ sent \in Seq({"created", "delta", "claim", "terminal"})
  /\ terminal \in Terminal

\* The turn as the contract sees it.
Wire == CASE pc = "start"   -> "idle"
          [] pc = "ended"   -> "ended"
          [] pc = "dropped" -> "dropped"
          [] OTHER          -> "open"

Gate == CASE decision = "unset"   -> "pending"
          [] decision = "proceed" -> "cleared"
          [] OTHER                -> "held"

Contract == INSTANCE TurnContract WITH
  wire <- Wire, outcome <- terminal.status, gate <- Gate,
  called <- consulted # {}

\* The text path keeps the contract of a turn: judged before any provider is
\* called, recorded before the caller is told, ended once.
KeepsContract == Contract!CSpec

\* What the caller ends up with is what the audit record was closed with and
\* the whole of what the core replied, through translation and streaming, and
\* no streamed piece is outside a claim.
ToldTheWholeReply ==
  terminal.status \in TurnStatus =>
    /\ record = terminal.status
    /\ reply # NoReply
    /\ terminal.status = reply.status
    /\ terminal.content = reply.content
    /\ unclaimed = 0 /\ ~held

\* A turn moderation held back shows and counts nothing that was read off its
\* text, although the other branch had already read it.
RefusalLeaksNothing ==
  decision \notin {"unset", "proceed"} =>
    /\ intent = {} /\ counted = {} /\ consulted = {} /\ results = {}
    /\ \A a \in Asks : found[a] = {}
    /\ reply # NoReply => reply.content = Words

\* The outcome says no more than what was gathered: answered means each ask
\* has a result and no form is left to fill in, unavailable means a provider
\* was called and failed and nothing else came in, and a question or a form
\* backs every requires_input.
StatusIsEarned ==
  terminal.status \in TurnStatus /\ decision = "proceed" =>
    /\ terminal.status # "rejected"
    /\ terminal.status = "answered" =>
         /\ intent # {} /\ intent \subseteq results
         /\ terminal.content.forms = {}
    /\ terminal.status = "partially_answered" =>
         results # {} /\ intent \ results # {}
    /\ terminal.status = "unavailable" =>
         /\ results = {}
         /\ \E a \in consulted : "provider" \in failures[a]
    /\ terminal.status = "no_match" =>
         results = {} /\ \A a \in Asks : "provider" \notin failures[a]
    /\ terminal.status = "requires_input" =>
         terminal.content.forms # {} \/ PlaceFailures # {}

\* A stream is turn.created, then pieces each inside a claim, then one
\* terminal frame and nothing after it; a single response is one frame.
FramesInOrder ==
  /\ mode = "json" => sent \in {<<>>, <<"terminal">>}
  /\ mode = "sse" => \A i \in DOMAIN sent : (sent[i] = "created") <=> (i = 1)
  /\ \A i \in DOMAIN sent :
       /\ sent[i] = "terminal" => i = Len(sent)
       /\ sent[i] = "delta" /\ terminal.status \in TurnStatus =>
            \E j \in DOMAIN sent : j > i /\ sent[j] = "claim"

\* Every turn whose caller stays is told how it ended.
EventuallyTold == <>(pc \in {"ended", "dropped"})

\* core/channel/service.py 52-53: an ask whose place is still in question gets
\* no line, because "the place question that follows is its answer".
EveryAskIsSpokenTo ==
  reply # NoReply /\ decision = "proceed" => reply.mentions = intent

\* adapters/http/v1/sse.py 10-11: "on a dropped connection the DSS finishes the
\* turn server-side", so that the caller can recover it.
DroppedTurnIsFinished ==
  (pc = "dropped" /\ record = "opened") ~> (record \in TurnStatus)
=============================================================================
