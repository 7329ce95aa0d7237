--------------------------- MODULE TextTurnProofs ---------------------------
(***************************************************************************)
(* What holds of a text turn for every set of asks and every piece bound.  *)
(*                                                                         *)
(* TypeOK is inductive by itself.  The safety invariants are not: Inv adds *)
(* to them what each stage of the turn has settled by then, and the        *)
(* refinement of TurnContract is proved from TypeOK and Inv.               *)
(***************************************************************************)
EXTENDS TextTurn, TLAPS

USE DEF request, branches, network, evidence, edge, wires

-----------------------------------------------------------------------------
\* The inductive invariant: what each stage of the turn has settled by then.

Before  == {"start", "redact", "open", "translate_in", "understand"}
Replied == {"compose", "speak", "claim", "offer", "finish"}

\* The core has replied before anything is written to the farmer.
ReplyReady ==
  /\ pc \in Replied => reply \in Reply
  /\ pc \in Before \cup {"gate", "plan"} => reply = NoReply

\* The record is opened at one stage and closed by the last.
RecordInv ==
  /\ pc \in {"start", "redact", "open"} => record = "absent"
  /\ pc \in (Before \cup Replied \cup {"gate", "plan"})
            \ {"start", "redact", "open"} => record = "opened"
  /\ pc # "ended" => terminal = NoFrame
  /\ pc = "ended" =>
       \/ terminal.status = "internal" /\ record \in {"absent", "opened"}
       \/ terminal.status \in TurnStatus /\ record = terminal.status
  /\ pc = "dropped" => record \in {"absent", "opened"}

\* Nothing is gathered before the verdict, nor after one that holds the turn.
GateInv ==
  /\ pc \in Before => decision = "unset"
  /\ pc \in Replied \cup {"gate", "plan"} => decision # "unset"
  /\ decision # "proceed" =>
       consulted = {} /\ counted = {} /\ results = {}
  /\ decision \notin {"unset", "proceed"} =>
       /\ intent = {}
       /\ \A a \in Asks : found[a] = {}
       /\ reply # NoReply => reply.content = Words

\* What the edge has streamed is a part of the reply, and none of it is loose
\* once the words are claimed.
EdgeInv ==
  /\ pc \in Before \cup {"gate", "plan", "finish"} =>
       claimed = Nothing /\ unclaimed = 0 /\ ~held
  /\ pc \in {"compose", "speak", "claim"} => claimed = Nothing
  /\ pc \in Replied => reply.content.words
  /\ pc = "offer" =>
       /\ unclaimed = 0 /\ ~held
       /\ claimed.words /\ claimed.forms \subseteq reply.content.forms
  /\ pc = "ended" /\ terminal.status \in TurnStatus =>
       /\ reply \in Reply
       /\ terminal.status = reply.status
       /\ terminal.content = reply.content
       /\ unclaimed = 0 /\ ~held

\* Evidence names the turn's own asks, and a provider failed only if called.
EvidenceInv ==
  /\ pc \in Before \cup {"gate"} =>
       results = {} /\ consulted = {} /\ failures = [a \in Asks |-> {}]
  /\ consulted \subseteq intent
  /\ pc = "plan" => decision = "proceed" /\ intent # {}
  /\ \A a \in Asks : "provider" \in failures[a] => a \in consulted

\* The status of a settled reply is what the evidence supports.
EarnedInv ==
  reply # NoReply =>
    /\ reply.status \in {"answered", "partially_answered", "unavailable"} =>
         decision = "proceed"
    /\ reply.status = "rejected" => decision = "reject"
    /\ decision = "proceed" =>
         /\ reply.status = "answered" =>
              /\ intent # {} /\ intent \subseteq results
              /\ reply.content.forms = {}
         /\ reply.status = "partially_answered" =>
              results # {} /\ intent \ results # {}
         /\ reply.status = "unavailable" =>
              /\ results = {}
              /\ \E a \in consulted : "provider" \in failures[a]
         /\ reply.status = "no_match" =>
              results = {} /\ \A a \in Asks : "provider" \notin failures[a]
         /\ reply.status = "requires_input" =>
              reply.content.forms # {} \/ PlaceFailures # {}

Inv == ReplyReady /\ RecordInv /\ GateInv /\ EdgeInv /\ EvidenceInv
         /\ EarnedInv

-----------------------------------------------------------------------------
\* Type correctness.

Kinds == {"created", "delta", "claim", "terminal"}

\* Writing one more frame leaves a sequence of frames.
LEMMA AppendKind ==
  ASSUME NEW s \in Seq(Kinds), NEW k \in Kinds
  PROVE  Append(s, k) \in Seq(Kinds)
OBVIOUS

LEMMA EmitType ==
  ASSUME TypeOK, NEW k \in Kinds, Emit(k)
  PROVE  sent' \in Seq(Kinds)
BY AppendKind DEF TypeOK, Emit, Kinds

LEMMA UnclaimedType == TypeOK => unclaimed \in Nat
BY DEF TypeOK

LEMMA EndType ==
  ASSUME TypeOK, NEW status \in TurnStatus \cup {"internal"},
         NEW content \in Content, End(status, content)
  PROVE  /\ pc' \in Stage
         /\ sent' \in Seq(Kinds)
         /\ terminal' \in Terminal
BY AppendKind DEF TypeOK, End, Stage, Terminal, Kinds

\* An internal failure leaves every variable in its type.
LEMMA BreakTypeOK == TypeOK /\ Break => TypeOK'
<1> SUFFICES ASSUME TypeOK, Break PROVE TypeOK'
  OBVIOUS
<1>1. pc' \in Stage /\ sent' \in Seq(Kinds) /\ terminal' \in Terminal
  BY EndType DEF Break, Content, Nothing
<1>2. mod' \in Outcome \cup {"idle", "running", "cancelled"}
  BY DEF TypeOK, Break
<1>3. chain' \in {"idle", "intent", "location", "discovery", "done", "cancelled"}
  BY DEF TypeOK, Break
<1> QED
  BY <1>1, <1>2, <1>3 DEF Break, TypeOK, Kinds

LEMMA WordsType == Words \in Content /\ Nothing \in Content
BY DEF Words, Nothing, Content

\* A fixed reply, once settled, is a reply.
LEMMA SettleType ==
  ASSUME NEW status \in TurnStatus, NEW mentions \in SUBSET Asks,
         Settle(status, Words, mentions)
  PROVE  reply' \in Reply /\ pc' \in Stage
BY WordsType DEF Settle, Reply, Stage

LEMMA EvidenceStatusType == EvidenceStatus \in TurnStatus
BY DEF EvidenceStatus, TurnStatus

\* Every step keeps every variable in its type.
LEMMA TypeOKStep == TypeOK /\ ReplyReady /\ [Next]_vars => TypeOK'
<1> SUFFICES ASSUME TypeOK, ReplyReady, [Next]_vars PROVE TypeOK'
  OBVIOUS
<1> USE PiecesAssumption
<1>1. CASE Start
  BY <1>1, EmitType DEF Start, TypeOK, Stage, Kinds
<1>2. CASE Redact
  BY <1>2 DEF Redact, TypeOK, Stage
<1>3. CASE OpenRecord
  BY <1>3, BreakTypeOK DEF OpenRecord, TypeOK, Stage
<1>4. CASE TranslateIn
  BY <1>4, BreakTypeOK DEF TranslateIn, TypeOK, Stage
<1>5. CASE Moderate
  BY <1>5 DEF Moderate, TypeOK
<1>6. CASE ClassifyIntent
  BY <1>6 DEF ClassifyIntent, TypeOK
<1>7. CASE ResolvePlaces
  BY <1>7 DEF ResolvePlaces, TypeOK, Place
<1>8. CASE Discover
  BY <1>8 DEF Discover, TypeOK, Searchable, Option
<1>9. CASE ChainRaises
  BY <1>9, BreakTypeOK DEF ChainRaises
<1>10. CASE Join
  BY <1>10 DEF Join, TypeOK, Stage, Place, Outcome
<1>11. CASE Refuse
  <2>1. StatusFor(decision) \in TurnStatus
    BY <1>11 DEF Refuse, StatusFor, TurnStatus, Outcome
  <2>2. reply' \in Reply /\ pc' \in Stage
    BY <1>11, <2>1, SettleType DEF Refuse
  <2> QED
    BY <1>11, <2>2 DEF Refuse, TypeOK
<1>12. CASE ReplyNoMatch
  <2>1. reply' \in Reply /\ pc' \in Stage
    BY <1>12, SettleType DEF ReplyNoMatch, TurnStatus
  <2> QED
    BY <1>12, <2>1 DEF ReplyNoMatch, TypeOK
<1>13. CASE AskWhichPlace
  <2>1. reply' \in Reply /\ pc' \in Stage
    BY <1>13, SettleType DEF AskWhichPlace, TurnStatus, TypeOK
  <2> QED
    BY <1>13, <2>1 DEF AskWhichPlace, TypeOK
<1>14. CASE ReplyUnserved
  <2>1. AskedAbout \subseteq Asks
    BY DEF AskedAbout, TypeOK
  <2>2. {a \in intent : place[a] \in {"none", "resolved"}} \subseteq Asks
    BY DEF TypeOK
  <2>3. reply' \in Reply /\ pc' \in Stage
    BY <1>14, <2>1, <2>2, SettleType DEF ReplyUnserved, TurnStatus
  <2> QED
    BY <1>14, <2>3 DEF ReplyUnserved, TypeOK
<1>15. CASE StartPlan
  BY <1>15 DEF StartPlan, TypeOK, Stage, Failure
<1>16. CASE \E a \in intent : ConsultProvider(a)
  BY <1>16 DEF ConsultProvider, TypeOK, Failure
<1>17. CASE PlanRaises
  BY <1>17, BreakTypeOK DEF PlanRaises
<1>18. CASE PlanEnds
  BY <1>18, EvidenceStatusType
  DEF PlanEnds, TypeOK, Stage, Reply, Content, Awaiting
<1>19. CASE WritePiece
  <2>1. CASE Emit("delta") /\ unclaimed' = unclaimed + 1 /\ held' \in BOOLEAN
    <3>1. sent' \in Seq(Kinds)
      BY <2>1, EmitType DEF Kinds
    <3>2. unclaimed' \in Nat
      BY <2>1, UnclaimedType
    <3>3. UNCHANGED <<request, pc, branches, decision, intent, network,
                      evidence, reply, claimed, counted, record, terminal>>
      BY <1>19 DEF WritePiece
    <3> QED
      BY <2>1, <3>1, <3>2, <3>3 DEF TypeOK, Kinds
  <2>2. CASE UNCHANGED <<unclaimed, sent>> /\ held' = TRUE
    BY <1>19, <2>2 DEF WritePiece, TypeOK
  <2> QED
    BY <1>19, <2>1, <2>2 DEF WritePiece
<1>20. CASE StopWriting
  BY <1>20 DEF StopWriting, TypeOK, Stage
<1>21. CASE ComposeUnseen
  BY <1>21 DEF ComposeUnseen, TypeOK, Stage
<1>22. CASE WriterRaises
  BY <1>22, BreakTypeOK DEF WriterRaises
<1>23. CASE FlushHeld
  <2>1. sent' \in Seq(Kinds)
    BY <1>23, EmitType DEF FlushHeld, Kinds
  <2>2. unclaimed' = unclaimed + 1 /\ held' = FALSE
    BY <1>23 DEF FlushHeld
  <2>3. UNCHANGED <<request, pc, branches, decision, intent, network,
                    evidence, reply, claimed, counted, record, terminal>>
    BY <1>23 DEF FlushHeld
  <2>4. unclaimed' \in Nat
    BY <2>2, UnclaimedType
  <2> QED
    BY ZenonT(40), <2>1, <2>2, <2>3, <2>4 DEF TypeOK, Kinds
<1>24. CASE ClaimWords
  <2>1. sent' \in Seq(Kinds)
    BY <1>24, EmitType DEF ClaimWords, Kinds
  <2>2. claimed' \in Content
    BY <1>24 DEF ClaimWords, TypeOK, Content
  <2> QED
    BY <1>24, <2>1, <2>2 DEF ClaimWords, TypeOK, Stage, Kinds
<1>25. CASE \E a \in Asks : OfferForm(a)
  BY <1>25, EmitType, BreakTypeOK DEF OfferForm, TypeOK, Kinds, Content
<1>26. CASE FinishTurn
  <2>1. CASE Break
    BY <2>1, BreakTypeOK
  <2>2. CASE End(reply.status, EdgeContent) /\ record' = reply.status
    <3>1. reply \in Reply
      BY <1>26 DEF FinishTurn, ReadyToFinish, ReplyReady, Replied
    <3>2. reply.status \in TurnStatus /\ EdgeContent \in Content
      BY <3>1 DEF Reply, EdgeContent, TypeOK
    <3>3. pc' \in Stage /\ sent' \in Seq(Kinds) /\ terminal' \in Terminal
      BY <2>2, <3>2, EndType
    <3> QED
      BY <1>26, <2>1, <2>2, <3>2, <3>3 DEF FinishTurn, TypeOK, Kinds
  <2> QED
    BY <1>26, <2>1, <2>2 DEF FinishTurn
<1>27. CASE Disconnect
  BY <1>27 DEF Disconnect, TypeOK, Stage
<1>28. CASE UNCHANGED vars
  BY <1>28 DEF vars, TypeOK
<1> QED
  BY <1>1, <1>2, <1>3, <1>4, <1>5, <1>6, <1>7, <1>8, <1>9, <1>10, <1>11,
     <1>12, <1>13, <1>14, <1>15, <1>16, <1>17, <1>18, <1>19, <1>20, <1>21,
     <1>22, <1>23, <1>24, <1>25, <1>26, <1>27, <1>28 DEF Next, Advance

-----------------------------------------------------------------------------
\* The invariant is inductive.

\* Which asks fail for their place is settled by what the barrier let through.
LEMMA PlaceFailuresStay ==
  UNCHANGED <<intent, network>> => PlaceFailures' = PlaceFailures
BY DEF PlaceFailures, PlaceOptional, Awaiting, Serves

\* A turn that breaks while it runs keeps the invariant.
LEMMA BreakInv ==
  ASSUME TypeOK, Inv, Break, pc \notin {"ended", "dropped"}
  PROVE  Inv'
<1>1. pc' = "ended" /\ terminal' = [status |-> "internal", content |-> Nothing]
  BY DEF Break, End
<1>2. record \in {"absent", "opened"}
  BY DEF Inv, RecordInv, TypeOK, Stage, Before, Replied
<1>3. ReplyReady' /\ RecordInv' /\ EdgeInv'
  BY <1>1, <1>2
  DEF Break, ReplyReady, RecordInv, EdgeInv, Before, Replied, TurnStatus
<1>4. GateInv' /\ EvidenceInv'
  BY <1>1 DEF Inv, Break, GateInv, EvidenceInv, Before, Replied
<1>5. EarnedInv'
  BY PlaceFailuresStay DEF Inv, Break, EarnedInv
<1> QED
  BY <1>3, <1>4, <1>5 DEF Inv

\* A fixed reply is ready to be written, or to go to the edge as it is.
LEMMA SettleReady ==
  ASSUME NEW status \in TurnStatus, NEW mentions \in SUBSET Asks,
         Settle(status, Words, mentions)
  PROVE  /\ ReplyReady'
         /\ pc' \in {"speak", "finish"}
         /\ reply'.status = status /\ reply'.content = Words
<1>1. reply' \in Reply
  BY SettleType
<1> QED
  BY <1>1 DEF Settle, ReplyReady, Before

\* When no ask can be answered, some ask fails for its place.
LEMMA UnplacedFails ==
  ASSUME TypeOK, intent # {}, ~AnyAnswerable
  PROVE  PlaceFailures # {}
<1>1. PICK a \in intent : TRUE
  OBVIOUS
<1>2. place[a] \in Place
  BY DEF TypeOK
<1> QED
  BY <1>1, <1>2 DEF AnyAnswerable, PlaceFailures, Place

\* Every step keeps the invariant.
LEMMA InvStep == TypeOK /\ Inv /\ [Next]_vars => Inv'
<1> SUFFICES ASSUME TypeOK, Inv, [Next]_vars PROVE Inv'
  OBVIOUS
<1> USE NoReplyAssumption DEF Inv, ReplyReady, RecordInv, GateInv, EdgeInv,
      EvidenceInv, EarnedInv, Before, Replied
<1>1. CASE Start
  BY <1>1, PlaceFailuresStay DEF Start
<1>2. CASE Redact
  BY <1>2, PlaceFailuresStay DEF Redact
<1>3. CASE OpenRecord
  BY <1>3, PlaceFailuresStay, BreakInv DEF OpenRecord
<1>4. CASE TranslateIn
  BY <1>4, PlaceFailuresStay, BreakInv DEF TranslateIn
<1>5. CASE Moderate
  BY <1>5, PlaceFailuresStay DEF Moderate
<1>6. CASE ClassifyIntent
  BY <1>6, PlaceFailuresStay DEF ClassifyIntent
<1>7. CASE ResolvePlaces
  BY <1>7, PlaceFailuresStay DEF ResolvePlaces
<1>8. CASE Discover
  BY <1>8, PlaceFailuresStay DEF Discover
<1>9. CASE ChainRaises
  BY <1>9, PlaceFailuresStay, BreakInv DEF ChainRaises
<1>10. CASE Join
  <2>1. ReplyReady'
    BY <1>10 DEF Join
  <2>2. RecordInv'
    BY <1>10 DEF Join
  <2>3. GateInv'
    <3>1. CASE decision' = "proceed"
      BY <1>10, <3>1 DEF Join
    <3>2. CASE decision' # "proceed"
      <4>1. decision' # "unset"
        BY <1>10 DEF Join, Outcome
      <4>2. reply' = NoReply /\ intent' = {} /\ found' = [a \in Asks |-> {}]
        BY <1>10, <3>2 DEF Join
      <4>3. consulted' = {} /\ counted' = {} /\ results' = {} /\ pc' = "gate"
        BY <1>10 DEF Join
      <4> QED
        BY <4>1, <4>2, <4>3
    <3> QED
      BY <3>1, <3>2
  <2>4. EdgeInv'
    BY <1>10 DEF Join
  <2>5. EvidenceInv'
    BY <1>10 DEF Join
  <2>6. EarnedInv'
    BY <1>10, PlaceFailuresStay DEF Join
  <2> QED
    BY <2>1, <2>2, <2>3, <2>4, <2>5, <2>6
<1>11. CASE Refuse
  <2>0. StatusFor(decision) \in TurnStatus
    BY <1>11 DEF Refuse, StatusFor, TurnStatus, Outcome
  <2>1. ReplyReady'
    BY <1>11, <2>0, SettleReady DEF Refuse
  <2>2. RecordInv'
    BY <1>11 DEF Refuse, Settle, Words
  <2>3. GateInv'
    BY <1>11 DEF Refuse, Settle, Words
  <2>4. EdgeInv'
    BY <1>11 DEF Refuse, Settle, Words
  <2>5. EvidenceInv'
    BY <1>11 DEF Refuse, Settle, Words
  <2>6. EarnedInv'
    BY <1>11 DEF Refuse, Settle, StatusFor, Outcome
  <2> QED
    BY <2>1, <2>2, <2>3, <2>4, <2>5, <2>6
<1>12. CASE ReplyNoMatch
  <2>1. ReplyReady'
    BY <1>12, SettleReady DEF ReplyNoMatch, TurnStatus
  <2>2. RecordInv'
    BY <1>12 DEF ReplyNoMatch, Settle, Words
  <2>3. GateInv'
    BY <1>12 DEF ReplyNoMatch, Settle, Words
  <2>4. EdgeInv'
    BY <1>12 DEF ReplyNoMatch, Settle, Words
  <2>5. EvidenceInv'
    BY <1>12 DEF ReplyNoMatch, Settle, Words
  <2>6. EarnedInv'
    BY <1>12, PlaceFailuresStay DEF ReplyNoMatch, Settle, Words
  <2> QED
    BY <2>1, <2>2, <2>3, <2>4, <2>5, <2>6
<1>13. CASE AskWhichPlace
  <2>1. ReplyReady'
    BY <1>13, SettleReady DEF AskWhichPlace, TurnStatus, TypeOK
  <2>2. RecordInv'
    BY <1>13 DEF AskWhichPlace, Settle, Words
  <2>3. GateInv'
    BY <1>13 DEF AskWhichPlace, Settle, Words
  <2>4. EdgeInv'
    BY <1>13 DEF AskWhichPlace, Settle, Words
  <2>5. EvidenceInv'
    BY <1>13 DEF AskWhichPlace, Settle, Words
  <2>6. EarnedInv'
    BY <1>13, PlaceFailuresStay, UnplacedFails DEF AskWhichPlace, Settle
  <2> QED
    BY <2>1, <2>2, <2>3, <2>4, <2>5, <2>6
<1>14. CASE ReplyUnserved
  <2>0. {a \in intent : place[a] \in {"none", "resolved"}} \cup AskedAbout
            \in SUBSET Asks
    BY DEF AskedAbout, TypeOK
  <2>1. ReplyReady'
    BY <1>14, <2>0, SettleReady DEF ReplyUnserved, TurnStatus
  <2>2. RecordInv'
    BY <1>14 DEF ReplyUnserved, Settle, Words
  <2>3. GateInv'
    BY <1>14 DEF ReplyUnserved, Settle, Words
  <2>4. EdgeInv'
    BY <1>14 DEF ReplyUnserved, Settle, Words
  <2>5. EvidenceInv'
    BY <1>14 DEF ReplyUnserved, Settle, Words
  <2>6. EarnedInv'
    <3>1. AskedAbout \subseteq PlaceFailures
      BY DEF AskedAbout, PlaceFailures
    <3>2. reply'.status = IF AskedAbout = {} THEN "no_match" ELSE "requires_input"
      BY <1>14 DEF ReplyUnserved, Settle
    <3> QED
      BY <1>14, <3>1, <3>2, PlaceFailuresStay DEF ReplyUnserved
  <2> QED
    BY <2>1, <2>2, <2>3, <2>4, <2>5, <2>6
<1>15. CASE StartPlan
  BY <1>15, PlaceFailuresStay DEF StartPlan
<1>16. CASE \E a \in intent : ConsultProvider(a)
  <2>1. ReplyReady'
    BY <1>16 DEF ConsultProvider
  <2>2. RecordInv'
    BY <1>16 DEF ConsultProvider
  <2>3. GateInv'
    BY <1>16 DEF ConsultProvider
  <2>4. EdgeInv'
    BY <1>16 DEF ConsultProvider
  <2>5. EvidenceInv'
    <3> PICK a \in intent : ConsultProvider(a)
      BY <1>16
    <3>1. /\ consulted' = consulted \cup {a} /\ pc' = "plan"
          /\ UNCHANGED <<intent, decision>>
      BY DEF ConsultProvider
    <3>2. failures' = failures
             \/ failures' = [failures EXCEPT ![a] = @ \cup {"provider"}]
      BY DEF ConsultProvider
    <3>3. failures \in [Asks -> SUBSET Failure] /\ pc = "plan"
      BY DEF TypeOK, ConsultProvider
    <3> QED
      BY <3>1, <3>2, <3>3
  <2>6. EarnedInv'
    BY <1>16, PlaceFailuresStay DEF ConsultProvider
  <2> QED
    BY <2>1, <2>2, <2>3, <2>4, <2>5, <2>6
<1>17. CASE PlanRaises
  BY <1>17, PlaceFailuresStay, BreakInv DEF PlanRaises
<1>18. CASE PlanEnds
  <2>1. ReplyReady'
    <3>1. reply' \in Reply
      BY <1>18, EvidenceStatusType DEF PlanEnds, TypeOK, Reply, Content, Awaiting
    <3> QED
      BY <1>18, <3>1 DEF PlanEnds
  <2>2. RecordInv'
    BY <1>18 DEF PlanEnds
  <2>3. GateInv'
    BY <1>18 DEF PlanEnds
  <2>4. EdgeInv'
    BY <1>18 DEF PlanEnds
  <2>5. EvidenceInv'
    BY <1>18 DEF PlanEnds
  <2>6. EarnedInv'
    <3>1. /\ reply'.status = EvidenceStatus
          /\ reply'.content.forms = Awaiting
          /\ UNCHANGED <<decision, intent, evidence>>
      BY <1>18 DEF PlanEnds
    <3>2. decision = "proceed" /\ intent # {}
      BY <1>18 DEF PlanEnds
    <3>3. CASE Awaiting # {}
      BY <3>1, <3>3 DEF EvidenceStatus
    <3>4. CASE Awaiting = {} /\ results = {}
      <4>1. \A a \in Asks : "provider" \in failures[a] => a \in consulted /\ a \in intent
        OBVIOUS
      <4>2. intent \subseteq Asks
        BY DEF TypeOK
      <4> QED
        BY <3>1, <3>2, <3>4, <4>1, <4>2 DEF EvidenceStatus
    <3>5. CASE Awaiting = {} /\ results # {}
      BY <3>1, <3>2, <3>5 DEF EvidenceStatus
    <3> QED
      BY <3>3, <3>4, <3>5
  <2> QED
    BY <2>1, <2>2, <2>3, <2>4, <2>5, <2>6
<1>19. CASE WritePiece
  <2>1. ReplyReady'
    BY <1>19 DEF WritePiece
  <2>2. RecordInv'
    BY <1>19 DEF WritePiece
  <2>3. GateInv'
    BY <1>19 DEF WritePiece
  <2>4. EdgeInv'
    BY <1>19 DEF WritePiece, Writing
  <2>5. EvidenceInv'
    BY <1>19 DEF WritePiece
  <2>6. EarnedInv'
    BY <1>19, PlaceFailuresStay DEF WritePiece
  <2> QED
    BY <2>1, <2>2, <2>3, <2>4, <2>5, <2>6
<1>20. CASE StopWriting
  <2>1. ReplyReady'
    BY <1>20 DEF StopWriting, Writing
  <2>2. RecordInv'
    BY <1>20 DEF StopWriting, Writing
  <2>3. GateInv'
    BY <1>20 DEF StopWriting, Writing
  <2>4. EdgeInv'
    BY <1>20 DEF StopWriting, Writing
  <2>5. EvidenceInv'
    BY <1>20 DEF StopWriting, Writing
  <2>6. EarnedInv'
    BY <1>20, PlaceFailuresStay DEF StopWriting, Writing
  <2> QED
    BY <2>1, <2>2, <2>3, <2>4, <2>5, <2>6
<1>21. CASE ComposeUnseen
  BY <1>21, PlaceFailuresStay DEF ComposeUnseen
<1>22. CASE WriterRaises
  BY <1>22, PlaceFailuresStay, BreakInv DEF WriterRaises
<1>23. CASE FlushHeld
  BY <1>23, PlaceFailuresStay DEF FlushHeld
<1>24. CASE ClaimWords
  <2>1. ReplyReady'
    BY <1>24 DEF ClaimWords
  <2>2. RecordInv'
    BY <1>24 DEF ClaimWords
  <2>3. GateInv'
    BY <1>24 DEF ClaimWords
  <2>4. EdgeInv'
    <3>1. claimed = [words |-> FALSE, forms |-> {}]
      BY <1>24 DEF ClaimWords, Nothing
    <3>2. claimed'.words = TRUE /\ claimed'.forms = {}
      BY <1>24, <3>1 DEF ClaimWords
    <3> QED
      BY <1>24, <3>2 DEF ClaimWords
  <2>5. EvidenceInv'
    BY <1>24 DEF ClaimWords
  <2>6. EarnedInv'
    BY <1>24, PlaceFailuresStay DEF ClaimWords
  <2> QED
    BY <2>1, <2>2, <2>3, <2>4, <2>5, <2>6
<1>25. CASE \E a \in Asks : OfferForm(a)
  <2> PICK a \in Asks : OfferForm(a)
    BY <1>25
  <2>1. /\ pc = "offer" /\ a \in reply.content.forms
        /\ claimed' = [claimed EXCEPT !.forms = @ \cup {a}]
        /\ UNCHANGED <<request, pc, branches, decision, intent, network, evidence,
                       reply, unclaimed, held, counted, record, terminal>>
    BY DEF OfferForm
  <2>2. claimed'.words = claimed.words /\ claimed'.forms = claimed.forms \cup {a}
    BY <2>1 DEF TypeOK, Content
  <2>3. ReplyReady' /\ RecordInv' /\ GateInv' /\ EvidenceInv'
    BY <2>1
  <2>4. EdgeInv'
    BY <2>1, <2>2
  <2>5. EarnedInv'
    BY <2>1, PlaceFailuresStay
  <2> QED
    BY <2>3, <2>4, <2>5
<1>26. CASE FinishTurn
  <2>1. CASE Break
    BY <1>26, <2>1, BreakInv DEF FinishTurn, ReadyToFinish
  <2>2. CASE ~Break
    <3>1. reply \in Reply /\ reply.status \in TurnStatus /\ reply.content \in Content
      BY <1>26 DEF FinishTurn, ReadyToFinish, Reply
    <3>2. EdgeContent = reply.content
      <4>1. CASE pc = "finish"
        BY <4>1 DEF EdgeContent, HasClaims
      <4>2. CASE pc = "offer" /\ reply.content.forms \subseteq claimed.forms
        <5>1. claimed.forms = reply.content.forms /\ claimed.words /\ reply.content.words
          BY <4>2
        <5>2. claimed = reply.content
          BY SMTT(30), <3>1, <5>1 DEF TypeOK, Content
        <5> QED
          BY <5>1, <5>2 DEF EdgeContent, HasClaims, Nothing
      <4> QED
        BY <1>26, <4>1, <4>2 DEF FinishTurn, ReadyToFinish
    <3>3. /\ pc' = "ended" /\ record' = reply.status
          /\ terminal' = [status |-> reply.status, content |-> reply.content]
          /\ UNCHANGED <<request, branches, decision, intent, network, evidence,
                         reply, edge, counted>>
      BY <1>26, <2>2, <3>2 DEF FinishTurn, End
    <3>4. unclaimed = 0 /\ ~held
      BY <1>26 DEF FinishTurn, ReadyToFinish
    <3>5. ReplyReady' /\ RecordInv'
      BY <3>1, <3>3
    <3>6. GateInv' /\ EvidenceInv'
      BY <1>26, <3>3 DEF FinishTurn, ReadyToFinish
    <3>7. EdgeInv'
      BY <3>1, <3>3, <3>4
    <3>8. EarnedInv'
      BY <3>3, PlaceFailuresStay
    <3> QED
      BY <3>5, <3>6, <3>7, <3>8
  <2> QED
    BY <2>1, <2>2
<1>27. CASE Disconnect
  <2>1. ReplyReady'
    BY <1>27 DEF Disconnect
  <2>2. RecordInv'
    <3>1. record \in {"absent", "opened"}
      BY <1>27 DEF Disconnect, TypeOK, Stage
    <3> QED
      BY <1>27, <3>1 DEF Disconnect
  <2>3. GateInv'
    BY <1>27 DEF Disconnect
  <2>4. EdgeInv'
    BY <1>27 DEF Disconnect
  <2>5. EvidenceInv'
    BY <1>27 DEF Disconnect
  <2>6. EarnedInv'
    BY <1>27, PlaceFailuresStay DEF Disconnect
  <2> QED
    BY <2>1, <2>2, <2>3, <2>4, <2>5, <2>6
<1>28. CASE UNCHANGED vars
  BY <1>28, PlaceFailuresStay DEF vars
<1> QED
  BY <1>1, <1>2, <1>3, <1>4, <1>5, <1>6, <1>7, <1>8, <1>9, <1>10, <1>11, <1>12, <1>13, <1>14, <1>15, <1>16, <1>17, <1>18, <1>19, <1>20, <1>21, <1>22, <1>23, <1>24, <1>25, <1>26, <1>27, <1>28 DEF Next, Advance

-----------------------------------------------------------------------------
\* The theorems.

LEMMA InitInv == Init => TypeOK /\ Inv
<1> SUFFICES ASSUME Init PROVE TypeOK /\ Inv
  OBVIOUS
<1>1. TypeOK
  <2>1. claimed \in Content /\ terminal \in Terminal
    BY WordsType DEF Init, Terminal, NoFrame
  <2>2. sent \in Seq(Kinds)
    BY DEF Init
  <2>3. /\ place \in [Asks -> Place] /\ found \in [Asks -> SUBSET Option]
        /\ failures \in [Asks -> SUBSET Failure]
    BY DEF Init, Place
  <2> QED
    BY <2>1, <2>2, <2>3 DEF Init, TypeOK, Kinds, Stage
<1>2. ReplyReady /\ RecordInv /\ GateInv /\ EvidenceInv
  BY DEF Init, ReplyReady, RecordInv, GateInv, EvidenceInv, Before, Replied
<1>3. EdgeInv /\ EarnedInv
  BY DEF Init, EdgeInv, EarnedInv, Before, Replied
<1> QED
  BY <1>1, <1>2, <1>3 DEF Inv

\* The invariant the others follow from holds of every text turn.
THEOREM Invariance == Spec => [](TypeOK /\ Inv)
<1>1. Init => TypeOK /\ Inv
  BY InitInv
<1>2. (TypeOK /\ Inv) /\ [Next]_vars => (TypeOK /\ Inv)'
  BY TypeOKStep, InvStep DEF Inv
<1> QED
  BY <1>1, <1>2, PTL DEF Spec

\* Every variable keeps its type.
THEOREM TypeCorrect == Spec => []TypeOK
BY Invariance, PTL

\* The caller's terminal frame is the core's whole reply, with the status the
\* audit record was closed with.
THEOREM WholeReplyTold == Spec => []ToldTheWholeReply
<1>1. TypeOK /\ Inv => ToldTheWholeReply
  BY NoReplyAssumption
  DEF Inv, RecordInv, EdgeInv, ToldTheWholeReply, NoFrame, TurnStatus
<1> QED
  BY <1>1, Invariance, PTL

\* A held turn keeps back what the other branch read off its text.
THEOREM HeldTurnLeaksNothing == Spec => []RefusalLeaksNothing
<1>1. TypeOK /\ Inv => RefusalLeaksNothing
  BY DEF Inv, GateInv, RefusalLeaksNothing
<1> QED
  BY <1>1, Invariance, PTL

\* The status a caller is told is what the evidence supports.
THEOREM StatusEarned == Spec => []StatusIsEarned
<1>1. TypeOK /\ Inv => StatusIsEarned
  <2> SUFFICES ASSUME TypeOK, Inv, terminal.status \in TurnStatus,
                      decision = "proceed"
               PROVE  StatusIsEarned
    BY DEF StatusIsEarned
  <2>1. pc = "ended"
    BY DEF Inv, RecordInv, NoFrame, TurnStatus
  <2>2. reply # NoReply /\ terminal.status = reply.status
          /\ terminal.content = reply.content
    BY <2>1, NoReplyAssumption DEF Inv, EdgeInv
  <2> QED
    BY <2>2 DEF Inv, EarnedInv, StatusIsEarned
<1> QED
  BY <1>1, Invariance, PTL

-----------------------------------------------------------------------------
\* The text path implements the contract of a turn.

LEMMA ContractInit == Init => Contract!CInit
BY DEF Init, Contract!CInit, Wire, Gate, NoFrame

LEMMA BreakBreaks ==
  ASSUME TypeOK, Break, pc \notin {"start", "ended", "dropped"}
  PROVE  Contract!Break
BY DEF Break, End, Contract!Break, Wire, Gate

LEMMA ContractStep ==
  TypeOK /\ Inv /\ [Next]_vars => [Contract!CNext]_(Contract!cvars)
<1> SUFFICES ASSUME TypeOK, Inv, [Next]_vars
             PROVE  Contract!CNext \/ UNCHANGED Contract!cvars
  OBVIOUS
<1> USE DEF Contract!cvars, Wire, Gate
<1>1. CASE Start
  BY <1>1 DEF Start, Contract!CNext, Contract!Begin
<1>2. CASE Redact
  BY <1>2 DEF Redact
<1>3. CASE TranslateIn
  BY <1>3, BreakBreaks DEF TranslateIn, Contract!CNext
<1>4. CASE Moderate
  BY <1>4 DEF Moderate
<1>5. CASE ClassifyIntent
  BY <1>5 DEF ClassifyIntent
<1>6. CASE ResolvePlaces
  BY <1>6 DEF ResolvePlaces
<1>7. CASE Discover
  BY <1>7 DEF Discover
<1>8. CASE ChainRaises
  BY <1>8, BreakBreaks DEF ChainRaises, Contract!CNext
<1>9. CASE Refuse
  BY <1>9 DEF Refuse, Settle
<1>10. CASE ReplyNoMatch
  BY <1>10 DEF ReplyNoMatch, Settle
<1>11. CASE AskWhichPlace
  BY <1>11 DEF AskWhichPlace, Settle
<1>12. CASE ReplyUnserved
  BY <1>12 DEF ReplyUnserved, Settle
<1>13. CASE StartPlan
  BY <1>13 DEF StartPlan
<1>14. CASE PlanRaises
  BY <1>14, BreakBreaks DEF PlanRaises, Contract!CNext
<1>15. CASE PlanEnds
  BY <1>15 DEF PlanEnds
<1>16. CASE WritePiece
  BY <1>16 DEF WritePiece, Writing
<1>17. CASE StopWriting
  BY <1>17 DEF StopWriting, Writing
<1>18. CASE ComposeUnseen
  BY <1>18 DEF ComposeUnseen
<1>19. CASE WriterRaises
  BY <1>19, BreakBreaks DEF WriterRaises, Contract!CNext
<1>20. CASE FlushHeld
  BY <1>20 DEF FlushHeld
<1>21. CASE ClaimWords
  BY <1>21 DEF ClaimWords
<1>22. CASE OpenRecord
  BY <1>22, BreakBreaks
  DEF OpenRecord, Contract!CNext, Contract!OpenRecord, Inv, RecordInv
<1>23. CASE Join
  <2>1. record = "opened" /\ decision = "unset"
    BY <1>23 DEF Join, Inv, RecordInv, GateInv, Before
  <2>2. decision' \in Outcome
    BY <1>23 DEF Join
  <2>3. Gate' \in {"cleared", "held"}
    BY <2>2 DEF Outcome
  <2>4. Contract!Judge
    BY <1>23, <2>1, <2>3 DEF Join, Contract!Judge
  <2> QED
    BY <2>4 DEF Contract!CNext
<1>24. CASE \E a \in intent : ConsultProvider(a)
  <2>1. Contract!CallProvider
    BY <1>24 DEF ConsultProvider, Contract!CallProvider
  <2> QED
    BY <2>1 DEF Contract!CNext
<1>25. CASE \E a \in Asks : OfferForm(a)
  BY <1>25, BreakBreaks DEF OfferForm, Contract!CNext
<1>26. CASE FinishTurn
  <2>1. CASE Break
    BY <1>26, <2>1, BreakBreaks DEF FinishTurn, ReadyToFinish, Contract!CNext
  <2>2. CASE ~Break
    <3>1. reply \in Reply /\ reply.status \in TurnStatus
      BY <1>26 DEF FinishTurn, ReadyToFinish, Inv, ReplyReady, Replied, Reply
    <3>2. record = "opened"
      BY <1>26 DEF FinishTurn, ReadyToFinish, Inv, RecordInv, Replied
    <3>3. /\ reply.status \in Contract!FromNetwork => decision = "proceed"
          /\ reply.status = "rejected" => decision = "reject"
      BY <3>1, NoReplyAssumption DEF Inv, EarnedInv, Contract!FromNetwork
    <3>4. Contract!Finish(reply.status)
      BY <1>26, <2>2, <3>1, <3>2, <3>3
      DEF FinishTurn, End, ReadyToFinish, Contract!Finish
    <3> QED
      BY <3>1, <3>4 DEF Contract!CNext, Contract!TurnStatus, TurnStatus
  <2> QED
    BY <2>1, <2>2
<1>27. CASE Disconnect
  BY <1>27 DEF Disconnect, Contract!CNext, Contract!Drop
<1>28. CASE UNCHANGED vars
  BY <1>28 DEF vars
<1> QED
  BY <1>1, <1>2, <1>3, <1>4, <1>5, <1>6, <1>7, <1>8, <1>9, <1>10, <1>11, <1>12, <1>13, <1>14, <1>15, <1>16, <1>17, <1>18, <1>19, <1>20, <1>21, <1>22, <1>23, <1>24, <1>25, <1>26, <1>27, <1>28
  DEF Next, Advance

\* Judged before any provider is called, recorded before the caller is told,
\* ended once: every text turn keeps the contract.
THEOREM TextTurnKeepsContract == Spec => KeepsContract
<1>1. Init => Contract!CInit
  BY ContractInit
<1>2. TypeOK /\ Inv /\ [Next]_vars => [Contract!CNext]_(Contract!cvars)
  BY ContractStep
<1> QED
  BY <1>1, <1>2, Invariance, PTL DEF Spec, KeepsContract, Contract!CSpec

-----------------------------------------------------------------------------
\* The frames of a stream.

\* Every piece is inside a claim that was already sent.
Claimed(frames) ==
  \A i \in DOMAIN frames :
    frames[i] = "delta" => \E j \in DOMAIN frames : j > i /\ frames[j] = "claim"

SentInv ==
  /\ mode = "json" => sent = IF pc = "ended" THEN <<"terminal">> ELSE <<>>
  /\ mode = "sse" => \A i \in DOMAIN sent : (sent[i] = "created") <=> (i = 1)
  /\ mode = "sse" /\ pc = "start" => sent = <<>>
  /\ mode = "sse" /\ pc \notin {"start", "dropped"} => sent # <<>>
  /\ \A i \in DOMAIN sent :
       sent[i] = "terminal" => pc = "ended" /\ i = Len(sent)
  /\ pc \in Before \cup {"gate", "plan", "finish"} =>
       \A i \in DOMAIN sent : sent[i] # "delta"
  /\ pc = "offer" => Claimed(sent)
  /\ pc = "ended" /\ terminal.status \in TurnStatus => Claimed(sent)

LEMMA AppendFacts ==
  ASSUME NEW s \in Seq(Kinds), NEW k \in Kinds
  PROVE  /\ Len(s) \in Nat /\ DOMAIN s = 1 .. Len(s)
         /\ Len(Append(s, k)) = Len(s) + 1
         /\ DOMAIN Append(s, k) = 1 .. Len(s) + 1
         /\ \A i \in 1 .. Len(s) : Append(s, k)[i] = s[i]
         /\ Append(s, k)[Len(s) + 1] = k
         /\ s # <<>> <=> Len(s) > 0
OBVIOUS

\* A step that writes no frame and moves between stages of the same kind.
LEMMA SilentStep ==
  ASSUME TypeOK, Inv, SentInv, UNCHANGED <<mode, sent, terminal>>, pc' # "ended",
         pc \notin {"start", "ended", "dropped"}, pc' # "start",
         pc' \in Before \cup {"gate", "plan", "finish"} =>
           pc \in Before \cup {"gate", "plan", "finish"},
         pc' = "offer" => pc = "offer"
  PROVE  SentInv'
BY DEF SentInv, Claimed

\* A step that ends the turn, on a frame of the core's or of the router's.
LEMMA EndStep ==
  ASSUME TypeOK, Inv, SentInv, UNCHANGED mode,
         NEW status, NEW content, End(status, content),
         pc \notin {"start", "ended", "dropped"},
         status \in TurnStatus => pc \in {"finish", "offer"}
  PROVE  SentInv'
<1> DEFINE n == Len(sent)
<1>1. sent \in Seq(Kinds) /\ "terminal" \in Kinds
  BY DEF TypeOK, Kinds
<1>2. /\ n \in Nat /\ DOMAIN sent = 1 .. n
      /\ Len(sent') = n + 1 /\ DOMAIN sent' = 1 .. n + 1
      /\ \A i \in 1 .. n : sent'[i] = sent[i]
      /\ sent'[n + 1] = "terminal"
      /\ sent # <<>> <=> n > 0
      /\ pc' = "ended" /\ terminal'.status = status
      /\ sent' = Append(sent, "terminal")
  BY <1>1, AppendFacts DEF End
<1> HIDE DEF n
<1>3. mode = "json" => sent' = <<"terminal">>
  <2>1. Append(<<>>, "terminal") = <<"terminal">>
    OBVIOUS
  <2> QED
    BY <1>2, <2>1 DEF SentInv
<1>4. mode = "sse" => \A i \in DOMAIN sent' : (sent'[i] = "created") <=> (i = 1)
  BY <1>2 DEF SentInv
<1>5. \A i \in DOMAIN sent' : sent'[i] = "terminal" => i = Len(sent')
  BY <1>2 DEF SentInv
<1>6. status \in TurnStatus => Claimed(sent')
  BY <1>2 DEF SentInv, Claimed
<1> QED
  BY <1>2, <1>3, <1>4, <1>5, <1>6 DEF SentInv, Before

\* A step of a stream that writes one more frame before the end.
LEMMA EmitStep ==
  ASSUME TypeOK, Inv, SentInv, UNCHANGED <<mode, terminal>>,
         NEW k \in {"delta", "claim"}, Emit(k),
         \/ pc' = pc /\ pc \in {"compose", "speak", "claim"}
         \/ pc' = "offer" /\ pc \in {"claim", "offer"} /\ k = "claim"
  PROVE  SentInv'
<1> DEFINE n == Len(sent)
<1>1. CASE mode # "sse"
  BY <1>1 DEF Emit, SentInv, Claimed, TypeOK, Before
<1>2. CASE mode = "sse"
  <2>1. sent \in Seq(Kinds) /\ k \in Kinds
    BY DEF TypeOK, Kinds
  <2>2. /\ n \in Nat /\ DOMAIN sent = 1 .. n
        /\ DOMAIN sent' = 1 .. n + 1
        /\ \A i \in 1 .. n : sent'[i] = sent[i]
        /\ sent'[n + 1] = k
        /\ sent # <<>> <=> n > 0
    BY <1>2, <2>1, AppendFacts DEF Emit
  <2> HIDE DEF n
  <2>3. n > 0
    BY <1>2, <2>2 DEF SentInv
  <2>4. \A i \in DOMAIN sent' : (sent'[i] = "created") <=> (i = 1)
    BY <1>2, <2>2, <2>3 DEF SentInv
  <2>5. \A i \in DOMAIN sent' : sent'[i] # "terminal"
    BY <2>2 DEF SentInv
  <2>6. k = "claim" => Claimed(sent')
    BY <2>2 DEF Claimed
  <2>7. sent' # <<>>
    BY <2>2, <2>3
  <2> QED
    BY <1>2, <2>4, <2>5, <2>6, <2>7 DEF SentInv, Before
<1> QED
  BY <1>1, <1>2

LEMMA BreakSent ==
  ASSUME TypeOK, Inv, SentInv, Break, pc \notin {"start", "ended", "dropped"}
  PROVE  SentInv'
<1>1. UNCHANGED mode /\ End("internal", Nothing)
  BY DEF Break
<1> QED
  BY <1>1, EndStep DEF TurnStatus

\* Every step keeps the frames in order.
LEMMA SentStep == TypeOK /\ Inv /\ SentInv /\ [Next]_vars => SentInv'
<1> SUFFICES ASSUME TypeOK, Inv, SentInv, [Next]_vars PROVE SentInv'
  OBVIOUS
<1> USE DEF Before
<1>1. CASE Start
  BY <1>1 DEF Start, Emit, SentInv, TypeOK
<1>2. CASE Redact
  BY <1>2, SilentStep DEF Redact
<1>3. CASE OpenRecord
  BY <1>3, SilentStep, BreakSent DEF OpenRecord
<1>4. CASE TranslateIn
  BY <1>4, SilentStep, BreakSent DEF TranslateIn
<1>5. CASE Moderate
  BY <1>5, SilentStep DEF Moderate
<1>6. CASE ClassifyIntent
  BY <1>6, SilentStep DEF ClassifyIntent
<1>7. CASE ResolvePlaces
  BY <1>7, SilentStep DEF ResolvePlaces
<1>8. CASE Discover
  BY <1>8, SilentStep DEF Discover
<1>9. CASE ChainRaises
  BY <1>9, SilentStep, BreakSent DEF ChainRaises
<1>10. CASE Join
  BY <1>10, SilentStep DEF Join
<1>11. CASE Refuse
  BY <1>11, SilentStep DEF Refuse, Settle
<1>12. CASE ReplyNoMatch
  BY <1>12, SilentStep DEF ReplyNoMatch, Settle
<1>13. CASE AskWhichPlace
  BY <1>13, SilentStep DEF AskWhichPlace, Settle
<1>14. CASE ReplyUnserved
  BY <1>14, SilentStep DEF ReplyUnserved, Settle
<1>15. CASE StartPlan
  BY <1>15, SilentStep DEF StartPlan
<1>16. CASE PlanRaises
  BY <1>16, SilentStep, BreakSent DEF PlanRaises
<1>17. CASE PlanEnds
  BY <1>17, SilentStep DEF PlanEnds
<1>18. CASE StopWriting
  BY <1>18, SilentStep DEF StopWriting, Writing
<1>19. CASE ComposeUnseen
  BY <1>19, SilentStep DEF ComposeUnseen
<1>20. CASE WriterRaises
  BY <1>20, SilentStep, BreakSent DEF WriterRaises
<1>21. CASE \E a \in intent : ConsultProvider(a)
  BY <1>21, SilentStep DEF ConsultProvider
<1>22. CASE WritePiece
  <2>1. pc' = pc /\ pc \in {"compose", "speak"} /\ UNCHANGED <<mode, terminal>>
    BY <1>22 DEF WritePiece, Writing
  <2>2. Emit("delta") \/ UNCHANGED sent
    BY <1>22 DEF WritePiece
  <2> QED
    BY <2>1, <2>2, EmitStep, SilentStep
<1>23. CASE FlushHeld
  <2>1. pc' = pc /\ pc = "claim" /\ UNCHANGED <<mode, terminal>> /\ Emit("delta")
    BY <1>23 DEF FlushHeld
  <2> QED
    BY <2>1, EmitStep
<1>24. CASE ClaimWords
  BY <1>24, EmitStep DEF ClaimWords
<1>25. CASE \E a \in Asks : OfferForm(a)
  BY <1>25, EmitStep, BreakSent DEF OfferForm
<1>26. CASE FinishTurn
  <2>1. CASE Break
    BY <1>26, <2>1, BreakSent DEF FinishTurn, ReadyToFinish
  <2>2. CASE End(reply.status, EdgeContent) /\ UNCHANGED mode
    BY <1>26, <2>2, EndStep DEF FinishTurn, ReadyToFinish
  <2> QED
    BY <1>26, <2>1, <2>2 DEF FinishTurn
<1>27. CASE Disconnect
  BY <1>27 DEF Disconnect, SentInv
<1>28. CASE UNCHANGED vars
  BY <1>28 DEF vars, SentInv, Claimed
<1> QED
  BY <1>1, <1>2, <1>3, <1>4, <1>5, <1>6, <1>7, <1>8, <1>9, <1>10, <1>11, <1>12, <1>13, <1>14, <1>15, <1>16, <1>17, <1>18, <1>19, <1>20, <1>21, <1>22, <1>23, <1>24, <1>25, <1>26, <1>27, <1>28
  DEF Next, Advance

\* A stream is opened once and ended once, and every piece is in a claim.
THEOREM StreamInOrder == Spec => []FramesInOrder
<1>1. Init => SentInv
  BY DEF Init, SentInv, Claimed
<1>2. (TypeOK /\ Inv) /\ SentInv /\ [Next]_vars => SentInv'
  BY SentStep
<1>3. TypeOK /\ Inv /\ SentInv => FramesInOrder
  BY DEF Inv, RecordInv, SentInv, Claimed, FramesInOrder, NoFrame, TurnStatus
<1> QED
  BY <1>1, <1>2, <1>3, Invariance, PTL DEF Spec

=============================================================================
