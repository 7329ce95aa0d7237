--------------------------- MODULE FormTurnProofs ---------------------------
(***************************************************************************)
(* Invocation's safety properties for any number of attempts and any       *)
(* Retry-After a provider may send; then FormTurn's, and its refinement of *)
(* TurnContract. Whatever the turn does, the call takes one of its own     *)
(* steps or none, so that the call's invariant holds in the turn.          *)
(***************************************************************************)
EXTENDS FormTurn, TLAPS

-----------------------------------------------------------------------------
\* A provider call.

\* What the attempts made so far have come back with: every one but a last
\* that is still out, and nothing but plain transient failures before it.
HistoryInv ==
  /\ Len(posts) <= Attempts
  /\ phase = "idle" => posts = <<>>
  /\ phase = "posted" => Len(posts) = Len(outcomes) + 1
  /\ phase = "cancelled" => Len(posts) \in {Len(outcomes), Len(outcomes) + 1}
  /\ phase \in {"idle", "ready", "backoff", "answered", "failed"} =>
       Len(posts) = Len(outcomes)
  /\ phase \in {"posted", "backoff", "answered", "failed"} => Len(posts) # 0
  /\ phase \in {"ready", "backoff"} => Len(posts) < Attempts
  /\ phase \notin {"answered", "failed"} =>
       \A n \in DOMAIN outcomes : outcomes[n] = Plain("transient")

\* The message ids: a select's are its attempts' numbers, the other calls' are
\* the one id minted before the first attempt.
IdsInv ==
  /\ action = "select" => /\ minted = Len(posts)
                          /\ \A n \in DOMAIN posts : posts[n] = n
  /\ action # "select" => /\ phase = "idle" => minted = 0
                          /\ phase # "idle" => minted = 1
                          /\ \A n \in DOMAIN posts : posts[n] = 1

CallInv ==
  /\ InvocationTypeOK
  /\ HistoryInv
  /\ IdsInv
  /\ RetriedOnlyWhenWelcome
  /\ ReportsTheLastAttempt

USE AttemptsAssumption, NoDelayAssumption

\* A failure as the code builds it is one of the outcomes an attempt has.
LEMMA PlainIsOutcome ==
  ASSUME NEW class \in {"ok", "transient", "defect"}
  PROVE  Plain(class) \in Outcome
BY DEF Plain, Outcome

LEMMA CallInvInit == InvocationInit => CallInv
BY DEF InvocationInit, CallInv, InvocationTypeOK, HistoryInv, IdsInv,
       RetriedOnlyWhenWelcome, ReportsTheLastAttempt, Attempt, Phase, Action

\* A new attempt is one longer than the last, and keeps the ids' rule.
LEMMA PostStep ==
  ASSUME CallInv, Post
  PROVE  CallInv'
<1> USE DEF CallInv, Attempt
<1>1. posts \in Seq(Nat \ {0}) /\ outcomes \in Seq(Outcome) /\ minted \in Nat
  BY DEF InvocationTypeOK
<1>2. /\ phase = "ready" /\ phase' = "posted"
      /\ outcomes' = outcomes /\ action' = action /\ acted' = acted
      /\ waited' = waited
      /\ minted' = IF action = "select" THEN minted + 1 ELSE minted
      /\ posts' = Append(posts, minted')
      /\ pending' = pending \cup {Len(posts) + 1}
  BY DEF Post
<1>3. minted' \in Nat \ {0}
  BY <1>1, <1>2 DEF IdsInv
<1>4. /\ posts' \in Seq(Nat \ {0})
      /\ Len(posts') = Len(posts) + 1
      /\ posts'[Len(posts) + 1] = minted'
      /\ \A n \in 1..Len(posts) : posts'[n] = posts[n]
  BY <1>1, <1>2, <1>3
<1>5. Len(posts) \in Nat /\ Len(outcomes) \in Nat
  BY <1>1
<1>6. InvocationTypeOK'
  <2>1. pending \in SUBSET (1..Len(posts)) /\ acted \in SUBSET (1..Len(posts))
    BY DEF InvocationTypeOK
  <2>2. /\ pending' \in SUBSET (1..(Len(posts) + 1))
        /\ acted' \in SUBSET (1..(Len(posts) + 1))
    <3>1. Len(posts) + 1 \in 1..(Len(posts) + 1)
      BY <1>5
    <3>2. 1..Len(posts) \subseteq 1..(Len(posts) + 1)
      BY <1>5
    <3> QED BY <1>2, <2>1, <3>1, <3>2
  <2>3. /\ pending' \in SUBSET (1..Len(posts'))
        /\ acted' \in SUBSET (1..Len(posts'))
    BY <1>4, <2>2
  <2> QED BY <1>1, <1>2, <1>3, <1>4, <2>3 DEF InvocationTypeOK, Phase
<1>7. HistoryInv'
  BY <1>2, <1>4, <1>5 DEF HistoryInv
<1>8. IdsInv'
  <2>1. CASE action = "select"
    <3>1. minted' = Len(posts')
      BY <1>2, <1>4, <2>1 DEF IdsInv
    <3>2. \A n \in DOMAIN posts' : posts'[n] = n
      BY <1>1, <1>2, <1>4, <1>5, <2>1 DEF IdsInv
    <3> QED BY <1>2, <2>1, <3>1, <3>2 DEF IdsInv
  <2>2. CASE action # "select"
    <3>1. minted' = 1
      BY <1>2, <2>2 DEF IdsInv
    <3>2. \A n \in DOMAIN posts' : posts'[n] = 1
      BY <1>1, <1>2, <1>4, <1>5, <2>2, <3>1 DEF IdsInv
    <3> QED BY <1>2, <2>2, <3>1, <3>2 DEF IdsInv
  <2> QED BY <2>1, <2>2
<1>9. RetriedOnlyWhenWelcome' /\ ReportsTheLastAttempt'
  BY <1>2, <1>4, <1>5 DEF HistoryInv, RetriedOnlyWhenWelcome,
                          ReportsTheLastAttempt
<1> QED BY <1>6, <1>7, <1>8, <1>9

\* An attempt's outcome is appended as the last, whatever ends or goes on.
LEMMA OutcomeStep ==
  ASSUME CallInv, phase = "posted",
         NEW outcome \in Outcome,
         outcomes' = Append(outcomes, outcome),
         phase' \in {"answered", "failed", "backoff"},
         phase' = "backoff" => /\ outcome = Plain("transient")
                               /\ Attempt < Attempts,
         phase' = "answered" => outcome.class = "ok" /\ Attempt \in acted,
         phase' = "failed" => /\ outcome.class # "ok"
                              /\ \/ Attempt = Attempts
                                 \/ outcome # Plain("transient"),
         UNCHANGED <<action, minted, posts, pending, acted, waited>>
  PROVE  CallInv'
<1> USE DEF CallInv, Attempt
<1>1. posts \in Seq(Nat \ {0}) /\ outcomes \in Seq(Outcome)
  BY DEF InvocationTypeOK
<1>2. /\ action' = action /\ minted' = minted /\ posts' = posts
      /\ pending' = pending /\ acted' = acted /\ waited' = waited
  OBVIOUS
<1>3. /\ outcomes' \in Seq(Outcome)
      /\ Len(outcomes') = Len(outcomes) + 1
      /\ outcomes'[Len(outcomes) + 1] = outcome
      /\ \A n \in 1..Len(outcomes) : outcomes'[n] = outcomes[n]
  BY <1>1
<1>4. Len(posts) \in Nat /\ Len(outcomes) \in Nat
      /\ Len(posts) = Len(outcomes) + 1
  BY <1>1 DEF HistoryInv
<1>5. InvocationTypeOK'
  BY <1>2, <1>3 DEF InvocationTypeOK, Phase
<1>6. \A n \in 1..Len(outcomes) : outcomes'[n] = Plain("transient")
  BY <1>1, <1>3 DEF HistoryInv
<1>7. HistoryInv'
  BY <1>2, <1>3, <1>4, <1>6 DEF HistoryInv
<1>8. IdsInv'
  BY <1>2 DEF IdsInv
<1>9. RetriedOnlyWhenWelcome'
  BY <1>2, <1>3, <1>4, <1>6 DEF HistoryInv, RetriedOnlyWhenWelcome
<1>10. ReportsTheLastAttempt'
  BY <1>2, <1>3, <1>4 DEF ReportsTheLastAttempt
<1> QED BY <1>5, <1>7, <1>8, <1>9, <1>10

\* A failed attempt goes on only when it may, and is the last otherwise.
LEMMA FailsStep ==
  ASSUME CallInv, NEW failure \in Outcome, failure.class # "ok",
         Fails(failure)
  PROVE  CallInv'
<1>1. /\ phase = "posted" /\ outcomes' = Append(outcomes, failure)
      /\ phase' = IF RetriesAfter(failure) THEN "backoff" ELSE "failed"
      /\ UNCHANGED <<action, minted, posts, pending, acted, waited>>
  BY DEF Fails
<1>2. RetriesAfter(failure) =>
        failure = Plain("transient") /\ Attempt < Attempts
  BY DEF RetriesAfter, Plain, Outcome
<1>3. Attempt \in Nat /\ Attempt <= Attempts
  BY DEF CallInv, HistoryInv, InvocationTypeOK, Attempt
<1>4. ~RetriesAfter(failure) =>
        Attempt = Attempts \/ failure # Plain("transient")
  BY <1>3 DEF RetriesAfter, Plain, Outcome
<1> QED BY <1>1, <1>2, <1>4, OutcomeStep

LEMMA CallInvStep == CallInv /\ [InvocationNext]_ivars => CallInv'
<1> SUFFICES ASSUME CallInv, [InvocationNext]_ivars PROVE CallInv'
  OBVIOUS
<1>1. CASE Call
  <2>1. /\ phase = "idle" /\ phase' = "ready"
        /\ minted' = IF action = "select" THEN minted ELSE minted + 1
        /\ UNCHANGED <<action, posts, outcomes, pending, acted, waited>>
    BY <1>1 DEF Call
  <2>2. InvocationTypeOK'
    BY <2>1 DEF CallInv, InvocationTypeOK, Phase, Attempt
  <2>3. HistoryInv'
    BY <2>1 DEF CallInv, HistoryInv
  <2>4. IdsInv'
    BY <2>1 DEF CallInv, IdsInv
  <2>5. RetriedOnlyWhenWelcome' /\ ReportsTheLastAttempt'
    BY <2>1 DEF CallInv, RetriedOnlyWhenWelcome, ReportsTheLastAttempt, Attempt
  <2> QED BY <2>2, <2>3, <2>4, <2>5 DEF CallInv
<1>2. CASE Post
  BY <1>2, PostStep
<1>3. CASE Answered
  <2>1. Plain("ok") \in Outcome /\ Plain("ok").class = "ok"
    BY DEF Plain, Outcome
  <2> QED BY <1>3, <2>1, OutcomeStep DEF Answered, Returns
<1>4. CASE Unreadable
  <2>1. /\ Plain("defect") \in Outcome
        /\ Plain("defect").class # "ok"
        /\ Plain("defect") # Plain("transient")
    BY DEF Plain, Outcome
  <2> QED BY <1>4, <2>1, OutcomeStep DEF Unreadable, Returns
<1>5. CASE Rejected
  <2>1. PICK class \in {"transient", "defect"}, after \in Delays \cup {NoDelay} :
          Fails([class |-> class, after |-> after])
    BY <1>5 DEF Rejected
  <2>2. [class |-> class, after |-> after] \in Outcome
    BY DEF Outcome
  <2> QED BY <2>1, <2>2, FailsStep
<1>6. CASE TransportError
  BY <1>6, PlainIsOutcome, FailsStep DEF TransportError, Plain
<1>7. CASE BackOff
  <2>1. /\ phase = "backoff" /\ phase' = "ready"
        /\ UNCHANGED <<action, minted, posts, outcomes, pending, acted>>
    BY <1>7 DEF BackOff
  <2>2. InvocationTypeOK'
    BY <2>1 DEF CallInv, InvocationTypeOK, Phase, Attempt
  <2>3. HistoryInv' /\ IdsInv'
    BY <2>1 DEF CallInv, HistoryInv, IdsInv
  <2>4. RetriedOnlyWhenWelcome' /\ ReportsTheLastAttempt'
    BY <2>1 DEF CallInv, RetriedOnlyWhenWelcome, ReportsTheLastAttempt, Attempt
  <2> QED BY <2>2, <2>3, <2>4 DEF CallInv
<1>8. CASE Provider
  <2>1. /\ acted' \in SUBSET (1..Attempt) /\ pending' \in SUBSET (1..Attempt)
        /\ acted \subseteq acted'
        /\ UNCHANGED <<action, phase, minted, posts, outcomes, waited>>
    BY <1>8 DEF Provider, ProviderActs, MessageLost, CallInv, InvocationTypeOK
  <2>2. InvocationTypeOK'
    BY <2>1 DEF CallInv, InvocationTypeOK, Attempt
  <2>3. HistoryInv' /\ IdsInv'
    BY <2>1 DEF CallInv, HistoryInv, IdsInv
  <2>4. RetriedOnlyWhenWelcome' /\ ReportsTheLastAttempt'
    BY <2>1 DEF CallInv, RetriedOnlyWhenWelcome, ReportsTheLastAttempt, Attempt
  <2> QED BY <2>2, <2>3, <2>4 DEF CallInv
<1>9. CASE Cancel
  <2>1. /\ phase \in {"posted", "backoff"} /\ phase' = "cancelled"
        /\ UNCHANGED <<action, minted, posts, outcomes, pending, acted, waited>>
    BY <1>9 DEF Cancel
  <2>2. InvocationTypeOK'
    BY <2>1 DEF CallInv, InvocationTypeOK, Phase, Attempt
  <2>3. HistoryInv' /\ IdsInv'
    BY <2>1 DEF CallInv, HistoryInv, IdsInv
  <2>4. RetriedOnlyWhenWelcome' /\ ReportsTheLastAttempt'
    BY <2>1 DEF CallInv, RetriedOnlyWhenWelcome, ReportsTheLastAttempt, Attempt
  <2> QED BY <2>2, <2>3, <2>4 DEF CallInv
<1>10. CASE UNCHANGED ivars
  BY <1>10 DEF ivars, CallInv, InvocationTypeOK, HistoryInv, IdsInv,
               RetriedOnlyWhenWelcome, ReportsTheLastAttempt, Attempt
<1> QED BY <1>1, <1>2, <1>3, <1>4, <1>5, <1>6, <1>7, <1>8, <1>9, <1>10
        DEF InvocationNext, Adapter

\* The invariant of one call, for every number of attempts.
THEOREM CallInvariance == InvocationSpec => []CallInv
<1>1. CallInv /\ [InvocationNext]_ivars => CallInv'
  BY CallInvStep
<1> QED BY CallInvInit, <1>1, PTL DEF InvocationSpec

\* Every variable of a call keeps its type.
THEOREM CallTypeCorrect == InvocationSpec => []InvocationTypeOK
<1>1. CallInv => InvocationTypeOK
  BY DEF CallInv
<1> QED BY CallInvariance, <1>1, PTL

\* A filing and a status read go out under one message id however often they
\* are retried, a select under a new one each time.
THEOREM OneIdPerFiling == InvocationSpec => []OneMessagePerFiling
<1>1. CallInv => OneMessagePerFiling
  BY DEF CallInv, IdsInv, OneMessagePerFiling
<1> QED BY CallInvariance, <1>1, PTL

\* No attempt follows a defect, a provider's own Retry-After or the last chance.
THEOREM NoUnwelcomeRetry == InvocationSpec => []RetriedOnlyWhenWelcome
<1>1. CallInv => RetriedOnlyWhenWelcome
  BY DEF CallInv
<1> QED BY CallInvariance, <1>1, PTL

\* What the caller is handed is the last attempt's own outcome.
THEOREM LastAttemptReported == InvocationSpec => []ReportsTheLastAttempt
<1>1. CallInv => ReportsTheLastAttempt
  BY DEF CallInv
<1> QED BY CallInvariance, <1>1, PTL

-----------------------------------------------------------------------------
\* A form turn.

\* The record is opened before the form is looked at and closed at the end.
RecordInv ==
  /\ pc \in {"start", "redact", "open"} => record = "absent"
  /\ pc \in {"checked", "moderate", "discover", "call", "calling", "compose",
             "finish"} => record = "opened"

\* How far the form has come tells what was found fit about it.
FitInv ==
  /\ action # "select"
  /\ pc \in {"start", "redact", "open", "checked", "moderate"} =>
       decision = "unset"
  /\ pc \in {"moderate", "discover", "call", "calling", "compose"} =>
       checked = "valid"
  /\ pc \in {"discover", "call", "calling", "compose"} => decision = "proceed"
  /\ pc \in {"call", "calling", "compose"} => found = "serves"
  /\ phase # "idle" => /\ checked = "valid" /\ decision = "proceed"
                       /\ found = "serves" /\ record # "absent"

\* The call runs only while the turn stands at it.
CallPcInv ==
  /\ pc \in {"start", "redact", "open", "checked", "moderate", "discover",
             "call"} => phase = "idle"
  /\ pc = "calling" => phase \in {"ready", "posted", "backoff", "answered",
                                  "failed"}
  /\ pc = "compose" => phase = "answered"
  /\ pc \in {"finish", "ended", "dropped"} =>
       phase \in {"idle", "answered", "failed", "cancelled"}

\* A status that speaks of the network, or of a rejection, has its verdict.
Judged(r) ==
  /\ r.status \in {"answered", "partially_answered", "unavailable"} =>
       decision = "proceed"
  /\ r.status = "rejected" => decision \notin {"unset", "proceed"}

ReplyInv ==
  /\ pc = "finish" => /\ reply.status \in TurnStatus
                      /\ SaysHowTheCallEnded(reply) /\ Judged(reply)
  /\ pc # "ended" => terminal = NoReply
  /\ pc = "ended" => \/ terminal = Internal
                     \/ /\ terminal.status \in TurnStatus
                        /\ SaysHowTheCallEnded(terminal)

FormInv == FormTypeOK /\ CallInv /\ RecordInv /\ FitInv /\ CallPcInv /\ ReplyInv

\* The parts of FormInv whose step is not the call's.
TurnInv == FormTypeOK /\ RecordInv /\ FitInv /\ CallPcInv /\ ReplyInv

-----------------------------------------------------------------------------

\* The replies the turn ends on are replies.
LEMMA FixedReplies ==
  /\ Plainly("requires_input", "invalid_input", "errors", TRUE) \in Reply
  /\ Plainly("requires_input", "invalid_input", "unknown_form", FALSE) \in Reply
  /\ Plainly("no_match", "none", "unserved", FALSE) \in Reply
  /\ Plainly("answered", "none", "confirmation", FALSE) \in Reply
  /\ \A status \in TurnStatus :
       Plainly(status, "none", "refusal", FALSE) \in Reply
BY DEF Plainly, Reply, TurnStatus, Cause, Text

LEMMA FixedStatuses ==
  /\ Plainly("requires_input", "invalid_input", "errors", TRUE).status
       = "requires_input"
  /\ Plainly("requires_input", "invalid_input", "unknown_form", FALSE).status
       = "requires_input"
  /\ Plainly("no_match", "none", "unserved", FALSE).status = "no_match"
  /\ Plainly("answered", "none", "confirmation", FALSE).status = "answered"
  /\ ~Plainly("answered", "none", "confirmation", FALSE).handed
  /\ \A status \in TurnStatus :
       Plainly(status, "none", "refusal", FALSE).status = status
BY DEF Plainly

LEMMA NoReplyFacts ==
  /\ NoReply \in Reply /\ NoReply.status = "none"
  /\ Internal \in Reply /\ Internal.status = "internal"
BY DEF NoReply, Internal, Plainly, Reply, TurnStatus, Cause, Text

\* Whatever the turn does, the call takes a step of its own or none.
LEMMA CallStep == [Next]_vars => [InvocationNext]_ivars
BY DEF Next, Advance, vars, ivars, Start, Redact, OpenRecord, CheckForm,
       Moderate, Discover, CallProvider, AdapterStep, HandBackFailedCall,
       ReadAnswer, WritePiece, Compose, FinishTurn, ProviderStep, Disconnect,
       Break, Settle, InvocationNext, Cancel

\* A turn that breaks keeps what it had, and its call was not running.
LEMMA BreakStep ==
  ASSUME TurnInv, Break, pc \in {"open", "discover", "compose", "finish"}
  PROVE  TurnInv'
<1>1. /\ pc' = "ended" /\ terminal' = Internal
      /\ UNCHANGED <<form, reply, shown, record, ivars>>
  BY DEF Break
<1>2. /\ mode' = mode /\ checked' = checked /\ prose' = prose
      /\ decision' = decision /\ found' = found /\ reply' = reply
      /\ shown' = shown /\ record' = record /\ action' = action
      /\ phase' = phase
  BY <1>1 DEF form, ivars
<1>3. FormTypeOK'
  BY <1>1, <1>2, NoReplyFacts DEF TurnInv, FormTypeOK, Stage
<1>4. RecordInv' /\ FitInv'
  BY <1>1, <1>2 DEF TurnInv, RecordInv, FitInv
<1>5. CallPcInv' /\ ReplyInv'
  BY <1>1, <1>2 DEF TurnInv, CallPcInv, ReplyInv
<1> QED BY <1>3, <1>4, <1>5 DEF TurnInv

LEMMA FormInvInit == Init => FormInv
<1> SUFFICES ASSUME Init PROVE FormInv
  OBVIOUS
<1>1. CallInv
  BY CallInvInit DEF Init
<1>2. /\ phase = "idle" /\ action # "select" /\ pc = "start"
      /\ record = "absent" /\ decision = "unset" /\ found = "none"
      /\ terminal = NoReply /\ reply = NoReply /\ shown = FALSE
      /\ mode \in {"sse", "json"} /\ checked \in Checked /\ prose \in BOOLEAN
  BY DEF Init, InvocationInit
<1>3. FormTypeOK
  BY <1>2, NoReplyFacts DEF FormTypeOK, Stage, Found, Verdict
<1>4. RecordInv /\ FitInv /\ CallPcInv /\ ReplyInv
  BY <1>2 DEF RecordInv, FitInv, CallPcInv, ReplyInv
<1> QED BY <1>1, <1>3, <1>4 DEF FormInv

\* The turn's steps up to the call.
LEMMA EarlyStep ==
  ASSUME TurnInv,
         Start \/ Redact \/ OpenRecord \/ CheckForm \/ Moderate \/ Discover
  PROVE  TurnInv'
<1>1. CASE Start \/ Redact
  <2>1. /\ \/ pc = "start" /\ pc' = "redact"
           \/ pc = "redact" /\ pc' = "open"
        /\ mode' = mode /\ checked' = checked /\ prose' = prose
        /\ decision' = decision /\ found' = found /\ reply' = reply
        /\ shown' = shown /\ record' = record /\ terminal' = terminal
        /\ action' = action /\ phase' = phase
    BY <1>1 DEF Start, Redact, form, ivars
  <2>2. FormTypeOK'
    BY <2>1 DEF TurnInv, FormTypeOK, Stage
  <2> QED BY <2>1, <2>2 DEF TurnInv, RecordInv, FitInv, CallPcInv, ReplyInv
<1>2. CASE OpenRecord
  <2>1. pc = "open"
    BY <1>2 DEF OpenRecord
  <2>2. CASE Break
    BY <2>1, <2>2, BreakStep
  <2>3. CASE ~Break
    <3>1. /\ pc' = "checked" /\ record' = "opened"
          /\ mode' = mode /\ checked' = checked /\ prose' = prose
          /\ decision' = decision /\ found' = found /\ reply' = reply
          /\ shown' = shown /\ terminal' = terminal
          /\ action' = action /\ phase' = phase
      BY <1>2, <2>3 DEF OpenRecord, form, ivars
    <3>2. FormTypeOK'
      BY <3>1 DEF TurnInv, FormTypeOK, Stage
    <3> QED BY <2>1, <3>1, <3>2
            DEF TurnInv, RecordInv, FitInv, CallPcInv, ReplyInv
  <2> QED BY <2>2, <2>3
<1>3. CASE CheckForm
  <2>1. /\ pc = "checked"
        /\ mode' = mode /\ checked' = checked /\ prose' = prose
        /\ decision' = decision /\ found' = found
        /\ shown' = shown /\ record' = record /\ terminal' = terminal
        /\ action' = action /\ phase' = phase
    BY <1>3 DEF CheckForm, form, ivars
  <2>2. CASE checked = "valid"
    <3>1. pc' = "moderate" /\ reply' = reply
      BY <1>3, <2>2 DEF CheckForm
    <3>2. FormTypeOK'
      BY <2>1, <3>1 DEF TurnInv, FormTypeOK, Stage
    <3> QED BY <2>1, <2>2, <3>1, <3>2
            DEF TurnInv, RecordInv, FitInv, CallPcInv, ReplyInv
  <2>3. CASE checked # "valid"
    <3>1. pc' = "finish" /\ reply' \in Reply /\ reply'.status = "requires_input"
      BY <1>3, <2>3, FixedReplies, FixedStatuses DEF CheckForm, Settle, FormTypeOK,
                  TurnInv, Checked
    <3>2. FormTypeOK'
      BY <2>1, <3>1 DEF TurnInv, FormTypeOK, Stage
    <3>3. phase' = "idle"
      BY <2>1 DEF TurnInv, CallPcInv
    <3>4. SaysHowTheCallEnded(reply)' /\ Judged(reply)'
      BY <3>1, <3>3 DEF SaysHowTheCallEnded, Judged
    <3> QED BY <2>1, <3>1, <3>2, <3>3, <3>4
            DEF TurnInv, RecordInv, FitInv, CallPcInv, ReplyInv, TurnStatus
  <2> QED BY <2>2, <2>3
<1>4. CASE Moderate
  <2>1. /\ pc = "moderate"
        /\ mode' = mode /\ checked' = checked /\ prose' = prose
        /\ found' = found
        /\ shown' = shown /\ record' = record /\ terminal' = terminal
        /\ action' = action /\ phase' = phase
        /\ decision' \in Verdict
    BY <1>4 DEF Moderate, ivars, Verdict
  <2>2. CASE decision' = "proceed"
    <3>1. pc' = "discover" /\ reply' = reply
      BY <1>4, <2>2 DEF Moderate
    <3>2. FormTypeOK'
      BY <2>1, <3>1 DEF TurnInv, FormTypeOK, Stage
    <3> QED BY <2>1, <2>2, <3>1, <3>2
            DEF TurnInv, RecordInv, FitInv, CallPcInv, ReplyInv
  <2>3. CASE decision' # "proceed"
    <3>1. StatusFor(decision') \in {"rejected", "requires_input", "no_match"}
      BY <2>1, <2>3 DEF StatusFor, Verdict
    <3>2. /\ pc' = "finish" /\ reply' \in Reply
          /\ reply'.status = StatusFor(decision')
      BY <1>4, <2>3, <3>1, FixedReplies, FixedStatuses
         DEF Moderate, Settle, TurnStatus
    <3>3. FormTypeOK'
      BY <2>1, <3>2 DEF TurnInv, FormTypeOK, Stage
    <3>4. phase' = "idle" /\ phase = "idle"
      BY <2>1 DEF TurnInv, CallPcInv
    <3>5. decision' \notin {"unset", "proceed"}
      BY <2>1, <2>3 DEF Verdict
    <3>6. SaysHowTheCallEnded(reply)' /\ Judged(reply)'
      BY <3>1, <3>2, <3>4, <3>5 DEF SaysHowTheCallEnded, Judged
    <3> QED BY <2>1, <3>1, <3>2, <3>3, <3>4, <3>6
            DEF TurnInv, RecordInv, FitInv, CallPcInv, ReplyInv, TurnStatus
  <2> QED BY <2>2, <2>3
<1>5. CASE Discover
  <2>1. pc = "discover"
    BY <1>5 DEF Discover
  <2>2. CASE Break
    BY <2>1, <2>2, BreakStep
  <2>3. CASE ~Break
    <3>1. /\ found' \in Found
          /\ mode' = mode /\ checked' = checked /\ prose' = prose
          /\ decision' = decision
          /\ shown' = shown /\ record' = record /\ terminal' = terminal
          /\ action' = action /\ phase' = phase
      BY <1>5, <2>3 DEF Discover, ivars
    <3>2. phase = "idle"
      BY <2>1 DEF TurnInv, CallPcInv
    <3>3. CASE found' = "serves"
      <4>1. pc' = "call" /\ reply' = reply
        BY <1>5, <2>3, <3>3 DEF Discover, Servable
      <4>2. FormTypeOK'
        BY <3>1, <4>1 DEF TurnInv, FormTypeOK, Stage
      <4> QED BY <2>1, <3>1, <3>2, <3>3, <4>1, <4>2
              DEF TurnInv, RecordInv, FitInv, CallPcInv, ReplyInv
    <3>4. CASE found' # "serves"
      <4>1. pc' = "finish" /\ reply' \in Reply /\ reply'.status = "no_match"
        BY <1>5, <2>3, <3>4, FixedReplies, FixedStatuses
           DEF Discover, Servable, Settle
      <4>2. FormTypeOK'
        BY <3>1, <4>1 DEF TurnInv, FormTypeOK, Stage
      <4>3. SaysHowTheCallEnded(reply)' /\ Judged(reply)'
        BY <3>1, <3>2, <4>1 DEF SaysHowTheCallEnded, Judged
      <4> QED BY <2>1, <3>1, <3>2, <4>1, <4>2, <4>3
              DEF TurnInv, RecordInv, FitInv, CallPcInv, ReplyInv, TurnStatus
    <3> QED BY <3>3, <3>4
  <2> QED BY <2>2, <2>3
<1> QED BY <1>1, <1>2, <1>3, <1>4, <1>5

\* The steps around the call: it starts, runs beside the turn, and is read.
LEMMA CallingStep ==
  ASSUME TurnInv, CallInv,
         CallProvider \/ AdapterStep \/ ProviderStep \/ HandBackFailedCall
           \/ ReadAnswer
  PROVE  TurnInv'
<1>1. CASE CallProvider
  <2>1. /\ pc = "call" /\ pc' = "calling" /\ phase' = "ready"
        /\ mode' = mode /\ checked' = checked /\ prose' = prose
        /\ decision' = decision /\ found' = found /\ reply' = reply
        /\ shown' = shown /\ record' = record /\ terminal' = terminal
        /\ action' = action
    BY <1>1 DEF CallProvider, Call, form
  <2>2. FormTypeOK'
    BY <2>1 DEF TurnInv, FormTypeOK, Stage
  <2> QED BY <2>1, <2>2 DEF TurnInv, RecordInv, FitInv, CallPcInv, ReplyInv
<1>2. CASE AdapterStep
  <2>1. /\ pc' = pc
        /\ mode' = mode /\ checked' = checked /\ prose' = prose
        /\ decision' = decision /\ found' = found /\ reply' = reply
        /\ shown' = shown /\ record' = record /\ terminal' = terminal
    BY <1>2 DEF AdapterStep, fvars, form
  <2>2. /\ phase \in {"ready", "posted", "backoff"}
        /\ phase' \in {"ready", "posted", "backoff", "answered", "failed"}
        /\ action' = action
    BY <1>2 DEF AdapterStep, Adapter, Post, Answered, Unreadable, Returns,
                Rejected, Fails, TransportError, BackOff
  <2>3. pc = "calling"
    BY <2>2 DEF TurnInv, CallPcInv, FormTypeOK, Stage
  <2>4. FormTypeOK'
    BY <2>1 DEF TurnInv, FormTypeOK
  <2> QED BY <2>1, <2>2, <2>3, <2>4
          DEF TurnInv, RecordInv, FitInv, CallPcInv, ReplyInv
<1>3. CASE ProviderStep
  <2>1. /\ pc' = pc
        /\ mode' = mode /\ checked' = checked /\ prose' = prose
        /\ decision' = decision /\ found' = found /\ reply' = reply
        /\ shown' = shown /\ record' = record /\ terminal' = terminal
    BY <1>3 DEF ProviderStep, fvars, form
  <2>2. /\ phase' = phase /\ action' = action /\ posts' = posts
        /\ outcomes' = outcomes /\ acted \subseteq acted'
    BY <1>3 DEF ProviderStep, Provider, ProviderActs, MessageLost
  <2>3. FormTypeOK' /\ RecordInv' /\ FitInv' /\ CallPcInv'
    BY <2>1, <2>2 DEF TurnInv, FormTypeOK, RecordInv, FitInv, CallPcInv
  <2>4. /\ SaysHowTheCallEnded(reply) => SaysHowTheCallEnded(reply)'
        /\ SaysHowTheCallEnded(terminal) => SaysHowTheCallEnded(terminal)'
    BY <2>1, <2>2 DEF SaysHowTheCallEnded, Attempt
  <2>5. Judged(reply) => Judged(reply)'
    BY <2>1 DEF Judged
  <2>6. ReplyInv'
    BY <2>1, <2>4, <2>5 DEF TurnInv, ReplyInv
  <2> QED BY <2>3, <2>6 DEF TurnInv
<1>4. CASE HandBackFailedCall
  <2> DEFINE failure == outcomes[Attempt]
             cause   == CauseFor(failure)
  <2>1. /\ pc = "calling" /\ phase = "failed" /\ pc' = "finish"
        /\ reply' = [status |-> "unavailable", cause |-> cause,
                     after |-> failure.after, text |-> NotSentText(cause),
                     handed |-> TRUE]
        /\ mode' = mode /\ checked' = checked /\ prose' = prose
        /\ decision' = decision /\ found' = found
        /\ shown' = shown /\ record' = record /\ terminal' = terminal
        /\ action' = action /\ phase' = phase /\ posts' = posts
        /\ outcomes' = outcomes /\ acted' = acted
    BY <1>4 DEF HandBackFailedCall, Settle, form, ivars
  <2>2. failure \in Outcome /\ failure.class \in {"transient", "defect"}
    <3>1. /\ Len(outcomes) = Len(posts) /\ Len(posts) \in Nat
          /\ outcomes \in Seq(Outcome)
          /\ failure.class # "ok"
      <4>1. Len(outcomes) = Attempt /\ outcomes[Attempt].class # "ok"
        BY <2>1 DEF CallInv, ReportsTheLastAttempt
      <4>2. posts \in Seq(Nat \ {0}) /\ outcomes \in Seq(Outcome)
        BY DEF CallInv, InvocationTypeOK
      <4>3. Len(posts) \in Nat
        BY <4>2
      <4> QED BY <4>1, <4>2, <4>3 DEF Attempt
    <3>2. Len(posts) >= 1
      BY <2>1, <3>1 DEF CallInv, HistoryInv
    <3>3. failure \in Outcome
      BY <3>1, <3>2 DEF Attempt
    <3> QED BY <3>1, <3>3 DEF Outcome
  <2>3. action \in {"support", "status"}
    BY DEF TurnInv, FitInv, CallInv, InvocationTypeOK, Action
  <2>4. /\ cause \in {"provider_unavailable", "provider_rejected"}
        /\ cause = "provider_rejected" <=> failure.class = "defect"
    BY <2>2 DEF CauseFor
  <2>5. /\ NotSentText(cause) \in Text
        /\ NotSentText(cause) \in {"not_filed", "not_filed_rejected"}
             <=> action = "support"
    BY <2>3, <2>4 DEF NotSentText, Text
  <2>6. failure.after \in Delays \cup {NoDelay}
    BY <2>2 DEF Outcome
  <2>7. reply' \in Reply
    BY <2>1, <2>4, <2>5, <2>6 DEF Reply, TurnStatus, Cause
  <2>8. SaysHowTheCallEnded(reply)'
    BY <2>1, <2>4, <2>5 DEF SaysHowTheCallEnded, Attempt
  <2>9. Judged(reply)'
    BY <2>1 DEF Judged, TurnInv, FitInv
  <2>10. FormTypeOK'
    BY <2>1, <2>7 DEF TurnInv, FormTypeOK, Stage
  <2>11. RecordInv' /\ FitInv' /\ CallPcInv'
    BY <2>1 DEF TurnInv, RecordInv, FitInv, CallPcInv
  <2>12. reply'.status \in TurnStatus
    BY <2>1 DEF TurnStatus
  <2>13. ReplyInv'
    BY <2>1, <2>8, <2>9, <2>12 DEF TurnInv, ReplyInv
  <2> QED BY <2>10, <2>11, <2>13 DEF TurnInv
<1>5. CASE ReadAnswer
  <2>1. /\ pc = "calling" /\ phase = "answered" /\ pc' = "compose"
        /\ mode' = mode /\ checked' = checked /\ prose' = prose
        /\ decision' = decision /\ found' = found /\ reply' = reply
        /\ shown' = shown /\ record' = record /\ terminal' = terminal
        /\ action' = action /\ phase' = phase
    BY <1>5 DEF ReadAnswer, form, ivars
  <2>2. FormTypeOK'
    BY <2>1 DEF TurnInv, FormTypeOK, Stage
  <2> QED BY <2>1, <2>2 DEF TurnInv, RecordInv, FitInv, CallPcInv, ReplyInv
<1> QED BY <1>1, <1>2, <1>3, <1>4, <1>5

\* The steps that write the answer and end the turn.
LEMMA EndingStep ==
  ASSUME TurnInv, CallInv, WritePiece \/ Compose \/ FinishTurn \/ Disconnect
  PROVE  TurnInv'
<1>1. CASE WritePiece
  <2>1. /\ pc = "compose" /\ pc' = pc /\ shown' = TRUE
        /\ mode' = mode /\ checked' = checked /\ prose' = prose
        /\ decision' = decision /\ found' = found /\ reply' = reply
        /\ record' = record /\ terminal' = terminal
        /\ action' = action /\ phase' = phase
    BY <1>1 DEF WritePiece, form, ivars
  <2>2. FormTypeOK'
    BY <2>1 DEF TurnInv, FormTypeOK
  <2> QED BY <2>1, <2>2 DEF TurnInv, RecordInv, FitInv, CallPcInv, ReplyInv
<1>2. CASE Compose
  <2>1. pc = "compose"
    BY <1>2 DEF Compose
  <2>2. CASE Break
    BY <2>1, <2>2, BreakStep
  <2>3. CASE ~Break
    <3>1. /\ pc' = "finish"
          /\ reply' = Plainly("answered", "none", "confirmation", FALSE)
          /\ mode' = mode /\ checked' = checked /\ prose' = prose
          /\ decision' = decision /\ found' = found
          /\ shown' = shown /\ record' = record /\ terminal' = terminal
          /\ action' = action /\ phase' = phase /\ acted' = acted
      BY <1>2, <2>3 DEF Compose, Settle, form, ivars
    <3>2. /\ reply' \in Reply /\ reply'.status = "answered"
          /\ ~reply'.handed
      BY <3>1, FixedReplies, FixedStatuses
    <3>3. phase = "answered" /\ acted # {} /\ decision = "proceed"
      BY <2>1 DEF TurnInv, CallPcInv, FitInv, CallInv, ReportsTheLastAttempt
    <3>4. SaysHowTheCallEnded(reply)' /\ Judged(reply)'
      BY <3>1, <3>2, <3>3 DEF SaysHowTheCallEnded, Judged
    <3>5. FormTypeOK'
      BY <3>1, <3>2 DEF TurnInv, FormTypeOK, Stage
    <3>6. RecordInv' /\ FitInv' /\ CallPcInv'
      BY <2>1, <3>1, <3>3 DEF TurnInv, RecordInv, FitInv, CallPcInv
    <3>7. ReplyInv'
      BY <2>1, <3>1, <3>2, <3>4 DEF TurnInv, ReplyInv, TurnStatus
    <3> QED BY <3>5, <3>6, <3>7 DEF TurnInv
  <2> QED BY <2>2, <2>3
<1>3. CASE FinishTurn
  <2>1. pc = "finish"
    BY <1>3 DEF FinishTurn
  <2>2. CASE Break
    BY <2>1, <2>2, BreakStep
  <2>3. CASE ~Break
    <3>1. /\ pc' = "ended" /\ record' = reply.status /\ terminal' = reply
          /\ mode' = mode /\ checked' = checked /\ prose' = prose
          /\ decision' = decision /\ found' = found /\ reply' = reply
          /\ shown' = shown /\ action' = action /\ phase' = phase
          /\ posts' = posts /\ outcomes' = outcomes /\ acted' = acted
      BY <1>3, <2>3 DEF FinishTurn, form, ivars
    <3>2. reply.status \in TurnStatus /\ SaysHowTheCallEnded(reply)
      BY <2>1 DEF TurnInv, ReplyInv
    <3>3. SaysHowTheCallEnded(terminal)'
      BY <3>1, <3>2 DEF SaysHowTheCallEnded, Attempt
    <3>4. FormTypeOK'
      BY <3>1, <3>2 DEF TurnInv, FormTypeOK, Stage
    <3>5. RecordInv' /\ FitInv' /\ CallPcInv'
      BY <2>1, <3>1, <3>2 DEF TurnInv, RecordInv, FitInv, CallPcInv, TurnStatus
    <3>6. ReplyInv'
      BY <3>1, <3>2, <3>3 DEF ReplyInv
    <3> QED BY <3>4, <3>5, <3>6 DEF TurnInv
  <2> QED BY <2>2, <2>3
<1>4. CASE Disconnect
  <2>1. /\ pc \notin {"ended", "dropped"} /\ pc' = "dropped"
        /\ mode' = mode /\ checked' = checked /\ prose' = prose
        /\ decision' = decision /\ found' = found /\ reply' = reply
        /\ shown' = shown /\ record' = record /\ terminal' = terminal
        /\ action' = action
        /\ pc = "calling" => phase' = "cancelled" /\ phase # "idle"
        /\ pc # "calling" => phase' = phase
    BY <1>4 DEF Disconnect, Cancel, form, ivars
  <2>2. FormTypeOK'
    BY <2>1 DEF TurnInv, FormTypeOK, Stage
  <2>3. RecordInv' /\ FitInv' /\ ReplyInv'
    BY <2>1 DEF TurnInv, RecordInv, FitInv, ReplyInv
  <2>4. CallPcInv'
    BY <2>1 DEF TurnInv, CallPcInv, FormTypeOK, Stage
  <2> QED BY <2>2, <2>3, <2>4 DEF TurnInv
<1> QED BY <1>1, <1>2, <1>3, <1>4

LEMMA FormInvStep == FormInv /\ [Next]_vars => FormInv'
<1> SUFFICES ASSUME FormInv, [Next]_vars PROVE FormInv'
  OBVIOUS
<1>1. TurnInv /\ CallInv
  BY DEF FormInv, TurnInv
<1>2. CallInv'
  BY <1>1, CallStep, CallInvStep
<1>3. TurnInv'
  <2>1. CASE UNCHANGED vars
    BY <1>1, <2>1
       DEF vars, fvars, form, ivars, TurnInv, FormTypeOK, RecordInv, FitInv,
           CallPcInv, ReplyInv, SaysHowTheCallEnded, Judged, Attempt
  <2>2. CASE Next
    BY <1>1, <2>2, EarlyStep, CallingStep, EndingStep DEF Next, Advance
  <2> QED BY <2>1, <2>2
<1> QED BY <1>2, <1>3 DEF FormInv, TurnInv

-----------------------------------------------------------------------------
\* The theorems.

\* The invariant the others follow from holds of every form turn.
THEOREM FormInvariance == Spec => []FormInv
BY FormInvInit, FormInvStep, PTL DEF Spec

\* Every variable of the turn keeps its type.
THEOREM FormTypeCorrect == Spec => []FormTypeOK
<1>1. FormInv => FormTypeOK
  BY DEF FormInv
<1> QED BY <1>1, FormInvariance, PTL

\* A form reaches a provider only known, valid, cleared, on record and for a
\* scheme that provider serves.
THEOREM OnlyFitFormsAreSent == Spec => []SentOnlyWhenFit
<1>1. FormInv => SentOnlyWhenFit
  BY DEF FormInv, SentOnlyWhenFit, CallInv, HistoryInv, FitInv
<1> QED BY <1>1, FormInvariance, PTL

\* What the farmer is told of the call is how the call ended.
THEOREM CallToldTruly == Spec => []ToldHowTheCallEnded
<1>1. FormInv => ToldHowTheCallEnded
  BY NoReplyFacts DEF FormInv, ToldHowTheCallEnded, ReplyInv, TurnStatus
<1> QED BY <1>1, FormInvariance, PTL

\* Nothing is sent to a provider in the name of a turn that is over.
THEOREM NothingSentLater == Spec => NothingSentAfterTheEnd
<1>1. FormInv /\ [Next]_vars =>
        [posts' # posts => pc \notin {"ended", "dropped"}]_vars
  <2> SUFFICES ASSUME FormInv, Next, posts' # posts
               PROVE  pc \notin {"ended", "dropped"}
    BY DEF vars, ivars
  <2>1. AdapterStep
    BY DEF Next, Advance, ivars, Start, Redact, OpenRecord, CheckForm,
           Moderate, Discover, CallProvider, Call, HandBackFailedCall,
           ReadAnswer, WritePiece, Compose, FinishTurn, ProviderStep, Provider,
           ProviderActs, MessageLost, Disconnect, Cancel, Break
  <2>2. phase = "ready"
    BY <2>1 DEF AdapterStep, Adapter, Post, Answered, Unreadable, Returns,
                Rejected, Fails, TransportError, BackOff
  <2> QED BY <2>2 DEF FormInv, CallPcInv
<1> QED BY <1>1, FormInvariance, PTL DEF Spec, NothingSentAfterTheEnd

LEMMA FormContractInit == Init => Contract!CInit
BY DEF Init, InvocationInit, Contract!CInit, Wire, Gate, NoReply, Plainly

LEMMA FormBreakBreaks ==
  ASSUME Break, pc \notin {"start", "ended", "dropped"}
  PROVE  Contract!Break
BY NoReplyFacts DEF Break, form, ivars, Contract!Break, Wire, Gate

LEMMA FormContractStep ==
  FormInv /\ [Next]_vars => [Contract!CNext]_(Contract!cvars)
<1> SUFFICES ASSUME FormInv, [Next]_vars
             PROVE  Contract!CNext \/ UNCHANGED Contract!cvars
  OBVIOUS
<1> USE DEF Contract!cvars, Wire, Gate
<1>1. CASE Start
  BY <1>1 DEF Start, form, ivars, Contract!CNext, Contract!Begin
<1>2. CASE Redact
  BY <1>2 DEF Redact, form, ivars
<1>3. CASE OpenRecord
  BY <1>3, FormBreakBreaks
     DEF OpenRecord, form, ivars, Contract!CNext, Contract!OpenRecord, FormInv,
         RecordInv
<1>4. CASE CheckForm
  BY <1>4 DEF CheckForm, Settle, form, ivars
<1>5. CASE Moderate
  <2>1. record = "opened" /\ decision = "unset" /\ decision' \in Verdict
    BY <1>5 DEF Moderate, FormInv, RecordInv, FitInv, Verdict
  <2>2. Gate' \in {"cleared", "held"} /\ Gate = "pending"
    BY <2>1 DEF Verdict
  <2>3. Contract!Judge
    BY <1>5, <2>1, <2>2 DEF Moderate, Settle, ivars, Contract!Judge
  <2> QED BY <2>3 DEF Contract!CNext
<1>6. CASE Discover
  BY <1>6, FormBreakBreaks DEF Discover, Settle, ivars, Contract!CNext
<1>7. CASE CallProvider
  BY <1>7 DEF CallProvider, Call, form
<1>8. CASE AdapterStep
  <2>1. UNCHANGED <<Wire, Gate, record, terminal>>
    BY <1>8 DEF AdapterStep, fvars, form
  <2>2. CASE posts' = posts
    BY <2>1, <2>2
  <2>3. CASE posts' # posts
    <3>1. phase = "ready" /\ posts' = Append(posts, minted')
      BY <1>8, <2>3 DEF AdapterStep, Adapter, Post, Answered, Unreadable,
                        Returns, Rejected, Fails, TransportError, BackOff
    <3>2. pc = "calling" /\ decision = "proceed"
      BY <3>1 DEF FormInv, CallPcInv, FitInv, FormTypeOK, Stage
    <3>3. posts' # <<>>
      <4>1. posts \in Seq(Nat \ {0})
        BY DEF FormInv, CallInv, InvocationTypeOK
      <4>2. minted' \in Nat \ {0}
        BY CallStep, CallInvStep, <3>1
           DEF FormInv, CallInv, InvocationTypeOK
      <4> QED BY <3>1, <4>1, <4>2
    <3>4. Contract!CallProvider
      BY <2>1, <3>2, <3>3 DEF Contract!CallProvider
    <3> QED BY <3>4 DEF Contract!CNext
  <2> QED BY <2>2, <2>3
<1>9. CASE HandBackFailedCall
  BY <1>9 DEF HandBackFailedCall, Settle, form, ivars
<1>10. CASE ReadAnswer
  BY <1>10 DEF ReadAnswer, form, ivars
<1>11. CASE WritePiece
  BY <1>11 DEF WritePiece, form, ivars
<1>12. CASE Compose
  BY <1>12, FormBreakBreaks DEF Compose, Settle, form, ivars, Contract!CNext
<1>13. CASE FinishTurn
  <2>1. CASE Break
    BY <1>13, <2>1, FormBreakBreaks DEF FinishTurn, Contract!CNext
  <2>2. CASE ~Break
    <3>1. /\ pc = "finish" /\ pc' = "ended" /\ record' = reply.status
          /\ terminal' = reply /\ decision' = decision /\ posts' = posts
      BY <1>13, <2>2 DEF FinishTurn, form, ivars
    <3>2. reply.status \in TurnStatus /\ Judged(reply) /\ record = "opened"
      BY <3>1 DEF FormInv, ReplyInv, RecordInv
    <3>3. Contract!Finish(reply.status)
      BY <3>1, <3>2 DEF Contract!Finish, Contract!FromNetwork, Judged
    <3> QED
      BY <3>2, <3>3 DEF Contract!CNext, Contract!TurnStatus, TurnStatus
  <2> QED BY <2>1, <2>2
<1>14. CASE ProviderStep
  BY <1>14 DEF ProviderStep, Provider, ProviderActs, MessageLost, fvars, form
<1>15. CASE Disconnect
  BY <1>15 DEF Disconnect, Cancel, form, ivars, Contract!CNext, Contract!Drop
<1>16. CASE UNCHANGED vars
  BY <1>16 DEF vars, fvars, form, ivars
<1> QED
  BY <1>1, <1>2, <1>3, <1>4, <1>5, <1>6, <1>7, <1>8, <1>9, <1>10, <1>11, <1>12,
     <1>13, <1>14, <1>15, <1>16 DEF Next, Advance

\* Judged before its values leave, recorded before the caller is told, ended
\* once: every form turn keeps the contract.
THEOREM FormTurnKeepsContract == Spec => KeepsContract
<1>1. FormInv /\ [Next]_vars => [Contract!CNext]_(Contract!cvars)
  BY FormContractStep
<1> QED
  BY <1>1, FormContractInit, FormInvariance, PTL
  DEF Spec, KeepsContract, Contract!CSpec
=============================================================================
