------------------------------ MODULE FormTurn ------------------------------
(***************************************************************************)
(* One form turn: FormPath.run (orchestration/form_path.py) from the       *)
(* values the farmer typed to the terminal frame, with the provider call   *)
(* it makes composed in: the turn starts the call and reads its end, the   *)
(* adapter and the provider take their own steps beside it.                *)
(***************************************************************************)
EXTENDS Invocation

VARIABLES
  mode,       \* "sse" | "json": the transport the caller accepted
  pc,         \* where the turn's generator stands
  checked,    \* what validate_submission and the registry made of the form
  prose,      \* did the farmer fill in a free-text field?
  decision,   \* moderation's outcome, "unset" until it is in
  found,      \* what discovery found for the form's ask
  reply,      \* the TurnFinished about to be recorded
  shown,      \* has a piece of the answer been streamed?
  record,     \* the turn sink: "absent" | "opened" | the closing status
  terminal    \* what the terminal frame said

form  == <<mode, checked, prose, decision, found>>
fvars == <<form, pc, reply, shown, record, terminal>>
vars  == <<fvars, ivars>>

Verdict   == {"proceed", "reject", "clarify", "no_match"}
\* "unfileable": a known form of no scheme or action the DSS can file.
Checked   == {"valid", "unfileable", "errors", "unknown"}
\* Providers for the ask, but none for the form's scheme: "other_scheme".
Found     == {"none", "other_scheme", "serves"}
TurnStatus == {"answered", "partially_answered", "rejected", "no_match",
               "requires_input", "unavailable"}
Cause     == {"none", "invalid_input", "provider_unavailable",
              "provider_rejected"}
\* What the words of a reply are about, as far as the properties tell apart.
Text      == {"none", "confirmation", "refusal", "unserved", "errors",
              "unknown_form", "not_filed", "not_filed_rejected",
              "status_not_checked", "status_not_found"}
\* A reply, and whether it hands the form back (a form_error block).
Reply     == [status : TurnStatus \cup {"none", "internal"}, cause : Cause,
              after : Delays \cup {NoDelay}, text : Text, handed : BOOLEAN]

Stage == {"start", "redact", "open", "checked", "moderate", "discover", "call",
          "calling", "compose", "finish", "ended", "dropped"}

Plainly(status, cause, text, handed) ==
  [status |-> status, cause |-> cause, after |-> NoDelay, text |-> text,
   handed |-> handed]

NoReply  == Plainly("none", "none", "none", FALSE)
Internal == Plainly("internal", "none", "none", FALSE)

Init ==
  /\ InvocationInit /\ action # "select"
  /\ mode \in {"sse", "json"}
  /\ pc = "start"
  /\ checked \in Checked /\ prose \in BOOLEAN
  /\ decision = "unset"
  /\ found = "none"
  /\ reply = NoReply
  /\ shown = FALSE
  /\ record = "absent"
  /\ terminal = NoReply

-----------------------------------------------------------------------------
\* Up to the call.

\* The turn raised: the router reports an internal failure.
Break ==
  /\ pc' = "ended"
  /\ terminal' = Internal
  /\ UNCHANGED <<form, reply, shown, record, ivars>>

\* Orchestrator.run: the first event, before the path runs.
Start ==
  /\ pc = "start"
  /\ pc' = "redact"
  /\ UNCHANGED <<form, reply, shown, record, terminal, ivars>>

\* Redaction never raises; it sees the free text of a valid form only.
Redact ==
  /\ pc = "redact"
  /\ pc' = "open"
  /\ UNCHANGED <<form, reply, shown, record, terminal, ivars>>

OpenRecord ==
  /\ pc = "open"
  /\ \/ /\ record' = "opened"
        /\ pc' = "checked"
        /\ UNCHANGED <<form, reply, shown, terminal, ivars>>
     \/ Break

\* The turn ends on a fixed reply, localized and then recorded.
Settle(finished) ==
  /\ reply' = finished
  /\ pc' = "finish"

\* Mutant of CheckForm: a form the DSS cannot file is sent on as a valid one.
CheckErrorsOnly ==
  /\ pc = "checked"
  /\ IF checked = "errors"
     THEN Settle(Plainly("requires_input", "invalid_input", "errors", TRUE))
     ELSE pc' = "moderate" /\ UNCHANGED reply
  /\ UNCHANGED <<form, shown, record, terminal, ivars>>

\* Bad values, an unknown form and one the DSS cannot file each end the turn
\* before moderation: a form that cannot be sent is not worth a model call.
CheckForm ==
  /\ pc = "checked"
  /\ \/ /\ checked = "errors"
        /\ Settle(Plainly("requires_input", "invalid_input", "errors", TRUE))
     \/ /\ checked \in {"unknown", "unfileable"}
        /\ Settle(Plainly("requires_input", "invalid_input", "unknown_form",
                          FALSE))
     \/ /\ checked = "valid"
        /\ pc' = "moderate"
        /\ UNCHANGED reply
  /\ UNCHANGED <<form, shown, record, terminal, ivars>>

StatusFor(verdict) ==
  CASE verdict = "reject"   -> "rejected"
    [] verdict = "clarify"  -> "requires_input"
    [] verdict = "no_match" -> "no_match"

\* With no free text there is nothing to judge: the form proceeds unseen.
Moderate ==
  /\ pc = "moderate"
  /\ decision' \in IF prose THEN Verdict ELSE {"proceed"}
  /\ IF decision' = "proceed"
     THEN pc' = "discover" /\ UNCHANGED reply
     ELSE Settle(Plainly(StatusFor(decision'), "none", "refusal", FALSE))
  /\ UNCHANGED <<mode, checked, prose, found, shown, record, terminal, ivars>>

\* candidates_for_scheme: the providers that advertise the form's scheme.
Servable(f) == f = "serves"

Discover ==
  /\ pc = "discover"
  /\ \/ /\ found' \in Found
        /\ IF Servable(found')
           THEN pc' = "call" /\ UNCHANGED reply
           ELSE Settle(Plainly("no_match", "none", "unserved", FALSE))
        /\ UNCHANGED <<mode, checked, prose, decision, shown, record, terminal,
                       ivars>>
     \/ Break

\* call_provider_action, up to its await: the form's own action, of the first
\* provider in the sender's ranking.
CallProvider ==
  /\ pc = "call"
  /\ Call
  /\ pc' = "calling"
  /\ UNCHANGED <<form, reply, shown, record, terminal>>

-----------------------------------------------------------------------------
\* From the call's end.

\* cause_for_failed_call.
CauseFor(failure) ==
  IF failure.class = "transient" THEN "provider_unavailable"
                                 ELSE "provider_rejected"

\* Mutant of NotSentText: a status check that failed reads as a filing.
AlwaysAFiling(cause) ==
  CASE cause = "provider_unavailable" -> "not_filed"
    [] cause = "provider_rejected"    -> "not_filed_rejected"

\* _NOT_SENT_TEXT, by the call and the cause.
NotSentText(cause) ==
  CASE action = "support" /\ cause = "provider_unavailable" -> "not_filed"
    [] action = "support" /\ cause = "provider_rejected" -> "not_filed_rejected"
    [] action = "status"  /\ cause = "provider_unavailable" ->
         "status_not_checked"
    [] action = "status"  /\ cause = "provider_rejected" -> "status_not_found"

\* Mutant of HandBackFailedCall: only a failure that may pass is handled.
HandBackTransient ==
  /\ pc = "calling" /\ phase = "failed"
  /\ outcomes[Attempt].class = "transient"
  /\ Settle([status |-> "unavailable", cause |-> "provider_unavailable",
             after |-> outcomes[Attempt].after,
             text |-> NotSentText("provider_unavailable"), handed |-> TRUE])
  /\ UNCHANGED <<form, shown, record, terminal, ivars>>

\* _as_failure, cause_for_failed_call and answer_for_failed_call: the farmer is
\* told which call failed, why, and the provider's own time to come back.
HandBackFailedCall ==
  /\ pc = "calling" /\ phase = "failed"
  /\ LET failure == outcomes[Attempt]
         cause   == CauseFor(failure)
     IN  Settle([status |-> "unavailable", cause |-> cause,
                 after |-> failure.after, text |-> NotSentText(cause),
                 handed |-> TRUE])
  /\ UNCHANGED <<form, shown, record, terminal, ivars>>

\* The evidence holds the form's one ask with a result: status answered.
ReadAnswer ==
  /\ pc = "calling" /\ phase = "answered"
  /\ pc' = "compose"
  /\ UNCHANGED <<form, reply, shown, record, terminal, ivars>>

\* The composer's pieces go to a streaming caller as they are written.
WritePiece ==
  /\ pc = "compose" /\ mode = "sse" /\ ~shown
  /\ shown' = TRUE
  /\ UNCHANGED <<form, pc, reply, record, terminal, ivars>>

\* A composer that fails breaks the turn, whatever the provider has done.
Compose ==
  /\ pc = "compose"
  /\ \/ /\ Settle(Plainly("answered", "none", "confirmation", FALSE))
        /\ UNCHANGED <<form, shown, record, terminal, ivars>>
     \/ Break

\* Mutant of FinishTurn: the reply goes out before it is recorded, and a
\* failed write is let pass.
FinishUnrecorded ==
  /\ pc = "finish"
  /\ pc' = "ended"
  /\ record' \in {record, reply.status}
  /\ terminal' = reply
  /\ UNCHANGED <<form, reply, shown, ivars>>

\* _record, then the terminal event: no await lies between.  A failed write
\* breaks the turn instead.
FinishTurn ==
  /\ pc = "finish"
  /\ \/ /\ pc' = "ended"
        /\ record' = reply.status
        /\ terminal' = reply
        /\ UNCHANGED <<form, reply, shown, ivars>>
     \/ Break

-----------------------------------------------------------------------------
\* Beside the turn.

AdapterStep  == Adapter /\ UNCHANGED fvars
ProviderStep == Provider /\ UNCHANGED fvars

\* Mutant of Disconnect: the cancellation does not reach the adapter's call.
DisconnectUncancelled ==
  /\ mode = "sse" /\ pc \notin {"ended", "dropped"}
  /\ pc' = "dropped"
  /\ UNCHANGED <<form, reply, shown, record, terminal, ivars>>

\* The caller of a stream goes away: the cancellation unwinds the generators
\* at the await they stand at, the adapter's included.
Disconnect ==
  /\ mode = "sse" /\ pc \notin {"ended", "dropped"}
  /\ IF pc = "calling" THEN Cancel ELSE UNCHANGED ivars
  /\ pc' = "dropped"
  /\ UNCHANGED <<form, reply, shown, record, terminal>>

Advance ==
  \/ Start \/ Redact \/ OpenRecord \/ CheckForm \/ Moderate \/ Discover
  \/ CallProvider \/ AdapterStep \/ HandBackFailedCall \/ ReadAnswer
  \/ WritePiece \/ Compose \/ FinishTurn

Next == Advance \/ ProviderStep \/ Disconnect

Spec == Init /\ [][Next]_vars

\* Every model and network call carries a timeout; the provider and the caller
\* owe nothing.
FairSpec == Spec /\ WF_vars(Advance)

-----------------------------------------------------------------------------
\* Properties.

FormTypeOK ==
  /\ mode \in {"sse", "json"} /\ pc \in Stage
  /\ checked \in Checked /\ prose \in BOOLEAN
  /\ decision \in Verdict \cup {"unset"} /\ found \in Found
  /\ reply \in Reply /\ terminal \in Reply
  /\ shown \in BOOLEAN
  /\ record \in TurnStatus \cup {"absent", "opened"}

\* The turn as the contract sees it.
Wire == CASE pc = "start"   -> "idle"
          [] pc = "ended"   -> "ended"
          [] pc = "dropped" -> "dropped"
          [] OTHER          -> "open"

Gate == CASE decision = "unset"   -> "pending"
          [] decision = "proceed" -> "cleared"
          [] OTHER                -> "held"

Contract == INSTANCE TurnContract WITH
  wire <- Wire, outcome <- terminal.status, gate <- Gate,
  called <- posts # <<>>

\* The form path keeps the contract of a turn: judged before its values leave,
\* recorded before the caller is told, ended once.
KeepsContract == Contract!CSpec

\* A form leaves the DSS only when the registry knows it, its values passed,
\* moderation cleared it, the turn is on record, and to its own scheme.
SentOnlyWhenFit ==
  posts # <<>> =>
    /\ checked = "valid" /\ decision = "proceed" /\ found = "serves"
    /\ record # "absent" /\ action # "select"

\* What a recorded reply says of the call, whatever else the turn did.
SaysHowTheCallEnded(r) ==
  /\ r.status = "answered" <=> phase = "answered"
  /\ r.status = "answered" => acted # {} /\ ~r.handed
  /\ r.status = "unavailable" <=> phase = "failed"
  /\ r.status = "unavailable" =>
       LET failure == outcomes[Attempt]
       IN  /\ r.after = failure.after
           /\ r.cause = "provider_rejected" <=> failure.class = "defect"
           /\ r.text \in {"not_filed", "not_filed_rejected"}
                <=> action = "support"
           /\ r.handed

\* A farmer is told the form was answered exactly when a provider acted on it
\* and the adapter read its answer; and that it was not sent, with the form
\* handed back, exactly when the call failed, in the words of that call and
\* that failure.
ToldHowTheCallEnded ==
  terminal.status \in TurnStatus => SaysHowTheCallEnded(terminal)

\* Once the turn is over nothing more is sent to a provider in its name, the
\* retries of a dropped call included.
NothingSentAfterTheEnd ==
  [][posts' # posts => pc \notin {"ended", "dropped"}]_vars

\* Every form turn whose caller stays is told how it ended.
EventuallyTold == <>(pc \in {"ended", "dropped"})

\* docs/DSS_ARCHITECTURE.md 435: a DSS failure does not "hide an accepted
\* Provider obligation"; a filing whose answer was read is not hidden behind
\* an internal failure.
FilingIsNotHidden ==
  action = "support" /\ phase = "answered" /\ pc = "ended" =>
    terminal.status = "answered"
=============================================================================
