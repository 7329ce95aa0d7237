---------------------------- MODULE TurnContract ----------------------------
(***************************************************************************)
(* What POST /v1/turns promises, whichever path serves the turn.           *)
(*                                                                         *)
(* A turn is opened on the wire, recorded as opened, judged, and ended     *)
(* once.  It reports what a provider said, or that a provider could not be *)
(* reached, only when it was cleared; and what it ends with is what the    *)
(* audit record was closed with, unless the turn broke, in which case the  *)
(* caller is told of an internal failure and the record stays open.        *)
(*                                                                         *)
(* TextTurn and FormTurn are both shown to implement this module.          *)
(***************************************************************************)

VARIABLES
  wire,      \* "idle" | "open" | "ended" | "dropped" (the caller went away)
  outcome,   \* what the caller was told, "none" until the turn ended
  record,    \* "absent" | "opened" | the status the record was closed with
  gate,      \* moderation's verdict on the turn
  called     \* has a provider been called for this turn?

cvars == <<wire, outcome, record, gate, called>>

\* core/shared: TurnStatus.
TurnStatus == {"answered", "partially_answered", "rejected", "no_match",
               "requires_input", "unavailable"}

\* Statuses that speak of what the network said.
FromNetwork == {"answered", "partially_answered", "unavailable"}

CTypeOK ==
  /\ wire \in {"idle", "open", "ended", "dropped"}
  /\ outcome \in TurnStatus \cup {"none", "internal"}
  /\ record \in TurnStatus \cup {"absent", "opened"}
  /\ gate \in {"pending", "cleared", "held"}
  /\ called \in BOOLEAN

CInit ==
  /\ wire = "idle"
  /\ outcome = "none"
  /\ record = "absent"
  /\ gate = "pending"
  /\ called = FALSE

Begin ==
  /\ wire = "idle"
  /\ wire' = "open"
  /\ UNCHANGED <<outcome, record, gate, called>>

OpenRecord ==
  /\ wire = "open"
  /\ record = "absent"
  /\ record' = "opened"
  /\ UNCHANGED <<wire, outcome, gate, called>>

Judge ==
  /\ wire = "open"
  /\ record = "opened"
  /\ gate = "pending"
  /\ gate' \in {"cleared", "held"}
  /\ UNCHANGED <<wire, outcome, record, called>>

CallProvider ==
  /\ wire = "open"
  /\ gate = "cleared"
  /\ called' = TRUE
  /\ UNCHANGED <<wire, outcome, record, gate>>

Finish(status) ==
  /\ wire = "open"
  /\ record = "opened"
  /\ status \in FromNetwork => gate = "cleared"
  /\ status = "rejected" => gate = "held"
  /\ record' = status
  /\ outcome' = status
  /\ wire' = "ended"
  /\ UNCHANGED <<gate, called>>

\* The turn raised: the caller is told, the record is left as it was.
Break ==
  /\ wire = "open"
  /\ wire' = "ended"
  /\ outcome' = "internal"
  /\ UNCHANGED <<record, gate, called>>

Drop ==
  /\ wire \in {"idle", "open"}
  /\ wire' = "dropped"
  /\ UNCHANGED <<outcome, record, gate, called>>

CNext ==
  \/ Begin
  \/ OpenRecord
  \/ Judge
  \/ CallProvider
  \/ \E status \in TurnStatus : Finish(status)
  \/ Break
  \/ Drop

CSpec == CInit /\ [][CNext]_cvars

-----------------------------------------------------------------------------
\* What follows from the contract alone.

\* A caller told anything but an internal failure was told what the audit
\* record says, and no provider was called for a turn moderation held back.
ToldWhatWasRecorded ==
  /\ outcome \in TurnStatus => record = outcome
  /\ record \in TurnStatus => outcome = record
  /\ called => gate = "cleared"
  /\ outcome \in FromNetwork => gate = "cleared"

=============================================================================
