----------------------------- MODULE Invocation -----------------------------
(***************************************************************************)
(* One call to a provider through the network adapter                      *)
(* (adapters/invocation/client.py): select, support or status, posted up   *)
(* to Attempts times, against a provider that may act on a message it      *)
(* never answers, or acts on late.                                         *)
(*                                                                         *)
(* The provider and the transport are external: the code sees them only    *)
(* through what one POST comes back with.                                  *)
(***************************************************************************)
EXTENDS Naturals, Sequences

CONSTANTS
  Attempts,   \* settings: attempts per call
  Delays,     \* the times a provider may ask for with Retry-After
  NoDelay     \* model value: it asked for none

ASSUME AttemptsAssumption == Attempts \in Nat \ {0}
ASSUME NoDelayAssumption == NoDelay \notin Delays

VARIABLES
  action,     \* which of the three calls this is
  phase,      \* where the adapter stands in the call
  minted,     \* message ids handed out so far; an id is its number
  posts,      \* the message id of each attempt, in order
  outcomes,   \* what each finished attempt came back with
  pending,    \* attempts the provider has yet to act on, or will not
  acted,      \* attempts the provider acted on
  waited      \* backoff slept so far, in units of backoff_seconds

ivars == <<action, phase, minted, posts, outcomes, pending, acted, waited>>

Action == {"select", "support", "status"}
Phase  == {"idle", "ready", "posted", "backoff", "answered", "failed",
           "cancelled"}

\* ProviderCallFailedError: a failure's class, and the provider's own time to
\* come back at, NoDelay when it names none.
Outcome == [class : {"ok", "transient", "defect"}, after : Delays \cup {NoDelay}]
Plain(class) == [class |-> class, after |-> NoDelay]

Attempt == Len(posts)

InvocationInit ==
  /\ action \in Action
  /\ phase = "idle"
  /\ minted = 0
  /\ posts = <<>> /\ outcomes = <<>>
  /\ pending = {} /\ acted = {}
  /\ waited = 0

\* support and status mint one message id for the whole call; select leaves
\* that to each attempt.
Call ==
  /\ phase = "idle"
  /\ phase' = "ready"
  /\ minted' = IF action = "select" THEN minted ELSE minted + 1
  /\ UNCHANGED <<action, posts, outcomes, pending, acted, waited>>

\* Mutant of Post: every attempt of every call is a message of its own.
PostFresh ==
  /\ phase = "ready"
  /\ phase' = "posted"
  /\ minted' = minted + 1
  /\ posts' = Append(posts, minted')
  /\ pending' = pending \cup {Attempt + 1}
  /\ UNCHANGED <<action, outcomes, acted, waited>>

\* _select_once, _support_once, _status_once up to the await: the request goes
\* out under the call's id, or for select under a new one.
Post ==
  /\ phase = "ready"
  /\ phase' = "posted"
  /\ minted' = IF action = "select" THEN minted + 1 ELSE minted
  /\ posts' = Append(posts, minted')
  /\ pending' = pending \cup {Attempt + 1}
  /\ UNCHANGED <<action, outcomes, acted, waited>>

\* The provider acts on a message, whether or not anyone still waits for it.
ProviderActs(n) ==
  /\ n \in pending
  /\ pending' = pending \ {n}
  /\ acted' = acted \cup {n}
  /\ UNCHANGED <<action, phase, minted, posts, outcomes, waited>>

\* A message that never got there.
MessageLost(n) ==
  /\ n \in pending
  /\ pending' = pending \ {n}
  /\ UNCHANGED <<action, phase, minted, posts, outcomes, acted, waited>>

Returns(class) ==
  /\ phase = "posted"
  /\ outcomes' = Append(outcomes, Plain(class))
  /\ UNCHANGED <<action, minted, posts, pending, acted, waited>>

\* A 2xx the action's mapper can read: the provider acted, and says so.
Answered ==
  /\ Attempt \in acted
  /\ Returns("ok")
  /\ phase' = "answered"

\* A 2xx the mapper cannot read: a defect, although the provider acted.
Unreadable ==
  /\ Attempt \in acted
  /\ Returns("defect")
  /\ phase' = "failed"

\* Mutant of RetriesAfter: the last attempt is counted from zero.
OneRetryShort(failure) ==
  /\ failure.class = "transient"
  /\ failure.after = NoDelay
  /\ Attempt < Attempts - 1

\* Mutant of RetriesAfter: a provider that names its own time is retried too.
RetriesDespiteAdvice(failure) ==
  failure.class = "transient" /\ Attempt < Attempts

\* _call_with_retries: a defect, a provider's own Retry-After and the last
\* attempt each end the call.
RetriesAfter(failure) ==
  /\ failure.class = "transient"
  /\ failure.after = NoDelay
  /\ Attempt < Attempts

\* Mutant of Fails: the last failure falls out of the loop unraised.
FailsSilently(failure) ==
  /\ phase = "posted"
  /\ outcomes' = Append(outcomes, failure)
  /\ phase' = IF RetriesAfter(failure) THEN "backoff" ELSE "fell_through"
  /\ UNCHANGED <<action, minted, posts, pending, acted, waited>>

\* One attempt failed: back off and try again, or give up.
Fails(failure) ==
  /\ phase = "posted"
  /\ outcomes' = Append(outcomes, failure)
  /\ phase' = IF RetriesAfter(failure) THEN "backoff" ELSE "failed"
  /\ UNCHANGED <<action, minted, posts, pending, acted, waited>>

\* classify_status_code: 400, 401 and 403 are defects, any other status is
\* transient.  Only support and status read the response's Retry-After.
Rejected ==
  \E class \in {"transient", "defect"}, after \in Delays \cup {NoDelay} :
    /\ action = "select" => after = NoDelay
    /\ Fails([class |-> class, after |-> after])

\* No response: the message or its answer was lost, or a timeout ran out.
TransportError == Fails(Plain("transient"))

\* The wait before the next attempt, twice the last one.
BackOff ==
  /\ phase = "backoff"
  /\ phase' = "ready"
  /\ waited' = waited + 2 ^ (Attempt - 1)
  /\ UNCHANGED <<action, minted, posts, outcomes, pending, acted>>

\* The turn was dropped: the cancellation lands on the await.
Cancel ==
  /\ phase \in {"posted", "backoff"}
  /\ phase' = "cancelled"
  /\ UNCHANGED <<action, minted, posts, outcomes, pending, acted, waited>>

\* The adapter's own steps, which its timeouts keep going.
Adapter == Post \/ Answered \/ Unreadable \/ Rejected \/ TransportError \/ BackOff

Provider == \E n \in pending : ProviderActs(n) \/ MessageLost(n)

InvocationNext == Call \/ Adapter \/ Provider \/ Cancel

InvocationSpec == InvocationInit /\ [][InvocationNext]_ivars

\* Each POST carries a timeout, so an attempt ends whatever the provider does.
FairInvocation == InvocationSpec /\ WF_ivars(Adapter)

-----------------------------------------------------------------------------
\* Properties.

\* waited, a sum of powers, is left out: no proof needs it.
InvocationTypeOK ==
  /\ action \in Action /\ phase \in Phase
  /\ minted \in Nat /\ posts \in Seq(Nat \ {0})
  /\ outcomes \in Seq(Outcome)
  /\ pending \in SUBSET (1..Attempt) /\ acted \in SUBSET (1..Attempt)

\* A filing and a status read keep one message id through every retry, so a
\* provider that refuses an id it has seen acts once at most; a select is a
\* new message each time.
OneMessagePerFiling ==
  IF action = "select"
  THEN \A m, n \in DOMAIN posts : m # n => posts[m] # posts[n]
  ELSE \A m, n \in DOMAIN posts : posts[m] = posts[n]

\* Every attempt but the last failed in a way that may pass, and named no time
\* of its own: a provider that said when to come back is not asked again.
RetriedOnlyWhenWelcome ==
  /\ Attempt <= Attempts
  /\ \A n \in DOMAIN outcomes :
       n < Attempt => outcomes[n] = Plain("transient")

\* What the caller gets is the last attempt's own outcome: an answer some
\* provider really gave, or that failure with its class and Retry-After.
ReportsTheLastAttempt ==
  /\ phase = "answered" => /\ Len(outcomes) = Attempt
                           /\ outcomes[Attempt].class = "ok"
                           /\ Attempt \in acted
  /\ phase = "failed" =>
       /\ Len(outcomes) = Attempt
       /\ outcomes[Attempt].class # "ok"
       /\ \/ Attempt = Attempts
          \/ outcomes[Attempt] # Plain("transient")

\* A call ends, unless its turn was dropped.
CallEnds ==
  (phase = "ready") ~> (phase \in {"answered", "failed", "cancelled"})
=============================================================================
