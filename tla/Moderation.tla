----------------------------- MODULE Moderation -----------------------------
(***************************************************************************)
(* How a question is moderated (core/moderation): the word checks in the    *)
(* order the pack lists them, then one call of a model over all the other   *)
(* policies, and the decision, the failing model's included.                *)
(*                                                                          *)
(* A question is the sequence of its words. The model is external: it may   *)
(* name any policy, one that is not the pack's, none, or fail.              *)
(***************************************************************************)
EXTENDS Integers, FiniteSets, SequencesExt, Lists

CONSTANTS
  Vocabulary,  \* the words
  Questions,   \* what a farmer may ask
  PolicyIds,         \* the ids of policies
  DssPolicies, \* those that have a reason of their own
  Stranger,    \* an id the model may name that is no policy's
  PolicyPacks, \* the packs that may be in force
  Unset        \* model value: nothing there

Outcomes == {"proceed", "reject", "clarify", "no_match"}
Policy   ==
  [id : PolicyIds, kind : {"words"}, words : SUBSET Vocabulary \ {{}}]
  \cup [id : PolicyIds, kind : {"model"}, outcome : Outcomes, open : BOOLEAN]

ASSUME ModerationAssumption ==
  /\ {Stranger, "none", "failed", Unset} \cap PolicyIds = {}
  /\ Unset # "moderation_unavailable"
  /\ Questions \subseteq Seq(Vocabulary)
  /\ PolicyPacks \subseteq Seq(Policy)
  /\ \A policies \in PolicyPacks : \A i, j \in DOMAIN policies :
       policies[i].id = policies[j].id => i = j

VARIABLES
  pack,     \* the policies in force
  question, \* what the farmer asked
  query,    \* the question as far as it is cleaned
  warnings, \* the policies whose words were taken out
  checked,  \* how many policies the word checks have been through
  model,    \* what came of the model: an id, "none", "failed", or Unset
  decision

mvars == <<pack, question, query, warnings, checked, model, decision>>

ModerationInit ==
  /\ pack \in PolicyPacks /\ question \in Questions /\ query = question
  /\ warnings = <<>> /\ checked = 0 /\ model = Unset /\ decision = Unset

ModelPolicies == Keep(pack, {p \in ToSet(pack) : p.kind = "model"})

\* _strip_words, for one policy.
Strip(text, words) == Keep(text, Vocabulary \ words)

CheckWords ==
  /\ checked < Len(pack)
  /\ LET policy == pack[checked + 1]
         clean  == IF policy.kind = "words" THEN Strip(query, policy.words) ELSE query
     IN  /\ query' = clean
         /\ warnings' = IF clean = query THEN warnings ELSE Append(warnings, policy.id)
  /\ checked' = checked + 1
  /\ UNCHANGED <<pack, question, model, decision>>

\* The batched call, over the cleaned question.
AskModel ==
  /\ checked = Len(pack) /\ ModelPolicies # <<>> /\ model = Unset
  /\ model' \in {p.id : p \in ToSet(ModelPolicies)} \cup {Stranger, "none", "failed"}
  /\ UNCHANGED <<pack, question, query, warnings, checked, decision>>

\* ModerationDecision: what was cleaned goes with a turn that proceeds.
Proceed(clean, said) ==
  [outcome |-> "proceed", reason |-> Unset, policy |-> Unset, clean |-> clean, warned |-> said]
Stop(outcome, reason, policy) ==
  [outcome |-> outcome, reason |-> reason, policy |-> policy, clean |-> Unset, warned |-> <<>>]

\* Mutant of OnModelFailure: one policy that is open opens the call.
OnModelFailureAny ==
  IF \E p \in ToSet(ModelPolicies) : p.open THEN Proceed(Unset, <<>>)
  ELSE Stop("reject", "moderation_unavailable", Unset)

\* _on_llm_failure: open only when every policy that was asked about is.
OnModelFailure ==
  IF \A p \in ToSet(ModelPolicies) : p.open THEN Proceed(Unset, <<>>)
  ELSE Stop("reject", "moderation_unavailable", Unset)

\* _reason_for.
ReasonFor(id) == IF id \in DssPolicies THEN "role_obfuscation" ELSE "adopter_policy"

Decision ==
  IF model = "failed" THEN OnModelFailure
  ELSE IF \E p \in ToSet(ModelPolicies) : p.id = model
  THEN LET fired == CHOOSE p \in ToSet(ModelPolicies) : p.id = model
       IN  Stop(fired.outcome, ReasonFor(fired.id), fired.id)
  ELSE Proceed(IF warnings = <<>> THEN Unset ELSE query, warnings)

Decide ==
  /\ checked = Len(pack) /\ decision = Unset
  /\ ModelPolicies = <<>> \/ model # Unset
  /\ decision' = Decision
  /\ UNCHANGED <<pack, question, query, warnings, checked, model>>

ModerationNext == CheckWords \/ AskModel \/ Decide

ModerationSpec == ModerationInit /\ [][ModerationNext]_mvars

-----------------------------------------------------------------------------
\* The property.

Struck == UNION {p.words : p \in {q \in ToSet(pack) : q.kind = "words"}}

\* The policy that takes a word out: the first that lists it.
Striker(word) ==
  pack[CHOOSE i \in DOMAIN pack :
         /\ pack[i].kind = "words" /\ word \in pack[i].words
         /\ \A j \in 1 .. i - 1 : pack[j].kind = "words" => word \notin pack[j].words]

\* A policy the model says is broken ends the turn as that policy says and
\* under its name; a model that failed lets it through only where every policy
\* it was to judge is open, and is never blamed on a policy; else it proceeds,
\* without a word any policy strips, warned once for each that took one out
\* and for no other, in the pack's order (moderate, _on_llm_failure).
FailsTheWayThePolicySays ==
  decision # Unset =>
    LET judged == ToSet(ModelPolicies)
        found  == ToSet(question) \cap Struck
    IN  CASE \E p \in judged : p.id = model ->
               \E p \in judged : /\ p.id = model /\ decision.policy = p.id
                                 /\ decision.outcome = p.outcome
          [] model = "failed" ->
               /\ decision.policy = Unset
               /\ (decision.outcome = "proceed") <=> (\A p \in judged : p.open)
               /\ (decision.reason = "moderation_unavailable") <=> (\E p \in judged : ~p.open)
          [] OTHER ->
               /\ decision.outcome = "proceed"
               /\ decision.clean = IF found = {} THEN Unset ELSE Strip(question, Struck)
               /\ ToSet(decision.warned) = {Striker(word).id : word \in found}
               /\ decision.warned = Keep([i \in DOMAIN pack |-> pack[i].id],
                                         ToSet(decision.warned))
=============================================================================
