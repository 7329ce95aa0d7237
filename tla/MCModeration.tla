---------------------------- MODULE MCModeration ----------------------------
\* Moderation of questions of up to three words by every pack of up to four
\* policies: two that strip words, one of them the other's too, and two the
\* model judges, open and closed.
EXTENDS Moderation

CONSTANTS damn, heck, rain, profanity, insults, delete, scope

strips(id, bad) == [id |-> id, kind |-> "words", words |-> bad]
judges(id, outcome, open) == [id |-> id, kind |-> "model", outcome |-> outcome, open |-> open]

MCVocabulary == {damn, heck, rain}
MCQuestions == UNION {[1 .. n -> MCVocabulary] : n \in 1 .. 3}
MCPolicies == {strips(profanity, {damn}), strips(insults, {damn, heck})}
  \cup {judges(delete, "reject", o) : o \in BOOLEAN}
  \cup {judges(scope, "no_match", o) : o \in BOOLEAN}
MCPolicyPacks ==
  {p \in UNION {[1 .. n -> MCPolicies] : n \in 0 .. 4} :
     \A i, j \in DOMAIN p : p[i].id = p[j].id => i = j}
=============================================================================
