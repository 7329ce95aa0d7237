----------------------------- MODULE Translation -----------------------------
(***************************************************************************)
(* The language a turn is served in: the farmer's texts translated in one   *)
(* batch, each under the language the core speaks (core/translation); the   *)
(* replies the DSS writes itself rendered in that language, a model call    *)
(* each and all at once (core/channel/localize), on the closest prompt the  *)
(* registry has (config/prompt_service); and the answer translated back as  *)
(* it is streamed, block after block (orchestration/translation). A form's  *)
(* turn is rendered only.                                                   *)
(*                                                                          *)
(* A text is a model value, and what is made of it is the text and the tag  *)
(* it is in. A tag is the sequence of its subtags. The models are external: *)
(* a batch may come back one short or one over, a stream may end early.     *)
(***************************************************************************)
EXTENDS Integers, FiniteSets, SequencesExt, Lists

CONSTANTS
  Words,      \* the texts with something in them
  Spaces,     \* the blank ones, Empty the one with nothing at all
  Empty,
  Tongues,    \* the tags a farmer may send
  Singletons, \* the subtags of one letter
  English,    \* the tag of the language every prompt has
  Routes,     \* the languages that are translated, and the tag each becomes
  Prompts,    \* the tags the localizer has a prompt of its own for
  Broken,     \* those of them that fail to render
  TurnTexts,      \* the texts of a turn, the question first
  Answers,    \* what the core may say, as sequences of blocks
  Lost        \* model value: no route, no prompt, or a call that failed

Block == [type : {"text", "refusal", "form", "form_error"},
          texts : Seq(Words \cup Spaces), own : BOOLEAN]

IsTag(tag) == tag \in Seq(ToSet(tag)) /\ tag # <<>>

ASSUME TranslationAssumption ==
  /\ Empty \in Spaces /\ Words \cap Spaces = {}
  /\ \A tag \in Tongues \cup Prompts : IsTag(tag)
  /\ Len(English) = 1 /\ English[1] \notin Singletons
  /\ English \in Prompts /\ English \notin Broken
  /\ \A from \in DOMAIN Routes : IsTag(Routes[from]) /\ Routes[from][1] \notin DOMAIN Routes
  /\ TurnTexts \subseteq Seq(Words \cup Spaces)
  /\ Answers \subseteq Seq(Block) /\ Lost \notin Answers
  /\ \A answer \in Answers : \A i \in DOMAIN answer :
       answer[i].type \in {"text", "refusal"} => Len(answer[i].texts) = 1

VARIABLES
  farmer,  \* the farmer's turn: its texts, its tag, whether it is a form's
  core,    \* the texts the core runs on, Lost while they are not in
  reply,   \* the blocks the core answers with, Lost before it does
  rendered,\* the texts of the reply rendered so far, by block and place
  piece,   \* how many pieces of the block's translation have come
  wire,    \* what the edge is given, in order
  fate     \* "running", "finished" or "failed"

tvars == <<farmer, core, reply, rendered, piece, wire, fate>>

In(text, tag) == [text |-> text, tag |-> tag, by |-> Lost]

TranslationInit ==
  /\ farmer \in [texts : TurnTexts, tag : Tongues, form : BOOLEAN]
  /\ core = Lost /\ reply = Lost /\ rendered = <<>>
  /\ piece = 0 /\ wire = <<>> /\ fate = "running"

-----------------------------------------------------------------------------
\* Language tags.

\* lookup_order: the tag, then each shorter form that ends on no singleton.
Forms(tag) ==
  {tag} \cup {SubSeq(tag, 1, n) : n \in {m \in 1 .. Len(tag) - 1 : tag[m] \notin Singletons}}

IsWithin(tag, broader) == broader \in Forms(tag)

\* Mutant of Closest: a tag with no prompt of its own has the English one.
ExactOnly(tag) == IF tag \in Prompts THEN tag ELSE English

\* PromptService._resolve
Closest(tag) ==
  LET has == Forms(tag) \cap Prompts
  IN  IF has = {} THEN English ELSE CHOOSE t \in has : \A u \in has : Len(u) <= Len(t)

\* get_prompt: an override that fails to render is replaced by English.
PromptFor(tag) == IF Closest(tag) \in Broken THEN English ELSE Closest(tag)

\* for_turn: by the language alone.
Route == IF ~farmer.form /\ farmer.tag[1] \in DOMAIN Routes
         THEN Routes[farmer.tag[1]] ELSE Lost
CoreTag == IF Route = Lost THEN farmer.tag ELSE Route

-----------------------------------------------------------------------------
\* In.

IsBlank(text) == text \in Spaces
ToSend == Keep(farmer.texts, ToSet(farmer.texts) \ Spaces)

\* What a batch may come back as: whole, one short, one over.
Replies(batch) ==
  LET whole == [i \in DOMAIN batch |-> In(batch[i], Route)]
  IN  {whole} \cup {RemoveAt(whole, i) : i \in DOMAIN whole}
              \cup {InsertAt(whole, i, In(Empty, Route)) : i \in DOMAIN whole}

\* _translate_each: the texts that were sent take the results in order.
InOrder(texts, results) ==
  [i \in DOMAIN texts |->
     IF IsBlank(texts[i]) THEN texts[i]
     ELSE results[Cardinality({j \in 1 .. i : ~IsBlank(texts[j])})]]

\* Mutant of Fits: results beyond the texts are let go.
FitsOrMore(batch, results) == Len(results) >= Len(batch)

Fits(batch, results) == Len(results) = Len(batch)

TranslateIn ==
  /\ core = Lost /\ fate = "running"
  /\ IF Route = Lost \/ ToSend = <<>> THEN core' = farmer.texts /\ UNCHANGED fate
     ELSE \/ \E results \in Replies(ToSend) :
               IF Fits(ToSend, results)
               THEN core' = InOrder(farmer.texts, results) /\ UNCHANGED fate
               ELSE fate' = "failed" /\ UNCHANGED core
          \/ fate' = "failed" /\ UNCHANGED core
  /\ UNCHANGED <<farmer, reply, rendered, piece, wire>>

\* The core answers: the model in the core's tongue, the DSS in English.
Answer ==
  /\ core # Lost /\ reply = Lost
  /\ reply' \in {a \in Answers :
                   farmer.form \/ \A i \in DOMAIN a : a[i].type # "form_error"}
  /\ rendered' = [i \in DOMAIN reply' |-> [j \in DOMAIN reply'[i].texts |-> Lost]]
  /\ UNCHANGED <<farmer, core, piece, wire, fate>>

-----------------------------------------------------------------------------
\* The DSS's own words.

\* localize: English and blank texts are left alone, and so is one the model
\* failed on or rendered as nothing.
Localized(text) ==
  IF IsWithin(CoreTag, English) \/ IsBlank(text) THEN {In(text, English)}
  ELSE {[In(text, CoreTag) EXCEPT !.by = PromptFor(CoreTag)], In(text, English)}

Unrendered ==
  UNION {{<<i, j>> : j \in {k \in DOMAIN rendered[i] : rendered[i][k] = Lost}} :
           i \in DOMAIN rendered}

\* One call of _each_concurrently comes back.
Render(i, j) ==
  /\ <<i, j>> \in Unrendered
  /\ \E text \in IF reply[i].own THEN Localized(reply[i].texts[j])
                 ELSE {In(reply[i].texts[j], CoreTag)} :
       rendered' = [rendered EXCEPT ![i][j] = text]
  /\ UNCHANGED <<farmer, core, reply, piece, wire, fate>>

-----------------------------------------------------------------------------
\* Out.

Claims == Keep(wire, {event \in ToSet(wire) : event.kind = "claim"})
Ready == reply # Lost /\ Unrendered = {} /\ fate = "running"
NextBlock == reply[Len(Claims) + 1]
Speaks(block) == block.type \in {"text", "refusal"}
Uttered == rendered[Len(Claims) + 1][1]

\* The pieces since the last claim (AnswerStream.written).
LastClaim(events) ==
  LET claims == {i \in DOMAIN events : events[i].kind = "claim"}
  IN  IF claims = {} THEN 0 ELSE CHOOSE i \in claims : \A j \in claims : j <= i
Written == SubSeq(wire, LastClaim(wire) + 1, Len(wire))

\* What the stream of a text is: two pieces of its translation, or the blank.
Pieces == IF Uttered.text = Empty THEN <<>>
          ELSE IF IsBlank(Uttered.text) THEN <<[of |-> Uttered, into |-> Lost, part |-> 1]>>
          ELSE [n \in 1 .. 2 |-> [of |-> Uttered, into |-> farmer.tag, part |-> n]]

Streaming == Ready /\ Route # Lost /\ Len(Claims) < Len(reply) /\ Speaks(NextBlock)

StreamPiece ==
  /\ Streaming /\ piece < Len(Pieces)
  /\ piece' = piece + 1
  /\ wire' = Append(wire, [kind |-> "piece", is |-> Pieces[piece']])
  /\ UNCHANGED <<farmer, core, reply, rendered, fate>>

\* AnswerStream.claim: the block with the text its pieces wrote.
Claim(texts) ==
  /\ wire' = Append(wire, [kind |-> "claim", type |-> NextBlock.type, texts |-> texts])
  /\ piece' = 0
  /\ UNCHANGED <<farmer, core, reply, rendered, fate>>

ClaimSpoken ==
  /\ Streaming /\ piece = Len(Pieces)
  /\ Claim([k \in DOMAIN Written |-> Written[k].is])

\* add_block, and every block of a turn that is not translated.
ClaimAsItIs ==
  /\ Ready /\ Len(Claims) < Len(reply) /\ (Route = Lost \/ ~Speaks(NextBlock))
  /\ Claim(rendered[Len(Claims) + 1])

\* A stream that raises costs the turn.
StreamBreaks ==
  /\ Streaming /\ ~IsBlank(Uttered.text)
  /\ fate' = "failed"
  /\ UNCHANGED <<farmer, core, reply, rendered, piece, wire>>

EndTurn ==
  /\ Ready /\ Len(Claims) = Len(reply)
  /\ fate' = "finished"
  /\ UNCHANGED <<farmer, core, reply, rendered, piece, wire>>

TranslationNext ==
  \/ TranslateIn \/ Answer \/ EndTurn
  \/ \E c \in Unrendered : Render(c[1], c[2])
  \/ StreamPiece \/ ClaimSpoken \/ ClaimAsItIs \/ StreamBreaks

TranslationSpec == TranslationInit /\ [][TranslationNext]_tvars

-----------------------------------------------------------------------------
\* The properties.

Spoken(n) == Claims[n].texts

\* Whatever a translator drops or adds, no text stands where another did: the
\* core runs on each text of the turn translated, or blank as it was, in its
\* own place; every block is claimed once, in its own place and as what it
\* is, with its own words, whole and in order, in the farmer's tongue where
\* the turn is translated; and a turn that finishes has said them all
\* (_translate_each, translate_out, localize_answer).
EachTextInItsPlace ==
  /\ core # Lost =>
       /\ Len(core) = Len(farmer.texts)
       /\ \A i \in DOMAIN core :
            core[i] = IF Route = Lost \/ IsBlank(farmer.texts[i]) THEN farmer.texts[i]
                      ELSE In(farmer.texts[i], Route)
  /\ \A n \in DOMAIN Claims :
       /\ Claims[n].type = reply[n].type
       /\ IF Route = Lost \/ ~Speaks(reply[n])
          THEN \A j \in DOMAIN reply[n].texts : Spoken(n)[j].text = reply[n].texts[j]
          ELSE \A k \in DOMAIN Spoken(n) :
                 /\ Spoken(n)[k].of.text = reply[n].texts[1] /\ Spoken(n)[k].part = k
                 /\ ~IsBlank(reply[n].texts[1]) =>
                      Len(Spoken(n)) = 2 /\ Spoken(n)[k].into = farmer.tag
  /\ fate = "finished" => Len(Claims) = Len(reply)

\* A region or a script never costs a farmer their language: what the DSS says
\* of its own accord is rendered by a prompt of that language where there is
\* one that works, never by another's, and English is nobody's rendering
\* (_resolve, get_prompt, lookup_order).
RenderedInTheirLanguage ==
  \A i \in DOMAIN rendered : \A j \in DOMAIN rendered[i] :
    LET by == IF rendered[i][j] = Lost THEN Lost ELSE rendered[i][j].by
    IN  by # Lost =>
          /\ CoreTag[1] # English[1] /\ rendered[i][j].tag = CoreTag
          /\ IsPrefix(by, CoreTag) \/ by = English
          /\ by = English => ~\E tag \in Prompts \ Broken :
                 /\ IsPrefix(tag, CoreTag) /\ tag[Len(tag)] \notin Singletons
                 /\ \A longer \in Prompts : IsPrefix(longer, CoreTag) => Len(longer) <= Len(tag)
=============================================================================
