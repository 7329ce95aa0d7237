------------------------------- MODULE MCWords -------------------------------
\* The farmer's words on their way in and out. A behaviour is one of six: a
\* request that is admitted (MCAdmission), two texts redacted by two
\* identifiers, a question moderated (MCModeration), the places of its asks
\* (MCPlaces), every answer of up to three phrases cut into pieces of up to
\* three symbols, or a turn that is translated (MCTranslation).
EXTENDS Redaction, AnswerText, MCPlaces, MCAdmission, MCModeration, MCTranslation

CONSTANTS phone, card, nine, five, one, two, phone1, card1, w, mobile

span(s, e, entity, value) ==
  [start |-> s, end |-> e, entity |-> entity, value |-> value]
\* Overlapping spans of equal and of different lengths, a value met twice, and
\* one span that lies outside its text.
MCSpans == {<<>>,
  <<span(0, 2, phone, nine), span(2, 4, phone, five)>>,
  <<span(1, 3, card, five)>>,
  <<span(0, 3, phone, five)>>,
  <<span(2, 6, phone, nine)>>}
MCReports == {<<a, b>> : a, b \in [1 .. 2 -> MCSpans]}

Phrases == {<<w>>, <<"[", one, "]">>, <<" ", "[", two, "]">>, <<"[", one>>, <<"[", one, two, "]">>,
            <<"newline", "newline">>, <<" ">>, <<"newline">>,
            <<"<<", phone1, ">>">>, <<"<<", card1, ">>">>, <<"<<", w>>}
MCDrafts == {FlattenSeq(p) : p \in UNION {[1 .. n -> Phrases] : n \in 0 .. 3}}
MCKnown  == {<<one>>, <<two>>}
MCNumeral == <<one, two>>
MCValue  == [t \in {phone1} |-> mobile]
MCQuestion == <<"newline", "newline", w>>

AdmissionIdle ==
  /\ sent = Request0 /\ gate = "done" /\ got = 0 /\ held = 0 /\ owed = 0
  /\ problem = Absent /\ input = Absent /\ before = <<>>
RedactionIdle ==
  reports = <<>> /\ reading = {} /\ failed = {} /\ came = <<>> /\ redacted = NotYet
ModerationIdle ==
  /\ pack = Unset /\ question = Unset /\ query = Unset /\ warnings = <<>>
  /\ checked = 0 /\ model = Unset /\ decision = Unset
PlacesIdle ==
  /\ location = None /\ heard = <<>> /\ asks = <<>> /\ places = <<>> /\ lent = 0
  /\ picked = None /\ unanswered = FALSE /\ turns = 0
AnswerIdle ==
  /\ draft = <<>> /\ answer = <<>> /\ shown = <<>> /\ tail = <<>>
  /\ cites = [held |-> <<>>, cited |-> <<>>]
  /\ numbers = cites /\ over = FALSE
  /\ read = [ended |-> <<>>, current |-> <<>>]
TranslationIdle ==
  /\ farmer = Lost /\ core = Lost /\ reply = Lost /\ rendered = <<>>
  /\ piece = 0 /\ wire = <<>> /\ fate = Lost

WordsInit ==
  \/ AdmissionInit /\ RedactionIdle /\ ModerationIdle /\ PlacesIdle /\ AnswerIdle /\ TranslationIdle
  \/ AdmissionIdle /\ RedactionInit /\ ModerationIdle /\ PlacesIdle /\ AnswerIdle /\ TranslationIdle
  \/ AdmissionIdle /\ RedactionIdle /\ ModerationInit /\ PlacesIdle /\ AnswerIdle /\ TranslationIdle
  \/ AdmissionIdle /\ RedactionIdle /\ ModerationIdle /\ Init /\ AnswerIdle /\ TranslationIdle
  \/ AdmissionIdle /\ RedactionIdle /\ ModerationIdle /\ PlacesIdle /\ AnswerInit /\ TranslationIdle
  \/ AdmissionIdle /\ RedactionIdle /\ ModerationIdle /\ PlacesIdle /\ AnswerIdle /\ TranslationInit

\* The empty draft is an answer that is being written only where no other is.
Answering ==
  /\ AdmissionIdle /\ reports = <<>> /\ pack = Unset
  /\ location = None /\ farmer = Lost

WordsNext ==
  \/ gate # "done" /\ AdmissionNext /\ UNCHANGED <<rvars, mvars, vars, avars, tvars>>
  \/ reports # <<>> /\ RedactionNext /\ UNCHANGED <<dvars, mvars, vars, avars, tvars>>
  \/ pack # Unset /\ ModerationNext /\ UNCHANGED <<dvars, rvars, vars, avars, tvars>>
  \/ location # None /\ Next /\ UNCHANGED <<dvars, rvars, mvars, avars, tvars>>
  \/ Answering /\ AnswerNext /\ UNCHANGED <<dvars, rvars, mvars, vars, tvars>>
  \/ farmer # Lost /\ TranslationNext /\ UNCHANGED <<dvars, rvars, mvars, vars, avars>>
WordsSpec == WordsInit /\ [][WordsNext]_<<dvars, rvars, mvars, vars, avars, tvars>>
=============================================================================
