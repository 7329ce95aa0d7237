---------------------------- MODULE MCTranslation ----------------------------
\* Translation over four tags, one of them translated: a turn of up to three
\* texts with a blank among them, and the replies the core makes, a form and
\* its errors among them.
EXTENDS Translation

CONSTANTS ask, said, fact, note, blank, empty, gu, en, hi, mr, Gujr, ind, u

MCTongues == {<<gu, Gujr, ind>>, <<en, ind>>, <<hi, ind>>, <<mr, u, ind>>}
MCEnglish == <<en>>
MCRoutes == [from \in {gu} |-> <<hi, ind>>]
MCPrompts == {<<en>>, <<hi>>, <<mr>>, <<mr, u>>}
MCBroken == {<<mr>>}
MCTurnTexts == {<<ask>>, <<ask, blank, said>>, <<ask, said>>, <<blank, empty>>}

block(type, texts, own) == [type |-> type, texts |-> texts, own |-> own]
MCAnswers == {
  <<block("text", <<fact>>, FALSE), block("form", <<>>, FALSE), block("text", <<note>>, TRUE)>>,
  <<block("refusal", <<note>>, TRUE)>>,
  <<block("text", <<fact>>, FALSE), block("text", <<empty>>, FALSE), block("text", <<blank>>, FALSE)>>,
  <<block("text", <<note>>, TRUE), block("form_error", <<fact, note>>, TRUE)>>}
=============================================================================
