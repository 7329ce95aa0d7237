------------------------------ MODULE AnswerText ------------------------------
(***************************************************************************)
(* The composer's answer on its way to the farmer. The model cuts it        *)
(* wherever it likes, and each piece passes three filters that hold back    *)
(* an end they cannot judge yet: cite_per_paragraph moves the citations to  *)
(* the end of their paragraph, CitationNumbers numbers the cited sources as *)
(* they are first cited and drops the unknown, StreamReveal puts the        *)
(* farmer's own values in place of the tags.                                *)
(*                                                                          *)
(* A text is a sequence of symbols: the ones the filters look for, a tag's  *)
(* name and a word as one symbol each. What is seen and what a filter holds *)
(* is modelled by the pattern it matches.                                   *)
(***************************************************************************)
EXTENDS Integers, FiniteSets, SequencesExt

CONSTANTS
  Digits,   \* the digits a source id is made of
  Numeral,  \* how 1, 2, ... are written: one digit each
  Known,    \* the source ids the evidence holds, as sequences of digits
  TagNames, \* what stands between « and » in a tag
  Value,    \* the value of each held tag, by its name
  Drafts,   \* the answers the composer may write
  Question, \* the place question put after the answer, or <<>>
  MaxPiece, \* bound: the symbols of one piece
  Word      \* any other word

Blank  == {" ", "newline"}
Symbol == Digits \cup TagNames \cup {Word} \cup Blank \cup {"[", "]", "<<", ">>"}

\* The place question is the area files' names in core's own words.
ASSUME AnswerTextAssumption ==
  /\ Numeral \in Seq(Digits) /\ Known \subseteq Seq(Digits)
  /\ Cardinality(Known) <= Len(Numeral)
  /\ DOMAIN Value \subseteq TagNames
  /\ (Digits \cup TagNames \cup {Word}) \cap (Blank \cup {"[", "]", "<<", ">>"}) = {}
  /\ Drafts \subseteq Seq(Symbol)
  /\ Question \in Seq(Symbol) /\ ToSet(Question) \cap {"[", "<<", ">>"} = {}
  /\ MaxPiece \in Nat

VARIABLES
  draft,   \* what the composer has still to write
  cites,   \* cite_per_paragraph: [held, cited]
  numbers, \* CitationNumbers: [held, cited], in the order first cited
  tail,    \* StreamReveal: the text held back
  shown,   \* what the farmer has been sent
  answer,  \* the whole answer, as the composer meant it
  read,    \* the paragraphs cite_per_paragraph has read: [ended, current]
  over     \* has the last piece been flushed?

avars == <<draft, cites, numbers, tail, shown, answer, read, over>>

AnswerInit ==
  /\ draft \in Drafts /\ answer = draft
  /\ cites = [held |-> <<>>, cited |-> <<>>]
  /\ numbers = [held |-> <<>>, cited |-> <<>>]
  /\ tail = <<>> /\ shown = <<>>
  /\ read = [ended |-> <<>>, current |-> <<>>]
  /\ over = FALSE

-----------------------------------------------------------------------------
\* Patterns. Their matches never overlap: re.sub and re.findall are what
\* becomes of each symbol, on its own or as part of the match it is in.

Suffix(text, k) == SubSeq(text, k, Len(text))
Before(text, k) == SubSeq(text, 1, k - 1)

\* Where the match of \[(\d+)\] at i ends: at one place, or none.
MarkerAt(text, i) ==
  {j \in i + 2 .. Len(text) :
     /\ text[i] = "[" /\ text[j] = "]"
     /\ \A m \in i + 1 .. j - 1 : text[m] \in Digits}

Cites(text, i)    == MarkerAt(text, i) # {}
InMarker(text, k) == \E i \in 1 .. k : \E j \in MarkerAt(text, i) : k <= j

IdAt(text, i) == SubSeq(text, i + 1, (CHOOSE j \in MarkerAt(text, i) : TRUE) - 1)

\* The source ids of a text's markers, in order.
Ids(text) ==
  FlattenSeq([i \in DOMAIN text |-> IF Cites(text, i) THEN <<IdAt(text, i)>> ELSE <<>>])

\* Where the leftmost suffix that may turn out to be more begins.
HeldFrom(text, mayBeMore) == Min(mayBeMore \cup {Len(text) + 1})

\* $ also matches before a last newline.
Chomped(text) ==
  IF text # <<>> /\ text[Len(text)] = "newline" THEN Before(text, Len(text)) ELSE text

PartMarker(text) ==
  /\ text # <<>> /\ text[1] = "["
  /\ \A i \in 2 .. Len(text) : text[i] \in Digits

-----------------------------------------------------------------------------
\* cite_per_paragraph.

\* The new ones among ids are cited too.
Extend(cited, ids) ==
  cited \o FlattenSeq([i \in DOMAIN ids |->
             IF ids[i] \in ToSet(cited) \cup {ids[j] : j \in 1 .. i - 1}
             THEN <<>> ELSE <<ids[i]>>])

Stripped(text) ==
  Before(text, Min({k \in 1 .. Len(text) + 1 : \A i \in k .. Len(text) : text[i] \in Blank}))

Cite(text, cited) ==
  IF cited = <<>> THEN text
  ELSE Stripped(text) \o <<" ">>
       \o FlattenSeq([k \in DOMAIN cited |-> <<"[">> \o cited[k] \o <<"]">>])

\* The space before a marker goes with it.
Unmarked(text) ==
  FlattenSeq([i \in DOMAIN text |->
    IF InMarker(text, i) \/ (text[i] = " " /\ InMarker(text, i + 1))
    THEN <<>> ELSE <<text[i]>>])

Break == <<"newline", "newline">>

\* text.split: the paragraphs that have ended, and the current one.
Paragraphs(text) ==
  LET split[i \in 0 .. Len(text)] ==
        IF i = 0 THEN [ended |-> <<>>, current |-> <<>>]
        ELSE LET ended == split[i - 1].ended
                 line  == Append(split[i - 1].current, text[i])
                 n     == Len(line)
             IN  IF n > 1 /\ Suffix(line, n - 1) = Break
                 THEN [ended |-> Append(ended, Before(line, n - 1)), current |-> <<>>]
                 ELSE [ended |-> ended, current |-> line]
  IN  split[Len(text)]

\* Each paragraph that has ended, its citations after those of its beginning.
CitedParagraphs(paragraphs, begun) ==
  FlattenSeq([m \in DOMAIN paragraphs |->
    LET cited == Extend(IF m = 1 THEN begun ELSE <<>>, Ids(paragraphs[m]))
    IN  Cite(Unmarked(paragraphs[m]), cited) \o Break])

\* Mutant of MayCite: half a paragraph break is not held.
MayCiteOneLine(text) ==
  \E t \in {text, Chomped(text)} :
    t = <<" ">> \/ PartMarker(t) \/ (t # <<>> /\ t[1] = " " /\ PartMarker(Suffix(t, 2)))

\* _MAYBE_MORE: a partial marker or half a paragraph break.
MayCite(text) ==
  \E t \in {text, Chomped(text)} :
    \/ t \in {<<" ">>, <<"newline">>}
    \/ PartMarker(t)
    \/ t # <<>> /\ t[1] = " " /\ PartMarker(Suffix(t, 2))

\* One piece: what goes out, the filter after it, and what it has read.
CitePiece(state, piece) ==
  LET text  == state.held \o piece
      k     == HeldFrom(text, {i \in DOMAIN text : MayCite(Suffix(text, i))})
      split == Paragraphs(Before(text, k))
      begun == IF split.ended = <<>> THEN state.cited ELSE <<>>
  IN  [out   |-> CitedParagraphs(split.ended, state.cited) \o Unmarked(split.current),
       state |-> [held |-> Suffix(text, k), cited |-> Extend(begun, Ids(split.current))],
       read  |-> split]

-----------------------------------------------------------------------------
\* CitationNumbers.

KnownOnly(ids) ==
  FlattenSeq([i \in DOMAIN ids |-> IF ids[i] \in Known THEN <<ids[i]>> ELSE <<>>])

\* An unknown source's marker goes; a known one's number is its place among
\* the sources cited so far.
Number(id, cited) ==
  IF id \in Known
  THEN <<"[", Numeral[Min({n \in DOMAIN cited : cited[n] = id})], "]">> ELSE <<>>

Renumbered(text, cited) ==
  FlattenSeq([i \in DOMAIN text |->
    IF Cites(text, i) THEN Number(IdAt(text, i), cited)
    ELSE IF InMarker(text, i) THEN <<>> ELSE <<text[i]>>])

\* _PART_MARKER.
MayNumber(text) == \E t \in {text, Chomped(text)} : PartMarker(t)

\* CitationNumbers.feed.
NumberPiece(state, piece) ==
  LET text  == state.held \o piece
      k     == HeldFrom(text, {i \in DOMAIN text : MayNumber(Suffix(text, i))})
      ready == Before(text, k)
      cited == Extend(state.cited, KnownOnly(Ids(ready)))
  IN  [out |-> Renumbered(ready, cited),
       state |-> [held |-> Suffix(text, k), cited |-> cited]]

-----------------------------------------------------------------------------
\* StreamReveal.

HeldTag(text, i) ==
  /\ i \in 1 .. Len(text) - 2
  /\ text[i] = "<<" /\ text[i + 1] \in DOMAIN Value /\ text[i + 2] = ">>"

\* A tag that is not held goes out as the tag.
Revealed(text) ==
  FlattenSeq([i \in DOMAIN text |->
    IF HeldTag(text, i) THEN <<Value[text[i + 1]]>>
    ELSE IF HeldTag(text, i - 1) \/ HeldTag(text, i - 2) THEN <<>> ELSE <<text[i]>>])

OpenTag(text) ==
  /\ DOMAIN Value # {}
  /\ text # <<>> /\ text[1] = "<<"
  /\ \A i \in 2 .. Len(text) : text[i] \in TagNames \cup Digits \cup {Word}

\* StreamReveal.feed.
RevealPiece(held, piece) ==
  LET text == held \o piece
      k    == HeldFrom(text, {i \in DOMAIN text : OpenTag(Suffix(text, i))})
  IN  [out |-> Revealed(Before(text, k)), held |-> Suffix(text, k)]

-----------------------------------------------------------------------------
\* The stream.

\* What has been read, and more: the paragraph that had begun goes on.
ReadOn(before, split) ==
  IF split.ended = <<>>
  THEN [before EXCEPT !.current = @ \o split.current]
  ELSE [ended   |-> Append(before.ended, before.current \o split.ended[1])
                      \o Suffix(split.ended, 2),
        current |-> split.current]

Write ==
  /\ draft # <<>>
  /\ \E n \in 1 .. MaxPiece :
       /\ n <= Len(draft)
       /\ LET cite   == CitePiece(cites, SubSeq(draft, 1, n))
              number == NumberPiece(numbers, cite.out)
              reveal == RevealPiece(tail, number.out)
          IN  /\ draft' = Suffix(draft, n + 1)
              /\ cites' = cite.state
              /\ read' = ReadOn(read, cite.read)
              /\ numbers' = number.state
              /\ tail' = reveal.held
              /\ shown' = shown \o reveal.out
  /\ UNCHANGED <<answer, over>>

\* The composer is done: each filter's rest follows through the ones after it,
\* then the place question through the numbers, then the claim.
Finish ==
  /\ draft = <<>> /\ ~over
  /\ LET last   == NumberPiece(numbers, Cite(cites.held, cites.cited))
         rest   == Renumbered(last.state.held, last.state.cited)
         asked  == NumberPiece([last.state EXCEPT !.held = <<>>], Question)
         reveal == RevealPiece(tail, last.out \o rest \o asked.out)
     IN  /\ shown' = shown \o reveal.out \o reveal.held
         /\ numbers' = asked.state
  /\ read' = [read EXCEPT !.current = @ \o cites.held]
  /\ tail' = <<>> /\ over' = TRUE
  /\ UNCHANGED <<draft, cites, answer>>

AnswerNext == Write \/ Finish

AnswerSpec == AnswerInit /\ [][AnswerNext]_avars

-----------------------------------------------------------------------------
\* What the farmer reads.

\* The text of the paragraphs.
Joined(paragraphs) ==
  FlattenSeq([m \in DOMAIN paragraphs.ended |-> paragraphs.ended[m] \o Break])
    \o paragraphs.current

\* Nothing but newlines follows an empty line.
OneParagraph(text) ==
  \A b \in 1 .. Len(text) - 1 :
    text[b] = "newline" /\ text[b + 1] = "newline"
      => \A i \in b .. Len(text) : text[i] = "newline"

\* The paragraphs read whole: each without its markers, then one marker for
\* each source it cites, numbered as they are first cited.
CitedWhole(paragraphs) ==
  CitedParagraphs(paragraphs.ended, <<>>)
    \o Cite(Unmarked(paragraphs.current), Extend(<<>>, Ids(paragraphs.current)))

ReadWhole(paragraphs) ==
  LET cited == CitedWhole(paragraphs)
  IN  Revealed(Renumbered(cited, Extend(<<>>, KnownOnly(Ids(cited)))))

Unspaced(text) ==
  FlattenSeq([i \in DOMAIN text |-> IF text[i] \in Blank THEN <<>> ELSE <<text[i]>>])

\* However the model cut its answer into pieces, the farmer reads what the
\* answer says when it is read whole, paragraph by paragraph, up to its blanks:
\* no symbol lost or sent twice, a paragraph ended by every empty line and by
\* nothing else, every citation at the end of its paragraph under the number
\* it has among the sources, an unknown source nowhere, and the farmer's own
\* value for every held tag (stream_response, CitationNumbers, StreamReveal).
ReadsAsWritten ==
  over =>
    /\ answer = Joined(read)
    /\ OneParagraph(read.current)
    /\ \A m \in DOMAIN read.ended : OneParagraph(read.ended[m])
    /\ Unspaced(shown) = Unspaced(ReadWhole(read)) \o Unspaced(Question)
=============================================================================
