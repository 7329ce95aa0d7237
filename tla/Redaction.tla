------------------------------ MODULE Redaction ------------------------------
(***************************************************************************)
(* A turn's texts, redacted before anything else reads them: every          *)
(* configured identifier reads every text at once (redact_texts), one that  *)
(* fails on any text is dropped from the whole turn, the spans of the rest  *)
(* are settled (resolve) and replaced by one tag for each value (redact),   *)
(* and the policy says which values the turn's Visibility holds.            *)
(*                                                                          *)
(* A character is its position. A value is a model value: two spans have    *)
(* the same one when the code would read the same number or word in both.   *)
(***************************************************************************)
EXTENDS Integers, FiniteSets, SequencesExt

CONSTANTS
  Entities, Values,
  Keeps,      \* the entities whose values the policy keeps
  MaxLength,  \* bound: the positions of a text
  Texts,      \* the number of texts
  Reports     \* what the identifiers, in the rules file's order, may report

Span   == [start : Nat, end : Nat,
           entity : Entities, value : Values]
Report == [1 .. Texts -> Seq(Span)]

ASSUME RedactionAssumption ==
  /\ MaxLength \in Nat /\ Texts \in Nat
  /\ Keeps \subseteq Entities
  /\ Reports \subseteq Seq(Report)

VARIABLES
  reports,  \* what each identifier reports of each text, if it gets to
  reading,  \* the identify calls not yet back
  failed,   \* the identifiers dropped
  came,     \* the identifiers that are in, in the order they came
  redacted  \* what redact made of it, NotYet before

rvars == <<reports, reading, failed, came, redacted>>

NotYet == [replaced |-> {}, tags |-> <<>>, done |-> FALSE]

Identifiers == DOMAIN reports

RedactionInit ==
  /\ reports \in Reports
  /\ reading = (DOMAIN reports) \X (1 .. Texts)
  /\ failed = {} /\ came = <<>>
  /\ redacted = NotYet

-----------------------------------------------------------------------------
\* The identifiers.

\* _check: a span that would corrupt the text fails its whole identifier.
Sound(span) == span.start < span.end /\ span.end <= MaxLength

ReadingOf(i) == {c \in reading : c[1] = i}

Drop(i) ==
  /\ failed' = failed \cup {i}
  /\ reading' = reading \ ReadingOf(i)
  /\ UNCHANGED <<reports, came, redacted>>

\* A failing identifier cancels its own calls on the other texts.
IdentifierFails(i, t) == <<i, t>> \in reading /\ Drop(i)

Identify(i, t) ==
  /\ <<i, t>> \in reading
  /\ IF \A span \in ToSet(reports[i][t]) : Sound(span)
     THEN /\ reading' = reading \ {<<i, t>>}
          /\ came' = IF ReadingOf(i) = {<<i, t>>} THEN Append(came, i) ELSE came
          /\ UNCHANGED <<reports, failed, redacted>>
     ELSE Drop(i)

-----------------------------------------------------------------------------
\* Settling and replacing.

\* A span found: by whom, in which text, and which of its own it is.
SpanOf(f) == reports[f.by][f.text][f.nth]

FoundBy(i) ==
  UNION {{[by |-> i, text |-> t, nth |-> n] : n \in DOMAIN reports[i][t]} :
           t \in 1 .. Texts}

FoundIn(t) == {f \in UNION {FoundBy(i) : i \in ToSet(came)} : f.text = t}

Length(f) == SpanOf(f).end - SpanOf(f).start

\* Mutant of Earlier: the order in which the identifiers came back.
CameEarlier(f, g) ==
  LET at(i) == CHOOSE k \in DOMAIN came : came[k] = i
  IN  at(f.by) < at(g.by) \/ (f.by = g.by /\ f.nth < g.nth)

\* Merged in the order of the rules file, whatever order they came back in.
Earlier(f, g) == f.by < g.by \/ (f.by = g.by /\ f.nth < g.nth)

Outranks(f, g) ==
  Length(f) > Length(g) \/ (Length(f) = Length(g) /\ Earlier(f, g))

Overlap(f, g) ==
  /\ f.text = g.text
  /\ SpanOf(f).start < SpanOf(g).end /\ SpanOf(g).start < SpanOf(f).end

ByRank(found) ==
  [n \in 1 .. Cardinality(found) |->
     CHOOSE f \in found : Cardinality({g \in found : Outranks(g, f)}) = n - 1]

\* resolve, of one text's spans: by rank, each that overlaps none chosen
\* before it.
Resolve(found) ==
  LET chosen[n \in 0 .. Cardinality(found)] ==
        IF n = 0 THEN {}
        ELSE IF \E f \in chosen[n - 1] : Overlap(f, ByRank(found)[n])
             THEN chosen[n - 1] ELSE chosen[n - 1] \cup {ByRank(found)[n]}
  IN  chosen[Cardinality(found)]

\* The texts' order, and in a text the order of the spans.
Precedes(f, g) ==
  f.text < g.text \/ (f.text = g.text /\ SpanOf(f).start < SpanOf(g).start)

\* Mutant of Numbered: a text's numbers start again from one.
NumberedInText(f, replaced) ==
  Cardinality({SpanOf(g).value : g \in {h \in replaced :
     /\ h.text = f.text /\ SpanOf(h).entity = SpanOf(f).entity
     /\ \A k \in replaced : k.text = f.text /\ SpanOf(k).value = SpanOf(f).value
          => h = k \/ Precedes(h, k)}})

\* The number of a span's value: how many values of its entity were met in all
\* the texts up to the first span with this one.
Numbered(f, replaced) ==
  Cardinality({SpanOf(g).value : g \in {h \in replaced :
     /\ SpanOf(h).entity = SpanOf(f).entity
     /\ \A k \in replaced :
          SpanOf(k).entity = SpanOf(f).entity /\ SpanOf(k).value = SpanOf(f).value
            => h = k \/ Precedes(h, k)}})

Tag(f, replaced) ==
  [entity |-> SpanOf(f).entity, number |-> Numbered(f, replaced)]

Redact ==
  /\ reading = {} /\ ~redacted.done
  /\ LET replaced == UNION {Resolve(FoundIn(t)) : t \in 1 .. Texts}
     IN  redacted' = [replaced |-> replaced,
                      tags |-> [f \in replaced |-> Tag(f, replaced)],
                      done |-> TRUE]
  /\ UNCHANGED <<reports, reading, failed, came>>

\* Visibility.values: the tags of the entities the policy keeps.
Held ==
  {[tag |-> redacted.tags[f], value |-> SpanOf(f).value] :
     f \in {g \in redacted.replaced : SpanOf(g).entity \in Keeps}}

RedactionNext ==
  \/ \E c \in reading : Identify(c[1], c[2]) \/ IdentifierFails(c[1], c[2])
  \/ Redact

RedactionSpec == RedactionInit /\ [][RedactionNext]_rvars

-----------------------------------------------------------------------------
\* What redaction promises.

\* Every span an identifier that did not fail found is replaced, or overlaps
\* a replaced one that is longer or, as long, of an identifier the rules file
\* lists earlier: whatever order they came back in. The spans of one that
\* failed are all dropped, on the texts it had read as on the rest
\* (redact_texts, resolve).
RedactedByRank ==
  redacted.done =>
    /\ \A f \in redacted.replaced : f.by \notin failed
    /\ \A f, g \in redacted.replaced : f # g => ~Overlap(f, g)
    /\ \A i \in Identifiers \ failed : \A f \in FoundBy(i) :
         f \in redacted.replaced
         \/ \E g \in redacted.replaced :
              /\ Overlap(f, g)
              /\ \/ Length(g) > Length(f)
                 \/ Length(g) = Length(f) /\ g.by < i
                 \/ Length(g) = Length(f) /\ g.by = i /\ g.nth < f.nth

\* One tag for each value of an entity, the same in every text and no other
\* value's, so that revealing a tag gives back the value it stood for; a
\* destroyed entity's value is behind no tag (redact, Visibility).
OneTagPerValue ==
  redacted.done =>
    /\ \A f, g \in redacted.replaced :
         redacted.tags[f] = redacted.tags[g]
         <=> /\ SpanOf(f).entity = SpanOf(g).entity
             /\ SpanOf(f).value = SpanOf(g).value
    /\ \A h \in Held : h.tag.entity \in Keeps
    /\ \A g, h \in Held : g.tag = h.tag => g.value = h.value
=============================================================================
