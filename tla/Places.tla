------------------------------- MODULE Places -------------------------------
(***************************************************************************)
(* Which place each ask is about: the names the farmer said, looked up in   *)
(* the area file and then in a geocoder that may not answer                 *)
(* (adapters/area_lookup), read by resolve_places (core/location), and      *)
(* asked back with a numbered list when several fit (core/channel). The     *)
(* farmer picks a line, and the picked line is the next turn's place name.  *)
(*                                                                          *)
(* A text is the sequence of its parts between commas: the name, then the   *)
(* places above it. Case and spacing are abstracted. The intent model, which*)
(* reads the farmer's words, and the geocoder's data are external.          *)
(***************************************************************************)
EXTENDS Integers, FiniteSets, SequencesExt, Lists

CONSTANTS
  Names,      \* the names of places, of what is above them and of aliases
  Regions,    \* ISO codes
  Points,     \* coordinates
  Km,         \* the distance of two points
  NearestMaxKm,
  MaxChoices, \* the longest list that is shown ungrouped
  Rows,       \* the area file, in order; keys are the name and its aliases
  Keys,       \* every key of the file, sorted
  Starts,     \* the pairs of names, the first the first words of the second
  Features,   \* what the geocoder knows, in the order it ranks it
  Said,       \* the place names of one turn, as the intent model reads them
  Locations,  \* what a turn's envelope may say of where the farmer is
  MaxTurns,   \* bound: the turns of a conversation
  None        \* model value: nothing there

Text    == Seq(Names)
Row     == [name : Names, keys : SUBSET Names, within : Seq(Names),
            region : Regions, point : Points]
Feature == [name : Names, parts : Seq(Names), region : Regions,
            point : Points, state : BOOLEAN]
Location == [point : Points \cup {None}, area : Names \cup {None},
             region : Regions \cup {None}]

ASSUME PlacesAssumption ==
  /\ NearestMaxKm \in Nat /\ MaxChoices \in Nat \ {0} /\ MaxTurns \in Nat
  /\ Km \in [Points -> [Points -> Nat]]
  /\ Rows \in Seq(Row) /\ Features \in Seq(Feature)
  /\ Keys \in Seq(Names) /\ Starts \subseteq Names \X Names
  /\ Said \subseteq Seq(Text) /\ Locations \subseteq Location

VARIABLES
  location, \* where the turn says the farmer is
  heard,    \* the asks' texts not yet split
  asks,     \* the texts of the asks, <<>> for one that names no place
  places,   \* what each ask's place came to, as far as resolved
  lent,     \* how many asks have been through the second pass
  picked,   \* the line this turn answers with the question it is from, or None
  unanswered, \* has the geocoder failed in this turn?
  turns     \* the turns so far

vars == <<location, heard, asks, places, lent, picked, unanswered, turns>>

Begin(texts) ==
  /\ heard' = texts /\ asks' = <<>> /\ places' = <<>> /\ lent' = 0
  /\ unanswered' = FALSE

Init ==
  /\ location \in Locations
  /\ heard \in Said /\ asks = <<>> /\ places = <<>> /\ lent = 0
  /\ picked = None /\ unanswered = FALSE /\ turns = 1

-----------------------------------------------------------------------------
\* The area file (CsvAreaLookup).

MatchOf(row, isGuess) ==
  [name |-> row.name, within |-> row.within, region |-> row.region,
   point |-> row.point, isRegion |-> FALSE, isGuess |-> isGuess]

RowsOf(key, isGuess) ==
  LET rows == Keep(Rows, {row \in ToSet(Rows) : key \in row.keys})
  IN  [i \in DOMAIN rows |-> MatchOf(rows[i], isGuess)]

\* _qualified_by: the names the wanted one is the first words of.
QualifiedBy(name) ==
  LET keys == Keep(Keys, {key \in Names : <<name, key>> \in Starts})
  IN  FlattenSeq([i \in DOMAIN keys |-> RowsOf(keys[i], TRUE)])

\* _regions: a state the rows sit in. Its point is nobody's.
RegionsNamed(name) ==
  LET rows == Keep(Rows, {row \in ToSet(Rows) :
                           Len(row.within) >= 2 /\ row.within[2] = name})
  IN  IF rows = <<>> THEN <<>>
      ELSE <<[name |-> name, within |-> <<rows[1].within[1]>>,
              region |-> rows[1].region, point |-> None,
              isRegion |-> TRUE, isGuess |-> FALSE]>>

CsvResolve(name) ==
  (IF RowsOf(name, FALSE) # <<>> THEN RowsOf(name, FALSE) ELSE QualifiedBy(name))
  \o RegionsNamed(name)

\* nearest: the closest row, the larger of two that share a point.
Nearest(point) ==
  LET rows   == {row \in ToSet(Rows) : Km[point][row.point] <= NearestMaxKm}
      Closer(r, s) == \/ Km[point][r.point] < Km[point][s.point]
                      \/ /\ Km[point][r.point] = Km[point][s.point]
                         /\ Len(r.within) < Len(s.within)
  IN  IF rows = {} THEN None
      ELSE MatchOf(CHOOSE r \in rows : \A s \in rows : ~Closer(s, r), FALSE)

-----------------------------------------------------------------------------
\* The geocoder (PhotonAreaLookup), and the chain of the two.

FeatureMatch(f) ==
  [name |-> f.name, within |-> Keep(f.parts, Names \ {f.name}),
   region |-> f.region, point |-> f.point, isRegion |-> f.state, isGuess |-> FALSE]

\* The places above the place of its own name a feature sits in.
AboveNamesake(f) ==
  SubSeq(f.parts, 1, (CHOOSE i \in DOMAIN f.parts : f.parts[i] = f.name) - 1)

InNamesake(f) == Contains(f.parts, f.name)

\* A container of a town of its name is left out.
NotAround(named) ==
  LET inside == {AboveNamesake(f) : f \in {g \in ToSet(named) : InNamesake(g)}}
  IN  Keep(named, {f \in ToSet(named) :
             InNamesake(f) \/ FeatureMatch(f).within \notin inside})

\* Of several with the same surroundings, the first.
FirstOfEach(features) ==
  LET matches == [i \in DOMAIN features |-> FeatureMatch(features[i])]
      firsts  == Keep([i \in DOMAIN matches |-> i], {i \in DOMAIN matches :
                   \A j \in 1 .. i - 1 : matches[j].within # matches[i].within})
  IN  [k \in DOMAIN firsts |-> matches[firsts[k]]]

\* _lookup: the features of that name exactly.
PhotonResolve(name) ==
  FirstOfEach(NotAround(Keep(Features, {f \in ToSet(Features) : f.name = name})))

AllGuesses(matches) == \A m \in ToSet(matches) : m.isGuess

\* ChainedAreaLookup.resolve: the file, unless it has guesses only and the
\* geocoder has better. down holds the names the geocoder does not answer.
\* A name with a comma in it is no area's.
Lookup(text, down) ==
  IF Len(text) # 1 THEN <<>>
  ELSE LET rows     == CsvResolve(text[1])
           features == IF text[1] \in down THEN <<>> ELSE PhotonResolve(text[1])
       IN  IF ~AllGuesses(rows) \/ features = <<>> THEN rows ELSE features

-----------------------------------------------------------------------------
\* Reading a name.

Above(m) == ToSet(m.within)

\* Mutant of ExactFirst: guesses count beside exact names.
AnyFirst(found) == found

ExactFirst(found) ==
  LET exact == Keep(found, {m \in ToSet(found) : ~m.isGuess})
  IN  IF exact = <<>> THEN found ELSE exact

NotRegions(found) == Keep(found, {m \in ToSet(found) : ~m.isRegion})

DropNested(matches) ==
  Keep(matches, {m \in ToSet(matches) :
    \A outer \in ToSet(matches) : m.within # Append(outer.within, outer.name)})

\* _places_named
PlacesNamed(text, down) == DropNested(NotRegions(ExactFirst(Lookup(text, down))))

\* _split_joined: the asks a text is, more than one when the model joined two
\* places, that is when the last part is a place and not above the name.
SplitJoined(text, down) ==
  LET anyAbove == \E m \in ToSet(PlacesNamed(<<text[1]>>, down)) :
                    ToSet(Tail(text)) \cap Above(m) # {}
      isAbove  == \E m \in ToSet(PlacesNamed(Front(text), down)) :
                    Last(text) \in Above(m)
      isPlace  == NotRegions(ExactFirst(Lookup(<<Last(text)>>, down))) # <<>>
  IN  IF \/ Len(text) <= 1
         \/ Len(text) > 2 /\ anyAbove
         \/ isAbove \/ ~isPlace
      THEN <<text>> ELSE <<Front(text), <<Last(text)>>>>

Resolved(m, source) ==
  [kind |-> "resolved", name |-> m.name, within |-> m.within,
   point |-> m.point, source |-> source]
Ambiguous(text, matches) ==
  [kind |-> "ambiguous", text |-> text, candidates |-> matches]
Unresolved(text, region) ==
  [kind |-> "unresolved", text |-> text, region |-> region]
NoPlace == [kind |-> "none"]

AreaNamed(down) ==
  IF location.area = None THEN <<>> ELSE NotRegions(Lookup(<<location.area>>, down))

\* _user_point: the device's, else that of the one place the area names.
UserPoint(down) ==
  LET matches == Keep(AreaNamed(down), {m \in ToSet(AreaNamed(down)) : ~m.isGuess})
  IN  IF location.point # None THEN location.point
      ELSE IF Len(matches) = 1 THEN matches[1].point ELSE None

Near(point, m) == point # None /\ Km[point][m.point] <= NearestMaxKm

\* _user_own_place: the user is inside the region they named.
OwnPlace(region, down) ==
  LET area == AreaNamed(down)
      near == IF location.point = None THEN None ELSE Nearest(location.point)
  IN  IF Len(area) = 1 /\ region.name \in Above(area[1])
      THEN Resolved(area[1], "near_user")
      ELSE IF near # None /\ region.name \in Above(near)
      THEN [Resolved(near, "near_user") EXCEPT !.point = location.point]
      ELSE NoPlace

\* Mutant of Directly: a part is any place above the match.
NotDirectly(matches, parts) == <<>>

Directly(matches, parts) ==
  Keep(matches, {m \in ToSet(matches) :
    parts # <<>> /\ m.within # <<>> /\ Last(m.within) = Last(parts)})

Inside(matches, parts) ==
  Keep(matches, {m \in ToSet(matches) : ToSet(parts) \subseteq Above(m)})

\* The matches a text leaves: those directly in its last part, else those
\* inside all its parts, else all; of several, those in the farmer's region.
Left(matches, parts) ==
  LET direct == Directly(matches, parts)
      inside == Inside(matches, parts)
      fit    == IF direct # <<>> THEN direct
                ELSE IF inside # <<>> THEN inside ELSE matches
      here   == Keep(fit, {m \in ToSet(fit) : m.region = location.region})
  IN  IF Len(fit) > 1 /\ here # <<>> THEN here ELSE fit

\* _resolve_named
ResolveNamed(text, down) ==
  LET found   == ExactFirst(Lookup(<<text[1]>>, down))
      regions == Keep(found, {m \in ToSet(found) : m.isRegion})
      nested  == DropNested(NotRegions(found))
      left    == Left(nested, Tail(text))
      near    == Keep(left, {m \in ToSet(left) : Near(UserPoint(down), m)})
      tied    == Len(left) > 1 \/ left[1].isGuess
      own     == OwnPlace(regions[1], down)
  IN  IF regions # <<>> /\ NotRegions(found) = <<>>
      THEN IF own # NoPlace THEN own ELSE Unresolved(text, regions[1].name)
      ELSE IF nested = <<>> \/ (Len(text) > 1 /\ Inside(nested, Tail(text)) = <<>>)
      THEN Unresolved(text, None)
      ELSE IF tied /\ Len(near) = 1 THEN Resolved(near[1], "named")
      ELSE IF tied THEN Ambiguous(text, left)
      ELSE Resolved(left[1], "named")

\* _resolve_from_location: the device's point, named by what is near it, else
\* the one place the area names.
FromLocation(down) ==
  LET near == Nearest(location.point)
      area == AreaNamed(down)
  IN  IF location.point # None
      THEN [kind |-> "resolved", point |-> location.point,
            name |-> IF near # None THEN near.name ELSE location.area,
            within |-> IF near # None THEN near.within ELSE <<>>,
            source |-> "asserted_geometry"]
      ELSE IF Len(area) = 1 THEN Resolved(area[1], "asserted_area") ELSE NoPlace

-----------------------------------------------------------------------------
\* resolve_places. Each step is one ask, and the geocoder may fail any lookup.

Downs == SUBSET {f.name : f \in ToSet(Features)}

Asking(down) == unanswered' = (unanswered \/ down # {})

SplitAsk(down) ==
  /\ heard # <<>>
  /\ asks' = asks \o SplitJoined(Head(heard), down)
  /\ heard' = Tail(heard)
  /\ Asking(down)
  /\ UNCHANGED <<location, places, lent, picked, turns>>

NameAsk(down) ==
  /\ heard = <<>> /\ Len(places) < Len(asks)
  /\ LET text == asks[Len(places) + 1]
     IN  places' = Append(places, IF text = <<>> THEN NoPlace
                                  ELSE ResolveNamed(text, down))
  /\ Asking(down)
  /\ UNCHANGED <<location, heard, asks, lent, picked, turns>>

Named == heard = <<>> /\ Len(places) = Len(asks)

\* _first_resolved, of the first pass: only an ask that names a place has one.
Sibling ==
  LET placed == {i \in DOMAIN asks : asks[i] # <<>> /\ places[i].kind = "resolved"}
  IN  IF placed = {} THEN NoPlace
      ELSE places[CHOOSE i \in placed : \A j \in placed : i <= j]

\* Mutant of LendPlace: an ask borrows before it asks where the farmer is.
LendSiblingFirst(down) ==
  /\ Named /\ lent < Len(asks)
  /\ lent' = lent + 1
  /\ places' = IF asks[lent'] # <<>> THEN places
               ELSE [places EXCEPT ![lent'] =
                       IF Sibling # NoPlace THEN Sibling ELSE FromLocation(down)]
  /\ Asking(down)
  /\ UNCHANGED <<location, heard, asks, picked, turns>>

LendPlace(down) ==
  /\ Named /\ lent < Len(asks)
  /\ lent' = lent + 1
  /\ places' = IF asks[lent'] # <<>> THEN places
               ELSE [places EXCEPT ![lent'] =
                       IF FromLocation(down) # NoPlace THEN FromLocation(down)
                       ELSE Sibling]
  /\ Asking(down)
  /\ UNCHANGED <<location, heard, asks, picked, turns>>

Placed == Named /\ lent = Len(asks)

-----------------------------------------------------------------------------
\* Asking back, and the pick.

\* _standout_part: the first part where no other choice is the same any more.
StandoutPart(within, others) ==
  LET apart == {d \in DOMAIN within : \A other \in ToSet(others) :
                  ~IsPrefix(SubSeq(within, 1, d), other)}
  IN  IF within = <<>> THEN <<>>
      ELSE IF others = <<>> \/ apart = {} THEN <<Last(within)>>
      ELSE <<within[CHOOSE d \in apart : \A e \in apart : d <= e]>>

\* _candidate_lines. A line is its text and the candidates it stands for.
CandidateLines(candidates) ==
  {[text |-> <<candidates[i].name>>
             \o StandoutPart(candidates[i].within,
                             [j \in DOMAIN RemoveAt(candidates, i) |->
                                RemoveAt(candidates, i)[j].within]),
    group |-> {candidates[i]}] : i \in DOMAIN candidates}

\* The parts of the chains at a level, each once.
PartsAt(candidates, d) ==
  FoldLeft(LAMBDA parts, m :
             IF Len(m.within) < d \/ Contains(parts, m.within[d])
             THEN parts ELSE Append(parts, m.within[d]), <<>>, candidates)

\* _group_lines: by the first level at which the chains differ, up to
\* max_choices of its parts.
GroupLines(text, candidates) ==
  LET depths    == {d \in UNION {DOMAIN m.within : m \in ToSet(candidates)} :
                      Len(PartsAt(candidates, d)) > 1}
      depth     == CHOOSE d \in depths : \A e \in depths : d <= e
      shown     == SubSeq(PartsAt(candidates, depth), 1, MaxChoices)
  IN  IF depths = {} THEN CandidateLines(candidates)
      ELSE {[text |-> Append(text, part),
             group |-> {m \in ToSet(candidates) :
                          Len(m.within) >= depth /\ m.within[depth] = part}] :
              part \in ToSet(shown)}

\* _ambiguous_paragraph
Lines(place) ==
  IF Len(place.candidates) > MaxChoices
  THEN GroupLines(place.text, place.candidates)
  ELSE CandidateLines(place.candidates)

\* The farmer picks a line, and the model copies it as the next turn's name.
Pick ==
  /\ Placed /\ turns < MaxTurns
  /\ \E i \in DOMAIN places :
       /\ places[i].kind = "ambiguous"
       /\ \E line \in Lines(places[i]) :
            /\ picked' = [line |-> line, of |-> ToSet(places[i].candidates)]
            /\ Begin(<<line.text>>)
  /\ turns' = turns + 1
  /\ UNCHANGED location

Next ==
  \/ \E down \in Downs : SplitAsk(down) \/ NameAsk(down) \/ LendPlace(down)
  \/ Pick

Spec == Init /\ [][Next]_vars

-----------------------------------------------------------------------------
\* What placing an ask promises.

IsMatch(place, m) == place.name = m.name /\ place.within = m.within

\* Whatever source answered and however often the geocoder failed: a place that
\* was named is one the sources know by that name, never a whole region, and
\* sits in the last part that was said with it; a name that only begins another
\* is used only where the farmer is near; and a region stands for a place of
\* the farmer's own inside it or for none (_resolve_named, ChainedAreaLookup).
NeverAnotherPlace ==
  \A i \in DOMAIN places :
    (asks[i] # <<>> /\ places[i].kind = "resolved") =>
      LET text  == asks[i]
          known == ToSet(CsvResolve(text[1])) \cup ToSet(PhotonResolve(text[1]))
      IN  IF places[i].source = "near_user"
          THEN \E m \in known : m.isRegion /\ m.name \in ToSet(places[i].within)
          ELSE \E m \in known :
                 /\ IsMatch(places[i], m) /\ ~m.isRegion
                 /\ Len(text) > 1 => Last(text) \in Above(m)
                 /\ m.isGuess =>
                      /\ \A n \in ToSet(CsvResolve(text[1])) : n.isGuess
                      /\ \E down \in Downs : Near(UserPoint(down), m)

\* While the geocoder answers, a picked line settles what it was listed for:
\* one ask, about a place the line stood for, or a question that lists fewer
\* of them than the last (_candidate_lines and _group_lines, read back by
\* _split_joined and _resolve_named). Asking the same question again would be
\* asking it forever.
PickSettlesItsLine ==
  (picked # None /\ Placed /\ ~unanswered) =>
    /\ Len(asks) = 1
    /\ \/ /\ places[1].kind = "resolved"
          /\ \E m \in picked.line.group : IsMatch(places[1], m)
       \/ /\ places[1].kind = "ambiguous"
          /\ ToSet(places[1].candidates) \subseteq picked.line.group
          /\ ToSet(places[1].candidates) # picked.of

\* The order of trust: where the device is; else the one place the farmer's
\* area names; else the first place a sibling named; else nowhere.
Trusted(place, down) ==
  LET area  == AreaNamed(down)
      named == {j \in DOMAIN asks : asks[j] # <<>> /\ places[j].kind = "resolved"}
  IN  IF location.point # None
      THEN place.kind = "resolved" /\ place.point = location.point
      ELSE IF Len(area) = 1
      THEN place.kind = "resolved" /\ IsMatch(place, area[1]) /\ place.point = area[1].point
      ELSE IF named = {} THEN place = NoPlace
      ELSE \E j \in named : place = places[j] /\ \A k \in named : j <= k

\* An ask that names no place is where the order of trust puts it, whatever its
\* siblings name and whichever of them is still in question, with the lookups
\* of the area answered unless the geocoder failed in this turn; and the asks
\* of a turn that name none have one place, unless it did (resolve_places, whose
\* module states the order).
HereIsTheFarmer ==
  Placed =>
    \A i \in DOMAIN asks :
      asks[i] = <<>> =>
        /\ \E down \in Downs : (~unanswered => down = {}) /\ Trusted(places[i], down)
        /\ \A j \in DOMAIN asks : asks[j] = <<>> /\ ~unanswered => places[j] = places[i]

\* A line that groups several places leaves several: with nothing known of
\* where the farmer is, the question is asked again one level down
\* (_group_lines, _resolve_named).
AsksAgainOfAGroup ==
  (/\ picked # None /\ Cardinality(picked.line.group) > 1
   /\ location = [point |-> None, area |-> None, region |-> None]
   /\ Placed /\ ~unanswered) => places[1].kind = "ambiguous"
=============================================================================
