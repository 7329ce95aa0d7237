------------------------------ MODULE Selecting ------------------------------
(***************************************************************************)
(* What a select asks a provider for: the fields the model writes, checked  *)
(* against the pack (core/planner/validation.py), and the attributes built  *)
(* of them, of what the provider advertises, and of what the turn knows     *)
(* (core/planner/resource_attributes.py).                                   *)
(*                                                                          *)
(* A JSON value is a record of its kind and of what it holds: a model value,*)
(* a sequence, or a function of its keys. A path is the sequence of its     *)
(* segments, "[]" for the items of a list; the code writes one as a string, *)
(* so that a key with a "." or a "[]" in it reads as the segments it spells.*)
(* The model is external.                                                   *)
(***************************************************************************)
EXTENDS Integers, FiniteSets, SequencesExt, Lists

CONSTANTS
  Schemas,    \* what a pack says of its fields, see Schema
  Offers,     \* what a capability may advertise, with its pack's schema
  Written,    \* what the model may write
  Json,       \* the values there are, with the values inside them
  ReadsAs,    \* the segments of each key that is written as a path
  MaxDepth,   \* how deep a value is at most
  Structural, \* what the turn says of any select: @context, @type, ...
  Point,      \* where a resolved place is, as a location
  Today,      \* the validity window of a mandi's trading day
  Null        \* model value: null, and what is not there

\* A segment of a path: the name of a field, or the items of a list.
Segment == STRING \cup {"[]"}

\* A profile's filterable paths, the arrays whose items require siblings, and
\* of the fields: those declared, their types and their fixed values.
Schema(s) ==
  /\ \A p \in s.profile : p \in Seq(Segment) /\ p # <<>>
  /\ s.required \subseteq STRING /\ DOMAIN s.types \subseteq STRING
  /\ DOMAIN s.enums \subseteq DOMAIN s.types
  /\ s.priced \in BOOLEAN

PathKeys == DOMAIN ReadsAs

\* The values that are at most so deep: one that holds others is deeper than
\* they are.
Deep[n \in 0 .. MaxDepth] ==
  LET held == IF n = 0 THEN {} ELSE Deep[n - 1]
  IN  {v \in Json : CASE v.kind = "object" -> n > 0 /\ \A k \in DOMAIN v.fields : v.fields[k] \in held
                      [] v.kind = "list" -> n > 0 /\ ToSet(v.items) \subseteq held
                      [] OTHER -> TRUE}

ASSUME SelectingAssumption ==
  /\ \A s \in Schemas : Schema(s)
  /\ \A o \in Offers : o.schema \in Schemas /\ DOMAIN o.advertised \subseteq STRING
  /\ \A w \in Written : w \in Json /\ w.kind = "object"
  /\ \A o \in Offers : \A f \in DOMAIN o.advertised : o.advertised[f] \in Json
  /\ \A v \in Json :
       /\ v.kind = "object" => DOMAIN v.fields \subseteq STRING
                               /\ \A k \in DOMAIN v.fields : v.fields[k] \in Json
       /\ v.kind = "list" => v.items \in Seq(Json)
  /\ DOMAIN Structural \cap (PathKeys \cup {"location", "validity"}) = {}
  /\ ReadsAs \in [PathKeys -> Seq(Segment) \ {<<>>}]
  /\ MaxDepth \in Nat \ {0} /\ Json \subseteq Deep[MaxDepth]

VARIABLES
  offer,   \* the capability the model chose
  args,    \* what it wrote for it
  here,    \* is the ask's place resolved?
  verdict, \* of validate_arguments
  sent     \* the attributes of the select

svars == <<offer, args, here, verdict, sent>>

SelectingInit ==
  /\ offer \in Offers /\ args \in Written /\ here \in BOOLEAN
  /\ verdict = "none" /\ sent = Null

-----------------------------------------------------------------------------
\* The pack's filter surface (parse_domain_schema). A path under an array
\* whose items require siblings is the provider's to fill.

Filterable(schema) ==
  {p \in schema.profile :
     ~(p[1] \in schema.required /\ (Len(p) = 1 \/ p[2] = "[]"))}

\* The segments a key spells, and what is left of some paths after some.
Segments(k) == IF k \in PathKeys THEN ReadsAs[k] ELSE <<k>>
Below(s, paths) ==
  {SubSeq(p, Len(s) + 1, Len(p)) : p \in {q \in paths : IsStrictPrefix(s, q)}}

\* _flatten, _flatten_value: the paths of the leaves of a value, from the value
\* itself, by those of the values in it (held). A path under it that can be
\* filtered (stops) names what it holds whole.
LeavesOf(value, stops, held) ==
  LET At(s, v) == {s \o l : l \in held[v][Below(s, stops)]}
      OfKey(k) == LET s == Segments(k) IN IF s \in stops THEN {s} ELSE At(s, value.fields[k])
      OfItem(i) == IF i.kind = "object" THEN At(<<"[]">>, i) ELSE held[i][stops]
  IN  CASE value.kind = "object" -> UNION {OfKey(k) : k \in DOMAIN value.fields}
        [] value.kind = "list" -> LET nested == UNION {OfItem(i) : i \in ToSet(value.items)}
                                  IN  IF nested = {} THEN {<<>>} ELSE nested
        [] OTHER -> {<<>>}

leavesTo[n \in 0 .. MaxDepth] ==
  [value \in Json |-> [stops \in SUBSET Seq(Segment) |->
     IF n = 0 THEN {<<>>} ELSE LeavesOf(value, stops, leavesTo[n - 1])]]
leaves == leavesTo[MaxDepth]

Is(value) == [kind |-> "value", is |-> value]
Object(fields) == [kind |-> "object", fields |-> fields]
List(items) == [kind |-> "list", items |-> items]
Items(value) == IF value.kind = "list" THEN ToSet(value.items) ELSE {value}

\* _check_is_array, _check_is_object: at the top level only.
Misshapen(field, schema) ==
  /\ field \in DOMAIN schema.types
  /\ \/ schema.types[field] = "array" /\ args.fields[field].kind # "list"
     \/ schema.types[field] = "object" /\ args.fields[field].kind # "object"

\* _check_is_allowed: each item of a list. Only a whole field has an enum, so
\* _value_at only ever reads a field.
Listed(field, schema) ==
  field \in DOMAIN schema.enums =>
    Items(args.fields[field]) \subseteq {Is(v) : v \in schema.enums[field]}

\* validate_arguments. A field is a name, never a path or a stop; what is inside
\* it is read as the paths it spells.
Fits(schema) ==
  /\ DOMAIN args.fields \cap PathKeys = {}
  /\ \A field \in DOMAIN args.fields :
       /\ ~Misshapen(field, schema)
       /\ \A l \in leaves[args.fields[field]][Below(<<field>>, Filterable(schema))] :
            /\ <<field>> \o l \in Filterable(schema)
            /\ l = <<>> => Listed(field, schema)

ValidateArguments ==
  /\ verdict = "none"
  /\ verdict' = IF Fits(offer.schema) THEN "ok" ELSE "retry"
  /\ UNCHANGED <<offer, args, here, sent>>

-----------------------------------------------------------------------------
\* The attributes of the call (build_resource_attributes).

\* {**first, **second}
Merged(first, second) ==
  [k \in DOMAIN first \cup DOMAIN second |-> IF k \in DOMAIN second THEN second[k] ELSE first[k]]

Allowed(schema) == {p[1] : p \in Filterable(schema)}

\* _narrowed: a selection of the advertised list, each item read by the keys
\* it carries; an object is completed, the advertised value winning. An item of
\* the list that says nothing is falsy, so that the model's stands.
Matches(selector, item) ==
  item.kind = "object" /\ \A k \in DOMAIN selector.fields :
    (IF k \in DOMAIN item.fields THEN item.fields[k] ELSE Is(Null)) = selector.fields[k]
Matching(selector, advertised) ==
  LET found == Keep(advertised, {item \in ToSet(advertised) : Matches(selector, item)})
  IN  IF found = <<>> THEN selector
      ELSE IF DOMAIN found[1].fields = {} THEN selector ELSE found[1]
\* Mutant of Narrowed: the model's part of an object wins.
NarrowedByTheModel(value, advertised) ==
  IF value.kind = "object" /\ advertised.kind = "object"
  THEN Object(Merged(advertised.fields, value.fields))
  ELSE IF value.kind # "list" \/ advertised.kind # "list" THEN value
  ELSE IF \E i \in ToSet(value.items) : i.kind # "object" THEN value
  ELSE List([i \in DOMAIN value.items |-> Matching(value.items[i], advertised.items)])

Narrowed(value, advertised) ==
  IF value.kind = "object" /\ advertised.kind = "object"
  THEN Object(Merged(value.fields, advertised.fields))
  ELSE IF value.kind # "list" \/ advertised.kind # "list" THEN value
  ELSE IF \E i \in ToSet(value.items) : i.kind # "object" THEN value
  ELSE List([i \in DOMAIN value.items |-> Matching(value.items[i], advertised.items)])

\* What is made of a value of a field is a value.
ASSUME NarrowingAssumption ==
  \A w \in Written, o \in Offers : \A f \in DOMAIN w.fields \cap DOMAIN o.advertised :
    Narrowed(w.fields[f], o.advertised[f]) \in Json

\* _supported_value: what the provider serves, its only one, or nothing.
Supported(requested, offered) ==
  IF offered.kind # "list" \/ requested \in ToSet(offered.items) THEN requested
  ELSE IF Len(offered.items) = 1 THEN offered.items[1] ELSE Is(Null)

Offered(f) == IF f \in DOMAIN offer.advertised THEN offer.advertised[f] ELSE Is(Null)

\* What the provider advertises of the fields that can be filtered.
Echoed == [f \in DOMAIN offer.advertised \cap Allowed(offer.schema) |-> offer.advertised[f]]
Placed == here /\ "location" \in DOMAIN offer.schema.types

\* _reconcile_model_values: coverageAreas is the place's to say once it is sent.
Reconciled ==
  LET Value(f) ==
        IF f = "observationType"
        THEN Supported(args.fields[f], Offered("supportedObservationTypes"))
        ELSE IF f \in DOMAIN Echoed THEN Narrowed(args.fields[f], Echoed[f])
        ELSE args.fields[f]
      fields == DOMAIN args.fields \ (IF Placed THEN {"coverageAreas"} ELSE {})
  IN  [f \in {g \in fields : Value(g) # Is(Null)} |-> Value(f)]

Attributes ==
  LET place  == [f \in IF Placed THEN {"location"} ELSE {} |-> Point]
      window == [f \in IF offer.schema.priced THEN {"validity"} ELSE {} |-> Today]
  IN  Merged(Merged(Merged(Merged(Echoed, Reconciled), Structural), place), window)

BuildAttributes ==
  /\ verdict = "ok" /\ sent = Null
  /\ sent' = Attributes
  /\ UNCHANGED <<offer, args, here, verdict>>

SelectingNext == ValidateArguments \/ BuildAttributes
SelectingSpec == SelectingInit /\ [][SelectingNext]_svars

-----------------------------------------------------------------------------
\* The property.

\* The names the turn itself fills on this select.
Ours == DOMAIN Structural \cup (IF Placed THEN {"location"} ELSE {})
        \cup (IF offer.schema.priced THEN {"validity"} ELSE {})

\* What is observed may be said with a value the provider says it serves.
Serves(f, value) == f = "observationType" /\ value \in Items(Offered("supportedObservationTypes"))

\* The paths that can be filtered by inside a field; without one, only the
\* field's own name can be.
Inside(f) == Below(<<f>>, Filterable(offer.schema))
Whole(f) == Inside(f) = {}

\* A value with no leaf: empty objects, however deep. Of a list of such the path
\* of the list itself is a leaf.
HoldsNothing(value) == leaves[value][{}] = {}
OfObjects(value) == value.kind = "list" /\ \A i \in ToSet(value.items) : i.kind = "object"

\* The model's part of a field leaves what is advertised of it as it is: a key
\* both name keeps the advertised value, an item read as one of the advertised
\* list is that item whole, where each of the list says something.
Faithful(value, offered) ==
  /\ value.kind = "object" /\ offered.kind = "object" =>
       \A k \in DOMAIN offered.fields : k \in DOMAIN value.fields /\ value.fields[k] = offered.fields[k]
  /\ /\ OfObjects(value) /\ offered.kind = "list"
     /\ \A j \in ToSet(offered.items) : j.kind = "object" => DOMAIN j.fields # {}
     => \A i \in ToSet(value.items) :
          i \in ToSet(offered.items) \/ ~\E j \in ToSet(offered.items) : Matches(i, j)

\* Each leaf of what is sent under a name is one the pack can be filtered by or
\* one of what the provider advertises there, but where nothing is sent of each
\* item of an advertised list. What is under a path that can be filtered by is
\* no leaf, and a key written as a path is taken for the path.
NothingSmuggled(f) ==
  \A l \in leaves[sent[f]][Inside(f)] :
    \/ <<f>> \o l \in Filterable(offer.schema)
    \/ f \in DOMAIN Echoed /\ l \in leaves[Echoed[f]][Inside(f)]
    \/ f \in DOMAIN Echoed /\ l = <<>> /\ OfObjects(sent[f])

\* However the model writes a select: what the turn knows goes out as it knows
\* it, what the provider advertises is not rewritten, under any other name no
\* leaf goes out, however deep, that the pack or the provider does not offer, but
\* what the provider says it serves, and where the model says something of a
\* field with a fixed set, every item of it is of the set or served
\* (resource_attributes.py, validate_arguments).
ModelRewritesNothing ==
  sent # Null =>
    /\ \A f \in DOMAIN Structural : f \in DOMAIN sent /\ sent[f] = Structural[f]
    /\ "location" \in Ours => "location" \in DOMAIN sent /\ sent["location"] = Point
    /\ "validity" \in Ours => "validity" \in DOMAIN sent /\ sent["validity"] = Today
    /\ \A f \in DOMAIN sent \ Ours :
         /\ f \in Allowed(offer.schema) /\ f # "observationType" => Faithful(sent[f], Offered(f))
         /\ Serves(f, sent[f]) \/ NothingSmuggled(f)
         /\ f \in DOMAIN offer.schema.enums /\ Whole(f) /\ sent[f] # Offered(f) =>
              \/ HoldsNothing(args.fields[f]) \/ Serves(f, sent[f])
              \/ Items(sent[f]) \subseteq {Is(u) : u \in offer.schema.enums[f]}
=============================================================================
