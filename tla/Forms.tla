-------------------------------- MODULE Forms --------------------------------
(***************************************************************************)
(* What a form is from the pack to the provider (core/forms): the forms cut *)
(* from the API packs at boot, a submission checked against its form, the   *)
(* body of the call filled from the pack, the desk and the farmer, and what *)
(* is kept of the desk's reply.                                             *)
(*                                                                          *)
(* A path is the sequence of its segments. A value is a model value with a  *)
(* length; what a pattern finds is the set of values it finds, and the rules*)
(* of a pack that no form reads (not, format, an object's own) are the set  *)
(* of the values they bar. A value that is no string has a JSON text, which *)
(* is what a form offers, a farmer sends and a desk is sent of it. A reply's*)
(* nodes are those of a JSON object. The @context and @type a body begins   *)
(* with are left out. The packs' text, and what a desk answers, are external*)
(***************************************************************************)
EXTENDS Integers, FiniteSets, SequencesExt, Lists

CONSTANTS
  Folders,     \* the packs a folder may hold, as sequences
  Submissions, \* what a farmer may send
  Desks,       \* the candidates discovery finds
  Replies,     \* the nodes of the attributes a desk may answer with
  Values, Length, Blank, \* what may be written, how long it is, what is blank
  TextOf,      \* the JSON text of a value; a string's is itself
  Unlimited,   \* a maxLength no value exceeds, for a field without one
  None         \* model value: nothing there

\* A field as a leaf writes it.
PackField == [path : Seq(STRING), declared : BOOLEAN, allowed : Seq(Values),
              finds : SUBSET Values, legible : BOOLEAN, min : Nat, max : Nat,
              bars : SUBSET Values, freetext : BOOLEAN]
Leaf == [action : STRING, scheme : Seq(STRING), fields : Seq(PackField)]
FormPack == [kind : {"api", "catalog"}, readable : BOOLEAN, category : STRING,
         leaves : Seq(Leaf)]

\* The strings, which is all a farmer can type.
Texts == {v \in Values : TextOf[v] = v}

\* The paths above a path.
Parents(path) == {SubSeq(path, 1, k) : k \in 1 .. Len(path) - 1}

\* Only what is in objects has a path: a node's parents are objects.
Tree(nodes) ==
  \A n \in nodes :
    /\ n.path \in Seq(STRING) /\ n.path # <<>>
    /\ \A p \in Parents(n.path) : \E m \in nodes : m.path = p /\ m.object

ASSUME FormsAssumption ==
  /\ Folders \subseteq Seq(FormPack)
  /\ Blank \subseteq Values /\ Length \in [Values -> Nat]
  /\ Unlimited \in Nat /\ \A v \in Values : Length[v] <= Unlimited
  /\ TextOf \in [Values -> Texts]
  /\ \A packs \in Folders : \A i \in DOMAIN packs : \A j \in DOMAIN packs[i].leaves :
       LET fields == packs[i].leaves[j].fields
       IN  \A f, g \in DOMAIN fields : fields[f].path = fields[g].path => fields[f] = fields[g]
  /\ None \notin Values \cup Desks
  /\ \A s \in Submissions : s.values \in Seq([name : Seq(STRING), value : Texts])
  /\ \A nodes \in Replies : Tree(nodes)

VARIABLES
  folder,     \* the packs read at boot
  registry,   \* the schema of each context that is served
  submission, \* what the farmer sends
  checked,    \* the verdict on it
  desk,       \* the desk it is filed with
  body,       \* the value at each path of the call
  reply,      \* the nodes of the desk's reply
  kept        \* the nodes the turn keeps of it

fvars == <<folder, registry, submission, checked, desk, body, reply, kept>>

FormsInit ==
  /\ folder \in Folders /\ submission \in Submissions
  /\ registry = None /\ checked = None /\ desk = None
  /\ body = None /\ reply = None /\ kept = None

-----------------------------------------------------------------------------
\* The packs, read once (build_form_registry).

ProviderPaths == {<<"provider", "id">>, <<"provider", "descriptor", "name">>}

\* _source_of.
Source(field) ==
  IF Len(field.allowed) = 1 THEN "fixed"
  ELSE IF Len(field.path) > 1 /\ field.path[1] = "provider" THEN "provider"
  ELSE "farmer"

\* _read_leaf: a leaf pins one scheme, and each field it declares can be
\* checked and filled. A mustSend path it does not declare is not counted.
Declared(leaf) == Keep(leaf.fields, {f \in ToSet(leaf.fields) : f.declared})
Reads(leaf) ==
  /\ Len(leaf.scheme) = 1
  /\ \A f \in ToSet(Declared(leaf)) :
       f.legible /\ (Source(f) = "provider" => f.path \in ProviderPaths)

\* parse_api_pack: every leaf of every action but catalog/publish, or none.
CalledLeaves(pack) ==
  Keep(pack.leaves, {l \in ToSet(pack.leaves) : l.action # "publish"})
Skipped(pack) ==
  pack.kind = "api" /\ ~(pack.readable /\ \A l \in ToSet(CalledLeaves(pack)) : Reads(l))
SchemasOf(pack) ==
  LET leaves == CalledLeaves(pack)
  IN  IF pack.kind = "catalog" \/ Skipped(pack) THEN <<>>
      ELSE [i \in DOMAIN leaves |->
             [context  |-> [scheme |-> leaves[i].scheme[1], category |-> pack.category,
                            action |-> leaves[i].action],
              mustSend |-> Declared(leaves[i])]]

\* _schemes_needing_a_challenge: an init leaf of any pack withdraws its scheme.
Challenged(schemas) ==
  {<<s.context.scheme, s.context.category>> :
     s \in {t \in ToSet(schemas) : t.context.action = "init"}}

\* Mutant of Servable: a scheme is withdrawn by the packs read before it.
ServableSoFar(schemas) ==
  {schemas[i] : i \in {j \in DOMAIN schemas :
     /\ <<schemas[j].context.scheme, schemas[j].context.category>>
          \notin Challenged(SubSeq(schemas, 1, j))
     /\ \A k \in 1 .. j - 1 : schemas[k].context # schemas[j].context}}

\* _register_servable: of two forms for one context, the first pack's.
Servable(schemas) ==
  LET open   == Keep(schemas, {s \in ToSet(schemas) :
                  <<s.context.scheme, s.context.category>> \notin Challenged(schemas)})
      firsts == {i \in DOMAIN open : \A j \in 1 .. i - 1 : open[j].context # open[i].context}
  IN  {open[i] : i \in firsts}

BuildRegistry ==
  /\ registry = None
  /\ registry' = Servable(FlattenSeq([i \in DOMAIN folder |-> SchemasOf(folder[i])]))
  /\ UNCHANGED <<folder, submission, checked, desk, body, reply, kept>>

-----------------------------------------------------------------------------
\* A submission against its form (validate_submission).

FarmerFields(schema) ==
  Keep(schema.mustSend, {f \in ToSet(schema.mustSend) : Source(f) = "farmer"})

Sightings(name, values) == Cardinality({i \in DOMAIN values : values[i].name = name})
SentTwice(values) == {v.name : v \in {u \in ToSet(values) : Sightings(u.name, values) > 1}}
\* The last value sent under a name is the one that counts.
LastSent(name, values) ==
  LET at == {i \in DOMAIN values : values[i].name = name}
  IN  IF at = {} THEN None ELSE values[CHOOSE i \in at : \A j \in at : j <= i].value

\* _option_for: an option is the JSON text of a value the pack allows.
Options(field) == {TextOf[v] : v \in ToSet(field.allowed)}

\* Mutant of Broken: a value that is there is checked before it is looked at.
BrokenUnlessMissing(field, value) ==
  IF value = None THEN <<"required">>
  ELSE IF value \in Blank THEN <<>>
  ELSE IF value \notin field.finds THEN <<"pattern">>
  ELSE IF Length[value] < field.min THEN <<"min_length">>
  ELSE IF Length[value] > field.max THEN <<"max_length">>
  ELSE IF field.allowed # <<>> /\ value \notin Options(field) THEN <<"not_an_option">>
  ELSE <<>>

\* _first_broken_rule: every field of a form is required, and blank is missing.
Broken(field, value) ==
  IF value = None \/ value \in Blank THEN <<"required">>
  ELSE IF value \notin field.finds THEN <<"pattern">>
  ELSE IF Length[value] < field.min THEN <<"min_length">>
  ELSE IF Length[value] > field.max THEN <<"max_length">>
  ELSE IF field.allowed # <<>> /\ value \notin Options(field) THEN <<"not_an_option">>
  ELSE <<>>

\* The names that are sent, each once, in the order they were first sent.
FirstNames(values) ==
  LET firsts == Keep([i \in DOMAIN values |-> i], {i \in DOMAIN values :
                  \A j \in 1 .. i - 1 : values[j].name # values[i].name})
  IN  [k \in DOMAIN firsts |-> values[firsts[k]].name]

Errors(names, code) == [i \in DOMAIN names |-> [name |-> names[i], code |-> code]]

\* A name sent twice is reported as that and skipped by every other check.
FieldErrors(schema, values) ==
  LET fields  == FarmerFields(schema)
      twice   == SentTwice(values)
      names   == FirstNames(values)
      onForm  == {f.path : f \in ToSet(fields)}
      Rules(f) == Broken(f, LastSent(f.path, values))
      wrong   == Keep(fields, {f \in ToSet(fields) : f.path \notin twice /\ Rules(f) # <<>>})
  IN  [i \in DOMAIN wrong |-> [name |-> wrong[i].path, code |-> Rules(wrong[i])[1]]]
      \o Errors(Keep(names, twice), "duplicate")
      \o Errors(Keep(names, ToSet(names) \ (twice \cup onForm)), "unknown_field")

\* free_text_of: the prose of a form, moderated like a question.
FreeText(schema, values) ==
  LET fields == Keep(FarmerFields(schema), {f \in ToSet(FarmerFields(schema)) : f.freetext})
  IN  [i \in DOMAIN fields |-> LastSent(fields[i].path, values)]

\* The schema of a context, of those that serve it.
ServedBy(context) == {s \in registry : s.context = context}

ValidateSubmission ==
  /\ registry # None /\ checked = None
  /\ LET found == ServedBy(submission.context)
     IN  IF found = {} THEN checked' = [verdict |-> "unknown", errors |-> <<>>, prose |-> <<>>]
         ELSE \E schema \in found :
                LET errors == FieldErrors(schema, submission.values)
                IN  checked' = [verdict |-> IF errors = <<>> THEN "valid" ELSE "errors",
                                errors  |-> errors,
                                prose   |-> FreeText(schema, submission.values)]
  /\ UNCHANGED <<folder, registry, submission, desk, body, reply, kept>>

-----------------------------------------------------------------------------
\* The call and its reply.

\* _value_for: a fixed value keeps its own type, an option is filed as its text.
ValueFor(field, provider, values) ==
  CASE Source(field) = "fixed"    -> field.allowed[1]
    [] Source(field) = "provider" -> IF field.path = <<"provider", "id">>
                                     THEN provider.id ELSE provider.name
    [] OTHER                      -> LastSent(field.path, values)

\* _set_at, path after path. A value that is set has no place for a path under
\* it; one that is set above others takes theirs.
UnderAValue(fields) ==
  \E i, j \in DOMAIN fields : i < j /\ IsStrictPrefix(fields[i].path, fields[j].path)
PathsOf(schema) == {f.path : f \in ToSet(schema.mustSend)}
Outer(paths) == {p \in paths : \A q \in paths : ~IsStrictPrefix(q, p)}

\* candidates_for_scheme, build_action_attributes: every mustSend path by its
\* source, for a desk that advertises the scheme, or an error nobody catches.
FillBody ==
  /\ checked # None /\ desk = None /\ checked.verdict = "valid"
  /\ \E schema \in ServedBy(submission.context), provider \in Desks :
       /\ provider.scheme = submission.context.scheme
       /\ desk' = provider
       /\ \/ UnderAValue(schema.mustSend) /\ UNCHANGED body
          \/ /\ ~UnderAValue(schema.mustSend)
             /\ body' = [path \in Outer(PathsOf(schema)) |->
                           ValueFor(CHOOSE f \in ToSet(schema.mustSend) : f.path = path,
                                    provider, submission.values)]
  /\ UNCHANGED <<folder, registry, submission, checked, reply, kept>>

\* _delete_at: the node and what is under it, then every parent it empties.
\* Nothing is there to delete when a parent is no object.
Under(path, nodes) == {n \in nodes : IsPrefix(path, n.path)}

\* Mutant of DeleteAt: the parent of the node goes with it.
DeleteWithParent(nodes, path) ==
  IF Len(path) = 1 THEN nodes \ Under(path, nodes)
  ELSE nodes \ Under(SubSeq(path, 1, Len(path) - 1), nodes)

DeleteAt(nodes, path) ==
  LET rest    == nodes \ Under(path, nodes)
      Emptied(n) == \A m \in Under(n.path, rest) : m.path \in Parents(path)
  IN  IF \A p \in Parents(path) : \E n \in nodes : n.path = p /\ n.object
      THEN {n \in rest : n.path \in Parents(path) => ~Emptied(n)}
      ELSE nodes

\* without_farmer_values: each of the farmer's fields, in turn.
Without(nodes, fields) ==
  LET rest[n \in 0 .. Len(fields)] ==
        IF n = 0 THEN nodes ELSE DeleteAt(rest[n - 1], fields[n].path)
  IN  rest[Len(fields)]

KeepReply ==
  /\ body # None /\ reply = None
  /\ \E nodes \in Replies, schema \in ServedBy(submission.context) :
       /\ reply' = nodes
       /\ kept' = Without(nodes, FarmerFields(schema))
  /\ UNCHANGED <<folder, registry, submission, checked, desk, body>>

FormsNext == BuildRegistry \/ ValidateSubmission \/ FillBody \/ KeepReply

FormsSpec == FormsInit /\ [][FormsNext]_fvars

-----------------------------------------------------------------------------
\* The properties.

Readable == {p \in ToSet(folder) : p.kind = "api" /\ ~Skipped(p)}

\* A scheme that needs a step the DSS cannot run is served by no pack, however
\* the packs are ordered, every other context of a readable pack is served
\* once, and a pack that cannot be read costs only its own
\* (build_form_registry).
ServesWhatItCanFinish ==
  registry # None =>
    LET contexts == UNION {{s.context : s \in ToSet(SchemasOf(p))} : p \in Readable}
        stopped  == {c \in contexts : \E d \in contexts :
                       d.action = "init" /\ d.scheme = c.scheme /\ d.category = c.category}
    IN  /\ {s.context : s \in registry} = contexts \ stopped
        /\ \A s, t \in registry : s.context = t.context => s = t

\* What the rules a form has say of a name and the values sent under it.
Faulty(schema, name) ==
  LET sent   == {v.value : v \in {u \in ToSet(submission.values) : u.name = name}}
      fields == {f \in ToSet(FarmerFields(schema)) : f.path = name}
  IN  \/ Sightings(name, submission.values) # 1
      \/ fields = {}
      \/ \E f \in fields, v \in sent :
           \/ v \in Blank \/ v \notin f.finds
           \/ Length[v] \notin f.min .. f.max
           \/ f.allowed # <<>> /\ v \notin Options(f)

ListedOnce(fields) == \A i, j \in DOMAIN fields : fields[i].path = fields[j].path => i = j

\* By the rules a form has of its pack (enum, const, pattern, the lengths): a
\* farmer is handed back every name that is at fault and no other, each once
\* where the pack lists it once. A desk is chosen only for a form with none.
\* Where no path the pack asks for lies under another, and wherever else the call
\* is made, it has each path that lies under no other, and nothing else: the
\* pack's fixed value, the desk's own, or what the farmer sent, an option's text
\* where there are options, prose only if it was moderated.
FiledAsThePackAsks ==
  checked # None => \A schema \in ServedBy(submission.context) :
    LET names  == {f.path : f \in ToSet(FarmerFields(schema))}
                  \cup {v.name : v \in ToSet(submission.values)}
        faulty == {n \in names : Faulty(schema, n)}
        told   == [i \in DOMAIN checked.errors |-> checked.errors[i].name]
        paths  == PathsOf(schema)
    IN  /\ ToSet(told) = faulty
        /\ ListedOnce(schema.mustSend) => Len(told) = Cardinality(faulty)
        /\ desk # None => faulty = {} /\ desk.scheme = submission.context.scheme
        /\ body # None => desk # None
        /\ desk # None /\ (body # None \/ Outer(paths) = paths) =>
             /\ DOMAIN body = Outer(paths)
             /\ \A f \in ToSet(schema.mustSend) : f.path \in Outer(paths) =>
                  CASE Source(f) = "fixed"    -> {body[f.path]} = ToSet(f.allowed)
                    [] Source(f) = "provider" ->
                         body[f.path] = IF Last(f.path) = "id" THEN desk.id ELSE desk.name
                    [] OTHER -> /\ [name |-> f.path, value |-> body[f.path]]
                                     \in ToSet(submission.values)
                                /\ f.allowed # <<>> => body[f.path] \in Options(f)
                                /\ f.freetext => body[f.path] \in ToSet(checked.prose)

\* Each path a pack asks for is read with its rules (DSS_ARCHITECTURE.md, "Forms
\* from API schema packs"; ActionField, "what the pack says about its value"): no
\* value is filed that the pack bars at its path.
FiledWithinThePack ==
  body # None => \A schema \in ServedBy(submission.context) :
    \A f \in ToSet(schema.mustSend) : f.path \in DOMAIN body => body[f.path] \notin f.bars

\* Nothing a desk replies at a path the farmer filled is kept, all that is
\* neither there nor above it is, and no object is left of which only such paths
\* were echoed (without_farmer_values).
TypedValuesAreNotKept ==
  kept # None => \A schema \in ServedBy(submission.context) :
    LET typed == {f.path : f \in ToSet(FarmerFields(schema))}
        Typed(n) == \E p \in typed : IsPrefix(p, n.path)
        Above(n) == \E p \in typed : IsStrictPrefix(n.path, p)
    IN  /\ \A n \in kept : ~Typed(n)
        /\ \A n \in reply : ~Typed(n) /\ ~Above(n) => n \in kept
        /\ \A n \in kept : (\E m \in reply : IsStrictPrefix(n.path, m.path)) =>
             \E m \in kept : IsStrictPrefix(n.path, m.path)
=============================================================================
