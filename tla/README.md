# Verification of the decision support system (DSS)

This directory specifies the DSS of this repository in TLA+, model-checks the
specifications with TLC on small instances, and proves the main safety
properties with TLAPS for every value of the constants. Paths below are
relative to `src/dss/` unless they start with `docs/`.

## The system

A caller posts one turn to `POST /v1/turns` and gets either a stream of
server-sent events or one JSON response. A turn carries text, or a filled-in
form. The DSS judges it, finds providers on an open network, asks them, and
writes an answer; it keeps no conversation itself. Everything runs on one
asyncio event loop: the concurrency is that of tasks interleaving at `await`s,
inside one turn (turns share no state but caches read at start).

| component | state | operations | interacts with |
|---|---|---|---|
| HTTP edge (`adapters/http/v1/`) | the connection, the body read, the frames written | `_admit`, `_decoded_body`, `to_user_turn`, `_frames`, `_single`, `_internal_failure` | drains `TurnRunner.run` |
| Text path (`orchestration/orchestrator.py`, `turn.py`) | one turn's intent, verdict, discovery, evidence, reply | `TextPath.run`, `_run_core`, `run_turn`, the replies | every component below |
| Answer stream (`orchestration/answer_stream.py`, `core/redaction/visibility.py`, `orchestration/translation.py`) | pieces, claims, a held-back tag | `add_piece`, `claim`, `add_block`, `finish`, `feed`, `flush` | between the composer and the edge |
| Form path (`orchestration/form_path.py`, `provider_action.py`) | one form turn | `FormPath.run` and its hand-backs | forms, moderation, discovery, invocation |
| Network invocation (`adapters/invocation/client.py`) | one call's attempts and message ids | `select`, `support`, `status`, `_call_with_retries` | a provider |
| Planner (`orchestration/planner.py`, `plan.py`, `core/provider_preferences/next_choice.py`) | `raw_answers`, `failures`, `next_choices` | the tools `select` and `select_next` | a model, invocation |
| Moderation (`core/moderation/`) | none | `moderate`: the word checks, the model call, the fail modes | a model |
| Intent, places (`core/intent/`, `core/location/`, `adapters/area_lookup/`) | none | `classify_intent`, `resolve_places` | a model, area lookups |
| Discovery (`core/provider_discovery/`, `adapters/discovery/`) | none per turn; indexes read at start | `discover_providers` | the network's catalog |
| Provider preferences (`core/provider_preferences/`, `adapters/provider_preferences/`) | none | `for_sender`, `prioritise` | a registry |
| Redaction (`orchestration/redaction.py`, `core/redaction/`) | a turn's tags | identify, resolve, tag, reveal | identifiers |
| Forms (`core/forms/`) | registry read at start | `build_form_registry`, `validate_submission`, `build_form_call`, `without_farmer_values` | schema packs |
| Schema packs (`config/schema_pack_fetch.py`, `adapters/schema_packs/`, `core/provider_discovery/schema_pack_cache.py`) | a folder shared by the workers; the indexes of each | `fetch_packs`, `_publish`, `fetch_packs` of the source, `refresh` | GitHub, every worker's boot |
| Planner validation (`core/planner/validation.py`, `resource_attributes.py`) | none | `validate_arguments`, `build_resource_attributes` | the model's arguments, schema packs |
| Reply wording (`core/channel/`) | none | fixed replies, localization | a model |
| Translation (`core/translation/`, `orchestration/translation.py`, `config/prompt_service.py`) | none | `translate_in`, `translate_out`, `get_prompt` | a translator |
| Sinks (`adapters/sinks/`) | the audit record | `opened`, `closed` | storage |
| Key-value store (`adapters/key_value/`) | a lease lock | `get`, `set`, `lock` | redis; no turn uses it yet |

What makes the system hard is not its size but its order of events:

- moderation runs beside intent, places and discovery, and what those found must
  not surface when it says no;
- the tool calls of one model response run concurrently over shared evidence, and
  one tool call consults several providers concurrently;
- a provider may act on a message whose answer is lost, or late, and the adapter
  retries;
- the answer streams through three generator layers that end at different times,
  with tags held back at piece boundaries;
- any await may fail, and the caller of a stream may go away at any of them;
- at start, workers fetch the schema packs into one folder beside one another, and
  one may be killed at any file.

What makes each part correct is stated in the modules' property sections, and
`PROJECT.json` lists the hazards at the lines where they bite.

## The modules

`TurnContract` is the abstract specification of a turn: opened on the wire,
recorded as opened, judged, providers called only when cleared, ended once,
with the caller told what the record was closed with - or of an internal
failure, with the record left open. `TextTurn` and `FormTurn` both implement it
by a refinement mapping: `wire` from the stage, `gate` from the verdict,
`outcome` from the terminal frame, `called` from the calls made.

`TextTurn` is one text turn. Its stages (`pc`) are the awaits of `TextPath.run`
and `_run_core`. `mod` and `chain` are the two branches of `run_turn`; `Join` is
the task group's end with the blanking of a held turn. `Refuse`, `ReplyNoMatch`,
`AskWhichPlace`, `ReplyUnserved` and `StartPlan` are the branches of `_run_core`
in their order. `ConsultProvider` abstracts a whole tool call of the planner to
what it adds to the evidence. `WritePiece` to `OfferForm` are the composer or the
translator streaming through `StreamReveal` and `AnswerStream`. `FinishTurn` is
`_record_finished` and the farmer's copy, between which no await lies. `Break`
is any exception out of the turn as the router reports it, and `Disconnect` the
cancellation of a stream's caller. Texts are reduced to whether a reply has
words, which asks it speaks of, and which forms it carries.

`Invocation` is one call through the network adapter: `Call` mints the message
id, `Post` is an attempt, `Answered`, `Unreadable`, `Rejected` and
`TransportError` are what one POST comes back with, `RetriesAfter` and `BackOff`
are `_call_with_retries`. `ProviderActs` and `MessageLost` are the provider's
side, which the code sees only through those returns: it may act at any time
after the message left, whether or not anyone still waits.

`FormTurn` extends `Invocation`: `FormPath.run` with the call beside it.
`AdapterStep` and `ProviderStep` run while the turn stands at its call, and
`Disconnect` there is also the call's `Cancel`.

`Gathering` is what the tool loop promises the evidence: an ask at a time, one
result or some failures or nothing, and nothing lost again. `Planner` implements
it: `calls` are the tool calls with their own progress, `RunTools` is the agent
framework starting a response's calls together, `ConsultAll` the await of the
providers of one select, `UseFirst` and `NothingCameBack` its two ends, and
`SelectNext` the switch. One provider call is taken as the outcome `Invocation`
shows it ends with; `TextTurn` takes a consultation as `Gathering` states it.
So the modules stack: `Invocation` under `Planner` under `TextTurn`, `Invocation`
in `FormTurn`, and both paths under `TurnContract`.

`Discovery` is what `TextTurn` takes in one step as `Discover`, step by step:
`Query` and `Searchable` say what an ask is searched with, `SendQueries` opens the
task group, `Answer` and `Fail` are one query's reply through the adapter,
`Gather` hands the replies back to the asks, drops expired answers and writes the
events, and `Prioritise` applies the ranking the registry gave (`ReadRanking`) or
none (`LoseRanking`). The network's catalogs are a variable fixed at the start, and
`Matches` is the query's filter over them, so that the properties relate what an
ask ends with to what the network lists, not to the replies. That only searched
asks find anyone, which `Discover` assumes, is part of `ServedFromWhereAsked`.
`DiscoveryRaises` and `RankingRaises` are the exceptions the code does not catch:
`AttributeError` out of `map_discover_response` on a catalog that is no object,
`TypeError` out of `_detect_divergence` on null categories and out of the
registry's rows.

`Redaction` and `AnswerText` are the farmer's words on their way in and out,
what `TextTurn` has as `Redact` and as the pieces of `WritePiece`. In `Redaction`
every identifier reads every text at once (`Identify`, one `identify` call
returning); a failure or an unsound span drops the whole identifier (`Drop`);
`Redact` merges, resolves and tags. A character is its position, and a value stands
for all that reads as the same number or word. `AnswerText` is the text itself: a
sequence of the symbols the filters look for, cut by the composer's model wherever
it likes. `CitePiece`, `NumberPiece` and `RevealPiece` are the three filters, each
with the suffix it holds back, and `Write` and `Finish` drive a piece through all
of them. `read` is a history variable that no step reads: the paragraphs
`cite_per_paragraph` has ended, and the one it is in. `ReadsAsWritten` says that
they are the answer, cut at empty lines, with no empty line left inside any, and
that what the farmer is shown is, up to blanks, what `ReadWhole` makes of them,
which reads each paragraph whole and holds nothing back. It is said of the
paragraphs read, since of three newlines or more the cuts decide which two end a
paragraph, and the others stay at its end or at the beginning of the next
(`OneParagraph` allows for them). The identifiers' own patterns, the concealing of
what a provider echoes and a translated stream, which is cut differently but
revealed alike, are left out.

`Places` is what `TextTurn` takes in one step as `ResolvePlaces`, and the turns that
follow when it has to ask. `Lookup` is the chain: the area file (`CsvResolve`), then
the geocoder (`PhotonResolve`), which any lookup may find down; `down` holds the
names it does not answer in a step. `SplitAsk`, `NameAsk` and `LendPlace` are the
passes of `resolve_places`, one ask a step, since each awaits lookups. `Lines` is
the question of `core/channel/service.py`, each line with the candidates it stands
for, and `Pick` the farmer's answer as the intent model copies it into the next
turn's `place_name`; the DSS keeps nothing in between. Case, spacing and the
geocoder's cache are left out: a cache only makes some of these failures rarer.

`SchemaPacks` is the boot of a worker on the packs' folder, beside other workers:
`EnsurePacks` looks for packs, `Download` to `Move` is the fetch, one file written
or removed a step, `ReadFolder` one folder of a walk, and `Refresh`, `Load` and
`Offer` what the three walks come to: the indexes, the planner's schemas, the
forms. `Crash` may fall between any two steps and leaves the temporary folder. A
pack is its files and four facts of what they say; the example files are one, the
unread optional files none. A temporary folder sorts anywhere among the packs'; it is
read last, at once.

`Forms` follows a form: `BuildRegistry` is `build_form_registry` over a folder in any
order, with its withdrawn schemes; `ValidateSubmission` is `validate_submission`, with
every rule of a field; `FillBody` is the body of the call to a desk of the scheme, and
`KeepReply` is `without_farmer_values` of the desk's reply. Paths are sequences of segments, a pattern is
the set of values it finds, and what a pack says of a field in ways `_read_field` does not
read (`not`, `format`, the rules of a provider's id) is the set of values it bars (`bars`).
An option that is no string is offered, sent and filed as its JSON text (`TextOf`), `true`
as `"true"`; a fixed value keeps its type. A path may be listed twice, or lie under
another: set later it fails the call, set earlier it is replaced (`FillBody`).
`FormTurn` takes all this as an outcome. `Selecting` is a
select's arguments in the same way, `ValidateArguments` and `BuildAttributes`, over
JSON values that are records of a kind and of what they hold; `leaves` is `_flatten`,
with paths and stops from the value itself, a recursive function over the values there
are (`Json`). The code compares paths as dotted strings, so a key below the top that is
written as a path counts as the segments it spells (`ReadsAs`, `Segments`), and at the
top is refused. `Planner` takes a select as called.

`Admission` is the request before it is a turn: the gates of `_admit` in their
order (`CheckHeaders`), `ReadChunk` and `EndBody` for `_decoded_body`, and `Parse` and
`MapTurn` for the body's schema and its mapping, over the thread of messages. A chunk is the bytes it has and
those it inflates to; zlib may keep inflated bytes back. `Moderation` is
`moderate`: one word check a step (`CheckWords`), the one batched call (`AskModel`),
and the decision (`Decide`).
`Translation` is what a turn's language does to it: the batch in (`TranslateIn`), which
may come back short or over, the localized replies (`Render`), which await a model
each, and the streamed way out (`StreamPiece`, `ClaimSpoken`), block after block.

`Lists` has the two operators on lists that the others need and proofs reason about:
`Keep`, the members of a list that are in a set, as a comprehension filters, and
`Total`, the sum of a list of sizes. They are recursive functions on the list's
prefixes; a filter or a fold that takes an operator is beyond the provers.

External, and nondeterministic: the models, the agent framework, the providers,
the transport, the caller, the published packs and zlib.

## The runs

| run | module, cfg | bounds | shows |
|---|---|---|---|
| `text_turn` | `MCTextTurn` | 2 asks, 1 piece | all properties of `TextTurn`, the contract, liveness |
| `form_turn` | `MCFormTurn` | 2 attempts, 1 Retry-After time | all properties of `FormTurn`, the contract, liveness |
| `calls` | `MCCalls` | discovery: up to 2 asks of 9 kinds and one triple, 5 networks, 8 registries; plan: 2 asks, 3 candidates, 3 tool calls; call: 3 attempts, 2 Retry-After times | the properties of `Discovery`, `Planner` and `Invocation`, `Gathering`, termination |
| `words` | `MCWords` | see below, module by module | the properties of `Admission`, `Redaction`, `Moderation`, `Places`, `AnswerText`, `Translation` |
| `packs` | `MCPacks` | 2 packs, 2 workers, 3 boots; 16 folders of forms, up to 3 values; 6 offers, up to 2 fields | the properties of `SchemaPacks`, `Forms`, `Selecting` |
| `turn_dropped` | `TextTurnDropped.cfg` | as `text_turn` | violated: a dropped turn is not finished |
| `ask_spoken_to` | `TextTurnSpokenTo.cfg` | as `text_turn` | violated: an ask without a word |
| `filing_hidden` | `FormTurnHidden.cfg` | as `form_turn` | violated: an accepted filing hidden |
| `one_provider` | `PlannerOneProvider.cfg` | as `calls` | violated: two providers answer one ranked ask |
| `silent_pick` | `PlacesSilentPick.cfg` | as `words` | violated: a group's line is answered for one of the group |
| `boots_blind` | `PacksBlind.cfg` | as `packs` | violated: a worker is up and routes to nothing |
| `rules_unread` | `FormsUnread.cfg` | 3 folders, up to 2 values | violated: a value the pack bars is filed |

`calls`, `words` and `packs` each hold several modules that share no variable: a
behaviour of the run is one of them, with the others standing idle (`PlannerIdle`,
`FormsIdle`, ...), so that the state space is their sum and not their product.

Two asks are enough for one to be answered while the other fails, awaits its form
or has no place; three would only repeat a combination. One piece and a held tag
are enough for a flush to follow a piece, the two orders that matter. `MaxPieces`
bounds the pieces of a block, `MaxCalls` the tool calls of a turn: with three, two
selects overlap and a `select_next` falls before, between or after their ends.
In `MCDiscovery` two asks
share a query, differ in place, or one is unsearchable, and the networks hold an
answer in two places, expired answers with and without an offer beside them, offers
in the opposite order of the ranking, and catalogs that cannot be called.
In `MCWords` spans overlap at
equal and at different lengths, a value comes twice, and one span lies outside its
text; the phrases are whole and broken markers, known and unknown sources, blanks,
breaks, held, destroyed and broken tags, and a piece ends inside each of them; an
answer has up to three of them, in pieces of up to three symbols. A request differs
from a plain one in one respect: its headers, a body of up to three plain or four
inflated chunks around a cap of four bytes - one below it, at it, past it, past it in
what zlib keeps back - or a thread of up to three messages. A question is any of up to
three words, under every pack of up to four of six policies: two that strip a word in
common, two that are judged, each open or closed. Four tags are a translated one with
a script and a region, English, one with prompts of its own and one with a broken
prompt beside a longer one past a singleton.
In `MCPacks` two workers are what a race takes, and three boots let one be killed,
leave its folder behind, and another boot on what is there; the workers are
interchangeable, and symmetry is used in this run, which has no liveness. One pack is a
catalog, the other an API pack that names no `@context`; In `boots_blind`
neither is at fault, and two boots are enough. The folders of `MCForms` hold one scheme's filing, the same again,
the challenge that withdraws it before or after it, packs that cannot be read or
served, an option that is no string, and a path under another, before it or after it;
in `rules_unread`, a filing with an enrolment of which a rule is not read.
`MCSelecting` has the shapes of four of the published packs, and a select of
up to two fields, each in its own shape or out of it, a key among them that spells a path
at the top or inside a field.
`MCPlaces` has the shapes of the shipped
area file and of the tests' geocoder replies, named in its comment, and lists of at
most two lines, so that three matches are grouped and a pick may take three turns.
Three candidates give one ask two providers of one `@type` and one of another.
Three attempts are the configured number, enough for a refusal between two
retries. `CHECK_DEADLOCK FALSE` where a turn or a call ends and nothing follows.

Fairness. Liveness is checked under weak fairness of the server's own steps, never
of the provider's or the caller's. The code justifies it: `config/settings.py`
gives every model call, network call and translator call a timeout, so an awaited
step ends one way or the other, and the event loop runs every ready task. In the
planner, the bound `MaxCalls` stands for the model's own limit of requests;
`PlanRaises` is not fair. `FairCalls` asks the same of a plan and of one call. The
other runs have no liveness: their steps are bounded and each enables the next.

Each property of a passing run has a mutant, an operator beside the definition it
would replace, which a plausible slip in the code would amount to; TLC finds the
property violated under it.

## Disagreements with the documentation

The seven violated properties quote what the repository says of itself:

1. `adapters/http/v1/sse.py` 9-11: a dropped turn is finished server-side. The
   cancellation unwinds it and the record stays open.
2. `core/channel/service.py` 52-53: an ask with no line has a question. An ask
   whose place could not be found has neither when no provider serves the turn.
3. `docs/DSS_ARCHITECTURE.md` 435: a DSS failure does not hide an accepted
   obligation. The composer or the record may fail after the provider accepted.
4. `orchestration/planner.py` 228: one ask is answered by one provider. Two
   selects of one response pick the same candidate of a ranked ask, and so run the same
   ranking. The first of its providers fails one of them, which goes on to the second,
   and answers the other; each adds what it got to the ask's answers (188-192).
5. `docs/DSS_ARCHITECTURE.md` 272: if more than one match is left, the question is
   asked again. A picked group line is answered for the match directly in its last
   part. In the shipped `config/areas.csv`, "Fatehpur, Uttar Pradesh" and "Ramgarh,
   Jharkhand" are such lines.
6. `entrypoint/composition.py` 620: a boot is refused when every turn would come back
   no_match. Only a boot that read no pack at all is: one whose only pack is another
   worker's temporary folder, or is left out of both indexes, comes up.
7. `docs/DSS_ARCHITECTURE.md` 292: of each leaf the DSS reads "each `mustSend` path, its
   rules". `_read_field` keeps `enum`, `const`, `pattern` and the lengths. The repository's
   Grievance pack bars twelve digits alone as an `enrolmentId`, "Never an Aadhaar number"
   (`tests/e2e/fixtures/.../Grievance/v0.1/attributes.yaml` 333-334), with a `not`: the
   form accepts one, and it is filed.

Met in the models, with no run of their own:

- "Your complaint was not filed" (`config/defaults/clarification-text.yaml` 19) is
  also said when only the answer was lost; `ports/invocation.py` 108-113 knows of
  the duplicates a retry may make.
- The ranking lookup "Never raises" (`ports/provider_preferences.py` 38), but a
  number where a row's list is expected raises out of it (`RankingRaises`).
  `HttpCapabilityDiscovery.discover` says the same of itself and does not catch
  `AttributeError` (`DiscoveryRaises`).
- "Never split it: ... not an answer for some other place"
  (`core/location/service.py` 119-121) needs the first lookup of the name to be
  answered. When the geocoder fails that one and answers the part's, the pick
  "Nairobi, Kenya, Nakuru" becomes two asks, one of them about the town of Nakuru.
  `PickSettlesItsLine` therefore assumes that the geocoder answers.
- `directly` reads the last part alone (`core/location/service.py` 242-246), so of
  two parts the first may be ignored when a namesake elsewhere sits directly in the
  second.
- "Writing to a temp directory and renaming also makes two workers racing on the same
  directory idempotent" (`config/schema_pack_fetch.py` 124-125). No walk meets half a
  pack (`AppearsWhole`), but the slower worker removes or moves into what the faster
  one put there, and an `OSError` of it ends the boot (`ClearFails`, `MoveFails`).
- "one bad pack in an external checkout must not blind every other capability"
  (`adapters/schema_packs/filesystem.py` 38-40) holds for the defects in `PACK_DEFECTS`;
  examples that are no objects raise `AttributeError`, which ends the boot (`Breaks`).
- A pack whose profile lists no filterable path is routed to, and has no schema a
  select could be checked against (`NoFilters`).
- "The *raw* query is what gets judged" (`core/moderation/service.py` 84), but the
  model is handed the query with the stripped words taken out. A model that fails open
  drops both the stripped query and the warnings.
- "Raise ... if a key path ... is not one of the schema's `filterable` paths ... or holds
  a value the pack does not list" (`core/planner/validation.py` 320-322), but a field the model
  writes as an empty object has no leaf, so neither its name nor its value is looked at.
  It is sent, also under a name the pack does not offer or that has an enum; written so,
  `observationType` is replaced by the one value the provider serves, offered or not
  (`HoldsNothing`, `Serves`).
- "A key is a field name, never a path" (`core/planner/validation.py` 321-323), but only
  the keys at the top are looked at (324-326); `{"market": {"location.geo": ...}}` has the
  path of a field the prices pack can be filtered by, and goes out as it is written.
- "the model could smuggle arbitrary structure past validation" (`core/planner/validation.py`
  141-143) is of leaves. What is inside a value at a nested filterable path is not
  looked at, by intent (153-160): whatever the model writes there goes out.
- "the advertised value winning every conflict" (`core/planner/resource_attributes.py` 129)
  is of objects. In a list it is of items all objects, none of the advertised ones empty:
  one plain item leaves the list as the model wrote it, and an empty advertised item that
  matches first is falsy, so that the model's item stands (`Faithful`). And of a field
  with a path inside it that can be filtered no enum is checked once the model nests its
  value there (`Whole`).

## The proofs

All are for any values of the constants, from the assumptions named in the
modules, which the end of this section lists.

`TextTurnProofs` proves type correctness, the safety properties and the step and
initial-state obligations of `Spec => Contract!CSpec`. The invariant properties are
not inductive by themselves: `ToldTheWholeReply` speaks of the end only. The
strengthening `Inv` says what holds at every stage on the way: that a reply is
settled from the stage it is written at (`ReplyReady`), how far the record is
(`RecordInv`), that nothing read is visible before the verdict is in and blank
after a held one (`GateInv`), what is claimed and still unclaimed at each stage of
streaming (`EdgeInv`), which evidence stands on which call (`EvidenceInv`), and
that a settled status is earned by the evidence it was read off (`EarnedInv`).
`FramesInOrder` needs one more invariant, on the frames sent (`SentInv`).

`FormTurnProofs` begins with the provider call: four safety properties, for any number
of attempts. `HistoryInv` ties the lengths of the attempts and of their outcomes to the phase,
and says that before the end every outcome is a plain transient failure; `IdsInv`
says what the ids are. The turn's own part uses that invariant as it is (`CallStep`: whatever the turn
does, the call takes one of its own steps or none), and adds where the call stands
at each stage (`CallPcInv`), what was found fit by then (`FitInv`), the record, and
that a settled reply tells how the call ended (`ReplyInv`).

`SchemaPacksProofs` proves `AppearsWhole`, `IndexesAgree` and `AloneServesAll` for any packs,
defects, workers and boots, from `PacksAssumption`. `WholeInv` is what the first needs: whatever a
worker has in hand on its way from the download to the move has its essential files, so
the one step that puts a directory where there was none (`OnlyAMoveAppears`) puts a
whole one. The second holds of what is in memory, whatever a walk met: both indexes are
built of the same named packs (`IndexIsNamed`). `AloneInv` says, for a worker that has had
the folder to itself, what it has at each stage: what it fetched is there, what a walk has
read is what stands in the folders before the next (`ReadBefore`), and the index, the
schemas and the forms are what the folder lets it serve. Every other worker is over, so
none but a boot disturbs it (`NobodyElse`), and a boot ends its being alone.
It proves the three properties of `Forms` as well, for any folder, submission, desk and
reply, from `FormsAssumption`. `FormsInv` says that the verdict, the body and what is kept
are each what the form that serves the submission's context makes of the state before it;
the rest is about the functions it is made with. `RegistryIs` is the first property, of
the packs' schemas in a row (`SchemasAre`, `ServableIs`); it also says that one form serves
a context and is well-formed (`OneForm`), which the other two need. `ToldAre` is the second: the
names handed back are in three parts that have none in common, the fields that break a
rule, the names sent twice and the names not on the form. The third is by
induction over the farmer's fields (`WithoutIs`): a deletion takes what is at its path,
spares what is neither under nor above it and leaves no object empty that was not
(`DeletedAt`), and what is left is again the nodes of a JSON object.

`ListsProofs` is about lists, whatever is on them. The library's induction takes an
operator, so induction is done over sets: a set of numbers with 0 that has every
successor has them all (`NatSets`, from the well-foundedness of the order on the
naturals), and so a recursion that is followed up to a length has a solution
(`Recursion`). From it, what `Keep` and `FlattenSeq` return, by position: each member's
place in the list it came from, in the same order (`KeepPlaces`, `FlattenPlaces`), the
k-th kept is the k-th that was to be kept (`KeepCounts`), what is kept of a longer list
(`KeepOfAppend`), sums of longer and longer beginnings (`TotalOfFirst`), and that lists
joined in two parts are the parts joined (`FlattenConcat`, `FlattenParts`).

`AnswerTextProofs` proves `ReadsAsWritten` (`WrittenIsRead`), for any drafts, cuts,
sources, tags and place question. `AnswerInv` chains the filters by what each has been
given: what one has put out is what it would put out if it were given that whole, less
the end it holds (`CitedSo`, `Numbered`, `Revealing`). So the same has to be shown of
three filters when one piece more comes, and it rests on what they hold. Nothing that
may become more is left in what is out (`Holds`), because an end of what is held, cut
short, still may (`Closed`, `HeldStep`). A marker or a tag therefore never lies across
the cut (`MarkersHeld`, `TagsHeld`), and then what is read in two parts is read as one
(`Apart`, `TagsApart`; `PlainJoin`, `NumbersJoin`, `RevealJoin`). A number once given
stays, since later sources are only added after it. `cite_per_paragraph` is harder: it
strips the last blanks of a paragraph where it cites, and has sent some of them already
when a later piece ends it. Its text is therefore not the one read whole, but one that
differs in blanks before citations, and this has to last through the two filters after
it: a blank is a seam, at which two texts are read on their own (`Seam`, `Same`,
`CiteSame`, `CiteLate`). `text.split` is a recursion over the text, followed by
induction over sets (`ParagraphsAre`); that no empty line is left inside a paragraph
needs that half of one is held (`Begun`). Which newlines of a longer run end a paragraph
depends on the cuts, so that no reading of the answer alone has the same paragraphs: the
attempt showed this, and the property now names the paragraphs read, and says how they
lie in the answer.

`PlannerProofs` proves the properties of the tool loop and that it implements
`Gathering`, for any asks, offers and calls. `CallsInv` says what a call at each of
its stages has consulted, and only what its ask may; `AnswersAreSaid` that what is held
of an ask is data some call for it got; `DataAnswers` that a call that got data left
its ask answered, whatever the calls beside it did; `FailuresStand` that each failure
is a call's that got no data at all. A step of the loop is a `Consult` of one ask or a
stutter (`ConsultStep`). It also proves `ModelRewritesNothing`, for any packs, offers and
written arguments. `SelectingInv` says that attributes are built only of arguments that
were found to fit; the rest is about what they are built of. `FittingField` is what
is used of that: each leaf of a field is a path that can be filtered by, and a field that
can be filtered by alone holds nothing or listed values. That no other leaf goes out takes
the leaves of what is made of two values (`NarrowedLeaves`), which are theirs, because the
leaves of a value are those of what it holds, one level down (`LeavesAre`, an induction
over the depth up to `MaxDepth`), or the path of a list of which no item says
anything. `NarrowedFaithfully` and `AttributesAre` are
the laying of the model's part over the provider's and of the turn's over both. The
attempt showed the property to say too much: it had held of the shapes of
`MCSelecting`, but not of a pack with a field both whole and nested, of a list with an empty
item, or of an empty object under an enum where nothing is advertised. It now names what
the code lets through.

`DiscoveryProofs` proves the four properties of discovery for any networks, asks and
registries. `InputsInv` types what was read, `QueriesInv` that
each query is in flight or has an answer, or a failure, of its own, and `ResultInv` that
an ask holds what its query's answer holds (`FoundAs`), in the order and under the
lists the ranking gave (`RankedAs`). A provider named twice in a ranking stands where
it was named last (`Stands`), as the dictionary of the code has it.

`WordsProofs` has five parts. *Redaction* (`RedactedByRank`, `OneTagPerValue`): the
spans of a text in the order `Outranks` gives them, which the finite number before
each numbers without gaps (`RankFacts`); what is chosen among the first so many is
settled (`Settled`, by induction on the rank). Values are numbered by the first span of
each, so that two numbers are equal only where the values are (`NumbersDiffer`).
*Moderation* (`FailsTheWayThePolicySays`): the query is the question less
the words of the policies checked, and the warnings are those policies that were the first to list
a word of it (`CleanedInv`). *Admission* (`AdmittedWithinTheCap`,
`ActsOnTheLastWord`): what is held and what zlib owes are together what the chunks
read make (`BodyInv`), and a problem has its reason (`EndInv`). *Translation*
(`EachTextInItsPlace`, `RenderedInTheirLanguage`): an accepted batch is the whole batch,
and the k-th text sent takes its k-th result (`BatchFits`); the wire is a claim for
each block said, in order, and then the pieces so far of the next (`WireInv`). That a
prompt is the farmer's own language's follows from what a tag's forms are
(`FormsBegin`, `ClosestIs`). *Places* (`NeverAnotherPlace`, `HereIsTheFarmer`), for any
area file, geocoder, texts and failures: whatever the chain answers is a match the
sources know, a guess only where the file has no better (`FoundAre`), each narrowing of
it keeps to it (`NestedAre`, `LeftAre`), and so what one text comes to is right
(`NamedWell`). `PlacedInv` says that each place is what its text came to as it was looked
up, with the names the geocoder left unanswered then, and that an ask without a name has
`Lent`, by the order of trust (`LentWell`): the device's point, else the one place the
farmer's area names, else the first sibling's, else none. While the geocoder answers that is
the same for all of them. It need not be when
the geocoder fails: where the farmer's area is a name only the geocoder knows, one ask may
take that area and the next, asked while the geocoder is down, a sibling's place or none.
`HereIsTheFarmer` says so, and `MCPlaces` has such an area.

The type invariants (`TypeOK`, `InvocationTypeOK`, `FormTypeOK`, `PacksTypeOK`,
`PlannerTypeOK`) are proved and not listed in the runs: what a run would show of
them, the proofs show.

Assumed of the constants, in the modules that declare them and evaluated by TLC: that
lists, sets and numbers are such (`MaxPieces` and `MaxCalls` are numbers, `Attempts` is
positive); that a model value that stands for nothing is no value; that what is inside a
JSON value, or made of two, is one, that none is deeper than `MaxDepth`, and that the turn's
own fields of any select are neither `location` nor `validity` nor written as paths (`Selecting`); that places are named apart (`Discovery`); that no policy
of a pack is called as a way of deciding (`Moderation`); that a chunk of a plain body
makes what it has, and that the requests are requests (`Admission`); that digits, tag
names and the word are apart from blanks and brackets, that there are as many numerals
as known sources, and that the place question, which is area names in core's own words,
has neither brackets nor tags (`AnswerText`); that tags have subtags, English is one
subtag with a prompt that works, and that what a language is translated to is not itself
translated (`Translation`); and that the nothing-value is neither a value nor a desk, that the text of a value is
a string, whose text is itself, that a path a leaf lists twice says the same twice, as
it is one definition, and that a desk's reply is a JSON object, so that what has a path has
objects above it (`Forms`).

Only model-checked: liveness (temporal reasoning under fairness is beyond the backends),
and `PickSettlesItsLine`, which depends on the area file and the geocoder's data (a file
with two rows of one name and one surrounding would ask for ever).

## Not modelled, and the plan

In order:

1. The lease lock of `adapters/key_value/`, if a turn comes to use it.
2. The cache and the loading of the area lookups, and the intent model's parsing.

Left out for good: the outgoing wire mapping, prompts and rendering (pure data,
covered by the repository's tests), model adapters (external), observability (optional
by design), and of configuration and composition all but what `SchemaPacks` and
`Translation` take of them (run once, at start).
