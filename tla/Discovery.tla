------------------------------ MODULE Discovery ------------------------------
(***************************************************************************)
(* What discovery finds for the asks of one turn: one query for each       *)
(* distinct thing the asks need, all of them sent at once, each answered   *)
(* or failed on its own, the replies handed back to every ask that shares  *)
(* the query, and what was found ordered and cut to the sender's ranking   *)
(* (discover_providers, HttpCapabilityDiscovery, build_discover_providers, *)
(* prioritise, RegistryProviderPreferences).                               *)
(*                                                                         *)
(* The network's catalogs and the registry's rows are what they are when   *)
(* the turn reads them; who fails, and in which order the replies come,    *)
(* is nondeterministic.                                                    *)
(***************************************************************************)
EXTENDS Naturals, SequencesExt, Lists

CONSTANTS
  Categories,   \* the subject categories an ask may carry
  Scheme,       \* the one discovered on its category alone
  Grievance,    \* the one matched by its @type, Complaint
  Complaint,
  Types,        \* the @types the mounted schema packs declare
  Index,        \* the capability index: category -> action type -> @types
  PlaceBound,   \* the @types whose packs need a place
  Points,       \* the coordinates a place can resolve to
  Providers,
  Questions,    \* the sequences of asks a turn may hold
  Networks,     \* the sequences of catalogs the network may publish
  Registries    \* what the registry may hold for the sender and by default

ActionTypes == {"Knowledge", "Service"}
Place       == Points \cup {"none", "ambiguous", "unresolved"}
Ask         == [category : Categories,
                interaction : {"advise", "observe", "act"},
                place : Place]
Resource    == [category : Categories, type : Types,
                mode : {"Direct", "OnDemand"},
                area : Points \cup {"anywhere"},
                live : BOOLEAN]   \* now is within its validity
Catalog     == [provider : Providers, addressable : BOOLEAN,
                resources : Seq(Resource)]
\* A capability key without a ranking maps to the empty sequence.
Ranked      == [Categories -> Seq(Providers)]
Rows        == [own : Ranked, default : Ranked]

ASSUME ConstantsAssumption ==
  /\ {Scheme, Grievance} \subseteq Categories /\ Complaint \in Types
  /\ Index \in [Categories -> [ActionTypes -> SUBSET Types]]
  /\ PlaceBound \subseteq Types
  /\ Points \cap {"none", "ambiguous", "unresolved"} = {}
  /\ Questions \subseteq Seq(Ask)
  /\ Networks \subseteq Seq(Catalog)
  /\ Registries \subseteq Rows

VARIABLES
  asks,       \* the turn's asks, their places resolved
  network,    \* the catalogs published
  registry,   \* the sender's row and the default one
  pc,         \* where discover stands
  inflight,   \* the queries in flight
  replies,    \* the reply each answered query got
  result,     \* DiscoveryResult
  events,     \* its events
  priorities  \* DiscoveryResult.priorities

inputs == <<asks, network, registry>>
qvars  == <<inputs, pc, inflight, replies, result, events, priorities>>

Positions == DOMAIN asks
Finding   == [provider : Providers, resource : Resource]
Nothing   == [answers |-> <<>>, capabilities |-> <<>>, failures |-> {}]
Unranked  == [ranking |-> <<>>, kept |-> {}, dropped |-> {}]

DiscoveryInit ==
  /\ asks \in Questions /\ network \in Networks /\ registry \in Registries
  /\ pc = "ask"
  /\ inflight = {}
  /\ replies = <<>>
  /\ result = [i \in DOMAIN asks |-> Nothing]
  /\ events = {}
  /\ priorities = [i \in DOMAIN asks |-> Unranked]

-----------------------------------------------------------------------------
\* Which asks are searched, and with which query.

ActionType(interaction) ==
  IF interaction = "advise" THEN "Knowledge" ELSE "Service"

CapabilityTypes(ask) == Index[ask.category][ActionType(ask.interaction)]

PlaceFailed(ask) == ask.place \in {"ambiguous", "unresolved"}

Unresolved(ask) == CapabilityTypes(ask) = {} /\ ask.category # Scheme

\* Mutant of Searchable: a place that failed to resolve is read as no place.
SearchableAnywhere(ask) == ~Unresolved(ask)

Searchable(ask) == ~PlaceFailed(ask) /\ ~Unresolved(ask)

\* One placeless @type is enough to send no spatial filter.
Query(ask) ==
  [types    |-> CapabilityTypes(ask),
   category |-> ask.category,
   coverage |-> IF CapabilityTypes(ask) \subseteq PlaceBound
                   /\ ask.place \in Points
                THEN ask.place ELSE "none"]

Searched      == {i \in Positions : Searchable(asks[i])}
UniqueQueries == {Query(asks[i]) : i \in Searched}

-----------------------------------------------------------------------------
\* The network, as one query sees it, and the adapter's reading of it.

\* A spatial filter drops a resource that names no coverage area; the
\* envelope's schemaContext pins the @type when one resolved.
Matches(query, resource) ==
  /\ IF query.category = Grievance
     THEN resource.type = Complaint /\ resource.mode = "OnDemand"
     ELSE resource.category = query.category
  /\ query.types # {} => resource.type \in query.types
  /\ query.coverage # "none" => resource.area = query.coverage

Matching(query, catalog) ==
  Keep(catalog.resources, {r \in Resource : Matches(query, r)})

InMode(catalog, query, mode) ==
  LET inMode == Keep(Matching(query, catalog), {r \in Resource : r.mode = mode})
  IN  [k \in DOMAIN inMode |->
         [provider |-> catalog.provider, resource |-> inMode[k]]]

Offered(query, mode) ==
  FlattenSeq([k \in DOMAIN network |->
                IF network[k].addressable
                THEN InMode(network[k], query, mode) ELSE <<>>])

\* A catalog that names no BPP is dropped whole: one failure per @type.
RejectedTypes(query) ==
  UNION {{r.type : r \in ToSet(Matching(query, network[k]))} :
           k \in {j \in DOMAIN network : ~network[j].addressable}}

FailedLabels(query) ==
  IF query.types = {} THEN {query.category} ELSE query.types

Mapped(query) ==
  [answers      |-> Offered(query, "Direct"),
   capabilities |-> Offered(query, "OnDemand"),
   failures     |-> RejectedTypes(query)]

FailedReply(query) == [Nothing EXCEPT !.failures = FailedLabels(query)]

-----------------------------------------------------------------------------
\* discover_providers.

SendQueries ==
  /\ pc = "ask"
  /\ pc' = "sending"
  /\ inflight' = UniqueQueries
  /\ UNCHANGED <<inputs, replies, result, events, priorities>>

Settle(query, reply) ==
  /\ pc = "sending" /\ query \in inflight
  /\ inflight' = inflight \ {query}
  /\ replies' = [q \in DOMAIN replies \cup {query} |->
                   IF q = query THEN reply ELSE replies[q]]
  /\ UNCHANGED <<inputs, pc, result, events, priorities>>

Answer(query) == Settle(query, Mapped(query))

\* Mutant of Fail: the first failure cancels the siblings in flight.
FailTogether(query) ==
  /\ pc = "sending" /\ query \in inflight
  /\ inflight' = {}
  /\ replies' = [q \in DOMAIN replies \cup inflight |->
                   IF q \in DOMAIN replies THEN replies[q]
                   ELSE IF q = query THEN FailedReply(q) ELSE Nothing]
  /\ UNCHANGED <<inputs, pc, result, events, priorities>>

\* An unbuildable request, an HTTP or transport error, a malformed response.
Fail(query) == Settle(query, FailedReply(query))

\* What the adapter does not catch (a catalog that is no object) cancels the
\* siblings and raises out of the task group; so does, once they are in, an
\* answer whose own categories are null.
DiscoveryRaises ==
  /\ pc = "sending" /\ UniqueQueries # {}
  /\ pc' = "raised"
  /\ inflight' = {}
  /\ UNCHANGED <<inputs, replies, result, events, priorities>>

Live(findings) == Keep(findings, {f \in Finding : f.resource.live})

Fresh(reply) == [reply EXCEPT !.answers = Live(reply.answers)]

HasFallback(reply, answer) ==
  \E c \in ToSet(reply.capabilities) :
     c.provider = answer.provider /\ c.resource.type = answer.resource.type

ExpiredEvents(reply) ==
  {[kind |-> "expired", finding |-> a, fallback |-> HasFallback(reply, a)] :
     a \in {b \in ToSet(reply.answers) : ~b.resource.live}}

FoundNobody(reply) == reply.answers = <<>> /\ reply.capabilities = <<>>

\* Mutant of OutcomeEvents: read before the expired answers are dropped.
OutcomeBeforeExpiry(i, reply) ==
  IF reply.failures # {} THEN {[kind |-> "failed", ask |-> i]}
  ELSE IF FoundNobody(reply) THEN {[kind |-> "unservable", ask |-> i]}
  ELSE {}

OutcomeEvents(i, reply) ==
  IF reply.failures # {} THEN {[kind |-> "failed", ask |-> i]}
  ELSE IF FoundNobody(Fresh(reply)) THEN {[kind |-> "unservable", ask |-> i]}
  ELSE {}

UnresolvedEvents ==
  {[kind |-> "unresolved", category |-> asks[i].category,
    action |-> ActionType(asks[i].interaction)] :
     i \in {j \in Positions : ~PlaceFailed(asks[j]) /\ Unresolved(asks[j])}}

\* The task group is over: every ask gets its own query's reply, an ask
\* that was not searched gets an empty entry.
Gather ==
  /\ pc = "sending" /\ inflight = {}
  /\ pc' = "ranking"
  /\ result' = [i \in Positions |->
                  IF i \in Searched THEN Fresh(replies[Query(asks[i])])
                  ELSE Nothing]
  /\ events' = UnresolvedEvents
               \cup UNION {ExpiredEvents(replies[Query(asks[i])])
                           \cup OutcomeEvents(i, replies[Query(asks[i])]) :
                             i \in Searched}
  /\ UNCHANGED <<inputs, inflight, replies, priorities>>

-----------------------------------------------------------------------------
\* The sender's ranking.

\* Mutant of Ranking: the default's providers follow the sender's own.
RankingJoined(rows, category) == rows.own[category] \o rows.default[category]

\* PreferenceBook.for_sender: the sender's own list, the default's where it
\* ranked nothing; the two never join.
Ranking(rows, category) ==
  IF rows.own[category] # <<>> THEN rows.own[category]
  ELSE rows.default[category]

\* A provider a row names twice stands where it is named last.
Ordered(findings, ranking) ==
  FlattenSeq([k \in DOMAIN ranking |->
     IF \E j \in DOMAIN ranking : j > k /\ ranking[j] = ranking[k]
     THEN <<>>
     ELSE Keep(findings, {f \in Finding : f.provider = ranking[k]})])

BestOnly(findings) ==
  Keep(findings, {f \in Finding : f.provider = findings[1].provider})

Present(found) ==
  {f.provider : f \in ToSet(found.answers) \cup ToSet(found.capabilities)}

Prioritised(found, ranking) ==
  IF ranking = <<>> THEN found
  ELSE [found EXCEPT
          !.answers      = BestOnly(Ordered(found.answers, ranking)),
          !.capabilities = Ordered(found.capabilities, ranking)]

Priority(found, ranking) ==
  IF ranking = <<>> THEN Unranked
  ELSE [ranking |-> ranking,
        kept    |-> Present(found) \cap ToSet(ranking),
        dropped |-> Present(found) \ ToSet(ranking)]

\* prioritise, over what the lookup read.
Prioritise(rows) ==
  /\ pc = "ranking"
  /\ pc' = "done"
  /\ result' = [i \in Positions |->
        Prioritised(result[i], Ranking(rows, asks[i].category))]
  /\ priorities' = [i \in Positions |->
        Priority(result[i], Ranking(rows, asks[i].category))]
  /\ UNCHANGED <<inputs, inflight, replies, events>>

NoRows == [own     |-> [c \in Categories |-> <<>>],
           default |-> [c \in Categories |-> <<>>]]

ReadRanking == Prioritise(registry)

\* A search that errors, times out or is no JSON counts as no rows.
LoseRanking == Prioritise(NoRows)

\* A row whose lists are no lists raises out of the lookup.
RankingRaises ==
  /\ pc = "ranking"
  /\ pc' = "raised"
  /\ UNCHANGED <<inputs, inflight, replies, result, events, priorities>>

\* The moderation branch beside this one raised, or the caller went away.
CancelDiscovery ==
  /\ pc \in {"sending", "ranking"}
  /\ pc' = "cancelled"
  /\ inflight' = {}
  /\ UNCHANGED <<inputs, replies, result, events, priorities>>

DiscoveryNext ==
  \/ SendQueries
  \/ \E query \in inflight : Answer(query) \/ Fail(query)
  \/ DiscoveryRaises \/ Gather
  \/ ReadRanking \/ LoseRanking \/ RankingRaises
  \/ CancelDiscovery

DiscoverySpec == DiscoveryInit /\ [][DiscoveryNext]_qvars

-----------------------------------------------------------------------------
\* What discovery promises.

FoundFor(i) == ToSet(result[i].answers) \cup ToSet(result[i].capabilities)

\* The network lists the finding, in a catalog that can be called.
Listed(f) ==
  \E k \in DOMAIN network :
     /\ network[k].addressable /\ network[k].provider = f.provider
     /\ f.resource \in ToSet(network[k].resources)

\* The resource is of the ask's own kind, and about its place where every
\* type the ask needs depends on one.
Serves(resource, ask) ==
  /\ \/ resource.category = ask.category /\ ask.category # Grievance
     \/ /\ ask.category = Grievance
        /\ resource.type = Complaint /\ resource.mode = "OnDemand"
  /\ CapabilityTypes(ask) # {} => resource.type \in CapabilityTypes(ask)
  /\ (ask.place \in Points /\ CapabilityTypes(ask) \subseteq PlaceBound)
       => resource.area = ask.place

\* Nobody is found for an ask but those the network lists for its own
\* category and place, and no answer outside its validity is kept: an ask
\* with an ambiguous or unknown place is never served from elsewhere, and no
\* ask gets a reply that was another's (_find_asks_to_discover, _send_queries).
ServedFromWhereAsked ==
  \A i \in Positions : \A f \in FoundFor(i) :
     /\ ~PlaceFailed(asks[i])
     /\ Listed(f) /\ Serves(f.resource, asks[i])
     /\ f \in ToSet(result[i].answers) => f.resource.live

\* The ask's own query failed as a whole.
LostToFailure(i) == result[i].failures # {} /\ FoundFor(i) = {}

\* Where a ranking puts a provider: where it names it last (_order's positions).
Stands(ranking, k, p) ==
  ranking[k] = p /\ \A j \in DOMAIN ranking : ranking[j] = p => j <= k

Before(ranking, p, q) ==
  \E j, k \in DOMAIN ranking : j < k /\ Stands(ranking, j, p) /\ Stands(ranking, k, q)

\* A better-ranked provider gave the ask its direct answer.
Outranked(i, f) ==
  /\ f.resource.mode = "Direct"
  /\ \E g \in ToSet(result[i].answers) :
       Before(priorities[i].ranking, g.provider, f.provider)

\* Whatever the network lists for an ask that could be searched is found,
\* unless its own query failed, the ranking left its provider out, or a
\* better-ranked provider answers instead. A failing sibling query, a failed
\* ranking lookup or an unaddressable catalog costs it nothing
\* (HttpCapabilityDiscovery.discover, RegistryProviderPreferences._search).
NothingIsLost ==
  pc = "done" =>
    \A i \in Positions : \A k \in DOMAIN network :
      \A r \in ToSet(network[k].resources) :
        LET f == [provider |-> network[k].provider, resource |-> r]
        IN  (/\ ~PlaceFailed(asks[i])
             /\ CapabilityTypes(asks[i]) # {} \/ asks[i].category = Scheme
             /\ network[k].addressable
             /\ Serves(r, asks[i])
             /\ r.mode = "Direct" => r.live)
            => \/ f \in FoundFor(i) \/ LostToFailure(i)
               \/ f.provider \in priorities[i].dropped
               \/ Outranked(i, f)

\* An ask left with nobody is accounted for: its place failed, its category
\* resolves to no @type, its query failed, nobody serves it, or the ranking
\* dropped everyone found (build_outcome_events, AskPriority.dropped).
EmptyIsExplained ==
  pc = "done" =>
    \A i \in Positions :
      FoundFor(i) = {} =>
        \/ PlaceFailed(asks[i])
        \/ [kind |-> "unresolved", category |-> asks[i].category,
            action |-> ActionType(asks[i].interaction)] \in events
        \/ [kind |-> "failed", ask |-> i] \in events
        \/ [kind |-> "unservable", ask |-> i] \in events
        \/ priorities[i].dropped # {}

\* A ranked ask is served by ranked providers only, best first, and its direct
\* answers by one of them, a runner-up's never blended in; the list that ranks
\* it is the sender's own where it has one, else the default's, never the two
\* joined (prioritise, _best_provider_only, PreferenceBook.for_sender).
RankedServeRanked ==
  pc = "done" =>
    \A i \in Positions :
      LET own     == registry.own[asks[i].category]
          ranking == priorities[i].ranking
          answers == ToSet(result[i].answers)
          offers  == result[i].capabilities
      IN  /\ ranking \in
               {<<>>, IF own = <<>> THEN registry.default[asks[i].category]
                      ELSE own}
          /\ ranking # <<>> =>
               /\ \A f \in FoundFor(i) : f.provider \in ToSet(ranking)
               /\ \A f, g \in answers : f.provider = g.provider
               /\ \A j, k \in DOMAIN offers :
                    Before(ranking, offers[j].provider, offers[k].provider)
                      => j < k
=============================================================================
