--------------------------- MODULE DiscoveryProofs ---------------------------
(***************************************************************************)
(* Discovery's four promises, for any capability index, any network, any   *)
(* registry and any number of asks.                                        *)
(***************************************************************************)
EXTENDS Discovery, ListsProofs

-----------------------------------------------------------------------------
\* What a query finds.

\* What the adapter reads for one mode is what the callable catalogs list of
\* it that the query matches.
LEMMA InModeFacts ==
  ASSUME NEW catalog \in Catalog, NEW query, NEW mode
  PROVE  /\ InMode(catalog, query, mode) \in Seq(Finding)
         /\ \A f : f \in ToSet(InMode(catalog, query, mode)) <=>
              /\ f \in Finding /\ f.provider = catalog.provider
              /\ f.resource \in ToSet(catalog.resources)
              /\ Matches(query, f.resource) /\ f.resource.mode = mode
<1> DEFINE listed  == catalog.resources
           matches == {r \in Resource : Matches(query, r)}
           inMode  == {r \in Resource : r.mode = mode}
           s       == Keep(Keep(listed, matches), inMode)
           found   == [k \in DOMAIN s |-> [provider |-> catalog.provider, resource |-> s[k]]]
<1>1. listed \in Seq(Resource) /\ catalog.provider \in Providers
  BY DEF Catalog
<1>2. /\ s \in Seq(Resource)
      /\ \A r : r \in ToSet(s) <=> r \in ToSet(listed) /\ r \in matches /\ r \in inMode
  <2> HIDE DEF listed, matches, inMode
  <2>1. /\ Keep(listed, matches) \in Seq(Resource)
        /\ \A r : r \in ToSet(Keep(listed, matches)) <=> r \in ToSet(listed) /\ r \in matches
    BY <1>1, KeepWhere
  <2>2. /\ s \in Seq(Resource)
        /\ \A r : r \in ToSet(s) <=> r \in ToSet(Keep(listed, matches)) /\ r \in inMode
    BY <2>1, KeepWhere
  <2> QED BY <2>1, <2>2
<1>3. InMode(catalog, query, mode) = found
  BY DEF InMode, Matching
<1>4. ToSet(listed) \subseteq Resource
  BY <1>1 DEF ToSet
<1>5. \A r : r \in ToSet(s) <=> /\ r \in ToSet(listed) /\ Matches(query, r)
                               /\ r.mode = mode
  BY <1>2, <1>4
<1> HIDE DEF s
<1>6. DOMAIN s = 1 .. Len(s) /\ Len(s) \in Nat /\ \A k \in DOMAIN s : s[k] \in Resource
  BY <1>2
<1>7. found \in Seq(Finding)
  <2>1. \A k \in 1 .. Len(s) : [provider |-> catalog.provider, resource |-> s[k]] \in Finding
    BY <1>1, <1>6 DEF Finding
  <2>2. found \in [1 .. Len(s) -> Finding]
    BY <1>6, <2>1
  <2> HIDE DEF found
  <2> QED BY <1>6, <2>2
<1>8. \A f : f \in ToSet(found) <=>
         f \in Finding /\ f.provider = catalog.provider /\ f.resource \in ToSet(s)
  <2>1. \A f : f \in ToSet(found) <=>
           \E k \in DOMAIN s : f = [provider |-> catalog.provider, resource |-> s[k]]
    BY DEF ToSet
  <2>2. \A f : (\E k \in DOMAIN s : f = [provider |-> catalog.provider, resource |-> s[k]])
           <=> \E r \in ToSet(s) : f = [provider |-> catalog.provider, resource |-> r]
    BY DEF ToSet
  <2>3. \A r \in ToSet(s) : r \in Resource
    BY <1>6 DEF ToSet
  <2>4. \A f : (\E r \in ToSet(s) : f = [provider |-> catalog.provider, resource |-> r])
           <=> f \in Finding /\ f.provider = catalog.provider /\ f.resource \in ToSet(s)
    BY <1>1, <2>3 DEF Finding
  <2> QED BY <2>1, <2>2, <2>4
<1> HIDE DEF found
<1> QED BY <1>3, <1>5, <1>7, <1>8

\* The network lists it in a catalog that can be called, and the query matches.
Offers(query, f) ==
  f \in Finding /\ Listed(f) /\ Matches(query, f.resource)

\* What the network offers a query in one mode, over all its catalogs.
LEMMA OfferedFacts ==
  ASSUME network \in Seq(Catalog), NEW query, NEW mode
  PROVE  /\ Offered(query, mode) \in Seq(Finding)
         /\ \A f : f \in ToSet(Offered(query, mode)) <=>
              Offers(query, f) /\ f.resource.mode = mode
<1> DEFINE one(k) == IF network[k].addressable
                     THEN InMode(network[k], query, mode) ELSE <<>>
           seqs == [k \in DOMAIN network |-> one(k)]
<1>1. /\ DOMAIN network = 1 .. Len(network) /\ Len(network) \in Nat
      /\ \A k \in DOMAIN network : network[k] \in Catalog
  OBVIOUS
<1>2. ASSUME NEW k \in DOMAIN network
      PROVE  /\ one(k) \in Seq(Finding)
             /\ \A f : f \in ToSet(one(k)) <=>
                  /\ network[k].addressable
                  /\ f \in Finding /\ f.provider = network[k].provider
                  /\ f.resource \in ToSet(network[k].resources)
                  /\ Matches(query, f.resource) /\ f.resource.mode = mode
  <2>1. network[k] \in Catalog
    BY <1>1
  <2>2. /\ InMode(network[k], query, mode) \in Seq(Finding)
        /\ \A f : f \in ToSet(InMode(network[k], query, mode)) <=>
             /\ f \in Finding /\ f.provider = network[k].provider
             /\ f.resource \in ToSet(network[k].resources)
             /\ Matches(query, f.resource) /\ f.resource.mode = mode
    BY <2>1, InModeFacts
  <2>3. CASE network[k].addressable
    BY <2>2, <2>3
  <2>4. CASE ~network[k].addressable
    <3>1. one(k) = <<>> /\ ToSet(<<>>) = {}
      BY <2>4 DEF ToSet
    <3> QED BY <2>4, <3>1
  <2> QED BY <2>3, <2>4
<1> HIDE DEF one
<1>3. seqs \in Seq(Seq(Finding)) /\ DOMAIN seqs = DOMAIN network
  <2>1. seqs \in [1 .. Len(network) -> Seq(Finding)]
    BY <1>1, <1>2
  <2> HIDE DEF seqs
  <2> QED BY <1>1, <2>1
<1>4. \A k \in DOMAIN network : seqs[k] = one(k)
  OBVIOUS
<1>5. Offered(query, mode) = FlattenSeq(seqs)
  BY DEF Offered, one
<1> HIDE DEF seqs
<1>6. /\ FlattenSeq(seqs) \in Seq(Finding)
      /\ \A f : f \in ToSet(FlattenSeq(seqs)) <=>
           \E k \in DOMAIN network : f \in ToSet(one(k))
  BY <1>3, <1>4, FlattenWhere
<1>7. \A f : f \in ToSet(FlattenSeq(seqs)) <=> Offers(query, f) /\ f.resource.mode = mode
  BY <1>2, <1>6 DEF Offers, Listed
<1> QED BY <1>5, <1>6, <1>7

\* The live ones of a list of findings.
LEMMA LiveFacts ==
  ASSUME NEW findings \in Seq(Finding)
  PROVE  /\ Live(findings) \in Seq(Finding)
         /\ \A f : f \in ToSet(Live(findings)) <=> f \in ToSet(findings) /\ f.resource.live
<1> DEFINE K == {f \in Finding : f.resource.live}
<1>1. ToSet(findings) \subseteq Finding
  BY DEF ToSet
<1>2. /\ Keep(findings, K) \in Seq(Finding)
      /\ \A f : f \in ToSet(Keep(findings, K)) <=> f \in ToSet(findings) /\ f \in K
  <2> HIDE DEF K
  <2> QED BY KeepWhere
<1> QED BY <1>1, <1>2 DEF Live

\* What an answered query hands over, once the expired answers are dropped.
LEMMA FreshMapped ==
  ASSUME network \in Seq(Catalog), NEW query
  PROVE  LET found == Fresh(Mapped(query))
         IN  /\ found.answers \in Seq(Finding) /\ found.capabilities \in Seq(Finding)
             /\ found = [answers |-> found.answers, capabilities |-> found.capabilities,
                         failures |-> RejectedTypes(query)]
             /\ \A f : f \in ToSet(found.answers) <=>
                  Offers(query, f) /\ f.resource.mode = "Direct" /\ f.resource.live
             /\ \A f : f \in ToSet(found.capabilities) <=>
                  Offers(query, f) /\ f.resource.mode = "OnDemand"
<1> DEFINE direct == Offered(query, "Direct")
           onDemand == Offered(query, "OnDemand")
<1>1. /\ direct \in Seq(Finding)
      /\ \A f : f \in ToSet(direct) <=> Offers(query, f) /\ f.resource.mode = "Direct"
  BY OfferedFacts
<1>2. /\ onDemand \in Seq(Finding)
      /\ \A f : f \in ToSet(onDemand) <=> Offers(query, f) /\ f.resource.mode = "OnDemand"
  BY OfferedFacts
<1>3. Fresh(Mapped(query)) = [answers |-> Live(direct), capabilities |-> onDemand,
                              failures |-> RejectedTypes(query)]
  BY DEF Fresh, Mapped
<1> HIDE DEF direct, onDemand
<1>4. /\ Live(direct) \in Seq(Finding)
      /\ \A f : f \in ToSet(Live(direct)) <=> f \in ToSet(direct) /\ f.resource.live
  BY <1>1, LiveFacts
<1> QED BY <1>1, <1>2, <1>3, <1>4

\* What a failed query hands over: nobody, and a failure.
LEMMA FreshFailed ==
  ASSUME NEW query
  PROVE  /\ Fresh(FailedReply(query)) = FailedReply(query)
         /\ FailedReply(query).answers = <<>> /\ FailedReply(query).capabilities = <<>>
         /\ FailedReply(query).failures # {}
<1>1. FailedReply(query) = [answers |-> <<>>, capabilities |-> <<>>,
                       failures |-> FailedLabels(query)]
  BY DEF FailedReply, Nothing
<1>2. Live(<<>>) = <<>>
  BY KeepOfNothing DEF Live
<1>3. FailedLabels(query) # {}
  BY DEF FailedLabels
<1> HIDE DEF FailedReply
<1> QED BY <1>1, <1>2, <1>3 DEF Fresh

-----------------------------------------------------------------------------
\* The sender's ranking over a list of findings.

\* A provider the ranking names stands somewhere: where it is named last.
LEMMA LastNamed ==
  ASSUME NEW ranking \in Seq(Providers), NEW p \in ToSet(ranking)
  PROVE  \E k \in DOMAIN ranking : Stands(ranking, k, p)
<1> DEFINE N == Len(ranking)
           T == {k \in 1 .. N : ranking[k] = p}
<1>1. N \in Nat /\ DOMAIN ranking = 1 .. N
  OBVIOUS
<1>2. T # {}
  BY <1>1 DEF ToSet
<1>3. PICK k \in T : \A j \in T : j <= k
  <2>1. T \subseteq 0 .. N
    BY <1>1
  <2> HIDE DEF T, N
  <2> QED BY <1>1, <1>2, <2>1, LargestOf
<1>4. k \in DOMAIN ranking /\ Stands(ranking, k, p)
  BY <1>1, <1>3 DEF Stands
<1> QED BY <1>4

\* The ranked findings: those whose provider the ranking names, in the order
\* it names the providers last.
LEMMA OrderedFacts ==
  ASSUME NEW findings \in Seq(Finding), NEW ranking \in Seq(Providers)
  PROVE  LET list == Ordered(findings, ranking)
         IN  /\ list \in Seq(Finding)
             /\ \A f : f \in ToSet(list) <=>
                  f \in ToSet(findings) /\ f.provider \in ToSet(ranking)
             /\ \A i, j \in DOMAIN list : i < j =>
                  ~ Before(ranking, list[j].provider, list[i].provider)
             /\ \A i, j \in DOMAIN list :
                  i < j /\ list[i].provider # list[j].provider
                    => Before(ranking, list[i].provider, list[j].provider)
<1> DEFINE kept(k) == Keep(findings, {f \in Finding : f.provider = ranking[k]})
           again(k) == \E j \in DOMAIN ranking : j > k /\ ranking[j] = ranking[k]
           one(k) == IF again(k) THEN <<>> ELSE kept(k)
           seqs == [k \in DOMAIN ranking |-> one(k)]
           list == FlattenSeq(seqs)
<1>1. /\ DOMAIN ranking = 1 .. Len(ranking) /\ Len(ranking) \in Nat
      /\ ToSet(findings) \subseteq Finding
  BY DEF ToSet
<1>2. Ordered(findings, ranking) = list
  BY DEF Ordered
<1>3. ASSUME NEW k \in DOMAIN ranking
      PROVE  again(k) <=> ~ Stands(ranking, k, ranking[k])
  BY <1>1 DEF Stands
<1>4. ASSUME NEW k \in DOMAIN ranking
      PROVE  /\ one(k) \in Seq(Finding)
             /\ \A f : f \in ToSet(one(k)) <=>
                  f \in ToSet(findings) /\ Stands(ranking, k, f.provider)
  <2> DEFINE K == {f \in Finding : f.provider = ranking[k]}
  <2>1. /\ Keep(findings, K) \in Seq(Finding)
        /\ \A f : f \in ToSet(Keep(findings, K)) <=> f \in ToSet(findings) /\ f \in K
    <3> HIDE DEF K
    <3> QED BY KeepWhere
  <2>2. CASE again(k)
    <3>1. one(k) = <<>> /\ ToSet(<<>>) = {}
      BY <2>2 DEF ToSet
    <3>2. \A p : ~ Stands(ranking, k, p)
      BY <1>3, <2>2 DEF Stands
    <3> HIDE DEF one
    <3> QED BY <3>1, <3>2
  <2>3. CASE ~again(k)
    <3>1. one(k) = Keep(findings, K)
      BY <2>3
    <3>2. \A p : Stands(ranking, k, p) <=> p = ranking[k]
      BY <1>3, <2>3 DEF Stands
    <3> HIDE DEF one
    <3> QED BY <1>1, <2>1, <3>1, <3>2
  <2> QED BY <2>2, <2>3
<1> HIDE DEF one
<1>5. seqs \in Seq(Seq(Finding)) /\ DOMAIN seqs = DOMAIN ranking /\ Len(seqs) = Len(ranking)
  <2>1. seqs \in [1 .. Len(ranking) -> Seq(Finding)]
    BY <1>1, <1>4
  <2> HIDE DEF seqs
  <2> QED BY <1>1, <2>1
<1>6. \A k \in DOMAIN ranking : seqs[k] = one(k)
  OBVIOUS
<1> HIDE DEF seqs
<1>7. /\ list \in Seq(Finding)
      /\ \A f : f \in ToSet(list) <=> \E k \in DOMAIN ranking : f \in ToSet(one(k))
  BY <1>5, <1>6, FlattenWhere
<1>8. PICK from : TakenFrom(list, seqs, Len(seqs), from)
  BY <1>5, FlattenPlaces
<1> HIDE DEF list
<1>9. \A f : f \in ToSet(list) <=> f \in ToSet(findings) /\ f.provider \in ToSet(ranking)
  <2>1. ASSUME NEW f, f \in ToSet(list)
        PROVE  f \in ToSet(findings) /\ f.provider \in ToSet(ranking)
    <3>1. PICK k \in DOMAIN ranking : f \in ToSet(one(k))
      BY <2>1, <1>7
    <3>2. f \in ToSet(findings) /\ f.provider = ranking[k]
      BY <3>1, <1>4 DEF Stands
    <3> QED BY <3>1, <3>2 DEF ToSet
  <2>2. ASSUME NEW f, f \in ToSet(findings), f.provider \in ToSet(ranking)
        PROVE  f \in ToSet(list)
    <3>1. PICK k \in DOMAIN ranking : Stands(ranking, k, f.provider)
      BY <2>2, LastNamed
    <3> QED BY <2>2, <3>1, <1>4, <1>7
  <2> QED BY <2>1, <2>2
<1>10. /\ DOMAIN list = 1 .. Len(list) /\ Len(list) \in Nat
       /\ \A i \in DOMAIN list : /\ from[i] \in DOMAIN ranking
                                 /\ Stands(ranking, from[i], list[i].provider)
       /\ \A i, j \in DOMAIN list : i < j => from[i] <= from[j]
  <2>1. DOMAIN list = 1 .. Len(list) /\ Len(list) \in Nat
    BY <1>7
  <2>2. ASSUME NEW i \in DOMAIN list
        PROVE  from[i] \in DOMAIN ranking /\ Stands(ranking, from[i], list[i].provider)
    <3>1. /\ from[i] \in DOMAIN ranking
          /\ \E m \in 1 .. Len(seqs[from[i]]) : list[i] = seqs[from[i]][m]
      BY <1>1, <1>5, <1>8, <2>1 DEF TakenFrom
    <3>2. seqs[from[i]] \in Seq(Finding) /\ seqs[from[i]] = one(from[i])
      BY <1>4, <1>6, <3>1
    <3>3. list[i] \in ToSet(one(from[i]))
      BY <3>1, <3>2 DEF ToSet
    <3> QED BY <1>4, <3>1, <3>3
  <2> QED BY <2>1, <2>2, <1>8 DEF TakenFrom
<1>11. \A j, k \in DOMAIN ranking : \A p :
          Stands(ranking, j, p) /\ Stands(ranking, k, p) => j = k
  BY <1>1 DEF Stands
<1>12. ASSUME NEW i \in DOMAIN list, NEW j \in DOMAIN list, i < j
       PROVE  ~ Before(ranking, list[j].provider, list[i].provider)
  <2>1. from[i] <= from[j] /\ from[i] \in Nat /\ from[j] \in Nat
    BY <1>1, <1>10, <1>12
  <2> SUFFICES ASSUME NEW k \in DOMAIN ranking, NEW l \in DOMAIN ranking, k < l,
                      Stands(ranking, k, list[j].provider),
                      Stands(ranking, l, list[i].provider)
               PROVE  FALSE
    BY DEF Before
  <2>2. k = from[j] /\ l = from[i]
    BY <1>10, <1>11
  <2> QED BY <2>1, <2>2
<1>13. ASSUME NEW i \in DOMAIN list, NEW j \in DOMAIN list, i < j,
              list[i].provider # list[j].provider
       PROVE  Before(ranking, list[i].provider, list[j].provider)
  <2>1. from[i] <= from[j] /\ from[i] \in Nat /\ from[j] \in Nat
    BY <1>1, <1>10, <1>13
  <2>2. from[i] # from[j]
    BY <1>10, <1>13 DEF Stands
  <2> QED BY <1>10, <2>1, <2>2 DEF Before
<1> QED BY <1>2, <1>7, <1>9, <1>12, <1>13

\* A provider has one place in a ranking.
LEMMA NotBeforeItself ==
  ASSUME NEW ranking \in Seq(Providers), NEW p
  PROVE  ~ Before(ranking, p, p)
<1>1. DOMAIN ranking \subseteq Nat
  OBVIOUS
<1> QED BY <1>1 DEF Before, Stands

\* The best provider's findings alone.
LEMMA BestFacts ==
  ASSUME NEW list \in Seq(Finding)
  PROVE  /\ BestOnly(list) \in Seq(Finding)
         /\ \A f : f \in ToSet(BestOnly(list)) <=>
              f \in ToSet(list) /\ f.provider = list[1].provider
         /\ list # <<>> => list[1] \in ToSet(BestOnly(list))
<1> DEFINE K == {f \in Finding : f.provider = list[1].provider}
<1>1. ToSet(list) \subseteq Finding /\ (list # <<>> => list[1] \in ToSet(list))
  BY EmptySeq DEF ToSet
<1>2. /\ Keep(list, K) \in Seq(Finding)
      /\ \A f : f \in ToSet(Keep(list, K)) <=> f \in ToSet(list) /\ f \in K
  <2> HIDE DEF K
  <2> QED BY KeepWhere
<1> QED BY <1>1, <1>2 DEF BestOnly

\* The entry r is what the ranking leaves of what was found, as p records it.
RankedSo(found, r, p) ==
  /\ r.answers \in Seq(Finding) /\ r.capabilities \in Seq(Finding)
  /\ r.failures = found.failures
  /\ ToSet(r.answers) \subseteq ToSet(found.answers)
  /\ ToSet(r.capabilities) \subseteq ToSet(found.capabilities)
  /\ \A f \in ToSet(found.capabilities) :
       f \in ToSet(r.capabilities) \/ f.provider \in p.dropped
  /\ \A f \in ToSet(found.answers) :
       \/ f \in ToSet(r.answers) \/ f.provider \in p.dropped
       \/ \E g \in ToSet(r.answers) : Before(p.ranking, g.provider, f.provider)
  /\ p.ranking # <<>> =>
       /\ \A f \in ToSet(r.answers) \cup ToSet(r.capabilities) :
            f.provider \in ToSet(p.ranking)
       /\ \A f, g \in ToSet(r.answers) : f.provider = g.provider
       /\ \A j, k \in DOMAIN r.capabilities :
            Before(p.ranking, r.capabilities[j].provider, r.capabilities[k].provider)
              => j < k

\* What the ranking makes of a result, and what the record says it did.
LEMMA PrioritisedFacts ==
  ASSUME NEW answers \in Seq(Finding), NEW capabilities \in Seq(Finding), NEW failures,
         NEW ranking \in Seq(Providers)
  PROVE  LET found == [answers |-> answers, capabilities |-> capabilities,
                       failures |-> failures]
         IN  /\ RankedSo(found, Prioritised(found, ranking), Priority(found, ranking))
             /\ Priority(found, ranking).ranking = ranking
<1> DEFINE found == [answers |-> answers, capabilities |-> capabilities,
                     failures |-> failures]
           r == Prioritised(found, ranking)
           p == Priority(found, ranking)
<1>1. found.answers = answers /\ found.capabilities = capabilities /\ found.failures = failures
  OBVIOUS
<1>2. CASE ranking = <<>>
  <2>1. r = found /\ p.ranking = ranking
    BY <1>2 DEF Prioritised, Priority, Unranked
  <2> HIDE DEF r, p
  <2>2. r.answers = answers /\ r.capabilities = capabilities /\ r.failures = failures
    BY <2>1
  <2>3. RankedSo(found, r, p)
    <3> HIDE DEF found
    <3> QED BY <1>1, <1>2, <2>1, <2>2 DEF RankedSo
  <2> QED BY <2>1, <2>3 DEF r, p
<1>3. CASE ranking # <<>>
  <2> DEFINE list  == Ordered(answers, ranking)
             best  == BestOnly(list)
             offers == Ordered(capabilities, ranking)
  <2>1. /\ list \in Seq(Finding)
        /\ \A f : f \in ToSet(list) <=>
             f \in ToSet(answers) /\ f.provider \in ToSet(ranking)
        /\ \A i, j \in DOMAIN list :
             i < j /\ list[i].provider # list[j].provider
               => Before(ranking, list[i].provider, list[j].provider)
    BY OrderedFacts
  <2>2. /\ offers \in Seq(Finding)
        /\ \A f : f \in ToSet(offers) <=>
             f \in ToSet(capabilities) /\ f.provider \in ToSet(ranking)
        /\ \A i, j \in DOMAIN offers : i < j =>
             ~ Before(ranking, offers[j].provider, offers[i].provider)
    BY OrderedFacts
  <2>3. /\ r = [answers |-> best, capabilities |-> offers, failures |-> failures]
        /\ p.ranking = ranking
        /\ p.dropped = {f.provider : f \in ToSet(answers) \cup ToSet(capabilities)}
                         \ ToSet(ranking)
    BY <1>3 DEF Prioritised, Priority, Present
  <2> HIDE DEF list, offers, r, p
  <2>4. /\ best \in Seq(Finding)
        /\ \A f : f \in ToSet(best) <=>
             f \in ToSet(list) /\ f.provider = list[1].provider
        /\ list # <<>> => list[1] \in ToSet(best)
    BY <2>1, BestFacts
  <2> HIDE DEF best
  <2>5. r.answers = best /\ r.capabilities = offers /\ r.failures = failures
    BY <2>3
  <2>6. ASSUME NEW f \in ToSet(capabilities)
        PROVE  f \in ToSet(offers) \/ f.provider \in p.dropped
    BY <2>2, <2>3
  <2>7. ASSUME NEW f \in ToSet(answers)
        PROVE  \/ f \in ToSet(best) \/ f.provider \in p.dropped
               \/ \E g \in ToSet(best) : Before(ranking, g.provider, f.provider)
    <3> SUFFICES ASSUME f \notin ToSet(best), f.provider \notin p.dropped
                 PROVE  \E g \in ToSet(best) : Before(ranking, g.provider, f.provider)
      OBVIOUS
    <3>1. f \in ToSet(list) /\ f.provider # list[1].provider
      BY <2>1, <2>3, <2>4
    <3>2. PICK n \in DOMAIN list : list[n] = f
      BY <3>1 DEF ToSet
    <3>3. 1 \in DOMAIN list /\ n # 1 /\ 1 < n /\ list # <<>>
      BY <2>1, <3>1, <3>2
    <3>4. Before(ranking, list[1].provider, f.provider)
      BY <2>1, <3>1, <3>2, <3>3
    <3> QED BY <2>4, <3>3, <3>4
  <2>8. ASSUME NEW j \in DOMAIN offers, NEW k \in DOMAIN offers,
               Before(ranking, offers[j].provider, offers[k].provider)
        PROVE  j < k
    <3>1. j \in Nat /\ k \in Nat
      BY <2>2
    <3>2. j # k
      BY <2>8, NotBeforeItself
    <3>3. ~ (k < j)
      BY <2>2, <2>8
    <3> QED BY <3>1, <3>2, <3>3
  <2>9. ToSet(best) \subseteq ToSet(answers) /\ ToSet(offers) \subseteq ToSet(capabilities)
    BY <2>1, <2>2, <2>4
  <2>10. /\ \A f \in ToSet(best) \cup ToSet(offers) : f.provider \in ToSet(ranking)
         /\ \A f, g \in ToSet(best) : f.provider = g.provider
    BY <2>1, <2>2, <2>4
  <2>11. RankedSo(found, r, p)
    <3> HIDE DEF found
    <3> QED BY <1>1, <2>2, <2>3, <2>4, <2>5, <2>6, <2>7, <2>8, <2>9, <2>10 DEF RankedSo
  <2> QED BY <2>3, <2>11 DEF r, p
<1> QED BY <1>2, <1>3

-----------------------------------------------------------------------------
\* The invariant.

\* The replies a query may get.
Replies(query) == {Mapped(query), FailedReply(query)}

\* What was found for an ask before anything was ranked, and what was said.
FoundAs(i, found) ==
  \/ /\ i \in Searched
     /\ \E reply \in Replies(Query(asks[i])) :
          found = Fresh(reply) /\ OutcomeEvents(i, reply) \subseteq events
  \/ i \notin Searched /\ found = Nothing

RankedAs(i, found) ==
  \E rows \in {registry, NoRows} :
    LET ranking == Ranking(rows, asks[i].category)
    IN  /\ result[i] = Prioritised(found, ranking)
        /\ priorities[i] = Priority(found, ranking)

InputsInv ==
  asks \in Seq(Ask) /\ network \in Seq(Catalog) /\ registry \in Rows

\* Every query in flight or answered is one the asks need, and an answered one
\* got a reply to it; before the gather, every query is one or the other.
QueriesInv ==
  /\ inflight \subseteq UniqueQueries
  /\ DOMAIN replies \subseteq UniqueQueries
  /\ \A q \in DOMAIN replies : replies[q] \in Replies(q)
  /\ pc = "sending" => UniqueQueries \subseteq DOMAIN replies \cup inflight

ResultInv ==
  /\ DOMAIN result = Positions
  /\ pc \in {"ask", "sending"} => \A i \in Positions : result[i] = Nothing
  /\ pc = "ranking" =>
       UnresolvedEvents \subseteq events /\ \A i \in Positions : FoundAs(i, result[i])
  /\ pc = "done" =>
       /\ UnresolvedEvents \subseteq events
       /\ \A i \in Positions : \E found : FoundAs(i, found) /\ RankedAs(i, found)
  /\ pc \in {"raised", "cancelled"} =>
       \A i \in Positions : result[i] = Nothing \/ FoundAs(i, result[i])

DiscoveryInv ==
  /\ pc \in {"ask", "sending", "ranking", "done", "raised", "cancelled"}
  /\ InputsInv /\ QueriesInv /\ ResultInv

\* What is read off the inputs stays as they do.
LEMMA InputsStay ==
  ASSUME UNCHANGED inputs
  PROVE  /\ InputsInv => InputsInv'
         /\ Positions' = Positions /\ Searched' = Searched
         /\ UniqueQueries' = UniqueQueries /\ UnresolvedEvents' = UnresolvedEvents
         /\ \A q : Mapped(q)' = Mapped(q)
<1>1. asks' = asks /\ network' = network /\ registry' = registry
  BY DEF inputs
<1>2. \A q, mode : Offered(q, mode)' = Offered(q, mode)
  BY <1>1 DEF Offered
<1>3. \A q : RejectedTypes(q)' = RejectedTypes(q)
  BY <1>1 DEF RejectedTypes
<1>4. \A q : Mapped(q)' = Mapped(q)
  BY <1>2, <1>3 DEF Mapped
<1>5. Positions' = Positions /\ Searched' = Searched /\ UniqueQueries' = UniqueQueries
  BY <1>1 DEF Positions, Searched, UniqueQueries
<1>6. UnresolvedEvents' = UnresolvedEvents
  BY <1>1 DEF UnresolvedEvents, Positions
<1> QED BY <1>1, <1>4, <1>5, <1>6 DEF InputsInv

\* What was found stays found while the events do.
LEMMA FoundStays ==
  ASSUME UNCHANGED inputs, events' = events, NEW i, NEW found
  PROVE  FoundAs(i, found) => FoundAs(i, found)'
<1>1. asks' = asks
  BY DEF inputs
<1> QED BY <1>1, InputsStay DEF FoundAs, Replies

\* Before the first query nothing is found and nothing is sent.
LEMMA DiscoveryInitInv == DiscoveryInit => DiscoveryInv
<1> SUFFICES ASSUME DiscoveryInit PROVE DiscoveryInv
  OBVIOUS
<1>1. InputsInv
  BY ConstantsAssumption DEF DiscoveryInit, InputsInv
<1>2. QueriesInv
  BY DEF DiscoveryInit, QueriesInv
<1>3. ResultInv
  BY DEF DiscoveryInit, ResultInv, Positions
<1> QED BY <1>1, <1>2, <1>3 DEF DiscoveryInit, DiscoveryInv

\* A query is answered, or fails.
LEMMA SettleKeeps ==
  ASSUME DiscoveryInv, NEW query, NEW reply \in Replies(query), Settle(query, reply)
  PROVE  DiscoveryInv'
<1>1. /\ pc = "sending" /\ query \in inflight /\ inflight' = inflight \ {query}
      /\ replies' = [q \in DOMAIN replies \cup {query} |->
                       IF q = query THEN reply ELSE replies[q]]
      /\ UNCHANGED inputs /\ pc' = pc /\ result' = result /\ events' = events
  BY DEF Settle
<1>2. InputsInv'
  BY <1>1, InputsStay DEF DiscoveryInv
<1>3. \A q : Replies(q)' = Replies(q)
  BY <1>1, InputsStay DEF Replies
<1>4. QueriesInv'
  BY <1>1, <1>3, InputsStay DEF DiscoveryInv, QueriesInv
<1>5. ResultInv'
  BY <1>1, InputsStay DEF DiscoveryInv, ResultInv
<1> QED BY <1>1, <1>2, <1>4, <1>5 DEF DiscoveryInv

\* Every ask gets its own query's reply.
LEMMA GatherKeeps ==
  ASSUME DiscoveryInv, Gather
  PROVE  DiscoveryInv'
<1>1. /\ pc = "sending" /\ inflight = {} /\ pc' = "ranking"
      /\ UNCHANGED inputs /\ inflight' = inflight /\ replies' = replies
      /\ asks' = asks
  BY DEF Gather, inputs
<1>2. InputsInv'
  BY <1>1, InputsStay DEF DiscoveryInv
<1>3. \A q : Replies(q)' = Replies(q)
  BY <1>1, InputsStay DEF Replies
<1>4. QueriesInv'
  BY <1>1, <1>3, InputsStay DEF DiscoveryInv, QueriesInv
<1>5. UnresolvedEvents' \subseteq events'
  BY <1>1, InputsStay DEF Gather
<1>6. ASSUME NEW i \in Positions PROVE FoundAs(i, result[i])'
  <2> DEFINE q == Query(asks[i])
  <2>1. result'[i] = IF i \in Searched THEN Fresh(replies[q]) ELSE Nothing
    BY DEF Gather
  <2>2. CASE i \in Searched
    <3>1. q \in UniqueQueries
      BY <2>2 DEF UniqueQueries
    <3>2. replies[q] \in Replies(q)
      BY <1>1, <3>1 DEF DiscoveryInv, QueriesInv
    <3>3. OutcomeEvents(i, replies[q]) \subseteq events'
      BY <2>2 DEF Gather
    <3> HIDE DEF q
    <3>4. \E reply \in Replies(q) :
             result'[i] = Fresh(reply) /\ OutcomeEvents(i, reply) \subseteq events'
      BY <2>1, <2>2, <3>2, <3>3
    <3> QED BY <2>2, <3>4, <1>1, <1>3, InputsStay DEF FoundAs, q
  <2>3. CASE i \notin Searched
    BY <2>1, <2>3, <1>1, InputsStay DEF FoundAs
  <2> QED BY <2>2, <2>3
<1>7. ResultInv'
  <2>1. DOMAIN result' = Positions
    BY DEF Gather
  <2> QED BY <1>1, <1>5, <1>6, <2>1, InputsStay DEF ResultInv
<1> QED BY <1>1, <1>2, <1>4, <1>7 DEF DiscoveryInv

\* The ranking is laid over what was found.
LEMMA PrioritiseKeeps ==
  ASSUME DiscoveryInv, NEW rows, rows = registry \/ rows = NoRows, Prioritise(rows)
  PROVE  DiscoveryInv'
<1>1. /\ pc = "ranking" /\ pc' = "done" /\ UNCHANGED inputs
      /\ inflight' = inflight /\ replies' = replies /\ events' = events
      /\ asks' = asks /\ registry' = registry
  BY DEF Prioritise, inputs
<1>2. InputsInv'
  BY <1>1, InputsStay DEF DiscoveryInv
<1>3. \A q : Replies(q)' = Replies(q)
  BY <1>1, InputsStay DEF Replies
<1>4. QueriesInv'
  BY <1>1, <1>3, InputsStay DEF DiscoveryInv, QueriesInv
<1>5. ASSUME NEW i \in Positions
      PROVE  \E found : FoundAs(i, found)' /\ RankedAs(i, found)'
  <2> PICK found : found = result[i]
    OBVIOUS
  <2>1. FoundAs(i, found)
    BY <1>1 DEF DiscoveryInv, ResultInv
  <2>2. FoundAs(i, found)'
    BY <1>1, <2>1, FoundStays
  <2>3. /\ result'[i] = Prioritised(found, Ranking(rows, asks[i].category))
        /\ priorities'[i] = Priority(found, Ranking(rows, asks[i].category))
    BY DEF Prioritise
  <2>4. RankedAs(i, found)'
    BY <1>1, <2>3 DEF RankedAs
  <2> QED BY <2>2, <2>4
<1>6. ResultInv'
  <2>1. DOMAIN result' = Positions
    BY DEF Prioritise
  <2>2. UnresolvedEvents' \subseteq events'
    BY <1>1, InputsStay DEF DiscoveryInv, ResultInv
  <2> QED BY <1>1, <1>5, <2>1, <2>2, InputsStay DEF ResultInv
<1> QED BY <1>1, <1>2, <1>4, <1>6 DEF DiscoveryInv

\* The branch ends early: it raises, or is cancelled.
LEMMA StopKeeps ==
  ASSUME DiscoveryInv, DiscoveryRaises \/ RankingRaises \/ CancelDiscovery
  PROVE  DiscoveryInv'
<1>1. /\ pc \in {"sending", "ranking"} /\ pc' \in {"raised", "cancelled"}
      /\ UNCHANGED inputs /\ inflight' \subseteq inflight /\ replies' = replies
      /\ result' = result /\ events' = events
  BY DEF DiscoveryRaises, RankingRaises, CancelDiscovery
<1>2. InputsInv'
  BY <1>1, InputsStay DEF DiscoveryInv
<1>3. \A q : Replies(q)' = Replies(q)
  BY <1>1, InputsStay DEF Replies
<1>4. QueriesInv'
  BY <1>1, <1>3, InputsStay DEF DiscoveryInv, QueriesInv
<1>5. ASSUME NEW i \in Positions PROVE result[i] = Nothing \/ FoundAs(i, result[i])'
  <2> PICK found : found = result[i]
    OBVIOUS
  <2>1. found = Nothing \/ FoundAs(i, found)
    BY <1>1 DEF DiscoveryInv, ResultInv
  <2>2. FoundAs(i, found) => FoundAs(i, found)'
    BY <1>1, FoundStays
  <2>3. FoundAs(i, result[i])' <=> FoundAs(i, found)'
    BY <1>1 DEF FoundAs
  <2> QED BY <2>1, <2>2, <2>3
<1>6. ResultInv'
  BY <1>1, <1>5, InputsStay DEF DiscoveryInv, ResultInv
<1> QED BY <1>1, <1>2, <1>4, <1>6 DEF DiscoveryInv

\* Every step keeps the invariant.
LEMMA DiscoveryStepInv == DiscoveryInv /\ [DiscoveryNext]_qvars => DiscoveryInv'
<1> SUFFICES ASSUME DiscoveryInv, [DiscoveryNext]_qvars PROVE DiscoveryInv'
  OBVIOUS
<1>1. CASE SendQueries
  <2>1. /\ pc = "ask" /\ pc' = "sending" /\ inflight' = UniqueQueries
        /\ UNCHANGED inputs /\ replies' = replies /\ result' = result
        /\ events' = events
    BY <1>1 DEF SendQueries
  <2>2. \A q : Replies(q)' = Replies(q)
    BY <2>1, InputsStay DEF Replies
  <2>3. InputsInv' /\ QueriesInv'
    BY <2>1, <2>2, InputsStay DEF DiscoveryInv, QueriesInv
  <2>4. ResultInv'
    BY <2>1, InputsStay DEF DiscoveryInv, ResultInv
  <2> QED BY <2>1, <2>3, <2>4 DEF DiscoveryInv
<1>2. ASSUME NEW query, Answer(query) \/ Fail(query) PROVE DiscoveryInv'
  BY <1>2, SettleKeeps DEF Answer, Fail, Replies
<1>3. CASE Gather
  BY <1>3, GatherKeeps
<1>4. CASE ReadRanking \/ LoseRanking
  <2>1. PICK rows : (rows = registry \/ rows = NoRows) /\ Prioritise(rows)
    BY <1>4 DEF ReadRanking, LoseRanking
  <2> QED BY <2>1, PrioritiseKeeps
<1>5. CASE DiscoveryRaises \/ RankingRaises \/ CancelDiscovery
  BY <1>5, StopKeeps
<1>6. CASE UNCHANGED qvars
  <2>1. /\ UNCHANGED inputs /\ pc' = pc /\ inflight' = inflight /\ replies' = replies
        /\ result' = result /\ events' = events /\ priorities' = priorities
        /\ asks' = asks /\ registry' = registry
    BY <1>6 DEF qvars, inputs
  <2>2. \A q : Replies(q)' = Replies(q)
    BY <2>1, InputsStay DEF Replies
  <2>3. InputsInv' /\ QueriesInv'
    BY <2>1, <2>2, InputsStay DEF DiscoveryInv, QueriesInv
  <2>4. \A i, found : FoundAs(i, found)' <=> FoundAs(i, found)
    BY <2>1, <2>2, InputsStay DEF FoundAs
  <2>5. \A i, found : RankedAs(i, found)' <=> RankedAs(i, found)
    BY <2>1 DEF RankedAs
  <2>6. \A i : FoundAs(i, result[i])' <=> FoundAs(i, result[i])
    BY <2>1, <2>2, InputsStay DEF FoundAs
  <2>7. ResultInv'
    BY <2>1, <2>4, <2>5, <2>6, InputsStay DEF DiscoveryInv, ResultInv
  <2> QED BY <2>1, <2>3, <2>7 DEF DiscoveryInv
<1> QED BY <1>1, <1>2, <1>3, <1>4, <1>5, <1>6 DEF DiscoveryNext

\* Where every query stands, and that what an ask shows is what its own query
\* found, as the ranking left it, holds at every step (service.py,
\* provider_preferences).
THEOREM DiscoveryInvariance == DiscoverySpec => []DiscoveryInv
<1> QED BY DiscoveryInitInv, DiscoveryStepInv, PTL DEF DiscoverySpec

-----------------------------------------------------------------------------
\* What the four properties need of a found entry.

\* The query an ask sends matches what serves the ask, and nothing else.
LEMMA QueryServes ==
  ASSUME NEW ask \in Ask, NEW r
  PROVE  Matches(Query(ask), r) <=> Serves(r, ask)
<1> DEFINE types == CapabilityTypes(ask)
           about == IF types \subseteq PlaceBound /\ ask.place \in Points
                    THEN ask.place ELSE "none"
           query == Query(ask)
<1>1. query.types = types /\ query.category = ask.category /\ query.coverage = about
  BY DEF Query
<1>2. about # "none" <=> ask.place \in Points /\ types \subseteq PlaceBound
  BY ConstantsAssumption
<1>3. about # "none" => about = ask.place
  OBVIOUS
<1> HIDE DEF query, types, about
<1>4. Matches(query, r) <=>
        /\ IF ask.category = Grievance
           THEN r.type = Complaint /\ r.mode = "OnDemand"
           ELSE r.category = ask.category
        /\ types # {} => r.type \in types
        /\ about # "none" => r.area = about
  BY <1>1 DEF Matches
<1>5. Serves(r, ask) <=>
        /\ \/ r.category = ask.category /\ ask.category # Grievance
           \/ /\ ask.category = Grievance
              /\ r.type = Complaint /\ r.mode = "OnDemand"
        /\ types # {} => r.type \in types
        /\ (ask.place \in Points /\ types \subseteq PlaceBound) => r.area = ask.place
  BY DEF Serves, types
<1> QED BY <1>2, <1>3, <1>4, <1>5 DEF query

\* The network lists it for the ask, whose place did not fail.
Suits(i, f) ==
  i \in Searched /\ f \in Finding /\ Listed(f) /\ Serves(f.resource, asks[i])

\* What a found entry holds: lists of findings that suit the ask, answers that
\* are live, and all of them unless the query failed.
Holds(i, found) ==
  /\ found.answers \in Seq(Finding) /\ found.capabilities \in Seq(Finding)
  /\ found = [answers |-> found.answers, capabilities |-> found.capabilities,
              failures |-> found.failures]
  /\ \A f \in ToSet(found.answers) : Suits(i, f) /\ f.resource.live
  /\ \A f \in ToSet(found.capabilities) : Suits(i, f)
  /\ \/ \A f : Suits(i, f) =>
          \/ f.resource.mode = "OnDemand" /\ f \in ToSet(found.capabilities)
          \/ f.resource.mode = "Direct" /\ (f.resource.live => f \in ToSet(found.answers))
     \/ ToSet(found.answers) = {} /\ ToSet(found.capabilities) = {} /\ found.failures # {}

\* An ask that was not searched holds nothing, and nothing suits it.
LEMMA NothingHolds ==
  ASSUME NEW i, i \notin Searched
  PROVE  Holds(i, Nothing)
<1> DEFINE none == Nothing
<1>1. none = [answers |-> <<>>, capabilities |-> <<>>, failures |-> {}]
  BY DEF Nothing
<1> HIDE DEF none
<1>2. none.answers = <<>> /\ none.capabilities = <<>> /\ ToSet(<<>>) = {}
      /\ <<>> \in Seq(Finding) /\ none = [answers |-> none.answers,
           capabilities |-> none.capabilities, failures |-> none.failures]
  BY <1>1 DEF ToSet
<1>3. Holds(i, none)
  BY <1>2 DEF Holds, Suits
<1> QED BY <1>3 DEF none

\* What was found for an ask is what a found entry holds.
LEMMA FoundFacts ==
  ASSUME InputsInv, NEW i \in Positions, NEW found, FoundAs(i, found)
  PROVE  Holds(i, found)
<1>1. CASE i \notin Searched
  BY <1>1, NothingHolds DEF FoundAs
<1>2. CASE i \in Searched
  <2> DEFINE query == Query(asks[i])
  <2>1. network \in Seq(Catalog) /\ asks[i] \in Ask
    BY DEF InputsInv, Positions
  <2>2. \A f : Offers(query, f) <=> Suits(i, f)
    BY <1>2, <2>1, QueryServes DEF Offers, Suits
  <2>3. found = Fresh(Mapped(query)) \/ found = Fresh(FailedReply(query))
    BY <1>2 DEF FoundAs, Replies
  <2> HIDE DEF query
  <2>4. CASE found = Fresh(Mapped(query))
    <3>1. /\ found.answers \in Seq(Finding) /\ found.capabilities \in Seq(Finding)
          /\ found = [answers |-> found.answers, capabilities |-> found.capabilities,
                      failures |-> RejectedTypes(query)]
          /\ \A f : f \in ToSet(found.answers) <=>
               Offers(query, f) /\ f.resource.mode = "Direct" /\ f.resource.live
          /\ \A f : f \in ToSet(found.capabilities) <=>
               Offers(query, f) /\ f.resource.mode = "OnDemand"
      BY <2>1, <2>4, FreshMapped
    <3>2. found.failures = RejectedTypes(query)
      BY <3>1
    <3>3. \A f : Suits(i, f) => f.resource.mode \in {"Direct", "OnDemand"}
      BY DEF Suits, Finding, Resource
    <3> QED BY <2>2, <3>1, <3>2, <3>3 DEF Holds
  <2>5. CASE found = Fresh(FailedReply(query))
    <3> DEFINE labels == FailedLabels(query)
    <3>1. found = [answers |-> <<>>, capabilities |-> <<>>, failures |-> labels]
      BY <2>5, FreshFailed DEF FailedReply, Nothing
    <3>2. labels # {}
      BY DEF FailedLabels
    <3> HIDE DEF labels
    <3>3. /\ found.answers = <<>> /\ found.capabilities = <<>> /\ found.failures = labels
          /\ ToSet(<<>>) = {} /\ <<>> \in Seq(Finding)
      BY <3>1 DEF ToSet
    <3> QED BY <3>1, <3>2, <3>3 DEF Holds
  <2> QED BY <2>3, <2>4, <2>5
<1> QED BY <1>1, <1>2

\* The ranking of well-formed rows ranks providers.
LEMMA RankingFacts ==
  ASSUME registry \in Rows, NEW rows \in {registry, NoRows}, NEW c \in Categories
  PROVE  /\ Ranking(rows, c) \in Seq(Providers)
         /\ Ranking(rows, c) \in
              {<<>>, IF registry.own[c] = <<>> THEN registry.default[c]
                     ELSE registry.own[c]}
<1>1. registry.own[c] \in Seq(Providers) /\ registry.default[c] \in Seq(Providers)
  BY DEF Rows, Ranked
<1>2. CASE rows = registry
  BY <1>1, <1>2 DEF Ranking
<1>3. CASE rows = NoRows
  <2>1. Ranking(NoRows, c) = <<>>
    BY DEF Ranking, NoRows
  <2>2. <<>> \in Seq(Providers)
    OBVIOUS
  <2> QED BY <1>3, <2>1, <2>2
<1> QED BY <1>2, <1>3

\* At the end of the branch: what an ask is left with, against what was found
\* for it and the ranking its providers were read under.
LEMMA RankedFacts ==
  ASSUME InputsInv, NEW i \in Positions, NEW found, FoundAs(i, found), RankedAs(i, found)
  PROVE  /\ RankedSo(found, result[i], priorities[i])
         /\ priorities[i].ranking \in
              {<<>>, IF registry.own[asks[i].category] = <<>>
                     THEN registry.default[asks[i].category]
                     ELSE registry.own[asks[i].category]}
<1>1. PICK rows \in {registry, NoRows} :
        /\ result[i] = Prioritised(found, Ranking(rows, asks[i].category))
        /\ priorities[i] = Priority(found, Ranking(rows, asks[i].category))
  BY DEF RankedAs
<1> DEFINE c == asks[i].category
           ranking == Ranking(rows, c)
           answers == found.answers
           capabilities == found.capabilities
           failures == found.failures
<1>2. registry \in Rows /\ c \in Categories
  <2>1. asks[i] \in Ask
    BY DEF InputsInv, Positions
  <2> QED BY <2>1 DEF InputsInv, Ask
<1>3. /\ ranking \in Seq(Providers)
      /\ ranking \in {<<>>, IF registry.own[c] = <<>> THEN registry.default[c]
                            ELSE registry.own[c]}
  BY <1>2, RankingFacts
<1>4. /\ answers \in Seq(Finding) /\ capabilities \in Seq(Finding)
      /\ found = [answers |-> answers, capabilities |-> capabilities,
                  failures |-> failures]
  BY FoundFacts DEF Holds
<1>5. result[i] = Prioritised(found, ranking) /\ priorities[i] = Priority(found, ranking)
  BY <1>1
<1> HIDE DEF ranking, answers, capabilities, failures
<1>6. /\ RankedSo(found, Prioritised(found, ranking), Priority(found, ranking))
      /\ Priority(found, ranking).ranking = ranking
  BY <1>3, <1>4, PrioritisedFacts
<1> QED BY <1>3, <1>5, <1>6

-----------------------------------------------------------------------------
\* The four properties follow from the invariant.

\* Whatever an ask shows at any time was found for it.
LEMMA ShownFacts ==
  ASSUME DiscoveryInv, NEW i \in Positions
  PROVE  /\ \A f \in ToSet(result[i].answers) : Suits(i, f) /\ f.resource.live
         /\ \A f \in ToSet(result[i].capabilities) : Suits(i, f)
<1>1. PICK found : /\ found = Nothing \/ FoundAs(i, found)
                   /\ ToSet(result[i].answers) \subseteq ToSet(found.answers)
                   /\ ToSet(result[i].capabilities) \subseteq ToSet(found.capabilities)
  <2>1. CASE pc = "done"
    <3>1. PICK found : FoundAs(i, found) /\ RankedAs(i, found)
      BY <2>1 DEF DiscoveryInv, ResultInv
    <3>2. /\ ToSet(result[i].answers) \subseteq ToSet(found.answers)
          /\ ToSet(result[i].capabilities) \subseteq ToSet(found.capabilities)
      BY <3>1, RankedFacts DEF DiscoveryInv, RankedSo
    <3> QED BY <3>1, <3>2
  <2>2. CASE pc # "done"
    <3>1. result[i] = Nothing \/ FoundAs(i, result[i])
      BY <2>2 DEF DiscoveryInv, ResultInv
    <3> QED BY <3>1
  <2> QED BY <2>1, <2>2
<1>2. CASE found = Nothing
  <2> DEFINE none == Nothing
  <2>1. none.answers = <<>> /\ none.capabilities = <<>> /\ ToSet(<<>>) = {}
    BY DEF Nothing, ToSet
  <2> HIDE DEF none
  <2>2. ToSet(none.answers) = {} /\ ToSet(none.capabilities) = {}
    BY <2>1
  <2> QED BY <1>1, <1>2, <2>2 DEF none
<1>3. CASE FoundAs(i, found)
  <2>1. Holds(i, found)
    BY <1>3, FoundFacts DEF DiscoveryInv
  <2> QED BY <1>1, <2>1 DEF Holds
<1> QED BY <1>1, <1>2, <1>3

\* Nobody is found for an ask but those the network lists for its category and
\* place, and no expired answer is kept, whatever fails and in any order of
\* replies (_find_asks_to_discover, _send_queries, map_callback).
THEOREM DiscoveryServedFromWhereAsked == DiscoverySpec => []ServedFromWhereAsked
<1>1. ASSUME DiscoveryInv PROVE ServedFromWhereAsked
  <2> SUFFICES ASSUME NEW i \in Positions, NEW f \in FoundFor(i)
               PROVE  /\ ~PlaceFailed(asks[i])
                      /\ Listed(f) /\ Serves(f.resource, asks[i])
                      /\ f \in ToSet(result[i].answers) => f.resource.live
    BY DEF ServedFromWhereAsked
  <2>1. Suits(i, f) /\ (f \in ToSet(result[i].answers) => f.resource.live)
    BY <1>1, ShownFacts DEF FoundFor
  <2>2. ~PlaceFailed(asks[i])
    BY <2>1 DEF Suits, Searched, Searchable
  <2> QED BY <2>1, <2>2 DEF Suits
<1> QED BY <1>1, DiscoveryInvariance, PTL

\* Whatever the network lists for an ask that could be searched is found,
\* unless its own query failed, the ranking left its provider out or ranked
\* another's direct answer better (HttpCapabilityDiscovery.discover, prioritise).
THEOREM DiscoveryNothingIsLost == DiscoverySpec => []NothingIsLost
<1>1. ASSUME DiscoveryInv PROVE NothingIsLost
  <2> SUFFICES ASSUME pc = "done", NEW i \in Positions, NEW k \in DOMAIN network,
                      NEW r \in ToSet(network[k].resources), NEW f,
                      f = [provider |-> network[k].provider, resource |-> r],
                      ~PlaceFailed(asks[i]),
                      CapabilityTypes(asks[i]) # {} \/ asks[i].category = Scheme,
                      network[k].addressable, Serves(r, asks[i]),
                      r.mode = "Direct" => r.live
               PROVE  \/ f \in FoundFor(i) \/ LostToFailure(i)
                      \/ f.provider \in priorities[i].dropped
                      \/ Outranked(i, f)
    BY DEF NothingIsLost
  <2>1. PICK found : FoundAs(i, found) /\ RankedAs(i, found)
    BY <1>1 DEF DiscoveryInv, ResultInv
  <2>2. Holds(i, found)
    BY <1>1, <2>1, FoundFacts DEF DiscoveryInv
  <2>3. Suits(i, f)
    <3>1. network[k] \in Catalog
      BY <1>1 DEF DiscoveryInv, InputsInv
    <3>2. network[k].provider \in Providers /\ r \in Resource
      BY <3>1 DEF Catalog, ToSet
    <3>3. f \in Finding /\ f.provider = network[k].provider /\ f.resource = r
      BY <3>2 DEF Finding
    <3>4. i \in Searched
      BY DEF Searched, Searchable, Unresolved
    <3> QED BY <3>3, <3>4 DEF Suits, Listed
  <2>4. /\ result[i].failures = found.failures
        /\ ToSet(result[i].answers) \subseteq ToSet(found.answers)
        /\ ToSet(result[i].capabilities) \subseteq ToSet(found.capabilities)
        /\ \A g \in ToSet(found.capabilities) :
             g \in ToSet(result[i].capabilities) \/ g.provider \in priorities[i].dropped
        /\ \A g \in ToSet(found.answers) :
             \/ g \in ToSet(result[i].answers) \/ g.provider \in priorities[i].dropped
             \/ \E h \in ToSet(result[i].answers) :
                  Before(priorities[i].ranking, h.provider, g.provider)
    BY <1>1, <2>1, RankedFacts DEF DiscoveryInv, RankedSo
  <2>5. CASE /\ ToSet(found.answers) = {} /\ ToSet(found.capabilities) = {}
             /\ found.failures # {}
    BY <2>4, <2>5 DEF LostToFailure, FoundFor
  <2>6. CASE f.resource.mode = "OnDemand" /\ f \in ToSet(found.capabilities)
    BY <2>4, <2>6 DEF FoundFor
  <2>7. CASE f.resource.mode = "Direct" /\ f \in ToSet(found.answers)
    BY <2>4, <2>7 DEF FoundFor, Outranked
  <2>8. f.resource.mode = "Direct" => f.resource.live
    OBVIOUS
  <2> QED BY <2>2, <2>3, <2>5, <2>6, <2>7, <2>8 DEF Holds
<1> QED BY <1>1, DiscoveryInvariance, PTL

\* An ask left with nobody is accounted for, in the events or in what its
\* ranking dropped (build_outcome_events, AskPriority.dropped).
THEOREM DiscoveryEmptyIsExplained == DiscoverySpec => []EmptyIsExplained
<1>1. ASSUME DiscoveryInv PROVE EmptyIsExplained
  <2> SUFFICES ASSUME pc = "done", NEW i \in Positions, FoundFor(i) = {},
                      ~PlaceFailed(asks[i]), priorities[i].dropped = {}
               PROVE  \/ [kind |-> "unresolved", category |-> asks[i].category,
                          action |-> ActionType(asks[i].interaction)] \in events
                      \/ [kind |-> "failed", ask |-> i] \in events
                      \/ [kind |-> "unservable", ask |-> i] \in events
    BY DEF EmptyIsExplained
  <2>1. CASE i \notin Searched
    <3>1. Unresolved(asks[i])
      BY <2>1 DEF Searched, Searchable
    <3>2. UnresolvedEvents \subseteq events
      BY <1>1 DEF DiscoveryInv, ResultInv
    <3> QED BY <3>1, <3>2 DEF UnresolvedEvents
  <2>2. CASE i \in Searched
    <3>1. PICK found : FoundAs(i, found) /\ RankedAs(i, found)
      BY <1>1 DEF DiscoveryInv, ResultInv
    <3>2. PICK reply : found = Fresh(reply) /\ OutcomeEvents(i, reply) \subseteq events
      BY <2>2, <3>1 DEF FoundAs
    <3>3. /\ found.answers \in Seq(Finding) /\ found.capabilities \in Seq(Finding)
      BY <1>1, <3>1, FoundFacts DEF DiscoveryInv, Holds
    <3>4. ToSet(found.answers) = {} /\ ToSet(found.capabilities) = {}
      <4>1. /\ ToSet(result[i].answers) = {} /\ ToSet(result[i].capabilities) = {}
        BY DEF FoundFor
      <4>2. /\ \A g \in ToSet(found.capabilities) :
                 g \in ToSet(result[i].capabilities) \/ g.provider \in priorities[i].dropped
            /\ \A g \in ToSet(found.answers) :
                 \/ g \in ToSet(result[i].answers) \/ g.provider \in priorities[i].dropped
                 \/ \E h \in ToSet(result[i].answers) :
                      Before(priorities[i].ranking, h.provider, g.provider)
        BY <1>1, <3>1, RankedFacts DEF DiscoveryInv, RankedSo
      <4> QED BY <4>1, <4>2
    <3>5. found.answers = <<>> /\ found.capabilities = <<>>
      BY <3>3, <3>4, NoMembers
    <3>6. FoundNobody(Fresh(reply))
      BY <3>2, <3>5 DEF FoundNobody
    <3> QED BY <3>2, <3>6 DEF OutcomeEvents
  <2> QED BY <2>1, <2>2
<1> QED BY <1>1, DiscoveryInvariance, PTL

\* A ranked ask is served by ranked providers only, best first, its answers by
\* one of them, under the sender's own list or else the default's, never the
\* two joined (prioritise, _best_provider_only, PreferenceBook.for_sender).
THEOREM DiscoveryRankedServeRanked == DiscoverySpec => []RankedServeRanked
<1>1. ASSUME DiscoveryInv PROVE RankedServeRanked
  <2> SUFFICES ASSUME pc = "done", NEW i \in Positions
               PROVE  LET own     == registry.own[asks[i].category]
                          ranking == priorities[i].ranking
                          answers == ToSet(result[i].answers)
                          offers  == result[i].capabilities
                      IN  /\ ranking \in
                               {<<>>, IF own = <<>>
                                      THEN registry.default[asks[i].category] ELSE own}
                          /\ ranking # <<>> =>
                               /\ \A f \in FoundFor(i) : f.provider \in ToSet(ranking)
                               /\ \A f, g \in answers : f.provider = g.provider
                               /\ \A j, k \in DOMAIN offers :
                                    Before(ranking, offers[j].provider, offers[k].provider)
                                      => j < k
    BY DEF RankedServeRanked
  <2>1. PICK found : FoundAs(i, found) /\ RankedAs(i, found)
    BY <1>1 DEF DiscoveryInv, ResultInv
  <2>2. /\ RankedSo(found, result[i], priorities[i])
        /\ priorities[i].ranking \in
             {<<>>, IF registry.own[asks[i].category] = <<>>
                    THEN registry.default[asks[i].category]
                    ELSE registry.own[asks[i].category]}
    BY <1>1, <2>1, RankedFacts DEF DiscoveryInv
  <2> QED BY <2>2 DEF RankedSo, FoundFor
<1> QED BY <1>1, DiscoveryInvariance, PTL
=============================================================================
