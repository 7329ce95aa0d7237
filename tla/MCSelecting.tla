----------------------------- MODULE MCSelecting -----------------------------
\* Selects of four packs, in the shapes of the network's own: prices of a
\* market, whose commodities and market are advertised; weather, whose place is
\* the ask's and whose parameters are the provider's to fill; facilities of
\* fixed types; and an advisory of free topics.
EXTENDS Selecting

CONSTANTS onion, rice, c23, c24, c99, pune, m1806, solapur, p5d, pt12h, forecast,
  observed, rain, lab, store, ctx, here1, there, today, sowing

MCStructural == [f \in {"@context", "@type", "subjectCategories"} |-> Is(ctx)]
MCPoint == Object([geo |-> Is(here1)])
MCToday == Is(today)

NoEnums == [f \in {} |-> {}]
Prices == [profile |-> {<<"market", "marketCode">>, <<"market", "location", "geo">>,
                       <<"supportedCommodities", "[]", "code">>},
           required |-> {}, enums |-> NoEnums, priced |-> TRUE,
           types |-> [market |-> "object", supportedCommodities |-> "array", validity |-> "object"]]
Weather == [profile |-> {<<"location", "geo">>, <<"observationType">>, <<"coverageAreas", "areaCode">>,
                         <<"parameters", "[]", "parameter">>},
            required |-> {"parameters"}, priced |-> FALSE,
            types |-> [location |-> "object", observationType |-> "string", parameters |-> "array",
                       coverageAreas |-> "object", forecastHorizon |-> "string"],
            enums |-> [observationType |-> {forecast, observed}]]
Facility == [profile |-> {<<"facilityTypes">>}, required |-> {}, priced |-> FALSE,
             types |-> [facilityTypes |-> "array", location |-> "object"],
             enums |-> [facilityTypes |-> {lab, store}]]
Advice == [profile |-> {<<"topics">>}, required |-> {}, enums |-> NoEnums, priced |-> FALSE,
           types |-> [topics |-> "array"]]
MCSchemas == {Prices, Weather, Facility, Advice}

market(code) == Object([marketCode |-> Is(code), marketName |-> Is(pune)])
crops(items) == List([i \in DOMAIN items |->
                   Object([code |-> Is(items[i][1]), name |-> Is(items[i][2])])])
Nothing == Object([f \in {} |-> Is(there)])
MCOffers ==
  {[schema |-> Prices, advertised |-> [market |-> market(m1806), updateFrequency |-> Is(pt12h),
      supportedCommodities |-> crops(<<<<c23, onion>>, <<c24, rice>>>>)]],
   [schema |-> Prices, advertised |-> [supportedCommodities |-> crops(<<<<c24, rice>>>>)]],
   [schema |-> Prices, advertised |-> [supportedCommodities |->
      List(<<Object([group |-> Nothing]), Object([code |-> Is(c24)])>>)]],
   [schema |-> Facility, advertised |-> [facilityTypes |-> List(<<Is(lab)>>)]],
   [schema |-> Advice, advertised |-> [updateFrequency |-> Is(pt12h)]],
   [schema |-> Weather, advertised |-> [forecastHorizon |-> Is(p5d)]]}
  \cup {[schema |-> Weather, advertised |-> [supportedObservationTypes |-> List(types),
           forecastHorizon |-> Is(p5d), location |-> Object([geo |-> Is(there)])]] :
          types \in {<<Is(forecast)>>, <<Is(forecast), Is(observed)>>}}

\* Two paths that may be written as a key.
Path  == "market.marketCode"
Spelt == "location.geo"
MCReadsAs == Path :> <<"market", "marketCode">> @@ Spelt :> <<"location", "geo">>

\* Up to two fields, each in a shape of its own pack's or out of it.
Shapes == [
  market |-> {Object([marketCode |-> Is(m1806)]), Object([marketCode |-> Is(solapur)]), Is(pune),
              Object([marketName |-> Is(pune)]), Object([location |-> Object([geo |-> Is(there)])]),
              Object([k \in {Spelt, "marketCode"} |-> Is(solapur)]), Object([k \in {Spelt} |-> Is(there)])},
  supportedCommodities |-> {List(<<Object([code |-> Is(c23)])>>),
              List(<<Object([code |-> Is(c24)]), Object([code |-> Is(c99)])>>),
              List(<<Is(onion)>>), List(<<>>), List(<<Nothing>>), Object([code |-> Is(c23)]),
              List(<<Object([code |-> Is(Null)])>>)},
  location |-> {Object([geo |-> Is(there)]), Is(there)},
  observationType |-> {Is(forecast), Is(observed), Is(rain), Nothing},
  coverageAreas |-> {Object([areaCode |-> Is(solapur)])},
  parameters |-> {List(<<Object([parameter |-> Is(rain)])>>)},
  facilityTypes |-> {List(<<Is(lab)>>), List(<<Is(store), Is(rain)>>), List(<<Is(store), Is(lab)>>), Is(lab)},
  topics |-> {List(<<Is(sowing)>>), List(<<Object([evil |-> Is(sowing)])>>),
             List(<<Nothing, Is(sowing)>>)},
  validity |-> {Is(there), Object([empty |-> Nothing])},
  forecastHorizon |-> {Is(p5d)}]
OneField == UNION {{<<f, v>> : v \in Shapes[f]} : f \in DOMAIN Shapes} \cup {<<Path, Is(pune)>>}
MCWritten ==
  {Object([f \in {a[1], b[1]} |-> IF f = a[1] THEN a[2] ELSE b[2]]) : a, b \in OneField}
  \cup {Nothing}

RECURSIVE Within(_)
Within(v) == {v} \cup CASE v.kind = "object" -> UNION {Within(v.fields[k]) : k \in DOMAIN v.fields}
                        [] v.kind = "list" -> UNION {Within(i) : i \in ToSet(v.items)}
                        [] OTHER -> {}
Held == {p[2] : p \in OneField} \cup UNION {
  LET offered == o.advertised
  IN  {offered[f] : f \in DOMAIN offered}
      \cup {Narrowed(p[2], offered[p[1]]) : p \in {q \in OneField : q[1] \in DOMAIN offered}} : o \in MCOffers}
MCJson == MCWritten \cup UNION {Within(v) : v \in Held}
=============================================================================
