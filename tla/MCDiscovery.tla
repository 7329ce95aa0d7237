----------------------------- MODULE MCDiscovery -----------------------------
\* Discovery for up to three asks: about the weather, which needs a place,
\* prices, of which one @type needs none, a grievance, and a scheme, which
\* no @type serves; over five small networks and eight registries.
EXTENDS Discovery

CONSTANTS weather, price, scheme, grievance, forecast, mandi, store, complaint,
          here, there, A, B, C

MCIndex ==
  [c \in {weather, price, scheme, grievance} |-> [t \in {"Knowledge", "Service"} |->
     CASE c = weather -> {forecast}
       [] c = price   -> IF t = "Service" THEN {mandi, store} ELSE {}
       [] c = scheme  -> {}
       [] c = grievance -> IF t = "Service" THEN {complaint} ELSE {}]]

ask(c, interaction, place) ==
  [category |-> c, interaction |-> interaction, place |-> place]
AskKinds ==
  {ask(weather, "advise", here), ask(weather, "observe", here),
   ask(weather, "advise", there), ask(weather, "observe", "ambiguous"),
   ask(weather, "act", "none"), ask(price, "observe", here),
   ask(price, "advise", "none"), ask(scheme, "advise", here), ask(grievance, "act", here)}
MCQuestions == UNION {[1 .. n -> AskKinds] : n \in 0 .. 2}
               \cup {<<ask(weather, "advise", here), ask(price, "observe", here),
                       ask(weather, "advise", there)>>}

resource(c, t, mode, area, live) ==
  [category |-> c, type |-> t, mode |-> mode, area |-> area, live |-> live]
catalog(p, addressable, resources) ==
  [provider |-> p, addressable |-> addressable, resources |-> resources]

\* A and B both answer here, B there too; C cannot be called.
Answering ==
  <<catalog(A, TRUE, <<resource(weather, forecast, "Direct", here, TRUE)>>),
    catalog(B, TRUE, <<resource(weather, forecast, "Direct", here, TRUE),
                       resource(weather, forecast, "Direct", there, TRUE)>>),
    catalog(C, FALSE, <<resource(weather, forecast, "OnDemand", here, TRUE)>>)>>
\* A's answer has expired, with an offer beside it; B's has expired for good.
Expired ==
  <<catalog(A, TRUE, <<resource(weather, forecast, "Direct", here, FALSE),
                       resource(weather, forecast, "OnDemand", here, TRUE)>>),
    catalog(B, TRUE, <<resource(weather, forecast, "Direct", there, FALSE)>>)>>
\* Offers only, of every category, B's before A's.
Offering ==
  <<catalog(B, TRUE, <<resource(price, mandi, "OnDemand", "anywhere", TRUE),
                       resource(weather, forecast, "OnDemand", here, TRUE)>>),
    catalog(A, TRUE, <<resource(price, store, "OnDemand", here, TRUE),
                       resource(weather, forecast, "OnDemand", here, TRUE),
                       resource(scheme, store, "OnDemand", here, TRUE)>>)>>
Unaddressable ==
  <<catalog(C, FALSE, <<resource(scheme, store, "Direct", here, TRUE),
                        resource(price, mandi, "Direct", here, TRUE)>>),
    catalog(B, TRUE, <<resource(weather, complaint, "OnDemand", here, TRUE),
                       resource(grievance, complaint, "Direct", here, TRUE)>>),
    catalog(A, TRUE, <<resource(scheme, store, "Direct", here, TRUE)>>)>>
MCNetworks == {Answering, Expired, Offering, Unaddressable, <<>>}

ranks(w, p) ==
  [c \in {weather, price, scheme, grievance} |->
     IF c = weather THEN w ELSE IF c = price THEN p ELSE <<>>]
MCRegistries ==
  [own : {ranks(<<>>, <<>>), ranks(<<A>>, <<>>), ranks(<<B, A>>, <<C>>),
          ranks(<<A, B, A>>, <<>>)},
   default : {ranks(<<>>, <<>>), ranks(<<B>>, <<A, B>>)}]
=============================================================================
