------------------------------- MODULE MCForms -------------------------------
\* The forms of one to three packs, in any order, and every submission of up
\* to two values and some of three. A field offers a value that is no string, and
\* a path lies under another, once before it and once after it, where the outer
\* one is listed twice. Apart from those, a pack whose enrolment has a rule that
\* no form reads.
EXTENDS Forms

CONSTANTS blank, short, long, crop, water, pm, desk1, named1, desk2, named2,
  yes, yesText \* a value of a pack that is no string, and its JSON text

MCValues == {blank, short, long, crop, water, pm, desk1, named1, desk2, named2, yes, yesText}
MCTextOf == [v \in MCValues |-> IF v = yes THEN yesText ELSE v]
MCLength == [v \in MCValues |-> CASE v = long -> 3 [] v = short -> 1 [] OTHER -> 2]

AnyField(path) ==
  [path |-> path, declared |-> TRUE, allowed |-> <<>>, finds |-> MCValues,
   legible |-> TRUE, min |-> 0, max |-> 9, bars |-> {}, freetext |-> FALSE]
Scheme   == [AnyField(<<"scheme", "code">>) EXCEPT !.allowed = <<pm>>]
ById     == AnyField(<<"provider", "id">>)
ByName   == AnyField(<<"provider", "descriptor", "name">>)
Text     == [AnyField(<<"grievance", "description">>) EXCEPT
               !.finds = MCValues \ {water}, !.min = 2, !.max = 2, !.freetext = TRUE]
Kind     == [AnyField(<<"grievance", "kind">>) EXCEPT !.allowed = <<crop, water>>]
Left     == [AnyField(<<"grievance", "left">>) EXCEPT !.declared = FALSE]
Urgent   == [Kind EXCEPT !.allowed = <<water, yes>>]
Ticket   == AnyField(<<"ticket", "number">>)
Part     == [AnyField(<<"ticket", "number", "part">>) EXCEPT !.allowed = <<pm>>]
Mark     == [Ticket EXCEPT !.legible = FALSE]
Enrolment == [AnyField(<<"enrolmentId">>) EXCEPT !.min = 2, !.bars = {long}]
Unfilled == AnyField(<<"provider", "phone">>)

leaf(action, scheme, fields) == [action |-> action, scheme |-> scheme, fields |-> fields]
api(leaves) == [kind |-> "api", readable |-> TRUE, category |-> "Grievance", leaves |-> leaves]

Filing   == api(<<leaf("publish", <<>>, <<Mark>>),
                  leaf("support", <<"pm">>, <<Scheme, ById, ByName, Text, Kind, Left>>),
                  leaf("status", <<"pm">>, <<Scheme, Ticket>>)>>)
Again    == api(<<leaf("support", <<"pm">>, <<Scheme, Urgent>>)>>)
Inward   == api(<<leaf("status", <<"pm">>, <<Ticket, Part>>)>>)
Outward  == api(<<leaf("status", <<"pm">>, <<Part, Ticket, Ticket>>)>>)
Enrolling == api(<<leaf("support", <<"pm">>, <<Scheme, ById, Enrolment>>)>>)
Opening  == api(<<leaf("init", <<"pm">>, <<Scheme>>), leaf("support", <<"crop">>, <<ById, Text>>)>>)
Illegible == api(<<leaf("init", <<"pm">>, <<Scheme>>), leaf("support", <<"pm">>, <<Mark>>)>>)
NoDesk   == api(<<leaf("init", <<"pm">>, <<Unfilled>>)>>)
NoScheme == api(<<leaf("init", <<"pm", "crop">>, <<Scheme>>)>>)
Torn     == [Opening EXCEPT !.readable = FALSE]
Catalog  == [Opening EXCEPT !.kind = "catalog"]

MCFolders ==
  {<<p>> : p \in {Filing, Again, Opening, Inward, Outward}}
  \cup {<<p, Filing>> : p \in {Again, Opening, Illegible, NoDesk, NoScheme, Torn, Catalog}}
  \cup {<<Filing, p>> : p \in {Again, Opening}} \cup {<<>>, <<Again, Opening, Filing>>}

MCNames == {Text.path, Kind.path, Ticket.path}
MCSent  == UNION {[1 .. n -> [name : MCNames, value : {blank, short, long, crop, water, yesText}]] : n \in 0 .. 2}
           \cup {<<[name |-> Text.path, value |-> v], [name |-> Kind.path, value |-> u], x>> :
                   v, u \in {short, crop, water},
                   x \in [name : MCNames, value : {blank, crop}]}
MCSubmissions ==
  [context : {[scheme |-> "pm", category |-> "Grievance", action |-> a] : a \in {"support", "status"}}
             \cup {[scheme |-> "crop", category |-> "Grievance", action |-> "support"]},
   values : MCSent]

MCUnreadFolders == {<<Enrolling>>, <<Filing, Enrolling>>, <<Enrolling, Filing>>}
MCUnreadSubmissions ==
  [context : {[scheme |-> "pm", category |-> "Grievance", action |-> "support"]},
   values : UNION {[1 .. n -> [name : {Enrolment.path, Text.path}, value : {short, long, crop}]] : n \in 0 .. 2}]

MCDesks == {[id |-> desk1, name |-> named1, scheme |-> "pm"],
            [id |-> desk2, name |-> named2, scheme |-> "crop"]}

node(path, object) == [path |-> path, object |-> object]
MCReplies ==
  {{node(<<"grievance">>, TRUE), node(<<"grievance", "kind">>, FALSE),
    node(<<"grievance", "description">>, TRUE), node(<<"grievance", "description", "text">>, FALSE)},
   {node(<<"grievance">>, TRUE), node(<<"grievance", "kind">>, FALSE),
    node(<<"grievance", "left">>, FALSE), node(<<"ticket">>, TRUE), node(<<"ticket", "number">>, FALSE)},
   {node(<<"grievance">>, FALSE), node(<<"ticket">>, FALSE)}, {}}
=============================================================================
