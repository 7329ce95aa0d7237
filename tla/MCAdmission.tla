---------------------------- MODULE MCAdmission ----------------------------
\* Admission of requests that differ in one thing at a time: their headers, a
\* body around the cap of four bytes, plain or inflated chunk by chunk, and
\* the thread of up to three messages.
EXTENDS Admission

item(type, submission, filled) == [type |-> type, submission |-> submission, filled |-> filled]
words == item("text", FALSE, FALSE)
filed == item("form", TRUE, TRUE)
Contents == {<<words>>, <<words, words>>, <<filed>>, <<words, filed>>, <<filed, filed>>,
             <<item("form", FALSE, TRUE)>>, <<item("form", TRUE, FALSE)>>,
             <<item("form_error", TRUE, FALSE)>>}
MCMessages == [role : {"user", "assistant"}, content : Contents]
fromFarmer(content) == [role |-> "user", content |-> content]

chunk(read, makes, sound) == [read |-> read, makes |-> makes, sound |-> sound]
Plain  == {chunk(n, n, TRUE) : n \in 1 .. 3}
Zipped == {chunk(1, n, TRUE) : n \in {0, 1, 2, 4, 9}} \cup {chunk(1, 0, FALSE)}

Request0 == [ready |-> TRUE, json |-> TRUE, accept |-> {}, gzip |-> FALSE, declared |-> Absent,
             chunks |-> <<chunk(2, 2, TRUE)>>, complete |-> TRUE, sort |-> "turn",
             thread |-> <<fromFarmer(<<words>>)>>]

MCRequests ==
  {[Request0 EXCEPT !.ready = r, !.json = j, !.accept = a, !.declared = d] :
     r, j \in BOOLEAN, a \in SUBSET {"json", "stream", "other"}, d \in {Absent, 3, 4, 5}}
  \cup {[Request0 EXCEPT !.chunks = c] : c \in UNION {[1 .. n -> Plain] : n \in 0 .. 3}}
  \cup {[Request0 EXCEPT !.gzip = TRUE, !.chunks = c, !.complete = w] :
           w \in BOOLEAN, c \in UNION {[1 .. n -> Zipped] : n \in 0 .. 4}}
  \cup {[Request0 EXCEPT !.sort = s] : s \in {"text", "json", "untagged"}}
  \cup {[Request0 EXCEPT !.thread = t] : t \in UNION {[1 .. n -> MCMessages] : n \in 1 .. 3}}
=============================================================================
