------------------------------ MODULE Admission ------------------------------
(***************************************************************************)
(* How a request to POST /v1/turns becomes a turn, or the problem it is     *)
(* answered with (adapters/http/v1): the gates in their order, the body     *)
(* read and inflated under its three bounds, and the thread of messages     *)
(* read as what the farmer asks now and what was said before.               *)
(*                                                                          *)
(* A body is its chunks, each the bytes it is and the bytes it inflates to. *)
(* zlib is external: it may keep inflated bytes back that a bound left no   *)
(* room for, with its input used up or with some of it left.                *)
(***************************************************************************)
EXTENDS Integers, FiniteSets, SequencesExt, Lists

CONSTANTS
  Cap,       \* max_body_bytes
  Requests,  \* what a caller may send
  Absent     \* model value: a header, an id or a value that is not there

\* A chunk of a body, an item of a message's content, and a message of the
\* thread.
Chunk   == [read : Nat, makes : Nat, sound : BOOLEAN]
Item    == [type : {"text", "form", "form_error"}, submission : BOOLEAN, filled : BOOLEAN]
Message == [role : {"user", "assistant"}, content : Seq(Item)]

\* sort: what the body turns out to be once it is read whole, a turn in no
\* language the tags know among them.
Request ==
  [ready : BOOLEAN, json : BOOLEAN, accept : SUBSET {"json", "stream", "other"},
   gzip : BOOLEAN, declared : Nat \cup {Absent},
   chunks : Seq(Chunk), complete : BOOLEAN,
   sort : {"text", "json", "untagged", "turn"}, thread : Seq(Message)]

ASSUME AdmissionAssumption ==
  /\ Cap \in Nat /\ Absent \notin Nat
  /\ Requests \subseteq Request
  /\ \A r \in Requests :
       /\ \A i \in DOMAIN r.chunks : r.gzip \/ r.chunks[i].makes = r.chunks[i].read
       /\ \A i \in DOMAIN r.thread : r.thread[i].content # <<>>
       /\ r.thread # <<>>

VARIABLES
  sent,     \* the request
  gate,     \* the gate it stands before, "done" past the last
  got,      \* the chunks read so far
  held,     \* the bytes of the body in memory
  owed,     \* the bytes zlib has inflated and keeps back
  problem,  \* the status it is answered with, 200 when it runs
  input,    \* what the turn acts on
  before    \* the messages that are its history

dvars == <<sent, gate, got, held, owed, problem, input, before>>

AdmissionInit ==
  /\ sent \in Requests /\ gate = "headers"
  /\ got = 0 /\ held = 0 /\ owed = 0
  /\ problem = Absent /\ input = Absent /\ before = <<>>

-----------------------------------------------------------------------------
\* The gates (_admit). A problem ends the request.

Refuse(status) ==
  /\ problem' = status /\ gate' = "done"
  /\ UNCHANGED <<sent, got, held, owed, input, before>>

Pass(next) ==
  gate' = next /\ UNCHANGED <<sent, got, held, owed, problem, input, before>>

\* _wants_stream: no header at all is one that takes JSON.
Served(accept) == accept = {} \/ accept \cap {"json", "stream"} # {}

CheckHeaders ==
  /\ gate = "headers"
  /\ CASE ~sent.ready          -> Refuse(503)
       [] ~sent.json           -> Refuse(415)
       [] ~Served(sent.accept) -> Refuse(406)
       [] sent.declared # Absent /\ sent.declared > Cap -> Refuse(413)
       [] OTHER -> Pass("body")

\* Mutant of Room: the room there is.
RoomLeft == Cap - held

\* _decoded_body. zlib's bound on what it makes of one chunk: one more byte
\* than there is room for, so that a body over the cap is seen to be.
Room == Cap + 1 - held

Least(a, b) == IF a < b THEN a ELSE b
BytesRead(n) == Total([i \in 1 .. n |-> sent.chunks[i].read])

\* What decompress(chunk, Room) returns: a bound of 0 is none at all.
Inflated(due) == IF Room = 0 THEN due ELSE Least(due, Room)

Hold(bytes, kept) ==
  /\ got' = got + 1 /\ held' = held + bytes /\ owed' = kept
  /\ UNCHANGED <<sent, gate, problem, input, before>>

\* zlib may leave input over whenever it has filled the room it was given, be
\* it with the last of the body (unconsumed_tail).
ReadChunk ==
  /\ gate = "body" /\ got < Len(sent.chunks)
  /\ LET chunk == sent.chunks[got + 1]
         due   == owed + chunk.makes
         made  == IF sent.gzip THEN Inflated(due) ELSE chunk.makes
     IN  IF BytesRead(got + 1) > Cap THEN Refuse(413)
         ELSE IF sent.gzip /\ ~chunk.sound THEN Refuse(400)
         ELSE \E tail \in IF sent.gzip /\ made = Room THEN BOOLEAN ELSE {FALSE} :
                IF tail \/ held + made > Cap THEN Refuse(413) ELSE Hold(made, due - made)

\* inflater.flush, and the checks on a stream that has ended.
EndBody ==
  /\ gate = "body" /\ got = Len(sent.chunks)
  /\ IF sent.gzip /\ ~sent.complete THEN Refuse(400)
     ELSE IF held + owed > Cap THEN Refuse(413)
     ELSE /\ held' = held + owed /\ owed' = 0 /\ gate' = "parse"
          /\ UNCHANGED <<sent, got, problem, input, before>>

\* json.loads, then the schema.
Parse ==
  /\ gate = "parse"
  /\ CASE sent.sort = "text" -> Refuse(400)
       [] sent.sort = "json" -> Refuse(422)
       [] OTHER -> Pass("map")

-----------------------------------------------------------------------------
\* The thread (to_user_turn).

\* _current_index: the last message that is the farmer's.
Asked == {i \in DOMAIN sent.thread : sent.thread[i].role = "user"}
Current == CHOOSE i \in Asked : \A j \in Asked : j <= i

\* _input_of, _submission: words, or one form with its id and its values.
Kinds(content) == {item.type : item \in ToSet(content)}
\* Mutant of Acted: the first item decides.
ActedOnTheFirst(content) ==
  \/ content[1].type = "text"
  \/ content[1].type = "form" /\ content[1].submission /\ content[1].filled

Acted(content) ==
  \/ Kinds(content) = {"text"}
  \/ Kinds(content) = {"form"} /\ Len(content) = 1
       /\ content[1].submission /\ content[1].filled

\* _history_message: the words of a message, and the first form it carries.
History(message) ==
  LET forms == SelectSeq(message.content, LAMBDA item : item.type # "text")
  IN  [role  |-> message.role,
       words |-> Len(SelectSeq(message.content, LAMBDA item : item.type = "text")),
       form  |-> IF forms = <<>> THEN Absent ELSE forms[1].type]

MapTurn ==
  /\ gate = "map"
  /\ IF sent.sort = "untagged" \/ Asked = {} \/ ~Acted(sent.thread[Current].content) THEN Refuse(422)
     ELSE /\ problem' = 200 /\ gate' = "done"
          /\ input' = sent.thread[Current].content
          /\ before' = [i \in 1 .. Current - 1 |-> History(sent.thread[i])]
          /\ UNCHANGED <<sent, got, held, owed>>

AdmissionNext == CheckHeaders \/ ReadChunk \/ EndBody \/ Parse \/ MapTurn

AdmissionSpec == AdmissionInit /\ [][AdmissionNext]_dvars

-----------------------------------------------------------------------------
\* The properties.

Inflates(n) == Total([i \in 1 .. n |-> sent.chunks[i].makes])

\* What is declared, read, held or inflated never passes the cap by a byte, a
\* body of exactly the cap is not refused for its size, and one that is
\* admitted is whole, down to what zlib kept back (_decoded_body).
AdmittedWithinTheCap ==
  /\ held <= Cap /\ BytesRead(got) <= Cap
  /\ gate \in {"parse", "map"} \/ problem = 200 =>
       got = Len(sent.chunks) /\ held = Inflates(got)
  /\ problem = 413 =>
       \/ sent.declared # Absent /\ sent.declared > Cap /\ got = 0
       \/ BytesRead(Len(sent.chunks)) > Cap
       \/ Inflates(Len(sent.chunks)) > Cap

\* A turn acts on one kind of thing, the farmer's last word: a form is filed
\* only when it is all they sent, with its id and its values, and nothing of
\* the thread up to it is lost or read twice (mapping.py).
ActsOnTheLastWord ==
  problem = 200 =>
    /\ \A i \in Len(before) + 2 .. Len(sent.thread) : sent.thread[i].role # "user"
    /\ sent.thread[Len(before) + 1].role = "user"
    /\ input = sent.thread[Len(before) + 1].content
    /\ \A i, j \in DOMAIN input : input[i].type = input[j].type
    /\ \A i \in DOMAIN input : input[i].type = "form" =>
         Len(input) = 1 /\ input[i].submission /\ input[i].filled
    /\ \A i \in DOMAIN before : before[i].role = sent.thread[i].role
=============================================================================
