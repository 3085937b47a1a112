-------------------------- MODULE ResponsesStream --------------------------
(***************************************************************************)
(* OpenAI's Responses streaming protocol, both ways, as src/src/responses/ *)
(* convert.ts speaks it: canonical chunks to events (chunkToEvents,        *)
(* completedEvent), events back to chunks (eventsToChunk), and a client    *)
(* that reads the events.                                                  *)
(*                                                                         *)
(* Payloads and Silence are those of AnthropicStream.                      *)
(***************************************************************************)
EXTENDS AnthropicStream, SequencesExt, Subsequences

\* Items are identified by what makes the code mint their id.
ItemId(kind, key) == [kind |-> kind, key |-> key]

Item(id, name, text) == [id |-> id, name |-> name, text |-> text]

----------------------------------------------------------------------------
(* Canonical chunks to events *)

\* Where the items of a turn are, and what has been said in them so far; key 0
\* for the reasoning and for the message item.
NewResponsesState ==
  [started |-> FALSE, sequence |-> 0, output |-> <<>>, items |-> <<>>, completed |-> FALSE]

PayloadId(d) ==
  CASE d.kind = "thinking" -> ItemId("reasoning", 0)
    [] d.kind = "text"     -> ItemId("message", 0)
    [] d.kind = "tool_use" -> ItemId("function_call", d.key)

IsNew(s, d) == d.kind # "none" /\ PayloadId(d) \notin DOMAIN s.items

\* openCall, and the opening of a reasoning or a message item: a position in
\* the output is allocated once; a call may still learn its name.
ItemOf(s, d) ==
  IF IsNew(s, d) THEN [output_index |-> Len(s.output), name |-> d.name, text |-> <<>>]
  ELSE [s.items[PayloadId(d)] EXCEPT !.name = IF @ = 0 THEN d.name ELSE @]

Written(s, d) == IF d.piece = 0 THEN ItemOf(s, d)
                 ELSE [ItemOf(s, d) EXCEPT !.text = Append(@, d.piece)]

Filed(s, d) ==
  IF d.kind = "none" THEN s
  ELSE [s EXCEPT !.output = IF IsNew(s, d) THEN Append(@, Item(PayloadId(d), d.name, <<>>)) ELSE @,
                 !.items = WithEntry(@, PayloadId(d), Written(s, d))]

\* Each event takes the next sequence number: how many precede each of the four.
Creates(s) == IF s.started THEN 0 ELSE 1
Adds(s, d) == IF IsNew(s, d) THEN 1 ELSE 0
Parts(s, d) == IF IsNew(s, d) /\ d.kind = "text" THEN 1 ELSE 0
Deltas(d) == IF d.piece = 0 THEN 0 ELSE 1

\* chunkToEvents: the state it leaves behind.
Translated(s, d) ==
  [Filed(s, d) EXCEPT !.started = TRUE,
                      !.sequence = @ + Creates(s) + Adds(s, d) + Parts(s, d) + Deltas(d)]

\* chunkToEvents: the events it returns.
Translation(s, d) ==
  << IF Creates(s) = 0 THEN Silence
     ELSE [type |-> "response.created", sequence |-> s.sequence],
     IF Adds(s, d) = 0 THEN Silence
     ELSE [type |-> "response.output_item.added", sequence |-> s.sequence + Creates(s),
           output_index |-> ItemOf(s, d).output_index, item |-> Item(PayloadId(d), d.name, <<>>)],
     IF Parts(s, d) = 0 THEN Silence
     ELSE [type |-> "response.content_part.added", sequence |-> s.sequence + Creates(s) + 1,
           output_index |-> ItemOf(s, d).output_index, item_id |-> PayloadId(d)],
     IF Deltas(d) = 0 THEN Silence
     ELSE [type |-> "delta",
           sequence |-> s.sequence + Creates(s) + Adds(s, d) + Parts(s, d),
           output_index |-> ItemOf(s, d).output_index, item_id |-> PayloadId(d),
           piece |-> d.piece] >>

\* Seeded fault: the placeholders are sent as they were announced.
FinalizedItemsAsAnnounced(s) == s.output

\* The placeholders of the output, replaced by what was said in them.
FinalizedItems(s) ==
  [i \in DOMAIN s.output |->
     LET here == {id \in DOMAIN s.items : s.items[id].output_index = i - 1}
         id == CHOOSE x \in here : TRUE
     IN  IF here = {} THEN s.output[i] ELSE Item(id, s.items[id].name, s.items[id].text)]

\* terminalEvent and completedEvent: a second one repeats the first.
CompletedEvent(s, usage) ==
  [type |-> "response.completed",
   sequence |-> IF s.completed THEN s.sequence - 1 ELSE s.sequence,
   output |-> FinalizedItems(s), usage |-> usage]

Completed(s) == IF s.completed THEN s ELSE [s EXCEPT !.completed = TRUE, !.sequence = @ + 1]

FailedEvent == [type |-> "response.failed"]

----------------------------------------------------------------------------
(* Events back to canonical chunks *)

\* pending: the names of the calls announced so far, by item id.
Announced(pending, e) ==
  IF e.type = "response.output_item.added" /\ e.item.id.kind = "function_call"
  THEN WithEntry(pending, e.item.id, e.item.name)
  ELSE pending

KindOf(id) ==
  CASE id.kind = "reasoning"     -> "thinking"
    [] id.kind = "message"       -> "text"
    [] id.kind = "function_call" -> "tool_use"

\* Seeded fault: the label of the call is dropped.
LabelNone(e) == 0

Label(e) == IF e.item_id.kind = "function_call" THEN e.output_index ELSE 0

\* eventsToChunk of a delta: a call is labelled with its place in the output,
\* and named by its announcement.
ChunkOf(e, pending) ==
  Payload(KindOf(e.item_id), Label(e),
          IF e.item_id \in DOMAIN pending THEN pending[e.item_id] ELSE 0,
          e.piece)

\* eventsToChunk of the terminal event: only its output tells a tool turn.
FinishOf(e) ==
  IF \E i \in DOMAIN e.output : e.output[i].id.kind = "function_call" THEN "tool_calls" ELSE "none"

----------------------------------------------------------------------------
(* The body of an answer that is not streamed, and back *)

\* Seeded fault: the calls of a turn that also spoke are left out.
CallItemsUnlessText(message) ==
  [i \in (IF message.text = <<>> THEN DOMAIN message.calls ELSE {}) |->
     Item(ItemId("function_call", i), message.calls[i].name, message.calls[i].text)]

CallItems(message) ==
  [i \in DOMAIN message.calls |->
     Item(ItemId("function_call", i), message.calls[i].name, message.calls[i].text)]

\* toResponses: a message item stands for a turn without tool calls.
ToResponses(message) ==
  (IF message.thinking = <<>> THEN <<>> ELSE <<Item(ItemId("reasoning", 0), 0, message.thinking)>>)
  \o (IF message.text = <<>> /\ message.calls # <<>> THEN <<>>
      ELSE <<Item(ItemId("message", 0), 0, message.text)>>)
  \o CallItems(message)

OfKind(output, kind) ==
  Subsequence(output, {i \in DOMAIN output : output[i].id.kind = kind})

TextOf(items) == Joint([i \in DOMAIN items |-> items[i].text])

FromResponses(output) ==
  LET calls == OfKind(output, "function_call") IN
  [thinking |-> TextOf(OfKind(output, "reasoning")),
   text |-> TextOf(OfKind(output, "message")),
   calls |-> [i \in DOMAIN calls |-> [name |-> calls[i].name, text |-> calls[i].text]],
   finish |-> IF calls = <<>> THEN "stop" ELSE "tool_calls"]

----------------------------------------------------------------------------
(* The client of the events *)

NewClient ==
  [at |-> "before", expects |-> 0, items |-> <<>>, final |-> <<>>, parted |-> FALSE,
   confused |-> FALSE, usage |-> 0]

Numbered(c, e) == e.type = "response.failed" \/ e.sequence = c.expects

Placed(c, e) == e.output_index < Len(c.items) /\ c.items[e.output_index + 1].id = e.item_id

Expected(c, e) ==
  CASE e.type = "response.created"            -> c.at = "before"
    [] e.type = "response.output_item.added"  -> c.at = "open" /\ e.output_index = Len(c.items)
    [] e.type = "response.content_part.added" -> c.at = "open" /\ Placed(c, e) /\ ~c.parted
    [] e.type = "delta" ->
         c.at = "open" /\ Placed(c, e) /\ (e.item_id.kind = "message" => c.parted)
    [] e.type = "response.completed"          -> c.at = "open"
    [] e.type = "response.failed"             -> c.at \in {"before", "open"}

Took(c, e) ==
  CASE e.type = "response.created"            -> [c EXCEPT !.at = "open"]
    [] e.type = "response.output_item.added"  -> [c EXCEPT !.items = Append(@, e.item)]
    [] e.type = "response.content_part.added" -> [c EXCEPT !.parted = TRUE]
    [] e.type = "delta" ->
         [c EXCEPT !.items[e.output_index + 1].text = Append(@, e.piece)]
    [] e.type = "response.completed" ->
         [c EXCEPT !.at = "complete", !.final = e.output, !.usage = e.usage]
    [] e.type = "response.failed"             -> [c EXCEPT !.at = "failed"]

Hear(c, e) ==
  IF e.type = "silence" THEN c
  ELSE IF Numbered(c, e) /\ Expected(c, e) THEN [Took(c, e) EXCEPT !.expects = @ + 1]
  ELSE [c EXCEPT !.confused = TRUE]

Follow(c, events) == Hear(Hear(Hear(Hear(c, events[1]), events[2]), events[3]), events[4])

=============================================================================
