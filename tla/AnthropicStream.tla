-------------------------- MODULE AnthropicStream --------------------------
(***************************************************************************)
(* Anthropic's streaming protocol: the translator of src/src/anthropic/    *)
(* convert.ts (chunkToEvents, finishEvents), and the client that reads its *)
(* events.                                                                 *)
(*                                                                         *)
(* A chunk is taken one payload at a time, in the order the code reads     *)
(* them.  A payload puts at most four events on the wire; Silence fills    *)
(* the places of those it does not need.                                   *)
(***************************************************************************)
EXTENDS Integers, Sequences, TLC

\* Null, as the key of a tool call.
NoKey == -1

\* A payload of a chunk: nothing, or one piece of one kind; for a tool call
\* with the call's index and identity (its id and name).  Piece 0 is the
\* empty string, identity 0 a missing one.
Payload(kind, key, name, piece) == [kind |-> kind, key |-> key, name |-> name, piece |-> piece]

Silence == [type |-> "silence"]

\* Map.set
WithEntry(map, key, value) ==
  [k \in DOMAIN map \cup {key} |-> IF k = key THEN value ELSE map[k]]

----------------------------------------------------------------------------
(* The translator *)

NewStreamState ==
  [started |-> FALSE, index |-> 0, open |-> "none", open_index |-> -1, open_tool |-> NoKey,
   tools |-> <<>>, stop_reason |-> "end_turn"]

\* Seeded fault: a block of the same kind is taken for the same block.
StaysOpenByKind(s, d) == s.open = d.kind

\* The payload belongs to the block that is open.
StaysOpen(s, d) == s.open = d.kind /\ (d.kind = "tool_use" => s.open_tool = d.key)

\* An earlier call's block, which the payload makes the gateway resume.
Known(s, d) == d.kind = "tool_use" /\ d.key \in DOMAIN s.tools

\* openToolBlock: the block keeps the index and the identity it has.
BlockOf(s, d) ==
  IF Known(s, d)
  THEN [s.tools[d.key] EXCEPT !.name = IF @ = 0 THEN d.name ELSE @]
  ELSE [index |-> s.index, name |-> d.name]

\* openContentBlock and openToolBlock
Opened(s, d) ==
  IF StaysOpen(s, d) THEN s
  ELSE [s EXCEPT !.open = d.kind,
                 !.open_index = BlockOf(s, d).index,
                 !.index = IF Known(s, d) THEN @ ELSE @ + 1,
                 !.open_tool = IF d.kind = "tool_use" THEN d.key ELSE NoKey,
                 !.tools = IF d.kind = "tool_use" THEN WithEntry(@, d.key, BlockOf(s, d)) ELSE @]

\* chunkToEvents: the state it leaves behind.
After(s, d) == [(IF d.kind = "none" THEN s ELSE Opened(s, d)) EXCEPT !.started = TRUE]

BeginMessage(s) == IF s.started THEN Silence ELSE [type |-> "message_start"]

\* Seeded fault: the open block is left open.
CloseBlockNever(s) == Silence

CloseBlock(s) ==
  IF s.open = "none" THEN Silence ELSE [type |-> "content_block_stop", index |-> s.open_index]

OpenBlock(s, d) ==
  [type |-> "content_block_start", index |-> BlockOf(s, d).index,
   kind |-> d.kind, name |-> BlockOf(s, d).name]

Delta(s, d) ==
  IF d.piece = 0 THEN Silence
  ELSE [type |-> "content_block_delta", index |-> Opened(s, d).open_index,
        kind |-> d.kind, piece |-> d.piece]

\* chunkToEvents: the events it returns.
Events(s, d) ==
  IF d.kind = "none" THEN <<BeginMessage(s), Silence, Silence, Silence>>
  ELSE IF StaysOpen(s, d) THEN <<BeginMessage(s), Silence, Silence, Delta(s, d)>>
  ELSE <<BeginMessage(s), CloseBlock(s), OpenBlock(s, d), Delta(s, d)>>

StopReason(finish) ==
  CASE finish = "length" -> "max_tokens"
    [] finish = "tool_calls" -> "tool_use"
    [] finish = "content_filter" -> "stop_sequence"
    [] OTHER -> "end_turn"

Finishing(s, finish) ==
  IF finish = "none" THEN s ELSE [s EXCEPT !.stop_reason = StopReason(finish)]

FinishEvents(s, usage) ==
  <<CloseBlock(s),
    [type |-> "message_delta", stop_reason |-> s.stop_reason, usage |-> usage],
    [type |-> "message_stop"], Silence>>

\* The frame that catchAll puts in place of the finishing events.
FailureEvents == <<[type |-> "error"], Silence, Silence, Silence>>

----------------------------------------------------------------------------
(* toAnthropic: the body of an answer that is not streamed.  The arguments of *)
(* a call are taken to spell a JSON object, the empty string to spell {}.      *)

Block(kind, name, text) == [kind |-> kind, name |-> name, text |-> text]

ToAnthropic(message) ==
  (IF message.thinking = <<>> THEN <<>> ELSE <<Block("thinking", 0, message.thinking)>>)
  \o (IF message.text = <<>> THEN <<>> ELSE <<Block("text", 0, message.text)>>)
  \o [i \in DOMAIN message.calls |->
        Block("tool_use", message.calls[i].name, message.calls[i].text)]

----------------------------------------------------------------------------
(* The client.  It keys blocks by index, and takes the start of a tool block *)
(* it knows for the resumption of that block, as openToolBlock expects.      *)

NewReader ==
  [at |-> "before", blocks |-> <<>>, reading |-> 0, confused |-> FALSE,
   stop_reason |-> "none", usage |-> 0]

Resumes(c, e) ==
  /\ e.index < Len(c.blocks)
  /\ e.kind = "tool_use"
  /\ c.blocks[e.index + 1].kind = "tool_use"
  /\ c.blocks[e.index + 1].name = e.name

Legal(c, e) ==
  CASE e.type = "message_start"       -> c.at = "before"
    [] e.type = "content_block_start" -> c.at = "between" /\ (e.index = Len(c.blocks) \/ Resumes(c, e))
    [] e.type = "content_block_delta" ->
         c.at = "inside" /\ c.reading = e.index /\ c.blocks[e.index + 1].kind = e.kind
    [] e.type = "content_block_stop"  -> c.at = "inside" /\ c.reading = e.index
    [] e.type = "message_delta"       -> c.at = "between"
    [] e.type = "message_stop"        -> c.at = "between" /\ c.stop_reason # "none"
    [] e.type = "error"               -> c.at \notin {"complete", "failed"}

Apply(c, e) ==
  CASE e.type = "message_start"       -> [c EXCEPT !.at = "between"]
    [] e.type = "content_block_start" ->
         [c EXCEPT !.at = "inside", !.reading = e.index,
                   !.blocks = IF e.index = Len(@) THEN Append(@, Block(e.kind, e.name, <<>>)) ELSE @]
    [] e.type = "content_block_delta" ->
         [c EXCEPT !.blocks[e.index + 1].text = Append(@, e.piece)]
    [] e.type = "content_block_stop"  -> [c EXCEPT !.at = "between"]
    [] e.type = "message_delta"       -> [c EXCEPT !.stop_reason = e.stop_reason, !.usage = e.usage]
    [] e.type = "message_stop"        -> [c EXCEPT !.at = "complete"]
    [] e.type = "error"               -> [c EXCEPT !.at = "failed"]

Receive(c, e) ==
  IF e.type = "silence" THEN c
  ELSE IF Legal(c, e) THEN Apply(c, e) ELSE [c EXCEPT !.confused = TRUE]

Read(c, events) == Receive(Receive(Receive(Receive(c, events[1]), events[2]), events[3]), events[4])

=============================================================================
