------------------------------ MODULE Streams ------------------------------
(***************************************************************************)
(* One streamed answer, from the provider's frames to what clients make of *)
(* it.  The same answer is followed along every way the gateway may carry  *)
(* it: to a Chat Completions client (chat), to an Anthropic client (near), *)
(* to a Responses client (client), and to an Anthropic client of a second  *)
(* gateway that has the first one, over Responses, as its provider (far).  *)
(*                                                                         *)
(* The provider says one payload, finish reason or usage per chunk; the    *)
(* code takes a chunk that holds more one after the other, in this order.  *)
(* What was said is recorded in said, which no gateway sees.               *)
(***************************************************************************)
EXTENDS ResponsesStream

CONSTANTS
  Calls,      \* the provider's indices of the tool calls of the answer
  Finishes,   \* finish reasons the provider may state
  Usages,     \* usages the provider may state, 0 being the empty one
  MaxPieces   \* bound: pieces of the answer

ASSUME StreamAssumption ==
  /\ Calls \subseteq Nat
  /\ Finishes \subseteq {"stop", "length", "tool_calls", "content_filter"}
  /\ Usages \subseteq Nat \ {0}
  /\ MaxPieces \in Nat

VARIABLES
  said,     \* the answer so far, and how it was told
  frame,    \* fragments already in the frame the provider is sending
  chat,     \* what the Chat Completions client has
  near,     \* the gateway and its Anthropic client
  responses,\* the gateway's Responses translator
  client,   \* its Responses client
  far,      \* the second gateway, and its Anthropic client
  phase     \* of the provider's stream: "open", "done" or "broken"

vars == <<said, frame, chat, near, responses, client, far, phase>>

----------------------------------------------------------------------------
(* The provider's frames *)

Unlabelled == -1

\* fromUpstreamChunk: the canonical index of a fragment.
FragmentKey(label, position) == IF label \in {Unlabelled, 0} THEN position ELSE label

\* A frame holds fragments 0, 1, ... of any calls, and may leave out an index that
\* is the fragment's position.
Labels(call, position) == {call} \cup (IF call = position THEN {Unlabelled} ELSE {})

\* The index 0, stated out of first place: the code takes it for a missing one.
Astray(label, position) == label = 0 /\ position # 0

\* The identity of a call, sent with its first fragment only.
NameOf(call) == call + 1

Nothing == Payload("none", 0, 0, 0)

----------------------------------------------------------------------------
(* The usage accumulator, and the gateways *)

\* Seeded fault: usages add up.
CountedSum(account, usage) == account + usage

\* newUsageAccumulator: the last usage stated, 0 standing for a chunk without.
Counted(account, usage) == IF usage = 0 THEN account ELSE usage

NewGateway == [translator |-> NewStreamState, reader |-> NewReader, account |-> 0]

\* streamFrames: one chunk, and its end.
Take(g, d, finish, usage) ==
  [account    |-> Counted(g.account, usage),
   reader     |-> Read(g.reader, Events(g.translator, d)),
   translator |-> Finishing(After(g.translator, d), finish)]

Ended(g) == [g EXCEPT !.reader = Read(@, FinishEvents(g.translator, g.account))]

\* catchAll
Failed(g) == [g EXCEPT !.reader = Read(@, FailureEvents)]

NewRelay == [pending |-> <<>>, gateway |-> NewGateway]

\* responsesAdapter.stream at the second gateway: one event.
Relay(f, e) ==
  [pending |-> Announced(f.pending, e),
   gateway |->
     CASE e.type = "delta"              -> Take(f.gateway, ChunkOf(e, f.pending), "none", 0)
       [] e.type = "response.completed" -> Take(f.gateway, Nothing, FinishOf(e), e.usage)
       [] OTHER                         -> f.gateway]

RelayAll(f, events) ==
  Relay(Relay(Relay(Relay(f, events[1]), events[2]), events[3]), events[4])

----------------------------------------------------------------------------
(* The Chat Completions client: chunks are passed on as they are *)

NewChat == [at |-> "open", thinking |-> <<>>, text |-> <<>>, calls |-> <<>>,
            finish |-> "none", usage |-> 0]

CallHeard(calls, d) ==
  LET known == IF d.key \in DOMAIN calls THEN calls[d.key] ELSE [name |-> d.name, text |-> <<>>]
  IN  WithEntry(calls, d.key, IF d.piece = 0 THEN known ELSE [known EXCEPT !.text = Append(@, d.piece)])

Heard(c, d, finish, usage) ==
  [c EXCEPT !.thinking = IF d.kind = "thinking" THEN Append(@, d.piece) ELSE @,
            !.text = IF d.kind = "text" THEN Append(@, d.piece) ELSE @,
            !.calls = IF d.kind = "tool_use" THEN CallHeard(@, d) ELSE @,
            !.finish = IF finish = "none" THEN @ ELSE finish,
            !.usage = Counted(@, usage)]

----------------------------------------------------------------------------
Init ==
  /\ said = [thinking |-> <<>>, text |-> <<>>, calls |-> <<>>, pieces |-> 0, latest |-> "none",
             in_order |-> TRUE, astray |-> FALSE, finish |-> "none", usage |-> 0]
  /\ frame = 0
  /\ chat = NewChat
  /\ near = NewGateway
  /\ responses = NewResponsesState
  /\ client = NewClient
  /\ far = NewRelay
  /\ phase = "open"

\* One chunk, to everyone.
Chunk(d, finish, usage) ==
  /\ phase = "open"
  /\ chat' = Heard(chat, d, finish, usage)
  /\ near' = Take(near, d, finish, usage)
  /\ responses' = Translated(responses, d)
  /\ client' = Follow(client, Translation(responses, d))
  /\ far' = RelayAll(far, Translation(responses, d))
  /\ UNCHANGED phase

\* A whole answer renders its thinking, its text and its calls in this order.
Ranks == [none |-> 0, thinking |-> 1, text |-> 2, tool_use |-> 3]

Saying(kind) == [said EXCEPT !.pieces = @ + 1, !.latest = kind,
                            !.in_order = @ /\ Ranks[said.latest] <= Ranks[kind]]

Think ==
  /\ said.pieces < MaxPieces
  /\ Chunk(Payload("thinking", 0, 0, said.pieces + 1), "none", 0)
  /\ said' = [Saying("thinking") EXCEPT !.thinking = Append(@, said.pieces + 1)]
  /\ frame' = 0

Speak ==
  /\ said.pieces < MaxPieces
  /\ Chunk(Payload("text", 0, 0, said.pieces + 1), "none", 0)
  /\ said' = [Saying("text") EXCEPT !.text = Append(@, said.pieces + 1)]
  /\ frame' = 0

IsOpen(call) == \E i \in DOMAIN said.calls : said.calls[i].name = NameOf(call)

\* The first fragment of a call, with or without arguments.
Open(call, position, label, piece) ==
  /\ ~IsOpen(call)
  /\ Chunk(Payload("tool_use", FragmentKey(label, position), NameOf(call), piece), "none", 0)
  /\ said' = [Saying("tool_use") EXCEPT
                !.astray = @ \/ Astray(label, position),
                !.calls = Append(@, [name |-> NameOf(call),
                                     text |-> IF piece = 0 THEN <<>> ELSE <<piece>>])]

\* A later fragment.
Argue(call, position, label, piece) ==
  /\ IsOpen(call) /\ piece # 0
  /\ Chunk(Payload("tool_use", FragmentKey(label, position), 0, piece), "none", 0)
  /\ LET argued == [i \in DOMAIN said.calls |->
                      IF said.calls[i].name = NameOf(call)
                      THEN [said.calls[i] EXCEPT !.text = Append(@, piece)] ELSE said.calls[i]]
     IN  said' = [Saying("tool_use") EXCEPT !.astray = @ \/ Astray(label, position), !.calls = argued]

Fragment ==
  /\ said.pieces < MaxPieces
  /\ \E call \in Calls, position \in {0, frame}, piece \in {0, said.pieces + 1} :
       \E label \in Labels(call, position) :
         /\ Open(call, position, label, piece) \/ Argue(call, position, label, piece)
         /\ frame' = position + 1

\* A chunk with a role, or nothing, in it.
Ping == Chunk(Nothing, "none", 0) /\ UNCHANGED said /\ frame' = 0

\* The finish reason stated so far, or that there were several different ones.
StatedSoFar(before, finish) == IF before \in {"none", finish} THEN finish ELSE "several"

Finish ==
  \E finish \in Finishes :
    /\ Chunk(Nothing, finish, 0)
    /\ said' = [said EXCEPT !.finish = StatedSoFar(@, finish)]
    /\ frame' = 0

Tell ==
  \E usage \in Usages :
    /\ Chunk(Nothing, "none", usage)
    /\ said' = [said EXCEPT !.usage = usage]
    /\ frame' = 0

\* The provider's stream ends: the finishing events, and [DONE].
End ==
  /\ phase = "open" /\ phase' = "done"
  /\ chat' = [chat EXCEPT !.at = "complete"]
  /\ near' = Ended(near)
  /\ responses' = Completed(responses)
  /\ LET last == CompletedEvent(responses, near.account) IN
       /\ client' = Hear(client, last)
       /\ far' = [Relay(far, last) EXCEPT !.gateway = Ended(@)]
  /\ UNCHANGED <<said, frame>>

\* The provider's stream breaks: an error frame in place of the finishing
\* events, and no [DONE]; failureOf hands it on at the second gateway.
Break ==
  /\ phase = "open" /\ phase' = "broken"
  /\ chat' = [chat EXCEPT !.at = "failed"]
  /\ near' = Failed(near)
  /\ client' = Hear(client, FailedEvent)
  /\ far' = [far EXCEPT !.gateway = Failed(@)]
  /\ UNCHANGED <<said, frame, responses>>

Next == Think \/ Speak \/ Fragment \/ Ping \/ Finish \/ Tell \/ End \/ Break

Spec == Init /\ [][Next]_vars

----------------------------------------------------------------------------
(* Properties *)

\* The types of the state, the keys of the blocks among them (callIndex).
TypeOK ==
  /\ phase \in {"open", "done", "broken"}
  /\ said.pieces \in 0 .. MaxPieces
  /\ said.finish \in Finishes \cup {"none", "several"} /\ said.usage \in Usages \cup {0}
  /\ frame \in Nat
  /\ DOMAIN near.translator.tools \subseteq Nat /\ near.translator.index \in Nat
  /\ responses.sequence \in Nat

\* Once the provider has sent something, no client is ever sent an event it
\* cannot place: blocks are opened and closed in turn, under the next index or
\* as the resumption of a call, deltas name the open block or the item where
\* the client has it, and sequence numbers have no gap (openContentBlock,
\* openToolBlock and closeBlock of anthropic/convert.ts; openCall and take of
\* responses/convert.ts).
ClientsFollow ==
  near.translator.started =>
    ~near.reader.confused /\ ~client.confused /\ ~far.gateway.reader.confused

Bare(items) == [i \in DOMAIN items |-> [name |-> items[i].name, text |-> items[i].text]]

BlocksOf(reader, kind) ==
  Subsequence(reader.blocks, {i \in DOMAIN reader.blocks : reader.blocks[i].kind = kind})

\* The arguments of a call stay with that call, whatever index their frame states
\* and wherever in it they are, as the comment on the fallback has it
\* (src/src/upstream/openai-chat.ts:215, fromUpstreamChunk).  They do not: the
\* fallback takes a stated index 0 for a missing one, and a fragment of call 0 that
\* is second in its frame is given to call 1.
FragmentsReachTheirCall == Range(chat.calls) = Range(said.calls)

\* Whatever order the provider interleaves its thinking, its text and the
\* fragments of its calls in, each client has assembled just what was said: no
\* fragment is lost, repeated, or put with another call (callIndex, openToolBlock,
\* openCall; fromUpstreamChunk's index).
AssembledAsSaid ==
  /\ chat.thinking = said.thinking /\ chat.text = said.text
  /\ Range(chat.calls) = Range(said.calls)
  /\ TextOf(BlocksOf(near.reader, "thinking")) = said.thinking
  /\ TextOf(BlocksOf(near.reader, "text")) = said.text
  /\ Bare(BlocksOf(near.reader, "tool_use")) = said.calls
  /\ TextOf(OfKind(client.items, "reasoning")) = said.thinking
  /\ TextOf(OfKind(client.items, "message")) = said.text
  /\ Bare(OfKind(client.items, "function_call")) = said.calls

\* The output of response.completed is, item for item, what a client that
\* followed the deltas has, and completing once more would repeat that event
\* under the number it had (finalizedItems, completedEvent).
FinalIsAssembled ==
  client.at = "complete" =>
    /\ client.final = client.items
    /\ CompletedEvent(responses, near.account) =
         [type |-> "response.completed", sequence |-> client.expects - 1,
          output |-> client.final, usage |-> client.usage]

Argued(calls) == {call \in Range(calls) : call.text # <<>>}

\* Behind a second gateway a client assembles the same answer, although the
\* deltas between the two carry no name of a call, and a turn that called a tool
\* still ends as one.  A call without any argument is lost on the way: only
\* its announcement names it, and eventsToChunk makes no chunk of that.
RoundTrip ==
  LET reader == far.gateway.reader IN
  /\ TextOf(BlocksOf(reader, "thinking")) = said.thinking
  /\ TextOf(BlocksOf(reader, "text")) = said.text
  /\ Range(Bare(BlocksOf(reader, "tool_use"))) = Argued(said.calls)
  /\ phase = "done" =>
       reader.stop_reason = IF said.calls = <<>> THEN "end_turn" ELSE "tool_use"

\* An answer that ended is complete for every client, with the usage the provider
\* stated last and the stop reason it stated, if it stated one; one that broke off
\* is failed for every client, and never looks complete (newUsageAccumulator,
\* finishEvents, and the catchAll of handlers-v1.ts and handlers-anthropic.ts).
\* Nothing is claimed of a provider that states several reasons: the code gives the
\* last (anthropic/convert.ts:498), and anthropic/types.ts:181 says the first.
EndIsHeard ==
  near.translator.started =>
    /\ phase = "done" =>
         /\ {chat.at, near.reader.at, client.at, far.gateway.reader.at} = {"complete"}
         /\ {chat.usage, near.reader.usage, client.usage, far.gateway.reader.usage} = {said.usage}
         /\ said.finish # "several" => near.reader.stop_reason = StopReason(said.finish)
    /\ phase = "broken" =>
         {chat.at, near.reader.at, client.at, far.gateway.reader.at} = {"failed"}

Message == [thinking |-> said.thinking, text |-> said.text, calls |-> said.calls]

Listed(items) == [i \in DOMAIN items |-> [kind |-> items[i].id.kind,
                                         name |-> items[i].name, text |-> items[i].text]]

\* An answer streamed in the order it is rendered in has the very blocks and
\* items of the same answer given whole (toAnthropic, toResponses), and a whole
\* answer survives the way over a second gateway (fromResponses).  Of the items of
\* a turn without text nothing is claimed.  One without calls either has an (empty)
\* message item only when it is whole; and whether one with calls has such an item
\* is in dispute: it does "still", says responses/convert.ts:465, and the condition
\* below that comment leaves it out.
WholeAgrees ==
  /\ said.in_order => near.reader.blocks = ToAnthropic(Message)
  /\ said.in_order /\ said.text # <<>> =>
       Listed(client.items) = Listed(ToResponses(Message))
  /\ FromResponses(ToResponses(Message)) =
       [thinking |-> said.thinking, text |-> said.text, calls |-> said.calls,
        finish |-> IF said.calls = <<>> THEN "stop" ELSE "tool_calls"]

\* Every client can follow the stream from its first event to the way it ends
\* (anthropic/convert.ts, responses/convert.ts and the handlers' endings), unless a
\* fragment went astray (FragmentsReachTheirCall).
StreamIsFollowed == TypeOK /\ (~said.astray => ClientsFollow /\ EndIsHeard)

\* A client has just what was said, by the deltas and by the closing event alike
\* (openToolBlock, openCall, finalizedItems), unless a fragment went astray.
AnswerIsAssembled == ~said.astray => AssembledAsSaid /\ FinalIsAssembled

\* The ways from an answer to a client agree: streamed or whole, directly or over a
\* second gateway (toAnthropic, toResponses, fromResponses, fromUpstreamChunk), unless
\* a fragment went astray.
PathsAgree == ~said.astray => RoundTrip /\ WholeAgrees
=============================================================================
