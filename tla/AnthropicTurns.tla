---------------------------- MODULE AnthropicTurns ----------------------------
(***************************************************************************)
(* An Anthropic client's conversation on its way to a chat provider:       *)
(* toCanonical of src/src/anthropic/convert.ts.                            *)
(*                                                                         *)
(* A turn is a list of typed blocks and may mean several things at once;   *)
(* the canonical conversation has one message per meaning.  Blocks are     *)
(* read one after another.  A word stands for a text or an image.          *)
(***************************************************************************)
EXTENDS Integers, Sequences, SequencesExt, Subsequences

CONSTANTS
  ToolUses,    \* calls of the conversation
  Words,       \* texts
  ImageSources,     \* images whose source can be said as a URL
  Strange,     \* images whose source cannot
  Absent,     \* a field that is absent
  MaxBlocks    \* bound on the conversation's length

ASSUME TurnsAssumption == MaxBlocks \in Nat /\ Absent \notin ToolUses

VARIABLES
  wants,      \* the request's other fields
  turns,      \* the client's turns so far, the last one perhaps still being read
  midTurn,    \* whether it is
  out,        \* canonical messages written so far
  parts, uses, thoughts  \* what of the turn is not yet written

turnVars == <<wants, turns, midTurn, out, parts, uses, thoughts>>

\* toImagePart: an image that has no URL is dropped.
toImagePart(source) == IF source \in ImageSources THEN <<source>> ELSE <<>>

\* A tool result's content: texts and images, in order.
toToolResultContent(content) ==
  Subsequence(content, {i \in DOMAIN content : content[i] \in Words \cup ImageSources})

Turn == turns[Len(turns)]
Size == FoldLeft(LAMBDA n, turn : n + 1 + Len(turn.blocks), 0, turns)

CanonicalMessage(role, words) ==
  [role |-> role, words |-> words, calls |-> <<>>, reasoning |-> <<>>, answers |-> Absent]

\* What flush writes: one message for all that is pending, if anything is.
Pending ==
  IF parts = <<>> /\ uses = <<>> /\ thoughts = <<>> THEN <<>>
  ELSE <<[CanonicalMessage(Turn.role, parts) EXCEPT !.calls = uses, !.reasoning = thoughts]>>

\* Seeded fault: the answer goes out ahead of what is pending.
WriteFirst(new) == out' = out \o new /\ UNCHANGED <<parts, uses, thoughts>>

Write(new) ==
  /\ out' = out \o Pending \o new
  /\ parts' = <<>> /\ uses' = <<>> /\ thoughts' = <<>>

\* The loop over a turn's blocks takes the next one.
TakeBlock(block) ==
  /\ midTurn /\ Size < MaxBlocks
  /\ turns' = [turns EXCEPT ![Len(turns)].blocks = Append(@, block)]
  /\ UNCHANGED <<wants, midTurn>>

BeginTurn(role) ==
  /\ ~midTurn /\ Size < MaxBlocks
  /\ turns' = Append(turns, [role |-> role, blocks |-> <<>>])
  /\ midTurn' = TRUE
  /\ UNCHANGED <<wants, out, parts, uses, thoughts>>

\* A turn whose content is a string.
StringTurn(role, w) ==
  /\ ~midTurn /\ Size < MaxBlocks
  /\ turns' = Append(turns, [role |-> role, blocks |-> <<[type |-> "text", word |-> w]>>])
  /\ out' = Append(out, CanonicalMessage(role, <<w>>))
  /\ UNCHANGED <<wants, midTurn, parts, uses, thoughts>>

TextBlock(w) ==
  /\ TakeBlock([type |-> "text", word |-> w])
  /\ parts' = Append(parts, w)
  /\ UNCHANGED <<out, uses, thoughts>>

ImageBlock(source) ==
  /\ TakeBlock([type |-> "image", word |-> source])
  /\ parts' = parts \o toImagePart(source)
  /\ UNCHANGED <<out, uses, thoughts>>

Occurs(type) ==
  {c \in ToolUses : \E turn \in Range(turns) : \E block \in Range(turn.blocks) :
                      block.type = type /\ block.use = c}

ToolUse(c) ==
  /\ midTurn => Turn.role = "assistant"
  /\ c \notin Occurs("tool_use")
  /\ TakeBlock([type |-> "tool_use", use |-> c])
  /\ uses' = Append(uses, c)
  /\ UNCHANGED <<out, parts, thoughts>>

ToolResult(c, content) ==
  /\ midTurn => Turn.role = "user"
  /\ c \in Occurs("tool_use") \ Occurs("tool_result")
  /\ TakeBlock([type |-> "tool_result", use |-> c, content |-> content])
  /\ Write(<<[CanonicalMessage("tool", toToolResultContent(content)) EXCEPT !.answers = c]>>)

Thinking(w) ==
  /\ midTurn => Turn.role = "assistant"
  /\ TakeBlock([type |-> "thinking", word |-> w])
  /\ thoughts' = Append(thoughts, w)
  /\ UNCHANGED <<out, parts, uses>>

\* A block the gateway does not know is passed on as it came.
UnknownBlock ==
  /\ TakeBlock([type |-> "document", word |-> "document"])
  /\ parts' = Append(parts, "document")
  /\ UNCHANGED <<out, uses, thoughts>>

EndTurn ==
  /\ midTurn
  /\ Write(<<>>)
  /\ midTurn' = FALSE
  /\ UNCHANGED <<wants, turns>>

----------------------------------------------------------------------------
\* The fields beside the turns.

Asks ==
  {[system |-> <<>>, tools |-> Absent, choice |-> Absent, stops |-> <<>>, metadata |-> {},
    top_k |-> Absent, thinking |-> Absent],
   [system |-> <<"one">>, tools |-> <<[name |-> "f", input_schema |-> "s"]>>,
    choice |-> [type |-> "any", name |-> Absent], stops |-> <<"stop">>,
    metadata |-> {"user_id"}, top_k |-> 5, thinking |-> Absent],
   [system |-> <<"one", "two">>, tools |-> <<[name |-> "f", input_schema |-> Absent]>>,
    choice |-> [type |-> "tool", name |-> "f"], stops |-> <<>>,
    metadata |-> {"user_id"}, top_k |-> 5, thinking |-> "enabled"],
   [system |-> <<>>, tools |-> Absent, choice |-> [type |-> "tool", name |-> Absent],
    stops |-> <<>>, metadata |-> {}, top_k |-> Absent, thinking |-> "enabled"],
   [system |-> <<>>, tools |-> Absent, choice |-> [type |-> "none", name |-> Absent],
    stops |-> <<>>, metadata |-> {}, top_k |-> 5, thinking |-> Absent]}

\* The system field, a string or blocks, becomes a leading message.
systemText == IF wants.system = <<>> THEN <<>> ELSE <<CanonicalMessage("system", wants.system)>>

\* A tool's name and schema move under "function".
toolToChat(tool) == [type |-> "function", name |-> tool.name, parameters |-> tool.input_schema]

\* A tool that has to be called but has no name is no requirement.
toolChoiceToChat ==
  CASE wants.choice = Absent -> Absent
    [] wants.choice # Absent /\ wants.choice.type = "any" -> [type |-> "required", name |-> Absent]
    [] wants.choice # Absent /\ wants.choice.type = "tool" /\ wants.choice.name # Absent ->
         [type |-> "function", name |-> wants.choice.name]
    [] wants.choice # Absent /\ wants.choice.type = "none" -> wants.choice
    [] OTHER -> [type |-> "auto", name |-> Absent]

\* Seeded fault: what rides in the metadata takes the place of the caller's own.
CarriedAlone ==
  {<<key, wants[key]>> : key \in {k \in {"top_k", "thinking"} : wants[k] # Absent}}

\* The knobs canonical chat has no field for ride in the metadata.
Carried ==
  {<<key, "given">> : key \in wants.metadata}
  \cup {<<key, wants[key]>> : key \in {k \in {"top_k", "thinking"} : wants[k] # Absent}}

ChatRequest ==
  [messages |-> systemText \o out \o Pending,
   tools |-> IF wants.tools = Absent THEN Absent
             ELSE [i \in DOMAIN wants.tools |-> toolToChat(wants.tools[i])],
   tool_choice |-> toolChoiceToChat,
   stop |-> wants.stops,
   metadata |-> Carried]

TurnsInit ==
  /\ wants \in Asks
  /\ turns = <<>> /\ midTurn = FALSE
  /\ out = <<>> /\ parts = <<>> /\ uses = <<>> /\ thoughts = <<>>

\* The other fields matter to no block: the conversation grows beside plain ones.
TurnsNext ==
  /\ wants.system = <<>> /\ wants.choice = Absent
  /\ \/ \E role \in {"user", "assistant"} : BeginTurn(role)
     \/ \E role \in {"user", "assistant"}, w \in Words : StringTurn(role, w)
     \/ \E w \in Words : TextBlock(w) \/ Thinking(w)
     \/ \E source \in ImageSources \cup Strange : ImageBlock(source)
     \/ \E c \in ToolUses : ToolUse(c)
     \/ \E c \in ToolUses, content \in {<<>>} \cup (Words \X (ImageSources \cup Strange)) :
          ToolResult(c, content)
     \/ UnknownBlock
     \/ EndTurn

TurnsSpec == TurnsInit /\ [][TurnsNext]_turnVars

----------------------------------------------------------------------------

\* What a block says to the model, in the order the client wrote it.
Says(block) ==
  CASE block.type \in {"text", "document"} -> <<[type |-> "said", what |-> block.word]>>
    [] block.type = "image" /\ block.word \in ImageSources -> <<[type |-> "said", what |-> block.word]>>
    [] block.type = "tool_result" -> <<[type |-> "answered", what |-> block.use]>>
    [] OTHER -> <<>>

HeardTurns(message) ==
  IF message.role = "tool" THEN <<[type |-> "answered", what |-> message.answers]>>
  ELSE [i \in DOMAIN message.words |-> [type |-> "said", what |-> message.words[i]]]

\* The model hears the client's texts, images and tool results in the order in which the
\* client wrote them, across all turns, and a result with the content it was sent with (the
\* comment on toMessages: flushing keeps the relative order).
OrderSurvives ==
  LET request == ChatRequest
      said == Subsequence(request.messages,
                {i \in DOMAIN request.messages : request.messages[i].role # "system"})
  IN  /\ Joint([i \in DOMAIN said |-> HeardTurns(said[i])])
           = Joint([i \in DOMAIN turns |->
               Joint([k \in DOMAIN turns[i].blocks |-> Says(turns[i].blocks[k])])])
      /\ \A turn \in Range(turns) : \A block \in Range(turn.blocks) :
           block.type = "tool_result" =>
             \E message \in Range(said) :
               /\ message.answers = block.use
               /\ message.words = toToolResultContent(block.content)

OfType(turn, type) ==
  Subsequence(turn.blocks, {k \in DOMAIN turn.blocks : turn.blocks[k].type = type})

\* The calls of a turn, and what the model thought before them, are one assistant message,
\* and a result comes after it.
TurnStaysWhole ==
  LET messages == ChatRequest.messages
  IN  \A i \in DOMAIN turns :
        turns[i].role = "assistant" /\ OfType(turns[i], "tool_use") # <<>> =>
          \E j \in DOMAIN messages :
            /\ messages[j].role = "assistant"
            /\ messages[j].calls = [k \in DOMAIN OfType(turns[i], "tool_use") |->
                                      OfType(turns[i], "tool_use")[k].use]
            /\ messages[j].reasoning = [k \in DOMAIN OfType(turns[i], "thinking") |->
                                          OfType(turns[i], "thinking")[k].word]
            /\ \A k \in 1 .. j : messages[k].answers \notin Range(messages[j].calls)

\* Nothing the caller asked for is lost for want of a canonical field: its metadata arrives,
\* and so do the knobs that ride in it (the module's opening comment).
KnobsArrive ==
  LET request == ChatRequest
  IN  /\ \A key \in wants.metadata : key \in {entry[1] : entry \in request.metadata}
      /\ wants.top_k # Absent => <<"top_k", wants.top_k>> \in request.metadata
      /\ wants.thinking # Absent => <<"thinking", wants.thinking>> \in request.metadata

\* A conversation in Anthropic form is told to the provider in its order, in whole turns
\* and with all that was asked (anthropic/convert.ts, toCanonical).
TurnsSurvive == OrderSurvives /\ TurnStaysWhole /\ KnobsArrive
=============================================================================
