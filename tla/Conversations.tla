----------------------------- MODULE Conversations -----------------------------
(***************************************************************************)
(* A client's conversation on its way to a chat provider and, for a        *)
(* provider that speaks Responses, back into Responses form:               *)
(* toCanonical and toResponsesBody of src/src/responses/convert.ts.        *)
(*                                                                         *)
(* The client's items are read one after another.  A word stands for a     *)
(* content part and its text; what a conversation may be is any sequence   *)
(* in which a result follows the call it answers.                          *)
(***************************************************************************)
EXTENDS Integers, Sequences, SequencesExt, Subsequences

CONSTANTS
  CallIds,    \* calls of the conversation
  Blobs,      \* what a provider minted with its reasoning
  Texts,      \* text parts
  Images,     \* parts that have no text
  Missing,       \* a field that is absent
  MaxItems    \* bound on the conversation's length

ASSUME ConversationsAssumption == MaxItems \in Nat /\ Texts \cap Images = {}

VARIABLES
  asked,      \* the request's other fields
  items,      \* the items read so far
  messages,   \* canonical messages written so far
  calls,      \* calls not yet written
  encrypted   \* blob not yet written

conversationVars == <<asked, items, messages, calls, encrypted>>

String(text) == [array |-> FALSE, words |-> text]
Array(words) == [array |-> TRUE, words |-> words]

Contents ==
  {String(<<t>>) : t \in Texts} \cup {Array(<<t, i>>) : t \in Texts, i \in Images}
  \cup {Array(<<i>>) : i \in Images}

\* partsText: the text of the parts that have any.
partsText(content) ==
  Subsequence(content.words, {i \in DOMAIN content.words : content.words[i] \in Texts})

ChatMessage(role, content) ==
  [role |-> role, content |-> content, calls |-> <<>>, blob |-> Missing, answers |-> Missing]

Calling == [ChatMessage("assistant", Missing) EXCEPT !.calls = calls, !.blob = encrypted]

\* What flush writes.
Flushed == IF calls = <<>> THEN <<>> ELSE <<Calling>>

ReadsItem(item) == Len(items) < MaxItems /\ items' = Append(items, item)

\* Seeded fault: what is pending stays pending.
FlushNothing(new) == messages' = messages \o new /\ UNCHANGED <<calls, encrypted>>

\* The pending calls first; without any, a pending blob goes on waiting.
FlushThen(new) ==
  /\ messages' = messages \o Flushed \o new
  /\ calls' = <<>>
  /\ encrypted' = IF calls = <<>> THEN encrypted ELSE Missing

Called == {items[i].call : i \in {k \in DOMAIN items : items[k].type = "function_call"}}
Answered == {items[i].call : i \in {k \in DOMAIN items : items[k].type = "function_call_output"}}

FunctionCall ==
  /\ \E c \in CallIds \ Called :
       /\ ReadsItem([type |-> "function_call", call |-> c])
       /\ calls' = Append(calls, c)
  /\ UNCHANGED <<asked, messages, encrypted>>

FunctionCallOutput ==
  /\ \E c \in Called \ Answered, content \in Contents :
       /\ ReadsItem([type |-> "function_call_output", call |-> c, content |-> content])
       /\ FlushThen(<<[ChatMessage("tool", String(partsText(content))) EXCEPT !.answers = c]>>)
  /\ UNCHANGED asked

Reasoning ==
  /\ \E b \in Blobs :
       /\ \A i \in DOMAIN items : items[i].type = "reasoning" => items[i].blob # b
       /\ ReadsItem([type |-> "reasoning", blob |-> b])
       /\ encrypted' = b
  /\ UNCHANGED <<asked, messages, calls>>

MessageItem ==
  /\ \E role \in {"system", "user", "assistant"}, content \in Contents :
       /\ ReadsItem([type |-> "message", role |-> role, content |-> content])
       /\ FlushThen(<<ChatMessage(role, content)>>)
  /\ UNCHANGED asked

\* A content part that stands alone.
ContentPart ==
  /\ \E w \in Texts \cup Images :
       /\ ReadsItem([type |-> "part", content |-> Array(<<w>>)])
       /\ FlushThen(<<ChatMessage("user", Array(<<w>>))>>)
  /\ UNCHANGED asked

UnknownItem ==
  /\ ReadsItem([type |-> "other"])
  /\ UNCHANGED <<asked, messages, calls, encrypted>>

----------------------------------------------------------------------------
\* The fields beside the items.

Tool == [name |-> "f", parameters |-> "schema", strict |-> Missing]
StrictTool == [Tool EXCEPT !.strict = "yes"]

Plain ==
  [instructions |-> Missing, tools |-> Missing, tool_choice |-> Missing, format |-> Missing, limit |-> Missing,
   effort |-> Missing]

Requests ==
  {Plain,
   [Plain EXCEPT !.instructions = "be brief", !.limit = 10, !.effort = "low"],
   [Plain EXCEPT !.tools = <<Tool>>, !.tool_choice = [type |-> "function", name |-> "f"]],
   [Plain EXCEPT !.tools = <<StrictTool>>,
                 !.tool_choice = [type |-> "function", name |-> Missing]],
   [Plain EXCEPT !.tool_choice = [type |-> "required", name |-> Missing],
                 !.format = [type |-> "json_schema", schema |-> "s"]],
   [Plain EXCEPT !.format = [type |-> "json_object", schema |-> Missing]],
   [Plain EXCEPT !.format = [type |-> "text", schema |-> Missing]]}

\* Seeded fault: a tool stays as flat as it came.
toChatToolFlat(tool) == [type |-> Missing, function |-> Missing]

\* A flat tool is nested, as chat providers want it.
toChatTool(tool) == [type |-> "function", function |-> tool]

\* An absent field is none that is there.
ASSUME MissingAssumption ==
  Missing \notin Contents \cup {<<toChatTool(Tool)>>, <<toChatTool(StrictTool)>>}

Each(seq, Op(_)) == IF seq = Missing THEN Missing ELSE [i \in DOMAIN seq |-> Op(seq[i])]

\* A function without a name is no choice.
toChatToolChoice(choice) ==
  IF choice = Missing \/ choice.type # "function" THEN choice
  ELSE IF choice.name = Missing THEN [type |-> "auto", name |-> Missing]
  ELSE choice

\* Only the structured formats have a chat spelling.
toResponseFormat(format) ==
  IF format = Missing \/ format.type \notin {"json_object", "json_schema"} THEN Missing ELSE format

toCanonical ==
  [messages |-> (IF asked.instructions = Missing THEN <<>>
                 ELSE <<ChatMessage("system", String(<<asked.instructions>>))>>)
                \o messages \o Flushed,
   tools |-> Each(asked.tools, toChatTool),
   tool_choice |-> toChatToolChoice(asked.tool_choice),
   response_format |-> toResponseFormat(asked.format),
   max_completion_tokens |-> asked.limit,
   reasoning_effort |-> asked.effort]

\* Seeded fault: an assistant's text counts only if it is a string.
TurnTextOfStrings(message) ==
  IF message.content = Missing \/ message.content.array THEN <<>> ELSE message.content.words

\* The text of an assistant turn, however the client sent it.
TurnText(message) == IF message.content = Missing THEN <<>> ELSE partsText(message.content)

\* The items one message becomes: text precedes the calls it accompanies.
ItemsOf(message) ==
  CASE message.role = "system" -> <<>>
    [] message.role = "tool" ->
         <<[type |-> "function_call_output", call |-> message.answers,
            content |-> String(partsText(message.content))]>>
    [] message.role = "assistant" ->
         (IF TurnText(message) = <<>> THEN <<>>
          ELSE <<[type |-> "message", role |-> "assistant", content |-> Array(TurnText(message))]>>)
         \o [i \in DOMAIN message.calls |-> [type |-> "function_call", call |-> message.calls[i]]]
    [] message.role = "user" -> <<[type |-> "message", role |-> "user", content |-> message.content]>>

\* A message's text as instructions: strings as they are, parts by their text.
InstructionsOf(message) ==
  IF message.role # "system" THEN <<>>
  ELSE IF message.content.array THEN partsText(message.content) ELSE message.content.words

toResponsesBody(request) ==
  [input |-> Joint([i \in DOMAIN request.messages |-> ItemsOf(request.messages[i])]),
   instructions |-> Joint([i \in DOMAIN request.messages |-> InstructionsOf(request.messages[i])]),
   tools |-> Each(request.tools, LAMBDA tool : tool.function),
   tool_choice |-> request.tool_choice,
   format |-> request.response_format,
   limit |-> request.max_completion_tokens,
   effort |-> request.reasoning_effort]

ConversationsInit ==
  /\ asked \in Requests
  /\ items = <<>> /\ messages = <<>> /\ calls = <<>> /\ encrypted = Missing

\* The other fields matter to no item: the conversation grows beside plain ones.
ConversationsNext ==
  /\ asked = Plain
  /\ \/ FunctionCall \/ FunctionCallOutput \/ Reasoning \/ MessageItem \/ ContentPart \/ UnknownItem

ConversationsSpec == ConversationsInit /\ [][ConversationsNext]_conversationVars

----------------------------------------------------------------------------

Conversation == toCanonical.messages

\* No result is orphaned from its call: every call is in one message, and every tool message
\* comes after the one that carries the call it answers (the comment on toMessages).
ResultsFollowCalls ==
  /\ \A c \in Called :
       \E j \in DOMAIN Conversation :
         /\ c \in Range(Conversation[j].calls)
         /\ \A k \in DOMAIN Conversation \ {j} : c \notin Range(Conversation[k].calls)
  /\ \A i \in DOMAIN Conversation :
       Conversation[i].role = "tool" =>
         \E j \in 1 .. i - 1 : Conversation[i].answers \in Range(Conversation[j].calls)

\* An item as a Responses provider should get it back: a reasoning item has no canonical
\* form, a stray part is a user's message, and system text is lifted out.
Awaited(item) ==
  CASE item.type \in {"reasoning", "other"} -> <<>>
    [] item.type = "function_call" -> <<item>>
    [] item.type = "function_call_output" -> <<[item EXCEPT !.content = String(partsText(@))]>>
    [] item.type = "part" -> <<[type |-> "message", role |-> "user", content |-> item.content]>>
    [] item.type = "message" /\ item.role = "user" -> <<item>>
    [] item.type = "message" /\ item.role = "system" -> <<>>
    [] item.type = "message" /\ item.role = "assistant" ->
         IF partsText(item.content) = <<>> THEN <<>>
         ELSE <<[item EXCEPT !.content = Array(partsText(@))]>>

\* A conversation that enters and leaves as Responses arrives with the same turns in the same
\* order, whichever of them carry text, parts, calls or results (toCanonical and then
\* toResponsesBody).
ItemsSurvive ==
  toResponsesBody(toCanonical).input = Joint([i \in DOMAIN items |-> Awaited(items[i])])

\* So do the tools, the choice among them, the format and the limits that can be spelled in
\* chat at all.
FieldsSurvive ==
  LET body == toResponsesBody(toCanonical)
  IN  /\ body.tools = asked.tools /\ body.limit = asked.limit /\ body.effort = asked.effort
      /\ asked.instructions # Missing => asked.instructions \in Range(body.instructions)
      /\ asked.tool_choice # Missing /\ asked.tool_choice.name # Missing =>
           body.tool_choice = asked.tool_choice
      /\ asked.format # Missing /\ asked.format.schema # Missing => body.format = asked.format

\* A conversation in Responses form is one a chat provider accepts, and comes out of the
\* other side as it went in (responses/convert.ts, toCanonical and toResponsesBody).
ConversationSurvives == ResultsFollowCalls /\ ItemsSurvive /\ FieldsSurvive
=============================================================================
