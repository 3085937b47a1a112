-------------------------------- MODULE Wire --------------------------------
(***************************************************************************)
(* One call of an adapter (upstream/*.ts): the request and its refusal,    *)
(* the lines of the provider's event stream cut into frames (sse.parse),   *)
(* decoded (sse.decode, parsePayload), looked through for a failure        *)
(* (inBandErrorOf, failureOf), converted, and framed again for a Chat      *)
(* Completions client (sse.encode).                                        *)
(*                                                                         *)
(* A payload is sent on one data line or on two; between its lines a       *)
(* provider may put comments and other fields, and it may end the          *)
(* connection, or lose it, anywhere.  What was sent is recorded in sent,   *)
(* which the gateway does not see.                                         *)
(***************************************************************************)
EXTENDS Integers, Sequences, SequencesExt, FiniteSetsExt, Subsequences

CONSTANTS
  Statuses,    \* statuses a provider may refuse with
  Stated,      \* usages it may state, as records of numbers
  Soon,        \* ms: a delay it may ask for
  MaxPayloads  \* bound: payloads of the stream

ASSUME WireAssumption ==
  /\ Statuses \subseteq 300 .. 599
  /\ Stated \subseteq [prompt : Nat, completion : Nat, cached : Nat, total : Nat]
  /\ Soon \in Nat /\ MaxPayloads \in Nat

VARIABLES
  posted,   \* the request as it was posted
  sent,     \* payloads whose data lines are all sent
  writing,  \* data lines of the frame the provider has not closed
  gateway   \* the call: where it is at, what it holds, what the client has

wireVars == <<posted, sent, writing, gateway>>

----------------------------------------------------------------------------
(* Errors *)

\* Seeded fault: a status is taken by its class.
classifyStatusByClass(status) == IF status >= 500 THEN "upstream" ELSE "invalid_request"

\* classifyStatus
classifyStatus(status) ==
  CASE status \in {401, 403}      -> "auth"
    [] status = 402               -> "quota"
    [] status = 404               -> "not_found"
    [] status = 408               -> "timeout"
    [] status = 429               -> "rate_limit"
    [] status \in {400, 413, 422} -> "invalid_request"
    [] OTHER                      -> "upstream"

NoHint == -1

\* retryAfterMs: seconds or a date; null for no header or one that is neither.
retryAfterMs(header) == CASE header = "soon" -> Soon [] header = "past" -> 0 [] OTHER -> NoHint

providerError(kind, status, hint) == [kind |-> kind, status |-> status, retry_after_ms |-> hint]

NoFailure == providerError("none", 0, NoHint)

\* What the Retry-After header holds: nothing of use, a delay, or a past date.
RetryAfter == {"none", "soon", "past"}

\* isRetryable and isFailoverOnly
isRetryable(kind) == kind \in {"rate_limit", "quota", "upstream", "timeout", "network"}
isFailoverOnly(kind) == kind \in {"not_found", "invalid_request"}

\* What may go wrong with the socket, as transportFailure tells it apart.
SocketFaults == {"timeout", "network"}

SocketError(cause) == providerError(cause, 0, NoHint)

\* Seeded fault: whatever fails a stream is the socket's doing.
transportFailureAlways(cause) ==
  providerError(IF cause.kind \in SocketFaults THEN cause.kind ELSE "network", 0, NoHint)

\* transportFailure: a ProviderError is passed through.
transportFailure(cause) == IF cause.kind \in SocketFaults THEN providerError(cause.kind, 0, NoHint) ELSE cause

----------------------------------------------------------------------------
(* The request *)

\* The client's stream_options: absent, or with a word about the usage.
Options == {"absent", "without_usage", "with_usage"}

\* Seeded fault: the client's own option is what counts.
IncludesUsageAsAsked(protocol, options) == protocol = "responses" \/ options = "with_usage"

\* stream: include_usage is forced on; a Responses stream always has it.
IncludesUsage(protocol, options) == protocol = "chat" \/ protocol = "responses"

Request(protocol, streaming, options) ==
  [protocol |-> protocol, streaming |-> streaming, include_usage |-> IncludesUsage(protocol, options)]

----------------------------------------------------------------------------
(* Payloads and frames *)

EMPTY_USAGE == [prompt |-> 0, completion |-> 0, cached |-> 0, total |-> 0]

\* delta and usage carry something for the client; idle is a role, a ping or
\* an event without a translation, noise no JSON object, done the terminator.
\* error is a failure reported as an `error` object or, on a Responses stream, by
\* response.failed or response.error; an `error` that is a string, or a frame of
\* type "error" without such an object, is no failure to the gateway: it is idle.
Kinds == {"delta", "usage", "idle", "noise", "error", "done"}

Packet(kind, number, usage) == [kind |-> kind, number |-> number, usage |-> usage]

Malformed == Packet("noise", 0, EMPTY_USAGE)
Done == Packet("done", 0, EMPTY_USAGE)
ErrorFrame == Packet("error", 0, EMPTY_USAGE)

\* A data line: a payload, or one of its halves.
Line(payload, part) == [payload |-> payload, part |-> part]

\* The payload that data lines make when they are joined.
Joined(lines) ==
  IF Len(lines) = 1 /\ lines[1].part = "whole" THEN lines[1].payload
  ELSE IF Len(lines) = 2 /\ lines[1] = Line(lines[2].payload, "first") /\ lines[2].part = "last"
       THEN lines[1].payload
       ELSE Malformed

IsWhole(lines) == lines # <<>> /\ Last(lines).part # "first"

\* Seeded fault: usage is taken as stated.
normalizeUsageAsStated(u) == u

\* normalizeUsage: cached tokens are part of the prompt, a total of zero or
\* none is the sum.
normalizeUsage(u) ==
  [u EXCEPT !.cached = IF @ < u.prompt THEN @ ELSE u.prompt,
            !.total = IF @ = 0 THEN u.prompt + u.completion ELSE @]

\* inBandErrorOf and failureOf: an object, or one of the two events, and nothing else
ReportsFailure(payload) == payload.kind = "error"

\* fromUpstreamChunk and eventsToChunk, for whether there is a chunk at all.
Converts(payload) == payload.kind \in {"delta", "usage"}

----------------------------------------------------------------------------
(* The pipeline *)

NewCall == [at |-> "idle", buffered |-> <<>>, client |-> <<>>, account |-> EMPTY_USAGE,
            failure |-> NoFailure]

\* Seeded fault: the terminator follows an error frame too.
TerminatedAlways(g) == <<Done>>

\* encode: the terminator is sent unless the stream failed.
Terminated(g) == IF g.failure = NoFailure THEN <<Done>> ELSE <<>>

\* The stream ends: catchAll's error frame, and the terminator.
CallEnded(g) ==
  LET errors == IF g.failure = NoFailure THEN <<>> ELSE <<ErrorFrame>>
  IN  [g EXCEPT !.at = IF g.failure = NoFailure THEN "done" ELSE "failed",
                !.client = g.client \o errors \o Terminated(g)]

CallFailed(g, cause) == CallEnded([g EXCEPT !.failure = transportFailure(cause)])

\* A chunk for the accumulator and the client.
Forwarded(g, payload) ==
  [g EXCEPT !.client = Append(@, payload),
            !.account = IF payload.kind = "usage" THEN normalizeUsage(payload.usage) ELSE @]

\* Seeded fault: the conversion comes first, and drops what it cannot convert.
HandledConverted(g, payload) ==
  CASE payload.kind = "done" -> CallEnded(g)
    [] Converts(payload)     -> Forwarded(g, payload)
    [] OTHER                 -> g

\* What a payload does: it ends takeWhile, it is looked through for a failure,
\* and then it is a chunk or is dropped (decode and the null filter).
Handled(g, payload) ==
  CASE payload.kind = "done"   -> CallEnded(g)
    [] ReportsFailure(payload) -> CallFailed(g, providerError("upstream", 200, NoHint))
    [] Converts(payload)       -> Forwarded(g, payload)
    [] OTHER                   -> g

\* A blank line hands on the frame, if there is one.
Closed(g) ==
  IF g.buffered = <<>> THEN g ELSE Handled([g EXCEPT !.buffered = <<>>], Joined(g.buffered))

\* A comment, or an event:, id: or retry: field.
Skipped(g) == g

\* Seeded fault: what is not closed when the body ends is lost.
BodyEndAsSent(g) == g

\* parse puts a blank line at the end of the body.
BodyEnd(g) == Closed(g)

Finished(g) == IF g.at = "open" THEN CallEnded(g) ELSE g

----------------------------------------------------------------------------
(* The call *)

WireInit ==
  /\ posted = Request("chat", FALSE, "absent")
  /\ sent = <<>> /\ writing = <<>>
  /\ gateway = NewCall

\* postJson and toUpstreamBody
Post(protocol, streaming, options) ==
  /\ gateway.at = "idle"
  /\ posted' = Request(protocol, streaming, options)
  /\ gateway' = [gateway EXCEPT !.at = "asked"]
  /\ UNCHANGED <<sent, writing>>

\* The executor has the error before anything is committed to the client.
Rejected(error) ==
  /\ gateway.at = "asked"
  /\ gateway' = [gateway EXCEPT !.at = "rejected", !.failure = error]
  /\ UNCHANGED <<posted, sent, writing>>

\* execute: no response, or one that is not a 2xx.
Unreachable(cause) == Rejected(transportFailure(SocketError(cause)))
Refused(status, header) ==
  Rejected(providerError(classifyStatus(status), status, retryAfterMs(header)))

\* complete: the body is cut, is no JSON (decodeJson), or is an answer.
Cut(cause) == ~posted.streaming /\ Rejected(transportFailure(SocketError(cause)))
Garbled == ~posted.streaming /\ Rejected(providerError("upstream", 200, NoHint))
Whole(usage) ==
  /\ gateway.at = "asked" /\ ~posted.streaming
  /\ sent' = <<Packet("usage", 1, usage)>>
  /\ gateway' = [Forwarded(gateway, sent'[1]) EXCEPT !.at = "done"]
  /\ UNCHANGED <<posted, writing>>

Accepted ==
  /\ gateway.at = "asked" /\ posted.streaming
  /\ gateway' = [gateway EXCEPT !.at = "open"]
  /\ UNCHANGED <<posted, sent, writing>>

----------------------------------------------------------------------------
(* The provider's lines *)

SendLine(payload, part) ==
  /\ gateway.at = "open"
  /\ writing' = Append(writing, Line(payload, part))
  /\ sent' = IF part = "first" THEN sent ELSE Append(sent, payload)
  /\ gateway' = [gateway EXCEPT !.buffered = Append(@, Line(payload, part))]
  /\ UNCHANGED posted

\* A provider that was asked for the usage states it before it says it is done.
MaySay(payload) ==
  payload.kind = "done" /\ posted.include_usage => \E i \in DOMAIN sent : sent[i].kind = "usage"

SendData(kind, usage, part) ==
  LET payload == Packet(kind, Len(sent) + 1, usage) IN
  /\ Len(sent) < MaxPayloads /\ writing = <<>>
  /\ kind # "usage" => usage = EMPTY_USAGE
  /\ kind = "done" => part = "whole"
  /\ kind = "usage" /\ posted.protocol = "chat" => posted.include_usage
  /\ MaySay(payload)
  /\ SendLine(payload, part)

SendRest == writing # <<>> /\ ~IsWhole(writing) /\ SendLine(writing[1].payload, "last")

SendOther ==
  /\ gateway.at = "open"
  /\ gateway' = Skipped(gateway)
  /\ UNCHANGED <<posted, sent, writing>>

SendBlank ==
  /\ gateway.at = "open"
  /\ IsWhole(writing)
  /\ writing' = <<>>
  /\ gateway' = Closed(gateway)
  /\ UNCHANGED <<posted, sent>>

\* The provider closes the connection, at a frame's end or in the middle.
CloseBody ==
  /\ gateway.at = "open"
  /\ gateway' = Finished(BodyEnd(gateway))
  /\ UNCHANGED <<posted, sent, writing>>

BreakBody(cause) ==
  /\ gateway.at = "open"
  /\ gateway' = CallFailed(gateway, SocketError(cause))
  /\ UNCHANGED <<posted, sent, writing>>

WireNext ==
  \/ \E protocol \in {"chat", "responses"}, streaming \in BOOLEAN, options \in Options :
       Post(protocol, streaming, options)
  \/ \E cause \in SocketFaults : Unreachable(cause) \/ Cut(cause) \/ BreakBody(cause)
  \/ \E status \in Statuses, header \in RetryAfter : Refused(status, header)
  \/ Garbled \/ Accepted
  \/ \E usage \in Stated : Whole(usage)
  \/ \E kind \in Kinds, usage \in Stated \cup {EMPTY_USAGE}, part \in {"whole", "first"} :
       SendData(kind, usage, part)
  \/ SendRest \/ SendOther \/ SendBlank \/ CloseBody

WireSpec == WireInit /\ [][WireNext]_wireVars

----------------------------------------------------------------------------
(* Properties *)

\* The payloads the provider has completed: one whose frame it has not closed
\* counts when the body ended after it, and not when the connection broke.
Complete ==
  IF writing = <<>> \/ ~IsWhole(writing) \/ gateway.at = "done" \/ gateway.failure.status = 200
  THEN sent ELSE Front(sent)

\* The completed payloads up to the first that ends the stream.
Heeded ==
  LET stops == {i \in DOMAIN Complete : Complete[i].kind \in {"done", "error"}}
  IN  IF stops = {} THEN Complete ELSE SubSeq(Complete, 1, Min(stops))

\* The payloads of a stream that carry something, and the frames that end one.
Chunks(payloads) == Subsequence(payloads, {i \in DOMAIN payloads : Converts(payloads[i])})
Closings == {i \in DOMAIN gateway.client : gateway.client[i] \in {Done, ErrorFrame}}
Content == Subsequence(gateway.client, DOMAIN gateway.client \ Closings)

\* However a provider cuts its frames into lines, wherever it puts comments
\* between them, and whether or not it closes the last one, the client gets
\* each chunk once and in the order it was sent, and nothing else (the frame
\* accumulator of sse.parse, its blank line at the end of the body, and decode).
FramesArriveOnce ==
  Content = Chunks(Heeded)

\* A stream's client is told the answer is complete just when no failure was
\* seen: an error object in the body and a broken connection are both told as
\* failures, after which no terminator follows (encode's terminate, mapEffect
\* of both adapters).  A failure in a form they do not look for (Kinds) is not.
EndIsHonest ==
  posted.streaming /\ gateway.at \in {"done", "failed"} =>
    LET told == \E i \in DOMAIN Heeded : ReportsFailure(Heeded[i])
    IN  /\ told => gateway.failure.kind = "upstream"
        /\ Subsequence(gateway.client, Closings) = (IF gateway.failure = NoFailure THEN <<Done>> ELSE <<ErrorFrame>>)
        /\ gateway.client # <<>> => Last(gateway.client) \in {Done, ErrorFrame}

\* The kind the executor and the ledger see tells what happened: a socket's
\* fault has no status and is never "upstream"; a failure in a 200 body is
\* "upstream" and never a socket's fault; a refusal is worth a retry when the
\* provider may recover (402, 408, 429, 5xx), moves the request on when it is
\* about the request (400, 404, 413, 422), and does neither when it is about the
\* credential (401, 403).  A wait is never negative (transportFailure,
\* classifyStatus, retryAfterMs, isRetryable, isFailoverOnly).
FailureTellsWhy ==
  gateway.failure # NoFailure =>
    LET error == gateway.failure IN
    /\ error.status = 0 => error.kind \in SocketFaults
    /\ error.kind = "network" => error.status = 0
    /\ error.status = 200 => error.kind = "upstream" /\ isRetryable(error.kind)
    /\ error.status \in {402, 408, 429} \cup 500 .. 599 => isRetryable(error.kind)
    /\ error.status \in {400, 404, 413, 422} => isFailoverOnly(error.kind) /\ ~isRetryable(error.kind)
    /\ error.status \in {401, 403} => ~isFailoverOnly(error.kind) /\ ~isRetryable(error.kind)
    /\ error.retry_after_ms = NoHint \/ error.retry_after_ms >= 0

\* A provider that says it is done has stated the usage, whatever the client
\* asked for, and what is billed is what it stated last, with no more cached
\* tokens than the prompt has and a total (stream's include_usage,
\* normalizeUsage).
BilledAsStated ==
  /\ gateway.at = "done" =>
       LET told == {i \in DOMAIN sent : sent[i].kind = "usage"} IN
       /\ (\E i \in DOMAIN sent : sent[i].kind = "done") => told # {}
       /\ told # {} => gateway.account.prompt = sent[Max(told)].usage.prompt
  /\ gateway.account.cached <= gateway.account.prompt
  /\ gateway.account.total = 0 => gateway.account.prompt + gateway.account.completion = 0

\* A stream is its provider's, frame for frame, and its end is told as what it was
\* (sse.ts and both adapters).
StreamIsHonest == FramesArriveOnce /\ EndIsHonest

\* What became of a call, and what it costs, is what the provider said (both adapters;
\* classifyStatus; normalizeUsage).
CallIsTold == FailureTellsWhy /\ BilledAsStated
=============================================================================
