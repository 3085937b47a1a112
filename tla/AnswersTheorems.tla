--------------------------- MODULE AnswersTheorems ---------------------------
(***************************************************************************)
(* What the gateway answers with, for every provider, client and operator: *)
(* a call of an adapter is told as what became of it and costs what its    *)
(* provider said, and a stream reaches the client frame for frame (Wire);  *)
(* a report of the usage adds up (Reports); what is listed was so while it *)
(* was read (Listing); and a conversation of a Responses or an Anthropic   *)
(* client keeps what was said (Conversations, AnthropicTurns).             *)
(***************************************************************************)
EXTENDS Wire, Reports, Listing, Conversations, AnthropicTurns, Foundations

----------------------------------------------------------------------------
(* A call of an adapter (Wire) *)

Bills == [prompt : Nat, completion : Nat, cached : Nat, total : Nat]
Packets == [kind : Kinds, number : Nat, usage : Bills]
Stops == {"done", "error"}

\* What a call may end with.
Failures ==
  {NoFailure, SocketError("timeout"), SocketError("network"), providerError("upstream", 200, NoHint)}
  \cup {providerError(classifyStatus(status), status, retryAfterMs(header)) :
          status \in Statuses, header \in RetryAfter}

DataLine == [payload : Packets, part : {"whole", "first", "last"}]

CallStates == [at : {"idle", "asked", "rejected", "open", "done", "failed"},
         buffered : Seq(DataLine), client : Seq(Packets), account : Bills, failure : Failures]

WireType ==
  /\ posted \in [protocol : {"chat", "responses"}, streaming : BOOLEAN, include_usage : {TRUE}]
  /\ sent \in Seq(Packets)
  /\ writing \in Seq(DataLine)
  /\ gateway \in CallStates

\* The payloads whose frames the provider has closed.
Handed == IF writing = <<>> \/ ~IsWhole(writing) THEN sent ELSE Front(sent)

\* The data lines of the open frame belong to the payload sent last, or to one
\* that is not all sent.
FramedWhole == sent # <<>> /\ Len(writing) = 1 /\ writing[1] = Line(Last(sent), "whole")
FramedFirst == Len(writing) = 1 /\ writing[1].part = "first" /\ writing[1].payload.kind # "done"
FramedBoth ==
  /\ sent # <<>> /\ Len(writing) = 2
  /\ writing[1] = Line(Last(sent), "first") /\ writing[2] = Line(Last(sent), "last")
Framed == writing = <<>> \/ FramedWhole \/ FramedFirst \/ FramedBoth

\* What a stream of payloads is billed: its last usage.
BilledFor(payloads) ==
  LET told == {i \in DOMAIN payloads : payloads[i].kind = "usage"}
  IN  IF told = {} THEN EMPTY_USAGE ELSE normalizeUsage(payloads[Max(told)].usage)

\* No payload of the stream has ended it.
Flows(payloads) == \A i \in DOMAIN payloads : payloads[i].kind \notin Stops

Untold == gateway.client = <<>> /\ sent = <<>> /\ writing = <<>> /\ gateway.account = EMPTY_USAGE

\* The call that goes on has handed on every chunk of the closed frames.
Streaming ==
  /\ posted.streaming /\ gateway.failure = NoFailure
  /\ gateway.buffered = writing /\ Framed
  /\ Flows(Handed)
  /\ gateway.client = Chunks(Handed)
  /\ gateway.account = BilledFor(Handed)

\* The call that ended has handed on every chunk of what was completed, and then
\* told how it ended.
Told(payloads, end) ==
  /\ \A i \in DOMAIN payloads : i # Len(payloads) => payloads[i].kind \notin Stops
  /\ gateway.client = Append(Chunks(payloads), end)
  /\ gateway.account = BilledFor(payloads)

StreamDone ==
  /\ posted.streaming /\ gateway.at = "done" /\ gateway.failure = NoFailure
  /\ Told(sent, Done)
  /\ \A i \in DOMAIN sent : sent[i].kind # "error"

StreamFailed ==
  /\ posted.streaming /\ gateway.at = "failed"
  /\ \/ gateway.failure = providerError("upstream", 200, NoHint) /\ Told(sent, ErrorFrame)
     \/ /\ gateway.failure.kind \in SocketFaults /\ gateway.failure.status = 0
        /\ Told(Handed, ErrorFrame) /\ Flows(Handed)

AnswerGiven ==
  /\ ~posted.streaming /\ gateway.at = "done" /\ gateway.failure = NoFailure
  /\ Len(sent) = 1 /\ sent[1].kind = "usage" /\ writing = <<>>
  /\ gateway.client = sent /\ gateway.account = BilledFor(sent)

\* A provider that says it is done has stated the usage.
DoneStates ==
  (\E i \in DOMAIN sent : sent[i].kind = "done") => \E i \in DOMAIN sent : sent[i].kind = "usage"

WireInv ==
  /\ WireType /\ DoneStates
  /\ gateway.at \in {"idle", "asked"} => gateway.failure = NoFailure /\ gateway.buffered = <<>> /\ Untold
  /\ gateway.at = "rejected" => Untold /\ gateway.failure # NoFailure
  /\ gateway.at = "open" => Streaming
  /\ gateway.at = "done" => StreamDone \/ AnswerGiven
  /\ gateway.at = "failed" => StreamFailed

\* The last payload of a stream and those before it.
LEMMA FrontTells ==
  ASSUME NEW X, NEW s \in Seq(X), s # <<>>
  PROVE  /\ Front(s) \in Seq(X) /\ Last(s) \in X /\ Append(Front(s), Last(s)) = s
         /\ Len(s) \in Nat \ {0} /\ Len(Front(s)) = Len(s) - 1 /\ Last(s) = s[Len(s)]
         /\ \A i \in 1 .. Len(s) - 1 : Front(s)[i] = s[i]
<1>1. Len(s) \in Nat \ {0} /\ Last(s) = s[Len(s)] /\ Last(s) \in X
  BY DEF Last
<1> DEFINE f == Front(s)
<1>2. f \in Seq(X) /\ Len(f) = Len(s) - 1 /\ \A i \in 1 .. Len(s) - 1 : f[i] = s[i]
  <2> DEFINE n == Len(s) - 1
  <2>1. n \in Nat /\ n <= Len(s)
    BY <1>1
  <2>2. f = SubSeq(s, 1, n)
    BY DEF Front
  <2> HIDE DEF f, n
  <2>3. f = [i \in 1 .. n |-> s[i]]
    BY <2>1, <2>2
  <2>4. \A i \in 1 .. n : s[i] \in X
    BY <2>1
  <2>5. f \in Seq(X) /\ Len(f) = n
    BY <2>1, <2>3, <2>4
  <2> QED
    BY <2>3, <2>5 DEF n
<1> DEFINE x == Last(s)
           a == Append(f, x)
<1>3. a \in Seq(X) /\ Len(a) = Len(s) /\ \A i \in 1 .. Len(s) : a[i] = s[i]
  <2> HIDE DEF f, x
  <2>1. a \in Seq(X) /\ Len(a) = Len(s)
    BY <1>1, <1>2 DEF x
  <2>2. ASSUME NEW i \in 1 .. Len(s) PROVE a[i] = s[i]
    <3>1. CASE i = Len(s)
      BY <3>1, <1>1, <1>2 DEF x
    <3>2. CASE i # Len(s)
      BY <3>2, <1>1, <1>2
    <3> QED
      BY <3>1, <3>2
  <2> QED
    BY <2>1, <2>2
<1>4. a = s
  <2> HIDE DEF a
  <2> QED
    BY <1>3
<1> QED
  BY <1>1, <1>2, <1>4

\* The chunks of a stream: those it had, and its last payload if that is one.
LEMMA ChunksGrow ==
  ASSUME NEW s \in Seq(Packets), NEW p \in Packets
  PROVE  /\ Chunks(s) \in Seq(Packets)
         /\ Chunks(Append(s, p)) = IF Converts(p) THEN Append(Chunks(s), p) ELSE Chunks(s)
<1> DEFINE Kept(q) == {i \in DOMAIN q : Converts(q[i])}
           t == Append(s, p)
<1>1. /\ Len(s) \in Nat /\ DOMAIN s = 1 .. Len(s) /\ DOMAIN t = 1 .. Len(s) + 1
      /\ t[Len(s) + 1] = p /\ \A i \in 1 .. Len(s) : t[i] = s[i]
  OBVIOUS
<1>2. Kept(t) = IF Converts(p) THEN Kept(s) \cup {Len(s) + 1} ELSE Kept(s)
  <2> HIDE DEF t
  <2> QED
    BY <1>1
<1>3. Kept(s) \in SUBSET DOMAIN s
  OBVIOUS
<1>4. /\ Subsequence(t, Kept(s)) = Subsequence(s, Kept(s))
      /\ Subsequence(t, Kept(s) \cup {Len(s) + 1}) = Append(Subsequence(s, Kept(s)), p)
  <2> HIDE DEF Kept
  <2> QED
    BY <1>3, SubsequenceGrows
<1>5. Subsequence(s, Kept(s)) \in Seq(Packets)
  <2> HIDE DEF Kept
  <2> QED
    BY <1>3, SubsequenceTells
<1>6. Chunks(s) = Subsequence(s, Kept(s)) /\ Chunks(t) = Subsequence(t, Kept(t))
  BY DEF Chunks
<1> HIDE DEF Kept, t
<1>7. Chunks(t) = IF Converts(p) THEN Append(Chunks(s), p) ELSE Chunks(s)
  BY <1>2, <1>4, <1>6
<1> QED
  BY <1>5, <1>6, <1>7 DEF t

\* No stream has no chunks and costs nothing; a chunk carries something.
LEMMA NothingTold ==
  /\ Chunks(<<>>) = <<>> /\ BilledFor(<<>>) = EMPTY_USAGE /\ Flows(<<>>)
  /\ EMPTY_USAGE \in Bills
<1> DEFINE none == {i \in DOMAIN <<>> : Converts(<<>>[i])}
<1>1. none = {}
  OBVIOUS
<1>2. Chunks(<<>>) = <<>>
  <2>1. <<>> \in Seq(Packets)
    OBVIOUS
  <2>2. Subsequence(<<>>, {}) = <<>>
    BY <2>1, SubsequenceEnds
  <2>3. Chunks(<<>>) = Subsequence(<<>>, none)
    BY DEF Chunks
  <2> QED
    BY <2>2, <2>3, <1>1
<1>3. BilledFor(<<>>) = EMPTY_USAGE
  BY DEF BilledFor
<1> QED
  BY <1>2, <1>3 DEF Flows, EMPTY_USAGE, Bills

\* The chunks handed to a handler are of frames that convert.
LEMMA ChunksCarry ==
  ASSUME NEW s \in Seq(Packets)
  PROVE  \A n \in DOMAIN Chunks(s) : Converts(Chunks(s)[n])
<1> DEFINE kept == {i \in DOMAIN s : Converts(s[i])}
<1>1. kept \in SUBSET DOMAIN s /\ \A i \in kept : Converts(s[i])
  OBVIOUS
<1>2. Chunks(s) = Subsequence(s, kept)
  BY DEF Chunks
<1> HIDE DEF kept
<1>3. /\ Chunks(s) \in Seq(Packets) /\ Len(Chunks(s)) = Cardinality(kept)
      /\ \A n \in 1 .. Cardinality(kept) : Nth(kept, n) \in kept /\ Chunks(s)[n] = s[Nth(kept, n)]
  BY <1>1, <1>2, SubsequenceTells
<1> QED
  BY <1>1, <1>3

\* A stream costs what its last payload says, if that is a usage.
LEMMA BilledGrows ==
  ASSUME NEW s \in Seq(Packets), NEW p \in Packets
  PROVE  BilledFor(Append(s, p)) =
           IF p.kind = "usage" THEN normalizeUsage(p.usage) ELSE BilledFor(s)
<1> DEFINE t == Append(s, p)
           told == {i \in DOMAIN s : s[i].kind = "usage"}
           tolds == {i \in DOMAIN t : t[i].kind = "usage"}
           m == Len(s)
<1>1. /\ m \in Nat /\ DOMAIN s = 1 .. m /\ DOMAIN t = 1 .. m + 1
      /\ t[m + 1] = p /\ \A i \in 1 .. m : t[i] = s[i]
  OBVIOUS
<1> HIDE DEF t
<1>2. CASE p.kind = "usage"
  <2>1. m + 1 \in tolds /\ \A i \in tolds : i <= m + 1
    BY <1>1, <1>2
  <2>2. Max(tolds) = m + 1
    <3>1. tolds \subseteq Nat
      BY <1>1
    <3> HIDE DEF tolds
    <3>2. \A y \in tolds : m + 1 >= y
      BY <2>1, <3>1, <1>1
    <3>3. \A x \in tolds : (\A y \in tolds : x >= y) => x = m + 1
      BY <2>1, <3>1, <3>2, <1>1
    <3> HIDE DEF m
    <3> QED
      BY <2>1, <3>2, <3>3, Zenon DEF Max
  <2> QED
    BY <2>1, <2>2, <1>1, <1>2 DEF BilledFor, t
<1>3. CASE p.kind # "usage"
  <2>1. tolds = told
    BY <1>1, <1>3
  <2>2. told # {} => Max(told) \in told
    <3> SUFFICES ASSUME told # {} PROVE Max(told) \in told
      OBVIOUS
    <3>1. told \in SUBSET (0 .. m)
      BY <1>1
    <3>2. \E k \in told : \A j \in told : j <= k
      <4> HIDE DEF told, m
      <4> QED
        BY <3>1, <1>1, GreatestElement
    <3> HIDE DEF told
    <3>3. \E k \in told : \A j \in told : k >= j
      BY <3>1, <3>2, <1>1
    <3> QED
      BY <3>3 DEF Max
  <2>3. told # {} => t[Max(told)] = s[Max(told)]
    BY <2>2, <1>1
  <2> QED
    BY <2>1, <2>3, <1>3 DEF BilledFor, t
<1> QED
  BY <1>2, <1>3

\* A usage as it is billed.
LEMMA NormalUsage ==
  ASSUME NEW u \in Bills
  PROVE  /\ normalizeUsage(u) \in Bills /\ normalizeUsage(u).prompt = u.prompt
         /\ normalizeUsage(u).cached <= u.prompt
         /\ normalizeUsage(u).completion = u.completion
         /\ normalizeUsage(u).total = 0 => u.prompt + u.completion = 0
<1> DEFINE c == IF u.cached < u.prompt THEN u.cached ELSE u.prompt
           n == IF u.total = 0 THEN u.prompt + u.completion ELSE u.total
<1>1. /\ u.prompt \in Nat /\ u.completion \in Nat /\ u.cached \in Nat /\ u.total \in Nat
  BY DEF Bills
<1>2. c \in Nat /\ c <= u.prompt /\ n \in Nat /\ (n = 0 => u.prompt + u.completion = 0)
  BY <1>1
<1>3. normalizeUsage(u) = [u EXCEPT !.cached = c, !.total = n]
  BY DEF normalizeUsage, Bills
<1> HIDE DEF c, n
<1> QED
  BY <1>1, <1>2, <1>3 DEF Bills

\* A call that has not failed is told as done, one that has as failed.
LEMMA EndedTells ==
  ASSUME NEW g \in CallStates
  PROVE  /\ CallEnded(g) \in CallStates
         /\ CallEnded(g).account = g.account /\ CallEnded(g).failure = g.failure
         /\ g.failure = NoFailure =>
              CallEnded(g).at = "done" /\ CallEnded(g).client = Append(g.client, Done)
         /\ g.failure # NoFailure =>
              CallEnded(g).at = "failed" /\ CallEnded(g).client = Append(g.client, ErrorFrame)
<1>1. Done \in Packets /\ ErrorFrame \in Packets
  BY NothingTold DEF Done, ErrorFrame, Packet, Packets, Kinds
<1>2. g.client \in Seq(Packets)
  BY DEF CallStates
<1> DEFINE c == g.client
<1>3. /\ c \o <<>> \o <<Done>> = Append(c, Done)
      /\ c \o <<ErrorFrame>> \o <<>> = Append(c, ErrorFrame)
      /\ Append(c, Done) \in Seq(Packets) /\ Append(c, ErrorFrame) \in Seq(Packets)
  <2> HIDE DEF c
  <2>1. c \in Seq(Packets)
    BY <1>2 DEF c
  <2>2. c \o <<>> = c
    BY <2>1
  <2>3. c \o <<Done>> = Append(c, Done) /\ c \o <<ErrorFrame>> = Append(c, ErrorFrame)
    BY <2>1, <1>1
  <2>4. Append(c, ErrorFrame) \in Seq(Packets) /\ Append(c, Done) \in Seq(Packets)
    BY <2>1, <1>1
  <2>5. Append(c, ErrorFrame) \o <<>> = Append(c, ErrorFrame)
    <3> DEFINE a == Append(c, ErrorFrame)
    <3>1. a \in Seq(Packets)
      BY <2>4
    <3> HIDE DEF a
    <3>2. a \o <<>> = a
      BY <3>1
    <3> QED
      BY <3>2 DEF a
  <2> QED
    BY <2>2, <2>3, <2>4, <2>5
<1>4. CASE g.failure = NoFailure
  <2>1. CallEnded(g) = [g EXCEPT !.at = "done", !.client = Append(c, Done)]
    BY <1>3, <1>4 DEF CallEnded, Terminated
  <2> QED
    BY <2>1, <1>3, <1>4 DEF CallStates
<1>5. CASE g.failure # NoFailure
  <2>1. CallEnded(g) = [g EXCEPT !.at = "failed", !.client = Append(c, ErrorFrame)]
    BY <1>3, <1>5 DEF CallEnded, Terminated
  <2> QED
    BY <2>1, <1>3, <1>5 DEF CallStates
<1> QED
  BY <1>4, <1>5

\* So a call that fails on the way is told as failed, for its reason.
LEMMA FailedTells ==
  ASSUME NEW g \in CallStates,
         NEW cause \in {SocketError("timeout"), SocketError("network"),
                        providerError("upstream", 200, NoHint)}
  PROVE  /\ CallFailed(g, cause) \in CallStates
         /\ CallFailed(g, cause).account = g.account
         /\ CallFailed(g, cause).failure = cause
         /\ CallFailed(g, cause).at = "failed"
         /\ CallFailed(g, cause).client = Append(g.client, ErrorFrame)
<1>1. transportFailure(cause) = cause
  BY DEF transportFailure, SocketError, providerError, SocketFaults
<1>2. cause \in Failures /\ cause # NoFailure
  BY DEF Failures, NoFailure, SocketError, providerError
<1> DEFINE h == [g EXCEPT !.failure = cause]
<1>3. h \in CallStates /\ h.failure = cause /\ h.account = g.account /\ h.client = g.client
  BY <1>2 DEF CallStates
<1> HIDE DEF h
<1>4. CallFailed(g, cause) = CallEnded(h)
  BY <1>1 DEF CallFailed, h
<1> QED
  BY <1>2, <1>3, <1>4, EndedTells

\* What a payload does to a call that has handed on those before it.
LEMMA HandledTells ==
  ASSUME NEW g \in CallStates, NEW s \in Seq(Packets), NEW p \in Packets,
         g.failure = NoFailure, g.client = Chunks(s), g.account = BilledFor(s)
  PROVE  LET h == Handled(g, p)
             t == Append(s, p)
         IN  /\ h \in CallStates /\ h.account = BilledFor(t)
             /\ p.kind = "done" =>
                  h.at = "done" /\ h.failure = NoFailure /\ h.client = Append(Chunks(t), Done)
             /\ p.kind = "error" =>
                  /\ h.at = "failed" /\ h.failure = providerError("upstream", 200, NoHint)
                  /\ h.client = Append(Chunks(t), ErrorFrame)
             /\ p.kind \notin Stops =>
                  /\ h.at = g.at /\ h.failure = NoFailure /\ h.client = Chunks(t)
                  /\ h.buffered = g.buffered
<1> DEFINE h == Handled(g, p)
           t == Append(s, p)
<1>1. /\ Chunks(s) \in Seq(Packets)
      /\ Chunks(t) = IF Converts(p) THEN Append(Chunks(s), p) ELSE Chunks(s)
      /\ BilledFor(t) = IF p.kind = "usage" THEN normalizeUsage(p.usage) ELSE BilledFor(s)
  BY ChunksGrow, BilledGrows
<1> HIDE DEF t
<1>2. CASE p.kind = "done"
  <2>1. h = CallEnded(g) /\ ~Converts(p)
    BY <1>2 DEF Handled, Converts, ReportsFailure
  <2> HIDE DEF h
  <2> QED
    BY <2>1, <1>1, <1>2, EndedTells DEF h, t, Stops
<1>3. CASE p.kind = "error"
  <2>1. h = CallFailed(g, providerError("upstream", 200, NoHint)) /\ ~Converts(p)
    BY <1>3 DEF Handled, Converts, ReportsFailure
  <2> HIDE DEF h
  <2> QED
    BY <2>1, <1>1, <1>3, FailedTells DEF h, t, Stops
<1>4. CASE p.kind \notin Stops
  <2>1. p.kind # "done" /\ p.kind # "error"
    BY <1>4 DEF Stops
  <2>2. CASE Converts(p)
    <3>1. h = Forwarded(g, p)
      BY <2>1, <2>2 DEF Handled, ReportsFailure
    <3>2. normalizeUsage(p.usage) \in Bills /\ g.client \in Seq(Packets)
      <4> DEFINE u == p.usage
      <4>1. u \in Bills
        BY DEF Packets
      <4> HIDE DEF u
      <4>2. normalizeUsage(u) \in Bills
        BY <4>1, NormalUsage
      <4> QED
        BY <4>2 DEF CallStates, u
    <3>3. Append(g.client, p) \in Seq(Packets)
      BY <3>2
    <3>4. /\ h \in CallStates /\ h.client = Append(g.client, p) /\ h.at = g.at /\ h.failure = g.failure
          /\ h.buffered = g.buffered
          /\ h.account = IF p.kind = "usage" THEN normalizeUsage(p.usage) ELSE g.account
      BY <3>1, <3>2, <3>3 DEF Forwarded, CallStates
    <3> HIDE DEF h
    <3> QED
      BY <3>4, <2>1, <2>2, <1>1, <1>4 DEF h, t
  <2>3. CASE ~Converts(p)
    <3>1. h = g /\ p.kind # "usage"
      BY <2>1, <2>3 DEF Handled, ReportsFailure, Converts
    <3> HIDE DEF h
    <3> QED
      BY <3>1, <2>1, <2>3, <1>1, <1>4 DEF h, t
  <2> QED
    BY <2>2, <2>3
<1> QED
  BY <1>2, <1>3, <1>4 DEF Stops

\* Where a stream stands when a frame, or the body, has been closed.
ClosedWell(h, payloads) ==
  /\ h \in CallStates /\ h.account = BilledFor(payloads)
  /\ \/ /\ h.at = "open" /\ h.failure = NoFailure /\ Flows(payloads) /\ h.client = Chunks(payloads)
        /\ h.buffered = <<>>
     \/ /\ h.at = "done" /\ h.failure = NoFailure /\ h.client = Append(Chunks(payloads), Done)
        /\ \A i \in DOMAIN payloads : i # Len(payloads) => payloads[i].kind \notin Stops
        /\ \A i \in DOMAIN payloads : payloads[i].kind # "error"
     \/ /\ h.at = "failed" /\ h.failure = providerError("upstream", 200, NoHint)
        /\ h.client = Append(Chunks(payloads), ErrorFrame)
        /\ \A i \in DOMAIN payloads : i # Len(payloads) => payloads[i].kind \notin Stops

\* A provider that closes its connection ends the call as it was: whole, or cut short.
LEMMA ClosedTells ==
  ASSUME WireType, gateway.at = "open", Streaming
  PROVE  ClosedWell(Closed(gateway), sent)
<1>1. gateway \in CallStates /\ sent \in Seq(Packets) /\ writing \in Seq(DataLine)
  BY DEF WireType
<1>2. /\ gateway.failure = NoFailure /\ gateway.buffered = writing /\ Framed /\ Flows(Handed)
      /\ gateway.client = Chunks(Handed) /\ gateway.account = BilledFor(Handed)
  BY DEF Streaming
<1> DEFINE g == [gateway EXCEPT !.buffered = <<>>]
<1>3. /\ g \in CallStates /\ g.at = "open" /\ g.failure = NoFailure /\ g.buffered = <<>>
      /\ g.client = Chunks(Handed) /\ g.account = BilledFor(Handed)
  <2>1. <<>> \in Seq(DataLine)
    OBVIOUS
  <2> QED
    BY <2>1, <1>1, <1>2 DEF CallStates
<1>4. CASE writing = <<>>
  <2>1. Closed(gateway) = gateway /\ Handed = sent
    BY <1>2, <1>4 DEF Closed, Handed
  <2> QED
    BY <2>1, <1>1, <1>2, <1>4 DEF ClosedWell
<1>5. CASE FramedFirst
  <2>1. Joined(writing) = Malformed /\ ~IsWhole(writing) /\ writing # <<>>
    <3>1. Len(writing) = 1 /\ writing[1].part = "first"
      BY <1>5 DEF FramedFirst
    <3>2. writing # <<>>
      BY <3>1
    <3>3. Last(writing) = writing[1]
      BY <3>1 DEF Last
    <3>4. ~IsWhole(writing)
      BY <3>1, <3>3 DEF IsWhole
    <3>5. Joined(writing) = Malformed
      BY <3>1 DEF Joined
    <3> QED
      BY <3>2, <3>4, <3>5
  <2>2. Closed(gateway) = Handled(g, Malformed) /\ Handed = sent
    BY <1>2, <2>1 DEF Closed, Handed
  <2>3. Handled(g, Malformed) = g
    BY DEF Handled, Malformed, Packet, ReportsFailure, Converts
  <2> HIDE DEF g
  <2> QED
    BY <2>2, <2>3, <1>2, <1>3 DEF ClosedWell
<1>6. CASE FramedWhole \/ FramedBoth
  <2> DEFINE p == Last(sent)
             s == Front(sent)
  <2>1. sent # <<>> /\ writing # <<>>
    BY <1>1, <1>6 DEF FramedWhole, FramedBoth
  <2>2. Joined(writing) = p /\ IsWhole(writing)
    <3>1. CASE FramedWhole
      BY <3>1, <2>1 DEF FramedWhole, Joined, IsWhole, Line, Last
    <3>2. CASE FramedBoth
      <4> HIDE DEF p
      <4>1. /\ Len(writing) = 2 /\ writing[1] = Line(p, "first") /\ writing[2] = Line(p, "last")
        BY <3>2 DEF FramedBoth, p
      <4>2. Joined(writing) = p
        BY <4>1 DEF Joined, Line
      <4>3. Last(writing).part = "last"
        BY <4>1 DEF Last, Line
      <4> QED
        BY <4>2, <4>3, <2>1 DEF IsWhole
    <3> QED
      BY <3>1, <3>2, <1>6
  <2>3. Closed(gateway) = Handled(g, p) /\ Handed = s
    BY <1>2, <2>1, <2>2 DEF Closed, Handed
  <2>4. /\ s \in Seq(Packets) /\ p \in Packets /\ Append(s, p) = sent
        /\ Len(sent) \in Nat \ {0} /\ p = sent[Len(sent)] /\ DOMAIN sent = 1 .. Len(sent)
        /\ Len(s) = Len(sent) - 1 /\ \A i \in 1 .. Len(sent) - 1 : s[i] = sent[i]
    BY <1>1, <2>1, FrontTells
  <2> HIDE DEF p, s, g
  <2>5. \A i \in DOMAIN sent : i # Len(sent) => sent[i].kind \notin Stops
    <3>1. \A i \in DOMAIN s : s[i].kind \notin Stops
      BY <1>2, <2>3 DEF Flows
    <3>2. DOMAIN s = 1 .. Len(sent) - 1
      BY <2>4
    <3> QED
      BY <3>1, <3>2, <2>4
  <2>6. LET h == Handled(g, p)
        IN  /\ h \in CallStates /\ h.account = BilledFor(sent)
            /\ p.kind = "done" =>
                 h.at = "done" /\ h.failure = NoFailure /\ h.client = Append(Chunks(sent), Done)
            /\ p.kind = "error" =>
                 /\ h.at = "failed" /\ h.failure = providerError("upstream", 200, NoHint)
                 /\ h.client = Append(Chunks(sent), ErrorFrame)
            /\ p.kind \notin Stops =>
                 /\ h.at = g.at /\ h.failure = NoFailure /\ h.client = Chunks(sent)
                 /\ h.buffered = g.buffered
    BY ZenonT(60), <1>3, <2>3, <2>4, HandledTells
  <2> DEFINE h == Handled(g, p)
  <2> HIDE DEF h
  <2>7. CASE p.kind = "done"
    <3>1. \A i \in DOMAIN sent : sent[i].kind # "error"
      BY <2>4, <2>5, <2>7 DEF Stops
    <3>2. h \in CallStates /\ h.account = BilledFor(sent) /\ h.at = "done" /\ h.failure = NoFailure
          /\ h.client = Append(Chunks(sent), Done)
      BY <2>6, <2>7 DEF h
    <3> QED
      BY <3>1, <3>2, <2>3, <2>5 DEF ClosedWell, h
  <2>8. CASE p.kind = "error"
    <3>1. h \in CallStates /\ h.account = BilledFor(sent) /\ h.at = "failed"
          /\ h.failure = providerError("upstream", 200, NoHint)
          /\ h.client = Append(Chunks(sent), ErrorFrame)
      BY <2>6, <2>8 DEF h
    <3> QED
      BY <3>1, <2>3, <2>5 DEF ClosedWell, h
  <2>9. CASE p.kind \notin Stops
    <3>1. Flows(sent)
      BY <2>4, <2>5, <2>9 DEF Flows
    <3>2. h \in CallStates /\ h.account = BilledFor(sent) /\ h.at = "open" /\ h.failure = NoFailure
          /\ h.client = Chunks(sent) /\ h.buffered = <<>>
      BY <2>6, <2>9, <1>3 DEF h
    <3> QED
      BY <3>1, <3>2, <2>3 DEF ClosedWell, h
  <2> QED
    BY <2>7, <2>8, <2>9 DEF Stops
<1> QED
  BY <1>2, <1>4, <1>5, <1>6 DEF Framed

\* Nothing is posted at first.
LEMMA WireStarts == WireInit => WireInv
<1> SUFFICES ASSUME WireInit PROVE WireInv
  OBVIOUS
<1>1. posted \in [protocol : {"chat", "responses"}, streaming : BOOLEAN, include_usage : {TRUE}]
  BY DEF WireInit, Request, IncludesUsage
<1>2. sent \in Seq(Packets) /\ writing \in Seq(DataLine) /\ sent = <<>> /\ writing = <<>>
  BY DEF WireInit
<1>3. gateway \in CallStates /\ gateway.at = "idle" /\ gateway.failure = NoFailure
      /\ gateway.buffered = <<>> /\ gateway.client = <<>> /\ gateway.account = EMPTY_USAGE
  BY NothingTold DEF WireInit, NewCall, CallStates, Failures
<1>4. DoneStates
  BY <1>2 DEF DoneStates
<1>5. WireType /\ Untold
  BY <1>1, <1>2, <1>3 DEF WireType, Untold
<1> QED
  BY <1>3, <1>4, <1>5 DEF WireInv

\* A call that is posted, or refused, has told the client nothing.
LEMMA CallBegins ==
  ASSUME WireInv,
         \/ \E protocol \in {"chat", "responses"}, streaming \in BOOLEAN, options \in Options :
              Post(protocol, streaming, options)
         \/ \E cause \in SocketFaults : Unreachable(cause) \/ Cut(cause)
         \/ \E status \in Statuses, header \in RetryAfter : Refused(status, header)
         \/ Garbled
  PROVE  WireInv'
<1>1. WireType /\ sent \in Seq(Packets) /\ writing \in Seq(DataLine) /\ gateway \in CallStates
  BY DEF WireInv, WireType
<1>2. ASSUME NEW protocol \in {"chat", "responses"}, NEW streaming \in BOOLEAN, NEW options \in Options,
             Post(protocol, streaming, options)
      PROVE  WireInv'
  <2>1. posted' \in [protocol : {"chat", "responses"}, streaming : BOOLEAN, include_usage : {TRUE}]
    BY <1>2 DEF Post, Request, IncludesUsage
  <2>2. /\ gateway.at = "idle" /\ gateway' = [gateway EXCEPT !.at = "asked"]
        /\ sent' = sent /\ writing' = writing
    BY <1>2 DEF Post
  <2>3. gateway.failure = NoFailure /\ gateway.buffered = <<>> /\ Untold
    BY <2>2 DEF WireInv
  <2>4. /\ gateway' \in CallStates /\ gateway'.at = "asked" /\ gateway'.failure = NoFailure
        /\ gateway'.buffered = <<>> /\ gateway'.client = <<>> /\ gateway'.account = EMPTY_USAGE
    BY <1>1, <2>2, <2>3 DEF CallStates, Untold
  <2> QED
    BY <1>1, <2>1, <2>2, <2>3, <2>4 DEF WireInv, WireType, DoneStates, Untold
<1>3. ASSUME NEW error \in Failures, error # NoFailure, Rejected(error)
      PROVE  WireInv'
  <2>1. /\ gateway.at = "asked" /\ gateway' = [gateway EXCEPT !.at = "rejected", !.failure = error]
        /\ sent' = sent /\ writing' = writing /\ posted' = posted
    BY <1>3 DEF Rejected
  <2>2. Untold
    BY <2>1 DEF WireInv
  <2>3. /\ gateway' \in CallStates /\ gateway'.at = "rejected" /\ gateway'.failure = error
        /\ gateway'.client = <<>> /\ gateway'.account = EMPTY_USAGE
    BY <1>1, <1>3, <2>1, <2>2 DEF CallStates, Untold
  <2> QED
    BY <1>1, <1>3, <2>1, <2>2, <2>3 DEF WireInv, WireType, DoneStates, Untold
<1>4. ASSUME NEW cause \in SocketFaults
      PROVE  /\ transportFailure(SocketError(cause)) \in Failures
             /\ transportFailure(SocketError(cause)) # NoFailure
  BY DEF transportFailure, SocketError, SocketFaults, providerError, NoFailure, Failures
<1>5. ASSUME NEW status \in Statuses, NEW header \in RetryAfter
      PROVE  /\ providerError(classifyStatus(status), status, retryAfterMs(header)) \in Failures
             /\ providerError(classifyStatus(status), status, retryAfterMs(header)) # NoFailure
  <2>1. status # 0
    BY WireAssumption
  <2> QED
    BY <2>1 DEF Failures, NoFailure, providerError
<1>6. providerError("upstream", 200, NoHint) \in Failures /\ providerError("upstream", 200, NoHint) # NoFailure
  BY DEF Failures, NoFailure, providerError
<1> QED
  BY <1>2, <1>3, <1>4, <1>5, <1>6 DEF Unreachable, Cut, Refused, Garbled

\* An answer that is no stream is billed as its provider says.
LEMMA AnswerArrives ==
  ASSUME WireInv, NEW usage \in Stated, Whole(usage)
  PROVE  WireInv'
<1> DEFINE p == Packet("usage", 1, usage)
<1>1. p \in Packets /\ p.kind = "usage" /\ Converts(p) /\ p.usage = usage
  BY WireAssumption DEF Packet, Packets, Kinds, Bills, Converts
<1>2. /\ gateway.at = "asked" /\ ~posted.streaming /\ posted' = posted /\ writing' = writing
      /\ sent' = <<p>> /\ gateway' = [Forwarded(gateway, p) EXCEPT !.at = "done"]
  <2>1. sent' = <<p>> /\ gateway' = [Forwarded(gateway, sent'[1]) EXCEPT !.at = "done"]
    BY DEF Whole
  <2>2. sent'[1] = p
    <3> HIDE DEF p
    <3> QED
      BY <2>1
  <2> QED
    BY <2>1, <2>2 DEF Whole
<1>3. gateway.client = <<>> /\ writing = <<>> /\ gateway.failure = NoFailure
  BY <1>2 DEF WireInv, Untold
<1>4. posted \in [protocol : {"chat", "responses"}, streaming : BOOLEAN, include_usage : {TRUE}]
      /\ gateway \in CallStates /\ writing \in Seq(DataLine)
  BY DEF WireInv, WireType
<1> HIDE DEF p
<1>5. /\ <<p>> \in Seq(Packets) /\ Append(<<>>, p) = <<p>> /\ Len(<<p>>) = 1 /\ <<p>>[1] = p
  BY <1>1
<1>6. BilledFor(<<p>>) = normalizeUsage(p.usage) /\ normalizeUsage(p.usage) \in Bills
  <2>1. <<>> \in Seq(Packets)
    OBVIOUS
  <2>2. BilledFor(Append(<<>>, p)) = normalizeUsage(p.usage)
    BY <2>1, <1>1, BilledGrows
  <2>3. p.usage \in Bills
    BY <1>1 DEF Packets
  <2> QED
    BY <2>2, <2>3, <1>5, NormalUsage
<1>7. Forwarded(gateway, p) = [gateway EXCEPT !.client = <<p>>, !.account = normalizeUsage(p.usage)]
  BY <1>1, <1>3, <1>5 DEF Forwarded
<1>8. /\ gateway' \in CallStates /\ gateway'.at = "done" /\ gateway'.failure = NoFailure
      /\ gateway'.client = <<p>> /\ gateway'.account = normalizeUsage(p.usage)
  BY <1>2, <1>3, <1>4, <1>5, <1>6, <1>7 DEF CallStates
<1>9. AnswerGiven'
  BY <1>1, <1>2, <1>3, <1>5, <1>6, <1>8 DEF AnswerGiven, BilledFor
<1>10. WireType' /\ DoneStates'
  <2>1. WireType'
    BY <1>2, <1>4, <1>5, <1>8 DEF WireType
  <2>2. 1 \in DOMAIN sent' /\ sent'[1].kind = "usage"
    BY <1>1, <1>2, <1>5
  <2> QED
    BY <2>1, <2>2 DEF DoneStates
<1> QED
  BY <1>8, <1>9, <1>10 DEF WireInv

\* A stream begins with nothing told.
LEMMA StreamOpens ==
  ASSUME WireInv, Accepted
  PROVE  WireInv'
<1>1. /\ gateway.at = "asked" /\ posted.streaming /\ gateway' = [gateway EXCEPT !.at = "open"]
      /\ posted' = posted /\ sent' = sent /\ writing' = writing
  BY DEF Accepted
<1>2. WireType /\ DoneStates /\ gateway.failure = NoFailure /\ gateway.buffered = <<>> /\ Untold
  BY <1>1 DEF WireInv
<1>3. gateway' \in CallStates /\ gateway'.at = "open" /\ gateway'.failure = NoFailure
      /\ gateway'.buffered = <<>> /\ gateway'.client = <<>> /\ gateway'.account = EMPTY_USAGE
  BY <1>1, <1>2 DEF WireType, CallStates, Untold
<1>4. Handed' = <<>> /\ writing' = <<>>
  BY <1>1, <1>2 DEF Untold, Handed
<1>5. Streaming'
  <2>1. Framed'
    BY <1>4 DEF Framed
  <2>2. Flows(Handed') /\ Chunks(Handed') = <<>> /\ BilledFor(Handed') = EMPTY_USAGE
    BY <1>4, NothingTold
  <2>3. posted'.streaming /\ gateway'.failure = NoFailure /\ gateway'.buffered = writing'
    BY <1>1, <1>3, <1>4
  <2> QED
    BY <2>1, <2>2, <2>3, <1>3 DEF Streaming, Chunks, BilledFor, Flows
<1>6. WireType' /\ DoneStates'
  BY <1>1, <1>2, <1>3 DEF WireType, DoneStates
<1> QED
  BY <1>3, <1>5, <1>6 DEF WireInv

\* A data line is kept, and belongs to the payload that is being sent.
LEMMA LineArrives ==
  ASSUME WireInv, NEW p \in Packets, NEW part \in {"whole", "first", "last"}, SendLine(p, part),
         part = "last" => FramedFirst /\ p = writing[1].payload,
         part # "last" => writing = <<>>,
         p.kind = "done" => part = "whole" /\ \E i \in DOMAIN sent : sent[i].kind = "usage"
  PROVE  WireInv'
<1> DEFINE line == Line(p, part)
           longer == Append(sent, p)
<1>1. line \in DataLine /\ line.payload = p /\ line.part = part
  BY DEF Line, DataLine
<1>2. /\ gateway.at = "open" /\ writing' = Append(writing, line) /\ posted' = posted
      /\ sent' = (IF part = "first" THEN sent ELSE longer)
      /\ gateway' = [gateway EXCEPT !.buffered = Append(@, line)]
  BY DEF SendLine
<1>3. WireType /\ DoneStates /\ Streaming
  BY <1>2 DEF WireInv
<1>4. /\ sent \in Seq(Packets) /\ writing \in Seq(DataLine) /\ gateway \in CallStates
      /\ gateway.buffered = writing
      /\ posted \in [protocol : {"chat", "responses"}, streaming : BOOLEAN, include_usage : {TRUE}]
  BY <1>3 DEF WireType, Streaming
<1>5. /\ longer \in Seq(Packets) /\ longer # <<>> /\ Last(longer) = p /\ Front(longer) = sent
      /\ Len(longer) = Len(sent) + 1 /\ Len(sent) \in Nat /\ longer[Len(sent) + 1] = p
      /\ \A i \in 1 .. Len(sent) : longer[i] = sent[i]
  <2>1. /\ longer \in Seq(Packets) /\ longer # <<>> /\ Len(longer) = Len(sent) + 1
        /\ Len(sent) \in Nat /\ longer[Len(sent) + 1] = p
        /\ \A i \in 1 .. Len(sent) : longer[i] = sent[i]
    BY <1>4
  <2> HIDE DEF longer
  <2>2. /\ Front(longer) \in Seq(Packets) /\ Len(Front(longer)) = Len(longer) - 1
        /\ \A i \in 1 .. Len(longer) - 1 : Front(longer)[i] = longer[i]
        /\ Last(longer) = longer[Len(longer)]
    BY <2>1, FrontTells
  <2> DEFINE f == Front(longer)
  <2>3. f \in Seq(Packets) /\ Len(f) = Len(sent) /\ \A i \in 1 .. Len(sent) : f[i] = sent[i]
    BY <2>1, <2>2
  <2> HIDE DEF f
  <2>4. f = sent
    BY <2>3, <1>4
  <2> QED
    BY <2>1, <2>2, <2>4 DEF f
<1> HIDE DEF longer, line
<1>6. /\ writing' \in Seq(DataLine) /\ writing' # <<>> /\ Last(writing') = line
      /\ Len(writing') = Len(writing) + 1 /\ Len(writing) \in Nat
      /\ writing'[Len(writing) + 1] = line /\ \A i \in 1 .. Len(writing) : writing'[i] = writing[i]
  <2> DEFINE lines == Append(writing, line)
  <2>1. /\ lines \in Seq(DataLine) /\ Len(lines) = Len(writing) + 1 /\ Len(writing) \in Nat
        /\ lines[Len(writing) + 1] = line /\ \A i \in 1 .. Len(writing) : lines[i] = writing[i]
    BY <1>1, <1>4
  <2>2. writing' = lines
    BY <1>2
  <2> HIDE DEF lines
  <2>3. lines # <<>> /\ Last(lines) = line
    BY <2>1 DEF Last
  <2> QED
    BY <2>1, <2>2, <2>3
<1>7. /\ gateway' \in CallStates /\ gateway'.at = "open" /\ gateway'.failure = gateway.failure
      /\ gateway'.client = gateway.client /\ gateway'.account = gateway.account
      /\ gateway'.buffered = writing'
  <2>1. gateway' = [gateway EXCEPT !.buffered = writing']
    BY <1>2, <1>4
  <2> QED
    BY <2>1, <1>2, <1>4, <1>6 DEF CallStates
<1>8. Handed = sent
  <2>1. CASE part = "last"
    <3>1. FramedFirst
      BY <2>1
    <3>2. ~IsWhole(writing)
      BY <3>1, <1>4 DEF FramedFirst, IsWhole, Last
    <3> QED
      BY <3>2 DEF Handed
  <2>2. CASE part # "last"
    BY <2>2 DEF Handed
  <2> QED
    BY <2>1, <2>2
<1>9. Handed' = sent
  <2>1. IsWhole(writing') <=> part # "first"
    BY <1>1, <1>6 DEF IsWhole
  <2>2. Handed' = IF writing' = <<>> \/ ~IsWhole(writing') THEN sent' ELSE Front(sent')
    BY DEF Handed, IsWhole
  <2> QED
    BY <2>1, <2>2, <1>2, <1>5, <1>6
<1>10. Framed'
  <2>1. CASE part = "whole"
    <3>1. sent' = longer /\ Len(writing') = 1 /\ writing'[1] = line
      BY <2>1, <1>2, <1>6
    <3>2. FramedWhole'
      BY <3>1, <2>1, <1>5 DEF FramedWhole, line, Last, Line
    <3> QED
      BY <3>2 DEF Framed
  <2>2. CASE part = "first"
    <3>1. Len(writing') = 1 /\ writing'[1] = line
      BY <2>2, <1>6
    <3>2. FramedFirst'
      BY <3>1, <2>2, <1>1 DEF FramedFirst
    <3> QED
      BY <3>2 DEF Framed
  <2>3. CASE part = "last"
    <3>1. Len(writing) = 1 /\ writing[1] = Line(p, "first")
      <4>1. Len(writing) = 1 /\ writing[1].part = "first" /\ writing[1].payload = p
        BY <2>3 DEF FramedFirst
      <4>2. writing[1] \in DataLine
        <5>1. writing \in Seq(DataLine) /\ Len(writing) = 1
          BY <4>1, <1>4
        <5> QED
          BY <5>1
      <4> QED
        BY <4>1, <4>2 DEF Line, DataLine
    <3>2. sent' = longer /\ Len(writing') = 2 /\ writing'[1] = Line(p, "first") /\ writing'[2] = line
      BY <2>3, <3>1, <1>2, <1>6
    <3>3. FramedBoth'
      BY <3>2, <2>3, <1>5 DEF FramedBoth, line, Last, Line
    <3> QED
      BY <3>3 DEF Framed
  <2> QED
    BY <2>1, <2>2, <2>3
<1>11. Streaming'
  <2>1. Flows(sent) /\ gateway.client = Chunks(sent) /\ gateway.account = BilledFor(sent)
        /\ posted.streaming /\ gateway.failure = NoFailure
    BY <1>3, <1>8 DEF Streaming
  <2> QED
    BY <2>1, <1>2, <1>7, <1>9, <1>10 DEF Streaming, Flows, Chunks, BilledFor
<1>12. DoneStates'
  <2>1. CASE sent' = sent
    BY <2>1, <1>3 DEF DoneStates
  <2>2. CASE sent' = longer
    <3>1. SUFFICES ASSUME NEW k \in DOMAIN longer, longer[k].kind = "done"
                   PROVE  \E i \in DOMAIN longer : longer[i].kind = "usage"
      BY <2>2 DEF DoneStates
    <3>2. \E i \in DOMAIN sent : sent[i].kind = "usage"
      <4>1. CASE p.kind = "done"
        BY <4>1
      <4>2. CASE p.kind # "done"
        <5>1. k \in DOMAIN sent /\ sent[k].kind = "done"
          BY <3>1, <4>2, <1>4, <1>5
        <5> QED
          BY <5>1, <1>3 DEF DoneStates
      <4> QED
        BY <4>1, <4>2
    <3> QED
      BY <3>2, <1>4, <1>5
  <2> QED
    BY <2>1, <2>2, <1>2
<1>13. WireType'
  <2>1. sent' \in Seq(Packets)
    BY <1>2, <1>4, <1>5
  <2> QED
    BY <2>1, <1>2, <1>4, <1>6, <1>7 DEF WireType
<1> QED
  BY <1>7, <1>11, <1>12, <1>13 DEF WireInv

\* The two steps that send one.
LEMMA DataArrives ==
  ASSUME WireInv,
         \/ \E kind \in Kinds, usage \in Stated \cup {EMPTY_USAGE}, part \in {"whole", "first"} :
              SendData(kind, usage, part)
         \/ SendRest
  PROVE  WireInv'
<1>1. ASSUME NEW kind \in Kinds, NEW usage \in Stated \cup {EMPTY_USAGE},
             NEW part \in {"whole", "first"}, SendData(kind, usage, part)
      PROVE  WireInv'
  <2> DEFINE p == Packet(kind, Len(sent) + 1, usage)
  <2>1. sent \in Seq(Packets) /\ posted.include_usage
    BY DEF WireInv, WireType
  <2>2. p \in Packets /\ p.kind = kind
    <3>1. usage \in Bills /\ Len(sent) + 1 \in Nat
      BY <2>1, WireAssumption, NothingTold DEF Bills
    <3> QED
      BY <3>1 DEF Packet, Packets
  <2>3. /\ SendLine(p, part) /\ writing = <<>> /\ MaySay(p) /\ (kind = "done" => part = "whole")
    BY <1>1 DEF SendData
  <2> HIDE DEF p
  <2>4. p.kind = "done" => part = "whole" /\ \E i \in DOMAIN sent : sent[i].kind = "usage"
    BY <2>1, <2>2, <2>3 DEF MaySay
  <2> QED
    BY <2>2, <2>3, <2>4, LineArrives
<1>2. ASSUME SendRest PROVE WireInv'
  <2> DEFINE p == writing[1].payload
  <2>1. writing # <<>> /\ ~IsWhole(writing) /\ SendLine(p, "last")
    BY <1>2 DEF SendRest
  <2>2. gateway.at = "open"
    BY <2>1 DEF SendLine
  <2>3. Framed /\ writing \in Seq(DataLine)
    BY <2>2 DEF WireInv, WireType, Streaming
  <2>4. FramedFirst
    <3>1. ~FramedWhole
      BY <2>1, <2>3 DEF FramedWhole, IsWhole, Last, Line
    <3>2. ~FramedBoth
      BY <2>1, <2>3 DEF FramedBoth, IsWhole, Last, Line
    <3> QED
      BY <2>1, <2>3, <3>1, <3>2 DEF Framed
  <2>5. p \in Packets /\ p.kind # "done"
    <3>1. writing[1] \in DataLine
      <4>1. Len(writing) = 1 /\ 1 \in 1 .. 1
        BY <2>4 DEF FramedFirst
      <4> QED
        BY <2>3, <4>1
    <3> QED
      BY <3>1, <2>4 DEF FramedFirst, DataLine
  <2> HIDE DEF p
  <2> QED
    BY <2>1, <2>4, <2>5, LineArrives DEF p
<1> QED
  BY <1>1, <1>2

\* A stream that has been closed well is on, done or failed.
LEMMA ClosedHolds ==
  ASSUME WireInv, gateway.at = "open",
         ClosedWell(gateway', sent), gateway'.at # "open" \/ writing' = <<>>,
         sent' = sent, posted' = posted, writing' = writing \/ writing' = <<>>
  PROVE  WireInv'
<1>1. WireType /\ DoneStates /\ posted.streaming
  BY DEF WireInv, Streaming
<1>2. WireType' /\ DoneStates'
  <2>1. writing' \in Seq(DataLine)
    <3>1. CASE writing' = writing
      BY <3>1, <1>1 DEF WireType
    <3>2. CASE writing' = <<>>
      <4>1. <<>> \in Seq(DataLine)
        OBVIOUS
      <4> QED
        BY <3>2, <4>1
    <3> QED
      BY <3>1, <3>2
  <2> QED
    BY <2>1, <1>1 DEF WireType, DoneStates, ClosedWell
<1>3. CASE gateway'.at = "open"
  <2>1. /\ gateway'.failure = NoFailure /\ Flows(sent) /\ gateway'.client = Chunks(sent)
        /\ gateway'.buffered = <<>> /\ gateway'.account = BilledFor(sent) /\ writing' = <<>>
    BY <1>3 DEF ClosedWell
  <2>2. Handed' = sent /\ Framed'
    BY <2>1 DEF Handed, Framed
  <2>3. Streaming'
    BY <2>1, <2>2, <1>1 DEF Streaming, Flows, Chunks, BilledFor
  <2> QED
    BY <2>3, <1>2, <1>3 DEF WireInv
<1>4. CASE gateway'.at = "done"
  <2>1. /\ gateway'.failure = NoFailure /\ gateway'.client = Append(Chunks(sent), Done)
        /\ \A i \in DOMAIN sent : i # Len(sent) => sent[i].kind \notin Stops
        /\ \A i \in DOMAIN sent : sent[i].kind # "error"
        /\ gateway'.account = BilledFor(sent)
    BY <1>4 DEF ClosedWell
  <2>2. StreamDone'
    BY <2>1, <1>1, <1>4 DEF StreamDone, Told, Chunks, BilledFor
  <2> QED
    BY <2>2, <1>2, <1>4 DEF WireInv
<1>5. CASE gateway'.at = "failed"
  <2>1. /\ gateway'.failure = providerError("upstream", 200, NoHint)
        /\ gateway'.client = Append(Chunks(sent), ErrorFrame)
        /\ \A i \in DOMAIN sent : i # Len(sent) => sent[i].kind \notin Stops
        /\ gateway'.account = BilledFor(sent)
    BY <1>5 DEF ClosedWell
  <2>2. StreamFailed'
    BY <2>1, <1>1, <1>5 DEF StreamFailed, Told, Chunks, BilledFor
  <2> QED
    BY <2>2, <1>2, <1>5 DEF WireInv
<1> QED
  BY <1>3, <1>4, <1>5 DEF ClosedWell

\* A frame is closed, and the body ends.
LEMMA BodyGoesOn ==
  ASSUME WireInv, SendBlank \/ CloseBody
  PROVE  WireInv'
<1>1. gateway.at = "open" /\ WireType /\ Streaming
  BY DEF WireInv, SendBlank, CloseBody
<1>2. ClosedWell(Closed(gateway), sent)
  BY <1>1, ClosedTells
<1>3. CASE SendBlank
  BY <1>1, <1>2, <1>3, ClosedHolds DEF SendBlank
<1>4. CASE CloseBody
  <2> DEFINE g == Closed(gateway)
  <2>1. /\ gateway' = Finished(g) /\ sent' = sent /\ posted' = posted /\ writing' = writing
    BY <1>4 DEF CloseBody, BodyEnd
  <2> HIDE DEF g
  <2>2. ClosedWell(Finished(g), sent) /\ Finished(g).at # "open"
    <3>1. CASE g.at = "open"
      <4>1. g \in CallStates /\ g.failure = NoFailure /\ Flows(sent) /\ g.client = Chunks(sent)
            /\ g.account = BilledFor(sent)
        BY <3>1, <1>2 DEF ClosedWell, g
      <4>2. Finished(g) = CallEnded(g)
        BY <3>1 DEF Finished
      <4>3. /\ CallEnded(g) \in CallStates /\ CallEnded(g).at = "done" /\ CallEnded(g).failure = NoFailure
            /\ CallEnded(g).client = Append(Chunks(sent), Done) /\ CallEnded(g).account = BilledFor(sent)
        BY <4>1, EndedTells
      <4>4. /\ \A i \in DOMAIN sent : i # Len(sent) => sent[i].kind \notin Stops
            /\ \A i \in DOMAIN sent : sent[i].kind # "error"
        BY <4>1 DEF Flows, Stops
      <4> DEFINE h == CallEnded(g)
      <4> HIDE DEF h
      <4>5. ClosedWell(h, sent) /\ h.at # "open"
        BY <4>3, <4>4 DEF ClosedWell, h
      <4> QED
        BY <4>2, <4>5 DEF h
    <3>2. CASE g.at # "open"
      BY <3>2, <1>2 DEF Finished, g
    <3> QED
      BY <3>1, <3>2
  <2> QED
    BY <1>1, <2>1, <2>2, ClosedHolds
<1> QED
  BY <1>3, <1>4

\* The connection breaks.
LEMMA BodyBreaks ==
  ASSUME WireInv, NEW cause \in SocketFaults, BreakBody(cause)
  PROVE  WireInv'
<1> DEFINE error == SocketError(cause)
<1>1. /\ gateway.at = "open" /\ gateway' = CallFailed(gateway, error)
      /\ posted' = posted /\ sent' = sent /\ writing' = writing
  BY DEF BreakBody
<1>2. WireType /\ DoneStates /\ Streaming
  BY <1>1 DEF WireInv
<1>3. /\ error \in {SocketError("timeout"), SocketError("network"), providerError("upstream", 200, NoHint)}
      /\ error.kind \in SocketFaults /\ error.status = 0
  BY DEF SocketFaults, SocketError, providerError
<1> HIDE DEF error
<1>4. gateway \in CallStates
  BY <1>2 DEF WireType
<1>5. /\ gateway' \in CallStates /\ gateway'.account = gateway.account /\ gateway'.failure = error
      /\ gateway'.at = "failed" /\ gateway'.client = Append(gateway.client, ErrorFrame)
  BY <1>1, <1>3, <1>4, FailedTells
<1>6. Handed' = Handed
  BY <1>1 DEF Handed, IsWhole
<1>7. Flows(Handed) /\ gateway.client = Chunks(Handed) /\ gateway.account = BilledFor(Handed)
      /\ posted.streaming
  BY <1>2 DEF Streaming
<1>8. Told(Handed, ErrorFrame)'
  <2>1. \A i \in DOMAIN Handed : i # Len(Handed) => Handed[i].kind \notin Stops
    BY <1>7 DEF Flows
  <2> QED
    BY <2>1, <1>5, <1>6, <1>7 DEF Told, Chunks, BilledFor
<1>9. StreamFailed'
  BY <1>1, <1>3, <1>5, <1>6, <1>7, <1>8 DEF StreamFailed, Flows
<1>10. WireType' /\ DoneStates'
  BY <1>1, <1>2, <1>5 DEF WireType, DoneStates
<1> QED
  BY <1>5, <1>9, <1>10 DEF WireInv

\* Nothing the provider sends breaks the invariant.
LEMMA WireSteps == WireInv /\ [WireNext]_wireVars => WireInv'
<1> SUFFICES ASSUME WireInv, [WireNext]_wireVars PROVE WireInv'
  OBVIOUS
<1>1. CASE UNCHANGED wireVars
  <2>1. posted' = posted /\ sent' = sent /\ writing' = writing /\ gateway' = gateway
    BY <1>1 DEF wireVars
  <2> QED
    BY <2>1 DEF WireInv, WireType, DoneStates, Untold, Streaming, StreamDone, StreamFailed,
                AnswerGiven, Told, Framed, FramedWhole, FramedFirst, FramedBoth, Handed
<1>2. CASE SendOther
  <2>1. posted' = posted /\ sent' = sent /\ writing' = writing /\ gateway' = gateway
    BY <1>2 DEF SendOther, Skipped
  <2> QED
    BY <2>1 DEF WireInv, WireType, DoneStates, Untold, Streaming, StreamDone, StreamFailed,
                AnswerGiven, Told, Framed, FramedWhole, FramedFirst, FramedBoth, Handed
<1>3. CASE WireNext /\ ~SendOther
  BY <1>3, CallBegins, AnswerArrives, StreamOpens, DataArrives, BodyGoesOn, BodyBreaks DEF WireNext
<1> QED
  BY <1>1, <1>2, <1>3

\* Every reachable state of a call is as the invariant says.
LEMMA WireHolds == WireSpec => []WireInv
<1>1. WireInit => WireInv
  BY WireStarts
<1>2. WireInv /\ [WireNext]_wireVars => WireInv'
  BY WireSteps
<1> QED
  BY <1>1, <1>2, PTL DEF WireSpec

\* What a stream is billed: no more cached than was prompted, and a total.
LEMMA BilledTells ==
  ASSUME NEW s \in Seq(Packets)
  PROVE  LET told == {i \in DOMAIN s : s[i].kind = "usage"}
             bill == BilledFor(s)
         IN  /\ told # {} => bill.prompt = s[Max(told)].usage.prompt
             /\ bill.cached <= bill.prompt
             /\ bill.total = 0 => bill.prompt + bill.completion = 0
<1> DEFINE told == {i \in DOMAIN s : s[i].kind = "usage"}
           bill == BilledFor(s)
<1>1. CASE told = {}
  BY <1>1 DEF BilledFor, EMPTY_USAGE
<1>2. CASE told # {}
  <2>1. told \in SUBSET (0 .. Len(s)) /\ Len(s) \in Nat /\ told \subseteq DOMAIN s
    OBVIOUS
  <2>2. \E k \in told : \A j \in told : j <= k
    <3> HIDE DEF told
    <3> QED
      BY <2>1, <1>2, GreatestElement
  <2>3. Max(told) \in told
    <3> HIDE DEF told
    <3>1. \E k \in told : \A j \in told : k >= j
      BY <2>1, <2>2
    <3> QED
      BY <3>1 DEF Max
  <2> DEFINE u == s[Max(told)].usage
  <2>4. u \in Bills
    <3> HIDE DEF told
    <3>1. s[Max(told)] \in Packets
      BY <2>1, <2>3
    <3> QED
      BY <3>1 DEF Packets
  <2>5. bill = normalizeUsage(u)
    BY <1>2 DEF BilledFor
  <2> HIDE DEF u, bill
  <2>6. /\ bill.prompt = u.prompt /\ bill.cached <= bill.prompt
        /\ bill.total = 0 => bill.prompt + bill.completion = 0
    BY <2>4, <2>5, NormalUsage
  <2> QED
    BY <2>6 DEF u, bill
<1> QED
  BY <1>1, <1>2

\* The payloads of the closed frames are a stream.
LEMMA HandedSeq ==
  ASSUME sent \in Seq(Packets)
  PROVE  Handed \in Seq(Packets)
<1>1. CASE writing = <<>> \/ ~IsWhole(writing) \/ sent = <<>>
  <2>1. sent = <<>> => Front(sent) \in Seq(Packets)
    <3> SUFFICES ASSUME sent = <<>> PROVE Front(<<>>) \in Seq(Packets)
      OBVIOUS
    <3>1. Front(<<>>) = [i \in 1 .. -1 |-> <<>>[i]]
      BY DEF Front
    <3>2. 1 .. -1 = {}
      OBVIOUS
    <3>3. Front(<<>>) = <<>>
      BY <3>1, <3>2
    <3>4. <<>> \in Seq(Packets)
      OBVIOUS
    <3> QED
      BY <3>3, <3>4
  <2> QED
    BY <1>1, <2>1 DEF Handed
<1>2. CASE sent # <<>>
  BY <1>2, FrontTells DEF Handed
<1> QED
  BY <1>1, <1>2

\* Whatever the provider and the connection do, the failure of a call says what
\* became of it, and its usage is what the provider stated last (CallIsTold).
THEOREM CallsAreTold == WireSpec => []CallIsTold
<1>1. WireInv => CallIsTold
  <2> SUFFICES ASSUME WireInv PROVE CallIsTold
    OBVIOUS
  <2>1. WireType /\ gateway.failure \in Failures /\ sent \in Seq(Packets)
    BY DEF WireInv, WireType, CallStates
  <2>2. FailureTellsWhy
    <3> DEFINE error == gateway.failure
    <3> SUFFICES ASSUME error # NoFailure PROVE FailureTellsWhy
      BY DEF FailureTellsWhy
    <3>1. CASE error \in {SocketError("timeout"), SocketError("network"),
                          providerError("upstream", 200, NoHint)}
      BY <3>1 DEF FailureTellsWhy, SocketError, providerError, SocketFaults, isRetryable,
                  isFailoverOnly, NoHint
    <3>2. ASSUME NEW status \in Statuses, NEW header \in RetryAfter,
                 error = providerError(classifyStatus(status), status, retryAfterMs(header))
          PROVE  FailureTellsWhy
      <4>1. status \in Int /\ 300 <= status
        BY WireAssumption
      <4>2. retryAfterMs(header) = NoHint \/ retryAfterMs(header) >= 0
        BY WireAssumption DEF retryAfterMs, RetryAfter
      <4>3. /\ error.kind = classifyStatus(status) /\ error.status = status
            /\ error.retry_after_ms = retryAfterMs(header)
        BY <3>2 DEF providerError
      <4> DEFINE kind == classifyStatus(status)
      <4>4. /\ kind # "network" /\ status # 0 /\ status # 200
            /\ status \in {402, 408, 429} \cup 500 .. 599 => isRetryable(kind)
            /\ status \in {400, 404, 413, 422} => isFailoverOnly(kind) /\ ~isRetryable(kind)
            /\ status \in {401, 403} => ~isFailoverOnly(kind) /\ ~isRetryable(kind)
        BY <4>1 DEF classifyStatus, isRetryable, isFailoverOnly
      <4> HIDE DEF kind
      <4> QED
        BY <4>2, <4>3, <4>4 DEF FailureTellsWhy, kind
    <3> QED
      BY <2>1, <3>1, <3>2 DEF Failures
  <2>3. \E s \in Seq(Packets) : gateway.account = BilledFor(s)
    <3>1. CASE gateway.at \in {"idle", "asked", "rejected"}
      <4>1. gateway.account = EMPTY_USAGE /\ <<>> \in Seq(Packets)
        BY <3>1 DEF WireInv, Untold
      <4> QED
        BY <4>1, NothingTold
    <3>2. Handed \in Seq(Packets)
      BY <2>1, HandedSeq
    <3>3. CASE gateway.at \in {"open", "done", "failed"}
      BY <3>2, <3>3, <2>1 DEF WireInv, Streaming, StreamDone, StreamFailed, AnswerGiven, Told
    <3> QED
      BY <2>1, <3>1, <3>3 DEF WireType, CallStates
  <2>4. /\ gateway.account.cached <= gateway.account.prompt
        /\ gateway.account.total = 0 => gateway.account.prompt + gateway.account.completion = 0
    BY <2>3, BilledTells
  <2>5. ASSUME gateway.at = "done"
        PROVE  LET told == {i \in DOMAIN sent : sent[i].kind = "usage"} IN
               /\ (\E i \in DOMAIN sent : sent[i].kind = "done") => told # {}
               /\ told # {} => gateway.account.prompt = sent[Max(told)].usage.prompt
    <3>1. gateway.account = BilledFor(sent) /\ DoneStates
      BY <2>5 DEF WireInv, StreamDone, AnswerGiven, Told
    <3> QED
      BY <3>1, <2>1, BilledTells DEF DoneStates
  <2> QED
    BY <2>2, <2>4, <2>5 DEF CallIsTold, BilledAsStated
<1> QED
  BY <1>1, WireHolds, PTL

\* What the client of a stream has got, and how it was told the end.
LEMMA StreamTells ==
  ASSUME NEW c \in Seq(Packets), NEW n \in Nat, n <= Len(c),
         \A i \in 1 .. n : Converts(c[i]),
         \A i \in n + 1 .. Len(c) : c[i] \in {Done, ErrorFrame}
  PROVE  {i \in DOMAIN c : c[i] \in {Done, ErrorFrame}} = n + 1 .. Len(c)
<1>1. ASSUME NEW p, Converts(p) PROVE p \notin {Done, ErrorFrame}
  BY <1>1 DEF Converts, Done, ErrorFrame, Packet
<1> QED
  BY <1>1

\* A provider's stream reaches the client frame for frame, however it is cut into
\* lines, and ends as what it was (StreamIsHonest).
THEOREM StreamsAreHonest == WireSpec => []StreamIsHonest
<1>1. WireInv => StreamIsHonest
  <2> SUFFICES ASSUME WireInv PROVE StreamIsHonest
    OBVIOUS
  <2>1. /\ WireType /\ sent \in Seq(Packets) /\ writing \in Seq(DataLine) /\ gateway \in CallStates
        /\ gateway.client \in Seq(Packets)
    BY DEF WireInv, WireType, CallStates
  <2> DEFINE c == gateway.client
  \* A client that holds the chunks of a stream and nothing else, or its end too.
  <2>2. ASSUME NEW s \in Seq(Packets), c = Chunks(s)
        PROVE  Content = Chunks(s)
    <3>1. Closings = {}
      BY <2>2, ChunksCarry DEF Closings, Converts, Done, ErrorFrame, Packet
    <3>2. Content = Subsequence(c, DOMAIN c)
      BY <3>1 DEF Content
    <3> QED
      BY <3>2, <2>1, <2>2, SubsequenceEnds
  <2>3. ASSUME NEW s \in Seq(Packets), NEW end \in {Done, ErrorFrame}, c = Append(Chunks(s), end)
        PROVE  /\ Content = Chunks(s) /\ Subsequence(c, Closings) = <<end>>
               /\ c # <<>> /\ Last(c) = end
    <3> DEFINE k == Chunks(s)
               n == Len(k)
    <3>1. k \in Seq(Packets) /\ end \in Packets
      <4>1. Done \in Packets /\ ErrorFrame \in Packets
        BY NothingTold DEF Done, ErrorFrame, Packet, Packets, Kinds
      <4>2. s \in Seq(Packets) /\ Done \in Packets
        BY <4>1
      <4> QED
        BY <4>1, <4>2, ChunksGrow
    <3>2. \A i \in DOMAIN k : Converts(k[i])
      BY ChunksCarry
    <3> HIDE DEF k, c
    <3>3. /\ n \in Nat /\ DOMAIN k = 1 .. n /\ c \in Seq(Packets) /\ Len(c) = n + 1 /\ DOMAIN c = 1 .. n + 1
          /\ c[n + 1] = end /\ \A i \in 1 .. n : c[i] = k[i]
      BY <2>3, <3>1 DEF k
    <3>4. Closings = n + 1 .. Len(c)
      <4>1. Closings = {i \in DOMAIN c : c[i] \in {Done, ErrorFrame}}
        BY DEF Closings, c
      <4>2. \A i \in 1 .. n : Converts(c[i])
        BY <3>2, <3>3
      <4>3. \A i \in n + 1 .. Len(c) : c[i] \in {Done, ErrorFrame}
        BY <3>3
      <4>4. n <= Len(c)
        BY <3>3
      <4> HIDE DEF n
      <4> QED
        BY <3>3, <4>1, <4>2, <4>3, <4>4, StreamTells
    <3>5. Closings = {} \cup {n + 1} /\ DOMAIN c \ Closings = DOMAIN k /\ {} \in SUBSET DOMAIN k
      BY <3>3, <3>4
    <3>6. /\ Subsequence(c, DOMAIN k) = Subsequence(k, DOMAIN k)
          /\ Subsequence(c, {} \cup {n + 1}) = Append(Subsequence(k, {}), end)
      <4>1. DOMAIN k \in SUBSET DOMAIN k /\ {} \in SUBSET DOMAIN k
        OBVIOUS
      <4>2. c = Append(k, end)
        BY <2>3 DEF k
      <4>3. Subsequence(Append(k, end), DOMAIN k) = Subsequence(k, DOMAIN k)
        <5> DEFINE all == DOMAIN k
        <5>1. all \in SUBSET DOMAIN k
          OBVIOUS
        <5> HIDE DEF all
        <5>2. Subsequence(Append(k, end), all) = Subsequence(k, all)
          BY ZenonT(60), <3>1, <5>1, SubsequenceGrows
        <5> QED
          BY <5>2 DEF all
      <4>4. Subsequence(Append(k, end), {} \cup {Len(k) + 1}) = Append(Subsequence(k, {}), end)
        BY ZenonT(60), <3>1, <4>1, SubsequenceGrows
      <4> QED
        BY <4>2, <4>3, <4>4
    <3>7. Subsequence(k, DOMAIN k) = k /\ Subsequence(k, {}) = <<>>
      BY <3>1, SubsequenceEnds
    <3>8. Content = k
      BY <3>5, <3>6, <3>7 DEF Content, c
    <3>9. Subsequence(c, Closings) = <<end>>
      <4>1. Append(<<>>, end) = <<end>>
        OBVIOUS
      <4> QED
        BY <4>1, <3>5, <3>6, <3>7
    <3>10. c # <<>> /\ Last(c) = end
      BY <3>3 DEF Last
    <3> QED
      BY <3>8, <3>9, <3>10 DEF k
  \* What ends a stream is the last of the completed payloads.
  <2>4. ASSUME Complete \in Seq(Packets),
               \A i \in DOMAIN Complete : i # Len(Complete) => Complete[i].kind \notin Stops
        PROVE  Heeded = Complete
    <3> DEFINE s == Complete
               stops == {i \in DOMAIN s : s[i].kind \in {"done", "error"}}
    <3>1. CASE stops = {}
      BY <3>1 DEF Heeded
    <3>2. CASE stops # {}
      <4> HIDE DEF s
      <4>1. s \in Seq(Packets) /\ Len(s) \in Nat /\ DOMAIN s = 1 .. Len(s)
        BY <2>4 DEF s
      <4>2. stops = {Len(s)}
        BY <3>2, <4>1, <2>4 DEF Stops, s
      <4>3. Min(stops) = Len(s)
        BY <4>1, <4>2 DEF Min
      <4>4. SubSeq(s, 1, Len(s)) = s
        BY <4>1
      <4> QED
        BY <3>2, <4>3, <4>4 DEF Heeded, s
    <3> QED
      BY <3>1, <3>2
  <2>5. CASE gateway.at \in {"idle", "asked", "rejected"}
    <3>1. sent = <<>> /\ writing = <<>> /\ c = <<>>
      BY <2>5 DEF WireInv, Untold
    <3>2. Complete = <<>> /\ Complete \in Seq(Packets)
      BY <3>1 DEF Complete
    <3>3. Heeded = <<>>
      <4>1. \A i \in DOMAIN Complete : i # Len(Complete) => Complete[i].kind \notin Stops
        BY <3>2
      <4> QED
        BY <3>2, <4>1, <2>4
    <3>4. Content = Chunks(<<>>)
      <4>1. <<>> \in Seq(Packets) /\ c = Chunks(<<>>)
        BY <3>1, NothingTold
      <4> HIDE DEF c
      <4> QED
        BY <4>1, <2>2
    <3> QED
      BY <3>3, <3>4, <2>5 DEF StreamIsHonest, FramesArriveOnce, EndIsHonest
  <2>6. CASE gateway.at = "open"
    <3>1. Streaming
      BY <2>6 DEF WireInv
    <3>2. Complete = Handed
      BY <2>6, <3>1 DEF Complete, Handed, Streaming, NoFailure, providerError
    <3>3. Handed \in Seq(Packets)
      BY <2>1, HandedSeq
    <3>4. Heeded = Handed
      BY <3>1, <3>2, <3>3, <2>4 DEF Streaming, Flows
    <3>5. Content = Chunks(Handed)
      BY <3>1, <3>3, <2>2 DEF Streaming
    <3> QED
      BY <3>4, <3>5, <2>6 DEF StreamIsHonest, FramesArriveOnce, EndIsHonest
  <2>7. CASE AnswerGiven
    <3>1. /\ ~posted.streaming /\ Len(sent) = 1 /\ sent[1].kind = "usage" /\ writing = <<>> /\ c = sent
      BY <2>7 DEF AnswerGiven
    <3>2. Complete = sent
      BY <3>1 DEF Complete
    <3>3. Heeded = sent
      <4>1. \A i \in DOMAIN sent : i = Len(sent)
        BY <2>1, <3>1
      <4> QED
        BY <4>1, <3>2, <2>1, <2>4
    <3>4. Chunks(sent) = sent
      <4>1. {i \in DOMAIN sent : Converts(sent[i])} = DOMAIN sent
        BY <2>1, <3>1 DEF Converts
      <4> QED
        BY <4>1, <2>1, SubsequenceEnds DEF Chunks
    <3>5. Content = Chunks(sent)
      BY <3>1, <3>4, <2>1, <2>2
    <3> QED
      BY <3>1, <3>3, <3>5 DEF StreamIsHonest, FramesArriveOnce, EndIsHonest
  <2>8. CASE StreamDone
    <3>1. /\ gateway.at = "done" /\ gateway.failure = NoFailure /\ c = Append(Chunks(sent), Done)
          /\ \A i \in DOMAIN sent : i # Len(sent) => sent[i].kind \notin Stops
          /\ \A i \in DOMAIN sent : sent[i].kind # "error"
      BY <2>8 DEF StreamDone, Told
    <3>2. Complete = sent
      BY <3>1 DEF Complete
    <3>3. Heeded = sent
      BY <3>1, <3>2, <2>1, <2>4
    <3>4. /\ Content = Chunks(sent) /\ Subsequence(c, Closings) = <<Done>> /\ Last(c) = Done
      BY <3>1, <2>1, <2>3
    <3>5. ~ \E i \in DOMAIN Heeded : ReportsFailure(Heeded[i])
      BY <3>1, <3>3 DEF ReportsFailure
    <3> QED
      BY <3>1, <3>3, <3>4, <3>5 DEF StreamIsHonest, FramesArriveOnce, EndIsHonest
  <2>9. CASE StreamFailed
    <3>1. PICK s \in {sent, Handed} :
            /\ s \in Seq(Packets) /\ c = Append(Chunks(s), ErrorFrame) /\ Complete = s
            /\ \A i \in DOMAIN s : i # Len(s) => s[i].kind \notin Stops
            /\ Flows(s) \/ gateway.failure.kind = "upstream"
      <4>1. CASE gateway.failure = providerError("upstream", 200, NoHint) /\ Told(sent, ErrorFrame)
        BY <4>1, <2>1 DEF Told, Complete, providerError
      <4>2. CASE /\ gateway.failure.kind \in SocketFaults /\ gateway.failure.status = 0
                 /\ Told(Handed, ErrorFrame) /\ Flows(Handed)
        <5>1. Complete = Handed
          BY <4>2, <2>9 DEF Complete, Handed, StreamFailed
        <5>2. Handed \in Seq(Packets)
          BY <2>1, HandedSeq
        <5> QED
          BY <4>2, <5>1, <5>2 DEF Told
      <4> QED
        BY <4>1, <4>2, <2>9 DEF StreamFailed
    <3>2. Heeded = s
      BY <3>1, <2>4
    <3>3. /\ Content = Chunks(s) /\ Subsequence(c, Closings) = <<ErrorFrame>> /\ Last(c) = ErrorFrame
      BY <3>1, <2>3
    <3>4. gateway.failure # NoFailure /\ gateway.at = "failed"
      BY <2>9 DEF StreamFailed, NoFailure, SocketFaults, providerError
    <3>5. (\E i \in DOMAIN Heeded : ReportsFailure(Heeded[i])) => gateway.failure.kind = "upstream"
      BY <3>1, <3>2 DEF Flows, Stops, ReportsFailure
    <3> QED
      BY <3>2, <3>3, <3>4, <3>5 DEF StreamIsHonest, FramesArriveOnce, EndIsHonest
  <2> QED
    BY <2>1, <2>5, <2>6, <2>7, <2>8, <2>9 DEF WireInv, CallStates
<1> QED
  BY <1>1, WireHolds, PTL

----------------------------------------------------------------------------
(* The reports (Reports) *)

\* Each row is in one group, so the groups' sizes add up to the rows.
LEMMA GroupsAddUp ==
  ASSUME NEW rows, IsFiniteSet(rows), NEW key, DOMAIN key = rows
  PROVE  Total(GroupSizes(rows, key)) = Cardinality(rows)
<1> DEFINE table == GroupSizes(rows, key)
           keys == {key[row] : row \in rows}
           n == Cardinality(keys)
           order == SetToSeq(keys)
           Step(sum, k) == IF k = 0 THEN 0 ELSE sum[k - 1] + table[order[k]]
           sums == CHOOSE s : s = [l \in 0 .. n |-> Step(s, l)]
           Group(k) == {row \in rows : key[row] = k}
           Upto(m) == {row \in rows : \E j \in 1 .. m : key[row] = order[j]}
<1>1. DOMAIN table = keys /\ \A k \in keys : table[k] = Cardinality(Group(k))
  BY DEF GroupSizes
<1>2. IsFiniteSet(keys) /\ n \in Nat
  <2> DEFINE f == [row \in rows |-> key[row]]
  <2>1. f \in Surjection(rows, keys)
    BY DEF Surjection
  <2> HIDE DEF f, keys
  <2>2. IsFiniteSet(keys)
    BY <2>1, FS_Surjection
  <2> QED
    BY <2>2, FS_CardinalityType
<1>3. /\ order \in [1 .. n -> keys]
      /\ \A k \in keys : \E l \in 1 .. n : order[l] = k
      /\ \A l, m \in 1 .. n : order[l] = order[m] => l = m
  <2> HIDE DEF keys
  <2>1. PICK f : f \in Bijection(1 .. n, keys)
    BY <1>2, FS_CardinalityType DEF ExistsBijection
  <2>2. f \in [1 .. n -> keys] /\ IsInjective(f)
    BY <2>1 DEF IsInjective, Bijection, Injection
  <2>3. order \in [1 .. n -> keys] /\ IsInjective(order)
    BY <2>2 DEF SetToSeq
  <2>4. order \in Injection(1 .. n, keys)
    BY <2>3 DEF Injection, IsInjective
  <2>5. IsFiniteSet(1 .. n) /\ Cardinality(1 .. n) = n
    <3>1. 1 \in Int /\ n \in Int /\ (IF 1 > n THEN 0 ELSE n - 1 + 1) = n
      BY <1>2
    <3> HIDE DEF n
    <3> QED
      BY <3>1, FS_Interval
  <2>6. order \in Surjection(1 .. n, keys)
    BY <2>4, <2>5, <1>2, FS_Injection
  <2> QED
    BY <2>3, <2>6 DEF Surjection, IsInjective
<1> HIDE DEF table, keys, n, order
<1>4. \A i \in 0 .. n : IsFiniteSet(Upto(i)) /\ Cardinality(Upto(i)) \in Nat
  BY FS_Subset, FS_CardinalityType
<1>5. Upto(0) = {} /\ Upto(n) = rows
  <2>1. \A row \in rows : key[row] \in keys
    BY DEF keys
  <2> QED
    BY <2>1, <1>2, <1>3
<1>6. \A i \in 1 .. n : Cardinality(Upto(i)) = Cardinality(Upto(i - 1)) + table[order[i]]
  <2> SUFFICES ASSUME NEW i \in 1 .. n
               PROVE  Cardinality(Upto(i)) = Cardinality(Upto(i - 1)) + table[order[i]]
    OBVIOUS
  <2> DEFINE G == Group(order[i])
             B == Upto(i - 1)
  <2>1. Upto(i) = B \cup G
    BY <1>2
  <2>2. B \cap G = {}
    BY <1>2, <1>3
  <2>3. IsFiniteSet(B) /\ IsFiniteSet(G)
    BY FS_Subset
  <2>4. table[order[i]] = Cardinality(G)
    BY <1>1, <1>3
  <2> HIDE DEF B, G
  <2>5. Cardinality(B \cup G) = Cardinality(B) + Cardinality(G) - Cardinality(B \cap G)
    BY <2>3, FS_Union
  <2>6. Cardinality(B) \in Nat /\ Cardinality(G) \in Nat /\ Cardinality({}) = 0
    BY <2>3, FS_CardinalityType, FS_EmptySet
  <2> DEFINE U == Upto(i)
  <2> HIDE DEF U
  <2>7. U = B \cup G /\ Cardinality(U) = Cardinality(B) + Cardinality(G)
    <3>1. U = B \cup G
      BY <2>1 DEF U
    <3> HIDE DEF Upto, Group
    <3>2. Cardinality(B \cap G) = 0
      BY <2>2, <2>6, Zenon
    <3>3. Cardinality(B) + Cardinality(G) - 0 = Cardinality(B) + Cardinality(G)
      BY <2>6
    <3>4. Cardinality(U) = Cardinality(B) + Cardinality(G) - Cardinality(B \cap G)
      BY <3>1, <2>5, Zenon
    <3> QED
      BY <3>1, <3>2, <3>3, <3>4
  <2> HIDE DEF Upto, Group
  <2> QED
    BY <2>4, <2>7 DEF U, B
<1>7. \A i \in 0 .. n : sums[i] = Cardinality(Upto(i))
  <2> DEFINE f == [i \in 0 .. n |-> Cardinality(Upto(i))]
  <2>1. \A i \in 0 .. n : f[i] = Step(f, i)
    <3> SUFFICES ASSUME NEW i \in 0 .. n PROVE f[i] = Step(f, i)
      OBVIOUS
    <3>1. CASE i = 0
      BY <3>1, <1>5, FS_EmptySet
    <3>2. CASE i # 0
      <4>1. i \in 1 .. n /\ i - 1 \in 0 .. n
        BY <3>2, <1>2
      <4> HIDE DEF Upto
      <4> QED
        BY <4>1, <1>6
    <3> QED
      BY <3>1, <3>2
  <2>2. f = [i \in 0 .. n |-> Step(f, i)]
    <3>1. f = [i \in 0 .. n |-> f[i]]
      OBVIOUS
    <3> HIDE DEF f
    <3> QED
      BY <2>1, <3>1
  <2>3. sums = [i \in 0 .. n |-> Step(sums, i)]
    <3> HIDE DEF f
    <3> QED
      BY <2>2
  <2> HIDE DEF sums, f
  <2>4. \A i \in 0 .. n : sums[i] = Step(sums, i)
    BY <2>3, Zenon
  <2> DEFINE S == {i \in Nat : i <= n => sums[i] = f[i]}
  <2>5. 0 \in S
    BY <2>1, <2>4, <1>2
  <2>6. ASSUME NEW i \in Nat, i \in S PROVE i + 1 \in S
    <3> SUFFICES ASSUME i + 1 <= n PROVE sums[i + 1] = f[i + 1]
      OBVIOUS
    <3>1. i + 1 \in 0 .. n /\ i + 1 # 0 /\ i + 1 - 1 = i /\ i <= n
      BY <1>2
    <3>2. sums[i + 1] = sums[i] + table[order[i + 1]] /\ f[i + 1] = f[i] + table[order[i + 1]]
      BY <3>1, <2>1, <2>4
    <3> QED
      BY <2>6, <3>1, <3>2
  <2> HIDE DEF S
  <2>7. Nat \subseteq S
    BY <2>5, <2>6, Inductive
  <2>8. \A i \in 0 .. n : sums[i] = f[i]
    BY <2>7, <1>2 DEF S
  <2> QED
    BY <2>8 DEF f
<1>8. Total(table) = sums[n]
  BY <1>1 DEF Total, sums, order, n
<1> HIDE DEF sums, Upto
<1>9. sums[n] = Cardinality(Upto(n))
  BY <1>2, <1>7
<1> QED
  BY <1>5, <1>8, <1>9 DEF table

\* Rows are numbered as they are logged, and stamped with a time that has come.
LogKept ==
  /\ clock \in Nat /\ logged \in 0 .. MaxRows /\ IsFiniteSet(log)
  /\ \A row \in log : row.id \in 1 .. logged /\ row.ts \in 0 .. clock
  /\ \A row, other \in log : row.id = other.id => row = other

InRange == Within(<<rollup.from, rollup.to>>)

\* The statements that have run have counted the same rows, if the range was over.
Agreeing ==
  /\ rollup.to < clock /\ rollup.totals = Cardinality(InRange)
  /\ rollup.pc \in {"providers", "series", "done"} => rollup.byModel = rollup.totals
  /\ rollup.pc \in {"series", "done"} => rollup.byProvider = rollup.totals

RollupHolds ==
  /\ rollup = [pc |-> rollup.pc, from |-> rollup.from, to |-> rollup.to, width |-> rollup.width,
               totals |-> rollup.totals, byModel |-> rollup.byModel,
               byProvider |-> rollup.byProvider, points |-> rollup.points, closed |-> rollup.closed]
  /\ rollup.pc \in {"idle", "models", "providers", "series", "done"} /\ rollup.closed \in BOOLEAN
  /\ rollup.pc # "idle" => /\ rollup.from \in Int /\ rollup.to \in Int /\ rollup.width \in Nat \ {0}
                           /\ rollup.closed => Agreeing
  /\ BreakdownsAddUp

\* The rows that come before the first one the walk has yet to read.
Reached == (IF view.shows = "answered" THEN view.page + 1 ELSE view.page) * PageSize

\* A row of the walk that is still there and has not been shown lies ahead.
LiesAhead(row) == row \in Matching(view.filter) /\ Rank(Matching(view.filter), row) >= Reached

WalkHolds ==
  /\ view \in View /\ view.since \subseteq 1 .. logged
  /\ asking \in {None} \cup [total : Nat, torn : BOOLEAN]
  /\ asking # None => asking.torn \/ asking.total = Cardinality(Matching(view.filter))
  /\ view.page = 0 /\ (asking # None \/ view.shows = "answered") => view.walking
  /\ ~view.walking => view.since = {} /\ view.seen = {}
  /\ \A row \in log : row.id \in view.since \ view.seen => LiesAhead(row)
  /\ PagingMissesNothing

\* The totals kept in the query cache are numbers.
CacheTells == \A key \in DOMAIN cache : cache[key].total \in Nat

ReportsInv == LogKept /\ CacheTells /\ RollupHolds /\ WalkHolds

\* A row's rank is a number below the number of rows.
LEMMA RankTells ==
  ASSUME NEW rows, IsFiniteSet(rows), NEW row \in rows, row.ts \in Int, row.id \in Int
  PROVE  /\ Rank(rows, row) \in Nat /\ Cardinality(rows) \in Nat
         /\ Rank(rows, row) < Cardinality(rows)
<1> DEFINE ahead == {other \in rows : Before(other, row)}
<1>1. ahead \subseteq rows /\ row \notin ahead
  BY DEF Before
<1> HIDE DEF ahead
<1>2. IsFiniteSet(ahead) /\ Cardinality(ahead) \in Nat /\ Cardinality(rows) \in Nat
  BY <1>1, FS_Subset, FS_CardinalityType
<1>3. Cardinality(ahead) < Cardinality(rows)
  <2>1. ahead # rows
    BY <1>1
  <2> QED
    BY <1>1, <1>2, <2>1, FS_Subset
<1> QED
  BY <1>2, <1>3 DEF Rank, ahead

\* More rows never bring a row forward.
LEMMA RankGrows ==
  ASSUME NEW more, IsFiniteSet(more), NEW rows \in SUBSET more, NEW row
  PROVE  /\ Rank(rows, row) \in Nat /\ Rank(more, row) \in Nat
         /\ Rank(rows, row) <= Rank(more, row)
<1> DEFINE few == {other \in rows : Before(other, row)}
           many == {other \in more : Before(other, row)}
<1>1. few \subseteq many /\ many \subseteq more
  OBVIOUS
<1> HIDE DEF few, many
<1>2. IsFiniteSet(many) /\ IsFiniteSet(few)
  BY <1>1, FS_Subset
<1> QED
  BY <1>1, <1>2, FS_Subset, FS_CardinalityType DEF Rank, few, many

\* The rows of a filter are some of a finite log's.
LEMMA MatchesFinite ==
  ASSUME IsFiniteSet(log), NEW filter
  PROVE  IsFiniteSet(Matching(filter)) /\ Cardinality(Matching(filter)) \in Nat
<1>1. Matching(filter) \subseteq log
  BY DEF Matching
<1> QED
  BY <1>1, FS_Subset, FS_CardinalityType

\* The last page reaches the end of the rows that were counted.
LEMMA LastPageReaches ==
  ASSUME NEW total \in Nat, NEW page \in Nat,
         page + 1 >= Max({1, (total + PageSize - 1) \div PageSize})
  PROVE  (page + 1) * PageSize >= total
<1> DEFINE z == total + PageSize - 1
           q == z \div PageSize
<1>1. z \in Nat /\ PageSize \in Nat /\ PageSize > 0
  BY ReportsAssumption
<1> HIDE DEF z
<1>2. q \in Nat /\ z < (q + 1) * PageSize
  BY <1>1
<1> HIDE DEF q
<1>3. Max({1, q}) >= q
  <2>1. \E x \in {1, q} : \A y \in {1, q} : x >= y
    BY <1>2
  <2>2. \A y \in {1, q} : Max({1, q}) >= y
    BY <2>1 DEF Max
  <2> QED
    BY <2>2
<1>4. Max({1, q}) \in Nat
  <2>1. \E x \in {1, q} : \A y \in {1, q} : x >= y
    BY <1>2
  <2>2. Max({1, q}) \in {1, q}
    BY <2>1 DEF Max
  <2> QED
    BY <2>2, <1>2
<1>5. page + 1 >= q
  <2>1. page + 1 >= Max({1, q})
    BY DEF q, z
  <2> QED
    BY <2>1, <1>2, <1>3, <1>4
<1>6. (page + 1) * PageSize >= q * PageSize
  BY <1>1, <1>2, <1>5
<1>7. (q + 1) * PageSize = q * PageSize + PageSize /\ q * PageSize \in Int
      /\ (page + 1) * PageSize \in Int
  BY <1>1, <1>2
<1> QED
  BY <1>1, <1>2, <1>6, <1>7 DEF z

\* What is left of the log when the old rows are pruned.
LEMMA PruneKeeps ==
  ASSUME LogKept
  PROVE  /\ Pruned \subseteq log
         /\ \A row, other \in log : row \in Pruned /\ other.ts >= row.ts => other \in Pruned
         /\ \A row \in log : row.ts >= clock - Retention => row \in Pruned
<1> QED
  BY ReportsAssumption DEF LogKept, Pruned

\* Nothing is logged or asked at first.
LEMMA ReportsStart == ReportsInit => ReportsInv
<1> SUFFICES ASSUME ReportsInit PROVE ReportsInv
  OBVIOUS
<1> USE DEF ReportsInit
<1>1. LogKept
  BY ReportsAssumption, FS_EmptySet DEF LogKept
<1>2. RollupHolds
  BY DEF RollupHolds, BreakdownsAddUp
<1>3. WalkHolds
  <2>1. view \in View
    BY ReportsAssumption DEF View
  <2> QED
    BY <2>1 DEF WalkHolds, PagingMissesNothing
<1>4. CacheTells
  BY DEF CacheTells
<1> QED
  BY <1>1, <1>2, <1>3, <1>4 DEF ReportsInv

\* Rows are added with the next number and the present time, or taken away.
LEMMA RowIsKept == ASSUME LogKept, LogRow PROVE LogKept'
<1>1. PICK row \in [id : {logged + 1}, ts : {clock}, model : Models, source : Sources \cup {None} \cup named] :
        log' = log \cup {row}
  BY DEF LogRow
<1>2. IsFiniteSet(log')
  BY <1>1, FS_AddElement DEF LogKept
<1>3. logged \in Nat /\ logged + 1 \in 0 .. MaxRows /\ logged' = logged + 1 /\ clock' = clock
  BY ReportsAssumption DEF LogKept, LogRow
<1> QED
  BY <1>1, <1>2, <1>3 DEF LogKept

\* Pruning leaves the rows numbered and stamped as they were.
LEMMA PruneIsKept == ASSUME LogKept, purgeOlderThan PROVE LogKept'
<1>1. log' \subseteq log /\ clock' = clock /\ logged' = logged
  BY PruneKeeps DEF purgeOlderThan
<1>2. IsFiniteSet(log')
  BY <1>1, FS_Subset DEF LogKept
<1> QED
  BY <1>1, <1>2 DEF LogKept

\* Whatever is logged, pruned or asked, the rows stay numbered and stamped so.
LEMMA LogKeeps == ASSUME LogKept, [ReportsNext]_reportVars PROVE LogKept'
<1>1. CASE LogRow
  BY <1>1, RowIsKept
<1>2. CASE purgeOlderThan
  BY <1>2, PruneIsKept
<1>3. CASE Passes
  BY <1>3 DEF Passes, LogKept
<1>4. CASE UNCHANGED <<clock, log, logged>>
  BY <1>4 DEF LogKept
<1>5. ASSUME NEW p \in Sources, ForgetSource(p) PROVE UNCHANGED <<clock, log, logged>>
  BY <1>5 DEF ForgetSource
<1>6. ReadsRollup => UNCHANGED <<clock, log, logged>>
  BY DEF ReadsRollup, Summarise, GroupByModel, GroupByProvider, series
<1>7. ReadsLog => UNCHANGED <<clock, log, logged>>
  BY DEF ReadsLog, AskPage, ShowPage, NextPage, PreviousPage, MoveTo, applyFilter
<1>8. UNCHANGED reportVars => UNCHANGED <<clock, log, logged>>
  BY DEF reportVars
<1> QED
  BY <1>1, <1>2, <1>3, <1>4, <1>5, <1>6, <1>7, <1>8 DEF ReportsNext

----------------------------------------------------------------------------

\* What is counted of a range that is over is not touched by new rows.
LEMMA RowsComeLater ==
  ASSUME LogKept, LogRow, rollup.pc # "idle", rollup.from \in Int, rollup.to \in Int,
         rollup.to < clock
  PROVE  InRange' = InRange
<1>1. PICK row \in [id : {logged + 1}, ts : {clock}, model : Models, source : Sources \cup {None} \cup named] :
        log' = log \cup {row}
  BY DEF LogRow
<1>2. rollup' = rollup /\ clock \in Nat
  BY DEF LogRow, LogKept
<1> QED
  BY <1>1, <1>2 DEF InRange, Within

\* Nor by a pruning that stays short of it.
LEMMA PruneStaysShort ==
  ASSUME LogKept, purgeOlderThan, rollup.from \in Int, rollup.to \in Int,
         rollup.from >= clock - Retention
  PROVE  {row \in log' : row.ts >= rollup.from /\ row.ts <= rollup.to} = InRange
<1>1. log' = Pruned
  BY DEF purgeOlderThan
<1>2. \A row \in log : row.ts \in Int /\ clock \in Int
  BY DEF LogKept
<1>3. \A row \in log : row.ts >= rollup.from => row \in Pruned
  BY <1>2, PruneKeeps, ReportsAssumption
<1> QED
  BY <1>1, <1>3, PruneKeeps DEF InRange, Within

\* Two buckets lie at least a width apart.
LEMMA BucketsApart ==
  ASSUME NEW width \in Nat \ {0}, NEW one \in Int, NEW other \in Int, one # other
  PROVE  one * width + width <= other * width \/ other * width + width <= one * width
<1>1. \A x, y \in Int : x + 1 <= y => x * width + width <= y * width
  <2> SUFFICES ASSUME NEW x \in Int, NEW y \in Int, x + 1 <= y
               PROVE  x * width + width <= y * width
    OBVIOUS
  <2>1. (x + 1) * width <= y * width
    OBVIOUS
  <2>2. (x + 1) * width = x * width + width
    OBVIOUS
  <2> QED
    BY <2>1, <2>2
<1>2. one + 1 <= other \/ other + 1 <= one
  OBVIOUS
<1> QED
  BY <1>1, <1>2

\* The rows of a statement are some of a finite log's.
LEMMA RangeFinite == ASSUME LogKept, NEW range PROVE IsFiniteSet(Within(range))
<1>1. Within(range) \subseteq log
  BY DEF Within
<1> QED
  BY <1>1, FS_Subset DEF LogKept

\* The log is written to while a report is read.
LEMMA RollupWaits ==
  ASSUME LogKept, RollupHolds, rollup.pc # "done", UNCHANGED rollup,
         LogRow \/ (clock' \in Nat /\ clock' >= clock /\ UNCHANGED log)
  PROVE  RollupHolds'
<1>1. clock' \in Nat /\ clock \in Nat /\ clock' >= clock
  BY DEF LogRow, LogKept
<1>2. rollup.pc # "idle" /\ rollup.closed => InRange' = InRange
  <2>1. CASE LogRow
    BY <2>1, RowsComeLater DEF RollupHolds, Agreeing
  <2>2. CASE UNCHANGED log
    BY <2>2 DEF InRange, Within
  <2> QED
    BY <2>1, <2>2
<1>3. rollup.pc # "idle" /\ rollup.closed => Agreeing'
  BY <1>1, <1>2 DEF RollupHolds, Agreeing
<1>4. BreakdownsAddUp'
  BY DEF BreakdownsAddUp
<1> QED
  BY <1>3, <1>4 DEF RollupHolds

\* Pruning spoils a report only where it reaches into its range, which closes it.
LEMMA RollupPruned ==
  ASSUME LogKept, RollupHolds, rollup.pc # "done", purgeOlderThan
  PROVE  RollupHolds'
<1> DEFINE r == [rollup EXCEPT !.closed = rollup.closed /\ rollup.from >= clock - Retention]
<1>1. rollup' = r /\ clock' = clock
  BY DEF purgeOlderThan
<1>2. /\ r.pc = rollup.pc /\ r.from = rollup.from /\ r.to = rollup.to /\ r.width = rollup.width
      /\ r.totals = rollup.totals /\ r.byModel = rollup.byModel /\ r.byProvider = rollup.byProvider
      /\ r.points = rollup.points
      /\ r.closed = (rollup.closed /\ rollup.from >= clock - Retention)
      /\ r = [pc |-> r.pc, from |-> r.from, to |-> r.to, width |-> r.width,
              totals |-> r.totals, byModel |-> r.byModel,
              byProvider |-> r.byProvider, points |-> r.points, closed |-> r.closed]
  BY DEF RollupHolds
<1> HIDE DEF r
<1>3. ASSUME rollup'.pc # "idle", rollup'.closed PROVE Agreeing'
  <2>1. Agreeing /\ rollup.from \in Int /\ rollup.to \in Int
    BY <1>1, <1>2, <1>3 DEF RollupHolds
  <2>2. InRange' = InRange
    BY <1>1, <1>2, <1>3, <2>1, PruneStaysShort DEF InRange, Within
  <2> QED
    BY <1>1, <1>2, <2>1, <2>2 DEF Agreeing
<1>4. BreakdownsAddUp'
  BY <1>1, <1>2 DEF BreakdownsAddUp
<1>5. r.closed \in BOOLEAN
  BY <1>2
<1> QED
  BY <1>1, <1>2, <1>3, <1>4, <1>5 DEF RollupHolds

\* The greater of two numbers.
LEMMA GreaterOfTwo ==
  ASSUME NEW a \in Int, NEW b \in Int
  PROVE  Max({a, b}) \in {a, b} /\ Max({a, b}) >= a /\ Max({a, b}) >= b
<1>1. \E x \in {a, b} : \A y \in {a, b} : x >= y
  OBVIOUS
<1> QED
  BY <1>1 DEF Max

\* A report begins with the total of its range.
LEMMA RollupOpens ==
  ASSUME LogKept, RollupHolds, NEW from \in Int, NEW to \in Int, NEW bucket \in Int,
         Summarise(from, to, bucket)
  PROVE  RollupHolds'
<1> DEFINE range == readRange(from, to, 1, clock)
           width == bucketMs(range, bucket)
<1>1. clock \in Int /\ range = <<range[1], range[2]>> /\ range[1] \in Int /\ range[2] \in Int
  BY DEF LogKept, readRange, rangeOf
<1> HIDE DEF range
<1>2. width \in Nat \ {0}
  <2> DEFINE x == IF bucket > 0 THEN bucket ELSE (range[2] - range[1]) \div PerWindow
  <2>1. x \in Int /\ MinBucket \in Int /\ MinBucket > 0
    BY <1>1, RangesAssumption
  <2>2. width = Max({MinBucket, x})
    BY DEF bucketMs
  <2> HIDE DEF x, width
  <2>3. width \in {MinBucket, x} /\ width >= MinBucket
    BY <2>1, <2>2, GreaterOfTwo, Zenon
  <2> QED
    BY <2>1, <2>3
<1> HIDE DEF width
<1>3. /\ rollup' = [pc |-> "models", from |-> range[1], to |-> range[2], width |-> width,
                    totals |-> Cardinality(Within(range)), byModel |-> 0, byProvider |-> 0,
                    points |-> <<>>, closed |-> range[2] < clock]
      /\ clock' = clock /\ log' = log
  BY DEF Summarise, range, width
<1>4. InRange' = Within(range)
  BY <1>3 DEF InRange, Within
<1>5. rollup'.closed => Agreeing'
  BY <1>3, <1>4 DEF Agreeing
<1> QED
  BY <1>1, <1>2, <1>3, <1>5 DEF RollupHolds, BreakdownsAddUp

\* The breakdowns by model and by provider add up to the total.
LEMMA RollupGroups ==
  ASSUME LogKept, RollupHolds, GroupByModel \/ GroupByProvider
  PROVE  RollupHolds'
<1>1. IsFiniteSet(InRange)
  BY RangeFinite DEF InRange
<1>2. clock' = clock /\ log' = log
  BY DEF GroupByModel, GroupByProvider
<1>3. CASE GroupByModel
  <2>1. /\ rollup.pc = "models"
        /\ rollup' = [rollup EXCEPT !.pc = "providers", !.byModel = Cardinality(InRange)]
    BY <1>1, <1>3, GroupsAddUp DEF GroupByModel, InRange
  <2>2. InRange' = InRange
    BY <1>2, <2>1 DEF RollupHolds, InRange, Within
  <2>3. rollup'.closed => Agreeing'
    BY <1>2, <2>1, <2>2 DEF RollupHolds, Agreeing
  <2> QED
    BY <2>1, <2>3 DEF RollupHolds, BreakdownsAddUp
<1>4. CASE GroupByProvider
  <2>1. /\ rollup.pc = "providers"
        /\ rollup' = [rollup EXCEPT !.pc = "series", !.byProvider = Cardinality(InRange)]
    BY <1>1, <1>4, GroupsAddUp DEF GroupByProvider, InRange
  <2>2. InRange' = InRange
    BY <1>2, <2>1 DEF RollupHolds, InRange, Within
  <2>3. rollup'.closed => Agreeing'
    BY <1>2, <2>1, <2>2 DEF RollupHolds, Agreeing
  <2> QED
    BY <2>1, <2>3 DEF RollupHolds, BreakdownsAddUp
<1> QED
  BY <1>3, <1>4

\* The points of the chart add up to the total: a row falls in one bucket.
LEMMA RollupCharts ==
  ASSUME LogKept, RollupHolds, series
  PROVE  RollupHolds'
<1> DEFINE key == [row \in InRange |-> BucketOf(row.ts, rollup.width)]
           points == GroupSizes(InRange, key)
<1>1. IsFiniteSet(InRange) /\ DOMAIN key = InRange
  BY RangeFinite DEF InRange
<1>2. /\ clock' = clock /\ log' = log /\ rollup.pc = "series"
      /\ rollup' = [rollup EXCEPT !.pc = "done", !.points = points]
  BY DEF series, InRange
<1>3. \A k \in DOMAIN points : \E b \in Int : k = b * rollup.width
  <2>1. \A row \in InRange : row.ts \in Int /\ rollup.width \in Nat \ {0}
    BY <1>2 DEF LogKept, RollupHolds, InRange, Within
  <2>2. \A row \in InRange : row.ts \div rollup.width \in Int
    BY <2>1
  <2> QED
    BY <2>2 DEF GroupSizes, BucketOf
<1> HIDE DEF key
<1>4. Total(points) = Cardinality(InRange)
  BY <1>1, GroupsAddUp
<1> HIDE DEF points
<1>5. /\ rollup'.points = points /\ rollup'.width = rollup.width /\ rollup'.pc = "done"
      /\ rollup'.totals = rollup.totals /\ rollup'.closed = rollup.closed
      /\ rollup'.byModel = rollup.byModel /\ rollup'.byProvider = rollup.byProvider
      /\ rollup'.from = rollup.from /\ rollup'.to = rollup.to
      /\ rollup' = [pc |-> rollup'.pc, from |-> rollup'.from, to |-> rollup'.to, width |-> rollup'.width,
                    totals |-> rollup'.totals, byModel |-> rollup'.byModel,
                    byProvider |-> rollup'.byProvider, points |-> rollup'.points,
                    closed |-> rollup'.closed]
  BY <1>2 DEF RollupHolds
<1>6. InRange' = InRange
  BY <1>2, <1>5 DEF InRange, Within
<1>7. rollup'.closed => Agreeing'
  BY <1>2, <1>5, <1>6 DEF RollupHolds, Agreeing
<1>8. \A one, other \in DOMAIN points :
        one # other => one + rollup.width <= other \/ other + rollup.width <= one
  <2>1. rollup.width \in Nat \ {0}
    BY <1>2 DEF RollupHolds
  <2> QED
    BY <2>1, <1>3, BucketsApart
<1>9. BreakdownsAddUp'
  BY <1>2, <1>4, <1>5, <1>8 DEF BreakdownsAddUp, RollupHolds, Agreeing
<1> QED
  BY <1>2, <1>5, <1>7, <1>9 DEF RollupHolds

\* A report agrees with itself after every step.
LEMMA RollupKeeps ==
  ASSUME LogKept, RollupHolds, [ReportsNext]_reportVars
  PROVE  RollupHolds'
<1>1. CASE UNCHANGED <<clock, log, rollup>>
  BY <1>1 DEF RollupHolds, Agreeing, InRange, Within, BreakdownsAddUp
<1>2. ASSUME ReportsNext, ~UNCHANGED <<clock, log, rollup>> PROVE RollupHolds'
  <2>1. rollup.pc # "done"
    BY <1>2 DEF ReportsNext
  <2>2. CASE LogRow
    BY <2>1, <2>2, RollupWaits DEF LogRow
  <2>3. CASE purgeOlderThan
    BY <2>1, <2>3, RollupPruned
  <2>4. CASE Passes
    BY <2>1, <2>4, RollupWaits DEF Passes, LogKept
  <2>5. CASE ReadsRollup
    <3>1. ASSUME NEW from \in Omitted .. MaxClock, NEW to \in Omitted .. MaxClock, NEW bucket \in Buckets,
                 Summarise(from, to, bucket)
          PROVE  RollupHolds'
      BY <3>1, RollupOpens, ReportsAssumption DEF Omitted
    <3> QED
      BY <2>5, <3>1, RollupGroups, RollupCharts DEF ReadsRollup
  <2>6. ~ReadsLog /\ \A p \in Sources : ~ForgetSource(p)
    BY <1>2 DEF ReadsLog, AskPage, ShowPage, NextPage, PreviousPage, MoveTo, applyFilter, ForgetSource
  <2> QED
    BY <1>2, <2>2, <2>3, <2>4, <2>5, <2>6 DEF ReportsNext
<1> QED
  BY <1>1, <1>2 DEF reportVars

----------------------------------------------------------------------------

\* A step of the log leaves the walk where it is: what it has yet to show still lies ahead.
LEMMA WalkWaits ==
  ASSUME LogKept, LogKept', WalkHolds, UNCHANGED view, asking' = Torn,
         \A row \in log' : row \in log \/ row.id = logged + 1,
         logged' >= logged,
         \A row \in log \cap log', other \in log : Before(other, row) => other \in log'
  PROVE  WalkHolds'
<1> DEFINE rows == Matching(view.filter)
           more == {row \in log' : view.filter = None \/ row.model = view.filter}
<1>1. \A row \in log' : row.id \in view.since => row \in log
  BY DEF WalkHolds, LogKept
<1>2. IsFiniteSet(more)
  <2>1. more \subseteq log' /\ IsFiniteSet(log')
    BY DEF LogKept
  <2> HIDE DEF more
  <2> QED
    BY <2>1, FS_Subset
<1>3. more = Matching(view.filter)'
  BY DEF Matching
<1>4. Reached' = Reached /\ Reached \in Nat
  BY ReportsAssumption DEF Reached, WalkHolds, View
<1>5. ASSUME NEW row \in log', row.id \in view.since \ view.seen
      PROVE  row \in more /\ Rank(more, row) >= Reached
  <2>1. row \in log /\ row \in rows /\ Rank(rows, row) >= Reached
    BY <1>1, <1>5 DEF WalkHolds, LiesAhead
  <2>2. row \in more
    BY <2>1 DEF Matching
  <2> DEFINE kept == rows \cap log'
  <2>3. kept \subseteq more
    BY DEF Matching
  <2>4. Rank(kept, row) = Rank(rows, row)
    <3>1. {other \in kept : Before(other, row)} = {other \in rows : Before(other, row)}
      BY <2>1 DEF Matching
    <3> QED
      BY <3>1 DEF Rank
  <2> HIDE DEF kept, more, rows
  <2>5. Rank(kept, row) \in Nat /\ Rank(more, row) \in Nat /\ Rank(kept, row) <= Rank(more, row)
    BY <1>2, <2>3, RankGrows
  <2> QED
    BY <2>1, <2>2, <2>4, <2>5, <1>4
<1>6. \A row \in log' : row.id \in view.since \ view.seen => LiesAhead(row)'
  <2> HIDE DEF more, rows
  <2> QED
    BY <1>3, <1>4, <1>5 DEF LiesAhead
<1>7. PagingMissesNothing'
  BY <1>1 DEF WalkHolds, PagingMissesNothing, IdsOf, TotalPages
<1>8. /\ asking' \in {None} \cup [total : Nat, torn : BOOLEAN]
      /\ asking' # None => asking # None /\ asking'.torn
  BY DEF WalkHolds, Torn
<1>9. view.since \subseteq 1 .. logged'
  BY DEF WalkHolds, LogKept
<1> QED
  BY <1>6, <1>7, <1>8, <1>9 DEF WalkHolds

\* A row that is logged comes before every row the walk has yet to read.
LEMMA WalkLogged == ASSUME LogKept, WalkHolds, LogRow PROVE WalkHolds'
<1>1. LogKept'
  BY RowIsKept
<1>2. PICK row \in [id : {logged + 1}, ts : {clock}, model : Models, source : Sources \cup {None} \cup named] :
        log' = log \cup {row}
  BY DEF LogRow
<1>3. logged' >= logged /\ UNCHANGED view /\ asking' = Torn
  BY DEF LogRow, LogKept
<1>4. \A r \in log' : r \in log \/ r.id = logged + 1
  BY <1>2
<1>5. \A r \in log \cap log', other \in log : Before(other, r) => other \in log'
  BY <1>2
<1> QED
  BY <1>1, <1>3, <1>4, <1>5, WalkWaits

\* Pruning takes rows from the end of the walk.
LEMMA WalkPruned == ASSUME LogKept, WalkHolds, purgeOlderThan PROVE WalkHolds'
<1>1. LogKept'
  BY PruneIsKept
<1>2. logged' >= logged /\ UNCHANGED view /\ asking' = Torn /\ log' = Pruned
  BY DEF purgeOlderThan, LogKept
<1>3. \A row, other \in log : Before(other, row) => other.ts >= row.ts
  BY DEF Before, LogKept
<1>4. \A row \in log \cap log', other \in log : Before(other, row) => other \in log'
  BY <1>2, <1>3, PruneKeeps
<1>5. \A row \in log' : row \in log
  BY <1>2, PruneKeeps
<1> QED
  BY <1>1, <1>2, <1>4, <1>5, WalkWaits

\* What matches when a walk begins lies ahead of its first page.
LEMMA WalkBegins ==
  ASSUME LogKept, NEW filter \in Filter, NEW row \in log, row.id \in IdsOf(Matching(filter))
  PROVE  row \in Matching(filter) /\ Rank(Matching(filter), row) >= 0
<1>1. row \in Matching(filter)
  BY DEF IdsOf, Matching, LogKept
<1>2. IsFiniteSet(Matching(filter)) /\ row.ts \in Int /\ row.id \in Int
  BY MatchesFinite DEF LogKept
<1> QED
  BY <1>1, <1>2, RankTells

\* The rows that match are numbered among those logged.
LEMMA IdsInRange ==
  ASSUME LogKept, NEW rows \in SUBSET log
  PROVE  IdsOf(rows) \subseteq 1 .. logged /\ IdsOf(rows) \subseteq 1 .. MaxRows
<1> QED
  BY ReportsAssumption DEF LogKept, IdsOf

\* A page is asked for where the last one ended.
LEMMA WalkAsks == ASSUME LogKept, WalkHolds, AskPage PROVE WalkHolds'
<1> DEFINE rows == Matching(view.filter)
<1>1. /\ asking = None /\ log' = log /\ logged' = logged
      /\ asking' = [total |-> Cardinality(rows), torn |-> FALSE]
  BY DEF AskPage
<1>2. view.filter \in Filter /\ view \in View
  BY DEF WalkHolds, View
<1>3. rows \subseteq log /\ IsFiniteSet(rows) /\ Cardinality(rows) \in Nat
  BY MatchesFinite DEF LogKept, Matching
<1>4. asking' \in [total : Nat, torn : BOOLEAN] /\ asking'.total = Cardinality(rows)
  BY <1>1, <1>3
<1>5. CASE view' = view /\ ~(view.page = 0 /\ ~view.walking)
  <2>1. Matching(view.filter)' = rows /\ Reached' = Reached
    BY <1>1, <1>5 DEF Matching, Reached
  <2>2. \A row \in log : LiesAhead(row)' = LiesAhead(row)
    BY <2>1 DEF LiesAhead
  <2>3. PagingMissesNothing'
    BY <1>1, <1>5 DEF WalkHolds, PagingMissesNothing, IdsOf, TotalPages
  <2> HIDE DEF rows
  <2> QED
    BY <1>1, <1>4, <1>5, <2>1, <2>2, <2>3 DEF WalkHolds
<1>6. CASE /\ view.page = 0 /\ ~view.walking
           /\ view' = [view EXCEPT !.walking = TRUE, !.since = IdsOf(rows)]
  <2>1. IdsOf(rows) \subseteq 1 .. logged /\ IdsOf(rows) \subseteq 1 .. MaxRows
    BY <1>3, IdsInRange
  <2>2. view.shows # "answered"
    BY <1>6 DEF WalkHolds
  <2>3. /\ view' \in View /\ view'.filter = view.filter /\ view'.shows = view.shows /\ view'.page = 0
        /\ view'.since = IdsOf(rows) /\ view'.seen = view.seen /\ view'.walking
    BY <1>2, <1>6, <2>1 DEF View
  <2>4. Matching(view.filter)' = rows /\ Reached' = 0
    BY <1>1, <2>2, <2>3, ReportsAssumption DEF Matching, Reached
  <2>5. \A row \in log : row.id \in IdsOf(rows) => LiesAhead(row)'
    BY <1>2, <2>4, WalkBegins DEF LiesAhead
  <2>6. PagingMissesNothing'
    BY <2>2, <2>3 DEF PagingMissesNothing
  <2> HIDE DEF rows
  <2> QED
    BY <1>1, <1>4, <2>1, <2>3, <2>4, <2>5, <2>6 DEF WalkHolds
<1> QED
  BY <1>5, <1>6 DEF AskPage

\* A page that is visited is the former one or that of the cache, until it is answered.
LEMMA VisitTells ==
  ASSUME view \in View, CacheTells, NEW filter \in Filter, NEW page \in Nat, NEW v,
         v = Visited(view, filter, page)
  PROVE  /\ v \in View /\ v.filter = filter /\ v.page = page /\ v.shows # "answered"
         /\ v.walking = view.walking /\ v.seen = view.seen /\ v.since = view.since
<1> DEFINE shows == IF Fresh(<<filter, page>>) THEN "cached" ELSE "former"
           total == IF Fresh(<<filter, page>>) THEN cache[<<filter, page>>].total ELSE view.total
<1>1. shows \in {"former", "cached"}
  OBVIOUS
<1>2. total \in Nat
  BY DEF CacheTells, Fresh, View
<1>3. v = [view EXCEPT !.filter = filter, !.page = page, !.shows = shows, !.total = total, !.torn = FALSE]
  BY DEF Visited
<1> HIDE DEF shows, total
<1> QED
  BY <1>1, <1>2, <1>3 DEF View

\* A walk that is over owes nothing.
LEMMA WalkOverTells ==
  ASSUME NEW v \in View
  PROVE  /\ WalkOver(v) \in View /\ WalkOver(v).filter = v.filter /\ WalkOver(v).page = v.page
         /\ WalkOver(v).shows = v.shows /\ ~WalkOver(v).walking /\ WalkOver(v).seen = {}
         /\ WalkOver(v).since = {}
<1> QED
  BY DEF WalkOver, View

\* Where no walk is under way, there is nothing to hold.
LEMMA NothingOwed ==
  ASSUME LogKept', UNCHANGED <<log, logged>>, view' \in View, view'.shows # "answered", ~view'.walking,
         view'.seen = {}, view'.since = {}, asking' = None
  PROVE  WalkHolds'
<1>1. PagingMissesNothing'
  BY DEF PagingMissesNothing
<1> QED
  BY <1>1 DEF WalkHolds

\* Another filter begins another walk.
LEMMA WalkFiltered ==
  ASSUME LogKept, CacheTells, WalkHolds, NEW filter \in Filter, applyFilter(filter)
  PROVE  WalkHolds'
<1> DEFINE v == Visited(view, filter, 0)
<1>1. asking' = None /\ log' = log /\ logged' = logged /\ clock' = clock /\ view' = WalkOver(v)
  BY DEF applyFilter
<1>2. view \in View
  BY DEF WalkHolds
<1>3. v \in View /\ v.shows # "answered"
  BY <1>2, VisitTells
<1> HIDE DEF v
<1>4. LogKept'
  BY <1>1 DEF LogKept
<1> QED
  BY <1>1, <1>3, <1>4, WalkOverTells, NothingOwed

\* A page that lies no further than the walk has come leaves it as it was.
LEMMA WalkMoves ==
  ASSUME LogKept, CacheTells, WalkHolds, NEW page \in Nat, MoveTo(page),
         page <= view.page \/ (page = view.page + 1 /\ view.shows = "answered")
  PROVE  WalkHolds'
<1> DEFINE v == Visited(view, view.filter, page)
<1>1. /\ asking = None /\ asking' = None /\ log' = log /\ logged' = logged
      /\ view.page \in Nat /\ view.filter \in Filter /\ view \in View
  BY DEF MoveTo, WalkHolds, View
<1>2. view' = v
  <2>1. ~(page > view.page /\ view.shows = "cached")
    BY <1>1
  <2> QED
    BY <2>1 DEF MoveTo
<1>3. /\ v \in View /\ v.filter = view.filter /\ v.page = page /\ v.shows # "answered"
      /\ v.walking = view.walking /\ v.seen = view.seen /\ v.since = view.since
  BY <1>1, VisitTells
<1> HIDE DEF v
<1>4. Matching(view.filter)' = Matching(view.filter)
  BY <1>1, <1>2, <1>3 DEF Matching
<1>5. Reached \in Nat /\ Reached' \in Nat /\ Reached >= Reached'
  <2>1. Reached' = page * PageSize /\ PageSize \in Nat
    BY <1>2, <1>3, ReportsAssumption DEF Reached
  <2>2. CASE view.shows = "answered"
    <3>1. Reached = (view.page + 1) * PageSize /\ page <= view.page + 1
      BY <1>1, <2>2 DEF Reached
    <3> QED
      BY <1>1, <2>1, <3>1
  <2>3. CASE view.shows # "answered"
    <3>1. Reached = view.page * PageSize /\ page <= view.page
      BY <1>1, <2>3 DEF Reached
    <3> QED
      BY <1>1, <2>1, <3>1
  <2> QED
    BY <2>2, <2>3
<1>6. ASSUME NEW row \in log, row.id \in view.since \ view.seen PROVE LiesAhead(row)'
  <2>1. row \in Matching(view.filter) /\ Rank(Matching(view.filter), row) >= Reached
    BY <1>6 DEF WalkHolds, LiesAhead
  <2>2. IsFiniteSet(Matching(view.filter)) /\ row.ts \in Int /\ row.id \in Int
    BY MatchesFinite DEF LogKept
  <2>3. Rank(Matching(view.filter), row) \in Nat
    BY <2>1, <2>2, RankTells
  <2>4. Rank(Matching(view.filter), row) >= Reached'
    BY <1>5, <2>1, <2>3
  <2> QED
    BY <1>4, <2>1, <2>4 DEF LiesAhead
<1>7. PagingMissesNothing'
  BY <1>2, <1>3 DEF PagingMissesNothing
<1> QED
  BY <1>1, <1>2, <1>3, <1>6, <1>7 DEF WalkHolds

\* Turning a page passes over the rows it showed; past a page of the cache, the walk is over.
LEMMA WalkTurns == ASSUME LogKept, CacheTells, WalkHolds, NextPage \/ PreviousPage PROVE WalkHolds'
<1>1. view.page \in Nat /\ view.filter \in Filter /\ view \in View
  BY DEF WalkHolds, View
<1>2. CASE PreviousPage
  <2> DEFINE page == view.page - 1
  <2>1. page \in Nat /\ page <= view.page /\ MoveTo(page)
    BY <1>1, <1>2 DEF PreviousPage
  <2> HIDE DEF page
  <2> QED
    BY <2>1, WalkMoves
<1>3. CASE NextPage
  <2> DEFINE page == view.page + 1
  <2>1. page \in Nat /\ page = view.page + 1 /\ page > view.page /\ MoveTo(page)
    BY <1>1, <1>3 DEF NextPage
  <2> HIDE DEF page
  <2>2. CASE view.shows = "answered"
    BY <2>1, <2>2, WalkMoves
  <2>3. CASE view.shows # "answered"
    <3>1. view.shows = "cached"
      BY <1>1, <2>1, <2>3 DEF MoveTo, View
    <3>2. /\ asking' = None /\ log' = log /\ logged' = logged /\ clock' = clock
          /\ view' = WalkOver(Visited(view, view.filter, page))
      BY <2>1, <3>1 DEF MoveTo
    <3> DEFINE v == Visited(view, view.filter, page)
    <3>3. v \in View /\ v.shows # "answered"
      BY <1>1, <2>1, VisitTells
    <3>4. view' = WalkOver(v)
      BY <3>2
    <3> HIDE DEF v
    <3>5. LogKept'
      BY <3>2 DEF LogKept
    <3> QED
      BY <3>2, <3>3, <3>4, <3>5, WalkOverTells, NothingOwed
  <2> QED
    BY <2>2, <2>3
<1> QED
  BY <1>2, <1>3

\* The page that is shown holds the next rows, and the last one all that are left.
LEMMA WalkShows == ASSUME LogKept, WalkHolds, ShowPage PROVE WalkHolds'
<1> DEFINE rows == Matching(view.filter)
           page == IF view.walking THEN PageOf(rows, view.page) ELSE {}
<1>1. /\ asking # None /\ log' = log /\ logged' = logged /\ asking' = None
      /\ view' = [view EXCEPT !.total = asking.total, !.shows = "answered", !.torn = asking.torn,
                              !.seen = view.seen \cup page]
  BY DEF ShowPage, WalkHolds
<1>2. view \in View /\ view.page \in Nat /\ asking \in [total : Nat, torn : BOOLEAN]
  BY <1>1 DEF WalkHolds, View
<1>3. rows \subseteq log /\ IsFiniteSet(rows) /\ Cardinality(rows) \in Nat
  BY MatchesFinite DEF LogKept, Matching
<1>4. page \subseteq 1 .. MaxRows
  <2>1. {row \in rows : Rank(rows, row) \in view.page * PageSize .. view.page * PageSize + PageSize - 1}
          \subseteq log
    BY <1>3
  <2> QED
    BY <2>1, IdsInRange DEF PageOf
<1>5. /\ view' \in View /\ view'.filter = view.filter /\ view'.shows = "answered" /\ view'.page = view.page
      /\ view'.since = view.since /\ view'.seen = view.seen \cup page /\ view'.walking = view.walking
      /\ view'.total = asking.total /\ view'.torn = asking.torn
  <2> HIDE DEF rows, page
  <2> QED
    BY <1>1, <1>2, <1>4 DEF View
<1> DEFINE low == view.page * PageSize
           high == (view.page + 1) * PageSize
<1>6. low \in Nat /\ high = low + PageSize /\ PageSize \in Nat
  BY <1>2, ReportsAssumption
<1>7. Matching(view.filter)' = rows /\ Reached' = high /\ Reached \in {low, high}
  BY <1>1, <1>5 DEF Matching, Reached
<1> HIDE DEF low, high
<1>8. ASSUME NEW row \in log, row.id \in view.since \ (view.seen \cup page)
      PROVE  row \in rows /\ Rank(rows, row) \in Nat /\ Rank(rows, row) >= high
             /\ Rank(rows, row) < Cardinality(rows)
  <2>1. row \in rows /\ Rank(rows, row) >= Reached
    BY <1>8 DEF WalkHolds, LiesAhead
  <2>2. Rank(rows, row) \in Nat /\ Rank(rows, row) < Cardinality(rows)
    BY <1>3, <2>1, RankTells DEF LogKept
  <2>3. view.walking
    BY <1>8 DEF WalkHolds
  <2>4. Rank(rows, row) \notin low .. low + PageSize - 1
    BY <1>8, <2>1, <2>3 DEF PageOf, IdsOf, low
  <2> HIDE DEF rows
  <2> QED
    BY <1>6, <1>7, <2>1, <2>2, <2>4
<1>9. \A row \in log : row.id \in view.since \ (view.seen \cup page) => LiesAhead(row)'
  <2> HIDE DEF rows, page
  <2> QED
    BY <1>7, <1>8 DEF LiesAhead
<1>10. PagingMissesNothing'
  <2> SUFFICES ASSUME ~asking.torn, view.page + 1 >= Max({1, (asking.total + PageSize - 1) \div PageSize}),
                      NEW row \in log, row.id \in view.since, row.id \notin view.seen \cup page
               PROVE  FALSE
    <3> HIDE DEF rows, page
    <3> QED
      BY <1>1, <1>5 DEF PagingMissesNothing, TotalPages, IdsOf
  <2>1. asking.total = Cardinality(rows)
    BY <1>1 DEF WalkHolds
  <2> HIDE DEF page, rows
  <2>2. high >= Cardinality(rows)
    BY <1>2, <1>3, <2>1, LastPageReaches DEF high
  <2>3. Rank(rows, row) \in Nat /\ Rank(rows, row) >= high /\ Rank(rows, row) < Cardinality(rows)
    BY <1>8
  <2> QED
    BY <1>3, <1>6, <2>2, <2>3
<1>11. ~view.walking => view'.since = {} /\ view'.seen = {}
  BY <1>5 DEF WalkHolds
<1>12. view.page = 0 => view.walking
  BY <1>1 DEF WalkHolds
<1> HIDE DEF rows, page
<1> QED
  BY <1>1, <1>5, <1>9, <1>10, <1>11, <1>12 DEF WalkHolds

\* What the query cache keeps was answered.
LEMMA CacheKeeps == ASSUME CacheTells, WalkHolds, [ReportsNext]_reportVars PROVE CacheTells'
<1>1. CASE UNCHANGED cache
  BY <1>1 DEF CacheTells
<1>2. CASE Passes
  BY <1>2 DEF Passes, CacheTells
<1>3. CASE ShowPage
  <2>1. asking.total \in Nat
    BY <1>3 DEF ShowPage, WalkHolds
  <2> QED
    BY <1>3, <2>1 DEF ShowPage, CacheTells
<1>4. ReadsRollup => UNCHANGED cache
  BY DEF ReadsRollup, Summarise, GroupByModel, GroupByProvider, series
<1>5. ReadsLog => ShowPage \/ UNCHANGED cache
  BY DEF ReadsLog, AskPage, NextPage, PreviousPage, MoveTo, applyFilter
<1>6. LogRow \/ purgeOlderThan \/ (\E p \in Sources : ForgetSource(p)) \/ UNCHANGED reportVars
        => UNCHANGED cache
  BY DEF LogRow, purgeOlderThan, ForgetSource, reportVars
<1> QED
  BY <1>1, <1>2, <1>3, <1>4, <1>5, <1>6 DEF ReportsNext

\* A walk has seen every row it passed after every step.
LEMMA WalkKeeps ==
  ASSUME LogKept, CacheTells, WalkHolds, [ReportsNext]_reportVars
  PROVE  WalkHolds'
<1>1. CASE UNCHANGED <<log, logged, view, asking>>
  <2>1. Matching(view.filter)' = Matching(view.filter) /\ Reached' = Reached
    BY <1>1 DEF Matching, Reached
  <2>2. \A row \in log : LiesAhead(row)' = LiesAhead(row)
    BY <1>1, <2>1 DEF LiesAhead
  <2>3. PagingMissesNothing'
    BY <1>1 DEF WalkHolds, PagingMissesNothing, IdsOf, TotalPages
  <2> QED
    BY <1>1, <2>1, <2>2, <2>3 DEF WalkHolds
<1>2. CASE LogRow
  BY <1>2, WalkLogged
<1>3. CASE purgeOlderThan
  BY <1>3, WalkPruned
<1>4. CASE ReadsLog
  BY <1>4, WalkAsks, WalkShows, WalkTurns, WalkFiltered DEF ReadsLog
<1>5. ReadsRollup => UNCHANGED <<log, logged, view, asking>>
  BY DEF ReadsRollup, Summarise, GroupByModel, GroupByProvider, series
<1>6. Passes \/ (\E p \in Sources : ForgetSource(p)) \/ UNCHANGED reportVars
        => UNCHANGED <<log, logged, view, asking>>
  BY DEF Passes, ForgetSource, reportVars
<1> QED
  BY <1>1, <1>2, <1>3, <1>4, <1>5, <1>6 DEF ReportsNext

\* The reports leave nothing out and count nothing twice (db/usage.ts, summary, series and
\* logPage), whatever is logged, pruned or deleted between their statements.
THEOREM ReportsAgree == ReportsSpec => []ReportsAddUp
<1>1. ReportsInv /\ [ReportsNext]_reportVars => ReportsInv'
  BY LogKeeps, CacheKeeps, RollupKeeps, WalkKeeps DEF ReportsInv
<1>2. ReportsInv => ReportsAddUp
  BY DEF ReportsInv, RollupHolds, WalkHolds, ReportsAddUp
<1> QED
  BY <1>1, <1>2, ReportsStart, PTL DEF ReportsSpec

----------------------------------------------------------------------------
(* The listings (Listing) *)

\* What is left to do for a reading: the statements of one model, or of all.
Tasks == [task : {"catalogue", "health"}, model : {0}] \cup [task : {"list", "tell"}, model : PublicModels]

Readings ==
  [kind : {"none", "models", "card", "health"}, tasks : Seq(Tasks),
   at : {"row", "targets", "providers", "details"}, rows : Seq(TargetRow), matches : Seq(Details),
   listed : SUBSET PublicModels, told : [PublicModels -> Details \cup {"unread"}],
   status : {"none", "ok", "degraded", "unreadable"}]

Routes == [there : BOOLEAN, enabled : BOOLEAN, targets : SUBSET TargetRow]

TablesHold ==
  /\ providers \in [Providers -> ProviderRow]
  /\ routes \in [PublicModels -> Routes]
  /\ \A m \in PublicModels : FitsKeys(routes[m].targets)
  /\ details \in [Providers -> [Upstreams -> Details]]

\* The witness has seen what is so now.
Witnessed ==
  /\ \A m \in PublicModels : On(routes[m]) => m \in witness.on
  /\ \A m \in PublicModels : Serving(providers, routes[m].targets) # {} => m \in witness.fed
  /\ witness.steady \subseteq Services
  /\ Services # {} => witness.up
  /\ Services = {} => witness.down

\* Whether an entry is in a list.
Among(entry, list) == \E i \in DOMAIN list : list[i] = entry

Outstanding(task) == Among(task, reading.tasks)

\* What serves the model of the first task all along.
SteadyHere == {s \in witness.steady : s.model = Model}

ModelTask == reading.tasks # <<>> /\ Head(reading.tasks).task \in {"list", "tell"}

\* The first task has read what it needs of its model.
TaskHolds ==
  ModelTask =>
    /\ reading.at \in {"targets", "providers"} => Model \in witness.on
    /\ reading.at = "providers" =>
         /\ reading.rows # <<>> => Model \in witness.fed
         /\ \A s \in SteadyHere : Among(s.target, reading.rows)
    /\ reading.at = "details" =>
         /\ reading.rows # <<>>
         /\ \A s \in SteadyHere :
              Among(s.target, reading.rows) \/ s.tells = "none" \/ Among(s.tells, reading.matches)

\* A model that is described is described well enough.
WellTold(m) == \A s \in witness.steady : s.model = m => Worth(reading.told[m]) >= Worth(s.tells)

\* Every model that has to be listed is, or is on the list of what is left to do.
ListHolds ==
  reading.kind \in {"models", "card"} =>
    /\ reading.listed \subseteq witness.on \cap witness.fed
    /\ \A s \in witness.steady : s.model \in reading.listed \/ Outstanding(Catalogue) \/ Outstanding(List(s.model))
    /\ reading.kind = "models" => \A m \in reading.listed : Outstanding(Describe(m)) \/ WellTold(m)

ProbeTask == [task |-> "health", model |-> 0]

ProbeHolds ==
  /\ reading.kind = "health" =>
       \/ reading.tasks = << ProbeTask >> /\ reading.at = "row"
       \/ /\ reading.tasks = << ProbeTask >> /\ reading.at = "targets"
          /\ reading.status \in {"ok", "degraded"} /\ (reading.status = "degraded" => witness.down)
       \/ reading.tasks = <<>> /\ HealthIsTrue
  /\ reading.kind # "health" => ~Outstanding(ProbeTask)

ListingInv == TablesHold /\ reading \in Readings /\ Witnessed /\ TaskHolds /\ ListHolds /\ ProbeHolds

\* What is among a list is its head or among its tail.
LEMMA AmongTail ==
  ASSUME NEW X, NEW list \in Seq(X), list # <<>>
  PROVE  /\ Head(list) \in X /\ Tail(list) \in Seq(X)
         /\ \A entry : Among(entry, list) <=> entry = Head(list) \/ Among(entry, Tail(list))
<1>1. Head(list) \in X /\ Tail(list) \in Seq(X) /\ Len(list) \in Nat \ {0} /\ Head(list) = list[1]
  OBVIOUS
<1>2. Len(Tail(list)) = Len(list) - 1 /\ \A i \in 1 .. Len(list) - 1 : Tail(list)[i] = list[i + 1]
  OBVIOUS
<1> DEFINE tail == Tail(list)
<1> HIDE DEF tail
<1>3. DOMAIN tail = 1 .. Len(list) - 1 /\ DOMAIN list = 1 .. Len(list)
  BY <1>1, <1>2 DEF tail
<1>4. ASSUME NEW entry, Among(entry, list), entry # Head(list) PROVE Among(entry, tail)
  <2>1. PICK i \in 1 .. Len(list) : list[i] = entry
    BY <1>3, <1>4 DEF Among
  <2>2. i # 1
    BY <1>1, <1>4, <2>1
  <2>3. i - 1 \in 1 .. Len(list) - 1 /\ i - 1 + 1 = i
    BY <1>1, <2>2
  <2>4. tail[i - 1] = entry
    BY <1>2, <2>1, <2>3 DEF tail
  <2> QED
    BY <1>3, <2>3, <2>4 DEF Among
<1>5. ASSUME NEW entry, Among(entry, tail) PROVE Among(entry, list)
  <2>1. PICK i \in 1 .. Len(list) - 1 : tail[i] = entry
    BY <1>3, <1>5 DEF Among
  <2>2. i + 1 \in 1 .. Len(list) /\ list[i + 1] = entry
    BY <1>1, <1>2, <2>1 DEF tail
  <2> QED
    BY <1>3, <2>2 DEF Among
<1>6. Among(Head(list), list)
  <2>1. 1 \in 1 .. Len(list)
    BY <1>1
  <2> QED
    BY <1>1, <1>3, <2>1 DEF Among
<1> QED
  BY <1>1, <1>4, <1>5, <1>6 DEF tail

\* What is among two lists joined is among one of them.
LEMMA AmongJoined ==
  ASSUME NEW X, NEW first \in Seq(X), NEW last \in Seq(X), NEW entry
  PROVE  Among(entry, first \o last) <=> Among(entry, first) \/ Among(entry, last)
<1> DEFINE k == Len(first)
           n == Len(last)
           both == first \o last
<1>1. /\ k \in Nat /\ n \in Nat /\ DOMAIN first = 1 .. k /\ DOMAIN last = 1 .. n
      /\ DOMAIN both = 1 .. k + n
      /\ \A i \in 1 .. k + n : both[i] = IF i <= k THEN first[i] ELSE last[i - k]
  OBVIOUS
<1> HIDE DEF k, n, both
<1>2. ASSUME Among(entry, both) PROVE Among(entry, first) \/ Among(entry, last)
  <2>1. PICK i \in 1 .. k + n : both[i] = entry
    BY <1>1, <1>2 DEF Among
  <2>2. CASE i <= k
    <3>1. i \in 1 .. k /\ first[i] = entry
      BY <1>1, <2>1, <2>2
    <3> QED
      BY <1>1, <3>1 DEF Among
  <2>3. CASE ~(i <= k)
    <3>1. i - k \in 1 .. n /\ last[i - k] = entry
      BY <1>1, <2>1, <2>3
    <3> QED
      BY <1>1, <3>1 DEF Among
  <2> QED
    BY <2>2, <2>3
<1>3. ASSUME Among(entry, first) PROVE Among(entry, both)
  <2>1. PICK i \in 1 .. k : first[i] = entry
    BY <1>1, <1>3 DEF Among
  <2>2. i \in 1 .. k + n /\ both[i] = entry
    BY <1>1, <2>1
  <2> QED
    BY <1>1, <2>2 DEF Among
<1>4. ASSUME Among(entry, last) PROVE Among(entry, both)
  <2>1. PICK i \in 1 .. n : last[i] = entry
    BY <1>1, <1>4 DEF Among
  <2>2. k + i \in 1 .. k + n /\ ~(k + i <= k) /\ k + i - k = i
    BY <1>1, <2>1
  <2>3. both[k + i] = entry
    BY <1>1, <2>1, <2>2
  <2> QED
    BY <1>1, <2>2, <2>3 DEF Among
<1> QED
  BY <1>2, <1>3, <1>4 DEF both

\* What is among a longer list was there or is the new entry.
LEMMA AmongAppended ==
  ASSUME NEW X, NEW list \in Seq(X), NEW x \in X, NEW entry
  PROVE  Among(entry, Append(list, x)) <=> Among(entry, list) \/ entry = x
<1> DEFINE longer == Append(list, x)
<1>1. /\ Len(list) \in Nat /\ DOMAIN list = 1 .. Len(list) /\ DOMAIN longer = 1 .. Len(list) + 1
      /\ longer[Len(list) + 1] = x /\ \A i \in 1 .. Len(list) : longer[i] = list[i]
  OBVIOUS
<1> HIDE DEF longer
<1>2. ASSUME Among(entry, longer), entry # x PROVE Among(entry, list)
  <2>1. PICK i \in 1 .. Len(list) + 1 : longer[i] = entry
    BY <1>1, <1>2 DEF Among
  <2>2. i \in 1 .. Len(list) /\ list[i] = entry
    BY <1>1, <1>2, <2>1
  <2> QED
    BY <1>1, <2>2 DEF Among
<1>3. ASSUME Among(entry, list) PROVE Among(entry, longer)
  <2>1. PICK i \in 1 .. Len(list) : list[i] = entry
    BY <1>1, <1>3 DEF Among
  <2>2. i \in 1 .. Len(list) + 1 /\ longer[i] = entry
    BY <1>1, <2>1
  <2> QED
    BY <1>1, <2>2 DEF Among
<1>4. Among(x, longer)
  <2>1. Len(list) + 1 \in 1 .. Len(list) + 1
    BY <1>1
  <2> QED
    BY <1>1, <2>1 DEF Among
<1> QED
  BY <1>2, <1>3, <1>4 DEF longer

\* Nothing follows the only entry of a list.
LEMMA NothingFollows ==
  ASSUME NEW X, NEW list \in Seq(X), list # <<>>
  PROVE  Tail(list) = <<>> <=> Len(list) = 1
<1> DEFINE tail == Tail(list)
<1>1. tail \in Seq(X) /\ Len(tail) = Len(list) - 1 /\ Len(list) \in Nat
  OBVIOUS
<1> HIDE DEF tail
<1>2. tail = <<>> <=> Len(tail) = 0
  BY <1>1
<1>3. tail = <<>> <=> Len(list) = 1
  BY <1>1, <1>2
<1> QED
  BY <1>3 DEF tail

\* A list of one entry has an empty tail.
LEMMA OnlyEntry == ASSUME NEW entry PROVE Tail(<< entry >>) = <<>> /\ << entry >> # <<>>
<1> DEFINE list == << entry >>
           X == {entry}
<1>1. list \in Seq(X) /\ Len(list) = 1 /\ list # <<>>
  OBVIOUS
<1> HIDE DEF list, X
<1>2. Tail(list) = <<>>
  BY <1>1, NothingFollows
<1> QED
  BY <1>1, <1>2 DEF list

\* resolveTargets lists exactly what serves.
LEMMA ResolvedTells ==
  ASSUME NEW rows \in [Providers -> ProviderRow], NEW targets, FitsKeys(targets)
  PROVE  /\ resolveTargets(rows, targets) \in Seq(TargetRow)
         /\ \A t : Among(t, resolveTargets(rows, targets)) <=> t \in Serving(rows, targets)
<1> DEFINE S == Serving(rows, targets)
           Ahead(a, b) ==
             \/ a.priority > b.priority
             \/ a.priority = b.priority /\ rows[a.provider].priority > rows[b.provider].priority
             \/ /\ a.priority = b.priority /\ rows[a.provider].priority = rows[b.provider].priority
                /\ KeyBefore(a, b)
           ahead == [b \in S |-> {a \in S : Ahead(a, b)}]
           list == Ranked(S, ahead)
<1>1. resolveTargets(rows, targets) = list
  BY DEF resolveTargets
<1>2. IsFiniteSet(S) /\ S \subseteq TargetRow
  BY FS_Subset DEF FitsKeys, Serving
<1>3. /\ \A t \in S : /\ t.priority \in Int /\ rows[t.provider].priority \in Int
                      /\ t.provider \in Int /\ t.upstream \in Int
      /\ \A a, b \in S : a # b => a.provider # b.provider \/ a.upstream # b.upstream
  <2>1. \A t \in TargetRow : t.provider \in Providers /\ t.upstream \in Upstreams /\ t.priority \in Priorities
    BY DEF TargetRow
  <2>2. \A q \in Providers : rows[q].priority \in Priorities
    BY DEF ProviderRow
  <2>3. \A q \in Priorities : q \in Int
    BY TablesAssumption
  <2>4. (\A q \in Providers : q \in Int) /\ \A q \in Upstreams : q \in Int
    BY TablesAssumption
  <2>5. \A a, b \in S : a # b => a.provider # b.provider \/ a.upstream # b.upstream
    BY DEF FitsKeys, SameKey, Serving
  <2> HIDE DEF S
  <2> QED
    BY <1>2, <2>1, <2>2, <2>3, <2>4, <2>5
<1> HIDE DEF S
<1>4. \A a, b \in S : a # b => Ahead(a, b) \/ Ahead(b, a)
  BY <1>3 DEF KeyBefore
<1>5. \A a \in S : ~Ahead(a, a)
  BY <1>3 DEF KeyBefore
<1>6. \A a, b, c \in S : Ahead(a, b) /\ Ahead(b, c) => Ahead(a, c)
  BY <1>3 DEF KeyBefore
<1> HIDE DEF Ahead
<1>7. ahead \in [S -> SUBSET S]
  OBVIOUS
<1>8. \A x \in S : x \notin ahead[x]
  BY <1>5
<1>9. \A x \in S : \A y \in ahead[x] : ahead[y] \subseteq ahead[x]
  BY <1>6
<1>10. \A x, y \in S : x # y => x \in ahead[y] \/ y \in ahead[x]
  BY <1>4
<1> HIDE DEF ahead
<1>11. /\ Cardinality(S) \in Nat /\ list \in Seq(S) /\ Len(list) = Cardinality(S)
       /\ list \in [1 .. Cardinality(S) -> S]
       /\ \A x \in S : \E n \in 1 .. Cardinality(S) : list[n] = x
  BY <1>2, <1>7, <1>8, <1>9, <1>10, RankedTells
<1> HIDE DEF list
<1>12. list \in Seq(TargetRow)
  BY <1>2, <1>11
<1>13. \A t : Among(t, list) <=> t \in S
  BY <1>11 DEF Among
<1> QED
  BY <1>1, <1>12, <1>13 DEF S

\* A filter keeps the entries at the positions it keeps.
LEMMA AmongKept ==
  ASSUME NEW X, NEW list \in Seq(X), NEW kept \in SUBSET DOMAIN list
  PROVE  /\ Subsequence(list, kept) \in Seq(X)
         /\ \A i \in kept : Among(list[i], Subsequence(list, kept))
         /\ \A entry : Among(entry, Subsequence(list, kept)) => Among(entry, list)
<1> DEFINE short == Subsequence(list, kept)
           n == Cardinality(kept)
<1>1. /\ short \in Seq(X) /\ Len(short) = n /\ n \in Nat /\ DOMAIN short = 1 .. n
      /\ \A k \in 1 .. n : Nth(kept, k) \in kept /\ short[k] = list[Nth(kept, k)]
      /\ \A i \in kept : \E k \in 1 .. n : Nth(kept, k) = i
  BY SubsequenceTells
<1> HIDE DEF short, n
<1>2. \A i \in kept : Among(list[i], short)
  BY <1>1 DEF Among
<1>3. \A entry : Among(entry, short) => Among(entry, list)
  BY <1>1 DEF Among
<1> QED
  BY <1>1, <1>2, <1>3 DEF short

\* What serves now, row by row.
LEMMA ServiceTells ==
  \A s : s \in Services <=>
    \E m \in PublicModels : \E t \in Serving(providers, routes[m].targets) :
      On(routes[m]) /\ s = [model |-> m, target |-> t, tells |-> details[t.provider][t.upstream]]
<1> DEFINE on == {m \in PublicModels : On(routes[m])}
           Of(m) == {[model |-> m, target |-> t, tells |-> details[t.provider][t.upstream]] :
                       t \in Serving(providers, routes[m].targets)}
<1>1. Services = UNION {Of(m) : m \in on}
  BY DEF Services
<1>2. \A s : s \in UNION {Of(m) : m \in on} <=> \E m \in on : s \in Of(m)
  <2> HIDE DEF Of
  <2> QED
    OBVIOUS
<1>3. \A m, s : s \in Of(m) <=>
        \E t \in Serving(providers, routes[m].targets) :
          s = [model |-> m, target |-> t, tells |-> details[t.provider][t.upstream]]
  OBVIOUS
<1> HIDE DEF Of
<1> QED
  BY <1>1, <1>2, <1>3

\* A service is of a route that is on, a target that serves, and what is known of it.
LEMMA ServiceHolds ==
  ASSUME TablesHold, NEW s \in Services
  PROVE  /\ s.model \in PublicModels /\ On(routes[s.model])
         /\ s.target \in Serving(providers, routes[s.model].targets)
         /\ s.target \in TargetRow /\ providers[s.target.provider].there
         /\ s.tells = details[s.target.provider][s.target.upstream] /\ s.tells \in Details
<1>1. PICK m \in PublicModels : \E t \in Serving(providers, routes[m].targets) :
        On(routes[m]) /\ s = [model |-> m, target |-> t, tells |-> details[t.provider][t.upstream]]
  BY ServiceTells
<1>2. PICK t \in Serving(providers, routes[m].targets) :
        On(routes[m]) /\ s = [model |-> m, target |-> t, tells |-> details[t.provider][t.upstream]]
  BY <1>1
<1>3. s.model = m /\ s.target = t /\ s.tells = details[t.provider][t.upstream]
  BY <1>2
<1>4. t \in TargetRow /\ t.provider \in Providers /\ t.upstream \in Upstreams
  BY <1>2 DEF TablesHold, FitsKeys, Serving, TargetRow
<1>5. providers[t.provider].there
  BY <1>2 DEF Serving, Enabled
<1>6. details[t.provider][t.upstream] \in Details
  BY <1>4 DEF TablesHold
<1> QED
  BY <1>2, <1>3, <1>4, <1>5, <1>6

----------------------------------------------------------------------------

\* A write leaves the reading's witness with what was so before it and what is now.
LEMMA WitnessWidens ==
  ASSUME Witnessed, witness' = Widened(witness, Watched')
  PROVE  /\ Witnessed'
         /\ witness.on \subseteq witness'.on /\ witness.fed \subseteq witness'.fed
         /\ witness'.steady \subseteq witness.steady
         /\ (witness.up => witness'.up) /\ (witness.down => witness'.down)
<1>1. /\ witness'.on = witness.on \cup {m \in PublicModels : On(routes'[m])}
      /\ witness'.fed = witness.fed \cup {m \in PublicModels : Serving(providers', routes'[m].targets) # {}}
      /\ witness'.steady = witness.steady \cap Services'
      /\ witness'.up = (witness.up \/ Services' # {})
      /\ witness'.down = (witness.down \/ Services' = {})
  BY DEF Widened, Watched
<1>2. Witnessed'
  BY <1>1 DEF Witnessed
<1> QED
  BY <1>1, <1>2

\* What a reading has made of the witness so far survives a write.
LEMMA ReadingStands ==
  ASSUME ListingInv, UNCHANGED reading, witness' = Widened(witness, Watched')
  PROVE  (reading \in Readings /\ Witnessed /\ TaskHolds /\ ListHolds /\ ProbeHolds)'
<1>1. /\ Witnessed'
      /\ witness.on \subseteq witness'.on /\ witness.fed \subseteq witness'.fed
      /\ witness'.steady \subseteq witness.steady
      /\ (witness.up => witness'.up) /\ (witness.down => witness'.down)
  BY WitnessWidens DEF ListingInv
<1>2. TaskHolds'
  BY <1>1 DEF ListingInv, TaskHolds, ModelTask, SteadyHere, Model
<1>3. ListHolds'
  BY <1>1 DEF ListingInv, ListHolds, Outstanding, WellTold
<1>4. ProbeHolds'
  BY <1>1 DEF ListingInv, ProbeHolds, HealthIsTrue, Ends, Outstanding
<1>5. (reading \in Readings)'
  BY DEF ListingInv
<1> QED
  BY <1>1, <1>2, <1>3, <1>4, <1>5

\* What is left of a route's targets is still a route's targets.
LEMMA FewerFit ==
  ASSUME NEW targets, FitsKeys(targets), NEW few \in SUBSET targets
  PROVE  FitsKeys(few)
<1> QED
  BY FS_Subset DEF FitsKeys

\* A write keeps the tables sound and is watched by every reading.
LEMMA WritersKeepTables ==
  ASSUME TablesHold,
         \/ \E p \in Providers : SetProvider(p) \/ RemoveProvider(p) \/ \E u \in Upstreams : Rediscover(p, u)
         \/ \E m \in PublicModels : SetRoute(m)
  PROVE  TablesHold' /\ UNCHANGED reading /\ witness' = Widened(witness, Watched')
<1>1. UNCHANGED reading /\ witness' = Widened(witness, Watched')
  BY DEF SetProvider, RemoveProvider, Rediscover, SetRoute, Writes
<1>2. ASSUME NEW p \in Providers, SetProvider(p) PROVE TablesHold'
  <2>1. providers[p] \in ProviderRow /\ routes' = routes /\ details' = details
        /\ providers' = [providers EXCEPT ![p] = [providers[p] EXCEPT !.enabled = ~providers[p].enabled]]
    BY <1>2 DEF SetProvider, TablesHold
  <2>2. [providers[p] EXCEPT !.enabled = ~providers[p].enabled] \in ProviderRow
    BY <2>1 DEF ProviderRow
  <2> QED
    BY <2>1, <2>2 DEF TablesHold
<1>3. ASSUME NEW p \in Providers, RemoveProvider(p) PROVE TablesHold'
  <2> DEFINE Left(m) == [routes[m] EXCEPT !.targets = WithoutProvider(routes[m].targets, p)]
             bare == [u \in Upstreams |-> "none"]
  <2>1. Deleted \in ProviderRow
    BY TablesAssumption DEF Deleted, ProviderRow
  <2>2. \A m \in PublicModels : Left(m) \in Routes /\ FitsKeys(Left(m).targets)
    <3> SUFFICES ASSUME NEW m \in PublicModels PROVE Left(m) \in Routes /\ FitsKeys(Left(m).targets)
      OBVIOUS
    <3> DEFINE few == WithoutProvider(routes[m].targets, p)
    <3>1. routes[m] \in Routes /\ FitsKeys(routes[m].targets)
      BY DEF TablesHold
    <3>2. few \in SUBSET routes[m].targets
      BY DEF WithoutProvider
    <3>3. FitsKeys(few) /\ few \in SUBSET TargetRow
      BY <3>1, <3>2, FewerFit DEF FitsKeys
    <3> HIDE DEF few
    <3>4. [routes[m] EXCEPT !.targets = few] \in Routes /\ [routes[m] EXCEPT !.targets = few].targets = few
      BY <3>1, <3>3 DEF Routes
    <3> QED
      BY <3>3, <3>4 DEF few
  <2>3. bare \in [Upstreams -> Details]
    BY DEF Details
  <2>4. /\ providers' = [providers EXCEPT ![p] = Deleted] /\ routes' = [m \in PublicModels |-> Left(m)]
        /\ details' = [details EXCEPT ![p] = bare]
    BY <1>3 DEF RemoveProvider
  <2> HIDE DEF Left, bare
  <2>5. providers' \in [Providers -> ProviderRow]
    BY <2>1, <2>4 DEF TablesHold
  <2>6. routes' \in [PublicModels -> Routes] /\ \A m \in PublicModels : FitsKeys(routes'[m].targets)
    BY <2>2, <2>4
  <2>7. details' \in [Providers -> [Upstreams -> Details]]
    BY <2>3, <2>4 DEF TablesHold
  <2> QED
    BY <2>5, <2>6, <2>7 DEF TablesHold
<1>4. ASSUME NEW p \in Providers, NEW u \in Upstreams, Rediscover(p, u) PROVE TablesHold'
  <2>1. PICK r \in Reported : details' = [details EXCEPT ![p] = [details[p] EXCEPT ![u] = r[p][u]]]
    BY <1>4 DEF Rediscover, TablesHold
  <2>2. r[p][u] \in Details /\ details[p] \in [Upstreams -> Details]
    BY ListingAssumption DEF TablesHold
  <2>3. details' \in [Providers -> [Upstreams -> Details]]
    BY <2>1, <2>2 DEF TablesHold
  <2>4. providers' = providers /\ routes' = routes
    BY <1>4 DEF Rediscover
  <2> QED
    BY <2>3, <2>4 DEF TablesHold
<1>5. ASSUME NEW m \in PublicModels, SetRoute(m) PROVE TablesHold'
  <2>1. routes[m] \in Routes /\ FitsKeys(routes[m].targets) /\ providers' = providers /\ details' = details
    BY <1>5 DEF SetRoute, TablesHold
  <2>2. \A row \in Routes : FitsKeys(row.targets) /\ routes' = [routes EXCEPT ![m] = row] => TablesHold'
    BY <2>1 DEF TablesHold
  <2>3. CASE routes' = [routes EXCEPT ![m].enabled = ~routes[m].enabled]
    <3> DEFINE row == [routes[m] EXCEPT !.enabled = ~routes[m].enabled]
    <3>1. row \in Routes /\ row.targets = routes[m].targets
      BY <2>1 DEF Routes
    <3>2. routes' = [routes EXCEPT ![m] = row]
      BY <2>3
    <3> HIDE DEF row
    <3> QED
      BY <2>1, <2>2, <3>1, <3>2
  <2>4. CASE routes' = [routes EXCEPT ![m] = NoRoute]
    <3>1. NoRoute \in Routes /\ FitsKeys(NoRoute.targets)
      BY FS_EmptySet DEF NoRoute, Routes, FitsKeys
    <3> QED
      BY <2>2, <2>4, <3>1
  <2>5. ASSUME NEW list \in Fittings,
               routes' = [routes EXCEPT ![m] = [there |-> TRUE, enabled |-> TRUE, targets |-> list]]
        PROVE  TablesHold'
    <3> DEFINE row == [there |-> TRUE, enabled |-> TRUE, targets |-> list]
    <3>1. row \in Routes /\ FitsKeys(row.targets)
      BY ListingAssumption DEF Routes, FitsKeys
    <3> HIDE DEF row
    <3> QED
      BY <2>2, <2>5, <3>1 DEF row
  <2> QED
    BY <1>5, <2>3, <2>4, <2>5 DEF SetRoute
<1> QED
  BY <1>1, <1>2, <1>3, <1>4, <1>5

----------------------------------------------------------------------------

\* A statement reads the tables and leaves them, and the witness, as they are.
Looks == UNCHANGED tables /\ UNCHANGED witness

\* Reading changes no table.
LEMMA LooksKeep ==
  ASSUME TablesHold, Witnessed, Looks
  PROVE  TablesHold' /\ Witnessed'
<1>1. Services' = Services
  BY DEF Looks, tables, Services
<1> QED
  BY <1>1 DEF Looks, tables, TablesHold, Witnessed

\* Nothing that serves all along is missed by a task that finds its route off, or no target.
LEMMA ServesNow ==
  ASSUME TablesHold, Witnessed, NEW s \in witness.steady
  PROVE  /\ s.model \in PublicModels /\ On(routes[s.model])
         /\ s.target \in Serving(providers, routes[s.model].targets)
         /\ s.target \in TargetRow /\ providers[s.target.provider].there
         /\ s.tells = details[s.target.provider][s.target.upstream] /\ s.tells \in Details
<1> QED
  BY ServiceHolds DEF Witnessed

\* A step inside a task keeps the lists as they are.
LEMMA TaskGoesOn ==
  ASSUME ListingInv, Looks, reading' \in Readings, ModelTask,
         reading'.kind = reading.kind, reading'.tasks = reading.tasks,
         reading'.listed = reading.listed, reading'.told = reading.told,
         TaskHolds'
  PROVE  ListingInv'
<1>1. witness' = witness
  BY DEF Looks
<1>2. reading.kind # "health"
  BY DEF ListingInv, ProbeHolds, ModelTask, ProbeTask
<1>3. ListHolds'
  BY <1>1 DEF ListingInv, ListHolds, Outstanding, WellTold
<1>4. ProbeHolds'
  BY <1>2 DEF ListingInv, ProbeHolds, Outstanding
<1> QED
  BY <1>3, <1>4, LooksKeep DEF ListingInv

\* A task that ends has listed its model if it serves, and described it well if it was to.
LEMMA TaskEnds ==
  ASSUME ListingInv, Looks, reading' \in Readings, reading.tasks # <<>>,
         Head(reading.tasks).task # "health",
         reading'.kind = reading.kind, reading'.at = "row",
         \A task : Among(task, Tail(reading.tasks)) => Among(task, reading'.tasks),
         ~Among(ProbeTask, reading'.tasks),
         reading.listed \subseteq reading'.listed,
         reading'.listed \subseteq reading.listed \cup (witness.on \cap witness.fed),
         \A s \in witness.steady : Head(reading.tasks) \in {Catalogue, List(s.model)}
           => s.model \in reading'.listed \/ Among(List(s.model), reading'.tasks),
         reading.kind = "models" =>
           \A m \in reading'.listed \ reading.listed : Among(Describe(m), reading'.tasks),
         \A m \in PublicModels :
           IF Head(reading.tasks) = Describe(m)
           THEN \A s \in witness.steady : s.model = m => Worth(reading'.told[m]) >= Worth(s.tells)
           ELSE reading'.told[m] = reading.told[m]
  PROVE  ListingInv'
<1>1. witness' = witness
  BY DEF Looks
<1>2. TaskHolds'
  BY DEF TaskHolds
<1>3. reading \in Readings
  BY DEF ListingInv
<1>4. \A task : Among(task, reading.tasks) <=> task = Head(reading.tasks) \/ Among(task, Tail(reading.tasks))
  <2>1. reading.tasks \in Seq(Tasks)
    BY <1>3 DEF Readings
  <2> QED
    BY <2>1, AmongTail
<1>5. ProbeHolds'
  <2>1. reading.kind # "health"
    BY DEF ListingInv, ProbeHolds, ProbeTask
  <2> QED
    BY <2>1 DEF ProbeHolds, Outstanding
<1>6. ListHolds'
  <2> SUFFICES ASSUME reading.kind \in {"models", "card"} PROVE ListHolds'
    BY DEF ListHolds
  <2>1. reading'.listed \subseteq witness.on \cap witness.fed
    BY DEF ListingInv, ListHolds
  <2>2. \A s \in witness.steady :
          s.model \in reading'.listed \/ Among(Catalogue, reading'.tasks)
            \/ Among(List(s.model), reading'.tasks)
    BY <1>4 DEF ListingInv, ListHolds, Outstanding
  <2>3. ASSUME reading.kind = "models", NEW m \in reading'.listed
        PROVE  Among(Describe(m), reading'.tasks)
                 \/ \A s \in witness.steady : s.model = m => Worth(reading'.told[m]) >= Worth(s.tells)
    <3>1. m \in PublicModels
      BY DEF Readings
    <3>2. CASE m \in reading.listed
      BY <1>4, <2>3, <3>1, <3>2 DEF ListingInv, ListHolds, Outstanding, WellTold
    <3>3. CASE m \notin reading.listed
      BY <2>3, <3>3
    <3> QED
      BY <3>2, <3>3
  <2> QED
    BY <1>1, <2>1, <2>2, <2>3 DEF ListHolds, Outstanding, WellTold
<1> QED
  BY <1>2, <1>5, <1>6, LooksKeep DEF ListingInv

\* The reading with its first task behind it.
LEMMA OverTells ==
  ASSUME reading \in Readings, reading.tasks # <<>>
  PROVE  /\ Over \in Readings /\ Over.kind = reading.kind /\ Over.tasks = Tail(reading.tasks)
         /\ Over.at = "row" /\ Over.listed = reading.listed /\ Over.told = reading.told
         /\ Over.status = reading.status /\ Over.rows = <<>> /\ Over.matches = <<>>
<1>1. Over = [reading EXCEPT !.tasks = Tail(reading.tasks), !.at = "row", !.rows = <<>>, !.matches = <<>>]
  BY DEF Over, Readings
<1>2. Tail(reading.tasks) \in Seq(Tasks)
  BY AmongTail DEF Readings
<1>3. <<>> \in Seq(TargetRow) /\ <<>> \in Seq(Details)
  OBVIOUS
<1> DEFINE tail == Tail(reading.tasks)
           none == <<>>
<1> HIDE DEF tail, none
<1>4. Over = [reading EXCEPT !.tasks = tail, !.at = "row", !.rows = none, !.matches = none]
  BY <1>1 DEF tail, none
<1>5. tail \in Seq(Tasks) /\ none \in Seq(TargetRow) /\ none \in Seq(Details)
  BY <1>2, <1>3 DEF tail, none
<1>6. /\ Over \in Readings /\ Over.kind = reading.kind /\ Over.tasks = tail
      /\ Over.at = "row" /\ Over.listed = reading.listed /\ Over.told = reading.told
      /\ Over.status = reading.status /\ Over.rows = none /\ Over.matches = none
  BY <1>4, <1>5 DEF Readings
<1> QED
  BY <1>6 DEF tail, none

\* The first task's model is a public model.
LEMMA ModelKnown ==
  ASSUME reading \in Readings, ModelTask
  PROVE  /\ Model \in PublicModels /\ reading.tasks # <<>>
         /\ Head(reading.tasks) \in {List(Model), Describe(Model)}
         /\ (Head(reading.tasks).task = "list") = (Head(reading.tasks) = List(Model))
         /\ (Head(reading.tasks).task = "tell") = (Head(reading.tasks) = Describe(Model))
         /\ \A m : Head(reading.tasks) = List(m) \/ Head(reading.tasks) = Describe(m) => m = Model
         /\ Head(reading.tasks) # Catalogue /\ Head(reading.tasks) # ProbeTask
<1> DEFINE task == Head(reading.tasks)
<1>1. task \in Tasks /\ reading.tasks # <<>> /\ task.task \in {"list", "tell"} /\ Model = task.model
  BY AmongTail DEF Readings, ModelTask, Model
<1> HIDE DEF task
<1>2. task \in [task : {"list", "tell"}, model : PublicModels]
  BY <1>1 DEF Tasks
<1>3. Model \in PublicModels /\ task = [task |-> task.task, model |-> Model]
  BY <1>1, <1>2
<1>4. \A m : task = List(m) => m = Model
  BY <1>1 DEF List
<1>5. \A m : task = Describe(m) => m = Model
  BY <1>1 DEF Describe
<1>6. (task.task = "list") = (task = List(Model)) /\ (task.task = "tell") = (task = Describe(Model))
  BY <1>1, <1>3 DEF List, Describe
<1>7. task # Catalogue /\ task # ProbeTask
  BY <1>1 DEF Catalogue, ProbeTask
<1> QED
  BY <1>1, <1>3, <1>4, <1>5, <1>6, <1>7 DEF task

\* The richest answer is worth as much as any of them.
LEMMA RichestTells ==
  ASSUME NEW matches \in Seq(Details)
  PROVE  /\ Richest(matches) \in Details
         /\ \A tells \in Details : tells = "none" \/ Among(tells, matches)
              => Worth(Richest(matches)) >= Worth(tells)
<1>1. Richest(matches) \in Details
  BY DEF Richest, Details
<1>2. \A tells : Among(tells, matches) <=> tells \in ToSet(matches)
  BY DEF Among, ToSet
<1>3. \A tells : Among(tells, matches) => matches # <<>>
  BY DEF Among
<1>4. /\ Worth("none") = 0 /\ Worth("bare") = 1 /\ Worth("limits") = 2
      /\ Worth("capabilities") = 3 /\ Worth("both") = 4
  BY DEF Worth
<1>5. ASSUME NEW tells \in Details, tells = "none" \/ tells \in ToSet(matches)
      PROVE  Worth(Richest(matches)) >= Worth(tells)
  <2>1. tells \in ToSet(matches) => matches # <<>>
    BY <1>2, <1>3
  <2> DEFINE S == ToSet(matches)
             r == Richest(matches)
  <2>4. r = IF "both" \in S THEN "both" ELSE IF "capabilities" \in S THEN "capabilities"
            ELSE IF "limits" \in S THEN "limits" ELSE IF matches # <<>> THEN "bare" ELSE "none"
    BY DEF Richest
  <2> HIDE DEF S, r
  <2>2. \/ r = "both"
        \/ tells # "both" /\ r = "capabilities"
        \/ tells \notin {"both", "capabilities"} /\ r = "limits"
        \/ tells \notin {"both", "capabilities", "limits"} /\ r = "bare"
        \/ tells = "none" /\ r = "none"
    BY <1>5, <2>1, <2>4 DEF S
  <2>3. tells \in {"none", "bare", "limits", "capabilities", "both"}
    BY DEF Details
  <2>5. Worth(r) >= Worth(tells)
    BY <1>4, <2>2, <2>3
  <2> QED
    BY <2>5 DEF r
<1> QED
  BY <1>1, <1>2, <1>5

\* A model with no target that serves is passed over, and none served it all along.
LEMMA NotFound ==
  ASSUME ListingInv, Looks, ModelTask, NEW found, found = <<>>, Resolved(found), SteadyHere = {}
  PROVE  ListingInv'
<1>1. /\ reading \in Readings /\ Model \in PublicModels /\ reading.tasks # <<>>
      /\ (Head(reading.tasks).task = "list") = (Head(reading.tasks) = List(Model))
      /\ (Head(reading.tasks).task = "tell") = (Head(reading.tasks) = Describe(Model))
      /\ \A m : Head(reading.tasks) = List(m) \/ Head(reading.tasks) = Describe(m) => m = Model
      /\ Head(reading.tasks) # Catalogue
  BY ModelKnown DEF ListingInv
<1>2. /\ Over \in Readings /\ Over.kind = reading.kind /\ Over.tasks = Tail(reading.tasks)
      /\ Over.at = "row" /\ Over.listed = reading.listed /\ Over.told = reading.told
  BY <1>1, OverTells
<1>3. ~Among(ProbeTask, Tail(reading.tasks))
  <2>1. ~Among(ProbeTask, reading.tasks)
    BY <1>1, ModelKnown DEF ListingInv, ProbeHolds, Outstanding, ModelTask, ProbeTask
  <2>2. reading.tasks \in Seq(Tasks)
    BY <1>1 DEF Readings
  <2> QED
    BY <1>1, <2>1, <2>2, AmongTail
<1>4. \A s \in witness.steady : s.model # Model
  BY DEF SteadyHere
<1>5. Head(reading.tasks).task \in {"list", "tell"}
  BY DEF ModelTask
<1> DEFINE o == Over
<1> HIDE DEF o
<1>6. CASE Head(reading.tasks).task = "list"
  <2>1. reading' = o
    BY <1>6 DEF Resolved, o
  <2>2. \A m \in PublicModels : Head(reading.tasks) # Describe(m)
    BY <1>6 DEF Describe
  <2> QED
    BY <1>1, <1>2, <1>3, <1>4, <1>5, <2>1, <2>2, TaskEnds DEF o
<1>7. CASE Head(reading.tasks).task = "tell"
  <2> DEFINE told == [reading.told EXCEPT ![Model] = "none"]
  <2>1. reading' = [o EXCEPT !.told = told]
    <3>1. reading' = [Over EXCEPT !.told = [Over.told EXCEPT ![Model] = "none"]]
      BY <1>2, <1>7 DEF Resolved, Readings
    <3> QED
      BY <3>1, <1>2 DEF o
  <2>2. /\ told \in [PublicModels -> Details \cup {"unread"}]
        /\ \A m \in PublicModels : m # Model => told[m] = reading.told[m]
    BY <1>1 DEF Readings, Details
  <2> HIDE DEF told
  <2>3. /\ reading' \in Readings /\ reading'.kind = reading.kind /\ reading'.tasks = Tail(reading.tasks)
        /\ reading'.at = "row" /\ reading'.listed = reading.listed /\ reading'.told = told
    BY <1>2, <2>1, <2>2 DEF Readings, o
  <2>4. \A m \in PublicModels :
          IF Head(reading.tasks) = Describe(m)
          THEN \A s \in witness.steady : s.model = m => Worth(reading'.told[m]) >= Worth(s.tells)
          ELSE reading'.told[m] = reading.told[m]
    BY <1>1, <1>4, <1>7, <2>2, <2>3
  <2>5. \A s \in witness.steady : Head(reading.tasks) \notin {Catalogue, List(s.model)}
    BY <1>1, <1>4
  <2> QED
    BY <1>1, <1>3, <1>5, <2>3, <2>4, <2>5, TaskEnds
<1> QED
  BY <1>5, <1>6, <1>7

\* A model with a target that serves is listed, or goes on to be described.
LEMMA FoundServes ==
  ASSUME ListingInv, Looks, ModelTask, NEW found \in Seq(TargetRow), found # <<>>, Resolved(found),
         Model \in witness.on, Model \in witness.fed,
         \A s \in SteadyHere : Among(s.target, found)
  PROVE  ListingInv'
<1>1. /\ reading \in Readings /\ Model \in PublicModels /\ reading.tasks # <<>>
      /\ (Head(reading.tasks).task = "list") = (Head(reading.tasks) = List(Model))
      /\ (Head(reading.tasks).task = "tell") = (Head(reading.tasks) = Describe(Model))
      /\ \A m : Head(reading.tasks) = List(m) \/ Head(reading.tasks) = Describe(m) => m = Model
      /\ Head(reading.tasks) # Catalogue
  BY ModelKnown DEF ListingInv
<1>2. /\ Over \in Readings /\ Over.kind = reading.kind /\ Over.tasks = Tail(reading.tasks)
      /\ Over.at = "row" /\ Over.listed = reading.listed /\ Over.told = reading.told
  BY <1>1, OverTells
<1>3. Head(reading.tasks).task \in {"list", "tell"}
  BY DEF ModelTask
<1>4. CASE Head(reading.tasks).task = "list"
  <2> DEFINE tail == Tail(reading.tasks)
             tasks == IF reading.kind = "models" THEN Append(tail, Describe(Model)) ELSE tail
             listed == reading.listed \cup {Model}
             o == Over
  <2>1. Describe(Model) \in Tasks /\ tail \in Seq(Tasks)
    BY <1>1, <1>2 DEF Describe, Tasks, Readings
  <2>2. /\ tasks \in Seq(Tasks)
        /\ \A task : Among(task, tail) => Among(task, tasks)
        /\ \A task : Among(task, tasks) => Among(task, tail) \/ task = Describe(Model)
        /\ reading.kind = "models" => Among(Describe(Model), tasks)
    <3>1. Append(tail, Describe(Model)) \in Seq(Tasks)
      BY <2>1
    <3> QED
      BY <2>1, <3>1, AmongAppended
  <2>3. listed \in SUBSET PublicModels
    BY <1>1 DEF Readings
  <2>4. reading' = [o EXCEPT !.listed = listed, !.tasks = tasks]
    <3>1. reading' = [Over EXCEPT !.listed = Over.listed \cup {Model},
                                  !.tasks = IF reading.kind = "models" THEN Append(Over.tasks, Describe(Model))
                                            ELSE Over.tasks]
      BY <1>2, <1>4 DEF Resolved, Readings
    <3> QED
      BY <3>1, <1>2
  <2> HIDE DEF tasks, listed, o, tail
  <2>5. /\ reading' \in Readings /\ reading'.kind = reading.kind /\ reading'.tasks = tasks
        /\ reading'.at = "row" /\ reading'.listed = listed /\ reading'.told = reading.told
    <3>1. o \in Readings /\ o.kind = reading.kind /\ o.at = "row" /\ o.told = reading.told
      BY <1>2 DEF o
    <3> QED
      BY <2>2, <2>3, <2>4, <3>1 DEF Readings
  <2>6. ~Among(ProbeTask, tasks)
    <3>1. ~Among(ProbeTask, reading.tasks)
      BY <1>1, ModelKnown DEF ListingInv, ProbeHolds, Outstanding, ModelTask, ProbeTask
    <3>2. reading.tasks \in Seq(Tasks)
      BY <1>1 DEF Readings
    <3>3. ~Among(ProbeTask, tail)
      BY <1>1, <3>1, <3>2, AmongTail DEF tail
    <3> QED
      BY <2>2, <3>3 DEF Describe, ProbeTask
  <2>7. \A s \in witness.steady : Head(reading.tasks) \in {Catalogue, List(s.model)} => s.model \in listed
    BY <1>1 DEF listed
  <2>8. \A m \in PublicModels : Head(reading.tasks) # Describe(m)
    BY <1>4 DEF Describe
  <2>9. \A task : Among(task, Tail(reading.tasks)) => Among(task, reading'.tasks)
    BY <2>2, <2>5 DEF tail
  <2>10. /\ reading.listed \subseteq listed
         /\ listed \subseteq reading.listed \cup (witness.on \cap witness.fed)
         /\ reading.kind = "models" => \A m \in listed \ reading.listed : Among(Describe(m), tasks)
    BY <2>2 DEF listed
  <2> QED
    BY <1>1, <1>3, <2>5, <2>6, <2>7, <2>8, <2>9, <2>10, TaskEnds
<1>5. CASE Head(reading.tasks).task = "tell"
  <2>1. reading' = [reading EXCEPT !.at = "details", !.rows = found]
    BY <1>5 DEF Resolved
  <2>2. /\ reading' \in Readings /\ reading'.kind = reading.kind /\ reading'.tasks = reading.tasks
        /\ reading'.listed = reading.listed /\ reading'.told = reading.told
        /\ reading'.at = "details" /\ reading'.rows = found
    BY <1>1, <2>1 DEF Readings
  <2>3. TaskHolds'
    <3>1. Model' = Model /\ SteadyHere' = SteadyHere
      BY <2>2 DEF Looks, Model, SteadyHere
    <3> QED
      BY <2>2, <3>1 DEF TaskHolds
  <2> QED
    BY <2>2, <2>3, TaskGoesOn
<1> QED
  BY <1>3, <1>4, <1>5

----------------------------------------------------------------------------

\* A reading that begins has told nothing yet.
LEMMA ListingAsks == ASSUME ListingInv, Ask PROVE ListingInv'
<1>1. /\ UNCHANGED tables /\ reading = Unread /\ witness' = Watched
      /\ \/ reading' = Reading("models", << Catalogue >>)
         \/ \E m \in PublicModels : reading' = Reading("card", << Describe(m), Catalogue >>)
         \/ reading' = Reading("health", << ProbeTask >>)
  BY DEF Ask, ProbeTask
<1>2. TablesHold'
  BY <1>1 DEF ListingInv, TablesHold, tables
<1>3. Witnessed'
  <2>1. Services' = Services
    BY <1>1 DEF Services, tables
  <2> QED
    BY <1>1, <2>1 DEF Witnessed, Watched, tables
<1>4. ASSUME NEW kind \in {"models", "card", "health"}, NEW tasks \in Seq(Tasks),
             reading' = Reading(kind, tasks)
      PROVE  /\ reading' \in Readings /\ reading'.at = "row" /\ reading'.listed = {}
             /\ reading'.kind = kind /\ reading'.tasks = tasks
  <2>1. <<>> \in Seq(TargetRow) /\ <<>> \in Seq(Details)
    OBVIOUS
  <2> DEFINE told == [m \in PublicModels |-> "unread"]
  <2>2. told \in [PublicModels -> Details \cup {"unread"}]
    OBVIOUS
  <2> HIDE DEF told
  <2>3. Reading(kind, tasks) = [kind |-> kind, tasks |-> tasks, at |-> "row", rows |-> <<>>, matches |-> <<>>,
                                listed |-> {}, told |-> told, status |-> "none"]
    BY DEF Reading, told
  <2> QED
    BY <1>4, <2>1, <2>2, <2>3 DEF Readings
<1>5. CASE reading' = Reading("models", << Catalogue >>)
  <2> DEFINE tasks == << Catalogue >>
  <2>1. tasks \in Seq(Tasks) /\ DOMAIN tasks = {1} /\ tasks[1] = Catalogue
    BY DEF Tasks, Catalogue
  <2> HIDE DEF tasks
  <2>2. /\ reading' \in Readings /\ reading'.at = "row" /\ reading'.listed = {}
        /\ reading'.kind = "models" /\ reading'.tasks = tasks
    BY <1>4, <1>5, <2>1 DEF tasks
  <2>3. Among(Catalogue, tasks) /\ ~Among(ProbeTask, tasks)
    BY <2>1 DEF Among, Catalogue, ProbeTask
  <2>4. TaskHolds' /\ ListHolds' /\ ProbeHolds'
    BY <2>2, <2>3 DEF TaskHolds, ListHolds, ProbeHolds, Outstanding
  <2> QED
    BY <1>2, <1>3, <2>2, <2>4 DEF ListingInv
<1>6. ASSUME NEW m \in PublicModels, reading' = Reading("card", << Describe(m), Catalogue >>)
      PROVE  ListingInv'
  <2> DEFINE tasks == << Describe(m), Catalogue >>
  <2>1. tasks \in Seq(Tasks) /\ DOMAIN tasks = {1, 2} /\ tasks[1] = Describe(m) /\ tasks[2] = Catalogue
    BY DEF Tasks, Catalogue, Describe
  <2> HIDE DEF tasks
  <2>2. /\ reading' \in Readings /\ reading'.at = "row" /\ reading'.listed = {}
        /\ reading'.kind = "card" /\ reading'.tasks = tasks
    BY <1>4, <1>6, <2>1 DEF tasks
  <2>3. Among(Catalogue, tasks) /\ ~Among(ProbeTask, tasks)
    BY <2>1 DEF Among, Catalogue, ProbeTask, Describe
  <2>4. TaskHolds' /\ ListHolds' /\ ProbeHolds'
    BY <2>2, <2>3 DEF TaskHolds, ListHolds, ProbeHolds, Outstanding
  <2> QED
    BY <1>2, <1>3, <2>2, <2>4 DEF ListingInv
<1>7. CASE reading' = Reading("health", << ProbeTask >>)
  <2> DEFINE tasks == << ProbeTask >>
  <2>1. tasks \in Seq(Tasks)
    BY DEF Tasks, ProbeTask
  <2> HIDE DEF tasks
  <2>2. /\ reading' \in Readings /\ reading'.at = "row" /\ reading'.kind = "health" /\ reading'.tasks = tasks
    BY <1>4, <1>7, <2>1 DEF tasks
  <2>3. TaskHolds' /\ ListHolds'
    BY <2>2 DEF TaskHolds, ListHolds
  <2>4. ProbeHolds'
    BY <2>2 DEF ProbeHolds, tasks
  <2> QED
    BY <1>2, <1>3, <2>2, <2>3, <2>4 DEF ListingInv
<1> QED
  BY <1>1, <1>5, <1>6, <1>7

\* The routes read first are those that were on.
LEMMA ListingReadsRoutes == ASSUME ListingInv, ReadRoutes PROVE ListingInv'
<1> DEFINE rows == {m \in PublicModels : On(routes[m])}
           ahead == [m \in rows |-> {k \in rows : k < m}]
           on == Ranked(rows, ahead)
           lists == [i \in DOMAIN on |-> List(on[i])]
           tail == Tail(reading.tasks)
           tasks == lists \o tail
           o == Over
<1>1. /\ Looks /\ reading.tasks # <<>> /\ Head(reading.tasks).task = "catalogue" /\ reading \in Readings
      /\ reading.tasks \in Seq(Tasks)
  BY DEF ReadRoutes, At, Looks, ListingInv, Readings
<1>2. /\ Over \in Readings /\ Over.kind = reading.kind /\ Over.tasks = tail
      /\ Over.at = "row" /\ Over.listed = reading.listed /\ Over.told = reading.told
  BY <1>1, OverTells
<1>3. on \in Seq(rows) /\ \A m \in rows : Among(m, on)
  <2>1. IsFiniteSet(rows) /\ \A m \in rows : m \in Nat
    BY ListingAssumption, FS_Subset
  <2> HIDE DEF rows
  <2>2. /\ ahead \in [rows -> SUBSET rows] /\ \A x \in rows : x \notin ahead[x]
        /\ \A x \in rows : \A y \in ahead[x] : ahead[y] \subseteq ahead[x]
        /\ \A x, y \in rows : x # y => x \in ahead[y] \/ y \in ahead[x]
    BY <2>1
  <2> HIDE DEF ahead
  <2>3. /\ Cardinality(rows) \in Nat /\ on \in Seq(rows) /\ Len(on) = Cardinality(rows)
        /\ \A x \in rows : \E n \in 1 .. Cardinality(rows) : on[n] = x
    BY <2>1, <2>2, RankedTells
  <2> HIDE DEF on
  <2>4. DOMAIN on = 1 .. Cardinality(rows)
    BY <2>3
  <2> QED
    BY <2>3, <2>4 DEF Among
<1> HIDE DEF ahead, on
<1>4. /\ lists \in Seq(Tasks) /\ \A m \in rows : Among(List(m), lists)
      /\ ~Among(ProbeTask, lists)
  <2>1. Len(on) \in Nat /\ DOMAIN on = 1 .. Len(on) /\ \A i \in 1 .. Len(on) : on[i] \in PublicModels
    BY <1>3
  <2>2. \A m \in PublicModels : List(m) \in Tasks /\ List(m) # ProbeTask
    BY DEF List, Tasks, ProbeTask
  <2>3. lists \in [1 .. Len(on) -> Tasks]
    BY <2>1, <2>2
  <2>4. lists \in Seq(Tasks) /\ DOMAIN lists = DOMAIN on
    BY <2>1, <2>3
  <2>5. \A i \in DOMAIN on : lists[i] = List(on[i])
    OBVIOUS
  <2> HIDE DEF lists, rows
  <2>6. \A m \in rows : Among(List(m), lists)
    BY <1>3, <2>4, <2>5 DEF Among
  <2>7. ~Among(ProbeTask, lists)
    BY <2>1, <2>2, <2>4, <2>5 DEF Among
  <2> QED
    BY <2>4, <2>6, <2>7
<1>5. reading' = [o EXCEPT !.tasks = tasks]
  <2>1. reading' = [Over EXCEPT !.tasks = lists \o Over.tasks]
    BY <1>2 DEF ReadRoutes, Readings, on, ahead
  <2> QED
    BY <2>1, <1>2
<1> HIDE DEF lists, o
<1>6. /\ tasks \in Seq(Tasks)
      /\ \A task : Among(task, tasks) <=> Among(task, lists) \/ Among(task, tail)
  <2>1. tail \in Seq(Tasks)
    BY <1>1, AmongTail
  <2> HIDE DEF tail
  <2> QED
    BY <1>4, <2>1, AmongJoined
<1> HIDE DEF tasks
<1>7. /\ reading' \in Readings /\ reading'.kind = reading.kind /\ reading'.tasks = tasks
      /\ reading'.at = "row" /\ reading'.listed = reading.listed /\ reading'.told = reading.told
  <2>1. /\ o \in Readings /\ o.kind = reading.kind /\ o.at = "row" /\ o.listed = reading.listed
        /\ o.told = reading.told
    BY <1>2 DEF o
  <2> QED
    BY <1>5, <1>6, <2>1 DEF Readings
<1>8. ~Among(ProbeTask, tasks)
  <2>1. ~Among(ProbeTask, reading.tasks)
    BY <1>1 DEF ListingInv, ProbeHolds, Outstanding, ProbeTask
  <2>2. ~Among(ProbeTask, tail)
    BY <1>1, <2>1, AmongTail
  <2> QED
    BY <1>4, <1>6, <2>2
<1>9. \A s \in witness.steady : Among(List(s.model), tasks)
  <2>1. \A s \in witness.steady : s.model \in rows
    BY ServesNow DEF ListingInv
  <2> QED
    BY <1>4, <1>6, <2>1
<1>10. \A m \in PublicModels : Head(reading.tasks) # Describe(m)
  BY <1>1 DEF Describe
<1>11. \A task : Among(task, Tail(reading.tasks)) => Among(task, reading'.tasks)
  BY <1>6, <1>7
<1> HIDE DEF tail, rows
<1> QED
  BY <1>1, <1>7, <1>8, <1>9, <1>10, <1>11, TaskEnds

\* The row read for a model is the one it had then.
LEMMA ListingReadsRow == ASSUME ListingInv, ReadRow PROVE ListingInv'
<1>1. /\ Looks /\ ModelTask /\ reading \in Readings /\ reading.at = "row"
      /\ IF On(routes[Model]) THEN reading' = [reading EXCEPT !.at = "targets"] ELSE Resolved(<<>>)
  BY DEF ReadRow, At, Looks, ListingInv, ModelTask
<1>2. CASE ~On(routes[Model])
  <2>1. SteadyHere = {}
    BY <1>2, ServesNow DEF ListingInv, SteadyHere
  <2> QED
    BY <1>1, <1>2, <2>1, NotFound
<1>3. CASE On(routes[Model])
  <2>1. Model \in witness.on
    BY <1>1, <1>3, ModelKnown DEF ListingInv, Witnessed
  <2>2. /\ reading' \in Readings /\ reading'.kind = reading.kind /\ reading'.tasks = reading.tasks
        /\ reading'.listed = reading.listed /\ reading'.told = reading.told /\ reading'.at = "targets"
    BY <1>1, <1>3 DEF Readings
  <2>3. TaskHolds'
    BY <1>1, <2>1, <2>2 DEF Looks, TaskHolds, Model
  <2> QED
    BY <1>1, <2>2, <2>3, TaskGoesOn
<1> QED
  BY <1>2, <1>3

\* The targets read for a model are those it had then.
LEMMA ListingReadsTargets == ASSUME ListingInv, ReadTargets PROVE ListingInv'
<1> DEFINE rows == resolveTargets(providers, routes[Model].targets)
<1>1. /\ Looks /\ ModelTask /\ reading \in Readings /\ reading.at = "targets"
      /\ reading' = [reading EXCEPT !.at = "providers", !.rows = rows]
  BY DEF ReadTargets, At, Looks, ListingInv, ModelTask
<1>2. Model \in PublicModels /\ FitsKeys(routes[Model].targets) /\ providers \in [Providers -> ProviderRow]
  BY <1>1, ModelKnown DEF ListingInv, TablesHold
<1>3. /\ rows \in Seq(TargetRow)
      /\ \A t : Among(t, rows) <=> t \in Serving(providers, routes[Model].targets)
  BY <1>2, ResolvedTells
<1> HIDE DEF rows
<1>4. rows # <<>> => Model \in witness.fed
  <2> SUFFICES ASSUME rows # <<>> PROVE Model \in witness.fed
    OBVIOUS
  <2>1. 1 \in DOMAIN rows
    BY <1>3
  <2>2. Among(rows[1], rows)
    BY <2>1 DEF Among
  <2>3. Serving(providers, routes[Model].targets) # {}
    BY <1>3, <2>2
  <2> QED
    BY <1>2, <2>3 DEF ListingInv, Witnessed
<1>5. \A s \in SteadyHere : Among(s.target, rows)
  BY <1>3, ServesNow DEF ListingInv, SteadyHere
<1>6. /\ reading' \in Readings /\ reading'.kind = reading.kind /\ reading'.tasks = reading.tasks
      /\ reading'.listed = reading.listed /\ reading'.told = reading.told
      /\ reading'.at = "providers" /\ reading'.rows = rows
  BY <1>1, <1>3 DEF Readings
<1>7. TaskHolds'
  <2>1. Model' = Model /\ SteadyHere' = SteadyHere /\ witness' = witness
    BY <1>1, <1>6 DEF Looks, Model, SteadyHere
  <2>2. Model \in witness.on
    BY <1>1 DEF ListingInv, TaskHolds
  <2> QED
    BY <1>4, <1>5, <1>6, <2>1, <2>2 DEF TaskHolds
<1> QED
  BY <1>1, <1>6, <1>7, TaskGoesOn

\* A target is found where the provider its row names is still there.
LEMMA ListingMatches == ASSUME ListingInv, MatchProviders PROVE ListingInv'
<1> DEFINE there == {i \in DOMAIN reading.rows : providers[reading.rows[i].provider].there}
           found == Subsequence(reading.rows, there)
<1>1. /\ Looks /\ ModelTask /\ reading \in Readings /\ reading.at = "providers" /\ Resolved(found)
      /\ reading.rows \in Seq(TargetRow)
  BY DEF MatchProviders, At, Looks, ListingInv, ModelTask, Readings
<1>2. /\ found \in Seq(TargetRow)
      /\ \A i \in there : Among(reading.rows[i], found)
      /\ \A t : Among(t, found) => Among(t, reading.rows)
  <2>1. there \in SUBSET DOMAIN reading.rows
    OBVIOUS
  <2> HIDE DEF there
  <2> QED
    BY <1>1, <2>1, AmongKept
<1>3. \A s \in SteadyHere : Among(s.target, found)
  <2> SUFFICES ASSUME NEW s \in SteadyHere PROVE Among(s.target, found)
    OBVIOUS
  <2>1. s \in witness.steady /\ Among(s.target, reading.rows)
    BY <1>1 DEF ListingInv, TaskHolds, SteadyHere
  <2>2. providers[s.target.provider].there
    BY <2>1, ServesNow DEF ListingInv
  <2>3. PICK i \in DOMAIN reading.rows : reading.rows[i] = s.target
    BY <2>1 DEF Among
  <2> QED
    BY <1>2, <2>2, <2>3
<1>4. Among(found[1], found) \/ found = <<>>
  <2> HIDE DEF found
  <2>1. found # <<>> => 1 \in DOMAIN found
    BY <1>2
  <2> QED
    BY <2>1 DEF Among
<1> HIDE DEF found, there
<1>5. CASE found = <<>>
  <2>1. SteadyHere = {}
    BY <1>3, <1>5 DEF Among
  <2> QED
    BY <1>1, <1>5, <2>1, NotFound
<1>6. CASE found # <<>>
  <2>1. Among(found[1], reading.rows)
    BY <1>2, <1>4, <1>6
  <2>2. reading.rows # <<>>
    BY <2>1 DEF Among
  <2>3. Model \in witness.on /\ Model \in witness.fed
    BY <1>1, <2>2 DEF ListingInv, TaskHolds
  <2> QED
    BY <1>1, <1>2, <1>3, <1>6, <2>3, FoundServes
<1> QED
  BY <1>5, <1>6

\* What is told of a target is what was known of it then.
LEMMA ListingReadsDetails == ASSUME ListingInv, ReadDetails PROVE ListingInv'
<1> DEFINE rows == reading.rows
           t == Head(rows)
           tells == details[t.provider][t.upstream]
           matches == IF tells = "none" THEN reading.matches ELSE Append(reading.matches, tells)
<1>1. /\ Looks /\ ModelTask /\ reading \in Readings /\ reading.at = "details"
      /\ Head(reading.tasks).task = "tell" /\ rows \in Seq(TargetRow) /\ reading.matches \in Seq(Details)
      /\ reading' = IF Len(rows) = 1 THEN [Over EXCEPT !.told[Model] = Richest(matches)]
                    ELSE [reading EXCEPT !.rows = Tail(rows), !.matches = matches]
  BY DEF ReadDetails, At, Looks, ListingInv, ModelTask, Readings
<1>2. /\ rows # <<>>
      /\ \A s \in SteadyHere :
           Among(s.target, rows) \/ s.tells = "none" \/ Among(s.tells, reading.matches)
  BY <1>1 DEF ListingInv, TaskHolds
<1>3. /\ t \in TargetRow /\ Tail(rows) \in Seq(TargetRow)
      /\ \A e : Among(e, rows) <=> e = t \/ Among(e, Tail(rows))
  <2> HIDE DEF rows
  <2> QED
    BY <1>1, <1>2, AmongTail
<1>4. tells \in Details
  BY <1>3 DEF ListingInv, TablesHold, TargetRow
<1>5. /\ matches \in Seq(Details)
      /\ \A e : Among(e, reading.matches) => Among(e, matches)
      /\ tells = "none" \/ Among(tells, matches)
  <2>1. Append(reading.matches, tells) \in Seq(Details)
    BY <1>1, <1>4
  <2> HIDE DEF tells
  <2> QED
    BY <1>1, <1>4, <2>1, AmongAppended
<1>6. \A s \in SteadyHere :
        Among(s.target, Tail(rows)) \/ s.tells = "none" \/ Among(s.tells, matches)
  <2> SUFFICES ASSUME NEW s \in SteadyHere, ~Among(s.target, Tail(rows)), s.tells # "none"
               PROVE  Among(s.tells, matches)
    OBVIOUS
  <2>1. CASE s.target = t
    <3>1. s.tells = tells
      BY <2>1, ServesNow DEF ListingInv, SteadyHere
    <3> HIDE DEF tells, matches
    <3> QED
      BY <1>5, <3>1
  <2>2. CASE s.target # t
    <3> HIDE DEF t, tells, matches, rows
    <3> QED
      BY <1>2, <1>3, <1>5, <2>2
  <2> QED
    BY <2>1, <2>2
<1> HIDE DEF t, tells, matches
<1>7. CASE Len(rows) # 1
  <2> DEFINE tail == Tail(rows)
  <2>1. tail # <<>> /\ tail \in Seq(TargetRow)
    BY <1>1, <1>2, <1>3, <1>7, NothingFollows
  <2>2. reading' = [reading EXCEPT !.rows = tail, !.matches = matches]
    BY <1>1, <1>7
  <2> HIDE DEF tail
  <2>3. /\ reading' \in Readings /\ reading'.kind = reading.kind /\ reading'.tasks = reading.tasks
        /\ reading'.listed = reading.listed /\ reading'.told = reading.told
        /\ reading'.at = "details" /\ reading'.rows = tail /\ reading'.matches = matches
    BY <1>1, <1>5, <2>1, <2>2 DEF Readings
  <2>4. TaskHolds'
    <3>1. Model' = Model /\ SteadyHere' = SteadyHere
      BY <1>1, <2>3 DEF Looks, Model, SteadyHere
    <3>2. \A s \in SteadyHere : Among(s.target, tail) \/ s.tells = "none" \/ Among(s.tells, matches)
      BY <1>6 DEF tail
    <3> QED
      BY <2>1, <2>3, <3>1, <3>2 DEF TaskHolds
  <2> QED
    BY <1>1, <2>3, <2>4, TaskGoesOn
<1>8. CASE Len(rows) = 1
  <2> DEFINE told == [reading.told EXCEPT ![Model] = Richest(matches)]
             o == Over
  <2>1. /\ Over \in Readings /\ Over.kind = reading.kind /\ Over.tasks = Tail(reading.tasks)
        /\ Over.at = "row" /\ Over.listed = reading.listed /\ Over.told = reading.told
    BY <1>1, OverTells DEF ModelTask
  <2>2. /\ Model \in PublicModels /\ reading.tasks # <<>>
        /\ Head(reading.tasks) = Describe(Model)
        /\ \A m : Head(reading.tasks) = List(m) \/ Head(reading.tasks) = Describe(m) => m = Model
        /\ Head(reading.tasks) # Catalogue
    BY <1>1, ModelKnown
  <2>3. reading' = [o EXCEPT !.told = told]
    <3>1. reading' = [Over EXCEPT !.told = [Over.told EXCEPT ![Model] = Richest(matches)]]
      BY <1>1, <1>8, <2>1 DEF Readings
    <3> QED
      BY <3>1, <2>1
  <2>4. Richest(matches) \in Details
    BY <1>5, RichestTells
  <2>5. /\ told \in [PublicModels -> Details \cup {"unread"}] /\ told[Model] = Richest(matches)
        /\ \A m \in PublicModels : m # Model => told[m] = reading.told[m]
    BY <1>1, <2>2, <2>4 DEF Readings
  <2> HIDE DEF told, o
  <2>6. /\ reading' \in Readings /\ reading'.kind = reading.kind /\ reading'.tasks = Tail(reading.tasks)
        /\ reading'.at = "row" /\ reading'.listed = reading.listed /\ reading'.told = told
    BY <2>1, <2>3, <2>5 DEF Readings, o
  <2>7. \A s \in SteadyHere : Worth(Richest(matches)) >= Worth(s.tells)
    <3>1. Tail(rows) = <<>>
      BY <1>1, <1>2, <1>8, NothingFollows
    <3>2. \A e : ~Among(e, Tail(rows))
      BY <3>1 DEF Among
    <3>3. \A s \in SteadyHere : s.tells = "none" \/ Among(s.tells, matches)
      BY <1>6, <3>2
    <3>4. \A s \in SteadyHere : s.tells \in Details
      BY ServesNow DEF ListingInv, SteadyHere
    <3> QED
      BY <1>5, <3>3, <3>4, RichestTells
  <2>8. \A m \in PublicModels :
          IF Head(reading.tasks) = Describe(m)
          THEN \A s \in witness.steady : s.model = m => Worth(reading'.told[m]) >= Worth(s.tells)
          ELSE reading'.told[m] = reading.told[m]
    <3>1. \A s \in witness.steady : s.model = Model => Worth(told[Model]) >= Worth(s.tells)
      BY <2>5, <2>7 DEF SteadyHere
    <3> QED
      BY <2>2, <2>5, <2>6, <3>1
  <2>9. ~Among(ProbeTask, Tail(reading.tasks))
    <3>1. ~Among(ProbeTask, reading.tasks)
      BY <1>1, ModelKnown DEF ListingInv, ProbeHolds, Outstanding, ModelTask, ProbeTask
    <3>2. reading.tasks \in Seq(Tasks)
      BY <1>1 DEF Readings
    <3> QED
      BY <2>2, <3>1, <3>2, AmongTail
  <2>10. \A s : Head(reading.tasks) \notin {Catalogue, List(s.model)}
    BY <2>2 DEF List, Describe
  <2> QED
    BY <1>1, <2>2, <2>6, <2>8, <2>9, <2>10, TaskEnds
<1> QED
  BY <1>7, <1>8

----------------------------------------------------------------------------

\* With no provider enabled nothing serves.
LEMMA NoneServes ==
  ASSUME TablesHold, \A p \in Providers : ~Enabled(providers, p)
  PROVE  Services = {}
<1> SUFFICES ASSUME NEW s \in Services PROVE FALSE
  OBVIOUS
<1>1. s.target \in TargetRow /\ s.target \in Serving(providers, routes[s.model].targets)
  BY ServiceHolds
<1> QED
  BY <1>1 DEF Serving, TargetRow

\* The count is of the models that serve.
LEMMA CountTells ==
  ASSUME TablesHold
  PROVE  (countServableRoutes = 0) <=> Services = {}
<1> DEFINE servable == {m \in PublicModels : On(routes[m]) /\ Serving(providers, routes[m].targets) # {}}
<1>1. IsFiniteSet(servable)
  BY ListingAssumption, FS_Subset
<1>2. Cardinality(servable) = 0 <=> servable = {}
  <2> HIDE DEF servable
  <2> QED
    BY <1>1, FS_EmptySet
<1>3. ASSUME NEW s \in Services PROVE servable # {}
  BY <1>3, ServiceHolds
<1>4. ASSUME NEW m \in servable PROVE Services # {}
  <2>1. PICK t \in Serving(providers, routes[m].targets) : TRUE
    OBVIOUS
  <2>2. [model |-> m, target |-> t, tells |-> details[t.provider][t.upstream]] \in Services
    BY <2>1, ServiceTells
  <2> QED
    BY <2>2
<1> QED
  BY <1>2, <1>3, <1>4 DEF countServableRoutes

\* A step of the probe concerns the probe alone.
LEMMA ProbeAlone ==
  ASSUME ListingInv, Looks, reading' \in Readings, reading.kind = "health", reading'.kind = "health",
         ProbeHolds'
  PROVE  ListingInv'
<1>1. TaskHolds'
  BY DEF ProbeHolds, TaskHolds, ModelTask, ProbeTask
<1>2. ListHolds'
  BY DEF ListHolds
<1> QED
  BY <1>1, <1>2, LooksKeep DEF ListingInv

\* A probe has one task, whichever of its statements comes next.
LEMMA ProbeAtWork ==
  ASSUME ListingInv, At({"health"}, reading.at)
  PROVE  /\ reading.kind = "health" /\ reading.tasks = << ProbeTask >> /\ reading.tasks # <<>>
         /\ reading.at \in {"row", "targets"} /\ Tail(reading.tasks) = <<>>
         /\ reading.at = "targets" =>
              reading.status \in {"ok", "degraded"} /\ (reading.status = "degraded" => witness.down)
<1>1. reading \in Readings /\ reading.tasks # <<>> /\ Head(reading.tasks).task = "health"
  BY DEF ListingInv, At
<1>2. reading.tasks \in Seq(Tasks)
  BY <1>1 DEF Readings
<1>3. Head(reading.tasks) = ProbeTask
  <2>1. Head(reading.tasks) \in Tasks
    BY <1>1, <1>2, AmongTail
  <2> QED
    BY <1>1, <2>1 DEF Tasks, ProbeTask
<1>4. Outstanding(ProbeTask)
  BY <1>1, <1>2, <1>3, AmongTail DEF Outstanding
<1>5. reading.kind = "health" /\ ProbeHolds
  BY <1>4 DEF ListingInv, ProbeHolds
<1>6. reading.tasks = << ProbeTask >>
  BY <1>1, <1>5 DEF ProbeHolds
<1>7. Tail(reading.tasks) = <<>>
  BY <1>6, OnlyEntry
<1> QED
  BY <1>1, <1>5, <1>6, <1>7 DEF ProbeHolds

\* The probe says degraded where no provider was enabled.
LEMMA ProbeReadsProviders == ASSUME ListingInv, HealthProviders PROVE ListingInv'
<1> DEFINE status == IF \E p \in Providers : Enabled(providers, p) THEN "ok" ELSE "degraded"
<1>1. /\ Looks /\ reading.kind = "health" /\ reading.tasks = << ProbeTask >> /\ reading \in Readings
      /\ reading' = [reading EXCEPT !.at = "targets", !.status = status]
  BY ProbeAtWork DEF HealthProviders, Looks, At, ListingInv
<1>2. status \in {"ok", "degraded"} /\ (status = "degraded" => witness.down)
  BY NoneServes DEF ListingInv, Witnessed
<1> HIDE DEF status
<1>3. /\ reading' \in Readings /\ reading'.kind = "health" /\ reading'.tasks = reading.tasks
      /\ reading'.at = "targets" /\ reading'.status = status
  BY <1>1, <1>2 DEF Readings
<1>4. ProbeHolds'
  BY <1>1, <1>2, <1>3 DEF ProbeHolds, Looks
<1> QED
  BY <1>1, <1>3, <1>4, ProbeAlone

\* The probe counts the models that served.
LEMMA ProbeReadsRoutes == ASSUME ListingInv, HealthRoutes PROVE ListingInv'
<1> DEFINE status == IF countServableRoutes = 0 THEN "degraded" ELSE reading.status
           o == Over
<1>1. /\ Looks /\ reading.kind = "health" /\ reading.tasks # <<>> /\ reading \in Readings
      /\ Tail(reading.tasks) = <<>>
      /\ reading.status \in {"ok", "degraded"} /\ (reading.status = "degraded" => witness.down)
  BY ProbeAtWork DEF HealthRoutes, Looks, At, ListingInv
<1>2. o \in Readings /\ o.kind = "health" /\ o.tasks = <<>> /\ o.status = reading.status
  BY <1>1, OverTells
<1>3. reading' = [o EXCEPT !.status = status]
  BY <1>2 DEF HealthRoutes, Readings
<1>4. /\ status \in {"ok", "degraded"} /\ (status = "degraded" => witness.down)
      /\ (status = "ok" => witness.up)
  BY <1>1, CountTells DEF ListingInv, Witnessed
<1> HIDE DEF status, o
<1>5. /\ reading' \in Readings /\ reading'.kind = "health" /\ reading'.tasks = <<>>
      /\ reading'.status = status
  BY <1>2, <1>3, <1>4 DEF Readings
<1>6. ProbeHolds'
  BY <1>1, <1>4, <1>5 DEF ProbeHolds, Looks, HealthIsTrue, Ends
<1> QED
  BY <1>1, <1>5, <1>6, ProbeAlone

\* A reading that has not begun promises nothing.
LEMMA UnreadHolds == ASSUME ListingInv, Looks, reading' = Unread PROVE ListingInv'
<1>1. Unread \in Readings /\ Unread.kind = "none" /\ Unread.tasks = <<>>
  <2> DEFINE told == [m \in PublicModels |-> "unread"]
  <2>1. told \in [PublicModels -> Details \cup {"unread"}]
    OBVIOUS
  <2>2. <<>> \in Seq(TargetRow) /\ <<>> \in Seq(Details) /\ <<>> \in Seq(Tasks)
    OBVIOUS
  <2> HIDE DEF told
  <2>3. Unread = [kind |-> "none", tasks |-> <<>>, at |-> "row", rows |-> <<>>, matches |-> <<>>,
                  listed |-> {}, told |-> told, status |-> "none"]
    BY DEF Unread, Reading, told
  <2> QED
    BY <2>1, <2>2, <2>3 DEF Readings
<1>2. TaskHolds' /\ ListHolds' /\ ProbeHolds'
  BY <1>1 DEF TaskHolds, ModelTask, ListHolds, ProbeHolds, Outstanding, Among
<1> QED
  BY <1>1, <1>2, LooksKeep DEF ListingInv

\* A statement that fails ends its reading, and nothing is told.
LEMMA ListingFails == ASSUME ListingInv, StatementFails PROVE ListingInv'
<1>1. Looks /\ reading.tasks # <<>> /\ reading \in Readings
  BY DEF StatementFails, Looks, ListingInv
<1>2. CASE reading.kind = "health"
  <2> DEFINE o == Over
  <2>1. Tail(reading.tasks) = <<>>
    <3>1. reading.tasks = << ProbeTask >>
      BY <1>1, <1>2 DEF ListingInv, ProbeHolds
    <3> QED
      BY <3>1, OnlyEntry
  <2>2. o \in Readings /\ o.kind = "health" /\ o.tasks = <<>>
    BY <1>1, <1>2, <2>1, OverTells
  <2>3. reading' = [o EXCEPT !.status = "unreadable"]
    BY <1>2 DEF StatementFails
  <2> HIDE DEF o
  <2>4. /\ reading' \in Readings /\ reading'.kind = "health" /\ reading'.tasks = <<>>
        /\ reading'.status = "unreadable"
    BY <2>2, <2>3 DEF Readings
  <2>5. ProbeHolds'
    BY <2>4 DEF ProbeHolds, HealthIsTrue
  <2> QED
    BY <1>1, <1>2, <2>4, <2>5, ProbeAlone
<1>3. CASE reading.kind # "health"
  BY <1>1, <1>3, UnreadHolds DEF StatementFails
<1> QED
  BY <1>2, <1>3

\* Nothing is read at first.
LEMMA ListingStarts == ListingInit => ListingInv
<1> SUFFICES ASSUME ListingInit PROVE ListingInv
  OBVIOUS
<1> USE DEF ListingInit
<1>1. TablesHold
  <2>1. providers \in [Providers -> ProviderRow] /\ details \in [Providers -> [Upstreams -> Details]]
    BY ListingAssumption
  <2>2. NoRoute \in Routes /\ FitsKeys(NoRoute.targets)
    BY FS_EmptySet DEF NoRoute, Routes, FitsKeys
  <2>3. \A list \in Fittings : LET row == [there |-> TRUE, enabled |-> TRUE, targets |-> list]
                               IN  row \in Routes /\ FitsKeys(row.targets)
    BY ListingAssumption DEF Routes, FitsKeys
  <2>4. \A m \in PublicModels : routes[m] \in Routes /\ FitsKeys(routes[m].targets)
    BY <2>2, <2>3
  <2>5. routes \in [PublicModels -> Routes]
    BY <2>4
  <2> QED
    BY <2>1, <2>4, <2>5 DEF TablesHold
<1>2. Witnessed
  BY DEF Witnessed, Watched
<1>3. /\ reading \in Readings /\ reading.kind = "none" /\ reading.tasks = <<>>
  <2> DEFINE told == [m \in PublicModels |-> "unread"]
  <2>1. told \in [PublicModels -> Details \cup {"unread"}]
    OBVIOUS
  <2>2. <<>> \in Seq(TargetRow) /\ <<>> \in Seq(Details) /\ <<>> \in Seq(Tasks)
    OBVIOUS
  <2> HIDE DEF told
  <2>3. reading = [kind |-> "none", tasks |-> <<>>, at |-> "row", rows |-> <<>>, matches |-> <<>>,
                   listed |-> {}, told |-> told, status |-> "none"]
    BY DEF Unread, Reading, told
  <2> QED
    BY <2>1, <2>2, <2>3 DEF Readings
<1>4. TaskHolds /\ ListHolds /\ ProbeHolds
  BY <1>3 DEF TaskHolds, ModelTask, ListHolds, ProbeHolds, Outstanding, Among
<1> QED
  BY <1>1, <1>2, <1>3, <1>4 DEF ListingInv

\* The invariant holds after every step.
LEMMA ListingSteps == ListingInv /\ [ListingNext]_listingVars => ListingInv'
<1> SUFFICES ASSUME ListingInv, [ListingNext]_listingVars PROVE ListingInv'
  OBVIOUS
<1>1. CASE Reads
  <2>1. Answer => Looks /\ reading' = Unread
    BY DEF Answer, Looks
  <2> QED
    BY <1>1, <2>1, ListingAsks, ListingReadsRoutes, ListingReadsRow, ListingReadsTargets, ListingMatches,
       ListingReadsDetails, ProbeReadsProviders, ProbeReadsRoutes, ListingFails, UnreadHolds DEF Reads
<1>2. CASE \/ \E p \in Providers : SetProvider(p) \/ RemoveProvider(p) \/ \E u \in Upstreams : Rediscover(p, u)
           \/ \E m \in PublicModels : SetRoute(m)
  <2>1. TablesHold' /\ UNCHANGED reading /\ witness' = Widened(witness, Watched')
    BY <1>2, WritersKeepTables DEF ListingInv
  <2> QED
    BY <2>1, ReadingStands DEF ListingInv
<1>3. CASE UNCHANGED listingVars
  <2>1. Looks /\ reading' = reading
    BY <1>3 DEF listingVars, Looks, tables
  <2>2. TaskHolds' /\ ListHolds' /\ ProbeHolds'
    BY <2>1 DEF ListingInv, Looks, TaskHolds, ModelTask, SteadyHere, Model, ListHolds, ProbeHolds, Outstanding,
                WellTold, HealthIsTrue, Ends
  <2> QED
    BY <2>1, <2>2, LooksKeep DEF ListingInv
<1> QED
  BY <1>1, <1>2, <1>3 DEF ListingNext

\* What clients and probes are told of the models was so while they asked (handlers-v1.ts,
\* modelCatalogue and modelCard; healthz.ts; discovery.ts, catalogue and modelMetadata), whatever
\* the operator and the discovery write between two statements.
THEOREM ListingsAreTrue == ListingSpec => []ListingIsSound
<1>1. ListingInv => ListingIsSound
  <2> SUFFICES ASSUME ListingInv PROVE ListingIsSound
    OBVIOUS
  <2>1. reading.tasks = <<>> => \A task : ~Outstanding(task)
    BY DEF Outstanding, Among
  <2>2. ListingIsTrue
    BY <2>1 DEF ListingInv, ListHolds, ListingIsTrue, Ends
  <2>3. HealthIsTrue
    BY DEF ListingInv, ProbeHolds, HealthIsTrue, Ends
  <2>4. MetadataIsRichest
    <3> SUFFICES ASSUME Ends("models"), NEW s \in witness.steady
                 PROVE  Worth(reading.told[s.model]) >= Worth(s.tells)
      BY DEF MetadataIsRichest
    <3>1. s.model \in reading.listed
      BY <2>1 DEF ListingInv, ListHolds, Ends
    <3>2. WellTold(s.model)
      BY <2>1, <3>1 DEF ListingInv, ListHolds, Ends
    <3> QED
      BY <3>2 DEF WellTold
  <2> QED
    BY <2>2, <2>3, <2>4 DEF ListingIsSound
<1> QED
  BY <1>1, ListingStarts, ListingSteps, PTL DEF ListingSpec

----------------------------------------------------------------------------
(* A conversation on its way through the gateway (Conversations) *)

\* What a client's items and the canonical messages hold.
Said == [array : BOOLEAN, words : Seq(Texts \cup Images)]

ItemsRead ==
  [type : {"function_call"}, call : CallIds] \cup [type : {"function_call_output"}, call : CallIds, content : Said]
  \cup [type : {"reasoning"}, blob : Blobs] \cup [type : {"part"}, content : Said] \cup [type : {"other"}]
  \cup [type : {"message"}, role : {"system", "user", "assistant"}, content : Contents]

ItemsSent ==
  [type : {"function_call"}, call : CallIds] \cup [type : {"function_call_output"}, call : CallIds, content : Said]
  \cup [type : {"message"}, role : {"user", "assistant"}, content : Said]

ChatMessages ==
  {m \in [role : {"system", "user", "assistant", "tool"}, content : Said \cup {Missing}, calls : Seq(CallIds),
          blob : Blobs \cup {Missing}, answers : CallIds \cup {Missing}] :
     /\ m.role = "tool" => m.answers \in CallIds
     /\ m.role # "assistant" => m.content \in Said}

\* The calls are placed: each is in one message or still pending, and no result is ahead of its call.
Placed(ms, pending, called) ==
  /\ \A j \in DOMAIN ms : Range(ms[j].calls) \subseteq called
  /\ Range(pending) \subseteq called
  /\ \A c \in called : c \in Range(pending) \/ \E j \in DOMAIN ms : c \in Range(ms[j].calls)
  /\ \A j, k \in DOMAIN ms : j # k => Range(ms[j].calls) \cap Range(ms[k].calls) = {}
  /\ \A j \in DOMAIN ms : Range(ms[j].calls) \cap Range(pending) = {}
  /\ \A i \in DOMAIN ms : ms[i].role = "tool" =>
       \E j \in 1 .. i - 1 : ms[i].answers \in Range(ms[j].calls)

\* What the messages become at the other side, what is pending, and what is awaited of the items.
Rendered(ms) == [i \in DOMAIN ms |-> ItemsOf(ms[i])]
Requested(pending) == [i \in DOMAIN pending |-> [type |-> "function_call", call |-> pending[i]]]
Expected(read) == [i \in DOMAIN read |-> Awaited(read[i])]

ConversationsInv ==
  /\ asked \in Requests /\ items \in Seq(ItemsRead) /\ messages \in Seq(ChatMessages) /\ calls \in Seq(CallIds)
  /\ encrypted \in Blobs \cup {Missing}
  /\ asked # Plain => items = <<>> /\ messages = <<>> /\ calls = <<>>
  /\ Placed(messages, calls, Called)
  /\ Joint(Rendered(messages)) \o Requested(calls) = Joint(Expected(items))

\* The text parts of a content, and of what has only text.
LEMMA PartsTell ==
  ASSUME NEW content, content.words \in Seq(Texts \cup Images)
  PROVE  partsText(content) \in Seq(Texts) /\ String(partsText(content)) \in Said
         /\ Array(partsText(content)) \in Said
<1> DEFINE s == content.words
           K == {i \in DOMAIN s : s[i] \in Texts}
           r == Subsequence(s, K)
<1>1. /\ r \in Seq(Texts \cup Images) /\ Len(r) = Cardinality(K)
      /\ \A n \in 1 .. Cardinality(K) : Nth(K, n) \in K /\ r[n] = s[Nth(K, n)]
  <2>1. K \in SUBSET DOMAIN s
    OBVIOUS
  <2> HIDE DEF K
  <2> QED
    BY <2>1, SubsequenceTells
<1>2. \A n \in 1 .. Len(r) : r[n] \in Texts
  BY <1>1
<1>3. partsText(content) = r
  BY DEF partsText
<1> HIDE DEF r
<1>4. r \in Seq(Texts)
  BY <1>1, <1>2, SeqOfEntries
<1> QED
  BY <1>1, <1>3, <1>4 DEF String, Array, Said

LEMMA TextsAreParts ==
  ASSUME NEW content, content.words \in Seq(Texts)
  PROVE  partsText(content) = content.words
<1>1. {i \in DOMAIN content.words : content.words[i] \in Texts} = DOMAIN content.words
  OBVIOUS
<1> QED
  BY <1>1, SubsequenceEnds DEF partsText

LEMMA ContentsSaid ==
  /\ Contents \subseteq Said /\ Missing \notin Contents
  /\ \A w \in Texts \cup Images : Array(<<w>>) \in Said
<1>1. \A w \in Texts \cup Images : <<w>> \in Seq(Texts \cup Images)
  OBVIOUS
<1>2. \A w, x \in Texts \cup Images : <<w, x>> \in Seq(Texts \cup Images)
  OBVIOUS
<1>3. \A words \in Seq(Texts \cup Images) : String(words) \in Said /\ Array(words) \in Said
  BY DEF String, Array, Said
<1>4. Missing \notin Contents
  BY MissingAssumption
<1>5. \A t \in Texts : t \in Texts \cup Images
  OBVIOUS
<1>6. ASSUME NEW x \in Contents PROVE x \in Said
  <2>1. CASE \E t \in Texts : x = String(<<t>>)
    BY <1>1, <1>3, <1>5, <2>1
  <2>2. CASE \E t \in Texts, i \in Images : x = Array(<<t, i>>)
    <3>1. PICK t \in Texts, i \in Images : x = Array(<<t, i>>)
      BY <2>2
    <3>2. t \in Texts \cup Images /\ i \in Texts \cup Images
      OBVIOUS
    <3> QED
      BY <1>2, <1>3, <3>1, <3>2
  <2>3. CASE \E i \in Images : x = Array(<<i>>)
    <3>1. PICK i \in Images : x = Array(<<i>>)
      BY <2>3
    <3>2. i \in Texts \cup Images
      OBVIOUS
    <3> QED
      BY <1>1, <1>3, <3>1, <3>2
  <2> QED
    BY <2>1, <2>2, <2>3 DEF Contents
<1> QED
  BY <1>1, <1>3, <1>4, <1>6

\* What a message becomes.
LEMMA MessageTells ==
  ASSUME NEW role \in {"system", "user", "assistant"}, NEW content \in Said
  PROVE  LET m == ChatMessage(role, content)
         IN  m \in ChatMessages /\ m.role = role /\ m.content = content /\ m.calls = <<>>
BY DEF ChatMessage, ChatMessages

LEMMA MessageRendered ==
  ASSUME NEW role \in {"system", "user", "assistant"}, NEW content \in Contents
  PROVE  ItemsOf(ChatMessage(role, content)) = Awaited([type |-> "message", role |-> role, content |-> content])
<1> DEFINE m == ChatMessage(role, content)
           item == [type |-> "message", role |-> role, content |-> content]
           text == partsText(content)
<1>1. content \in Said /\ content # Missing /\ content.words \in Seq(Texts \cup Images)
  BY ContentsSaid DEF Said
<1>2. m.role = role /\ m.content = content /\ m.calls = <<>>
  BY DEF ChatMessage
<1>3. item.type = "message" /\ item.role = role /\ item.content = content
  OBVIOUS
<1>4. Array(text) \in Said
  BY <1>1, PartsTell
<1> HIDE DEF m, text
<1>5. CASE role = "system"
  <2>1. ItemsOf(m) = <<>> /\ Awaited(item) = <<>>
    BY <1>2, <1>3, <1>5 DEF ItemsOf, Awaited
  <2> QED
    BY <2>1 DEF m
<1>6. CASE role = "user"
  <2>1. ItemsOf(m) = <<item>> /\ Awaited(item) = <<item>>
    BY <1>2, <1>3, <1>6 DEF ItemsOf, Awaited
  <2> QED
    BY <2>1 DEF m
<1>7. CASE role = "assistant"
  <2> DEFINE written == [type |-> "message", role |-> "assistant", content |-> Array(text)]
  <2>1. TurnText(m) = text
    BY <1>1, <1>2 DEF TurnText, text
  <2>2. ItemsOf(m) = (IF text = <<>> THEN <<>> ELSE <<written>>) \o [i \in DOMAIN m.calls |-> [type |-> "function_call", call |-> m.calls[i]]]
    BY <1>2, <1>7, <2>1 DEF ItemsOf
  <2>3. [i \in DOMAIN m.calls |-> [type |-> "function_call", call |-> m.calls[i]]] = <<>>
    BY <1>2
  <2>4. [item EXCEPT !.content = Array(text)] = written
    <3>1. \A r, x, y : [[type |-> "message", role |-> r, content |-> x] EXCEPT !.content = y]
                     = [type |-> "message", role |-> r, content |-> y]
      OBVIOUS
    <3> QED
      BY <1>7, <3>1
  <2>5. Awaited(item) = IF text = <<>> THEN <<>> ELSE <<written>>
    BY <1>3, <1>7, <2>4 DEF Awaited, text
  <2>6. written \in ItemsSent
    BY <1>4 DEF ItemsSent
  <2> HIDE DEF written, item
  <2>7. <<written>> \in Seq(ItemsSent) /\ <<written>> \o <<>> = <<written>> /\ <<>> \o <<>> = <<>>
    BY <2>6
  <2>8. ItemsOf(m) = IF text = <<>> THEN <<>> ELSE <<written>>
    BY <2>2, <2>3, <2>7
  <2> QED
    BY <2>5, <2>8 DEF m, item
<1> QED
  BY <1>5, <1>6, <1>7

\* A result.
LEMMA ResultTells ==
  ASSUME NEW c \in CallIds, NEW content \in Contents
  PROVE  LET m == [ChatMessage("tool", String(partsText(content))) EXCEPT !.answers = c]
             item == [type |-> "function_call_output", call |-> c, content |-> content]
         IN  /\ m \in ChatMessages /\ m.role = "tool" /\ m.calls = <<>> /\ m.answers = c /\ item \in ItemsRead
             /\ ItemsOf(m) = Awaited(item) /\ Awaited(item) \in Seq(ItemsSent)
<1> DEFINE text == partsText(content)
           said == String(text)
           m == [ChatMessage("tool", said) EXCEPT !.answers = c]
           item == [type |-> "function_call_output", call |-> c, content |-> content]
           written == [type |-> "function_call_output", call |-> c, content |-> said]
<1>1. content \in Said /\ content.words \in Seq(Texts \cup Images)
  BY ContentsSaid DEF Said
<1>2. text \in Seq(Texts) /\ said \in Said /\ said.words = text
  BY <1>1, PartsTell DEF String
<1> HIDE DEF said
<1>3. m = [role |-> "tool", content |-> said, calls |-> <<>>, blob |-> Missing, answers |-> c]
  BY DEF ChatMessage
<1> HIDE DEF m
<1>4. m \in ChatMessages /\ m.role = "tool" /\ m.calls = <<>> /\ m.answers = c /\ m.content = said
  BY <1>2, <1>3 DEF ChatMessages
<1>5. partsText(said) = text
  BY <1>2, TextsAreParts
<1>6. ItemsOf(m) = <<written>>
  BY <1>4, <1>5 DEF ItemsOf, said
<1>7. Awaited(item) = <<[item EXCEPT !.content = said]>>
  BY DEF Awaited, said
<1>8. [item EXCEPT !.content = said] = written
  <2>1. \A x, y, z : [[type |-> "function_call_output", call |-> x, content |-> y] EXCEPT !.content = z]
                   = [type |-> "function_call_output", call |-> x, content |-> z]
    OBVIOUS
  <2> QED
    BY <2>1
<1>9. item \in ItemsRead /\ written \in ItemsSent
  BY <1>1, <1>2 DEF ItemsRead, ItemsSent
<1> HIDE DEF written, item
<1>10. <<written>> \in Seq(ItemsSent)
  BY <1>9
<1> QED
  BY <1>4, <1>6, <1>7, <1>8, <1>9, <1>10 DEF m, item, said


\* A part that stands alone.
LEMMA PartTells ==
  ASSUME NEW w \in Texts \cup Images
  PROVE  LET m == ChatMessage("user", Array(<<w>>))
             item == [type |-> "part", content |-> Array(<<w>>)]
         IN  m \in ChatMessages /\ m.role = "user" /\ m.calls = <<>> /\ item \in ItemsRead /\ ItemsOf(m) = Awaited(item)
<1> DEFINE content == Array(<<w>>)
           m == ChatMessage("user", content)
<1>1. content \in Said
  BY ContentsSaid
<1> HIDE DEF content
<1>2. m \in ChatMessages /\ m.role = "user" /\ m.content = content /\ m.calls = <<>>
  BY <1>1, MessageTells
<1> HIDE DEF m
<1>3. ItemsOf(m) = <<[type |-> "message", role |-> "user", content |-> content]>>
  BY <1>2 DEF ItemsOf
<1>4. Awaited([type |-> "part", content |-> content]) = <<[type |-> "message", role |-> "user", content |-> content]>>
  BY DEF Awaited
<1>5. [type |-> "part", content |-> content] \in ItemsRead
  BY <1>1 DEF ItemsRead
<1> QED
  BY <1>2, <1>3, <1>4, <1>5 DEF m, content

LEMMA RequestedTells ==
  ASSUME NEW s \in Seq(CallIds)
  PROVE  Requested(s) \in Seq(ItemsSent)
<1>1. \A i \in DOMAIN s : [type |-> "function_call", call |-> s[i]] \in ItemsSent
  BY DEF ItemsSent
<1> QED
  BY <1>1 DEF Requested

\* What is pending, written as a message, becomes the calls that are requested.
LEMMA CallingTells ==
  ASSUME calls \in Seq(CallIds), encrypted \in Blobs \cup {Missing}
  PROVE  /\ Calling \in ChatMessages /\ Calling.role = "assistant" /\ Calling.calls = calls
         /\ Requested(calls) \in Seq(ItemsSent) /\ ItemsOf(Calling) = Requested(calls)
<1>1. Calling = [role |-> "assistant", content |-> Missing, calls |-> calls, blob |-> encrypted, answers |-> Missing]
  <2> DEFINE one == [ChatMessage("assistant", Missing) EXCEPT !.calls = calls]
  <2>1. \A s, k : [[role |-> "assistant", content |-> k, calls |-> <<>>, blob |-> k, answers |-> k] EXCEPT !.calls = s]
                = [role |-> "assistant", content |-> k, calls |-> s, blob |-> k, answers |-> k]
    OBVIOUS
  <2>2. \A s, b, k : [[role |-> "assistant", content |-> k, calls |-> s, blob |-> k, answers |-> k] EXCEPT !.blob = b]
                   = [role |-> "assistant", content |-> k, calls |-> s, blob |-> b, answers |-> k]
    OBVIOUS
  <2>3. Calling = [one EXCEPT !.blob = encrypted]
    BY DEF Calling
  <2>4. one = [role |-> "assistant", content |-> Missing, calls |-> calls, blob |-> Missing, answers |-> Missing]
    BY <2>1 DEF ChatMessage
  <2> HIDE DEF one
  <2> QED
    BY <2>2, <2>3, <2>4
<1>2. Calling \in ChatMessages /\ Calling.role = "assistant" /\ Calling.calls = calls /\ Calling.content = Missing
  BY <1>1 DEF ChatMessages
<1>4. Requested(calls) \in Seq(ItemsSent)
  BY RequestedTells
<1>5. TurnText(Calling) = <<>>
  BY <1>2 DEF TurnText
<1>6. ItemsOf(Calling) = <<>> \o Requested(calls)
  BY <1>2, <1>5 DEF ItemsOf, Requested
<1> DEFINE r == Requested(calls)
<1> HIDE DEF r
<1>7. r \in Seq(ItemsSent) => <<>> \o r = r
  OBVIOUS
<1> QED
  BY <1>2, <1>4, <1>6, <1>7 DEF r

LEMMA RenderedTells ==
  ASSUME NEW m \in ChatMessages
  PROVE  ItemsOf(m) \in Seq(ItemsSent)
<1>1. /\ m.role \in {"system", "user", "assistant", "tool"} /\ m.calls \in Seq(CallIds)
      /\ m.content \in Said \cup {Missing} /\ (m.role = "tool" => m.answers \in CallIds)
      /\ (m.role # "assistant" => m.content \in Said)
  BY DEF ChatMessages
<1>2. CASE m.role = "system"
  BY <1>2 DEF ItemsOf
<1>3. CASE m.role = "tool"
  <2> DEFINE written == [type |-> "function_call_output", call |-> m.answers, content |-> String(partsText(m.content))]
  <2>1. String(partsText(m.content)) \in Said
    BY <1>1, <1>3, PartsTell DEF Said
  <2>2. written \in ItemsSent
    BY <1>1, <1>3, <2>1 DEF ItemsSent
  <2>3. ItemsOf(m) = <<written>>
    BY <1>3 DEF ItemsOf
  <2> HIDE DEF written
  <2> QED
    BY <2>2, <2>3
<1>4. CASE m.role = "user"
  <2> DEFINE written == [type |-> "message", role |-> "user", content |-> m.content]
  <2>1. written \in ItemsSent
    BY <1>1, <1>4 DEF ItemsSent
  <2>2. ItemsOf(m) = <<written>>
    BY <1>4 DEF ItemsOf
  <2> HIDE DEF written
  <2> QED
    BY <2>1, <2>2
<1>5. CASE m.role = "assistant"
  <2> DEFINE text == TurnText(m)
             written == [type |-> "message", role |-> "assistant", content |-> Array(text)]
             r == Requested(m.calls)
             first == IF text = <<>> THEN <<>> ELSE <<written>>
  <2>1. ItemsOf(m) = first \o r
    BY <1>5 DEF ItemsOf, Requested
  <2>3. r \in Seq(ItemsSent)
    BY <1>1, RequestedTells
  <2>4. text # <<>> => written \in ItemsSent
    <3>1. text # <<>> => text = partsText(m.content) /\ m.content \in Said
      BY <1>1 DEF TurnText
    <3>2. m.content \in Said => Array(partsText(m.content)) \in Said
      BY PartsTell DEF Said
    <3> HIDE DEF text
    <3> QED
      BY <3>1, <3>2 DEF ItemsSent
  <2> HIDE DEF written, text, r
  <2>5. first \in Seq(ItemsSent)
    BY <2>4
  <2> HIDE DEF first
  <2> QED
    BY <2>1, <2>3, <2>5
<1> QED
  BY <1>1, <1>2, <1>3, <1>4, <1>5

LEMMA ExpectedTells ==
  ASSUME NEW item \in ItemsRead
  PROVE  Awaited(item) \in Seq(ItemsSent)
<1>1. \A x \in ItemsSent : <<x>> \in Seq(ItemsSent)
  OBVIOUS
<1>2. CASE item.type \in {"reasoning", "other"}
  BY <1>2 DEF Awaited
<1>3. CASE item \in [type : {"function_call"}, call : CallIds]
  <2>1. Awaited(item) = <<item>> /\ item \in ItemsSent
    BY <1>3 DEF Awaited, ItemsSent
  <2> QED
    BY <1>1, <2>1
<1>4. CASE item \in [type : {"function_call_output"}, call : CallIds, content : Said]
  <2> DEFINE said == String(partsText(item.content))
             written == [item EXCEPT !.content = said]
  <2>1. said \in Said
    BY <1>4, PartsTell DEF Said
  <2>2. Awaited(item) = <<written>>
    BY <1>4 DEF Awaited
  <2> HIDE DEF said
  <2>3. written \in [type : {"function_call_output"}, call : CallIds, content : Said]
    BY <1>4, <2>1
  <2> HIDE DEF written
  <2>4. written \in ItemsSent
    BY <2>3 DEF ItemsSent
  <2> QED
    BY <1>1, <2>2, <2>4
<1>5. CASE item \in [type : {"part"}, content : Said]
  <2> DEFINE written == [type |-> "message", role |-> "user", content |-> item.content]
  <2>1. Awaited(item) = <<written>> /\ written \in ItemsSent
    BY <1>5 DEF Awaited, ItemsSent
  <2> HIDE DEF written
  <2> QED
    BY <1>1, <2>1
<1>6. CASE item \in [type : {"message"}, role : {"system", "user", "assistant"}, content : Contents]
  <2> DEFINE content == item.content
             text == partsText(content)
             written == [item EXCEPT !.content = Array(text)]
  <2>1. content \in Said /\ Array(text) \in Said
    <3>1. content \in Said
      BY <1>6, ContentsSaid
    <3> QED
      BY <3>1, PartsTell DEF Said
  <2>2. CASE item.role = "user"
    <3>1. Awaited(item) = <<item>>
      BY <1>6, <2>2 DEF Awaited
    <3>2. item \in [type : {"message"}, role : {"user", "assistant"}, content : Said]
      BY <1>6, <2>1, <2>2
    <3>3. item \in ItemsSent
      BY <3>2 DEF ItemsSent
    <3> QED
      BY <1>1, <3>1, <3>3
  <2>3. CASE item.role = "system"
    BY <1>6, <2>3 DEF Awaited
  <2>4. CASE item.role = "assistant"
    <3>1. Awaited(item) = IF text = <<>> THEN <<>> ELSE <<written>>
      BY <1>6, <2>4 DEF Awaited
    <3> HIDE DEF text
    <3>2. written \in [type : {"message"}, role : {"user", "assistant"}, content : Said]
      BY <1>6, <2>1, <2>4
    <3> HIDE DEF written
    <3>3. written \in ItemsSent
      BY <3>2 DEF ItemsSent
    <3> QED
      BY <1>1, <3>1, <3>3
  <2> QED
    BY <1>6, <2>2, <2>3, <2>4
<1> QED
  BY <1>2, <1>3, <1>4, <1>5, <1>6 DEF ItemsRead


\* One message or item more is rendered, or awaited, after the others.
LEMMA RenderedGrows ==
  ASSUME NEW ms \in Seq(ChatMessages), NEW m \in ChatMessages
  PROVE  /\ Joint(Rendered(ms)) \in Seq(ItemsSent)
         /\ Joint(Rendered(Append(ms, m))) = Joint(Rendered(ms)) \o ItemsOf(m)
<1> DEFINE f == [x \in ChatMessages |-> ItemsOf(x)]
<1>1. f \in [ChatMessages -> Seq(ItemsSent)] /\ \A x \in ChatMessages : f[x] = ItemsOf(x)
  BY RenderedTells
<1> HIDE DEF f
<1>2. \A s \in Seq(ChatMessages) : Rendered(s) = Mapped(s, f)
  BY <1>1 DEF Rendered, Mapped
<1>3. /\ Joint(Mapped(ms, f)) \in Seq(ItemsSent)
      /\ Joint(Mapped(Append(ms, m), f)) = Joint(Mapped(ms, f)) \o f[m]
  BY <1>1, JoinedGrows
<1>4. Append(ms, m) \in Seq(ChatMessages)
  OBVIOUS
<1> QED
  BY <1>1, <1>2, <1>3, <1>4

LEMMA ExpectedGrows ==
  ASSUME NEW read \in Seq(ItemsRead), NEW item \in ItemsRead
  PROVE  /\ Joint(Expected(read)) \in Seq(ItemsSent)
         /\ Joint(Expected(Append(read, item))) = Joint(Expected(read)) \o Awaited(item)
<1> DEFINE f == [x \in ItemsRead |-> Awaited(x)]
<1>1. f \in [ItemsRead -> Seq(ItemsSent)] /\ \A x \in ItemsRead : f[x] = Awaited(x)
  BY ExpectedTells
<1> HIDE DEF f
<1>2. \A s \in Seq(ItemsRead) : Expected(s) = Mapped(s, f)
  BY <1>1 DEF Expected, Mapped
<1>3. /\ Joint(Mapped(read, f)) \in Seq(ItemsSent)
      /\ Joint(Mapped(Append(read, item), f)) = Joint(Mapped(read, f)) \o f[item]
  BY <1>1, JoinedGrows
<1>4. Append(read, item) \in Seq(ItemsRead)
  OBVIOUS
<1> QED
  BY <1>1, <1>2, <1>3, <1>4

\* A call more is pending; what is pending is in a message; a message without calls goes behind.
LEMMA CallPlaced ==
  ASSUME NEW ms, NEW pending \in Seq(CallIds), NEW S, Placed(ms, pending, S), NEW c \in CallIds, c \notin S
  PROVE  Placed(ms, Append(pending, c), S \cup {c})
<1>1. Range(Append(pending, c)) = Range(pending) \cup {c}
  <2> DEFINE n == Len(pending)
             more == Append(pending, c)
  <2>1. /\ more \in Seq(CallIds) /\ Len(more) = n + 1 /\ more[n + 1] = c
        /\ \A i \in 1 .. n : more[i] = pending[i]
    BY AppendedTells
  <2>2. n \in Nat /\ DOMAIN pending = 1 .. n /\ DOMAIN more = 1 .. n + 1
    BY <2>1
  <2> HIDE DEF more, n
  <2>3. \A i \in 1 .. n + 1 : i = n + 1 \/ i \in 1 .. n
    BY <2>2
  <2>4. n + 1 \in 1 .. n + 1 /\ \A i \in 1 .. n : i \in 1 .. n + 1
    BY <2>2
  <2>5. Range(more) = Range(pending) \cup {c}
    BY <2>1, <2>2, <2>3, <2>4 DEF Range
  <2> QED
    BY <2>5 DEF more
<1> QED
  BY <1>1 DEF Placed

LEMMA MessagePlaced ==
  ASSUME NEW ms \in Seq(ChatMessages), NEW pending, NEW S, Placed(ms, pending, S), NEW m \in ChatMessages,
         \/ m.calls = pending /\ m.role # "tool"
         \/ pending = <<>> /\ m.calls = <<>> /\ (m.role = "tool" => m.answers \in S)
  PROVE  Placed(Append(ms, m), <<>>, S)
<1> DEFINE n == Len(ms)
           more == Append(ms, m)
           Of(j) == Range(more[j].calls)
<1>1. /\ more \in Seq(ChatMessages) /\ Len(more) = n + 1 /\ more[n + 1] = m /\ \A i \in 1 .. n : more[i] = ms[i]
      /\ n \in Nat
  BY AppendedTells
<1>2. DOMAIN ms = 1 .. n /\ DOMAIN more = 1 .. n + 1
  BY <1>1
<1> HIDE DEF more, n
<1>3. \A i \in 1 .. n + 1 : i = n + 1 \/ i \in 1 .. n
  BY <1>1
<1>4. n + 1 \in 1 .. n + 1 /\ n + 1 \notin 1 .. n /\ \A i \in 1 .. n : i \in 1 .. n + 1
  BY <1>1
<1>5. Range(<<>>) = {}
  BY DEF Range
<1>6. /\ \A j \in 1 .. n : Of(j) = Range(ms[j].calls) /\ Of(j) \subseteq S /\ Of(j) \cap Range(pending) = {}
      /\ Range(pending) \subseteq S /\ Of(n + 1) = Range(pending)
      /\ \A j, k \in 1 .. n : j # k => Of(j) \cap Of(k) = {}
      /\ \A c \in S : c \in Range(pending) \/ \E j \in 1 .. n : c \in Of(j)
  BY <1>1, <1>2, <1>5 DEF Placed
<1> HIDE DEF Of
<1>7. /\ \A j \in 1 .. n + 1 : Of(j) \subseteq S
      /\ \A j, k \in 1 .. n + 1 : j # k => Of(j) \cap Of(k) = {}
      /\ \A c \in S : \E j \in 1 .. n + 1 : c \in Of(j)
  BY <1>3, <1>4, <1>6
<1>8. ASSUME NEW i \in 1 .. n + 1, more[i].role = "tool" PROVE \E j \in 1 .. i - 1 : more[i].answers \in Of(j)
  <2>1. CASE i = n + 1
    <3>1. m.role = "tool" /\ pending = <<>> /\ m.answers \in S
      BY <1>1, <1>8, <2>1
    <3>2. PICK j \in 1 .. n : m.answers \in Of(j)
      BY <1>5, <1>6, <3>1
    <3>3. j \in 1 .. i - 1
      BY <1>1, <2>1
    <3> QED
      BY <1>1, <2>1, <3>2, <3>3
  <2>2. CASE i \in 1 .. n
    <3>1. PICK j \in 1 .. i - 1 : ms[i].answers \in Range(ms[j].calls)
      BY <1>1, <1>2, <1>8, <2>2 DEF Placed
    <3>2. j \in 1 .. n
      BY <1>1, <2>2
    <3> QED
      BY <1>1, <1>6, <2>2, <3>1, <3>2
  <2> QED
    BY <1>3, <2>1, <2>2
<1>9. Placed(more, <<>>, S)
  BY <1>2, <1>5, <1>7, <1>8 DEF Placed, Of
<1> QED
  BY <1>9 DEF more


\* What is called in the items read.
CalledIn(read) == {read[i].call : i \in {k \in DOMAIN read : read[k].type = "function_call"}}

LEMMA CalledGrows ==
  ASSUME NEW read \in Seq(ItemsRead), NEW item \in ItemsRead
  PROVE  /\ item.type = "function_call" => CalledIn(Append(read, item)) = CalledIn(read) \cup {item.call}
         /\ item.type # "function_call" => CalledIn(Append(read, item)) = CalledIn(read)
<1> DEFINE n == Len(read)
           more == Append(read, item)
<1>1. /\ more \in Seq(ItemsRead) /\ Len(more) = n + 1 /\ more[n + 1] = item /\ \A i \in 1 .. n : more[i] = read[i]
      /\ n \in Nat
  BY AppendedTells
<1>2. DOMAIN read = 1 .. n /\ DOMAIN more = 1 .. n + 1
  BY <1>1
<1> HIDE DEF more, n
<1>3. \A i \in 1 .. n + 1 : i = n + 1 \/ i \in 1 .. n
  BY <1>1
<1>4. n + 1 \in 1 .. n + 1 /\ n + 1 \notin 1 .. n /\ \A i \in 1 .. n : i \in 1 .. n + 1
  BY <1>1
<1>5. \A c : c \in CalledIn(read) <=> \E i \in 1 .. n : read[i].type = "function_call" /\ read[i].call = c
  BY <1>2 DEF CalledIn
<1>6. \A c : c \in CalledIn(more) <=> \E i \in 1 .. n + 1 : more[i].type = "function_call" /\ more[i].call = c
  BY <1>2 DEF CalledIn
<1>7. \A c : c \in CalledIn(more) <=> c \in CalledIn(read) \/ (item.type = "function_call" /\ item.call = c)
  BY <1>1, <1>3, <1>4, <1>5, <1>6
<1>8. CASE item.type = "function_call"
  BY <1>7, <1>8 DEF more
<1>9. CASE item.type # "function_call"
  BY <1>7, <1>9 DEF more
<1> QED
  BY <1>8, <1>9

LEMMA NoneCalled == CalledIn(<<>>) = {} /\ Called = CalledIn(items)
BY DEF CalledIn, Called

LEMMA NoneJoined ==
  /\ Joint(Rendered(<<>>)) = <<>> /\ Joint(Expected(<<>>)) = <<>> /\ Requested(<<>>) = <<>>
  /\ <<>> \in Seq(ItemsSent)
  /\ \A s \in Seq(ItemsSent) : s \o <<>> = s /\ <<>> \o s = s
<1>1. Joint(<<>>) = <<>>
  BY JointGrows
<1>2. Rendered(<<>>) = <<>> /\ Expected(<<>>) = <<>> /\ Requested(<<>>) = <<>>
  BY DEF Rendered, Expected, Requested
<1>3. <<>> \in Seq(ItemsSent) /\ \A s \in Seq(ItemsSent) : s \o <<>> = s /\ <<>> \o s = s
  OBVIOUS
<1> QED
  BY <1>1, <1>2, <1>3

\* Whatever is pending is written before anything else is.
LEMMA FlushTells ==
  ASSUME ConversationsInv
  PROVE  LET ms == messages \o Flushed
         IN  ms \in Seq(ChatMessages) /\ Placed(ms, <<>>, Called) /\ Joint(Rendered(ms)) = Joint(Expected(items))
<1> DEFINE ms == messages \o Flushed
<1>1. /\ items \in Seq(ItemsRead) /\ messages \in Seq(ChatMessages) /\ calls \in Seq(CallIds)
      /\ encrypted \in Blobs \cup {Missing} /\ Placed(messages, calls, Called)
      /\ Joint(Rendered(messages)) \o Requested(calls) = Joint(Expected(items))
  BY DEF ConversationsInv
<1>2. CASE calls = <<>>
  <2>1. Flushed = <<>>
    BY <1>2 DEF Flushed
  <2>2. ms = messages
    BY <1>1, <2>1
  <2>3. \A m \in ChatMessages : Joint(Rendered(messages)) \in Seq(ItemsSent)
    BY <1>1, RenderedGrows
  <2>4. Joint(Rendered(messages)) \in Seq(ItemsSent)
    BY <1>1, <2>3, CallingTells
  <2>5. Joint(Rendered(messages)) = Joint(Expected(items))
    BY <1>1, <1>2, <2>4, NoneJoined
  <2> HIDE DEF ms
  <2>6. ms \in Seq(ChatMessages) /\ Placed(ms, <<>>, Called) /\ Joint(Rendered(ms)) = Joint(Expected(items))
    BY <1>1, <1>2, <2>2, <2>5
  <2> QED
    BY <2>6 DEF ms
<1>3. CASE calls # <<>>
  <2> DEFINE m == Calling
  <2>1. /\ m \in ChatMessages /\ m.role = "assistant" /\ m.calls = calls /\ ItemsOf(m) = Requested(calls)
    BY <1>1, CallingTells
  <2>2. Flushed = <<m>>
    BY <1>3 DEF Flushed
  <2> HIDE DEF m
  <2>3. ms = Append(messages, m)
    BY <1>1, <2>1, <2>2
  <2>4. Append(messages, m) \in Seq(ChatMessages)
    BY <1>1, <2>1
  <2>5. Placed(Append(messages, m), <<>>, Called)
    BY <1>1, <2>1, MessagePlaced
  <2>6. Joint(Rendered(Append(messages, m))) = Joint(Expected(items))
    BY <1>1, <2>1, RenderedGrows
  <2> HIDE DEF ms
  <2>7. ms \in Seq(ChatMessages) /\ Placed(ms, <<>>, Called) /\ Joint(Rendered(ms)) = Joint(Expected(items))
    BY <2>3, <2>4, <2>5, <2>6
  <2> QED
    BY <2>7 DEF ms
<1> QED
  BY <1>2, <1>3

\* An item that becomes a message of its own.
LEMMA ThenMessage ==
  ASSUME ConversationsInv, asked = Plain, asked' = asked,
         NEW item \in ItemsRead, item.type # "function_call", items' = Append(items, item),
         NEW m \in ChatMessages, m.calls = <<>>, m.role = "tool" => m.answers \in Called,
         ItemsOf(m) = Awaited(item), FlushThen(<<m>>)
  PROVE  ConversationsInv'
<1> DEFINE ms == messages \o Flushed
           more == Append(ms, m)
           read == Append(items, item)
<1>1. ms \in Seq(ChatMessages) /\ Placed(ms, <<>>, Called) /\ Joint(Rendered(ms)) = Joint(Expected(items))
  BY FlushTells
<1>2. items \in Seq(ItemsRead) /\ encrypted \in Blobs \cup {Missing} /\ Plain \in Requests
  BY DEF ConversationsInv, Requests
<1>3. messages' = ms \o <<m>> /\ calls' = <<>> /\ encrypted' \in Blobs \cup {Missing}
  BY <1>2 DEF FlushThen
<1> HIDE DEF ms
<1>4. messages' = more /\ more \in Seq(ChatMessages)
  BY <1>1, <1>3
<1>5. items' = read /\ read \in Seq(ItemsRead)
  BY <1>2
<1>6. Called' = Called
  <2>1. Called' = CalledIn(items')
    BY DEF Called, CalledIn
  <2> QED
    BY <1>2, <2>1, NoneCalled, CalledGrows
<1>7. Placed(more, <<>>, Called)
  <2>1. <<>> = <<>> /\ m.calls = <<>> /\ (m.role = "tool" => m.answers \in Called)
    OBVIOUS
  <2> QED
    BY <1>1, <2>1, MessagePlaced
<1>8. Joint(Rendered(more)) = Joint(Expected(items)) \o ItemsOf(m)
  BY <1>1, RenderedGrows
<1>9. Joint(Expected(read)) = Joint(Expected(items)) \o Awaited(item) /\ Joint(Expected(items)) \in Seq(ItemsSent)
  BY <1>2, ExpectedGrows
<1>10. Joint(Rendered(more)) \o Requested(<<>>) = Joint(Expected(read))
  <2>1. Awaited(item) \in Seq(ItemsSent)
    BY ExpectedTells
  <2>2. Joint(Rendered(more)) \in Seq(ItemsSent) /\ Joint(Rendered(more)) = Joint(Expected(read))
    BY <1>8, <1>9, <2>1
  <2> QED
    BY <2>2, NoneJoined
<1> HIDE DEF more, read
<1>11. calls' \in Seq(CallIds)
  BY <1>3
<1> QED
  BY <1>2, <1>3, <1>4, <1>5, <1>6, <1>7, <1>10, <1>11 DEF ConversationsInv

\* A call more is requested.
LEMMA RequestedGrows ==
  ASSUME NEW pending \in Seq(CallIds), NEW c \in CallIds, NEW before \in Seq(ItemsSent)
  PROVE  before \o Requested(Append(pending, c))
           = (before \o Requested(pending)) \o <<[type |-> "function_call", call |-> c]>>
<1> DEFINE f == [k \in CallIds |-> [type |-> "function_call", call |-> k]]
           r == Requested(pending)
           x == f[c]
<1>1. r \in Seq(ItemsSent) /\ x \in ItemsSent
  BY RequestedTells DEF ItemsSent
<1>2. Append(pending, c) \in Seq(CallIds) /\ \A k \in CallIds : f[k] = [type |-> "function_call", call |-> k]
  OBVIOUS
<1> HIDE DEF f
<1>3. \A s \in Seq(CallIds) : Requested(s) = Mapped(s, f)
  BY <1>2 DEF Requested, Mapped
<1>4. Mapped(Append(pending, c), f) = Append(Mapped(pending, f), f[c])
  BY MappedGrows
<1>5. Requested(Append(pending, c)) = Append(r, x)
  BY <1>2, <1>3, <1>4
<1> HIDE DEF r, x
<1>6. before \o Append(r, x) = (before \o r) \o <<x>>
  BY SMTT(30), <1>1
<1> QED
  BY <1>2, <1>5, <1>6 DEF r, x

\* An item that no message stands for.
LEMMA Unwritten ==
  ASSUME ConversationsInv, asked = Plain, asked' = asked,
         NEW item \in ItemsRead, item.type # "function_call", items' = Append(items, item), Awaited(item) = <<>>,
         messages' = messages, calls' = calls, encrypted' \in Blobs \cup {Missing}
  PROVE  ConversationsInv'
<1>1. /\ items \in Seq(ItemsRead) /\ messages \in Seq(ChatMessages) /\ calls \in Seq(CallIds)
      /\ Placed(messages, calls, Called) /\ Plain \in Requests
      /\ Joint(Rendered(messages)) \o Requested(calls) = Joint(Expected(items))
  BY DEF ConversationsInv, Requests
<1>2. Called' = Called
  <2>1. Called' = CalledIn(items')
    BY DEF Called, CalledIn
  <2> QED
    BY <1>1, <2>1, NoneCalled, CalledGrows
<1>3. /\ Joint(Expected(Append(items, item))) = Joint(Expected(items)) \o Awaited(item)
      /\ Joint(Expected(items)) \in Seq(ItemsSent)
  BY <1>1, ExpectedGrows
<1>4. Joint(Expected(items')) = Joint(Expected(items))
  BY <1>3, NoneJoined
<1>5. items' \in Seq(ItemsRead)
  BY <1>1
<1> QED
  BY <1>1, <1>2, <1>4, <1>5 DEF ConversationsInv

LEMMA ConversationsStep ==
  ASSUME ConversationsInv, [ConversationsNext]_conversationVars
  PROVE  ConversationsInv'
<1>1. CASE UNCHANGED conversationVars
  <2>1. Called' = Called
    BY <1>1 DEF conversationVars, Called
  <2> QED
    BY <1>1, <2>1 DEF conversationVars, ConversationsInv
<1> SUFFICES ASSUME asked = Plain, asked' = asked,
                    \/ FunctionCall \/ FunctionCallOutput \/ Reasoning \/ MessageItem \/ ContentPart \/ UnknownItem
             PROVE  ConversationsInv'
  <2>1. ASSUME ConversationsNext PROVE asked' = asked
    BY <2>1 DEF ConversationsNext, FunctionCall, FunctionCallOutput, Reasoning, MessageItem, ContentPart, UnknownItem
  <2> QED
    BY <1>1, <2>1 DEF ConversationsNext
<1>2. CASE FunctionCall
  <2>1. PICK c \in CallIds \ Called : /\ ReadsItem([type |-> "function_call", call |-> c])
                                      /\ calls' = Append(calls, c)
    BY <1>2 DEF FunctionCall
  <2> DEFINE item == [type |-> "function_call", call |-> c]
             before == Joint(Rendered(messages))
  <2>2. items' = Append(items, item) /\ messages' = messages /\ encrypted' = encrypted
    BY <1>2, <2>1 DEF FunctionCall, ReadsItem
  <2>3. /\ items \in Seq(ItemsRead) /\ messages \in Seq(ChatMessages) /\ calls \in Seq(CallIds)
        /\ encrypted \in Blobs \cup {Missing} /\ Placed(messages, calls, Called)
        /\ before \o Requested(calls) = Joint(Expected(items)) /\ Plain \in Requests
    BY DEF ConversationsInv, Requests
  <2>4. item \in ItemsRead /\ item.type = "function_call" /\ item.call = c /\ Awaited(item) = <<item>>
    BY DEF ItemsRead, Awaited
  <2>5. Called' = Called \cup {c}
    <3>1. Called' = CalledIn(items')
      BY DEF Called, CalledIn
    <3> HIDE DEF item
    <3> QED
      BY <2>2, <2>3, <2>4, <3>1, NoneCalled, CalledGrows
  <2>6. Placed(messages, Append(calls, c), Called \cup {c})
    BY <2>3, CallPlaced
  <2>7. before \in Seq(ItemsSent)
    BY <2>3, CallingTells, RenderedGrows
  <2>8. before \o Requested(Append(calls, c)) = (before \o Requested(calls)) \o <<item>>
    BY <2>3, <2>7, RequestedGrows
  <2>9. Joint(Expected(Append(items, item))) = Joint(Expected(items)) \o Awaited(item)
    BY <2>3, <2>4, ExpectedGrows
  <2> HIDE DEF item, before
  <2>10. before' = before
    BY <2>2 DEF before
  <2>11. Joint(Rendered(messages')) \o Requested(calls') = Joint(Expected(items'))
    BY <2>1, <2>2, <2>3, <2>4, <2>8, <2>9 DEF before
  <2>12. items' \in Seq(ItemsRead) /\ calls' \in Seq(CallIds)
    BY <2>1, <2>2, <2>3, <2>4
  <2> QED
    BY <2>1, <2>2, <2>3, <2>5, <2>6, <2>11, <2>12 DEF ConversationsInv
<1>3. CASE FunctionCallOutput
  <2>1. PICK c \in Called \ Answered, content \in Contents :
          /\ ReadsItem([type |-> "function_call_output", call |-> c, content |-> content])
          /\ FlushThen(<<[ChatMessage("tool", String(partsText(content))) EXCEPT !.answers = c]>>)
    BY <1>3 DEF FunctionCallOutput
  <2> DEFINE item == [type |-> "function_call_output", call |-> c, content |-> content]
             m == [ChatMessage("tool", String(partsText(content))) EXCEPT !.answers = c]
  <2>2. c \in CallIds
    <3>1. items \in Seq(ItemsRead)
      BY DEF ConversationsInv
    <3>2. PICK i \in DOMAIN items : items[i].type = "function_call" /\ items[i].call = c
      BY DEF Called
    <3>3. items[i] \in ItemsRead
      BY <3>1
    <3> QED
      BY <3>2, <3>3 DEF ItemsRead
  <2>3. /\ m \in ChatMessages /\ m.role = "tool" /\ m.calls = <<>> /\ m.answers = c /\ item \in ItemsRead
        /\ ItemsOf(m) = Awaited(item)
    BY <2>2, ResultTells
  <2>4. items' = Append(items, item) /\ FlushThen(<<m>>) /\ item.type # "function_call"
    BY <2>1 DEF ReadsItem
  <2> HIDE DEF item, m
  <2> QED
    BY <2>1, <2>3, <2>4, ThenMessage
<1>4. CASE Reasoning
  <2>1. PICK b \in Blobs : ReadsItem([type |-> "reasoning", blob |-> b]) /\ encrypted' = b
    BY <1>4 DEF Reasoning
  <2> DEFINE item == [type |-> "reasoning", blob |-> b]
  <2>2. /\ items' = Append(items, item) /\ messages' = messages /\ calls' = calls
        /\ encrypted' \in Blobs \cup {Missing}
    BY <1>4, <2>1 DEF Reasoning, ReadsItem
  <2>3. item \in ItemsRead /\ item.type # "function_call" /\ Awaited(item) = <<>>
    BY DEF ItemsRead, Awaited
  <2> HIDE DEF item
  <2> QED
    BY <2>2, <2>3, Unwritten
<1>5. CASE MessageItem
  <2>1. PICK role \in {"system", "user", "assistant"}, content \in Contents :
          /\ ReadsItem([type |-> "message", role |-> role, content |-> content])
          /\ FlushThen(<<ChatMessage(role, content)>>)
    BY <1>5 DEF MessageItem
  <2> DEFINE item == [type |-> "message", role |-> role, content |-> content]
             m == ChatMessage(role, content)
  <2>2. items' = Append(items, item) /\ FlushThen(<<m>>) /\ item.type # "function_call" /\ item \in ItemsRead
    BY <2>1 DEF ReadsItem, ItemsRead
  <2>3. m \in ChatMessages /\ m.role # "tool" /\ m.calls = <<>>
    BY ContentsSaid, MessageTells
  <2>4. ItemsOf(m) = Awaited(item)
    BY MessageRendered
  <2> HIDE DEF item, m
  <2> QED
    BY <2>2, <2>3, <2>4, ThenMessage
<1>6. CASE ContentPart
  <2>1. PICK w \in Texts \cup Images : /\ ReadsItem([type |-> "part", content |-> Array(<<w>>)])
                                       /\ FlushThen(<<ChatMessage("user", Array(<<w>>))>>)
    BY <1>6 DEF ContentPart
  <2> DEFINE item == [type |-> "part", content |-> Array(<<w>>)]
             m == ChatMessage("user", Array(<<w>>))
  <2>2. items' = Append(items, item) /\ FlushThen(<<m>>) /\ item.type # "function_call"
    BY <2>1 DEF ReadsItem
  <2>3. m \in ChatMessages /\ m.role = "user" /\ m.calls = <<>> /\ item \in ItemsRead /\ ItemsOf(m) = Awaited(item)
    BY PartTells
  <2> HIDE DEF item, m
  <2> QED
    BY <2>2, <2>3, ThenMessage
<1>7. CASE UnknownItem
  <2> DEFINE item == [type |-> "other"]
  <2>1. /\ items' = Append(items, item) /\ messages' = messages /\ calls' = calls
        /\ encrypted' \in Blobs \cup {Missing}
    BY <1>7 DEF UnknownItem, ReadsItem, ConversationsInv
  <2>2. item \in ItemsRead /\ item.type # "function_call" /\ Awaited(item) = <<>>
    BY DEF ItemsRead, Awaited
  <2> HIDE DEF item
  <2> QED
    BY <2>1, <2>2, Unwritten
<1> QED
  BY <1>2, <1>3, <1>4, <1>5, <1>6, <1>7

LEMMA ConversationsStart ==
  ASSUME ConversationsInit
  PROVE  ConversationsInv
<1>1. items = <<>> /\ messages = <<>> /\ calls = <<>> /\ encrypted = Missing /\ asked \in Requests
  BY DEF ConversationsInit
<1>2. Called = {}
  BY <1>1, NoneCalled
<1>3. Placed(<<>>, <<>>, {})
  BY DEF Placed, Range
<1>4. Joint(Rendered(<<>>)) \o Requested(<<>>) = Joint(Expected(<<>>))
  BY NoneJoined
<1>5. <<>> \in Seq(ItemsRead) /\ <<>> \in Seq(ChatMessages) /\ <<>> \in Seq(CallIds)
  OBVIOUS
<1> QED
  BY <1>1, <1>2, <1>3, <1>4, <1>5 DEF ConversationsInv

\* The conversation as the messages that carry it.
LEMMA ConversationTells ==
  ASSUME ConversationsInv
  PROVE  /\ asked = Plain => Conversation = messages \o Flushed
         /\ asked # Plain =>
              /\ items = <<>> /\ messages = <<>> /\ calls = <<>> /\ Called = {}
              /\ Conversation = IF asked.instructions = Missing THEN <<>>
                                ELSE <<ChatMessage("system", String(<<asked.instructions>>))>>
<1>1. Conversation = ((IF asked.instructions = Missing THEN <<>>
                       ELSE <<ChatMessage("system", String(<<asked.instructions>>))>>)
                      \o messages) \o Flushed
  BY DEF Conversation, toCanonical
<1>2. ASSUME asked = Plain PROVE Conversation = messages \o Flushed
  <2>1. asked.instructions = Missing
    BY <1>2 DEF Plain
  <2>2. messages \in Seq(ChatMessages)
    BY DEF ConversationsInv
  <2>3. <<>> \o messages = messages
    BY <2>2
  <2> QED
    BY <1>1, <2>1, <2>3
<1>3. ASSUME asked # Plain
      PROVE  /\ items = <<>> /\ messages = <<>> /\ calls = <<>> /\ Called = {}
             /\ Conversation = IF asked.instructions = Missing THEN <<>>
                               ELSE <<ChatMessage("system", String(<<asked.instructions>>))>>
  <2>1. items = <<>> /\ messages = <<>> /\ calls = <<>>
    BY <1>3 DEF ConversationsInv
  <2>2. Called = {} /\ Flushed = <<>>
    BY <2>1, NoneCalled DEF Flushed
  <2> DEFINE m == ChatMessage("system", String(<<asked.instructions>>))
             s == IF asked.instructions = Missing THEN <<>> ELSE <<m>>
  <2> HIDE DEF m
  <2>3. s \in Seq({m})
    <3>1. <<>> \in Seq({m}) /\ <<m>> \in Seq({m})
      OBVIOUS
    <3> QED
      BY <3>1
  <2> HIDE DEF s
  <2>4. (s \o <<>>) \o <<>> = s
    BY <2>3
  <2> QED
    BY <1>1, <2>1, <2>2, <2>4 DEF s, m
<1> QED
  BY <1>2, <1>3

LEMMA ResultsAreBehind ==
  ASSUME ConversationsInv
  PROVE  ResultsFollowCalls
<1> DEFINE ms == Conversation
<1>1. CASE asked = Plain
  <2>1. ms = messages \o Flushed
    BY <1>1, ConversationTells
  <2>2. Placed(ms, <<>>, Called)
    BY <2>1, FlushTells
  <2> HIDE DEF ms
  <2>3. Range(<<>>) = {}
    BY DEF Range
  <2>4. ASSUME NEW c \in Called
        PROVE  \E j \in DOMAIN ms : /\ c \in Range(ms[j].calls)
                                    /\ \A k \in DOMAIN ms \ {j} : c \notin Range(ms[k].calls)
    <3>1. PICK j \in DOMAIN ms : c \in Range(ms[j].calls)
      BY <2>2, <2>3 DEF Placed
    <3>2. \A k \in DOMAIN ms : k # j => Range(ms[k].calls) \cap Range(ms[j].calls) = {}
      BY <2>2 DEF Placed
    <3> QED
      BY <3>1, <3>2
  <2>5. \A i \in DOMAIN ms : ms[i].role = "tool" => \E j \in 1 .. i - 1 : ms[i].answers \in Range(ms[j].calls)
    BY <2>2 DEF Placed
  <2> QED
    BY <2>4, <2>5 DEF ResultsFollowCalls, ms
<1>2. CASE asked # Plain
  <2> DEFINE m == ChatMessage("system", String(<<asked.instructions>>))
  <2>1. Called = {} /\ ms = IF asked.instructions = Missing THEN <<>> ELSE <<m>>
    BY <1>2, ConversationTells
  <2>2. m.role = "system"
    BY DEF ChatMessage
  <2> HIDE DEF m, ms
  <2>3. \A i \in DOMAIN ms : ms[i] = m
    BY <2>1
  <2>4. \A i \in DOMAIN ms : ms[i].role # "tool"
    BY <2>2, <2>3
  <2> QED
    BY <2>1, <2>4 DEF ResultsFollowCalls, ms
<1> QED
  BY <1>1, <1>2

LEMMA ItemsArrive ==
  ASSUME ConversationsInv
  PROVE  ItemsSurvive
<1>1. toResponsesBody(toCanonical).input = Joint(Rendered(Conversation))
  BY DEF toResponsesBody, Rendered, Conversation
<1>2. Joint([i \in DOMAIN items |-> Awaited(items[i])]) = Joint(Expected(items))
  BY DEF Expected
<1>3. CASE asked = Plain
  BY <1>1, <1>2, <1>3, ConversationTells, FlushTells DEF ItemsSurvive
<1>4. CASE asked # Plain
  <2> DEFINE m == ChatMessage("system", String(<<asked.instructions>>))
  <2>1. items = <<>> /\ Conversation = IF asked.instructions = Missing THEN <<>> ELSE <<m>>
    BY <1>4, ConversationTells
  <2>2. Joint(Expected(items)) = <<>> /\ Joint(Rendered(<<>>)) = <<>>
    BY <2>1, NoneJoined
  <2>3. ItemsOf(m) = <<>>
    BY DEF ChatMessage, ItemsOf
  <2> HIDE DEF m
  <2>4. Rendered(<<m>>) = <<<<>>>>
    BY <2>3 DEF Rendered
  <2>5. Append(<<>>, <<>>) = <<<<>>>> /\ <<>> \in Seq(Seq(ItemsSent)) /\ <<>> \in Seq(ItemsSent)
    OBVIOUS
  <2>6. Joint(<<<<>>>>) = <<>>
    <3>1. Joint(Append(<<>>, <<>>)) = Joint(<<>>) \o <<>>
      BY <2>5, JointGrows
    <3>2. Joint(<<>>) = <<>>
      BY JointGrows
    <3> QED
      BY <2>5, <3>1, <3>2, NoneJoined
  <2>7. Joint(Rendered(Conversation)) = <<>>
    BY <2>1, <2>2, <2>4, <2>6
  <2> QED
    BY <1>1, <1>2, <2>2, <2>7 DEF ItemsSurvive
<1> QED
  BY <1>3, <1>4

\* The tools come back as flat as they came.
LEMMA ToolsArrive ==
  ASSUME NEW tools \in {Missing, <<Tool>>, <<StrictTool>>}
  PROVE  Each(Each(tools, toChatTool), LAMBDA tool : tool.function) = tools
<1>1. CASE tools = Missing
  BY <1>1 DEF Each
<1>2. ASSUME NEW tool \in {Tool, StrictTool}, tools = <<tool>>, tools # Missing
      PROVE  Each(Each(tools, toChatTool), LAMBDA t : t.function) = tools
  <2> DEFINE chat == toChatTool(tool)
  <2>1. <<chat>> # Missing /\ chat.function = tool
    BY MissingAssumption DEF toChatTool
  <2>2. Each(tools, toChatTool) = [i \in DOMAIN tools |-> toChatTool(tools[i])]
    BY <1>2 DEF Each
  <2> HIDE DEF chat
  <2>3. Each(tools, toChatTool) = <<chat>>
    BY <1>2, <2>2 DEF chat
  <2>4. Each(<<chat>>, LAMBDA t : t.function) = [i \in DOMAIN <<chat>> |-> <<chat>>[i].function]
    BY <2>1 DEF Each
  <2>5. [i \in DOMAIN <<chat>> |-> <<chat>>[i].function] = <<tool>>
    BY <2>1
  <2> QED
    BY <1>2, <2>3, <2>4, <2>5
<1> QED
  BY <1>1, <1>2

LEMMA AskedTells ==
  ASSUME NEW ask \in Requests
  PROVE  /\ ask.tools \in {Missing, <<Tool>>, <<StrictTool>>}
         /\ ask.format # Missing /\ ask.format.schema # Missing => ask.format.type = "json_schema"
<1> DEFINE p == Plain
           Holds(x) == /\ x.tools \in {Missing, <<Tool>>, <<StrictTool>>}
                       /\ x.format # Missing /\ x.format.schema # Missing => x.format.type = "json_schema"
<1>1. /\ p.tools = Missing /\ p.format = Missing
      /\ DOMAIN p = {"instructions", "tools", "tool_choice", "format", "limit", "effort"}
  BY DEF Plain
<1> HIDE DEF p
<1>2. Holds(p)
  BY <1>1
<1>3. Holds([p EXCEPT !.instructions = "be brief", !.limit = 10, !.effort = "low"])
  BY <1>1
<1>4. Holds([p EXCEPT !.tools = <<Tool>>, !.tool_choice = [type |-> "function", name |-> "f"]])
  BY <1>1
<1>5. Holds([p EXCEPT !.tools = <<StrictTool>>, !.tool_choice = [type |-> "function", name |-> Missing]])
  BY <1>1
<1>6. Holds([p EXCEPT !.tool_choice = [type |-> "required", name |-> Missing],
                      !.format = [type |-> "json_schema", schema |-> "s"]])
  BY <1>1
<1>7. Holds([p EXCEPT !.format = [type |-> "json_object", schema |-> Missing]])
  BY <1>1
<1>8. Holds([p EXCEPT !.format = [type |-> "text", schema |-> Missing]])
  BY <1>1
<1> HIDE DEF Holds
<1>9. Holds(ask)
  BY <1>2, <1>3, <1>4, <1>5, <1>6, <1>7, <1>8 DEF Requests, p
<1> QED
  BY <1>9 DEF Holds

LEMMA FieldsArrive ==
  ASSUME ConversationsInv
  PROVE  FieldsSurvive
<1> DEFINE body == toResponsesBody(toCanonical)
<1>1. asked \in Requests
  BY DEF ConversationsInv
<1>2. body.tools = asked.tools
  <2>1. asked.tools \in {Missing, <<Tool>>, <<StrictTool>>}
    BY <1>1, AskedTells
  <2>2. body.tools = Each(Each(asked.tools, toChatTool), LAMBDA tool : tool.function)
    BY DEF toResponsesBody, toCanonical
  <2> QED
    BY <2>1, <2>2, ToolsArrive
<1>3. body.limit = asked.limit /\ body.effort = asked.effort
  BY DEF toResponsesBody, toCanonical
<1>4. asked.instructions # Missing => asked.instructions \in Range(body.instructions)
  <2> SUFFICES ASSUME asked.instructions # Missing PROVE asked.instructions \in Range(body.instructions)
    OBVIOUS
  <2> DEFINE said == asked.instructions
             m == ChatMessage("system", String(<<said>>))
  <2>1. asked # Plain
    BY DEF Plain
  <2>2. Conversation = <<m>>
    BY <2>1, ConversationTells
  <2>3. body.instructions = Joint([i \in DOMAIN Conversation |-> InstructionsOf(Conversation[i])])
    BY DEF toResponsesBody, Conversation
  <2>4. InstructionsOf(m) = <<said>>
    BY DEF InstructionsOf, ChatMessage, String
  <2> HIDE DEF m, said, body
  <2>5. body.instructions = Joint(<<<<said>>>>)
    BY <2>2, <2>3, <2>4
  <2>6. <<said>> \in Seq({said}) /\ <<>> \in Seq(Seq({said}))
    OBVIOUS
  <2> DEFINE one == <<said>>
  <2>7. one \in Seq({said}) /\ one[1] = said /\ 1 \in DOMAIN one
    OBVIOUS
  <2> HIDE DEF one
  <2>8. Append(<<>>, one) = <<one>> /\ <<>> \o one = one
    BY <2>7
  <2>9. Joint(Append(<<>>, one)) = Joint(<<>>) \o one /\ Joint(<<>>) = <<>>
    BY <2>6, <2>7, JointGrows
  <2>10. body.instructions = one
    BY <2>5, <2>8, <2>9 DEF one
  <2>11. said \in Range(one)
    BY <2>7 DEF Range
  <2> QED
    BY <2>10, <2>11 DEF said
<1>5. asked.tool_choice # Missing /\ asked.tool_choice.name # Missing => body.tool_choice = asked.tool_choice
  <2>1. body.tool_choice = toChatToolChoice(asked.tool_choice)
    BY DEF toResponsesBody, toCanonical
  <2> HIDE DEF body
  <2> QED
    BY <2>1 DEF toChatToolChoice
<1>6. asked.format # Missing /\ asked.format.schema # Missing => body.format = asked.format
  <2>1. body.format = toResponseFormat(asked.format)
    BY DEF toResponsesBody, toCanonical
  <2>2. asked.format # Missing /\ asked.format.schema # Missing => asked.format.type = "json_schema"
    BY <1>1, AskedTells
  <2> HIDE DEF body
  <2> QED
    BY <2>1, <2>2 DEF toResponseFormat
<1> QED
  BY <1>2, <1>3, <1>4, <1>5, <1>6 DEF FieldsSurvive

\* A conversation in Responses form keeps its turns, calls, results and fields on the way to a
\* chat provider and back (toCanonical, toResponsesBody), whatever it holds and however long it is.
THEOREM ConversationsSurvive == ConversationsSpec => []ConversationSurvives
<1>1. ConversationsInit => ConversationsInv
  BY ConversationsStart
<1>2. ConversationsInv /\ [ConversationsNext]_conversationVars => ConversationsInv'
  BY ConversationsStep
<1>3. ConversationsInv => ConversationSurvives
  BY ResultsAreBehind, ItemsArrive, FieldsArrive DEF ConversationSurvives
<1> QED
  BY <1>1, <1>2, <1>3, PTL DEF ConversationsSpec

----------------------------------------------------------------------------
(* A conversation of an Anthropic client (AnthropicTurns) *)

\* What is read and written.
Wordings == Words \cup ImageSources \cup Strange \cup {"document"}

BlocksRead ==
  [type : {"text", "image", "thinking", "document"}, word : Wordings] \cup [type : {"tool_use"}, use : ToolUses]
  \cup [type : {"tool_result"}, use : ToolUses, content : Seq(Wordings)]

TurnsTaken == [role : {"user", "assistant"}, blocks : Seq(BlocksRead)]

MessagesOut ==
  [role : {"user", "assistant", "tool"}, words : Seq(Wordings), calls : Seq(ToolUses), reasoning : Seq(Wordings),
   answers : ToolUses \cup {Absent}]

Things == [type : {"said", "answered"}, what : Wordings \cup ToolUses \cup {Absent}]

\* What the client tells, what the model hears, and what a turn calls and thinks.
ToldOf(turn) == Joint([k \in DOMAIN turn.blocks |-> Says(turn.blocks[k])])
ToldIn(ts) == Joint([i \in DOMAIN ts |-> ToldOf(ts[i])])
HeardIn(ms) == Joint([i \in DOMAIN ms |-> HeardTurns(ms[i])])
SaidIn(words) == [i \in DOMAIN words |-> [type |-> "said", what |-> words[i]]]
UsesOf(turn) == [k \in DOMAIN OfType(turn, "tool_use") |-> OfType(turn, "tool_use")[k].use]
ThoughtsOf(turn) == [k \in DOMAIN OfType(turn, "thinking") |-> OfType(turn, "thinking")[k].word]
OccursIn(ts, type) ==
  {c \in ToolUses : \E i \in DOMAIN ts : \E k \in DOMAIN ts[i].blocks :
                      ts[i].blocks[k].type = type /\ ts[i].blocks[k].use = c}

\* An assistant's turn is one message, ahead of the results of its calls.
TurnHeld(ms, turn) ==
  turn.role = "assistant" /\ UsesOf(turn) # <<>> =>
    \E j \in DOMAIN ms : /\ ms[j].role = "assistant" /\ ms[j].calls = UsesOf(turn)
                         /\ ms[j].reasoning = ThoughtsOf(turn)
                         /\ \A k \in 1 .. j : ms[k].answers \notin Range(ms[j].calls)

\* The results of a turn are among the messages, with their content.
TurnAnswers(ms, turn) ==
  \A k \in DOMAIN turn.blocks : turn.blocks[k].type = "tool_result" =>
    \E j \in DOMAIN ms : /\ ms[j].answers = turn.blocks[k].use
                         /\ ms[j].words = toToolResultContent(turn.blocks[k].content)

TurnsInv ==
  /\ wants \in Asks /\ turns \in Seq(TurnsTaken) /\ midTurn \in BOOLEAN /\ out \in Seq(MessagesOut)
  /\ parts \in Seq(Wordings) /\ uses \in Seq(ToolUses) /\ thoughts \in Seq(Wordings)
  /\ wants.system # <<>> => turns = <<>>
  /\ turns = <<>> => out = <<>>
  /\ ~midTurn => parts = <<>> /\ uses = <<>> /\ thoughts = <<>>
  /\ midTurn => turns # <<>>
  /\ midTurn /\ Turn.role = "assistant" => uses = UsesOf(Turn) /\ thoughts = ThoughtsOf(Turn)
  /\ midTurn /\ Turn.role # "assistant" => uses = <<>> /\ thoughts = <<>>
  /\ HeardIn(out) \o SaidIn(parts) = ToldIn(turns)
  /\ Range(uses) \subseteq OccursIn(turns, "tool_use") /\ Range(uses) \cap OccursIn(turns, "tool_result") = {}
  /\ OccursIn(turns, "tool_result") \subseteq OccursIn(turns, "tool_use")
  /\ \A j \in DOMAIN out : out[j].answers \in OccursIn(turns, "tool_result") \cup {Absent}
  /\ \A i \in DOMAIN turns : TurnAnswers(out, turns[i]) /\ (TurnHeld(out, turns[i]) \/ (midTurn /\ i = Len(turns)))

LEMMA BlocksSay ==
  ASSUME NEW block \in BlocksRead
  PROVE  Says(block) \in Seq(Things)
<1>1. <<>> \in Seq(Things) /\ \A x \in Things : <<x>> \in Seq(Things)
  OBVIOUS
<1>2. CASE block \in [type : {"text", "image", "thinking", "document"}, word : Wordings]
  <2>1. [type |-> "said", what |-> block.word] \in Things
    BY <1>2 DEF Things
  <2>2. Says(block) = <<>> \/ Says(block) = <<[type |-> "said", what |-> block.word]>>
    BY <1>2 DEF Says
  <2> DEFINE x == [type |-> "said", what |-> block.word]
  <2> HIDE DEF x
  <2>3. x \in Things /\ (Says(block) = <<>> \/ Says(block) = <<x>>)
    BY <2>1, <2>2 DEF x
  <2> QED
    BY <1>1, <2>3
<1>3. CASE block \in [type : {"tool_use"}, use : ToolUses]
  BY <1>3 DEF Says
<1>4. CASE block \in [type : {"tool_result"}, use : ToolUses, content : Seq(Wordings)]
  <2> DEFINE x == [type |-> "answered", what |-> block.use]
  <2>1. x \in Things /\ Says(block) = <<x>>
    BY <1>4 DEF Things, Says
  <2> HIDE DEF x
  <2> QED
    BY <1>1, <2>1
<1> QED
  BY <1>2, <1>3, <1>4 DEF BlocksRead

\* Words that are said.
LEMMA WordsSay ==
  ASSUME NEW words \in Seq(Wordings)
  PROVE  /\ SaidIn(words) \in Seq(Things) /\ Len(SaidIn(words)) = Len(words)
         /\ \A w \in Wordings : SaidIn(Append(words, w)) = Append(SaidIn(words), [type |-> "said", what |-> w])
         /\ \A w \in Wordings : [type |-> "said", what |-> w] \in Things
<1> DEFINE f == [w \in Wordings |-> [type |-> "said", what |-> w]]
<1>1. \A w \in Wordings : [type |-> "said", what |-> w] \in Things
  BY DEF Things
<1>2. f \in [Wordings -> Things] /\ \A w \in Wordings : f[w] = [type |-> "said", what |-> w]
  BY <1>1
<1> HIDE DEF f
<1>3. \A r \in Seq(Wordings) : SaidIn(r) = Mapped(r, f)
  BY <1>2 DEF SaidIn, Mapped
<1>4. ASSUME NEW w \in Wordings
      PROVE  /\ Mapped(words, f) \in Seq(Things) /\ Len(Mapped(words, f)) = Len(words)
             /\ Mapped(Append(words, w), f) = Append(Mapped(words, f), f[w])
  BY <1>2, MappedTells, MappedGrows
<1>5. "document" \in Wordings
  BY DEF Wordings
<1>6. \A w \in Wordings : Append(words, w) \in Seq(Wordings)
  OBVIOUS
<1> QED
  BY <1>1, <1>2, <1>3, <1>4, <1>5, <1>6

LEMMA MessagesSay ==
  ASSUME NEW m \in MessagesOut
  PROVE  /\ HeardTurns(m) \in Seq(Things)
         /\ m.role # "tool" => HeardTurns(m) = SaidIn(m.words)
<1>1. m.words \in Seq(Wordings) /\ m.answers \in ToolUses \cup {Absent}
  BY DEF MessagesOut
<1>2. CASE m.role = "tool"
  <2> DEFINE x == [type |-> "answered", what |-> m.answers]
  <2>1. x \in Things /\ HeardTurns(m) = <<x>>
    BY <1>1, <1>2 DEF Things, HeardTurns
  <2> HIDE DEF x
  <2> QED
    BY <1>2, <2>1
<1>3. CASE m.role # "tool"
  <2>1. HeardTurns(m) = SaidIn(m.words)
    BY <1>3 DEF HeardTurns, SaidIn
  <2> QED
    BY <1>1, <2>1, WordsSay
<1> QED
  BY <1>2, <1>3

\* A block more, a turn more, a message more.
LEMMA ToldGrows ==
  ASSUME NEW turn \in TurnsTaken, NEW more \in TurnsTaken, NEW block \in BlocksRead,
         more.blocks = Append(turn.blocks, block)
  PROVE  ToldOf(turn) \in Seq(Things) /\ ToldOf(more) = ToldOf(turn) \o Says(block)
<1> DEFINE f == [b \in BlocksRead |-> Says(b)]
<1>1. f \in [BlocksRead -> Seq(Things)] /\ \A b \in BlocksRead : f[b] = Says(b)
  BY BlocksSay
<1>2. turn.blocks \in Seq(BlocksRead) /\ more.blocks \in Seq(BlocksRead)
  BY DEF TurnsTaken
<1> HIDE DEF f
<1>3. \A t \in TurnsTaken : ToldOf(t) = Joint(Mapped(t.blocks, f))
  <2> SUFFICES ASSUME NEW t \in TurnsTaken PROVE ToldOf(t) = Joint(Mapped(t.blocks, f))
    OBVIOUS
  <2>1. t.blocks \in Seq(BlocksRead)
    BY DEF TurnsTaken
  <2>2. [k \in DOMAIN t.blocks |-> Says(t.blocks[k])] = Mapped(t.blocks, f)
    BY <1>1, <2>1 DEF Mapped
  <2> QED
    BY <2>2 DEF ToldOf
<1>4. /\ Joint(Mapped(turn.blocks, f)) \in Seq(Things)
      /\ Joint(Mapped(Append(turn.blocks, block), f)) = Joint(Mapped(turn.blocks, f)) \o f[block]
  <2> DEFINE blocks == turn.blocks
  <2>1. f \in [BlocksRead -> Seq(Things)] /\ blocks \in Seq(BlocksRead)
    BY <1>1, <1>2
  <2> HIDE DEF blocks
  <2>2. Joint(Mapped(blocks, f)) \in Seq(Things)
        /\ Joint(Mapped(Append(blocks, block), f)) = Joint(Mapped(blocks, f)) \o f[block]
    BY <2>1, JoinedGrows
  <2> QED
    BY <2>2 DEF blocks
<1> QED
  BY <1>1, <1>3, <1>4

LEMMA TurnsTell ==
  ASSUME NEW turn \in TurnsTaken
  PROVE  ToldOf(turn) \in Seq(Things)
<1> DEFINE block == [type |-> "document", word |-> "document"]
           more == [role |-> turn.role, blocks |-> Append(turn.blocks, block)]
<1>1. block \in BlocksRead
  BY DEF BlocksRead, Wordings
<1> HIDE DEF block
<1>2. turn.role \in {"user", "assistant"} /\ Append(turn.blocks, block) \in Seq(BlocksRead)
  BY <1>1 DEF TurnsTaken
<1>3. more \in TurnsTaken /\ more.blocks = Append(turn.blocks, block)
  BY <1>2 DEF TurnsTaken
<1> HIDE DEF more
<1> QED
  BY <1>1, <1>3, ToldGrows

LEMMA ToldInGrows ==
  ASSUME NEW ts \in Seq(TurnsTaken), NEW turn \in TurnsTaken
  PROVE  ToldIn(ts) \in Seq(Things) /\ ToldIn(Append(ts, turn)) = ToldIn(ts) \o ToldOf(turn)
<1> DEFINE f == [t \in TurnsTaken |-> ToldOf(t)]
<1>1. f \in [TurnsTaken -> Seq(Things)] /\ \A t \in TurnsTaken : f[t] = ToldOf(t)
  BY TurnsTell
<1> HIDE DEF f
<1>2. \A s \in Seq(TurnsTaken) : ToldIn(s) = Joint(Mapped(s, f))
  <2> SUFFICES ASSUME NEW s \in Seq(TurnsTaken) PROVE ToldIn(s) = Joint(Mapped(s, f))
    OBVIOUS
  <2>1. [i \in DOMAIN s |-> ToldOf(s[i])] = Mapped(s, f)
    BY <1>1 DEF Mapped
  <2> QED
    BY <2>1 DEF ToldIn
<1>3. Joint(Mapped(ts, f)) \in Seq(Things) /\ Joint(Mapped(Append(ts, turn), f)) = Joint(Mapped(ts, f)) \o f[turn]
  BY <1>1, JoinedGrows
<1>4. Append(ts, turn) \in Seq(TurnsTaken)
  OBVIOUS
<1> QED
  BY <1>1, <1>2, <1>3, <1>4

LEMMA HeardInGrows ==
  ASSUME NEW ms \in Seq(MessagesOut), NEW m \in MessagesOut
  PROVE  HeardIn(ms) \in Seq(Things) /\ HeardIn(Append(ms, m)) = HeardIn(ms) \o HeardTurns(m)
<1> DEFINE f == [x \in MessagesOut |-> HeardTurns(x)]
<1>1. f \in [MessagesOut -> Seq(Things)] /\ \A x \in MessagesOut : f[x] = HeardTurns(x)
  BY MessagesSay
<1> HIDE DEF f
<1>2. \A s \in Seq(MessagesOut) : HeardIn(s) = Joint(Mapped(s, f))
  <2> SUFFICES ASSUME NEW s \in Seq(MessagesOut) PROVE HeardIn(s) = Joint(Mapped(s, f))
    OBVIOUS
  <2>1. [i \in DOMAIN s |-> HeardTurns(s[i])] = Mapped(s, f)
    BY <1>1 DEF Mapped
  <2> QED
    BY <2>1 DEF HeardIn
<1>3. Joint(Mapped(ms, f)) \in Seq(Things) /\ Joint(Mapped(Append(ms, m), f)) = Joint(Mapped(ms, f)) \o f[m]
  BY <1>1, JoinedGrows
<1>4. Append(ms, m) \in Seq(MessagesOut)
  OBVIOUS
<1> QED
  BY <1>1, <1>2, <1>3, <1>4


\* The turns with a block more in the last of them.
WithBlock(ts, block) == [ts EXCEPT ![Len(ts)].blocks = Append(@, block)]

LEMMA BlockGrows ==
  ASSUME NEW ts \in Seq(TurnsTaken), ts # <<>>, NEW block \in BlocksRead
  PROVE  LET n == Len(ts)
             more == WithBlock(ts, block)
         IN  /\ n \in Nat \ {0} /\ ts[n] \in TurnsTaken
             /\ more \in Seq(TurnsTaken) /\ Len(more) = n /\ more[n] \in TurnsTaken
             /\ more[n].role = ts[n].role /\ more[n].blocks = Append(ts[n].blocks, block)
             /\ \A i \in 1 .. n - 1 : more[i] = ts[i]
<1> DEFINE n == Len(ts)
           turn == ts[n]
           new == [turn EXCEPT !.blocks = Append(turn.blocks, block)]
           more == [ts EXCEPT ![n] = new]
<1>1. n \in Nat \ {0} /\ turn \in TurnsTaken /\ n \in DOMAIN ts /\ DOMAIN ts = 1 .. n
  BY LastApart
<1>2. WithBlock(ts, block) = more
  BY DEF WithBlock
<1>3. turn.role \in {"user", "assistant"} /\ Append(turn.blocks, block) \in Seq(BlocksRead)
  BY <1>1 DEF TurnsTaken
<1> DEFINE blocks == Append(turn.blocks, block)
<1>4. new.role = turn.role /\ new.blocks = blocks /\ new \in TurnsTaken
  <2> HIDE DEF turn, blocks
  <2>1. [turn EXCEPT !.blocks = blocks] \in TurnsTaken /\ [turn EXCEPT !.blocks = blocks].role = turn.role
        /\ [turn EXCEPT !.blocks = blocks].blocks = blocks
    BY <1>1, <1>3 DEF TurnsTaken, blocks
  <2> QED
    BY <2>1 DEF blocks
<1> HIDE DEF new, turn, n
<1>5. more \in Seq(TurnsTaken) /\ DOMAIN more = 1 .. n /\ more[n] = new /\ \A i \in 1 .. n : i # n => more[i] = ts[i]
  BY <1>1, <1>4
<1>6. Len(more) = n /\ \A i \in 1 .. n - 1 : i \in 1 .. n /\ i # n
  BY <1>1, <1>5
<1> HIDE DEF more
<1> QED
  BY <1>1, <1>2, <1>4, <1>5, <1>6 DEF n, turn

LEMMA BlockTold ==
  ASSUME NEW ts \in Seq(TurnsTaken), ts # <<>>, NEW block \in BlocksRead
  PROVE  ToldIn(ts) \in Seq(Things) /\ ToldIn(WithBlock(ts, block)) = ToldIn(ts) \o Says(block)
<1> DEFINE n == Len(ts)
           more == WithBlock(ts, block)
           turn == ts[n]
           new == more[n]
<1>1. /\ n \in Nat \ {0} /\ turn \in TurnsTaken
      /\ more \in Seq(TurnsTaken) /\ Len(more) = n /\ new \in TurnsTaken
      /\ new.blocks = Append(turn.blocks, block)
      /\ \A i \in 1 .. n - 1 : more[i] = ts[i]
  BY BlockGrows
<1>2. PICK f \in Seq(TurnsTaken) : Append(f, turn) = ts /\ Len(f) = n - 1 /\ \A i \in 1 .. n - 1 : f[i] = ts[i]
  BY LastApart
<1> HIDE DEF n, more, turn, new
<1>3. /\ Append(f, new) \in Seq(TurnsTaken) /\ Len(Append(f, new)) = (n - 1) + 1
      /\ Append(f, new)[(n - 1) + 1] = new /\ \A i \in 1 .. n - 1 : Append(f, new)[i] = f[i]
  BY <1>1, <1>2, AppendedTells
<1> DEFINE a == Append(f, new)
<1>4. (n - 1) + 1 = n /\ \A i \in 1 .. n : i = n \/ i \in 1 .. n - 1
  BY <1>1
<1>5. more = a
  <2>1. a \in Seq(TurnsTaken) /\ Len(a) = n /\ a[n] = new /\ \A i \in 1 .. n - 1 : a[i] = f[i]
    BY <1>3, <1>4
  <2> HIDE DEF a
  <2>2. more[n] = new
    BY DEF new
  <2>3. \A i \in 1 .. n : more[i] = a[i]
    BY <1>1, <1>2, <1>4, <2>1, <2>2
  <2> QED
    BY <1>1, <2>1, <2>3, SequencesAgree
<1>6. ToldIn(f) \in Seq(Things) /\ ToldIn(Append(f, turn)) = ToldIn(f) \o ToldOf(turn)
      /\ ToldIn(Append(f, new)) = ToldIn(f) \o ToldOf(new)
  BY <1>1, <1>2, ToldInGrows
<1>7. ToldOf(turn) \in Seq(Things) /\ ToldOf(new) = ToldOf(turn) \o Says(block)
  BY <1>1, ToldGrows
<1> DEFINE b == ToldIn(f)
           t == ToldOf(turn)
           x == Says(block)
<1>8. x \in Seq(Things) /\ b \in Seq(Things) /\ t \in Seq(Things)
  BY <1>6, <1>7, BlocksSay
<1>9. ToldIn(ts) = b \o t /\ ToldIn(more) = b \o (t \o x)
  BY <1>2, <1>5, <1>6, <1>7
<1> HIDE DEF b, t, x
<1>10. b \o t \in Seq(Things) /\ b \o (t \o x) = (b \o t) \o x
  BY <1>8
<1> QED
  BY <1>9, <1>10 DEF more, x

\* The blocks of one kind.
OfKind(type) == {b \in BlocksRead : b.type = type}

LEMMA KindGrows ==
  ASSUME NEW turn \in TurnsTaken, NEW more, NEW block \in BlocksRead, NEW type,
         more.blocks = Append(turn.blocks, block)
  PROVE  /\ OfType(turn, type) \in Seq(OfKind(type))
         /\ block.type = type => OfType(more, type) = Append(OfType(turn, type), block)
         /\ block.type # type => OfType(more, type) = OfType(turn, type)
<1> DEFINE s == turn.blocks
           n == Len(s)
           t == Append(s, block)
           K == {k \in DOMAIN s : s[k].type = type}
           L == {k \in DOMAIN t : t[k].type = type}
           S == OfKind(type)
           r == Subsequence(s, K)
<1>1. s \in Seq(BlocksRead)
  BY DEF TurnsTaken
<1>2. OfType(turn, type) = r /\ OfType(more, type) = Subsequence(t, L)
  BY DEF OfType
<1> HIDE DEF s
<1>3. t \in Seq(BlocksRead) /\ Len(t) = n + 1 /\ t[n + 1] = block /\ \A i \in 1 .. n : t[i] = s[i]
  BY <1>1, AppendedTells
<1>4. n \in Nat /\ DOMAIN s = 1 .. n /\ DOMAIN t = 1 .. n + 1
  BY <1>1, <1>3
<1>5. K \in SUBSET DOMAIN s
  OBVIOUS
<1>6. L = IF block.type = type THEN K \cup {n + 1} ELSE K
  <2> HIDE DEF t, n
  <2>1. /\ \A i \in 1 .. n + 1 : i = n + 1 \/ i \in 1 .. n
        /\ n + 1 \in 1 .. n + 1 /\ n + 1 \notin 1 .. n /\ \A i \in 1 .. n : i \in 1 .. n + 1
    BY <1>4
  <2>2. \A i : i \in L <=> (i \in K \/ (i = n + 1 /\ block.type = type))
    BY <1>3, <1>4, <2>1
  <2> HIDE DEF K, L
  <2> QED
    BY <2>2
<1>7. /\ r \in Seq(BlocksRead) /\ Len(r) = Cardinality(K)
      /\ \A i \in 1 .. Cardinality(K) : Nth(K, i) \in K /\ r[i] = s[Nth(K, i)]
  BY <1>1, <1>5, SubsequenceTells
<1>8. Subsequence(t, K) = r /\ Subsequence(t, K \cup {n + 1}) = Append(r, block)
  BY <1>1, <1>5, SubsequenceGrows
<1>9. r \in Seq(S)
  <2>1. \A i \in 1 .. Len(r) : r[i] \in S
    <3>1. \A k \in K : s[k] \in S
      BY <1>1 DEF OfKind
    <3> HIDE DEF r, K, S
    <3> QED
      BY <1>7, <3>1
  <2> HIDE DEF r, S
  <2> QED
    BY <1>7, <2>1, SeqOfEntries
<1> HIDE DEF r, t, K, L, S, n
<1> QED
  BY <1>2, <1>6, <1>8, <1>9 DEF S

LEMMA KindMapped ==
  ASSUME NEW type, NEW u \in Seq(OfKind(type)), NEW v, NEW block \in BlocksRead,
         block.type = type => v = Append(u, block), block.type # type => v = u, NEW f
  PROVE  /\ v \in Seq(OfKind(type))
         /\ block.type = type => Mapped(v, f) = Append(Mapped(u, f), f[block])
         /\ block.type # type => Mapped(v, f) = Mapped(u, f)
<1> DEFINE S == OfKind(type)
<1>1. block.type = type => block \in S
  BY DEF OfKind
<1> HIDE DEF S
<1>2. u \in Seq(S)
  BY DEF S
<1>3. CASE block.type = type
  <2>1. block \in S /\ v = Append(u, block)
    BY <1>1, <1>3
  <2>2. Mapped(v, f) = Append(Mapped(u, f), f[block])
    BY <1>2, <2>1, MappedGrows
  <2>3. v \in Seq(S)
    BY <1>2, <2>1
  <2> QED
    BY <1>3, <2>2, <2>3 DEF S
<1>4. CASE block.type # type
  BY <1>4
<1> QED
  BY <1>3, <1>4

\* The calls of a turn, and its thoughts.
LEMMA UsesGrow ==
  ASSUME NEW turn \in TurnsTaken, NEW more, NEW block \in BlocksRead,
         more.blocks = Append(turn.blocks, block)
  PROVE  /\ UsesOf(turn) \in Seq(ToolUses)
         /\ block.type = "tool_use" => UsesOf(more) = Append(UsesOf(turn), block.use)
         /\ block.type # "tool_use" => UsesOf(more) = UsesOf(turn)
<1> DEFINE type == "tool_use"
           f == [b \in OfKind(type) |-> b.use]
           u == OfType(turn, type)
           v == OfType(more, type)
<1>1. f \in [OfKind(type) -> ToolUses] /\ \A b \in OfKind(type) : f[b] = b.use
  BY DEF BlocksRead, OfKind
<1>2. block.type = type => block \in OfKind(type)
  BY DEF OfKind
<1>3. UsesOf(turn) = [k \in DOMAIN u |-> u[k].use] /\ UsesOf(more) = [k \in DOMAIN v |-> v[k].use]
  BY DEF UsesOf
<1> HIDE DEF f, type
<1>4. /\ u \in Seq(OfKind(type))
      /\ block.type = type => v = Append(u, block)
      /\ block.type # type => v = u
  BY KindGrows
<1> HIDE DEF u, v
<1>5. /\ u \in Seq(OfKind(type)) /\ v \in Seq(OfKind(type))
      /\ block.type = type => Mapped(v, f) = Append(Mapped(u, f), f[block])
      /\ block.type # type => Mapped(v, f) = Mapped(u, f)
  BY <1>4, KindMapped
<1>6. Mapped(u, f) \in Seq(ToolUses)
  BY <1>1, <1>5, MappedTells
<1>7. UsesOf(turn) = Mapped(u, f) /\ UsesOf(more) = Mapped(v, f)
  BY <1>1, <1>3, <1>5 DEF Mapped
<1> QED
  BY <1>1, <1>2, <1>5, <1>6, <1>7 DEF type

LEMMA ThoughtsGrow ==
  ASSUME NEW turn \in TurnsTaken, NEW more, NEW block \in BlocksRead,
         more.blocks = Append(turn.blocks, block)
  PROVE  /\ ThoughtsOf(turn) \in Seq(Wordings)
         /\ block.type = "thinking" => ThoughtsOf(more) = Append(ThoughtsOf(turn), block.word)
         /\ block.type # "thinking" => ThoughtsOf(more) = ThoughtsOf(turn)
<1> DEFINE type == "thinking"
           f == [b \in OfKind(type) |-> b.word]
           u == OfType(turn, type)
           v == OfType(more, type)
<1>1. f \in [OfKind(type) -> Wordings] /\ \A b \in OfKind(type) : f[b] = b.word
  BY DEF BlocksRead, OfKind
<1>2. block.type = type => block \in OfKind(type)
  BY DEF OfKind
<1>3. ThoughtsOf(turn) = [k \in DOMAIN u |-> u[k].word] /\ ThoughtsOf(more) = [k \in DOMAIN v |-> v[k].word]
  BY DEF ThoughtsOf
<1> HIDE DEF f, type
<1>4. /\ u \in Seq(OfKind(type))
      /\ block.type = type => v = Append(u, block)
      /\ block.type # type => v = u
  BY KindGrows
<1> HIDE DEF u, v
<1>5. /\ u \in Seq(OfKind(type)) /\ v \in Seq(OfKind(type))
      /\ block.type = type => Mapped(v, f) = Append(Mapped(u, f), f[block])
      /\ block.type # type => Mapped(v, f) = Mapped(u, f)
  BY <1>4, KindMapped
<1>6. Mapped(u, f) \in Seq(Wordings)
  BY <1>1, <1>5, MappedTells
<1>7. ThoughtsOf(turn) = Mapped(u, f) /\ ThoughtsOf(more) = Mapped(v, f)
  BY <1>1, <1>3, <1>5 DEF Mapped
<1> QED
  BY <1>1, <1>2, <1>5, <1>6, <1>7 DEF type

\* A turn that begins has no calls and no thoughts.
LEMMA NoneOfType ==
  ASSUME NEW turn, turn.blocks = <<>>
  PROVE  UsesOf(turn) = <<>> /\ ThoughtsOf(turn) = <<>> /\ ToldOf(turn) = <<>>
<1>1. Subsequence(<<>>, {}) = <<>>
  <2> DEFINE none == <<>>
  <2>1. none \in Seq(BlocksRead)
    OBVIOUS
  <2> HIDE DEF none
  <2>2. Subsequence(none, {}) = <<>>
    BY <2>1, SubsequenceEnds
  <2> QED
    BY <2>2 DEF none
<1>2. \A type : OfType(turn, type) = <<>>
  <2>1. ASSUME NEW type PROVE {k \in DOMAIN turn.blocks : turn.blocks[k].type = type} = {}
    OBVIOUS
  <2> QED
    BY <1>1, <2>1 DEF OfType
<1>3. UsesOf(turn) = <<>> /\ ThoughtsOf(turn) = <<>>
  BY <1>2 DEF UsesOf, ThoughtsOf
<1>4. [k \in DOMAIN turn.blocks |-> Says(turn.blocks[k])] = <<>>
  OBVIOUS
<1>5. ToldOf(turn) = <<>>
  BY <1>4, JointGrows DEF ToldOf
<1> QED
  BY <1>3, <1>5

\* What occurs in the turns.
LEMMA OccursTells == \A type : Occurs(type) = OccursIn(turns, type)
BY DEF Occurs, OccursIn, Range

LEMMA OccursMore ==
  ASSUME NEW ts \in Seq(TurnsTaken), ts # <<>>, NEW block \in BlocksRead, NEW type
  PROVE  /\ block.type = type => OccursIn(WithBlock(ts, block), type) = OccursIn(ts, type) \cup ({block.use} \cap ToolUses)
         /\ block.type # type => OccursIn(WithBlock(ts, block), type) = OccursIn(ts, type)
<1> DEFINE n == Len(ts)
           more == WithBlock(ts, block)
           s == ts[n].blocks
           t == more[n].blocks
           m == Len(s)
           Meets(b, c) == b.type = type /\ b.use = c
<1>1. /\ n \in Nat \ {0} /\ ts[n] \in TurnsTaken /\ Len(more) = n /\ more \in Seq(TurnsTaken)
      /\ t = Append(s, block) /\ \A i \in 1 .. n - 1 : more[i] = ts[i]
  BY BlockGrows
<1>2. s \in Seq(BlocksRead)
  BY <1>1 DEF TurnsTaken
<1>3. DOMAIN ts = 1 .. n /\ DOMAIN more = 1 .. n
  BY <1>1
<1>4. \A i : i \in 1 .. n <=> (i = n \/ i \in 1 .. n - 1)
  BY <1>1
<1>5. \A c : c \in OccursIn(ts, type) <=>
               c \in ToolUses /\ ((\E k \in DOMAIN s : Meets(s[k], c))
                                  \/ \E i \in 1 .. n - 1 : \E k \in DOMAIN ts[i].blocks : Meets(ts[i].blocks[k], c))
  BY <1>3, <1>4 DEF OccursIn
<1>6. \A c : c \in OccursIn(more, type) <=>
               c \in ToolUses /\ ((\E k \in DOMAIN t : Meets(t[k], c))
                                  \/ \E i \in 1 .. n - 1 : \E k \in DOMAIN ts[i].blocks : Meets(ts[i].blocks[k], c))
  <2> HIDE DEF more
  <2> QED
    BY <1>1, <1>3, <1>4 DEF OccursIn
<1> HIDE DEF s, t, n, more
<1>7. /\ Len(t) = m + 1 /\ t[m + 1] = block /\ \A k \in 1 .. m : t[k] = s[k]
      /\ t \in Seq(BlocksRead)
  BY <1>1, <1>2, AppendedTells
<1>8. m \in Nat /\ DOMAIN s = 1 .. m /\ DOMAIN t = 1 .. m + 1
  BY <1>2, <1>7
<1> HIDE DEF m, Meets
<1>9. \A k : k \in 1 .. m + 1 <=> (k = m + 1 \/ k \in 1 .. m)
  BY <1>8
<1>10. \A c : (\E k \in DOMAIN t : Meets(t[k], c)) <=> (Meets(block, c) \/ \E k \in DOMAIN s : Meets(s[k], c))
  BY <1>7, <1>8, <1>9
<1>11. \A c : c \in OccursIn(more, type) <=> (c \in OccursIn(ts, type) \/ (c \in ToolUses /\ Meets(block, c)))
  BY <1>5, <1>6, <1>10
<1>12. CASE block.type = type
  BY <1>11, <1>12 DEF Meets, more
<1>13. CASE block.type # type
  BY <1>11, <1>13 DEF Meets, more
<1> QED
  BY <1>12, <1>13

\* Turns without calls or results change neither.
LEMMA OccursSame ==
  ASSUME NEW ts \in Seq(TurnsTaken), NEW turn \in TurnsTaken, NEW type,
         \A k \in DOMAIN turn.blocks : turn.blocks[k].type # type
  PROVE  OccursIn(Append(ts, turn), type) = OccursIn(ts, type)
<1> DEFINE n == Len(ts)
           more == Append(ts, turn)
           Meets(t, c) == \E k \in DOMAIN t.blocks : t.blocks[k].type = type /\ t.blocks[k].use = c
<1>1. /\ more \in Seq(TurnsTaken) /\ Len(more) = n + 1 /\ more[n + 1] = turn /\ \A i \in 1 .. n : more[i] = ts[i]
      /\ n \in Nat
  BY AppendedTells
<1>2. DOMAIN ts = 1 .. n /\ DOMAIN more = 1 .. n + 1
  BY <1>1
<1>3. \A c : ~ Meets(turn, c)
  OBVIOUS
<1>4. \A c : c \in OccursIn(ts, type) <=> c \in ToolUses /\ \E i \in 1 .. n : Meets(ts[i], c)
  BY <1>2 DEF OccursIn
<1>5. \A c : c \in OccursIn(more, type) <=> c \in ToolUses /\ \E i \in 1 .. n + 1 : Meets(more[i], c)
  BY <1>2 DEF OccursIn
<1> HIDE DEF n, more, Meets
<1>6. \A i : i \in 1 .. n + 1 <=> (i = n + 1 \/ i \in 1 .. n)
  BY <1>1
<1>7. \A c : c \in OccursIn(more, type) <=> c \in OccursIn(ts, type)
  BY <1>1, <1>3, <1>4, <1>5, <1>6
<1> QED
  BY <1>7 DEF more


\* A block is taken: the last turn has it behind its others.
LEMMA TakenTells ==
  ASSUME TurnsInv, NEW block \in BlocksRead, TakeBlock(block)
  PROVE  /\ midTurn /\ midTurn' = midTurn /\ wants' = wants /\ wants' \in Asks /\ wants'.system = <<>>
         /\ Len(turns) \in Nat \ {0} /\ DOMAIN turns = 1 .. Len(turns) /\ Turn \in TurnsTaken
         /\ turns' \in Seq(TurnsTaken) /\ Len(turns') = Len(turns) /\ turns' # <<>>
         /\ Turn' \in TurnsTaken /\ Turn'.role = Turn.role /\ Turn'.blocks = Append(Turn.blocks, block)
         /\ Turn' = turns'[Len(turns)]
         /\ \A i \in 1 .. Len(turns) - 1 : turns'[i] = turns[i]
         /\ ToldIn(turns) \in Seq(Things) /\ ToldIn(turns') = ToldIn(turns) \o Says(block)
         /\ \A type : /\ block.type = type =>
                           OccursIn(turns', type) = OccursIn(turns, type) \cup ({block.use} \cap ToolUses)
                      /\ block.type # type => OccursIn(turns', type) = OccursIn(turns, type)
<1>1. midTurn /\ midTurn' = midTurn /\ wants' = wants /\ turns' = WithBlock(turns, block)
  BY DEF TakeBlock, WithBlock
<1>2. turns \in Seq(TurnsTaken) /\ turns # <<>> /\ wants \in Asks /\ wants.system = <<>>
  BY <1>1 DEF TurnsInv
<1> DEFINE n == Len(turns)
           more == WithBlock(turns, block)
<1>3. /\ n \in Nat \ {0} /\ turns[n] \in TurnsTaken
      /\ more \in Seq(TurnsTaken) /\ Len(more) = n /\ more[n] \in TurnsTaken
      /\ more[n].role = turns[n].role /\ more[n].blocks = Append(turns[n].blocks, block)
      /\ \A i \in 1 .. n - 1 : more[i] = turns[i]
  BY <1>2, BlockGrows
<1>4. ToldIn(turns) \in Seq(Things) /\ ToldIn(more) = ToldIn(turns) \o Says(block)
  BY <1>2, BlockTold
<1>5. \A type : /\ block.type = type => OccursIn(more, type) = OccursIn(turns, type) \cup ({block.use} \cap ToolUses)
                /\ block.type # type => OccursIn(more, type) = OccursIn(turns, type)
  BY <1>2, OccursMore
<1> HIDE DEF more
<1>6. Turn = turns[n] /\ turns' = more /\ Turn' = more[n]
  BY <1>1, <1>3 DEF Turn, more
<1>7. more # <<>> /\ DOMAIN turns = 1 .. n
  BY <1>2, <1>3
<1> QED
  BY <1>1, <1>2, <1>3, <1>4, <1>5, <1>6, <1>7

\* Messages behind the others take nothing back.
LEMMA HeldStays ==
  ASSUME NEW ms, NEW more, DOMAIN ms \subseteq DOMAIN more, \A i \in DOMAIN ms : 1 .. i \subseteq DOMAIN ms,
         \A i \in DOMAIN ms : more[i] = ms[i], NEW turn
  PROVE  (TurnHeld(ms, turn) => TurnHeld(more, turn)) /\ (TurnAnswers(ms, turn) => TurnAnswers(more, turn))
<1>1. ASSUME TurnHeld(ms, turn), turn.role = "assistant", UsesOf(turn) # <<>>
      PROVE  \E j \in DOMAIN more : /\ more[j].role = "assistant" /\ more[j].calls = UsesOf(turn)
                                    /\ more[j].reasoning = ThoughtsOf(turn)
                                    /\ \A k \in 1 .. j : more[k].answers \notin Range(more[j].calls)
  <2>1. PICK j \in DOMAIN ms : /\ ms[j].role = "assistant" /\ ms[j].calls = UsesOf(turn)
                               /\ ms[j].reasoning = ThoughtsOf(turn)
                               /\ \A k \in 1 .. j : ms[k].answers \notin Range(ms[j].calls)
    BY <1>1 DEF TurnHeld
  <2>2. \A k \in 1 .. j : more[k] = ms[k]
    OBVIOUS
  <2>3. more[j] = ms[j] /\ j \in DOMAIN more
    OBVIOUS
  <2> QED
    BY <2>1, <2>2, <2>3
<1>2. ASSUME TurnAnswers(ms, turn) PROVE TurnAnswers(more, turn)
  BY <1>2 DEF TurnAnswers
<1> QED
  BY <1>1, <1>2 DEF TurnHeld

LEMMA HeardTell ==
  ASSUME NEW ms \in Seq(MessagesOut)
  PROVE  HeardIn(ms) \in Seq(Things)
<1> DEFINE f == [x \in MessagesOut |-> HeardTurns(x)]
<1>1. f \in [MessagesOut -> Seq(Things)] /\ \A x \in MessagesOut : f[x] = HeardTurns(x)
  BY MessagesSay
<1> HIDE DEF f
<1> DEFINE t == Mapped(ms, f)
<1>2. HeardIn(ms) = Joint(t)
  BY <1>1 DEF HeardIn, Mapped
<1>3. t \in Seq(Seq(Things))
  BY <1>1, MappedTells
<1> HIDE DEF t
<1>4. <<>> \in Seq(Things)
  OBVIOUS
<1>5. Joint(t) \in Seq(Things)
  BY <1>3, <1>4, JointGrows
<1> QED
  BY <1>2, <1>5

LEMMA RangeGrows ==
  ASSUME NEW X, NEW s \in Seq(X), NEW x \in X
  PROVE  Range(Append(s, x)) = Range(s) \cup {x}
<1> DEFINE n == Len(s)
           more == Append(s, x)
<1>1. more \in Seq(X) /\ Len(more) = n + 1 /\ more[n + 1] = x /\ \A i \in 1 .. n : more[i] = s[i]
  BY AppendedTells
<1>2. n \in Nat /\ DOMAIN s = 1 .. n /\ DOMAIN more = 1 .. n + 1
  BY <1>1
<1> HIDE DEF more, n
<1>3. \A i : i \in 1 .. n + 1 <=> (i = n + 1 \/ i \in 1 .. n)
  BY <1>2
<1>4. Range(more) = Range(s) \cup {x}
  BY <1>1, <1>2, <1>3 DEF Range
<1> QED
  BY <1>4 DEF more

\* A block that is no result needs no answer.
LEMMA AnswersStay ==
  ASSUME NEW ms, NEW turn, turn.blocks \in Seq(BlocksRead), TurnAnswers(ms, turn), NEW new,
         NEW block \in BlocksRead, new.blocks = Append(turn.blocks, block),
         \/ block.type # "tool_result"
         \/ \E j \in DOMAIN ms : ms[j].answers = block.use /\ ms[j].words = toToolResultContent(block.content)
  PROVE  TurnAnswers(ms, new)
<1> DEFINE s == turn.blocks
           t == new.blocks
           m == Len(s)
<1>1. /\ t \in Seq(BlocksRead) /\ Len(t) = m + 1 /\ t[m + 1] = block /\ \A k \in 1 .. m : t[k] = s[k]
      /\ m \in Nat /\ DOMAIN s = 1 .. m
  BY AppendedTells
<1>2. DOMAIN t = 1 .. m + 1
  BY <1>1
<1> DEFINE Answered_(b) == b.type = "tool_result" =>
                            \E j \in DOMAIN ms : ms[j].answers = b.use /\ ms[j].words = toToolResultContent(b.content)
<1>3. \A k \in DOMAIN s : Answered_(s[k])
  BY DEF TurnAnswers
<1>4. Answered_(block)
  OBVIOUS
<1> HIDE DEF s, t, m, Answered_
<1>5. \A k : k \in 1 .. m + 1 <=> (k = m + 1 \/ k \in 1 .. m)
  BY <1>1
<1>6. \A k \in DOMAIN t : Answered_(t[k])
  BY <1>1, <1>2, <1>3, <1>4, <1>5
<1> QED
  BY <1>6 DEF TurnAnswers, t, Answered_

\* A block that writes nothing yet.
LEMMA TakenQuietly ==
  ASSUME TurnsInv, NEW block \in BlocksRead, TakeBlock(block), block.type # "tool_result", out' = out,
         parts' \in Seq(Wordings), SaidIn(parts') = SaidIn(parts) \o Says(block),
         \/ /\ block.type = "tool_use" /\ Turn.role = "assistant" /\ block.use \in ToolUses
            /\ block.use \notin OccursIn(turns, "tool_use") /\ uses' = Append(uses, block.use)
         \/ block.type # "tool_use" /\ uses' = uses,
         \/ /\ block.type = "thinking" /\ Turn.role = "assistant" /\ block.word \in Wordings
            /\ thoughts' = Append(thoughts, block.word)
         \/ block.type # "thinking" /\ thoughts' = thoughts
  PROVE  TurnsInv'
<1> DEFINE n == Len(turns)
           turn == Turn
           new == Turn'
<1>1. /\ midTurn /\ midTurn' = midTurn /\ wants' = wants /\ wants' \in Asks /\ wants'.system = <<>>
      /\ n \in Nat \ {0} /\ DOMAIN turns = 1 .. n /\ turn \in TurnsTaken
      /\ turns' \in Seq(TurnsTaken) /\ Len(turns') = n /\ turns' # <<>>
      /\ new \in TurnsTaken /\ new.role = turn.role /\ new.blocks = Append(turn.blocks, block)
      /\ new = turns'[n] /\ \A i \in 1 .. n - 1 : turns'[i] = turns[i]
      /\ ToldIn(turns) \in Seq(Things) /\ ToldIn(turns') = ToldIn(turns) \o Says(block)
  BY TakenTells
<1>2. /\ out \in Seq(MessagesOut) /\ parts \in Seq(Wordings) /\ uses \in Seq(ToolUses) /\ thoughts \in Seq(Wordings)
      /\ HeardIn(out) \o SaidIn(parts) = ToldIn(turns)
      /\ turn.role = "assistant" => uses = UsesOf(turn) /\ thoughts = ThoughtsOf(turn)
      /\ turn.role # "assistant" => uses = <<>> /\ thoughts = <<>>
  BY <1>1 DEF TurnsInv
<1>3. uses' \in Seq(ToolUses) /\ thoughts' \in Seq(Wordings)
  <2>1. \A c \in ToolUses : Append(uses, c) \in Seq(ToolUses)
    BY <1>2
  <2>2. \A w \in Wordings : Append(thoughts, w) \in Seq(Wordings)
    BY <1>2
  <2>3. uses' \in Seq(ToolUses)
    BY <1>2, <2>1
  <2>4. thoughts' \in Seq(Wordings)
    <3>1. CASE block.word \in Wordings /\ thoughts' = Append(thoughts, block.word)
      BY <2>2, <3>1
    <3>2. CASE thoughts' = thoughts
      BY <1>2, <3>2
    <3> QED
      BY <3>1, <3>2
  <2> QED
    BY <2>3, <2>4
<1>4. /\ block.type = "tool_use" => UsesOf(new) = Append(UsesOf(turn), block.use)
      /\ block.type # "tool_use" => UsesOf(new) = UsesOf(turn)
      /\ block.type = "thinking" => ThoughtsOf(new) = Append(ThoughtsOf(turn), block.word)
      /\ block.type # "thinking" => ThoughtsOf(new) = ThoughtsOf(turn)
  <2>1. turn \in TurnsTaken /\ new.blocks = Append(turn.blocks, block)
    BY <1>1
  <2> HIDE DEF turn, new
  <2>2. /\ block.type = "tool_use" => UsesOf(new) = Append(UsesOf(turn), block.use)
        /\ block.type # "tool_use" => UsesOf(new) = UsesOf(turn)
    BY <2>1, UsesGrow
  <2>3. /\ block.type = "thinking" => ThoughtsOf(new) = Append(ThoughtsOf(turn), block.word)
        /\ block.type # "thinking" => ThoughtsOf(new) = ThoughtsOf(turn)
    BY <2>1, ThoughtsGrow
  <2> QED
    BY <2>2, <2>3
<1>5. /\ new.role = "assistant" => uses' = UsesOf(new) /\ thoughts' = ThoughtsOf(new)
      /\ new.role # "assistant" => uses' = <<>> /\ thoughts' = <<>>
  BY <1>1, <1>2, <1>4
<1>6. HeardIn(out') \o SaidIn(parts') = ToldIn(turns')
  <2> DEFINE h == HeardIn(out)
             s == SaidIn(parts)
             x == Says(block)
  <2>1. h \in Seq(Things) /\ s \in Seq(Things) /\ x \in Seq(Things)
    BY <1>2, WordsSay, BlocksSay, HeardTell
  <2>2. HeardIn(out') \o SaidIn(parts') = h \o (s \o x) /\ ToldIn(turns') = (h \o s) \o x
    BY <1>1, <1>2
  <2> HIDE DEF h, s, x
  <2> QED
    BY <2>1, <2>2
<1>7. /\ Range(uses') \subseteq OccursIn(turns', "tool_use") /\ Range(uses') \cap OccursIn(turns', "tool_result") = {}
      /\ OccursIn(turns', "tool_result") \subseteq OccursIn(turns', "tool_use")
      /\ OccursIn(turns', "tool_result") = OccursIn(turns, "tool_result")
  <2> DEFINE used == OccursIn(turns, "tool_use")
             answered == OccursIn(turns, "tool_result")
             used1 == OccursIn(turns', "tool_use")
             answered1 == OccursIn(turns', "tool_result")
  <2>1. /\ block.type = "tool_use" => used1 = used \cup ({block.use} \cap ToolUses)
        /\ block.type # "tool_use" => used1 = used
        /\ answered1 = answered
    BY TakenTells
  <2>2. Range(uses) \subseteq used /\ Range(uses) \cap answered = {} /\ answered \subseteq used
    BY DEF TurnsInv
  <2>3. \A c \in ToolUses : Range(Append(uses, c)) = Range(uses) \cup {c}
    BY <1>2, RangeGrows
  <2> HIDE DEF used, answered, used1, answered1
  <2>4. CASE block.type = "tool_use"
    <3>1. /\ block.use \in ToolUses /\ block.use \notin used /\ uses' = Append(uses, block.use)
          /\ used1 = used \cup {block.use}
      BY <2>1, <2>4 DEF used
    <3>2. Range(uses') = Range(uses) \cup {block.use}
      BY <2>3, <3>1
    <3> QED
      BY <2>1, <2>2, <3>1, <3>2 DEF answered, used1, answered1
  <2>5. CASE block.type # "tool_use"
    BY <2>1, <2>2, <2>5 DEF answered, used1, answered1
  <2> QED
    BY <2>4, <2>5
<1>8. \A j \in DOMAIN out' : out'[j].answers \in OccursIn(turns', "tool_result") \cup {Absent}
  BY <1>7 DEF TurnsInv
<1>9. ASSUME NEW i \in DOMAIN turns'
      PROVE  TurnAnswers(out', turns'[i]) /\ (TurnHeld(out', turns'[i]) \/ (midTurn' /\ i = Len(turns')))
  <2>1. i \in 1 .. n /\ (i = n \/ i \in 1 .. n - 1)
    BY <1>1
  <2>2. TurnAnswers(out, turns[i]) /\ (TurnHeld(out, turns[i]) \/ (midTurn /\ i = n))
    BY <1>1, <2>1 DEF TurnsInv
  <2>3. CASE i \in 1 .. n - 1
    <3>1. \A k \in 1 .. n - 1 : turns'[k] = turns[k]
      BY <1>1
    <3>2. n \in Nat
      BY <1>1
    <3>3. \A m \in Nat : \A k \in 1 .. m - 1 : k # m
      OBVIOUS
    <3>4. turns'[i] = turns[i] /\ i # n
      BY <2>3, <3>1, <3>2, <3>3
    <3> QED
      BY <2>2, <3>4
  <2>4. CASE i = n
    <3>1. TurnAnswers(out, turn)
      BY <2>2, <2>4 DEF Turn
    <3>2. turn.blocks \in Seq(BlocksRead)
      BY <1>1 DEF TurnsTaken
    <3>3. TurnAnswers(out, new)
      BY <1>1, <3>1, <3>2, AnswersStay
    <3> QED
      BY <1>1, <2>4, <3>3
  <2> QED
    BY <2>1, <2>3, <2>4
<1> HIDE DEF turn, new
<1>10. midTurn' => Turn' = new
  BY DEF new
<1> QED
  BY <1>1, <1>2, <1>3, <1>5, <1>6, <1>7, <1>8, <1>9 DEF TurnsInv, new


\* Whatever is pending is written as the turn it is of.
LEMMA PendingTells ==
  ASSUME TurnsInv
  PROVE  LET ms == out \o Pending
         IN  /\ ms \in Seq(MessagesOut) /\ HeardIn(ms) = ToldIn(turns)
             /\ DOMAIN out \subseteq DOMAIN ms /\ \A j \in DOMAIN out : ms[j] = out[j]
             /\ \A j \in DOMAIN ms : ms[j].answers \in OccursIn(turns, "tool_result") \cup {Absent}
             /\ \A i \in DOMAIN turns : TurnAnswers(ms, turns[i]) /\ TurnHeld(ms, turns[i])
<1> DEFINE n == Len(out)
           m == [CanonicalMessage(Turn.role, parts) EXCEPT !.calls = uses, !.reasoning = thoughts]
           s == SaidIn(parts)
           answered == OccursIn(turns, "tool_result") \cup {Absent}
<1>1. /\ turns \in Seq(TurnsTaken) /\ midTurn \in BOOLEAN /\ out \in Seq(MessagesOut)
      /\ parts \in Seq(Wordings) /\ uses \in Seq(ToolUses) /\ thoughts \in Seq(Wordings)
      /\ ~midTurn => parts = <<>> /\ uses = <<>> /\ thoughts = <<>>
      /\ midTurn => turns # <<>>
      /\ midTurn /\ Turn.role = "assistant" => uses = UsesOf(Turn) /\ thoughts = ThoughtsOf(Turn)
      /\ midTurn /\ Turn.role # "assistant" => uses = <<>> /\ thoughts = <<>>
      /\ HeardIn(out) \o s = ToldIn(turns) /\ Range(uses) \cap OccursIn(turns, "tool_result") = {}
      /\ \A j \in DOMAIN out : out[j].answers \in answered
      /\ \A i \in DOMAIN turns : TurnAnswers(out, turns[i]) /\ (TurnHeld(out, turns[i]) \/ (midTurn /\ i = Len(turns)))
  BY DEF TurnsInv
<1>2. HeardIn(out) \in Seq(Things) /\ s \in Seq(Things)
  BY <1>1, HeardTell, WordsSay
<1>3. n \in Nat /\ DOMAIN out = 1 .. n /\ \A i \in 1 .. n : 1 .. i \subseteq 1 .. n
  BY <1>1
<1>4. CASE parts = <<>> /\ uses = <<>> /\ thoughts = <<>>
  <2>1. Pending = <<>>
    BY <1>4 DEF Pending
  <2>2. out \o Pending = out
    BY <1>1, <2>1
  <2>3. s = <<>>
    BY <1>4 DEF SaidIn
  <2>4. HeardIn(out) = ToldIn(turns)
    BY <1>1, <1>2, <2>3
  <2>5. ASSUME NEW i \in DOMAIN turns PROVE TurnHeld(out, turns[i])
    <3>1. CASE TurnHeld(out, turns[i])
      BY <3>1
    <3>2. CASE midTurn /\ i = Len(turns)
      <4>1. turns[i] = Turn
        BY <3>2 DEF Turn
      <4>2. turns[i].role = "assistant" => UsesOf(turns[i]) = <<>>
        BY <1>1, <1>4, <3>2, <4>1
      <4> QED
        BY <4>2 DEF TurnHeld
    <3> QED
      BY <1>1, <3>1, <3>2
  <2> QED
    BY <1>1, <2>2, <2>4, <2>5
<1>5. CASE ~ (parts = <<>> /\ uses = <<>> /\ thoughts = <<>>)
  <2>1. midTurn /\ turns # <<>> /\ Pending = <<m>>
    BY <1>1, <1>5 DEF Pending
  <2>2. Turn \in TurnsTaken /\ Len(turns) \in DOMAIN turns
    <3>1. Len(turns) \in Nat \ {0} /\ turns[Len(turns)] \in TurnsTaken
      BY <1>1, <2>1, LastApart
    <3> QED
      BY <1>1, <3>1 DEF Turn
  <2>3. /\ m.role = Turn.role /\ m.words = parts /\ m.calls = uses /\ m.reasoning = thoughts /\ m.answers = Absent
        /\ m \in MessagesOut
    <3> DEFINE role == Turn.role
               one == [CanonicalMessage(role, parts) EXCEPT !.calls = uses]
    <3>1. role \in {"user", "assistant"}
      BY <2>2 DEF TurnsTaken
    <3> HIDE DEF role
    <3>2. \A w, c : [[role |-> role, words |-> w, calls |-> <<>>, reasoning |-> <<>>, answers |-> Absent]
                     EXCEPT !.calls = c]
                  = [role |-> role, words |-> w, calls |-> c, reasoning |-> <<>>, answers |-> Absent]
      OBVIOUS
    <3>3. \A w, c, t : [[role |-> role, words |-> w, calls |-> c, reasoning |-> <<>>, answers |-> Absent]
                        EXCEPT !.reasoning = t]
                     = [role |-> role, words |-> w, calls |-> c, reasoning |-> t, answers |-> Absent]
      OBVIOUS
    <3>4. one = [role |-> role, words |-> parts, calls |-> uses, reasoning |-> <<>>, answers |-> Absent]
      BY <3>2 DEF CanonicalMessage
    <3>5. m = [one EXCEPT !.reasoning = thoughts]
      BY DEF role
    <3> HIDE DEF one, m
    <3>6. m = [role |-> role, words |-> parts, calls |-> uses, reasoning |-> thoughts, answers |-> Absent]
      BY <3>3, <3>4, <3>5
    <3> QED
      BY <1>1, <3>1, <3>6 DEF MessagesOut, role
  <2>4. HeardTurns(m) = s
    <3>1. m.role # "tool"
      BY <2>2, <2>3 DEF TurnsTaken
    <3> HIDE DEF m
    <3> QED
      BY <2>3, <3>1, MessagesSay
  <2> HIDE DEF m
  <2> DEFINE more == Append(out, m)
  <2>5. /\ more \in Seq(MessagesOut) /\ Len(more) = n + 1 /\ more[n + 1] = m /\ \A i \in 1 .. n : more[i] = out[i]
    BY <1>1, <2>3, AppendedTells
  <2>6. out \o Pending = more
    BY <1>1, <2>1, <2>3
  <2>7. HeardIn(more) = ToldIn(turns)
    BY <1>1, <2>3, <2>4, HeardInGrows
  <2> HIDE DEF more, n
  <2>8. DOMAIN more = 1 .. n + 1 /\ n + 1 \in 1 .. n + 1 /\ (\A i \in 1 .. n : i \in 1 .. n + 1)
        /\ \A i \in 1 .. n + 1 : i = n + 1 \/ i \in 1 .. n
    BY <1>3, <2>5
  <2>9. \A j \in DOMAIN more : more[j].answers \in answered
    <3> HIDE DEF answered
    <3>1. Absent \in answered
      BY DEF answered
    <3> QED
      BY <1>1, <1>3, <2>3, <2>5, <2>8, <3>1
  <2>10. ASSUME NEW i \in DOMAIN turns PROVE TurnAnswers(more, turns[i]) /\ TurnHeld(more, turns[i])
    <3>1. (TurnHeld(out, turns[i]) => TurnHeld(more, turns[i])) /\ (TurnAnswers(out, turns[i]) => TurnAnswers(more, turns[i]))
      <4>1. DOMAIN out \subseteq DOMAIN more /\ (\A j \in DOMAIN out : 1 .. j \subseteq DOMAIN out)
            /\ \A j \in DOMAIN out : more[j] = out[j]
        BY <1>3, <2>5, <2>8
      <4> QED
        BY <4>1, HeldStays
    <3>2. CASE i = Len(turns)
      <4>1. turns[i] = Turn
        BY <3>2 DEF Turn
      <4>2. ASSUME Turn.role = "assistant", UsesOf(Turn) # <<>>
            PROVE  \E j \in DOMAIN more : /\ more[j].role = "assistant" /\ more[j].calls = UsesOf(Turn)
                                          /\ more[j].reasoning = ThoughtsOf(Turn)
                                          /\ \A k \in 1 .. j : more[k].answers \notin Range(more[j].calls)
        <5>1. m.role = "assistant" /\ m.calls = UsesOf(Turn) /\ m.reasoning = ThoughtsOf(Turn) /\ m.calls = uses
          BY <1>1, <2>1, <2>3, <4>2
        <5>2. Range(uses) \cap answered = {}
          <6>1. Range(uses) \subseteq ToolUses
            BY <1>1 DEF Range
          <6> QED
            BY <1>1, <6>1, TurnsAssumption
        <5>3. \A k \in 1 .. n + 1 : more[k].answers \notin Range(uses)
          BY <2>8, <2>9, <5>2
        <5> QED
          BY <2>5, <2>8, <5>1, <5>3
      <4> QED
        BY <1>1, <3>1, <4>1, <4>2 DEF TurnHeld
    <3>3. CASE i # Len(turns)
      BY <1>1, <3>1, <3>3
    <3> QED
      BY <3>2, <3>3
  <2> QED
    BY <1>3, <2>5, <2>6, <2>7, <2>8, <2>9, <2>10
<1> QED
  BY <1>4, <1>5


\* A turn more, without calls or results.
LEMMA NewTurn ==
  ASSUME TurnsInv, ~midTurn, wants.system = <<>>, wants' = wants, NEW turn \in TurnsTaken, UsesOf(turn) = <<>>,
         \A k \in DOMAIN turn.blocks : turn.blocks[k].type \notin {"tool_use", "tool_result"},
         turns' = Append(turns, turn), parts' = parts, uses' = uses, thoughts' = thoughts,
         midTurn' \in BOOLEAN, midTurn' => ThoughtsOf(turn) = <<>>,
         out' \in Seq(MessagesOut), DOMAIN out \subseteq DOMAIN out', \A j \in DOMAIN out : out'[j] = out[j],
         \A j \in DOMAIN out' : out'[j].answers \in OccursIn(turns, "tool_result") \cup {Absent},
         HeardIn(out') = HeardIn(out) \o ToldOf(turn)
  PROVE  TurnsInv'
<1> DEFINE n == Len(turns)
           more == Append(turns, turn)
<1>1. /\ wants \in Asks /\ turns \in Seq(TurnsTaken) /\ out \in Seq(MessagesOut)
      /\ parts = <<>> /\ uses = <<>> /\ thoughts = <<>>
      /\ HeardIn(out) \o SaidIn(parts) = ToldIn(turns)
      /\ OccursIn(turns, "tool_result") \subseteq OccursIn(turns, "tool_use")
      /\ \A i \in DOMAIN turns : TurnAnswers(out, turns[i]) /\ TurnHeld(out, turns[i])
  BY DEF TurnsInv
<1>2. /\ more \in Seq(TurnsTaken) /\ Len(more) = n + 1 /\ more[n + 1] = turn /\ \A i \in 1 .. n : more[i] = turns[i]
      /\ n \in Nat /\ DOMAIN turns = 1 .. n
  BY <1>1, AppendedTells
<1>3. ToldIn(more) = ToldIn(turns) \o ToldOf(turn)
  BY <1>1, ToldInGrows
<1>4. OccursIn(more, "tool_use") = OccursIn(turns, "tool_use") /\ OccursIn(more, "tool_result") = OccursIn(turns, "tool_result")
  BY <1>1, OccursSame
<1> HIDE DEF more, n
<1>5. turns' = more /\ DOMAIN more = 1 .. n + 1 /\ n + 1 \in 1 .. n + 1 /\ more # <<>>
      /\ \A i \in 1 .. n + 1 : i = n + 1 \/ i \in 1 .. n
  BY <1>2 DEF more
<1>6. Turn' = turn
  BY <1>2, <1>5 DEF Turn
<1>7. parts' \in Seq(Wordings) /\ uses' \in Seq(ToolUses) /\ thoughts' \in Seq(Wordings) /\ Range(uses') = {}
      /\ uses' = <<>> /\ thoughts' = <<>>
  BY <1>1 DEF Range
<1>8. HeardIn(out') \o SaidIn(parts') = ToldIn(more)
  <2>1. SaidIn(<<>>) = <<>>
    BY DEF SaidIn
  <2> DEFINE h == HeardIn(out)
             h1 == HeardIn(out')
  <2>2. h \in Seq(Things) /\ h1 \in Seq(Things)
    BY <1>1, HeardTell
  <2> HIDE DEF h, h1
  <2>3. h \o <<>> = h /\ h1 \o <<>> = h1
    BY <2>2
  <2> QED
    BY <1>1, <1>3, <2>1, <2>3 DEF h, h1
<1>9. ASSUME NEW i \in DOMAIN more PROVE TurnAnswers(out', more[i]) /\ TurnHeld(out', more[i])
  <2>1. CASE i = n + 1
    BY <1>2, <2>1 DEF TurnAnswers, TurnHeld
  <2>2. CASE i \in 1 .. n
    <3>1. \A j \in DOMAIN out : 1 .. j \subseteq DOMAIN out
      BY <1>1
    <3>2. TurnAnswers(out, turns[i]) /\ TurnHeld(out, turns[i])
      BY <1>1, <1>2, <2>2
    <3>3. more[i] = turns[i]
      BY <1>2, <2>2
    <3> QED
      BY <3>1, <3>2, <3>3, HeldStays
  <2> QED
    BY <1>5, <2>1, <2>2
<1>10. midTurn' => UsesOf(Turn') = uses' /\ ThoughtsOf(Turn') = thoughts'
  BY <1>6, <1>7
<1> QED
  BY <1>1, <1>2, <1>4, <1>5, <1>7, <1>8, <1>9, <1>10 DEF TurnsInv

\* A result goes behind whatever is pending.
LEMMA ResultTaken ==
  ASSUME TurnsInv, NEW c \in ToolUses, NEW content \in Seq(Wordings), ToolResult(c, content)
  PROVE  TurnsInv'
<1> DEFINE block == [type |-> "tool_result", use |-> c, content |-> content]
           n == Len(turns)
           ms == out \o Pending
           words == toToolResultContent(content)
           m == [CanonicalMessage("tool", words) EXCEPT !.answers = c]
           more == Append(ms, m)
           k == Len(ms)
           old == OccursIn(turns, "tool_result")
<1>1. /\ TakeBlock(block) /\ out' = ms \o <<m>> /\ parts' = <<>> /\ uses' = <<>> /\ thoughts' = <<>>
      /\ c \in OccursIn(turns, "tool_use")
  BY OccursTells DEF ToolResult, Write
<1>2. block \in BlocksRead /\ block.type = "tool_result" /\ block.use = c /\ block.content = content
  BY DEF BlocksRead
<1>3. Turn.role # "assistant"
  BY <1>1 DEF ToolResult, TakeBlock
<1>4. Says(block) = <<[type |-> "answered", what |-> c]>>
  BY DEF Says
<1>5. words \in Seq(Wordings)
  <2>1. {i \in DOMAIN content : content[i] \in Words \cup ImageSources} \in SUBSET DOMAIN content
    OBVIOUS
  <2> QED
    BY <2>1, SubsequenceTells DEF toToolResultContent
<1> HIDE DEF block, words
<1>6. m = [role |-> "tool", words |-> words, calls |-> <<>>, reasoning |-> <<>>, answers |-> c]
  BY DEF CanonicalMessage
<1> HIDE DEF m
<1>7. m \in MessagesOut /\ m.answers = c /\ m.words = words /\ HeardTurns(m) = Says(block)
  BY <1>4, <1>5, <1>6 DEF MessagesOut, HeardTurns
<1>8. /\ midTurn /\ midTurn' = midTurn /\ wants' = wants /\ wants' \in Asks /\ wants'.system = <<>>
      /\ n \in Nat \ {0} /\ DOMAIN turns = 1 .. n /\ Turn \in TurnsTaken
      /\ turns' \in Seq(TurnsTaken) /\ Len(turns') = n /\ turns' # <<>>
      /\ Turn' \in TurnsTaken /\ Turn'.role = Turn.role /\ Turn'.blocks = Append(Turn.blocks, block)
      /\ Turn' = turns'[n] /\ \A i \in 1 .. n - 1 : turns'[i] = turns[i]
      /\ ToldIn(turns) \in Seq(Things) /\ ToldIn(turns') = ToldIn(turns) \o Says(block)
  BY <1>1, <1>2, TakenTells
<1>9. OccursIn(turns', "tool_result") = old \cup {c} /\ OccursIn(turns', "tool_use") = OccursIn(turns, "tool_use")
  <2>1. \A type : /\ block.type = type =>
                       OccursIn(turns', type) = OccursIn(turns, type) \cup ({block.use} \cap ToolUses)
                  /\ block.type # type => OccursIn(turns', type) = OccursIn(turns, type)
    BY <1>1, <1>2, TakenTells
  <2>2. {block.use} \cap ToolUses = {c}
    BY <1>2
  <2> QED
    BY <1>2, <2>1, <2>2
<1>10. /\ ms \in Seq(MessagesOut) /\ HeardIn(ms) = ToldIn(turns)
       /\ \A j \in DOMAIN ms : ms[j].answers \in old \cup {Absent}
       /\ \A i \in DOMAIN turns : TurnAnswers(ms, turns[i]) /\ TurnHeld(ms, turns[i])
  BY PendingTells
<1>11. old \subseteq OccursIn(turns, "tool_use")
  BY DEF TurnsInv
<1> HIDE DEF ms, old, n
<1>12. /\ more \in Seq(MessagesOut) /\ Len(more) = k + 1 /\ more[k + 1] = m /\ \A j \in 1 .. k : more[j] = ms[j]
       /\ k \in Nat /\ DOMAIN ms = 1 .. k
  BY <1>7, <1>10, AppendedTells
<1>13. out' = more /\ DOMAIN more = 1 .. k + 1 /\ k + 1 \in 1 .. k + 1 /\ (\A j \in 1 .. k : j \in 1 .. k + 1)
       /\ (\A j \in 1 .. k + 1 : j = k + 1 \/ j \in 1 .. k) /\ \A j \in 1 .. k : 1 .. j \subseteq 1 .. k
  BY <1>1, <1>7, <1>10, <1>12
<1>14. HeardIn(more) = ToldIn(turns) \o Says(block)
  BY <1>7, <1>10, HeardInGrows
<1> HIDE DEF more, k
<1>15. HeardIn(out') \o SaidIn(parts') = ToldIn(turns')
  <2>1. SaidIn(<<>>) = <<>>
    BY DEF SaidIn
  <2> DEFINE h == HeardIn(more)
  <2>2. h \in Seq(Things)
    BY <1>12, HeardTell
  <2> HIDE DEF h
  <2>3. h \o <<>> = h
    BY <2>2
  <2> QED
    BY <1>1, <1>8, <1>13, <1>14, <2>1, <2>3 DEF h
<1>16. \A j \in DOMAIN out' : out'[j].answers \in OccursIn(turns', "tool_result") \cup {Absent}
  BY <1>7, <1>9, <1>10, <1>12, <1>13
<1>17. ASSUME NEW turn
       PROVE  (TurnHeld(ms, turn) => TurnHeld(more, turn)) /\ (TurnAnswers(ms, turn) => TurnAnswers(more, turn))
  <2>1. DOMAIN ms \subseteq DOMAIN more /\ (\A j \in DOMAIN ms : 1 .. j \subseteq DOMAIN ms)
        /\ \A j \in DOMAIN ms : more[j] = ms[j]
    BY <1>12, <1>13
  <2> QED
    BY <2>1, HeldStays
<1>18. ASSUME NEW i \in DOMAIN turns'
       PROVE  TurnAnswers(out', turns'[i]) /\ (TurnHeld(out', turns'[i]) \/ (midTurn' /\ i = Len(turns')))
  <2>1. i \in 1 .. n /\ (i = n \/ i \in 1 .. n - 1)
    BY <1>8
  <2>2. TurnAnswers(more, turns[i]) /\ TurnHeld(more, turns[i])
    BY <1>8, <1>10, <1>17, <2>1
  <2>3. CASE i \in 1 .. n - 1
    <3>1. turns'[i] = turns[i]
      BY <1>8, <2>3
    <3> QED
      BY <1>13, <2>2, <3>1
  <2>4. CASE i = n
    <3>1. turns[i] = Turn /\ turns'[i] = Turn'
      BY <1>8, <2>4 DEF Turn, n
    <3>2. Turn.blocks \in Seq(BlocksRead)
      BY <1>8 DEF TurnsTaken
    <3>3. \E j \in DOMAIN more : more[j].answers = block.use /\ more[j].words = toToolResultContent(block.content)
      BY <1>2, <1>7, <1>12, <1>13 DEF words
    <3> DEFINE new == Turn'
    <3>4. new.blocks = Append(Turn.blocks, block)
      BY <1>8
    <3> HIDE DEF new
    <3>5. TurnAnswers(more, new)
      BY <1>2, <2>2, <3>1, <3>2, <3>3, <3>4, AnswersStay
    <3> QED
      BY <1>8, <1>13, <2>4, <3>1, <3>5 DEF new
  <2> QED
    BY <2>1, <2>3, <2>4
<1>19. Turn'.role # "assistant" /\ out' \in Seq(MessagesOut) /\ Range(uses') = {}
       /\ parts' \in Seq(Wordings) /\ uses' \in Seq(ToolUses) /\ thoughts' \in Seq(Wordings)
  <2>1. Range(<<>>) = {}
    BY DEF Range
  <2>2. <<>> \in Seq(Wordings) /\ <<>> \in Seq(ToolUses)
    OBVIOUS
  <2>3. out' \in Seq(MessagesOut)
    BY <1>12, <1>13
  <2> DEFINE role == Turn.role
             role1 == Turn'.role
  <2>4. role # "assistant" /\ role1 = role
    BY <1>3, <1>8
  <2> HIDE DEF role, role1
  <2>5. role1 # "assistant"
    BY <2>4
  <2> QED
    BY <1>1, <2>1, <2>2, <2>3, <2>5 DEF role1
<1>20. OccursIn(turns', "tool_result") \subseteq OccursIn(turns', "tool_use")
  BY <1>1, <1>9, <1>11
<1> QED
  BY <1>1, <1>8, <1>15, <1>16, <1>18, <1>19, <1>20 DEF TurnsInv

LEMMA TurnEnds ==
  ASSUME TurnsInv, EndTurn
  PROVE  TurnsInv'
<1> DEFINE ms == out \o Pending
<1>1. /\ out' = ms \o <<>> /\ parts' = <<>> /\ uses' = <<>> /\ thoughts' = <<>> /\ midTurn' = FALSE
      /\ wants' = wants /\ turns' = turns /\ turns # <<>>
  BY DEF EndTurn, Write, TurnsInv
<1>2. /\ ms \in Seq(MessagesOut) /\ HeardIn(ms) = ToldIn(turns)
      /\ \A j \in DOMAIN ms : ms[j].answers \in OccursIn(turns, "tool_result") \cup {Absent}
      /\ \A i \in DOMAIN turns : TurnAnswers(ms, turns[i]) /\ TurnHeld(ms, turns[i])
  BY PendingTells
<1> HIDE DEF ms
<1>3. out' = ms
  BY <1>1, <1>2
<1>4. HeardIn(out') \o SaidIn(parts') = ToldIn(turns')
  <2>1. SaidIn(<<>>) = <<>>
    BY DEF SaidIn
  <2> DEFINE h == HeardIn(ms)
  <2>2. h \in Seq(Things)
    BY <1>2, HeardTell
  <2> HIDE DEF h
  <2>3. h \o <<>> = h
    BY <2>2
  <2> QED
    BY <1>1, <1>2, <1>3, <2>1, <2>3 DEF h
<1>5. Range(uses') = {} /\ parts' \in Seq(Wordings) /\ uses' \in Seq(ToolUses) /\ thoughts' \in Seq(Wordings)
  BY <1>1 DEF Range
<1>6. /\ wants \in Asks /\ turns \in Seq(TurnsTaken) /\ (wants.system # <<>> => turns = <<>>)
      /\ OccursIn(turns, "tool_result") \subseteq OccursIn(turns, "tool_use")
  BY DEF TurnsInv
<1> QED
  BY <1>1, <1>2, <1>3, <1>4, <1>5, <1>6 DEF TurnsInv

\* Words that wait, with one more.
LEMMA WaitingSays ==
  ASSUME TurnsInv, NEW w \in Wordings, NEW block, Says(block) = <<[type |-> "said", what |-> w]>>, parts' = Append(parts, w)
  PROVE  parts' \in Seq(Wordings) /\ SaidIn(parts') = SaidIn(parts) \o Says(block)
<1> DEFINE s == SaidIn(parts)
           x == [type |-> "said", what |-> w]
<1>1. parts \in Seq(Wordings)
  BY DEF TurnsInv
<1>2. s \in Seq(Things) /\ SaidIn(Append(parts, w)) = Append(s, x) /\ x \in Things
  BY <1>1, WordsSay
<1>3. Append(parts, w) \in Seq(Wordings)
  BY <1>1
<1> HIDE DEF s
<1>4. Append(s, x) = s \o <<x>>
  BY <1>2
<1> QED
  BY <1>2, <1>3, <1>4 DEF s

LEMMA QuietSays ==
  ASSUME TurnsInv, NEW block, Says(block) = <<>>, parts' = parts
  PROVE  parts' \in Seq(Wordings) /\ SaidIn(parts') = SaidIn(parts) \o Says(block)
<1> DEFINE s == SaidIn(parts)
<1>1. parts \in Seq(Wordings)
  BY DEF TurnsInv
<1>2. s \in Seq(Things)
  BY <1>1, WordsSay
<1> HIDE DEF s
<1>3. s \o <<>> = s
  BY <1>2
<1> QED
  BY <1>1, <1>3 DEF s

LEMMA TextTaken ==
  ASSUME TurnsInv, NEW w \in Words, TextBlock(w)
  PROVE  TurnsInv'
<1> DEFINE block == [type |-> "text", word |-> w]
<1>1. /\ TakeBlock(block) /\ parts' = Append(parts, w) /\ out' = out /\ uses' = uses /\ thoughts' = thoughts
      /\ block.type = "text" /\ w \in Wordings
  BY DEF TextBlock, Wordings
<1>2. block \in BlocksRead
  BY <1>1 DEF BlocksRead
<1>3. Says(block) = <<[type |-> "said", what |-> w]>>
  BY DEF Says
<1> HIDE DEF block
<1>4. parts' \in Seq(Wordings) /\ SaidIn(parts') = SaidIn(parts) \o Says(block)
  BY <1>1, <1>3, WaitingSays
<1> QED
  BY <1>1, <1>2, <1>4, TakenQuietly

LEMMA UnknownTaken ==
  ASSUME TurnsInv, UnknownBlock
  PROVE  TurnsInv'
<1> DEFINE block == [type |-> "document", word |-> "document"]
<1>1. /\ TakeBlock(block) /\ parts' = Append(parts, "document") /\ out' = out /\ uses' = uses /\ thoughts' = thoughts
      /\ block.type = "document" /\ "document" \in Wordings
  BY DEF UnknownBlock, Wordings
<1>2. block \in BlocksRead
  BY <1>1 DEF BlocksRead
<1>3. Says(block) = <<[type |-> "said", what |-> "document"]>>
  BY DEF Says
<1> HIDE DEF block
<1>4. parts' \in Seq(Wordings) /\ SaidIn(parts') = SaidIn(parts) \o Says(block)
  BY <1>1, <1>3, WaitingSays
<1> QED
  BY <1>1, <1>2, <1>4, TakenQuietly

LEMMA ImageTaken ==
  ASSUME TurnsInv, NEW source \in ImageSources \cup Strange, ImageBlock(source)
  PROVE  TurnsInv'
<1> DEFINE block == [type |-> "image", word |-> source]
<1>1. /\ TakeBlock(block) /\ parts' = parts \o toImagePart(source) /\ out' = out /\ uses' = uses /\ thoughts' = thoughts
      /\ block.type = "image" /\ block.word = source /\ source \in Wordings /\ parts \in Seq(Wordings)
  BY DEF ImageBlock, Wordings, TurnsInv
<1>2. block \in BlocksRead
  BY <1>1 DEF BlocksRead
<1>3. /\ source \in ImageSources => Says(block) = <<[type |-> "said", what |-> source]>>
      /\ source \notin ImageSources => Says(block) = <<>>
  BY DEF Says
<1> HIDE DEF block
<1>4. parts' \in Seq(Wordings) /\ SaidIn(parts') = SaidIn(parts) \o Says(block)
  <2>1. CASE source \in ImageSources
    <3>1. parts' = Append(parts, source)
      BY <1>1, <2>1 DEF toImagePart
    <3> QED
      BY <1>1, <1>3, <2>1, <3>1, WaitingSays
  <2>2. CASE source \notin ImageSources
    <3>1. parts' = parts
      BY <1>1, <2>2 DEF toImagePart
    <3> QED
      BY <1>3, <2>2, <3>1, QuietSays
  <2> QED
    BY <2>1, <2>2
<1> QED
  BY <1>1, <1>2, <1>4, TakenQuietly

LEMMA ThinkingTaken ==
  ASSUME TurnsInv, NEW w \in Words, Thinking(w)
  PROVE  TurnsInv'
<1> DEFINE block == [type |-> "thinking", word |-> w]
<1>1. /\ TakeBlock(block) /\ parts' = parts /\ out' = out /\ uses' = uses /\ thoughts' = Append(thoughts, w)
      /\ block.type = "thinking" /\ block.word = w /\ w \in Wordings /\ Turn.role = "assistant"
  BY DEF Thinking, Wordings, TakeBlock
<1>2. block \in BlocksRead
  BY <1>1 DEF BlocksRead
<1>3. Says(block) = <<>>
  BY DEF Says
<1> HIDE DEF block
<1>4. parts' \in Seq(Wordings) /\ SaidIn(parts') = SaidIn(parts) \o Says(block)
  BY <1>1, <1>3, QuietSays
<1> QED
  BY <1>1, <1>2, <1>4, TakenQuietly

LEMMA UseTaken ==
  ASSUME TurnsInv, NEW c \in ToolUses, ToolUse(c)
  PROVE  TurnsInv'
<1> DEFINE block == [type |-> "tool_use", use |-> c]
<1>1. /\ TakeBlock(block) /\ parts' = parts /\ out' = out /\ thoughts' = thoughts /\ uses' = Append(uses, c)
      /\ block.type = "tool_use" /\ block.use = c /\ Turn.role = "assistant" /\ c \notin Occurs("tool_use")
  BY DEF ToolUse, TakeBlock
<1>2. block \in BlocksRead
  BY <1>1 DEF BlocksRead
<1>3. Says(block) = <<>>
  BY DEF Says
<1>4. c \notin OccursIn(turns, "tool_use")
  BY <1>1, OccursTells
<1> HIDE DEF block
<1>5. parts' \in Seq(Wordings) /\ SaidIn(parts') = SaidIn(parts) \o Says(block)
  BY <1>1, <1>3, QuietSays
<1> QED
  BY <1>1, <1>2, <1>4, <1>5, TakenQuietly

\* A conversation grows by the messages that are put behind it.
LEMMA PutBehind ==
  ASSUME NEW m \in MessagesOut, out \in Seq(MessagesOut), NEW ms, ms = Append(out, m)
  PROVE  /\ ms \in Seq(MessagesOut) /\ DOMAIN out \subseteq DOMAIN ms /\ \A j \in DOMAIN out : ms[j] = out[j]
         /\ \A j \in DOMAIN ms : ms[j].answers = m.answers \/ (j \in DOMAIN out /\ ms[j] = out[j])
<1> DEFINE n == Len(out)
<1>1. /\ ms \in Seq(MessagesOut) /\ Len(ms) = n + 1 /\ ms[n + 1] = m /\ (\A i \in 1 .. n : ms[i] = out[i])
      /\ n \in Nat /\ DOMAIN out = 1 .. n
  BY AppendedTells
<1>2. DOMAIN ms = 1 .. n + 1
  BY <1>1
<1> HIDE DEF n
<1>3. (\A i \in 1 .. n : i \in 1 .. n + 1) /\ \A i \in 1 .. n + 1 : i = n + 1 \/ i \in 1 .. n
  BY <1>1
<1> QED
  BY <1>1, <1>2, <1>3

LEMMA TurnBegun ==
  ASSUME TurnsInv, wants.system = <<>>, NEW role \in {"user", "assistant"}, BeginTurn(role)
  PROVE  TurnsInv'
<1> DEFINE turn == [role |-> role, blocks |-> <<>>]
<1>1. /\ ~midTurn /\ midTurn' = TRUE /\ turns' = Append(turns, turn) /\ wants' = wants /\ out' = out
      /\ parts' = parts /\ uses' = uses /\ thoughts' = thoughts /\ turn.blocks = <<>>
  BY DEF BeginTurn
<1>2. turn \in TurnsTaken
  BY DEF TurnsTaken
<1> HIDE DEF turn
<1>3. UsesOf(turn) = <<>> /\ ThoughtsOf(turn) = <<>> /\ ToldOf(turn) = <<>>
  BY <1>1, NoneOfType
<1>4. out \in Seq(MessagesOut) /\ \A j \in DOMAIN out : out[j].answers \in OccursIn(turns, "tool_result") \cup {Absent}
  BY DEF TurnsInv
<1> DEFINE h == HeardIn(out)
<1>5. h \in Seq(Things)
  BY <1>4, HeardTell
<1> HIDE DEF h
<1>6. h = h \o <<>>
  BY <1>5
<1>7. HeardIn(out') = HeardIn(out) \o ToldOf(turn)
  BY <1>1, <1>3, <1>6 DEF h
<1>8. \A k \in DOMAIN turn.blocks : turn.blocks[k].type \notin {"tool_use", "tool_result"}
  BY <1>1
<1> QED
  BY <1>1, <1>2, <1>3, <1>4, <1>7, <1>8, NewTurn

LEMMA StringTaken ==
  ASSUME TurnsInv, wants.system = <<>>, NEW role \in {"user", "assistant"}, NEW w \in Words, StringTurn(role, w)
  PROVE  TurnsInv'
<1> DEFINE block == [type |-> "text", word |-> w]
           empty == [role |-> role, blocks |-> <<>>]
           turn == [role |-> role, blocks |-> <<block>>]
           m == CanonicalMessage(role, <<w>>)
           x == [type |-> "said", what |-> w]
<1>1. /\ ~midTurn /\ midTurn' = midTurn /\ turns' = Append(turns, turn) /\ wants' = wants /\ out' = Append(out, m)
      /\ parts' = parts /\ uses' = uses /\ thoughts' = thoughts /\ w \in Wordings
      /\ block.type = "text" /\ empty.blocks = <<>>
  BY DEF StringTurn, Wordings
<1>2. block \in BlocksRead
  BY <1>1 DEF BlocksRead
<1>3. Says(block) = <<x>>
  BY DEF Says
<1> HIDE DEF block
<1>4. <<block>> \in Seq(BlocksRead) /\ <<>> \in Seq(BlocksRead)
  BY <1>2
<1>5. turn \in TurnsTaken /\ empty \in TurnsTaken /\ turn.blocks = <<block>> /\ turn.blocks = Append(empty.blocks, block)
  BY <1>4 DEF TurnsTaken
<1> HIDE DEF turn, empty
<1>6. UsesOf(empty) = <<>> /\ ToldOf(empty) = <<>>
  BY <1>1, NoneOfType
<1>7. UsesOf(turn) = <<>>
  BY <1>1, <1>2, <1>5, <1>6, UsesGrow
<1>8. ToldOf(turn) = <<x>>
  <2>1. ToldOf(turn) = <<>> \o Says(block)
    BY <1>2, <1>5, <1>6, ToldGrows
  <2>2. <<>> \o <<x>> = <<x>>
    OBVIOUS
  <2> QED
    BY <1>3, <2>1, <2>2
<1>9. /\ m \in MessagesOut /\ m.answers = Absent /\ m.words = <<w>> /\ m.role # "tool"
  <2>1. <<w>> \in Seq(Wordings) /\ <<>> \in Seq(Wordings) /\ <<>> \in Seq(ToolUses)
    BY <1>1
  <2> QED
    BY <2>1 DEF MessagesOut, CanonicalMessage
<1> HIDE DEF m
<1>10. HeardTurns(m) = <<x>>
  <2>1. HeardTurns(m) = SaidIn(<<w>>)
    BY <1>9, MessagesSay
  <2>2. SaidIn(<<w>>) = <<x>>
    <3> DEFINE one == <<w>>
    <3>1. DOMAIN one = {1} /\ one[1] = w
      OBVIOUS
    <3> HIDE DEF one
    <3>2. SaidIn(one) = [i \in {1} |-> x]
      BY <3>1 DEF SaidIn
    <3>3. [i \in {1} |-> x] = <<x>>
      OBVIOUS
    <3> QED
      BY <3>2, <3>3 DEF one
  <2> QED
    BY <2>1, <2>2
<1>11. out \in Seq(MessagesOut) /\ \A j \in DOMAIN out : out[j].answers \in OccursIn(turns, "tool_result") \cup {Absent}
  BY DEF TurnsInv
<1>12. HeardIn(out') = HeardIn(out) \o ToldOf(turn)
  BY <1>1, <1>8, <1>9, <1>10, <1>11, HeardInGrows
<1>13. /\ out' \in Seq(MessagesOut) /\ DOMAIN out \subseteq DOMAIN out' /\ (\A j \in DOMAIN out : out'[j] = out[j])
       /\ \A j \in DOMAIN out' : out'[j].answers = m.answers \/ (j \in DOMAIN out /\ out'[j] = out[j])
  <2> DEFINE ms == out'
  <2>1. ms = Append(out, m)
    BY <1>1
  <2> HIDE DEF ms
  <2>2. /\ ms \in Seq(MessagesOut) /\ DOMAIN out \subseteq DOMAIN ms /\ (\A j \in DOMAIN out : ms[j] = out[j])
        /\ \A j \in DOMAIN ms : ms[j].answers = m.answers \/ (j \in DOMAIN out /\ ms[j] = out[j])
    BY <1>9, <1>11, <2>1, PutBehind
  <2> QED
    BY <2>2 DEF ms
<1>14. \A j \in DOMAIN out' : out'[j].answers \in OccursIn(turns, "tool_result") \cup {Absent}
  BY <1>9, <1>11, <1>13
<1>15. \A k \in DOMAIN turn.blocks : turn.blocks[k].type \notin {"tool_use", "tool_result"}
  BY <1>1, <1>5
<1>16. midTurn' \in BOOLEAN /\ ~midTurn'
  BY <1>1 DEF TurnsInv
<1> QED
  BY <1>1, <1>5, <1>7, <1>12, <1>13, <1>14, <1>15, <1>16, NewTurn

LEMMA TurnsStep ==
  ASSUME TurnsInv, [TurnsNext]_turnVars
  PROVE  TurnsInv'
<1>1. CASE UNCHANGED turnVars
  BY <1>1 DEF turnVars, TurnsInv, Turn
<1>2. CASE TurnsNext
  <2>1. wants.system = <<>>
    BY <1>2 DEF TurnsNext
  <2>2. ASSUME NEW role \in {"user", "assistant"}, BeginTurn(role) PROVE TurnsInv'
    BY <2>1, <2>2, TurnBegun
  <2>3. ASSUME NEW role \in {"user", "assistant"}, NEW w \in Words, StringTurn(role, w) PROVE TurnsInv'
    BY <2>1, <2>3, StringTaken
  <2>4. ASSUME NEW w \in Words, TextBlock(w) \/ Thinking(w) PROVE TurnsInv'
    BY <2>4, TextTaken, ThinkingTaken
  <2>5. ASSUME NEW source \in ImageSources \cup Strange, ImageBlock(source) PROVE TurnsInv'
    BY <2>5, ImageTaken
  <2>6. ASSUME NEW c \in ToolUses, ToolUse(c) PROVE TurnsInv'
    BY <2>6, UseTaken
  <2>7. ASSUME NEW c \in ToolUses,
               NEW content \in {<<>>} \cup (Words \X (ImageSources \cup Strange)),
               ToolResult(c, content)
        PROVE  TurnsInv'
    <3>1. \A w \in Words, s \in ImageSources \cup Strange : <<w, s>> \in Seq(Wordings)
      <4>1. Words \subseteq Wordings /\ ImageSources \cup Strange \subseteq Wordings
        BY DEF Wordings
      <4>2. \A w, s \in Wordings : <<w, s>> \in Seq(Wordings)
        OBVIOUS
      <4> QED
        BY <4>1, <4>2
    <3>2. <<>> \in Seq(Wordings)
      OBVIOUS
    <3>3. content = <<>> \/ \E w \in Words, s \in ImageSources \cup Strange : content = <<w, s>>
      OBVIOUS
    <3>4. content \in Seq(Wordings)
      <4>1. \A w \in Words, s \in ImageSources \cup Strange : content = <<w, s>> => content \in Seq(Wordings)
        BY <3>1
      <4> QED
        BY <3>2, <3>3, <4>1
    <3> QED
      BY <2>7, <3>4, ResultTaken
  <2>8. CASE UnknownBlock
    BY <2>8, UnknownTaken
  <2>9. CASE EndTurn
    BY <2>9, TurnEnds
  <2> QED
    BY <1>2, <2>2, <2>3, <2>4, <2>5, <2>6, <2>7, <2>8, <2>9 DEF TurnsNext
<1> QED
  BY <1>1, <1>2

LEMMA TurnsStart ==
  ASSUME TurnsInit
  PROVE  TurnsInv
<1>1. /\ wants \in Asks /\ turns = <<>> /\ midTurn = FALSE
      /\ out = <<>> /\ parts = <<>> /\ uses = <<>> /\ thoughts = <<>>
  BY DEF TurnsInit
<1>2. /\ <<>> \in Seq(TurnsTaken) /\ <<>> \in Seq(MessagesOut) /\ <<>> \in Seq(Wordings) /\ <<>> \in Seq(ToolUses)
      /\ DOMAIN <<>> = {} /\ <<>> \o <<>> = <<>>
  OBVIOUS
<1>3. HeardIn(<<>>) = <<>> /\ SaidIn(<<>>) = <<>> /\ ToldIn(<<>>) = <<>>
  <2>1. [i \in DOMAIN <<>> |-> HeardTurns(<<>>[i])] = <<>> /\ [i \in DOMAIN <<>> |-> ToldOf(<<>>[i])] = <<>>
    OBVIOUS
  <2> QED
    BY <2>1, JointGrows DEF HeardIn, SaidIn, ToldIn
<1>4. OccursIn(<<>>, "tool_result") = {} /\ Range(<<>>) = {}
  BY DEF OccursIn, Range
<1> QED
  BY <1>1, <1>2, <1>3, <1>4 DEF TurnsInv

\* The messages of a conversation without a system field are those its turns are written as.
LEMMA RequestTells ==
  ASSUME TurnsInv, wants.system = <<>>
  PROVE  LET ms == ChatRequest.messages
         IN  /\ ms = out \o Pending
             /\ Subsequence(ms, {i \in DOMAIN ms : ms[i].role # "system"}) = ms
<1> DEFINE p == Pending
           ms == ChatRequest.messages
<1>1. out \in Seq(MessagesOut)
  BY DEF TurnsInv
<1>2. out \o Pending \in Seq(MessagesOut)
  BY PendingTells
<1>3. ms = (<<>> \o out) \o p
  BY DEF ChatRequest, systemText
<1> HIDE DEF p
<1>4. <<>> \o out = out
  BY <1>1
<1>5. ms = out \o Pending
  BY <1>3, <1>4 DEF p
<1> HIDE DEF ms
<1>6. ms \in Seq(MessagesOut)
  BY <1>2, <1>5
<1>7. \A i \in DOMAIN ms : ms[i].role # "system"
  <2>1. \A m \in MessagesOut : m.role # "system"
    BY DEF MessagesOut
  <2> QED
    BY <1>6, <2>1
<1>8. {i \in DOMAIN ms : ms[i].role # "system"} = DOMAIN ms
  BY <1>7
<1>9. Subsequence(ms, DOMAIN ms) = ms
  BY <1>6, SubsequenceEnds
<1> QED
  BY <1>5, <1>8, <1>9 DEF ms

\* With one, the message is all there is.
LEMMA SystemAlone ==
  ASSUME TurnsInv, wants.system # <<>>
  PROVE  LET ms == ChatRequest.messages
         IN  turns = <<>> /\ Subsequence(ms, {i \in DOMAIN ms : ms[i].role # "system"}) = <<>>
<1> DEFINE m == CanonicalMessage("system", wants.system)
           ms == ChatRequest.messages
           one == <<m>>
<1>1. turns = <<>> /\ out = <<>> /\ ~midTurn /\ parts = <<>> /\ uses = <<>> /\ thoughts = <<>>
  BY DEF TurnsInv
<1>2. m.role = "system"
  BY DEF CanonicalMessage
<1>3. Pending = <<>>
  BY <1>1 DEF Pending
<1>4. ms = (<<m>> \o <<>>) \o <<>>
  BY <1>1, <1>3 DEF ChatRequest, systemText
<1> HIDE DEF m
<1>5. (<<m>> \o <<>>) \o <<>> = <<m>> /\ DOMAIN one = {1} /\ one[1] = m /\ one \in Seq({m})
  OBVIOUS
<1> HIDE DEF one
<1>6. ms = one
  BY <1>4, <1>5 DEF one
<1> HIDE DEF ms
<1>7. {i \in DOMAIN ms : ms[i].role # "system"} = {}
  BY <1>2, <1>5, <1>6
<1>8. Subsequence(one, {}) = <<>>
  BY <1>5, SubsequenceEnds
<1> QED
  BY <1>1, <1>6, <1>7, <1>8 DEF ms

LEMMA OrderKept ==
  ASSUME TurnsInv
  PROVE  OrderSurvives
<1> DEFINE ms == ChatRequest.messages
           said == Subsequence(ms, {i \in DOMAIN ms : ms[i].role # "system"})
<1>1. HeardIn(said) = ToldIn(turns) /\ \A i \in DOMAIN turns : TurnAnswers(said, turns[i])
  <2>1. CASE wants.system = <<>>
    <3>1. said = out \o Pending
      BY <2>1, RequestTells
    <3> QED
      BY <3>1, PendingTells
  <2>2. CASE wants.system # <<>>
    <3>1. turns = <<>> /\ said = <<>>
      BY <2>2, SystemAlone
    <3>2. [i \in DOMAIN <<>> |-> HeardTurns(<<>>[i])] = <<>> /\ [i \in DOMAIN <<>> |-> ToldOf(<<>>[i])] = <<>>
          /\ DOMAIN <<>> = {}
      OBVIOUS
    <3> HIDE DEF said
    <3> QED
      BY <3>1, <3>2 DEF HeardIn, ToldIn
  <2> QED
    BY <2>1, <2>2
<1> HIDE DEF said
<1>2. HeardIn(said) = Joint([i \in DOMAIN said |-> HeardTurns(said[i])])
  BY DEF HeardIn
<1>3. ToldIn(turns) = Joint([i \in DOMAIN turns |-> Joint([k \in DOMAIN turns[i].blocks |-> Says(turns[i].blocks[k])])])
  BY DEF ToldIn, ToldOf
<1>4. ASSUME NEW turn \in Range(turns), NEW block \in Range(turn.blocks), block.type = "tool_result"
      PROVE  \E message \in Range(said) : message.answers = block.use /\ message.words = toToolResultContent(block.content)
  <2>1. PICK i \in DOMAIN turns : turns[i] = turn
    BY DEF Range
  <2>2. PICK k \in DOMAIN turn.blocks : turn.blocks[k] = block
    BY DEF Range
  <2>3. PICK j \in DOMAIN said : said[j].answers = block.use /\ said[j].words = toToolResultContent(block.content)
    BY <1>1, <1>4, <2>1, <2>2 DEF TurnAnswers
  <2>4. said[j] \in Range(said)
    BY DEF Range
  <2> QED
    BY <2>3, <2>4
<1>5. Joint([i \in DOMAIN said |-> HeardTurns(said[i])])
        = Joint([i \in DOMAIN turns |-> Joint([k \in DOMAIN turns[i].blocks |-> Says(turns[i].blocks[k])])])
  BY <1>1, <1>2, <1>3
<1> QED
  BY <1>4, <1>5 DEF OrderSurvives, said

LEMMA KindTells ==
  ASSUME NEW turn \in TurnsTaken, NEW type
  PROVE  OfType(turn, type) \in Seq(OfKind(type))
<1> DEFINE block == [type |-> "document", word |-> "document"]
           more == [role |-> turn.role, blocks |-> Append(turn.blocks, block)]
<1>1. block \in BlocksRead /\ more.blocks = Append(turn.blocks, block)
  BY DEF BlocksRead, Wordings
<1> HIDE DEF block, more
<1> QED
  BY <1>1, KindGrows

LEMMA WholeKept ==
  ASSUME TurnsInv
  PROVE  TurnStaysWhole
<1> DEFINE ms == ChatRequest.messages
<1>1. ASSUME NEW i \in DOMAIN turns, turns[i].role = "assistant", OfType(turns[i], "tool_use") # <<>>
      PROVE  \E j \in DOMAIN ms : /\ ms[j].role = "assistant" /\ ms[j].calls = UsesOf(turns[i])
                                  /\ ms[j].reasoning = ThoughtsOf(turns[i])
                                  /\ \A k \in 1 .. j : ms[k].answers \notin Range(ms[j].calls)
  <2>1. wants.system = <<>>
    <3>1. turns # <<>>
      OBVIOUS
    <3> QED
      BY <3>1, SystemAlone
  <2>2. ms = out \o Pending
    BY <2>1, RequestTells
  <2> HIDE DEF ms
  <2>3. TurnHeld(ms, turns[i])
    BY <2>2, PendingTells
  <2>4. UsesOf(turns[i]) # <<>>
    <3> DEFINE r == OfType(turns[i], "tool_use")
    <3>1. r \in Seq(OfKind("tool_use"))
      <4>1. turns[i] \in TurnsTaken
        BY DEF TurnsInv
      <4> QED
        BY <4>1, KindTells
    <3>2. UsesOf(turns[i]) = [k \in DOMAIN r |-> r[k].use]
      BY DEF UsesOf
    <3>3. r # <<>>
      BY <1>1
    <3> HIDE DEF r
    <3>4. DOMAIN r # {}
      BY <3>1, <3>3
    <3> DEFINE u == UsesOf(turns[i])
    <3>5. DOMAIN u # {}
      BY <3>2, <3>4
    <3> HIDE DEF u
    <3>6. u # <<>>
      BY <3>5
    <3> QED
      BY <3>6 DEF u
  <2> QED
    BY <1>1, <2>3, <2>4 DEF TurnHeld
<1> HIDE DEF ms
<1> QED
  BY <1>1 DEF TurnStaysWhole, UsesOf, ThoughtsOf, ms

LEMMA KnobsKept == KnobsArrive
<1>1. ChatRequest.metadata = Carried
  BY DEF ChatRequest
<1>2. \A key \in wants.metadata : <<key, "given">> \in Carried
  BY DEF Carried
<1>3. ASSUME NEW key \in wants.metadata PROVE key \in {entry[1] : entry \in ChatRequest.metadata}
  <2>1. <<key, "given">>[1] = key
    OBVIOUS
  <2> QED
    BY <1>1, <1>2, <2>1
<1>4. (wants.top_k # Absent => <<"top_k", wants.top_k>> \in Carried)
      /\ (wants.thinking # Absent => <<"thinking", wants.thinking>> \in Carried)
  BY DEF Carried
<1> QED
  BY <1>1, <1>3, <1>4 DEF KnobsArrive

\* However an Anthropic client writes its turns, the provider is told of its texts, images and
\* tool results in the order it wrote them, each result with its content, an assistant's turn
\* stays one message ahead of the results of its calls, and no field is lost
\* (src/src/anthropic/convert.ts, toCanonical).
THEOREM TurnsAreKept == TurnsSpec => []TurnsSurvive
<1>1. TurnsInit => TurnsInv
  BY TurnsStart
<1>2. TurnsInv /\ [TurnsNext]_turnVars => TurnsInv'
  BY TurnsStep
<1>3. TurnsInv => TurnsSurvive
  BY OrderKept, WholeKept, KnobsKept DEF TurnsSurvive
<1> QED
  BY <1>1, <1>2, <1>3, PTL DEF TurnsSpec

=============================================================================
