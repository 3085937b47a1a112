--------------------------- MODULE StreamTheorems ----------------------------
(***************************************************************************)
(* A streamed answer, for any calls, finish reasons and usages and however *)
(* it is told: every client can follow it to its end, has it assembled as  *)
(* it was said, and comes to the same whichever way it is carried.         *)
(***************************************************************************)
EXTENDS Streams, Foundations

----------------------------------------------------------------------------
(* A streamed answer (Streams) *)

\* What a translator of a stream keeps, and what its client has put together.
BlockKinds == {"thinking", "text", "tool_use"}
Maps(Keys, Values) == UNION {[K -> Values] : K \in SUBSET Keys}
ToolBlocks == Maps(Nat, [index : Nat, name : Nat])
StopReasons == {"end_turn", "max_tokens", "tool_use", "stop_sequence"}
Pieces == [kind : BlockKinds \cup {"none"}, key : Nat, name : Nat, piece : Nat]

Translators ==
  [started : BOOLEAN, index : Nat, open : BlockKinds \cup {"none"}, open_index : Int, open_tool : Int,
   tools : ToolBlocks, stop_reason : StopReasons]

ReaderBlocks == [kind : BlockKinds, name : Nat, text : Seq(Nat)]

Readers ==
  [at : {"before", "between", "inside", "complete", "failed"}, blocks : Seq(ReaderBlocks), reading : Nat,
   confused : BOOLEAN, stop_reason : StopReasons \cup {"none"}, usage : Nat]

\* The client c of a translator s is where the translator takes it to be.
FollowsAnthropic(s, c) ==
  /\ s \in Translators /\ c \in Readers /\ ~c.confused
  /\ c.at = IF ~s.started THEN "before" ELSE IF s.open = "none" THEN "between" ELSE "inside"
  /\ ~s.started => s.open = "none"
  /\ s.index = Len(c.blocks)
  /\ s.open # "none" =>
       /\ c.reading = s.open_index /\ s.open_index \in 0 .. Len(c.blocks) - 1
       /\ c.blocks[s.open_index + 1].kind = s.open
  /\ s.open = "tool_use" => s.open_tool \in DOMAIN s.tools
  /\ \A k \in DOMAIN s.tools :
       /\ s.tools[k].index < Len(c.blocks) /\ s.tools[k].name # 0
       /\ c.blocks[s.tools[k].index + 1].kind = "tool_use"
       /\ c.blocks[s.tools[k].index + 1].name = s.tools[k].name

\* What a piece says, and blocks or items of which the i-th says one piece more.
Uttered(piece) == IF piece = 0 THEN <<>> ELSE <<piece>>
Lengthened(s, i, piece) ==
  IF piece = 0 THEN s ELSE [s EXCEPT ![i] = [s[i] EXCEPT !.text = Append(s[i].text, piece)]]

\* A map with one more entry, or another one, is a map of the same kind.
LEMMA MapsTell ==
  ASSUME NEW Keys, NEW Values
  PROVE  /\ <<>> \in Maps(Keys, Values)
         /\ \A f \in Maps(Keys, Values) : DOMAIN f \subseteq Keys /\ \A k \in DOMAIN f : f[k] \in Values
         /\ \A f \in Maps(Keys, Values), k \in Keys, v \in Values : WithEntry(f, k, v) \in Maps(Keys, Values)
<1>1. <<>> \in [{} -> Values]
  OBVIOUS
<1>2. \A f : f \in Maps(Keys, Values) <=> \E K \in SUBSET Keys : f \in [K -> Values]
  BY DEF Maps
<1>3. ASSUME NEW f \in Maps(Keys, Values) PROVE DOMAIN f \subseteq Keys /\ f \in [DOMAIN f -> Values]
  BY <1>2
<1>4. ASSUME NEW f \in Maps(Keys, Values), NEW k \in Keys, NEW v \in Values
      PROVE  WithEntry(f, k, v) \in Maps(Keys, Values)
  <2> DEFINE g == WithEntry(f, k, v)
  <2>1. g = [x \in DOMAIN f \cup {k} |-> IF x = k THEN v ELSE f[x]]
    BY DEF WithEntry
  <2> HIDE DEF g
  <2>2. g \in [DOMAIN f \cup {k} -> Values]
    BY <1>3, <2>1
  <2>3. (DOMAIN f \cup {k}) \in SUBSET Keys
    BY <1>3
  <2>4. g \in Maps(Keys, Values)
    BY <1>2, <2>2, <2>3
  <2> QED
    BY <2>4 DEF g
<1>5. <<>> \in Maps(Keys, Values)
  BY <1>1, <1>2
<1> QED
  BY <1>3, <1>4, <1>5

\* The tool blocks by key, with one more or another.
LEMMA ToolBlocksTell ==
  /\ <<>> \in ToolBlocks
  /\ \A f \in ToolBlocks : DOMAIN f \subseteq Nat /\ \A k \in DOMAIN f : f[k] \in [index : Nat, name : Nat]
  /\ \A f \in ToolBlocks, k \in Nat, v \in [index : Nat, name : Nat] : WithEntry(f, k, v) \in ToolBlocks
BY MapsTell DEF ToolBlocks

\* Four events are taken one after the other.
LEMMA ReadTells ==
  ASSUME NEW c, NEW a, NEW b, NEW d, NEW e
  PROVE  Read(c, <<a, b, d, e>>) = Receive(Receive(Receive(Receive(c, a), b), d), e)
BY DEF Read

\* What each event does to a client that may expect it.
LEMMA ReceiveTells ==
  ASSUME NEW c, NEW e
  PROVE  /\ e.type = "silence" => Receive(c, e) = c
         /\ e.type = "message_start" /\ c.at = "before" =>
              Receive(c, e) = [c EXCEPT !.at = "between"]
         /\ e.type = "content_block_stop" /\ c.at = "inside" /\ c.reading = e.index =>
              Receive(c, e) = [c EXCEPT !.at = "between"]
         /\ e.type = "message_delta" /\ c.at = "between" =>
              Receive(c, e) = [c EXCEPT !.stop_reason = e.stop_reason, !.usage = e.usage]
         /\ e.type = "message_stop" /\ c.at = "between" /\ c.stop_reason # "none" =>
              Receive(c, e) = [c EXCEPT !.at = "complete"]
         /\ e.type = "error" /\ c.at \notin {"complete", "failed"} =>
              Receive(c, e) = [c EXCEPT !.at = "failed"]
         /\ e.type = "content_block_start" /\ c.at = "between" /\ e.index = Len(c.blocks) =>
              Receive(c, e) = [c EXCEPT !.at = "inside", !.reading = e.index, !.blocks = Append(@, Block(e.kind, e.name, <<>>))]
         /\ e.type = "content_block_start" /\ c.at = "between" /\ e.index # Len(c.blocks) /\ Resumes(c, e) =>
              Receive(c, e) = [c EXCEPT !.at = "inside", !.reading = e.index, !.blocks = @]
<1>1. e.type = "silence" => Receive(c, e) = c
  BY DEF Receive
<1>2. ASSUME e.type = "message_start", c.at = "before"
      PROVE  Receive(c, e) = [c EXCEPT !.at = "between"]
  <2>1. Legal(c, e)
    BY <1>2 DEF Legal
  <2>2. Apply(c, e) = [c EXCEPT !.at = "between"]
    BY <1>2 DEF Apply
  <2> QED
    BY <1>2, <2>1, <2>2 DEF Receive
<1>3. ASSUME e.type = "content_block_stop", c.at = "inside" /\ c.reading = e.index
      PROVE  Receive(c, e) = [c EXCEPT !.at = "between"]
  <2>1. Legal(c, e)
    BY <1>3 DEF Legal
  <2>2. Apply(c, e) = [c EXCEPT !.at = "between"]
    BY <1>3 DEF Apply
  <2> QED
    BY <1>3, <2>1, <2>2 DEF Receive
<1>4. ASSUME e.type = "message_delta", c.at = "between"
      PROVE  Receive(c, e) = [c EXCEPT !.stop_reason = e.stop_reason, !.usage = e.usage]
  <2>1. Legal(c, e)
    BY <1>4 DEF Legal
  <2>2. Apply(c, e) = [c EXCEPT !.stop_reason = e.stop_reason, !.usage = e.usage]
    BY <1>4 DEF Apply
  <2> QED
    BY <1>4, <2>1, <2>2 DEF Receive
<1>5. ASSUME e.type = "message_stop", c.at = "between" /\ c.stop_reason # "none"
      PROVE  Receive(c, e) = [c EXCEPT !.at = "complete"]
  <2>1. Legal(c, e)
    BY <1>5 DEF Legal
  <2>2. Apply(c, e) = [c EXCEPT !.at = "complete"]
    BY <1>5 DEF Apply
  <2> QED
    BY <1>5, <2>1, <2>2 DEF Receive
<1>6. ASSUME e.type = "error", c.at \notin {"complete", "failed"}
      PROVE  Receive(c, e) = [c EXCEPT !.at = "failed"]
  <2>1. Legal(c, e)
    BY <1>6 DEF Legal
  <2>2. Apply(c, e) = [c EXCEPT !.at = "failed"]
    BY <1>6 DEF Apply
  <2> QED
    BY <1>6, <2>1, <2>2 DEF Receive
<1>7. ASSUME e.type = "content_block_start", c.at = "between" /\ e.index = Len(c.blocks)
      PROVE  Receive(c, e) = 
           [c EXCEPT !.at = "inside", !.reading = e.index, !.blocks = Append(@, Block(e.kind, e.name, <<>>))]
  <2>1. Legal(c, e)
    BY <1>7 DEF Legal
  <2>2. Apply(c, e) = 
           [c EXCEPT !.at = "inside", !.reading = e.index, !.blocks = Append(@, Block(e.kind, e.name, <<>>))]
    BY <1>7 DEF Apply
  <2> QED
    BY <1>7, <2>1, <2>2 DEF Receive
<1>8. ASSUME e.type = "content_block_start", c.at = "between" /\ e.index # Len(c.blocks) /\ Resumes(c, e)
      PROVE  Receive(c, e) = 
           [c EXCEPT !.at = "inside", !.reading = e.index, !.blocks = @]
  <2>1. Legal(c, e)
    BY <1>8 DEF Legal
  <2>2. Apply(c, e) = 
           [c EXCEPT !.at = "inside", !.reading = e.index, !.blocks = @]
    BY <1>8 DEF Apply
  <2> QED
    BY <1>8, <2>1, <2>2 DEF Receive
<1> QED
  BY <1>1, <1>2, <1>3, <1>4, <1>5, <1>6, <1>7, <1>8

\* A client that has begun, or is told to.
LEMMA BeginFollows ==
  ASSUME NEW s, NEW c, FollowsAnthropic(s, c)
  PROVE  LET begun == Receive(c, BeginMessage(s))
         IN  FollowsAnthropic([s EXCEPT !.started = TRUE], begun) /\ begun.usage = c.usage /\ begun.blocks = c.blocks
<1> DEFINE begun == Receive(c, BeginMessage(s))
           after == [s EXCEPT !.started = TRUE]
<1>1. s \in Translators /\ c \in Readers
  BY DEF FollowsAnthropic
<1>2. after \in Translators /\ after.started /\ after.index = s.index /\ after.open = s.open
      /\ after.open_index = s.open_index /\ after.open_tool = s.open_tool /\ after.tools = s.tools
  BY <1>1 DEF Translators
<1>3. ASSUME s.started PROVE FollowsAnthropic(after, begun) /\ begun.usage = c.usage /\ begun.blocks = c.blocks
  <2>1. BeginMessage(s).type = "silence"
    BY <1>3 DEF BeginMessage, Silence
  <2>2. begun = c
    BY <2>1, ReceiveTells
  <2> HIDE DEF begun, after
  <2> QED
    BY <1>2, <1>3, <2>2 DEF FollowsAnthropic
<1>4. ASSUME ~s.started PROVE FollowsAnthropic(after, begun) /\ begun.usage = c.usage /\ begun.blocks = c.blocks
  <2>1. BeginMessage(s).type = "message_start"
    BY <1>4 DEF BeginMessage
  <2>2. c.at = "before" /\ s.open = "none"
    BY <1>4 DEF FollowsAnthropic
  <2>3. begun = [c EXCEPT !.at = "between"]
    BY <2>1, <2>2, ReceiveTells
  <2> HIDE DEF begun, after
  <2>4. begun \in Readers /\ begun.at = "between" /\ begun.blocks = c.blocks /\ ~begun.confused /\ begun.usage = c.usage
    BY <1>1, <2>3 DEF Readers, FollowsAnthropic
  <2> QED
    BY <1>2, <2>2, <2>4 DEF FollowsAnthropic
<1> QED
  BY <1>3, <1>4

\* The client of a closed block is between two.
LEMMA CloseFollows ==
  ASSUME NEW s, NEW c, FollowsAnthropic(s, c), s.started
  PROVE  LET closed == Receive(c, CloseBlock(s))
         IN  /\ closed \in Readers /\ closed.at = "between" /\ closed.blocks = c.blocks /\ ~closed.confused
             /\ closed.usage = c.usage
<1> DEFINE closed == Receive(c, CloseBlock(s))
<1>1. c \in Readers /\ ~c.confused
  BY DEF FollowsAnthropic
<1> DEFINE holds == /\ closed \in Readers /\ closed.at = "between" /\ closed.blocks = c.blocks /\ ~closed.confused
                    /\ closed.usage = c.usage
<1>2. ASSUME s.open = "none" PROVE holds
  <2>1. CloseBlock(s).type = "silence"
    BY <1>2 DEF CloseBlock, Silence
  <2>2. closed = c
    BY <2>1, ReceiveTells
  <2> QED
    BY <1>1, <1>2, <2>2 DEF FollowsAnthropic
<1>3. ASSUME s.open # "none" PROVE holds
  <2>1. CloseBlock(s).type = "content_block_stop" /\ CloseBlock(s).index = s.open_index
    BY <1>3 DEF CloseBlock
  <2>2. c.at = "inside" /\ c.reading = s.open_index
    BY <1>3 DEF FollowsAnthropic
  <2>3. closed = [c EXCEPT !.at = "between"]
    BY <2>1, <2>2, ReceiveTells
  <2> HIDE DEF closed
  <2> QED
    BY <1>1, <2>3 DEF Readers
<1> QED
  BY <1>2, <1>3

\* A delta goes to the block that is open.
LEMMA DeltaFollows ==
  ASSUME NEW s, NEW c, FollowsAnthropic(s, c), s.started, NEW d \in Pieces, s.open = d.kind, d.kind # "none",
         NEW e, e = IF d.piece = 0 THEN Silence
                    ELSE [type |-> "content_block_delta", index |-> s.open_index, kind |-> d.kind, piece |-> d.piece]
  PROVE  /\ FollowsAnthropic(s, Receive(c, e)) /\ Receive(c, e).usage = c.usage
         /\ Receive(c, e).blocks = Lengthened(c.blocks, s.open_index + 1, d.piece)
<1> DEFINE told == Receive(c, e)
           i == s.open_index + 1
           holds == /\ FollowsAnthropic(s, told) /\ told.usage = c.usage
                    /\ told.blocks = Lengthened(c.blocks, i, d.piece)
           block == [c.blocks[i] EXCEPT !.text = Append(c.blocks[i].text, d.piece)]
<1>1. ASSUME d.piece = 0 PROVE holds
  <2>1. told = c
    BY <1>1, ReceiveTells DEF Silence
  <2> QED
    BY <1>1, <2>1 DEF Lengthened
<1>2. ASSUME d.piece # 0 PROVE holds
  <2>1. e.type = "content_block_delta" /\ e.index = s.open_index /\ e.kind = d.kind /\ e.piece = d.piece
    BY <1>2
  <2>2. /\ c \in Readers /\ c.at = "inside" /\ c.reading = s.open_index /\ c.blocks[i].kind = d.kind
        /\ i \in 1 .. Len(c.blocks) /\ c.blocks \in Seq(ReaderBlocks) /\ s \in Translators
    BY DEF FollowsAnthropic, Readers
  <2>3. told = [c EXCEPT !.blocks[e.index + 1].text = Append(@, e.piece)]
    <3>1. e.type = "content_block_delta" /\ c.at = "inside" /\ c.reading = e.index
          /\ c.blocks[e.index + 1].kind = e.kind
      BY <2>1, <2>2
    <3> HIDE DEF i
    <3>2. Legal(c, e)
      BY <3>1 DEF Legal
    <3>3. Apply(c, e) = [c EXCEPT !.blocks[e.index + 1].text = Append(@, e.piece)]
      BY <3>1 DEF Apply
    <3> QED
      BY <3>1, <3>2, <3>3 DEF Receive
  <2>4. told = [c EXCEPT !.blocks = [c.blocks EXCEPT ![i] = block]]
    BY <2>1, <2>3
  <2>5. c.blocks[i] \in ReaderBlocks /\ d.piece \in Nat
    BY <2>2 DEF Pieces
  <2>6. block \in ReaderBlocks /\ block.kind = c.blocks[i].kind /\ block.name = c.blocks[i].name
    <3> DEFINE was == c.blocks[i]
               text == Append(was.text, d.piece)
    <3>1. was \in ReaderBlocks /\ block = [was EXCEPT !.text = text]
      BY <2>5
    <3> HIDE DEF was, block
    <3>2. text \in Seq(Nat)
      BY <2>5, <3>1 DEF ReaderBlocks
    <3> HIDE DEF text
    <3>3. block \in ReaderBlocks /\ block.kind = was.kind /\ block.name = was.name
      BY <3>1, <3>2 DEF ReaderBlocks
    <3> QED
      BY <3>3 DEF was
  <2> DEFINE blocks == [c.blocks EXCEPT ![i] = block]
  <2>11. blocks = Lengthened(c.blocks, i, d.piece)
    BY <1>2 DEF Lengthened
  <2> HIDE DEF block, told, i
  <2>7. /\ blocks \in Seq(ReaderBlocks) /\ Len(blocks) = Len(c.blocks)
        /\ \A k \in 1 .. Len(c.blocks) : blocks[k].kind = c.blocks[k].kind /\ blocks[k].name = c.blocks[k].name
    BY <2>2, <2>6
  <2> HIDE DEF blocks
  <2>8. told = [c EXCEPT !.blocks = blocks]
    BY <2>4 DEF blocks
  <2>9. told \in Readers /\ told.at = c.at /\ told.reading = c.reading /\ told.blocks = blocks
        /\ told.confused = c.confused /\ told.usage = c.usage
    BY <2>2, <2>7, <2>8 DEF Readers
  <2>10. \A k \in DOMAIN s.tools : s.tools[k].index + 1 \in 1 .. Len(c.blocks)
    <3>1. \A k \in DOMAIN s.tools : s.tools[k].index < Len(c.blocks) /\ s.tools[k].index \in Nat
      BY <2>2, ToolBlocksTell DEF FollowsAnthropic, Translators
    <3> QED
      BY <2>2, <3>1
  <2>12. FollowsAnthropic(s, told)
    BY ZenonT(60), <2>2, <2>7, <2>9, <2>10 DEF FollowsAnthropic, i
  <2> QED
    BY <2>9, <2>11, <2>12
<1> QED
  BY <1>1, <1>2

\* A tool's block is resumed under the index and the name it has.
LEMMA ResumeFollows ==
  ASSUME NEW s, NEW c, FollowsAnthropic(s, c), s.started, NEW d \in Pieces, d.kind = "tool_use",
         ~StaysOpen(s, d), d.key \in DOMAIN s.tools,
         NEW closed \in Readers, closed.at = "between", closed.blocks = c.blocks, ~closed.confused
  PROVE  LET after == Opened(s, d)
             opened == Receive(closed, OpenBlock(s, d))
         IN  /\ FollowsAnthropic(after, opened) /\ after.started /\ after.open = d.kind
             /\ opened.usage = closed.usage /\ DOMAIN after.tools = DOMAIN s.tools
             /\ after.stop_reason = s.stop_reason
             /\ opened.blocks = c.blocks /\ after.open_index = s.tools[d.key].index
<1> DEFINE after == Opened(s, d)
           e == OpenBlock(s, d)
           opened == Receive(closed, e)
           k == d.key
           b == s.tools[k]
           tools == WithEntry(s.tools, k, b)
<1>1. s \in Translators /\ s.index = Len(c.blocks) /\ c.blocks \in Seq(ReaderBlocks) /\ k \in Nat
  BY DEF FollowsAnthropic, Readers, Pieces
<1>2. /\ b \in [index : Nat, name : Nat] /\ b.index < Len(c.blocks) /\ b.name # 0
      /\ c.blocks[b.index + 1].kind = "tool_use" /\ c.blocks[b.index + 1].name = b.name
  BY <1>1, ToolBlocksTell DEF FollowsAnthropic, Translators
<1>3. Known(s, d)
  BY DEF Known
<1>4. BlockOf(s, d) = b
  <2>1. BlockOf(s, d) = [b EXCEPT !.name = IF @ = 0 THEN d.name ELSE @]
    BY <1>3 DEF BlockOf
  <2> HIDE DEF b
  <2> QED
    BY <1>2, <2>1
<1>5. e.type = "content_block_start" /\ e.index = b.index /\ e.kind = "tool_use" /\ e.name = b.name
  BY <1>4 DEF OpenBlock
<1>6. after = [s EXCEPT !.open = "tool_use", !.open_index = b.index, !.index = s.index, !.open_tool = k, !.tools = tools]
  BY <1>3, <1>4 DEF Opened
<1> HIDE DEF b, k
<1>7. tools \in ToolBlocks /\ DOMAIN tools = DOMAIN s.tools /\ \A x \in DOMAIN tools : tools[x] = s.tools[x]
  <2>1. s.tools \in ToolBlocks
    BY <1>1 DEF Translators
  <2>2. tools = [x \in DOMAIN s.tools \cup {k} |-> IF x = k THEN b ELSE s.tools[x]]
    BY DEF WithEntry
  <2>3. tools \in ToolBlocks
    BY <1>1, <1>2, <2>1, ToolBlocksTell
  <2>4. k \in DOMAIN s.tools /\ s.tools[k] = b
    BY DEF b, k
  <2> HIDE DEF tools
  <2> QED
    BY <2>2, <2>3, <2>4
<1> HIDE DEF tools, after, e
<1>8. opened = [closed EXCEPT !.at = "inside", !.reading = e.index, !.blocks = @]
  <2>1. Resumes(closed, e) /\ e.index # Len(closed.blocks)
    BY <1>1, <1>2, <1>5 DEF Resumes
  <2> QED
    BY <1>5, <2>1, ReceiveTells
<1> HIDE DEF opened
<1>9. /\ opened \in Readers /\ opened.at = "inside" /\ opened.reading = b.index /\ opened.blocks = c.blocks
      /\ ~opened.confused /\ opened.usage = closed.usage
  <2> QED
    BY <1>2, <1>5, <1>8 DEF Readers
<1>10. /\ after \in Translators /\ after.started /\ after.open = "tool_use" /\ after.open_index = b.index
       /\ after.index = s.index /\ after.open_tool = k /\ after.tools = tools /\ after.stop_reason = s.stop_reason
  <2>1. "tool_use" \in BlockKinds \cup {"none"}
    BY DEF BlockKinds
  <2>2. b.index \in Int /\ k \in Int /\ s.index \in Nat
    BY <1>1, <1>2 DEF Translators
  <2>3. after = [started |-> s.started, index |-> s.index, open |-> "tool_use", open_index |-> b.index,
                 open_tool |-> k, tools |-> tools, stop_reason |-> s.stop_reason]
    BY <1>1, <1>6 DEF Translators
  <2> DEFINE kind == "tool_use"
             at == b.index
  <2> HIDE DEF kind, at
  <2>4. /\ after \in Translators /\ after.started = s.started /\ after.open = kind /\ after.open_index = at
        /\ after.index = s.index /\ after.open_tool = k /\ after.tools = tools /\ after.stop_reason = s.stop_reason
    <3>1. kind \in BlockKinds \cup {"none"} /\ at \in Int
      BY <2>1, <2>2 DEF kind, at
    <3>2. after = [started |-> s.started, index |-> s.index, open |-> kind, open_index |-> at,
                   open_tool |-> k, tools |-> tools, stop_reason |-> s.stop_reason]
      BY <2>3 DEF kind, at
    <3>3. s.started \in BOOLEAN /\ s.stop_reason \in StopReasons
      BY <1>1 DEF Translators
    <3> QED
      BY <1>7, <2>2, <3>1, <3>2, <3>3 DEF Translators
  <2> QED
    BY <2>4 DEF kind, at
<1>11. \A x \in DOMAIN s.tools :
         /\ s.tools[x].index < Len(c.blocks) /\ s.tools[x].name # 0
         /\ c.blocks[s.tools[x].index + 1].kind = "tool_use"
         /\ c.blocks[s.tools[x].index + 1].name = s.tools[x].name
  BY DEF FollowsAnthropic
<1>12. b.index \in 0 .. Len(c.blocks) - 1
  BY <1>1, <1>2
<1>13. FollowsAnthropic(after, opened)
  <2>1. opened.reading = after.open_index /\ after.open_index \in 0 .. Len(opened.blocks) - 1
        /\ opened.blocks[after.open_index + 1].kind = after.open
    BY <1>2, <1>9, <1>10, <1>12
  <2>2. after.index = Len(opened.blocks) /\ after.open_tool \in DOMAIN after.tools
    BY <1>1, <1>7, <1>9, <1>10 DEF k
  <2>3. \A x \in DOMAIN after.tools :
          /\ after.tools[x].index < Len(opened.blocks) /\ after.tools[x].name # 0
          /\ opened.blocks[after.tools[x].index + 1].kind = "tool_use"
          /\ opened.blocks[after.tools[x].index + 1].name = after.tools[x].name
    BY <1>7, <1>9, <1>10, <1>11
  <2> QED
    BY <1>9, <1>10, <2>1, <2>2, <2>3 DEF FollowsAnthropic
<1> QED
  BY <1>7, <1>9, <1>10, <1>13 DEF after, opened, e, b, k

\* A new block takes the next index.
LEMMA NewBlockFollows ==
  ASSUME NEW s, NEW c, FollowsAnthropic(s, c), s.started, NEW d \in Pieces, d.kind # "none",
         ~StaysOpen(s, d), ~Known(s, d), d.kind = "tool_use" => d.name # 0,
         NEW closed \in Readers, closed.at = "between", closed.blocks = c.blocks, ~closed.confused
  PROVE  LET after == Opened(s, d)
             opened == Receive(closed, OpenBlock(s, d))
         IN  /\ FollowsAnthropic(after, opened) /\ after.started /\ after.open = d.kind
             /\ opened.usage = closed.usage
             /\ DOMAIN after.tools = DOMAIN s.tools \cup (IF d.kind = "tool_use" THEN {d.key} ELSE {})
             /\ after.stop_reason = s.stop_reason
             /\ opened.blocks = Append(c.blocks, Block(d.kind, d.name, <<>>)) /\ after.open_index = Len(c.blocks)
<1> DEFINE after == Opened(s, d)
           e == OpenBlock(s, d)
           opened == Receive(closed, e)
           k == d.key
           b == [index |-> s.index, name |-> d.name]
           tools == IF d.kind = "tool_use" THEN WithEntry(s.tools, k, b) ELSE s.tools
           new == Block(d.kind, d.name, <<>>)
           blocks == Append(c.blocks, new)
           tool == IF d.kind = "tool_use" THEN k ELSE NoKey
<1>1. s \in Translators /\ s.index = Len(c.blocks) /\ c.blocks \in Seq(ReaderBlocks) /\ k \in Nat
      /\ d.kind \in BlockKinds /\ d.name \in Nat /\ s.index \in Nat
  BY DEF FollowsAnthropic, Readers, Pieces, BlockKinds, Translators
<1>2. BlockOf(s, d) = b
  BY DEF BlockOf
<1>3. e.type = "content_block_start" /\ e.index = s.index /\ e.kind = d.kind /\ e.name = d.name
  BY <1>2 DEF OpenBlock
<1>4. after = [s EXCEPT !.open = d.kind, !.open_index = s.index, !.index = s.index + 1, !.open_tool = tool, !.tools = tools]
  BY <1>2 DEF Opened
<1>5. /\ tools \in ToolBlocks
      /\ DOMAIN tools = DOMAIN s.tools \cup (IF d.kind = "tool_use" THEN {d.key} ELSE {})
      /\ \A x \in DOMAIN s.tools : tools[x] = s.tools[x]
      /\ d.kind = "tool_use" => tools[k] = b
  <2>1. s.tools \in ToolBlocks
    BY <1>1 DEF Translators
  <2>2. CASE d.kind = "tool_use"
    <3> DEFINE more == WithEntry(s.tools, k, b)
    <3>7. b \in [index : Nat, name : Nat]
      BY <1>1
    <3> HIDE DEF b, k
    <3>1. more = [x \in DOMAIN s.tools \cup {k} |-> IF x = k THEN b ELSE s.tools[x]]
      BY DEF WithEntry
    <3>2. more \in ToolBlocks
      BY <1>1, <2>1, <3>7, ToolBlocksTell
    <3>3. k \notin DOMAIN s.tools
      BY <2>2 DEF Known, k
    <3>4. DOMAIN more = DOMAIN s.tools \cup {k} /\ more[k] = b /\ \A x \in DOMAIN s.tools : more[x] = s.tools[x]
      BY <3>1, <3>3
    <3>5. tools = more
      <4>1. tools = (IF d.kind = "tool_use" THEN more ELSE s.tools)
        OBVIOUS
      <4> HIDE DEF more, tools
      <4> QED
        BY <2>2, <4>1
    <3> HIDE DEF more, tools
    <3>6. DOMAIN tools = DOMAIN s.tools \cup {d.key}
      BY <3>4, <3>5 DEF k
    <3> QED
      BY <2>2, <3>2, <3>4, <3>5, <3>6
  <2>3. CASE d.kind # "tool_use"
    BY <2>1, <2>3
  <2> QED
    BY <2>2, <2>3
<1> HIDE DEF tools, after, e
<1>6. opened = [closed EXCEPT !.at = "inside", !.reading = e.index, !.blocks = Append(@, Block(e.kind, e.name, <<>>))]
  <2>1. e.type = "content_block_start" /\ closed.at = "between" /\ e.index = Len(closed.blocks)
    BY <1>1, <1>3
  <2>2. Legal(closed, e)
    BY <2>1 DEF Legal
  <2>3. Apply(closed, e) = [closed EXCEPT !.at = "inside", !.reading = e.index, !.blocks = Append(@, Block(e.kind, e.name, <<>>))]
    BY <2>1 DEF Apply
  <2> QED
    BY <2>1, <2>2, <2>3 DEF Receive
<1> HIDE DEF opened
<1>7. new \in ReaderBlocks /\ new.kind = d.kind /\ new.name = d.name
  BY <1>1 DEF Block, ReaderBlocks
<1>8. opened = [closed EXCEPT !.at = "inside", !.reading = s.index, !.blocks = blocks]
  BY <1>3, <1>6
<1> HIDE DEF new
<1>9. /\ blocks \in Seq(ReaderBlocks) /\ Len(blocks) = s.index + 1 /\ blocks[s.index + 1] = new
      /\ \A i \in 1 .. s.index : blocks[i] = c.blocks[i]
  BY <1>1, <1>7
<1> HIDE DEF blocks
<1>10. /\ opened \in Readers /\ opened.at = "inside" /\ opened.reading = s.index /\ opened.blocks = blocks
       /\ ~opened.confused /\ opened.usage = closed.usage
  BY <1>1, <1>8, <1>9 DEF Readers
<1>11. /\ after \in Translators /\ after.started /\ after.open = d.kind /\ after.open_index = s.index
       /\ after.index = s.index + 1 /\ after.open_tool = tool /\ after.tools = tools /\ after.stop_reason = s.stop_reason
  <2>1. d.kind \in BlockKinds \cup {"none"} /\ s.index \in Int /\ s.index + 1 \in Nat /\ tool \in Int
    BY <1>1 DEF NoKey
  <2> HIDE DEF tool
  <2>2. after = [started |-> s.started, index |-> s.index + 1, open |-> d.kind, open_index |-> s.index,
                 open_tool |-> tool, tools |-> tools, stop_reason |-> s.stop_reason]
    BY <1>1, <1>4 DEF Translators
  <2> DEFINE kind == d.kind
             at == s.index
             next == s.index + 1
  <2> HIDE DEF kind, at, next
  <2>3. /\ after \in Translators /\ after.started = s.started /\ after.open = kind /\ after.open_index = at
        /\ after.index = next /\ after.open_tool = tool /\ after.tools = tools /\ after.stop_reason = s.stop_reason
    <3>1. kind \in BlockKinds \cup {"none"} /\ at \in Int /\ next \in Nat
      BY <2>1 DEF kind, at, next
    <3>2. after = [started |-> s.started, index |-> next, open |-> kind, open_index |-> at,
                   open_tool |-> tool, tools |-> tools, stop_reason |-> s.stop_reason]
      BY <2>2 DEF kind, at, next
    <3>3. s.started \in BOOLEAN /\ s.stop_reason \in StopReasons
      BY <1>1 DEF Translators
    <3> QED
      BY <1>5, <2>1, <3>1, <3>2, <3>3 DEF Translators
  <2> QED
    BY <2>3 DEF kind, at, next
<1>12. \A x \in DOMAIN tools :
         /\ tools[x].index < Len(blocks) /\ tools[x].name # 0
         /\ blocks[tools[x].index + 1].kind = "tool_use"
         /\ blocks[tools[x].index + 1].name = tools[x].name
  <2>1. ASSUME NEW x \in DOMAIN s.tools
        PROVE  /\ tools[x].index < Len(blocks) /\ tools[x].name # 0
               /\ blocks[tools[x].index + 1].kind = "tool_use"
               /\ blocks[tools[x].index + 1].name = tools[x].name
    <3>1. /\ s.tools[x].index < s.index /\ s.tools[x].name # 0
          /\ c.blocks[s.tools[x].index + 1].kind = "tool_use"
          /\ c.blocks[s.tools[x].index + 1].name = s.tools[x].name
      BY <1>1 DEF FollowsAnthropic
    <3>2. s.tools[x].index \in Nat
      BY <1>1, ToolBlocksTell DEF Translators
    <3>3. s.tools[x].index + 1 \in 1 .. s.index /\ tools[x] = s.tools[x]
      BY <1>1, <1>5, <3>1, <3>2
    <3> QED
      BY <1>1, <1>9, <3>1, <3>2, <3>3
  <2>2. ASSUME d.kind = "tool_use"
        PROVE  /\ tools[k].index < Len(blocks) /\ tools[k].name # 0
               /\ blocks[tools[k].index + 1].kind = "tool_use"
               /\ blocks[tools[k].index + 1].name = tools[k].name
    <3>1. tools[k].index = s.index /\ tools[k].name = d.name
      BY <1>5, <2>2
    <3> QED
      BY <1>1, <1>7, <1>9, <2>2, <3>1
  <2> QED
    BY <1>5, <2>1, <2>2
<1>13. d.kind = "tool_use" => tool \in DOMAIN tools
  BY <1>5
<1>14. FollowsAnthropic(after, opened)
  <2>1. s.index \in 0 .. Len(blocks) - 1
    BY <1>1, <1>9
  <2> HIDE DEF tool
  <2> QED
    <3>1. opened.reading = after.open_index /\ after.open_index \in 0 .. Len(opened.blocks) - 1
          /\ opened.blocks[after.open_index + 1].kind = after.open
      BY <1>7, <1>9, <1>10, <1>11, <2>1
    <3>2. after.index = Len(opened.blocks) /\ (after.open = "tool_use" => after.open_tool \in DOMAIN after.tools)
      BY <1>9, <1>10, <1>11, <1>13 DEF tool
    <3>3. \A x \in DOMAIN after.tools :
            /\ after.tools[x].index < Len(opened.blocks) /\ after.tools[x].name # 0
            /\ opened.blocks[after.tools[x].index + 1].kind = "tool_use"
            /\ opened.blocks[after.tools[x].index + 1].name = after.tools[x].name
      BY <1>10, <1>11, <1>12
    <3>4. after.open # "none"
      BY <1>11
    <3> QED
      BY <1>10, <1>11, <3>1, <3>2, <3>3, <3>4 DEF FollowsAnthropic
<1> QED
  BY <1>1, <1>5, <1>10, <1>11, <1>14 DEF after, opened, e, blocks, new

\* A message that has begun is translated as one that has not, but for its start.
LEMMA BegunTranslates ==
  ASSUME NEW s \in Translators, NEW d \in Pieces,
         NEW begun, begun = [s EXCEPT !.started = TRUE]
  PROVE  /\ begun \in Translators /\ begun.started /\ begun.tools = s.tools /\ begun.stop_reason = s.stop_reason
         /\ CloseBlock(begun) = CloseBlock(s) /\ OpenBlock(begun, d) = OpenBlock(s, d)
         /\ Delta(begun, d) = Delta(s, d) /\ (Known(begun, d) <=> Known(s, d))
         /\ (StaysOpen(begun, d) <=> StaysOpen(s, d))
         /\ After(s, d) = IF d.kind = "none" THEN begun ELSE Opened(begun, d)
<1>1. begun \in Translators /\ begun.started /\ begun.index = s.index /\ begun.open = s.open
      /\ begun.open_index = s.open_index /\ begun.open_tool = s.open_tool /\ begun.tools = s.tools
      /\ begun.stop_reason = s.stop_reason
  BY DEF Translators
<1>2. Known(begun, d) <=> Known(s, d)
  BY <1>1 DEF Known
<1>3. StaysOpen(begun, d) <=> StaysOpen(s, d)
  BY <1>1 DEF StaysOpen
<1>4. BlockOf(begun, d) = BlockOf(s, d)
  BY <1>1, <1>2 DEF BlockOf
<1>5. CloseBlock(begun) = CloseBlock(s)
  BY <1>1 DEF CloseBlock
<1>6. OpenBlock(begun, d) = OpenBlock(s, d)
  BY <1>4 DEF OpenBlock
<1>7. Opened(begun, d) = [Opened(s, d) EXCEPT !.started = TRUE]
  <2>1. CASE StaysOpen(s, d)
    BY <1>3, <2>1 DEF Opened
  <2>2. CASE ~StaysOpen(s, d)
    <3> DEFINE b == BlockOf(s, d)
               i == IF Known(s, d) THEN s.index ELSE s.index + 1
               tool == IF d.kind = "tool_use" THEN d.key ELSE NoKey
               tools == IF d.kind = "tool_use" THEN WithEntry(s.tools, d.key, b) ELSE s.tools
    <3>1. Opened(s, d) = [s EXCEPT !.open = d.kind, !.open_index = b.index, !.index = i, !.open_tool = tool, !.tools = tools]
      BY <2>2 DEF Opened
    <3>2. Opened(begun, d) = [begun EXCEPT !.open = d.kind, !.open_index = b.index, !.index = i, !.open_tool = tool, !.tools = tools]
      BY <1>1, <1>2, <1>3, <1>4, <2>2 DEF Opened
    <3> HIDE DEF b, i, tool, tools
    <3>3. Opened(s, d) = [started |-> s.started, index |-> i, open |-> d.kind, open_index |-> b.index, open_tool |-> tool,
                          tools |-> tools, stop_reason |-> s.stop_reason]
      BY <3>1 DEF Translators
    <3>4. Opened(begun, d) = [started |-> TRUE, index |-> i, open |-> d.kind, open_index |-> b.index, open_tool |-> tool,
                              tools |-> tools, stop_reason |-> s.stop_reason]
      BY <1>1, <3>2 DEF Translators
    <3> DEFINE started == s.started
               kind == d.kind
               at == b.index
               stop == s.stop_reason
               was == [started |-> started, index |-> i, open |-> kind, open_index |-> at, open_tool |-> tool,
                       tools |-> tools, stop_reason |-> stop]
    <3>5. Opened(s, d) = was
      BY <3>3
    <3> HIDE DEF started, kind, at, stop
    <3>6. was \in [started : {started}, index : {i}, open : {kind}, open_index : {at}, open_tool : {tool},
                   tools : {tools}, stop_reason : {stop}]
      OBVIOUS
    <3> HIDE DEF was
    <3> DEFINE yes == TRUE
               now == [was EXCEPT !.started = yes]
               one == [started |-> yes, index |-> i, open |-> kind, open_index |-> at, open_tool |-> tool,
                       tools |-> tools, stop_reason |-> stop]
    <3> HIDE DEF yes
    <3>8. DOMAIN now = DOMAIN one
      BY <3>6
    <3>9. \A x \in DOMAIN one : now[x] = one[x]
      BY <3>6
    <3>7. now = one
      BY <3>6, <3>8, <3>9
    <3>10. Opened(begun, d) = one
      BY <3>4 DEF kind, at, stop, yes
    <3> QED
      BY <3>5, <3>7, <3>10 DEF yes
  <2> QED
    BY <2>1, <2>2
<1>8. Opened(begun, d).open_index = Opened(s, d).open_index
  <2>1. CASE StaysOpen(s, d)
    BY <1>1, <1>3, <2>1 DEF Opened
  <2>2. CASE ~StaysOpen(s, d)
    <3>1. Opened(s, d).open_index = BlockOf(s, d).index
      BY <2>2 DEF Opened, Translators
    <3>2. Opened(begun, d).open_index = BlockOf(begun, d).index
      BY <1>1, <1>3, <2>2 DEF Opened, Translators
    <3> QED
      BY <1>4, <3>1, <3>2
  <2> QED
    BY <2>1, <2>2
<1>9. Delta(begun, d) = Delta(s, d)
  BY <1>8 DEF Delta
<1>10. After(s, d) = IF d.kind = "none" THEN begun ELSE Opened(begun, d)
  BY <1>7 DEF After
<1> QED
  BY <1>1, <1>2, <1>3, <1>5, <1>6, <1>9, <1>10

\* What is opened and written to begins with what is written.
LEMMA EntryBegins ==
  ASSUME NEW X, NEW s \in Seq(X), NEW new \in X, NEW whole \in X, NEW piece \in Nat, new.text = <<>>,
         [new EXCEPT !.text = <<piece>>] = whole
  PROVE  Lengthened(Append(s, new), Len(s) + 1, piece) = Append(s, IF piece = 0 THEN new ELSE whole)
<1> DEFINE m == Len(s)
           more == Append(s, new)
           longer == [more[m + 1] EXCEPT !.text = Append(more[m + 1].text, piece)]
<1>1. more \in Seq(X) /\ m \in Nat /\ Len(more) = m + 1 /\ more[m + 1] = new /\ \A i \in 1 .. m : more[i] = s[i]
  OBVIOUS
<1>2. longer = whole
  <2> HIDE DEF more
  <2>1. longer = [new EXCEPT !.text = Append(new.text, piece)]
    BY <1>1
  <2>2. Append(new.text, piece) = <<piece>>
    OBVIOUS
  <2> QED
    BY <2>1, <2>2
<1>3. ASSUME piece # 0 PROVE [more EXCEPT ![m + 1] = longer] = Append(s, whole)
  <2> DEFINE a == [more EXCEPT ![m + 1] = longer]
             b == Append(s, whole)
  <2>1. b \in Seq(X) /\ Len(b) = m + 1 /\ b[m + 1] = whole /\ \A i \in 1 .. m : b[i] = s[i]
    OBVIOUS
  <2> HIDE DEF longer, more, b
  <2>2. a \in Seq(X) /\ Len(a) = m + 1 /\ a[m + 1] = whole /\ \A i \in 1 .. m : a[i] = s[i]
    BY <1>1, <1>2
  <2> HIDE DEF a, m
  <2>3. a = b
    BY <1>1, <2>1, <2>2
  <2> QED
    BY <2>3 DEF a, b
<1>4. CASE piece = 0
  BY <1>4 DEF Lengthened
<1>5. CASE piece # 0
  BY <1>3, <1>5 DEF Lengthened
<1> QED
  BY <1>4, <1>5

\* So does a block.
LEMMA BlockBegins ==
  ASSUME NEW blocks \in Seq(ReaderBlocks), NEW kind \in BlockKinds, NEW name \in Nat, NEW piece \in Nat
  PROVE  Lengthened(Append(blocks, Block(kind, name, <<>>)), Len(blocks) + 1, piece)
           = Append(blocks, Block(kind, name, Uttered(piece)))
<1> DEFINE new == Block(kind, name, <<>>)
           whole == Block(kind, name, <<piece>>)
<1>1. new \in ReaderBlocks /\ whole \in ReaderBlocks /\ new.text = <<>>
  BY DEF Block, ReaderBlocks
<1>2. [new EXCEPT !.text = <<piece>>] = whole
  BY DEF Block
<1>3. Block(kind, name, Uttered(piece)) = IF piece = 0 THEN new ELSE whole
  BY DEF Uttered
<1> HIDE DEF new, whole
<1>4. Lengthened(Append(blocks, new), Len(blocks) + 1, piece) = Append(blocks, IF piece = 0 THEN new ELSE whole)
  BY <1>1, <1>2, EntryBegins
<1> QED
  BY <1>3, <1>4 DEF new

\* What a chunk makes of the blocks the client of the translator s has.
Rewritten(s, blocks, d) ==
  IF d.kind = "none" THEN blocks
  ELSE IF StaysOpen(s, d) THEN Lengthened(blocks, s.open_index + 1, d.piece)
  ELSE IF Known(s, d) THEN Lengthened(blocks, s.tools[d.key].index + 1, d.piece)
  ELSE Append(blocks, Block(d.kind, d.name, Uttered(d.piece)))

\* What a chunk puts on the wire leaves its client where the translator takes it to be.
LEMMA TakeFollows ==
  ASSUME NEW s, NEW c, FollowsAnthropic(s, c), NEW d \in Pieces,
         d.kind = "tool_use" /\ d.key \notin DOMAIN s.tools => d.name # 0
  PROVE  LET after == After(s, d)
             read == Read(c, Events(s, d))
         IN  /\ FollowsAnthropic(after, read) /\ after.started /\ after.stop_reason = s.stop_reason
             /\ DOMAIN s.tools \subseteq DOMAIN after.tools
             /\ d.kind = "tool_use" => d.key \in DOMAIN after.tools
             /\ read.blocks = Rewritten(s, c.blocks, d)
<1> DEFINE after == After(s, d)
           read == Read(c, Events(s, d))
           begun == [s EXCEPT !.started = TRUE]
           met == Receive(c, BeginMessage(s))
           e == Delta(s, d)
           holds == /\ FollowsAnthropic(after, read) /\ after.started /\ after.stop_reason = s.stop_reason
                    /\ DOMAIN s.tools \subseteq DOMAIN after.tools
                    /\ d.kind = "tool_use" => d.key \in DOMAIN after.tools
                    /\ read.blocks = Rewritten(s, c.blocks, d)
<1>1. s \in Translators
  BY DEF FollowsAnthropic
<1>2. /\ begun \in Translators /\ begun.started /\ begun.tools = s.tools /\ begun.stop_reason = s.stop_reason
      /\ CloseBlock(begun) = CloseBlock(s) /\ OpenBlock(begun, d) = OpenBlock(s, d)
      /\ Delta(begun, d) = e /\ (Known(begun, d) <=> Known(s, d))
      /\ (StaysOpen(begun, d) <=> StaysOpen(s, d))
      /\ after = IF d.kind = "none" THEN begun ELSE Opened(begun, d)
  BY <1>1, BegunTranslates
<1>3. FollowsAnthropic(begun, met) /\ met.blocks = c.blocks
  BY BeginFollows
<1>4. /\ d.kind = "none" => read = Receive(Receive(Receive(met, Silence), Silence), Silence)
      /\ d.kind # "none" /\ StaysOpen(s, d) => read = Receive(Receive(Receive(met, Silence), Silence), e)
      /\ d.kind # "none" /\ ~StaysOpen(s, d) => read = Receive(Receive(Receive(met, CloseBlock(s)), OpenBlock(s, d)), e)
  BY ReadTells DEF Events
<1>5. \A x : Receive(x, Silence) = x
  BY DEF Receive, Silence
<1>6. \A x : e = IF d.piece = 0 THEN Silence
                 ELSE [type |-> "content_block_delta", index |-> Opened(begun, d).open_index, kind |-> d.kind, piece |-> d.piece]
  BY <1>2 DEF Delta
<1>7. StaysOpen(begun, d) => Opened(begun, d) = begun /\ begun.open = d.kind
  BY DEF Opened, StaysOpen
<1>8. StaysOpen(begun, d) /\ d.kind = "tool_use" => d.key \in DOMAIN begun.tools
  BY <1>3 DEF StaysOpen, FollowsAnthropic
<1>12. begun.open_index = s.open_index
  BY <1>1 DEF Translators
<1> HIDE DEF after, read, begun, met, e
<1>9. ASSUME d.kind = "none" PROVE holds
  <2>1. read = met /\ after = begun
    BY <1>2, <1>4, <1>5, <1>9
  <2>2. Rewritten(s, c.blocks, d) = c.blocks
    BY <1>9 DEF Rewritten
  <2> QED
    BY <1>2, <1>3, <1>9, <2>1, <2>2
<1>10. ASSUME d.kind # "none", StaysOpen(s, d) PROVE holds
  <2>1. read = Receive(met, e) /\ after = begun
    BY <1>2, <1>4, <1>5, <1>7, <1>10
  <2>2. /\ FollowsAnthropic(begun, Receive(met, e))
        /\ Receive(met, e).blocks = Lengthened(met.blocks, begun.open_index + 1, d.piece)
    BY <1>2, <1>3, <1>6, <1>7, <1>10, DeltaFollows
  <2>3. read.blocks = Rewritten(s, c.blocks, d)
    BY <1>3, <1>10, <1>12, <2>1, <2>2 DEF Rewritten
  <2> QED
    BY <1>2, <1>8, <1>10, <2>1, <2>2, <2>3
<1>11. ASSUME d.kind # "none", ~StaysOpen(s, d) PROVE holds
  <2> DEFINE closed == Receive(met, CloseBlock(begun))
             opened == Receive(closed, OpenBlock(begun, d))
  <2>1. closed \in Readers /\ closed.at = "between" /\ closed.blocks = met.blocks /\ ~closed.confused
    BY <1>2, <1>3, CloseFollows
  <2>2. after = Opened(begun, d) /\ read = Receive(opened, e)
    BY <1>2, <1>4, <1>11
  <2> HIDE DEF closed
  <2>3. /\ FollowsAnthropic(after, opened) /\ after.started /\ after.open = d.kind
        /\ after.stop_reason = begun.stop_reason
        /\ DOMAIN begun.tools \subseteq DOMAIN after.tools
        /\ d.kind = "tool_use" => d.key \in DOMAIN after.tools
        /\ IF Known(begun, d) THEN opened.blocks = met.blocks /\ after.open_index = begun.tools[d.key].index
           ELSE opened.blocks = Append(met.blocks, Block(d.kind, d.name, <<>>)) /\ after.open_index = Len(met.blocks)
    <3>1. CASE Known(begun, d)
      <4>1. d.kind = "tool_use" /\ d.key \in DOMAIN begun.tools
        BY <3>1 DEF Known
      <4> QED
        BY <1>2, <1>3, <1>11, <2>1, <2>2, <3>1, <4>1, ResumeFollows
    <3>2. CASE ~Known(begun, d)
      <4>1. d.kind = "tool_use" => d.name # 0
        BY <1>2, <3>2 DEF Known
      <4> QED
        BY <1>2, <1>3, <1>11, <2>1, <2>2, <3>2, <4>1, NewBlockFollows
    <3> QED
      BY <3>1, <3>2
  <2> HIDE DEF opened
  <2>4. FollowsAnthropic(after, read) /\ read.blocks = Lengthened(opened.blocks, after.open_index + 1, d.piece)
    BY <1>6, <1>11, <2>2, <2>3, DeltaFollows
  <2>5. read.blocks = Rewritten(s, c.blocks, d)
    <3>1. CASE Known(s, d)
      BY <1>2, <1>3, <1>11, <2>3, <2>4, <3>1 DEF Rewritten
    <3>2. CASE ~Known(s, d)
      <4>1. c.blocks \in Seq(ReaderBlocks) /\ d.kind \in BlockKinds /\ d.name \in Nat /\ d.piece \in Nat
        BY <1>11 DEF FollowsAnthropic, Readers, Pieces
      <4>2. read.blocks = Lengthened(Append(c.blocks, Block(d.kind, d.name, <<>>)), Len(c.blocks) + 1, d.piece)
        BY <1>2, <1>3, <2>3, <2>4, <3>2
      <4>3. read.blocks = Append(c.blocks, Block(d.kind, d.name, Uttered(d.piece)))
        BY <4>1, <4>2, BlockBegins
      <4> QED
        BY <1>11, <3>2, <4>3 DEF Rewritten
    <3> QED
      BY <3>1, <3>2
  <2> QED
    BY <1>2, <2>3, <2>4, <2>5
<1> QED
  BY <1>9, <1>10, <1>11 DEF after, read

\* A finish reason changes only what the translator will say of it.
LEMMA FinishingFollows ==
  ASSUME NEW s, NEW c, FollowsAnthropic(s, c), NEW finish
  PROVE  LET after == Finishing(s, finish)
         IN  /\ FollowsAnthropic(after, c) /\ after.started = s.started /\ after.tools = s.tools
             /\ after.stop_reason = IF finish = "none" THEN s.stop_reason ELSE StopReason(finish)
<1> DEFINE after == Finishing(s, finish)
           reason == StopReason(finish)
<1>1. s \in Translators
  BY DEF FollowsAnthropic
<1>2. reason \in StopReasons
  BY DEF StopReason, StopReasons
<1>3. CASE finish = "none"
  BY <1>3 DEF Finishing
<1>4. CASE finish # "none"
  <2> HIDE DEF reason
  <2>1. after = [s EXCEPT !.stop_reason = reason]
    BY <1>4 DEF Finishing, reason
  <2> HIDE DEF after
  <2>2. /\ after \in Translators /\ after.started = s.started /\ after.index = s.index /\ after.open = s.open
        /\ after.open_index = s.open_index /\ after.open_tool = s.open_tool /\ after.tools = s.tools
        /\ after.stop_reason = reason
    BY <1>1, <1>2, <2>1 DEF Translators
  <2>3. FollowsAnthropic(after, c)
    BY <2>2 DEF FollowsAnthropic
  <2> QED
    BY <1>4, <2>2, <2>3 DEF after, reason
<1> QED
  BY <1>3, <1>4

\* A client that is told the end has all of it.
LEMMA EndFollows ==
  ASSUME NEW s, NEW c, FollowsAnthropic(s, c), s.started, NEW usage \in Nat
  PROVE  LET read == Read(c, FinishEvents(s, usage))
         IN  ~read.confused /\ read.at = "complete" /\ read.usage = usage /\ read.stop_reason = s.stop_reason
<1> DEFINE closed == Receive(c, CloseBlock(s))
           e == [type |-> "message_delta", stop_reason |-> s.stop_reason, usage |-> usage]
           told == Receive(closed, e)
           ended == Receive(told, [type |-> "message_stop"])
           read == Read(c, FinishEvents(s, usage))
<1>1. closed \in Readers /\ closed.at = "between" /\ ~closed.confused
  BY CloseFollows
<1>2. s \in Translators /\ s.stop_reason \in StopReasons
  BY DEF FollowsAnthropic, Translators
<1>3. read = ended
  <2>1. \A x : Receive(x, Silence) = x
    BY DEF Receive, Silence
  <2>2. read = Receive(ended, Silence)
    BY ReadTells DEF FinishEvents
  <2> QED
    BY <2>1, <2>2
<1>9. e.type = "message_delta" /\ e.stop_reason = s.stop_reason /\ e.usage = usage
  OBVIOUS
<1> HIDE DEF closed, read, e
<1>4. told = [closed EXCEPT !.stop_reason = s.stop_reason, !.usage = usage]
  <2>1. told = [closed EXCEPT !.stop_reason = e.stop_reason, !.usage = e.usage]
    BY <1>1, <1>9, ReceiveTells
  <2> QED
    BY <1>9, <2>1
<1> HIDE DEF told
<1>5. told.at = "between" /\ ~told.confused /\ told.stop_reason = s.stop_reason /\ told.usage = usage /\ told \in Readers
  BY <1>1, <1>2, <1>4 DEF Readers
<1>6. told.stop_reason # "none"
  BY <1>2, <1>5 DEF StopReasons
<1>7. ended = [told EXCEPT !.at = "complete"]
  BY <1>5, <1>6, ReceiveTells
<1> HIDE DEF ended
<1>8. ~ended.confused /\ ended.at = "complete" /\ ended.usage = usage /\ ended.stop_reason = s.stop_reason
  BY <1>5, <1>7 DEF Readers
<1> QED
  BY <1>3, <1>8 DEF read

\* A client that is told of a failure takes the answer for failed.
LEMMA FailureFollows ==
  ASSUME NEW s, NEW c, FollowsAnthropic(s, c)
  PROVE  LET read == Read(c, FailureEvents) IN ~read.confused /\ read.at = "failed"
<1> DEFINE e == [type |-> "error"]
           read == Read(c, FailureEvents)
<1>1. c \in Readers /\ ~c.confused /\ c.at \notin {"complete", "failed"}
  BY DEF FollowsAnthropic
<1>2. read = Receive(c, e)
  <2>1. \A x : Receive(x, Silence) = x
    BY DEF Receive, Silence
  <2>2. read = Receive(Receive(Receive(Receive(c, e), Silence), Silence), Silence)
    BY ReadTells DEF FailureEvents
  <2> QED
    BY <2>1, <2>2
<1>3. Receive(c, e) = [c EXCEPT !.at = "failed"]
  BY <1>1, ReceiveTells
<1> HIDE DEF read
<1>4. ~read.confused /\ read.at = "failed"
  BY <1>1, <1>2, <1>3 DEF Readers
<1> QED
  BY <1>4 DEF read

\* Where a Responses translator files what is said, and what its client has.
ItemIds == [kind : {"reasoning", "message", "function_call"}, key : Nat]
Items == [id : ItemIds, name : Nat, text : Seq(Nat)]
Places == [output_index : Nat, name : Nat, text : Seq(Nat)]

ResponsesStates ==
  [started : BOOLEAN, sequence : Nat, output : Seq(Items), items : Maps(ItemIds, Places), completed : BOOLEAN]

ResponsesClients ==
  [at : {"before", "open", "complete", "failed"}, expects : Nat, items : Seq(Items), final : Seq(Items),
   parted : BOOLEAN, confused : BOOLEAN, usage : Nat]

MessageId == ItemId("message", 0)

\* The client c has, in its place, every item of the map m, and a part in the message.
HasItems(c, m) ==
  /\ \A id \in DOMAIN m : m[id].output_index < Len(c.items) /\ c.items[m[id].output_index + 1].id = id
  /\ c.parted <=> MessageId \in DOMAIN m

\* The client c of a translator s is where the translator takes it to be.
FollowsResponses(s, c) ==
  /\ s \in ResponsesStates /\ c \in ResponsesClients /\ ~c.confused /\ ~s.completed
  /\ c.at = IF s.started THEN "open" ELSE "before"
  /\ c.expects = s.sequence /\ Len(c.items) = Len(s.output)
  /\ HasItems(c, s.items)

\* A payload is of one item, which has a place.
LEMMA ItemTells ==
  ASSUME NEW s \in ResponsesStates, NEW d \in Pieces, d.kind # "none"
  PROVE  /\ PayloadId(d) \in ItemIds /\ ItemOf(s, d) \in Places
         /\ Written(s, d) \in Places /\ Written(s, d).output_index = ItemOf(s, d).output_index
         /\ IsNew(s, d) <=> PayloadId(d) \notin DOMAIN s.items
         /\ IsNew(s, d) => ItemOf(s, d).output_index = Len(s.output)
         /\ ~IsNew(s, d) => ItemOf(s, d).output_index = s.items[PayloadId(d)].output_index
         /\ PayloadId(d) = MessageId <=> d.kind = "text"
         /\ PayloadId(d).kind = "message" <=> d.kind = "text"
         /\ d.kind = "tool_use" => PayloadId(d) = ItemId("function_call", d.key)
<1> DEFINE id == PayloadId(d)
           item == ItemOf(s, d)
           was == s.items[id]
           name == IF was.name = 0 THEN d.name ELSE was.name
<1>1. d.kind \in BlockKinds /\ d.key \in Nat /\ d.name \in Nat /\ d.piece \in Nat
  BY DEF Pieces
<1>2. /\ id = IF d.kind = "thinking" THEN ItemId("reasoning", 0)
              ELSE IF d.kind = "text" THEN MessageId ELSE ItemId("function_call", d.key)
      /\ id \in ItemIds
      /\ id = MessageId <=> d.kind = "text"
      /\ id.kind = "message" <=> d.kind = "text"
      /\ d.kind = "tool_use" => id = ItemId("function_call", d.key)
  <2>1. CASE d.kind = "thinking"
    BY <2>1 DEF PayloadId, ItemId, ItemIds, MessageId
  <2>2. CASE d.kind = "text"
    BY <2>2 DEF PayloadId, ItemId, ItemIds, MessageId
  <2>3. CASE d.kind = "tool_use"
    BY <1>1, <2>3 DEF PayloadId, ItemId, ItemIds, MessageId
  <2> QED
    BY <1>1, <2>1, <2>2, <2>3 DEF BlockKinds
<1>3. s.items \in Maps(ItemIds, Places) /\ s.output \in Seq(Items)
  BY DEF ResponsesStates
<1>4. IsNew(s, d) <=> id \notin DOMAIN s.items
  BY DEF IsNew
<1> HIDE DEF id
<1>5. item \in Places /\ (IsNew(s, d) => item.output_index = Len(s.output))
      /\ (~IsNew(s, d) => item.output_index = was.output_index)
  <2>1. CASE IsNew(s, d)
    <3>1. item = [output_index |-> Len(s.output), name |-> d.name, text |-> <<>>]
      BY <2>1 DEF ItemOf
    <3>2. Len(s.output) \in Nat /\ <<>> \in Seq(Nat)
      BY <1>3
    <3> HIDE DEF item
    <3> QED
      BY <1>1, <2>1, <3>1, <3>2 DEF Places
  <2>2. CASE ~IsNew(s, d)
    <3>1. was \in Places
      BY <1>3, <1>4, <2>2, MapsTell
    <3>2. item = [was EXCEPT !.name = name]
      BY <2>2 DEF ItemOf, id
    <3>3. name \in Nat
      BY <1>1, <3>1 DEF Places
    <3> HIDE DEF item, was, name
    <3> QED
      BY <2>2, <3>1, <3>2, <3>3 DEF Places
  <2> QED
    BY <2>1, <2>2
<1> HIDE DEF item, was
<1>6. Written(s, d) \in Places /\ Written(s, d).output_index = item.output_index
  <2>1. CASE d.piece = 0
    BY <1>5, <2>1 DEF Written, item
  <2>2. CASE d.piece # 0
    <3> DEFINE text == Append(item.text, d.piece)
    <3>1. Written(s, d) = [item EXCEPT !.text = text]
      BY <2>2 DEF Written, item
    <3>2. text \in Seq(Nat)
      BY <1>1, <1>5 DEF Places
    <3> HIDE DEF text
    <3> QED
      BY <1>5, <3>1, <3>2 DEF Places
  <2> QED
    BY <2>1, <2>2
<1> QED
  BY <1>2, <1>4, <1>5, <1>6 DEF id, item, was

\* What the translator keeps after a payload.
LEMMA TranslatedTells ==
  ASSUME NEW s \in ResponsesStates, NEW d \in Pieces
  PROVE  LET after == Translated(s, d)
         IN  /\ after \in ResponsesStates /\ after.started /\ after.completed = s.completed
             /\ after.sequence = s.sequence + Creates(s) + Adds(s, d) + Parts(s, d) + Deltas(d)
             /\ d.kind = "none" => after.items = s.items
             /\ d.kind # "none" => after.items = WithEntry(s.items, PayloadId(d), Written(s, d))
             /\ Len(after.output) = Len(s.output) + Adds(s, d)
<1> DEFINE after == Translated(s, d)
           filed == Filed(s, d)
           output == IF IsNew(s, d) THEN Append(s.output, Item(PayloadId(d), d.name, <<>>)) ELSE s.output
           items == WithEntry(s.items, PayloadId(d), Written(s, d))
           number == s.sequence + Creates(s) + Adds(s, d) + Parts(s, d) + Deltas(d)
           holds == /\ filed \in ResponsesStates /\ filed.completed = s.completed /\ filed.sequence = s.sequence
                    /\ d.kind = "none" => filed.items = s.items
                    /\ d.kind # "none" => filed.items = items
                    /\ Len(filed.output) = Len(s.output) + Adds(s, d)
<1>1. s.output \in Seq(Items) /\ s.items \in Maps(ItemIds, Places) /\ s.sequence \in Nat
  BY DEF ResponsesStates
<1>2. ASSUME d.kind = "none" PROVE holds
  <2>1. filed = s /\ Adds(s, d) = 0
    BY <1>2 DEF Filed, Adds, IsNew
  <2> HIDE DEF filed
  <2> QED
    BY <1>1, <1>2, <2>1
<1>3. ASSUME d.kind # "none" PROVE holds
  <2>1. PayloadId(d) \in ItemIds /\ Written(s, d) \in Places
    BY <1>3, ItemTells
  <2>2. items \in Maps(ItemIds, Places)
    BY <1>1, <2>1, MapsTell
  <2>3. output \in Seq(Items) /\ Len(output) = Len(s.output) + Adds(s, d)
    <3>1. Item(PayloadId(d), d.name, <<>>) \in Items
      BY <2>1 DEF Item, Items, Pieces
    <3>2. CASE IsNew(s, d)
      BY <1>1, <3>1, <3>2 DEF Adds
    <3>3. CASE ~IsNew(s, d)
      BY <1>1, <3>3 DEF Adds
    <3> QED
      BY <3>2, <3>3
  <2>4. filed = [s EXCEPT !.output = output, !.items = items]
    BY <1>3 DEF Filed
  <2> HIDE DEF filed, output, items
  <2>5. filed \in ResponsesStates /\ filed.completed = s.completed /\ filed.sequence = s.sequence
        /\ filed.items = items /\ filed.output = output
    BY <2>2, <2>3, <2>4 DEF ResponsesStates
  <2> QED
    BY <1>3, <2>3, <2>5
<1>4. number \in Nat
  BY <1>1 DEF Creates, Adds, Parts, Deltas
<1>5. holds
  BY <1>2, <1>3
<1>6. after = [filed EXCEPT !.started = TRUE, !.sequence = filed.sequence + Creates(s) + Adds(s, d) + Parts(s, d) + Deltas(d)]
  BY DEF Translated
<1>7. after = [filed EXCEPT !.started = TRUE, !.sequence = number]
  BY <1>5, <1>6
<1> HIDE DEF after, filed, number
<1>8. after \in ResponsesStates /\ after.started /\ after.completed = filed.completed /\ after.sequence = number
      /\ after.items = filed.items /\ after.output = filed.output
  BY <1>4, <1>5, <1>7 DEF ResponsesStates
<1> QED
  BY <1>5, <1>8 DEF after, number

\* A client that has been told the turn began.
LEMMA CreatedFollows ==
  ASSUME NEW s, NEW c, FollowsResponses(s, c),
         NEW e, e = IF Creates(s) = 0 THEN Silence ELSE [type |-> "response.created", sequence |-> s.sequence]
  PROVE  LET heard == Hear(c, e)
         IN  /\ heard \in ResponsesClients /\ heard.at = "open" /\ ~heard.confused
             /\ heard.expects = s.sequence + Creates(s) /\ heard.items = c.items /\ heard.parted = c.parted
<1> DEFINE heard == Hear(c, e)
           holds == /\ heard \in ResponsesClients /\ heard.at = "open" /\ ~heard.confused
                    /\ heard.expects = s.sequence + Creates(s) /\ heard.items = c.items /\ heard.parted = c.parted
<1>1. c \in ResponsesClients /\ ~c.confused /\ c.expects = s.sequence /\ s.sequence \in Nat
  BY DEF FollowsResponses, ResponsesStates
<1>2. ASSUME s.started PROVE holds
  <2>1. e.type = "silence" /\ Creates(s) = 0 /\ c.at = "open"
    BY <1>2 DEF Creates, Silence, FollowsResponses
  <2>2. heard = c
    BY <2>1 DEF Hear
  <2> HIDE DEF heard
  <2> QED
    BY <1>1, <2>1, <2>2
<1>3. ASSUME ~s.started PROVE holds
  <2>1. e.type = "response.created" /\ e.sequence = c.expects /\ c.at = "before" /\ Creates(s) = 1
    BY <1>1, <1>3 DEF Creates, FollowsResponses
  <2>2. Numbered(c, e)
    BY <2>1 DEF Numbered
  <2>3. Expected(c, e)
    BY <2>1 DEF Expected
  <2>4. Took(c, e) = [c EXCEPT !.at = "open"]
    BY <2>1 DEF Took
  <2> DEFINE took == [c EXCEPT !.at = "open"]
  <2>5. heard = [took EXCEPT !.expects = took.expects + 1]
    BY <2>1, <2>2, <2>3, <2>4 DEF Hear
  <2>6. took \in ResponsesClients /\ took.at = "open" /\ ~took.confused /\ took.expects = c.expects /\ took.items = c.items
        /\ took.parted = c.parted
    BY <1>1 DEF ResponsesClients
  <2> HIDE DEF heard, took
  <2>7. took.expects + 1 \in Nat
    BY <1>1, <2>6
  <2> QED
    BY <1>1, <2>1, <2>5, <2>6, <2>7 DEF ResponsesClients
<1> QED
  BY <1>2, <1>3

\* A client in the middle of a turn, which expects the event of number n.
Hearing(c, n) == c \in ResponsesClients /\ c.at = "open" /\ ~c.confused /\ c.expects = n /\ n \in Nat

\* A new item takes the next place.
LEMMA AddedFollows ==
  ASSUME NEW s \in ResponsesStates, NEW d \in Pieces, NEW c, NEW n, Hearing(c, n), Len(c.items) = Len(s.output),
         NEW e, e = IF Adds(s, d) = 0 THEN Silence
                    ELSE [type |-> "response.output_item.added", sequence |-> n,
                          output_index |-> ItemOf(s, d).output_index, item |-> Item(PayloadId(d), d.name, <<>>)]
  PROVE  LET heard == Hear(c, e)
         IN  /\ Hearing(heard, n + Adds(s, d)) /\ heard.parted = c.parted
             /\ heard.items = IF IsNew(s, d) THEN Append(c.items, Item(PayloadId(d), d.name, <<>>)) ELSE c.items
<1> DEFINE heard == Hear(c, e)
           new == Item(PayloadId(d), d.name, <<>>)
           items == Append(c.items, new)
           holds == /\ Hearing(heard, n + Adds(s, d)) /\ heard.parted = c.parted
                    /\ heard.items = IF IsNew(s, d) THEN items ELSE c.items
<1>1. c \in ResponsesClients /\ c.at = "open" /\ ~c.confused /\ c.expects = n /\ n \in Nat
  BY DEF Hearing
<1>2. ASSUME ~IsNew(s, d) PROVE holds
  <2>1. e.type = "silence" /\ Adds(s, d) = 0
    BY <1>2 DEF Adds, Silence
  <2>2. heard = c
    BY <2>1 DEF Hear
  <2> HIDE DEF heard
  <2> QED
    BY <1>1, <1>2, <2>1, <2>2 DEF Hearing
<1>3. ASSUME IsNew(s, d) PROVE holds
  <2>1. d.kind # "none" /\ Adds(s, d) = 1
    BY <1>3 DEF IsNew, Adds
  <2>2. PayloadId(d) \in ItemIds /\ ItemOf(s, d).output_index = Len(c.items)
    BY <1>3, <2>1, ItemTells
  <2>3. new \in Items
    BY <2>2 DEF Items, Item, Pieces
  <2>4. e.type = "response.output_item.added" /\ e.sequence = n /\ e.output_index = Len(c.items) /\ e.item = new
    BY <2>1, <2>2
  <2>5. items \in Seq(Items)
    BY <1>1, <2>3 DEF ResponsesClients
  <2> HIDE DEF new
  <2>6. Numbered(c, e)
    BY <1>1, <2>4 DEF Numbered
  <2>7. Expected(c, e)
    BY <1>1, <2>4 DEF Expected
  <2> DEFINE took == [c EXCEPT !.items = items]
  <2>8. Took(c, e) = took
    BY <2>4 DEF Took
  <2>9. heard = [took EXCEPT !.expects = took.expects + 1]
    BY <2>4, <2>6, <2>7, <2>8 DEF Hear
  <2> HIDE DEF items
  <2>10. took \in ResponsesClients /\ took.at = "open" /\ ~took.confused /\ took.expects = n /\ took.items = items
         /\ took.parted = c.parted
    BY <1>1, <2>5 DEF ResponsesClients
  <2> HIDE DEF heard, took
  <2>11. took.expects + 1 \in Nat /\ took.expects + 1 = n + Adds(s, d)
    BY <1>1, <2>1, <2>10
  <2>12. heard \in ResponsesClients /\ heard.at = "open" /\ ~heard.confused /\ heard.expects = took.expects + 1
         /\ heard.items = items /\ heard.parted = c.parted
    BY <2>9, <2>10, <2>11 DEF ResponsesClients
  <2> QED
    BY <1>3, <2>11, <2>12 DEF Hearing
<1> HIDE DEF heard
<1> QED
  BY <1>2, <1>3 DEF heard

PartEvent(s, d, n) ==
  IF Parts(s, d) = 0 THEN Silence
  ELSE [type |-> "response.content_part.added", sequence |-> n,
        output_index |-> ItemOf(s, d).output_index, item_id |-> PayloadId(d)]

PartPlaced(s, d, c) ==
  IsNew(s, d) => /\ ItemOf(s, d).output_index < Len(c.items)
                 /\ c.items[ItemOf(s, d).output_index + 1].id = PayloadId(d)
                 /\ d.kind = "text" => ~c.parted

\* The message gets its part.
LEMMA PartFollows ==
  ASSUME NEW s \in ResponsesStates, NEW d \in Pieces, NEW c, NEW n, Hearing(c, n), PartPlaced(s, d, c)
  PROVE  LET heard == Hear(c, PartEvent(s, d, n))
         IN  /\ Hearing(heard, n + Parts(s, d)) /\ heard.items = c.items
             /\ heard.parted = (c.parted \/ (IsNew(s, d) /\ d.kind = "text"))
<1> DEFINE e == PartEvent(s, d, n)
           heard == Hear(c, e)
           holds == /\ Hearing(heard, n + Parts(s, d)) /\ heard.items = c.items
                    /\ heard.parted = (c.parted \/ (IsNew(s, d) /\ d.kind = "text"))
<1>1. c \in ResponsesClients /\ c.at = "open" /\ ~c.confused /\ c.expects = n /\ n \in Nat /\ c.parted \in BOOLEAN
  BY DEF Hearing, ResponsesClients
<1>2. ASSUME ~(IsNew(s, d) /\ d.kind = "text") PROVE holds
  <2>1. e.type = "silence" /\ Parts(s, d) = 0
    BY <1>2 DEF PartEvent, Parts, Silence
  <2>2. heard = c
    BY <2>1 DEF Hear
  <2> HIDE DEF heard
  <2> QED
    BY <1>1, <1>2, <2>1, <2>2 DEF Hearing
<1>3. ASSUME IsNew(s, d), d.kind = "text" PROVE holds
  <2>1. Parts(s, d) = 1
    BY <1>3 DEF Parts
  <2>2. e.type = "response.content_part.added" /\ e.sequence = n
        /\ e.output_index = ItemOf(s, d).output_index /\ e.item_id = PayloadId(d)
    BY <2>1 DEF PartEvent
  <2> HIDE DEF e
  <2>3. Numbered(c, e)
    BY <1>1, <2>2 DEF Numbered
  <2>4. Expected(c, e)
    BY <1>1, <1>3, <2>2 DEF Expected, Placed, PartPlaced
  <2> DEFINE took == [c EXCEPT !.parted = TRUE]
  <2>5. Took(c, e) = took
    BY <2>2 DEF Took
  <2>6. heard = [took EXCEPT !.expects = took.expects + 1]
    BY <2>2, <2>3, <2>4, <2>5 DEF Hear
  <2>7. took \in ResponsesClients /\ took.at = "open" /\ ~took.confused /\ took.expects = n /\ took.items = c.items
         /\ took.parted
    BY <1>1 DEF ResponsesClients
  <2> HIDE DEF heard, took
  <2>8. took.expects + 1 \in Nat /\ took.expects + 1 = n + Parts(s, d)
    BY <1>1, <2>1, <2>7
  <2>9. heard \in ResponsesClients /\ heard.at = "open" /\ ~heard.confused /\ heard.expects = took.expects + 1
         /\ heard.items = c.items /\ heard.parted
    BY <2>6, <2>7, <2>8 DEF ResponsesClients
  <2> QED
    BY <1>3, <2>8, <2>9 DEF Hearing, ResponsesClients
<1> HIDE DEF heard, e
<1> QED
  BY <1>2, <1>3 DEF heard, e

\* A delta goes to the item that has the place.
LEMMA SayingFollows ==
  ASSUME NEW s, NEW d \in Pieces, NEW c, NEW n, Hearing(c, n), NEW at \in Nat, NEW id \in ItemIds,
         d.piece # 0 => at < Len(c.items) /\ c.items[at + 1].id = id,
         d.piece # 0 /\ id.kind = "message" => c.parted,
         NEW e, e = IF Deltas(d) = 0 THEN Silence
                    ELSE [type |-> "delta", sequence |-> n, output_index |-> at, item_id |-> id, piece |-> d.piece]
  PROVE  LET heard == Hear(c, e)
         IN  /\ Hearing(heard, n + Deltas(d)) /\ heard.parted = c.parted /\ Len(heard.items) = Len(c.items)
             /\ \A i \in 1 .. Len(c.items) : heard.items[i].id = c.items[i].id
             /\ heard.items = Lengthened(c.items, at + 1, d.piece)
<1> DEFINE heard == Hear(c, e)
           i == at + 1
           was == c.items[i]
           text == Append(was.text, d.piece)
           item == [was EXCEPT !.text = text]
           items == [c.items EXCEPT ![i] = item]
           holds == /\ Hearing(heard, n + Deltas(d)) /\ heard.parted = c.parted /\ Len(heard.items) = Len(c.items)
                    /\ \A x \in 1 .. Len(c.items) : heard.items[x].id = c.items[x].id
                    /\ heard.items = Lengthened(c.items, i, d.piece)
<1>1. c \in ResponsesClients /\ c.at = "open" /\ ~c.confused /\ c.expects = n /\ n \in Nat /\ c.items \in Seq(Items)
  BY DEF Hearing, ResponsesClients
<1>2. ASSUME d.piece = 0 PROVE holds
  <2>1. e.type = "silence" /\ Deltas(d) = 0
    BY <1>2 DEF Deltas, Silence
  <2>2. heard = c
    BY <2>1 DEF Hear
  <2> HIDE DEF heard
  <2> QED
    BY <1>1, <1>2, <2>1, <2>2 DEF Hearing, Lengthened
<1>3. ASSUME d.piece # 0 PROVE holds
  <2>1. Deltas(d) = 1 /\ i \in 1 .. Len(c.items) /\ was.id = id
    BY <1>1, <1>3 DEF Deltas
  <2>2. e.type = "delta" /\ e.sequence = n /\ e.output_index = at /\ e.item_id = id /\ e.piece = d.piece
    BY <2>1
  <2>3. Numbered(c, e)
    BY <1>1, <2>2 DEF Numbered
  <2>4. Expected(c, e)
    BY <1>1, <1>3, <2>2 DEF Expected, Placed
  <2>5. was \in Items /\ d.piece \in Nat
    BY <1>1, <2>1 DEF Pieces
  <2>6. item \in Items /\ item.id = was.id
    <3>1. text \in Seq(Nat)
      BY <2>5 DEF Items
    <3> HIDE DEF was, text
    <3> QED
      BY <2>5, <3>1 DEF Items
  <2> DEFINE took == [c EXCEPT !.items = items]
  <2>7. Took(c, e) = took
    <3>1. Took(c, e) = [c EXCEPT !.items[e.output_index + 1].text = Append(@, e.piece)]
      BY <2>2 DEF Took
    <3> QED
      BY <2>2, <3>1
  <2>8. heard = [took EXCEPT !.expects = took.expects + 1]
    BY <2>2, <2>3, <2>4, <2>7 DEF Hear
  <2>13. items = Lengthened(c.items, i, d.piece)
    BY <1>3 DEF Lengthened
  <2> HIDE DEF item, i, was
  <2>9. items \in Seq(Items) /\ Len(items) = Len(c.items) /\ \A x \in 1 .. Len(c.items) : items[x].id = c.items[x].id
    BY <1>1, <2>1, <2>6 DEF was
  <2> HIDE DEF items
  <2>10. took \in ResponsesClients /\ took.at = "open" /\ ~took.confused /\ took.expects = n /\ took.items = items
         /\ took.parted = c.parted
    BY <1>1, <2>9 DEF ResponsesClients
  <2> HIDE DEF heard, took
  <2>11. took.expects + 1 \in Nat /\ took.expects + 1 = n + Deltas(d)
    BY <1>1, <2>1, <2>10
  <2>12. heard \in ResponsesClients /\ heard.at = "open" /\ ~heard.confused /\ heard.expects = took.expects + 1
         /\ heard.items = items /\ heard.parted = c.parted
    BY <2>8, <2>10, <2>11 DEF ResponsesClients
  <2> QED
    BY <2>9, <2>11, <2>12, <2>13 DEF Hearing
<1> HIDE DEF heard
<1> QED
  BY <1>2, <1>3 DEF heard

\* So does an item.
LEMMA ItemBegins ==
  ASSUME NEW items \in Seq(Items), NEW id \in ItemIds, NEW name \in Nat, NEW piece \in Nat
  PROVE  Lengthened(Append(items, Item(id, name, <<>>)), Len(items) + 1, piece)
           = Append(items, Item(id, name, Uttered(piece)))
<1> DEFINE new == Item(id, name, <<>>)
           whole == Item(id, name, <<piece>>)
<1>1. new \in Items /\ whole \in Items /\ new.text = <<>>
  BY DEF Item, Items
<1>2. [new EXCEPT !.text = <<piece>>] = whole
  BY DEF Item
<1>3. Item(id, name, Uttered(piece)) = IF piece = 0 THEN new ELSE whole
  BY DEF Uttered
<1> HIDE DEF new, whole
<1>4. Lengthened(Append(items, new), Len(items) + 1, piece) = Append(items, IF piece = 0 THEN new ELSE whole)
  BY <1>1, <1>2, EntryBegins
<1> QED
  BY <1>3, <1>4 DEF new

\* What a chunk makes of the items the client of the translator s has.
Retold(s, items, d) ==
  IF d.kind = "none" THEN items
  ELSE IF IsNew(s, d) THEN Append(items, Item(PayloadId(d), d.name, Uttered(d.piece)))
  ELSE Lengthened(items, s.items[PayloadId(d)].output_index + 1, d.piece)

\* Four events are heard one after the other.
LEMMA FollowTells ==
  ASSUME NEW c, NEW a, NEW b, NEW d, NEW e
  PROVE  Follow(c, <<a, b, d, e>>) = Hear(Hear(Hear(Hear(c, a), b), d), e)
BY DEF Follow

\* What a chunk puts on the wire leaves the client where the translator takes it to be.
LEMMA TranslationFollows ==
  ASSUME NEW s, NEW c, FollowsResponses(s, c), NEW d \in Pieces, d.kind = "none" => d.piece = 0
  PROVE  /\ FollowsResponses(Translated(s, d), Follow(c, Translation(s, d)))
         /\ Follow(c, Translation(s, d)).items = Retold(s, c.items, d)
<1> DEFINE id == PayloadId(d)
           at == ItemOf(s, d).output_index
           new == Item(id, d.name, <<>>)
           n0 == s.sequence
           n1 == n0 + Creates(s)
           n2 == n1 + Adds(s, d)
           n3 == n2 + Parts(s, d)
           e1 == IF Creates(s) = 0 THEN Silence ELSE [type |-> "response.created", sequence |-> s.sequence]
           e2 == IF Adds(s, d) = 0 THEN Silence
                 ELSE [type |-> "response.output_item.added", sequence |-> n1, output_index |-> at, item |-> new]
           e3 == IF Parts(s, d) = 0 THEN Silence
                 ELSE [type |-> "response.content_part.added", sequence |-> n2, output_index |-> at, item_id |-> id]
           e4 == IF Deltas(d) = 0 THEN Silence
                 ELSE [type |-> "delta", sequence |-> n3, output_index |-> at, item_id |-> id, piece |-> d.piece]
           c1 == Hear(c, e1)
           c2 == Hear(c1, e2)
           c3 == Hear(c2, e3)
           c4 == Hear(c3, e4)
           after == Translated(s, d)
<1>1. /\ s \in ResponsesStates /\ c \in ResponsesClients /\ ~s.completed /\ n0 \in Nat
      /\ Len(c.items) = Len(s.output) /\ HasItems(c, s.items)
      /\ s.items \in Maps(ItemIds, Places) /\ c.items \in Seq(Items)
  BY DEF FollowsResponses, ResponsesStates, ResponsesClients
<1>2. Follow(c, Translation(s, d)) = c4
  <2>1. Parts(s, d) # 0 => s.sequence + Creates(s) + 1 = n2
    <3>1. Parts(s, d) # 0 => Adds(s, d) = 1
      BY DEF Parts, Adds
    <3>2. Creates(s) \in Nat
      BY DEF Creates
    <3> QED
      BY <1>1, <3>1, <3>2
  <2>2. Translation(s, d) = <<e1, e2, e3, e4>>
    BY <2>1 DEF Translation
  <2> HIDE DEF e1, e2, e3, e4
  <2> QED
    BY <2>2, FollowTells
<1>3. /\ c1 \in ResponsesClients /\ c1.at = "open" /\ ~c1.confused /\ c1.expects = n1 /\ c1.items = c.items
      /\ c1.parted = c.parted
  BY CreatedFollows
<1>4. n1 \in Nat /\ n2 \in Nat /\ n3 \in Nat
  BY <1>1 DEF Creates, Adds, Parts
<1>5. Hearing(c1, n1)
  BY <1>3, <1>4 DEF Hearing
<1> HIDE DEF c1, e1
<1>6. Hearing(c2, n2) /\ c2.parted = c.parted /\ c2.items = IF IsNew(s, d) THEN Append(c.items, new) ELSE c.items
  BY <1>1, <1>3, <1>5, AddedFollows
<1>7. d.kind = "none" => ~IsNew(s, d) /\ d.piece = 0
  BY DEF IsNew
<1>8. d.kind # "none" =>
        /\ id \in ItemIds /\ at \in Nat
        /\ Written(s, d) \in Places /\ Written(s, d).output_index = at
        /\ IsNew(s, d) <=> id \notin DOMAIN s.items
        /\ IsNew(s, d) => at = Len(s.output)
        /\ ~IsNew(s, d) => at = s.items[id].output_index
        /\ id = MessageId <=> d.kind = "text"
        /\ id.kind = "message" <=> d.kind = "text"
  BY <1>1, ItemTells DEF Places
<1> HIDE DEF c2, e2, at, id
<1>9. d.kind # "none" => at < Len(c2.items) /\ c2.items[at + 1].id = id
  <2>1. CASE d.kind # "none" /\ IsNew(s, d)
    <3>1. new.id = id /\ new \in Items
      BY <1>8, <2>1 DEF Item, Items, Pieces
    <3> HIDE DEF new
    <3> QED
      BY <1>1, <1>6, <1>8, <2>1, <3>1
  <2>2. CASE d.kind # "none" /\ ~IsNew(s, d)
    BY <1>1, <1>6, <1>8, <2>2 DEF HasItems
  <2> QED
    BY <2>1, <2>2
<1>10. IsNew(s, d) /\ d.kind = "text" => ~c2.parted
  BY <1>1, <1>6, <1>8 DEF HasItems
<1>19. e3 = PartEvent(s, d, n2)
  BY DEF at, id, PartEvent
<1>20. PartPlaced(s, d, c2)
  BY <1>7, <1>9, <1>10 DEF at, id, PartPlaced
<1> HIDE DEF e3, n2
<1>11. /\ Hearing(c3, n3) /\ c3.items = c2.items
       /\ c3.parted = (c2.parted \/ (IsNew(s, d) /\ d.kind = "text"))
  BY <1>1, <1>6, <1>19, <1>20, PartFollows
<1> HIDE DEF c3
<1>12. d.kind = "text" => c3.parted
  BY <1>1, <1>6, <1>8, <1>11 DEF HasItems
<1>13. /\ Hearing(c4, n3 + Deltas(d)) /\ c4.parted = c3.parted /\ Len(c4.items) = Len(c3.items)
       /\ \A i \in 1 .. Len(c3.items) : c4.items[i].id = c3.items[i].id
       /\ c4.items = IF d.kind = "none" THEN c3.items ELSE Lengthened(c3.items, at + 1, d.piece)
  <2>1. CASE d.kind # "none"
    BY <1>8, <1>9, <1>11, <1>12, <2>1, SayingFollows
  <2>2. CASE d.kind = "none"
    <3>1. c4 = c3 /\ Deltas(d) = 0
      BY <1>7, <2>2 DEF Deltas, Hear, Silence
    <3> HIDE DEF c4, e4, n3
    <3>2. n3 + Deltas(d) = n3
      BY <1>4, <3>1
    <3> QED
      BY <1>11, <2>2, <3>1, <3>2
  <2> QED
    BY <2>1, <2>2
<1> HIDE DEF c4, e4
<1>14. /\ after \in ResponsesStates /\ after.started /\ after.completed = s.completed
       /\ after.sequence = n3 + Deltas(d)
       /\ d.kind = "none" => after.items = s.items
       /\ d.kind # "none" => after.items = WithEntry(s.items, id, Written(s, d))
       /\ Len(after.output) = Len(s.output) + Adds(s, d)
  BY <1>1, TranslatedTells DEF id, n2
<1> HIDE DEF after
<1>15. Len(c4.items) = Len(after.output)
  <2>1. Len(c2.items) = Len(s.output) + Adds(s, d)
    <3>1. CASE IsNew(s, d)
      <4>1. new \in Items
        BY <1>7, <1>8, <3>1 DEF Item, Items, Pieces
      <4> HIDE DEF new
      <4> QED
        BY <1>1, <1>6, <3>1, <4>1 DEF Adds
    <3>2. CASE ~IsNew(s, d)
      BY <1>1, <1>6, <3>2 DEF Adds
    <3> QED
      BY <3>1, <3>2
  <2> QED
    BY <1>11, <1>13, <1>14, <2>1
<1>16. HasItems(c4, after.items)
  <2>1. ASSUME NEW x \in DOMAIN after.items
        PROVE  after.items[x].output_index < Len(c4.items) /\ c4.items[after.items[x].output_index + 1].id = x
    <3>1. CASE d.kind # "none" /\ x = id
      <4>1. after.items[x] = Written(s, d) /\ after.items[x].output_index = at
        BY <1>8, <1>14, <3>1 DEF WithEntry
      <4> QED
        BY <1>8, <1>9, <1>11, <1>13, <3>1, <4>1
    <3>2. CASE ~(d.kind # "none" /\ x = id)
      <4>1. x \in DOMAIN s.items /\ after.items[x] = s.items[x]
        BY <1>14, <3>2 DEF WithEntry
      <4>2. s.items[x].output_index < Len(c.items) /\ c.items[s.items[x].output_index + 1].id = x
        BY <1>1, <4>1 DEF HasItems
      <4>3. s.items[x].output_index \in Nat
        <5>1. s.items[x] \in Places
          BY <1>1, <4>1, MapsTell
        <5> QED
          BY <5>1 DEF Places
      <4> DEFINE i == s.items[x].output_index + 1
      <4>4. i \in 1 .. Len(c.items) /\ c.items[i].id = x
        BY <1>1, <4>2, <4>3
      <4>5. i \in 1 .. Len(c2.items) /\ c2.items[i].id = x
        <5> HIDE DEF i
        <5>1. CASE IsNew(s, d)
          BY <1>1, <1>6, <4>4, <5>1
        <5>2. CASE ~IsNew(s, d)
          BY <1>6, <4>4, <5>2
        <5> QED
          BY <5>1, <5>2
      <4>6. c4.items[i].id = x /\ i \in 1 .. Len(c4.items)
        BY <1>11, <1>13, <4>5
      <4> QED
        BY <4>1, <4>3, <4>6
    <3> QED
      BY <3>1, <3>2
  <2>2. c4.parted <=> MessageId \in DOMAIN after.items
    <3>1. CASE d.kind = "none"
      BY <1>1, <1>6, <1>7, <1>11, <1>13, <1>14, <3>1 DEF HasItems
    <3>2. CASE d.kind # "none"
      <4>1. DOMAIN after.items = DOMAIN s.items \cup {id}
        BY <1>14, <3>2 DEF WithEntry
      <4> QED
        BY <1>1, <1>6, <1>8, <1>11, <1>13, <3>2, <4>1 DEF HasItems
    <3> QED
      BY <3>1, <3>2
  <2> QED
    BY <2>1, <2>2 DEF HasItems
<1>17. c4 \in ResponsesClients /\ c4.at = "open" /\ ~c4.confused /\ c4.expects = n3 + Deltas(d)
  BY <1>13 DEF Hearing
<1>18. FollowsResponses(after, c4)
  BY <1>1, <1>14, <1>15, <1>16, <1>17 DEF FollowsResponses
<1>21. c4.items = Retold(s, c.items, d)
  <2>1. CASE d.kind = "none"
    BY <1>6, <1>7, <1>11, <1>13, <2>1 DEF Retold
  <2>2. CASE d.kind # "none" /\ IsNew(s, d)
    <3>1. at = Len(c.items) /\ id \in ItemIds /\ d.name \in Nat /\ d.piece \in Nat
      BY <1>1, <1>8, <2>2 DEF Pieces
    <3>2. c4.items = Lengthened(Append(c.items, new), Len(c.items) + 1, d.piece)
      BY <1>6, <1>11, <1>13, <2>2, <3>1
    <3>3. c4.items = Append(c.items, Item(id, d.name, Uttered(d.piece)))
      BY <1>1, <3>1, <3>2, ItemBegins
    <3> QED
      BY <2>2, <3>3 DEF Retold, id
  <2>3. CASE d.kind # "none" /\ ~IsNew(s, d)
    <3>1. c4.items = Lengthened(c.items, s.items[id].output_index + 1, d.piece)
      BY <1>6, <1>8, <1>11, <1>13, <2>3
    <3> QED
      BY <2>3, <3>1 DEF Retold, id
  <2> QED
    BY <2>1, <2>2, <2>3
<1> QED
  BY <1>2, <1>18, <1>21 DEF after

\* A gateway with its Anthropic client, and one behind it that reads the Responses stream.
Gateways == [translator : Translators, reader : Readers, account : Nat]
Pendings == Maps(ItemIds, Nat \ {0})
Relays == [pending : Pendings, gateway : Gateways]

\* One chunk at a gateway whose client follows.
LEMMA GatewayFollows ==
  ASSUME NEW g \in Gateways, FollowsAnthropic(g.translator, g.reader), NEW d \in Pieces,
         d.kind = "tool_use" /\ d.key \notin DOMAIN g.translator.tools => d.name # 0,
         NEW finish, NEW usage \in Nat
  PROVE  LET taken == Take(g, d, finish, usage)
         IN  /\ taken \in Gateways /\ FollowsAnthropic(taken.translator, taken.reader) /\ taken.translator.started
             /\ taken.account = Counted(g.account, usage)
             /\ DOMAIN g.translator.tools \subseteq DOMAIN taken.translator.tools
             /\ d.kind = "tool_use" => d.key \in DOMAIN taken.translator.tools
             /\ taken.translator.stop_reason = IF finish = "none" THEN g.translator.stop_reason ELSE StopReason(finish)
             /\ taken.reader.blocks = Rewritten(g.translator, g.reader.blocks, d)
<1> DEFINE s == g.translator
           c == g.reader
           after == After(s, d)
           read == Read(c, Events(s, d))
           last == Finishing(after, finish)
           account == Counted(g.account, usage)
           taken == Take(g, d, finish, usage)
<1>1. taken = [account |-> account, reader |-> read, translator |-> last]
  BY DEF Take
<1>2. taken.account = account /\ taken.reader = read /\ taken.translator = last
  BY <1>1
<1>3. account \in Nat
  BY DEF Counted, Gateways
<1> HIDE DEF account
<1>4. /\ FollowsAnthropic(after, read) /\ after.started /\ after.stop_reason = s.stop_reason
      /\ DOMAIN s.tools \subseteq DOMAIN after.tools
      /\ d.kind = "tool_use" => d.key \in DOMAIN after.tools
      /\ read.blocks = Rewritten(s, c.blocks, d)
  BY TakeFollows
<1> HIDE DEF after, read, s
<1>5. /\ FollowsAnthropic(last, read) /\ last.started = after.started /\ last.tools = after.tools
      /\ last.stop_reason = IF finish = "none" THEN after.stop_reason ELSE StopReason(finish)
  BY <1>4, FinishingFollows
<1> HIDE DEF last
<1>6. taken \in Gateways
  BY <1>1, <1>3, <1>5 DEF Gateways, FollowsAnthropic
<1> QED
  BY <1>2, <1>4, <1>5, <1>6 DEF s, account

\* The relay f knows the calls among the items, and its client follows.
FollowsRelay(f, ids) ==
  /\ f \in Relays /\ FollowsAnthropic(f.gateway.translator, f.gateway.reader) /\ f.gateway.account = 0
  /\ \A id \in ids : id.kind = "function_call" => id \in DOMAIN f.pending

\* Events that say nothing of an item leave a relay alone.
LEMMA RelayIgnores ==
  ASSUME NEW f \in Relays, NEW e,
         e.type \in {"silence", "response.created", "response.content_part.added"}
  PROVE  Relay(f, e) = f
<1>1. Announced(f.pending, e) = f.pending
  BY DEF Announced
<1>2. Relay(f, e) = [pending |-> f.pending, gateway |-> f.gateway]
  BY <1>1 DEF Relay
<1> QED
  BY <1>2 DEF Relays

\* An announcement names its call.
LEMMA RelayAnnounces ==
  ASSUME NEW f, NEW ids, FollowsRelay(f, ids), NEW e, e.type = "response.output_item.added",
         NEW id \in ItemIds, e.item.id = id, e.item.name \in Nat, id.kind = "function_call" => e.item.name # 0
  PROVE  FollowsRelay(Relay(f, e), ids \cup {id})
<1> DEFINE pending == Announced(f.pending, e)
           relayed == Relay(f, e)
           name == e.item.name
<1>1. f \in Relays /\ f.pending \in Pendings /\ f.gateway \in Gateways
  BY DEF FollowsRelay, Relays
<1>2. /\ pending \in Pendings /\ DOMAIN f.pending \subseteq DOMAIN pending
      /\ id.kind = "function_call" => id \in DOMAIN pending
  <2>1. CASE id.kind = "function_call"
    <3>1. pending = WithEntry(f.pending, id, name)
      BY <2>1 DEF Announced
    <3>2. name \in Nat \ {0}
      BY <2>1
    <3> HIDE DEF name, pending
    <3>3. pending \in Pendings
      BY <1>1, <3>1, <3>2, MapsTell DEF Pendings
    <3>4. DOMAIN pending = DOMAIN f.pending \cup {id}
      BY <3>1 DEF WithEntry
    <3> QED
      BY <3>3, <3>4
  <2>2. CASE id.kind # "function_call"
    <3>1. pending = f.pending
      BY <2>2 DEF Announced
    <3> QED
      BY <1>1, <2>2, <3>1
  <2> QED
    BY <2>1, <2>2
<1> HIDE DEF pending
<1>3. relayed = [pending |-> pending, gateway |-> f.gateway]
  BY DEF Relay, pending
<1> HIDE DEF relayed
<1>4. relayed \in Relays /\ relayed.pending = pending /\ relayed.gateway = f.gateway
  BY <1>1, <1>2, <1>3 DEF Relays
<1>5. \A x \in ids \cup {id} : x.kind = "function_call" => x \in DOMAIN relayed.pending
  BY <1>2, <1>4 DEF FollowsRelay
<1>6. FollowsAnthropic(relayed.gateway.translator, relayed.gateway.reader) /\ relayed.gateway.account = 0
  BY <1>4 DEF FollowsRelay
<1>7. FollowsRelay(relayed, ids \cup {id})
  BY <1>4, <1>5, <1>6 DEF FollowsRelay
<1> QED
  BY <1>7 DEF relayed

\* A delta is said again behind the relay, under the name that was announced.
LEMMA RelaySays ==
  ASSUME NEW f, NEW ids, FollowsRelay(f, ids), NEW e, e.type = "delta",
         NEW id \in ids, id \in ItemIds, e.item_id = id, e.output_index \in Nat, e.piece \in Nat
  PROVE  FollowsRelay(Relay(f, e), ids)
<1> DEFINE relayed == Relay(f, e)
           name == IF id \in DOMAIN f.pending THEN f.pending[id] ELSE 0
           d == ChunkOf(e, f.pending)
           g == f.gateway
           taken == Take(g, d, "none", 0)
<1>1. f \in Relays /\ f.pending \in Pendings /\ g \in Gateways /\ FollowsAnthropic(g.translator, g.reader) /\ g.account = 0
  BY DEF FollowsRelay, Relays
<1>2. Announced(f.pending, e) = f.pending
  BY DEF Announced
<1>3. relayed = [pending |-> f.pending, gateway |-> taken]
  BY <1>2 DEF Relay
<1>4. name \in Nat /\ (id.kind = "function_call" => name # 0)
  <2>1. CASE id \in DOMAIN f.pending
    <3>1. f.pending[id] \in Nat \ {0}
      BY <1>1, <2>1, MapsTell DEF Pendings
    <3> QED
      BY <2>1, <3>1
  <2>2. CASE id \notin DOMAIN f.pending
    BY <2>2 DEF FollowsRelay
  <2> QED
    BY <2>1, <2>2
<1>5. d \in Pieces /\ (d.kind = "tool_use" => d.name # 0)
  <2>1. Label(e) \in Nat
    BY DEF Label
  <2>2. KindOf(id) \in BlockKinds \cup {"none"} /\ (KindOf(id) = "tool_use" => id.kind = "function_call")
    BY DEF KindOf, BlockKinds, ItemIds
  <2>3. d = [kind |-> KindOf(id), key |-> Label(e), name |-> name, piece |-> e.piece]
    BY DEF ChunkOf, Payload
  <2> HIDE DEF name, d
  <2> QED
    BY <1>4, <2>1, <2>2, <2>3 DEF Pieces
<1> HIDE DEF d, relayed, g, name
<1>6. /\ taken \in Gateways /\ FollowsAnthropic(taken.translator, taken.reader)
      /\ taken.account = Counted(g.account, 0)
  BY <1>1, <1>5, GatewayFollows
<1> HIDE DEF taken
<1>7. relayed \in Relays /\ relayed.pending = f.pending /\ relayed.gateway = taken
  BY <1>1, <1>3, <1>6 DEF Relays
<1>8. taken.account = 0
  BY <1>1, <1>6 DEF Counted
<1>9. FollowsRelay(relayed, ids)
  BY <1>6, <1>7, <1>8 DEF FollowsRelay
<1> QED
  BY <1>9 DEF relayed

\* Four events are relayed one after the other.
LEMMA RelayTells ==
  ASSUME NEW f, NEW a, NEW b, NEW d, NEW e
  PROVE  RelayAll(f, <<a, b, d, e>>) = Relay(Relay(Relay(Relay(f, a), b), d), e)
BY DEF RelayAll

\* What a chunk puts on the wire is said again by a gateway behind.
LEMMA TranslationRelays ==
  ASSUME NEW s \in ResponsesStates, NEW d \in Pieces, d.kind = "none" => d.piece = 0,
         IsNew(s, d) /\ d.kind = "tool_use" => d.name # 0,
         NEW f, FollowsRelay(f, DOMAIN s.items)
  PROVE  FollowsRelay(RelayAll(f, Translation(s, d)), DOMAIN Translated(s, d).items)
<1> DEFINE id == PayloadId(d)
           at == ItemOf(s, d).output_index
           new == Item(id, d.name, <<>>)
           e1 == IF Creates(s) = 0 THEN Silence ELSE [type |-> "response.created", sequence |-> s.sequence]
           e2 == IF Adds(s, d) = 0 THEN Silence
                 ELSE [type |-> "response.output_item.added", sequence |-> s.sequence + Creates(s),
                       output_index |-> at, item |-> new]
           e3 == IF Parts(s, d) = 0 THEN Silence
                 ELSE [type |-> "response.content_part.added", sequence |-> s.sequence + Creates(s) + 1,
                       output_index |-> at, item_id |-> id]
           e4 == IF Deltas(d) = 0 THEN Silence
                 ELSE [type |-> "delta", sequence |-> s.sequence + Creates(s) + Adds(s, d) + Parts(s, d),
                       output_index |-> at, item_id |-> id, piece |-> d.piece]
           f1 == Relay(f, e1)
           f2 == Relay(f1, e2)
           f3 == Relay(f2, e3)
           f4 == Relay(f3, e4)
           before == DOMAIN s.items
           ids == DOMAIN Translated(s, d).items
<1>1. RelayAll(f, Translation(s, d)) = f4
  <2>1. Translation(s, d) = <<e1, e2, e3, e4>>
    BY DEF Translation
  <2> HIDE DEF e1, e2, e3, e4
  <2> QED
    BY <2>1, RelayTells
<1>2. d.kind = "none" => ~IsNew(s, d) /\ d.piece = 0
  BY DEF IsNew
<1>3. d.kind # "none" =>
        /\ id \in ItemIds /\ at \in Nat
        /\ IsNew(s, d) <=> id \notin before
        /\ d.kind = "tool_use" => id = ItemId("function_call", d.key)
  BY ItemTells DEF Places
<1>4. id.kind = "function_call" /\ d.kind # "none" => d.kind = "tool_use"
  BY DEF PayloadId, ItemId, Pieces, BlockKinds
<1>5. ids = IF d.kind = "none" THEN before ELSE before \cup {id}
  <2>1. CASE d.kind = "none"
    BY <2>1, TranslatedTells
  <2>2. CASE d.kind # "none"
    <3>1. Translated(s, d).items = WithEntry(s.items, id, Written(s, d))
      BY <2>2, TranslatedTells
    <3> QED
      BY <2>2, <3>1 DEF WithEntry
  <2> QED
    BY <2>1, <2>2
<1>6. e1.type \in {"silence", "response.created"}
  BY DEF Silence
<1>7. e3.type \in {"silence", "response.content_part.added"}
  BY DEF Silence
<1>8. IF IsNew(s, d) THEN e2.type = "response.output_item.added" /\ e2.item = new ELSE e2.type = "silence"
  BY DEF Adds, Silence
<1>9. IF d.piece = 0 THEN e4.type = "silence"
      ELSE e4.type = "delta" /\ e4.output_index = at /\ e4.item_id = id /\ e4.piece = d.piece
  BY DEF Deltas, Silence
<1>10. f1 = f
  <2> HIDE DEF e1
  <2>1. f \in Relays
    BY DEF FollowsRelay
  <2>2. Relay(f, e1) = f
    BY <1>6, <2>1, RelayIgnores
  <2> QED
    BY <2>2
<1> HIDE DEF e1, e2, e3, e4, f1, at, before, ids
<1>11. FollowsRelay(f1, before)
  BY <1>10 DEF before
<1>12. FollowsRelay(f2, ids)
  <2>1. CASE IsNew(s, d)
    <3>1. d.kind # "none"
      BY <1>2, <2>1
    <3>2. e2.item.id = id /\ e2.item.name = d.name /\ d.name \in Nat
      BY <1>8, <2>1 DEF Item, Pieces
    <3>3. id.kind = "function_call" => d.name # 0
      BY <1>4, <2>1, <3>1
    <3> HIDE DEF id
    <3>4. FollowsRelay(Relay(f1, e2), before \cup {id})
      BY <1>3, <1>8, <1>11, <2>1, <3>1, <3>2, <3>3, RelayAnnounces
    <3> QED
      BY <1>5, <3>1, <3>4
  <2>2. CASE ~IsNew(s, d)
    <3>1. ids = before
      <4> HIDE DEF id
      <4> QED
        BY <1>3, <1>5, <2>2
    <3>2. Relay(f1, e2) = f1
      BY <1>8, <1>11, <2>2, RelayIgnores DEF FollowsRelay
    <3> QED
      BY <1>11, <3>1, <3>2
  <2> QED
    BY <2>1, <2>2
<1> HIDE DEF f2
<1>13. f3 = f2
  <2>1. f2 \in Relays
    BY <1>12 DEF FollowsRelay
  <2> QED
    BY <1>7, <2>1, RelayIgnores
<1> HIDE DEF f3
<1>14. FollowsRelay(f4, ids)
  <2>1. CASE d.piece = 0
    <3>1. f3 \in Relays
      BY <1>12, <1>13 DEF FollowsRelay
    <3>2. f4 = f3
      BY <1>9, <2>1, <3>1, RelayIgnores
    <3> QED
      BY <1>12, <1>13, <3>2
  <2>2. CASE d.piece # 0
    <3>1. id \in ids /\ id \in ItemIds /\ at \in Nat /\ d.piece \in Nat
      BY <1>2, <1>3, <1>5, <2>2 DEF Pieces
    <3>2. FollowsRelay(f3, ids)
      BY <1>12, <1>13
    <3> HIDE DEF id
    <3>3. FollowsRelay(Relay(f3, e4), ids)
      BY <1>9, <2>2, <3>1, <3>2, RelaySays
    <3> QED
      BY <3>3
  <2> QED
    BY <2>1, <2>2
<1> QED
  BY <1>1, <1>14 DEF ids

\* What the provider has said.
SaidCalls == [name : Nat, text : Seq(Nat)]
Answers ==
  [thinking : Seq(Nat), text : Seq(Nat), calls : Seq(SaidCalls), pieces : Nat,
   latest : {"none", "thinking", "text", "tool_use"}, in_order : BOOLEAN, astray : BOOLEAN,
   finish : Finishes \cup {"none", "several"}, usage : Usages \cup {0}]

\* A call that has a name has a block at the first gateway and an item of the turn.
CallsHaveBlocks ==
  \A call \in Nat : IsOpen(call) =>
    call \in DOMAIN near.translator.tools /\ ItemId("function_call", call) \in DOMAIN responses.items

\* The client of the Chat Completions stream takes it as it comes.
ChatFollows == {"at", "usage"} \subseteq DOMAIN chat /\ chat.at = "open" /\ chat.usage = said.usage

\* Every client is where its translator takes it to be.
ClientsAreWhereTheyShould ==
  /\ near \in Gateways /\ FollowsAnthropic(near.translator, near.reader)
  /\ FollowsResponses(responses, client)
  /\ FollowsRelay(far, DOMAIN responses.items)
  /\ near.translator.started = responses.started

\* What the gateway will bill is what the provider said last, and the reason it will give is the one
\* the provider stated, unless that stated several.
GatewayKnowsTheEnd ==
  /\ near.account = said.usage
  /\ said.finish # "several" => near.translator.stop_reason = StopReason(said.finish)

AnswerTyped ==
  /\ said \in Answers /\ said.pieces <= MaxPieces /\ frame \in Nat /\ phase \in {"open", "done", "broken"}

\* While the provider's stream is open everyone is in step; afterwards all is said.
StreamsInv ==
  /\ AnswerTyped
  /\ phase = "open" =>
       ClientsAreWhereTheyShould /\ GatewayKnowsTheEnd /\ ChatFollows /\ CallsHaveBlocks
  /\ phase # "open" => TypeOK /\ ClientsFollow /\ EndIsHeard

\* The answer begins in step.
LEMMA StreamsStart == Init => StreamsInv
<1> SUFFICES ASSUME Init PROVE StreamsInv
  OBVIOUS
<1> USE StreamAssumption
<1>1. AnswerTyped /\ phase = "open"
  BY DEF Init, AnswerTyped, Answers
<1>2. NewStreamState \in Translators /\ NewReader \in Readers
  <2>1. <<>> \in ToolBlocks /\ <<>> \in Seq(ReaderBlocks)
    BY ToolBlocksTell
  <2> QED
    BY <2>1 DEF NewStreamState, NewReader, Translators, Readers, BlockKinds, StopReasons, NoKey
<1>3. FollowsAnthropic(NewStreamState, NewReader)
  <2>1. DOMAIN NewStreamState.tools = {} /\ Len(NewReader.blocks) = 0
    BY DEF NewStreamState, NewReader
  <2>2. /\ ~NewStreamState.started /\ NewStreamState.open = "none" /\ NewStreamState.index = 0
        /\ NewReader.at = "before" /\ ~NewReader.confused
    BY DEF NewStreamState, NewReader
  <2> HIDE DEF NewStreamState, NewReader
  <2> QED
    BY <1>2, <2>1, <2>2 DEF FollowsAnthropic
<1>4. NewGateway \in Gateways /\ NewGateway.translator = NewStreamState /\ NewGateway.reader = NewReader
      /\ NewGateway.account = 0
  BY <1>2 DEF NewGateway, Gateways
<1>5. FollowsResponses(NewResponsesState, NewClient) /\ DOMAIN NewResponsesState.items = {} /\ ~NewResponsesState.started
  <2>1. <<>> \in Maps(ItemIds, Places)
    BY MapsTell
  <2>2. NewResponsesState \in ResponsesStates
    BY <2>1 DEF NewResponsesState, ResponsesStates
  <2>3. NewClient \in ResponsesClients
    BY DEF NewClient, ResponsesClients
  <2>4. /\ DOMAIN NewResponsesState.items = {} /\ ~NewResponsesState.started /\ ~NewResponsesState.completed
        /\ NewResponsesState.sequence = 0 /\ Len(NewResponsesState.output) = 0
        /\ NewClient.at = "before" /\ ~NewClient.confused /\ ~NewClient.parted /\ NewClient.expects = 0
        /\ Len(NewClient.items) = 0
    BY DEF NewResponsesState, NewClient
  <2>5. HasItems(NewClient, NewResponsesState.items)
    BY <2>4 DEF HasItems
  <2> QED
    BY <2>2, <2>3, <2>4, <2>5 DEF FollowsResponses
<1>6. FollowsRelay(NewRelay, {})
  <2>1. <<>> \in Pendings
    BY MapsTell DEF Pendings
  <2>2. NewRelay \in Relays /\ NewRelay.gateway = NewGateway
    BY <1>4, <2>1 DEF NewRelay, Relays
  <2> QED
    BY <1>3, <1>4, <2>2 DEF FollowsRelay
<1>7. ClientsAreWhereTheyShould
  <2>1. ~NewStreamState.started
    BY DEF NewStreamState
  <2>2. NewStreamState.started = NewResponsesState.started
    BY DEF NewStreamState, NewResponsesState
  <2> QED
    BY <1>3, <1>4, <1>5, <1>6, <2>2 DEF Init, ClientsAreWhereTheyShould
<1>8. GatewayKnowsTheEnd
  <2>1. NewStreamState.stop_reason = StopReason("none")
    BY DEF NewStreamState, StopReason
  <2> QED
    BY <1>4, <2>1 DEF Init, GatewayKnowsTheEnd
<1>9. ChatFollows
  BY DEF Init, NewChat, ChatFollows
<1>10. CallsHaveBlocks
  BY DEF Init, CallsHaveBlocks, IsOpen
<1> QED
  BY <1>1, <1>7, <1>8, <1>9, <1>10 DEF StreamsInv

\* A usage is a number.
LEMMA UsageTells == ASSUME StreamAssumption PROVE \A usage \in Usages \cup {0} : usage \in Nat
<1>1. Usages \subseteq Nat
  BY DEF StreamAssumption
<1> QED
  BY <1>1

\* A chunk keeps everyone in step.
LEMMA ChunkFollows ==
  ASSUME ClientsAreWhereTheyShould, GatewayKnowsTheEnd, ChatFollows, said \in Answers, StreamAssumption,
         NEW d \in Pieces, d.kind = "none" => d.piece = 0,
         NEW finish, NEW usage \in Usages \cup {0},
         d.kind = "tool_use" => \/ d.name # 0
                                \/ /\ d.key \in DOMAIN near.translator.tools
                                   /\ ItemId("function_call", d.key) \in DOMAIN responses.items,
         Chunk(d, finish, usage)
  PROVE  /\ ClientsAreWhereTheyShould'
         /\ near'.account = Counted(near.account, usage)
         /\ near'.translator.stop_reason =
              IF finish = "none" THEN near.translator.stop_reason ELSE StopReason(finish)
         /\ {"at", "usage"} \subseteq DOMAIN chat' /\ chat'.at = "open" /\ chat'.usage = Counted(chat.usage, usage)
         /\ DOMAIN near.translator.tools \subseteq DOMAIN near'.translator.tools
         /\ DOMAIN responses.items \subseteq DOMAIN responses'.items
         /\ d.kind = "tool_use" => /\ d.key \in DOMAIN near'.translator.tools
                                   /\ ItemId("function_call", d.key) \in DOMAIN responses'.items
         /\ phase = "open" /\ phase' = "open"
<1>1. /\ chat' = Heard(chat, d, finish, usage) /\ near' = Take(near, d, finish, usage)
      /\ responses' = Translated(responses, d) /\ client' = Follow(client, Translation(responses, d))
      /\ far' = RelayAll(far, Translation(responses, d)) /\ phase = "open" /\ phase' = "open"
  BY DEF Chunk
<1>2. /\ near \in Gateways /\ FollowsAnthropic(near.translator, near.reader)
      /\ FollowsResponses(responses, client) /\ FollowsRelay(far, DOMAIN responses.items)
  BY DEF ClientsAreWhereTheyShould
<1>3. usage \in Nat
  BY UsageTells
<1>4. /\ near' \in Gateways /\ FollowsAnthropic(near'.translator, near'.reader) /\ near'.translator.started
      /\ near'.account = Counted(near.account, usage)
      /\ DOMAIN near.translator.tools \subseteq DOMAIN near'.translator.tools
      /\ d.kind = "tool_use" => d.key \in DOMAIN near'.translator.tools
      /\ near'.translator.stop_reason = IF finish = "none" THEN near.translator.stop_reason ELSE StopReason(finish)
  <2>1. d.kind = "tool_use" /\ d.key \notin DOMAIN near.translator.tools => d.name # 0
    OBVIOUS
  <2> QED
    BY <1>1, <1>2, <1>3, <2>1, GatewayFollows
<1>5. FollowsResponses(responses', client')
  BY <1>1, <1>2, TranslationFollows
<1>6. responses \in ResponsesStates
  BY <1>2 DEF FollowsResponses
<1>7. d.kind = "tool_use" => PayloadId(d) = ItemId("function_call", d.key)
                             /\ (IsNew(responses, d) <=> PayloadId(d) \notin DOMAIN responses.items)
  BY <1>6, ItemTells
<1>8. FollowsRelay(far', DOMAIN responses'.items)
  <2>1. IsNew(responses, d) /\ d.kind = "tool_use" => d.name # 0
    BY <1>7
  <2> QED
    BY <1>1, <1>2, <1>6, <2>1, TranslationRelays
<1>9. /\ responses'.started /\ DOMAIN responses.items \subseteq DOMAIN responses'.items
      /\ d.kind = "tool_use" => PayloadId(d) \in DOMAIN responses'.items
  <2>1. /\ responses'.started
        /\ d.kind = "none" => responses'.items = responses.items
        /\ d.kind # "none" => responses'.items = WithEntry(responses.items, PayloadId(d), Written(responses, d))
    BY <1>1, <1>6, TranslatedTells
  <2>2. CASE d.kind = "none"
    BY <2>1, <2>2
  <2>3. CASE d.kind # "none"
    BY <2>1, <2>3 DEF WithEntry
  <2> QED
    BY <2>1, <2>2, <2>3
<1>10. {"at", "usage"} \subseteq DOMAIN chat' /\ chat'.at = "open" /\ chat'.usage = Counted(chat.usage, usage)
  BY <1>1 DEF ChatFollows, Heard
<1>11. near'.translator.started = responses'.started
  <2>1. near'.translator.started \in BOOLEAN /\ responses'.started \in BOOLEAN
    BY <1>4, <1>5 DEF FollowsAnthropic, FollowsResponses, Translators, ResponsesStates
  <2> QED
    BY <1>4, <1>9, <2>1
<1>12. ClientsAreWhereTheyShould'
  BY <1>4, <1>5, <1>8, <1>11 DEF ClientsAreWhereTheyShould
<1> QED
  BY <1>1, <1>4, <1>7, <1>9, <1>10, <1>12

\* What is said is counted, and its order kept.
LEMMA SayingTells ==
  ASSUME said \in Answers, NEW kind \in BlockKinds
  PROVE  LET next == Saying(kind)
         IN  /\ next \in Answers /\ next.pieces = said.pieces + 1 /\ next.calls = said.calls
             /\ next.finish = said.finish /\ next.usage = said.usage /\ next.thinking = said.thinking
             /\ next.text = said.text /\ next.astray = said.astray
             /\ next.latest = kind /\ next.in_order = (said.in_order /\ Ranks[said.latest] <= Ranks[kind])
<1> DEFINE order == said.in_order /\ Ranks[said.latest] <= Ranks[kind]
           pieces == said.pieces + 1
           next == Saying(kind)
<1>1. next = [said EXCEPT !.pieces = pieces, !.latest = kind, !.in_order = order]
  BY DEF Saying
<1>2. order \in BOOLEAN /\ pieces \in Nat /\ kind \in {"none", "thinking", "text", "tool_use"}
  BY DEF Answers, BlockKinds
<1> HIDE DEF order, pieces, next
<1>3. next \in Answers /\ next.pieces = pieces /\ next.calls = said.calls
      /\ next.finish = said.finish /\ next.usage = said.usage /\ next.thinking = said.thinking
      /\ next.text = said.text /\ next.astray = said.astray /\ next.latest = kind /\ next.in_order = order
  BY <1>1, <1>2 DEF Answers
<1> QED
  BY <1>3 DEF pieces, next, order

\* The payloads the provider sends.
LEMMA PayloadTells ==
  ASSUME NEW kind \in BlockKinds \cup {"none"}, NEW key \in Nat, NEW name \in Nat, NEW piece \in Nat
  PROVE  LET d == Payload(kind, key, name, piece)
         IN  d \in Pieces /\ d.kind = kind /\ d.key = key /\ d.name = name /\ d.piece = piece
BY DEF Payload, Pieces

\* A usage of 0 leaves the account alone.
LEMMA CountedTells == \A account, usage : Counted(account, usage) = IF usage = 0 THEN account ELSE usage
BY DEF Counted

\* While the stream is open, being in step is all there is to show.
LEMMA StepFollows ==
  ASSUME ClientsAreWhereTheyShould', GatewayKnowsTheEnd', ChatFollows', CallsHaveBlocks', AnswerTyped', phase' = "open"
  PROVE  StreamsInv'
BY DEF StreamsInv

\* Thinking, speaking and saying nothing keep everyone in step.
LEMMA PlainChunkFollows ==
  ASSUME StreamsInv, StreamAssumption, NEW d \in Pieces, d.kind = "none" => d.piece = 0, d.kind # "tool_use",
         NEW finish \in Finishes \cup {"none"}, NEW usage \in Usages \cup {0}, Chunk(d, finish, usage),
         said' \in Answers, said'.pieces <= MaxPieces, said'.calls = said.calls,
         said'.finish = IF finish = "none" THEN said.finish ELSE StatedSoFar(said.finish, finish),
         said'.usage = IF usage = 0 THEN said.usage ELSE usage,
         frame' = 0
  PROVE  StreamsInv'
<1>1. phase = "open" /\ phase' = "open"
  BY DEF Chunk
<1>2. ClientsAreWhereTheyShould /\ GatewayKnowsTheEnd /\ ChatFollows /\ CallsHaveBlocks /\ said \in Answers
  BY <1>1 DEF StreamsInv, AnswerTyped
<1>3. /\ ClientsAreWhereTheyShould'
      /\ near'.account = Counted(near.account, usage)
      /\ near'.translator.stop_reason = IF finish = "none" THEN near.translator.stop_reason ELSE StopReason(finish)
      /\ {"at", "usage"} \subseteq DOMAIN chat' /\ chat'.at = "open" /\ chat'.usage = Counted(chat.usage, usage)
      /\ DOMAIN near.translator.tools \subseteq DOMAIN near'.translator.tools
      /\ DOMAIN responses.items \subseteq DOMAIN responses'.items
  BY <1>2, ChunkFollows
<1>4. GatewayKnowsTheEnd'
  <2>1. near'.account = said'.usage
    BY <1>2, <1>3, CountedTells DEF GatewayKnowsTheEnd
  <2>2. said'.finish # "several" => near'.translator.stop_reason = StopReason(said'.finish)
    BY <1>2, <1>3 DEF GatewayKnowsTheEnd, StatedSoFar
  <2> QED
    BY <2>1, <2>2 DEF GatewayKnowsTheEnd
<1>5. ChatFollows'
  BY <1>2, <1>3, CountedTells DEF ChatFollows
<1>6. CallsHaveBlocks'
  BY <1>2, <1>3 DEF CallsHaveBlocks, IsOpen
<1>7. AnswerTyped'
  BY <1>1 DEF AnswerTyped
<1> QED
  BY <1>1, <1>3, <1>4, <1>5, <1>6, <1>7, StepFollows

\* A piece of thinking.
LEMMA ThinkFollows == ASSUME StreamsInv, StreamAssumption, Think PROVE StreamsInv'
<1> DEFINE piece == said.pieces + 1
           d == Payload("thinking", 0, 0, piece)
           next == Saying("thinking")
           thinking == Append(next.thinking, piece)
<1>1. said \in Answers /\ said.pieces \in Nat /\ MaxPieces \in Nat /\ said.pieces < MaxPieces
  BY DEF StreamsInv, AnswerTyped, Think, Answers, StreamAssumption
<1>2. "thinking" \in BlockKinds
  BY DEF BlockKinds
<1>3. d \in Pieces /\ d.kind = "thinking"
  BY <1>1, <1>2, PayloadTells
<1>4. Chunk(d, "none", 0) /\ said' = [next EXCEPT !.thinking = thinking] /\ frame' = 0
  BY DEF Think
<1>5. /\ next \in Answers /\ next.pieces = piece /\ next.calls = said.calls
      /\ next.finish = said.finish /\ next.usage = said.usage
  BY <1>1, <1>2, SayingTells
<1> HIDE DEF next, d
<1>6. thinking \in Seq(Nat) /\ piece <= MaxPieces
  BY <1>1, <1>5 DEF Answers
<1> HIDE DEF thinking, piece
<1>7. said' \in Answers /\ said'.pieces = piece /\ said'.calls = said.calls
      /\ said'.finish = said.finish /\ said'.usage = said.usage
  BY <1>4, <1>5, <1>6 DEF Answers
<1> QED
  BY <1>3, <1>4, <1>6, <1>7, PlainChunkFollows

\* A piece of text.
LEMMA SpeakFollows == ASSUME StreamsInv, StreamAssumption, Speak PROVE StreamsInv'
<1> DEFINE piece == said.pieces + 1
           d == Payload("text", 0, 0, piece)
           next == Saying("text")
           text == Append(next.text, piece)
<1>1. said \in Answers /\ said.pieces \in Nat /\ MaxPieces \in Nat /\ said.pieces < MaxPieces
  BY DEF StreamsInv, AnswerTyped, Speak, Answers, StreamAssumption
<1>2. "text" \in BlockKinds
  BY DEF BlockKinds
<1>3. d \in Pieces /\ d.kind = "text"
  BY <1>1, <1>2, PayloadTells
<1>4. Chunk(d, "none", 0) /\ said' = [next EXCEPT !.text = text] /\ frame' = 0
  BY DEF Speak
<1>5. /\ next \in Answers /\ next.pieces = piece /\ next.calls = said.calls
      /\ next.finish = said.finish /\ next.usage = said.usage
  BY <1>1, <1>2, SayingTells
<1> HIDE DEF next, d
<1>6. text \in Seq(Nat) /\ piece <= MaxPieces
  BY <1>1, <1>5 DEF Answers
<1> HIDE DEF text, piece
<1>7. said' \in Answers /\ said'.pieces = piece /\ said'.calls = said.calls
      /\ said'.finish = said.finish /\ said'.usage = said.usage
  BY <1>4, <1>5, <1>6 DEF Answers
<1> QED
  BY <1>3, <1>4, <1>6, <1>7, PlainChunkFollows

\* A chunk without a piece: a comment, a finish reason, a usage.
LEMMA QuietFollows == ASSUME StreamsInv, StreamAssumption, Ping \/ Finish \/ Tell PROVE StreamsInv'
<1>1. said \in Answers /\ said.pieces <= MaxPieces
  BY DEF StreamsInv, AnswerTyped
<1>2. Nothing \in Pieces /\ Nothing.kind = "none" /\ Nothing.piece = 0
  BY PayloadTells DEF Nothing
<1>3. Finishes \subseteq {"stop", "length", "tool_calls", "content_filter"} /\ Usages \subseteq Nat \ {0}
  BY DEF StreamAssumption
<1> HIDE DEF Nothing
<1>4. CASE Ping
  <2>1. Chunk(Nothing, "none", 0) /\ said' = said /\ frame' = 0
    BY <1>4 DEF Ping
  <2> QED
    BY <1>1, <1>2, <2>1, PlainChunkFollows
<1>5. CASE Finish
  <2>1. PICK finish \in Finishes :
          Chunk(Nothing, finish, 0) /\ said' = [said EXCEPT !.finish = StatedSoFar(said.finish, finish)] /\ frame' = 0
    BY <1>5 DEF Finish
  <2>2. finish # "none"
    BY <1>3
  <2> DEFINE stated == StatedSoFar(said.finish, finish)
  <2>3. stated \in Finishes \cup {"none", "several"}
    BY DEF StatedSoFar
  <2>4. said' = [said EXCEPT !.finish = stated]
    BY <2>1
  <2> HIDE DEF stated
  <2>5. said' \in Answers /\ said'.pieces = said.pieces /\ said'.calls = said.calls
        /\ said'.finish = stated /\ said'.usage = said.usage
    BY <1>1, <2>3, <2>4 DEF Answers
  <2>6. said'.finish = StatedSoFar(said.finish, finish)
    BY <2>5 DEF stated
  <2> QED
    BY <1>1, <1>2, <2>1, <2>2, <2>5, <2>6, PlainChunkFollows
<1>6. CASE Tell
  <2>1. PICK usage \in Usages : Chunk(Nothing, "none", usage) /\ said' = [said EXCEPT !.usage = usage] /\ frame' = 0
    BY <1>6 DEF Tell
  <2>2. usage # 0
    BY <1>3
  <2>3. said' \in Answers /\ said'.pieces = said.pieces /\ said'.calls = said.calls
        /\ said'.finish = said.finish /\ said'.usage = usage
    BY <1>1, <2>1 DEF Answers
  <2> QED
    BY <1>1, <1>2, <2>1, <2>2, <2>3, PlainChunkFollows
<1> QED
  BY <1>4, <1>5, <1>6

\* A fragment is taken for its own call, whether it is labelled or not, unless it goes astray, and
\* for one the provider may have even then.
LEMMA LabelsTell ==
  ASSUME NEW call \in Nat, NEW position \in Nat, NEW label \in Labels(call, position)
  PROVE  /\ FragmentKey(label, position) \in Nat
         /\ ~Astray(label, position) => FragmentKey(label, position) = call
BY DEF Labels, FragmentKey, Unlabelled, Astray

\* What the first fragment of a call adds to what was said.
LEMMA OpenSays ==
  ASSUME said \in Answers, NEW call \in Nat, NEW position, NEW piece \in Nat, NEW label,
         Open(call, position, label, piece)
  PROVE  /\ said' \in Answers /\ said'.pieces = said.pieces + 1
         /\ said'.finish = said.finish /\ said'.usage = said.usage
         /\ said'.astray = (said.astray \/ Astray(label, position))
         /\ \A other \in Nat : IsOpen(other)' => IsOpen(other) \/ other = call
<1> DEFINE next == Saying("tool_use")
           strayed == said.astray \/ Astray(label, position)
           new == [name |-> NameOf(call), text |-> IF piece = 0 THEN <<>> ELSE <<piece>>]
           calls == Append(next.calls, new)
<1>1. "tool_use" \in BlockKinds /\ NameOf(call) \in Nat
  BY DEF BlockKinds, NameOf
<1>2. /\ next \in Answers /\ next.pieces = said.pieces + 1 /\ next.calls = said.calls
      /\ next.finish = said.finish /\ next.usage = said.usage /\ next.astray = said.astray
  BY <1>1, SayingTells
<1>3. said' = [next EXCEPT !.astray = next.astray \/ Astray(label, position), !.calls = calls]
  BY DEF Open
<1>4. said' = [next EXCEPT !.astray = strayed, !.calls = calls]
  BY <1>2, <1>3
<1>5. new \in SaidCalls /\ new.name = NameOf(call)
  <2> DEFINE text == IF piece = 0 THEN <<>> ELSE <<piece>>
  <2>1. text \in Seq(Nat)
    OBVIOUS
  <2>2. new = [name |-> NameOf(call), text |-> text]
    OBVIOUS
  <2> HIDE DEF text, new
  <2>3. new \in SaidCalls /\ new.name = NameOf(call)
    BY <1>1, <2>1, <2>2 DEF SaidCalls
  <2> QED
    BY <2>3 DEF new
<1>6. strayed \in BOOLEAN
  BY DEF Answers, Astray
<1> HIDE DEF next, new, strayed
<1>7. /\ calls \in Seq(SaidCalls) /\ Len(calls) = Len(said.calls) + 1 /\ calls[Len(calls)] = new
      /\ \A i \in 1 .. Len(said.calls) : calls[i] = said.calls[i]
  BY <1>2, <1>5 DEF Answers
<1> HIDE DEF calls
<1>8. said' \in Answers /\ said'.pieces = said.pieces + 1 /\ said'.calls = calls
      /\ said'.finish = said.finish /\ said'.usage = said.usage /\ said'.astray = strayed
  BY <1>2, <1>4, <1>6, <1>7 DEF Answers
<1>9. ASSUME NEW other \in Nat, IsOpen(other)' PROVE IsOpen(other) \/ other = call
  <2>1. PICK i \in DOMAIN calls : calls[i].name = NameOf(other)
    BY <1>8, <1>9 DEF IsOpen
  <2>2. CASE i = Len(calls)
    <3>1. NameOf(call) = NameOf(other)
      BY <1>5, <1>7, <2>1, <2>2
    <3> QED
      BY <3>1 DEF NameOf
  <2>3. CASE i # Len(calls)
    <3>1. said.calls \in Seq(SaidCalls)
      BY DEF Answers
    <3>2. i \in 1 .. Len(said.calls) /\ said.calls[i].name = NameOf(other)
      BY <1>7, <2>1, <2>3, <3>1
    <3>3. i \in DOMAIN said.calls
      BY <3>1, <3>2
    <3> QED
      BY <3>2, <3>3 DEF IsOpen
  <2> QED
    BY <2>2, <2>3
<1> QED
  BY <1>8, <1>9 DEF strayed

\* What a later fragment adds to it.
LEMMA ArgueSays ==
  ASSUME said \in Answers, NEW call \in Nat, NEW position, NEW piece \in Nat, NEW label,
         Argue(call, position, label, piece)
  PROVE  /\ said' \in Answers /\ said'.pieces = said.pieces + 1
         /\ said'.finish = said.finish /\ said'.usage = said.usage
         /\ said'.astray = (said.astray \/ Astray(label, position))
         /\ \A other \in Nat : IsOpen(other)' => IsOpen(other) \/ other = call
<1> DEFINE next == Saying("tool_use")
           strayed == said.astray \/ Astray(label, position)
           argued == [i \in DOMAIN said.calls |->
                        IF said.calls[i].name = NameOf(call)
                        THEN [said.calls[i] EXCEPT !.text = Append(@, piece)] ELSE said.calls[i]]
<1>1. "tool_use" \in BlockKinds /\ said.calls \in Seq(SaidCalls)
  BY DEF BlockKinds, Answers
<1>2. /\ next \in Answers /\ next.pieces = said.pieces + 1 /\ next.calls = said.calls
      /\ next.finish = said.finish /\ next.usage = said.usage /\ next.astray = said.astray
  BY <1>1, SayingTells
<1>3. said' = [next EXCEPT !.astray = next.astray \/ Astray(label, position), !.calls = argued]
  BY DEF Argue
<1>4. said' = [next EXCEPT !.astray = strayed, !.calls = argued]
  BY <1>2, <1>3
<1>5. ASSUME NEW i \in DOMAIN said.calls PROVE argued[i] \in SaidCalls /\ argued[i].name = said.calls[i].name
  <2> DEFINE was == said.calls[i]
             text == Append(was.text, piece)
  <2>1. was \in SaidCalls
    BY <1>1
  <2>2. argued[i] = IF was.name = NameOf(call) THEN [was EXCEPT !.text = text] ELSE was
    OBVIOUS
  <2>3. text \in Seq(Nat)
    BY <2>1 DEF SaidCalls
  <2> HIDE DEF was, text, argued
  <2>4. argued[i] \in SaidCalls /\ argued[i].name = was.name
    BY <2>1, <2>2, <2>3 DEF SaidCalls
  <2> QED
    BY <2>4 DEF was
<1>6. DOMAIN argued = DOMAIN said.calls
  OBVIOUS
<1>7. argued \in Seq(SaidCalls)
  <2>1. argued = [i \in 1 .. Len(said.calls) |-> argued[i]]
    BY <1>1
  <2> HIDE DEF argued
  <2>2. Len(said.calls) \in Nat /\ \A i \in 1 .. Len(said.calls) : argued[i] \in SaidCalls
    BY <1>1, <1>5
  <2> QED
    BY <2>1, <2>2
<1>8. strayed \in BOOLEAN
  BY DEF Answers, Astray
<1> HIDE DEF next, argued, strayed
<1>9. said' \in Answers /\ said'.pieces = said.pieces + 1 /\ said'.calls = argued
      /\ said'.finish = said.finish /\ said'.usage = said.usage /\ said'.astray = strayed
  BY <1>2, <1>4, <1>7, <1>8 DEF Answers
<1>10. ASSUME NEW other \in Nat, IsOpen(other)' PROVE IsOpen(other) \/ other = call
  <2>1. PICK i \in DOMAIN argued : argued[i].name = NameOf(other)
    BY <1>9, <1>10 DEF IsOpen
  <2> QED
    BY <1>5, <1>6, <2>1 DEF IsOpen
<1> QED
  BY <1>9, <1>10 DEF strayed

\* A fragment of a call that has a name, or one that is known, keeps everyone in step.
LEMMA FragmentChunkFollows ==
  ASSUME StreamsInv, StreamAssumption, NEW d \in Pieces, d.kind = "tool_use", NEW call \in Nat, d.key = call,
         d.name # 0 \/ IsOpen(call), Chunk(d, "none", 0),
         said' \in Answers, said'.pieces <= MaxPieces,
         said'.finish = said.finish, said'.usage = said.usage, frame' \in Nat,
         \A other \in Nat : IsOpen(other)' => IsOpen(other) \/ other = call
  PROVE  StreamsInv'
<1>1. phase = "open" /\ phase' = "open"
  BY DEF Chunk
<1>2. ClientsAreWhereTheyShould /\ GatewayKnowsTheEnd /\ ChatFollows /\ CallsHaveBlocks /\ said \in Answers
  BY <1>1 DEF StreamsInv, AnswerTyped
<1>3. \/ d.name # 0
      \/ /\ d.key \in DOMAIN near.translator.tools
         /\ ItemId("function_call", d.key) \in DOMAIN responses.items
  BY <1>2 DEF CallsHaveBlocks
<1>4. d.kind # "none" /\ 0 \in Usages \cup {0}
  OBVIOUS
<1>5. /\ ClientsAreWhereTheyShould'
      /\ near'.account = Counted(near.account, 0)
      /\ near'.translator.stop_reason = near.translator.stop_reason
      /\ {"at", "usage"} \subseteq DOMAIN chat' /\ chat'.at = "open" /\ chat'.usage = Counted(chat.usage, 0)
      /\ DOMAIN near.translator.tools \subseteq DOMAIN near'.translator.tools
      /\ DOMAIN responses.items \subseteq DOMAIN responses'.items
      /\ call \in DOMAIN near'.translator.tools /\ ItemId("function_call", call) \in DOMAIN responses'.items
  BY <1>2, <1>3, <1>4, ChunkFollows
<1>6. GatewayKnowsTheEnd'
  BY <1>2, <1>5, CountedTells DEF GatewayKnowsTheEnd
<1>7. ChatFollows'
  BY <1>2, <1>5, CountedTells DEF ChatFollows
<1>8. CallsHaveBlocks'
  <2> SUFFICES ASSUME NEW other \in Nat, IsOpen(other)'
               PROVE  /\ other \in DOMAIN near'.translator.tools
                      /\ ItemId("function_call", other) \in DOMAIN responses'.items
    BY DEF CallsHaveBlocks
  <2>1. CASE other = call
    BY <1>5, <2>1
  <2>2. CASE IsOpen(other)
    BY <1>2, <1>5, <2>2 DEF CallsHaveBlocks
  <2> QED
    BY <2>1, <2>2
<1>9. AnswerTyped'
  BY <1>1 DEF AnswerTyped
<1> QED
  BY <1>1, <1>5, <1>6, <1>7, <1>8, <1>9, StepFollows

\* The first fragment of a call gives it a name: a block, an item and an announcement of its own.
LEMMA OpenFollows ==
  ASSUME StreamsInv, StreamAssumption, said.pieces < MaxPieces, NEW call \in Calls, NEW position \in Nat,
         NEW piece \in {0, said.pieces + 1}, NEW label \in Labels(call, position), ~Astray(label, position),
         Open(call, position, label, piece), frame' = position + 1
  PROVE  StreamsInv'
<1> DEFINE d == Payload("tool_use", FragmentKey(label, position), NameOf(call), piece)
<1>1. said \in Answers /\ said.pieces \in Nat /\ MaxPieces \in Nat /\ call \in Nat
  BY DEF StreamsInv, AnswerTyped, Answers, StreamAssumption
<1>2. piece \in Nat /\ said.pieces + 1 <= MaxPieces /\ "tool_use" \in BlockKinds \cup {"none"}
  BY <1>1 DEF BlockKinds
<1>3. FragmentKey(label, position) = call /\ NameOf(call) \in Nat \ {0}
  BY <1>1, LabelsTell DEF NameOf
<1>4. d \in Pieces /\ d.kind = "tool_use" /\ d.key = call /\ d.name = NameOf(call)
  BY <1>1, <1>2, <1>3 DEF Payload, Pieces
<1>5. Chunk(d, "none", 0)
  BY DEF Open
<1>6. /\ said' \in Answers /\ said'.pieces = said.pieces + 1
      /\ said'.finish = said.finish /\ said'.usage = said.usage
      /\ \A other \in Nat : IsOpen(other)' => IsOpen(other) \/ other = call
  BY <1>1, <1>2, OpenSays
<1> HIDE DEF d
<1>7. d.name # 0 /\ frame' \in Nat
  BY <1>3, <1>4
<1> QED
  BY <1>1, <1>2, <1>4, <1>5, <1>6, <1>7, FragmentChunkFollows

\* A later fragment of a call goes where the first one went, whatever came in between.
LEMMA ArgueFollows ==
  ASSUME StreamsInv, StreamAssumption, said.pieces < MaxPieces, NEW call \in Calls, NEW position \in Nat,
         NEW piece \in {0, said.pieces + 1}, NEW label \in Labels(call, position), ~Astray(label, position),
         Argue(call, position, label, piece), frame' = position + 1
  PROVE  StreamsInv'
<1> DEFINE d == Payload("tool_use", FragmentKey(label, position), 0, piece)
<1>1. said \in Answers /\ said.pieces \in Nat /\ MaxPieces \in Nat /\ call \in Nat
  BY DEF StreamsInv, AnswerTyped, Answers, StreamAssumption
<1>2. piece \in Nat /\ said.pieces + 1 <= MaxPieces /\ "tool_use" \in BlockKinds
  BY <1>1 DEF BlockKinds
<1>3. FragmentKey(label, position) = call
  BY <1>1, LabelsTell
<1>4. d \in Pieces /\ d.kind = "tool_use" /\ d.key = call
  BY <1>1, <1>2, <1>3, PayloadTells
<1>5. Chunk(d, "none", 0) /\ IsOpen(call)
  BY DEF Argue
<1>6. /\ said' \in Answers /\ said'.pieces = said.pieces + 1
      /\ said'.finish = said.finish /\ said'.usage = said.usage
      /\ \A other \in Nat : IsOpen(other)' => IsOpen(other) \/ other = call
  BY <1>1, <1>2, ArgueSays
<1> HIDE DEF d
<1>7. frame' \in Nat
  OBVIOUS
<1> QED
  BY <1>1, <1>2, <1>4, <1>5, <1>6, <1>7, FragmentChunkFollows

\* A fragment of a call, the first one or a later one, that does not go astray.
LEMMA FragmentFollows == ASSUME StreamsInv, StreamAssumption, Fragment, ~said'.astray PROVE StreamsInv'
<1>1. frame \in Nat /\ said \in Answers /\ said.pieces \in Nat /\ Calls \subseteq Nat
  BY DEF StreamsInv, AnswerTyped, Answers, StreamAssumption
<1>2. PICK call \in Calls, position \in {0, frame}, piece \in {0, said.pieces + 1} :
        \E label \in Labels(call, position) :
          /\ Open(call, position, label, piece) \/ Argue(call, position, label, piece)
          /\ frame' = position + 1
  BY DEF Fragment
<1>3. PICK label \in Labels(call, position) :
        /\ Open(call, position, label, piece) \/ Argue(call, position, label, piece)
        /\ frame' = position + 1
  BY <1>2
<1>4. said.pieces < MaxPieces /\ position \in Nat /\ piece \in Nat /\ call \in Nat
  BY <1>1 DEF Fragment
<1>5. CASE Open(call, position, label, piece)
  <2>1. ~Astray(label, position)
    BY <1>1, <1>4, <1>5, OpenSays
  <2> QED
    BY <1>3, <1>4, <1>5, <2>1, OpenFollows
<1>6. CASE Argue(call, position, label, piece)
  <2>1. ~Astray(label, position)
    BY <1>1, <1>4, <1>6, ArgueSays
  <2> QED
    BY <1>3, <1>4, <1>6, <2>1, ArgueFollows
<1> QED
  BY <1>3, <1>5, <1>6

\* A Responses client that is told the end has all of it.
LEMMA CompletedFollows ==
  ASSUME NEW s, NEW c, FollowsResponses(s, c), s.started, NEW usage \in Nat
  PROVE  LET heard == Hear(c, CompletedEvent(s, usage))
         IN  ~heard.confused /\ heard.at = "complete" /\ heard.usage = usage
<1> DEFINE e == CompletedEvent(s, usage)
           heard == Hear(c, e)
           took == [c EXCEPT !.at = "complete", !.final = e.output, !.usage = usage]
<1>1. c \in ResponsesClients /\ ~c.confused /\ c.at = "open" /\ c.expects = s.sequence /\ ~s.completed
  BY DEF FollowsResponses
<1>2. e.type = "response.completed" /\ e.sequence = s.sequence /\ e.usage = usage
  BY <1>1 DEF CompletedEvent
<1> HIDE DEF e
<1>3. Numbered(c, e)
  BY <1>1, <1>2 DEF Numbered
<1>4. Expected(c, e)
  BY <1>1, <1>2 DEF Expected
<1>5. Took(c, e) = took
  BY <1>2 DEF Took
<1>6. heard = [took EXCEPT !.expects = took.expects + 1]
  BY <1>2, <1>3, <1>4, <1>5 DEF Hear
<1>7. ~took.confused /\ took.at = "complete" /\ took.usage = usage
  BY <1>1 DEF ResponsesClients
<1>8. ~heard.confused /\ heard.at = "complete" /\ heard.usage = usage
  BY <1>1, <1>6, <1>7 DEF ResponsesClients
<1> QED
  BY <1>8 DEF e

\* A Responses client that is told of a failure takes the answer for failed.
LEMMA FailedFollows ==
  ASSUME NEW s, NEW c, FollowsResponses(s, c)
  PROVE  LET heard == Hear(c, FailedEvent) IN ~heard.confused /\ heard.at = "failed"
<1> DEFINE heard == Hear(c, FailedEvent)
           took == [c EXCEPT !.at = "failed"]
<1>1. c \in ResponsesClients /\ ~c.confused /\ c.at \in {"before", "open"}
  BY DEF FollowsResponses
<1>2. FailedEvent.type = "response.failed"
  BY DEF FailedEvent
<1>3. Numbered(c, FailedEvent)
  BY <1>2 DEF Numbered
<1>4. Expected(c, FailedEvent)
  BY <1>1, <1>2 DEF Expected
<1>5. Took(c, FailedEvent) = took
  BY <1>2 DEF Took
<1>6. heard = [took EXCEPT !.expects = took.expects + 1]
  BY <1>2, <1>3, <1>4, <1>5 DEF Hear
<1> HIDE DEF heard
<1>7. ~took.confused /\ took.at = "failed"
  BY <1>1 DEF ResponsesClients
<1>8. ~heard.confused /\ heard.at = "failed"
  BY <1>1, <1>6, <1>7 DEF ResponsesClients
<1> QED
  BY <1>8 DEF heard

\* What was said and what the translators keep has its type, wherever the fragments went.
TranslatorsTyped == "translator" \in DOMAIN near /\ near.translator \in Translators /\ responses \in ResponsesStates
TypedInv == AnswerTyped /\ TranslatorsTyped

\* The invariant gives the types the runs check.
LEMMA TypesFollow == ASSUME TypedInv PROVE TypeOK
<1>1. /\ said.pieces \in Nat /\ said.finish \in Finishes \cup {"none", "several"}
      /\ said.usage \in Usages \cup {0}
      /\ said.pieces <= MaxPieces /\ frame \in Nat /\ phase \in {"open", "done", "broken"}
  BY DEF TypedInv, AnswerTyped, Answers
<1>2. near.translator \in Translators /\ responses \in ResponsesStates
  BY DEF TypedInv, TranslatorsTyped
<1>3. near.translator.index \in Nat /\ DOMAIN near.translator.tools \subseteq Nat
  BY <1>2, ToolBlocksTell DEF Translators
<1>4. responses.sequence \in Nat
  BY <1>2 DEF ResponsesStates
<1>5. said.pieces \in 0 .. MaxPieces
  BY <1>1, StreamAssumption DEF StreamAssumption
<1> QED
  BY <1>1, <1>3, <1>4, <1>5 DEF TypeOK

\* At the end each client is told what the provider said of the answer.
LEMMA EndOfStreamFollows == ASSUME StreamsInv, TypeOK, StreamAssumption, End PROVE StreamsInv'
<1> DEFINE last == CompletedEvent(responses, near.account)
           g == far.gateway
           taken == Take(g, Nothing, FinishOf(last), near.account)
           relayed == Relay(far, last)
<1>1. /\ phase = "open" /\ phase' = "done" /\ chat' = [chat EXCEPT !.at = "complete"]
      /\ near' = Ended(near) /\ responses' = Completed(responses)
      /\ client' = Hear(client, last) /\ far' = [relayed EXCEPT !.gateway = Ended(relayed.gateway)]
      /\ said' = said /\ frame' = frame
  BY DEF End
<1>2. AnswerTyped /\ ClientsAreWhereTheyShould /\ GatewayKnowsTheEnd /\ ChatFollows
  BY <1>1 DEF StreamsInv
<1>3. /\ near \in Gateways /\ FollowsAnthropic(near.translator, near.reader)
      /\ FollowsResponses(responses, client) /\ FollowsRelay(far, DOMAIN responses.items)
      /\ near.translator.started = responses.started
  BY <1>2 DEF ClientsAreWhereTheyShould
<1>4. /\ near.account = said.usage /\ near.account \in Nat
      /\ said.finish # "several" => near.translator.stop_reason = StopReason(said.finish)
  BY <1>2, <1>3 DEF GatewayKnowsTheEnd, Gateways
<1>5. near'.translator = near.translator
      /\ near'.reader = Read(near.reader, FinishEvents(near.translator, near.account))
  BY <1>1, <1>3 DEF Ended, Gateways
<1>6. near.translator.started =>
        /\ ~near'.reader.confused /\ near'.reader.at = "complete" /\ near'.reader.usage = said.usage
        /\ said.finish # "several" => near'.reader.stop_reason = StopReason(said.finish)
  BY <1>3, <1>4, <1>5, EndFollows
<1>7. near.translator.started =>
        ~client'.confused /\ client'.at = "complete" /\ client'.usage = said.usage
  <2>1. client' = Hear(client, CompletedEvent(responses, near.account))
    BY <1>1
  <2> SUFFICES ASSUME near.translator.started
               PROVE  ~client'.confused /\ client'.at = "complete" /\ client'.usage = said.usage
    OBVIOUS
  <2> DEFINE heard == Hear(client, CompletedEvent(responses, near.account))
  <2>2. responses.started /\ FollowsResponses(responses, client) /\ near.account \in Nat
    BY <1>3, <1>4
  <2>3. ~heard.confused /\ heard.at = "complete" /\ heard.usage = near.account
    BY <2>2, CompletedFollows
  <2> HIDE DEF heard
  <2>4. client' = heard
    BY <2>1 DEF heard
  <2> QED
    BY <1>4, <2>3, <2>4
<1> HIDE DEF last
<1>8. ~far'.gateway.reader.confused /\ far'.gateway.reader.at = "complete" /\ far'.gateway.reader.usage = said.usage
  <2>1. last.type = "response.completed" /\ last.usage = near.account
    BY DEF last, CompletedEvent
  <2>2. g \in Gateways /\ FollowsAnthropic(g.translator, g.reader) /\ g.account = 0
    BY <1>3 DEF FollowsRelay, Relays
  <2>3. Nothing \in Pieces /\ Nothing.kind = "none"
    BY PayloadTells DEF Nothing
  <2>4. Announced(far.pending, last) = far.pending
    BY <2>1 DEF Announced
  <2>5. relayed = [pending |-> far.pending, gateway |-> taken]
    BY <2>1, <2>4 DEF Relay
  <2> HIDE DEF g
  <2>6. /\ taken \in Gateways /\ FollowsAnthropic(taken.translator, taken.reader) /\ taken.translator.started
        /\ taken.account = Counted(g.account, near.account)
    BY <1>4, <2>2, <2>3, GatewayFollows
  <2>7. taken.account = near.account
    BY <2>2, <2>6, CountedTells
  <2> HIDE DEF taken, relayed
  <2>8. far'.gateway = Ended(taken)
    BY <1>1, <2>5
  <2>9. far'.gateway.reader = Read(taken.reader, FinishEvents(taken.translator, taken.account))
    BY <2>6, <2>8 DEF Ended, Gateways
  <2> QED
    BY <1>4, <2>6, <2>7, <2>9, EndFollows
<1>9. chat'.at = "complete" /\ chat'.usage = said.usage
  BY <1>1, <1>2 DEF ChatFollows
<1>10. TypeOK'
  <2>2. responses'.sequence \in Nat
    <3>1. responses \in ResponsesStates /\ ~responses.completed
      BY <1>3 DEF FollowsResponses
    <3>2. responses' = [responses EXCEPT !.completed = TRUE, !.sequence = responses.sequence + 1]
      BY <1>1, <3>1 DEF Completed
    <3> QED
      BY <3>1, <3>2 DEF ResponsesStates
  <2> QED
    BY <1>1, <1>5, <2>2 DEF TypeOK
<1>11. ClientsFollow'
  BY <1>5, <1>6, <1>7, <1>8 DEF ClientsFollow
<1>12. EndIsHeard'
  BY <1>1, <1>5, <1>6, <1>7, <1>8, <1>9 DEF EndIsHeard
<1>13. AnswerTyped'
  BY <1>1, <1>2 DEF AnswerTyped
<1> QED
  BY <1>1, <1>10, <1>11, <1>12, <1>13 DEF StreamsInv

\* When the provider breaks off, each client takes the answer for failed.
LEMMA BreakFollows == ASSUME StreamsInv, TypeOK, StreamAssumption, Break PROVE StreamsInv'
<1>1. /\ phase = "open" /\ phase' = "broken" /\ chat' = [chat EXCEPT !.at = "failed"]
      /\ near' = Failed(near) /\ responses' = responses
      /\ client' = Hear(client, FailedEvent) /\ far' = [far EXCEPT !.gateway = Failed(far.gateway)]
      /\ said' = said /\ frame' = frame
  BY DEF Break
<1>2. AnswerTyped /\ ClientsAreWhereTheyShould /\ ChatFollows
  BY <1>1 DEF StreamsInv
<1>3. /\ near \in Gateways /\ FollowsAnthropic(near.translator, near.reader)
      /\ FollowsResponses(responses, client) /\ FollowsRelay(far, DOMAIN responses.items)
  BY <1>2 DEF ClientsAreWhereTheyShould
<1>4. near'.translator = near.translator /\ near'.reader = Read(near.reader, FailureEvents)
  BY <1>1, <1>3 DEF Failed, Gateways
<1>5. ~near'.reader.confused /\ near'.reader.at = "failed"
  BY <1>3, <1>4, FailureFollows
<1>6. ~client'.confused /\ client'.at = "failed"
  BY <1>1, <1>3, FailedFollows
<1>7. ~far'.gateway.reader.confused /\ far'.gateway.reader.at = "failed"
  <2>1. far \in Relays /\ far.gateway \in Gateways /\ FollowsAnthropic(far.gateway.translator, far.gateway.reader)
    BY <1>3 DEF FollowsRelay, Relays
  <2>2. far'.gateway = Failed(far.gateway)
    BY <1>1, <2>1 DEF Relays
  <2>3. far'.gateway.reader = Read(far.gateway.reader, FailureEvents)
    BY <2>1, <2>2 DEF Failed, Gateways
  <2> QED
    BY <2>1, <2>3, FailureFollows
<1>8. chat'.at = "failed"
  BY <1>1, <1>2 DEF ChatFollows
<1>9. TypeOK'
  BY <1>1, <1>4 DEF TypeOK
<1>10. ClientsFollow'
  BY <1>5, <1>6, <1>7 DEF ClientsFollow
<1>11. EndIsHeard'
  BY <1>1, <1>5, <1>6, <1>7, <1>8 DEF EndIsHeard
<1>12. AnswerTyped'
  BY <1>1, <1>2 DEF AnswerTyped
<1> QED
  BY <1>1, <1>9, <1>10, <1>11, <1>12 DEF StreamsInv

\* Everyone stays in step, as long as no fragment goes astray.
LEMMA StreamsStep == ASSUME StreamsInv, TypeOK, [Next]_vars, ~said'.astray PROVE StreamsInv'
<1> USE StreamAssumption
<1>1. CASE Think
  BY <1>1, ThinkFollows
<1>2. CASE Speak
  BY <1>2, SpeakFollows
<1>3. CASE Fragment
  BY <1>3, FragmentFollows
<1>4. CASE Ping \/ Finish \/ Tell
  BY <1>4, QuietFollows
<1>5. CASE End
  BY <1>5, EndOfStreamFollows
<1>6. CASE Break
  BY <1>6, BreakFollows
<1>7. CASE UNCHANGED vars
  BY <1>7 DEF vars, StreamsInv, AnswerTyped, ClientsAreWhereTheyShould, GatewayKnowsTheEnd, ChatFollows,
              CallsHaveBlocks, IsOpen, TypeOK, ClientsFollow, EndIsHeard
<1> QED
  BY <1>1, <1>2, <1>3, <1>4, <1>5, <1>6, <1>7 DEF Next

\* A translator takes any payload to a state of its type, known call or not.
LEMMA AfterTyped ==
  ASSUME NEW s \in Translators, NEW d \in Pieces, NEW finish
  PROVE  Finishing(After(s, d), finish) \in Translators
<1> DEFINE block == BlockOf(s, d)
           index == IF Known(s, d) THEN s.index ELSE s.index + 1
           tools == IF d.kind = "tool_use" THEN WithEntry(s.tools, d.key, block) ELSE s.tools
           tool == IF d.kind = "tool_use" THEN d.key ELSE NoKey
           opened == Opened(s, d)
           base == IF d.kind = "none" THEN s ELSE opened
           after == After(s, d)
           reason == StopReason(finish)
<1>1. s.index \in Nat /\ s.tools \in ToolBlocks /\ d.key \in Nat /\ d.name \in Nat /\ d.kind \in BlockKinds \cup {"none"}
  BY DEF Translators, Pieces
<1>2. block \in [index : Nat, name : Nat]
  <2>1. CASE Known(s, d)
    <3> DEFINE was == s.tools[d.key]
               name == IF was.name = 0 THEN d.name ELSE was.name
    <3>1. was \in [index : Nat, name : Nat]
      BY <1>1, <2>1, ToolBlocksTell DEF Known
    <3>2. block = [was EXCEPT !.name = name]
      BY <2>1 DEF BlockOf
    <3>3. name \in Nat
      BY <1>1, <3>1
    <3> HIDE DEF was, name, block
    <3> QED
      BY <3>1, <3>2, <3>3
  <2>2. CASE ~Known(s, d)
    BY <1>1, <2>2 DEF BlockOf
  <2> QED
    BY <2>1, <2>2
<1> HIDE DEF block
<1>3. index \in Nat /\ block.index \in Int /\ tools \in ToolBlocks /\ tool \in Int
  <2>1. tools \in ToolBlocks
    BY <1>1, <1>2, ToolBlocksTell
  <2> QED
    BY <1>1, <1>2, <2>1 DEF NoKey
<1>4. d.kind # "none" => opened \in Translators
  <2>1. CASE StaysOpen(s, d)
    BY <2>1 DEF Opened
  <2>2. CASE ~StaysOpen(s, d) /\ d.kind # "none"
    <3>1. opened = [s EXCEPT !.open = d.kind, !.open_index = block.index, !.index = index,
                             !.open_tool = tool, !.tools = tools]
      BY <2>2 DEF Opened, block
    <3> HIDE DEF opened, index, tools, tool
    <3> QED
      BY <1>1, <1>3, <2>2, <3>1 DEF Translators
  <2> QED
    BY <2>1, <2>2
<1> HIDE DEF opened
<1>5. base \in Translators
  BY <1>4
<1>6. after = [base EXCEPT !.started = TRUE]
  BY DEF After, opened
<1> HIDE DEF base, after
<1>7. after \in Translators
  BY <1>5, <1>6 DEF Translators
<1>8. reason \in StopReasons
  BY DEF StopReason, StopReasons
<1> HIDE DEF reason
<1>9. Finishing(after, finish) \in Translators
  BY <1>7, <1>8 DEF Finishing, Translators, reason
<1> QED
  BY <1>9 DEF after

\* Whatever a chunk holds, the translators keep to their types.
LEMMA ChunkTyped ==
  ASSUME TranslatorsTyped, NEW d \in Pieces, NEW finish, NEW usage, Chunk(d, finish, usage)
  PROVE  TranslatorsTyped' /\ phase' = phase
<1>1. /\ near' = Take(near, d, finish, usage) /\ responses' = Translated(responses, d) /\ phase' = phase
      /\ near.translator \in Translators /\ responses \in ResponsesStates
  BY DEF Chunk, TranslatorsTyped
<1>2. "translator" \in DOMAIN near' /\ near'.translator = Finishing(After(near.translator, d), finish)
  BY <1>1 DEF Take
<1>3. near'.translator \in Translators
  BY <1>1, <1>2, AfterTyped
<1>4. responses' \in ResponsesStates
  BY <1>1, TranslatedTells
<1> QED
  BY <1>1, <1>2, <1>3, <1>4 DEF TranslatorsTyped

\* A fragment keeps to the types, wherever it goes, and what went astray stays so.
LEMMA FragmentTyped ==
  ASSUME TypedInv, StreamAssumption, Fragment PROVE TypedInv' /\ (said.astray => said'.astray)
<1>1. /\ frame \in Nat /\ said \in Answers /\ said.pieces \in Nat /\ Calls \subseteq Nat /\ MaxPieces \in Nat
      /\ phase \in {"open", "done", "broken"} /\ TranslatorsTyped
  BY DEF TypedInv, AnswerTyped, Answers, StreamAssumption
<1>2. PICK call \in Calls, position \in {0, frame}, piece \in {0, said.pieces + 1} :
        \E label \in Labels(call, position) :
          /\ Open(call, position, label, piece) \/ Argue(call, position, label, piece)
          /\ frame' = position + 1
  BY DEF Fragment
<1>3. PICK label \in Labels(call, position) :
        /\ Open(call, position, label, piece) \/ Argue(call, position, label, piece)
        /\ frame' = position + 1
  BY <1>2
<1>4. said.pieces < MaxPieces /\ position \in Nat /\ piece \in Nat /\ call \in Nat
  BY <1>1 DEF Fragment
<1>5. FragmentKey(label, position) \in Nat /\ NameOf(call) \in Nat /\ "tool_use" \in BlockKinds
  BY <1>4, LabelsTell DEF NameOf, BlockKinds
<1>6. said' \in Answers /\ said'.pieces = said.pieces + 1 /\ (said.astray => said'.astray)
  <2>1. CASE Open(call, position, label, piece)
    BY <1>1, <1>4, <2>1, OpenSays
  <2>2. CASE Argue(call, position, label, piece)
    BY <1>1, <1>4, <2>2, ArgueSays
  <2> QED
    BY <1>3, <2>1, <2>2
<1>7. TranslatorsTyped' /\ phase' = phase
  <2>1. CASE Open(call, position, label, piece)
    <3> DEFINE d == Payload("tool_use", FragmentKey(label, position), NameOf(call), piece)
    <3>1. d \in Pieces /\ Chunk(d, "none", 0)
      BY <1>4, <1>5, <2>1, PayloadTells DEF Open
    <3> HIDE DEF d
    <3> QED
      BY <1>1, <3>1, ChunkTyped
  <2>2. CASE Argue(call, position, label, piece)
    <3> DEFINE d == Payload("tool_use", FragmentKey(label, position), 0, piece)
    <3>1. d \in Pieces /\ Chunk(d, "none", 0)
      BY <1>4, <1>5, <2>2, PayloadTells DEF Argue
    <3> HIDE DEF d
    <3> QED
      BY <1>1, <3>1, ChunkTyped
  <2> QED
    BY <1>3, <2>1, <2>2
<1>8. said'.pieces <= MaxPieces /\ frame' \in Nat
  BY <1>1, <1>3, <1>4, <1>6
<1> QED
  BY <1>1, <1>6, <1>7, <1>8 DEF TypedInv, AnswerTyped

\* So does a step that puts no fragment anywhere.
LEMMA PlainTyped ==
  ASSUME TypedInv, StreamAssumption, Think \/ Speak \/ Ping \/ Finish \/ Tell
  PROVE  TypedInv' /\ said'.astray = said.astray
<1>1. /\ frame \in Nat /\ said \in Answers /\ said.pieces \in Nat /\ MaxPieces \in Nat
      /\ said.pieces <= MaxPieces /\ phase \in {"open", "done", "broken"} /\ TranslatorsTyped
  BY DEF TypedInv, AnswerTyped, Answers, StreamAssumption
<1>2. SUFFICES /\ said' \in Answers /\ said'.pieces <= MaxPieces /\ said'.astray = said.astray /\ frame' = 0
               /\ \E d \in Pieces : \E finish, usage : Chunk(d, finish, usage)
  <2>1. PICK d \in Pieces : \E finish, usage : Chunk(d, finish, usage)
    BY <1>2
  <2>2. TranslatorsTyped' /\ phase' = phase
    BY <1>1, <2>1, ChunkTyped
  <2> QED
    BY <1>1, <1>2, <2>2 DEF TypedInv, AnswerTyped
<1>3. Nothing \in Pieces
  BY PayloadTells DEF Nothing
<1>4. "thinking" \in BlockKinds /\ "text" \in BlockKinds
  BY DEF BlockKinds
<1> DEFINE piece == said.pieces + 1
<1>5. CASE Think
  <2> DEFINE d == Payload("thinking", 0, 0, piece)
             next == Saying("thinking")
             thinking == Append(next.thinking, piece)
  <2>0. d \in Pieces
    BY <1>1, <1>4, PayloadTells
  <2>1. Chunk(d, "none", 0) /\ said' = [next EXCEPT !.thinking = thinking] /\ frame' = 0 /\ said.pieces < MaxPieces
    BY <1>5 DEF Think
  <2>2. next \in Answers /\ next.pieces = piece /\ next.astray = said.astray
    BY <1>1, <1>4, SayingTells
  <2> HIDE DEF next, d
  <2>3. thinking \in Seq(Nat) /\ piece <= MaxPieces
    BY <1>1, <2>1, <2>2 DEF Answers
  <2> HIDE DEF thinking, piece
  <2>4. said' \in Answers /\ said'.pieces = piece /\ said'.astray = said.astray
    BY <2>1, <2>2, <2>3 DEF Answers
  <2> QED
    BY <2>0, <2>1, <2>3, <2>4
<1>6. CASE Speak
  <2> DEFINE d == Payload("text", 0, 0, piece)
             next == Saying("text")
             text == Append(next.text, piece)
  <2>0. d \in Pieces
    BY <1>1, <1>4, PayloadTells
  <2>1. Chunk(d, "none", 0) /\ said' = [next EXCEPT !.text = text] /\ frame' = 0 /\ said.pieces < MaxPieces
    BY <1>6 DEF Speak
  <2>2. next \in Answers /\ next.pieces = piece /\ next.astray = said.astray
    BY <1>1, <1>4, SayingTells
  <2> HIDE DEF next, d
  <2>3. text \in Seq(Nat) /\ piece <= MaxPieces
    BY <1>1, <2>1, <2>2 DEF Answers
  <2> HIDE DEF text, piece
  <2>4. said' \in Answers /\ said'.pieces = piece /\ said'.astray = said.astray
    BY <2>1, <2>2, <2>3 DEF Answers
  <2> QED
    BY <2>0, <2>1, <2>3, <2>4
<1>7. CASE Ping
  BY <1>1, <1>3, <1>7 DEF Ping
<1>8. CASE Finish
  <2>1. PICK finish \in Finishes :
          Chunk(Nothing, finish, 0) /\ said' = [said EXCEPT !.finish = StatedSoFar(said.finish, finish)] /\ frame' = 0
    BY <1>8 DEF Finish
  <2> DEFINE stated == StatedSoFar(said.finish, finish)
  <2>2. stated \in Finishes \cup {"none", "several"} /\ said' = [said EXCEPT !.finish = stated]
    BY <2>1 DEF StatedSoFar
  <2> HIDE DEF stated
  <2>3. said' \in Answers /\ said'.pieces = said.pieces /\ said'.astray = said.astray
    BY <1>1, <2>2 DEF Answers
  <2> QED
    BY <1>1, <1>3, <2>1, <2>3
<1>9. CASE Tell
  <2>1. PICK usage \in Usages : Chunk(Nothing, "none", usage) /\ said' = [said EXCEPT !.usage = usage] /\ frame' = 0
    BY <1>9 DEF Tell
  <2>2. said' \in Answers /\ said'.pieces = said.pieces /\ said'.astray = said.astray
    BY <1>1, <2>1 DEF Answers
  <2> QED
    BY <1>1, <1>3, <2>1, <2>2
<1> QED
  BY <1>5, <1>6, <1>7, <1>8, <1>9

\* Every step keeps to the types.
LEMMA TypedStep == ASSUME TypedInv, [Next]_vars PROVE TypedInv' /\ (said.astray => said'.astray)
<1> USE StreamAssumption
<1>1. AnswerTyped /\ TranslatorsTyped
  BY DEF TypedInv
<1>2. CASE Think \/ Speak \/ Ping \/ Finish \/ Tell
  BY <1>2, PlainTyped
<1>3. CASE Fragment
  BY <1>3, FragmentTyped
<1>4. CASE End
  <2>1. near' = Ended(near) /\ responses' = Completed(responses) /\ said' = said /\ frame' = frame /\ phase' = "done"
    BY <1>4 DEF End
  <2>2. "translator" \in DOMAIN near' /\ near'.translator = near.translator
    BY <1>1, <2>1 DEF Ended, TranslatorsTyped
  <2>3. responses' \in ResponsesStates
    <3>1. responses \in ResponsesStates /\ responses.sequence + 1 \in Nat
      BY <1>1 DEF TranslatorsTyped, ResponsesStates
    <3>2. \A n \in Nat : [responses EXCEPT !.completed = TRUE, !.sequence = n] \in ResponsesStates
      BY <3>1 DEF ResponsesStates
    <3> QED
      BY <2>1, <3>1, <3>2 DEF Completed
  <2> QED
    BY <1>1, <2>1, <2>2, <2>3 DEF TypedInv, AnswerTyped, TranslatorsTyped
<1>5. CASE Break
  <2>1. near' = Failed(near) /\ responses' = responses /\ said' = said /\ frame' = frame /\ phase' = "broken"
    BY <1>5 DEF Break
  <2>2. "translator" \in DOMAIN near' /\ near'.translator = near.translator
    BY <1>1, <2>1 DEF Failed, TranslatorsTyped
  <2> QED
    BY <1>1, <2>1, <2>2 DEF TypedInv, AnswerTyped, TranslatorsTyped
<1>6. CASE UNCHANGED vars
  BY <1>1, <1>6 DEF vars, TypedInv, AnswerTyped, TranslatorsTyped
<1> QED
  BY <1>2, <1>3, <1>4, <1>5, <1>6 DEF Next

\* Everything has its type, and unless a fragment went astray everyone is in step.
FollowedInv == TypedInv /\ (~said.astray => StreamsInv)

\* The stream begins so.
LEMMA FollowedStarts == Init => FollowedInv
<1> SUFFICES ASSUME Init PROVE FollowedInv
  OBVIOUS
<1>1. StreamsInv /\ phase = "open"
  BY StreamsStart DEF Init
<1>2. AnswerTyped /\ ClientsAreWhereTheyShould
  BY <1>1 DEF StreamsInv
<1>3. TranslatorsTyped
  BY <1>2 DEF ClientsAreWhereTheyShould, Gateways, FollowsAnthropic, FollowsResponses, TranslatorsTyped
<1> QED
  BY <1>1, <1>2, <1>3 DEF FollowedInv, TypedInv

\* It stays so.
LEMMA FollowedStep == FollowedInv /\ [Next]_vars => FollowedInv'
<1> SUFFICES ASSUME FollowedInv, [Next]_vars PROVE FollowedInv'
  OBVIOUS
<1>1. TypedInv' /\ (said.astray => said'.astray) /\ TypeOK
  BY TypedStep, TypesFollow DEF FollowedInv
<1>2. ~said'.astray => StreamsInv'
  BY <1>1, StreamsStep DEF FollowedInv
<1> QED
  BY <1>1, <1>2 DEF FollowedInv

\* However the provider interleaves its thinking, its text and the fragments of its calls, with
\* their index or without, every client can place every event it is sent, and an answer that ended or
\* broke off is taken for just that by all of them: the Chat Completions client, the Anthropic
\* client, the Responses client, and the Anthropic client behind a second gateway
\* (anthropic/convert.ts, responses/convert.ts, responses-adapter.ts and the handlers' endings).  The
\* exception is a stream in which a fragment stated the index 0 out of first place in its frame
\* (Astray): openai-chat.ts:217 takes it for another call's.
THEOREM StreamsAreFollowed == Spec => []StreamIsFollowed
<1>1. FollowedInv => StreamIsFollowed
  <2> SUFFICES ASSUME FollowedInv PROVE StreamIsFollowed
    OBVIOUS
  <2>1. TypeOK
    BY TypesFollow DEF FollowedInv
  <2>2. ASSUME ~said.astray PROVE ClientsFollow /\ EndIsHeard
    <3>1. StreamsInv
      BY <2>2 DEF FollowedInv
    <3>2. CASE phase = "open"
      <4>1. ClientsAreWhereTheyShould
        BY <3>1, <3>2 DEF StreamsInv
      <4>2. ClientsFollow
        BY <4>1 DEF ClientsAreWhereTheyShould, FollowsAnthropic, FollowsResponses, FollowsRelay, ClientsFollow
      <4>3. EndIsHeard
        BY <3>2 DEF EndIsHeard
      <4> QED
        BY <4>2, <4>3
    <3>3. CASE phase # "open"
      BY <3>1, <3>3 DEF StreamsInv
    <3> QED
      BY <3>2, <3>3
  <2> QED
    BY <2>1, <2>2 DEF StreamIsFollowed
<1> QED
  BY <1>1, FollowedStarts, FollowedStep, PTL DEF Spec

----------------------------------------------------------------------------
(* What the clients of a stream assemble (Streams) *)

\* The blocks of one kind, in their order (BlocksOf).
Kept(blocks, kind) == Subsequence(blocks, {i \in DOMAIN blocks : blocks[i].kind = kind})

\* A block more is the last of its kind.
LEMMA KeptGrows ==
  ASSUME NEW blocks \in Seq(ReaderBlocks), NEW block \in ReaderBlocks, NEW kind
  PROVE  /\ Kept(blocks, kind) \in Seq(ReaderBlocks)
         /\ Kept(Append(blocks, block), kind)
              = IF block.kind = kind THEN Append(Kept(blocks, kind), block) ELSE Kept(blocks, kind)
<1> DEFINE m == Len(blocks)
           more == Append(blocks, block)
           K == {i \in DOMAIN blocks : blocks[i].kind = kind}
           L == {i \in DOMAIN more : more[i].kind = kind}
<1>1. /\ m \in Nat /\ DOMAIN blocks = 1 .. m /\ DOMAIN more = 1 .. m + 1 /\ more[m + 1] = block
      /\ \A i \in 1 .. m : more[i] = blocks[i]
  OBVIOUS
<1>2. L = IF block.kind = kind THEN K \cup {m + 1} ELSE K
  <2> HIDE DEF more, m
  <2>1. \A i : i \in 1 .. m + 1 <=> i \in 1 .. m \/ i = m + 1
    BY <1>1
  <2> QED
    BY <1>1, <2>1
<1>3. K \in SUBSET DOMAIN blocks
  OBVIOUS
<1>4. Kept(blocks, kind) = Subsequence(blocks, K) /\ Kept(more, kind) = Subsequence(more, L)
  BY DEF Kept
<1> HIDE DEF K, L
<1>5. Subsequence(blocks, K) \in Seq(ReaderBlocks)
  BY <1>3, SubsequenceTells
<1>6. Subsequence(more, K) = Subsequence(blocks, K)
      /\ Subsequence(more, K \cup {m + 1}) = Append(Subsequence(blocks, K), block)
  BY ZenonT(60), <1>3, SubsequenceGrows
<1> QED
  BY <1>2, <1>4, <1>5, <1>6

\* A block changes in its place among those of its kind, and in no other.
LEMMA KeptChanges ==
  ASSUME NEW blocks \in Seq(ReaderBlocks), NEW i \in DOMAIN blocks, NEW block \in ReaderBlocks,
         block.kind = blocks[i].kind
  PROVE  LET more == Altered(blocks, i, block)
             kind == block.kind
         IN  /\ \A other : other # kind => Kept(more, other) = Kept(blocks, other)
             /\ \E n \in DOMAIN Kept(blocks, kind) :
                  /\ Kept(more, kind) = Altered(Kept(blocks, kind), n, block)
                  /\ Kept(blocks, kind)[n] = blocks[i]
                  /\ (\A j \in DOMAIN blocks : j > i => blocks[j].kind # kind) => n = Len(Kept(blocks, kind))
<1> DEFINE more == Altered(blocks, i, block)
           kind == block.kind
           Those(k) == {j \in DOMAIN blocks : blocks[j].kind = k}
           K == Those(kind)
           r == Subsequence(blocks, K)
<1>1. DOMAIN more = DOMAIN blocks /\ DOMAIN blocks = 1 .. Len(blocks) /\ Len(blocks) \in Nat
      /\ \A j \in DOMAIN blocks : more[j] = IF j = i THEN block ELSE blocks[j]
  BY DEF Altered
<1>2. \A k : Kept(blocks, k) = Subsequence(blocks, Those(k)) /\ Kept(more, k) = Subsequence(more, Those(k))
  <2> SUFFICES ASSUME NEW k
               PROVE  Kept(blocks, k) = Subsequence(blocks, Those(k)) /\ Kept(more, k) = Subsequence(more, Those(k))
    OBVIOUS
  <2>1. Kept(more, k) = Subsequence(more, {j \in DOMAIN more : more[j].kind = k})
    BY DEF Kept
  <2> HIDE DEF more
  <2>2. {j \in DOMAIN more : more[j].kind = k} = Those(k)
    BY <1>1
  <2> QED
    BY <2>1, <2>2 DEF Kept
<1>3. \A k : Those(k) \in SUBSET DOMAIN blocks
  OBVIOUS
<1>4. ASSUME NEW other, other # kind PROVE Kept(more, other) = Kept(blocks, other)
  <2>1. i \notin Those(other)
    BY <1>4
  <2>2. Those(other) \in SUBSET DOMAIN blocks
    BY <1>3
  <2> HIDE DEF Those
  <2>3. Subsequence(more, Those(other)) = Subsequence(blocks, Those(other))
    BY <2>1, <2>2, SubsequenceChanges
  <2> QED
    BY <1>2, <2>3
<1>5. i \in K /\ \A j \in K : blocks[j].kind = kind
  OBVIOUS
<1> HIDE DEF Those, K
<1>6. K \in SUBSET DOMAIN blocks
  BY <1>3 DEF K
<1>7. /\ r \in Seq(ReaderBlocks) /\ Len(r) = Cardinality(K) /\ Cardinality(K) \in Nat
      /\ \A n \in 1 .. Cardinality(K) : Nth(K, n) \in K /\ r[n] = blocks[Nth(K, n)]
      /\ \A n, j \in 1 .. Cardinality(K) : n < j => Nth(K, n) < Nth(K, j)
      /\ \A k \in K : \E n \in 1 .. Cardinality(K) : Nth(K, n) = k
  BY <1>6, SubsequenceTells
<1>8. PICK n \in 1 .. Cardinality(K) : Nth(K, n) = i
  BY <1>5, <1>7
<1>9. Subsequence(more, K) = Altered(r, n, block)
  <2>1. \A k \in 1 .. Cardinality(K) : Nth(K, k) = i => Subsequence(more, K) = Altered(Subsequence(blocks, K), k, block)
    BY <1>6, SubsequenceChanges
  <2> QED
    BY <1>8, <2>1
<1>10. r[n] = blocks[i] /\ n \in DOMAIN r
  BY <1>7, <1>8
<1>11. ASSUME \A j \in DOMAIN blocks : j > i => blocks[j].kind # kind PROVE n = Len(r)
  <2> SUFFICES ASSUME n # Len(r) PROVE FALSE
    OBVIOUS
  <2> DEFINE c == Cardinality(K)
             j == Nth(K, c)
  <2>1. c \in 1 .. Cardinality(K) /\ n < c
    BY <1>7, <1>8
  <2>2. j \in K /\ i < j
    BY <1>7, <1>8, <2>1
  <2>3. j \in DOMAIN blocks /\ j > i
    BY <1>1, <1>6, <2>2
  <2> HIDE DEF j
  <2> QED
    BY <1>5, <1>11, <2>2, <2>3
<1>12. Kept(blocks, kind) = r /\ Kept(more, kind) = Subsequence(more, K)
  BY <1>2 DEF K
<1> HIDE DEF r, more
<1>13. \E k \in DOMAIN Kept(blocks, kind) :
         /\ Kept(more, kind) = Altered(Kept(blocks, kind), k, block)
         /\ Kept(blocks, kind)[k] = blocks[i]
         /\ (\A j \in DOMAIN blocks : j > i => blocks[j].kind # kind) => k = Len(Kept(blocks, kind))
  BY <1>9, <1>10, <1>11, <1>12
<1> QED
  BY <1>4, <1>13 DEF more

\* The text of blocks, and of one block more.
LEMMA TextTells ==
  ASSUME NEW blocks \in Seq(ReaderBlocks)
  PROVE  /\ TextOf(<<>>) = <<>> /\ TextOf(blocks) \in Seq(Nat)
         /\ \A block \in ReaderBlocks : TextOf(Append(blocks, block)) = TextOf(blocks) \o block.text
<1> DEFINE Texts(s) == [i \in DOMAIN s |-> s[i].text]
<1>1. \A s : TextOf(s) = Joint(Texts(s))
  BY DEF TextOf
<1>2. ASSUME NEW s \in Seq(ReaderBlocks)
      PROVE  Texts(s) \in Seq(Seq(Nat)) /\ Len(Texts(s)) = Len(s) /\ \A i \in 1 .. Len(s) : Texts(s)[i] = s[i].text
  <2> DEFINE t == Texts(s)
             m == Len(s)
  <2>1. m \in Nat /\ t = [i \in 1 .. m |-> s[i].text] /\ \A i \in 1 .. m : s[i] \in ReaderBlocks
    OBVIOUS
  <2> HIDE DEF t, m
  <2>2. \A i \in 1 .. m : t[i] = s[i].text /\ t[i] \in Seq(Nat)
    BY <2>1 DEF ReaderBlocks
  <2>3. t \in Seq(Seq(Nat)) /\ Len(t) = m
    BY <2>1, <2>2
  <2> QED
    BY <2>2, <2>3 DEF t, m
<1>3. Texts(<<>>) = <<>>
  OBVIOUS
<1>4. ASSUME NEW block \in ReaderBlocks
      PROVE  Texts(Append(blocks, block)) = Append(Texts(blocks), block.text) /\ block.text \in Seq(Nat)
  <2> DEFINE more == Append(blocks, block)
             a == Texts(more)
             b == Append(Texts(blocks), block.text)
             m == Len(blocks)
  <2>1. block.text \in Seq(Nat)
    BY DEF ReaderBlocks
  <2>2. /\ more \in Seq(ReaderBlocks) /\ Len(more) = m + 1 /\ more[m + 1] = block /\ m \in Nat
        /\ \A i \in 1 .. m : more[i] = blocks[i]
    OBVIOUS
  <2> HIDE DEF Texts, more
  <2>3. a \in Seq(Seq(Nat)) /\ Len(a) = m + 1 /\ \A i \in 1 .. m + 1 : a[i] = more[i].text
    BY <1>2, <2>2
  <2>4. Texts(blocks) \in Seq(Seq(Nat)) /\ Len(Texts(blocks)) = m /\ \A i \in 1 .. m : Texts(blocks)[i] = blocks[i].text
    BY <1>2
  <2>5. b \in Seq(Seq(Nat)) /\ Len(b) = m + 1 /\ b[m + 1] = block.text /\ \A i \in 1 .. m : b[i] = blocks[i].text
    BY <2>1, <2>2, <2>4
  <2> HIDE DEF a, b, m
  <2>6. ASSUME NEW i \in 1 .. m + 1 PROVE a[i] = b[i]
    <3>1. CASE i = m + 1
      BY <2>2, <2>3, <2>5, <3>1
    <3>2. CASE i # m + 1
      <4>1. i \in 1 .. m
        BY <2>2, <3>2
      <4>2. a[i] = more[i].text /\ more[i] = blocks[i] /\ b[i] = blocks[i].text
        BY <2>2, <2>3, <2>5, <4>1
      <4> QED
        BY <4>2
    <3> QED
      BY <3>1, <3>2
  <2>7. a \in Seq(Seq(Nat)) /\ b \in Seq(Seq(Nat)) /\ Len(a) = m + 1 /\ Len(b) = m + 1
    BY <2>3, <2>5
  <2>8. a = b
    BY <2>6, <2>7, SequencesAgree
  <2> QED
    BY <2>1, <2>8 DEF a, b, more
<1> HIDE DEF Texts
<1>5. Joint(<<>>) = <<>> /\ \A s \in Seq(Seq(Nat)), t \in Seq(Nat) : Joint(s) \in Seq(Nat) /\ Joint(Append(s, t)) = Joint(s) \o t
  BY JointGrows
<1>6. TextOf(<<>>) = <<>>
  BY <1>1, <1>3, <1>5
<1>7. Texts(blocks) \in Seq(Seq(Nat))
  BY <1>2
<1>8. TextOf(blocks) \in Seq(Nat)
  BY <1>1, <1>5, <1>7
<1>9. ASSUME NEW block \in ReaderBlocks PROVE TextOf(Append(blocks, block)) = TextOf(blocks) \o block.text
  <2>1. Texts(Append(blocks, block)) = Append(Texts(blocks), block.text) /\ block.text \in Seq(Nat)
    BY <1>4
  <2>2. Joint(Append(Texts(blocks), block.text)) = Joint(Texts(blocks)) \o block.text
    BY <1>5, <1>7, <2>1
  <2> QED
    BY <1>1, <2>1, <2>2
<1> QED
  BY <1>6, <1>8, <1>9

\* A piece more at the end of the last block is a piece more at the end of the text.
LEMMA TextLengthens ==
  ASSUME NEW blocks \in Seq(ReaderBlocks), blocks # <<>>, NEW block \in ReaderBlocks, NEW piece \in Nat,
         block.text = Append(blocks[Len(blocks)].text, piece)
  PROVE  TextOf(Altered(blocks, Len(blocks), block)) = Append(TextOf(blocks), piece)
<1> DEFINE m == Len(blocks)
           was == blocks[m]
           more == Altered(blocks, m, block)
<1>1. PICK f \in Seq(ReaderBlocks) :
        /\ was \in ReaderBlocks /\ Append(f, was) = blocks /\ m \in Nat \ {0}
        /\ Len(f) = m - 1 /\ \A i \in 1 .. m - 1 : f[i] = blocks[i]
  BY LastApart
<1>2. more = Append(f, block)
  <2> DEFINE a == Append(f, block)
  <2>1. a \in Seq(ReaderBlocks) /\ Len(a) = m /\ a[m] = block /\ \A i \in 1 .. m - 1 : a[i] = blocks[i]
    BY <1>1
  <2>2. more \in Seq(ReaderBlocks) /\ Len(more) = m /\ more[m] = block /\ \A i \in 1 .. m - 1 : more[i] = blocks[i]
    BY <1>1 DEF Altered
  <2> HIDE DEF a, more, m
  <2>3. \A i \in 1 .. m : a[i] = more[i]
    BY <1>1, <2>1, <2>2
  <2>4. a = more
    BY <1>1, <2>1, <2>2, <2>3
  <2> QED
    BY <2>4 DEF a
<1> HIDE DEF more
<1>3. TextOf(f) \in Seq(Nat) /\ TextOf(Append(f, was)) = TextOf(f) \o was.text
      /\ TextOf(Append(f, block)) = TextOf(f) \o block.text
  BY <1>1, TextTells
<1>4. was.text \in Seq(Nat) /\ block.text = Append(was.text, piece)
  BY <1>1 DEF ReaderBlocks
<1> DEFINE t == TextOf(f)
           u == was.text
<1>5. TextOf(blocks) = t \o u /\ TextOf(more) = t \o Append(u, piece)
  BY <1>1, <1>2, <1>3, <1>4
<1>6. t \in Seq(Nat) /\ u \in Seq(Nat)
  BY <1>3, <1>4
<1> HIDE DEF t, u
<1>7. t \o Append(u, piece) = Append(t \o u, piece)
  BY SMTT(30), <1>6
<1> QED
  BY <1>5, <1>7 DEF more

\* The blocks say what the answer does.
Conveys(blocks, answer) ==
  /\ TextOf(Kept(blocks, "thinking")) = answer.thinking
  /\ TextOf(Kept(blocks, "text")) = answer.text
  /\ Bare(Kept(blocks, "tool_use")) = answer.calls

\* The next answer says one piece more: of a kind, for a call one that is new, or of a call there is.
Longer(text, piece) == IF piece = 0 THEN text ELSE Append(text, piece)

Gains(answer, next, kind, name, piece) ==
  /\ next.thinking = IF kind = "thinking" THEN Longer(answer.thinking, piece) ELSE answer.thinking
  /\ next.text = IF kind = "text" THEN Longer(answer.text, piece) ELSE answer.text
  /\ next.calls = IF kind = "tool_use" THEN Append(answer.calls, [name |-> name, text |-> Uttered(piece)])
                  ELSE answer.calls

Argues(answer, next, name, piece) ==
  /\ next.thinking = answer.thinking /\ next.text = answer.text
  /\ next.calls = [i \in DOMAIN answer.calls |->
                     IF answer.calls[i].name = name
                     THEN [answer.calls[i] EXCEPT !.text = Append(@, piece)] ELSE answer.calls[i]]

\* Calls are told apart by their names.
NamesDiffer(calls) == \A i, j \in DOMAIN calls : calls[i].name = calls[j].name => i = j

\* What is left of blocks, entry by entry.
LEMMA BareTells ==
  ASSUME NEW blocks \in Seq(ReaderBlocks)
  PROVE  /\ Bare(blocks) \in Seq(SaidCalls) /\ Len(Bare(blocks)) = Len(blocks) /\ DOMAIN Bare(blocks) = DOMAIN blocks
         /\ \A i \in DOMAIN blocks : Bare(blocks)[i] = [name |-> blocks[i].name, text |-> blocks[i].text]
<1> DEFINE b == Bare(blocks)
           m == Len(blocks)
           Of(i) == [name |-> blocks[i].name, text |-> blocks[i].text]
<1>1. m \in Nat /\ DOMAIN blocks = 1 .. m /\ \A i \in 1 .. m : blocks[i] \in ReaderBlocks
  OBVIOUS
<1>2. b = [i \in DOMAIN blocks |-> Of(i)]
  BY DEF Bare
<1>3. \A i \in 1 .. m : Of(i) \in SaidCalls
  BY <1>1 DEF ReaderBlocks, SaidCalls
<1> HIDE DEF b, m, Of
<1>4. b \in Seq(SaidCalls) /\ Len(b) = m /\ \A i \in 1 .. m : b[i] = Of(i)
  BY <1>1, <1>2, <1>3
<1> QED
  BY <1>1, <1>2, <1>4 DEF b, m, Of

\* A block more is a call more.
LEMMA BareGrows ==
  ASSUME NEW blocks \in Seq(ReaderBlocks), NEW kind \in BlockKinds, NEW name \in Nat, NEW text \in Seq(Nat)
  PROVE  Bare(Append(blocks, Block(kind, name, text))) = Append(Bare(blocks), [name |-> name, text |-> text])
<1> DEFINE m == Len(blocks)
           block == Block(kind, name, text)
           call == [name |-> name, text |-> text]
           more == Append(blocks, block)
           a == Bare(more)
           b == Append(Bare(blocks), call)
           Of(s, i) == [name |-> s[i].name, text |-> s[i].text]
<1>1. block \in ReaderBlocks /\ call \in SaidCalls /\ [name |-> block.name, text |-> block.text] = call
  BY DEF Block, ReaderBlocks, SaidCalls
<1> HIDE DEF block, call
<1>2. /\ more \in Seq(ReaderBlocks) /\ Len(more) = m + 1 /\ more[m + 1] = block /\ m \in Nat /\ m + 1 \in Nat
      /\ DOMAIN more = 1 .. m + 1 /\ DOMAIN blocks = 1 .. m
      /\ \A i \in 1 .. m : more[i] = blocks[i]
  BY <1>1
<1> HIDE DEF more
<1>3. a \in Seq(SaidCalls) /\ Len(a) = m + 1 /\ \A i \in 1 .. m + 1 : a[i] = Of(more, i)
  BY <1>2, BareTells
<1>4. Bare(blocks) \in Seq(SaidCalls) /\ Len(Bare(blocks)) = m /\ \A i \in 1 .. m : Bare(blocks)[i] = Of(blocks, i)
  BY <1>2, BareTells
<1>5. b \in Seq(SaidCalls) /\ Len(b) = m + 1 /\ b[m + 1] = call /\ \A i \in 1 .. m : b[i] = Of(blocks, i)
  <2> HIDE DEF Of
  <2> QED
    BY <1>1, <1>2, <1>4
<1> HIDE DEF a, b, m
<1>6. ASSUME NEW i \in 1 .. m + 1 PROVE a[i] = b[i]
  <2>1. CASE i = m + 1
    BY <1>1, <1>2, <1>3, <1>5, <2>1
  <2>2. CASE i # m + 1
    <3>1. i \in 1 .. m
      BY <1>2, <2>2
    <3> QED
      BY <1>2, <1>3, <1>5, <3>1
  <2> QED
    BY <2>1, <2>2
<1>7. a = b
  BY <1>2, <1>3, <1>5, <1>6
<1> QED
  BY <1>7 DEF a, b, more, block, call

\* A piece at the end of a text.
LEMMA LongerTells ==
  ASSUME NEW text \in Seq(Nat), NEW piece \in Nat
  PROVE  Uttered(piece) \in Seq(Nat) /\ Longer(text, piece) \in Seq(Nat) /\ text \o Uttered(piece) = Longer(text, piece)
<1>1. CASE piece = 0
  BY <1>1 DEF Uttered, Longer
<1>2. CASE piece # 0
  <2>1. Uttered(piece) = <<piece>> /\ Longer(text, piece) = Append(text, piece)
    BY <1>2 DEF Uttered, Longer
  <2> QED
    BY <2>1
<1> QED
  BY <1>1, <1>2

\* A new block says what the answer gains.
LEMMA ConveysGrows ==
  ASSUME NEW blocks \in Seq(ReaderBlocks), NEW answer, NEW next, NEW kind \in BlockKinds, NEW name \in Nat,
         NEW piece \in Nat, Conveys(blocks, answer), Gains(answer, next, kind, name, piece)
  PROVE  Conveys(Append(blocks, Block(kind, name, Uttered(piece))), next)
<1> DEFINE text == Uttered(piece)
           block == Block(kind, name, text)
           more == Append(blocks, block)
<1>1. text \in Seq(Nat)
  BY DEF Uttered
<1>2. block \in ReaderBlocks /\ block.kind = kind /\ block.text = text
  BY <1>1 DEF Block, ReaderBlocks
<1> HIDE DEF block, text
<1>3. \A k : /\ Kept(blocks, k) \in Seq(ReaderBlocks)
             /\ Kept(more, k) = IF kind = k THEN Append(Kept(blocks, k), block) ELSE Kept(blocks, k)
  BY <1>2, KeptGrows
<1> HIDE DEF more
<1>4. \A k : TextOf(Kept(more, k)) = IF kind = k THEN Longer(TextOf(Kept(blocks, k)), piece) ELSE TextOf(Kept(blocks, k))
  <2> SUFFICES ASSUME NEW k
               PROVE  TextOf(Kept(more, k)) = IF kind = k THEN Longer(TextOf(Kept(blocks, k)), piece)
                                              ELSE TextOf(Kept(blocks, k))
    OBVIOUS
  <2> DEFINE r == Kept(blocks, k)
  <2>1. r \in Seq(ReaderBlocks) /\ Kept(more, k) = IF kind = k THEN Append(r, block) ELSE r
    BY <1>3
  <2> HIDE DEF r
  <2>2. TextOf(r) \in Seq(Nat) /\ TextOf(Append(r, block)) = TextOf(r) \o block.text
    BY <1>2, <2>1, TextTells
  <2>3. TextOf(r) \o text = Longer(TextOf(r), piece)
    BY <2>2, LongerTells DEF text
  <2>4. TextOf(Append(r, block)) = Longer(TextOf(r), piece)
    BY <1>2, <2>2, <2>3
  <2>5. TextOf(Kept(more, k)) = IF kind = k THEN Longer(TextOf(r), piece) ELSE TextOf(r)
    BY <2>1, <2>4
  <2> QED
    BY <2>5 DEF r
<1>5. Bare(Kept(more, "tool_use")) = IF kind = "tool_use"
                                     THEN Append(Bare(Kept(blocks, "tool_use")), [name |-> name, text |-> text])
                                     ELSE Bare(Kept(blocks, "tool_use"))
  <2> DEFINE r == Kept(blocks, "tool_use")
             call == [name |-> name, text |-> text]
  <2>1. r \in Seq(ReaderBlocks) /\ Kept(more, "tool_use") = IF kind = "tool_use" THEN Append(r, block) ELSE r
    BY <1>3
  <2> HIDE DEF r
  <2>2. Bare(Append(r, Block(kind, name, text))) = Append(Bare(r), call)
    BY <1>1, <2>1, BareGrows
  <2>3. Bare(Append(r, block)) = Append(Bare(r), call)
    BY <2>2 DEF block
  <2> HIDE DEF call
  <2>4. Bare(Kept(more, "tool_use")) = IF kind = "tool_use" THEN Append(Bare(r), call) ELSE Bare(r)
    BY <2>1, <2>3
  <2> QED
    BY <2>4 DEF r, call
<1>6. Conveys(more, next)
  BY <1>4, <1>5 DEF Conveys, Gains, text
<1> QED
  BY <1>6 DEF more, block, text

\* What a block of thinking or of text says more, the answer gains, if it is the last of its kind.
LEMMA ConveysLengthens ==
  ASSUME NEW blocks \in Seq(ReaderBlocks), NEW answer, NEW next, NEW i \in DOMAIN blocks,
         blocks[i].kind \in {"thinking", "text"}, \A j \in DOMAIN blocks : j > i => blocks[j].kind # blocks[i].kind,
         NEW piece \in Nat, Conveys(blocks, answer), Gains(answer, next, blocks[i].kind, 0, piece)
  PROVE  Conveys(Lengthened(blocks, i, piece), next)
<1> DEFINE was == blocks[i]
           kind == was.kind
           block == [was EXCEPT !.text = Append(was.text, piece)]
           more == Altered(blocks, i, block)
<1>1. was \in ReaderBlocks /\ was.text \in Seq(Nat)
  <2>1. was \in ReaderBlocks
    OBVIOUS
  <2> HIDE DEF was
  <2> QED
    BY <2>1 DEF ReaderBlocks
<1>2. block \in ReaderBlocks /\ block.kind = kind /\ block.text = Append(was.text, piece)
  <2> DEFINE text == Append(was.text, piece)
  <2>1. text \in Seq(Nat)
    BY <1>1
  <2> HIDE DEF text, was
  <2>2. [was EXCEPT !.text = text] \in ReaderBlocks /\ [was EXCEPT !.text = text].kind = kind
        /\ [was EXCEPT !.text = text].text = text
    BY <1>1, <2>1 DEF ReaderBlocks
  <2> QED
    BY <2>2 DEF text
<1>3. Lengthened(blocks, i, piece) = IF piece = 0 THEN blocks ELSE more
  BY DEF Lengthened, Altered
<1>4. kind \in {"thinking", "text"} /\ (\A j \in DOMAIN blocks : j > i => blocks[j].kind # kind)
      /\ Gains(answer, next, kind, 0, piece)
  OBVIOUS
<1> HIDE DEF block
<1>5. /\ \A other : other # kind => Kept(more, other) = Kept(blocks, other)
      /\ \E n \in DOMAIN Kept(blocks, kind) :
           /\ Kept(more, kind) = Altered(Kept(blocks, kind), n, block)
           /\ Kept(blocks, kind)[n] = blocks[i]
           /\ (\A j \in DOMAIN blocks : j > i => blocks[j].kind # kind) => n = Len(Kept(blocks, kind))
  BY <1>2, KeptChanges
<1> HIDE DEF more, kind
<1> DEFINE r == Kept(blocks, kind)
<1>6. Kept(more, kind) = Altered(r, Len(r), block) /\ r[Len(r)] = was /\ r # <<>> /\ r \in Seq(ReaderBlocks)
  <2>1. PICK n \in DOMAIN r : Kept(more, kind) = Altered(r, n, block) /\ r[n] = was /\ n = Len(r)
    BY <1>4, <1>5
  <2>2. r \in Seq(ReaderBlocks)
    BY <1>1, KeptGrows
  <2> HIDE DEF r
  <2>3. r # <<>>
    BY <2>1
  <2> QED
    BY <2>1, <2>2, <2>3
<1> HIDE DEF r, was
<1>7. TextOf(Kept(more, kind)) = Append(TextOf(r), piece)
  <2>1. block.text = Append(r[Len(r)].text, piece)
    BY <1>2, <1>6
  <2>2. TextOf(Altered(r, Len(r), block)) = Append(TextOf(r), piece)
    BY <1>2, <1>6, <2>1, TextLengthens
  <2> QED
    BY <1>6, <2>2
<1>8. CASE piece = 0
  BY <1>3, <1>4, <1>8 DEF Conveys, Gains, Longer
<1>9. CASE piece # 0
  <2>1. Conveys(more, next)
    BY <1>4, <1>5, <1>7, <1>9 DEF Conveys, Gains, Longer, r
  <2> QED
    BY <1>3, <1>9, <2>1
<1> QED
  BY <1>8, <1>9

\* What the block of a call says more, the call argues.
LEMMA ConveysArgues ==
  ASSUME NEW blocks \in Seq(ReaderBlocks), NEW answer, NEW next, NEW i \in DOMAIN blocks,
         blocks[i].kind = "tool_use", NamesDiffer(answer.calls),
         NEW piece \in Nat \ {0}, Conveys(blocks, answer), Argues(answer, next, blocks[i].name, piece)
  PROVE  Conveys(Lengthened(blocks, i, piece), next)
<1> DEFINE was == blocks[i]
           kind == was.kind
           block == [was EXCEPT !.text = Append(was.text, piece)]
           more == Altered(blocks, i, block)
<1>1. was \in ReaderBlocks /\ was.text \in Seq(Nat)
  <2>1. was \in ReaderBlocks
    OBVIOUS
  <2> HIDE DEF was
  <2> QED
    BY <2>1 DEF ReaderBlocks
<1>2. block \in ReaderBlocks /\ block.kind = kind /\ block.text = Append(was.text, piece) /\ block.name = was.name
  <2> DEFINE text == Append(was.text, piece)
  <2>1. text \in Seq(Nat)
    BY <1>1
  <2> HIDE DEF text, was
  <2>2. [was EXCEPT !.text = text] \in ReaderBlocks /\ [was EXCEPT !.text = text].kind = kind
        /\ [was EXCEPT !.text = text].text = text /\ [was EXCEPT !.text = text].name = was.name
    BY <1>1, <2>1 DEF ReaderBlocks
  <2> QED
    BY <2>2 DEF text
<1>3. Lengthened(blocks, i, piece) = more
  BY DEF Lengthened, Altered
<1>4. kind = "tool_use" /\ Argues(answer, next, was.name, piece)
  OBVIOUS
<1> HIDE DEF block
<1>5. /\ \A other : other # kind => Kept(more, other) = Kept(blocks, other)
      /\ \E n \in DOMAIN Kept(blocks, kind) :
           Kept(more, kind) = Altered(Kept(blocks, kind), n, block) /\ Kept(blocks, kind)[n] = blocks[i]
  BY <1>2, KeptChanges
<1> HIDE DEF more, kind
<1> DEFINE r == Kept(blocks, "tool_use")
           u == Kept(more, "tool_use")
<1>6. PICK n \in DOMAIN r : u = Altered(r, n, block) /\ r[n] = was
  BY <1>4, <1>5
<1>7. r \in Seq(ReaderBlocks)
  BY <1>1, KeptGrows
<1> HIDE DEF r, u, was
<1> DEFINE m == Len(r)
           calls == answer.calls
           Argued1(j) == IF calls[j].name = was.name THEN [calls[j] EXCEPT !.text = Append(@, piece)] ELSE calls[j]
<1>8. m \in Nat /\ DOMAIN r = 1 .. m /\ u \in Seq(ReaderBlocks) /\ Len(u) = m /\ DOMAIN u = 1 .. m
      /\ \A j \in 1 .. m : u[j] = IF j = n THEN block ELSE r[j]
  BY <1>2, <1>6, <1>7 DEF Altered
<1>9. calls = Bare(r)
  BY DEF Conveys, r
<1>10. calls \in Seq(SaidCalls) /\ DOMAIN calls = 1 .. m
       /\ \A j \in 1 .. m : calls[j] = [name |-> r[j].name, text |-> r[j].text]
  BY <1>7, <1>8, <1>9, BareTells
<1>11. ASSUME NEW j \in 1 .. m PROVE Bare(u)[j] = Argued1(j)
  <2>1. Bare(u)[j] = [name |-> u[j].name, text |-> u[j].text]
    BY <1>8, BareTells
  <2>2. CASE j = n
    <3>1. u[j] = block /\ calls[j] = [name |-> was.name, text |-> was.text]
      BY <1>6, <1>8, <1>10, <2>2
    <3>2. Argued1(j) = [name |-> was.name, text |-> Append(was.text, piece)]
      <4> DEFINE text == Append(was.text, piece)
                 call == [name |-> was.name, text |-> was.text]
      <4>1. Argued1(j) = [call EXCEPT !.text = text]
        BY <3>1
      <4> HIDE DEF text
      <4>2. [call EXCEPT !.text = text] = [name |-> was.name, text |-> text]
        OBVIOUS
      <4> QED
        BY <4>1, <4>2 DEF text
    <3> HIDE DEF Argued1
    <3> QED
      BY <1>2, <2>1, <3>1, <3>2
  <2>3. CASE j # n
    <3>4. n \in 1 .. m
      BY <1>8
    <3>5. calls[n].name = r[n].name
      <4> DEFINE name == r[n].name
                 text == r[n].text
      <4>1. calls[n] = [name |-> name, text |-> text]
        BY <1>10, <3>4
      <4> HIDE DEF name, text
      <4>2. calls[n].name = name
        BY <4>1
      <4> QED
        BY <4>2 DEF name
    <3>1. u[j] = r[j] /\ calls[j] = [name |-> r[j].name, text |-> r[j].text] /\ calls[n].name = was.name /\ n \in 1 .. m
      BY <1>6, <1>8, <1>10, <2>3, <3>4, <3>5
    <3>2. calls[j].name # was.name
      BY <1>10, <2>3, <3>1 DEF NamesDiffer
    <3>3. Argued1(j) = calls[j]
      BY <3>2
    <3> HIDE DEF Argued1, calls
    <3> QED
      BY <2>1, <3>1, <3>3
  <2> QED
    BY <2>2, <2>3
<1>12. Bare(u) = next.calls
  <2>1. Bare(u) \in Seq(SaidCalls) /\ Len(Bare(u)) = m
    BY <1>8, BareTells
  <2>2. next.calls = [j \in 1 .. m |-> Argued1(j)]
    BY <1>4, <1>10 DEF Argues
  <2> DEFINE a == Bare(u)
  <2> HIDE DEF Argued1, a
  <2>3. a = [j \in 1 .. m |-> a[j]]
    BY <1>8, <2>1 DEF a
  <2>4. \A j \in 1 .. m : a[j] = Argued1(j)
    BY <1>11 DEF a
  <2>5. a = next.calls
    BY <2>2, <2>3, <2>4
  <2> QED
    BY <2>5 DEF a
<1>13. Kept(more, "thinking") = Kept(blocks, "thinking") /\ Kept(more, "text") = Kept(blocks, "text")
  BY <1>4, <1>5
<1>14. Conveys(more, next)
  BY <1>4, <1>12, <1>13 DEF Conveys, Argues, u
<1> QED
  BY <1>3, <1>14

\* A call that has a block is one of the answer.
IsCalled(answer, name) == \E i \in DOMAIN answer.calls : answer.calls[i].name = name

LEMMA CallSaid ==
  ASSUME NEW blocks \in Seq(ReaderBlocks), NEW answer, Conveys(blocks, answer),
         NEW i \in DOMAIN blocks, blocks[i].kind = "tool_use"
  PROVE  IsCalled(answer, blocks[i].name)
<1> DEFINE was == blocks[i]
           r == Kept(blocks, "tool_use")
<1>1. was \in ReaderBlocks /\ was.kind = "tool_use"
  OBVIOUS
<1>2. \E n \in DOMAIN Kept(blocks, was.kind) : Kept(blocks, was.kind)[n] = blocks[i]
  BY <1>1, KeptChanges
<1>3. PICK n \in DOMAIN r : r[n] = was
  BY <1>1, <1>2
<1>4. r \in Seq(ReaderBlocks) /\ answer.calls = Bare(r)
  BY <1>1, KeptGrows DEF Conveys
<1> HIDE DEF r, was
<1>5. DOMAIN answer.calls = DOMAIN r /\ answer.calls[n] = [name |-> r[n].name, text |-> r[n].text]
  BY <1>3, <1>4, BareTells
<1> DEFINE name == r[n].name
           text == r[n].text
<1>6. answer.calls[n] = [name |-> name, text |-> text] /\ name = was.name
  BY <1>3, <1>5
<1> HIDE DEF name, text
<1>7. answer.calls[n].name = was.name
  BY <1>6
<1>8. IsCalled(answer, was.name)
  BY <1>3, <1>5, <1>7 DEF IsCalled
<1> QED
  BY <1>8 DEF was

\* The open block is the last one, unless it is the one of a call, and the blocks of the calls
\* have their names.
OpenBlocks(s, blocks) ==
  /\ s.open \in {"thinking", "text"} => s.open_index + 1 = Len(blocks)
  /\ s.open = "tool_use" => s.open_tool \in DOMAIN s.tools /\ s.open_index = s.tools[s.open_tool].index

NamesCalls(s, names) == \A k \in DOMAIN s.tools : s.tools[k].name = names[k]

\* What a chunk says more of the answer, the call it is for being called name; and what a chunk
\* of the provider says.
Speaks(answer, next, d, name) ==
  /\ d.kind = "none" =>
       next.thinking = answer.thinking /\ next.text = answer.text /\ next.calls = answer.calls
  /\ d.kind \in {"thinking", "text"} => d.name = 0 /\ Gains(answer, next, d.kind, 0, d.piece)
  /\ d.kind = "tool_use" =>
       IF IsCalled(answer, name) THEN d.piece # 0 /\ Argues(answer, next, name, d.piece)
       ELSE d.name = name /\ Gains(answer, next, "tool_use", d.name, d.piece)

Says(answer, next, d) ==
  /\ Speaks(answer, next, d, NameOf(d.key))
  /\ d.kind = "tool_use" /\ IsCalled(answer, NameOf(d.key)) => d.name = 0

\* A piece more makes no block more.
LEMMA LengthTells ==
  ASSUME NEW X, NEW s \in Seq(X), NEW i, NEW piece
  PROVE  Len(Lengthened(s, i, piece)) = Len(s)
<1> DEFINE x == [s[i] EXCEPT !.text = Append(s[i].text, piece)]
           t == [s EXCEPT ![i] = x]
<1>1. Len(s) \in Nat /\ DOMAIN s = 1 .. Len(s)
  OBVIOUS
<1>2. DOMAIN t = DOMAIN s
  OBVIOUS
<1> HIDE DEF x, t
<1>3. Len(t) = Len(s)
  BY <1>1, <1>2
<1> QED
  BY <1>3 DEF t, x, Lengthened

\* A chunk leaves the open block where the translator takes it to be.
LEMMA OpenBlocksKept ==
  ASSUME NEW s, NEW c, FollowsAnthropic(s, c), NEW d \in Pieces, OpenBlocks(s, c.blocks),
         NEW names, NamesCalls(s, names), d.kind = "tool_use" /\ d.key \notin DOMAIN s.tools => d.name = names[d.key]
  PROVE  OpenBlocks(After(s, d), Rewritten(s, c.blocks, d)) /\ NamesCalls(After(s, d), names)
<1> DEFINE k == d.key
           blocks == c.blocks
           b == BlockOf(s, d)
           tools == IF d.kind = "tool_use" THEN WithEntry(s.tools, k, b) ELSE s.tools
           tool == IF d.kind = "tool_use" THEN k ELSE NoKey
           new == Block(d.kind, d.name, Uttered(d.piece))
           after == After(s, d)
           next == Rewritten(s, blocks, d)
           holds == OpenBlocks(after, next) /\ NamesCalls(after, names)
<1>1. s \in Translators /\ s.index = Len(blocks) /\ blocks \in Seq(ReaderBlocks) /\ k \in Nat
      /\ d.kind \in BlockKinds \cup {"none"}
  BY DEF FollowsAnthropic, Readers, Pieces
<1>2. \A i : Len(Lengthened(blocks, i, d.piece)) = Len(blocks)
  BY <1>1, LengthTells
<1>3. ASSUME d.kind = "none" \/ StaysOpen(s, d) PROVE holds
  <2>1. after = [s EXCEPT !.started = TRUE]
    BY <1>3 DEF After, Opened
  <2>2. Len(next) = Len(blocks)
    BY <1>2, <1>3 DEF Rewritten
  <2> HIDE DEF after, next
  <2>3. after.open = s.open /\ after.open_index = s.open_index /\ after.open_tool = s.open_tool /\ after.tools = s.tools
    BY <1>1, <2>1 DEF Translators
  <2> QED
    BY <2>2, <2>3 DEF OpenBlocks, NamesCalls
<1>4. ASSUME d.kind # "none", ~StaysOpen(s, d)
      PROVE  /\ after.open = d.kind /\ after.open_index = b.index /\ after.open_tool = tool /\ after.tools = tools
  <2>1. after = [[s EXCEPT !.open = d.kind, !.open_index = b.index,
                           !.index = IF Known(s, d) THEN s.index ELSE s.index + 1,
                           !.open_tool = tool, !.tools = tools] EXCEPT !.started = TRUE]
    BY <1>4 DEF After, Opened
  <2> DEFINE index == IF Known(s, d) THEN s.index ELSE s.index + 1
             x == b.index
  <2> HIDE DEF b, tool, tools, after, index, x
  <2>2. after = [[s EXCEPT !.open = d.kind, !.open_index = x, !.index = index,
                           !.open_tool = tool, !.tools = tools] EXCEPT !.started = TRUE]
    BY <2>1 DEF index, x
  <2>3. after.open = d.kind /\ after.open_index = x /\ after.open_tool = tool /\ after.tools = tools
    BY <1>1, <2>2 DEF Translators
  <2> QED
    BY <2>3 DEF x
<1>5. ASSUME d.kind # "none", ~StaysOpen(s, d), Known(s, d) PROVE holds
  <2>1. d.kind = "tool_use" /\ k \in DOMAIN s.tools
    BY <1>5 DEF Known
  <2>2. b = s.tools[k]
    <3>1. b = [s.tools[k] EXCEPT !.name = IF s.tools[k].name = 0 THEN d.name ELSE s.tools[k].name]
      BY <1>5 DEF BlockOf
    <3>2. s.tools[k].name # 0 /\ s.tools[k] \in [index : Nat, name : Nat]
      BY <1>1, <2>1, ToolBlocksTell DEF FollowsAnthropic, Translators
    <3> DEFINE was == s.tools[k]
    <3> HIDE DEF was
    <3>3. [was EXCEPT !.name = was.name] = was
      BY <3>2 DEF was
    <3> QED
      BY <3>1, <3>2, <3>3 DEF was
  <2> HIDE DEF b
  <2>3. tools = WithEntry(s.tools, k, s.tools[k])
    BY <2>1, <2>2
  <2>4. DOMAIN tools = DOMAIN s.tools /\ \A x \in DOMAIN s.tools : tools[x] = s.tools[x]
    BY <2>1, <2>3 DEF WithEntry
  <2>5. after.open = "tool_use" /\ after.open_index = tools[k].index /\ after.open_tool = k /\ after.tools = tools
    BY <1>4, <1>5, <2>1, <2>2, <2>4
  <2> HIDE DEF tools, after
  <2>6. NamesCalls(after, names)
    BY <2>4, <2>5 DEF NamesCalls
  <2>7. OpenBlocks(after, next)
    BY <2>1, <2>4, <2>5 DEF OpenBlocks
  <2> QED
    BY <2>6, <2>7
<1>6. ASSUME d.kind # "none", ~StaysOpen(s, d), ~Known(s, d) PROVE holds
  <2>1. b = [index |-> s.index, name |-> d.name] /\ b.index = s.index /\ b.name = d.name
    BY <1>6 DEF BlockOf
  <2>2. next = Append(blocks, new)
    BY <1>6 DEF Rewritten
  <2>3. Len(next) = Len(blocks) + 1
    <3> HIDE DEF new
    <3> QED
      BY <1>1, <2>2
  <2> HIDE DEF b, after, next
  <2>4. after.open = d.kind /\ after.open_index = Len(blocks) /\ after.open_tool = tool /\ after.tools = tools
    BY <1>1, <1>4, <1>6, <2>1
  <2>5. NamesCalls(after, names) /\ (d.kind = "tool_use" => k \in DOMAIN tools /\ tools[k] = b)
    <3>1. CASE d.kind = "tool_use"
      <4>1. tools = WithEntry(s.tools, k, b) /\ k \notin DOMAIN s.tools /\ b.name = names[k]
        BY <1>6, <2>1, <3>1 DEF Known
      <4>2. DOMAIN tools = DOMAIN s.tools \cup {k} /\ tools[k] = b /\ \A x \in DOMAIN s.tools : tools[x] = s.tools[x]
        BY <4>1 DEF WithEntry
      <4> HIDE DEF tools
      <4> QED
        BY <2>4, <4>1, <4>2 DEF NamesCalls
    <3>2. CASE d.kind # "tool_use"
      BY <2>4, <3>2 DEF NamesCalls
    <3> QED
      BY <3>1, <3>2
  <2> HIDE DEF tools
  <2>6. OpenBlocks(after, next)
    <3>1. after.open = "tool_use" => after.open_tool = k /\ after.tools[k].index = after.open_index
      BY <1>1, <2>1, <2>4, <2>5
    <3>2. after.open_index + 1 = Len(next)
      BY <2>3, <2>4
    <3> QED
      BY <2>4, <2>5, <3>1, <3>2 DEF OpenBlocks
  <2> QED
    BY <2>5, <2>6
<1>7. holds
  BY <1>3, <1>5, <1>6
<1> QED
  BY <1>7

\* A finish reason changes no block.
LEMMA FinishingKeeps ==
  ASSUME NEW s \in Translators, NEW finish, NEW blocks, OpenBlocks(s, blocks), NEW names, NamesCalls(s, names)
  PROVE  OpenBlocks(Finishing(s, finish), blocks) /\ NamesCalls(Finishing(s, finish), names)
<1> DEFINE after == Finishing(s, finish)
           reason == StopReason(finish)
<1>1. after = IF finish = "none" THEN s ELSE [s EXCEPT !.stop_reason = reason]
  BY DEF Finishing
<1> HIDE DEF after, reason
<1>2. after.open = s.open /\ after.open_index = s.open_index /\ after.open_tool = s.open_tool /\ after.tools = s.tools
  BY <1>1 DEF Translators
<1>3. OpenBlocks(after, blocks) /\ NamesCalls(after, names)
  BY <1>2 DEF OpenBlocks, NamesCalls
<1> QED
  BY <1>3 DEF after

\* A call the translator knows has a block under its name.
LEMMA CallKnown ==
  ASSUME NEW s, NEW c, FollowsAnthropic(s, c), NEW names, NamesCalls(s, names), NEW k \in DOMAIN s.tools
  PROVE  LET i == s.tools[k].index + 1
         IN  i \in DOMAIN c.blocks /\ c.blocks[i].kind = "tool_use" /\ c.blocks[i].name = names[k]
<1> DEFINE i == s.tools[k].index + 1
<1>1. s.tools \in ToolBlocks /\ c.blocks \in Seq(ReaderBlocks)
  BY DEF FollowsAnthropic, Translators, Readers
<1>2. s.tools[k].index \in Nat
  BY <1>1, ToolBlocksTell
<1>3. s.tools[k].index < Len(c.blocks) /\ c.blocks[i].kind = "tool_use" /\ c.blocks[i].name = s.tools[k].name
      /\ s.tools[k].name = names[k]
  BY DEF FollowsAnthropic, NamesCalls
<1>4. i \in 1 .. Len(c.blocks)
  BY <1>1, <1>2, <1>3
<1> QED
  BY <1>1, <1>3, <1>4

\* The blocks of an Anthropic client say what was said.
LEMMA ReaderConveys ==
  ASSUME NEW s, NEW c, FollowsAnthropic(s, c), NEW d \in Pieces, OpenBlocks(s, c.blocks),
         NEW names, NamesCalls(s, names), names[d.key] \in Nat,
         NEW answer, NEW next, Conveys(c.blocks, answer), NamesDiffer(answer.calls), Speaks(answer, next, d, names[d.key]),
         d.kind = "tool_use" /\ IsCalled(answer, names[d.key]) => d.key \in DOMAIN s.tools
  PROVE  Conveys(Rewritten(s, c.blocks, d), next)
<1> DEFINE k == d.key
           blocks == c.blocks
           name == names[k]
           next_blocks == Rewritten(s, blocks, d)
<1>1. s \in Translators /\ blocks \in Seq(ReaderBlocks) /\ k \in Nat /\ name \in Nat /\ d.piece \in Nat /\ d.name \in Nat
      /\ d.kind \in BlockKinds \cup {"none"}
  BY DEF FollowsAnthropic, Readers, Pieces
<1>2. CASE d.kind = "none"
  BY <1>2 DEF Rewritten, Speaks, Conveys
<1>3. CASE d.kind \in {"thinking", "text"}
  <2>1. d.name = 0 /\ Gains(answer, next, d.kind, 0, d.piece) /\ d.kind # "none" /\ d.kind # "tool_use" /\ d.kind \in BlockKinds
    BY <1>3 DEF Speaks, BlockKinds
  <2>2. CASE StaysOpen(s, d)
    <3> DEFINE i == s.open_index + 1
    <3>1. s.open = d.kind /\ s.open_index \in 0 .. Len(blocks) - 1 /\ blocks[i].kind = d.kind /\ i = Len(blocks)
      BY <1>3, <2>1, <2>2 DEF StaysOpen, FollowsAnthropic, OpenBlocks
    <3>2. i \in 1 .. Len(blocks) /\ \A j \in DOMAIN blocks : ~(j > i)
      BY <1>1, <3>1
    <3> HIDE DEF i
    <3>3. i \in DOMAIN blocks /\ \A j \in DOMAIN blocks : j > i => blocks[j].kind # blocks[i].kind
      BY <1>1, <3>2
    <3>4. Conveys(Lengthened(blocks, i, d.piece), next)
      <4>1. blocks[i].kind \in {"thinking", "text"} /\ Gains(answer, next, blocks[i].kind, 0, d.piece)
        BY <1>3, <2>1, <3>1 DEF i
      <4> QED
        BY <1>1, <3>3, <4>1, ConveysLengthens
    <3> QED
      BY <2>1, <2>2, <3>4 DEF Rewritten, i
  <2>3. CASE ~StaysOpen(s, d)
    <3>1. next_blocks = Append(blocks, Block(d.kind, 0, Uttered(d.piece)))
      BY <2>1, <2>3 DEF Rewritten, Known
    <3> QED
      BY <1>1, <2>1, <3>1, ConveysGrows
  <2> QED
    BY <2>2, <2>3
<1>4. CASE d.kind = "tool_use"
  <2>1. CASE k \in DOMAIN s.tools
    <3> DEFINE i == s.tools[k].index + 1
    <3>1. i \in DOMAIN blocks /\ blocks[i].kind = "tool_use" /\ blocks[i].name = name
      BY <2>1, CallKnown
    <3>2. next_blocks = Lengthened(blocks, i, d.piece)
      <4>1. Known(s, d)
        BY <1>4, <2>1 DEF Known
      <4>2. CASE StaysOpen(s, d)
        <5>1. s.open = "tool_use" /\ s.open_tool = k
          BY <1>4, <4>2 DEF StaysOpen
        <5>2. s.open_index + 1 = i
          BY <5>1 DEF OpenBlocks
        <5> QED
          BY <1>4, <4>2, <5>2 DEF Rewritten
      <4>3. CASE ~StaysOpen(s, d)
        BY <1>4, <4>1, <4>3 DEF Rewritten
      <4> QED
        BY <4>2, <4>3
    <3> HIDE DEF i
    <3>3. IsCalled(answer, name)
      BY <1>1, <3>1, CallSaid
    <3>4. d.piece \in Nat \ {0} /\ Argues(answer, next, name, d.piece)
      BY <1>1, <1>4, <3>3 DEF Speaks
    <3> HIDE DEF name
    <3>5. Argues(answer, next, blocks[i].name, d.piece)
      BY <3>1, <3>4
    <3>6. Conveys(Lengthened(blocks, i, d.piece), next)
      BY <1>1, <3>1, <3>4, <3>5, ConveysArgues
    <3> QED
      BY <3>2, <3>6
  <2>2. CASE k \notin DOMAIN s.tools
    <3>1. d.name = name /\ Gains(answer, next, "tool_use", d.name, d.piece) /\ "tool_use" \in BlockKinds
      BY <1>4, <2>2 DEF Speaks, BlockKinds
    <3>2. ~Known(s, d) /\ ~StaysOpen(s, d)
      <4>1. s.open = "tool_use" => s.open_tool \in DOMAIN s.tools
        BY DEF FollowsAnthropic
      <4> QED
        BY <1>4, <2>2, <4>1 DEF Known, StaysOpen
    <3>3. next_blocks = Append(blocks, Block("tool_use", d.name, Uttered(d.piece)))
      BY <1>4, <3>2 DEF Rewritten
    <3> QED
      BY <1>1, <3>1, <3>3, ConveysGrows
  <2> QED
    BY <2>1, <2>2
<1> QED
  BY <1>1, <1>2, <1>3, <1>4 DEF BlockKinds

\* The items of a Responses client, read as the blocks of an Anthropic client.
Entries(items) == [i \in DOMAIN items |-> Block(KindOf(items[i].id), items[i].name, items[i].text)]

LEMMA EntriesTell ==
  ASSUME NEW items \in Seq(Items)
  PROVE  /\ Entries(items) \in Seq(ReaderBlocks) /\ Len(Entries(items)) = Len(items)
         /\ DOMAIN Entries(items) = DOMAIN items
         /\ \A i \in DOMAIN items :
              /\ Entries(items)[i] = Block(KindOf(items[i].id), items[i].name, items[i].text)
              /\ Entries(items)[i].kind = KindOf(items[i].id) /\ Entries(items)[i].name = items[i].name
              /\ Entries(items)[i].text = items[i].text
<1> DEFINE m == Len(items)
           e == Entries(items)
           Of(i) == Block(KindOf(items[i].id), items[i].name, items[i].text)
<1>1. m \in Nat /\ DOMAIN items = 1 .. m
  OBVIOUS
<1>2. ASSUME NEW i \in 1 .. m
      PROVE  /\ Of(i) \in ReaderBlocks /\ Of(i).kind = KindOf(items[i].id) /\ Of(i).name = items[i].name
             /\ Of(i).text = items[i].text
  <2>1. items[i] \in Items
    BY <1>1
  <2> DEFINE id == items[i].id
             name == items[i].name
             text == items[i].text
  <2>2. id \in ItemIds /\ name \in Nat /\ text \in Seq(Nat)
    BY <2>1 DEF Items
  <2> HIDE DEF id, name, text
  <2>3. KindOf(id) \in BlockKinds
    BY <2>2 DEF KindOf, ItemIds, BlockKinds
  <2>4. /\ Block(KindOf(id), name, text) \in ReaderBlocks /\ Block(KindOf(id), name, text).kind = KindOf(id)
        /\ Block(KindOf(id), name, text).name = name /\ Block(KindOf(id), name, text).text = text
    BY <2>2, <2>3 DEF Block, ReaderBlocks
  <2> QED
    BY <2>4 DEF id, name, text
<1>3. e = [i \in DOMAIN items |-> Of(i)]
  BY DEF Entries
<1> HIDE DEF e, Of, m
<1>4. e \in Seq(ReaderBlocks) /\ Len(e) = m /\ DOMAIN e = 1 .. m /\ \A i \in 1 .. m : e[i] = Of(i)
  BY <1>1, <1>2, <1>3
<1>5. \A i \in 1 .. m : e[i].kind = KindOf(items[i].id) /\ e[i].name = items[i].name /\ e[i].text = items[i].text
  BY <1>2, <1>4
<1> QED
  BY <1>1, <1>4, <1>5 DEF e, m, Of

\* An item more is a block more.
LEMMA EntriesGrow ==
  ASSUME NEW items \in Seq(Items), NEW id \in ItemIds, NEW name \in Nat, NEW text \in Seq(Nat)
  PROVE  Entries(Append(items, Item(id, name, text))) = Append(Entries(items), Block(KindOf(id), name, text))
<1> DEFINE m == Len(items)
           item == Item(id, name, text)
           block == Block(KindOf(id), name, text)
           more == Append(items, item)
           a == Entries(more)
           b == Append(Entries(items), block)
           Of(s, i) == Block(KindOf(s[i].id), s[i].name, s[i].text)
<1>1. item \in Items /\ item.id = id /\ item.name = name /\ item.text = text
  BY DEF Item, Items
<1>2. block \in ReaderBlocks
  <2>1. KindOf(id) \in BlockKinds
    BY DEF KindOf, ItemIds, BlockKinds
  <2> QED
    BY <2>1 DEF Block, ReaderBlocks
<1>3. Block(KindOf(item.id), item.name, item.text) = block
  BY <1>1
<1> HIDE DEF item, block
<1>4. /\ more \in Seq(Items) /\ Len(more) = m + 1 /\ more[m + 1] = item /\ m \in Nat /\ m + 1 \in Nat
      /\ DOMAIN more = 1 .. m + 1 /\ DOMAIN items = 1 .. m /\ \A i \in 1 .. m : more[i] = items[i]
  BY <1>1
<1> HIDE DEF more
<1>5. a \in Seq(ReaderBlocks) /\ Len(a) = m + 1 /\ \A i \in 1 .. m + 1 : a[i] = Of(more, i)
  BY <1>4, EntriesTell
<1>6. Entries(items) \in Seq(ReaderBlocks) /\ Len(Entries(items)) = m /\ \A i \in 1 .. m : Entries(items)[i] = Of(items, i)
  BY <1>4, EntriesTell
<1>7. b \in Seq(ReaderBlocks) /\ Len(b) = m + 1 /\ b[m + 1] = block /\ \A i \in 1 .. m : b[i] = Of(items, i)
  <2> HIDE DEF Of
  <2> QED
    BY <1>2, <1>4, <1>6
<1> HIDE DEF a, b, m
<1>8. ASSUME NEW i \in 1 .. m + 1 PROVE a[i] = b[i]
  <2>1. CASE i = m + 1
    BY <1>3, <1>4, <1>5, <1>7, <2>1
  <2>2. CASE i # m + 1
    <3>1. i \in 1 .. m
      BY <1>4, <2>2
    <3> QED
      BY <1>4, <1>5, <1>7, <3>1
  <2> QED
    BY <2>1, <2>2
<1>9. a = b
  BY <1>4, <1>5, <1>7, <1>8
<1> QED
  BY <1>9 DEF a, b, more, item, block

\* What an item says more, its block does.
LEMMA EntriesLengthen ==
  ASSUME NEW items \in Seq(Items), NEW i \in DOMAIN items, NEW piece \in Nat
  PROVE  Entries(Lengthened(items, i, piece)) = Lengthened(Entries(items), i, piece)
<1> DEFINE m == Len(items)
           was == items[i]
           text == Append(was.text, piece)
           item == [was EXCEPT !.text = text]
           more == Altered(items, i, item)
           e == Entries(items)
           block == [e[i] EXCEPT !.text = Append(e[i].text, piece)]
           a == Entries(more)
           b == Altered(e, i, block)
           Of(s, j) == Block(KindOf(s[j].id), s[j].name, s[j].text)
<1>1. m \in Nat /\ DOMAIN items = 1 .. m /\ i \in 1 .. m /\ was \in Items
  OBVIOUS
<1>2. text \in Seq(Nat)
  <2>1. was.text \in Seq(Nat)
    <3> HIDE DEF was
    <3> QED
      BY <1>1 DEF Items
  <2> HIDE DEF was
  <2> QED
    BY <2>1
<1>3. item \in Items /\ item.id = was.id /\ item.name = was.name /\ item.text = text
  <2> HIDE DEF was, text
  <2> QED
    BY <1>1, <1>2 DEF Items
<1>4. e \in Seq(ReaderBlocks) /\ Len(e) = m /\ DOMAIN e = 1 .. m /\ \A j \in 1 .. m : e[j] = Of(items, j)
  BY <1>1, EntriesTell
<1>5. block = Block(KindOf(was.id), was.name, text)
  <2>1. e[i] = Block(KindOf(was.id), was.name, was.text)
    BY <1>1, <1>4
  <2> DEFINE kind == KindOf(was.id)
             name == was.name
             old == was.text
             new == text
  <2>2. e[i] = [kind |-> kind, name |-> name, text |-> old] /\ block = [e[i] EXCEPT !.text = Append(e[i].text, piece)]
    BY <2>1 DEF Block
  <2>3. new = Append(old, piece)
    OBVIOUS
  <2> HIDE DEF kind, name, old, new, e, block
  <2>4. e[i].text = old
    BY <2>2
  <2>5. block = [e[i] EXCEPT !.text = new]
    BY <2>2, <2>3, <2>4
  <2>6. block = [kind |-> kind, name |-> name, text |-> new]
    <3>1. \A x : x = [kind |-> kind, name |-> name, text |-> old]
                => [x EXCEPT !.text = new] = [kind |-> kind, name |-> name, text |-> new]
      OBVIOUS
    <3> QED
      BY <2>2, <2>5, <3>1
  <2> QED
    BY <2>6 DEF Block, kind, name, new
<1>6. Lengthened(items, i, piece) = IF piece = 0 THEN items ELSE more
  BY DEF Lengthened, Altered
<1>7. Lengthened(e, i, piece) = IF piece = 0 THEN e ELSE b
  BY DEF Lengthened, Altered
<1>8. ReaderBlocks # {} /\ block \in ReaderBlocks
  <2>1. KindOf(was.id) \in BlockKinds /\ was.name \in Nat
    BY <1>1 DEF KindOf, ItemIds, Items, BlockKinds
  <2> HIDE DEF block, was, text
  <2> QED
    BY <1>2, <1>5, <2>1 DEF Block, ReaderBlocks
<1> HIDE DEF block, item, text, was, e
<1>9. more \in Seq(Items) /\ Len(more) = m /\ DOMAIN more = 1 .. m /\ \A j \in 1 .. m : more[j] = IF j = i THEN item ELSE items[j]
  BY <1>1, <1>3 DEF Altered
<1>10. b \in Seq(ReaderBlocks) /\ Len(b) = m /\ \A j \in 1 .. m : b[j] = IF j = i THEN block ELSE e[j]
  BY <1>1, <1>4, <1>8 DEF Altered
<1> HIDE DEF more, b
<1>11. a \in Seq(ReaderBlocks) /\ Len(a) = m /\ \A j \in 1 .. m : a[j] = Of(more, j)
  BY <1>9, EntriesTell
<1> HIDE DEF a
<1>12. ASSUME NEW j \in 1 .. m PROVE a[j] = b[j]
  <2>1. CASE j = i
    BY <1>3, <1>5, <1>9, <1>10, <1>11, <2>1
  <2>2. CASE j # i
    <3>1. more[j] = items[j] /\ b[j] = e[j]
      BY <1>9, <1>10, <2>2
    <3> QED
      BY <1>4, <1>11, <3>1
  <2> QED
    BY <2>1, <2>2
<1> HIDE DEF m
<1>13. a = b
  BY <1>1, <1>10, <1>11, <1>12
<1> QED
  BY <1>6, <1>7, <1>13 DEF a, b, e

\* The client has, item for item, what the translator has noted of the turn.
ItemsMatch(m, items) ==
  /\ \A id \in DOMAIN m : /\ m[id].output_index < Len(items)
                          /\ items[m[id].output_index + 1] = Item(id, m[id].name, m[id].text)
  /\ \A i \in DOMAIN items : items[i].id \in DOMAIN m /\ m[items[i].id].output_index = i - 1
  /\ \A id \in DOMAIN m : IF id.kind = "function_call" THEN m[id].name = NameOf(id.key)
                          ELSE id.key = 0 /\ m[id].name = 0

\* What is noted of the item of a payload.
LEMMA WrittenTells ==
  ASSUME NEW s \in ResponsesStates, NEW d \in Pieces, d.kind # "none",
         PayloadId(d) \in DOMAIN s.items =>
           s.items[PayloadId(d)].name # 0 \/ d.name = 0
  PROVE  LET id == PayloadId(d)
             w == Written(s, d)
         IN  /\ IsNew(s, d) => w.output_index = Len(s.output) /\ w.name = d.name /\ w.text = Uttered(d.piece)
             /\ ~IsNew(s, d) => /\ id \in DOMAIN s.items /\ s.items[id] \in Places
                                /\ w.output_index = s.items[id].output_index /\ w.name = s.items[id].name
                                /\ w.text = Longer(s.items[id].text, d.piece)
<1> DEFINE id == PayloadId(d)
           was == s.items[id]
           item == ItemOf(s, d)
           w == Written(s, d)
           text == Append(item.text, d.piece)
<1>1. item \in Places /\ (IsNew(s, d) <=> id \notin DOMAIN s.items) /\ id \in ItemIds
  BY ItemTells
<1>2. s.items \in Maps(ItemIds, Places) /\ Len(s.output) \in Nat /\ d.piece \in Nat
  BY DEF ResponsesStates, Pieces
<1>3. w = IF d.piece = 0 THEN item ELSE [item EXCEPT !.text = text]
  BY DEF Written
<1>4. /\ IsNew(s, d) => item.output_index = Len(s.output) /\ item.name = d.name /\ item.text = <<>>
      /\ ~IsNew(s, d) => /\ was \in Places
                         /\ item.output_index = was.output_index /\ item.name = was.name /\ item.text = was.text
  <2>1. CASE IsNew(s, d)
    BY <2>1 DEF ItemOf
  <2>2. CASE ~IsNew(s, d)
    <3>1. item = [was EXCEPT !.name = IF was.name = 0 THEN d.name ELSE was.name]
      BY <2>2 DEF ItemOf
    <3>2. id \in DOMAIN s.items
      BY <1>1, <2>2
    <3>3. was \in Places
      BY <1>2, <3>2, MapsTell
    <3>4. was.name # 0 \/ d.name = 0
      BY <3>2
    <3> DEFINE name == IF was.name = 0 THEN d.name ELSE was.name
    <3>5. name = was.name
      BY <3>4
    <3> HIDE DEF was, item, name
    <3>6. item.output_index = was.output_index /\ item.name = name /\ item.text = was.text
      BY <3>1, <3>3 DEF Places, name
    <3> QED
      BY <2>2, <3>3, <3>5, <3>6
  <2> QED
    BY <2>1, <2>2
<1> HIDE DEF item, w
<1>5. CASE d.piece = 0
  BY <1>1, <1>3, <1>4, <1>5 DEF Uttered, Longer, w
<1>6. CASE d.piece # 0
  <2> HIDE DEF text
  <2>1. w.output_index = item.output_index /\ w.name = item.name /\ w.text = text
    BY <1>1, <1>3, <1>6 DEF Places
  <2>2. IsNew(s, d) => text = Uttered(d.piece)
    <3>1. Append(<<>>, d.piece) = <<d.piece>>
      OBVIOUS
    <3>2. IsNew(s, d) => text = Append(<<>>, d.piece)
      BY <1>4 DEF text
    <3> QED
      BY <1>6, <3>1, <3>2 DEF Uttered
  <2>3. ~IsNew(s, d) => text = Longer(was.text, d.piece)
    BY <1>4, <1>6 DEF text, Longer
  <2> HIDE DEF was
  <2>4. /\ IsNew(s, d) => w.output_index = Len(s.output) /\ w.name = d.name /\ w.text = Uttered(d.piece)
        /\ ~IsNew(s, d) => /\ id \in DOMAIN s.items /\ was \in Places
                           /\ w.output_index = was.output_index /\ w.name = was.name
                           /\ w.text = Longer(was.text, d.piece)
    BY <1>1, <1>4, <2>1, <2>2, <2>3
  <2> QED
    BY <2>4 DEF w, was
<1> QED
  BY <1>5, <1>6

\* An item that says one piece more is the same item, and the only one that changes.
LEMMA ItemLengthens ==
  ASSUME NEW items \in Seq(Items), NEW i \in DOMAIN items, NEW id, NEW name, NEW text,
         items[i] = Item(id, name, text), NEW piece \in Nat
  PROVE  LET more == Lengthened(items, i, piece)
         IN  /\ DOMAIN more = DOMAIN items /\ Len(more) = Len(items)
             /\ more[i] = Item(id, name, Longer(text, piece))
             /\ \A j \in DOMAIN items : j # i => more[j] = items[j]
<1> DEFINE more == Lengthened(items, i, piece)
           was == items[i]
           item == [was EXCEPT !.text = Append(was.text, piece)]
           longer == [items EXCEPT ![i] = item]
<1>1. Len(more) = Len(items)
  BY LengthTells
<1>2. more = IF piece = 0 THEN items ELSE longer
  BY DEF Lengthened
<1>3. was = [id |-> id, name |-> name, text |-> text]
  BY DEF Item
<1>4. was.text = text
  <2> HIDE DEF was
  <2> QED
    BY <1>3
<1>5. item = [id |-> id, name |-> name, text |-> Append(text, piece)]
  <2> DEFINE new == Append(text, piece)
  <2>1. item = [was EXCEPT !.text = new]
    BY <1>4
  <2> HIDE DEF new, was, item
  <2>2. item = [id |-> id, name |-> name, text |-> new]
    BY <1>3, <2>1
  <2> QED
    BY <2>2 DEF new
<1> HIDE DEF item
<1>6. DOMAIN longer = DOMAIN items /\ longer[i] = item /\ \A j \in DOMAIN items : j # i => longer[j] = items[j]
  OBVIOUS
<1> HIDE DEF longer, more
<1>7. DOMAIN more = DOMAIN items /\ (\A j \in DOMAIN items : j # i => more[j] = items[j])
      /\ more[i] = IF piece = 0 THEN was ELSE item
  BY <1>2, <1>6
<1>8. more[i] = Item(id, name, Longer(text, piece))
  <2> HIDE DEF was
  <2>1. CASE piece = 0
    BY <1>3, <1>7, <2>1 DEF Item, Longer
  <2>2. CASE piece # 0
    BY <1>5, <1>7, <2>2 DEF Item, Longer
  <2> QED
    BY <2>1, <2>2
<1> QED
  BY <1>1, <1>7, <1>8 DEF more

\* The place of an item is its own.
LEMMA PlaceTells ==
  ASSUME NEW m \in Maps(ItemIds, Places), NEW items \in Seq(Items), ItemsMatch(m, items), NEW id \in DOMAIN m
  PROVE  LET i == m[id].output_index + 1
         IN  /\ i \in DOMAIN items /\ items[i] = Item(id, m[id].name, m[id].text)
             /\ items[i].id = id /\ items[i].name = m[id].name
             /\ \A other \in DOMAIN m : other # id => m[other].output_index + 1 # i
             /\ \A j \in DOMAIN items : items[j].id = id => j = i
<1> DEFINE i == m[id].output_index + 1
<1>1. \A x \in DOMAIN m : m[x].output_index \in Nat
  <2>1. \A x \in DOMAIN m : m[x] \in Places
    BY MapsTell
  <2> QED
    BY <2>1 DEF Places
<1>2. /\ m[id].output_index < Len(items) /\ items[i] = Item(id, m[id].name, m[id].text)
  BY DEF ItemsMatch
<1>3. i \in DOMAIN items
  BY <1>1, <1>2
<1>4. \A x \in DOMAIN m : items[m[x].output_index + 1] = Item(x, m[x].name, m[x].text)
  BY DEF ItemsMatch
<1>5. \A x \in DOMAIN m : items[m[x].output_index + 1].id = x
  <2> SUFFICES ASSUME NEW x \in DOMAIN m PROVE items[m[x].output_index + 1].id = x
    OBVIOUS
  <2> DEFINE name == m[x].name
             text == m[x].text
             item == items[m[x].output_index + 1]
  <2>1. item = [id |-> x, name |-> name, text |-> text]
    BY <1>4 DEF Item
  <2> HIDE DEF name, text, item
  <2>2. item.id = x
    BY <2>1
  <2> QED
    BY <2>2 DEF item
<1>6. items[i].name = m[id].name
  <2> DEFINE name == m[id].name
             text == m[id].text
             item == items[i]
  <2>1. item = [id |-> id, name |-> name, text |-> text]
    BY <1>2 DEF Item
  <2> HIDE DEF name, text, item
  <2>2. item.name = name
    BY <2>1
  <2> QED
    BY <2>2 DEF item, name
<1>7. \A j \in DOMAIN items : items[j].id = id => j = i
  <2>1. \A j \in DOMAIN items : j \in Nat
    OBVIOUS
  <2> SUFFICES ASSUME NEW j \in DOMAIN items, items[j].id = id PROVE j = i
    OBVIOUS
  <2>2. m[id].output_index = j - 1 /\ m[id].output_index \in Nat /\ j \in Nat
    BY <1>1, <2>1 DEF ItemsMatch
  <2> QED
    BY <2>2
<1>8. \A other \in DOMAIN m : other # id => m[other].output_index + 1 # i
  BY <1>5
<1> QED
  BY <1>2, <1>3, <1>5, <1>6, <1>7, <1>8

\* A chunk leaves the items of the client as the translator notes them.
LEMMA ItemsMatchKept ==
  ASSUME NEW s, NEW c, FollowsResponses(s, c), NEW d \in Pieces, ItemsMatch(s.items, c.items),
         d.kind \in {"thinking", "text"} => d.name = 0,
         d.kind = "tool_use" /\ PayloadId(d) \notin DOMAIN s.items => d.name = NameOf(d.key)
  PROVE  ItemsMatch(Translated(s, d).items, Retold(s, c.items, d))
<1> DEFINE id == PayloadId(d)
           m == s.items
           items == c.items
           w == Written(s, d)
           next == Translated(s, d).items
           retold == Retold(s, items, d)
           Names(f) == \A x \in DOMAIN f : IF x.kind = "function_call" THEN f[x].name = NameOf(x.key)
                                           ELSE x.key = 0 /\ f[x].name = 0
           Placing(f, s1) == \A x \in DOMAIN f : /\ f[x].output_index < Len(s1)
                                                 /\ s1[f[x].output_index + 1] = Item(x, f[x].name, f[x].text)
           Noted(f, s1) == \A i \in DOMAIN s1 : s1[i].id \in DOMAIN f /\ f[s1[i].id].output_index = i - 1
<1>1. /\ s \in ResponsesStates /\ items \in Seq(Items) /\ Len(items) = Len(s.output) /\ m \in Maps(ItemIds, Places)
      /\ d.piece \in Nat /\ d.name \in Nat /\ d.key \in Nat
  BY DEF FollowsResponses, ResponsesStates, ResponsesClients, Pieces
<1>2. CASE d.kind = "none"
  BY <1>1, <1>2, TranslatedTells DEF Retold
<1>3. ASSUME d.kind # "none" PROVE ItemsMatch(next, retold)
  <2>1. next = WithEntry(m, id, w)
    BY <1>1, <1>3, TranslatedTells
  <2>2. /\ id \in ItemIds /\ (IsNew(s, d) <=> id \notin DOMAIN m)
        /\ d.kind = "tool_use" => id.kind = "function_call" /\ id.key = d.key
        /\ d.kind # "tool_use" => id.kind # "function_call" /\ id.key = 0
    <3>1. id \in ItemIds /\ (IsNew(s, d) <=> id \notin DOMAIN m)
      BY <1>1, <1>3, ItemTells
    <3>2. d.kind \in BlockKinds
      BY <1>3 DEF Pieces
    <3> QED
      BY <3>1, <3>2 DEF PayloadId, ItemId, BlockKinds
  <2>3. Names(m) /\ Placing(m, items) /\ Noted(m, items)
    BY DEF ItemsMatch
  <2>4. d.kind # "tool_use" => d.name = 0
    BY <1>3 DEF Pieces, BlockKinds
  <2>5. id \in DOMAIN m => m[id].name # 0 \/ d.name = 0
    <3>1. d.kind = "tool_use" /\ id \in DOMAIN m => m[id].name = NameOf(d.key)
      BY <2>2, <2>3
    <3> QED
      BY <1>1, <2>4, <3>1 DEF NameOf
  <2>6. /\ IsNew(s, d) => w.output_index = Len(items) /\ w.name = d.name /\ w.text = Uttered(d.piece)
        /\ ~IsNew(s, d) => /\ w.output_index = m[id].output_index /\ w.name = m[id].name
                           /\ w.text = Longer(m[id].text, d.piece)
    BY <1>1, <1>3, <2>5, WrittenTells
  <2> HIDE DEF w, next, retold, id
  <2>7. /\ DOMAIN next = DOMAIN m \cup {id} /\ next[id] = w
        /\ \A x \in DOMAIN m : x # id => next[x] = m[x]
    BY <2>1 DEF WithEntry
  <2>8. Names(next)
    <3>1. IF id.kind = "function_call" THEN w.name = NameOf(id.key) ELSE id.key = 0 /\ w.name = 0
      <4>1. CASE IsNew(s, d)
        <5>1. w.name = d.name /\ id \notin DOMAIN m
          BY <2>2, <2>6, <4>1
        <5>2. d.kind = "tool_use" => d.name = NameOf(d.key)
          BY <5>1 DEF id
        <5> QED
          BY <2>2, <2>4, <5>1, <5>2
      <4>2. CASE ~IsNew(s, d)
        BY <2>2, <2>3, <2>6, <4>2
      <4> QED
        BY <4>1, <4>2
    <3> QED
      BY <2>3, <2>7, <3>1
  <2>9. \A x \in DOMAIN m : m[x].output_index \in Nat
    <3>1. \A x \in DOMAIN m : m[x] \in Places
      BY <1>1, MapsTell
    <3> QED
      BY <3>1 DEF Places
  <2>10. ASSUME IsNew(s, d) PROVE Placing(next, retold) /\ Noted(next, retold)
    <3> DEFINE n == Len(items)
               new == Item(id, d.name, Uttered(d.piece))
    <3>1. retold = Append(items, new)
      BY <1>3, <2>10 DEF Retold, retold, id
    <3>2. new.id = id /\ Item(id, w.name, w.text) = new
      BY <2>6, <2>10 DEF Item
    <3> HIDE DEF new
    <3>3. /\ n \in Nat /\ Len(retold) = n + 1 /\ DOMAIN retold = 1 .. n + 1 /\ DOMAIN items = 1 .. n
          /\ retold[n + 1] = new
          /\ \A i \in 1 .. n : retold[i] = items[i]
      BY <1>1, <3>1
    <3>4. w.output_index = n /\ id \notin DOMAIN m
      BY <2>2, <2>6, <2>10
    <3> HIDE DEF n
    <3>5. Placing(next, retold)
      <4> SUFFICES ASSUME NEW x \in DOMAIN next
                   PROVE  /\ next[x].output_index < Len(retold)
                          /\ retold[next[x].output_index + 1] = Item(x, next[x].name, next[x].text)
        OBVIOUS
      <4>1. CASE x = id
        BY <2>7, <3>2, <3>3, <3>4, <4>1
      <4>2. CASE x # id
        <5>1. x \in DOMAIN m /\ next[x] = m[x] /\ m[x].output_index \in Nat
          BY <2>7, <2>9, <4>2
        <5>2. m[x].output_index < n /\ items[m[x].output_index + 1] = Item(x, m[x].name, m[x].text)
          BY <2>3, <5>1 DEF n
        <5>3. m[x].output_index + 1 \in 1 .. n
          BY <3>3, <5>1, <5>2
        <5> QED
          BY <3>3, <5>1, <5>2, <5>3
      <4> QED
        BY <4>1, <4>2
    <3>6. Noted(next, retold)
      <4> SUFFICES ASSUME NEW i \in DOMAIN retold
                   PROVE  retold[i].id \in DOMAIN next /\ next[retold[i].id].output_index = i - 1
        OBVIOUS
      <4>1. CASE i = n + 1
        BY <2>7, <3>2, <3>3, <3>4, <4>1
      <4>2. CASE i # n + 1
        <5>1. i \in 1 .. n
          BY <3>3, <4>2
        <5>2. retold[i] = items[i] /\ items[i].id \in DOMAIN m /\ m[items[i].id].output_index = i - 1
          BY <2>3, <3>3, <5>1
        <5> QED
          BY <2>7, <3>4, <5>2
      <4> QED
        BY <4>1, <4>2
    <3> QED
      BY <3>5, <3>6
  <2>11. ASSUME ~IsNew(s, d) PROVE Placing(next, retold) /\ Noted(next, retold)
    <3> DEFINE i == m[id].output_index + 1
    <3>1. id \in DOMAIN m /\ w.output_index = m[id].output_index /\ w.name = m[id].name
          /\ w.text = Longer(m[id].text, d.piece)
      BY <2>2, <2>6, <2>11
    <3>2. retold = Lengthened(items, i, d.piece)
      BY <1>3, <2>11 DEF Retold, retold, id
    <3>3. /\ i \in DOMAIN items /\ items[i] = Item(id, m[id].name, m[id].text) /\ items[i].id = id
          /\ \A other \in DOMAIN m : other # id => m[other].output_index + 1 # i
          /\ \A j \in DOMAIN items : items[j].id = id => j = i
      BY <1>1, <3>1, PlaceTells
    <3>4. /\ DOMAIN retold = DOMAIN items /\ Len(retold) = Len(items)
          /\ retold[i] = Item(id, m[id].name, Longer(m[id].text, d.piece))
          /\ \A j \in DOMAIN items : j # i => retold[j] = items[j]
      BY <1>1, <3>2, <3>3, ItemLengthens
    <3>5. retold[i] = Item(id, w.name, w.text) /\ retold[i].id = id
      BY <3>1, <3>4 DEF Item
    <3>6. w.output_index < Len(items) /\ w.output_index + 1 = i /\ w.output_index = i - 1
      <4>1. m[id].output_index \in Nat /\ m[id].output_index < Len(items)
        BY <2>3, <2>9, <3>1
      <4> QED
        BY <3>1, <4>1
    <3>7. DOMAIN items = 1 .. Len(items) /\ Len(items) \in Nat
      BY <1>1
    <3> HIDE DEF i
    <3>8. Placing(next, retold)
      <4> SUFFICES ASSUME NEW x \in DOMAIN next
                   PROVE  /\ next[x].output_index < Len(retold)
                          /\ retold[next[x].output_index + 1] = Item(x, next[x].name, next[x].text)
        OBVIOUS
      <4>1. CASE x = id
        BY <2>7, <3>4, <3>5, <3>6, <4>1
      <4>2. CASE x # id
        <5>1. x \in DOMAIN m /\ next[x] = m[x] /\ m[x].output_index \in Nat /\ m[x].output_index + 1 # i
          BY <2>7, <2>9, <3>3, <4>2
        <5>2. m[x].output_index < Len(items) /\ items[m[x].output_index + 1] = Item(x, m[x].name, m[x].text)
          BY <2>3, <5>1
        <5>3. m[x].output_index + 1 \in DOMAIN items
          BY <3>7, <5>1, <5>2
        <5> QED
          BY <3>4, <5>1, <5>2, <5>3
      <4> QED
        BY <4>1, <4>2
    <3>9. Noted(next, retold)
      <4> SUFFICES ASSUME NEW j \in DOMAIN retold
                   PROVE  retold[j].id \in DOMAIN next /\ next[retold[j].id].output_index = j - 1
        OBVIOUS
      <4>1. CASE j = i
        BY <2>7, <3>5, <3>6, <4>1
      <4>2. CASE j # i
        <5>1. retold[j] = items[j] /\ items[j].id \in DOMAIN m /\ m[items[j].id].output_index = j - 1 /\ items[j].id # id
          BY <2>3, <3>3, <3>4, <4>2
        <5> QED
          BY <2>7, <5>1
      <4> QED
        BY <4>1, <4>2
    <3> QED
      BY <3>8, <3>9
  <2> QED
    BY <2>8, <2>10, <2>11 DEF ItemsMatch
<1> QED
  BY <1>2, <1>3

\* An item and its payload are of one kind.
LEMMA KindTells ==
  ASSUME NEW d \in Pieces, d.kind # "none"
  PROVE  /\ d.kind \in BlockKinds /\ PayloadId(d) \in ItemIds /\ KindOf(PayloadId(d)) = d.kind
         /\ \A id \in ItemIds : /\ KindOf(id) = d.kind => id.kind = PayloadId(d).kind
                                /\ id.kind = PayloadId(d).kind /\ id.key = PayloadId(d).key => id = PayloadId(d)
<1>1. d.kind \in {"thinking", "text", "tool_use"} /\ d.key \in Nat
  BY DEF Pieces, BlockKinds
<1>2. PayloadId(d) = ItemId(CASE d.kind = "thinking" -> "reasoning"
                              [] d.kind = "text" -> "message"
                              [] d.kind = "tool_use" -> "function_call",
                            IF d.kind = "tool_use" THEN d.key ELSE 0)
  BY <1>1 DEF PayloadId
<1> QED
  BY <1>1, <1>2 DEF ItemId, ItemIds, KindOf, BlockKinds

\* The items of a Responses client say what was said.
LEMMA ClientConveys ==
  ASSUME NEW s, NEW c, FollowsResponses(s, c), NEW d \in Pieces, ItemsMatch(s.items, c.items),
         NEW answer, NEW next, Conveys(Entries(c.items), answer), NamesDiffer(answer.calls), Says(answer, next, d),
         d.kind = "tool_use" /\ IsCalled(answer, NameOf(d.key)) => PayloadId(d) \in DOMAIN s.items
  PROVE  Conveys(Entries(Retold(s, c.items, d)), next)
<1> DEFINE id == PayloadId(d)
           m == s.items
           items == c.items
           blocks == Entries(items)
           retold == Retold(s, items, d)
           name == NameOf(d.key)
           i == m[id].output_index + 1
<1>1. /\ s \in ResponsesStates /\ items \in Seq(Items) /\ m \in Maps(ItemIds, Places)
      /\ d.piece \in Nat /\ d.name \in Nat /\ d.key \in Nat /\ d.kind \in BlockKinds \cup {"none"}
  BY DEF FollowsResponses, ResponsesStates, ResponsesClients, Pieces
<1>2. CASE d.kind = "none"
  BY <1>2 DEF Retold, Says, Speaks, Conveys
<1>3. ASSUME d.kind # "none" PROVE Conveys(Entries(retold), next)
  <2>1. /\ d.kind \in BlockKinds /\ id \in ItemIds /\ KindOf(id) = d.kind
        /\ \A x \in ItemIds : /\ KindOf(x) = d.kind => x.kind = id.kind
                              /\ x.kind = id.kind /\ x.key = id.key => x = id
    BY <1>3, KindTells
  <2>2. IsNew(s, d) <=> id \notin DOMAIN m
    BY <1>1, <1>3, ItemTells
  <2>3. blocks \in Seq(ReaderBlocks) /\ Len(blocks) = Len(items) /\ DOMAIN blocks = DOMAIN items
        /\ \A j \in DOMAIN items : blocks[j].kind = KindOf(items[j].id) /\ blocks[j].name = items[j].name
    BY <1>1, EntriesTell
  <2>4. ASSUME id \notin DOMAIN m, Gains(answer, next, d.kind, d.name, d.piece) PROVE Conveys(Entries(retold), next)
    <3>1. retold = Append(items, Item(id, d.name, Uttered(d.piece)))
      BY <1>3, <2>2, <2>4 DEF Retold
    <3>2. Uttered(d.piece) \in Seq(Nat)
      BY <1>1 DEF Uttered
    <3> HIDE DEF id
    <3>3. Entries(retold) = Append(blocks, Block(d.kind, d.name, Uttered(d.piece)))
      BY <1>1, <2>1, <3>1, <3>2, EntriesGrow
    <3> HIDE DEF blocks, retold
    <3>4. Conveys(blocks, answer)
      BY DEF blocks
    <3>5. Conveys(Append(blocks, Block(d.kind, d.name, Uttered(d.piece))), next)
      BY <1>1, <2>1, <2>3, <2>4, <3>4, ConveysGrows
    <3> QED
      BY <3>3, <3>5
  <2>5. ASSUME id \in DOMAIN m
        PROVE  /\ i \in DOMAIN items /\ items[i].id = id /\ items[i].name = m[id].name
               /\ \A j \in DOMAIN items : items[j].id = id => j = i
               /\ Entries(retold) = Lengthened(blocks, i, d.piece)
               /\ blocks[i].kind = d.kind /\ blocks[i].name = m[id].name
    <3>1. /\ i \in DOMAIN items /\ items[i].id = id /\ items[i].name = m[id].name
          /\ \A j \in DOMAIN items : items[j].id = id => j = i
      BY <1>1, <2>5, PlaceTells
    <3>2. retold = Lengthened(items, i, d.piece)
      BY <1>3, <2>2, <2>5 DEF Retold
    <3> HIDE DEF i, id
    <3>3. Entries(retold) = Lengthened(blocks, i, d.piece)
      BY <1>1, <3>1, <3>2, EntriesLengthen
    <3> QED
      BY <2>1, <2>3, <3>1, <3>3
  <2>6. \A x \in DOMAIN m : x \in ItemIds
    BY <1>1, MapsTell
  <2>7. CASE d.kind \in {"thinking", "text"}
    <3>1. d.name = 0 /\ Gains(answer, next, d.kind, 0, d.piece)
      BY <2>7 DEF Says, Speaks
    <3>2. CASE id \notin DOMAIN m
      BY <2>4, <3>1, <3>2
    <3>3. CASE id \in DOMAIN m
      <4>1. id.kind # "function_call" /\ id.key = 0
        BY <2>1, <2>7 DEF PayloadId, ItemId
      <4>2. ASSUME NEW j \in DOMAIN items, KindOf(items[j].id) = d.kind PROVE items[j].id = id
        <5>1. items[j].id \in DOMAIN m /\ items[j].id \in ItemIds
          BY <2>6 DEF ItemsMatch
        <5>2. items[j].id.kind = id.kind
          BY <2>1, <4>2, <5>1
        <5>3. items[j].id.key = 0
          BY <4>1, <5>1, <5>2 DEF ItemsMatch
        <5> QED
          BY <2>1, <4>1, <5>1, <5>2, <5>3
      <4>3. i \in DOMAIN items /\ (\A j \in DOMAIN items : items[j].id = id => j = i)
            /\ Entries(retold) = Lengthened(blocks, i, d.piece) /\ blocks[i].kind = d.kind
        BY <2>5, <3>3
      <4> HIDE DEF i, id, retold
      <4>4. \A j \in DOMAIN blocks : j > i => blocks[j].kind # blocks[i].kind
        <5> SUFFICES ASSUME NEW j \in DOMAIN items, j > i, blocks[j].kind = d.kind PROVE FALSE
          BY <2>3, <4>3
        <5>1. j = i
          BY <2>3, <4>2, <4>3
        <5>2. i \in Nat
          BY <1>1, <4>3
        <5> QED
          BY <5>1, <5>2
      <4> HIDE DEF blocks
      <4>5. Conveys(blocks, answer) /\ i \in DOMAIN blocks
        BY <2>3, <4>3 DEF blocks
      <4>6. blocks[i].kind \in {"thinking", "text"} /\ Gains(answer, next, blocks[i].kind, 0, d.piece)
        BY <2>7, <3>1, <4>3
      <4>7. Conveys(Lengthened(blocks, i, d.piece), next)
        BY <1>1, <2>3, <4>4, <4>5, <4>6, ConveysLengthens
      <4> QED
        BY <4>3, <4>7
    <3> QED
      BY <3>2, <3>3
  <2>8. CASE d.kind = "tool_use"
    <3>1. CASE id \notin DOMAIN m
      <4>1. d.name = name /\ Gains(answer, next, "tool_use", d.name, d.piece)
        BY <2>8, <3>1 DEF Says, Speaks
      <4> QED
        BY <2>4, <2>8, <3>1, <4>1
    <3>2. CASE id \in DOMAIN m
      <4>1. id.kind = "function_call" /\ id.key = d.key
        BY <2>8 DEF PayloadId, ItemId
      <4>2. m[id].name = name
        BY <3>2, <4>1 DEF ItemsMatch
      <4>3. /\ i \in DOMAIN items /\ Entries(retold) = Lengthened(blocks, i, d.piece)
            /\ blocks[i].kind = "tool_use" /\ blocks[i].name = name
        BY <2>5, <2>8, <3>2, <4>2
      <4> HIDE DEF i, id, retold, blocks
      <4>4. Conveys(blocks, answer) /\ i \in DOMAIN blocks
        BY <2>3, <4>3 DEF blocks
      <4>5. IsCalled(answer, name)
        BY <2>3, <4>3, <4>4, CallSaid
      <4>6. d.piece \in Nat \ {0} /\ Argues(answer, next, name, d.piece)
        BY <1>1, <2>8, <4>5 DEF Says, Speaks
      <4> HIDE DEF name
      <4>7. Argues(answer, next, blocks[i].name, d.piece)
        BY <4>3, <4>6
      <4>8. Conveys(Lengthened(blocks, i, d.piece), next)
        BY <2>3, <4>3, <4>4, <4>6, <4>7, ConveysArgues
      <4> QED
        BY <4>3, <4>8
    <3> QED
      BY <3>1, <3>2
  <2> QED
    BY <2>1, <2>7, <2>8 DEF BlockKinds
<1> QED
  BY <1>2, <1>3

\* What the items say is what their blocks say.
LEMMA ItemsConvey ==
  ASSUME NEW items \in Seq(Items), NEW answer, Conveys(Entries(items), answer)
  PROVE  /\ TextOf(OfKind(items, "reasoning")) = answer.thinking
         /\ TextOf(OfKind(items, "message")) = answer.text
         /\ Bare(OfKind(items, "function_call")) = answer.calls
<1> DEFINE e == Entries(items)
           Those(kind) == {i \in DOMAIN items : items[i].id.kind = kind}
           Texts(s) == [i \in DOMAIN s |-> s[i].text]
           Bares(s) == [i \in DOMAIN s |-> [name |-> s[i].name, text |-> s[i].text]]
<1>1. e \in Seq(ReaderBlocks) /\ DOMAIN e = DOMAIN items
      /\ \A i \in DOMAIN items : e[i].kind = KindOf(items[i].id) /\ e[i].name = items[i].name /\ e[i].text = items[i].text
  BY EntriesTell
<1>2. \A i \in DOMAIN items : items[i].id \in ItemIds
  <2>1. \A i \in DOMAIN items : items[i] \in Items
    OBVIOUS
  <2> QED
    BY <2>1 DEF Items
<1> HIDE DEF e
<1>3. /\ Kept(e, "thinking") = Subsequence(e, Those("reasoning"))
      /\ Kept(e, "text") = Subsequence(e, Those("message"))
      /\ Kept(e, "tool_use") = Subsequence(e, Those("function_call"))
  <2>1. ASSUME NEW i \in DOMAIN items
        PROVE  /\ e[i].kind = "thinking" <=> items[i].id.kind = "reasoning"
               /\ e[i].kind = "text" <=> items[i].id.kind = "message"
               /\ e[i].kind = "tool_use" <=> items[i].id.kind = "function_call"
    BY <1>1, <1>2 DEF KindOf, ItemIds
  <2>2. /\ {i \in DOMAIN e : e[i].kind = "thinking"} = Those("reasoning")
        /\ {i \in DOMAIN e : e[i].kind = "text"} = Those("message")
        /\ {i \in DOMAIN e : e[i].kind = "tool_use"} = Those("function_call")
    BY <1>1, <2>1
  <2> HIDE DEF Those
  <2> QED
    BY <2>2 DEF Kept
<1>4. ASSUME NEW kind
      PROVE  /\ Texts(OfKind(items, kind)) = Texts(Subsequence(e, Those(kind)))
             /\ Bares(OfKind(items, kind)) = Bares(Subsequence(e, Those(kind)))
  <2> DEFINE K == Those(kind)
             a == Subsequence(items, K)
             b == Subsequence(e, K)
             n == Cardinality(K)
  <2>1. K \in SUBSET DOMAIN items /\ OfKind(items, kind) = a
    BY DEF OfKind
  <2> HIDE DEF K, Those
  <2>2. a \in Seq(Items) /\ Len(a) = n /\ \A x \in 1 .. n : Nth(K, x) \in K /\ a[x] = items[Nth(K, x)]
    BY <2>1, SubsequenceTells
  <2>3. b \in Seq(ReaderBlocks) /\ Len(b) = n /\ \A x \in 1 .. n : b[x] = e[Nth(K, x)]
    <3>1. K \in SUBSET DOMAIN e
      BY <1>1, <2>1
    <3> QED
      BY <1>1, <3>1, SubsequenceTells
  <2> HIDE DEF a, b, n
  <2>4. DOMAIN a = 1 .. n /\ DOMAIN b = 1 .. n
    BY <2>2, <2>3
  <2>5. ASSUME NEW x \in 1 .. n PROVE a[x].text = b[x].text /\ a[x].name = b[x].name
    <3>1. Nth(K, x) \in DOMAIN items
      BY <2>1, <2>2
    <3> QED
      BY <1>1, <2>2, <2>3, <3>1
  <2>6. Texts(a) = Texts(b) /\ Bares(a) = Bares(b)
    BY <2>4, <2>5
  <2> QED
    BY <2>1, <2>6 DEF a, b, K
<1> HIDE DEF Texts, Bares
<1>5. \A s : TextOf(s) = Joint(Texts(s)) /\ Bare(s) = Bares(s)
  BY DEF TextOf, Bare, Texts, Bares
<1>6. /\ TextOf(Kept(e, "thinking")) = answer.thinking
      /\ TextOf(Kept(e, "text")) = answer.text
      /\ Bare(Kept(e, "tool_use")) = answer.calls
  BY DEF Conveys, e
<1> HIDE DEF Those
<1> QED
  BY <1>3, <1>4, <1>5, <1>6

\* A Chat Completions client has what the answer says; its calls are in a map.
Hears(c, answer) ==
  /\ DOMAIN c = {"at", "thinking", "text", "calls", "finish", "usage"}
  /\ c.thinking = answer.thinking /\ c.text = answer.text
  /\ \A k \in DOMAIN c.calls : k \in Nat /\ c.calls[k].name = NameOf(k)
  /\ Range(c.calls) = Range(answer.calls)

\* A call that is heard, or heard of, is one of the answer.
LEMMA CallHeardOf ==
  ASSUME NEW c, NEW answer, Hears(c, answer), NEW k \in Nat
  PROVE  IsCalled(answer, NameOf(k)) <=> k \in DOMAIN c.calls
<1> DEFINE calls == c.calls
           said_calls == answer.calls
<1>1. \A x : (\E j \in DOMAIN calls : x = calls[j]) <=> (\E i \in DOMAIN said_calls : x = said_calls[i])
  <2>1. \A x : x \in Range(calls) <=> x \in Range(said_calls)
    BY DEF Hears
  <2> HIDE DEF calls, said_calls
  <2> QED
    BY <2>1 DEF Range
<1>2. \A j \in DOMAIN calls : j \in Nat /\ calls[j].name = NameOf(j)
  BY DEF Hears
<1> HIDE DEF calls, said_calls
<1>3. ASSUME k \in DOMAIN calls PROVE \E i \in DOMAIN said_calls : said_calls[i].name = NameOf(k)
  BY <1>1, <1>2, <1>3
<1>4. ASSUME NEW i \in DOMAIN said_calls, said_calls[i].name = NameOf(k) PROVE k \in DOMAIN calls
  <2>1. PICK j \in DOMAIN calls : said_calls[i] = calls[j]
    BY <1>1
  <2>2. j \in Nat /\ NameOf(j) = NameOf(k)
    BY <1>2, <1>4, <2>1
  <2>3. j = k
    BY <2>2 DEF NameOf
  <2> QED
    BY <2>3
<1> QED
  BY <1>3, <1>4 DEF IsCalled, calls, said_calls

\* The calls of a Chat Completions client go on as those of the answer do.
LEMMA CallHeardTells ==
  ASSUME NEW c, NEW answer, Hears(c, answer), answer.calls \in Seq(SaidCalls), NEW next, NEW d \in Pieces,
         d.kind = "tool_use", Says(answer, next, d)
  PROVE  LET calls == CallHeard(c.calls, d)
         IN  /\ \A k \in DOMAIN calls : k \in Nat /\ calls[k].name = NameOf(k)
             /\ Range(calls) = Range(next.calls)
<1> DEFINE was == c.calls
           said_calls == answer.calls
           calls == CallHeard(was, d)
           k == d.key
           name == NameOf(k)
           piece == d.piece
           new == [name |-> name, text |-> Uttered(piece)]
           known == IF k \in DOMAIN was THEN was[k] ELSE [name |-> d.name, text |-> <<>>]
           entry == IF piece = 0 THEN known ELSE [known EXCEPT !.text = Append(known.text, piece)]
<1>1. k \in Nat /\ piece \in Nat /\ (IsCalled(answer, name) <=> k \in DOMAIN was) /\ name \in Nat
  <2>1. k \in Nat /\ piece \in Nat
    BY DEF Pieces
  <2>2. IsCalled(answer, NameOf(k)) <=> k \in DOMAIN was
    BY <2>1, CallHeardOf
  <2>3. name \in Nat
    BY <2>1 DEF NameOf
  <2> QED
    BY <2>1, <2>2, <2>3
<1>2. \A j \in DOMAIN was : j \in Nat /\ was[j].name = NameOf(j)
  BY DEF Hears
<1>3. Range(was) = Range(said_calls) /\ said_calls \in Seq(SaidCalls)
  BY DEF Hears
<1>4. calls = WithEntry(was, k, entry)
  BY DEF CallHeard
<1>5. \A j \in DOMAIN was : was[j] \in SaidCalls
  <2> SUFFICES ASSUME NEW j \in DOMAIN was PROVE was[j] \in SaidCalls
    OBVIOUS
  <2>1. was[j] \in Range(said_calls)
    BY <1>3 DEF Range
  <2> HIDE DEF was, said_calls
  <2>2. PICK i \in DOMAIN said_calls : was[j] = said_calls[i]
    BY <2>1 DEF Range
  <2> QED
    BY <1>3, <2>2
<1>6. DOMAIN calls = DOMAIN was \cup {k} /\ calls[k] = entry /\ \A j \in DOMAIN was : j # k => calls[j] = was[j]
  <2> HIDE DEF entry, was, calls, k
  <2> QED
    BY <1>4 DEF WithEntry
<1>7. CASE k \notin DOMAIN was
  <2>1. d.name = name /\ next.calls = Append(said_calls, new)
    BY <1>1, <1>7 DEF Says, Speaks, Gains
  <2>2. entry = new
    <3>1. known = [name |-> name, text |-> <<>>] /\ known.text = <<>>
      BY <1>7, <2>1
    <3>2. CASE piece = 0
      BY <3>1, <3>2 DEF Uttered
    <3>3. CASE piece # 0
      <4>1. Append(<<>>, piece) = <<piece>>
        OBVIOUS
      <4> HIDE DEF known
      <4>2. entry = [known EXCEPT !.text = <<piece>>]
        BY <3>1, <3>3, <4>1
      <4>3. \A x : x = [name |-> name, text |-> <<>>] => [x EXCEPT !.text = <<piece>>] = [name |-> name, text |-> <<piece>>]
        OBVIOUS
      <4> QED
        BY <3>1, <3>3, <4>2, <4>3 DEF Uttered
    <3> QED
      BY <3>2, <3>3
  <2>3. new \in SaidCalls /\ new.name = name
    <3>1. Uttered(piece) \in Seq(Nat)
      BY <1>1 DEF Uttered
    <3> HIDE DEF name
    <3> QED
      BY <1>1, <3>1 DEF SaidCalls
  <2> DEFINE more == Append(said_calls, new)
             n == Len(said_calls)
  <2> HIDE DEF new, entry, calls, was, said_calls, known
  <2>4. /\ n \in Nat /\ DOMAIN said_calls = 1 .. n /\ DOMAIN more = 1 .. n + 1 /\ more[n + 1] = new
        /\ \A i \in 1 .. n : more[i] = said_calls[i]
    BY <1>3, <2>3
  <2> HIDE DEF more, n
  <2>5. Range(more) = Range(said_calls) \cup {new}
    <3>1. \A i : i \in 1 .. n + 1 <=> i \in 1 .. n \/ i = n + 1
      BY <2>4
    <3> QED
      BY <2>4, <3>1 DEF Range
  <2>6. Range(calls) = Range(was) \cup {entry}
    BY <1>6, <1>7 DEF Range
  <2>7. \A j \in DOMAIN calls : j \in Nat /\ calls[j].name = NameOf(j)
    BY <1>1, <1>2, <1>6, <2>2, <2>3
  <2> QED
    BY <1>3, <2>1, <2>2, <2>5, <2>6, <2>7 DEF more, calls, was
<1>8. CASE k \in DOMAIN was
  <2> DEFINE Further(x) == IF x.name = name THEN [x EXCEPT !.text = Append(x.text, piece)] ELSE x
             argued == [i \in DOMAIN said_calls |-> Further(said_calls[i])]
  <2>1. piece # 0 /\ next.calls = argued
    BY <1>1, <1>8 DEF Says, Speaks, Argues
  <2>2. entry = Further(was[k])
    BY <1>2, <1>8, <2>1
  <2>3. \A j \in DOMAIN was : j # k => Further(was[j]) = was[j]
    <3> SUFFICES ASSUME NEW j \in DOMAIN was, j # k PROVE Further(was[j]) = was[j]
      OBVIOUS
    <3>1. was[j].name # name
      BY <1>1, <1>2 DEF NameOf
    <3> QED
      BY <3>1
  <2>4. entry.name = name
    <3> DEFINE x == was[k]
               text == Append(x.text, piece)
    <3>1. x \in SaidCalls /\ x.name = name
      BY <1>2, <1>5, <1>8
    <3>2. entry = [x EXCEPT !.text = text]
      BY <2>1, <1>8
    <3> HIDE DEF x, text, entry
    <3> QED
      BY <3>1, <3>2 DEF SaidCalls
  <2> HIDE DEF Further, entry, calls, was, said_calls, known, name, argued
  <2>5. \A j \in DOMAIN was : calls[j] = Further(was[j])
    BY <1>6, <2>2, <2>3
  <2>6. DOMAIN calls = DOMAIN was
    BY <1>6, <1>8
  <2>7. Range(calls) = {Further(x) : x \in Range(was)}
    BY <2>5, <2>6 DEF Range
  <2>8. Range(argued) = {Further(x) : x \in Range(said_calls)}
    BY DEF Range, argued
  <2>9. \A j \in DOMAIN calls : j \in Nat /\ calls[j].name = NameOf(j)
    <3>1. calls[k].name = NameOf(k)
      BY <1>6, <2>4 DEF name
    <3> QED
      BY <1>1, <1>2, <1>6, <3>1
  <2> QED
    BY <1>3, <2>1, <2>7, <2>8, <2>9 DEF calls, was
<1> QED
  BY <1>7, <1>8

\* A Chat Completions client is passed what the answer says more.
LEMMA HeardConveys ==
  ASSUME NEW c, NEW answer, Hears(c, answer), answer.calls \in Seq(SaidCalls), NEW next, NEW d \in Pieces,
         Says(answer, next, d), d.kind \in {"thinking", "text"} => d.piece # 0, NEW finish, NEW usage
  PROVE  Hears(Heard(c, d, finish, usage), next)
<1> DEFINE thinking == IF d.kind = "thinking" THEN Append(c.thinking, d.piece) ELSE c.thinking
           text == IF d.kind = "text" THEN Append(c.text, d.piece) ELSE c.text
           calls == IF d.kind = "tool_use" THEN CallHeard(c.calls, d) ELSE c.calls
           reason == IF finish = "none" THEN c.finish ELSE finish
           account == Counted(c.usage, usage)
           heard == Heard(c, d, finish, usage)
<1>1. heard = [c EXCEPT !.thinking = thinking, !.text = text, !.calls = calls, !.finish = reason, !.usage = account]
  BY DEF Heard
<1>2. DOMAIN c = {"at", "thinking", "text", "calls", "finish", "usage"}
  BY DEF Hears
<1> HIDE DEF thinking, text, calls, reason, account, heard
<1>3. DOMAIN heard = DOMAIN c /\ heard.thinking = thinking /\ heard.text = text /\ heard.calls = calls
  BY <1>1, <1>2
<1>4. thinking = next.thinking /\ text = next.text
  <2>1. d.kind \in {"none", "thinking", "text", "tool_use"} /\ c.thinking = answer.thinking /\ c.text = answer.text
    BY DEF Pieces, BlockKinds, Hears
  <2>2. CASE d.kind = "none"
    BY <2>1, <2>2 DEF thinking, text, Says, Speaks
  <2>3. CASE d.kind \in {"thinking", "text"}
    BY <2>1, <2>3 DEF thinking, text, Says, Speaks, Gains, Longer
  <2>4. CASE d.kind = "tool_use"
    BY <2>1, <2>4 DEF thinking, text, Says, Speaks, Gains, Argues
  <2> QED
    BY <2>1, <2>2, <2>3, <2>4
<1>5. (\A k \in DOMAIN calls : k \in Nat /\ calls[k].name = NameOf(k)) /\ Range(calls) = Range(next.calls)
  <2>1. CASE d.kind = "tool_use"
    BY <2>1, CallHeardTells DEF calls
  <2>2. CASE d.kind # "tool_use"
    <3>1. next.calls = answer.calls
      BY <2>2 DEF Says, Speaks, Gains, Pieces, BlockKinds
    <3> QED
      BY <2>2, <3>1 DEF calls, Hears
  <2> QED
    BY <2>1, <2>2
<1> QED
  BY <1>2, <1>3, <1>4, <1>5 DEF Hears, heard

----------------------------------------------------------------------------
(* What is assembled behind a second gateway (Streams) *)

\* What the second gateway's translator is given of a chunk, when it knows the names in pending.
Echo(s, d, pending) ==
  Payload(d.kind, IF d.kind = "tool_use" THEN ItemOf(s, d).output_index ELSE 0,
          IF PayloadId(d) \in DOMAIN pending THEN pending[PayloadId(d)] ELSE 0, d.piece)

\* The names it knows after the chunk.
Learnt(s, d, pending) ==
  IF IsNew(s, d) /\ d.kind = "tool_use" THEN WithEntry(pending, PayloadId(d), d.name) ELSE pending

\* A payload is told by the kind of its item.
LEMMA EchoTells ==
  ASSUME NEW d \in Pieces, d.kind # "none"
  PROVE  /\ KindOf(PayloadId(d)) = d.kind
         /\ PayloadId(d).kind = "function_call" <=> d.kind = "tool_use"
<1>1. d.kind \in {"thinking", "text", "tool_use"} /\ d.key \in Nat
  BY DEF Pieces, BlockKinds
<1>2. CASE d.kind = "thinking"
  BY <1>2 DEF PayloadId, ItemId, KindOf
<1>3. CASE d.kind = "text"
  BY <1>3 DEF PayloadId, ItemId, KindOf
<1>4. CASE d.kind = "tool_use"
  BY <1>4 DEF PayloadId, ItemId, KindOf
<1> QED
  BY <1>1, <1>2, <1>3, <1>4

\* A chunk reaches the second gateway as its announcement and its piece.
LEMMA RelayedTells ==
  ASSUME NEW s \in ResponsesStates, NEW d \in Pieces, d.kind = "none" => d.piece = 0, NEW f \in Relays
  PROVE  RelayAll(f, Translation(s, d)) =
           [pending |-> Learnt(s, d, f.pending),
            gateway |-> IF d.piece = 0 THEN f.gateway
                        ELSE Take(f.gateway, Echo(s, d, Learnt(s, d, f.pending)), "none", 0)]
<1> DEFINE id == PayloadId(d)
           at == ItemOf(s, d).output_index
           new == Item(id, d.name, <<>>)
           e1 == IF Creates(s) = 0 THEN Silence ELSE [type |-> "response.created", sequence |-> s.sequence]
           e2 == IF Adds(s, d) = 0 THEN Silence
                 ELSE [type |-> "response.output_item.added", sequence |-> s.sequence + Creates(s),
                       output_index |-> at, item |-> new]
           e3 == IF Parts(s, d) = 0 THEN Silence
                 ELSE [type |-> "response.content_part.added", sequence |-> s.sequence + Creates(s) + 1,
                       output_index |-> at, item_id |-> id]
           e4 == IF Deltas(d) = 0 THEN Silence
                 ELSE [type |-> "delta", sequence |-> s.sequence + Creates(s) + Adds(s, d) + Parts(s, d),
                       output_index |-> at, item_id |-> id, piece |-> d.piece]
           learnt == Learnt(s, d, f.pending)
           f1 == Relay(f, e1)
           f2 == Relay(f1, e2)
           f3 == Relay(f2, e3)
           f4 == Relay(f3, e4)
<1>1. RelayAll(f, Translation(s, d)) = f4
  <2>1. Translation(s, d) = <<e1, e2, e3, e4>>
    BY DEF Translation
  <2> HIDE DEF e1, e2, e3, e4
  <2> QED
    BY <2>1, RelayTells
<1>2. e1.type \in {"silence", "response.created"} /\ e3.type \in {"silence", "response.content_part.added"}
  BY DEF Silence
<1>3. IF IsNew(s, d) THEN e2.type = "response.output_item.added" /\ e2.item = new ELSE e2.type = "silence"
  BY DEF Adds, Silence
<1>4. IF d.piece = 0 THEN e4.type = "silence"
      ELSE e4.type = "delta" /\ e4.output_index = at /\ e4.item_id = id /\ e4.piece = d.piece
  BY DEF Deltas, Silence
<1>5. IsNew(s, d) => d.kind # "none"
  BY DEF IsNew
<1> HIDE DEF e1, e2, e3, e4, at
<1>6. f1 = f
  BY <1>2, RelayIgnores
<1>7. f2 = [pending |-> learnt, gateway |-> f.gateway]
  <2> HIDE DEF f1
  <2>1. CASE IsNew(s, d)
    <3>1. new.id = id /\ new.name = d.name
      BY DEF Item
    <3>2. id.kind = "function_call" <=> d.kind = "tool_use"
      BY <1>5, <2>1, EchoTells
    <3> HIDE DEF id, new
    <3>3. Announced(f.pending, e2) = IF d.kind = "tool_use" THEN WithEntry(f.pending, id, d.name) ELSE f.pending
      BY <1>3, <2>1, <3>1, <3>2 DEF Announced
    <3>4. learnt = Announced(f.pending, e2)
      BY <2>1, <3>3 DEF Learnt, id
    <3> HIDE DEF learnt
    <3>5. f2 = [pending |-> Announced(f.pending, e2), gateway |-> f.gateway]
      BY <1>3, <1>6, <2>1 DEF Relay
    <3> QED
      BY <3>4, <3>5
  <2>2. CASE ~IsNew(s, d)
    <3>1. f2 = f /\ learnt = f.pending
      BY <1>3, <1>6, <2>2, RelayIgnores DEF Learnt
    <3> HIDE DEF f2, learnt
    <3> QED
      BY <3>1 DEF Relays
  <2> QED
    BY <2>1, <2>2
<1> HIDE DEF f2, learnt
<1>8. f3 = f2
  <2>1. Announced(f2.pending, e3) = f2.pending
    BY <1>2 DEF Announced
  <2>2. f3 = [pending |-> f2.pending, gateway |-> f2.gateway]
    BY <1>2, <2>1 DEF Relay
  <2> QED
    BY <1>7, <2>2
<1> HIDE DEF f3
<1>9. f4 = [pending |-> learnt,
            gateway |-> IF d.piece = 0 THEN f.gateway ELSE Take(f.gateway, Echo(s, d, learnt), "none", 0)]
  <2>1. f3.pending = learnt /\ f3.gateway = f.gateway /\ f3 = [pending |-> learnt, gateway |-> f.gateway]
    BY <1>7, <1>8
  <2>2. Announced(learnt, e4) = learnt
    BY <1>4 DEF Announced
  <2>3. CASE d.piece = 0
    BY <1>4, <2>1, <2>2, <2>3 DEF Relay
  <2>4. CASE d.piece # 0
    <3>1. f4 = [pending |-> learnt, gateway |-> Take(f.gateway, ChunkOf(e4, learnt), "none", 0)]
      BY <1>4, <2>1, <2>2, <2>4 DEF Relay
    <3>2. d.kind # "none"
      BY <2>4
    <3>3. KindOf(id) = d.kind /\ (id.kind = "function_call" <=> d.kind = "tool_use")
      BY <3>2, EchoTells
    <3> HIDE DEF id
    <3>4. ChunkOf(e4, learnt) = Payload(d.kind, IF d.kind = "tool_use" THEN at ELSE 0,
                                        IF id \in DOMAIN learnt THEN learnt[id] ELSE 0, d.piece)
      BY <1>4, <2>4, <3>3 DEF ChunkOf, Label
    <3>5. ChunkOf(e4, learnt) = Echo(s, d, learnt)
      BY <3>4 DEF Echo, id, at
    <3> QED
      BY <2>4, <3>1, <3>5
  <2> QED
    BY <2>3, <2>4
<1> QED
  BY <1>1, <1>9 DEF learnt

\* A chunk gives the translator no other key than its own.
LEMMA KeysTell ==
  ASSUME NEW s \in Translators, NEW d
  PROVE  DOMAIN After(s, d).tools \subseteq DOMAIN s.tools \cup (IF d.kind = "tool_use" THEN {d.key} ELSE {})
<1> DEFINE opened == Opened(s, d)
           tools == IF d.kind = "tool_use" THEN WithEntry(s.tools, d.key, BlockOf(s, d)) ELSE s.tools
           Keys == DOMAIN s.tools \cup (IF d.kind = "tool_use" THEN {d.key} ELSE {})
           Shape == {"started", "index", "open", "open_index", "open_tool", "tools", "stop_reason"}
<1>1. DOMAIN s = Shape
  BY DEF Translators
<1>2. DOMAIN opened = Shape /\ opened.tools \in {s.tools, tools}
  <2>1. CASE StaysOpen(s, d)
    BY <1>1, <2>1 DEF Opened
  <2>2. CASE ~StaysOpen(s, d)
    <3> DEFINE at == BlockOf(s, d).index
               index == IF Known(s, d) THEN s.index ELSE s.index + 1
               tool == IF d.kind = "tool_use" THEN d.key ELSE NoKey
    <3>1. opened = [s EXCEPT !.open = d.kind, !.open_index = at, !.index = index, !.open_tool = tool, !.tools = tools]
      BY <2>2 DEF Opened
    <3> HIDE DEF at, index, tool, tools, opened
    <3> QED
      BY <1>1, <3>1
  <2> QED
    BY <2>1, <2>2
<1>3. DOMAIN tools \subseteq Keys
  BY DEF WithEntry
<1> HIDE DEF opened, tools
<1>4. DOMAIN opened.tools \subseteq Keys
  BY <1>2, <1>3
<1>5. After(s, d) = [(IF d.kind = "none" THEN s ELSE opened) EXCEPT !.started = TRUE]
  BY DEF After, opened
<1>6. After(s, d).tools = s.tools \/ After(s, d).tools = opened.tools
  <2>1. CASE d.kind = "none"
    BY <1>1, <1>5, <2>1
  <2>2. CASE d.kind # "none"
    BY <1>2, <1>5, <2>2
  <2> QED
    BY <2>1, <2>2
<1>7. DOMAIN After(s, d).tools \subseteq Keys
  <2> DEFINE after == After(s, d).tools
  <2>1. after = s.tools \/ after = opened.tools
    BY <1>6
  <2> HIDE DEF after
  <2>2. DOMAIN after \subseteq Keys
    BY <1>4, <2>1
  <2> QED
    BY <2>2 DEF after
<1> QED
  BY <1>7

\* A call is given one argument more, and is a call more when there is none of its name.
MoreArgued(calls, name, piece) ==
  IF \E i \in DOMAIN calls : calls[i].name = name
  THEN [i \in DOMAIN calls |-> IF calls[i].name = name
                               THEN [calls[i] EXCEPT !.text = Append(@, piece)] ELSE calls[i]]
  ELSE Append(calls, [name |-> name, text |-> <<piece>>])

\* Calls as a set: the one of that name is replaced, or there is one more.
ArgumentMore(all, next, name, piece) ==
  \/ \E call \in all :
       call.name = name /\ next = (all \ {call}) \cup {[name |-> name, text |-> Append(call.text, piece)]}
  \/ (\A call \in all : call.name # name) /\ next = all \cup {[name |-> name, text |-> <<piece>>]}

LEMMA MoreArguedTells ==
  ASSUME NEW calls \in Seq(SaidCalls), NamesDiffer(calls), NEW name \in Nat, NEW piece \in Nat \ {0}
  PROVE  LET more == MoreArgued(calls, name, piece)
         IN  /\ more \in Seq(SaidCalls) /\ NamesDiffer(more)
             /\ ArgumentMore(Range(calls), Range(more), name, piece)
<1> DEFINE n == Len(calls)
           more == MoreArgued(calls, name, piece)
<1>1. n \in Nat /\ DOMAIN calls = 1 .. n /\ \A i \in 1 .. n : calls[i] \in SaidCalls
  OBVIOUS
<1>2. Range(calls) = {calls[i] : i \in 1 .. n}
  BY <1>1 DEF Range
<1>3. ASSUME NEW j \in 1 .. n, calls[j].name = name
      PROVE  /\ more \in Seq(SaidCalls) /\ NamesDiffer(more)
             /\ calls[j] \in Range(calls)
             /\ Range(more) = (Range(calls) \ {calls[j]}) \cup {[name |-> name, text |-> Append(calls[j].text, piece)]}
  <2> DEFINE new == [name |-> name, text |-> Append(calls[j].text, piece)]
             Changed(i) == [calls[i] EXCEPT !.text = Append(calls[i].text, piece)]
             text == Append(calls[j].text, piece)
  <2>1. more = [i \in 1 .. n |-> IF calls[i].name = name THEN Changed(i) ELSE calls[i]]
    BY <1>1, <1>3 DEF MoreArgued
  <2>2. \A i \in 1 .. n : calls[i].name = name => i = j
    BY <1>1, <1>3 DEF NamesDiffer
  <2>3. Changed(j) = new /\ new \in SaidCalls /\ new.name = name
    <3> DEFINE was == calls[j]
    <3>1. was \in SaidCalls /\ was.name = name /\ text \in Seq(Nat)
      BY <1>1, <1>3 DEF SaidCalls
    <3> HIDE DEF text, was
    <3>2. \A x, b : x = [name |-> name, text |-> b] => [x EXCEPT !.text = text] = [name |-> name, text |-> text]
      OBVIOUS
    <3>3. [name |-> name, text |-> text] \in SaidCalls
      BY <3>1 DEF SaidCalls
    <3>4. was = [name |-> name, text |-> was.text]
      BY <3>1 DEF SaidCalls
    <3>5. [was EXCEPT !.text = text] = [name |-> name, text |-> text]
      BY <3>2, <3>4
    <3> QED
      BY <3>3, <3>5 DEF text, was
  <2> HIDE DEF more, new, Changed
  <2>4. more = [i \in 1 .. n |-> IF i = j THEN new ELSE calls[i]]
    BY <1>3, <2>1, <2>2, <2>3
  <2>5. more \in Seq(SaidCalls) /\ DOMAIN more = 1 .. n /\ more[j] = new /\ \A i \in 1 .. n : i # j => more[i] = calls[i]
    BY <1>1, <2>3, <2>4
  <2>6. \A i \in 1 .. n : more[i].name = calls[i].name
    BY <1>3, <2>3, <2>5
  <2>7. NamesDiffer(more)
    BY <1>1, <2>5, <2>6 DEF NamesDiffer
  <2>8. \A i \in 1 .. n : i # j => calls[i] # calls[j]
    BY <1>3, <2>2
  <2>9. Range(more) = {more[i] : i \in 1 .. n}
    BY <2>5 DEF Range
  <2>10. Range(more) = (Range(calls) \ {calls[j]}) \cup {new}
    <3>1. ASSUME NEW x \in Range(more) PROVE x \in (Range(calls) \ {calls[j]}) \cup {new}
      BY <1>2, <2>5, <2>8, <2>9
    <3>2. ASSUME NEW x \in Range(calls), x # calls[j] PROVE x \in Range(more)
      BY <1>2, <2>5, <2>9, <3>2
    <3>3. new \in Range(more)
      BY <2>5, <2>9
    <3> QED
      BY <3>1, <3>2, <3>3
  <2> QED
    BY <1>2, <2>5, <2>7, <2>10 DEF new
<1>4. ASSUME \A j \in 1 .. n : calls[j].name # name
      PROVE  /\ more \in Seq(SaidCalls) /\ NamesDiffer(more)
             /\ \A call \in Range(calls) : call.name # name
             /\ Range(more) = Range(calls) \cup {[name |-> name, text |-> <<piece>>]}
  <2> DEFINE new == [name |-> name, text |-> <<piece>>]
  <2>1. new \in SaidCalls /\ new.name = name
    <3> DEFINE text == <<piece>>
    <3>1. text \in Seq(Nat)
      OBVIOUS
    <3> HIDE DEF text
    <3>2. [name |-> name, text |-> text] \in SaidCalls
      BY <3>1 DEF SaidCalls
    <3> QED
      BY <3>2 DEF text
  <2>2. more = Append(calls, new)
    BY <1>1, <1>4 DEF MoreArgued
  <2> HIDE DEF more, new
  <2>3. /\ more \in Seq(SaidCalls) /\ DOMAIN more = 1 .. n + 1 /\ more[n + 1] = new
        /\ \A i \in 1 .. n : more[i] = calls[i]
    BY <1>1, <2>1, <2>2
  <2>4. \A i : i \in 1 .. n + 1 <=> i \in 1 .. n \/ i = n + 1
    BY <1>1
  <2>5. NamesDiffer(more)
    <3> SUFFICES ASSUME NEW i \in 1 .. n + 1, NEW k \in 1 .. n + 1, more[i].name = more[k].name PROVE i = k
      BY <2>3 DEF NamesDiffer
    <3>1. CASE i \in 1 .. n /\ k \in 1 .. n
      BY <1>1, <2>3, <3>1 DEF NamesDiffer
    <3>2. CASE i = n + 1 \/ k = n + 1
      BY <1>4, <2>1, <2>3, <2>4, <3>2
    <3> QED
      BY <2>4, <3>1, <3>2
  <2>6. Range(more) = {more[i] : i \in 1 .. n + 1}
    BY <2>3 DEF Range
  <2>7. Range(more) = Range(calls) \cup {new}
    BY <1>2, <2>3, <2>4, <2>6
  <2> QED
    BY <1>2, <1>4, <2>3, <2>5, <2>7 DEF new
<1> HIDE DEF more
<1>5. CASE \E j \in 1 .. n : calls[j].name = name
  BY <1>3, <1>5 DEF more, ArgumentMore
<1>6. CASE ~\E j \in 1 .. n : calls[j].name = name
  BY <1>4, <1>6 DEF more, ArgumentMore
<1> QED
  BY <1>5, <1>6

\* One argument more keeps the calls heard those that have arguments.
LEMMA MoreHeard ==
  ASSUME NEW calls \in Seq(SaidCalls), NamesDiffer(calls), NEW heard \in Seq(SaidCalls), NamesDiffer(heard),
         Range(heard) = Argued(calls), NEW name \in Nat, NEW piece \in Nat \ {0}
  PROVE  Range(MoreArgued(heard, name, piece)) = Argued(MoreArgued(calls, name, piece))
<1> DEFINE R == Range(calls)
           H == Range(heard)
           R1 == Range(MoreArgued(calls, name, piece))
           H1 == Range(MoreArgued(heard, name, piece))
           With(text) == [name |-> name, text |-> Append(text, piece)]
<1>1. H = {x \in R : x.text # <<>>} /\ Argued(MoreArgued(calls, name, piece)) = {x \in R1 : x.text # <<>>}
  BY DEF Argued
<1>2. \A x \in R : x \in SaidCalls
  BY DEF Range
<1>3. \A x \in R : x.text \in Seq(Nat)
  BY <1>2 DEF SaidCalls
<1>4. ASSUME NEW x \in R, NEW y \in R, x.name = y.name PROVE x = y
  <2>1. PICK i \in DOMAIN calls : x = calls[i]
    BY DEF Range
  <2>2. PICK j \in DOMAIN calls : y = calls[j]
    BY DEF Range
  <2>3. i = j
    BY <1>4, <2>1, <2>2 DEF NamesDiffer
  <2> QED
    BY <2>1, <2>2, <2>3
<1>5. \A text \in Seq(Nat) : With(text).text # <<>>
  <2> SUFFICES ASSUME NEW text \in Seq(Nat) PROVE Append(text, piece) # <<>>
    OBVIOUS
  <2>1. Len(Append(text, piece)) = Len(text) + 1 /\ Len(text) \in Nat
    OBVIOUS
  <2> DEFINE more == Append(text, piece)
  <2>2. more = <<>> => Len(more) = 0
    OBVIOUS
  <2>3. Len(more) # 0
    BY <2>1
  <2> HIDE DEF more
  <2>4. more # <<>>
    BY <2>2, <2>3
  <2> QED
    BY <2>4 DEF more
<1>6. <<>> \in Seq(Nat) /\ [name |-> name, text |-> <<piece>>] = With(<<>>)
  <2>1. Append(<<>>, piece) = <<piece>>
    OBVIOUS
  <2> QED
    BY <2>1
<1>7. \/ \E call \in R : call.name = name /\ R1 = (R \ {call}) \cup {With(call.text)}
      \/ (\A call \in R : call.name # name) /\ R1 = R \cup {With(<<>>)}
  <2>1. ArgumentMore(Range(calls), Range(MoreArgued(calls, name, piece)), name, piece)
    BY MoreArguedTells
  <2> QED
    BY <1>6, <2>1 DEF ArgumentMore
<1>8. \/ \E call \in H : call.name = name /\ H1 = (H \ {call}) \cup {With(call.text)}
      \/ (\A call \in H : call.name # name) /\ H1 = H \cup {With(<<>>)}
  <2>1. ArgumentMore(Range(heard), Range(MoreArgued(heard, name, piece)), name, piece)
    BY MoreArguedTells
  <2> QED
    BY <1>6, <2>1 DEF ArgumentMore
<1> HIDE DEF R, H, R1, H1, With
<1>9. CASE (\A call \in R : call.name # name) /\ R1 = R \cup {With(<<>>)}
  <2>1. H1 = H \cup {With(<<>>)}
    BY <1>1, <1>8, <1>9
  <2>2. {x \in R1 : x.text # <<>>} = H \cup {With(<<>>)}
    BY <1>1, <1>5, <1>6, <1>9
  <2> QED
    BY <1>1, <2>1, <2>2 DEF R1, H1
<1>10. ASSUME NEW call \in R, call.name = name, R1 = (R \ {call}) \cup {With(call.text)}
       PROVE  H1 = {x \in R1 : x.text # <<>>}
  <2>1. {x \in R1 : x.text # <<>>} = (H \ {call}) \cup {With(call.text)}
    BY <1>1, <1>3, <1>5, <1>10
  <2>2. CASE call.text = <<>>
    <3>1. call \notin H /\ \A x \in H : x.name # name
      BY <1>1, <1>4, <1>10, <2>2
    <3>2. H1 = H \cup {With(<<>>)}
      BY <1>8, <3>1
    <3> QED
      BY <2>1, <2>2, <3>1, <3>2
  <2>3. CASE call.text # <<>>
    <3>1. call \in H
      BY <1>1, <2>3
    <3>2. \A x \in H : x.name = name => x = call
      BY <1>1, <1>4, <1>10
    <3>3. H1 = (H \ {call}) \cup {With(call.text)}
      BY <1>8, <1>10, <3>1, <3>2
    <3> QED
      BY <2>1, <3>3
  <2> QED
    BY <2>2, <2>3
<1> QED
  BY <1>1, <1>7, <1>9, <1>10 DEF R1, H1

\* A call without arguments is none of those heard.
LEMMA UnarguedUnheard ==
  ASSUME NEW calls \in Seq(SaidCalls), NEW name
  PROVE  Argued(Append(calls, [name |-> name, text |-> <<>>])) = Argued(calls)
<1> DEFINE new == [name |-> name, text |-> <<>>]
           more == Append(calls, new)
           n == Len(calls)
<1>1. new.text = <<>>
  OBVIOUS
<1> HIDE DEF new
<1>2. n \in Nat /\ DOMAIN calls = 1 .. n /\ DOMAIN more = 1 .. n + 1 /\ more[n + 1] = new
      /\ \A i \in 1 .. n : more[i] = calls[i]
  OBVIOUS
<1> HIDE DEF more
<1>3. \A i : i \in 1 .. n + 1 <=> i \in 1 .. n \/ i = n + 1
  BY <1>2
<1>4. Range(more) = Range(calls) \cup {new}
  BY <1>2, <1>3 DEF Range
<1>5. Argued(more) = Argued(calls)
  BY <1>1, <1>4 DEF Argued
<1> QED
  BY <1>5 DEF more, new

\* Behind the relay the answer is heard, but for the calls that have no arguments yet.
Gathers(heard, answer) ==
  /\ heard.thinking = answer.thinking /\ heard.text = answer.text
  /\ heard.calls \in Seq(SaidCalls) /\ NamesDiffer(heard.calls) /\ Range(heard.calls) = Argued(answer.calls)

LEMMA CalledTells ==
  ASSUME NEW answer, NEW name
  PROVE  IsCalled(answer, name) <=> \E call \in Range(answer.calls) : call.name = name
BY DEF IsCalled, Range

\* A call that was heard was said.
LEMMA HeardSaid ==
  ASSUME NEW heard, NEW answer, Gathers(heard, answer), NEW name, IsCalled(heard, name)
  PROVE  IsCalled(answer, name)
BY CalledTells DEF Gathers, Argued

\* What a chunk says of the answer, its echo says of what is heard.
LEMMA EchoSpeaks ==
  ASSUME NEW answer, answer.calls \in Seq(SaidCalls), NamesDiffer(answer.calls), NEW next, NEW d \in Pieces,
         d.kind # "none", d.piece # 0, Says(answer, next, d), NEW heard, Gathers(heard, answer), NEW e,
         e.kind = d.kind, e.piece = d.piece, e.name = IF d.kind = "tool_use" THEN NameOf(d.key) ELSE 0
  PROVE  \E later :
           /\ Speaks(heard, later, e, NameOf(d.key)) /\ Gathers(later, next)
           /\ \A name : IsCalled(later, name) =>
                IsCalled(heard, name) \/ (d.kind = "tool_use" /\ name = NameOf(d.key))
<1> DEFINE name == NameOf(d.key)
           piece == d.piece
           calls == IF d.kind = "tool_use" THEN MoreArgued(heard.calls, name, piece) ELSE heard.calls
           thinking == next.thinking
           text == next.text
           later == [thinking |-> thinking, text |-> text, calls |-> calls]
<1>1. d.kind \in {"thinking", "text", "tool_use"} /\ piece \in Nat \ {0} /\ name \in Nat
  BY DEF Pieces, BlockKinds, NameOf
<1>2. /\ heard.thinking = answer.thinking /\ heard.text = answer.text /\ heard.calls \in Seq(SaidCalls)
      /\ NamesDiffer(heard.calls) /\ Range(heard.calls) = Argued(answer.calls)
  BY DEF Gathers
<1>3. ASSUME d.kind = "tool_use"
      PROVE  /\ next.thinking = answer.thinking /\ next.text = answer.text
             /\ next.calls = MoreArgued(answer.calls, name, piece)
  <2>1. CASE IsCalled(answer, name)
    <3>1. Argues(answer, next, name, piece)
      BY <1>3, <2>1 DEF Says, Speaks
    <3> QED
      BY <2>1, <3>1 DEF Argues, MoreArgued, IsCalled
  <2>2. CASE ~IsCalled(answer, name)
    <3>1. Gains(answer, next, "tool_use", name, piece) /\ Uttered(piece) = <<piece>>
      BY <1>1, <1>3, <2>2 DEF Says, Speaks, Uttered
    <3> QED
      BY <2>2, <3>1 DEF Gains, MoreArgued, IsCalled
  <2> QED
    BY <2>1, <2>2
<1>4. later.thinking = thinking /\ later.text = text /\ later.calls = calls
  OBVIOUS
<1> HIDE DEF later, name, piece
<1>5. CASE d.kind = "tool_use"
  <2>1. calls = MoreArgued(heard.calls, name, piece)
    BY <1>5
  <2> HIDE DEF calls
  <2>2. calls \in Seq(SaidCalls) /\ NamesDiffer(calls) /\ ArgumentMore(Range(heard.calls), Range(calls), name, piece)
    BY <1>1, <1>2, <2>1, MoreArguedTells
  <2>3. Range(calls) = Argued(next.calls)
    BY <1>1, <1>2, <1>3, <1>5, <2>1, MoreHeard
  <2>4. Gathers(later, next)
    BY <1>4, <2>2, <2>3 DEF Gathers, thinking, text
  <2>5. ASSUME NEW other, IsCalled(later, other) PROVE IsCalled(heard, other) \/ other = name
    <3>1. PICK call \in Range(calls) : call.name = other
      BY <1>4, <2>5, CalledTells
    <3>2. call \in Range(heard.calls) \/ call.name = name
      BY <2>2, <3>1 DEF ArgumentMore
    <3> QED
      BY <3>1, <3>2, CalledTells
  <2>6. Speaks(heard, later, e, name)
    <3>1. later.thinking = heard.thinking /\ later.text = heard.text /\ e.kind = "tool_use" /\ e.piece = piece /\ e.name = name
      BY <1>2, <1>3, <1>4, <1>5 DEF thinking, text, name, piece
    <3>2. CASE IsCalled(heard, name)
      <4>1. Argues(heard, later, name, piece)
        BY <1>4, <2>1, <3>1, <3>2 DEF MoreArgued, IsCalled, Argues
      <4> QED
        BY <1>1, <3>1, <3>2, <4>1 DEF Speaks
    <3>3. CASE ~IsCalled(heard, name)
      <4>1. Uttered(piece) = <<piece>>
        BY <1>1 DEF Uttered
      <4>2. Gains(heard, later, "tool_use", name, piece)
        BY <1>4, <2>1, <3>1, <3>3, <4>1 DEF MoreArgued, IsCalled, Gains
      <4> QED
        BY <3>1, <3>3, <4>2 DEF Speaks
    <3> QED
      BY <3>2, <3>3
  <2> QED
    BY <1>5, <2>4, <2>5, <2>6 DEF name
<1>6. CASE d.kind # "tool_use"
  <2>1. calls = heard.calls
    BY <1>6
  <2> HIDE DEF calls
  <2>2. d.name = 0 /\ Gains(answer, next, d.kind, 0, piece) /\ e.name = 0 /\ e.kind = d.kind /\ e.piece = piece
    BY <1>1, <1>6 DEF Says, Speaks, piece
  <2>3. next.calls = answer.calls
    BY <1>6, <2>2 DEF Gains
  <2>4. Gathers(later, next)
    BY <1>2, <1>4, <2>1, <2>3 DEF Gathers, thinking, text
  <2>5. \A other : IsCalled(later, other) => IsCalled(heard, other)
    BY <1>4, <2>1 DEF IsCalled
  <2>6. Gains(heard, later, d.kind, 0, piece)
    BY <1>2, <1>4, <1>6, <2>1, <2>2 DEF Gains, thinking, text
  <2>7. Speaks(heard, later, e, name)
    BY <1>1, <1>6, <2>2, <2>6 DEF Speaks
  <2> QED
    BY <2>4, <2>5, <2>7 DEF name
<1> QED
  BY <1>5, <1>6

\* The calls that were heard have a block behind the relay, under their places among the items m.
Arrived(heard, m, tools) ==
  \A id \in DOMAIN m :
    id.kind = "function_call" /\ IsCalled(heard, NameOf(id.key)) => m[id].output_index \in DOMAIN tools

\* The relay knows the names of the calls, its blocks stand for items, and its client hears the answer.
KnowsNames(pending, m) ==
  \A id \in DOMAIN pending : id \in DOMAIN m /\ id.kind = "function_call" /\ pending[id] = NameOf(id.key)

StandsFor(tools, items) ==
  \A k \in DOMAIN tools : k < Len(items) /\ tools[k].name = items[k + 1].name

Relaying(f, m, items, answer) ==
  LET s == f.gateway.translator
      blocks == f.gateway.reader.blocks
  IN  /\ KnowsNames(f.pending, m) /\ StandsFor(s.tools, items) /\ OpenBlocks(s, blocks)
      /\ s.stop_reason = "end_turn"
      /\ \E heard : Conveys(blocks, heard) /\ Gathers(heard, answer) /\ Arrived(heard, m, s.tools)

\* A chunk leaves the items in their places, under their names.
LEMMA PlacesStay ==
  ASSUME NEW s, NEW c, FollowsResponses(s, c), NEW d \in Pieces, d.kind # "none", ItemsMatch(s.items, c.items),
         d.kind \in {"thinking", "text"} => d.name = 0,
         d.kind = "tool_use" /\ PayloadId(d) \notin DOMAIN s.items => d.name = NameOf(d.key)
  PROVE  LET m == s.items
             next == Translated(s, d).items
             items == c.items
             retold == Retold(s, c.items, d)
             at == ItemOf(s, d).output_index
         IN  /\ DOMAIN next = DOMAIN m \cup {PayloadId(d)} /\ \A id \in DOMAIN m : next[id].output_index = m[id].output_index
             /\ next[PayloadId(d)].output_index = at /\ at \in Nat /\ at < Len(retold)
             /\ retold[at + 1].name = IF d.kind = "tool_use" THEN NameOf(d.key) ELSE 0
             /\ \A k \in Nat : k < Len(items) => k < Len(retold) /\ retold[k + 1].name = items[k + 1].name
<1> DEFINE m == s.items
           next == Translated(s, d).items
           items == c.items
           retold == Retold(s, items, d)
           id == PayloadId(d)
           at == ItemOf(s, d).output_index
           w == Written(s, d)
           followed == Follow(c, Translation(s, d))
           after == Translated(s, d)
<1>1. s \in ResponsesStates /\ items \in Seq(Items) /\ m \in Maps(ItemIds, Places)
  BY DEF FollowsResponses, ResponsesStates, ResponsesClients
<1>2. ItemsMatch(next, retold)
  BY ItemsMatchKept
<1>3. retold \in Seq(Items) /\ next \in Maps(ItemIds, Places)
  <2>1. FollowsResponses(after, followed) /\ followed.items = retold
    BY TranslationFollows
  <2> HIDE DEF after, followed, retold
  <2>2. retold \in Seq(Items) /\ after.items \in Maps(ItemIds, Places)
    BY <2>1 DEF FollowsResponses, ResponsesStates, ResponsesClients
  <2> QED
    BY <2>2 DEF after
<1>4. next = WithEntry(m, id, w)
  BY <1>1, TranslatedTells
<1>5. DOMAIN next = DOMAIN m \cup {id} /\ next[id] = w /\ \A x \in DOMAIN m : x # id => next[x] = m[x]
  BY <1>4 DEF WithEntry
<1>6. /\ id \in ItemIds /\ w.output_index = at /\ ItemOf(s, d) \in Places
      /\ IsNew(s, d) <=> id \notin DOMAIN m
      /\ ~IsNew(s, d) => at = m[id].output_index
      /\ d.kind = "tool_use" => id = ItemId("function_call", d.key)
  BY <1>1, ItemTells
<1>7. at \in Nat /\ (id.kind = "function_call" <=> d.kind = "tool_use")
  BY <1>6, EchoTells DEF Places
<1>8. d.kind = "tool_use" => id.key = d.key
  BY <1>6 DEF ItemId
<1> HIDE DEF retold, next, at, w, id
<1>9. \A x \in DOMAIN m : next[x].output_index = m[x].output_index
  <2> SUFFICES ASSUME NEW x \in DOMAIN m PROVE next[x].output_index = m[x].output_index
    OBVIOUS
  <2>1. CASE x = id
    BY <1>5, <1>6, <2>1
  <2>2. CASE x # id
    BY <1>5, <2>2
  <2> QED
    BY <2>1, <2>2
<1>10. \A x \in DOMAIN next :
         LET i == next[x].output_index + 1
         IN  /\ i \in DOMAIN retold /\ retold[i].name = next[x].name
             /\ next[x].name = IF x.kind = "function_call" THEN NameOf(x.key) ELSE 0
  BY <1>2, <1>3, PlaceTells DEF ItemsMatch
<1>11. \A x \in DOMAIN m : m[x].name = IF x.kind = "function_call" THEN NameOf(x.key) ELSE 0
  BY DEF ItemsMatch
<1>12. next[id].output_index = at /\ at < Len(retold) /\ retold[at + 1].name = IF d.kind = "tool_use" THEN NameOf(d.key) ELSE 0
  <2>1. next[id].output_index = at
    BY <1>5, <1>6
  <2>2. at + 1 \in DOMAIN retold /\ retold[at + 1].name = IF id.kind = "function_call" THEN NameOf(id.key) ELSE 0
    BY <1>5, <1>10, <2>1
  <2>3. at < Len(retold)
    BY <1>3, <1>7, <2>2
  <2> QED
    BY <1>7, <1>8, <2>1, <2>2, <2>3
<1>13. ASSUME NEW k \in Nat, k < Len(items) PROVE k < Len(retold) /\ retold[k + 1].name = items[k + 1].name
  <2> DEFINE x == items[k + 1].id
  <2>1. k + 1 \in DOMAIN items
    BY <1>1, <1>13
  <2>2. x \in DOMAIN m /\ m[x].output_index = k
    <3>1. x \in DOMAIN m /\ m[x].output_index = (k + 1) - 1
      BY <2>1 DEF ItemsMatch
    <3> QED
      BY <3>1
  <2> HIDE DEF x
  <2>3. items[k + 1].name = m[x].name
    BY <1>1, <2>2, PlaceTells
  <2>4. next[x].output_index = k /\ x \in DOMAIN next
    BY <1>5, <1>9, <2>2
  <2>5. k + 1 \in DOMAIN retold /\ retold[k + 1].name = next[x].name
        /\ next[x].name = IF x.kind = "function_call" THEN NameOf(x.key) ELSE 0
    BY <1>10, <2>4
  <2>6. k < Len(retold)
    BY <1>3, <2>5
  <2> QED
    BY <1>11, <2>2, <2>3, <2>5, <2>6
<1> QED
  BY <1>5, <1>7, <1>9, <1>12, <1>13 DEF retold, next, at, id

\* The names of the items, by their places.
Titles(items) == [k \in Nat |-> IF k < Len(items) THEN items[k + 1].name ELSE 0]

LEMMA TitlesTell ==
  ASSUME NEW items \in Seq(Items)
  PROVE  /\ \A k \in Nat : Titles(items)[k] \in Nat
         /\ \A k \in Nat : k < Len(items) => Titles(items)[k] = items[k + 1].name
         /\ \A tools \in ToolBlocks :
              StandsFor(tools, items)
                <=> \A k \in DOMAIN tools : k < Len(items) /\ tools[k].name = Titles(items)[k]
<1>1. ASSUME NEW k \in Nat PROVE Titles(items)[k] = IF k < Len(items) THEN items[k + 1].name ELSE 0
  BY DEF Titles
<1>2. ASSUME NEW k \in Nat, k < Len(items) PROVE items[k + 1].name \in Nat
  <2>1. k + 1 \in DOMAIN items
    BY <1>2
  <2>2. items[k + 1] \in Items
    BY <2>1
  <2> QED
    BY <2>2 DEF Items
<1>3. \A k \in Nat : Titles(items)[k] \in Nat
  BY <1>1, <1>2
<1>4. \A tools \in ToolBlocks : DOMAIN tools \subseteq Nat
  BY ToolBlocksTell
<1> QED
  BY <1>1, <1>3, <1>4 DEF StandsFor

\* The relay learns the names of the calls, and the echo of a chunk has them.
LEMMA EchoNames ==
  ASSUME NEW s \in ResponsesStates, NEW d \in Pieces, d.kind # "none", NEW f, FollowsRelay(f, DOMAIN s.items),
         KnowsNames(f.pending, s.items), d.kind = "tool_use" /\ PayloadId(d) \notin DOMAIN s.items => d.name = NameOf(d.key)
  PROVE  LET learnt == Learnt(s, d, f.pending)
             e == Echo(s, d, learnt)
         IN  /\ KnowsNames(learnt, Translated(s, d).items)
             /\ e \in Pieces /\ e.kind = d.kind /\ e.piece = d.piece
             /\ e.key = IF d.kind = "tool_use" THEN ItemOf(s, d).output_index ELSE 0
             /\ e.name = IF d.kind = "tool_use" THEN NameOf(d.key) ELSE 0
<1> DEFINE m == s.items
           id == PayloadId(d)
           at == ItemOf(s, d).output_index
           learnt == Learnt(s, d, f.pending)
           next == Translated(s, d).items
           name == IF id \in DOMAIN learnt THEN learnt[id] ELSE 0
           key == IF d.kind = "tool_use" THEN at ELSE 0
           e == Echo(s, d, learnt)
<1>1. /\ id \in ItemIds /\ at \in Nat /\ (IsNew(s, d) <=> id \notin DOMAIN m)
      /\ d.kind = "tool_use" => id = ItemId("function_call", d.key)
  BY ItemTells DEF Places
<1>2. id.kind = "function_call" <=> d.kind = "tool_use"
  BY EchoTells
<1>3. d.kind = "tool_use" => id.key = d.key
  BY <1>1 DEF ItemId
<1>4. DOMAIN next = DOMAIN m \cup {id}
  BY TranslatedTells DEF WithEntry
<1>5. e = [kind |-> d.kind, key |-> key, name |-> name, piece |-> d.piece]
  BY DEF Echo, Payload
<1> HIDE DEF e, next, at, id
<1>6. KnowsNames(learnt, next) /\ (d.kind = "tool_use" => id \in DOMAIN learnt)
  <2>1. CASE IsNew(s, d) /\ d.kind = "tool_use"
    <3>1. learnt = WithEntry(f.pending, id, d.name) /\ d.name = NameOf(id.key)
      BY <1>1, <1>3, <2>1 DEF Learnt, id
    <3>2. DOMAIN learnt = DOMAIN f.pending \cup {id} /\ learnt[id] = d.name
          /\ \A x \in DOMAIN f.pending : x # id => learnt[x] = f.pending[x]
      BY <3>1 DEF WithEntry
    <3> HIDE DEF learnt
    <3> QED
      BY <1>2, <1>4, <2>1, <3>1, <3>2 DEF KnowsNames
  <2>2. CASE ~(IsNew(s, d) /\ d.kind = "tool_use")
    <3>1. learnt = f.pending
      BY <2>2 DEF Learnt
    <3> HIDE DEF learnt
    <3>2. d.kind = "tool_use" => id \in DOMAIN f.pending
      BY <1>1, <1>2, <2>2 DEF FollowsRelay
    <3> QED
      BY <1>4, <3>1, <3>2 DEF KnowsNames
  <2> QED
    BY <2>1, <2>2
<1> HIDE DEF learnt
<1>7. name = IF d.kind = "tool_use" THEN NameOf(d.key) ELSE 0
  BY <1>2, <1>3, <1>6 DEF KnowsNames
<1>8. name \in Nat /\ key \in Nat /\ d.kind \in BlockKinds \cup {"none"} /\ d.piece \in Nat
  BY <1>1, <1>7 DEF NameOf, Pieces
<1> HIDE DEF name, key
<1>9. e \in Pieces /\ e.kind = d.kind /\ e.piece = d.piece /\ e.key = key /\ e.name = name
  BY <1>5, <1>8 DEF Pieces
<1> QED
  BY <1>6, <1>7, <1>9 DEF learnt, next, e, key, at

\* A chunk leaves the relay with what is heard of the answer.
LEMMA RelayConveys ==
  ASSUME NEW s, NEW c, FollowsResponses(s, c), ItemsMatch(s.items, c.items), NEW d \in Pieces,
         d.kind = "none" => d.piece = 0, d.kind \in {"thinking", "text"} => d.piece # 0,
         NEW f, FollowsRelay(f, DOMAIN s.items),
         NEW answer, answer.calls \in Seq(SaidCalls), NamesDiffer(answer.calls), NEW next, Says(answer, next, d),
         d.kind = "tool_use" /\ IsCalled(answer, NameOf(d.key)) => PayloadId(d) \in DOMAIN s.items,
         Relaying(f, s.items, c.items, answer)
  PROVE  Relaying(RelayAll(f, Translation(s, d)), Translated(s, d).items, Retold(s, c.items, d), next)
<1> DEFINE m == s.items
           items == c.items
           id == PayloadId(d)
           at == ItemOf(s, d).output_index
           g == f.gateway
           t == g.translator
           blocks == g.reader.blocks
           learnt == Learnt(s, d, f.pending)
           e == Echo(s, d, learnt)
           taken == Take(g, e, "none", 0)
           relayed == RelayAll(f, Translation(s, d))
           noted == Translated(s, d).items
           retold == Retold(s, items, d)
           called == NameOf(d.key)
<1>1. /\ s \in ResponsesStates /\ items \in Seq(Items) /\ f \in Relays /\ g \in Gateways
      /\ FollowsAnthropic(t, g.reader)
  BY DEF FollowsResponses, ResponsesClients, FollowsRelay, Relays
<1>2. t \in Translators /\ blocks \in Seq(ReaderBlocks) /\ t.tools \in ToolBlocks
  BY <1>1 DEF FollowsAnthropic, Readers, Translators
<1>3. relayed = [pending |-> learnt, gateway |-> IF d.piece = 0 THEN g ELSE taken]
  BY <1>1, RelayedTells
<1>4. /\ KnowsNames(f.pending, m) /\ StandsFor(t.tools, items) /\ OpenBlocks(t, blocks) /\ t.stop_reason = "end_turn"
  BY DEF Relaying
<1>5. PICK heard : Conveys(blocks, heard) /\ Gathers(heard, answer) /\ Arrived(heard, m, t.tools)
  BY DEF Relaying
<1>6. CASE d.kind = "none"
  <2>1. learnt = f.pending /\ d.piece = 0 /\ noted = m /\ retold = items
    BY <1>1, <1>6, TranslatedTells DEF Learnt, IsNew, Retold
  <2>2. relayed.pending = f.pending /\ relayed.gateway = g
    BY <1>3, <2>1
  <2>3. Gathers(heard, next)
    BY <1>5, <1>6 DEF Says, Speaks, Gathers
  <2> HIDE DEF relayed, noted, retold
  <2>4. Relaying(relayed, noted, retold, next)
    BY <1>4, <1>5, <2>1, <2>2, <2>3 DEF Relaying
  <2> QED
    BY <2>4 DEF relayed, noted, retold
<1>7. ASSUME d.kind # "none" PROVE Relaying(relayed, noted, retold, next)
  <2>1. d.kind \in {"thinking", "text", "tool_use"} /\ d.piece \in Nat /\ d.key \in Nat
    BY <1>7 DEF Pieces, BlockKinds
  <2>2. /\ d.kind \in {"thinking", "text"} => d.name = 0
        /\ d.kind = "tool_use" /\ id \notin DOMAIN m => d.name = called
    BY DEF Says, Speaks
  <2>3. /\ DOMAIN noted = DOMAIN m \cup {id} /\ \A x \in DOMAIN m : noted[x].output_index = m[x].output_index
        /\ noted[id].output_index = at /\ at \in Nat /\ at < Len(retold)
        /\ retold[at + 1].name = IF d.kind = "tool_use" THEN called ELSE 0
        /\ \A k \in Nat : k < Len(items) => k < Len(retold) /\ retold[k + 1].name = items[k + 1].name
    BY <1>7, <2>2, PlacesStay
  <2>4. /\ KnowsNames(learnt, noted) /\ e \in Pieces /\ e.kind = d.kind /\ e.piece = d.piece
        /\ e.key = IF d.kind = "tool_use" THEN at ELSE 0
        /\ e.name = IF d.kind = "tool_use" THEN called ELSE 0
    BY <1>1, <1>4, <1>7, <2>2, EchoNames
  <2>5. /\ id.kind = "function_call" <=> d.kind = "tool_use"
        /\ d.kind = "tool_use" => id.key = d.key
        /\ id \in DOMAIN m => at = m[id].output_index
    <3>1. id.kind = "function_call" <=> d.kind = "tool_use"
      BY <1>7, EchoTells
    <3>2. /\ d.kind = "tool_use" => id = ItemId("function_call", d.key)
          /\ IsNew(s, d) <=> id \notin DOMAIN m
          /\ ~IsNew(s, d) => at = m[id].output_index
      BY <1>1, <1>7, ItemTells
    <3> QED
      BY <3>1, <3>2 DEF ItemId
  <2>6. d.kind = "tool_use" /\ IsCalled(heard, called) => at \in DOMAIN t.tools
    <3> SUFFICES ASSUME d.kind = "tool_use", IsCalled(heard, called) PROVE at \in DOMAIN t.tools
      OBVIOUS
    <3>1. IsCalled(answer, called)
      BY <1>5, HeardSaid
    <3>2. id \in DOMAIN m
      BY <3>1
    <3> QED
      BY <1>5, <2>5, <3>2 DEF Arrived
  <2>7. retold \in Seq(Items)
    <3> DEFINE followed == Follow(c, Translation(s, d))
               after == Translated(s, d)
    <3>1. FollowsResponses(after, followed) /\ followed.items = retold
      BY TranslationFollows
    <3> HIDE DEF after, followed, retold
    <3> QED
      BY <3>1 DEF FollowsResponses, ResponsesClients
  <2> DEFINE names == Titles(retold)
  <2>8. /\ \A k \in Nat : names[k] \in Nat
        /\ \A k \in Nat : k < Len(retold) => names[k] = retold[k + 1].name
        /\ \A tools \in ToolBlocks :
             StandsFor(tools, retold) <=> \A k \in DOMAIN tools : k < Len(retold) /\ tools[k].name = names[k]
    BY <2>7, TitlesTell
  <2> HIDE DEF retold, noted, e, learnt, id, at, names, called
  <2>9. StandsFor(t.tools, retold) /\ NamesCalls(t, names)
    <3>1. DOMAIN t.tools \subseteq Nat
      BY <1>2, ToolBlocksTell
    <3>2. StandsFor(t.tools, retold)
      BY <1>4, <2>3, <3>1 DEF StandsFor
    <3> QED
      BY <1>2, <2>8, <3>2 DEF NamesCalls
  <2>10. ASSUME NEW tools, NEW known, DOMAIN t.tools \subseteq DOMAIN tools,
                \A name : IsCalled(known, name) => IsCalled(heard, name) \/ (d.kind = "tool_use" /\ name = called /\ at \in DOMAIN tools)
         PROVE  Arrived(known, noted, tools)
    <3> SUFFICES ASSUME NEW x \in DOMAIN noted, x.kind = "function_call", IsCalled(known, NameOf(x.key))
                 PROVE  noted[x].output_index \in DOMAIN tools
      BY DEF Arrived
    <3>1. CASE x = id
      BY <2>3, <2>5, <2>6, <2>10, <3>1 DEF called
    <3>2. CASE x # id
      <4>1. x \in DOMAIN m /\ noted[x].output_index = m[x].output_index
        BY <2>3, <3>2
      <4>2. CASE IsCalled(heard, NameOf(x.key))
        BY <1>5, <2>10, <4>1, <4>2 DEF Arrived
      <4>3. CASE d.kind = "tool_use" /\ NameOf(x.key) = called /\ at \in DOMAIN tools
        <5>1. x \in ItemIds /\ id \in ItemIds
          <6>1. m \in Maps(ItemIds, Places)
            BY <1>1 DEF ResponsesStates
          <6>2. DOMAIN m \subseteq ItemIds
            BY <6>1, MapsTell
          <6> QED
            BY <1>1, <1>7, <4>1, <6>2, ItemTells DEF id
        <5>2. x.key = d.key
          BY <2>1, <4>3, <5>1 DEF NameOf, called, ItemIds
        <5>3. x = id
          BY <2>5, <4>3, <5>1, <5>2 DEF ItemIds
        <5> QED
          BY <3>2, <5>3
      <4> QED
        BY <2>10, <4>2, <4>3
    <3> QED
      BY <3>1, <3>2
  <2>11. CASE d.piece = 0
    <3>1. relayed.pending = learnt /\ relayed.gateway = g
      BY <1>3, <2>11
    <3>2. d.kind = "tool_use" /\ ~IsCalled(answer, called) /\ Gains(answer, next, "tool_use", called, 0)
      BY <2>1, <2>11 DEF Says, Speaks, called
    <3>3. next.calls = Append(answer.calls, [name |-> called, text |-> <<>>])
          /\ next.thinking = answer.thinking /\ next.text = answer.text
      BY <3>2 DEF Gains, Uttered
    <3>4. Gathers(heard, next)
      <4>1. Argued(next.calls) = Argued(answer.calls)
        BY <3>3, UnarguedUnheard
      <4> QED
        BY <1>5, <3>3, <4>1 DEF Gathers
    <3>5. Arrived(heard, noted, t.tools)
      BY <2>10
    <3> HIDE DEF relayed
    <3> QED
      BY <1>4, <1>5, <2>4, <2>9, <3>1, <3>4, <3>5 DEF Relaying
  <2>12. CASE d.piece # 0
    <3>1. relayed.pending = learnt /\ relayed.gateway = taken
      BY <1>3, <2>12
    <3>2. PICK later :
            /\ Speaks(heard, later, e, called) /\ Gathers(later, next)
            /\ \A name : IsCalled(later, name) => IsCalled(heard, name) \/ (d.kind = "tool_use" /\ name = called)
      BY <1>5, <1>7, <2>4, <2>12, EchoSpeaks DEF called
    <3>3. e.kind = "tool_use" => e.key = at /\ e.name = called /\ names[e.key] = called /\ called # 0
      <4>1. called # 0
        BY <2>1 DEF called, NameOf
      <4> QED
        BY <2>3, <2>4, <2>8, <4>1
    <3>4. e.key \in Nat /\ e.kind # "none"
      BY <1>7, <2>3, <2>4
    <3> DEFINE after == After(t, e)
    <3>5. /\ taken \in Gateways /\ FollowsAnthropic(taken.translator, taken.reader)
          /\ DOMAIN t.tools \subseteq DOMAIN taken.translator.tools
          /\ e.kind = "tool_use" => e.key \in DOMAIN taken.translator.tools
          /\ taken.translator.stop_reason = "end_turn"
          /\ taken.reader.blocks = Rewritten(t, blocks, e)
      BY <1>1, <1>4, <2>4, <3>3, GatewayFollows
    <3>6. taken.translator = after
      BY DEF Take, Finishing
    <3>7. OpenBlocks(after, Rewritten(t, blocks, e)) /\ NamesCalls(after, names)
      BY <1>1, <1>4, <2>4, <2>9, <3>3, OpenBlocksKept
    <3>8. DOMAIN after.tools \subseteq DOMAIN t.tools \cup (IF e.kind = "tool_use" THEN {e.key} ELSE {})
      BY <1>2, KeysTell
    <3>9. Speaks(heard, later, e, names[e.key])
      <4>1. CASE e.kind = "tool_use"
        BY <3>2, <3>3, <4>1
      <4>2. CASE e.kind # "tool_use"
        BY <3>2, <4>2 DEF Speaks
      <4> QED
        BY <4>1, <4>2
    <3>10. Conveys(Rewritten(t, blocks, e), later)
      <4>1. names[e.key] \in Nat /\ NamesDiffer(heard.calls)
        BY <1>5, <2>8, <3>4 DEF Gathers
      <4>2. e.kind = "tool_use" /\ IsCalled(heard, names[e.key]) => e.key \in DOMAIN t.tools
        BY <2>4, <2>6, <3>3
      <4> QED
        BY <1>1, <1>4, <1>5, <2>4, <2>9, <3>9, <4>1, <4>2, ReaderConveys
    <3> HIDE DEF relayed, taken, after
    <3>11. StandsFor(taken.translator.tools, retold)
      <4>1. taken.translator.tools \in ToolBlocks
        BY <3>5 DEF FollowsAnthropic, Translators
      <4>2. ASSUME NEW k \in DOMAIN after.tools PROVE k < Len(retold)
        <5>1. k \in DOMAIN t.tools \/ k = at
          BY <3>3, <3>8
        <5>2. k \in DOMAIN t.tools => k < Len(retold)
          BY <2>9 DEF StandsFor
        <5> QED
          BY <2>3, <5>1, <5>2
      <4>3. \A k \in DOMAIN after.tools : k < Len(retold) /\ after.tools[k].name = names[k]
        BY <3>7, <4>2 DEF NamesCalls
      <4> QED
        BY <2>8, <3>6, <4>1, <4>3
    <3>12. Arrived(later, noted, taken.translator.tools)
      BY <2>4, <2>10, <3>2, <3>3, <3>5
    <3>13. OpenBlocks(taken.translator, taken.reader.blocks) /\ Conveys(taken.reader.blocks, later)
      BY <3>5, <3>6, <3>7, <3>10
    <3> QED
      BY <2>4, <3>1, <3>2, <3>5, <3>11, <3>12, <3>13 DEF Relaying
  <2> QED
    BY <2>11, <2>12
<1> QED
  BY <1>6, <1>7

----------------------------------------------------------------------------
(* An answer told in the order it is rendered in (Streams) *)

\* What an answer renders ahead of its calls, and its calls.
Opening(answer) ==
  (IF answer.thinking = <<>> THEN <<>> ELSE <<Block("thinking", 0, answer.thinking)>>)
  \o (IF answer.text = <<>> THEN <<>> ELSE <<Block("text", 0, answer.text)>>)

CallBlocks(calls) == [i \in DOMAIN calls |-> Block("tool_use", calls[i].name, calls[i].text)]

Answered(answer) == answer.thinking \in Seq(Nat) /\ answer.text \in Seq(Nat) /\ answer.calls \in Seq(SaidCalls)

LEMMA BlockTells ==
  ASSUME NEW kind \in BlockKinds, NEW name \in Nat, NEW text \in Seq(Nat)
  PROVE  /\ Block(kind, name, text) \in ReaderBlocks /\ Block(kind, name, text).kind = kind
         /\ Block(kind, name, text).name = name /\ Block(kind, name, text).text = text
BY DEF Block, ReaderBlocks

LEMMA OpeningTells ==
  ASSUME NEW answer, Answered(answer)
  PROVE  /\ Opening(answer) =
              IF answer.thinking = <<>>
              THEN IF answer.text = <<>> THEN <<>> ELSE <<Block("text", 0, answer.text)>>
              ELSE IF answer.text = <<>> THEN <<Block("thinking", 0, answer.thinking)>>
                   ELSE <<Block("thinking", 0, answer.thinking), Block("text", 0, answer.text)>>
         /\ Opening(answer) \in Seq(ReaderBlocks)
         /\ \A i \in DOMAIN Opening(answer) :
              Opening(answer)[i] = IF Opening(answer)[i].kind = "thinking" THEN Block("thinking", 0, answer.thinking)
                                   ELSE Block("text", 0, answer.text)
         /\ \A i \in DOMAIN Opening(answer) : Opening(answer)[i].kind \in {"thinking", "text"}
<1> DEFINE t == Block("thinking", 0, answer.thinking)
           x == Block("text", 0, answer.text)
           o == Opening(answer)
           first == IF answer.thinking = <<>> THEN <<>> ELSE <<t>>
           second == IF answer.text = <<>> THEN <<>> ELSE <<x>>
<1>1. t \in ReaderBlocks /\ x \in ReaderBlocks /\ t.kind = "thinking" /\ x.kind = "text"
  BY BlockTells DEF Answered, BlockKinds
<1>2. o = first \o second
  BY DEF Opening
<1> HIDE DEF t, x, o
<1>3. o = IF answer.thinking = <<>>
          THEN IF answer.text = <<>> THEN <<>> ELSE <<x>>
          ELSE IF answer.text = <<>> THEN <<t>> ELSE <<t, x>>
  <2>1. \A s \in Seq(ReaderBlocks) : <<>> \o s = s /\ s \o <<>> = s
    OBVIOUS
  <2>2. <<t>> \in Seq(ReaderBlocks) /\ <<x>> \in Seq(ReaderBlocks) /\ <<>> \in Seq(ReaderBlocks)
    BY <1>1
  <2>3. <<t>> \o <<x>> = <<t, x>>
    <3> DEFINE a == <<t>>
               b == <<x>>
               both == <<t, x>>
    <3>1. /\ a \in Seq(ReaderBlocks) /\ b \in Seq(ReaderBlocks) /\ both \in Seq(ReaderBlocks) /\ Len(a) = 1 /\ Len(b) = 1
          /\ Len(both) = 2 /\ a[1] = t /\ b[1] = x /\ both[1] = t /\ both[2] = x
      BY <1>1
    <3> HIDE DEF a, b, both
    <3>2. a \o b \in Seq(ReaderBlocks) /\ Len(a \o b) = 2 /\ (a \o b)[1] = t /\ (a \o b)[2] = x
      <4> DEFINE joined == a \o b
      <4>1. joined \in Seq(ReaderBlocks) /\ Len(joined) = 1 + 1
            /\ \A i \in 1 .. 1 + 1 : joined[i] = IF i <= 1 THEN a[i] ELSE b[i - 1]
        BY <3>1, JoinedTell
      <4> HIDE DEF joined
      <4>2. joined[1] = a[1] /\ joined[2] = b[1]
        BY <4>1
      <4> QED
        BY <3>1, <4>1, <4>2 DEF joined
    <3>3. \A i \in 1 .. 2 : (a \o b)[i] = both[i]
      <4> SUFFICES ASSUME NEW i \in 1 .. 2 PROVE (a \o b)[i] = both[i]
        OBVIOUS
      <4>1. i = 1 \/ i = 2
        OBVIOUS
      <4> QED
        BY <3>1, <3>2, <4>1
    <3>4. a \o b = both
      BY <3>1, <3>2, <3>3, SequencesAgree
    <3> QED
      BY <3>4 DEF a, b, both
  <2>4. CASE answer.thinking = <<>>
    <3>1. first = <<>> /\ second \in Seq(ReaderBlocks)
      BY <2>2, <2>4
    <3> HIDE DEF first, second
    <3>2. o = second
      BY <1>2, <2>1, <3>1
    <3> QED
      BY <2>4, <3>2 DEF second
  <2>5. CASE answer.thinking # <<>>
    <3>1. first = <<t>> /\ second = IF answer.text = <<>> THEN <<>> ELSE <<x>>
      BY <2>5
    <3> HIDE DEF first, second
    <3>2. o = <<t>> \o second
      BY <1>2, <3>1
    <3>3. CASE answer.text = <<>>
      BY <2>1, <2>2, <2>5, <3>1, <3>2, <3>3
    <3>4. CASE answer.text # <<>>
      BY <2>3, <2>5, <3>1, <3>2, <3>4
    <3> QED
      BY <3>3, <3>4
  <2> QED
    BY <2>4, <2>5
<1>4. o \in Seq(ReaderBlocks) /\ \A i \in DOMAIN o : o[i] \in {t, x}
  BY <1>1, <1>3
<1>5. \A i \in DOMAIN o : o[i].kind \in {"thinking", "text"} /\ o[i] = IF o[i].kind = "thinking" THEN t ELSE x
  BY <1>1, <1>4
<1> QED
  BY <1>3, <1>4, <1>5 DEF t, x, o

LEMMA CallBlocksTell ==
  ASSUME NEW calls \in Seq(SaidCalls)
  PROVE  /\ CallBlocks(calls) \in Seq(ReaderBlocks) /\ Len(CallBlocks(calls)) = Len(calls)
         /\ DOMAIN CallBlocks(calls) = DOMAIN calls
         /\ \A i \in DOMAIN calls :
              /\ CallBlocks(calls)[i] = Block("tool_use", calls[i].name, calls[i].text)
              /\ CallBlocks(calls)[i].kind = "tool_use" /\ CallBlocks(calls)[i].name = calls[i].name
              /\ CallBlocks(calls)[i].text = calls[i].text
<1> DEFINE m == Len(calls)
           b == CallBlocks(calls)
           Of(i) == Block("tool_use", calls[i].name, calls[i].text)
<1>1. m \in Nat /\ DOMAIN calls = 1 .. m
  OBVIOUS
<1>2. ASSUME NEW i \in 1 .. m
      PROVE  /\ Of(i) \in ReaderBlocks /\ Of(i).kind = "tool_use" /\ Of(i).name = calls[i].name
             /\ Of(i).text = calls[i].text
  <2>1. calls[i] \in SaidCalls
    BY <1>1
  <2>2. calls[i].name \in Nat /\ calls[i].text \in Seq(Nat) /\ "tool_use" \in BlockKinds
    BY <2>1 DEF SaidCalls, BlockKinds
  <2> QED
    BY <2>2, BlockTells
<1>3. b = [i \in DOMAIN calls |-> Of(i)]
  BY DEF CallBlocks
<1> HIDE DEF b, Of, m
<1>4. b \in Seq(ReaderBlocks) /\ Len(b) = m /\ DOMAIN b = 1 .. m /\ \A i \in 1 .. m : b[i] = Of(i)
  BY <1>1, <1>2, <1>3
<1> QED
  BY <1>1, <1>2, <1>4 DEF b, m, Of

\* The blocks of a whole answer, by their positions.
LEMMA WholeTells ==
  ASSUME NEW answer, Answered(answer)
  PROVE  LET w == ToAnthropic(answer)
             n == Len(Opening(answer))
         IN  /\ w = Opening(answer) \o CallBlocks(answer.calls) /\ w \in Seq(ReaderBlocks)
             /\ n \in Nat /\ Len(w) = n + Len(answer.calls)
             /\ \A i \in 1 .. n : w[i] = Opening(answer)[i] /\ w[i].kind # "tool_use"
             /\ \A j \in 1 .. Len(answer.calls) :
                  w[n + j] = Block("tool_use", answer.calls[j].name, answer.calls[j].text)
             /\ \A i \in n + 1 .. Len(w) :
                  i - n \in DOMAIN answer.calls /\ w[i] = CallBlocks(answer.calls)[i - n]
<1> DEFINE w == ToAnthropic(answer)
           o == Opening(answer)
           b == CallBlocks(answer.calls)
           n == Len(o)
           m == Len(answer.calls)
<1>1. w = o \o b
  BY DEF ToAnthropic, Opening, CallBlocks
<1>2. o \in Seq(ReaderBlocks) /\ \A i \in DOMAIN o : o[i].kind # "tool_use"
  BY OpeningTells
<1>3. b \in Seq(ReaderBlocks) /\ Len(b) = m /\ m \in Nat /\ DOMAIN answer.calls = 1 .. m
      /\ \A j \in 1 .. m : b[j] = Block("tool_use", answer.calls[j].name, answer.calls[j].text)
  BY CallBlocksTell DEF Answered
<1> HIDE DEF w, o, b
<1>4. n \in Nat /\ DOMAIN o = 1 .. n
  BY <1>2
<1> HIDE DEF n, m
<1>5. w \in Seq(ReaderBlocks) /\ Len(w) = n + m /\ \A i \in 1 .. n + m : w[i] = IF i <= n THEN o[i] ELSE b[i - n]
  <2>1. /\ o \o b \in Seq(ReaderBlocks) /\ Len(o \o b) = Len(o) + Len(b)
        /\ \A i \in 1 .. Len(o) + Len(b) : (o \o b)[i] = IF i <= Len(o) THEN o[i] ELSE b[i - Len(o)]
    BY <1>2, <1>3, JoinedTell
  <2> QED
    BY <1>1, <1>3, <2>1 DEF n
<1>6. \A i \in 1 .. n : w[i] = o[i] /\ w[i].kind # "tool_use"
  BY <1>2, <1>3, <1>4, <1>5
<1>7. ASSUME NEW j \in 1 .. m PROVE w[n + j] = b[j]
  <2> DEFINE i == n + j
  <2>1. i \in 1 .. n + m /\ ~(i <= n) /\ i - n = j
    BY <1>3, <1>4
  <2> HIDE DEF i
  <2>2. w[i] = b[j]
    BY <1>5, <2>1
  <2> QED
    BY <2>2 DEF i
<1>8. \A i \in n + 1 .. Len(w) : i - n \in 1 .. m /\ w[i] = b[i - n]
  BY <1>3, <1>4, <1>5
<1> QED
  BY <1>1, <1>3, <1>4, <1>5, <1>6, <1>7, <1>8 DEF w, o, b, n, m

\* A block that says one piece more is the same block, and the only one that changes.
LEMMA BlockLengthens ==
  ASSUME NEW blocks \in Seq(ReaderBlocks), NEW i \in DOMAIN blocks, NEW piece \in Nat
  PROVE  LET more == Lengthened(blocks, i, piece)
             was == blocks[i]
         IN  /\ more \in Seq(ReaderBlocks) /\ Len(more) = Len(blocks) /\ DOMAIN more = DOMAIN blocks
             /\ more[i] = Block(was.kind, was.name, Longer(was.text, piece))
             /\ \A j \in DOMAIN blocks : j # i => more[j] = blocks[j]
<1> DEFINE more == Lengthened(blocks, i, piece)
           was == blocks[i]
           kind == was.kind
           name == was.name
           text == was.text
           new == Append(text, piece)
           block == [was EXCEPT !.text = new]
           longer == [blocks EXCEPT ![i] = block]
<1>1. Len(more) = Len(blocks)
  BY LengthTells
<1>2. more = IF piece = 0 THEN blocks ELSE longer
  BY DEF Lengthened
<1>3. was \in ReaderBlocks
  OBVIOUS
<1> HIDE DEF was
<1>4. was = [kind |-> kind, name |-> name, text |-> text] /\ kind \in BlockKinds /\ name \in Nat /\ text \in Seq(Nat)
  BY <1>3 DEF ReaderBlocks
<1>5. new \in Seq(Nat)
  BY <1>4
<1> HIDE DEF kind, name, text, new
<1>6. block = [kind |-> kind, name |-> name, text |-> new]
  BY <1>4
<1>7. block \in ReaderBlocks
  BY <1>4, <1>5, <1>6 DEF ReaderBlocks
<1> HIDE DEF block
<1>8. DOMAIN longer = DOMAIN blocks /\ longer[i] = block /\ \A j \in DOMAIN blocks : j # i => longer[j] = blocks[j]
  OBVIOUS
<1>9. longer \in Seq(ReaderBlocks)
  BY <1>7
<1> HIDE DEF longer, more
<1>10. more \in Seq(ReaderBlocks) /\ DOMAIN more = DOMAIN blocks /\ (\A j \in DOMAIN blocks : j # i => more[j] = blocks[j])
       /\ more[i] = IF piece = 0 THEN was ELSE block
  BY <1>2, <1>8, <1>9 DEF was
<1>11. more[i] = Block(kind, name, Longer(text, piece))
  <2>1. CASE piece = 0
    BY <1>4, <1>10, <2>1 DEF Block, Longer
  <2>2. CASE piece # 0
    BY <1>6, <1>10, <2>2 DEF Block, Longer, new
  <2> QED
    BY <2>1, <2>2
<1> QED
  BY <1>1, <1>10, <1>11 DEF more, was, kind, name, text

\* Answers that are alike but for one call more, or for one call, are rendered alike but for that.
LEMMA CallAppends ==
  ASSUME NEW answer, Answered(answer), NEW next, next.thinking = answer.thinking, next.text = answer.text,
         NEW name \in Nat, NEW text \in Seq(Nat), next.calls = Append(answer.calls, [name |-> name, text |-> text])
  PROVE  ToAnthropic(next) = Append(ToAnthropic(answer), Block("tool_use", name, text))
<1> DEFINE w == ToAnthropic(answer)
           v == ToAnthropic(next)
           o == Opening(answer)
           n == Len(o)
           m == Len(answer.calls)
           call == [name |-> name, text |-> text]
           block == Block("tool_use", name, text)
           u == Append(w, block)
<1>1. call \in SaidCalls /\ call.name = name /\ call.text = text /\ answer.calls \in Seq(SaidCalls) /\ m \in Nat
  BY DEF SaidCalls, Answered
<1> HIDE DEF call
<1>2. /\ next.calls \in Seq(SaidCalls) /\ Len(next.calls) = m + 1 /\ next.calls[m + 1] = call
      /\ \A i \in 1 .. m : next.calls[i] = answer.calls[i]
  BY <1>1 DEF call
<1>3. Answered(next) /\ Opening(next) = o
  BY <1>2 DEF Answered, Opening
<1>4. block \in ReaderBlocks
  BY BlockTells DEF BlockKinds
<1>5. /\ w \in Seq(ReaderBlocks) /\ n \in Nat /\ Len(w) = n + m /\ \A i \in 1 .. n : w[i] = o[i]
      /\ \A j \in 1 .. m : w[n + j] = Block("tool_use", answer.calls[j].name, answer.calls[j].text)
  BY WholeTells
<1>6. /\ v \in Seq(ReaderBlocks) /\ Len(v) = n + (m + 1) /\ \A i \in 1 .. n : v[i] = o[i]
      /\ \A j \in 1 .. m + 1 : v[n + j] = Block("tool_use", next.calls[j].name, next.calls[j].text)
  <2> DEFINE p == Opening(next)
             l == Len(next.calls)
  <2>1. /\ v \in Seq(ReaderBlocks) /\ Len(v) = Len(p) + l /\ \A i \in 1 .. Len(p) : v[i] = p[i]
        /\ \A j \in 1 .. l : v[Len(p) + j] = Block("tool_use", next.calls[j].name, next.calls[j].text)
    BY <1>3, WholeTells
  <2>2. p = o /\ l = m + 1
    BY <1>2, <1>3
  <2> HIDE DEF v, o, p, l
  <2> QED
    BY <2>1, <2>2
<1> HIDE DEF v, w, block, n, o, m
<1>7. /\ u \in Seq(ReaderBlocks) /\ Len(u) = n + m + 1 /\ u[n + m + 1] = block
      /\ \A i \in 1 .. n + m : u[i] = w[i]
  <2> DEFINE l == Len(w)
  <2>1. u \in Seq(ReaderBlocks) /\ Len(u) = l + 1 /\ u[l + 1] = block /\ \A i \in 1 .. l : u[i] = w[i]
    BY <1>4, <1>5
  <2>2. l = n + m
    BY <1>5
  <2> HIDE DEF l, u
  <2> QED
    BY <2>1, <2>2
<1> HIDE DEF u
<1>8. ASSUME NEW i \in 1 .. n + m + 1 PROVE u[i] = v[i]
  <2>1. CASE i \in 1 .. n
    <3>1. i \in 1 .. n + m
      BY <1>1, <1>5, <2>1
    <3> QED
      BY <1>5, <1>6, <1>7, <2>1, <3>1
  <2>2. CASE i \in n + 1 .. n + m
    <3> DEFINE j == i - n
    <3>1. j \in 1 .. m /\ j \in 1 .. m + 1 /\ n + j = i /\ i \in 1 .. n + m
      BY <1>1, <1>5, <2>2
    <3> HIDE DEF j
    <3>2. v[i] = Block("tool_use", next.calls[j].name, next.calls[j].text)
          /\ w[i] = Block("tool_use", answer.calls[j].name, answer.calls[j].text)
      BY <1>5, <1>6, <3>1
    <3> QED
      BY <1>2, <1>7, <3>1, <3>2
  <2>3. CASE i = n + m + 1
    <3>1. m + 1 \in 1 .. m + 1 /\ i = n + (m + 1)
      BY <1>1, <1>5, <2>3
    <3>2. v[i] = Block("tool_use", next.calls[m + 1].name, next.calls[m + 1].text)
      BY <1>6, <3>1
    <3> QED
      BY <1>1, <1>2, <1>7, <2>3, <3>2 DEF block
  <2> QED
    BY <1>1, <1>5, <2>1, <2>2, <2>3
<1>9. Len(v) = n + m + 1
  BY <1>1, <1>5, <1>6
<1>10. u = v
  BY <1>6, <1>7, <1>8, <1>9, SequencesAgree
<1> QED
  BY <1>10 DEF u, v, w, block

LEMMA CallLengthens ==
  ASSUME NEW answer, Answered(answer), NamesDiffer(answer.calls), NEW next, NEW piece \in Nat \ {0},
         NEW i \in DOMAIN ToAnthropic(answer), ToAnthropic(answer)[i].kind = "tool_use",
         Argues(answer, next, ToAnthropic(answer)[i].name, piece)
  PROVE  ToAnthropic(next) = Lengthened(ToAnthropic(answer), i, piece)
<1> DEFINE w == ToAnthropic(answer)
           v == ToAnthropic(next)
           o == Opening(answer)
           n == Len(o)
           calls == answer.calls
           m == Len(calls)
           name == w[i].name
           more == Lengthened(w, i, piece)
           Of(j) == [calls[j] EXCEPT !.text = Append(calls[j].text, piece)]
           k == i - n
<1>1. /\ w \in Seq(ReaderBlocks) /\ n \in Nat /\ Len(w) = n + m /\ m \in Nat /\ calls \in Seq(SaidCalls)
      /\ \A j \in 1 .. n : w[j] = o[j] /\ w[j].kind # "tool_use"
      /\ \A j \in 1 .. m : w[n + j] = Block("tool_use", calls[j].name, calls[j].text)
  BY WholeTells DEF Answered
<1>2. /\ next.thinking = answer.thinking /\ next.text = answer.text
      /\ next.calls = [j \in DOMAIN calls |-> IF calls[j].name = name THEN Of(j) ELSE calls[j]]
  BY DEF Argues
<1> HIDE DEF w, v, o, n, more
<1>3. i \in 1 .. n + m /\ ~(i \in 1 .. n) /\ w[i].kind = "tool_use"
  BY <1>1 DEF w
<1>4. k \in 1 .. m /\ n + k = i
  BY <1>1, <1>3
<1> HIDE DEF k
<1>5. DOMAIN calls = 1 .. m /\ \A j \in 1 .. m : calls[j] \in SaidCalls
  BY <1>1
<1>6. \A j \in 1 .. m : /\ calls[j].name \in Nat /\ calls[j].text \in Seq(Nat)
                        /\ w[n + j].kind = "tool_use" /\ w[n + j].name = calls[j].name /\ w[n + j].text = calls[j].text
  <2> SUFFICES ASSUME NEW j \in 1 .. m
               PROVE  /\ calls[j].name \in Nat /\ calls[j].text \in Seq(Nat)
                      /\ w[n + j].kind = "tool_use" /\ w[n + j].name = calls[j].name /\ w[n + j].text = calls[j].text
    OBVIOUS
  <2>1. calls[j].name \in Nat /\ calls[j].text \in Seq(Nat) /\ "tool_use" \in BlockKinds
    BY <1>5 DEF SaidCalls, BlockKinds
  <2> QED
    BY <1>1, <2>1, BlockTells
<1>7. name = calls[k].name
  BY <1>4, <1>6
<1>8. \A j \in 1 .. m : calls[j].name = name <=> j = k
  BY <1>4, <1>5, <1>7 DEF NamesDiffer
<1> HIDE DEF name
<1> DEFINE text == Append(calls[k].text, piece)
<1>9. text \in Seq(Nat) /\ Of(k).name = calls[k].name /\ Of(k).text = text /\ Of(k) \in SaidCalls
  <2> DEFINE was == calls[k]
  <2>1. was \in SaidCalls /\ Of(k) = [was EXCEPT !.text = text]
    BY <1>4, <1>5
  <2>2. text \in Seq(Nat)
    BY <1>4, <1>6
  <2> HIDE DEF text, was
  <2>3. [was EXCEPT !.text = text].name = was.name /\ [was EXCEPT !.text = text].text = text
        /\ [was EXCEPT !.text = text] \in SaidCalls
    BY <2>1, <2>2 DEF SaidCalls
  <2> HIDE DEF Of
  <2>4. Of(k).name = was.name /\ Of(k).text = text /\ Of(k) \in SaidCalls
    BY <2>1, <2>3
  <2> QED
    BY <2>2, <2>4 DEF was
<1> HIDE DEF Of
<1>10. /\ next.calls \in Seq(SaidCalls) /\ Len(next.calls) = m /\ next.calls[k] = Of(k)
       /\ \A j \in 1 .. m : j # k => next.calls[j] = calls[j]
  <2> DEFINE list == [j \in 1 .. m |-> IF j = k THEN Of(k) ELSE calls[j]]
  <2>1. next.calls = list
    BY <1>2, <1>4, <1>5, <1>8
  <2>2. list \in Seq(SaidCalls) /\ Len(list) = m /\ list[k] = Of(k) /\ \A j \in 1 .. m : j # k => list[j] = calls[j]
    BY <1>1, <1>4, <1>5, <1>9
  <2> HIDE DEF list
  <2> QED
    BY <2>1, <2>2
<1>11. Answered(next) /\ Opening(next) = o
  BY <1>2, <1>10 DEF Answered, Opening, o
<1>12. /\ v \in Seq(ReaderBlocks) /\ Len(v) = n + m /\ \A j \in 1 .. n : v[j] = o[j]
       /\ \A j \in 1 .. m : v[n + j] = Block("tool_use", next.calls[j].name, next.calls[j].text)
  BY <1>10, <1>11, WholeTells DEF v, n
<1>13. /\ more \in Seq(ReaderBlocks) /\ Len(more) = n + m
       /\ more[i] = Block(w[i].kind, w[i].name, Longer(w[i].text, piece))
       /\ \A j \in 1 .. n + m : j # i => more[j] = w[j]
  <2>1. i \in DOMAIN w /\ DOMAIN w = 1 .. n + m /\ piece \in Nat /\ Len(w) = n + m /\ w \in Seq(ReaderBlocks)
    BY <1>1, <1>3
  <2> HIDE DEF m
  <2>2. /\ more \in Seq(ReaderBlocks) /\ Len(more) = Len(w)
        /\ more[i] = Block(w[i].kind, w[i].name, Longer(w[i].text, piece))
        /\ \A j \in DOMAIN w : j # i => more[j] = w[j]
    BY <2>1, BlockLengthens DEF more
  <2> QED
    BY <2>1, <2>2
<1>14. more[i] = Block("tool_use", calls[k].name, text)
  <2>1. w[i].kind = "tool_use" /\ w[i].name = calls[k].name /\ w[i].text = calls[k].text
    BY <1>4, <1>6
  <2>2. Longer(calls[k].text, piece) = text
    BY DEF Longer
  <2> QED
    BY <1>13, <2>1, <2>2
<1> HIDE DEF text, m
<1>15. ASSUME NEW j \in 1 .. n + m PROVE more[j] = v[j]
  <2>1. CASE j = i
    BY <1>4, <1>9, <1>10, <1>12, <1>14, <2>1
  <2>2. CASE j # i /\ j \in 1 .. n
    BY <1>1, <1>12, <1>13, <2>2
  <2>3. CASE j # i /\ j \in n + 1 .. n + m
    <3> DEFINE x == j - n
    <3>1. x \in 1 .. m /\ n + x = j /\ x # k
      BY <1>1, <1>4, <2>3
    <3> HIDE DEF x
    <3>2. v[j] = Block("tool_use", calls[x].name, calls[x].text) /\ w[j] = Block("tool_use", calls[x].name, calls[x].text)
      BY <1>1, <1>10, <1>12, <3>1
    <3> QED
      BY <1>13, <2>3, <3>2
  <2> QED
    BY <1>1, <2>1, <2>2, <2>3
<1>16. more = v
  BY <1>12, <1>13, <1>15, SequencesAgree
<1> QED
  BY <1>16 DEF more, v, w

\* An answer without calls is rendered by what comes ahead of them.
LEMMA PlainWhole ==
  ASSUME NEW answer, Answered(answer), answer.calls = <<>>
  PROVE  ToAnthropic(answer) = Opening(answer)
<1>1. CallBlocks(answer.calls) = <<>>
  BY DEF CallBlocks
<1>2. Opening(answer) \in Seq(ReaderBlocks) /\ ToAnthropic(answer) = Opening(answer) \o CallBlocks(answer.calls)
  BY OpeningTells, WholeTells
<1>3. \A s \in Seq(ReaderBlocks) : s \o <<>> = s
  OBVIOUS
<1> QED
  BY <1>1, <1>2, <1>3

LEMMA LongerIsNot ==
  ASSUME NEW text \in Seq(Nat), NEW piece \in Nat \ {0}
  PROVE  /\ Longer(text, piece) \in Seq(Nat) /\ Longer(text, piece) # <<>>
         /\ text = <<>> => Longer(text, piece) = Uttered(piece)
<1> DEFINE more == Append(text, piece)
<1>1. Longer(text, piece) = more /\ Uttered(piece) = <<piece>>
  BY DEF Longer, Uttered
<1>2. more \in Seq(Nat) /\ Len(more) = Len(text) + 1 /\ Len(text) \in Nat
  OBVIOUS
<1>3. more = <<>> => Len(more) = 0
  OBVIOUS
<1>4. Len(more) # 0
  BY <1>2
<1>5. text = <<>> => more = <<piece>>
  OBVIOUS
<1> HIDE DEF more
<1>6. more # <<>>
  BY <1>3, <1>4
<1> QED
  BY <1>1, <1>2, <1>5, <1>6

\* Answers that are alike but for one plain block more, or for the last one, are rendered alike but for that.
LEMMA PlainAppends ==
  ASSUME NEW answer, Answered(answer), NEW next, NEW kind \in {"thinking", "text"}, NEW piece \in Nat \ {0},
         Gains(answer, next, kind, 0, piece), answer.calls = <<>>, answer.text = <<>>,
         kind = "thinking" => answer.thinking = <<>>
  PROVE  ToAnthropic(next) = Append(ToAnthropic(answer), Block(kind, 0, Uttered(piece)))
<1> DEFINE said_text == Uttered(piece)
           t == Block("thinking", 0, answer.thinking)
           block == Block(kind, 0, said_text)
<1>1. /\ next.thinking = (IF kind = "thinking" THEN Longer(answer.thinking, piece) ELSE answer.thinking)
      /\ next.text = (IF kind = "text" THEN Longer(answer.text, piece) ELSE answer.text)
      /\ next.calls = answer.calls
  BY DEF Gains
<1>2. /\ kind = "thinking" => next.thinking = said_text /\ next.text = <<>>
      /\ kind = "text" => next.text = said_text /\ next.thinking = answer.thinking
      /\ said_text \in Seq(Nat) /\ said_text # <<>>
  BY <1>1, LongerIsNot DEF Answered
<1>3. Answered(next)
  BY <1>1, <1>2 DEF Answered
<1>4. t \in ReaderBlocks /\ block \in ReaderBlocks
  BY <1>2, BlockTells DEF Answered, BlockKinds
<1> HIDE DEF t, block, said_text
<1>5. ToAnthropic(answer) = IF answer.thinking = <<>> THEN <<>> ELSE <<t>>
  BY PlainWhole, OpeningTells DEF t
<1>6. ToAnthropic(next) = IF kind = "thinking" \/ answer.thinking = <<>> THEN <<block>> ELSE <<t, block>>
  <2>1. ToAnthropic(next) = Opening(next)
    BY <1>1, <1>3, PlainWhole
  <2>2. CASE kind = "thinking"
    BY <1>2, <1>3, <2>1, <2>2, OpeningTells DEF block
  <2>3. CASE kind = "text"
    BY <1>2, <1>3, <2>1, <2>3, OpeningTells DEF block, t
  <2> QED
    BY <2>2, <2>3
<1>7. Append(<<>>, block) = <<block>> /\ Append(<<t>>, block) = <<t, block>>
  <2>1. Append(<<>>, block) = <<block>>
    OBVIOUS
  <2> QED
    BY <1>4, <2>1, PairTells
<1>8. ToAnthropic(next) = Append(ToAnthropic(answer), block)
  BY <1>5, <1>6, <1>7
<1> QED
  BY <1>8 DEF block, said_text

LEMMA PlainLengthens ==
  ASSUME NEW answer, Answered(answer), NEW next, NEW kind \in {"thinking", "text"}, NEW piece \in Nat \ {0},
         Gains(answer, next, kind, 0, piece), answer.calls = <<>>, kind = "thinking" => answer.text = <<>>,
         NEW i \in DOMAIN ToAnthropic(answer), ToAnthropic(answer)[i].kind = kind
  PROVE  ToAnthropic(next) = Lengthened(ToAnthropic(answer), i, piece)
<1> DEFINE w == ToAnthropic(answer)
           v == ToAnthropic(next)
           more == Lengthened(w, i, piece)
           t == Block("thinking", 0, answer.thinking)
           x == Block("text", 0, answer.text)
           longer == Longer(IF kind = "thinking" THEN answer.thinking ELSE answer.text, piece)
           block == Block(kind, 0, longer)
<1>1. /\ next.thinking = (IF kind = "thinking" THEN Longer(answer.thinking, piece) ELSE answer.thinking)
      /\ next.text = (IF kind = "text" THEN Longer(answer.text, piece) ELSE answer.text)
      /\ next.calls = answer.calls
  BY DEF Gains
<1>2. /\ kind = "thinking" => next.thinking = longer /\ next.text = answer.text
      /\ kind = "text" => next.text = longer /\ next.thinking = answer.thinking
      /\ longer \in Seq(Nat) /\ longer # <<>>
  <2>1. /\ Longer(answer.thinking, piece) \in Seq(Nat) /\ Longer(answer.thinking, piece) # <<>>
        /\ Longer(answer.text, piece) \in Seq(Nat) /\ Longer(answer.text, piece) # <<>>
    BY LongerIsNot DEF Answered
  <2> QED
    BY <1>1, <2>1
<1>3. Answered(next)
  BY <1>1, <1>2 DEF Answered
<1>4. /\ t \in ReaderBlocks /\ x \in ReaderBlocks /\ block \in ReaderBlocks
      /\ t.kind = "thinking" /\ t.name = 0 /\ t.text = answer.thinking
      /\ x.kind = "text" /\ x.name = 0 /\ x.text = answer.text
  BY <1>2, BlockTells DEF Answered, BlockKinds
<1>5. w = IF answer.thinking = <<>> THEN IF answer.text = <<>> THEN <<>> ELSE <<x>>
          ELSE IF answer.text = <<>> THEN <<t>> ELSE <<t, x>>
  BY PlainWhole, OpeningTells
<1>6. v = IF next.thinking = <<>> THEN IF next.text = <<>> THEN <<>> ELSE <<Block("text", 0, next.text)>>
          ELSE IF next.text = <<>> THEN <<Block("thinking", 0, next.thinking)>>
               ELSE <<Block("thinking", 0, next.thinking), Block("text", 0, next.text)>>
  BY <1>1, <1>3, PlainWhole, OpeningTells
<1>7. /\ w \in Seq(ReaderBlocks) /\ more \in Seq(ReaderBlocks) /\ Len(more) = Len(w) /\ i \in DOMAIN w /\ w[i].kind = kind
      /\ more[i] = Block(w[i].kind, w[i].name, Longer(w[i].text, piece))
      /\ \A j \in DOMAIN w : j # i => more[j] = w[j]
  <2>1. w \in Seq(ReaderBlocks) /\ i \in DOMAIN w /\ piece \in Nat
    BY WholeTells
  <2> HIDE DEF w
  <2> QED
    BY <2>1, BlockLengthens DEF w
<1> HIDE DEF w, v, more, longer
<1>8. CASE kind = "thinking"
  <2>1. answer.text = <<>> /\ answer.thinking # <<>> /\ w = <<t>>
    <3> HIDE DEF t, x
    <3>1. w # <<>>
      BY <1>7
    <3> QED
      BY <1>5, <1>8, <3>1
  <2> HIDE DEF t, x
  <2>2. v = <<block>>
    BY <1>2, <1>6, <1>8, <2>1
  <2> HIDE DEF block
  <2>3. i = 1 /\ Len(w) = 1 /\ w[i] = t
    BY <1>7, <2>1
  <2>4. more[1] = block
    BY <1>4, <1>7, <1>8, <2>3 DEF block, longer
  <2>5. v \in Seq(ReaderBlocks) /\ Len(v) = 1 /\ v[1] = block
    BY <1>4, <2>2
  <2>6. \A j \in 1 .. 1 : v[j] = more[j]
    BY <2>4, <2>5
  <2> QED
    BY <1>7, <2>3, <2>5, <2>6, SequencesAgree DEF v, w, more
<1>9. CASE kind = "text"
  <2>1. answer.text # <<>>
    <3> SUFFICES ASSUME answer.text = <<>> PROVE FALSE
      OBVIOUS
    <3> HIDE DEF t, x
    <3>1. w = <<>> \/ w = <<t>>
      BY <1>5
    <3>2. i = 1 /\ w[i] = t
      BY <1>7, <3>1
    <3> QED
      BY <1>4, <1>7, <1>9, <3>2
  <2>2. CASE answer.thinking = <<>>
    <3> HIDE DEF t, x
    <3>1. w = <<x>>
      BY <1>5, <2>1, <2>2
    <3>2. v = <<block>>
      BY <1>2, <1>6, <1>9, <2>2
    <3> HIDE DEF block
    <3>3. i = 1 /\ Len(w) = 1 /\ w[i] = x
      BY <1>7, <3>1
    <3>4. more[1] = block
      BY <1>4, <1>7, <1>9, <3>3 DEF block, longer
    <3>5. v \in Seq(ReaderBlocks) /\ Len(v) = 1 /\ v[1] = block
      BY <1>4, <3>2
    <3>6. \A j \in 1 .. 1 : v[j] = more[j]
      BY <3>4, <3>5
    <3> QED
      BY <1>7, <3>3, <3>5, <3>6, SequencesAgree DEF v, w, more
  <2>3. CASE answer.thinking # <<>>
    <3>1. v = <<t, block>>
      BY <1>2, <1>6, <1>9, <2>3
    <3> HIDE DEF t, x, block
    <3>2. w = <<t, x>>
      BY <1>5, <2>1, <2>3
    <3>3. Len(w) = 2 /\ DOMAIN w = 1 .. 2 /\ w[1] = t /\ w[2] = x
      BY <1>4, <3>2
    <3>4. i = 2
      BY <1>4, <1>7, <1>9, <3>3
    <3>5. more[2] = block /\ more[1] = t
      <4>1. more[i] = block
        BY <1>4, <1>7, <1>9, <3>3, <3>4 DEF block, longer
      <4>2. 1 \in DOMAIN w /\ 1 # i
        BY <3>3, <3>4
      <4> QED
        BY <1>7, <3>3, <3>4, <4>1, <4>2
    <3>6. v \in Seq(ReaderBlocks) /\ Len(v) = 2 /\ v[1] = t /\ v[2] = block
      BY <1>4, <3>1
    <3>7. \A j \in 1 .. 2 : j = 1 \/ j = 2
      OBVIOUS
    <3>8. \A j \in 1 .. 2 : v[j] = more[j]
      BY <3>5, <3>6, <3>7
    <3> QED
      BY <1>7, <3>3, <3>6, <3>8, SequencesAgree DEF v, w, more
  <2> QED
    BY <2>2, <2>3
<1> QED
  BY <1>8, <1>9 DEF v, w, more

\* The blocks are those of the whole answer, of which nothing has been told that comes after the latest.
Orderly(blocks, answer, latest) ==
  /\ blocks = ToAnthropic(answer)
  /\ latest = "none" => answer.thinking = <<>>
  /\ latest \in {"none", "thinking"} => answer.text = <<>>
  /\ latest # "tool_use" => answer.calls = <<>>

\* A payload makes a block more, or one that there is say more.
Grows(blocks, more, answer, d, name) ==
  \/ /\ more = Append(blocks, Block(d.kind, IF d.kind = "tool_use" THEN name ELSE 0, Uttered(d.piece)))
     /\ d.kind = "thinking" => answer.thinking = <<>>
     /\ d.kind = "text" => answer.text = <<>>
     /\ d.kind = "tool_use" => ~IsCalled(answer, name)
  \/ \E i \in DOMAIN blocks :
       /\ more = Lengthened(blocks, i, d.piece)
       /\ blocks[i].kind = d.kind
       /\ d.kind = "tool_use" => blocks[i].name = name

\* Told in order, a payload leaves the blocks those of the whole answer.
LEMMA OrderStays ==
  ASSUME NEW answer, Answered(answer), NamesDiffer(answer.calls), NEW next, NEW d \in Pieces, d.kind # "none",
         d.kind \in {"thinking", "text"} => d.piece # 0, NEW name \in Nat, Speaks(answer, next, d, name),
         NEW latest \in BlockKinds \cup {"none"}, Ranks[latest] <= Ranks[d.kind],
         NEW blocks, Orderly(blocks, answer, latest), NEW more, Grows(blocks, more, answer, d, name)
  PROVE  Orderly(more, next, d.kind)
<1> DEFINE kind == d.kind
           piece == d.piece
           w == ToAnthropic(answer)
<1>1. kind \in {"thinking", "text", "tool_use"} /\ piece \in Nat
  BY DEF Pieces, BlockKinds
<1>2. Ranks["none"] = 0 /\ Ranks["thinking"] = 1 /\ Ranks["text"] = 2 /\ Ranks["tool_use"] = 3
  BY DEF Ranks
<1>3. /\ kind = "thinking" => latest \in {"none", "thinking"}
      /\ kind = "text" => latest \in {"none", "thinking", "text"}
  BY <1>2 DEF BlockKinds
<1>4. /\ kind = "thinking" => answer.text = <<>> /\ answer.calls = <<>>
      /\ kind = "text" => answer.calls = <<>>
  BY <1>3 DEF Orderly
<1>5. w \in Seq(ReaderBlocks) /\ blocks = w
  BY WholeTells DEF Orderly
<1> HIDE DEF w
<1>6. ASSUME kind \in {"thinking", "text"} PROVE Orderly(more, next, kind)
  <2>1. piece \in Nat \ {0} /\ Gains(answer, next, kind, 0, piece)
    BY <1>1, <1>6 DEF Speaks
  <2>2. /\ next.thinking = (IF kind = "thinking" THEN Longer(answer.thinking, piece) ELSE answer.thinking)
        /\ next.text = (IF kind = "text" THEN Longer(answer.text, piece) ELSE answer.text)
        /\ next.calls = answer.calls
    BY <1>6, <2>1 DEF Gains
  <2>3. answer.calls = <<>> /\ (kind = "thinking" => answer.text = <<>>)
    BY <1>4, <1>6
  <2>4. more = ToAnthropic(next)
    <3>1. CASE /\ more = Append(blocks, Block(kind, IF kind = "tool_use" THEN name ELSE 0, Uttered(piece)))
               /\ kind = "thinking" => answer.thinking = <<>>
               /\ kind = "text" => answer.text = <<>>
      <4>1. more = Append(w, Block(kind, 0, Uttered(piece))) /\ answer.text = <<>>
        BY <1>5, <1>6, <2>3, <3>1
      <4> HIDE DEF kind, piece
      <4>2. ToAnthropic(next) = Append(w, Block(kind, 0, Uttered(piece)))
        BY <1>6, <2>1, <2>3, <3>1, <4>1, PlainAppends DEF w
      <4> QED
        BY <4>1, <4>2
    <3>2. ASSUME NEW i \in DOMAIN blocks, more = Lengthened(blocks, i, piece), blocks[i].kind = kind
          PROVE  more = ToAnthropic(next)
      <4> HIDE DEF kind, piece
      <4>1. i \in DOMAIN w /\ w[i].kind = kind
        BY <1>5, <3>2
      <4>2. ToAnthropic(next) = Lengthened(w, i, piece)
        BY <1>6, <2>1, <2>3, <4>1, PlainLengthens DEF w
      <4> QED
        BY <1>5, <3>2, <4>2
    <3> QED
      BY <3>1, <3>2 DEF Grows
  <2> QED
    BY <1>6, <2>2, <2>3, <2>4 DEF Orderly
<1>7. ASSUME kind = "tool_use" PROVE Orderly(more, next, kind)
  <2>1. more = ToAnthropic(next)
    <3>1. CASE /\ more = Append(blocks, Block(kind, IF kind = "tool_use" THEN name ELSE 0, Uttered(piece)))
               /\ ~IsCalled(answer, name)
      <4> DEFINE text == Uttered(piece)
      <4>1. /\ next.thinking = answer.thinking /\ next.text = answer.text
            /\ next.calls = Append(answer.calls, [name |-> name, text |-> text])
        BY <1>7, <3>1 DEF Speaks, Gains
      <4>2. text \in Seq(Nat) /\ more = Append(w, Block("tool_use", name, text))
        BY <1>1, <1>5, <1>7, <3>1 DEF Uttered
      <4> HIDE DEF text
      <4>3. ToAnthropic(next) = Append(w, Block("tool_use", name, text))
        BY <4>1, <4>2, CallAppends DEF w
      <4> QED
        BY <4>2, <4>3
    <3>2. ASSUME NEW i \in DOMAIN blocks, more = Lengthened(blocks, i, piece), blocks[i].kind = kind, blocks[i].name = name
          PROVE  more = ToAnthropic(next)
      <4>1. IsCalled(answer, name)
        <5> DEFINE n == Len(Opening(answer))
                   j == i - n
        <5>1. /\ n \in Nat /\ Len(w) = n + Len(answer.calls) /\ \A x \in 1 .. n : w[x].kind # "tool_use"
              /\ \A x \in 1 .. Len(answer.calls) : w[n + x] = Block("tool_use", answer.calls[x].name, answer.calls[x].text)
          BY WholeTells DEF w
        <5>2. Len(answer.calls) \in Nat /\ DOMAIN answer.calls = 1 .. Len(answer.calls)
          BY DEF Answered
        <5> HIDE DEF n
        <5>3. j \in 1 .. Len(answer.calls) /\ n + j = i
          <6>1. i \in 1 .. n + Len(answer.calls) /\ w[i].kind = "tool_use"
            BY <1>5, <1>7, <3>2, <5>1, <5>2
          <6>2. ~(i \in 1 .. n)
            BY <5>1, <6>1
          <6> QED
            BY <5>1, <5>2, <6>1, <6>2
        <5> HIDE DEF j
        <5>4. w[i] = Block("tool_use", answer.calls[j].name, answer.calls[j].text) /\ answer.calls[j] \in SaidCalls
          BY <5>1, <5>2, <5>3 DEF Answered
        <5>5. w[i].name = answer.calls[j].name
          BY <5>4 DEF Block
        <5> QED
          BY <1>5, <3>2, <5>2, <5>3, <5>5 DEF IsCalled
      <4>2. piece \in Nat \ {0} /\ Argues(answer, next, name, piece)
        BY <1>1, <1>7, <4>1 DEF Speaks
      <4> HIDE DEF kind, piece
      <4>3. i \in DOMAIN w /\ w[i].kind = "tool_use" /\ w[i].name = name
        BY <1>5, <1>7, <3>2
      <4>4. ToAnthropic(next) = Lengthened(w, i, piece)
        <5>1. Argues(answer, next, w[i].name, piece)
          BY <4>2, <4>3
        <5> QED
          BY <4>2, <4>3, <5>1, CallLengthens DEF w
      <4> QED
        BY <1>5, <3>2, <4>4
    <3> QED
      BY <1>7, <3>1, <3>2 DEF Grows
  <2> QED
    BY <1>7, <2>1 DEF Orderly
<1> QED
  BY <1>1, <1>6, <1>7

\* What an Anthropic client reads grows its blocks.
LEMMA ReaderGrows ==
  ASSUME NEW s, NEW c, FollowsAnthropic(s, c), NEW d \in Pieces, d.kind # "none", OpenBlocks(s, c.blocks),
         NEW names, NamesCalls(s, names), names[d.key] \in Nat, NEW answer,
         NEW next, Speaks(answer, next, d, names[d.key]),
         d.kind = "tool_use" /\ IsCalled(answer, names[d.key]) => d.key \in DOMAIN s.tools,
         Orderly(c.blocks, answer, s.open), Ranks[s.open] <= Ranks[d.kind]
  PROVE  Grows(c.blocks, Rewritten(s, c.blocks, d), answer, d, names[d.key])
<1> DEFINE k == d.key
           blocks == c.blocks
           name == names[k]
           more == Rewritten(s, blocks, d)
<1>1. s \in Translators /\ blocks \in Seq(ReaderBlocks) /\ k \in Nat /\ s.open \in BlockKinds \cup {"none"}
      /\ d.kind \in {"thinking", "text", "tool_use"}
  BY DEF FollowsAnthropic, Readers, Pieces, Translators, BlockKinds
<1>2. CASE d.kind \in {"thinking", "text"}
  <2>1. d.name = 0 /\ d.kind # "none" /\ d.kind # "tool_use"
    BY <1>2 DEF Speaks
  <2>2. CASE StaysOpen(s, d)
    <3> DEFINE i == s.open_index + 1
    <3>1. s.open = d.kind /\ s.open_index \in 0 .. Len(blocks) - 1 /\ blocks[i].kind = d.kind
      BY <1>2, <2>1, <2>2 DEF StaysOpen, FollowsAnthropic
    <3>2. i \in DOMAIN blocks
      BY <1>1, <3>1
    <3>3. more = Lengthened(blocks, i, d.piece)
      BY <2>1, <2>2 DEF Rewritten
    <3> HIDE DEF i, more, blocks
    <3>4. Grows(blocks, more, answer, d, name)
      BY <2>1, <3>1, <3>2, <3>3 DEF Grows
    <3> QED
      BY <3>4 DEF more, blocks
  <2>3. CASE ~StaysOpen(s, d)
    <3>1. more = Append(blocks, Block(d.kind, 0, Uttered(d.piece)))
      BY <2>1, <2>3 DEF Rewritten, Known
    <3>2. s.open # d.kind
      BY <2>1, <2>3 DEF StaysOpen
    <3>3. Ranks["none"] = 0 /\ Ranks["thinking"] = 1 /\ Ranks["text"] = 2 /\ Ranks["tool_use"] = 3
      BY DEF Ranks
    <3>4. /\ d.kind = "thinking" => s.open = "none"
          /\ d.kind = "text" => s.open \in {"none", "thinking"}
      BY <1>1, <3>2, <3>3 DEF BlockKinds
    <3>5. /\ d.kind = "thinking" => answer.thinking = <<>>
          /\ d.kind = "text" => answer.text = <<>>
      BY <3>4 DEF Orderly
    <3> QED
      BY <2>1, <3>1, <3>5 DEF Grows
  <2> QED
    BY <2>2, <2>3
<1>3. CASE d.kind = "tool_use"
  <2>1. CASE k \in DOMAIN s.tools
    <3> DEFINE i == s.tools[k].index + 1
    <3>1. i \in DOMAIN blocks /\ blocks[i].kind = "tool_use" /\ blocks[i].name = name
      BY <2>1, CallKnown
    <3>2. more = Lengthened(blocks, i, d.piece)
      <4>1. Known(s, d)
        BY <1>3, <2>1 DEF Known
      <4>2. CASE StaysOpen(s, d)
        <5>1. s.open = "tool_use" /\ s.open_tool = k
          BY <1>3, <4>2 DEF StaysOpen
        <5>2. s.open_index + 1 = i
          BY <5>1 DEF OpenBlocks
        <5> QED
          BY <1>3, <4>2, <5>2 DEF Rewritten
      <4>3. CASE ~StaysOpen(s, d)
        BY <1>3, <4>1, <4>3 DEF Rewritten
      <4> QED
        BY <4>2, <4>3
    <3> HIDE DEF i, more, blocks
    <3>3. Grows(blocks, more, answer, d, name)
      BY <1>3, <3>1, <3>2 DEF Grows
    <3> QED
      BY <3>3 DEF more, blocks
  <2>2. CASE k \notin DOMAIN s.tools
    <3>1. d.name = name /\ ~IsCalled(answer, name)
      BY <1>3, <2>2 DEF Speaks
    <3>2. ~Known(s, d) /\ ~StaysOpen(s, d)
      <4>1. s.open = "tool_use" => s.open_tool \in DOMAIN s.tools
        BY DEF FollowsAnthropic
      <4> QED
        BY <1>3, <2>2, <4>1 DEF Known, StaysOpen
    <3>3. more = Append(blocks, Block("tool_use", name, Uttered(d.piece)))
      BY <1>3, <3>1, <3>2 DEF Rewritten
    <3> QED
      BY <1>3, <3>1, <3>3 DEF Grows
  <2> QED
    BY <2>1, <2>2
<1> QED
  BY <1>1, <1>2, <1>3

\* Without a block of some kind nothing has been said of that kind.
LEMMA NoneKept ==
  ASSUME NEW blocks \in Seq(ReaderBlocks), NEW kind, \A i \in DOMAIN blocks : blocks[i].kind # kind
  PROVE  TextOf(Kept(blocks, kind)) = <<>>
<1>1. {i \in DOMAIN blocks : blocks[i].kind = kind} = {} /\ {} \in SUBSET DOMAIN blocks
  OBVIOUS
<1>2. Len(Subsequence(blocks, {})) = Cardinality({}) /\ Subsequence(blocks, {}) \in Seq(ReaderBlocks)
  BY <1>1, SubsequenceTells
<1>3. Subsequence(blocks, {}) = <<>>
  BY <1>2, FS_EmptySet
<1> QED
  BY <1>1, <1>3, TextTells DEF Kept

\* What a Responses client hears grows its items.
LEMMA ClientGrows ==
  ASSUME NEW s, NEW c, FollowsResponses(s, c), NEW d \in Pieces, d.kind # "none", ItemsMatch(s.items, c.items),
         NEW answer, NEW next, Conveys(Entries(c.items), answer), Says(answer, next, d),
         d.kind = "tool_use" /\ IsCalled(answer, NameOf(d.key)) => PayloadId(d) \in DOMAIN s.items
  PROVE  Grows(Entries(c.items), Entries(Retold(s, c.items, d)), answer, d, NameOf(d.key))
<1> DEFINE id == PayloadId(d)
           m == s.items
           items == c.items
           blocks == Entries(items)
           retold == Retold(s, items, d)
           more == Entries(retold)
           name == NameOf(d.key)
           i == m[id].output_index + 1
<1>1. /\ s \in ResponsesStates /\ items \in Seq(Items) /\ m \in Maps(ItemIds, Places)
      /\ d.piece \in Nat /\ d.name \in Nat /\ d.key \in Nat /\ d.kind \in BlockKinds
  BY DEF FollowsResponses, ResponsesStates, ResponsesClients, Pieces
<1>2. /\ id \in ItemIds /\ KindOf(id) = d.kind
      /\ \A x \in ItemIds : /\ KindOf(x) = d.kind => x.kind = id.kind
                            /\ x.kind = id.kind /\ x.key = id.key => x = id
  BY KindTells
<1>3. IsNew(s, d) <=> id \notin DOMAIN m
  BY <1>1, ItemTells
<1>4. blocks \in Seq(ReaderBlocks) /\ Len(blocks) = Len(items) /\ DOMAIN blocks = DOMAIN items
      /\ \A j \in DOMAIN items : blocks[j].kind = KindOf(items[j].id) /\ blocks[j].name = items[j].name
  BY <1>1, EntriesTell
<1>5. d.kind \in {"thinking", "text"} => d.name = 0 /\ id.key = 0 /\ id.kind # "function_call"
  BY DEF Says, Speaks, PayloadId, ItemId
<1>6. d.kind = "tool_use" => id.kind = "function_call" /\ id.key = d.key
  BY DEF PayloadId, ItemId
<1>7. \A x \in DOMAIN m : x \in ItemIds
  BY <1>1, MapsTell
<1>8. CASE id \notin DOMAIN m
  <2>1. retold = Append(items, Item(id, d.name, Uttered(d.piece))) /\ Uttered(d.piece) \in Seq(Nat)
    BY <1>1, <1>3, <1>8 DEF Retold, Uttered
  <2>2. d.kind = "tool_use" => d.name = name /\ ~IsCalled(answer, name)
    BY <1>8 DEF Says, Speaks
  <2> HIDE DEF id, retold
  <2>3. more = Append(blocks, Block(d.kind, d.name, Uttered(d.piece)))
    BY <1>1, <1>2, <2>1, EntriesGrow
  <2>4. ASSUME d.kind \in {"thinking", "text"} PROVE TextOf(Kept(blocks, d.kind)) = <<>>
    <3>1. ASSUME NEW j \in DOMAIN items, KindOf(items[j].id) = d.kind PROVE FALSE
      <4>1. items[j].id \in DOMAIN m /\ items[j].id \in ItemIds
        BY <1>7 DEF ItemsMatch
      <4>2. items[j].id.kind = id.kind
        BY <1>2, <3>1, <4>1
      <4>3. items[j].id.key = 0
        BY <1>5, <2>4, <4>1, <4>2 DEF ItemsMatch
      <4> QED
        BY <1>2, <1>5, <1>8, <2>4, <4>1, <4>2, <4>3
    <3> HIDE DEF blocks
    <3>2. \A j \in DOMAIN blocks : blocks[j].kind # d.kind
      BY <1>4, <3>1
    <3> QED
      BY <1>4, <3>2, NoneKept
  <2>5. /\ d.kind = "thinking" => answer.thinking = <<>>
        /\ d.kind = "text" => answer.text = <<>>
    BY <2>4 DEF Conveys
  <2> HIDE DEF more, blocks, name
  <2>6. more = Append(blocks, Block(d.kind, IF d.kind = "tool_use" THEN name ELSE 0, Uttered(d.piece)))
    <3>1. d.name = IF d.kind = "tool_use" THEN name ELSE 0
      BY <1>1, <1>5, <2>2 DEF BlockKinds
    <3> QED
      BY <2>3, <3>1
  <2>7. Grows(blocks, more, answer, d, name)
    BY <2>2, <2>5, <2>6 DEF Grows
  <2> QED
    BY <2>7 DEF more, blocks, name, retold
<1>9. CASE id \in DOMAIN m
  <2>1. i \in DOMAIN items /\ items[i].id = id /\ items[i].name = m[id].name
    BY <1>1, <1>9, PlaceTells
  <2>2. retold = Lengthened(items, i, d.piece)
    BY <1>3, <1>9 DEF Retold
  <2>3. d.kind = "tool_use" => m[id].name = name
    BY <1>6, <1>9 DEF ItemsMatch
  <2> HIDE DEF i, id, retold
  <2>4. more = Lengthened(blocks, i, d.piece)
    BY <1>1, <2>1, <2>2, EntriesLengthen
  <2>5. i \in DOMAIN blocks /\ blocks[i].kind = d.kind /\ (d.kind = "tool_use" => blocks[i].name = name)
    BY <1>2, <1>4, <2>1, <2>3
  <2> HIDE DEF more, blocks, name
  <2>6. Grows(blocks, more, answer, d, name)
    BY <2>4, <2>5 DEF Grows
  <2> QED
    BY <2>6 DEF more, blocks, name, retold
<1> QED
  BY <1>8, <1>9

----------------------------------------------------------------------------
(* A whole answer, and back (Streams) *)

\* What a whole answer has among its items ahead of the calls.
Reasoned(answer) == IF answer.thinking = <<>> THEN <<>> ELSE <<Item(ItemId("reasoning", 0), 0, answer.thinking)>>

Spoken(answer) ==
  IF answer.text = <<>> /\ answer.calls # <<>> THEN <<>> ELSE <<Item(ItemId("message", 0), 0, answer.text)>>

LEMMA EntriesJoin ==
  ASSUME NEW s \in Seq(Items), NEW r \in Seq(Items)
  PROVE  Entries(s \o r) = Entries(s) \o Entries(r)
<1> DEFINE both == s \o r
           a == Entries(both)
           x == Entries(s)
           y == Entries(r)
           b == x \o y
           Of(i) == Block(KindOf(i.id), i.name, i.text)
           n == Len(s)
           m == Len(r)
<1>1. both \in Seq(Items) /\ Len(both) = n + m /\ \A i \in 1 .. n + m : both[i] = IF i <= n THEN s[i] ELSE r[i - n]
  BY JoinedTell
<1>2. n \in Nat /\ m \in Nat /\ DOMAIN s = 1 .. n /\ DOMAIN r = 1 .. m
  OBVIOUS
<1>3. /\ x \in Seq(ReaderBlocks) /\ Len(x) = n /\ \A i \in 1 .. n : x[i] = Of(s[i])
      /\ y \in Seq(ReaderBlocks) /\ Len(y) = m /\ \A i \in 1 .. m : y[i] = Of(r[i])
  BY <1>2, EntriesTell
<1> HIDE DEF both
<1>4. DOMAIN both = 1 .. n + m
  BY <1>1, <1>2
<1>5. a \in Seq(ReaderBlocks) /\ Len(a) = n + m /\ \A i \in 1 .. n + m : a[i] = Of(both[i])
  BY <1>1, <1>4, EntriesTell
<1> HIDE DEF a, x, y, Of, n, m
<1>6. b \in Seq(ReaderBlocks) /\ Len(b) = n + m /\ \A i \in 1 .. n + m : b[i] = IF i <= n THEN x[i] ELSE y[i - n]
  BY <1>3, JoinedTell
<1> HIDE DEF b
<1>7. ASSUME NEW i \in 1 .. n + m PROVE a[i] = b[i]
  <2>1. CASE i <= n
    BY <1>1, <1>2, <1>3, <1>5, <1>6, <2>1
  <2>2. CASE ~(i <= n)
    <3> DEFINE j == i - n
    <3>1. j \in 1 .. m
      BY <1>2, <2>2
    <3>2. both[i] = r[j] /\ b[i] = y[j] /\ a[i] = Of(both[i])
      BY <1>1, <1>5, <1>6, <2>2
    <3> HIDE DEF j
    <3> QED
      BY <1>3, <3>1, <3>2
  <2> QED
    BY <2>1, <2>2
<1>8. a = b
  BY <1>5, <1>6, <1>7, SequencesAgree
<1> QED
  BY <1>8 DEF a, b, x, y, both

LEMMA EntryTells ==
  ASSUME NEW id \in ItemIds, NEW name \in Nat, NEW text \in Seq(Nat)
  PROVE  /\ <<Item(id, name, text)>> \in Seq(Items)
         /\ Entries(<<Item(id, name, text)>>) = <<Block(KindOf(id), name, text)>>
<1> DEFINE item == Item(id, name, text)
           block == Block(KindOf(id), name, text)
<1>1. item \in Items
  BY DEF Item, Items
<1>2. Entries(<<>>) = <<>>
  BY DEF Entries
<1>3. Entries(Append(<<>>, item)) = Append(Entries(<<>>), block)
  <2>1. <<>> \in Seq(Items)
    OBVIOUS
  <2> QED
    BY <2>1, EntriesGrow
<1> HIDE DEF item, block
<1>4. Append(<<>>, item) = <<item>> /\ Append(<<>>, block) = <<block>>
  OBVIOUS
<1>5. <<item>> \in Seq(Items)
  BY <1>1
<1> QED
  BY <1>2, <1>3, <1>4, <1>5 DEF item, block

LEMMA CallItemsTell ==
  ASSUME NEW answer, Answered(answer)
  PROVE  CallItems(answer) \in Seq(Items) /\ Entries(CallItems(answer)) = CallBlocks(answer.calls)
<1> DEFINE calls == answer.calls
           m == Len(calls)
           c == CallItems(answer)
           Of(i) == Item(ItemId("function_call", i), calls[i].name, calls[i].text)
           a == Entries(c)
           b == CallBlocks(calls)
<1>1. m \in Nat /\ DOMAIN calls = 1 .. m /\ calls \in Seq(SaidCalls) /\ \A i \in 1 .. m : calls[i] \in SaidCalls
  BY DEF Answered
<1>2. ASSUME NEW i \in 1 .. m
      PROVE  /\ Of(i) \in Items
             /\ Block(KindOf(Of(i).id), Of(i).name, Of(i).text) = Block("tool_use", calls[i].name, calls[i].text)
  <2> DEFINE id == ItemId("function_call", i)
             name == calls[i].name
             text == calls[i].text
  <2>1. name \in Nat /\ text \in Seq(Nat) /\ id \in ItemIds /\ KindOf(id) = "tool_use"
    BY SMTT(30), <1>1 DEF SaidCalls, ItemId, ItemIds, KindOf
  <2> HIDE DEF id, name, text
  <2>2. Item(id, name, text) \in Items /\ Item(id, name, text).id = id /\ Item(id, name, text).name = name
        /\ Item(id, name, text).text = text
    BY <2>1 DEF Item, Items
  <2> QED
    BY <2>1, <2>2 DEF id, name, text
<1>3. c = [i \in 1 .. m |-> Of(i)]
  BY <1>1 DEF CallItems
<1> HIDE DEF c, Of, m
<1>4. c \in Seq(Items) /\ Len(c) = m /\ DOMAIN c = 1 .. m /\ \A i \in 1 .. m : c[i] = Of(i)
  BY <1>1, <1>2, <1>3
<1>5. a \in Seq(ReaderBlocks) /\ Len(a) = m /\ \A i \in 1 .. m : a[i] = Block(KindOf(c[i].id), c[i].name, c[i].text)
  BY <1>4, EntriesTell
<1>6. b \in Seq(ReaderBlocks) /\ Len(b) = m /\ \A i \in 1 .. m : b[i] = Block("tool_use", calls[i].name, calls[i].text)
  BY <1>1, CallBlocksTell DEF m
<1> HIDE DEF a, b
<1>7. \A i \in 1 .. m : a[i] = b[i]
  BY <1>2, <1>4, <1>5, <1>6
<1>8. a = b
  BY <1>5, <1>6, <1>7, SequencesAgree
<1> QED
  BY <1>4, <1>8 DEF a, b, c

\* The items of a whole answer, as blocks: those of the answer, but for the message of an empty turn.
LEMMA ResponsesTell ==
  ASSUME NEW answer, Answered(answer)
  PROVE  LET first == IF answer.thinking = <<>> THEN <<>> ELSE <<Block("thinking", 0, answer.thinking)>>
             second == IF answer.text = <<>> /\ answer.calls # <<>> THEN <<>> ELSE <<Block("text", 0, answer.text)>>
         IN  /\ ToResponses(answer) \in Seq(Items)
             /\ Entries(ToResponses(answer)) = (first \o second) \o CallBlocks(answer.calls)
             /\ answer.text # <<>> \/ answer.calls # <<>> => Entries(ToResponses(answer)) = ToAnthropic(answer)
<1> DEFINE first == IF answer.thinking = <<>> THEN <<>> ELSE <<Block("thinking", 0, answer.thinking)>>
           second == IF answer.text = <<>> /\ answer.calls # <<>> THEN <<>> ELSE <<Block("text", 0, answer.text)>>
           r == Reasoned(answer)
           t == Spoken(answer)
           c == CallItems(answer)
<1>1. ToResponses(answer) = (r \o t) \o c
  BY DEF ToResponses, Reasoned, Spoken
<1>2. Entries(<<>>) = <<>> /\ <<>> \in Seq(Items)
  BY DEF Entries
<1>3. r \in Seq(Items) /\ Entries(r) = first
  <2>1. ItemId("reasoning", 0) \in ItemIds /\ KindOf(ItemId("reasoning", 0)) = "thinking"
    BY DEF ItemId, ItemIds, KindOf
  <2> DEFINE id == ItemId("reasoning", 0)
  <2> HIDE DEF id
  <2>2. <<Item(id, 0, answer.thinking)>> \in Seq(Items)
        /\ Entries(<<Item(id, 0, answer.thinking)>>) = <<Block("thinking", 0, answer.thinking)>>
    BY <2>1, EntryTells DEF Answered, id
  <2> QED
    BY <1>2, <2>2 DEF Reasoned, id
<1>4. t \in Seq(Items) /\ Entries(t) = second
  <2>1. ItemId("message", 0) \in ItemIds /\ KindOf(ItemId("message", 0)) = "text"
    BY DEF ItemId, ItemIds, KindOf
  <2> DEFINE id == ItemId("message", 0)
  <2> HIDE DEF id
  <2>2. <<Item(id, 0, answer.text)>> \in Seq(Items)
        /\ Entries(<<Item(id, 0, answer.text)>>) = <<Block("text", 0, answer.text)>>
    BY <2>1, EntryTells DEF Answered, id
  <2> QED
    BY <1>2, <2>2 DEF Spoken, id
<1>5. c \in Seq(Items) /\ Entries(c) = CallBlocks(answer.calls)
  BY CallItemsTell
<1> HIDE DEF r, t, c, first, second
<1>6. r \o t \in Seq(Items) /\ (r \o t) \o c \in Seq(Items)
  <2>1. r \o t \in Seq(Items)
    BY <1>3, <1>4, JoinedTell
  <2> DEFINE rt == r \o t
  <2> HIDE DEF rt
  <2>2. rt \in Seq(Items)
    BY <2>1 DEF rt
  <2>3. rt \o c \in Seq(Items)
    BY <1>5, <2>2, JoinedTell
  <2> QED
    BY <2>1, <2>3 DEF rt
<1>7. Entries((r \o t) \o c) = (first \o second) \o CallBlocks(answer.calls)
  <2>1. Entries(r \o t) = first \o second
    BY <1>3, <1>4, EntriesJoin
  <2> DEFINE rt == r \o t
  <2> HIDE DEF rt
  <2>2. rt \in Seq(Items) /\ Entries(rt) = first \o second
    BY <1>6, <2>1 DEF rt
  <2>3. Entries(rt \o c) = Entries(rt) \o Entries(c)
    BY <1>5, <2>2, EntriesJoin
  <2> QED
    BY <1>5, <2>2, <2>3 DEF rt
<1>8. ASSUME answer.text # <<>> \/ answer.calls # <<>> PROVE Entries(ToResponses(answer)) = ToAnthropic(answer)
  <2>1. second = IF answer.text = <<>> THEN <<>> ELSE <<Block("text", 0, answer.text)>>
    BY <1>8 DEF second
  <2>2. Opening(answer) = first \o second
    BY <2>1 DEF Opening, first
  <2>3. ToAnthropic(answer) = Opening(answer) \o CallBlocks(answer.calls)
    BY WholeTells
  <2> QED
    BY <1>1, <1>7, <2>2, <2>3
<1> QED
  BY <1>1, <1>6, <1>7, <1>8 DEF first, second

\* What is kept of blocks of other kinds, followed by calls.
LEMMA KeptJoins ==
  ASSUME NEW o \in Seq(ReaderBlocks), \A i \in DOMAIN o : o[i].kind # "tool_use", NEW calls \in Seq(SaidCalls)
  PROVE  LET w == o \o CallBlocks(calls)
         IN  /\ w \in Seq(ReaderBlocks) /\ Kept(w, "tool_use") = CallBlocks(calls)
             /\ \A kind : kind # "tool_use" => Kept(w, kind) = Kept(o, kind)
<1> DEFINE b == CallBlocks(calls)
           w == o \o b
           n == Len(o)
           m == Len(calls)
<1>1. b \in Seq(ReaderBlocks) /\ Len(b) = m /\ m \in Nat /\ n \in Nat /\ DOMAIN o = 1 .. n
      /\ \A i \in 1 .. m : b[i].kind = "tool_use"
  BY CallBlocksTell
<1> HIDE DEF b
<1>0. w \in Seq(ReaderBlocks) /\ Len(w) = Len(o) + Len(b)
      /\ \A i \in 1 .. Len(o) + Len(b) : w[i] = IF i <= Len(o) THEN o[i] ELSE b[i - Len(o)]
  BY <1>1, JoinedTell
<1> HIDE DEF w, m
<1>2. w \in Seq(ReaderBlocks) /\ Len(w) = n + m /\ \A i \in 1 .. n + m : w[i] = IF i <= n THEN o[i] ELSE b[i - n]
  BY <1>0, <1>1
<1>3. DOMAIN w = 1 .. n + m
  BY <1>1, <1>2
<1>4. ASSUME NEW i \in 1 .. n + m PROVE (i <= n /\ w[i] = o[i]) \/ (i > n /\ i - n \in 1 .. m /\ w[i] = b[i - n])
  <2>1. i \in Int /\ i >= 1 /\ i <= n + m
    BY <1>1
  <2>2. CASE i <= n
    BY <1>2, <2>2
  <2>3. CASE i > n
    <3>1. i - n \in 1 .. m /\ ~(i <= n)
      BY <1>1, <2>1, <2>3
    <3> QED
      BY <1>2, <2>3, <3>1
  <2> QED
    BY <1>1, <2>1, <2>2, <2>3
<1>5. Kept(w, "tool_use") = b
  <2>1. {i \in DOMAIN w : w[i].kind = "tool_use"} = n + 1 .. Len(w)
    BY <1>1, <1>2, <1>3, <1>4
  <2> DEFINE r == Subsequence(w, n + 1 .. Len(w))
  <2>2. n \in 0 .. Len(w)
    BY <1>1, <1>2
  <2>3. r \in Seq(ReaderBlocks) /\ Len(r) = Len(w) - n /\ \A i \in 1 .. Len(w) - n : r[i] = w[n + i]
    BY <1>2, <2>2, EndTells
  <2> HIDE DEF r
  <2>4. Len(r) = m
    BY <1>1, <1>2, <2>3
  <2>5. ASSUME NEW i \in 1 .. m PROVE r[i] = b[i]
    <3> DEFINE j == n + i
    <3>1. j \in 1 .. n + m /\ ~(j <= n) /\ j - n = i /\ i \in 1 .. Len(w) - n
      BY <1>1, <1>2
    <3>2. r[i] = w[j]
      BY <2>3, <3>1
    <3> HIDE DEF j
    <3> QED
      BY <1>2, <3>1, <3>2
  <2>6. r = b
    BY <1>1, <2>3, <2>4, <2>5, SequencesAgree
  <2> QED
    BY <2>1, <2>6 DEF Kept, r
<1>6. ASSUME NEW kind, kind # "tool_use" PROVE Kept(w, kind) = Kept(o, kind)
  <2> DEFINE K == {i \in DOMAIN o : o[i].kind = kind}
  <2>1. {i \in DOMAIN w : w[i].kind = kind} = K
    BY SMTT(30), <1>1, <1>3, <1>4, <1>6
  <2>2. K \in SUBSET DOMAIN o
    OBVIOUS
  <2>3. \A x \in 1 .. Cardinality(K) : Nth(K, x) \in K
    <3> HIDE DEF K
    <3> QED
      BY <2>2, SubsequenceTells
  <2>4. \A i \in K : w[i] = o[i]
    BY <1>1, <1>4
  <2> HIDE DEF K
  <2>5. \A x \in 1 .. Cardinality(K) : w[Nth(K, x)] = o[Nth(K, x)]
    BY <2>3, <2>4
  <2>6. Subsequence(w, K) = Subsequence(o, K)
    BY <2>5 DEF Subsequence
  <2> QED
    BY <2>1, <2>6 DEF Kept, K
<1> QED
  BY <1>2, <1>5, <1>6 DEF w, b

\* The text of one kind, with a block more.
LEMMA KeptText ==
  ASSUME NEW o \in Seq(ReaderBlocks), NEW block \in ReaderBlocks, NEW kind
  PROVE  TextOf(Kept(Append(o, block), kind))
           = IF block.kind = kind THEN TextOf(Kept(o, kind)) \o block.text ELSE TextOf(Kept(o, kind))
<1>1. Kept(o, kind) \in Seq(ReaderBlocks)
      /\ Kept(Append(o, block), kind) = IF block.kind = kind THEN Append(Kept(o, kind), block) ELSE Kept(o, kind)
  BY KeptGrows
<1> DEFINE k == Kept(o, kind)
<1> HIDE DEF k
<1>2. k \in Seq(ReaderBlocks)
  BY <1>1 DEF k
<1>3. TextOf(Append(k, block)) = TextOf(k) \o block.text
  BY <1>2, TextTells
<1> QED
  BY <1>1, <1>3 DEF k

\* A whole answer says what it is made of.
LEMMA ResponsesConvey ==
  ASSUME NEW answer, Answered(answer)
  PROVE  Conveys(Entries(ToResponses(answer)), answer)
<1> DEFINE t == Block("thinking", 0, answer.thinking)
           x == Block("text", 0, answer.text)
           first == IF answer.thinking = <<>> THEN <<>> ELSE <<t>>
           second == IF answer.text = <<>> /\ answer.calls # <<>> THEN <<>> ELSE <<x>>
           o == first \o second
           calls == answer.calls
<1>1. Entries(ToResponses(answer)) = o \o CallBlocks(calls)
  BY ResponsesTell
<1>2. /\ t \in ReaderBlocks /\ t.kind = "thinking" /\ t.text = answer.thinking
      /\ x \in ReaderBlocks /\ x.kind = "text" /\ x.text = answer.text
  BY BlockTells DEF Answered, BlockKinds
<1>3. answer.thinking \in Seq(Nat) /\ answer.text \in Seq(Nat) /\ calls \in Seq(SaidCalls)
  BY DEF Answered
<1> HIDE DEF t, x, o, calls
<1>4. \A kind : TextOf(Kept(<<>>, kind)) = <<>>
  <2>1. <<>> \in Seq(ReaderBlocks) /\ DOMAIN <<>> = {}
    OBVIOUS
  <2> QED
    BY <2>1, NoneKept
<1>5. \A s \in Seq(Nat) : <<>> \o s = s
  OBVIOUS
<1>6. /\ first \in Seq(ReaderBlocks) /\ \A i \in DOMAIN first : first[i].kind # "tool_use"
      /\ TextOf(Kept(first, "thinking")) = answer.thinking /\ TextOf(Kept(first, "text")) = <<>>
  <2>1. CASE answer.thinking = <<>>
    BY <1>4, <2>1
  <2>2. CASE answer.thinking # <<>>
    <3> DEFINE one == Append(<<>>, t)
    <3>1. first = <<t>> /\ one = <<t>> /\ <<>> \in Seq(ReaderBlocks)
      BY <2>2
    <3>2. <<t>> \in Seq(ReaderBlocks) /\ DOMAIN <<t>> = {1} /\ <<t>>[1] = t
      BY <1>2
    <3>3. /\ TextOf(Kept(one, "thinking")) = TextOf(Kept(<<>>, "thinking")) \o answer.thinking
          /\ TextOf(Kept(one, "text")) = TextOf(Kept(<<>>, "text"))
      <4>1. \A kind : TextOf(Kept(Append(<<>>, t), kind))
                        = IF t.kind = kind THEN TextOf(Kept(<<>>, kind)) \o t.text ELSE TextOf(Kept(<<>>, kind))
        BY <1>2, <3>1, KeptText
      <4> QED
        BY <1>2, <4>1
    <3> HIDE DEF one, first
    <3>4. TextOf(Kept(first, "thinking")) = answer.thinking /\ TextOf(Kept(first, "text")) = <<>>
      BY <1>3, <1>4, <1>5, <3>1, <3>3
    <3> QED
      BY <1>2, <3>1, <3>2, <3>4
  <2> QED
    BY <2>1, <2>2
<1> HIDE DEF first
<1>7. /\ o \in Seq(ReaderBlocks) /\ \A i \in DOMAIN o : o[i].kind # "tool_use"
      /\ TextOf(Kept(o, "thinking")) = answer.thinking /\ TextOf(Kept(o, "text")) = answer.text
  <2>1. CASE answer.text = <<>> /\ calls # <<>>
    <3>1. second = <<>>
      BY <2>1 DEF calls
    <3> HIDE DEF second
    <3>2. \A s \in Seq(ReaderBlocks) : s \o <<>> = s
      OBVIOUS
    <3>3. o = first
      BY <1>6, <3>1, <3>2 DEF o
    <3> QED
      BY <1>6, <2>1, <3>3
  <2>2. CASE ~(answer.text = <<>> /\ calls # <<>>)
    <3>1. second = <<x>>
      BY <2>2 DEF calls
    <3> HIDE DEF second
    <3> DEFINE a == Append(first, x)
               l == Len(first)
    <3>2. a \in Seq(ReaderBlocks) /\ Len(a) = l + 1 /\ a[l + 1] = x /\ \A i \in 1 .. l : a[i] = first[i]
      BY <1>2, <1>6, AppendedTells
    <3>3. o = a
      <4> DEFINE one == <<x>>
      <4>1. one \in Seq(ReaderBlocks) /\ Len(one) = 1 /\ one[1] = x /\ o = first \o one
        BY <1>2, <3>1 DEF o
      <4> HIDE DEF one
      <4> DEFINE both == first \o one
      <4>2. both \in Seq(ReaderBlocks) /\ Len(both) = l + 1
            /\ \A i \in 1 .. l + 1 : both[i] = IF i <= l THEN first[i] ELSE one[i - l]
        <5>1. /\ both \in Seq(ReaderBlocks) /\ Len(both) = Len(first) + Len(one)
              /\ \A i \in 1 .. Len(first) + Len(one) : both[i] = IF i <= Len(first) THEN first[i] ELSE one[i - Len(first)]
          BY <1>6, <4>1, JoinedTell
        <5> HIDE DEF both
        <5> QED
          BY <4>1, <5>1
      <4>3. l \in Nat
        BY <1>6
      <4> HIDE DEF both, a, l
      <4>4. ASSUME NEW i \in 1 .. l + 1 PROVE both[i] = a[i]
        <5>1. CASE i = l + 1
          <6>1. ~(i <= l) /\ i - l = 1
            BY <4>3, <5>1
          <6> QED
            BY <3>2, <4>1, <4>2, <5>1, <6>1
        <5>2. CASE i # l + 1
          <6>1. i <= l /\ i \in 1 .. l
            BY <4>3, <5>2
          <6> QED
            BY <3>2, <4>2, <6>1
        <5> QED
          BY <5>1, <5>2
      <4>5. both = a
        BY <3>2, <4>2, <4>4, SequencesAgree
      <4> QED
        BY <4>1, <4>5 DEF both
    <3>4. \A kind : TextOf(Kept(a, kind))
                      = IF x.kind = kind THEN TextOf(Kept(first, kind)) \o x.text ELSE TextOf(Kept(first, kind))
      BY <1>2, <1>6, KeptText
    <3> HIDE DEF a
    <3>5. TextOf(Kept(a, "thinking")) = answer.thinking /\ TextOf(Kept(a, "text")) = answer.text
      BY <1>2, <1>3, <1>5, <1>6, <3>4
    <3>6. \A i \in DOMAIN a : a[i].kind # "tool_use"
      <4>1. l \in Nat /\ DOMAIN first = 1 .. l
        BY <1>6
      <4>2. DOMAIN a = 1 .. l + 1
        BY <3>2, <4>1
      <4>3. \A i \in 1 .. l + 1 : i = l + 1 \/ i \in 1 .. l
        BY <4>1
      <4> QED
        BY <1>2, <1>6, <3>2, <4>1, <4>2, <4>3
    <3> QED
      BY <3>2, <3>3, <3>5, <3>6
  <2> QED
    BY <2>1, <2>2
<1>8. /\ o \o CallBlocks(calls) \in Seq(ReaderBlocks) /\ Kept(o \o CallBlocks(calls), "tool_use") = CallBlocks(calls)
      /\ Kept(o \o CallBlocks(calls), "thinking") = Kept(o, "thinking")
      /\ Kept(o \o CallBlocks(calls), "text") = Kept(o, "text")
  BY <1>3, <1>7, KeptJoins
<1>9. Bare(CallBlocks(calls)) = calls
  <2> DEFINE b == CallBlocks(calls)
             m == Len(calls)
             Of(i) == [name |-> b[i].name, text |-> b[i].text]
  <2>1. b \in Seq(ReaderBlocks) /\ DOMAIN b = 1 .. m /\ m \in Nat /\ DOMAIN calls = 1 .. m
        /\ \A i \in 1 .. m : b[i].name = calls[i].name /\ b[i].text = calls[i].text
    BY <1>3, CallBlocksTell
  <2>2. Bare(b) = [i \in 1 .. m |-> Of(i)]
    BY <2>1 DEF Bare
  <2>3. ASSUME NEW i \in 1 .. m PROVE Of(i) = calls[i]
    <3> DEFINE call == calls[i]
    <3>1. call \in SaidCalls /\ b[i].name = call.name /\ b[i].text = call.text
      BY <1>3, <2>1
    <3> HIDE DEF call, b
    <3>2. call = [name |-> call.name, text |-> call.text]
      BY <3>1 DEF SaidCalls
    <3> QED
      BY <3>1, <3>2 DEF call
  <2>4. calls = [i \in 1 .. m |-> calls[i]]
    BY <1>3, <2>1
  <2> HIDE DEF Of, b, m
  <2> QED
    BY <2>2, <2>3, <2>4 DEF b
<1> QED
  BY <1>1, <1>7, <1>8, <1>9 DEF Conveys, calls

\* A whole answer survives the way over a second gateway.
LEMMA WholeReturns ==
  ASSUME NEW answer, Answered(answer)
  PROVE  FromResponses(ToResponses(answer)) =
           [thinking |-> answer.thinking, text |-> answer.text, calls |-> answer.calls,
            finish |-> IF answer.calls = <<>> THEN "stop" ELSE "tool_calls"]
<1> DEFINE output == ToResponses(answer)
           calls == OfKind(output, "function_call")
           finish == IF calls = <<>> THEN "stop" ELSE "tool_calls"
<1>1. output \in Seq(Items)
  BY ResponsesTell
<1>2. /\ TextOf(OfKind(output, "reasoning")) = answer.thinking /\ TextOf(OfKind(output, "message")) = answer.text
      /\ Bare(calls) = answer.calls
  <2>1. Conveys(Entries(output), answer)
    BY ResponsesConvey
  <2> HIDE DEF output
  <2> QED
    BY <1>1, <2>1, ItemsConvey
<1>3. calls \in Seq(Items)
  <2> DEFINE K == {i \in DOMAIN output : output[i].id.kind = "function_call"}
  <2> HIDE DEF output
  <2>1. K \in SUBSET DOMAIN output /\ calls = Subsequence(output, K)
    BY DEF OfKind
  <2> HIDE DEF K, calls
  <2> QED
    BY <1>1, <2>1, SubsequenceTells
<1>4. FromResponses(output) =
        [thinking |-> TextOf(OfKind(output, "reasoning")), text |-> TextOf(OfKind(output, "message")),
         calls |-> Bare(calls), finish |-> finish]
  BY DEF FromResponses, Bare
<1> HIDE DEF output, calls
<1>5. calls = <<>> <=> Bare(calls) = <<>>
  <2>1. DOMAIN Bare(calls) = DOMAIN calls
    BY DEF Bare
  <2>2. calls = <<>> => Bare(calls) = <<>>
    BY DEF Bare
  <2>3. calls # <<>> => DOMAIN calls # {}
    <3>1. DOMAIN calls = 1 .. Len(calls) /\ Len(calls) \in Nat
      BY <1>3
    <3>2. Len(calls) # 0 => 1 \in 1 .. Len(calls)
      BY <3>1
    <3>3. Len(calls) = 0 => calls = <<>>
      BY <1>3
    <3> QED
      BY <3>1, <3>2, <3>3
  <2>4. DOMAIN <<>> = {}
    OBVIOUS
  <2> QED
    BY <2>1, <2>2, <2>3, <2>4
<1>6. finish = IF answer.calls = <<>> THEN "stop" ELSE "tool_calls"
  BY <1>2, <1>5
<1> QED
  BY <1>2, <1>4, <1>6 DEF output

\* Items that are the same blocks are listed the same.
LEMMA ListedAgree ==
  ASSUME NEW a \in Seq(Items), NEW b \in Seq(Items), Entries(a) = Entries(b)
  PROVE  Listed(a) = Listed(b)
<1> DEFINE Of(s, i) == [kind |-> s[i].id.kind, name |-> s[i].name, text |-> s[i].text]
           n == Len(a)
<1>1. /\ DOMAIN Entries(a) = DOMAIN a /\ DOMAIN Entries(b) = DOMAIN b
      /\ \A i \in DOMAIN a : Entries(a)[i].kind = KindOf(a[i].id) /\ Entries(a)[i].name = a[i].name
                             /\ Entries(a)[i].text = a[i].text
      /\ \A i \in DOMAIN b : Entries(b)[i].kind = KindOf(b[i].id) /\ Entries(b)[i].name = b[i].name
                             /\ Entries(b)[i].text = b[i].text
  BY EntriesTell
<1>2. DOMAIN a = DOMAIN b
  BY <1>1
<1>3. \A id, other \in ItemIds : KindOf(id) = KindOf(other) => id.kind = other.kind
  BY DEF ItemIds, KindOf
<1>4. ASSUME NEW i \in DOMAIN a PROVE Of(a, i) = Of(b, i)
  <2>1. a[i] \in Items /\ b[i] \in Items
    BY <1>2
  <2>2. a[i].id \in ItemIds /\ b[i].id \in ItemIds
    BY <2>1 DEF Items
  <2>3. KindOf(a[i].id) = KindOf(b[i].id) /\ a[i].name = b[i].name /\ a[i].text = b[i].text
    BY <1>1, <1>2
  <2> QED
    BY <1>3, <2>2, <2>3
<1>5. Listed(a) = [i \in DOMAIN a |-> Of(a, i)] /\ Listed(b) = [i \in DOMAIN b |-> Of(b, i)]
  BY DEF Listed
<1> HIDE DEF Of
<1> QED
  BY <1>2, <1>4, <1>5

----------------------------------------------------------------------------
(* The answer, piece by piece (Streams) *)

\* The names of the calls, by their indices.
Named == [k \in Nat |-> NameOf(k)]

LEMMA NamedTells == \A k \in Nat : Named[k] = NameOf(k) /\ NameOf(k) \in Nat \ {0}
BY DEF Named, NameOf

\* What is said next, and whether it is still in order.
Proceeds(answer, next, d) ==
  IF d.kind = "none" THEN next.latest = answer.latest /\ next.in_order = answer.in_order
  ELSE next.latest = d.kind /\ next.in_order = (answer.in_order /\ Ranks[answer.latest] <= Ranks[d.kind])

\* Told in order, the answer is to its clients what it would be whole.
Ordering ==
  /\ near.translator.open = said.latest
  /\ said.in_order => /\ Orderly(near.reader.blocks, said, said.latest)
                      /\ Orderly(Entries(client.items), said, said.latest)

\* While the answer is told, every client has what was said of it.
Assembling ==
  /\ NamesDiffer(said.calls) /\ Hears(chat, said)
  /\ OpenBlocks(near.translator, near.reader.blocks) /\ NamesCalls(near.translator, Named)
  /\ Conveys(near.reader.blocks, said)
  /\ ItemsMatch(responses.items, client.items) /\ Conveys(Entries(client.items), said)
  /\ Relaying(far, responses.items, client.items, said)
  /\ Ordering

LEMMA OpenTells ==
  ASSUME NEW s \in Translators, NEW d \in Pieces
  PROVE  After(s, d).open = IF d.kind = "none" THEN s.open ELSE d.kind
<1>1. \A x \in Translators : [x EXCEPT !.started = TRUE].open = x.open
  BY DEF Translators
<1> DEFINE b == BlockOf(s, d)
           index == IF Known(s, d) THEN s.index ELSE s.index + 1
           tool == IF d.kind = "tool_use" THEN d.key ELSE NoKey
           tools == IF d.kind = "tool_use" THEN WithEntry(s.tools, d.key, b) ELSE s.tools
           opened == [s EXCEPT !.open = d.kind, !.open_index = b.index, !.index = index,
                               !.open_tool = tool, !.tools = tools]
<1>2. Opened(s, d) = IF StaysOpen(s, d) THEN s ELSE opened
  BY DEF Opened
<1> HIDE DEF b, index, tool, tools
<1>3. opened.open = d.kind /\ [opened EXCEPT !.started = TRUE].open = d.kind
  BY DEF Translators
<1> HIDE DEF opened
<1>4. CASE d.kind = "none"
  BY <1>1, <1>4 DEF After
<1>5. CASE d.kind # "none"
  <2>1. After(s, d) = [Opened(s, d) EXCEPT !.started = TRUE]
    BY <1>5 DEF After
  <2>2. CASE StaysOpen(s, d)
    <3>1. Opened(s, d) = s /\ s.open = d.kind
      BY <1>2, <2>2 DEF StaysOpen
    <3> QED
      BY <1>1, <1>5, <2>1, <3>1
  <2>3. CASE ~StaysOpen(s, d)
    <3>1. Opened(s, d) = opened
      BY <1>2, <2>3
    <3> QED
      BY <1>3, <1>5, <2>1, <3>1
  <2> QED
    BY <2>2, <2>3
<1> QED
  BY <1>4, <1>5

\* Nothing but the answer itself matters to its order.
LEMMA OrderlySame ==
  ASSUME NEW blocks, NEW answer, NEW latest, Orderly(blocks, answer, latest), NEW next,
         next.thinking = answer.thinking, next.text = answer.text, next.calls = answer.calls
  PROVE  Orderly(blocks, next, latest)
<1>1. ToAnthropic(next) = ToAnthropic(answer)
  BY DEF ToAnthropic
<1> QED
  BY <1>1 DEF Orderly

\* A chunk keeps what is told in order so.
LEMMA ChunkOrders ==
  ASSUME said \in Answers, NamesDiffer(said.calls), Ordering, NEW d \in Pieces,
         d.kind \in {"thinking", "text"} => d.piece # 0, Proceeds(said, said', d), Says(said, said', d),
         FollowsAnthropic(near.translator, near.reader), FollowsResponses(responses, client),
         OpenBlocks(near.translator, near.reader.blocks), NamesCalls(near.translator, Named),
         ItemsMatch(responses.items, client.items), Conveys(Entries(client.items), said),
         d.kind = "tool_use" /\ IsCalled(said, NameOf(d.key)) =>
           d.key \in DOMAIN near.translator.tools /\ PayloadId(d) \in DOMAIN responses.items,
         near'.translator.open = After(near.translator, d).open,
         near'.reader.blocks = Rewritten(near.translator, near.reader.blocks, d),
         client'.items = Retold(responses, client.items, d)
  PROVE  Ordering'
<1> DEFINE s == near.translator
           kind == d.kind
           name == NameOf(d.key)
           blocks == near.reader.blocks
           entries == Entries(client.items)
           later == said'
<1>1. /\ s \in Translators /\ Answered(said) /\ said.latest \in BlockKinds \cup {"none"} /\ d.key \in Nat
      /\ d.kind \in BlockKinds \cup {"none"}
  BY DEF FollowsAnthropic, Answers, Answered, Pieces, BlockKinds
<1>2. Named[d.key] = name /\ name \in Nat /\ Named[d.key] \in Nat
  BY <1>1, NamedTells
<1>3. near'.translator.open = later.latest
  BY <1>1, OpenTells DEF Ordering, Proceeds
<1>4. ASSUME later.in_order PROVE Orderly(near'.reader.blocks, later, later.latest) /\ Orderly(Entries(client'.items), later, later.latest)
  <2>1. CASE kind = "none"
    <3>1. later.latest = said.latest /\ said.in_order
      BY <1>4, <2>1 DEF Proceeds
    <3>2. later.thinking = said.thinking /\ later.text = said.text /\ later.calls = said.calls
      BY <2>1 DEF Says, Speaks
    <3>3. near'.reader.blocks = blocks /\ client'.items = client.items
      BY <2>1 DEF Rewritten, Retold
    <3>4. Orderly(blocks, said, said.latest) /\ Orderly(entries, said, said.latest)
      BY <3>1 DEF Ordering
    <3> QED
      BY <3>1, <3>2, <3>3, <3>4, OrderlySame
  <2>2. CASE kind # "none"
    <3>1. later.latest = kind /\ said.in_order /\ Ranks[said.latest] <= Ranks[kind]
      BY <1>4, <2>2 DEF Proceeds
    <3>2. Orderly(blocks, said, said.latest) /\ Orderly(entries, said, said.latest) /\ s.open = said.latest
      BY <3>1 DEF Ordering
    <3>3. Speaks(said, later, d, name)
      BY DEF Says
    <3>4. Grows(blocks, Rewritten(s, blocks, d), said, d, name)
      <4>1. Speaks(said, later, d, Named[d.key]) /\ (kind = "tool_use" /\ IsCalled(said, Named[d.key]) => d.key \in DOMAIN s.tools)
        BY <1>2, <3>3
      <4>2. Orderly(blocks, said, s.open) /\ Ranks[s.open] <= Ranks[kind]
        BY <3>1, <3>2
      <4>3. Grows(blocks, Rewritten(s, blocks, d), said, d, Named[d.key])
        BY <1>2, <2>2, <4>1, <4>2, ReaderGrows
      <4> QED
        BY <1>2, <4>3
    <3>5. Grows(entries, Entries(Retold(responses, client.items, d)), said, d, name)
      BY <2>2, ClientGrows
    <3> DEFINE more == Rewritten(s, blocks, d)
               told == Entries(Retold(responses, client.items, d))
    <3> HIDE DEF more, told, entries, blocks, name
    <3>6. Orderly(more, later, kind)
      BY <1>1, <1>2, <2>2, <3>1, <3>2, <3>3, <3>4, OrderStays DEF more
    <3>7. Orderly(told, later, kind)
      BY <1>1, <1>2, <2>2, <3>1, <3>2, <3>3, <3>5, OrderStays DEF told
    <3> QED
      BY <3>1, <3>6, <3>7 DEF more, told, blocks
  <2> QED
    BY <2>1, <2>2
<1> QED
  BY <1>3, <1>4 DEF Ordering

\* What is to hold of the answer, as long as no fragment goes astray.
Assembled == AssembledAsSaid /\ FinalIsAssembled /\ RoundTrip /\ WholeAgrees
AssembledInv == (phase = "open" => Assembling) /\ (phase # "open" => Assembled)

\* A chunk gives every client what is said with it.
LEMMA ChunkAssembles ==
  ASSUME StreamsInv, StreamAssumption, Assembling, NEW d \in Pieces, d.kind = "none" => d.piece = 0,
         d.kind \in {"thinking", "text"} => d.piece # 0,
         NEW finish, NEW usage \in Usages \cup {0}, Chunk(d, finish, usage),
         Says(said, said', d), Proceeds(said, said', d), NamesDiffer(said'.calls)
  PROVE  Assembling'
<1> DEFINE g == near
           s == near.translator
           c == near.reader
           after == After(s, d)
<1>1. /\ chat' = Heard(chat, d, finish, usage) /\ near' = Take(near, d, finish, usage)
      /\ responses' = Translated(responses, d) /\ client' = Follow(client, Translation(responses, d))
      /\ phase = "open"
  BY DEF Chunk
<1>2. ClientsAreWhereTheyShould /\ CallsHaveBlocks /\ said \in Answers
  BY <1>1 DEF StreamsInv, AnswerTyped
<1>3. near \in Gateways /\ FollowsAnthropic(s, c) /\ FollowsResponses(responses, client)
  BY <1>2 DEF ClientsAreWhereTheyShould
<1>4. usage \in Nat /\ said.calls \in Seq(SaidCalls) /\ d.key \in Nat
  BY <1>2, UsageTells DEF Answers, Pieces
<1>5. d.kind = "tool_use" /\ IsCalled(said, NameOf(d.key)) =>
        d.key \in DOMAIN s.tools /\ PayloadId(d) \in DOMAIN responses.items
  <2> SUFFICES ASSUME d.kind = "tool_use", IsCalled(said, NameOf(d.key))
               PROVE  d.key \in DOMAIN s.tools /\ PayloadId(d) \in DOMAIN responses.items
    OBVIOUS
  <2>1. IsOpen(d.key)
    BY DEF IsOpen, IsCalled
  <2>2. PayloadId(d) = ItemId("function_call", d.key)
    BY DEF PayloadId
  <2> QED
    BY <1>2, <1>4, <2>1, <2>2 DEF CallsHaveBlocks
<1>6. d.kind = "tool_use" /\ (d.key \notin DOMAIN s.tools \/ PayloadId(d) \notin DOMAIN responses.items)
        => d.name = NameOf(d.key) /\ d.name # 0
  <2>1. NameOf(d.key) # 0
    BY <1>4 DEF NameOf
  <2> QED
    BY <1>5, <2>1 DEF Says, Speaks
<1>7. /\ OpenBlocks(s, c.blocks) /\ NamesCalls(s, Named) /\ Conveys(c.blocks, said) /\ NamesDiffer(said.calls)
      /\ ItemsMatch(responses.items, client.items) /\ Conveys(Entries(client.items), said) /\ Hears(chat, said)
  BY DEF Assembling
<1>8. near'.reader.blocks = Rewritten(s, c.blocks, d)
  BY <1>1, <1>3, <1>4, <1>6, GatewayFollows
<1>9. near'.translator = Finishing(after, finish)
  BY <1>1 DEF Take
<1>10. OpenBlocks(near'.translator, near'.reader.blocks) /\ NamesCalls(near'.translator, Named)
  <2>1. OpenBlocks(after, Rewritten(s, c.blocks, d)) /\ NamesCalls(after, Named)
    <3>1. d.kind = "tool_use" /\ d.key \notin DOMAIN s.tools => d.name = Named[d.key]
      BY <1>4, <1>6, NamedTells
    <3> QED
      BY <1>3, <1>7, <3>1, OpenBlocksKept
  <2>2. after \in Translators
    <3>1. FollowsAnthropic(after, Read(c, Events(s, d)))
      BY <1>3, <1>6, TakeFollows
    <3> QED
      BY <3>1 DEF FollowsAnthropic
  <2> HIDE DEF after
  <2> QED
    BY <1>8, <1>9, <2>1, <2>2, FinishingKeeps
<1>11. Conveys(near'.reader.blocks, said')
  <2>1. Named[d.key] = NameOf(d.key) /\ NameOf(d.key) \in Nat
    BY <1>4, NamedTells
  <2>2. Speaks(said, said', d, Named[d.key])
    BY <2>1 DEF Says
  <2>3. d.kind = "tool_use" /\ IsCalled(said, Named[d.key]) => d.key \in DOMAIN s.tools
    BY <1>5, <2>1
  <2>4. Named[d.key] \in Nat
    BY <2>1
  <2> QED
    BY <1>3, <1>7, <1>8, <2>2, <2>3, <2>4, ReaderConveys
<1>12. client'.items = Retold(responses, client.items, d)
  BY <1>1, <1>3, TranslationFollows
<1>13. ItemsMatch(responses'.items, client'.items)
  <2>1. d.kind \in {"thinking", "text"} => d.name = 0
    BY DEF Says, Speaks
  <2> QED
    BY <1>1, <1>3, <1>6, <1>7, <1>12, <2>1, ItemsMatchKept
<1>14. Conveys(Entries(client'.items), said')
  BY <1>3, <1>5, <1>7, <1>12, ClientConveys
<1>15. Hears(chat', said')
  BY <1>1, <1>4, <1>7, HeardConveys
<1>16. Relaying(far', responses'.items, client'.items, said')
  <2>1. FollowsRelay(far, DOMAIN responses.items) /\ Relaying(far, responses.items, client.items, said)
    BY <1>2 DEF ClientsAreWhereTheyShould, Assembling
  <2>2. far' = RelayAll(far, Translation(responses, d))
    BY DEF Chunk
  <2> QED
    BY <1>1, <1>3, <1>4, <1>5, <1>7, <1>12, <2>1, <2>2, RelayConveys
<1>17. Ordering'
  <2>1. after \in Translators
    <3>1. FollowsAnthropic(after, Read(c, Events(s, d)))
      BY <1>3, <1>6, TakeFollows
    <3> QED
      BY <3>1 DEF FollowsAnthropic
  <2> HIDE DEF after
  <2>2. near'.translator.open = after.open
    BY <1>9, <2>1 DEF Finishing, Translators
  <2>3. Ordering
    BY DEF Assembling
  <2> QED
    BY <1>2, <1>3, <1>5, <1>7, <1>8, <1>12, <2>2, <2>3, ChunkOrders DEF after
<1> QED
  BY <1>10, <1>11, <1>13, <1>14, <1>15, <1>16, <1>17 DEF Assembling

\* A piece of thinking or of text is what the answer says more.
LEMMA PlainAssembles ==
  ASSUME StreamsInv, StreamAssumption, Assembling, Think \/ Speak
  PROVE  Assembling'
<1> DEFINE piece == said.pieces + 1
<1>1. phase = "open"
  BY DEF Think, Speak, Chunk
<1>2. said \in Answers /\ said.pieces \in Nat /\ said.thinking \in Seq(Nat) /\ said.text \in Seq(Nat)
  BY DEF StreamsInv, AnswerTyped, Answers
<1>3. piece \in Nat /\ piece # 0
  BY <1>2
<1>4. NamesDiffer(said.calls) /\ 0 \in Usages \cup {0}
  BY DEF Assembling
<1> HIDE DEF piece
<1>5. CASE Think
  <2> DEFINE d == Payload("thinking", 0, 0, piece)
             next == Saying("thinking")
             thinking == Append(next.thinking, piece)
  <2>1. "thinking" \in BlockKinds
    BY DEF BlockKinds
  <2>2. d \in Pieces /\ d.kind = "thinking" /\ d.name = 0 /\ d.piece = piece
    BY <1>3, <2>1, PayloadTells
  <2>3. Chunk(d, "none", 0) /\ said' = [next EXCEPT !.thinking = thinking]
    BY <1>5 DEF Think, piece
  <2>4. next \in Answers /\ next.calls = said.calls /\ next.thinking = said.thinking /\ next.text = said.text
      /\ next.latest = d.kind /\ next.in_order = (said.in_order /\ Ranks[said.latest] <= Ranks[d.kind])
    BY <1>2, <2>1, <2>2, SayingTells
  <2> HIDE DEF next, thinking, d
  <2>5. /\ said'.thinking = thinking /\ said'.text = next.text /\ said'.calls = next.calls
        /\ said'.latest = next.latest /\ said'.in_order = next.in_order
    BY <2>3, <2>4 DEF Answers
  <2>6. thinking = Longer(said.thinking, piece)
    BY <1>3, <2>4 DEF thinking, Longer
  <2>7. Says(said, said', d)
    BY <2>2, <2>4, <2>5, <2>6 DEF Says, Speaks, Gains
  <2>8. NamesDiffer(said'.calls)
    BY <1>4, <2>4, <2>5
  <2>9. Proceeds(said, said', d)
    BY <2>2, <2>4, <2>5 DEF Proceeds
  <2> QED
    BY <1>3, <1>4, <2>2, <2>3, <2>7, <2>8, <2>9, ChunkAssembles
<1>6. CASE Speak
  <2> DEFINE d == Payload("text", 0, 0, piece)
             next == Saying("text")
             text == Append(next.text, piece)
  <2>1. "text" \in BlockKinds
    BY DEF BlockKinds
  <2>2. d \in Pieces /\ d.kind = "text" /\ d.name = 0 /\ d.piece = piece
    BY <1>3, <2>1, PayloadTells
  <2>3. Chunk(d, "none", 0) /\ said' = [next EXCEPT !.text = text]
    BY <1>6 DEF Speak, piece
  <2>4. next \in Answers /\ next.calls = said.calls /\ next.thinking = said.thinking /\ next.text = said.text
      /\ next.latest = d.kind /\ next.in_order = (said.in_order /\ Ranks[said.latest] <= Ranks[d.kind])
    BY <1>2, <2>1, <2>2, SayingTells
  <2> HIDE DEF next, text, d
  <2>5. /\ said'.thinking = next.thinking /\ said'.text = text /\ said'.calls = next.calls
        /\ said'.latest = next.latest /\ said'.in_order = next.in_order
    BY <2>3, <2>4 DEF Answers
  <2>6. text = Longer(said.text, piece)
    BY <1>3, <2>4 DEF text, Longer
  <2>7. Says(said, said', d)
    BY <2>2, <2>4, <2>5, <2>6 DEF Says, Speaks, Gains
  <2>8. NamesDiffer(said'.calls)
    BY <1>4, <2>4, <2>5
  <2>9. Proceeds(said, said', d)
    BY <2>2, <2>4, <2>5 DEF Proceeds
  <2> QED
    BY <1>3, <1>4, <2>2, <2>3, <2>7, <2>8, <2>9, ChunkAssembles
<1> QED
  BY <1>5, <1>6

\* A chunk without a piece says nothing.
LEMMA QuietAssembles ==
  ASSUME StreamsInv, StreamAssumption, Assembling, Ping \/ Finish \/ Tell
  PROVE  Assembling'
<1>1. said \in Answers
  BY DEF StreamsInv, AnswerTyped
<1>2. Nothing \in Pieces /\ Nothing.kind = "none" /\ Nothing.piece = 0
  BY PayloadTells DEF Nothing
<1> HIDE DEF Nothing
<1>3. PICK finish \in Finishes \cup {"none"}, usage \in Usages \cup {0} :
        /\ Chunk(Nothing, finish, usage)
        /\ said'.thinking = said.thinking /\ said'.text = said.text /\ said'.calls = said.calls
        /\ said'.latest = said.latest /\ said'.in_order = said.in_order
  <2>1. CASE Ping
    BY <2>1 DEF Ping
  <2>2. CASE Finish
    <3>1. PICK finish \in Finishes :
            Chunk(Nothing, finish, 0) /\ said' = [said EXCEPT !.finish = StatedSoFar(said.finish, finish)]
      BY <2>2 DEF Finish
    <3>2. /\ said'.thinking = said.thinking /\ said'.text = said.text /\ said'.calls = said.calls
          /\ said'.latest = said.latest /\ said'.in_order = said.in_order
      BY <1>1, <3>1 DEF Answers
    <3> QED
      BY <3>1, <3>2
  <2>3. CASE Tell
    <3>1. PICK usage \in Usages : Chunk(Nothing, "none", usage) /\ said' = [said EXCEPT !.usage = usage]
      BY <2>3 DEF Tell
    <3>2. /\ said'.thinking = said.thinking /\ said'.text = said.text /\ said'.calls = said.calls
          /\ said'.latest = said.latest /\ said'.in_order = said.in_order
      BY <1>1, <3>1 DEF Answers
    <3> QED
      BY <3>1, <3>2
  <2> QED
    BY <2>1, <2>2, <2>3
<1>4. Says(said, said', Nothing)
  BY <1>2, <1>3 DEF Says, Speaks
<1>5. NamesDiffer(said'.calls)
  BY <1>3 DEF Assembling
<1>6. Proceeds(said, said', Nothing)
  BY <1>2, <1>3 DEF Proceeds
<1> QED
  BY <1>2, <1>3, <1>4, <1>5, <1>6, ChunkAssembles

\* The first fragment of a call is a call more.
LEMMA OpenAssembles ==
  ASSUME StreamsInv, StreamAssumption, Assembling, NEW call \in Calls, NEW position \in Nat,
         NEW piece \in {0, said.pieces + 1}, NEW label \in Labels(call, position), ~Astray(label, position),
         Open(call, position, label, piece)
  PROVE  Assembling'
<1> DEFINE d == Payload("tool_use", FragmentKey(label, position), NameOf(call), piece)
           next == Saying("tool_use")
           strayed == next.astray \/ Astray(label, position)
           new == [name |-> NameOf(call), text |-> IF piece = 0 THEN <<>> ELSE <<piece>>]
           calls == Append(next.calls, new)
           n == Len(said.calls)
<1>1. said \in Answers /\ said.pieces \in Nat /\ call \in Nat /\ said.calls \in Seq(SaidCalls)
  BY DEF StreamsInv, AnswerTyped, Answers, StreamAssumption
<1>2. piece \in Nat /\ "tool_use" \in BlockKinds /\ "tool_use" \in BlockKinds \cup {"none"}
  BY <1>1 DEF BlockKinds
<1>3. FragmentKey(label, position) = call /\ NameOf(call) \in Nat
  BY <1>1, LabelsTell DEF NameOf
<1>4. d \in Pieces /\ d.kind = "tool_use" /\ d.key = call /\ d.name = NameOf(call) /\ d.piece = piece
  BY <1>1, <1>2, <1>3 DEF Payload, Pieces
<1>5. Chunk(d, "none", 0) /\ said' = [next EXCEPT !.astray = strayed, !.calls = calls] /\ ~IsOpen(call)
  BY DEF Open
<1>6. /\ next \in Answers /\ next.calls = said.calls /\ next.thinking = said.thinking /\ next.text = said.text
      /\ next.latest = "tool_use" /\ next.in_order = (said.in_order /\ Ranks[said.latest] <= Ranks["tool_use"])
  BY <1>1, <1>2, SayingTells
<1>7. new = [name |-> NameOf(call), text |-> Uttered(piece)] /\ new \in SaidCalls /\ new.name = NameOf(call)
  <2>1. Uttered(piece) \in Seq(Nat)
    BY <1>2 DEF Uttered
  <2>2. new = [name |-> NameOf(call), text |-> Uttered(piece)]
    BY DEF Uttered
  <2> HIDE DEF new
  <2> QED
    BY <1>3, <2>1, <2>2 DEF SaidCalls
<1> HIDE DEF next, d, new, strayed
<1>8. /\ calls = Append(said.calls, new) /\ DOMAIN calls = 1 .. n + 1 /\ calls[n + 1] = new
      /\ DOMAIN said.calls = 1 .. n /\ n \in Nat /\ \A i \in 1 .. n : calls[i] = said.calls[i]
  BY <1>1, <1>6, <1>7
<1> HIDE DEF calls, n
<1>9. /\ said'.thinking = said.thinking /\ said'.text = said.text /\ said'.calls = calls
      /\ said'.latest = next.latest /\ said'.in_order = next.in_order
  BY <1>5, <1>6 DEF Answers
<1>10. ~IsCalled(said, NameOf(call))
  BY <1>5 DEF IsOpen, IsCalled
<1>11. Says(said, said', d)
  BY <1>4, <1>7, <1>8, <1>9, <1>10 DEF Says, Speaks, Gains
<1>12. NamesDiffer(calls)
  <2> SUFFICES ASSUME NEW i \in 1 .. n + 1, NEW j \in 1 .. n + 1, calls[i].name = calls[j].name PROVE i = j
    BY <1>8 DEF NamesDiffer
  <2>1. \A x \in 1 .. n + 1 : x = n + 1 \/ x \in 1 .. n
    BY <1>8
  <2>2. \A x \in 1 .. n : calls[x].name # NameOf(call)
    BY <1>8, <1>10 DEF IsCalled
  <2>3. NamesDiffer(said.calls)
    BY DEF Assembling
  <2>4. CASE i \in 1 .. n /\ j \in 1 .. n
    BY <1>8, <2>3, <2>4 DEF NamesDiffer
  <2>5. CASE i = n + 1 \/ j = n + 1
    BY <1>7, <1>8, <2>1, <2>2, <2>5
  <2> QED
    BY <2>1, <2>4, <2>5
<1>13. NamesDiffer(said'.calls) /\ 0 \in Usages \cup {0}
  BY <1>9, <1>12
<1>14. Proceeds(said, said', d)
  BY <1>4, <1>6, <1>9 DEF Proceeds
<1> QED
  BY <1>4, <1>5, <1>11, <1>13, <1>14, ChunkAssembles

\* A later fragment is an argument of its call.
LEMMA ArgueAssembles ==
  ASSUME StreamsInv, StreamAssumption, Assembling, NEW call \in Calls, NEW position \in Nat,
         NEW piece \in {0, said.pieces + 1}, NEW label \in Labels(call, position), ~Astray(label, position),
         Argue(call, position, label, piece)
  PROVE  Assembling'
<1> DEFINE d == Payload("tool_use", FragmentKey(label, position), 0, piece)
           next == Saying("tool_use")
           strayed == next.astray \/ Astray(label, position)
           argued == [i \in DOMAIN said.calls |->
                        IF said.calls[i].name = NameOf(call)
                        THEN [said.calls[i] EXCEPT !.text = Append(@, piece)] ELSE said.calls[i]]
<1>1. said \in Answers /\ said.pieces \in Nat /\ call \in Nat /\ said.calls \in Seq(SaidCalls)
  BY DEF StreamsInv, AnswerTyped, Answers, StreamAssumption
<1>2. piece \in Nat /\ "tool_use" \in BlockKinds
  BY <1>1 DEF BlockKinds
<1>3. FragmentKey(label, position) = call
  BY <1>1, LabelsTell
<1>4. d \in Pieces /\ d.kind = "tool_use" /\ d.key = call /\ d.name = 0 /\ d.piece = piece
  BY <1>1, <1>2, <1>3, PayloadTells
<1>5. Chunk(d, "none", 0) /\ said' = [next EXCEPT !.astray = strayed, !.calls = argued] /\ IsOpen(call) /\ piece # 0
  BY DEF Argue
<1>6. /\ next \in Answers /\ next.calls = said.calls /\ next.thinking = said.thinking /\ next.text = said.text
      /\ next.latest = "tool_use" /\ next.in_order = (said.in_order /\ Ranks[said.latest] <= Ranks["tool_use"])
  BY <1>1, <1>2, SayingTells
<1>7. DOMAIN argued = DOMAIN said.calls /\ \A i \in DOMAIN said.calls : argued[i].name = said.calls[i].name
  <2> SUFFICES ASSUME NEW i \in DOMAIN said.calls PROVE argued[i].name = said.calls[i].name
    OBVIOUS
  <2> DEFINE was == said.calls[i]
             text == Append(was.text, piece)
  <2>1. was \in SaidCalls /\ argued[i] = IF was.name = NameOf(call) THEN [was EXCEPT !.text = text] ELSE was
    BY <1>1
  <2> HIDE DEF was, text, argued
  <2>2. argued[i].name = was.name
    BY <2>1 DEF SaidCalls
  <2> QED
    BY <2>2 DEF was
<1>8. IsCalled(said, NameOf(call))
  BY <1>5 DEF IsOpen, IsCalled
<1> DEFINE further == [i \in DOMAIN said.calls |->
                         IF said.calls[i].name = NameOf(d.key)
                         THEN [said.calls[i] EXCEPT !.text = Append(@, d.piece)] ELSE said.calls[i]]
<1>9. argued = further
  <2> HIDE DEF d
  <2> QED
    BY <1>4
<1> HIDE DEF next, d, argued, strayed
<1>10. /\ said'.thinking = said.thinking /\ said'.text = said.text /\ said'.calls = argued
       /\ said'.latest = next.latest /\ said'.in_order = next.in_order
  BY <1>5, <1>6 DEF Answers
<1>11. Argues(said, said', NameOf(d.key), d.piece)
  BY <1>9, <1>10 DEF Argues
<1>12. Says(said, said', d)
  BY <1>4, <1>5, <1>8, <1>11 DEF Says, Speaks
<1>13. NamesDiffer(said'.calls) /\ 0 \in Usages \cup {0}
  BY <1>7, <1>10 DEF NamesDiffer, Assembling
<1>14. Proceeds(said, said', d)
  BY <1>4, <1>6, <1>10 DEF Proceeds
<1> QED
  BY <1>4, <1>5, <1>12, <1>13, <1>14, ChunkAssembles

\* What ends an answer changes no block of it.
LEMMA EndingKeepsBlocks ==
  ASSUME NEW c, DOMAIN c = {"at", "blocks", "reading", "confused", "stop_reason", "usage"}, NEW e,
         e.type \in {"silence", "message_delta", "message_stop", "content_block_stop", "error"}
  PROVE  DOMAIN Receive(c, e) = DOMAIN c /\ Receive(c, e).blocks = c.blocks
<1>1. e.type # "silence" => DOMAIN Apply(c, e) = DOMAIN c /\ Apply(c, e).blocks = c.blocks
  <2>1. CASE e.type = "message_delta"
    <3>1. Apply(c, e) = [c EXCEPT !.stop_reason = e.stop_reason, !.usage = e.usage]
      BY <2>1 DEF Apply
    <3> QED
      BY <3>1
  <2>2. CASE e.type = "message_stop"
    <3>1. Apply(c, e) = [c EXCEPT !.at = "complete"]
      BY <2>2 DEF Apply
    <3> QED
      BY <3>1
  <2>3. CASE e.type = "content_block_stop"
    <3>1. Apply(c, e) = [c EXCEPT !.at = "between"]
      BY <2>3 DEF Apply
    <3> QED
      BY <3>1
  <2>4. CASE e.type = "error"
    <3>1. Apply(c, e) = [c EXCEPT !.at = "failed"]
      BY <2>4 DEF Apply
    <3> QED
      BY <3>1
  <2> QED
    BY <2>1, <2>2, <2>3, <2>4
<1>2. DOMAIN [c EXCEPT !.confused = TRUE] = DOMAIN c /\ [c EXCEPT !.confused = TRUE].blocks = c.blocks
  OBVIOUS
<1> QED
  BY <1>1, <1>2 DEF Receive

LEMMA EndKeepsBlocks ==
  ASSUME NEW s, NEW c \in Readers, NEW usage
  PROVE  Read(c, FinishEvents(s, usage)).blocks = c.blocks /\ Read(c, FailureEvents).blocks = c.blocks
<1> DEFINE Kinds1 == {"silence", "message_delta", "message_stop", "content_block_stop", "error"}
           Shape == {"at", "blocks", "reading", "confused", "stop_reason", "usage"}
           delta == [type |-> "message_delta", stop_reason |-> s.stop_reason, usage |-> usage]
           stop == [type |-> "message_stop"]
           error == [type |-> "error"]
           Same(x) == DOMAIN x = Shape /\ x.blocks = c.blocks
<1>1. Same(c)
  BY DEF Readers
<1>2. Silence.type \in Kinds1 /\ delta.type \in Kinds1 /\ stop.type \in Kinds1 /\ error.type \in Kinds1
  BY DEF Silence
<1>3. CloseBlock(s).type \in Kinds1
  BY <1>2 DEF CloseBlock
<1>4. FinishEvents(s, usage) = <<CloseBlock(s), delta, stop, Silence>> /\ FailureEvents = <<error, Silence, Silence, Silence>>
  BY DEF FinishEvents, FailureEvents
<1>5. \A x, e : Same(x) /\ e.type \in Kinds1 => Same(Receive(x, e))
  BY EndingKeepsBlocks
<1> HIDE DEF Kinds1, Same, delta, stop, error
<1>6. Same(Receive(Receive(Receive(Receive(c, CloseBlock(s)), delta), stop), Silence))
  <2>1. Same(Receive(c, CloseBlock(s)))
    BY <1>1, <1>3, <1>5
  <2>2. Same(Receive(Receive(c, CloseBlock(s)), delta))
    BY <1>2, <1>5, <2>1
  <2>3. Same(Receive(Receive(Receive(c, CloseBlock(s)), delta), stop))
    BY <1>2, <1>5, <2>2
  <2> QED
    BY <1>2, <1>5, <2>3
<1>7. Same(Receive(Receive(Receive(Receive(c, error), Silence), Silence), Silence))
  <2>1. Same(Receive(c, error))
    BY <1>1, <1>2, <1>5
  <2>2. Same(Receive(Receive(c, error), Silence))
    BY <1>2, <1>5, <2>1
  <2>3. Same(Receive(Receive(Receive(c, error), Silence), Silence))
    BY <1>2, <1>5, <2>2
  <2> QED
    BY <1>2, <1>5, <2>3
<1> QED
  BY <1>4, <1>6, <1>7, ReadTells DEF Same

\* The last event changes no item; it repeats them all.
LEMMA CompletedKeeps ==
  ASSUME NEW s, NEW c, FollowsResponses(s, c), NEW usage
  PROVE  LET heard == Hear(c, CompletedEvent(s, usage))
         IN  /\ heard.items = c.items
             /\ heard.at = "complete" => /\ heard.final = FinalizedItems(s) /\ heard.usage = usage
                                         /\ heard.expects = c.expects + 1
<1> DEFINE e == CompletedEvent(s, usage)
           heard == Hear(c, e)
           took == [c EXCEPT !.at = "complete", !.final = e.output, !.usage = e.usage]
<1>1. c \in ResponsesClients /\ c.at # "complete"
  BY DEF FollowsResponses
<1>2. e.type = "response.completed" /\ e.output = FinalizedItems(s) /\ e.usage = usage
  BY DEF CompletedEvent
<1> HIDE DEF e
<1>3. Took(c, e) = took
  BY <1>2 DEF Took
<1>4. \/ heard = [took EXCEPT !.expects = took.expects + 1]
      \/ heard = [c EXCEPT !.confused = TRUE]
  BY <1>2, <1>3 DEF Hear
<1> DEFINE final == e.output
           account == e.usage
<1> HIDE DEF heard, final, account
<1>5. took = [c EXCEPT !.at = "complete", !.final = final, !.usage = account]
  BY DEF final, account
<1> HIDE DEF took
<1>6. CASE heard = [took EXCEPT !.expects = took.expects + 1]
  <2>1. took.items = c.items /\ took.final = final /\ took.usage = account /\ took.expects = c.expects
    BY <1>1, <1>5 DEF ResponsesClients
  <2>2. DOMAIN took = DOMAIN c /\ DOMAIN c = {"at", "expects", "items", "final", "parted", "confused", "usage"}
    BY <1>1, <1>5 DEF ResponsesClients
  <2> DEFINE number == took.expects + 1
  <2> HIDE DEF number
  <2>3. heard.items = took.items /\ heard.final = took.final /\ heard.usage = took.usage /\ heard.expects = number
    BY <1>6, <2>2 DEF number
  <2>4. number = c.expects + 1
    BY <2>1 DEF number
  <2> QED
    BY <1>2, <2>1, <2>3, <2>4 DEF final, account, heard, e
<1>7. CASE heard = [c EXCEPT !.confused = TRUE]
  <2>1. heard.items = c.items /\ heard.at = c.at
    BY <1>1, <1>7 DEF ResponsesClients
  <2> QED
    BY <1>1, <2>1 DEF heard, e
<1> QED
  BY <1>4, <1>6, <1>7

LEMMA FailedKeeps ==
  ASSUME NEW s, NEW c, FollowsResponses(s, c)
  PROVE  Hear(c, FailedEvent).items = c.items /\ Hear(c, FailedEvent).at # "complete"
<1> DEFINE heard == Hear(c, FailedEvent)
           took == [c EXCEPT !.at = "failed"]
<1>1. c \in ResponsesClients /\ c.at # "complete"
  BY DEF FollowsResponses
<1>2. FailedEvent.type = "response.failed"
  BY DEF FailedEvent
<1>3. Took(c, FailedEvent) = took
  BY <1>2 DEF Took
<1>4. \/ heard = [took EXCEPT !.expects = took.expects + 1]
      \/ heard = [c EXCEPT !.confused = TRUE]
  BY <1>2, <1>3 DEF Hear
<1> HIDE DEF heard
<1>5. took.items = c.items /\ took.at = "failed" /\ DOMAIN took = DOMAIN c
      /\ DOMAIN c = {"at", "expects", "items", "final", "parted", "confused", "usage"}
  BY <1>1 DEF ResponsesClients
<1> HIDE DEF took
<1>6. heard.items = c.items /\ heard.at # "complete"
  BY <1>1, <1>4, <1>5
<1> QED
  BY <1>6 DEF heard

\* The output that the last event repeats is what the client has.
LEMMA FinalTells ==
  ASSUME NEW s, NEW c, FollowsResponses(s, c), ItemsMatch(s.items, c.items)
  PROVE  FinalizedItems(s) = c.items
<1> DEFINE m == s.items
           items == c.items
           n == Len(items)
           Here(i) == {id \in DOMAIN m : m[id].output_index = i - 1}
           Final(i) == LET here == {id \in DOMAIN m : m[id].output_index = i - 1}
                           id == CHOOSE x \in here : TRUE
                       IN  IF here = {} THEN s.output[i] ELSE Item(id, m[id].name, m[id].text)
<1>1. items \in Seq(Items) /\ s.output \in Seq(Items) /\ Len(s.output) = n /\ m \in Maps(ItemIds, Places)
  BY DEF FollowsResponses, ResponsesStates, ResponsesClients
<1>2. n \in Nat /\ DOMAIN s.output = 1 .. n /\ DOMAIN items = 1 .. n
  BY <1>1
<1>3. FinalizedItems(s) = [i \in 1 .. n |-> Final(i)]
  BY <1>2 DEF FinalizedItems
<1>4. ASSUME NEW i \in 1 .. n PROVE Final(i) = items[i]
  <2>1. items[i].id \in Here(i)
    BY <1>2 DEF ItemsMatch
  <2>2. ASSUME NEW id \in Here(i) PROVE items[i] = Item(id, m[id].name, m[id].text)
    <3>1. id \in DOMAIN m /\ m[id].output_index = i - 1
      OBVIOUS
    <3>2. (i - 1) + 1 = i
      BY <1>2
    <3>3. items[m[id].output_index + 1] = Item(id, m[id].name, m[id].text)
      BY <3>1 DEF ItemsMatch
    <3>4. m[id].output_index + 1 = i
      BY <3>1, <3>2
    <3> QED
      BY <3>3, <3>4
  <2> DEFINE x == CHOOSE id \in Here(i) : TRUE
  <2>3. x \in Here(i)
    BY <2>1
  <2>4. Final(i) = Item(x, m[x].name, m[x].text)
    BY <2>1
  <2> HIDE DEF x, Here, Final
  <2> QED
    BY <2>2, <2>3, <2>4
<1> HIDE DEF Final, n
<1>5. items = [i \in 1 .. n |-> items[i]]
  BY <1>1, <1>2
<1>6. FinalizedItems(s) = items
  BY <1>3, <1>4, <1>5
<1> QED
  BY <1>6

\* What is assembled while the answer is told is what was said.
LEMMA AssembledTells ==
  ASSUME StreamsInv, Assembling, phase = "open"
  PROVE  AssembledAsSaid /\ FinalIsAssembled
<1>1. FollowsResponses(responses, client) /\ said \in Answers
  BY DEF StreamsInv, ClientsAreWhereTheyShould, AnswerTyped
<1>2. client.items \in Seq(Items) /\ client.at # "complete"
  BY <1>1 DEF FollowsResponses, ResponsesClients
<1>3. chat.thinking = said.thinking /\ chat.text = said.text /\ Range(chat.calls) = Range(said.calls)
  BY DEF Assembling, Hears
<1>4. \A kind : BlocksOf(near.reader, kind) = Kept(near.reader.blocks, kind)
  BY DEF BlocksOf, Kept
<1>5. /\ TextOf(BlocksOf(near.reader, "thinking")) = said.thinking
      /\ TextOf(BlocksOf(near.reader, "text")) = said.text
      /\ Bare(BlocksOf(near.reader, "tool_use")) = said.calls
  BY <1>4 DEF Assembling, Conveys
<1>6. /\ TextOf(OfKind(client.items, "reasoning")) = said.thinking
      /\ TextOf(OfKind(client.items, "message")) = said.text
      /\ Bare(OfKind(client.items, "function_call")) = said.calls
  BY <1>2, ItemsConvey DEF Assembling
<1> QED
  BY <1>2, <1>3, <1>5, <1>6 DEF AssembledAsSaid, FinalIsAssembled

\* The end of a stream, however it comes, leaves what was assembled.
LEMMA AssembledStays ==
  ASSUME AssembledAsSaid, said' = said, near'.reader.blocks = near.reader.blocks, client'.items = client.items,
         chat'.thinking = chat.thinking, chat'.text = chat.text, chat'.calls = chat.calls
  PROVE  AssembledAsSaid'
<1>1. \A kind : BlocksOf(near'.reader, kind) = BlocksOf(near.reader, kind)
  BY DEF BlocksOf
<1> QED
  BY <1>1 DEF AssembledAsSaid

LEMMA EndAssembles == ASSUME StreamsInv, Assembling, End PROVE AssembledAsSaid' /\ FinalIsAssembled'
<1> DEFINE last == CompletedEvent(responses, near.account)
<1>1. /\ phase = "open" /\ chat' = [chat EXCEPT !.at = "complete"] /\ near' = Ended(near)
      /\ responses' = Completed(responses) /\ client' = Hear(client, last) /\ said' = said
  BY DEF End
<1>2. near \in Gateways /\ FollowsAnthropic(near.translator, near.reader) /\ FollowsResponses(responses, client)
  BY <1>1 DEF StreamsInv, ClientsAreWhereTheyShould
<1>3. AssembledAsSaid
  BY <1>1, AssembledTells
<1>4. near'.account = near.account /\ near'.reader = Read(near.reader, FinishEvents(near.translator, near.account))
  BY <1>1, <1>2 DEF Ended, Gateways
<1>5. near'.reader.blocks = near.reader.blocks
  BY <1>2, <1>4, EndKeepsBlocks DEF FollowsAnthropic
<1>6. /\ client'.items = client.items
      /\ client'.at = "complete" => /\ client'.final = FinalizedItems(responses) /\ client'.usage = near.account
                                    /\ client'.expects = client.expects + 1
  <2> DEFINE heard == Hear(client, last)
  <2>1. /\ heard.items = client.items
        /\ heard.at = "complete" => /\ heard.final = FinalizedItems(responses) /\ heard.usage = near.account
                                    /\ heard.expects = client.expects + 1
    BY <1>2, CompletedKeeps
  <2> HIDE DEF heard
  <2>2. client' = heard
    BY <1>1 DEF heard
  <2> QED
    BY <2>1, <2>2
<1> HIDE DEF last
<1>7. chat'.thinking = chat.thinking /\ chat'.text = chat.text /\ chat'.calls = chat.calls
  BY <1>1 DEF Assembling, Hears
<1>8. AssembledAsSaid'
  BY <1>1, <1>3, <1>5, <1>6, <1>7, AssembledStays
<1>9. FinalizedItems(responses) = client.items
  BY <1>2, FinalTells DEF Assembling
<1>10. /\ FinalizedItems(responses') = FinalizedItems(responses) /\ responses'.completed
       /\ responses'.sequence = client.expects + 1 /\ client.expects \in Nat
  <2>1. responses \in ResponsesStates /\ ~responses.completed /\ client.expects = responses.sequence
    BY <1>2 DEF FollowsResponses
  <2>2. responses' = [responses EXCEPT !.completed = TRUE, !.sequence = responses.sequence + 1]
    BY <1>1, <2>1 DEF Completed
  <2>3. /\ responses'.output = responses.output /\ responses'.items = responses.items /\ responses'.completed = TRUE
        /\ responses'.sequence = responses.sequence + 1 /\ responses.sequence \in Nat
    BY <2>1, <2>2 DEF ResponsesStates
  <2>4. FinalizedItems(responses') = FinalizedItems(responses)
    BY <2>3 DEF FinalizedItems
  <2> QED
    BY <2>1, <2>3, <2>4
<1>11. FinalIsAssembled'
  <2> SUFFICES ASSUME client'.at = "complete"
               PROVE  /\ client'.final = client'.items
                      /\ CompletedEvent(responses', near'.account) =
                           [type |-> "response.completed", sequence |-> client'.expects - 1,
                            output |-> client'.final, usage |-> client'.usage]
    BY DEF FinalIsAssembled
  <2>1. client'.final = client'.items /\ client'.usage = near.account /\ client'.expects = client.expects + 1
    BY <1>6, <1>9
  <2> DEFINE e == CompletedEvent(responses', near'.account)
             number == IF responses'.completed THEN responses'.sequence - 1 ELSE responses'.sequence
             output == FinalizedItems(responses')
  <2>2. e = [type |-> "response.completed", sequence |-> number, output |-> output, usage |-> near'.account]
    BY DEF CompletedEvent
  <2>3. number = client'.expects - 1
    BY <1>10, <2>1
  <2>4. output = client'.final
    BY <1>6, <1>10
  <2> HIDE DEF e, number, output
  <2>5. e = [type |-> "response.completed", sequence |-> client'.expects - 1,
             output |-> client'.final, usage |-> client'.usage]
    BY <1>4, <2>1, <2>2, <2>3, <2>4
  <2> QED
    BY <2>1, <2>5 DEF e
<1> QED
  BY <1>8, <1>11

LEMMA BreakAssembles == ASSUME StreamsInv, Assembling, Break PROVE AssembledAsSaid' /\ FinalIsAssembled'
<1>1. /\ phase = "open" /\ chat' = [chat EXCEPT !.at = "failed"] /\ near' = Failed(near)
      /\ client' = Hear(client, FailedEvent) /\ said' = said
  BY DEF Break
<1>2. near \in Gateways /\ FollowsAnthropic(near.translator, near.reader) /\ FollowsResponses(responses, client)
  BY <1>1 DEF StreamsInv, ClientsAreWhereTheyShould
<1>3. AssembledAsSaid
  BY <1>1, AssembledTells
<1>4. near'.reader = Read(near.reader, FailureEvents)
  BY <1>1, <1>2 DEF Failed, Gateways
<1>5. near'.reader.blocks = near.reader.blocks
  BY <1>2, <1>4, EndKeepsBlocks DEF FollowsAnthropic
<1>6. client'.items = client.items /\ client'.at # "complete"
  BY <1>1, <1>2, FailedKeeps
<1>7. chat'.thinking = chat.thinking /\ chat'.text = chat.text /\ chat'.calls = chat.calls
  BY <1>1 DEF Assembling, Hears
<1>8. AssembledAsSaid'
  BY <1>1, <1>3, <1>5, <1>6, <1>7, AssembledStays
<1>9. FinalIsAssembled'
  BY <1>6 DEF FinalIsAssembled
<1> QED
  BY <1>8, <1>9

\* What the relay's client has is what was said, but for the calls without arguments.
RelayHeard ==
  /\ TextOf(BlocksOf(far.gateway.reader, "thinking")) = said.thinking
  /\ TextOf(BlocksOf(far.gateway.reader, "text")) = said.text
  /\ Range(Bare(BlocksOf(far.gateway.reader, "tool_use"))) = Argued(said.calls)

LEMMA RelayingTells ==
  ASSUME NEW m, NEW items, Relaying(far, m, items, said)
  PROVE  RelayHeard
<1>1. PICK heard : Conveys(far.gateway.reader.blocks, heard) /\ Gathers(heard, said)
  BY DEF Relaying
<1>2. \A kind : BlocksOf(far.gateway.reader, kind) = Kept(far.gateway.reader.blocks, kind)
  BY DEF BlocksOf, Kept
<1> QED
  BY <1>1, <1>2 DEF Conveys, Gathers, RelayHeard

LEMMA RelayHeardStays ==
  ASSUME RelayHeard, said' = said, far'.gateway.reader.blocks = far.gateway.reader.blocks
  PROVE  RelayHeard'
<1>1. \A kind : BlocksOf(far'.gateway.reader, kind) = BlocksOf(far.gateway.reader, kind)
  BY DEF BlocksOf
<1> QED
  BY <1>1 DEF RelayHeard

LEMMA RoundTripTells ==
  RoundTrip <=> /\ RelayHeard
                /\ phase = "done" =>
                     far.gateway.reader.stop_reason = IF said.calls = <<>> THEN "end_turn" ELSE "tool_use"
BY DEF RoundTrip, RelayHeard

\* The output that is repeated at the end has a call just when one was said.
LEMMA FinishSaid ==
  ASSUME NEW items \in Seq(Items), NEW answer, Conveys(Entries(items), answer),
         NEW e, e.output = items
  PROVE  FinishOf(e) = IF answer.calls = <<>> THEN "none" ELSE "tool_calls"
<1> DEFINE K == {i \in DOMAIN items : items[i].id.kind = "function_call"}
           kept == Subsequence(items, K)
<1>1. Bare(kept) = answer.calls
  BY ItemsConvey DEF OfKind
<1>2. /\ kept \in Seq(Items) /\ Len(kept) = Cardinality(K) /\ Cardinality(K) \in Nat
      /\ \A n \in 1 .. Cardinality(K) : Nth(K, n) \in K
      /\ \A k \in K : \E n \in 1 .. Cardinality(K) : Nth(K, n) = k
  <2>1. K \in SUBSET DOMAIN items
    OBVIOUS
  <2> HIDE DEF K
  <2>2. Cardinality(K) \in 0 .. Len(items) /\ Len(items) \in Nat
    BY <2>1, SubsequenceTells
  <2> QED
    BY <2>1, <2>2, SubsequenceTells
<1>3. FinishOf(e) = IF K # {} THEN "tool_calls" ELSE "none"
  BY DEF FinishOf
<1> HIDE DEF K
<1>4. K = {} <=> Cardinality(K) = 0
  BY <1>2
<1>5. DOMAIN Bare(kept) = 1 .. Cardinality(K)
  BY <1>2 DEF Bare
<1>6. Bare(kept) = <<>> <=> Cardinality(K) = 0
  <2>1. CASE Cardinality(K) = 0
    <3>1. kept = <<>>
      BY <1>2, <2>1
    <3> QED
      BY <2>1, <3>1 DEF Bare
  <2>2. CASE Cardinality(K) # 0
    <3>1. 1 \in 1 .. Cardinality(K)
      BY <1>2, <2>2
    <3>2. DOMAIN Bare(kept) # {} /\ DOMAIN <<>> = {}
      BY <1>5, <3>1
    <3> QED
      BY <2>2, <3>2
  <2> QED
    BY <2>1, <2>2
<1> QED
  BY <1>1, <1>3, <1>4, <1>6

\* Behind the relay a turn ends as it was said to, and keeps what was heard.
LEMMA EndRelays == ASSUME StreamsInv, Assembling, End PROVE RoundTrip'
<1> DEFINE last == CompletedEvent(responses, near.account)
           g == far.gateway
           finish == FinishOf(last)
           taken == Take(g, Nothing, finish, near.account)
           relayed == Relay(far, last)
<1>1. /\ phase = "open" /\ phase' = "done" /\ far' = [relayed EXCEPT !.gateway = Ended(relayed.gateway)] /\ said' = said
  BY DEF End
<1>2. /\ near \in Gateways /\ FollowsResponses(responses, client) /\ FollowsRelay(far, DOMAIN responses.items)
      /\ Relaying(far, responses.items, client.items, said)
  BY <1>1 DEF StreamsInv, ClientsAreWhereTheyShould, Assembling
<1>3. near.account \in Nat /\ client.items \in Seq(Items)
  BY <1>2 DEF Gateways, FollowsResponses, ResponsesClients
<1>4. last.type = "response.completed" /\ last.usage = near.account /\ last.output = client.items
  <2>1. FinalizedItems(responses) = client.items
    BY <1>2, FinalTells DEF Assembling
  <2> QED
    BY <2>1 DEF CompletedEvent
<1> HIDE DEF last
<1>5. finish = IF said.calls = <<>> THEN "none" ELSE "tool_calls"
  BY <1>3, <1>4, FinishSaid DEF Assembling
<1> HIDE DEF finish
<1>6. g \in Gateways /\ FollowsAnthropic(g.translator, g.reader) /\ g.translator.stop_reason = "end_turn"
  BY <1>2 DEF FollowsRelay, Relays, Relaying
<1>7. Nothing \in Pieces /\ Nothing.kind = "none"
  BY PayloadTells DEF Nothing
<1>8. Announced(far.pending, last) = far.pending
  BY <1>4 DEF Announced
<1>9. relayed = [pending |-> far.pending, gateway |-> taken]
  BY <1>4, <1>8 DEF Relay, finish
<1> HIDE DEF g
<1>10. /\ taken \in Gateways /\ FollowsAnthropic(taken.translator, taken.reader) /\ taken.translator.started
       /\ taken.translator.stop_reason = IF finish = "none" THEN "end_turn" ELSE StopReason(finish)
       /\ taken.reader.blocks = Rewritten(g.translator, g.reader.blocks, Nothing)
  BY <1>3, <1>6, <1>7, GatewayFollows
<1>11. taken.reader.blocks = g.reader.blocks
  BY <1>7, <1>10 DEF Rewritten
<1> HIDE DEF taken, relayed
<1>12. far'.gateway = Ended(taken)
  BY <1>1, <1>9
<1>13. far'.gateway.reader = Read(taken.reader, FinishEvents(taken.translator, taken.account)) /\ taken.account \in Nat
  BY <1>10, <1>12 DEF Ended, Gateways
<1>14. far'.gateway.reader.stop_reason = taken.translator.stop_reason
  BY <1>10, <1>13, EndFollows
<1>15. far'.gateway.reader.blocks = far.gateway.reader.blocks
  BY SMTT(30), <1>10, <1>11, <1>13, EndKeepsBlocks DEF FollowsAnthropic, g
<1>16. RelayHeard'
  BY <1>1, <1>2, <1>15, RelayingTells, RelayHeardStays
<1>17. far'.gateway.reader.stop_reason = IF said'.calls = <<>> THEN "end_turn" ELSE "tool_use"
  BY <1>1, <1>5, <1>10, <1>14 DEF StopReason
<1> QED
  BY <1>16, <1>17 DEF RoundTrip, RelayHeard

LEMMA BreakRelays == ASSUME StreamsInv, Assembling, Break PROVE RoundTrip'
<1>1. phase = "open" /\ phase' = "broken" /\ far' = [far EXCEPT !.gateway = Failed(far.gateway)] /\ said' = said
  BY DEF Break
<1>2. FollowsRelay(far, DOMAIN responses.items) /\ Relaying(far, responses.items, client.items, said)
  BY <1>1 DEF StreamsInv, ClientsAreWhereTheyShould, Assembling
<1>3. far \in Relays /\ far.gateway \in Gateways /\ FollowsAnthropic(far.gateway.translator, far.gateway.reader)
  BY <1>2 DEF FollowsRelay, Relays
<1>4. far'.gateway = Failed(far.gateway)
  BY <1>1, <1>3 DEF Relays
<1>5. far'.gateway.reader = Read(far.gateway.reader, FailureEvents)
  BY <1>3, <1>4 DEF Failed, Gateways
<1>6. far'.gateway.reader.blocks = far.gateway.reader.blocks
  BY <1>3, <1>5, EndKeepsBlocks DEF FollowsAnthropic
<1>7. RelayHeard'
  BY <1>1, <1>2, <1>6, RelayingTells, RelayHeardStays
<1> QED
  BY <1>1, <1>7 DEF RoundTrip, RelayHeard

\* What has been told agrees with the answer given whole.
LEMMA OrderingTells ==
  ASSUME said \in Answers, Ordering, client.items \in Seq(Items)
  PROVE  WholeAgrees
<1>1. Answered(said) /\ Answered(Message)
  BY DEF Answers, Answered, Message
<1>2. ToAnthropic(Message) = ToAnthropic(said)
  BY DEF ToAnthropic, Message
<1>3. Message.thinking = said.thinking /\ Message.text = said.text /\ Message.calls = said.calls
  BY DEF Message
<1> HIDE DEF Message
<1>4. said.in_order => near.reader.blocks = ToAnthropic(Message)
  BY <1>2 DEF Ordering, Orderly
<1>5. ASSUME said.in_order, said.text # <<>>
      PROVE  Listed(client.items) = Listed(ToResponses(Message))
  <2>1. Entries(client.items) = ToAnthropic(Message)
    BY <1>2, <1>5 DEF Ordering, Orderly
  <2>2. ToResponses(Message) \in Seq(Items) /\ Entries(ToResponses(Message)) = ToAnthropic(Message)
    BY <1>1, <1>3, <1>5, ResponsesTell
  <2> QED
    BY <2>1, <2>2, ListedAgree
<1>6. FromResponses(ToResponses(Message)) =
        [thinking |-> said.thinking, text |-> said.text, calls |-> said.calls,
         finish |-> IF said.calls = <<>> THEN "stop" ELSE "tool_calls"]
  BY <1>1, <1>3, WholeReturns
<1> QED
  BY <1>4, <1>5, <1>6 DEF WholeAgrees

\* It does so after the end as before.
LEMMA WholeStays ==
  ASSUME WholeAgrees, said' = said, near'.reader.blocks = near.reader.blocks, client'.items = client.items
  PROVE  WholeAgrees'
<1>1. Message' = Message
  BY DEF Message
<1>2. Listed(client'.items) = Listed(client.items)
  BY DEF Listed
<1> QED
  BY <1>1, <1>2 DEF WholeAgrees

LEMMA EndAgrees == ASSUME StreamsInv, Assembling, End \/ Break PROVE WholeAgrees'
<1>1. phase = "open" /\ said' = said
  BY DEF End, Break
<1>2. /\ near \in Gateways /\ FollowsAnthropic(near.translator, near.reader) /\ FollowsResponses(responses, client)
      /\ said \in Answers /\ client.items \in Seq(Items)
  BY <1>1 DEF StreamsInv, AnswerTyped, ClientsAreWhereTheyShould, FollowsResponses, ResponsesClients
<1>3. WholeAgrees
  BY <1>2, OrderingTells DEF Assembling
<1>4. near'.reader.blocks = near.reader.blocks
  <2>1. CASE End
    BY <1>2, <2>1, EndKeepsBlocks DEF End, Ended, Gateways, FollowsAnthropic
  <2>2. CASE Break
    BY <1>2, <2>2, EndKeepsBlocks DEF Break, Failed, Gateways, FollowsAnthropic
  <2> QED
    BY <2>1, <2>2
<1>5. client'.items = client.items
  <2>1. CASE End
    <3>1. client' = Hear(client, CompletedEvent(responses, near.account))
      BY <2>1 DEF End
    <3> QED
      BY <1>2, <3>1, CompletedKeeps DEF Gateways
  <2>2. CASE Break
    <3>1. client' = Hear(client, FailedEvent)
      BY <2>2 DEF Break
    <3> QED
      BY <1>2, <3>1, FailedKeeps
  <2> QED
    BY <2>1, <2>2
<1> QED
  BY <1>1, <1>3, <1>4, <1>5, WholeStays

\* Nothing has been said, and nothing assembled.
LEMMA AssembledStarts == Init => AssembledInv
<1> SUFFICES ASSUME Init PROVE AssembledInv
  OBVIOUS
<1>1. /\ said.thinking = <<>> /\ said.text = <<>> /\ said.calls = <<>> /\ phase = "open"
      /\ chat = NewChat /\ near = NewGateway /\ responses = NewResponsesState /\ client = NewClient
  BY DEF Init
<1>2. Hears(chat, said)
  BY <1>1 DEF Hears, NewChat, Range
<1>3. near.reader.blocks = <<>> /\ near.translator.open = "none" /\ near.translator.tools = <<>>
  BY <1>1 DEF NewGateway, NewReader, NewStreamState
<1>4. responses.items = <<>> /\ client.items = <<>>
  BY <1>1 DEF NewResponsesState, NewClient
<1>5. \A kind : Kept(<<>>, kind) = <<>>
  <2> SUFFICES ASSUME NEW kind PROVE Kept(<<>>, kind) = <<>>
    OBVIOUS
  <2>1. <<>> \in Seq(ReaderBlocks) /\ {i \in DOMAIN <<>> : <<>>[i].kind = kind} = {}
    OBVIOUS
  <2>2. Subsequence(<<>>, {}) = <<>>
    BY <2>1, SubsequenceEnds
  <2> QED
    BY <2>1, <2>2 DEF Kept
<1>6. TextOf(<<>>) = <<>> /\ Bare(<<>>) = <<>>
  <2>1. <<>> \in Seq(ReaderBlocks)
    OBVIOUS
  <2>2. TextOf(<<>>) = <<>>
    BY <2>1, TextTells
  <2> QED
    BY <2>2 DEF Bare
<1>7. Entries(<<>>) = <<>>
  BY DEF Entries
<1>8. Conveys(<<>>, said)
  BY <1>1, <1>5, <1>6 DEF Conveys
<1>9. OpenBlocks(near.translator, near.reader.blocks) /\ NamesCalls(near.translator, Named)
  BY <1>3 DEF OpenBlocks, NamesCalls
<1>10. ItemsMatch(responses.items, client.items)
  BY <1>4 DEF ItemsMatch
<1>11. NamesDiffer(said.calls)
  BY <1>1 DEF NamesDiffer
<1>12. Relaying(far, responses.items, client.items, said)
  <2>1. /\ far.pending = <<>> /\ far.gateway.reader.blocks = <<>> /\ far.gateway.translator.open = "none"
        /\ far.gateway.translator.tools = <<>> /\ far.gateway.translator.stop_reason = "end_turn"
    BY DEF Init, NewRelay, NewGateway, NewReader, NewStreamState
  <2>2. OpenBlocks(far.gateway.translator, far.gateway.reader.blocks)
    BY <2>1 DEF OpenBlocks
  <2>3. Gathers(said, said)
    BY <1>1, <1>11 DEF Gathers, Argued, Range
  <2>4. KnowsNames(far.pending, responses.items) /\ StandsFor(far.gateway.translator.tools, client.items)
        /\ Arrived(said, responses.items, far.gateway.translator.tools)
    BY <1>4, <2>1 DEF KnowsNames, StandsFor, Arrived
  <2> QED
    BY <1>8, <2>1, <2>2, <2>3, <2>4 DEF Relaying
<1>13. Ordering
  <2>1. said.latest = "none"
    BY DEF Init
  <2>2. Answered(said)
    BY <1>1 DEF Answered
  <2>3. Opening(said) = <<>>
    BY <1>1, <2>2, OpeningTells
  <2>4. ToAnthropic(said) = <<>>
    BY <1>1, <2>2, <2>3, PlainWhole
  <2>5. Orderly(<<>>, said, said.latest)
    BY <1>1, <2>1, <2>4 DEF Orderly
  <2> QED
    BY <1>3, <1>4, <1>7, <2>1, <2>5 DEF Ordering
<1> QED
  BY <1>1, <1>2, <1>3, <1>4, <1>7, <1>8, <1>9, <1>10, <1>11, <1>12, <1>13 DEF AssembledInv, Assembling

\* Every step leaves assembled what is said, as long as no fragment goes astray.
LEMMA AssembledSteps == ASSUME StreamsInv, AssembledInv, [Next]_vars, ~said'.astray PROVE AssembledInv'
<1> USE StreamAssumption
<1>1. ASSUME Think \/ Speak \/ Fragment \/ Ping \/ Finish \/ Tell PROVE AssembledInv'
  <2>1. phase = "open" /\ phase' = "open"
    <3>1. \A d, finish, usage : Chunk(d, finish, usage) => phase = "open" /\ phase' = "open"
      BY DEF Chunk
    <3> QED
      BY <1>1, <3>1 DEF Think, Speak, Fragment, Open, Argue, Ping, Finish, Tell
  <2>2. Assembling
    BY <2>1 DEF AssembledInv
  <2>3. CASE Think \/ Speak
    BY <2>1, <2>2, <2>3, PlainAssembles DEF AssembledInv
  <2>4. CASE Ping \/ Finish \/ Tell
    BY <2>1, <2>2, <2>4, QuietAssembles DEF AssembledInv
  <2>5. CASE Fragment
    <3>1. frame \in Nat /\ said \in Answers /\ said.pieces \in Nat /\ Calls \subseteq Nat
      BY DEF StreamsInv, AnswerTyped, Answers, StreamAssumption
    <3>2. PICK call \in Calls, position \in {0, frame}, piece \in {0, said.pieces + 1} :
            \E label \in Labels(call, position) :
              Open(call, position, label, piece) \/ Argue(call, position, label, piece)
      BY <2>5 DEF Fragment
    <3>3. PICK label \in Labels(call, position) :
            Open(call, position, label, piece) \/ Argue(call, position, label, piece)
      BY <3>2
    <3>4. position \in Nat /\ piece \in Nat /\ call \in Nat
      BY <3>1
    <3>5. Assembling'
      <4>1. CASE Open(call, position, label, piece)
        <5>1. ~Astray(label, position)
          BY <3>1, <3>4, <4>1, OpenSays
        <5> QED
          BY <2>2, <3>4, <4>1, <5>1, OpenAssembles
      <4>2. CASE Argue(call, position, label, piece)
        <5>1. ~Astray(label, position)
          BY <3>1, <3>4, <4>2, ArgueSays
        <5> QED
          BY <2>2, <3>4, <4>2, <5>1, ArgueAssembles
      <4> QED
        BY <3>3, <4>1, <4>2
    <3> QED
      BY <2>1, <3>5 DEF AssembledInv
  <2> QED
    BY <1>1, <2>3, <2>4, <2>5
<1>2. CASE End
  <2>1. phase = "open" /\ phase' # "open"
    BY <1>2 DEF End
  <2>2. Assembling
    BY <2>1 DEF AssembledInv
  <2> QED
    BY <1>2, <2>1, <2>2, EndAssembles, EndRelays, EndAgrees DEF AssembledInv, Assembled
<1>3. CASE Break
  <2>1. phase = "open" /\ phase' # "open"
    BY <1>3 DEF Break
  <2>2. Assembling
    BY <2>1 DEF AssembledInv
  <2> QED
    BY <1>3, <2>1, <2>2, BreakAssembles, BreakRelays, EndAgrees DEF AssembledInv, Assembled
<1>4. CASE UNCHANGED vars
  <2>1. Assembling => Assembling'
    BY <1>4 DEF vars, Assembling, Ordering
  <2>2. AssembledAsSaid /\ FinalIsAssembled => AssembledAsSaid' /\ FinalIsAssembled'
    BY <1>4 DEF vars, AssembledAsSaid, FinalIsAssembled, BlocksOf
  <2>3. RoundTrip => RoundTrip'
    BY <1>4 DEF vars, RoundTrip, BlocksOf
  <2>4. WholeAgrees => WholeAgrees'
    BY <1>4, WholeStays DEF vars
  <2> QED
    BY <1>4, <2>1, <2>2, <2>3, <2>4 DEF vars, AssembledInv, Assembled
<1> QED
  BY <1>1, <1>2, <1>3, <1>4 DEF Next

\* Unless a fragment went astray everyone is in step, and has what was said.
HeldInv == FollowedInv /\ (~said.astray => AssembledInv)

LEMMA HeldStarts == Init => HeldInv
BY FollowedStarts, AssembledStarts DEF HeldInv

LEMMA HeldSteps == HeldInv /\ [Next]_vars => HeldInv'
<1> SUFFICES ASSUME HeldInv, [Next]_vars PROVE HeldInv'
  OBVIOUS
<1>1. FollowedInv' /\ (said.astray => said'.astray)
  BY FollowedStep, TypedStep DEF HeldInv, FollowedInv
<1>2. ~said'.astray => AssembledInv'
  BY <1>1, AssembledSteps DEF HeldInv, FollowedInv
<1> QED
  BY <1>1, <1>2 DEF HeldInv

\* In every state everything that is to hold of the answer does.
LEMMA HeldTells == ASSUME HeldInv, ~said.astray PROVE Assembled
<1>1. StreamsInv /\ AssembledInv
  BY DEF HeldInv, FollowedInv
<1>2. CASE phase = "open"
  <2>1. Assembling /\ said \in Answers /\ FollowsResponses(responses, client)
    BY <1>1, <1>2 DEF AssembledInv, StreamsInv, AnswerTyped, ClientsAreWhereTheyShould
  <2>2. AssembledAsSaid /\ FinalIsAssembled
    BY <1>1, <1>2, <2>1, AssembledTells
  <2>3. RelayHeard
    BY <2>1, RelayingTells DEF Assembling
  <2>4. client.items \in Seq(Items)
    BY <2>1 DEF FollowsResponses, ResponsesClients
  <2>5. WholeAgrees
    BY <2>1, <2>4, OrderingTells DEF Assembling
  <2> QED
    BY <1>2, <2>2, <2>3, <2>5, RoundTripTells DEF Assembled
<1>3. CASE phase # "open"
  BY <1>1, <1>3 DEF AssembledInv
<1> QED
  BY <1>2, <1>3

\* In whatever order the provider tells its thinking, its text and the fragments of its calls, with
\* their index or without, the Chat Completions client, the Anthropic client and the Responses
\* client have each assembled just what was said, and the event that completes the Responses stream
\* repeats, item for item, what its client has (callIndex, openToolBlock, openCall, finalizedItems).
\* The exception is a stream in which a fragment stated the index 0 out of first place in its frame
\* (Astray), which the gateway takes for another call's (openai-chat.ts:217).
THEOREM AnswersAreAssembled == Spec => []AnswerIsAssembled
<1>1. HeldInv => AnswerIsAssembled
  BY HeldTells DEF Assembled, AnswerIsAssembled
<1> QED
  BY <1>1, HeldStarts, HeldSteps, PTL DEF Spec

\* With the same exception, an answer streamed in the order it is rendered in has the very blocks of
\* the same answer given whole, and the very items if it has a text; a whole answer, rendered as a
\* Responses output and read back, is the answer it was; and an Anthropic client behind a second
\* gateway assembles what was said, but for the calls that had no argument, and ends its turn as one
\* that called a tool just when the answer did (toAnthropic, toResponses, fromResponses, eventsToChunk).
THEOREM WaysAgree == Spec => []PathsAgree
<1>1. HeldInv => PathsAgree
  BY HeldTells DEF Assembled, PathsAgree
<1> QED
  BY <1>1, HeldStarts, HeldSteps, PTL DEF Spec

============================================================================
