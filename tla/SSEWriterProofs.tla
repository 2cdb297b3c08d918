--------------------------- MODULE SSEWriterProofs ---------------------------
(***************************************************************************)
(* What the methods of the SSEWriter return, for every writer: the calls   *)
(* they append to todo, the block they leave open, and the indices they    *)
(* use; and that, whatever the session was offered before, a writer that   *)
(* continues a well-formed message (Speaks) leaves one (Told): the message *)
(* is told by the story of the events offered and those still in todo.     *)
(* A writer with text or a tool call has called OnVisibleOutput, or is     *)
(* about to: the call is in todo.  Last, the tally: which blocks each      *)
(* method adds to the story, against the flags of the accumulator.         *)
(***************************************************************************)
EXTENDS SSEWriter, FilteringProofs, FiniteSetTheorems

----------------------------------------------------------------------------
(* The writer: what it is, and the calls it may make on the session.       *)

Calls == SSEEvent \cup {PromoteCall(a) : a \in Attempts}

WriterState ==
  [ attempt : Attempts, started : BOOLEAN, activeType : BlockType \cup {NoBlock},
    blockIndex : Int, visibleFired : BOOLEAN, writeErr : BOOLEAN,
    thinking : BOOLEAN, text : BOOLEAN, tool : BOOLEAN, localStop : BOOLEAN,
    held : BOOLEAN, todo : Seq(Calls) ]

(* A writer that has opened no block beyond hi.                            *)
Within(wr, hi) ==
  /\ wr \in WriterState
  /\ wr.blockIndex \in -1..hi
  /\ wr.activeType # NoBlock => wr.blockIndex >= 0

SameBlock(t, wr) ==
  /\ t.attempt = wr.attempt
  /\ t.activeType = wr.activeType
  /\ t.blockIndex = wr.blockIndex

LEMMA WithinHigher ==
  ASSUME NEW lo \in Int, NEW hi \in Int, lo <= hi, NEW wr, Within(wr, lo)
  PROVE  Within(wr, hi)
BY DEF Within

LEMMA MessageEvents ==
  ASSUME NEW n \in {"message_start", "message_delta", "message_stop"}, NEW a \in Attempts
  PROVE  Event(n, NoBlock, -1, a) \in Calls
BY DEF Calls, SSEEvent

LEMMA StartEvents ==
  ASSUME NEW b \in BlockType, NEW i \in 0..MaxIndex, NEW a \in Attempts
  PROVE  Event("content_block_start", b, i, a) \in Calls
BY DEF Calls, SSEEvent

LEMMA BlockEvents ==
  ASSUME NEW n \in {"content_block_delta", "content_block_stop"}, NEW i \in 0..MaxIndex,
         NEW a \in Attempts
  PROVE  Event(n, NoBlock, i, a) \in Calls
BY DEF Calls, SSEEvent

LEMMA WriteSSEWithin ==
  ASSUME NEW hi \in Int, NEW wr, Within(wr, hi), NEW n, NEW b, NEW i,
         Event(n, b, i, wr.attempt) \in Calls,
         NEW t, t = WriteSSE(wr, n, b, i)
  PROVE  Within(t, hi) /\ SameBlock(t, wr)
<1> DEFINE e == Event(n, b, i, wr.attempt)
<1>1. CASE wr.writeErr  BY <1>1 DEF WriteSSE, SameBlock
<1>2. CASE ~wr.writeErr
  <2>1. t = [wr EXCEPT !.todo = Append(@, e)]  BY <1>2 DEF WriteSSE
  <2>2. e \in Calls  OBVIOUS
  <2> HIDE DEF e
  <2>3. wr \in WriterState  BY DEF Within
  <2>4. Append(wr.todo, e) \in Seq(Calls)  BY <2>2, <2>3 DEF WriterState
  <2>5. t \in WriterState  BY <2>1, <2>3, <2>4 DEF WriterState
  <2>6. SameBlock(t, wr)  BY <2>1, <2>3 DEF WriterState, SameBlock
  <2> QED  BY <2>5, <2>6 DEF Within, SameBlock
<1> QED  BY <1>1, <1>2

LEMMA EnsureStartedWithin ==
  ASSUME NEW hi \in Int, NEW wr, Within(wr, hi), NEW t, t = EnsureStarted(wr)
  PROVE  Within(t, hi) /\ SameBlock(t, wr)
<1> DEFINE r == [wr EXCEPT !.started = TRUE]
<1>1. Within(r, hi) /\ SameBlock(r, wr)  BY DEF Within, WriterState, SameBlock
<1>2. CASE wr.started  BY <1>2 DEF EnsureStarted, SameBlock
<1>3. CASE ~wr.started
  <2>1. t = WriteSSE(r, "message_start", NoBlock, -1)  BY <1>3 DEF EnsureStarted
  <2> HIDE DEF r
  <2>2. r.attempt \in Attempts  BY <1>1 DEF Within, WriterState
  <2>3. Event("message_start", NoBlock, -1, r.attempt) \in Calls  BY <2>2, MessageEvents
  <2>4. Within(t, hi) /\ SameBlock(t, r)  BY <1>1, <2>1, <2>3, WriteSSEWithin
  <2> QED  BY <1>1, <2>4 DEF SameBlock
<1> QED  BY <1>2, <1>3

LEMMA CloseActiveBlockWithin ==
  ASSUME NEW hi \in Int, hi <= MaxIndex, NEW wr, Within(wr, hi),
         NEW t, t = CloseActiveBlock(wr)
  PROVE  Within(t, hi) /\ t.attempt = wr.attempt /\ t.blockIndex = wr.blockIndex
<1> DEFINE c == WriteSSE(wr, "content_block_stop", NoBlock, wr.blockIndex)
<1>1. CASE wr.activeType = NoBlock  BY <1>1 DEF CloseActiveBlock
<1>2. CASE wr.activeType # NoBlock
  <2>1. wr.blockIndex \in 0..MaxIndex /\ wr.attempt \in Attempts
    BY <1>2, MaxIndexIsNat DEF Within, WriterState
  <2>2. Event("content_block_stop", NoBlock, wr.blockIndex, wr.attempt) \in Calls
    BY <2>1, BlockEvents
  <2>3. t = [c EXCEPT !.activeType = NoBlock]  BY <1>2 DEF CloseActiveBlock
  <2>4. Within(c, hi) /\ SameBlock(c, wr)  BY <2>2, WriteSSEWithin
  <2> HIDE DEF c
  <2> QED  BY <2>3, <2>4 DEF Within, WriterState, SameBlock
<1> QED  BY <1>1, <1>2

LEMMA OpenBlockWithin ==
  ASSUME NEW hi \in Int, hi + 1 <= MaxIndex, NEW wr, Within(wr, hi), NEW block \in BlockType,
         NEW t, t = OpenBlock(wr, block)
  PROVE  Within(t, hi + 1) /\ t.attempt = wr.attempt /\ t.activeType = block
<1> DEFINE c == CloseActiveBlock(wr)
           i == c.blockIndex + 1
           r == [c EXCEPT !.blockIndex = i, !.activeType = block]
<1>1. Within(c, hi) /\ c.attempt = wr.attempt
  <2>1. hi <= MaxIndex  BY MaxIndexIsNat
  <2> QED  BY <2>1, CloseActiveBlockWithin
<1>2. t = WriteSSE(r, "content_block_start", block, i)  BY DEF OpenBlock
<1> HIDE DEF c
<1>3. i \in 0..(hi + 1) /\ i \in Int /\ c \in WriterState  BY <1>1 DEF Within
<1> HIDE DEF i
<1>4. r \in WriterState /\ r.blockIndex = i /\ r.activeType = block /\ r.attempt = c.attempt
  BY <1>3 DEF WriterState
<1> HIDE DEF r
<1>5. Within(r, hi + 1)  BY <1>3, <1>4 DEF Within
<1>6. i \in 0..MaxIndex /\ r.attempt \in Attempts
  BY <1>3, <1>4, MaxIndexIsNat DEF WriterState
<1>7. Event("content_block_start", block, i, r.attempt) \in Calls  BY <1>6, StartEvents
<1>8. Within(t, hi + 1) /\ SameBlock(t, r)  BY <1>2, <1>5, <1>7, WriteSSEWithin
<1> QED  BY <1>1, <1>4, <1>8 DEF SameBlock

LEMMA SwitchBlockWithin ==
  ASSUME NEW hi \in Int, hi + 1 <= MaxIndex, NEW wr, Within(wr, hi), NEW block \in BlockType,
         NEW t, t = SwitchBlock(wr, block)
  PROVE  Within(t, hi + 1) /\ t.attempt = wr.attempt /\ t.activeType = block
<1>1. CASE wr.activeType = block
  BY <1>1, WithinHigher DEF SwitchBlock
<1>2. CASE wr.activeType # block
  BY <1>2, OpenBlockWithin DEF SwitchBlock
<1> QED  BY <1>1, <1>2

LEMMA FireVisibleOutputWithin ==
  ASSUME NEW hi \in Int, NEW wr, Within(wr, hi), NEW t, t = FireVisibleOutput(wr)
  PROVE  Within(t, hi) /\ SameBlock(t, wr)
<1> DEFINE e == PromoteCall(wr.attempt)
<1>1. CASE wr.visibleFired  BY <1>1 DEF FireVisibleOutput, SameBlock
<1>2. CASE ~wr.visibleFired
  <2>1. t = [wr EXCEPT !.visibleFired = TRUE, !.todo = Append(@, e)]
    BY <1>2 DEF FireVisibleOutput
  <2>2. wr \in WriterState  BY DEF Within
  <2>3. e \in Calls  BY <2>2 DEF Calls, WriterState
  <2> HIDE DEF e
  <2>4. Append(wr.todo, e) \in Seq(Calls)  BY <2>2, <2>3 DEF WriterState
  <2>5. t \in WriterState  BY <2>1, <2>2, <2>4 DEF WriterState
  <2>6. SameBlock(t, wr)  BY <2>1, <2>2 DEF WriterState, SameBlock
  <2> QED  BY <2>5, <2>6 DEF Within, SameBlock
<1> QED  BY <1>1, <1>2

LEMMA WriteDeltaWithin ==
  ASSUME NEW hi \in Int, hi <= MaxIndex, NEW wr, Within(wr, hi), wr.activeType # NoBlock,
         NEW t, t = WriteDelta(wr)
  PROVE  Within(t, hi) /\ SameBlock(t, wr)
<1>1. wr.blockIndex \in 0..MaxIndex /\ wr.attempt \in Attempts
  BY MaxIndexIsNat DEF Within, WriterState
<1>2. Event("content_block_delta", NoBlock, wr.blockIndex, wr.attempt) \in Calls
  BY <1>1, BlockEvents
<1> QED  BY <1>2, WriteSSEWithin DEF WriteDelta

LEMMA RecordedWithin ==
  ASSUME NEW hi \in Int, NEW wr, Within(wr, hi), NEW deltas, NEW t, t = Recorded(wr, deltas)
  PROVE  Within(t, hi) /\ SameBlock(t, wr)
<1>1. wr \in WriterState  BY DEF Within
<1>2. t = [wr EXCEPT !.thinking = @ \/ "thinking" \in deltas,
                     !.text = @ \/ "text" \in deltas]
  BY DEF Recorded
<1> DEFINE x == (wr.thinking \/ "thinking" \in deltas)
           y == (wr.text \/ "text" \in deltas)
<1>3. x \in BOOLEAN /\ y \in BOOLEAN  OBVIOUS
<1>4. t = [wr EXCEPT !.thinking = x, !.text = y]  BY <1>2
<1> HIDE DEF x, y
<1>5. t \in WriterState  BY <1>1, <1>3, <1>4 DEF WriterState
<1>6. SameBlock(t, wr)  BY <1>1, <1>4 DEF WriterState, SameBlock
<1> QED  BY <1>5, <1>6 DEF Within, SameBlock

LEMMA WriteThinkingWithin ==
  ASSUME NEW hi \in Int, hi + 1 <= MaxIndex, NEW wr, Within(wr, hi),
         NEW t, t = WriteThinking(wr)
  PROVE  Within(t, hi + 1) /\ t.attempt = wr.attempt /\ t.activeType = "thinking"
<1> DEFINE a == EnsureStarted(wr)
           b == SwitchBlock(a, "thinking")
<1>1. Within(a, hi) /\ a.attempt = wr.attempt  BY EnsureStartedWithin DEF SameBlock
<1> HIDE DEF a
<1>2. "thinking" \in BlockType  BY DEF BlockType
<1>3. Within(b, hi + 1) /\ b.attempt = wr.attempt /\ b.activeType = "thinking"
  BY <1>1, <1>2, SwitchBlockWithin
<1>4. t = WriteDelta(b)  BY DEF WriteThinking, a
<1> HIDE DEF b
<1>5. b.activeType # NoBlock  BY <1>3 DEF NoBlock
<1>6. Within(t, hi + 1) /\ SameBlock(t, b)  BY <1>3, <1>4, <1>5, WriteDeltaWithin
<1> QED  BY <1>3, <1>6 DEF SameBlock

LEMMA WriteTextWithin ==
  ASSUME NEW hi \in Int, hi + 1 <= MaxIndex, NEW wr, Within(wr, hi), NEW t, t = WriteText(wr)
  PROVE  Within(t, hi + 1) /\ t.attempt = wr.attempt /\ t.activeType = "text"
<1> DEFINE a == EnsureStarted(wr)
           f == FireVisibleOutput(a)
           b == SwitchBlock(f, "text")
<1>1. Within(a, hi) /\ a.attempt = wr.attempt  BY EnsureStartedWithin DEF SameBlock
<1> HIDE DEF a
<1>2. Within(f, hi) /\ f.attempt = wr.attempt  BY <1>1, FireVisibleOutputWithin DEF SameBlock
<1> HIDE DEF f
<1>3. "text" \in BlockType  BY DEF BlockType
<1>4. Within(b, hi + 1) /\ b.attempt = wr.attempt /\ b.activeType = "text"
  BY <1>2, <1>3, SwitchBlockWithin
<1>5. t = WriteDelta(b)  BY DEF WriteText, a, f
<1> HIDE DEF b
<1>6. b.activeType # NoBlock  BY <1>4 DEF NoBlock
<1>7. Within(t, hi + 1) /\ SameBlock(t, b)  BY <1>4, <1>5, <1>6, WriteDeltaWithin
<1> QED  BY <1>4, <1>7 DEF SameBlock

(* Thinking and text of one event, or of what Finish flushes.              *)
LEMMA DeltasWithin ==
  ASSUME NEW hi \in Int, hi + 2 <= MaxIndex, NEW wr, Within(wr, hi), NEW deltas,
         NEW u, u = IF "thinking" \in deltas THEN WriteThinking(wr) ELSE wr,
         NEW t, t = IF "text" \in deltas THEN WriteText(u) ELSE u
  PROVE  Within(t, hi + 2) /\ t.attempt = wr.attempt
<1>1. Within(u, hi + 1) /\ u.attempt = wr.attempt
  <2>1. CASE "thinking" \in deltas
    <3>1. hi + 1 <= MaxIndex /\ u = WriteThinking(wr)  BY <2>1, MaxIndexIsNat
    <3> QED  BY <3>1, WriteThinkingWithin
  <2>2. CASE "thinking" \notin deltas  BY <2>2, WithinHigher
  <2> QED  BY <2>1, <2>2
<1> DEFINE lo == hi + 1
<1>2. lo \in Int /\ lo + 1 <= MaxIndex /\ lo + 1 = hi + 2 /\ Within(u, lo)  BY <1>1
<1> HIDE DEF lo
<1>3. CASE "text" \in deltas
  <2>1. Within(t, lo + 1) /\ t.attempt = u.attempt  BY <1>2, <1>3, WriteTextWithin
  <2> QED  BY <1>1, <1>2, <2>1
<1>4. CASE "text" \notin deltas
  <2>1. t = u /\ lo + 1 \in Int /\ lo <= lo + 1  BY <1>2, <1>4
  <2>2. Within(t, lo + 1)  BY <1>2, <2>1, WithinHigher
  <2> QED  BY <1>1, <1>2, <2>1, <2>2
<1> QED  BY <1>3, <1>4

LEMMA ContentWithin ==
  ASSUME NEW hi \in Int, hi + 2 <= MaxIndex, NEW wr, Within(wr, hi), NEW e \in Input,
         NEW t, t = Content(wr, e)
  PROVE  Within(t, hi + 2) /\ t.attempt = wr.attempt
<1> DEFINE q == Recorded(wr, e.deltas)
           r == [q EXCEPT !.localStop = e.stop, !.held = e.held]
           u == IF "thinking" \in e.deltas THEN WriteThinking(r) ELSE r
<1>1. Within(q, hi) /\ SameBlock(q, wr)  BY RecordedWithin
<1>2. e.stop \in BOOLEAN /\ e.held \in BOOLEAN  BY DEF Input
<1> HIDE DEF q
<1>3. Within(r, hi) /\ r.attempt = q.attempt
  BY <1>1, <1>2 DEF Within, WriterState
<1>4. t = IF "text" \in e.deltas THEN WriteText(u) ELSE u  BY DEF Content, q
<1> HIDE DEF r
<1>5. Within(t, hi + 2) /\ t.attempt = r.attempt  BY <1>3, <1>4, DeltasWithin
<1> QED  BY <1>1, <1>3, <1>5 DEF SameBlock

LEMMA RedactedBlockWithin ==
  ASSUME NEW hi \in Int, hi + 1 <= MaxIndex, NEW wr, Within(wr, hi),
         NEW t, t = RedactedBlock(wr)
  PROVE  Within(t, hi + 1) /\ t.attempt = wr.attempt
<1> DEFINE a == EnsureStarted(wr)
           b == OpenBlock(a, "redacted_thinking")
           lo == hi + 1
<1>1. Within(a, hi) /\ a.attempt = wr.attempt  BY EnsureStartedWithin DEF SameBlock
<1> HIDE DEF a
<1>2. "redacted_thinking" \in BlockType  BY DEF BlockType
<1>3. Within(b, lo) /\ b.attempt = wr.attempt  BY <1>1, <1>2, OpenBlockWithin
<1>4. t = CloseActiveBlock(b)  BY DEF RedactedBlock, a
<1>5. lo \in Int /\ lo <= MaxIndex  OBVIOUS
<1> HIDE DEF b, lo
<1>6. Within(t, lo) /\ t.attempt = b.attempt  BY <1>3, <1>4, <1>5, CloseActiveBlockWithin
<1> QED  BY <1>3, <1>6 DEF lo

LEMMA ToolBlockWithin ==
  ASSUME NEW hi \in Int, hi + 1 <= MaxIndex, NEW wr, Within(wr, hi), NEW e \in Input,
         NEW t, t = ToolBlock(wr, e)
  PROVE  Within(t, hi + 1) /\ t.attempt = wr.attempt
<1> DEFINE r == [wr EXCEPT !.tool = TRUE, !.localStop = e.stop]
           a == EnsureStarted(r)
           f == FireVisibleOutput(a)
           b == OpenBlock(f, "tool_use")
           lo == hi + 1
<1>1. e.stop \in BOOLEAN  BY DEF Input
<1>2. Within(r, hi) /\ r.attempt = wr.attempt  BY <1>1 DEF Within, WriterState
<1> HIDE DEF r
<1>3. Within(a, hi) /\ a.attempt = wr.attempt  BY <1>2, EnsureStartedWithin DEF SameBlock
<1> HIDE DEF a
<1>4. Within(f, hi) /\ f.attempt = wr.attempt  BY <1>3, FireVisibleOutputWithin DEF SameBlock
<1> HIDE DEF f
<1>5. "tool_use" \in BlockType /\ "tool_use" # NoBlock  BY DEF BlockType, NoBlock
<1>6. Within(b, lo) /\ b.attempt = wr.attempt /\ b.activeType # NoBlock
  BY <1>4, <1>5, OpenBlockWithin
<1>7. t = WriteDelta(b)  BY DEF ToolBlock, r, a, f
<1>8. lo \in Int /\ lo <= MaxIndex  OBVIOUS
<1> HIDE DEF b, lo
<1>9. Within(t, lo) /\ SameBlock(t, b)  BY <1>6, <1>7, <1>8, WriteDeltaWithin
<1> QED  BY <1>6, <1>9 DEF lo, SameBlock

LEMMA KindsHandled ==
  ASSUME NEW wr, NEW e
  PROVE  /\ e.kind = "content" => HandleEvent(wr, e) = Content(wr, e)
         /\ e.kind = "redacted" => HandleEvent(wr, e) = RedactedBlock(wr)
         /\ e.kind = "tool" => HandleEvent(wr, e) = ToolBlock(wr, e)
<1>1. e.kind = "content" => HandleEvent(wr, e) = Content(wr, e)
  BY Zenon DEF HandleEvent
<1>2. e.kind = "redacted" => HandleEvent(wr, e) = RedactedBlock(wr)
  BY Zenon DEF HandleEvent
<1>3. e.kind = "tool" => HandleEvent(wr, e) = ToolBlock(wr, e)
  BY Zenon DEF HandleEvent
<1> QED  BY <1>1, <1>2, <1>3

(* An event opens at most two blocks.                                      *)
LEMMA HandleEventWithin ==
  ASSUME NEW hi \in Int, hi + 2 <= MaxIndex, NEW wr, Within(wr, hi), NEW e \in Input,
         NEW t, t = HandleEvent(wr, e)
  PROVE  Within(t, hi + 2) /\ t.attempt = wr.attempt
<1>1. e.kind \in {"content", "redacted", "tool"}  BY DEF Input
<1>2. CASE e.kind = "content"
  <2>1. t = Content(wr, e)  BY <1>2, KindsHandled
  <2> QED  BY <2>1, ContentWithin
<1>3. ASSUME Within(t, hi + 1), t.attempt = wr.attempt
      PROVE  Within(t, hi + 2) /\ t.attempt = wr.attempt
  BY <1>3, WithinHigher
<1>4. hi + 1 <= MaxIndex  BY MaxIndexIsNat
<1>5. CASE e.kind = "redacted"
  <2>1. t = RedactedBlock(wr)  BY <1>5, KindsHandled
  <2> QED  BY <1>3, <1>4, <2>1, RedactedBlockWithin
<1>6. CASE e.kind = "tool"
  <2>1. t = ToolBlock(wr, e)  BY <1>6, KindsHandled
  <2> QED  BY <1>3, <1>4, <2>1, ToolBlockWithin
<1> QED  BY <1>1, <1>2, <1>5, <1>6

LEMMA EndMessageWithin ==
  ASSUME NEW hi \in Int, hi <= MaxIndex, NEW wr, Within(wr, hi), NEW t, t = EndMessage(wr)
  PROVE  Within(t, hi) /\ t.attempt = wr.attempt
<1> DEFINE c == CloseActiveBlock(wr)
           d == WriteSSE(c, "message_delta", NoBlock, -1)
<1>1. Within(c, hi) /\ c.attempt = wr.attempt /\ c.attempt \in Attempts
  BY CloseActiveBlockWithin DEF Within, WriterState
<1> HIDE DEF c
<1>2. /\ Event("message_delta", NoBlock, -1, c.attempt) \in Calls
      /\ Event("message_stop", NoBlock, -1, c.attempt) \in Calls
  BY <1>1, MessageEvents
<1>3. Within(d, hi) /\ SameBlock(d, c)  BY <1>1, <1>2, WriteSSEWithin
<1>4. t = WriteSSE(d, "message_stop", NoBlock, -1)  BY DEF EndMessage, c
<1> HIDE DEF d
<1>5. d.attempt = c.attempt  BY <1>3 DEF SameBlock
<1>6. Within(t, hi) /\ SameBlock(t, d)  BY <1>2, <1>3, <1>4, <1>5, WriteSSEWithin
<1> QED  BY <1>1, <1>5, <1>6 DEF SameBlock

LEMMA FinalizedWithin ==
  ASSUME NEW hi \in Int, NEW wr, Within(wr, hi), NEW f, f.stop \in BOOLEAN,
         NEW t, t = Finalized(wr, f)
  PROVE  Within(t, hi) /\ t.attempt = wr.attempt
<1> DEFINE r == Recorded(wr, f.deltas)
           x == (r.localStop \/ f.stop)
<1>1. Within(r, hi) /\ SameBlock(r, wr)  BY RecordedWithin
<1>2. t = [r EXCEPT !.localStop = x, !.held = FALSE]  BY DEF Finalized
<1>3. x \in BOOLEAN  OBVIOUS
<1> HIDE DEF r, x
<1>4. Within(t, hi) /\ t.attempt = r.attempt  BY <1>1, <1>2, <1>3 DEF Within, WriterState
<1> QED  BY <1>1, <1>4 DEF SameBlock

(* Finish opens at most two.                                               *)
LEMMA FinishWithin ==
  ASSUME NEW hi \in Int, hi + 2 <= MaxIndex, NEW wr, Within(wr, hi), NEW g,
         NEW f \in Finals(g), NEW t, t = Finish(wr, f)
  PROVE  Within(t, hi + 2) /\ t.attempt = wr.attempt
<1> DEFINE a == EnsureStarted(wr)
           r == Finalized(a, f)
           u == IF "thinking" \in f.deltas THEN WriteThinking(r) ELSE r
           d == IF "text" \in f.deltas THEN WriteText(u) ELSE u
           lo == hi + 2
<1>1. f.stop \in BOOLEAN  BY DEF Finals
<1>2. Within(a, hi) /\ a.attempt = wr.attempt  BY EnsureStartedWithin DEF SameBlock
<1> HIDE DEF a
<1>3. Within(r, hi) /\ r.attempt = wr.attempt  BY <1>1, <1>2, FinalizedWithin
<1> HIDE DEF r
<1>4. Within(d, lo) /\ d.attempt = wr.attempt  BY <1>3, DeltasWithin
<1>5. t = EndMessage(d)  BY DEF Finish, a, r
<1>6. lo \in Int /\ lo <= MaxIndex  OBVIOUS
<1> HIDE DEF d, lo
<1>7. Within(t, lo) /\ t.attempt = d.attempt  BY <1>4, <1>5, <1>6, EndMessageWithin
<1> QED  BY <1>4, <1>7 DEF lo

LEMMA HandledWithin ==
  ASSUME NEW hi \in Int, hi + 4 <= MaxIndex, NEW wr, Within(wr, hi), NEW e \in Input,
         NEW t \in Handled(wr, e)
  PROVE  /\ Within(t, hi + 4) /\ t.attempt = wr.attempt
         /\ ~e.stop => Within(t, hi + 2)
<1> DEFINE h == HandleEvent(wr, e)
           lo == hi + 2
<1>1. hi + 2 <= MaxIndex  BY MaxIndexIsNat
<1>2. Within(h, lo) /\ h.attempt = wr.attempt  BY <1>1, HandleEventWithin
<1>3. lo \in Int /\ lo + 2 <= MaxIndex /\ lo <= lo + 2 /\ lo + 2 = hi + 4
  BY MaxIndexIsNat
<1>4. CASE e.stop
  <2>1. PICK f \in Finals(h) : t = Finish(h, f)  BY <1>4 DEF Handled
  <2> HIDE DEF h, lo
  <2>2. Within(t, lo + 2) /\ t.attempt = h.attempt  BY <1>2, <1>3, <2>1, FinishWithin
  <2> QED  BY <1>2, <1>3, <1>4, <2>2
<1>5. CASE ~e.stop
  <2>1. t = h  BY <1>5 DEF Handled
  <2> HIDE DEF h, lo
  <2>2. Within(t, lo + 2)  BY <1>2, <1>3, <2>1, WithinHigher
  <2>3. Within(t, hi + 4)  BY <1>3, <2>2
  <2> QED  BY <1>2, <1>3, <2>1, <2>3 DEF lo
<1> QED  BY <1>4, <1>5

(* Without a stream nothing is written.                                    *)
LEMMA AccumulatedWithin ==
  ASSUME NEW hi \in Int, NEW wr, Within(wr, hi), NEW e \in Input,
         NEW t, t = Accumulated(wr, e)
  PROVE  Within(t, hi) /\ t.attempt = wr.attempt
<1>1. e.kind \in {"content", "redacted", "tool"} /\ e.stop \in BOOLEAN /\ e.held \in BOOLEAN
  BY DEF Input
<1>2. CASE wr.localStop \/ e.kind = "redacted"
  <2>1. t = wr  BY <1>2, Zenon DEF Accumulated
  <2> QED  BY <2>1
<1>3. CASE ~wr.localStop /\ e.kind = "tool"
  <2>1. t = [wr EXCEPT !.tool = TRUE, !.localStop = e.stop]
    BY <1>3, Zenon DEF Accumulated
  <2> QED  BY <1>1, <2>1 DEF Within, WriterState
<1>4. CASE ~wr.localStop /\ e.kind = "content"
  <2> DEFINE r == Recorded(wr, e.deltas)
  <2>1. t = [r EXCEPT !.localStop = e.stop, !.held = e.held]
    BY <1>4, Zenon DEF Accumulated
  <2>2. Within(r, hi) /\ SameBlock(r, wr)  BY RecordedWithin
  <2> HIDE DEF r
  <2>3. Within(t, hi) /\ t.attempt = r.attempt
    BY <1>1, <2>1, <2>2 DEF Within, WriterState
  <2> QED  BY <2>2, <2>3 DEF SameBlock
<1> QED  BY <1>1, <1>2, <1>3, <1>4

LEMMA WriteBlockWithin ==
  ASSUME NEW hi \in Int, hi + 1 <= MaxIndex, NEW wr, Within(wr, hi), NEW block \in BlockType,
         block # NoBlock, NEW delta \in BOOLEAN, NEW t, t = WriteBlock(wr, block, delta)
  PROVE  Within(t, hi + 1) /\ t.attempt = wr.attempt
<1> DEFINE o == OpenBlock(wr, block)
           d == IF delta THEN WriteDelta(o) ELSE o
           lo == hi + 1
<1>1. Within(o, lo) /\ o.attempt = wr.attempt /\ o.activeType # NoBlock
  BY OpenBlockWithin
<1>2. t = CloseActiveBlock(d)  BY DEF WriteBlock
<1>3. lo \in Int /\ lo <= MaxIndex  OBVIOUS
<1> HIDE DEF o, lo
<1>4. Within(d, lo) /\ d.attempt = o.attempt
  <2>1. CASE delta
    <3>1. d = WriteDelta(o)  BY <2>1
    <3> QED  BY <1>1, <1>3, <3>1, WriteDeltaWithin DEF SameBlock
  <2>2. CASE ~delta  BY <1>1, <2>2
  <2> QED  BY <2>1, <2>2
<1> HIDE DEF d
<1>5. Within(t, lo) /\ t.attempt = d.attempt
  BY <1>2, <1>3, <1>4, CloseActiveBlockWithin
<1> QED  BY <1>1, <1>4, <1>5 DEF lo

(* The message of a web search: its call, its result and a text.           *)
LEMMA WebSearchWithin ==
  ASSUME MaxIndex >= 2, NEW wr, Within(wr, -1),
         NEW t, t = FinishWebSearch(WriteText(WriteWebSearchResult(WriteServerToolUse(wr))))
  PROVE  Within(t, MaxIndex) /\ t.attempt = wr.attempt
<1> DEFINE a == EnsureStarted(wr)
           f == FireVisibleOutput(a)
           u == WriteServerToolUse(wr)
           r == WriteWebSearchResult(u)
           x == WriteText(r)
           y == EnsureStarted(x)
<1>1. Within(a, -1) /\ a.attempt = wr.attempt  BY EnsureStartedWithin DEF SameBlock
<1> HIDE DEF a
<1>2. Within(f, -1) /\ f.attempt = wr.attempt  BY <1>1, FireVisibleOutputWithin DEF SameBlock
<1> HIDE DEF f
<1>3. /\ "server_tool_use" \in BlockType /\ "server_tool_use" # NoBlock
      /\ "web_search_tool_result" \in BlockType /\ "web_search_tool_result" # NoBlock
  BY DEF BlockType, NoBlock
<1>4. -1 + 1 <= MaxIndex /\ 0 + 1 <= MaxIndex /\ 1 + 1 <= MaxIndex /\ -1 + 1 = 0 /\ 0 + 1 = 1
      /\ 1 + 1 = 2 /\ 2 <= MaxIndex /\ MaxIndex \in Int
  BY MaxIndexIsNat
<1>5. Within(u, 0) /\ u.attempt = wr.attempt
  <2> DEFINE lo == -1
             yes == TRUE
  <2>1. u = WriteBlock(f, "server_tool_use", yes)  BY DEF WriteServerToolUse, f, a
  <2>2. lo \in Int /\ lo + 1 <= MaxIndex /\ lo + 1 = 0 /\ Within(f, lo)  BY <1>2, <1>4
  <2>3. yes \in BOOLEAN  OBVIOUS
  <2> HIDE DEF u, lo, yes
  <2>4. Within(u, lo + 1) /\ u.attempt = f.attempt
    BY <1>3, <2>1, <2>2, <2>3, WriteBlockWithin
  <2> QED  BY <1>2, <2>2, <2>4
<1> HIDE DEF u
<1>6. Within(r, 1) /\ r.attempt = wr.attempt
  <2> DEFINE lo == 0
             no == FALSE
  <2>1. r = WriteBlock(u, "web_search_tool_result", no)  BY DEF WriteWebSearchResult
  <2>2. no \in BOOLEAN /\ lo \in Int /\ lo + 1 <= MaxIndex /\ lo + 1 = 1 /\ Within(u, lo)  BY <1>5, <1>4
  <2> HIDE DEF r, lo, no
  <2>3. Within(r, lo + 1) /\ r.attempt = u.attempt
    BY <1>3, <2>1, <2>2, WriteBlockWithin
  <2> QED  BY <1>5, <2>2, <2>3
<1> HIDE DEF r
<1>7. Within(x, 2) /\ x.attempt = wr.attempt
  <2> DEFINE lo == 1
  <2>1. x = WriteText(r)  OBVIOUS
  <2>2. lo \in Int /\ lo + 1 <= MaxIndex /\ lo + 1 = 2 /\ Within(r, lo)  BY <1>6, <1>4
  <2> HIDE DEF x, lo
  <2>3. Within(x, lo + 1) /\ x.attempt = r.attempt  BY <2>1, <2>2, WriteTextWithin
  <2> QED  BY <1>6, <2>2, <2>3
<1> HIDE DEF x
<1>8. Within(y, 2) /\ y.attempt = wr.attempt  BY <1>7, EnsureStartedWithin DEF SameBlock
<1>9. t = EndMessage(y)  BY DEF FinishWebSearch, x, r, u
<1> HIDE DEF y
<1>10. Within(t, 2) /\ t.attempt = y.attempt  BY <1>4, <1>8, <1>9, EndMessageWithin
<1> QED  BY <1>4, <1>8, <1>10, WithinHigher

LEMMA NewWriterWithin ==
  ASSUME NEW a \in Attempts, NEW t, t = NewSSEWriter(a)
  PROVE  Within(t, -1) /\ t.attempt = a
<1>1. <<>> \in Seq(Calls)  OBVIOUS
<1>2. t \in WriterState  BY <1>1 DEF NewSSEWriter, WriterState
<1> QED  BY <1>2 DEF NewSSEWriter, Within

----------------------------------------------------------------------------
(* Well-formed messages.  A prefix of one is well-formed, and an event that *)
(* is in place at its end makes a longer one.                              *)

Agree(p, q, k) == \A j \in 1..k : p[j] = q[j]

LEMMA BeforeAgree ==
  ASSUME NEW p, NEW q, NEW i \in Int, Agree(p, q, i - 1), NEW n
  PROVE  Before(p, i, n) = Before(q, i, n)
<1>1. {j \in 1..(i - 1) : p[j].event = n} = {j \in 1..(i - 1) : q[j].event = n}
  BY DEF Agree
<1> QED  BY <1>1 DEF Before

LEMMA CountsAgree ==
  ASSUME NEW p, NEW q, NEW i \in Int, NEW j, j = i - 1, Agree(p, q, j)
  PROVE  \A n : Before(p, i, n) = Before(q, i, n)
BY BeforeAgree

LEMMA BeforeType ==
  ASSUME NEW m, NEW i \in Int, NEW n
  PROVE  /\ IsFiniteSet({j \in 1..(i - 1) : m[j].event = n})
         /\ Before(m, i, n) \in Nat
<1> DEFINE S == {j \in 1..(i - 1) : m[j].event = n}
<1>1. IsFiniteSet(1..(i - 1))  BY FS_Interval
<1>2. S \subseteq 1..(i - 1)  OBVIOUS
<1>3. IsFiniteSet(S)  BY <1>1, <1>2, FS_Subset
<1> QED  BY <1>3, FS_CardinalityType DEF Before

LEMMA BeforeNext ==
  ASSUME NEW m, NEW i \in Nat \ {0}, NEW n
  PROVE  Before(m, i + 1, n) = IF m[i].event = n THEN Before(m, i, n) + 1 ELSE Before(m, i, n)
<1> DEFINE S == {j \in 1..(i - 1) : m[j].event = n}
           T == {j \in 1..((i + 1) - 1) : m[j].event = n}
<1>1. IsFiniteSet(S) /\ i \notin S
  <2>1. IsFiniteSet(1..(i - 1))  BY FS_Interval
  <2>2. S \subseteq 1..(i - 1)  OBVIOUS
  <2>3. IsFiniteSet(S)  BY <2>1, <2>2, FS_Subset
  <2>4. i \notin S  OBVIOUS
  <2> QED  BY <2>3, <2>4
<1>2. CASE m[i].event = n
  <2>1. T = S \cup {i}  BY <1>2
  <2> HIDE DEF S
  <2>2. Cardinality(S \cup {i}) = Cardinality(S) + 1  BY <1>1, FS_AddElement
  <2> QED  BY <1>2, <2>1, <2>2 DEF Before, S
<1>3. CASE m[i].event # n
  <2>1. T = S  BY <1>3
  <2> QED  BY <1>3, <2>1 DEF Before
<1> QED  BY <1>2, <1>3

LEMMA InPlaceAgree ==
  ASSUME NEW p, NEW q, NEW k \in Nat, Agree(p, q, k), NEW i \in 1..k, InPlace(q, i),
         q[i].event = "message_stop" => i = Len(p)
  PROVE  InPlace(p, i)
<1>1. p[i] = q[i] /\ p[1] = q[1] /\ (i > 1 => p[i - 1] = q[i - 1])  BY DEF Agree
<1>2. i \in Int /\ Agree(p, q, i - 1)  BY DEF Agree
<1>3. \A n : Before(p, i, n) = Before(q, i, n)  BY <1>2, BeforeAgree
<1>4. Opened(p, i) = Opened(q, i) /\ (Open(p, i) <=> Open(q, i))  BY <1>3 DEF Opened, Open
<1> QED  BY <1>1, <1>4 DEF InPlace

LEMMA PrefixWellFormed ==
  ASSUME NEW X, NEW p \in Seq(X), NEW q \in Seq(X), WellFormedSoFar(q),
         Len(p) <= Len(q), Agree(p, q, Len(p))
  PROVE  WellFormedSoFar(p)
<1>1. ASSUME NEW i \in 1..Len(p) PROVE InPlace(p, i)
  <2>1. i \in DOMAIN q /\ Len(p) \in Nat /\ Len(q) \in Nat  OBVIOUS
  <2>2. InPlace(q, i)  BY <2>1 DEF WellFormedSoFar
  <2>3. q[i].event = "message_stop" => i = Len(p)  BY <2>1, <2>2 DEF InPlace
  <2> QED  BY <2>1, <2>2, <2>3, InPlaceAgree
<1> QED  BY <1>1 DEF WellFormedSoFar

LEMMA AppendAgrees ==
  ASSUME NEW m \in Seq(SSEEvent), NEW e \in SSEEvent, NEW q, q = Append(m, e)
  PROVE  /\ q \in Seq(SSEEvent) /\ Len(q) = Len(m) + 1 /\ q[Len(m) + 1] = e
         /\ Agree(q, m, Len(m)) /\ Agree(m, q, Len(m))
BY DEF Agree

LEMMA AppendWellFormed ==
  ASSUME NEW m \in Seq(SSEEvent), WellFormedSoFar(m),
         \A i \in 1..Len(m) : m[i].event # "message_stop",
         NEW e \in SSEEvent, NEW q, q = Append(m, e), InPlace(q, Len(m) + 1)
  PROVE  WellFormedSoFar(q)
<1>1. /\ q \in Seq(SSEEvent) /\ Len(q) = Len(m) + 1 /\ Agree(q, m, Len(m))
  BY AppendAgrees
<1> DEFINE n == Len(m)
<1>0. n \in Nat  OBVIOUS
<1>2. ASSUME NEW i \in 1..n PROVE InPlace(q, i)
  <2>1. InPlace(m, i) /\ m[i].event # "message_stop"  BY DEF WellFormedSoFar
  <2>2. Agree(q, m, n)  BY <1>1
  <2> HIDE DEF n
  <2> QED  BY <1>0, <2>1, <2>2, InPlaceAgree
<1>3. DOMAIN q = 1..(Len(m) + 1)  BY <1>1
<1> QED  BY <1>0, <1>1, <1>2, <1>3 DEF WellFormedSoFar

LEMMA EmptyWellFormed == WellFormedSoFar(<<>>)
BY DEF WellFormedSoFar

(* An unended message of one attempt.                                      *)
Running(m, a) ==
  /\ m \in Seq(SSEEvent)
  /\ WellFormedSoFar(m)
  /\ \A i \in 1..Len(m) :
       m[i].attempt = a /\ m[i].event \notin {"message_delta", "message_stop"}

Opens(m)  == Before(m, Len(m) + 1, "content_block_start")
Closes(m) == Before(m, Len(m) + 1, "content_block_stop")

(* Where an event of a running message may come.                           *)
Fits(m, e) ==
  /\ e.event \notin {"message_delta", "message_stop"}
  /\ (e.event = "message_start") <=> (m = <<>>)
  /\ e.event = "content_block_start" => Opens(m) <= Closes(m) /\ e.index = Opens(m)
  /\ e.event \in {"content_block_delta", "content_block_stop"} =>
       Opens(m) > Closes(m) /\ e.index = Opens(m) - 1

LEMMA CountsAppend ==
  ASSUME NEW m \in Seq(SSEEvent), NEW e \in SSEEvent, NEW q, q = Append(m, e)
  PROVE  /\ Opens(m) \in Nat /\ Closes(m) \in Nat
         /\ Opened(q, Len(m) + 1) = Opens(m)
         /\ Open(q, Len(m) + 1) <=> Opens(m) > Closes(m)
         /\ Opens(q) = IF e.event = "content_block_start" THEN Opens(m) + 1 ELSE Opens(m)
         /\ Closes(q) = IF e.event = "content_block_stop" THEN Closes(m) + 1 ELSE Closes(m)
<1> DEFINE n == Len(m)
           k == n + 1
<1>1. n \in Nat /\ k \in Nat \ {0} /\ k \in Int /\ k - 1 = n  OBVIOUS
<1>2. Len(q) = k /\ q[k] = e /\ Agree(q, m, n)  BY AppendAgrees
<1>3. Opens(m) = Before(m, k, "content_block_start") /\ Closes(m) = Before(m, k, "content_block_stop")
  BY DEF Opens, Closes
<1> HIDE DEF n, k
<1>4. Agree(q, m, k - 1)  BY <1>1, <1>2
<1>5. \A a : Before(q, k, a) = Before(m, k, a)
  <2>1. k \in Int /\ n = k - 1 /\ Agree(q, m, n)  BY <1>1, <1>2
  <2> QED  BY <2>1, CountsAgree
<1>6. \A a : Before(m, k, a) \in Nat  BY <1>1, BeforeType
<1>7. \A a : Before(q, k + 1, a) = IF q[k].event = a THEN Before(q, k, a) + 1 ELSE Before(q, k, a)
  BY <1>1, BeforeNext
<1>8. Opens(q) = Before(q, k + 1, "content_block_start") /\ Closes(q) = Before(q, k + 1, "content_block_stop")
  BY <1>2 DEF Opens, Closes
<1>9. Opened(q, k) = Opens(m)  BY <1>3, <1>5 DEF Opened
<1>10. Open(q, k) <=> Opens(m) > Closes(m)  BY <1>3, <1>5, <1>9 DEF Open
<1>11. Opens(q) = IF e.event = "content_block_start" THEN Opens(m) + 1 ELSE Opens(m)
  BY <1>2, <1>3, <1>5, <1>7, <1>8
<1>12. Closes(q) = IF e.event = "content_block_stop" THEN Closes(m) + 1 ELSE Closes(m)
  BY <1>2, <1>3, <1>5, <1>7, <1>8
<1>13. Len(m) + 1 = k  BY DEF n, k
<1> QED  BY <1>3, <1>6, <1>9, <1>10, <1>11, <1>12, <1>13

LEMMA RunsOn ==
  ASSUME NEW a, NEW m, Running(m, a), NEW e \in SSEEvent, e.attempt = a, Fits(m, e),
         NEW q, q = Append(m, e)
  PROVE  Running(q, a)
<1> DEFINE n == Len(m)
           k == n + 1
<1>1. m \in Seq(SSEEvent) /\ WellFormedSoFar(m) /\ n \in Nat
      /\ \A i \in 1..n : m[i].attempt = a /\ m[i].event \notin {"message_delta", "message_stop"}
  BY DEF Running
<1>2. q \in Seq(SSEEvent) /\ Len(q) = k /\ q[k] = e /\ Agree(q, m, n)  BY <1>1, AppendAgrees
<1>3. /\ Opens(m) \in Nat /\ Closes(m) \in Nat /\ Opened(q, k) = Opens(m)
      /\ Open(q, k) <=> Opens(m) > Closes(m)
  BY <1>1, CountsAppend
<1>4. m = <<>> <=> n = 0  BY <1>1
<1>5. q[1].attempt = a /\ (k > 1 => q[k - 1].event # "message_delta")
  <2>1. CASE n = 0  BY <1>2, <2>1
  <2>2. CASE n # 0  BY <1>1, <1>2, <2>2 DEF Agree
  <2> QED  BY <2>1, <2>2
<1>6. InPlace(q, k)
  <2>1. e.event = "message_start" <=> k = 1  BY <1>1, <1>4 DEF Fits
  <2> HIDE DEF n, k
  <2> QED  BY <1>2, <1>3, <1>5, <2>1 DEF InPlace, Fits
<1>7. WellFormedSoFar(q)  BY <1>1, <1>6, AppendWellFormed
<1>8. \A i \in 1..Len(q) : q[i].attempt = a /\ q[i].event \notin {"message_delta", "message_stop"}
  <2> SUFFICES ASSUME NEW i \in 1..k
               PROVE  q[i].attempt = a /\ q[i].event \notin {"message_delta", "message_stop"}
    BY <1>2
  <2>1. CASE i = k  BY <1>2, <2>1 DEF Fits
  <2>2. CASE i # k  BY <1>1, <1>2, <2>2 DEF Agree
  <2> QED  BY <2>1, <2>2
<1> QED  BY <1>2, <1>7, <1>8 DEF Running

(* The end of a message whose blocks are closed.                           *)
LEMMA EndWellFormed ==
  ASSUME NEW a, NEW m, Running(m, a), m # <<>>, Opens(m) <= Closes(m),
         NEW d \in SSEEvent, d.event = "message_delta", d.attempt = a,
         NEW z \in SSEEvent, z.event = "message_stop", z.attempt = a,
         NEW p, p = Append(m, d), NEW q, q = Append(p, z)
  PROVE  q \in Seq(SSEEvent) /\ WellFormedSoFar(p) /\ WellFormedSoFar(q)
<1> DEFINE n == Len(m)
           k == n + 1
           l == k + 1
<1>1. /\ m \in Seq(SSEEvent) /\ WellFormedSoFar(m) /\ n \in Nat /\ n # 0
      /\ \A i \in 1..n : m[i].attempt = a /\ m[i].event \notin {"message_delta", "message_stop"}
  BY DEF Running
<1>2. p \in Seq(SSEEvent) /\ Len(p) = k /\ p[k] = d /\ Agree(p, m, n)  BY <1>1, AppendAgrees
<1>3. q \in Seq(SSEEvent) /\ Len(q) = l /\ q[l] = z /\ Agree(q, p, k)
  <2>1. Len(p) = k /\ Len(p) + 1 = l  BY <1>2
  <2>2. /\ q \in Seq(SSEEvent) /\ Len(q) = Len(p) + 1 /\ q[Len(p) + 1] = z
        /\ Agree(q, p, Len(p))
    BY <1>2, AppendAgrees
  <2> HIDE DEF k, l
  <2> QED  BY <2>1, <2>2
<1>4. ~Open(p, k)
  <2>1. /\ Opens(m) \in Nat /\ Closes(m) \in Nat
        /\ Open(p, k) <=> Opens(m) > Closes(m)
    BY <1>1, CountsAppend
  <2> QED  BY <2>1
<1>5. p[1].attempt = a /\ p[n].event # "message_delta" /\ q[1].attempt = a /\ q[k] = d
  BY <1>1, <1>2, <1>3 DEF Agree
<1>6. InPlace(p, k)
  <2>1. k # 1 /\ k - 1 = n  BY <1>1
  <2> HIDE DEF n, k
  <2> QED  BY <1>2, <1>4, <1>5, <2>1 DEF InPlace
<1>7. WellFormedSoFar(p)  BY <1>1, <1>6, AppendWellFormed
<1>8. InPlace(q, l)
  <2>1. l # 1 /\ l - 1 = k /\ l > 1  BY <1>1
  <2> HIDE DEF n, k, l
  <2> QED  BY <1>3, <1>5, <2>1 DEF InPlace
<1>9. \A i \in 1..Len(p) : p[i].event # "message_stop"
  <2> SUFFICES ASSUME NEW i \in 1..k PROVE p[i].event # "message_stop"
    BY <1>2
  <2>1. CASE i = k  BY <1>2, <2>1
  <2>2. CASE i # k  BY <1>1, <1>2, <2>2 DEF Agree
  <2> QED  BY <2>1, <2>2
<1>10. InPlace(q, Len(p) + 1)  BY <1>2, <1>8
<1>11. WellFormedSoFar(q)  BY <1>2, <1>7, <1>9, <1>10, AppendWellFormed
<1> QED  BY <1>3, <1>7, <1>11

(* Where a message that is being written stands: it has been started, its  *)
(* open block is of a type (or none is open), and an index is the last.    *)
Tells(m, a, started, type, index) ==
  /\ Running(m, a)
  /\ started <=> m # <<>>
  /\ type # NoBlock => started
  /\ Opens(m) = index + 1
  /\ Closes(m) = IF type = NoBlock THEN index + 1 ELSE index

LEMMA TellsNothing == \A a : Tells(<<>>, a, FALSE, NoBlock, -1)
<1>1. Len(<<>>) = 0  OBVIOUS
<1>2. \A n : Before(<<>>, 0 + 1, n) = 0
  <2> TAKE n
  <2>1. {j \in 1..((0 + 1) - 1) : <<>>[j].event = n} = {}  OBVIOUS
  <2> QED  BY <2>1, FS_EmptySet DEF Before
<1>3. Opens(<<>>) = 0 /\ Closes(<<>>) = 0  BY <1>1, <1>2 DEF Opens, Closes
<1> SUFFICES ASSUME NEW a PROVE Tells(<<>>, a, FALSE, NoBlock, -1)  OBVIOUS
<1>4. Running(<<>>, a)  BY EmptyWellFormed DEF Running
<1> QED  BY <1>3, <1>4 DEF Tells

LEMMA TellsStart ==
  ASSUME NEW a, NEW i \in Int, NEW type, NEW m, Tells(m, a, FALSE, type, i),
         NEW e \in SSEEvent, e.event = "message_start", e.attempt = a,
         NEW q, q = Append(m, e)
  PROVE  Tells(q, a, TRUE, type, i)
<1>1. Running(m, a) /\ m = <<>> /\ type = NoBlock /\ Opens(m) = i + 1 /\ Closes(m) = i + 1
      /\ m \in Seq(SSEEvent)
  BY DEF Tells, Running
<1>2. e.event = "message_start" /\ e.attempt = a  OBVIOUS
<1>3. Fits(m, e)  BY <1>1, <1>2 DEF Fits
<1>4. Running(q, a)  BY <1>1, <1>2, <1>3, RunsOn
<1>5. Opens(q) = i + 1 /\ Closes(q) = i + 1  BY <1>1, <1>2, CountsAppend
<1>6. q # <<>>  BY <1>1, AppendAgrees
<1> QED  BY <1>1, <1>4, <1>5, <1>6 DEF Tells

LEMMA TellsClose ==
  ASSUME NEW a, NEW i \in Int, NEW started \in BOOLEAN, NEW type, type # NoBlock,
         NEW m, Tells(m, a, started, type, i),
         NEW e \in SSEEvent, e.event = "content_block_stop", e.attempt = a,
         e.index = i,
         NEW q, q = Append(m, e)
  PROVE  Tells(q, a, started, NoBlock, i)
<1>1. Running(m, a) /\ m # <<>> /\ started /\ Opens(m) = i + 1 /\ Closes(m) = i
      /\ m \in Seq(SSEEvent)
  BY DEF Tells, Running
<1>2. e.event = "content_block_stop" /\ e.attempt = a /\ e.index = i  OBVIOUS
<1>3. Fits(m, e)  BY <1>1, <1>2 DEF Fits
<1>4. Running(q, a)  BY <1>1, <1>2, <1>3, RunsOn
<1>5. Opens(q) = i + 1 /\ Closes(q) = i + 1
  <2>1. /\ Opens(q) = IF e.event = "content_block_start" THEN Opens(m) + 1 ELSE Opens(m)
        /\ Closes(q) = IF e.event = "content_block_stop" THEN Closes(m) + 1 ELSE Closes(m)
    BY <1>1, CountsAppend
  <2> QED  BY <1>1, <1>2, <2>1
<1>6. q # <<>>  BY <1>1, AppendAgrees
<1> QED  BY <1>1, <1>4, <1>5, <1>6 DEF Tells

LEMMA TellsOpen ==
  ASSUME NEW a, NEW i \in Int, NEW m, Tells(m, a, TRUE, NoBlock, i),
         NEW type \in BlockType, type # NoBlock, NEW j, j = i + 1,
         NEW e \in SSEEvent, e.event = "content_block_start", e.attempt = a,
         e.index = j,
         NEW q, q = Append(m, e)
  PROVE  Tells(q, a, TRUE, type, j)
<1>1. Running(m, a) /\ m # <<>> /\ Opens(m) = i + 1 /\ Closes(m) = i + 1
      /\ m \in Seq(SSEEvent)
  BY DEF Tells, Running
<1>2. e.event = "content_block_start" /\ e.attempt = a /\ e.index = i + 1  OBVIOUS
<1>3. Fits(m, e)  BY <1>1, <1>2 DEF Fits
<1>4. Running(q, a)  BY <1>1, <1>2, <1>3, RunsOn
<1>5. Opens(q) = j + 1 /\ Closes(q) = j
  <2>1. /\ Opens(q) = IF e.event = "content_block_start" THEN Opens(m) + 1 ELSE Opens(m)
        /\ Closes(q) = IF e.event = "content_block_stop" THEN Closes(m) + 1 ELSE Closes(m)
    BY <1>1, CountsAppend
  <2> QED  BY <1>1, <1>2, <2>1
<1>6. q # <<>>  BY <1>1, AppendAgrees
<1> QED  BY <1>4, <1>5, <1>6 DEF Tells

LEMMA TellsDelta ==
  ASSUME NEW a, NEW i \in Int, NEW started \in BOOLEAN, NEW type, type # NoBlock,
         NEW m, Tells(m, a, started, type, i),
         NEW e \in SSEEvent, e.event = "content_block_delta", e.attempt = a,
         e.index = i,
         NEW q, q = Append(m, e)
  PROVE  Tells(q, a, started, type, i)
<1>1. Running(m, a) /\ m # <<>> /\ started /\ Opens(m) = i + 1 /\ Closes(m) = i
      /\ m \in Seq(SSEEvent)
  BY DEF Tells, Running
<1>2. e.event = "content_block_delta" /\ e.attempt = a /\ e.index = i  OBVIOUS
<1>3. Fits(m, e)  BY <1>1, <1>2 DEF Fits
<1>4. Running(q, a)  BY <1>1, <1>2, <1>3, RunsOn
<1>5. Opens(q) = i + 1 /\ Closes(q) = i
  <2>1. /\ Opens(q) = IF e.event = "content_block_start" THEN Opens(m) + 1 ELSE Opens(m)
        /\ Closes(q) = IF e.event = "content_block_stop" THEN Closes(m) + 1 ELSE Closes(m)
    BY <1>1, CountsAppend
  <2> QED  BY <1>1, <1>2, <2>1
<1>6. q # <<>>  BY <1>1, AppendAgrees
<1> QED  BY <1>1, <1>4, <1>5, <1>6 DEF Tells

----------------------------------------------------------------------------
(* The story of a writer: what has reached the session, and what its calls *)
(* will add.                                                               *)

Story(b, wr) == b \o Filter(wr.todo, SSEEvent)

Speaks(b, wr) ==
  /\ b \in Seq(SSEEvent)
  /\ ~wr.writeErr
  /\ Tells(Story(b, wr), wr.attempt, wr.started, wr.activeType, wr.blockIndex)

LEMMA StoryAppend ==
  ASSUME NEW b \in Seq(SSEEvent), NEW wr \in WriterState, NEW e \in Calls,
         NEW t, t.todo = Append(wr.todo, e)
  PROVE  /\ Story(b, wr) \in Seq(SSEEvent)
         /\ e \in SSEEvent => Story(b, t) = Append(Story(b, wr), e)
         /\ e \notin SSEEvent => Story(b, t) = Story(b, wr)
<1> DEFINE q == Filter(wr.todo, SSEEvent)
<1>1. wr.todo \in Seq(Calls)  BY DEF WriterState
<1>2. q \in Seq(Calls \cap SSEEvent)  BY <1>1, FilterType
<1>3. Calls \cap SSEEvent = SSEEvent  BY DEF Calls
<1>4. Filter(Append(wr.todo, e), SSEEvent) = IF e \in SSEEvent THEN Append(q, e) ELSE q
  BY <1>1, FilterAppend
<1>5. q \in Seq(SSEEvent)  BY <1>2, <1>3
<1>6. Story(b, wr) = b \o q /\ Story(b, t) = b \o Filter(Append(wr.todo, e), SSEEvent)
  BY DEF Story
<1> HIDE DEF q
<1>7. b \o q \in Seq(SSEEvent)  BY <1>5
<1>8. CASE e \in SSEEvent
  <2>1. b \o Append(q, e) = Append(b \o q, e)  BY <1>5, <1>8
  <2> QED  BY <1>4, <1>6, <1>7, <1>8, <2>1
<1>9. CASE e \notin SSEEvent  BY <1>4, <1>6, <1>7, <1>9
<1> QED  BY <1>8, <1>9

LEMMA PromoteIsNoEvent == \A a : PromoteCall(a) \notin SSEEvent
<1>1. \A e \in SSEEvent : e.event # "promote"  BY DEF SSEEvent, Event
<1>2. \A a : PromoteCall(a).event = "promote"  BY DEF PromoteCall, Event
<1> QED  BY <1>1, <1>2

LEMMA EventFields ==
  ASSUME NEW n, NEW type, NEW i, NEW a, NEW e, e = Event(n, type, i, a)
  PROVE  e.event = n /\ e.block = type /\ e.index = i /\ e.attempt = a
BY DEF Event

LEMMA EventsAreEvents ==
  ASSUME NEW a \in Attempts
  PROVE  /\ Event("message_start", NoBlock, -1, a) \in SSEEvent
         /\ Event("message_delta", NoBlock, -1, a) \in SSEEvent
         /\ Event("message_stop", NoBlock, -1, a) \in SSEEvent
         /\ \A i \in 0..MaxIndex :
              /\ Event("content_block_delta", NoBlock, i, a) \in SSEEvent
              /\ Event("content_block_stop", NoBlock, i, a) \in SSEEvent
              /\ \A b \in BlockType : Event("content_block_start", b, i, a) \in SSEEvent
BY DEF SSEEvent

LEMMA WriteSSEStory ==
  ASSUME NEW b \in Seq(SSEEvent), NEW wr \in WriterState, ~wr.writeErr,
         NEW n, NEW type, NEW i, NEW e \in SSEEvent, e = Event(n, type, i, wr.attempt),
         NEW t, t = WriteSSE(wr, n, type, i)
  PROVE  /\ ~t.writeErr /\ t.started = wr.started /\ SameBlock(t, wr)
         /\ Story(b, wr) \in Seq(SSEEvent) /\ Story(b, t) = Append(Story(b, wr), e)
<1>1. t = [wr EXCEPT !.todo = Append(@, e)]  BY DEF WriteSSE
<1>2. e \in Calls  BY DEF Calls
<1>3. ~t.writeErr /\ t.started = wr.started /\ SameBlock(t, wr) /\ t.todo = Append(wr.todo, e)
  BY <1>1 DEF WriterState, SameBlock
<1>4. Story(b, wr) \in Seq(SSEEvent) /\ Story(b, t) = Append(Story(b, wr), e)
  BY <1>2, <1>3, StoryAppend
<1> QED  BY <1>3, <1>4

LEMMA EnsureStartedSpeaks ==
  ASSUME NEW hi \in Int, NEW wr, Within(wr, hi), NEW b, Speaks(b, wr),
         NEW t, t = EnsureStarted(wr)
  PROVE  Speaks(b, t) /\ t.started
<1>1. CASE wr.started  BY <1>1 DEF EnsureStarted
<1>2. CASE ~wr.started
  <2> DEFINE r == [wr EXCEPT !.started = TRUE]
             k == -1
             e == Event("message_start", NoBlock, k, wr.attempt)
  <2>1. t = WriteSSE(r, "message_start", NoBlock, k)  BY <1>2 DEF EnsureStarted
  <2>2. wr \in WriterState /\ wr.blockIndex \in Int /\ wr.attempt \in Attempts
    BY DEF Within, WriterState
  <2>3. /\ r \in WriterState /\ ~r.writeErr /\ r.todo = wr.todo /\ SameBlock(r, wr)
        /\ b \in Seq(SSEEvent)
    BY <2>2 DEF Speaks, WriterState, SameBlock
  <2>0. r.started = TRUE  BY <2>2 DEF WriterState
  <2> HIDE DEF r
  <2>4. e \in SSEEvent  BY <2>2, EventsAreEvents
  <2> HIDE DEF k
  <2>5. e = Event("message_start", NoBlock, k, r.attempt)  BY <2>3 DEF SameBlock
  <2>6. e.event = "message_start" /\ e.attempt = wr.attempt  BY EventFields
  <2> HIDE DEF e
  <2>7. /\ ~t.writeErr /\ t.started = r.started /\ SameBlock(t, r)
        /\ Story(b, r) \in Seq(SSEEvent) /\ Story(b, t) = Append(Story(b, r), e)
    BY <2>1, <2>3, <2>4, <2>5, WriteSSEStory
  <2>8. Tells(Story(b, r), wr.attempt, FALSE, wr.activeType, wr.blockIndex)
    BY <1>2, <2>2, <2>3 DEF Speaks, Story, WriterState
  <2>9. Tells(Story(b, t), wr.attempt, TRUE, wr.activeType, wr.blockIndex)
    BY <2>2, <2>4, <2>6, <2>7, <2>8, TellsStart
  <2>10. t.started = TRUE  BY <2>0, <2>7
  <2> QED  BY <2>3, <2>7, <2>9, <2>10 DEF Speaks, SameBlock
<1> QED  BY <1>1, <1>2

LEMMA CloseActiveBlockSpeaks ==
  ASSUME NEW hi \in Int, hi <= MaxIndex, NEW wr, Within(wr, hi), NEW b, Speaks(b, wr),
         NEW t, t = CloseActiveBlock(wr)
  PROVE  Speaks(b, t) /\ t.started = wr.started /\ t.activeType = NoBlock
<1>1. CASE wr.activeType = NoBlock  BY <1>1 DEF CloseActiveBlock
<1>2. CASE wr.activeType # NoBlock
  <2> DEFINE c == WriteSSE(wr, "content_block_stop", NoBlock, wr.blockIndex)
             e == Event("content_block_stop", NoBlock, wr.blockIndex, wr.attempt)
  <2>1. t = [c EXCEPT !.activeType = NoBlock]  BY <1>2 DEF CloseActiveBlock
  <2>2. /\ wr \in WriterState /\ wr.blockIndex \in 0..MaxIndex /\ wr.blockIndex \in Int
        /\ wr.attempt \in Attempts /\ b \in Seq(SSEEvent) /\ ~wr.writeErr /\ wr.started \in BOOLEAN
    BY <1>2, MaxIndexIsNat DEF Within, WriterState, Speaks
  <2>3. e \in SSEEvent  BY <2>2, EventsAreEvents
  <2>4. e.event = "content_block_stop" /\ e.attempt = wr.attempt /\ e.index = wr.blockIndex
    BY EventFields
  <2>5. e \in Calls  BY <2>3 DEF Calls
  <2>6. Within(c, hi)  BY <2>5, WriteSSEWithin
  <2>7. e = Event("content_block_stop", NoBlock, wr.blockIndex, wr.attempt)  OBVIOUS
  <2>8. c = WriteSSE(wr, "content_block_stop", NoBlock, wr.blockIndex)  OBVIOUS
  <2> HIDE DEF c, e
  <2>9. /\ ~c.writeErr /\ c.started = wr.started /\ SameBlock(c, wr)
        /\ Story(b, wr) \in Seq(SSEEvent) /\ Story(b, c) = Append(Story(b, wr), e)
    BY <2>2, <2>3, <2>7, <2>8, WriteSSEStory
  <2>10. Tells(Story(b, wr), wr.attempt, wr.started, wr.activeType, wr.blockIndex)
    BY DEF Speaks
  <2>11. Tells(Story(b, c), wr.attempt, wr.started, NoBlock, wr.blockIndex)
    BY <1>2, <2>2, <2>3, <2>4, <2>9, <2>10, TellsClose
  <2>12. /\ ~t.writeErr /\ t.started = wr.started /\ t.attempt = wr.attempt
         /\ t.activeType = NoBlock /\ t.blockIndex = wr.blockIndex /\ t.todo = c.todo
    BY <2>1, <2>6, <2>9 DEF Within, WriterState, SameBlock
  <2>13. Story(b, t) = Story(b, c)  BY <2>12 DEF Story
  <2> QED  BY <2>2, <2>11, <2>12, <2>13 DEF Speaks
<1> QED  BY <1>1, <1>2

LEMMA OpenBlockSpeaks ==
  ASSUME NEW hi \in Int, hi + 1 <= MaxIndex, NEW wr, Within(wr, hi), NEW b, Speaks(b, wr),
         wr.started, NEW block \in BlockType, block # NoBlock, NEW t, t = OpenBlock(wr, block)
  PROVE  Speaks(b, t) /\ t.started
<1> DEFINE c == CloseActiveBlock(wr)
           i == c.blockIndex + 1
           r == [c EXCEPT !.blockIndex = i, !.activeType = block]
           e == Event("content_block_start", block, i, c.attempt)
<1>1. /\ Within(c, hi) /\ Speaks(b, c) /\ c.started /\ c.activeType = NoBlock
  <2>1. hi <= MaxIndex  BY MaxIndexIsNat
  <2>2. Within(c, hi)  BY <2>1, CloseActiveBlockWithin
  <2>3. Speaks(b, c) /\ c.started = wr.started /\ c.activeType = NoBlock
    BY <2>1, CloseActiveBlockSpeaks
  <2> QED  BY <2>2, <2>3
<1>2. t = WriteSSE(r, "content_block_start", block, i)  BY DEF OpenBlock
<1> HIDE DEF c
<1>3. /\ i \in 0..MaxIndex /\ i \in Int /\ c.blockIndex \in Int /\ i = c.blockIndex + 1
      /\ c \in WriterState /\ c.attempt \in Attempts
  BY <1>1, MaxIndexIsNat DEF Within, WriterState
<1> HIDE DEF i
<1>4. /\ r \in WriterState /\ r.blockIndex = i /\ r.activeType = block /\ r.attempt = c.attempt
      /\ r.started = c.started /\ r.todo = c.todo /\ r.writeErr = c.writeErr
  BY <1>3 DEF WriterState
<1> HIDE DEF r
<1>5. e \in SSEEvent  BY <1>3, EventsAreEvents
<1>6. e.event = "content_block_start" /\ e.attempt = c.attempt /\ e.index = i  BY EventFields
<1>7. e = Event("content_block_start", block, i, r.attempt)  BY <1>4
<1> HIDE DEF e
<1>8. b \in Seq(SSEEvent) /\ ~r.writeErr
      /\ Tells(Story(b, c), c.attempt, TRUE, NoBlock, c.blockIndex)
  BY <1>1, <1>3, <1>4 DEF Speaks, WriterState
<1>9. /\ ~t.writeErr /\ t.started = r.started /\ SameBlock(t, r)
      /\ Story(b, r) \in Seq(SSEEvent) /\ Story(b, t) = Append(Story(b, r), e)
  BY <1>2, <1>4, <1>5, <1>7, <1>8, WriteSSEStory
<1>10. Story(b, r) = Story(b, c)  BY <1>4 DEF Story
<1>11. Tells(Story(b, t), c.attempt, TRUE, block, i)
  BY <1>3, <1>5, <1>6, <1>8, <1>9, <1>10, TellsOpen
<1>12. t.started = TRUE  BY <1>1, <1>3, <1>4, <1>9 DEF WriterState
<1> QED  BY <1>4, <1>8, <1>9, <1>11, <1>12 DEF Speaks, SameBlock

LEMMA SwitchBlockSpeaks ==
  ASSUME NEW hi \in Int, hi + 1 <= MaxIndex, NEW wr, Within(wr, hi), NEW b, Speaks(b, wr),
         wr.started, NEW block \in BlockType, block # NoBlock, NEW t, t = SwitchBlock(wr, block)
  PROVE  Speaks(b, t) /\ t.started
<1>1. CASE wr.activeType = block  BY <1>1 DEF SwitchBlock
<1>2. CASE wr.activeType # block  BY <1>2, OpenBlockSpeaks DEF SwitchBlock
<1> QED  BY <1>1, <1>2

LEMMA FireVisibleOutputSpeaks ==
  ASSUME NEW hi \in Int, NEW wr, Within(wr, hi), NEW b, Speaks(b, wr),
         NEW t, t = FireVisibleOutput(wr)
  PROVE  Speaks(b, t) /\ t.started = wr.started
<1>1. CASE wr.visibleFired  BY <1>1 DEF FireVisibleOutput
<1>2. CASE ~wr.visibleFired
  <2> DEFINE e == PromoteCall(wr.attempt)
  <2>1. t = [wr EXCEPT !.visibleFired = TRUE, !.todo = Append(@, e)]
    BY <1>2 DEF FireVisibleOutput
  <2>2. wr \in WriterState /\ b \in Seq(SSEEvent)  BY DEF Within, Speaks
  <2>3. e \in Calls /\ e \notin SSEEvent  BY <2>2, PromoteIsNoEvent DEF Calls, WriterState
  <2> HIDE DEF e
  <2>4. /\ t.todo = Append(wr.todo, e) /\ t.started = wr.started /\ SameBlock(t, wr)
        /\ t.writeErr = wr.writeErr
    BY <2>1, <2>2 DEF WriterState, SameBlock
  <2>5. Story(b, t) = Story(b, wr)  BY <2>2, <2>3, <2>4, StoryAppend
  <2> QED  BY <2>4, <2>5 DEF Speaks, SameBlock
<1> QED  BY <1>1, <1>2

LEMMA WriteDeltaSpeaks ==
  ASSUME NEW hi \in Int, hi <= MaxIndex, NEW wr, Within(wr, hi), wr.activeType # NoBlock,
         NEW b, Speaks(b, wr), NEW t, t = WriteDelta(wr)
  PROVE  Speaks(b, t) /\ t.started = wr.started
<1> DEFINE e == Event("content_block_delta", NoBlock, wr.blockIndex, wr.attempt)
<1>1. /\ wr \in WriterState /\ wr.blockIndex \in 0..MaxIndex /\ wr.blockIndex \in Int
      /\ wr.attempt \in Attempts /\ b \in Seq(SSEEvent) /\ ~wr.writeErr /\ wr.started \in BOOLEAN
  BY MaxIndexIsNat DEF Within, WriterState, Speaks
<1>2. e \in SSEEvent  BY <1>1, EventsAreEvents
<1>3. e.event = "content_block_delta" /\ e.attempt = wr.attempt /\ e.index = wr.blockIndex
  BY EventFields
<1>4. t = WriteSSE(wr, "content_block_delta", NoBlock, wr.blockIndex)  BY DEF WriteDelta
<1>5. e = Event("content_block_delta", NoBlock, wr.blockIndex, wr.attempt)  OBVIOUS
<1> HIDE DEF e
<1>6. /\ ~t.writeErr /\ t.started = wr.started /\ SameBlock(t, wr)
      /\ Story(b, wr) \in Seq(SSEEvent) /\ Story(b, t) = Append(Story(b, wr), e)
  BY <1>1, <1>2, <1>4, <1>5, WriteSSEStory
<1>7. Tells(Story(b, wr), wr.attempt, wr.started, wr.activeType, wr.blockIndex)
  BY DEF Speaks
<1>8. Tells(Story(b, t), wr.attempt, wr.started, wr.activeType, wr.blockIndex)
  BY <1>1, <1>2, <1>3, <1>6, <1>7, TellsDelta
<1> QED  BY <1>1, <1>6, <1>8 DEF Speaks, SameBlock

LEMMA SpeaksSame ==
  ASSUME NEW wr, NEW b, Speaks(b, wr), NEW t, SameBlock(t, wr), t.started = wr.started,
         t.todo = wr.todo, t.writeErr = wr.writeErr
  PROVE  Speaks(b, t)
<1>1. Story(b, t) = Story(b, wr)  BY DEF Story
<1> QED  BY <1>1 DEF Speaks, SameBlock

LEMMA RecordedSpeaks ==
  ASSUME NEW hi \in Int, NEW wr, Within(wr, hi), NEW b, Speaks(b, wr), NEW deltas,
         NEW t, t = Recorded(wr, deltas)
  PROVE  Speaks(b, t)
<1>1. wr \in WriterState  BY DEF Within
<1>2. t = [wr EXCEPT !.thinking = @ \/ "thinking" \in deltas,
                     !.text = @ \/ "text" \in deltas]
  BY DEF Recorded
<1>3. SameBlock(t, wr) /\ t.started = wr.started /\ t.todo = wr.todo /\ t.writeErr = wr.writeErr
  BY <1>1, <1>2 DEF WriterState, SameBlock
<1> QED  BY <1>3, SpeaksSame

LEMMA WriteThinkingSpeaks ==
  ASSUME NEW hi \in Int, hi + 1 <= MaxIndex, NEW wr, Within(wr, hi), NEW b, Speaks(b, wr),
         NEW t, t = WriteThinking(wr)
  PROVE  Speaks(b, t) /\ t.started
<1> DEFINE a == EnsureStarted(wr)
           o == SwitchBlock(a, "thinking")
           lo == hi + 1
<1>1. Within(a, hi) /\ Speaks(b, a) /\ a.started
  BY EnsureStartedWithin, EnsureStartedSpeaks
<1> HIDE DEF a
<1>2. "thinking" \in BlockType /\ "thinking" # NoBlock  BY DEF BlockType, NoBlock
<1>3. Within(o, lo) /\ o.activeType = "thinking"  BY <1>1, <1>2, SwitchBlockWithin
<1>4. Speaks(b, o) /\ o.started  BY <1>1, <1>2, SwitchBlockSpeaks
<1>5. t = WriteDelta(o)  BY DEF WriteThinking, a
<1>6. lo \in Int /\ lo <= MaxIndex  OBVIOUS
<1> HIDE DEF o, lo
<1>7. o.activeType # NoBlock  BY <1>2, <1>3
<1> QED  BY <1>3, <1>4, <1>5, <1>6, <1>7, WriteDeltaSpeaks

LEMMA WriteTextSpeaks ==
  ASSUME NEW hi \in Int, hi + 1 <= MaxIndex, NEW wr, Within(wr, hi), NEW b, Speaks(b, wr),
         NEW t, t = WriteText(wr)
  PROVE  Speaks(b, t) /\ t.started
<1> DEFINE a == EnsureStarted(wr)
           f == FireVisibleOutput(a)
           o == SwitchBlock(f, "text")
           lo == hi + 1
<1>1. Within(a, hi) /\ Speaks(b, a) /\ a.started
  BY EnsureStartedWithin, EnsureStartedSpeaks
<1> HIDE DEF a
<1>2. Within(f, hi) /\ Speaks(b, f) /\ f.started
  BY <1>1, FireVisibleOutputWithin, FireVisibleOutputSpeaks
<1> HIDE DEF f
<1>3. "text" \in BlockType /\ "text" # NoBlock  BY DEF BlockType, NoBlock
<1>4. Within(o, lo) /\ o.activeType = "text"  BY <1>2, <1>3, SwitchBlockWithin
<1>5. Speaks(b, o) /\ o.started  BY <1>2, <1>3, SwitchBlockSpeaks
<1>6. t = WriteDelta(o)  BY DEF WriteText, a, f
<1>7. lo \in Int /\ lo <= MaxIndex  OBVIOUS
<1> HIDE DEF o, lo
<1>8. o.activeType # NoBlock  BY <1>3, <1>4
<1> QED  BY <1>4, <1>5, <1>6, <1>7, <1>8, WriteDeltaSpeaks

LEMMA DeltasSpeak ==
  ASSUME NEW hi \in Int, hi + 2 <= MaxIndex, NEW wr, Within(wr, hi), NEW b, Speaks(b, wr),
         NEW deltas,
         NEW u, u = IF "thinking" \in deltas THEN WriteThinking(wr) ELSE wr,
         NEW t, t = IF "text" \in deltas THEN WriteText(u) ELSE u
  PROVE  Speaks(b, t) /\ (wr.started => t.started)
<1> DEFINE lo == hi + 1
<1>0. hi + 1 <= MaxIndex  BY MaxIndexIsNat
<1>1. Within(u, lo) /\ Speaks(b, u) /\ (wr.started => u.started)
  <2>1. CASE "thinking" \in deltas
    <3>1. u = WriteThinking(wr)  BY <2>1
    <3> QED  BY <1>0, <3>1, WriteThinkingWithin, WriteThinkingSpeaks
  <2>2. CASE "thinking" \notin deltas  BY <2>2, WithinHigher
  <2> QED  BY <2>1, <2>2
<1>2. lo \in Int /\ lo + 1 <= MaxIndex  OBVIOUS
<1> HIDE DEF lo
<1>3. CASE "text" \in deltas
  <2>1. t = WriteText(u)  BY <1>3
  <2> QED  BY <1>1, <1>2, <2>1, WriteTextSpeaks
<1>4. CASE "text" \notin deltas  BY <1>1, <1>4
<1> QED  BY <1>3, <1>4

LEMMA ContentSpeaks ==
  ASSUME NEW hi \in Int, hi + 2 <= MaxIndex, NEW wr, Within(wr, hi), NEW b, Speaks(b, wr),
         NEW e \in Input, NEW t, t = Content(wr, e)
  PROVE  Speaks(b, t)
<1> DEFINE q == Recorded(wr, e.deltas)
           r == [q EXCEPT !.localStop = e.stop, !.held = e.held]
           u == IF "thinking" \in e.deltas THEN WriteThinking(r) ELSE r
<1>1. Within(q, hi) /\ Speaks(b, q)  BY RecordedWithin, RecordedSpeaks
<1>2. e.stop \in BOOLEAN /\ e.held \in BOOLEAN  BY DEF Input
<1> HIDE DEF q
<1>3. /\ Within(r, hi) /\ SameBlock(r, q) /\ r.started = q.started /\ r.todo = q.todo
      /\ r.writeErr = q.writeErr
  BY <1>1, <1>2 DEF Within, WriterState, SameBlock
<1>4. t = IF "text" \in e.deltas THEN WriteText(u) ELSE u  BY DEF Content, q
<1> HIDE DEF r
<1>5. Speaks(b, r)  BY <1>1, <1>3, SpeaksSame
<1> QED  BY <1>3, <1>4, <1>5, DeltasSpeak

LEMMA RedactedBlockSpeaks ==
  ASSUME NEW hi \in Int, hi + 1 <= MaxIndex, NEW wr, Within(wr, hi), NEW b, Speaks(b, wr),
         NEW t, t = RedactedBlock(wr)
  PROVE  Speaks(b, t)
<1> DEFINE a == EnsureStarted(wr)
           o == OpenBlock(a, "redacted_thinking")
           lo == hi + 1
<1>1. Within(a, hi) /\ Speaks(b, a) /\ a.started
  BY EnsureStartedWithin, EnsureStartedSpeaks
<1> HIDE DEF a
<1>2. "redacted_thinking" \in BlockType /\ "redacted_thinking" # NoBlock
  BY DEF BlockType, NoBlock
<1>3. Within(o, lo) /\ Speaks(b, o)  BY <1>1, <1>2, OpenBlockWithin, OpenBlockSpeaks
<1>4. t = CloseActiveBlock(o)  BY DEF RedactedBlock, a
<1>5. lo \in Int /\ lo <= MaxIndex  OBVIOUS
<1> HIDE DEF o, lo
<1> QED  BY <1>3, <1>4, <1>5, CloseActiveBlockSpeaks

LEMMA ToolBlockSpeaks ==
  ASSUME NEW hi \in Int, hi + 1 <= MaxIndex, NEW wr, Within(wr, hi), NEW b, Speaks(b, wr),
         NEW e \in Input, NEW t, t = ToolBlock(wr, e)
  PROVE  Speaks(b, t)
<1> DEFINE r == [wr EXCEPT !.tool = TRUE, !.localStop = e.stop]
           a == EnsureStarted(r)
           f == FireVisibleOutput(a)
           o == OpenBlock(f, "tool_use")
           lo == hi + 1
<1>1. e.stop \in BOOLEAN  BY DEF Input
<1>2. /\ Within(r, hi) /\ SameBlock(r, wr) /\ r.started = wr.started /\ r.todo = wr.todo
      /\ r.writeErr = wr.writeErr
  BY <1>1 DEF Within, WriterState, SameBlock
<1> HIDE DEF r
<1>3. Speaks(b, r)  BY <1>2, SpeaksSame
<1>4. Within(a, hi) /\ Speaks(b, a) /\ a.started
  BY <1>2, <1>3, EnsureStartedWithin, EnsureStartedSpeaks
<1> HIDE DEF a
<1>5. Within(f, hi) /\ Speaks(b, f) /\ f.started
  BY <1>4, FireVisibleOutputWithin, FireVisibleOutputSpeaks
<1> HIDE DEF f
<1>6. "tool_use" \in BlockType /\ "tool_use" # NoBlock  BY DEF BlockType, NoBlock
<1>7. Within(o, lo) /\ o.activeType # NoBlock /\ Speaks(b, o)
  BY <1>5, <1>6, OpenBlockWithin, OpenBlockSpeaks
<1>8. t = WriteDelta(o)  BY DEF ToolBlock, r, a, f
<1>9. lo \in Int /\ lo <= MaxIndex  OBVIOUS
<1> HIDE DEF o, lo
<1> QED  BY <1>7, <1>8, <1>9, WriteDeltaSpeaks

LEMMA HandleEventSpeaks ==
  ASSUME NEW hi \in Int, hi + 2 <= MaxIndex, NEW wr, Within(wr, hi), NEW b, Speaks(b, wr),
         NEW e \in Input, NEW t, t = HandleEvent(wr, e)
  PROVE  Speaks(b, t)
<1>1. e.kind \in {"content", "redacted", "tool"}  BY DEF Input
<1>2. CASE e.kind = "content"
  <2>1. t = Content(wr, e)  BY <1>2, KindsHandled
  <2> QED  BY <2>1, ContentSpeaks
<1>3. hi + 1 <= MaxIndex  BY MaxIndexIsNat
<1>4. CASE e.kind = "redacted"
  <2>1. t = RedactedBlock(wr)  BY <1>4, KindsHandled
  <2> QED  BY <1>3, <2>1, RedactedBlockSpeaks
<1>5. CASE e.kind = "tool"
  <2>1. t = ToolBlock(wr, e)  BY <1>5, KindsHandled
  <2> QED  BY <1>3, <2>1, ToolBlockSpeaks
<1> QED  BY <1>1, <1>2, <1>4, <1>5

----------------------------------------------------------------------------
(* A message that may have ended.                                          *)

Told(b, wr) ==
  /\ b \in Seq(SSEEvent)
  /\ Story(b, wr) \in Seq(SSEEvent)
  /\ WellFormedSoFar(Story(b, wr))

(* ... and it is the whole message.                                        *)
Ends(b, wr) == \E i \in 1..Len(Story(b, wr)) : Story(b, wr)[i].event = "message_stop"

LEMMA SpeaksTold ==
  ASSUME NEW wr, NEW b, Speaks(b, wr) PROVE Told(b, wr)
BY DEF Speaks, Told, Tells, Running

LEMMA EndMessageTells ==
  ASSUME NEW hi \in Int, hi <= MaxIndex, NEW wr, Within(wr, hi), NEW b, Speaks(b, wr),
         wr.started, NEW t, t = EndMessage(wr)
  PROVE  Told(b, t) /\ Ends(b, t)
<1> DEFINE c == CloseActiveBlock(wr)
           k == -1
           x == WriteSSE(c, "message_delta", NoBlock, k)
           d == Event("message_delta", NoBlock, k, c.attempt)
           z == Event("message_stop", NoBlock, k, c.attempt)
<1>1. Within(c, hi) /\ Speaks(b, c) /\ c.started = wr.started /\ c.activeType = NoBlock
  BY CloseActiveBlockWithin, CloseActiveBlockSpeaks
<1>2. t = WriteSSE(x, "message_stop", NoBlock, k)  BY DEF EndMessage
<1>3. x = WriteSSE(c, "message_delta", NoBlock, k)  OBVIOUS
<1> HIDE DEF c, x
<1>4. c \in WriterState /\ c.attempt \in Attempts /\ c.blockIndex \in Int
  BY <1>1 DEF Within, WriterState
<1>5. d \in SSEEvent /\ z \in SSEEvent  BY <1>4, EventsAreEvents
<1> HIDE DEF k
<1>6. /\ d.event = "message_delta" /\ d.attempt = c.attempt
      /\ z.event = "message_stop" /\ z.attempt = c.attempt
  BY EventFields
<1>7. d \in Calls /\ d = Event("message_delta", NoBlock, k, c.attempt)  BY <1>5 DEF Calls
<1>8. Within(x, hi) /\ SameBlock(x, c)  BY <1>1, <1>3, <1>7, WriteSSEWithin
<1>9. z = Event("message_stop", NoBlock, k, x.attempt)  BY <1>8 DEF SameBlock
<1> HIDE DEF d, z
<1>10. b \in Seq(SSEEvent) /\ ~c.writeErr  BY <1>1 DEF Speaks
<1>11. /\ ~x.writeErr /\ Story(b, c) \in Seq(SSEEvent)
       /\ Story(b, x) = Append(Story(b, c), d)
  BY <1>3, <1>4, <1>5, <1>7, <1>10, WriteSSEStory
<1>12. x \in WriterState  BY <1>8 DEF Within
<1>13. Story(b, t) = Append(Story(b, x), z)
  <2> HIDE DEF k
  <2>1. b \in Seq(SSEEvent) /\ x \in WriterState /\ ~x.writeErr /\ z \in SSEEvent
    BY <1>5, <1>10, <1>11, <1>12
  <2> QED  BY <1>2, <1>9, <2>1, WriteSSEStory
<1>14. /\ Running(Story(b, c), c.attempt) /\ Story(b, c) # <<>>
       /\ Opens(Story(b, c)) <= Closes(Story(b, c))
  BY <1>1, <1>4 DEF Speaks, Tells
<1>15. Story(b, t) \in Seq(SSEEvent) /\ WellFormedSoFar(Story(b, t))
  BY <1>5, <1>6, <1>11, <1>13, <1>14, EndWellFormed
<1>16. Ends(b, t)
  <2> DEFINE q == Story(b, x)
  <2>1. q \in Seq(SSEEvent)  BY <1>5, <1>11
  <2>2. Story(b, t) = Append(q, z)  BY <1>13
  <2> HIDE DEF q
  <2>3. Len(q) + 1 \in 1..Len(Story(b, t)) /\ Story(b, t)[Len(q) + 1] = z  BY <2>1, <2>2
  <2> QED  BY <1>6, <2>3 DEF Ends
<1> QED  BY <1>10, <1>15, <1>16 DEF Told

LEMMA FinalizedSpeaks ==
  ASSUME NEW hi \in Int, NEW wr, Within(wr, hi), NEW b, Speaks(b, wr),
         NEW f, f.stop \in BOOLEAN, NEW t, t = Finalized(wr, f)
  PROVE  Speaks(b, t) /\ t.started = wr.started
<1> DEFINE r == Recorded(wr, f.deltas)
           x == (r.localStop \/ f.stop)
<1>1. Within(r, hi) /\ Speaks(b, r)  BY RecordedWithin, RecordedSpeaks
<1>2. r.started = wr.started
  <2>1. wr \in WriterState  BY DEF Within
  <2> QED  BY <2>1 DEF Recorded, WriterState
<1>3. t = [r EXCEPT !.localStop = x, !.held = FALSE]  BY DEF Finalized
<1>4. x \in BOOLEAN  OBVIOUS
<1> HIDE DEF r, x
<1>5. /\ SameBlock(t, r) /\ t.started = r.started /\ t.todo = r.todo
      /\ t.writeErr = r.writeErr
  BY <1>1, <1>3, <1>4 DEF Within, WriterState, SameBlock
<1> QED  BY <1>1, <1>2, <1>5, SpeaksSame

LEMMA FinishTells ==
  ASSUME NEW hi \in Int, hi + 2 <= MaxIndex, NEW wr, Within(wr, hi), NEW b, Speaks(b, wr),
         NEW g, NEW f \in Finals(g), NEW t, t = Finish(wr, f)
  PROVE  Told(b, t) /\ Ends(b, t)
<1> DEFINE a == EnsureStarted(wr)
           r == Finalized(a, f)
           u == IF "thinking" \in f.deltas THEN WriteThinking(r) ELSE r
           d == IF "text" \in f.deltas THEN WriteText(u) ELSE u
           lo == hi + 2
<1>1. f.stop \in BOOLEAN  BY DEF Finals
<1>2. Within(a, hi) /\ Speaks(b, a) /\ a.started
  BY EnsureStartedWithin, EnsureStartedSpeaks
<1> HIDE DEF a
<1>3. Within(r, hi) /\ Speaks(b, r) /\ r.started
  BY <1>1, <1>2, FinalizedWithin, FinalizedSpeaks
<1> HIDE DEF r
<1>4. Within(d, lo) /\ Speaks(b, d) /\ d.started
  BY <1>3, DeltasWithin, DeltasSpeak
<1>5. t = EndMessage(d)  BY DEF Finish, a, r
<1>6. lo \in Int /\ lo <= MaxIndex  OBVIOUS
<1> HIDE DEF d, lo
<1> QED  BY <1>4, <1>5, <1>6, EndMessageTells

LEMMA HandledTells ==
  ASSUME NEW hi \in Int, hi + 4 <= MaxIndex, NEW wr, Within(wr, hi), NEW b, Speaks(b, wr),
         NEW e \in Input, NEW t \in Handled(wr, e)
  PROVE  Told(b, t) /\ (IF e.stop THEN Ends(b, t) ELSE Speaks(b, t))
<1> DEFINE h == HandleEvent(wr, e)
           lo == hi + 2
<1>1. hi + 2 <= MaxIndex  BY MaxIndexIsNat
<1>2. Within(h, lo) /\ Speaks(b, h)  BY <1>1, HandleEventWithin, HandleEventSpeaks
<1>3. lo \in Int /\ lo + 2 <= MaxIndex  BY MaxIndexIsNat
<1>4. CASE e.stop
  <2>1. PICK f \in Finals(h) : t = Finish(h, f)  BY <1>4 DEF Handled
  <2> HIDE DEF h, lo
  <2> QED  BY <1>2, <1>3, <1>4, <2>1, FinishTells
<1>5. CASE ~e.stop
  <2>1. t = h  BY <1>5 DEF Handled
  <2> HIDE DEF h, lo
  <2>2. Told(b, t) /\ Speaks(b, t)  BY <1>2, <2>1, SpeaksTold
  <2> QED  BY <1>5, <2>2
<1>6. e.stop \in BOOLEAN  BY DEF Input
<1> QED  BY <1>4, <1>5, <1>6

LEMMA WriteBlockSpeaks ==
  ASSUME NEW hi \in Int, hi + 1 <= MaxIndex, NEW wr, Within(wr, hi), NEW b, Speaks(b, wr),
         wr.started, NEW block \in BlockType, block # NoBlock, NEW delta \in BOOLEAN,
         NEW t, t = WriteBlock(wr, block, delta)
  PROVE  Speaks(b, t) /\ t.started
<1> DEFINE o == OpenBlock(wr, block)
           d == IF delta THEN WriteDelta(o) ELSE o
           lo == hi + 1
<1>1. Within(o, lo) /\ o.activeType # NoBlock /\ Speaks(b, o) /\ o.started
  BY OpenBlockWithin, OpenBlockSpeaks
<1>2. t = CloseActiveBlock(d)  BY DEF WriteBlock
<1>3. lo \in Int /\ lo <= MaxIndex  OBVIOUS
<1> HIDE DEF o, lo
<1>4. Within(d, lo) /\ Speaks(b, d) /\ d.started
  <2>1. CASE delta
    <3>1. d = WriteDelta(o)  BY <2>1
    <3> QED  BY <1>1, <1>3, <3>1, WriteDeltaWithin, WriteDeltaSpeaks
  <2>2. CASE ~delta  BY <1>1, <2>2
  <2> QED  BY <2>1, <2>2
<1> HIDE DEF d
<1> QED  BY <1>2, <1>3, <1>4, CloseActiveBlockSpeaks

LEMMA WebSearchTells ==
  ASSUME MaxIndex >= 2, NEW wr, Within(wr, -1), NEW b, Speaks(b, wr),
         NEW t, t = FinishWebSearch(WriteText(WriteWebSearchResult(WriteServerToolUse(wr))))
  PROVE  Told(b, t) /\ Ends(b, t)
<1> DEFINE m == -1
           a == EnsureStarted(wr)
           f == FireVisibleOutput(a)
           u == WriteServerToolUse(wr)
           r == WriteWebSearchResult(u)
           x == WriteText(r)
           y == EnsureStarted(x)
<1>1. m \in Int /\ Within(wr, m) /\ m + 1 <= MaxIndex /\ m + 1 = 0  BY MaxIndexIsNat
<1> HIDE DEF m
<1>2. Within(a, m) /\ Speaks(b, a) /\ a.started
  BY <1>1, EnsureStartedWithin, EnsureStartedSpeaks
<1> HIDE DEF a
<1>3. Within(f, m) /\ Speaks(b, f) /\ f.started
  BY <1>1, <1>2, FireVisibleOutputWithin, FireVisibleOutputSpeaks
<1> HIDE DEF f
<1>4. /\ "server_tool_use" \in BlockType /\ "server_tool_use" # NoBlock
      /\ "web_search_tool_result" \in BlockType /\ "web_search_tool_result" # NoBlock
  BY DEF BlockType, NoBlock
<1>5. Within(u, m + 1) /\ Speaks(b, u) /\ u.started
  <2>1. u = WriteBlock(f, "server_tool_use", TRUE)  BY DEF WriteServerToolUse, f, a
  <2> HIDE DEF u
  <2> QED
    BY <1>1, <1>3, <1>4, <2>1, TRUE \in BOOLEAN, WriteBlockWithin, WriteBlockSpeaks
<1> HIDE DEF u
<1>6. Within(r, 1) /\ Speaks(b, r) /\ r.started
  <2> DEFINE lo == 0
             no == FALSE
  <2>1. r = WriteBlock(u, "web_search_tool_result", no)  BY DEF WriteWebSearchResult
  <2>2. no \in BOOLEAN /\ lo \in Int /\ lo + 1 <= MaxIndex /\ lo + 1 = 1 /\ Within(u, lo)
    BY <1>1, <1>5, MaxIndexIsNat
  <2> HIDE DEF r, lo, no
  <2>3. Within(r, lo + 1)  BY <1>4, <2>1, <2>2, WriteBlockWithin
  <2>4. Speaks(b, r) /\ r.started  BY <1>4, <1>5, <2>1, <2>2, WriteBlockSpeaks
  <2> QED  BY <2>2, <2>3, <2>4
<1> HIDE DEF r
<1>7. Within(x, 2) /\ Speaks(b, x)
  <2> DEFINE lo == 1
  <2>1. x = WriteText(r)  OBVIOUS
  <2>2. lo \in Int /\ lo + 1 <= MaxIndex /\ lo + 1 = 2 /\ Within(r, lo)  BY <1>6
  <2> HIDE DEF x, lo
  <2>3. Within(x, lo + 1)  BY <2>1, <2>2, WriteTextWithin
  <2>4. Speaks(b, x)  BY <1>6, <2>1, <2>2, WriteTextSpeaks
  <2> QED  BY <2>2, <2>3, <2>4
<1> HIDE DEF x
<1> DEFINE hi == 2
<1>8. hi \in Int /\ hi <= MaxIndex /\ Within(x, hi)  BY <1>7
<1> HIDE DEF hi
<1>9. Within(y, hi) /\ Speaks(b, y) /\ y.started
  BY <1>7, <1>8, EnsureStartedWithin, EnsureStartedSpeaks
<1>10. t = EndMessage(y)  BY DEF FinishWebSearch, x, r, u
<1> HIDE DEF y
<1> QED  BY <1>8, <1>9, <1>10, EndMessageTells

LEMMA NewWriterSpeaks ==
  ASSUME NEW a \in Attempts, NEW t, t = NewSSEWriter(a)
  PROVE  Speaks(<<>>, t)
<1>1. /\ t.todo = <<>> /\ ~t.writeErr /\ t.attempt = a /\ t.started = FALSE
      /\ t.activeType = NoBlock /\ t.blockIndex = -1
  BY DEF NewSSEWriter
<1>2. Filter(t.todo, SSEEvent) = <<>>  BY <1>1, FilterEmpty
<1>3. <<>> \o <<>> = <<>>  OBVIOUS
<1>4. Story(<<>>, t) = <<>>  BY <1>2, <1>3 DEF Story
<1>5. Tells(<<>>, a, FALSE, NoBlock, -1)  BY TellsNothing
<1>6. <<>> \in Seq(SSEEvent)  OBVIOUS
<1> QED  BY <1>1, <1>4, <1>5, <1>6 DEF Speaks
----------------------------------------------------------------------------
(* Visible output: the writer that has text or a tool call has called      *)
(* OnVisibleOutput, or is about to.                                        *)

Names == {"message_start", "content_block_start", "content_block_delta",
          "content_block_stop", "message_delta", "message_stop", "promote"}

AnyCall == [event : Names, block : BlockType \cup {NoBlock}, index : Int, attempt : Attempts]

(* A writer, whatever the number of its blocks.                            *)
Writer ==
  [ attempt : Attempts, started : BOOLEAN, activeType : BlockType \cup {NoBlock},
    blockIndex : Int, visibleFired : BOOLEAN, writeErr : BOOLEAN,
    thinking : BOOLEAN, text : BOOLEAN, tool : BOOLEAN, localStop : BOOLEAN,
    held : BOOLEAN, todo : Seq(AnyCall) ]

Promises(q) == \E i \in 1..Len(q) : q[i].event = "promote"

Shown(wr) == wr.text \/ wr.tool => wr.visibleFired

(* t comes after wr, with no call made yet: OnVisibleOutput is called once, *)
(* and is not forgotten.                                                   *)
Fires(t, wr) ==
  /\ t \in Writer
  /\ wr.visibleFired => t.visibleFired
  /\ t.visibleFired => wr.visibleFired \/ Promises(t.todo)
  /\ Promises(wr.todo) => Promises(t.todo)
  /\ t.writeErr = wr.writeErr

(* ... and the accumulator's buffers are as they were.                     *)
Onward(t, wr) == Fires(t, wr) /\ t.text = wr.text /\ t.tool = wr.tool

LEMMA CallsAreCalls == \A c \in Calls : c \in AnyCall
BY DEF Calls, SSEEvent, PromoteCall, Event, AnyCall, Names, BlockType, NoBlock

LEMMA WriterStateIsWriter ==
  ASSUME NEW wr \in WriterState PROVE wr \in Writer
<1>1. wr.todo \in Seq(AnyCall)
  <2>1. wr.todo \in Seq(Calls)  BY DEF WriterState
  <2> QED  BY <2>1, CallsAreCalls
<1> QED  BY <1>1 DEF WriterState, Writer

LEMMA AppendPromises ==
  ASSUME NEW q \in Seq(AnyCall), NEW e \in AnyCall, NEW r, r = Append(q, e)
  PROVE  /\ r \in Seq(AnyCall)
         /\ Promises(q) => Promises(r)
         /\ e.event = "promote" => Promises(r)
<1>1. r \in Seq(AnyCall) /\ Len(r) = Len(q) + 1 /\ r[Len(q) + 1] = e  OBVIOUS
<1>2. \A i \in 1..Len(q) : r[i] = q[i]  OBVIOUS
<1>3. Len(q) \in Nat  OBVIOUS
<1>4. Len(q) + 1 \in 1..Len(r) /\ \A i \in 1..Len(q) : i \in 1..Len(r)  BY <1>1, <1>3
<1> QED  BY <1>1, <1>2, <1>4 DEF Promises

LEMMA FiresSelf == ASSUME NEW wr \in Writer PROVE Onward(wr, wr)
BY DEF Onward, Fires

LEMMA FiresOn ==
  ASSUME NEW r, NEW t, NEW wr, Fires(r, t), Fires(t, wr)
  PROVE  Fires(r, wr)
BY DEF Fires

LEMMA OnwardOn ==
  ASSUME NEW r, NEW t, NEW wr, Onward(r, t), Onward(t, wr)
  PROVE  Onward(r, wr)
BY FiresOn DEF Onward

LEMMA AppendOnward ==
  ASSUME NEW wr \in Writer, NEW e \in AnyCall, NEW t, t = [wr EXCEPT !.todo = Append(@, e)]
  PROVE  /\ Onward(t, wr) /\ SameBlock(t, wr)
         /\ e.event = "promote" => Promises(t.todo)
<1> DEFINE r == Append(wr.todo, e)
<1>1. /\ r \in Seq(AnyCall) /\ (Promises(wr.todo) => Promises(r))
      /\ (e.event = "promote" => Promises(r))
  BY AppendPromises DEF Writer
<1>2. t = [wr EXCEPT !.todo = r]  OBVIOUS
<1> HIDE DEF r
<1> QED  BY <1>1, <1>2 DEF Writer, Onward, Fires, SameBlock

LEMMA WriteSSEOnward ==
  ASSUME NEW wr \in Writer, NEW n \in Names, NEW type \in BlockType \cup {NoBlock}, NEW i \in Int,
         NEW t, t = WriteSSE(wr, n, type, i)
  PROVE  Onward(t, wr) /\ SameBlock(t, wr)
<1> DEFINE e == Event(n, type, i, wr.attempt)
<1>1. e \in AnyCall  BY DEF Event, AnyCall, Writer
<1>2. t = IF wr.writeErr THEN wr ELSE [wr EXCEPT !.todo = Append(@, e)]  BY DEF WriteSSE
<1> HIDE DEF e
<1>3. CASE wr.writeErr  BY <1>2, <1>3, FiresSelf DEF SameBlock
<1>4. CASE ~wr.writeErr  BY <1>1, <1>2, <1>4, AppendOnward
<1> QED  BY <1>3, <1>4

LEMMA EnsureStartedOnward ==
  ASSUME NEW wr \in Writer, NEW t, t = EnsureStarted(wr)
  PROVE  Onward(t, wr)
<1> DEFINE d == [wr EXCEPT !.started = TRUE]
           k == -1
<1>1. d \in Writer /\ Onward(d, wr)  BY DEF Writer, Onward, Fires
<1>2. k \in Int /\ "message_start" \in Names /\ NoBlock \in BlockType \cup {NoBlock}
  BY DEF Names
<1>3. t = IF wr.started THEN wr ELSE WriteSSE(d, "message_start", NoBlock, k)
  BY DEF EnsureStarted
<1> HIDE DEF d, k
<1>4. CASE wr.started  BY <1>3, <1>4, FiresSelf
<1>5. CASE ~wr.started
  <2>1. Onward(t, d)  BY <1>1, <1>2, <1>3, <1>5, WriteSSEOnward
  <2> QED  BY <1>1, <2>1, OnwardOn
<1> QED  BY <1>4, <1>5

LEMMA CloseActiveBlockOnward ==
  ASSUME NEW wr \in Writer, NEW t, t = CloseActiveBlock(wr)
  PROVE  Onward(t, wr)
<1> DEFINE i == wr.blockIndex
           x == WriteSSE(wr, "content_block_stop", NoBlock, i)
<1>1. i \in Int /\ "content_block_stop" \in Names /\ NoBlock \in BlockType \cup {NoBlock}
  BY DEF Names, Writer
<1>2. t = IF wr.activeType = NoBlock THEN wr ELSE [x EXCEPT !.activeType = NoBlock]
  BY DEF CloseActiveBlock
<1>3. Onward(x, wr)
  <2> HIDE DEF i
  <2> QED  BY <1>1, WriteSSEOnward
<1> HIDE DEF x, i
<1>4. CASE wr.activeType = NoBlock  BY <1>2, <1>4, FiresSelf
<1>5. CASE wr.activeType # NoBlock
  <2>1. t = [x EXCEPT !.activeType = NoBlock] /\ x \in Writer
    BY <1>2, <1>3, <1>5 DEF Onward, Fires
  <2>2. Onward(t, x)  BY <2>1 DEF Writer, Onward, Fires
  <2> QED  BY <1>3, <2>2, OnwardOn
<1> QED  BY <1>4, <1>5

LEMMA OpenBlockOnward ==
  ASSUME NEW wr \in Writer, NEW block \in BlockType, NEW t, t = OpenBlock(wr, block)
  PROVE  Onward(t, wr)
<1> DEFINE c == CloseActiveBlock(wr)
           i == c.blockIndex + 1
           d == [c EXCEPT !.blockIndex = i, !.activeType = block]
<1>1. Onward(c, wr) /\ c \in Writer  BY CloseActiveBlockOnward DEF Onward, Fires
<1>2. t = WriteSSE(d, "content_block_start", block, i)  BY DEF OpenBlock
<1> HIDE DEF c
<1>3. i \in Int /\ "content_block_start" \in Names /\ block \in BlockType \cup {NoBlock}
  BY <1>1 DEF Names, Writer
<1> HIDE DEF i
<1>4. d \in Writer /\ Onward(d, c)  BY <1>1, <1>3 DEF Writer, Onward, Fires
<1> HIDE DEF d
<1>5. Onward(t, d)  BY <1>2, <1>3, <1>4, WriteSSEOnward
<1>6. Onward(t, c)  BY <1>4, <1>5, OnwardOn
<1> QED  BY <1>1, <1>6, OnwardOn

LEMMA SwitchBlockOnward ==
  ASSUME NEW wr \in Writer, NEW block \in BlockType, NEW t, t = SwitchBlock(wr, block)
  PROVE  Onward(t, wr)
<1>1. CASE wr.activeType = block  BY <1>1, FiresSelf DEF SwitchBlock
<1>2. CASE wr.activeType # block  BY <1>2, OpenBlockOnward DEF SwitchBlock
<1> QED  BY <1>1, <1>2

LEMMA WriteDeltaOnward ==
  ASSUME NEW wr \in Writer, NEW t, t = WriteDelta(wr)
  PROVE  Onward(t, wr)
<1> DEFINE i == wr.blockIndex
<1>1. i \in Int /\ "content_block_delta" \in Names /\ NoBlock \in BlockType \cup {NoBlock}
  BY DEF Names, Writer
<1>2. t = WriteSSE(wr, "content_block_delta", NoBlock, i)  BY DEF WriteDelta
<1> HIDE DEF i
<1> QED  BY <1>1, <1>2, WriteSSEOnward

LEMMA FireVisibleOutputOnward ==
  ASSUME NEW wr \in Writer, NEW t, t = FireVisibleOutput(wr)
  PROVE  Onward(t, wr) /\ t.visibleFired
<1> DEFINE e == PromoteCall(wr.attempt)
           x == [wr EXCEPT !.todo = Append(@, e)]
<1>1. e \in AnyCall /\ e.event = "promote"
  BY DEF PromoteCall, Event, AnyCall, Names, Writer
<1>2. /\ t = IF wr.visibleFired THEN wr ELSE [x EXCEPT !.visibleFired = TRUE]
  BY DEF FireVisibleOutput, Writer
<1> HIDE DEF e
<1>3. Onward(x, wr) /\ Promises(x.todo)  BY <1>1, AppendOnward
<1> HIDE DEF x
<1>4. CASE wr.visibleFired  BY <1>2, <1>4, FiresSelf
<1>5. CASE ~wr.visibleFired
  BY <1>2, <1>3, <1>5 DEF Writer, Onward, Fires
<1> QED  BY <1>4, <1>5

LEMMA WriteThinkingOnward ==
  ASSUME NEW wr \in Writer, NEW t, t = WriteThinking(wr)
  PROVE  Onward(t, wr)
<1> DEFINE a == EnsureStarted(wr)
           b == SwitchBlock(a, "thinking")
<1>1. Onward(a, wr) /\ a \in Writer  BY EnsureStartedOnward DEF Onward, Fires
<1>2. t = WriteDelta(b) /\ "thinking" \in BlockType  BY DEF WriteThinking, BlockType
<1> HIDE DEF a
<1>3. Onward(b, a) /\ b \in Writer  BY <1>1, <1>2, SwitchBlockOnward DEF Onward, Fires
<1> HIDE DEF b
<1>4. Onward(t, b)  BY <1>2, <1>3, WriteDeltaOnward
<1> QED  BY <1>1, <1>3, <1>4, OnwardOn

LEMMA WriteTextOnward ==
  ASSUME NEW wr \in Writer, NEW t, t = WriteText(wr)
  PROVE  Onward(t, wr) /\ t.visibleFired
<1> DEFINE a == EnsureStarted(wr)
           f == FireVisibleOutput(a)
           b == SwitchBlock(f, "text")
<1>1. Onward(a, wr) /\ a \in Writer  BY EnsureStartedOnward DEF Onward, Fires
<1>2. t = WriteDelta(b) /\ "text" \in BlockType  BY DEF WriteText, BlockType
<1> HIDE DEF a
<1>3. Onward(f, a) /\ f \in Writer /\ f.visibleFired
  BY <1>1, FireVisibleOutputOnward DEF Onward, Fires
<1> HIDE DEF f
<1>4. Onward(b, f) /\ b \in Writer  BY <1>2, <1>3, SwitchBlockOnward DEF Onward, Fires
<1> HIDE DEF b
<1>5. Onward(t, b)  BY <1>2, <1>4, WriteDeltaOnward
<1>6. Onward(t, f)  BY <1>4, <1>5, OnwardOn
<1>7. Onward(t, wr)  BY <1>1, <1>3, <1>6, OnwardOn
<1> QED  BY <1>3, <1>6, <1>7 DEF Onward, Fires

LEMMA EndMessageOnward ==
  ASSUME NEW wr \in Writer, NEW t, t = EndMessage(wr)
  PROVE  Onward(t, wr)
<1> DEFINE c == CloseActiveBlock(wr)
           k == -1
           x == WriteSSE(c, "message_delta", NoBlock, k)
<1>1. Onward(c, wr) /\ c \in Writer  BY CloseActiveBlockOnward DEF Onward, Fires
<1>2. t = WriteSSE(x, "message_stop", NoBlock, k)  BY DEF EndMessage
<1>3. /\ k \in Int /\ NoBlock \in BlockType \cup {NoBlock}
      /\ "message_delta" \in Names /\ "message_stop" \in Names
  BY DEF Names
<1> HIDE DEF c, k
<1>4. Onward(x, c)  BY <1>1, <1>3, WriteSSEOnward
<1> HIDE DEF x
<1>5. x \in Writer  BY <1>4 DEF Onward, Fires
<1>6. Onward(t, x)  BY <1>2, <1>3, <1>5, WriteSSEOnward
<1> QED  BY <1>1, <1>4, <1>6, OnwardOn

LEMMA WriteBlockOnward ==
  ASSUME NEW wr \in Writer, NEW block \in BlockType, NEW delta \in BOOLEAN,
         NEW t, t = WriteBlock(wr, block, delta)
  PROVE  Onward(t, wr)
<1> DEFINE o == OpenBlock(wr, block)
           d == IF delta THEN WriteDelta(o) ELSE o
<1>1. Onward(o, wr) /\ o \in Writer  BY OpenBlockOnward DEF Onward, Fires
<1>2. t = CloseActiveBlock(d)  BY DEF WriteBlock
<1> HIDE DEF o
<1>3. Onward(d, o) /\ d \in Writer
  BY <1>1, WriteDeltaOnward, FiresSelf DEF Onward, Fires
<1> HIDE DEF d
<1>4. Onward(t, d)  BY <1>2, <1>3, CloseActiveBlockOnward
<1> QED  BY <1>1, <1>3, <1>4, OnwardOn

(* A handler of the accumulator's output leaves a writer that has shown    *)
(* what it has.                                                            *)
Shows(t, wr) == Fires(t, wr) /\ Shown(t)

LEMMA DeltasShow ==
  ASSUME NEW wr \in Writer, Shown(wr), NEW deltas \in SUBSET {"thinking", "text"},
         NEW r \in Writer, Fires(r, wr), r.text = (wr.text \/ "text" \in deltas), r.tool = wr.tool,
         r.visibleFired = wr.visibleFired,
         NEW x, x = IF "thinking" \in deltas THEN WriteThinking(r) ELSE r,
         NEW t, t = IF "text" \in deltas THEN WriteText(x) ELSE x
  PROVE  Shows(t, wr)
<1>1. Onward(x, r) /\ x \in Writer
  BY WriteThinkingOnward, FiresSelf DEF Onward, Fires
<1>2. Onward(t, x) /\ ("text" \in deltas => t.visibleFired)
  BY <1>1, WriteTextOnward, FiresSelf
<1>3. Onward(t, r)  BY <1>1, <1>2, OnwardOn
<1>4. Fires(t, wr)  BY <1>3, FiresOn DEF Onward
<1>5. t.text = r.text /\ t.tool = r.tool /\ (r.visibleFired => t.visibleFired)
  BY <1>3 DEF Onward, Fires
<1> QED  BY <1>2, <1>4, <1>5 DEF Shows, Shown

LEMMA ContentShows ==
  ASSUME NEW wr \in Writer, Shown(wr), NEW e \in Input, e.kind = "content",
         NEW t, t = Content(wr, e)
  PROVE  Shows(t, wr)
<1> DEFINE r == [Recorded(wr, e.deltas) EXCEPT !.localStop = e.stop, !.held = e.held]
           x == IF "thinking" \in e.deltas THEN WriteThinking(r) ELSE r
           d == e.deltas
<1>1. /\ d \in SUBSET {"thinking", "text"} /\ e.stop \in BOOLEAN /\ e.held \in BOOLEAN
  BY DEF Input
<1>2. r \in Writer
  <2> DEFINE a == (wr.thinking \/ "thinking" \in d)
             b == (wr.text \/ "text" \in d)
  <2>1. a \in BOOLEAN /\ b \in BOOLEAN  OBVIOUS
  <2>2. Recorded(wr, d) = [wr EXCEPT !.thinking = a, !.text = b]  BY DEF Recorded
  <2> HIDE DEF a, b, d
  <2>3. Recorded(wr, d) \in Writer  BY <2>1, <2>2 DEF Writer
  <2> QED  BY <1>1, <2>3 DEF Writer, d
<1>3. /\ r.text = (wr.text \/ "text" \in d) /\ r.tool = wr.tool
      /\ r.visibleFired = wr.visibleFired /\ r.todo = wr.todo
      /\ r.writeErr = wr.writeErr
  BY DEF Recorded, Writer
<1>4. t = IF "text" \in d THEN WriteText(x) ELSE x  BY DEF Content
<1>5. x = IF "thinking" \in d THEN WriteThinking(r) ELSE r  OBVIOUS
<1> HIDE DEF x, r, d
<1>6. Fires(r, wr)  BY <1>2, <1>3 DEF Fires
<1> QED  BY <1>1, <1>2, <1>3, <1>4, <1>5, <1>6, DeltasShow

LEMMA ToolBlockShows ==
  ASSUME NEW wr \in Writer, NEW e, e.stop \in BOOLEAN, NEW t, t = ToolBlock(wr, e)
  PROVE  Shows(t, wr)
<1> DEFINE r == [wr EXCEPT !.tool = TRUE, !.localStop = e.stop]
           a == EnsureStarted(r)
           f == FireVisibleOutput(a)
           o == OpenBlock(f, "tool_use")
<1>1. r \in Writer /\ Fires(r, wr)  BY DEF Writer, Fires
<1>2. t = WriteDelta(o) /\ "tool_use" \in BlockType  BY DEF ToolBlock, BlockType
<1> HIDE DEF r
<1>3. Onward(a, r) /\ a \in Writer  BY <1>1, EnsureStartedOnward DEF Onward, Fires
<1> HIDE DEF a
<1>4. Onward(f, a) /\ f \in Writer /\ f.visibleFired
  BY <1>3, FireVisibleOutputOnward DEF Onward, Fires
<1> HIDE DEF f
<1>5. Onward(o, f) /\ o \in Writer  BY <1>2, <1>4, OpenBlockOnward DEF Onward, Fires
<1> HIDE DEF o
<1>6. Onward(t, o)  BY <1>2, <1>5, WriteDeltaOnward
<1>7. Onward(t, f)  BY <1>5, <1>6, OnwardOn
<1>8. Onward(t, r)  BY <1>3, <1>4, <1>7, OnwardOn
<1>9. Fires(t, wr)  BY <1>1, <1>8, FiresOn DEF Onward
<1> QED  BY <1>4, <1>7, <1>9 DEF Onward, Fires, Shows, Shown

LEMMA RedactedBlockShows ==
  ASSUME NEW wr \in Writer, Shown(wr), NEW t, t = RedactedBlock(wr)
  PROVE  Shows(t, wr)
<1> DEFINE a == EnsureStarted(wr)
           o == OpenBlock(a, "redacted_thinking")
<1>1. Onward(a, wr) /\ a \in Writer  BY EnsureStartedOnward DEF Onward, Fires
<1>2. t = CloseActiveBlock(o) /\ "redacted_thinking" \in BlockType
  BY DEF RedactedBlock, BlockType
<1> HIDE DEF a
<1>3. Onward(o, a) /\ o \in Writer  BY <1>1, <1>2, OpenBlockOnward DEF Onward, Fires
<1> HIDE DEF o
<1>4. Onward(t, o)  BY <1>2, <1>3, CloseActiveBlockOnward
<1>5. Onward(t, wr)  BY <1>1, <1>3, <1>4, OnwardOn
<1> QED  BY <1>5 DEF Onward, Fires, Shows, Shown

LEMMA HandleEventShows ==
  ASSUME NEW wr \in Writer, Shown(wr), NEW e \in Input, NEW t, t = HandleEvent(wr, e)
  PROVE  Shows(t, wr)
<1>1. CASE e.kind = "content"
  <2>1. t = Content(wr, e)  BY <1>1 DEF HandleEvent
  <2> QED  BY <1>1, <2>1, ContentShows
<1>2. CASE e.kind = "redacted"
  <2>1. t = RedactedBlock(wr)  BY <1>2 DEF HandleEvent
  <2> QED  BY <2>1, RedactedBlockShows
<1>3. CASE e.kind = "tool"
  <2>1. t = ToolBlock(wr, e)  BY <1>3 DEF HandleEvent
  <2>2. e.stop \in BOOLEAN  BY DEF Input
  <2> QED  BY <2>1, <2>2, ToolBlockShows
<1>4. e.kind \in {"content", "redacted", "tool"}  BY DEF Input
<1> QED  BY <1>1, <1>2, <1>3, <1>4

LEMMA FinishShows ==
  ASSUME NEW wr \in Writer, Shown(wr), NEW f \in Finals(wr), NEW t, t = Finish(wr, f)
  PROVE  Shows(t, wr)
<1> DEFINE a == EnsureStarted(wr)
           r == Finalized(a, f)
           x == IF "thinking" \in f.deltas THEN WriteThinking(r) ELSE r
           y == IF "text" \in f.deltas THEN WriteText(x) ELSE x
           d == f.deltas
<1>1. Onward(a, wr) /\ a \in Writer  BY EnsureStartedOnward DEF Onward, Fires
<1>2. d \in SUBSET {"thinking", "text"} /\ f.stop \in BOOLEAN  BY DEF Finals
<1>3. t = EndMessage(y)  BY DEF Finish
<1>4. y = IF "text" \in d THEN WriteText(x) ELSE x  OBVIOUS
<1>5. x = IF "thinking" \in d THEN WriteThinking(r) ELSE r  OBVIOUS
<1>6. Shown(a)  BY <1>1 DEF Onward, Fires, Shown
<1> HIDE DEF a, x, y
<1>7. r \in Writer
  <2> DEFINE b == (a.thinking \/ "thinking" \in d)
             c == (a.text \/ "text" \in d)
             l == (a.localStop \/ f.stop)
  <2>1. b \in BOOLEAN /\ c \in BOOLEAN /\ l \in BOOLEAN  BY <1>1, <1>2 DEF Writer
  <2> DEFINE g == Recorded(a, d)
  <2>2. g = [a EXCEPT !.thinking = b, !.text = c]  BY DEF Recorded
  <2>3. r = [g EXCEPT !.localStop = l, !.held = FALSE]
    BY <1>1 DEF Recorded, Finalized, Writer
  <2> HIDE DEF b, c, d, l, r, g
  <2>4. g \in Writer  BY <1>1, <2>1, <2>2 DEF Writer
  <2> QED  BY <2>1, <2>3, <2>4 DEF Writer
<1>8. /\ r.text = (a.text \/ "text" \in d) /\ r.tool = a.tool
      /\ r.visibleFired = a.visibleFired /\ r.todo = a.todo
      /\ r.writeErr = a.writeErr
  BY <1>1 DEF Recorded, Finalized, Writer
<1> HIDE DEF r, d
<1>9. Fires(r, a)  BY <1>7, <1>8 DEF Fires
<1>10. Shows(y, a)  BY <1>1, <1>2, <1>4, <1>5, <1>6, <1>7, <1>8, <1>9, DeltasShow
<1>11. Onward(t, y)  BY <1>3, <1>10, EndMessageOnward DEF Shows, Fires
<1>12. Fires(t, wr)  BY <1>1, <1>10, <1>11, FiresOn DEF Shows, Onward
<1>13. t.text = y.text /\ t.tool = y.tool /\ (y.visibleFired => t.visibleFired)
  BY <1>11 DEF Onward, Fires
<1> QED  BY <1>10, <1>12, <1>13 DEF Shows, Shown

LEMMA HandledShows ==
  ASSUME NEW wr \in Writer, Shown(wr), NEW e \in Input, NEW t \in Handled(wr, e)
  PROVE  Shows(t, wr)
<1> DEFINE h == HandleEvent(wr, e)
<1>1. Shows(h, wr) /\ h \in Writer /\ Shown(h)  BY HandleEventShows DEF Shows, Fires
<1>2. CASE e.stop
  <2>1. PICK f \in Finals(h) : t = Finish(h, f)  BY <1>2 DEF Handled
  <2> HIDE DEF h
  <2>2. Shows(t, h)  BY <1>1, <2>1, FinishShows
  <2> QED  BY <1>1, <2>2, FiresOn DEF Shows
<1>3. CASE ~e.stop
  <2>1. t = h  BY <1>3 DEF Handled
  <2> QED  BY <1>1, <2>1
<1> QED  BY <1>2, <1>3

LEMMA SearchShows ==
  ASSUME NEW wr \in Writer, Shown(wr),
         NEW t, t = FinishWebSearch(WriteText(WriteWebSearchResult(WriteServerToolUse(wr))))
  PROVE  Shows(t, wr) /\ t.visibleFired
<1> DEFINE a == EnsureStarted(wr)
           f == FireVisibleOutput(a)
           yes == TRUE
           no == FALSE
           u == WriteBlock(f, "server_tool_use", yes)
           r == WriteBlock(u, "web_search_tool_result", no)
           x == WriteText(r)
           b == EnsureStarted(x)
<1>1. Onward(a, wr) /\ a \in Writer  BY EnsureStartedOnward DEF Onward, Fires
<1>2. /\ t = EndMessage(b)
      /\ "server_tool_use" \in BlockType /\ "web_search_tool_result" \in BlockType
      /\ yes \in BOOLEAN /\ no \in BOOLEAN
  BY DEF FinishWebSearch, WriteWebSearchResult, WriteServerToolUse, BlockType
<1> HIDE DEF a, yes, no
<1>3. Onward(f, a) /\ f \in Writer
  BY <1>1, FireVisibleOutputOnward DEF Onward, Fires
<1> HIDE DEF f
<1>4. Onward(u, f) /\ u \in Writer  BY <1>2, <1>3, WriteBlockOnward DEF Onward, Fires
<1> HIDE DEF u
<1>5. Onward(r, u) /\ r \in Writer  BY <1>2, <1>4, WriteBlockOnward DEF Onward, Fires
<1> HIDE DEF r
<1>6. Onward(x, r) /\ x \in Writer /\ x.visibleFired
  BY <1>5, WriteTextOnward DEF Onward, Fires
<1> HIDE DEF x
<1>7. Onward(b, x) /\ b \in Writer  BY <1>6, EnsureStartedOnward DEF Onward, Fires
<1> HIDE DEF b
<1>8. Onward(t, b)  BY <1>2, <1>7, EndMessageOnward
<1>9. Onward(t, x)  BY <1>7, <1>8, OnwardOn
<1>10. Onward(t, wr)  BY <1>1, <1>3, <1>4, <1>5, <1>6, <1>9, OnwardOn
<1> QED  BY <1>6, <1>9, <1>10 DEF Onward, Fires, Shows, Shown
----------------------------------------------------------------------------
(* The tally: which content blocks the events offered to the session and   *)
(* those still in todo open (Has).  Thinking blocks come from the thinking *)
(* in the accumulator; and a writer that has called OnVisibleOutput has    *)
(* opened a block of text or a tool call when its method returns.          *)

BlocksOf(m) == {m[i].block : i \in DOMAIN m} \ {NoBlock}
Has(b, wr)  == BlocksOf(b) \cup BlocksOf(wr.todo)
Seen(b, wr) == Has(b, wr) \cap {"text", "tool_use"} # {}

Thinks(b, wr) == "thinking" \in Has(b, wr) => wr.thinking
Active(b, wr) == wr.activeType \in Has(b, wr) \cup {NoBlock}

Tallies(b, wr) ==
  /\ Thinks(b, wr) /\ Active(b, wr)
  /\ wr.visibleFired => Seen(b, wr)
  /\ Promises(wr.todo) => wr.visibleFired

Works(wr) == wr \in Writer /\ ~wr.writeErr

(* t comes after wr by calls that open the blocks of X.                    *)
Gains(b, t, wr, X) ==
  /\ Works(t)
  /\ Has(b, t) = Has(b, wr) \cup X
  /\ t.thinking = wr.thinking /\ t.localStop = wr.localStop
  /\ wr.visibleFired => t.visibleFired
  /\ Promises(t.todo) => Promises(wr.todo) \/ t.visibleFired

Still(t, wr) == t.visibleFired = wr.visibleFired

LEMMA GainsOn ==
  ASSUME NEW b, NEW r, NEW t, NEW wr, NEW X, NEW Y, Gains(b, t, wr, X), Gains(b, r, t, Y)
  PROVE  Gains(b, r, wr, X \cup Y)
BY DEF Gains

LEMMA GainsNothing ==
  ASSUME NEW b, NEW r, NEW t, NEW wr, NEW X, Gains(b, t, wr, X), Gains(b, r, t, {})
  PROVE  Gains(b, r, wr, X)
BY DEF Gains

LEMMA GainsSelf ==
  ASSUME NEW b, NEW wr, Works(wr), NEW X, X \subseteq Has(b, wr)
  PROVE  Gains(b, wr, wr, X) /\ Still(wr, wr)
BY DEF Gains, Still

LEMMA BlocksAppend ==
  ASSUME NEW q \in Seq(AnyCall), NEW e \in AnyCall, NEW r, r = Append(q, e)
  PROVE  /\ BlocksOf(r) = BlocksOf(q) \cup ({e.block} \ {NoBlock})
         /\ Promises(r) => Promises(q) \/ e.event = "promote"
<1>1. /\ DOMAIN q = 1..Len(q) /\ DOMAIN r = 1..(Len(q) + 1) /\ Len(q) \in Nat
      /\ r[Len(q) + 1] = e /\ \A i \in 1..Len(q) : r[i] = q[i]
      /\ Len(r) = Len(q) + 1
  OBVIOUS
<1>2. \A i \in DOMAIN r : i \in DOMAIN q \/ i = Len(q) + 1  BY <1>1
<1>3. \A i \in DOMAIN q : i \in DOMAIN r /\ r[i] = q[i]  BY <1>1
<1>4. Len(q) + 1 \in DOMAIN r  BY <1>1
<1>5. {r[i].block : i \in DOMAIN r} = {q[i].block : i \in DOMAIN q} \cup {e.block}
  BY <1>1, <1>2, <1>3, <1>4
<1>6. Promises(r) => Promises(q) \/ e.event = "promote"  BY <1>1, <1>2 DEF Promises
<1> QED  BY <1>5, <1>6 DEF BlocksOf

LEMMA AppendGains ==
  ASSUME NEW b, NEW wr, Works(wr), NEW e \in AnyCall, e.event # "promote",
         NEW t, t = [wr EXCEPT !.todo = Append(@, e)]
  PROVE  Gains(b, t, wr, {e.block} \ {NoBlock}) /\ Still(t, wr)
<1> DEFINE r == Append(wr.todo, e)
<1>1. wr \in Writer /\ ~wr.writeErr /\ wr.todo \in Seq(AnyCall)  BY DEF Works, Writer
<1>2. r \in Seq(AnyCall)  BY <1>1
<1>3. /\ BlocksOf(r) = BlocksOf(wr.todo) \cup ({e.block} \ {NoBlock})
      /\ Promises(r) => Promises(wr.todo)
  BY <1>1, BlocksAppend
<1>4. t = [wr EXCEPT !.todo = r]  OBVIOUS
<1> HIDE DEF r
<1>5. /\ t \in Writer /\ t.todo = r /\ t.writeErr = wr.writeErr
      /\ t.thinking = wr.thinking /\ t.localStop = wr.localStop
      /\ t.visibleFired = wr.visibleFired
  BY <1>1, <1>2, <1>4 DEF Writer
<1> QED  BY <1>1, <1>3, <1>5 DEF Gains, Works, Has, Still

LEMMA WriteSSEGains ==
  ASSUME NEW b, NEW wr, Works(wr), NEW n \in Names \ {"promote"},
         NEW type \in BlockType \cup {NoBlock}, NEW i \in Int, NEW t, t = WriteSSE(wr, n, type, i)
  PROVE  /\ Gains(b, t, wr, {type} \ {NoBlock}) /\ Still(t, wr)
         /\ t.activeType = wr.activeType /\ t.blockIndex = wr.blockIndex
<1> DEFINE e == Event(n, type, i, wr.attempt)
<1>1. e \in AnyCall /\ e.event # "promote" /\ e.block = type
  BY DEF Event, AnyCall, Works, Writer
<1>2. t = [wr EXCEPT !.todo = Append(@, e)]  BY DEF WriteSSE, Works
<1> HIDE DEF e
<1>3. Gains(b, t, wr, {e.block} \ {NoBlock}) /\ Still(t, wr)  BY <1>1, <1>2, AppendGains
<1>4. t.activeType = wr.activeType /\ t.blockIndex = wr.blockIndex
  BY WriteSSEOnward DEF Works, SameBlock
<1> QED  BY <1>1, <1>3, <1>4

LEMMA EnsureStartedGains ==
  ASSUME NEW b, NEW wr, Works(wr), NEW t, t = EnsureStarted(wr)
  PROVE  Gains(b, t, wr, {}) /\ Still(t, wr) /\ t.activeType = wr.activeType
<1> DEFINE d == [wr EXCEPT !.started = TRUE]
           k == -1
<1>1. /\ Works(d) /\ Has(b, d) = Has(b, wr) /\ d.activeType = wr.activeType
      /\ Gains(b, d, wr, {}) /\ Still(d, wr)
  BY DEF Works, Writer, Has, Gains, Still
<1>2. /\ k \in Int /\ "message_start" \in Names \ {"promote"}
      /\ NoBlock \in BlockType \cup {NoBlock} /\ {NoBlock} \ {NoBlock} = {}
  BY DEF Names
<1>3. t = IF wr.started THEN wr ELSE WriteSSE(d, "message_start", NoBlock, k)
  BY DEF EnsureStarted
<1> HIDE DEF d, k
<1>4. CASE wr.started  BY <1>3, <1>4, GainsSelf
<1>5. CASE ~wr.started
  <2>1. Gains(b, t, d, {NoBlock} \ {NoBlock}) /\ Still(t, d) /\ t.activeType = d.activeType
    BY <1>1, <1>2, <1>3, <1>5, WriteSSEGains
  <2>2. Gains(b, t, d, {})  BY <1>2, <2>1
  <2> QED  BY <1>1, <2>1, <2>2, GainsNothing DEF Still
<1> QED  BY <1>4, <1>5

LEMMA CloseActiveBlockGains ==
  ASSUME NEW b, NEW wr, Works(wr), NEW t, t = CloseActiveBlock(wr)
  PROVE  Gains(b, t, wr, {}) /\ Still(t, wr) /\ t.activeType = NoBlock
<1> DEFINE i == wr.blockIndex
           x == WriteSSE(wr, "content_block_stop", NoBlock, i)
<1>1. /\ i \in Int /\ "content_block_stop" \in Names \ {"promote"}
      /\ NoBlock \in BlockType \cup {NoBlock} /\ {NoBlock} \ {NoBlock} = {}
  BY DEF Names, Writer, Works
<1>2. t = IF wr.activeType = NoBlock THEN wr ELSE [x EXCEPT !.activeType = NoBlock]
  BY DEF CloseActiveBlock
<1>3. Gains(b, x, wr, {}) /\ Still(x, wr)
  <2> HIDE DEF i
  <2>1. Gains(b, x, wr, {NoBlock} \ {NoBlock}) /\ Still(x, wr)  BY <1>1, WriteSSEGains
  <2> HIDE DEF x
  <2> QED  BY <1>1, <2>1
<1> HIDE DEF x, i
<1>4. CASE wr.activeType = NoBlock  BY <1>2, <1>4, GainsSelf
<1>5. CASE wr.activeType # NoBlock
  <2>1. t = [x EXCEPT !.activeType = NoBlock] /\ Works(x)  BY <1>2, <1>3, <1>5 DEF Gains
  <2>2. Gains(b, t, x, {}) /\ Still(t, x) /\ t.activeType = NoBlock
    BY <2>1 DEF Works, Writer, Gains, Still, Has
  <2> QED  BY <1>3, <2>2, GainsNothing DEF Still
<1> QED  BY <1>4, <1>5

LEMMA OpenBlockGains ==
  ASSUME NEW b, NEW wr, Works(wr), NEW block \in BlockType, NEW t, t = OpenBlock(wr, block)
  PROVE  Gains(b, t, wr, {block}) /\ Still(t, wr) /\ t.activeType = block
<1> DEFINE c == CloseActiveBlock(wr)
           i == c.blockIndex + 1
           d == [c EXCEPT !.blockIndex = i, !.activeType = block]
<1>1. Gains(b, c, wr, {}) /\ Still(c, wr) /\ Works(c)  BY CloseActiveBlockGains DEF Gains
<1>2. t = WriteSSE(d, "content_block_start", block, i)  BY DEF OpenBlock
<1> HIDE DEF c
<1>3. /\ i \in Int /\ "content_block_start" \in Names \ {"promote"}
      /\ block \in BlockType \cup {NoBlock}
      /\ {block} \ {NoBlock} = {block}
  BY <1>1 DEF Names, Works, Writer, BlockType, NoBlock
<1> HIDE DEF i
<1>4. /\ Gains(b, d, c, {}) /\ Still(d, c) /\ d.activeType = block /\ Works(d)
  BY <1>1, <1>3 DEF Works, Writer, Gains, Still, Has
<1> HIDE DEF d
<1>5. Gains(b, t, d, {block} \ {NoBlock}) /\ Still(t, d) /\ t.activeType = d.activeType
  BY <1>2, <1>3, <1>4, WriteSSEGains
<1>6. Gains(b, t, d, {block})  BY <1>3, <1>5
<1>7. Gains(b, d, wr, {})  BY <1>1, <1>4, GainsNothing
<1>8. Gains(b, t, wr, {} \cup {block})  BY <1>6, <1>7, GainsOn
<1> QED  BY <1>1, <1>4, <1>5, <1>8 DEF Still

LEMMA SwitchBlockGains ==
  ASSUME NEW b, NEW wr, Works(wr), Active(b, wr), NEW block \in BlockType,
         NEW t, t = SwitchBlock(wr, block)
  PROVE  Gains(b, t, wr, {block}) /\ Still(t, wr) /\ t.activeType = block
<1>1. CASE wr.activeType = block
  <2>1. {block} \subseteq Has(b, wr)  BY <1>1 DEF Active, BlockType, NoBlock
  <2> QED  BY <1>1, <2>1, GainsSelf DEF SwitchBlock
<1>2. CASE wr.activeType # block  BY <1>2, OpenBlockGains DEF SwitchBlock
<1> QED  BY <1>1, <1>2

LEMMA WriteDeltaGains ==
  ASSUME NEW b, NEW wr, Works(wr), NEW t, t = WriteDelta(wr)
  PROVE  Gains(b, t, wr, {}) /\ Still(t, wr) /\ t.activeType = wr.activeType
<1> DEFINE i == wr.blockIndex
<1>1. /\ i \in Int /\ "content_block_delta" \in Names \ {"promote"}
      /\ NoBlock \in BlockType \cup {NoBlock} /\ {NoBlock} \ {NoBlock} = {}
  BY DEF Names, Works, Writer
<1>2. t = WriteSSE(wr, "content_block_delta", NoBlock, i)  BY DEF WriteDelta
<1> HIDE DEF i
<1>3. Gains(b, t, wr, {NoBlock} \ {NoBlock}) /\ Still(t, wr) /\ t.activeType = wr.activeType
  BY <1>1, <1>2, WriteSSEGains
<1> QED  BY <1>1, <1>3

LEMMA FireVisibleOutputGains ==
  ASSUME NEW b, NEW wr, Works(wr), NEW t, t = FireVisibleOutput(wr)
  PROVE  Gains(b, t, wr, {}) /\ t.activeType = wr.activeType
<1> DEFINE e == PromoteCall(wr.attempt)
           r == Append(wr.todo, e)
<1>1. wr \in Writer /\ ~wr.writeErr /\ wr.todo \in Seq(AnyCall)  BY DEF Works, Writer
<1>2. e \in AnyCall /\ e.block = NoBlock
  BY <1>1 DEF PromoteCall, Event, AnyCall, Names, Writer
<1>3. t = IF wr.visibleFired THEN wr ELSE [wr EXCEPT !.visibleFired = TRUE, !.todo = r]
  BY DEF FireVisibleOutput
<1> HIDE DEF e
<1>4. r \in Seq(AnyCall) /\ BlocksOf(r) = BlocksOf(wr.todo)
  <2>1. BlocksOf(r) = BlocksOf(wr.todo) \cup ({e.block} \ {NoBlock})  BY <1>1, <1>2, BlocksAppend
  <2>2. r \in Seq(AnyCall)  BY <1>1, <1>2
  <2> HIDE DEF r
  <2> QED  BY <1>2, <2>1, <2>2
<1> HIDE DEF r
<1>5. CASE wr.visibleFired  BY <1>3, <1>5, GainsSelf
<1>6. CASE ~wr.visibleFired
  <2>1. t = [wr EXCEPT !.visibleFired = TRUE, !.todo = r]  BY <1>3, <1>6
  <2>2. /\ t \in Writer /\ t.todo = r /\ t.writeErr = wr.writeErr /\ t.visibleFired
        /\ t.thinking = wr.thinking /\ t.localStop = wr.localStop
        /\ t.activeType = wr.activeType
    BY <1>1, <1>4, <2>1 DEF Writer
  <2> QED  BY <1>1, <1>4, <2>2 DEF Gains, Works, Has
<1> QED  BY <1>5, <1>6

(* The accumulator's deltas.  Text and tool calls are visible.             *)
LEMMA WriteThinkingTallies ==
  ASSUME NEW b, NEW wr, Works(wr), Tallies(b, wr), wr.thinking, NEW t, t = WriteThinking(wr)
  PROVE  Works(t) /\ Tallies(b, t) /\ t.localStop = wr.localStop
<1> DEFINE a == EnsureStarted(wr)
           o == SwitchBlock(a, "thinking")
           X == {"thinking"}
<1>1. Gains(b, a, wr, {}) /\ Still(a, wr) /\ a.activeType = wr.activeType
  BY EnsureStartedGains
<1>2. t = WriteDelta(o) /\ "thinking" \in BlockType  BY DEF WriteThinking, BlockType
<1> HIDE DEF a
<1>3. Works(a) /\ Active(b, a)  BY <1>1 DEF Gains, Tallies, Active
<1>4. Gains(b, o, a, X) /\ Still(o, a) /\ o.activeType = "thinking"
  BY <1>2, <1>3, SwitchBlockGains
<1> HIDE DEF o
<1>5. Works(o)  BY <1>4 DEF Gains
<1>6. Gains(b, t, o, {}) /\ Still(t, o) /\ t.activeType = o.activeType
  BY <1>2, <1>5, WriteDeltaGains
<1>7. Gains(b, t, a, X)  BY <1>4, <1>6, GainsNothing
<1>8. Gains(b, t, wr, {} \cup X)  BY <1>1, <1>7, GainsOn
<1> QED  BY <1>1, <1>4, <1>6, <1>8 DEF Gains, Still, Tallies, Thinks, Active, Seen

LEMMA WriteTextTallies ==
  ASSUME NEW b, NEW wr, Works(wr), Thinks(b, wr), Active(b, wr),
         Promises(wr.todo) => wr.visibleFired, NEW t, t = WriteText(wr)
  PROVE  Works(t) /\ Tallies(b, t) /\ t.localStop = wr.localStop
<1> DEFINE a == EnsureStarted(wr)
           f == FireVisibleOutput(a)
           o == SwitchBlock(f, "text")
           X == {"text"}
<1>1. Gains(b, a, wr, {}) /\ a.activeType = wr.activeType  BY EnsureStartedGains
<1>2. t = WriteDelta(o) /\ "text" \in BlockType  BY DEF WriteText, BlockType
<1> HIDE DEF a
<1>3. Works(a)  BY <1>1 DEF Gains
<1>4. Gains(b, f, a, {}) /\ f.activeType = a.activeType  BY <1>3, FireVisibleOutputGains
<1> HIDE DEF f
<1>5. Gains(b, f, wr, {})  BY <1>1, <1>4, GainsNothing
<1>6. Works(f) /\ Active(b, f)  BY <1>1, <1>4, <1>5 DEF Gains, Active
<1>7. Gains(b, o, f, X) /\ o.activeType = "text"  BY <1>2, <1>6, SwitchBlockGains
<1> HIDE DEF o
<1>8. Works(o)  BY <1>7 DEF Gains
<1>9. Gains(b, t, o, {}) /\ t.activeType = o.activeType  BY <1>2, <1>8, WriteDeltaGains
<1>10. Gains(b, t, f, X)  BY <1>7, <1>9, GainsNothing
<1>11. Gains(b, t, wr, {} \cup X)  BY <1>5, <1>10, GainsOn
<1> QED  BY <1>7, <1>9, <1>11 DEF Gains, Tallies, Thinks, Active, Seen

LEMMA DeltasTally ==
  ASSUME NEW b, NEW r, Works(r), Tallies(b, r), NEW deltas, "thinking" \in deltas => r.thinking,
         NEW x, x = IF "thinking" \in deltas THEN WriteThinking(r) ELSE r,
         NEW t, t = IF "text" \in deltas THEN WriteText(x) ELSE x
  PROVE  Works(t) /\ Tallies(b, t) /\ t.localStop = r.localStop
<1>1. Works(x) /\ Tallies(b, x) /\ x.localStop = r.localStop  BY WriteThinkingTallies
<1>2. Thinks(b, x) /\ Active(b, x) /\ (Promises(x.todo) => x.visibleFired)  BY <1>1 DEF Tallies
<1> QED  BY <1>1, <1>2, WriteTextTallies

(* What a method recorded in the accumulator before it wrote.              *)
Records(r, wr) ==
  /\ Works(r)
  /\ r.todo = wr.todo /\ r.activeType = wr.activeType /\ r.visibleFired = wr.visibleFired
  /\ wr.thinking => r.thinking

LEMMA RecordsTally ==
  ASSUME NEW b, NEW wr, Tallies(b, wr), NEW r, Records(r, wr)
  PROVE  Tallies(b, r)
BY DEF Records, Tallies, Thinks, Active, Seen, Has

LEMMA ContentTallies ==
  ASSUME NEW b, NEW wr, Works(wr), Tallies(b, wr), NEW e \in Input, e.kind = "content",
         NEW t, t = Content(wr, e)
  PROVE  Works(t) /\ Tallies(b, t) /\ t.localStop = e.stop
<1> DEFINE r == [Recorded(wr, e.deltas) EXCEPT !.localStop = e.stop, !.held = e.held]
           x == IF "thinking" \in e.deltas THEN WriteThinking(r) ELSE r
           d == e.deltas
           stop == e.stop
           held == e.held
<1>1. /\ d \in SUBSET {"thinking", "text"} /\ stop \in BOOLEAN /\ held \in BOOLEAN
      /\ wr \in Writer /\ ~wr.writeErr
  BY DEF Input, Works
<1>2. Records(r, wr) /\ r.localStop = stop /\ ("thinking" \in d => r.thinking)
  <2> DEFINE a == (wr.thinking \/ "thinking" \in d)
             c == (wr.text \/ "text" \in d)
             g == Recorded(wr, d)
  <2>1. a \in BOOLEAN /\ c \in BOOLEAN /\ (wr.thinking => a) /\ ("thinking" \in d => a)
    BY <1>1 DEF Writer
  <2>2. g = [wr EXCEPT !.thinking = a, !.text = c]  BY DEF Recorded
  <2>3. r = [g EXCEPT !.localStop = stop, !.held = held]  OBVIOUS
  <2> HIDE DEF a, c, d, g, stop, held, r
  <2>4. /\ g \in Writer /\ g.thinking = a /\ g.todo = wr.todo /\ g.activeType = wr.activeType
        /\ g.visibleFired = wr.visibleFired /\ g.writeErr = wr.writeErr
    BY <1>1, <2>1, <2>2 DEF Writer
  <2>5. /\ r \in Writer /\ r.thinking = g.thinking /\ r.todo = g.todo
        /\ r.activeType = g.activeType /\ r.visibleFired = g.visibleFired
        /\ r.writeErr = g.writeErr /\ r.localStop = stop
    BY <1>1, <2>3, <2>4 DEF Writer
  <2> QED  BY <1>1, <2>1, <2>4, <2>5 DEF Records, Works
<1>3. t = IF "text" \in d THEN WriteText(x) ELSE x  BY DEF Content
<1>4. x = IF "thinking" \in d THEN WriteThinking(r) ELSE r  OBVIOUS
<1> HIDE DEF x, r, d
<1>5. Tallies(b, r) /\ Works(r)  BY <1>2, RecordsTally DEF Records
<1>6. Works(t) /\ Tallies(b, t) /\ t.localStop = r.localStop
  BY <1>2, <1>3, <1>4, <1>5, DeltasTally
<1> QED  BY <1>2, <1>6

LEMMA RedactedBlockTallies ==
  ASSUME NEW b, NEW wr, Works(wr), Tallies(b, wr), NEW t, t = RedactedBlock(wr)
  PROVE  Works(t) /\ Tallies(b, t)
<1> DEFINE a == EnsureStarted(wr)
           o == OpenBlock(a, "redacted_thinking")
           X == {"redacted_thinking"}
<1>1. Gains(b, a, wr, {}) /\ Still(a, wr)  BY EnsureStartedGains
<1>2. t = CloseActiveBlock(o) /\ "redacted_thinking" \in BlockType
  BY DEF RedactedBlock, BlockType
<1> HIDE DEF a
<1>3. Works(a)  BY <1>1 DEF Gains
<1>4. Gains(b, o, a, X) /\ Still(o, a)  BY <1>2, <1>3, OpenBlockGains
<1> HIDE DEF o
<1>5. Works(o)  BY <1>4 DEF Gains
<1>6. Gains(b, t, o, {}) /\ Still(t, o) /\ t.activeType = NoBlock
  BY <1>2, <1>5, CloseActiveBlockGains
<1>7. Gains(b, t, a, X)  BY <1>4, <1>6, GainsNothing
<1>8. Gains(b, t, wr, {} \cup X)  BY <1>1, <1>7, GainsOn
<1> QED  BY <1>1, <1>4, <1>6, <1>8 DEF Gains, Still, Tallies, Thinks, Active, Seen

LEMMA ToolBlockTallies ==
  ASSUME NEW b, NEW wr, Works(wr), Tallies(b, wr), NEW e, e.stop \in BOOLEAN,
         NEW t, t = ToolBlock(wr, e)
  PROVE  Works(t) /\ Tallies(b, t) /\ t.localStop = e.stop
<1> DEFINE r == [wr EXCEPT !.tool = TRUE, !.localStop = e.stop]
           a == EnsureStarted(r)
           f == FireVisibleOutput(a)
           o == OpenBlock(f, "tool_use")
           X == {"tool_use"}
<1>1. Records(r, wr) /\ r.localStop = e.stop  BY DEF Works, Writer, Records
<1>2. t = WriteDelta(o) /\ "tool_use" \in BlockType  BY DEF ToolBlock, BlockType
<1> HIDE DEF r
<1>3. Tallies(b, r) /\ Works(r)  BY <1>1, RecordsTally DEF Records
<1>4. Gains(b, a, r, {})  BY <1>3, EnsureStartedGains
<1> HIDE DEF a
<1>5. Works(a)  BY <1>4 DEF Gains
<1>6. Gains(b, f, a, {})  BY <1>5, FireVisibleOutputGains
<1> HIDE DEF f
<1>7. Works(f)  BY <1>6 DEF Gains
<1>8. Gains(b, o, f, X) /\ o.activeType = "tool_use"  BY <1>2, <1>7, OpenBlockGains
<1> HIDE DEF o
<1>9. Works(o)  BY <1>8 DEF Gains
<1>10. Gains(b, t, o, {}) /\ t.activeType = o.activeType  BY <1>2, <1>9, WriteDeltaGains
<1>11. Gains(b, t, f, X)  BY <1>8, <1>10, GainsNothing
<1>12. Gains(b, f, r, {})  BY <1>4, <1>6, GainsNothing
<1>13. Gains(b, t, r, {} \cup X)  BY <1>11, <1>12, GainsOn
<1> QED  BY <1>1, <1>3, <1>8, <1>10, <1>13 DEF Gains, Tallies, Thinks, Active, Seen

LEMMA HandleEventTallies ==
  ASSUME NEW b, NEW wr, Works(wr), Tallies(b, wr), NEW e \in Input, NEW t, t = HandleEvent(wr, e)
  PROVE  Works(t) /\ Tallies(b, t) /\ (e.stop => t.localStop)
<1>1. CASE e.kind = "content"
  <2>1. t = Content(wr, e)  BY <1>1 DEF HandleEvent
  <2> QED  BY <1>1, <2>1, ContentTallies
<1>2. CASE e.kind = "redacted"
  <2>1. t = RedactedBlock(wr)  BY <1>2 DEF HandleEvent
  <2>2. e.stop = FALSE  BY <1>2 DEF Input
  <2> QED  BY <2>1, <2>2, RedactedBlockTallies
<1>3. CASE e.kind = "tool"
  <2>1. t = ToolBlock(wr, e)  BY <1>3 DEF HandleEvent
  <2>2. e.stop \in BOOLEAN  BY DEF Input
  <2> QED  BY <2>1, <2>2, ToolBlockTallies
<1>4. e.kind \in {"content", "redacted", "tool"}  BY DEF Input
<1> QED  BY <1>1, <1>2, <1>3, <1>4

LEMMA CloseActiveBlockTallies ==
  ASSUME NEW b, NEW wr, Works(wr), Tallies(b, wr), NEW t, t = CloseActiveBlock(wr)
  PROVE  Works(t) /\ Tallies(b, t) /\ t.localStop = wr.localStop
<1>1. Gains(b, t, wr, {}) /\ Still(t, wr) /\ t.activeType = NoBlock  BY CloseActiveBlockGains
<1> QED  BY <1>1 DEF Gains, Still, Tallies, Thinks, Active, Seen

LEMMA EndMessageTallies ==
  ASSUME NEW b, NEW wr, Works(wr), Tallies(b, wr), NEW t, t = EndMessage(wr)
  PROVE  Works(t) /\ Tallies(b, t) /\ t.localStop = wr.localStop
<1> DEFINE c == CloseActiveBlock(wr)
           k == -1
           x == WriteSSE(c, "message_delta", NoBlock, k)
<1>1. Gains(b, c, wr, {}) /\ Still(c, wr) /\ c.activeType = NoBlock  BY CloseActiveBlockGains
<1>2. t = WriteSSE(x, "message_stop", NoBlock, k)  BY DEF EndMessage
<1>3. /\ k \in Int /\ NoBlock \in BlockType \cup {NoBlock} /\ {NoBlock} \ {NoBlock} = {}
      /\ "message_delta" \in Names \ {"promote"} /\ "message_stop" \in Names \ {"promote"}
  BY DEF Names
<1> HIDE DEF c, k
<1>4. Works(c)  BY <1>1 DEF Gains
<1>5. Gains(b, x, c, {NoBlock} \ {NoBlock}) /\ Still(x, c) /\ x.activeType = c.activeType
  BY <1>3, <1>4, WriteSSEGains
<1> HIDE DEF x
<1>6. Works(x) /\ Gains(b, x, c, {})  BY <1>3, <1>5 DEF Gains
<1>7. Gains(b, t, x, {NoBlock} \ {NoBlock}) /\ Still(t, x) /\ t.activeType = x.activeType
  BY <1>2, <1>3, <1>6, WriteSSEGains
<1>8. Gains(b, t, x, {})  BY <1>3, <1>7
<1>9. Gains(b, t, c, {})  BY <1>6, <1>8, GainsNothing
<1>10. Gains(b, t, wr, {})  BY <1>1, <1>9, GainsNothing
<1> QED  BY <1>1, <1>5, <1>7, <1>10 DEF Gains, Still, Tallies, Thinks, Active, Seen

LEMMA FinishTallies ==
  ASSUME NEW b, NEW wr, Works(wr), Tallies(b, wr), NEW f \in Finals(wr), NEW t, t = Finish(wr, f)
  PROVE  Works(t) /\ Tallies(b, t) /\ (wr.localStop => t.localStop)
<1> DEFINE a == EnsureStarted(wr)
           r == Finalized(a, f)
           x == IF "thinking" \in f.deltas THEN WriteThinking(r) ELSE r
           y == IF "text" \in f.deltas THEN WriteText(x) ELSE x
           d == f.deltas
           stop == f.stop
<1>1. Gains(b, a, wr, {}) /\ Still(a, wr) /\ a.activeType = wr.activeType  BY EnsureStartedGains
<1>2. d \in SUBSET {"thinking", "text"} /\ stop \in BOOLEAN  BY DEF Finals
<1>3. t = EndMessage(y)  BY DEF Finish
<1>4. y = IF "text" \in d THEN WriteText(x) ELSE x  OBVIOUS
<1>5. x = IF "thinking" \in d THEN WriteThinking(r) ELSE r  OBVIOUS
<1> HIDE DEF a, x, y
<1>6. Works(a) /\ Tallies(b, a) /\ a.localStop = wr.localStop
  BY <1>1 DEF Gains, Still, Tallies, Thinks, Active, Seen
<1>7. Records(r, a) /\ (a.localStop => r.localStop) /\ ("thinking" \in d => r.thinking)
  <2> DEFINE u == (a.thinking \/ "thinking" \in d)
             v == (a.text \/ "text" \in d)
             l == (a.localStop \/ stop)
             g == Recorded(a, d)
  <2>1. /\ u \in BOOLEAN /\ v \in BOOLEAN /\ l \in BOOLEAN /\ a \in Writer /\ ~a.writeErr
        /\ (a.thinking => u) /\ ("thinking" \in d => u) /\ (a.localStop => l)
    BY <1>2, <1>6 DEF Writer, Works
  <2>2. g = [a EXCEPT !.thinking = u, !.text = v]  BY DEF Recorded
  <2>3. g.localStop = a.localStop  BY <2>1 DEF Recorded, Writer
  <2>4. r = [g EXCEPT !.localStop = l, !.held = FALSE]
    BY <2>1, <2>3 DEF Recorded, Finalized, Writer
  <2> HIDE DEF u, v, d, l, r, g, stop
  <2>5. /\ g \in Writer /\ g.thinking = u /\ g.todo = a.todo /\ g.activeType = a.activeType
        /\ g.visibleFired = a.visibleFired /\ g.writeErr = a.writeErr
    BY <2>1, <2>2 DEF Writer
  <2>6. /\ r \in Writer /\ r.thinking = g.thinking /\ r.todo = g.todo
        /\ r.activeType = g.activeType /\ r.visibleFired = g.visibleFired
        /\ r.writeErr = g.writeErr /\ r.localStop = l
    BY <2>1, <2>4, <2>5 DEF Writer
  <2> QED  BY <2>1, <2>5, <2>6 DEF Records, Works
<1> HIDE DEF r, d
<1>8. Tallies(b, r) /\ Works(r)  BY <1>6, <1>7, RecordsTally DEF Records
<1>9. Works(y) /\ Tallies(b, y) /\ y.localStop = r.localStop
  BY <1>4, <1>5, <1>7, <1>8, DeltasTally
<1>10. Works(t) /\ Tallies(b, t) /\ t.localStop = y.localStop  BY <1>3, <1>9, EndMessageTallies
<1> QED  BY <1>6, <1>7, <1>9, <1>10

LEMMA HandledTallies ==
  ASSUME NEW b, NEW wr, Works(wr), Tallies(b, wr), NEW e \in Input, NEW t \in Handled(wr, e)
  PROVE  Works(t) /\ Tallies(b, t) /\ (e.stop => t.localStop)
<1> DEFINE h == HandleEvent(wr, e)
<1>1. Works(h) /\ Tallies(b, h) /\ (e.stop => h.localStop)  BY HandleEventTallies
<1>2. CASE e.stop
  <2>1. PICK f \in Finals(h) : t = Finish(h, f)  BY <1>2 DEF Handled
  <2> HIDE DEF h
  <2> QED  BY <1>1, <2>1, FinishTallies
<1>3. CASE ~e.stop
  <2>1. t = h  BY <1>3 DEF Handled
  <2> QED  BY <1>1, <2>1
<1> QED  BY <1>2, <1>3

LEMMA WriteBlockGains ==
  ASSUME NEW b, NEW wr, Works(wr), NEW block \in BlockType, NEW delta \in BOOLEAN,
         NEW t, t = WriteBlock(wr, block, delta)
  PROVE  Gains(b, t, wr, {block}) /\ t.activeType = NoBlock
<1> DEFINE o == OpenBlock(wr, block)
           d == IF delta THEN WriteDelta(o) ELSE o
<1>1. Gains(b, o, wr, {block})  BY OpenBlockGains
<1>2. t = CloseActiveBlock(d)  BY DEF WriteBlock
<1> HIDE DEF o
<1>3. Works(o)  BY <1>1 DEF Gains
<1>4. Gains(b, d, o, {})
  <2>1. {} \subseteq Has(b, o)  OBVIOUS
  <2> QED  BY <1>3, <2>1, WriteDeltaGains, GainsSelf
<1> HIDE DEF d
<1>5. Works(d) /\ Gains(b, d, wr, {block})  BY <1>1, <1>4, GainsNothing DEF Gains
<1>6. Gains(b, t, d, {}) /\ t.activeType = NoBlock  BY <1>2, <1>5, CloseActiveBlockGains
<1> QED  BY <1>5, <1>6, GainsNothing

LEMMA SearchTallies ==
  ASSUME NEW b, NEW wr, Works(wr), Tallies(b, wr),
         NEW t, t = FinishWebSearch(WriteText(WriteWebSearchResult(WriteServerToolUse(wr))))
  PROVE  Works(t) /\ Tallies(b, t)
<1> DEFINE a == EnsureStarted(wr)
           f == FireVisibleOutput(a)
           yes == TRUE
           no == FALSE
           u == WriteBlock(f, "server_tool_use", yes)
           r == WriteBlock(u, "web_search_tool_result", no)
           x == WriteText(r)
           c == EnsureStarted(x)
           X == {"server_tool_use"}
           Y == {"web_search_tool_result"}
<1>1. Gains(b, a, wr, {})  BY EnsureStartedGains
<1>2. /\ t = EndMessage(c)
      /\ "server_tool_use" \in BlockType /\ "web_search_tool_result" \in BlockType
      /\ yes \in BOOLEAN /\ no \in BOOLEAN
  BY DEF FinishWebSearch, WriteWebSearchResult, WriteServerToolUse, BlockType
<1> HIDE DEF a, yes, no
<1>3. Works(a)  BY <1>1 DEF Gains
<1>4. Gains(b, f, a, {})  BY <1>3, FireVisibleOutputGains
<1> HIDE DEF f
<1>5. Gains(b, f, wr, {}) /\ Works(f)  BY <1>1, <1>4, GainsNothing DEF Gains
<1>6. Gains(b, u, f, X)  BY <1>2, <1>5, WriteBlockGains
<1> HIDE DEF u
<1>7. Gains(b, u, wr, {} \cup X) /\ Works(u)  BY <1>5, <1>6, GainsOn DEF Gains
<1>8. Gains(b, r, u, Y) /\ r.activeType = NoBlock  BY <1>2, <1>7, WriteBlockGains
<1> HIDE DEF r
<1>9. Gains(b, r, wr, ({} \cup X) \cup Y) /\ Works(r)  BY <1>7, <1>8, GainsOn DEF Gains
<1>10. Thinks(b, r) /\ Active(b, r) /\ (Promises(r.todo) => r.visibleFired)
  BY <1>8, <1>9 DEF Gains, Tallies, Thinks, Active
<1>11. Works(x) /\ Tallies(b, x)  BY <1>9, <1>10, WriteTextTallies
<1> HIDE DEF x
<1>12. Gains(b, c, x, {}) /\ Still(c, x) /\ c.activeType = x.activeType
  BY <1>11, EnsureStartedGains
<1> HIDE DEF c
<1>13. Works(c) /\ Tallies(b, c)
  BY <1>11, <1>12 DEF Gains, Still, Tallies, Thinks, Active, Seen
<1> QED  BY <1>2, <1>13, EndMessageTallies

LEMMA NewWriterTallies ==
  ASSUME NEW a \in Attempts, NEW b, b = <<>>, NEW t, t = NewSSEWriter(a)
  PROVE  Works(t) /\ Tallies(b, t) /\ ~t.thinking
<1> DEFINE e == <<>>
           k == -1
<1>1. e \in Seq(AnyCall) /\ DOMAIN e = {} /\ Len(e) = 0 /\ k \in Int  OBVIOUS
<1>2. t.todo = e /\ ~t.thinking /\ ~t.visibleFired /\ ~t.writeErr /\ t.activeType = NoBlock
  BY DEF NewSSEWriter
<1>3. t \in Writer
  <2>1. /\ t.attempt = a /\ t.blockIndex = k
        /\ NoBlock \in BlockType \cup {NoBlock}
    BY DEF NewSSEWriter
  <2> QED  BY <1>1 DEF NewSSEWriter, Writer
<1> HIDE DEF e
<1>4. ~Promises(t.todo)  BY <1>1, <1>2 DEF Promises
<1>5. Has(b, t) = {}
  <2>1. BlocksOf(e) = {}  BY <1>1 DEF BlocksOf
  <2> QED  BY <1>2, <2>1 DEF Has, e
<1> QED  BY <1>2, <1>3, <1>4, <1>5 DEF Works, Tallies, Thinks, Active
=============================================================================
