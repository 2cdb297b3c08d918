------------------------------ MODULE SSEWriter ------------------------------
(***************************************************************************)
(* internal/respconv/streaming.go and streaming_toolsearch.go: SSEWriter   *)
(* turns the events of the Kiro stream, and the searches that the proxy    *)
(* runs itself, into Anthropic SSE events.                                 *)
(*                                                                         *)
(* The writer is a record; a method is an operator from a record to a      *)
(* record that appends to todo, in order, the calls the method makes on    *)
(* the response writer.  An event is what a client can tell apart: its     *)
(* name, the type and index of its content block, and the upstream attempt *)
(* it came from, which stands for the message id and the texts.            *)
(*                                                                         *)
(* The accumulator behind the writer (thinking tags, stop sequences, the   *)
(* max_tokens budget) decides how a Kiro event splits into deltas; here    *)
(* that split is an input: [kind, deltas, stop, held].                     *)
(***************************************************************************)
EXTENDS Integers, Sequences, FiniteSets

CONSTANTS
  Attempts,   \* upstream attempts of one request: 1..2 in the code
  MaxIndex    \* bound: largest content block index

ASSUME MaxIndexIsNat == MaxIndex \in Nat

BlockType ==
  {"thinking", "text", "tool_use", "redacted_thinking",
   "server_tool_use", "tool_search_tool_result", "web_search_tool_result"}
NoBlock == "none"

Event(name, block, index, attempt) ==
  [event |-> name, block |-> block, index |-> index, attempt |-> attempt]

(* The SSE events of a message; "promote" is the call of OnVisibleOutput.  *)
SSEEvent ==
  {Event(n, NoBlock, -1, a) :
     n \in {"message_start", "message_delta", "message_stop"}, a \in Attempts}
  \cup {Event("content_block_start", b, i, a) :
     b \in BlockType, i \in 0..MaxIndex, a \in Attempts}
  \cup {Event(n, NoBlock, i, a) :
     n \in {"content_block_delta", "content_block_stop"},
     i \in 0..MaxIndex, a \in Attempts}

PromoteCall(attempt) == Event("promote", NoBlock, -1, attempt)

NewSSEWriter(attempt) ==
  [ attempt      |-> attempt,
    started      |-> FALSE,
    activeType   |-> NoBlock,
    blockIndex   |-> -1,
    visibleFired |-> FALSE,
    writeErr     |-> FALSE,   \* writeErr # nil
    thinking     |-> FALSE,   \* acc.ThinkingBuf is not empty
    text         |-> FALSE,   \* acc.TextBuf is not empty
    tool         |-> FALSE,   \* acc.HasToolUse
    localStop    |-> FALSE,   \* acc.LocalStop
    held         |-> FALSE,   \* a tag or stop-sequence prefix is held back
    todo         |-> <<>> ]

(* What ProcessEvent may make of a Kiro event that reaches a running       *)
(* stream: text and thinking deltas (a stop signal may come with any of    *)
(* them, or alone when a stop sequence begins the text; a prefix may be    *)
(* held back), a redacted block, a completed tool call, or nothing.        *)
Input ==
  [kind : {"content"}, deltas : SUBSET {"thinking", "text"},
   stop : BOOLEAN, held : BOOLEAN]
  \cup [kind : {"redacted"}, deltas : {{}}, stop : {FALSE}, held : {FALSE}]
  \cup [kind : {"tool"}, deltas : {{}}, stop : BOOLEAN, held : {FALSE}]

----------------------------------------------------------------------------
(* Helpers, named as in the code.                                          *)

WriteSSE(w, name, block, index) ==
  IF w.writeErr THEN w
  ELSE [w EXCEPT !.todo = Append(@, Event(name, block, index, w.attempt))]

EnsureStarted(w) ==
  IF w.started THEN w
  ELSE WriteSSE([w EXCEPT !.started = TRUE], "message_start", NoBlock, -1)

ForgetsActiveType(w) ==   \* mutant: activeType is not cleared
  IF w.activeType = NoBlock THEN w
  ELSE WriteSSE(w, "content_block_stop", NoBlock, w.blockIndex)
CloseActiveBlock(w) ==
  IF w.activeType = NoBlock THEN w
  ELSE [WriteSSE(w, "content_block_stop", NoBlock, w.blockIndex) EXCEPT !.activeType = NoBlock]

(* Closes the active block and opens the next one.                         *)
OpenBlock(w, block) ==
  LET c == CloseActiveBlock(w)
      i == c.blockIndex + 1
  IN  WriteSSE([c EXCEPT !.blockIndex = i, !.activeType = block],
               "content_block_start", block, i)

SwitchBlock(w, block) ==
  IF w.activeType = block THEN w ELSE OpenBlock(w, block)

NeverFires(w) == w   \* mutant: OnVisibleOutput is not called
FireVisibleOutput(w) ==
  IF w.visibleFired THEN w
  ELSE [w EXCEPT !.visibleFired = TRUE, !.todo = Append(@, PromoteCall(w.attempt))]

WriteDelta(w) == WriteSSE(w, "content_block_delta", NoBlock, w.blockIndex)

WriteThinking(w) == WriteDelta(SwitchBlock(EnsureStarted(w), "thinking"))
WriteText(w) ==
  WriteDelta(SwitchBlock(FireVisibleOutput(EnsureStarted(w)), "text"))

(* The accumulator's buffers after a list of deltas.                       *)
Recorded(w, deltas) ==
  [w EXCEPT !.thinking = @ \/ "thinking" \in deltas, !.text = @ \/ "text" \in deltas]

----------------------------------------------------------------------------
(* HandleEvent without the Finish of a stop signal.                        *)

Content(w, e) ==
  LET r == [Recorded(w, e.deltas) EXCEPT !.localStop = e.stop, !.held = e.held]
      t == IF "thinking" \in e.deltas THEN WriteThinking(r) ELSE r
  IN  IF "text" \in e.deltas THEN WriteText(t) ELSE t

RedactedBlock(w) == CloseActiveBlock(OpenBlock(EnsureStarted(w), "redacted_thinking"))

(* A tool block stays active: the next block or Finish closes it.          *)
ToolBlock(w, e) ==
  LET r == [w EXCEPT !.tool = TRUE, !.localStop = e.stop]
  IN  WriteDelta(OpenBlock(FireVisibleOutput(EnsureStarted(r)), "tool_use"))

HandleEvent(w, e) ==
  CASE e.kind = "content"  -> Content(w, e)
    [] e.kind = "redacted" -> RedactedBlock(w)
    [] e.kind = "tool"     -> ToolBlock(w, e)

(* What finalizeResult may flush: nothing unless something was held back;  *)
(* flushing it may hit the max_tokens budget.                              *)
Finals(w) ==
  {f \in [deltas : SUBSET {"thinking", "text"}, stop : BOOLEAN] :
     ~w.held => f.deltas = {} /\ ~f.stop}

Finalized(w, f) ==
  [Recorded(w, f.deltas) EXCEPT !.localStop = @ \/ f.stop, !.held = FALSE]

EndMessage(w) ==
  WriteSSE(WriteSSE(CloseActiveBlock(w), "message_delta", NoBlock, -1),
           "message_stop", NoBlock, -1)

Finish(w, f) ==
  LET r == Finalized(EnsureStarted(w), f)
      t == IF "thinking" \in f.deltas THEN WriteThinking(r) ELSE r
  IN  EndMessage(IF "text" \in f.deltas THEN WriteText(t) ELSE t)

(* HandleEvent as a whole; an adapter-side stop finishes the message.      *)
Handled(w, e) ==
  IF e.stop THEN {Finish(HandleEvent(w, e), f) : f \in Finals(HandleEvent(w, e))}
  ELSE {HandleEvent(w, e)}

IsEmptyVisibleEndTurn(w) == ~w.localStop /\ w.thinking /\ ~w.text /\ ~w.tool

(* What NonStreamingAccumulator makes of an event: it reads on after a     *)
(* local stop, but takes nothing, and does not keep redacted thinking.     *)
Accumulated(w, e) ==
  CASE w.localStop \/ e.kind = "redacted" -> w
    [] ~w.localStop /\ e.kind = "tool"    -> [w EXCEPT !.tool = TRUE, !.localStop = e.stop]
    [] ~w.localStop /\ e.kind = "content" ->
         [Recorded(w, e.deltas) EXCEPT !.localStop = e.stop, !.held = e.held]

----------------------------------------------------------------------------
(* The blocks of a search: its call, and its result or its error.          *)

WriteBlock(w, block, delta) ==
  LET o == OpenBlock(w, block)
  IN  CloseActiveBlock(IF delta THEN WriteDelta(o) ELSE o)

WriteServerToolUse(w) ==
  WriteBlock(FireVisibleOutput(EnsureStarted(w)), "server_tool_use", TRUE)
WriteToolSearchResult(w) == WriteBlock(w, "tool_search_tool_result", FALSE)
WriteWebSearchResult(w)  == WriteBlock(w, "web_search_tool_result", FALSE)
FinishWebSearch(w)       == EndMessage(EnsureStarted(w))

----------------------------------------------------------------------------
(* What a client may see of a message at any time: a prefix of one start,  *)
(* blocks numbered from 0 that are opened, filled and closed one after the *)
(* other, one delta and one stop, all of one attempt.                      *)

Before(m, i, name) == Cardinality({j \in 1..(i - 1) : m[j].event = name})
Opened(m, i) == Before(m, i, "content_block_start")
Open(m, i)   == Opened(m, i) > Before(m, i, "content_block_stop")

InPlace(m, i) ==
  LET e == m[i]
  IN  /\ e.attempt = m[1].attempt
      /\ (e.event = "message_start") <=> (i = 1)
      /\ e.event = "content_block_start" => ~Open(m, i) /\ e.index = Opened(m, i)
      /\ e.event \in {"content_block_delta", "content_block_stop"} =>
            Open(m, i) /\ e.index = Opened(m, i) - 1
      /\ e.event = "message_delta" => ~Open(m, i)
      /\ (e.event = "message_stop") <=> (i > 1 /\ m[i - 1].event = "message_delta")
      /\ e.event = "message_stop" => i = Len(m)

WellFormedSoFar(m) == \A i \in DOMAIN m : InPlace(m, i)
=============================================================================
