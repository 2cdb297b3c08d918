-------------------------- MODULE RequestConversion --------------------------
(***************************************************************************)
(* internal/reqconv: how the messages of an Anthropic request become the   *)
(* history and the current message of a Kiro payload.  Operators only; the *)
(* conversation that uses them is the module Conversation.                 *)
(*                                                                         *)
(* A text is a sequence of items: an item is a piece that one block of one *)
(* message brought into the conversation, or a text of the proxy's own.    *)
(* The items of a call are the members of its input, those of a result its *)
(* texts.  What joins the pieces, and the heading under which a tool block *)
(* reads as text, are left out.                                            *)
(***************************************************************************)
EXTENDS Naturals, Sequences, SequencesExt, Filtering

syntheticEmpty    == 0
syntheticContinue == 1
syntheticAck      == 2
SystemPrompt      == 3
UnknownBlock      == 4

(* A content block: id is that of its tool call, 0 without one.            *)
Block(type, id, text) == [type |-> type, id |-> id, text |-> text]

(* "developer" and "unknown" stand for every role and every type of block  *)
(* that the proxy does not know.                                           *)
Role      == {"user", "assistant", "developer"}
BlockType == {"text", "thinking", "image", "tool_use", "server_tool_use", "tool_result",
              "tool_search_tool_result", "unknown"}

ContentBlock == [type : BlockType, id : Nat, text : Seq(Nat)]
Message      == [role : Role, string : BOOLEAN, blocks : Seq(ContentBlock)]

(* A message with string content has one text block.                       *)
StringMessage(role, text) ==
  [role |-> role, string |-> TRUE, blocks |-> <<Block("text", 0, text)>>]

IsToolUse(b)    == b.type \in {"tool_use", "server_tool_use"}
IsToolResult(b) == b.type \in {"tool_result", "tool_search_tool_result"}

Ids(blocks) == [k \in DOMAIN blocks |-> blocks[k].id]
Images(m)   == SelectSeq(m.blocks, LAMBDA b : b.type = "image")

ToolUses(m) ==
  IF m.string THEN <<>> ELSE Filter(m.blocks, {b \in ToSet(m.blocks) : IsToolUse(b)})
ToolResults(m) ==
  IF m.string THEN <<>> ELSE Filter(m.blocks, {b \in ToSet(m.blocks) : IsToolResult(b)})

(* Of a block whose type the proxy does not know only the type and a name  *)
(* are sent; what it holds is not.                                         *)
textualizeUnknownBlock(b) == <<UnknownBlock>>

ExtractTextContent(m) ==
  LET spoken == SelectSeq(m.blocks, LAMBDA b : b.type \in {"text", "unknown"})
  IN  FlattenSeq([k \in DOMAIN spoken |->
                    IF spoken[k].type = "text" THEN spoken[k].text
                    ELSE textualizeUnknownBlock(spoken[k])])

----------------------------------------------------------------------------
(* message_normalizer.go.                                                  *)

(* A call that is turned into text has its input marshalled, a map: its    *)
(* members come in any order.  These are the messages with the inputs as   *)
(* they may be written.                                                    *)
InputsAsText(msgs, hasTools) ==
  {p \in UNION {{i} \X DOMAIN msgs[i].blocks : i \in DOMAIN msgs} :
     LET b == msgs[p[1]].blocks[p[2]]
     IN  ~hasTools /\ ~msgs[p[1]].string /\ IsToolUse(b) /\ Len(b.text) > 1}

WithInputs(msgs, w) ==
  [i \in DOMAIN msgs |->
     [msgs[i] EXCEPT !.blocks =
        [k \in DOMAIN @ |->
           IF <<i, k>> \in DOMAIN w THEN [@[k] EXCEPT !.text = w[<<i, k>>]] ELSE @[k]]]]

Marshallings(msgs, hasTools) ==
  LET inputs   == InputsAsText(msgs, hasTools)
      any(p)   == InAnyOrder(msgs[p[1]].blocks[p[2]].text)
      writings == {w \in [inputs -> UNION {any(p) : p \in inputs}] :
                     \A p \in inputs : w[p] \in any(p)}
  IN  {WithInputs(msgs, w) : w \in writings}

Textualized(b) == Block("text", 0, b.text)

(* The message with the blocks that Changes picks turned into text.        *)
MapBlocks(m, Changes(_)) ==
  IF m.string THEN m
  ELSE [m EXCEPT !.blocks =
          [k \in DOMAIN @ |-> IF Changes(@[k]) THEN Textualized(@[k]) ELSE @[k]]]

textualizeAllToolContent(msgs) ==
  [i \in DOMAIN msgs |->
     MapBlocks(msgs[i], LAMBDA b : IsToolUse(b) \/ IsToolResult(b))]

AnyEarlierCall(msgs, i) ==   \* mutant: any earlier message may hold the call
  UNION {ToSet(Ids(ToolUses(msgs[j]))) : j \in 1..(i - 1)}
CallsBefore(msgs, i) ==
  IF i > 1 /\ msgs[i - 1].role = "assistant" THEN ToSet(Ids(ToolUses(msgs[i - 1])))
  ELSE {}

textualizeOrphanToolResults(msgs) ==
  [i \in DOMAIN msgs |->
     IF msgs[i].role # "user" THEN msgs[i]
     ELSE MapBlocks(msgs[i],
                    LAMBDA b : IsToolResult(b) /\ b.id \notin CallsBefore(msgs, i))]

textualizeToolContent(msgs, hasTools) ==
  IF hasTools THEN textualizeOrphanToolResults(msgs)
  ELSE textualizeAllToolContent(msgs)

KeepsRoles(msgs) == msgs   \* mutant: other roles are passed on
normalizeRoles(msgs) ==
  [i \in DOMAIN msgs |->
     IF msgs[i].role \in {"user", "assistant"} THEN msgs[i]
     ELSE [msgs[i] EXCEPT !.role = "user"]]

isPlainTextContent(m) == \A k \in DOMAIN m.blocks : m.blocks[k].type = "text"

MergesAnything(a, b) ==   \* mutant: only the first of a run must be plain
  a.role = b.role /\ isPlainTextContent(a)
Mergeable(a, b) ==
  a.role = b.role /\ isPlainTextContent(a) /\ isPlainTextContent(b)

(* The run of messages so far, and the next one.                           *)
Merge(run, m) ==
  IF run # <<>> /\ Mergeable(Last(run), m)
  THEN Append(Front(run),
              StringMessage(m.role, ExtractTextContent(Last(run)) \o ExtractTextContent(m)))
  ELSE Append(run, m)

mergeAdjacentSameRole(msgs) ==
  LET upTo[n \in 0..Len(msgs)] ==
        IF n = 0 THEN <<>> ELSE Merge(upTo[n - 1], msgs[n])
  IN  upTo[Len(msgs)]

ensureStartsWithUser(msgs) ==
  IF msgs = <<>> \/ Head(msgs).role = "user" THEN msgs
  ELSE <<StringMessage("user", <<syntheticEmpty>>)>> \o msgs

Opposite(role) == IF role = "assistant" THEN "user" ELSE "assistant"

Alternate(out, m) ==
  IF out # <<>> /\ Last(out).role = m.role
  THEN out \o <<StringMessage(Opposite(m.role), <<syntheticEmpty>>), m>>
  ELSE Append(out, m)

ensureAlternatingRoles(msgs) ==
  LET upTo[n \in 0..Len(msgs)] ==
        IF n = 0 THEN <<>> ELSE Alternate(upTo[n - 1], msgs[n])
  IN  upTo[Len(msgs)]

Normalize(msgs, hasTools) ==
  ensureAlternatingRoles(ensureStartsWithUser(mergeAdjacentSameRole(
    normalizeRoles(textualizeToolContent(msgs, hasTools)))))

----------------------------------------------------------------------------
(* tool_results.go, history.go, build_payload.go.                          *)

(* A result that no call names goes to the end; of several results of one  *)
(* call the last counts.                                                   *)
ReorderToolResults(results, toolUseIDs) ==
  LET index(id) == SelectLastInSeq(results, LAMBDA r : r.id = id)
      named     == Filter(toolUseIDs, ToSet(Ids(results)))
      others    == {r \in ToSet(results) : r.id \notin ToSet(toolUseIDs)}
  IN  IF Len(results) <= 1 \/ toolUseIDs = <<>> THEN results
      ELSE [k \in DOMAIN named |-> results[index(named[k])]]
             \o Filter(results, others)

(* What Kiro is sent of a message.  The id of an assistant message is a    *)
(* hash of its text and its calls; here it is what is hashed.              *)
Entry(role, content, results, uses, images) ==
  [role |-> role, content |-> content, results |-> results, uses |-> uses,
   images |-> images,
   messageId |-> IF role = "assistant" THEN content \o Ids(uses) ELSE <<>>]

(* toolUseIDs: the calls of the message before it.                         *)
UserEntry(m, toolUseIDs) ==
  Entry("user", ExtractTextContent(m),
        ReorderToolResults(ToolResults(m), toolUseIDs), <<>>, <<>>)

AssistantEntry(m) ==
  Entry("assistant", ExtractTextContent(m), <<>>, ToolUses(m), <<>>)

buildHistory(msgs) ==
  [i \in DOMAIN msgs |->
     IF msgs[i].role = "assistant" THEN AssistantEntry(msgs[i])
     ELSE UserEntry(msgs[i],
                    IF i > 1 /\ msgs[i - 1].role = "assistant"
                    THEN Ids(ToolUses(msgs[i - 1])) ELSE <<>>)]

PlacesItOnce(system, history) ==   \* mutant: the pair is put before a first message only
  IF system /\ history = <<>>
  THEN <<Entry("user", <<SystemPrompt>>, <<>>, <<>>, <<>>),
         Entry("assistant", <<syntheticAck>>, <<>>, <<>>, <<>>)>>
  ELSE history
placeSystemPrompt(system, history) ==
  IF system
  THEN <<Entry("user", <<SystemPrompt>>, <<>>, <<>>, <<>>),
         Entry("assistant", <<syntheticAck>>, <<>>, <<>>, <<>>)>> \o history
  ELSE history

(* The messages that become history, and the one that Kiro answers.        *)
splitMessages(msgs) ==
  IF Last(msgs).role = "assistant"
  THEN [history |-> msgs, last |-> StringMessage("user", <<syntheticContinue>>)]
  ELSE [history |-> Front(msgs), last |-> Last(msgs)]

buildCurrentMessage(m, toolUseIDs) ==
  LET content == ExtractTextContent(m)
      results == ReorderToolResults(ToolResults(m), toolUseIDs)
  IN  Entry("user",
            IF content = <<>> /\ results = <<>> THEN <<syntheticContinue>> ELSE content,
            results, <<>>, Images(m))

(* The payload of the messages with their inputs as one marshalling wrote  *)
(* them.                                                                   *)
BuildPayload(msgs, hasTools, system) ==
  LET split == splitMessages(Normalize(msgs, hasTools))
  IN  [ history |-> placeSystemPrompt(system, buildHistory(split.history)),
        current |-> buildCurrentMessage(split.last,
                      IF split.history = <<>> THEN <<>>
                      ELSE Ids(ToolUses(Last(split.history)))) ]
=============================================================================
