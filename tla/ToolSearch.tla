------------------------------ MODULE ToolSearch ------------------------------
(***************************************************************************)
(* internal/app/messages/toolsearch.go with internal/toolsearch: the inner *)
(* loop of a request whose tools are deferred.  The model sees the active  *)
(* tools and a tool ToolSearch; when it calls ToolSearch, the proxy runs   *)
(* the search itself, makes the tools it found active, shows the search to *)
(* the client and calls Kiro again, up to MaxRounds times; a run of the    *)
(* loop that gives nothing but thinking is followed by a second one.       *)
(*                                                                         *)
(* One handler call is one action: how the heartbeat and the client run    *)
(* between two writes is the subject of StreamSession and of               *)
(* StreamingMessages.  Here the session is what it has buffered, what has  *)
(* left it, and whether it is still usable.                                *)
(***************************************************************************)
EXTENDS SSEWriter, Filtering, SequencesExt

CONSTANTS
  Tool,        \* the client's tools
  MaxRounds,   \* maxToolSearchRounds: 3 in the code
  UpstreamEvents,  \* what Kiro may send besides tool searches and credits
  MaxResults,  \* bound: names that a search returns
  MaxCredits,  \* bound: what a meteringEvent says
  MaxEvents    \* bound: events of UpstreamEvents in the whole request

ASSUME TwoAttempts == Attempts = {1, 2}
ASSUME UpstreamEventsAreInputs == UpstreamEvents \subseteq Input
ASSUME BoundsAreNat == {MaxResults, MaxCredits, MaxEvents, MaxIndex} \subseteq Nat
ASSUME MaxRoundsIsPositive == MaxRounds \in Nat \ {0}
ASSUME ToolIsFinite == IsFiniteSet(Tool)

(* An event opens at most two blocks, and so do a search and Finish.       *)
ASSUME IndicesSuffice == 2 * MaxEvents + 2 * MaxRounds + 1 <= MaxIndex

VARIABLES
  stream,    \* req.Stream
  refs,      \* the tools that the client's messages refer to
  tools,     \* tsCtx: ActiveTools and DeferredTools
  o,         \* the goroutine: its place and the locals of the loop
  w,         \* sw; without req.Stream only its accumulator counts
  session,   \* the streamSession; without req.Stream only what was written
  seen       \* history: credits metered and logged, text that was lost

vars == <<stream, refs, tools, o, w, session, seen>>

(* named is what the messages of the next payload name as found, payload   *)
(* the tools it offers; credits are those of the accumulator.              *)
Orchestrator ==
  [ pc            : {"build", "call", "parse", "parsed", "search", "last", "done"},
    round         : 1..MaxRounds,
    named         : SUBSET Tool,
    payload       : Seq(Tool),
    found         : {"none", "query", "malformed"},   \* foundToolSearch, its input
    outcome       : {"none", "eof", "localStop", "error"},
    credits       : 0..MaxCredits,
    totals        : Nat,
    orderedBlocks : Seq(BlockType),
    events        : 0..MaxEvents ]

FirstRound(events) ==
  [ pc |-> "build", round |-> 1, named |-> refs, payload |-> <<>>, found |-> "none",
    outcome |-> "none", credits |-> 0, totals |-> 0, orderedBlocks |-> <<>>,
    events |-> events ]

----------------------------------------------------------------------------
(* toolsearch.Context.                                                     *)

(* The tools of the request, split by defer_loading.                       *)
NewContext(deferred) == [active |-> SetToSeq(Tool \ deferred), deferred |-> deferred]

KeepsDeferred(t, names) ==   \* mutant: delete(c.DeferredTools, name) is missing
  [t EXCEPT !.active = @ \o SelectSeq(names, LAMBDA n : n \in t.deferred)]
PromoteTool(t, name) ==
  IF name \in t.deferred
  THEN [active |-> Append(t.active, name), deferred |-> t.deferred \ {name}]
  ELSE t
PromoteTools(t, names) ==
  LET upTo[n \in 0..Len(names)] ==
        IF n = 0 THEN t ELSE PromoteTool(upTo[n - 1], names[n])
  IN  upTo[Len(names)]

(* Search: an invalid pattern is an error; otherwise any deferred tools,   *)
(* and one that a "select:" query repeats comes twice.                     *)
Search == {[err |-> TRUE, names |-> <<>>]}
            \cup [err : {FALSE}, names : BoundedSeq(tools.deferred, MaxResults)]

----------------------------------------------------------------------------
(* What happens to the calls of a writer on the session: what is written   *)
(* joins the buffer, and leaves with it once there is visible output.      *)

Promoted(s) == [s EXCEPT !.promoted = TRUE, !.out = @ \o s.buf, !.buf = <<>>]

After(writer) ==
  LET s       == [session EXCEPT !.buf = @ \o Filter(writer.todo, SSEEvent)]
      visible == \E i \in DOMAIN writer.todo : writer.todo[i].event = "promote"
  IN  IF session.promoted \/ visible THEN Promoted(s) ELSE s

Idle(writer) == [writer EXCEPT !.todo = <<>>]
Emit(writer) == w' = Idle(writer) /\ session' = After(writer)
Written(s, name) == [s EXCEPT !.out = Append(@, Event(name, NoBlock, -1, w.attempt))]

(* WriteFinalError: in place of what is buffered, or, once promoted, after *)
(* the active block is closed (SSEWriter.WriteError).                      *)
FinalError ==
  LET s == IF session.promoted THEN After(CloseActiveBlock(w))
           ELSE [session EXCEPT !.buf = <<>>]
  IN  session' = Written(s, "error")

----------------------------------------------------------------------------
Init ==
  /\ stream \in BOOLEAN
  /\ refs \in SUBSET Tool
  /\ \E deferred \in SUBSET Tool :
       tools = PromoteTools(NewContext(deferred), SetToSeq(refs))
  /\ o = FirstRound(0)
  /\ w = NewSSEWriter(1)
  /\ session = [promoted |-> FALSE, usable |-> TRUE, buf |-> <<>>, out |-> <<>>]
  /\ seen = [metered |-> 0, charged |-> 0, logged |-> 0, lost |-> FALSE]

At(pc) == o.pc = pc
Goto(pc) == o' = [o EXCEPT !.pc = pc]

Fail ==
  /\ FinalError
  /\ Goto("done")
  /\ UNCHANGED <<w, tools, seen>>

BuildPayload ==
  /\ At("build")
  /\ o' = [o EXCEPT !.pc = "call", !.payload = tools.active]
  /\ UNCHANGED <<tools, w, session, seen>>

CallFails ==
  /\ At("call")
  /\ Fail

NewWriter(writer) == NewSSEWriter(writer.attempt)   \* mutant: one per round
ResetAccumulator(writer) ==
  [writer EXCEPT !.thinking = FALSE, !.text = FALSE, !.tool = FALSE,
                 !.localStop = FALSE, !.held = FALSE, !.activeType = NoBlock]

(* A streaming round adds up its predecessor's credits here, the other one *)
(* has done so itself.                                                     *)
CallSucceeds ==
  /\ At("call")
  /\ o' = [o EXCEPT !.pc = "parse", !.found = "none", !.outcome = "none", !.credits = 0,
                    !.totals = IF stream THEN @ + o.credits ELSE @]
  /\ w' = IF o.round = 1 THEN w ELSE ResetAccumulator(w)
  /\ seen' = [seen EXCEPT !.charged = @ + seen.metered, !.metered = 0,
                          !.lost = @ \/ (o.round > 1 /\ w.held)]
  /\ UNCHANGED <<tools, session>>

----------------------------------------------------------------------------
(* The callback of ParseStream.  After the tool search of a stream only    *)
(* credits are recorded.                                                   *)

Reads  == At("parse") /\ o.events < MaxEvents
InTail == stream /\ o.found # "none"

ReadEventOfStream ==
  /\ Reads /\ stream
  /\ \E e \in UpstreamEvents :
       IF InTail
       THEN /\ o' = [o EXCEPT !.events = @ + 1]
            /\ UNCHANGED <<w, session>>
       ELSE /\ \E writer \in Handled(w, e) : Emit(writer)
            /\ o' = [o EXCEPT !.events = @ + 1,
                              !.pc = IF e.stop THEN "parsed" ELSE "parse",
                              !.outcome = IF e.stop THEN "localStop" ELSE "none"]
  /\ UNCHANGED <<tools, seen>>

ReadEvent ==
  /\ Reads /\ ~stream
  /\ \E e \in UpstreamEvents : w' = Accumulated(w, e)
  /\ o' = [o EXCEPT !.events = @ + 1]
  /\ UNCHANGED <<tools, session, seen>>

NotInTail(credits) == IF InTail THEN o.credits ELSE credits   \* mutant: no RecordTail
Metered(credits) == credits

(* The last meteringEvent of a call counts; bound: they grow.              *)
ReadMetering ==
  /\ At("parse")
  /\ \E credits \in (seen.metered + 1)..MaxCredits :
       /\ o' = [o EXCEPT !.credits = Metered(credits)]
       /\ seen' = [seen EXCEPT !.metered = credits]
  /\ UNCHANGED <<tools, w, session>>

(* The first tool search of a stream counts; otherwise the last, unless a  *)
(* local stop came before it.                                              *)
ReadToolSearch ==
  /\ At("parse")
  /\ ~InTail /\ ~w.localStop
  /\ \E input \in {"query", "malformed"} : o' = [o EXCEPT !.found = input]
  /\ UNCHANGED <<tools, w, session, seen>>

(* The end of the stream; an error frame, a malformed one, a dropped       *)
(* connection.                                                             *)
ReadEnds ==
  /\ At("parse")
  /\ \E outcome \in {"eof", "error"} :
       o' = [o EXCEPT !.pc = "parsed", !.outcome = outcome]
  /\ UNCHANGED <<tools, w, session, seen>>

----------------------------------------------------------------------------
(* After ParseStream.  Without req.Stream an error after a tool search     *)
(* counts as the end of the round.                                         *)

Failed == o.outcome = "error" /\ (stream \/ o.found = "none")

RoundFails ==
  /\ At("parsed")
  /\ Failed
  /\ Fail

Ended == At("parsed") /\ ~Failed

SearchesInStream ==
  /\ Ended /\ stream
  /\ o.found # "none"
  /\ Goto("search")
  /\ UNCHANGED <<tools, w, session, seen>>

LogCredits(credits) == seen' = [seen EXCEPT !.logged = @ + credits]

(* The end of the response, and of its request.                            *)
Deliver(writer) ==
  /\ w' = Idle(writer)
  /\ session' = Promoted(After(writer))
  /\ Goto("done")
  /\ LogCredits(o.totals + o.credits)
  /\ UNCHANGED tools

StopsLocally ==
  /\ Ended /\ stream
  /\ o.outcome = "localStop"
  /\ Deliver(w)

(* What runToolSearchWithRetry makes of a run that was only thinking: the  *)
(* second one begins with the client's messages, and the tools found.      *)
Discard(s) == [s EXCEPT !.buf = <<>>]

EndsSilently(credits) ==   \* mutant: the second run's reason is dropped
  /\ IF w.attempt = 1
     THEN w' = NewSSEWriter(2) /\ o' = FirstRound(o.events)
     ELSE Goto("done") /\ UNCHANGED w
  /\ session' = Discard(session)
  /\ LogCredits(credits)
  /\ UNCHANGED tools
RunAgain(credits) ==
  /\ IF w.attempt = 1
     THEN /\ w' = NewSSEWriter(2)
          /\ o' = FirstRound(o.events)
          /\ session' = Discard(session)
     ELSE /\ FinalError
          /\ Goto("done")
          /\ UNCHANGED w
  /\ LogCredits(credits)
  /\ UNCHANGED tools

Finishes ==
  /\ Ended /\ stream
  /\ o.found = "none" /\ o.outcome = "eof"
  /\ \E f \in Finals(w) :
       LET writer == Finish(w, f)
       IN  IF IsEmptyVisibleEndTurn(writer) /\ ~After(writer).promoted
           THEN RunAgain(o.totals + o.credits)
           ELSE Deliver(writer)

(* BuildResponse: the content of the finalized accumulator.                *)
Blocks(acc) ==
  LET present == {b \in {"thinking", "text", "tool_use"} :
                    CASE b = "thinking" -> acc.thinking
                      [] b = "text"     -> acc.text
                      [] b = "tool_use" -> acc.tool}
  IN  Filter(<<"thinking", "text", "tool_use">>, present)

Responds(run) ==
  /\ session' = Written(session, "response")
  /\ o' = [run EXCEPT !.pc = "done"]
  /\ LogCredits(run.totals)

BuildResponse ==
  /\ Ended /\ ~stream
  /\ \E f \in Finals(w) :
       LET acc   == Finalized(w, f)
           round == [o EXCEPT !.totals = @ + o.credits, !.orderedBlocks = @ \o Blocks(acc)]
       IN  IF o.found # "none"
           THEN /\ o' = [round EXCEPT !.pc = "search"]
                /\ w' = acc
                /\ UNCHANGED <<tools, session, seen>>
           ELSE IF IsEmptyVisibleEndTurn(acc) THEN RunAgain(round.totals)
           ELSE Responds(round) /\ w' = acc /\ UNCHANGED tools

----------------------------------------------------------------------------
(* The search, shown to the client as two content blocks.                  *)

SearchRejected ==
  /\ At("search")
  /\ o.found = "malformed"
  /\ Fail

MoreRounds == o.round < MaxRounds

SearchRuns ==
  /\ At("search")
  /\ o.found = "query"
  /\ \E result \in Search :
       /\ tools' = IF result.err THEN tools ELSE PromoteTools(tools, result.names)
       /\ o' = [o EXCEPT !.named = @ \cup ToSet(result.names),
                         !.orderedBlocks = IF stream THEN @
                            ELSE @ \o <<"server_tool_use", "tool_search_tool_result">>,
                         !.pc = IF MoreRounds THEN "build" ELSE "last",
                         !.round = IF MoreRounds THEN @ + 1 ELSE @]
  /\ IF stream THEN Emit(WriteToolSearchResult(WriteServerToolUse(w)))
     ELSE UNCHANGED <<w, session>>
  /\ UNCHANGED seen

(* Max rounds reached: what there is becomes the response.                 *)
MaxRoundsReached ==
  /\ At("last")
  /\ IF stream THEN \E f \in Finals(w) : Deliver(Finish(w, f))
     ELSE Responds(o) /\ UNCHANGED <<w, tools>>

----------------------------------------------------------------------------
(* The client of a stream leaves, or a write to it fails: at its next look *)
(* at the writer, the session or the context the loop returns.             *)
ClientGone ==
  /\ stream /\ o.pc # "done"
  /\ session' = [session EXCEPT !.usable = FALSE]
  /\ Goto("done")
  /\ UNCHANGED <<tools, w, seen>>

Round ==
  \/ BuildPayload \/ CallFails \/ CallSucceeds
  \/ ReadEventOfStream \/ ReadEvent \/ ReadMetering \/ ReadToolSearch \/ ReadEnds
  \/ RoundFails \/ SearchesInStream \/ StopsLocally \/ Finishes \/ BuildResponse
  \/ SearchRejected \/ SearchRuns \/ MaxRoundsReached

Next == (Round \/ ClientGone) /\ UNCHANGED <<stream, refs>>

Spec == Init /\ [][Next]_vars

----------------------------------------------------------------------------
(* Properties.                                                             *)

(* The orchestrator and the writer have the shape of their records.        *)
TypeOK ==
  /\ o \in Orchestrator
  /\ tools \in [active : Seq(Tool), deferred : SUBSET Tool]
  /\ w.blockIndex \in -1..MaxIndex /\ w.todo = <<>>
  /\ session.promoted => session.buf = <<>>

(* Whatever the model was told it had found, in this request or earlier in *)
(* the conversation, the payload of the next call offers: every tool of    *)
(* the messages is active, also in the second run, and no tool is offered  *)
(* twice or both active and deferred.                                      *)
FoundToolsAreOffered ==
  /\ IsInjective(tools.active)
  /\ ToSet(tools.active) \cap tools.deferred = {}
  /\ o.pc = "call" => o.named \subseteq ToSet(o.payload)

Message == Filter(session.out, SSEEvent)
StartEvent == {e \in SSEEvent : e.event = "content_block_start"}
Started == Filter(Message, StartEvent)
ContentBlocks == IF stream THEN [i \in DOMAIN Started |-> Started[i].block] ELSE o.orderedBlocks

(* All rounds together give the client one message of one run: the blocks  *)
(* of the rounds are numbered on, every search is followed by its result,  *)
(* and an error comes between blocks and not after the end.                *)
RoundsMakeOneMessage ==
  LET message == Message
      blocks  == ContentBlocks
  IN  /\ WellFormedSoFar(message)
      /\ \A i \in DOMAIN blocks :
           blocks[i] = "server_tool_use" =>
             i < Len(blocks) /\ blocks[i + 1] = "tool_search_tool_result"
      /\ \A i \in DOMAIN session.out :
           session.out[i].event = "error" => i = Len(session.out) /\ ~Open(message, i)

Delivered(name) == \E i \in DOMAIN session.out : session.out[i].event = name

(* A request whose client stays is answered by exactly one of a complete   *)
(* message and an error, after any number of rounds and runs.              *)
AnsweredOnce ==
  o.pc = "done" /\ session.usable =>
    Cardinality({i \in DOMAIN session.out :
                   session.out[i].event \in {"message_stop", "response", "error"}}) = 1

(* The credits logged for a request that is answered are those metered for *)
(* all its calls, of every round and of a run that was thrown away.        *)
CreditsSummed ==
  o.pc = "done" /\ session.usable /\ ~Delivered("error") =>
    seen.logged = seen.charged + seen.metered

(* Every round's stream is finalized, so that what was held back as the    *)
(* start of a tag or a stop sequence still comes out: ResetAccumulator     *)
(* breaks this.                                                            *)
HeldTextComesOut == ~seen.lost
=============================================================================
