-------------------------- MODULE StreamingMessages --------------------------
(***************************************************************************)
(* One /v1/messages request without tool search: executeWithRetry,         *)
(* callAndHandle, handleStreamingResponse and handleNonStreamingResponse   *)
(* (internal/app/messages/execute.go, response.go), or the native web      *)
(* search (websearch.go).  A streaming request drives an SSEWriter over a  *)
(* streamSession, with the session's heartbeat and the client running next *)
(* to it; any other only accumulates, and writes one body at its end.      *)
(*                                                                         *)
(* The request goroutine's position is req.pc.  Between two critical       *)
(* sections of the session the heartbeat and the client may act, so every  *)
(* Write, Flush and Promote of the SSEWriter is a step.  The upstream may  *)
(* fail the call, send any sequence of events, an error frame, the end of  *)
(* the stream, or break off (a timeout of the idle reader included).       *)
(* Without req.Stream there is no session, and of s only ctxErr counts: it *)
(* stands for the context of the request.                                  *)
(***************************************************************************)
EXTENDS SSEWriter, Filtering

CONSTANTS
  KeepAlive, SseError, JsonError, Cut, HeartbeatOn, MaxKeepAlives,
  UpstreamEvents,   \* what the upstream may send
  MaxEvents    \* bound: events the upstream sends in both attempts

VARIABLES
  s, hb, call, hist,   \* the session: see StreamSession
  w,                   \* the SSEWriter of the current attempt
  req                  \* the request goroutine

vars == <<s, hb, call, hist, w, req>>

Down == INSTANCE StreamSession WITH Payload <- SSEEvent

FirstAttempt == 1
LastAttempt  == 2
ASSUME AttemptsOfTheCode == Attempts = FirstAttempt..LastAttempt
ASSUME UpstreamEventsAreInputs == UpstreamEvents \subseteq Input
ASSUME MaxEventsIsNat == MaxEvents \in Nat
(* An event opens at most two blocks, Finish two more, a search three.     *)
ASSUME IndicesSuffice == MaxIndex >= 2 /\ MaxIndex >= 2 * MaxEvents + 1
(* What StreamSession assumes of its constants.                            *)
ASSUME SessionConstants ==
  /\ Down!Marker \cap SSEEvent = {}
  /\ KeepAlive \notin {SseError, JsonError, Cut}
  /\ SseError \notin {JsonError, Cut}
  /\ JsonError # Cut
  /\ HeartbeatOn \in BOOLEAN
  /\ MaxKeepAlives \in Nat

Request ==
  [ pc      : {"call", "headers", "start", "parse", "emit", "flush", "parsed",
               "finish", "retry", "fail", "error", "callback", "callbackEnd",
               "done"},
    next    : {"parse", "parsed", "finish", "callback", "callbackEnd", "done"},
    outcome : {"none", "eof", "localStop", "broken", "retryable", "fatal"},
    events  : 0..MaxEvents,
    stream  : BOOLEAN,
    search  : BOOLEAN,                     \* a native web search
    body    : Seq({"message", "error"}) ]  \* what was written without a session

(* A streaming web search opens its response before it calls the upstream. *)
NewRequest(stream, search) ==
  [ pc |-> IF stream /\ search THEN "headers" ELSE "call", next |-> "parse",
    outcome |-> "none", events |-> 0, stream |-> stream, search |-> search,
    body |-> <<>> ]

Init ==
  /\ Down!Init
  /\ w = NewSSEWriter(FirstAttempt)
  /\ \E stream, search \in BOOLEAN : req = NewRequest(stream, search)

Goto(pc) == req' = [req EXCEPT !.pc = pc]
After(outcome) == req' = [req EXCEPT !.pc = "parsed", !.outcome = outcome]
Emit(writer, next) ==
  /\ w' = writer
  /\ req' = [req EXCEPT !.pc = "emit", !.next = next]

SessionUnchanged == UNCHANGED <<s, hb, call, hist>>

(* httpx.WriteError, or the JSON body of the message.                      *)
Answer(kind) == req' = [req EXCEPT !.pc = "done", !.body = Append(@, kind)]

Messages  == ~req.search
WebSearch == req.search

----------------------------------------------------------------------------
(* callAndHandle: the upstream call, then the headers and the heartbeat.   *)

CallFails ==
  /\ req.pc = "call"
  /\ Goto("fail")
  /\ UNCHANGED w
  /\ SessionUnchanged

SkipsHeaders ==   \* mutant: the heartbeat is started before the headers
  /\ req.pc = "call" /\ Messages /\ ~s.ctxErr
  /\ Goto(IF req.stream THEN "start" ELSE "parse")
  /\ UNCHANGED w
  /\ SessionUnchanged

(* A call that returns after the context was cancelled fails.              *)
CallSucceeds ==
  /\ req.pc = "call" /\ Messages
  /\ ~s.ctxErr
  /\ Goto(IF req.stream THEN "headers" ELSE "parse")
  /\ UNCHANGED w
  /\ SessionUnchanged

(* SearchWeb, and the message made of its results.                         *)
SearchSucceeds ==
  /\ req.pc = "call" /\ WebSearch
  /\ ~s.ctxErr
  /\ IF req.stream
     THEN Emit(FinishWebSearch(WriteText(WriteWebSearchResult(WriteServerToolUse(w)))), "done")
     ELSE Answer("message") /\ UNCHANGED w
  /\ SessionUnchanged

InstallHeaders ==
  /\ req.pc = "headers"
  /\ Down!SetSSEHeaders
  /\ Goto("start")
  /\ UNCHANGED w

StartHeartbeat ==
  /\ req.pc = "start"
  /\ \/ Down!Start
     \/ s.startDone /\ SessionUnchanged
  /\ Goto(IF WebSearch THEN "call" ELSE "parse")
  /\ UNCHANGED w

----------------------------------------------------------------------------
(* The callback of ParseStream.  ParseStream looks at the context before   *)
(* it reads a frame, the callback at session.Err() before it handles the   *)
(* event; a cancellation between the two counts as one after both.         *)

Reads ==
  /\ req.pc = "parse"
  /\ ~s.ctxErr
  /\ req.events < MaxEvents

ReadEvent ==
  /\ Reads /\ req.stream
  /\ \E e \in UpstreamEvents :
        \E writer \in Handled(w, e) :
           /\ w' = writer
           /\ req' = [req EXCEPT !.pc = "emit", !.events = @ + 1,
                                 !.next = IF e.stop THEN "parsed" ELSE "parse",
                                 !.outcome = IF e.stop THEN "localStop" ELSE "none"]
  /\ SessionUnchanged

(* Without req.Stream the accumulator takes the event, and a local stop    *)
(* does not end the reading.                                               *)
BufferEvent ==
  /\ Reads /\ ~req.stream
  /\ \E e \in UpstreamEvents : w' = Accumulated(w, e)
  /\ req' = [req EXCEPT !.events = @ + 1]
  /\ SessionUnchanged

(* An invalidStateEvent, or an exception frame.                            *)
ReadError ==
  /\ Reads
  /\ \E outcome \in {"retryable", "fatal"} : After(outcome)
  /\ UNCHANGED w
  /\ SessionUnchanged

ReadEOF ==
  /\ req.pc = "parse"
  /\ ~s.ctxErr
  /\ After("eof")
  /\ UNCHANGED w
  /\ SessionUnchanged

(* A malformed frame, a dropped connection, the idle timeout, a cancelled  *)
(* context.                                                                *)
ReadBreaks ==
  /\ req.pc = "parse"
  /\ After("broken")
  /\ UNCHANGED w
  /\ SessionUnchanged

----------------------------------------------------------------------------
(* The SSEWriter's calls on the session, one at a time.                    *)

Rest == Tail(w.todo)

(* The writer's first error makes it skip every later write; the session   *)
(* is then unavailable to the remaining calls too.                         *)
Called(err) ==
  w' = [w EXCEPT !.writeErr = err, !.todo = IF err THEN <<>> ELSE Rest]

Emits(promotes) ==
  /\ req.pc = "emit"
  /\ w.todo # <<>>
  /\ (Head(w.todo).event = "promote") = promotes

CallRefused ==
  /\ Emits(TRUE) \/ Emits(FALSE)
  /\ Down!Unavailable(s)
  /\ Called(TRUE)
  /\ UNCHANGED req
  /\ SessionUnchanged

EmitWrite ==
  /\ Emits(FALSE)
  /\ Down!Write(Head(w.todo))
  /\ UNCHANGED call
  /\ Called(s'.firstErr)
  /\ IF s'.firstErr THEN UNCHANGED req ELSE Goto("flush")

EmitPromote ==
  /\ Emits(TRUE)
  /\ Down!Promote
  /\ Called(s'.firstErr)
  /\ UNCHANGED req

(* Flush, then captureWriterError.                                         *)
EmitFlush ==
  /\ req.pc = "flush"
  /\ \/ Down!Flush
     \/ ~Down!Flushable(s) /\ SessionUnchanged
  /\ w' = [w EXCEPT !.writeErr = s'.firstErr,
                    !.todo = IF s'.firstErr THEN <<>> ELSE @]
  /\ Goto(IF req.next = "callbackEnd" THEN "callbackEnd" ELSE "emit")

(* The callback of ParseStream looks at both errors, Finish at its own.    *)
Failed ==
  \/ req.next \in {"parse", "parsed", "finish"} /\ w.writeErr
  \/ req.next \in {"parse", "parsed"} /\ s.firstErr

EmitDone ==
  /\ req.pc = "emit"
  /\ w.todo = <<>>
  /\ Goto(IF Failed THEN "done" ELSE req.next)
  /\ UNCHANGED w
  /\ SessionUnchanged

----------------------------------------------------------------------------
(* handleStreamingResponse after ParseStream.                              *)

Aborted == w.writeErr \/ s.firstErr \/ s.ctxErr

Abandon ==
  /\ req.pc = "parsed" /\ req.stream
  /\ Aborted
  /\ Goto("done")
  /\ UNCHANGED w
  /\ SessionUnchanged

Parsed(outcomes) ==
  /\ req.pc = "parsed" /\ req.stream
  /\ ~Aborted
  /\ req.outcome \in outcomes

MayRetry == ~s.promoted

(* The class of an upstream error, and the retry of a retryable one.       *)
RetryInvalidState ==
  /\ Parsed({"retryable"})
  /\ MayRetry
  /\ Down!Discard
  /\ Goto("retry")
  /\ UNCHANGED w

ReportError ==
  /\ Parsed({"retryable", "fatal", "broken"})
  /\ req.outcome = "retryable" => ~MayRetry
  /\ Goto("error")
  /\ UNCHANGED w
  /\ SessionUnchanged

FinishMessage ==
  /\ Parsed({"eof"})
  /\ \E f \in Finals(w) : Emit(Finish(w, f), "finish")
  /\ SessionUnchanged

AlreadyFinished ==
  /\ Parsed({"localStop"})
  /\ Goto("finish")
  /\ UNCHANGED w
  /\ SessionUnchanged

EmptyUncommitted ==   \* mutant: a keep-alive forbids the retry
  req.outcome = "eof" /\ IsEmptyVisibleEndTurn(w) /\ ~s.committed
EmptyVisibleEndTurn ==
  req.outcome = "eof" /\ IsEmptyVisibleEndTurn(w) /\ ~s.promoted

RetryEmpty ==
  /\ req.pc = "finish"
  /\ EmptyVisibleEndTurn
  /\ Down!Discard
  /\ Goto("retry")
  /\ UNCHANGED w

(* What was buffered until now (no visible output came) is delivered.      *)
DeliverMessage ==
  /\ req.pc = "finish"
  /\ ~EmptyVisibleEndTurn
  /\ \/ Down!Promote
     \/ (s.promoted \/ Down!Unavailable(s)) /\ SessionUnchanged
  /\ Goto("done")
  /\ UNCHANGED w

----------------------------------------------------------------------------
(* handleNonStreamingResponse after ParseStream.                           *)

Buffered(outcomes) ==
  /\ req.pc = "parsed" /\ ~req.stream
  /\ req.outcome \in outcomes

BufferedInvalidState ==
  /\ Buffered({"retryable"})
  /\ Goto("retry")
  /\ UNCHANGED w
  /\ SessionUnchanged

BufferedError ==
  /\ Buffered({"fatal", "broken"})
  /\ Answer("error")
  /\ UNCHANGED w
  /\ SessionUnchanged

BuildResponse ==
  /\ Buffered({"eof"})
  /\ \E f \in Finals(w) : w' = Finalized(w, f)
  /\ IF IsEmptyVisibleEndTurn(w') THEN Goto("retry") ELSE Answer("message")
  /\ SessionUnchanged

----------------------------------------------------------------------------
(* executeRetry: a second attempt, and no third.                           *)

NextWriter == NewSSEWriter(LastAttempt)

Retry ==
  /\ req.pc = "retry"
  /\ w.attempt = FirstAttempt
  /\ w' = NextWriter
  /\ req' = [NewRequest(req.stream, FALSE) EXCEPT !.events = req.events]
  /\ SessionUnchanged

GivesUpSilently ==   \* mutant: the second attempt's reason is not reported
  /\ req.pc = "retry" /\ w.attempt = LastAttempt
  /\ Goto("done")
  /\ UNCHANGED w
  /\ SessionUnchanged
GiveUp ==
  /\ req.pc = "retry"
  /\ w.attempt = LastAttempt
  /\ Goto("fail")
  /\ UNCHANGED w
  /\ SessionUnchanged

(* WriteFinalError without a callback, or before promotion.                *)
FinalError ==
  /\ req.stream
  /\ \/ req.pc = "fail"
     \/ req.pc = "error" /\ ~s.promoted
  /\ Down!WriteFinalError
  /\ Goto("done")
  /\ UNCHANGED w

FinalErrorRefused ==
  /\ req.pc \in {"fail", "error"} /\ req.stream
  /\ Down!Unavailable(s)
  /\ Goto("done")
  /\ UNCHANGED w
  /\ SessionUnchanged

BodyError ==
  /\ req.pc = "fail" /\ ~req.stream
  /\ Answer("error")
  /\ UNCHANGED w
  /\ SessionUnchanged

(* WriteFinalError with SSEWriter.WriteError as its callback.              *)
FinalErrorCallback ==
  /\ req.pc = "error"
  /\ Down!FinalErrorBegin
  /\ Emit(CloseActiveBlock(w), "callback")

ErrorFrame ==
  /\ req.pc = "callback"
  /\ Down!CallbackError
  /\ w' = [w EXCEPT !.writeErr = s'.firstErr]
  /\ req' = [req EXCEPT !.pc = IF s'.firstErr THEN "callbackEnd" ELSE "flush",
                        !.next = "callbackEnd"]

FinalErrorReturns ==
  /\ req.pc \in {"callback", "callbackEnd"}
  /\ Down!FinalErrorEnd
  /\ Goto("done")
  /\ UNCHANGED w

(* The deferred session.Stop().                                            *)
Stop ==
  /\ req.pc = "done" /\ req.stream
  /\ Down!StopCall
  /\ UNCHANGED <<w, req>>

----------------------------------------------------------------------------
Attempt ==
  \/ CallFails \/ CallSucceeds \/ SearchSucceeds \/ InstallHeaders \/ StartHeartbeat
  \/ ReadEvent \/ BufferEvent \/ ReadError \/ ReadEOF \/ ReadBreaks
  \/ EmitWrite \/ EmitPromote \/ EmitFlush \/ CallRefused \/ EmitDone

Conclusion ==
  \/ Abandon \/ RetryInvalidState \/ ReportError \/ FinishMessage
  \/ AlreadyFinished \/ RetryEmpty \/ DeliverMessage \/ Retry \/ GiveUp
  \/ BufferedInvalidState \/ BufferedError \/ BuildResponse \/ BodyError
  \/ FinalError \/ FinalErrorRefused \/ FinalErrorCallback \/ ErrorFrame
  \/ FinalErrorReturns \/ Stop

RequestGoroutine == Attempt \/ Conclusion

Environment == (Down!Heartbeat \/ Down!ClientGone) /\ UNCHANGED <<w, req>>

Next == RequestGoroutine \/ Environment

(* The client reads the body of an error, and of a web search, without an  *)
(* idle timeout: a call that meets one that stalls waits for as long as    *)
(* its context lives.                                                      *)
Waits == req.pc = "call" /\ ~s.ctxErr

(* Apart from that, a goroutine that can run does: every read of a stream  *)
(* returns because of the idle reader, and a write because the session     *)
(* arms a deadline.                                                        *)
Fairness ==
  /\ WF_vars(~Waits /\ RequestGoroutine)
  /\ WF_vars(Down!Heartbeat /\ UNCHANGED <<w, req>>)

Spec     == Init /\ [][Next]_vars
FairSpec == Spec /\ Fairness

----------------------------------------------------------------------------
(* Properties.                                                             *)

(* The request goroutine and its writer have the shape of their records;   *)
(* the session's own invariant is checked with them.                       *)
TypeOK ==
  /\ Down!TypeOK
  /\ req \in Request
  /\ w.attempt \in Attempts
  /\ w.blockIndex \in -1..MaxIndex
  /\ \A i \in DOMAIN w.todo : w.todo[i] \in SSEEvent \cup {PromoteCall(w.attempt)}

(* The events of the message on the wire, without comments and errors.     *)
Message == Filter(s.out, SSEEvent)

Finished == \E i \in DOMAIN Message : Message[i].event = "message_stop"

(* Whatever the upstream sends and whichever attempts are made, the client *)
(* sees a prefix of one well-formed message of one attempt: one start,     *)
(* blocks numbered from 0 that are opened, filled and closed one after the *)
(* other, one delta, one stop; an error frame comes after a closed block   *)
(* and never after the end of the message.                                 *)
OneWellFormedMessage ==
  /\ WellFormedSoFar(Message)
  /\ SseError \in Down!Elements(s.out) => ~Open(Message, Len(Message) + 1) /\ ~Finished

(* A streaming request whose client is still there and whose socket works  *)
(* ends with exactly one conclusion, the end of a message or one error; a  *)
(* request without a stream is answered by exactly one body, whichever     *)
(* attempts it took.                                                       *)
ConcludedOnce ==
  /\ req.pc = "done" /\ req.stream /\ ~s.ctxErr =>
       Cardinality({i \in DOMAIN s.out : s.out[i] \in {SseError, JsonError}})
         = IF Finished THEN 0 ELSE 1
  /\ ~req.stream => Len(req.body) = IF req.pc = "done" THEN 1 ELSE 0

(* A message that is nothing but thinking is retried or reported, never    *)
(* delivered as complete, unless a local stop ended it.                    *)
NoThinkingOnlyMessage ==
  LET blocks == {Message[i].block : i \in DOMAIN Message}
  IN  /\ Finished /\ ~w.localStop /\ "thinking" \in blocks =>
           blocks \cap {"text", "tool_use"} # {}
      /\ req.body = <<"message">> /\ ~w.localStop /\ w.thinking => w.text \/ w.tool

(* While the proxy waits for the upstream, nothing visible that it has     *)
(* produced is still buffered or unflushed.                                *)
VisibleOutputDelivered ==
  req.stream /\ req.pc = "parse" /\ (w.text \/ w.tool) /\ ~Down!Unavailable(s) =>
    s.buf = <<>> /\ ~s.pendingFlush

(* From the first response headers to the end, through the retry and its   *)
(* second upstream call, a usable session has a running heartbeat.         *)
HeartbeatThroughout ==
  HeartbeatOn /\ s.startDone /\ ~Down!Unavailable(s) /\ ~s.finalizing =>
    hb \in {"check", "select", "fire"}

(* The request uses the session as the session's own specification allows, *)
(* so what is checked and proved there for any caller holds here.          *)
UsesSession == Down!Spec

(* Every request ends, and its heartbeat with it, unless the upstream call *)
(* stalls and the client never leaves.                                     *)
RequestEnds ==
  <>(IF req.stream THEN call = "stopped" ELSE req.pc = "done") \/ <>[]Waits
=============================================================================
