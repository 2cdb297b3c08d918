---------------------------- MODULE StreamSession ----------------------------
(***************************************************************************)
(* internal/app/messages/stream_session.go and gate_writer.go: the object  *)
(* that owns every downstream write of one streaming /v1/messages request. *)
(*                                                                         *)
(* Three activities share it: the request goroutine, which calls the       *)
(* session's methods one at a time; the heartbeat goroutine, which writes  *)
(* ": keep-alive" comments; and the client, which may go away.  Everything *)
(* done while holding mu is one step; WriteFinalError's callback branch    *)
(* releases mu while the callback runs and is therefore several steps, and *)
(* so is Stop.                                                             *)
(*                                                                         *)
(* A helper of the code whose name ends in Locked is an operator from a    *)
(* session record to a session record, so that a method is the composition *)
(* of the helpers it calls.  The record also holds what the response       *)
(* writer (net/http) does with the calls: ctype, sent and out.             *)
(***************************************************************************)
EXTENDS Integers, Sequences, Filtering

CONSTANTS
  Payload,        \* the semantic SSE events a caller may pass to Write
  KeepAlive,      \* the ": keep-alive" comment
  SseError,       \* an "event: error" frame
  JsonError,      \* an application/json error body
  Cut,            \* a truncated piece of any of the above (a short write)
  HeartbeatOn,    \* whether the keep-alive interval is positive
  MaxKeepAlives   \* bound: comments the heartbeat may put on the socket

Marker == {KeepAlive, SseError, JsonError, Cut}
Chunk  == Payload \cup Marker

ASSUME ChunksDiffer ==
  /\ Marker \cap Payload = {}
  /\ KeepAlive \notin {SseError, JsonError, Cut}
  /\ SseError \notin {JsonError, Cut}
  /\ JsonError # Cut
ASSUME HeartbeatOnIsBoolean == HeartbeatOn \in BOOLEAN
ASSUME MaxKeepAlivesIsNat == MaxKeepAlives \in Nat

VARIABLES
  s,     \* the streamSession record and the response writer under it
  hb,    \* program counter of the heartbeat goroutine
  call,  \* the method of several steps the request goroutine is inside
  hist   \* history: payloads accepted by Write, and payloads dropped

sessionVars == <<s, hb, call, hist>>

ContentType == {"none", "sse", "json"}
OK          == 200
Failure     == 502   \* stands for every error status

Session ==
  [ buf          : Seq(Payload),
    statusCode   : {0, OK},
    promoted     : BOOLEAN,
    committed    : BOOLEAN,
    pendingFlush : BOOLEAN,
    firstErr     : BOOLEAN,   \* firstErr # nil
    stopped      : BOOLEAN,
    headersSet   : BOOLEAN,
    finalizing   : BOOLEAN,
    finalized    : BOOLEAN,
    ctxErr       : BOOLEAN,   \* ctx.Err() # nil
    activity     : {0, 1},   \* tokens in the channel of capacity one
    stopClosed   : BOOLEAN,   \* stopCh is closed
    startDone    : BOOLEAN,   \* startOnce has fired
    ctype        : ContentType,                                  \* w.Header()
    sent         : [type : ContentType, status : {0, OK, Failure}],
    out          : Seq(Chunk) ]                                  \* body bytes

HbStates   == {"none", "check", "select", "fire", "exited"}
CallStates == {"idle", "callback", "errored", "stopping", "closed",
               "cancelled", "stopped"}

newStreamSession ==
  [ buf |-> <<>>, statusCode |-> 0, promoted |-> FALSE, committed |-> FALSE,
    pendingFlush |-> FALSE, firstErr |-> FALSE, stopped |-> FALSE,
    headersSet |-> FALSE, finalizing |-> FALSE, finalized |-> FALSE,
    ctxErr |-> FALSE, activity |-> 0, stopClosed |-> FALSE,
    startDone |-> FALSE, ctype |-> "none",
    sent |-> [type |-> "none", status |-> 0], out |-> <<>> ]

----------------------------------------------------------------------------
(* The response writer.  A write of k chunks puts the first n of them and  *)
(* possibly a truncated one on the socket; a short write is an error.      *)

WriteOutcomes(k) ==
  {o \in [n : 0..k, cut : BOOLEAN, err : BOOLEAN] :
      (o.cut => o.n < k) /\ (o.n < k => o.err)}

SendHeader(st, code) ==
  IF st.sent.status # 0 THEN st
  ELSE [st EXCEPT !.sent = [type |-> st.ctype, status |-> code]]

Accepted(chunks, o) ==
  SubSeq(chunks, 1, o.n) \o IF o.cut THEN <<Cut>> ELSE <<>>

----------------------------------------------------------------------------
(* Helpers that run with mu held.                                          *)

Unavailable(st) == st.firstErr \/ st.stopped \/ st.finalized \/ st.ctxErr

StoreError(st) == [st EXCEPT !.firstErr = TRUE, !.ctxErr = TRUE]

WriteSocket(st, chunks, o) ==
  LET w == [SendHeader(st, OK) EXCEPT
              !.out       = @ \o Accepted(chunks, o),
              !.committed = @ \/ Accepted(chunks, o) # <<>>]
  IN  IF o.err THEN StoreError(w) ELSE [w EXCEPT !.pendingFlush = TRUE]

(* A send that never blocks: a second token is dropped.                    *)
SignalEveryFlush(st) == [st EXCEPT !.activity = @ + 1]   \* mutant: no default case
Signal(st) == [st EXCEPT !.activity = 1]

FlushSocket(st, ok) ==
  LET f == SendHeader(st, OK)
  IN  IF st.firstErr THEN st
      ELSE IF ~ok THEN StoreError(f)
      ELSE IF st.pendingFlush
           THEN Signal([f EXCEPT !.pendingFlush = FALSE])
           ELSE f

DirectSSEError(st, o, ok) == FlushSocket(WriteSocket(st, <<SseError>>, o), ok)

DropBuffer(st) == [st EXCEPT !.buf = <<>>, !.statusCode = 0]

(* The history of a dropped buffer: a payload that only the buffer held.   *)
Dropping ==
  hist' = [offered |-> <<>>,
           dropped |-> hist.dropped \cup {s.buf[i] : i \in DOMAIN s.buf}]

----------------------------------------------------------------------------
(* Methods the request goroutine calls.                                    *)

Init ==
  /\ s = newStreamSession
  /\ hb = "none"
  /\ call = "idle"
  /\ hist = [offered |-> <<>>, dropped |-> {}]

LaunchUnchecked(st) == HeartbeatOn   \* mutant: stopped is not tested
Launch(st) == HeartbeatOn /\ ~st.stopped

(* startOnce, the interval test, and the critical section that tests       *)
(* stopped and launches the heartbeat.                                     *)
Start ==
  /\ ~s.startDone
  /\ s' = [s EXCEPT !.startDone = TRUE]
  /\ hb' = IF Launch(s) THEN "check" ELSE hb
  /\ UNCHANGED <<call, hist>>

SetSSEHeaders ==
  /\ s' = IF s.headersSet \/ s.committed \/ s.finalized THEN s
          ELSE [s EXCEPT !.ctype = "sse", !.headersSet = TRUE]
  /\ UNCHANGED <<hb, call, hist>>

WriteHeader ==
  /\ ~(s.firstErr \/ s.stopped \/ s.finalized)
  /\ s' = IF s.promoted THEN SendHeader(s, OK) ELSE [s EXCEPT !.statusCode = OK]
  /\ UNCHANGED <<hb, call, hist>>

(* Write returns an error, and changes nothing, when the session is        *)
(* unavailable.                                                            *)
Write(p) ==
  /\ ~Unavailable(s)
  /\ \/ /\ ~s.promoted
        /\ s' = [s EXCEPT !.buf = Append(@, p)]
     \/ /\ s.promoted
        /\ \E o \in WriteOutcomes(1) : s' = WriteSocket(s, <<p>>, o)
  /\ hist' = [hist EXCEPT !.offered = Append(@, p)]
  /\ UNCHANGED hb

(* Otherwise Flush does nothing.                                           *)
Flushable(st) == st.promoted /\ ~st.firstErr /\ ~st.stopped /\ ~st.finalized

Flush ==
  /\ Flushable(s)
  /\ \E ok \in BOOLEAN : s' = FlushSocket(s, ok)
  /\ UNCHANGED <<hb, call, hist>>

ForgetReset(st) == st   \* mutant: the buffer survives its promotion
ResetBuffer(st) == [st EXCEPT !.buf = <<>>]

(* The buffered events and the deferred status reach the socket; promoted  *)
(* is set even when that fails.                                            *)
Promoted(st, o, ok) ==
  LET p == [IF st.statusCode # 0 THEN SendHeader(st, OK) ELSE st
              EXCEPT !.promoted = TRUE]
      w == IF st.buf = <<>> THEN p ELSE WriteSocket(p, st.buf, o)
      f == FlushSocket(ResetBuffer(w), ok)
  IN  IF w.firstErr THEN w
      ELSE IF f.firstErr THEN f
      ELSE [f EXCEPT !.committed = @ \/ st.statusCode # 0 \/ st.buf # <<>>]

Promote ==
  /\ ~Unavailable(s)
  /\ ~s.promoted
  /\ \E o \in WriteOutcomes(Len(s.buf)), ok \in BOOLEAN : s' = Promoted(s, o, ok)
  /\ UNCHANGED <<hb, call, hist>>

Discard ==
  /\ \/ s.promoted /\ UNCHANGED <<s, hist>>
     \/ ~s.promoted /\ s' = DropBuffer(s) /\ Dropping
  /\ UNCHANGED <<hb, call>>

----------------------------------------------------------------------------
(* WriteFinalError: the committed x promoted decision table.               *)

JSONUnlessPromoted(st) == ~st.promoted   \* mutant: keep-alives are forgotten
JSONAllowed(st) == ~st.promoted /\ ~st.committed

FinalSSE ==
  /\ \/ /\ s.promoted
        /\ UNCHANGED hist
     \/ /\ ~s.promoted /\ s.committed
        /\ Dropping
  /\ LET st == IF s.promoted THEN s ELSE DropBuffer(s)
     IN  \E o \in WriteOutcomes(1), ok \in BOOLEAN :
            s' = [DirectSSEError(st, o, ok) EXCEPT !.finalized = TRUE]

FinalJSON ==
  /\ JSONAllowed(s)
  /\ Dropping
  /\ LET st == SendHeader([DropBuffer(s) EXCEPT !.ctype = "json"], Failure)
     IN  \E o \in WriteOutcomes(1) :
            s' = [WriteSocket(st, <<JsonError>>, o) EXCEPT !.finalized = TRUE]

(* WriteFinalError without a callback, or before promotion.                *)
WriteFinalError ==
  /\ ~Unavailable(s)
  /\ FinalSSE \/ FinalJSON
  /\ UNCHANGED <<hb, call>>

(* With a callback, after promotion: mu is released while it runs.         *)
FinalErrorBegin ==
  /\ call = "idle"
  /\ ~Unavailable(s)
  /\ s.promoted
  /\ s' = [s EXCEPT !.finalizing = TRUE]
  /\ call' = "callback"
  /\ UNCHANGED <<hb, hist>>

(* SSEWriter.WriteError closes the active block, then writes the error     *)
(* event; a failed write makes it skip the rest.                           *)
CallbackError ==
  /\ call = "callback"
  /\ ~Unavailable(s)
  /\ \E o \in WriteOutcomes(1) : s' = WriteSocket(s, <<SseError>>, o)
  /\ call' = "errored"
  /\ UNCHANGED <<hb, hist>>

FinalErrorEnd ==
  /\ \/ call = "errored"
     \/ call = "callback" /\ Unavailable(s)
  /\ s' = [s EXCEPT !.finalizing = FALSE, !.finalized = TRUE]
  /\ call' = "idle"
  /\ UNCHANGED <<hb, hist>>

----------------------------------------------------------------------------
(* Stop: mark, close stopCh, cancel, join.                                 *)

StopMark ==
  /\ call = "idle"
  /\ s' = [s EXCEPT !.stopped = TRUE]
  /\ call' = "stopping"
  /\ UNCHANGED <<hb, hist>>

StopClose ==
  /\ call = "stopping"
  /\ s' = [s EXCEPT !.stopClosed = TRUE]
  /\ call' = "closed"
  /\ UNCHANGED <<hb, hist>>

StopCancel ==
  /\ call = "closed"
  /\ s' = [s EXCEPT !.ctxErr = TRUE]
  /\ call' = "cancelled"
  /\ UNCHANGED <<hb, hist>>

JoinedByDoneChannel == hb = "exited"   \* mutant: waits for one never started
Joined == hb \in {"none", "exited"}

StopJoin ==
  /\ call = "cancelled"
  /\ Joined
  /\ call' = "stopped"
  /\ UNCHANGED <<s, hb, hist>>

----------------------------------------------------------------------------
(* The heartbeat goroutine.                                                *)

KeepAlivesOut == Len(Filter(s.out, {KeepAlive}))

HbOverOncePromoted(st) ==   \* mutant: leaves a promoted stream unattended
  st.stopped \/ st.firstErr \/ st.finalizing \/ st.finalized \/ st.promoted
HbOver(st) == st.stopped \/ st.firstErr \/ st.finalizing \/ st.finalized

HbCheck ==
  /\ hb = "check"
  /\ hb' = IF HbOver(s) THEN "exited" ELSE "select"
  /\ UNCHANGED <<s, call, hist>>

RefusedNotFinalizing(st) == Unavailable(st)   \* mutant: finalizing is not tested
KeepAliveRefused(st) == st.finalizing \/ st.finalized \/ Unavailable(st)

(* The idle timer fires (and wins the select).                             *)
HbTimer ==
  /\ hb = "select"
  /\ KeepAlivesOut < MaxKeepAlives \/ KeepAliveRefused(s)
  /\ hb' = "fire"
  /\ UNCHANGED <<s, call, hist>>

HbActivity ==
  /\ hb = "select"
  /\ s.activity > 0
  /\ s' = [s EXCEPT !.activity = @ - 1]
  /\ hb' = "check"
  /\ UNCHANGED <<call, hist>>

HbDone ==
  /\ hb = "select"
  /\ s.stopClosed \/ s.ctxErr
  /\ hb' = "exited"
  /\ UNCHANGED <<s, call, hist>>

WriteKeepAlive ==
  /\ hb = "fire"
  /\ \/ /\ KeepAliveRefused(s)
        /\ hb' = "exited"
        /\ UNCHANGED s
     \/ /\ ~KeepAliveRefused(s)
        /\ \E o \in WriteOutcomes(1), ok \in BOOLEAN :
              s' = FlushSocket(WriteSocket(s, <<KeepAlive>>, o), ok)
        /\ hb' = IF s'.firstErr THEN "exited" ELSE "check"
  /\ UNCHANGED <<call, hist>>

Heartbeat == HbCheck \/ HbTimer \/ HbActivity \/ HbDone \/ WriteKeepAlive

(* The client disconnects: net/http cancels the request context.           *)
ClientGone ==
  /\ ~s.ctxErr
  /\ s' = [s EXCEPT !.ctxErr = TRUE]
  /\ UNCHANGED <<hb, call, hist>>

----------------------------------------------------------------------------
(* The session under an arbitrary request goroutine.  Its calls are        *)
(* sequential; it installs the headers before it writes or starts the      *)
(* heartbeat, as the comment on Header asks; only Start may come from      *)
(* another goroutine, as the tests do.                                     *)

RequestCall ==
  \/ call = "idle" /\ SetSSEHeaders
  \/ call = "idle" /\ s.headersSet /\ (WriteHeader \/ Flush \/ Promote \/ Discard)
  \/ call = "idle" /\ WriteFinalError
  \/ /\ call = "idle" \/ call = "callback"
     /\ s.headersSet
     /\ \E p \in Payload : Write(p)
     /\ UNCHANGED call
  \/ call \in {"callback", "errored"} /\ Flush
  \/ FinalErrorBegin
  \/ CallbackError

StopCall == StopMark \/ StopClose \/ StopCancel \/ StopJoin

Next ==
  \/ RequestCall
  \/ FinalErrorEnd
  \/ StopCall
  \/ Heartbeat
  \/ (s.headersSet \/ s.finalized) /\ Start
  \/ ClientGone

(* The scheduler runs the heartbeat, a started Stop finishes its own       *)
(* steps, and the timer of an idle heartbeat fires.                        *)
Fairness ==
  /\ WF_sessionVars(HbCheck)
  /\ WF_sessionVars(HbTimer)
  /\ WF_sessionVars(HbActivity)
  /\ WF_sessionVars(HbDone)
  /\ WF_sessionVars(WriteKeepAlive)
  /\ WF_sessionVars(StopClose)
  /\ WF_sessionVars(StopCancel)
  /\ WF_sessionVars(StopJoin)

Spec     == Init /\ [][Next]_sessionVars
FairSpec == Spec /\ Fairness

----------------------------------------------------------------------------
(* Properties.                                                             *)

Elements(q) == {q[i] : i \in DOMAIN q}

(* Every variable has the shape of the Go fields it stands for.            *)
TypeOK ==
  /\ s \in Session
  /\ hb \in HbStates
  /\ call \in CallStates
  /\ hist \in [offered : Seq(Payload), dropped : SUBSET Payload]

(* The body always agrees with the status line and content type it was     *)
(* sent under: a JSON error body comes with an error status and alone,     *)
(* events, comments and SSE errors come under 200 text/event-stream - even *)
(* though the heartbeat may commit the response at any moment before       *)
(* WriteFinalError picks the format.                                       *)
FramingMatchesHeader ==
  /\ s.sent.type = "json" =>
        /\ s.sent.status = Failure
        /\ s.out \in {<<>>, <<JsonError>>, <<Cut>>}
  /\ JsonError \in Elements(s.out) => s.sent.type = "json"
  /\ Elements(s.out) \cap (Payload \cup {KeepAlive, SseError}) # {} =>
        s.sent = [type |-> "sse", status |-> OK]

(* The events on the wire, followed by those still buffered, are exactly   *)
(* the events Write accepted and nobody discarded, in order, each once; a  *)
(* broken transport leaves a prefix of them.  What Discard or an unpromoted*)
(* WriteFinalError dropped (an attempt that is retried) never comes out.   *)
DeliveredInOrder ==
  LET events == Filter(s.out, Payload)
  IN  IF s.firstErr
      THEN /\ Len(events) <= Len(hist.offered)
           /\ events = SubSeq(hist.offered, 1, Len(events))
      ELSE events \o s.buf = hist.offered

(* Stop's doc: "Once it returns, the session cannot write additional       *)
(* downstream bytes": no goroutine that could write is left, even when     *)
(* Start runs concurrently with Stop or after it.                          *)
StopJoinsHeartbeat == call = "stopped" => hb \notin {"check", "select", "fire"}

(* The mapping to what a request promises.  A frame written by the         *)
(* callback of WriteFinalError ends the response before finalized is set.  *)
Ended ==
  s.firstErr \/ s.stopped \/ s.finalized \/ SseError \in Elements(s.out)

Response == INSTANCE DownstreamResponse WITH out <- s.out, ended <- Ended

(* The session implements the promise: nothing follows an error frame, a   *)
(* transport failure or Stop, not even a keep-alive written in the window  *)
(* in which WriteFinalError has released mu for its callback.              *)
ImplementsResponse == Response!Spec

(* An idle client of a started session is sent a first comment unless the  *)
(* session ends.                                                           *)
IdleClientIsKeptAlive ==
  (hb = "check") ~> (KeepAlivesOut > 0 \/ Unavailable(s) \/ s.finalizing)
=============================================================================
