---------------------- MODULE StreamingMessagesProofs ----------------------
(***************************************************************************)
(* Theorems about one /v1/messages request, for every set of upstream      *)
(* events and every bound on their number.                                 *)
(*                                                                         *)
(* The request and its session are two state machines that share s, hb,    *)
(* call and hist.  The inductive invariant Inv joins the session's own     *)
(* (IInv of StreamSessionProofs) with Place: which method of the session   *)
(* the request goroutine is inside at each of its positions, and where the *)
(* headers are known to be installed.  From it every step of the request   *)
(* is a step of StreamSession, so that the session's theorems hold here,   *)
(* where its caller is the code's and not an arbitrary one.                *)
(*                                                                         *)
(* The second part is about the message.  MInv adds to Inv what the        *)
(* session has delivered (DInv of StreamSessionProofs) and Script, which   *)
(* says that what the session was offered, continued by the calls the      *)
(* writer still has to make, tells one well-formed message.                *)
(*                                                                         *)
(* The third part is about the client's view of it.  ShowAt says where the *)
(* promise of a writer with visible output stands: its call on the session *)
(* is still to be made, or the session is promoted or lost, and a promoted *)
(* session has an empty buffer and, but for the write just made, nothing   *)
(* unflushed.                                                              *)
(*                                                                         *)
(* The fourth part is about how a request ends.  CInv says that a session  *)
(* is lost only with its context or by Stop, that the story of a request   *)
(* about to conclude has its end, and that errors are counted.             *)
(*                                                                         *)
(* The last part is about what a message is made of.  TInv tallies the     *)
(* blocks of the story: a thinking block comes from thinking that the      *)
(* accumulator has seen, and a session is promoted only for output or for  *)
(* a message that is not an empty end of turn.                             *)
(*                                                                         *)
(* StreamSession is used under two instances, Down of StreamingMessages    *)
(* and DownP, which brings the lemmas; SameActions says they are the same. *)
(***************************************************************************)
EXTENDS StreamingMessages, SSEWriterProofs

DownP == INSTANCE StreamSessionProofs WITH Payload <- SSEEvent

(* The two instances of the session are the same machine.                  *)
LEMMA SameKeepAlives == Down!KeepAlivesOut = DownP!KeepAlivesOut
BY DEF Down!KeepAlivesOut, DownP!KeepAlivesOut, Down!Filter, DownP!Filter

LEMMA SameActions ==
  /\ (Down!Start <=> DownP!Start)
  /\ (Down!SetSSEHeaders <=> DownP!SetSSEHeaders)
  /\ (Down!WriteHeader <=> DownP!WriteHeader)
  /\ (Down!Flush <=> DownP!Flush)
  /\ (Down!Promote <=> DownP!Promote)
  /\ (Down!Discard <=> DownP!Discard)
  /\ (Down!WriteFinalError <=> DownP!WriteFinalError)
  /\ (Down!FinalErrorBegin <=> DownP!FinalErrorBegin)
  /\ (Down!CallbackError <=> DownP!CallbackError)
  /\ (Down!FinalErrorEnd <=> DownP!FinalErrorEnd)
  /\ (Down!StopCall <=> DownP!StopCall)
  /\ (Down!HbCheck <=> DownP!HbCheck)
  /\ (Down!HbTimer <=> DownP!HbTimer)
  /\ (Down!HbActivity <=> DownP!HbActivity)
  /\ (Down!HbDone <=> DownP!HbDone)
  /\ (Down!WriteKeepAlive <=> DownP!WriteKeepAlive)
  /\ (Down!ClientGone <=> DownP!ClientGone)
  /\ (\A p : Down!Write(p) <=> DownP!Write(p))
<1>1. Down!Start <=> DownP!Start
  BY DEF Down!Start, DownP!Start, Down!Launch, DownP!Launch
<1>2. Down!SetSSEHeaders <=> DownP!SetSSEHeaders
  BY DEF Down!SetSSEHeaders, DownP!SetSSEHeaders
<1>3. Down!WriteHeader <=> DownP!WriteHeader
  BY DEF Down!WriteHeader, DownP!WriteHeader, Down!SendHeader, DownP!SendHeader,
     Down!OK, DownP!OK
<1>4. ASSUME NEW p PROVE Down!Write(p) <=> DownP!Write(p)
  BY DEF Down!Write, DownP!Write, Down!Unavailable, DownP!Unavailable,
     Down!WriteOutcomes, DownP!WriteOutcomes, Down!WriteSocket, DownP!WriteSocket,
     Down!SendHeader, DownP!SendHeader, Down!Accepted, DownP!Accepted,
     Down!StoreError, DownP!StoreError, Down!OK, DownP!OK
<1>5. Down!Flush <=> DownP!Flush
  BY DEF Down!Flush, DownP!Flush, Down!Flushable, DownP!Flushable,
     Down!FlushSocket, DownP!FlushSocket, Down!SendHeader, DownP!SendHeader,
     Down!StoreError, DownP!StoreError, Down!OK, DownP!OK, Down!Signal, DownP!Signal
<1>6. Down!Promote <=> DownP!Promote
  <2>1. ASSUME NEW st PROVE Down!SendHeader(st, Down!OK) = DownP!SendHeader(st, DownP!OK)
    BY DEF Down!SendHeader, DownP!SendHeader, Down!OK, DownP!OK
  <2>2. ASSUME NEW st, NEW chunks, NEW o
        PROVE  Down!WriteSocket(st, chunks, o) = DownP!WriteSocket(st, chunks, o)
    BY DEF Down!WriteSocket, DownP!WriteSocket, Down!SendHeader, DownP!SendHeader,
       Down!Accepted, DownP!Accepted, Down!StoreError, DownP!StoreError, Down!OK, DownP!OK
  <2>3. ASSUME NEW st, NEW ok
        PROVE  Down!FlushSocket(st, ok) = DownP!FlushSocket(st, ok)
    BY DEF Down!FlushSocket, DownP!FlushSocket, Down!SendHeader, DownP!SendHeader,
       Down!StoreError, DownP!StoreError, Down!OK, DownP!OK, Down!Signal, DownP!Signal
  <2>4. ASSUME NEW o, NEW ok PROVE Down!Promoted(s, o, ok) = DownP!Promoted(s, o, ok)
    <3> DEFINE h1 == Down!SendHeader(s, Down!OK)
               h2 == DownP!SendHeader(s, DownP!OK)
               p1 == [IF s.statusCode # 0 THEN h1 ELSE s EXCEPT !.promoted = TRUE]
               p2 == [IF s.statusCode # 0 THEN h2 ELSE s EXCEPT !.promoted = TRUE]
               w1 == IF s.buf = <<>> THEN p1 ELSE Down!WriteSocket(p1, s.buf, o)
               w2 == IF s.buf = <<>> THEN p2 ELSE DownP!WriteSocket(p2, s.buf, o)
               f1 == Down!FlushSocket(Down!ResetBuffer(w1), ok)
               f2 == DownP!FlushSocket(DownP!ResetBuffer(w2), ok)
               Last(x, y) == IF x.firstErr THEN x ELSE IF y.firstErr THEN y
                 ELSE [y EXCEPT !.committed = @ \/ s.statusCode # 0 \/ s.buf # <<>>]
    <3>1. Down!Promoted(s, o, ok) = Last(w1, f1) /\ DownP!Promoted(s, o, ok) = Last(w2, f2)
      BY Zenon DEF Down!Promoted, DownP!Promoted
    <3>2. Down!ResetBuffer(w1) = DownP!ResetBuffer(w1)
      <4> HIDE DEF w1
      <4> QED  BY DEF Down!ResetBuffer, DownP!ResetBuffer
    <3> HIDE DEF Last, f1, f2
    <3>3. p1 = p2
      <4>1. h1 = h2  BY <2>1
      <4> HIDE DEF h1, h2
      <4> QED  BY <4>1
    <3>4. w1 = w2
      <4> HIDE DEF p1, p2
      <4> QED  BY <2>2, <3>3
    <3>5. f1 = f2
      <4> HIDE DEF w1, w2
      <4> QED  BY <2>3, <3>2, <3>4 DEF f1, f2
    <3> HIDE DEF w1, w2
    <3> QED  BY <3>1, <3>4, <3>5
  <2> QED
    BY <2>4 DEF Down!Promote, DownP!Promote, Down!Unavailable, DownP!Unavailable,
     Down!WriteOutcomes, DownP!WriteOutcomes
<1>7. Down!Discard <=> DownP!Discard
  BY DEF Down!Discard, DownP!Discard, Down!DropBuffer, DownP!DropBuffer,
     Down!Dropping, DownP!Dropping
<1>8. Down!WriteFinalError <=> DownP!WriteFinalError
  BY DEF Down!WriteFinalError, DownP!WriteFinalError,
     Down!Unavailable, DownP!Unavailable, Down!FinalSSE, DownP!FinalSSE,
     Down!FinalJSON, DownP!FinalJSON, Down!JSONAllowed, DownP!JSONAllowed,
     Down!DropBuffer, DownP!DropBuffer, Down!Dropping, DownP!Dropping,
     Down!WriteOutcomes, DownP!WriteOutcomes,
     Down!DirectSSEError, DownP!DirectSSEError, Down!Failure, DownP!Failure,
     Down!WriteSocket, DownP!WriteSocket, Down!SendHeader, DownP!SendHeader,
     Down!Accepted, DownP!Accepted, Down!StoreError, DownP!StoreError,
     Down!OK, DownP!OK, Down!FlushSocket, DownP!FlushSocket,
     Down!Signal, DownP!Signal
<1>9. Down!FinalErrorBegin <=> DownP!FinalErrorBegin
  BY DEF Down!FinalErrorBegin, DownP!FinalErrorBegin,
     Down!Unavailable, DownP!Unavailable
<1>10. Down!CallbackError <=> DownP!CallbackError
  BY DEF Down!CallbackError, DownP!CallbackError, Down!Unavailable, DownP!Unavailable,
     Down!WriteOutcomes, DownP!WriteOutcomes, Down!WriteSocket, DownP!WriteSocket,
     Down!SendHeader, DownP!SendHeader, Down!Accepted, DownP!Accepted,
     Down!StoreError, DownP!StoreError, Down!OK, DownP!OK
<1>11. Down!FinalErrorEnd <=> DownP!FinalErrorEnd
  BY DEF Down!FinalErrorEnd, DownP!FinalErrorEnd, Down!Unavailable, DownP!Unavailable
<1>12. Down!StopCall <=> DownP!StopCall
  BY DEF Down!StopCall, DownP!StopCall, Down!StopMark, DownP!StopMark,
     Down!StopClose, DownP!StopClose, Down!StopCancel, DownP!StopCancel,
     Down!StopJoin, DownP!StopJoin, Down!Joined, DownP!Joined
<1>13. Down!HbCheck <=> DownP!HbCheck
  BY DEF Down!HbCheck, DownP!HbCheck, Down!HbOver, DownP!HbOver
<1>14. Down!HbTimer <=> DownP!HbTimer
  BY SameKeepAlives DEF Down!HbTimer, DownP!HbTimer, Down!KeepAliveRefused, DownP!KeepAliveRefused,
     Down!Unavailable, DownP!Unavailable
<1>15. Down!HbActivity <=> DownP!HbActivity
  BY DEF Down!HbActivity, DownP!HbActivity
<1>16. Down!HbDone <=> DownP!HbDone
  BY DEF Down!HbDone, DownP!HbDone
<1>17. Down!WriteKeepAlive <=> DownP!WriteKeepAlive
  BY DEF Down!WriteKeepAlive, DownP!WriteKeepAlive,
     Down!KeepAliveRefused, DownP!KeepAliveRefused,
     Down!Unavailable, DownP!Unavailable, Down!WriteOutcomes, DownP!WriteOutcomes,
     Down!WriteSocket, DownP!WriteSocket, Down!SendHeader, DownP!SendHeader,
     Down!Accepted, DownP!Accepted, Down!StoreError, DownP!StoreError,
     Down!OK, DownP!OK, Down!FlushSocket, DownP!FlushSocket,
     Down!Signal, DownP!Signal
<1>18. Down!ClientGone <=> DownP!ClientGone
  BY DEF Down!ClientGone, DownP!ClientGone
<1> QED
  BY <1>1, <1>2, <1>3, <1>4, <1>5, <1>6, <1>7, <1>8, <1>9, <1>10, <1>11, <1>12,
     <1>13, <1>14, <1>15, <1>16, <1>17, <1>18

LEMMA SameSpec ==
  /\ (Down!Init <=> DownP!Init)
  /\ ([Down!Next]_(Down!sessionVars) <=> [DownP!Next]_(DownP!sessionVars))
<1>1. Down!Init <=> DownP!Init
  BY DEF Down!Init, DownP!Init, Down!newStreamSession, DownP!newStreamSession
<1>2. [Down!Next]_(Down!sessionVars) <=> [DownP!Next]_(DownP!sessionVars)
  BY SameActions
  DEF Down!Next, DownP!Next, Down!RequestCall, DownP!RequestCall,
     Down!Heartbeat, DownP!Heartbeat, Down!sessionVars, DownP!sessionVars
<1> QED  BY <1>1, <1>2

----------------------------------------------------------------------------
(* A call done, or one that failed.                                        *)
LEMMA CalledWithin ==
  ASSUME NEW hi \in Int, Within(w, hi), w.todo # <<>>, NEW err \in BOOLEAN, Called(err)
  PROVE  Within(w', hi)
<1> DEFINE q == IF err THEN <<>> ELSE Rest
<1>1. w \in WriterState /\ w.todo \in Seq(Calls)  BY DEF Within, WriterState
<1>2. q \in Seq(Calls)
  <2>1. Tail(w.todo) \in Seq(Calls)  BY <1>1
  <2> QED  BY <2>1 DEF Rest
<1>3. w' = [w EXCEPT !.writeErr = err, !.todo = q]  BY DEF Called
<1> HIDE DEF q
<1>4. w' \in WriterState /\ w'.blockIndex = w.blockIndex /\ w'.activeType = w.activeType
  BY <1>1, <1>2, <1>3 DEF WriterState
<1> QED  BY <1>4 DEF Within

----------------------------------------------------------------------------
(* The inductive invariant: where the request goroutine is, inside which   *)
(* method of the session, and how far its writer has come.                 *)

CallAt ==
  /\ req.pc \in {"call", "headers", "start", "parse", "parsed", "finish", "retry",
                 "fail", "error"} => call = "idle"
  /\ req.pc = "emit" => req.next # "callbackEnd"
  /\ req.pc \in {"emit", "flush"} /\ req.next # "callbackEnd" =>
       call = IF req.next = "callback" THEN "callback" ELSE "idle"
  /\ req.pc = "callback" => call = "callback"
  /\ req.pc = "callbackEnd" \/ (req.pc = "flush" /\ req.next = "callbackEnd") =>
       call = "errored"

(* The headers come before everything that is written, the end last.       *)
Writing ==
  \/ req.pc \in {"start", "emit", "flush", "callback", "callbackEnd", "finish"}
  \/ req.pc \in {"parse", "parsed"} /\ req.stream
  \/ req.pc = "call" /\ req.stream /\ req.search

HeadersAt ==
  /\ Writing => s.headersSet
  /\ s.finalized => req.pc = "done"

(* The largest index of a block the writer may have opened: an event opens *)
(* two at most, and the end of the message two more.                       *)
Early == req.pc \in {"call", "headers", "start"}
Reading ==
  \/ req.pc = "parse"
  \/ req.pc \in {"emit", "flush"} /\ req.next = "parse"
  \/ req.pc = "parsed" /\ req.outcome = "eof"

WriterAt ==
  /\ Within(w, MaxIndex)
  /\ Early => Within(w, -1)
  /\ Reading => Within(w, 2 * req.events - 1)

StopsLocally ==
  req.pc \in {"emit", "flush"} /\ req.next = "parsed" => req.outcome = "localStop"

Place == req \in Request /\ CallAt /\ HeadersAt /\ WriterAt /\ StopsLocally

Inv == DownP!IInv /\ Place

SessionStep == [DownP!Next]_(DownP!sessionVars)

----------------------------------------------------------------------------
(* What the helpers of the request goroutine do to its record.             *)

PcStates == {"call", "headers", "start", "parse", "emit", "flush", "parsed",
             "finish", "retry", "fail", "error", "callback", "callbackEnd", "done"}
NextStates == {"parse", "parsed", "finish", "callback", "callbackEnd", "done"}

SameRequest == req'.stream = req.stream /\ req'.search = req.search

LEMMA GotoFields ==
  ASSUME req \in Request, NEW pc \in PcStates, Goto(pc)
  PROVE  /\ req' \in Request /\ SameRequest /\ req'.pc = pc /\ req'.next = req.next
         /\ req'.outcome = req.outcome /\ req'.events = req.events /\ req'.body = req.body
BY DEF Goto, Request, PcStates, SameRequest

LEMMA AfterFields ==
  ASSUME req \in Request, NEW o \in {"none", "eof", "localStop", "broken", "retryable", "fatal"},
         After(o)
  PROVE  /\ req' \in Request /\ SameRequest /\ req'.pc = "parsed" /\ req'.next = req.next
         /\ req'.outcome = o /\ req'.events = req.events /\ req'.body = req.body
BY DEF After, Request, SameRequest

LEMMA EmitFields ==
  ASSUME req \in Request, NEW wr, NEW next \in NextStates, Emit(wr, next)
  PROVE  /\ w' = wr
         /\ req' \in Request /\ SameRequest /\ req'.pc = "emit" /\ req'.next = next
         /\ req'.outcome = req.outcome /\ req'.events = req.events /\ req'.body = req.body
BY DEF Emit, Request, NextStates, SameRequest

LEMMA AnswerFields ==
  ASSUME req \in Request, NEW kind \in {"message", "error"}, Answer(kind)
  PROVE  /\ req' \in Request /\ SameRequest /\ req'.pc = "done" /\ req'.next = req.next
         /\ req'.outcome = req.outcome /\ req'.events = req.events
<1> DEFINE b == Append(req.body, kind)
<1>1. b \in Seq({"message", "error"})  BY DEF Request
<1>2. req' = [req EXCEPT !.pc = "done", !.body = b]  BY DEF Answer
<1> HIDE DEF b
<1> QED  BY <1>1, <1>2 DEF Request, SameRequest

(* The session as the request goroutine finds it.                          *)
LEMMA SessionFacts ==
  ASSUME Inv
  PROVE  /\ s \in DownP!Session
         /\ s.promoted \/ s.committed => s.headersSet \/ s.finalized
         /\ call \in {"callback", "errored"} => s.promoted
BY DEF Inv, DownP!IInv, DownP!TypeOK, DownP!Framed, DownP!CallbackPromoted

LEMMA SessionStays ==
  ASSUME Inv, SessionUnchanged
  PROVE  s' = s /\ call' = call /\ SessionStep
BY DEF SessionUnchanged, SessionStep, DownP!sessionVars

----------------------------------------------------------------------------
(* One lemma per action.  First those that leave the session alone.        *)

LEMMA GotoKeeps ==
  ASSUME Inv, SessionUnchanged, UNCHANGED w, NEW pc \in PcStates \ {"emit", "flush"}, Goto(pc),
         pc \in {"call", "headers", "start", "parse", "parsed", "finish", "retry",
                 "fail", "error"} => call = "idle",
         pc \notin {"callback", "callbackEnd"},
         Writing' => s.headersSet, s.finalized => pc = "done",
         pc \in {"call", "headers", "start"} => Early,
         pc = "parse" => Within(w, 2 * req.events - 1),
         pc # "parsed"
  PROVE  Place' /\ SessionStep
<1>1. req \in Request /\ WriterAt  BY DEF Inv, Place
<1>2. /\ req' \in Request /\ SameRequest /\ req'.pc = pc /\ req'.events = req.events
  BY <1>1, GotoFields
<1>3. s' = s /\ call' = call /\ SessionStep /\ w' = w  BY SessionStays
<1>4. CallAt'  BY <1>2, <1>3 DEF CallAt
<1>5. HeadersAt'  BY <1>2, <1>3 DEF HeadersAt
<1>6. WriterAt'  BY <1>1, <1>2, <1>3 DEF WriterAt, Within, Early, Reading
<1>7. StopsLocally'  BY <1>2 DEF StopsLocally
<1> QED  BY <1>2, <1>3, <1>4, <1>5, <1>6, <1>7 DEF Place

LEMMA CallReturns ==
  ASSUME Inv, CallFails \/ CallSucceeds
  PROVE  Place' /\ SessionStep
<1>1. /\ req \in Request /\ req.pc = "call" /\ call = "idle" /\ Early /\ ~s.finalized
      /\ Within(w, -1) /\ req.events \in Nat
  BY DEF CallFails, CallSucceeds, Inv, Place, CallAt, HeadersAt, WriterAt, Early, Request
<1>2. Within(w, 2 * req.events - 1)  BY <1>1 DEF Within
<1>3. CASE CallFails
  <2>1. "fail" \in PcStates \ {"emit", "flush"} /\ Goto("fail") /\ SessionUnchanged /\ UNCHANGED w
    BY <1>3 DEF CallFails, PcStates
  <2>2. req'.pc = "fail"  BY <1>1, <2>1, GotoFields
  <2>3. ~Writing'  BY <2>2 DEF Writing
  <2> QED  BY <1>1, <2>1, <2>3, GotoKeeps
<1>4. CASE CallSucceeds
  <2> DEFINE pc == IF req.stream THEN "headers" ELSE "parse"
  <2>1. pc \in PcStates \ {"emit", "flush"} /\ Goto(pc) /\ SessionUnchanged /\ UNCHANGED w
    BY <1>4 DEF CallSucceeds, PcStates
  <2>2. req'.pc = pc /\ SameRequest  BY <1>1, <2>1, GotoFields
  <2>3. ~Writing'  BY <2>2 DEF Writing, SameRequest
  <2>4. pc \in {"headers", "parse"}  OBVIOUS
  <2> HIDE DEF pc
  <2> QED  BY <1>1, <1>2, <2>1, <2>3, <2>4, GotoKeeps
<1> QED  BY <1>3, <1>4

LEMMA StepAside ==
  ASSUME Inv,
         \/ Abandon \/ ReportError \/ AlreadyFinished \/ BufferedInvalidState
         \/ GiveUp \/ FinalErrorRefused
  PROVE  Place' /\ SessionStep
<1>1. PICK pc \in {"done", "error", "finish", "retry", "fail"} :
        /\ Goto(pc) /\ SessionUnchanged /\ UNCHANGED w
        /\ req.pc \in {"parsed", "retry", "fail", "error"}
        /\ pc = "finish" => req.pc = "parsed" /\ req.stream
  BY DEF Abandon, ReportError, AlreadyFinished, BufferedInvalidState, GiveUp,
         FinalErrorRefused, Parsed, Buffered
<1>2. req \in Request /\ call = "idle" /\ ~s.finalized /\ (pc = "finish" => s.headersSet)
  BY <1>1 DEF Inv, Place, CallAt, HeadersAt, Writing
<1>3. pc \in PcStates \ {"emit", "flush"} /\ pc \notin {"call", "headers", "start", "parse", "parsed"}
  BY <1>1 DEF PcStates
<1>4. req'.pc = pc  BY <1>1, <1>2, <1>3, GotoFields
<1>5. Writing' => s.headersSet  BY <1>1, <1>2, <1>4 DEF Writing
<1> QED  BY <1>1, <1>2, <1>3, <1>5, GotoKeeps

LEMMA EmitDoneKeeps ==
  ASSUME Inv, EmitDone
  PROVE  Place' /\ SessionStep
<1> DEFINE pc == IF Failed THEN "done" ELSE req.next
<1>1. Goto(pc) /\ SessionUnchanged /\ UNCHANGED w /\ req.pc = "emit"  BY DEF EmitDone
<1>2. /\ req \in Request /\ CallAt /\ HeadersAt /\ WriterAt /\ StopsLocally
      /\ s.headersSet /\ ~s.finalized
  BY <1>1 DEF Inv, Place, HeadersAt, Writing
<1>3. pc \in NextStates /\ pc \in PcStates /\ (pc = "done" \/ pc = req.next)
  BY <1>2 DEF Request, NextStates, PcStates
<1> HIDE DEF pc
<1>4. /\ req' \in Request /\ SameRequest /\ req'.pc = pc /\ req'.events = req.events
      /\ req'.next = req.next /\ req'.outcome = req.outcome
  BY <1>1, <1>2, <1>3, GotoFields
<1>5. s' = s /\ call' = call /\ SessionStep /\ w' = w  BY <1>1, SessionStays
<1>6. CallAt'
  BY <1>1, <1>2, <1>3, <1>4, <1>5 DEF CallAt, NextStates
<1>7. HeadersAt'  BY <1>2, <1>4, <1>5 DEF HeadersAt
<1>8. WriterAt'
  <2>1. ~Early'  BY <1>3, <1>4 DEF Early, NextStates
  <2>2. Reading' => Reading
    BY <1>1, <1>2, <1>3, <1>4 DEF Reading, StopsLocally, NextStates
  <2> QED  BY <1>2, <1>4, <1>5, <2>1, <2>2 DEF WriterAt, Within
<1>9. StopsLocally'  BY <1>3, <1>4 DEF StopsLocally, NextStates
<1> QED  BY <1>4, <1>5, <1>6, <1>7, <1>8, <1>9 DEF Place

LEMMA ReadingEnds ==
  ASSUME Inv, ReadError \/ ReadEOF \/ ReadBreaks
  PROVE  Place' /\ SessionStep
<1>1. PICK o \in {"retryable", "fatal", "eof", "broken"} :
        After(o) /\ SessionUnchanged /\ UNCHANGED w /\ req.pc = "parse"
  BY DEF ReadError, ReadEOF, ReadBreaks, Reads
<1>2. req \in Request /\ CallAt /\ HeadersAt /\ WriterAt  BY DEF Inv, Place
<1>3. /\ req' \in Request /\ SameRequest /\ req'.pc = "parsed" /\ req'.events = req.events
      /\ req'.outcome = o
  BY <1>1, <1>2, AfterFields
<1>4. s' = s /\ call' = call /\ SessionStep /\ w' = w  BY <1>1, SessionStays
<1>5. CallAt'  BY <1>1, <1>2, <1>3, <1>4 DEF CallAt
<1>6. HeadersAt'  BY <1>1, <1>2, <1>3, <1>4 DEF HeadersAt, Writing, SameRequest
<1>7. WriterAt'  BY <1>1, <1>2, <1>3, <1>4 DEF WriterAt, Within, Early, Reading
<1>8. StopsLocally'  BY <1>3 DEF StopsLocally
<1> QED  BY <1>3, <1>4, <1>5, <1>6, <1>7, <1>8 DEF Place

LEMMA AnswerKeeps ==
  ASSUME Inv, NEW kind \in {"message", "error"}, Answer(kind), Within(w', MaxIndex),
         SessionUnchanged
  PROVE  Place' /\ SessionStep
<1>1. req \in Request  BY DEF Inv, Place
<1>2. req' \in Request /\ req'.pc = "done"  BY <1>1, AnswerFields
<1>3. s' = s /\ call' = call /\ SessionStep  BY SessionStays
<1>4. CallAt' /\ HeadersAt' /\ WriterAt' /\ StopsLocally'
  BY <1>2, <1>3 DEF CallAt, HeadersAt, Writing, WriterAt, Within, Early, Reading, StopsLocally
<1> QED  BY <1>2, <1>3, <1>4 DEF Place

LEMMA BodiesKeep ==
  ASSUME Inv, BufferedError \/ BodyError
  PROVE  Place' /\ SessionStep
<1>1. Answer("error") /\ UNCHANGED w /\ SessionUnchanged  BY DEF BufferedError, BodyError
<1>2. Within(w', MaxIndex)  BY <1>1 DEF Inv, Place, WriterAt, Within
<1> QED  BY <1>1, <1>2, AnswerKeeps

----------------------------------------------------------------------------
(* The steps that give the writer something to write.                      *)

(* From the reading of the stream, or of a search, to the emitting of what *)
(* came of it.                                                             *)
LEMMA EmittingKeeps ==
  ASSUME Inv, SessionUnchanged, req' \in Request, SameRequest, req'.pc = "emit",
         req'.next \in {"parse", "parsed", "finish", "done"},
         req'.next = "parsed" => req'.outcome = "localStop",
         call = "idle", s.headersSet, ~s.finalized,
         Within(w', MaxIndex),
         req'.next = "parse" => Within(w', 2 * req'.events - 1)
  PROVE  Place' /\ SessionStep
<1>1. s' = s /\ call' = call /\ SessionStep  BY SessionStays
<1>2. CallAt'  BY <1>1 DEF CallAt
<1>3. HeadersAt'  BY <1>1 DEF HeadersAt
<1>4. ~Early' /\ (Reading' => req'.next = "parse")  BY DEF Early, Reading
<1>5. WriterAt'  BY <1>4 DEF WriterAt, Within
<1>6. StopsLocally'  BY DEF StopsLocally
<1> QED  BY <1>1, <1>2, <1>3, <1>5, <1>6 DEF Place

LEMMA EventsLeft ==
  ASSUME req \in Request
  PROVE  /\ req.events \in Nat /\ 2 * req.events - 1 \in Int
         /\ 2 * req.events + 1 <= MaxIndex
         /\ req.events < MaxEvents => 2 * req.events + 3 <= MaxIndex
BY IndicesSuffice, MaxIndexIsNat, MaxEventsIsNat DEF Request

LEMMA ReadEventKeeps ==
  ASSUME Inv, ReadEvent
  PROVE  Place' /\ SessionStep
<1> DEFINE hi == 2 * req.events - 1
<1>1. PICK e \in Input :
        /\ w' \in Handled(w, e)
        /\ req' = [req EXCEPT !.pc = "emit", !.events = @ + 1,
                              !.next = IF e.stop THEN "parsed" ELSE "parse",
                              !.outcome = IF e.stop THEN "localStop" ELSE "none"]
  BY UpstreamEventsAreInputs DEF ReadEvent
<1>2. req.pc = "parse" /\ req.stream /\ req.events < MaxEvents /\ SessionUnchanged
  BY DEF ReadEvent, Reads
<1>3. /\ req \in Request /\ call = "idle" /\ s.headersSet /\ ~s.finalized
      /\ Within(w, hi)
  BY <1>2 DEF Inv, Place, CallAt, HeadersAt, Writing, WriterAt, Reading
<1>4. hi \in Int /\ hi + 4 <= MaxIndex /\ hi + 4 \in Int /\ hi + 2 \in Int
      /\ req.events \in Nat /\ MaxEvents \in Nat /\ MaxIndex \in Int
  BY <1>2, <1>3, EventsLeft, IndicesSuffice, MaxIndexIsNat, MaxEventsIsNat
<1>5. hi + 2 = 2 * (req.events + 1) - 1  BY <1>4
<1>6. e.stop \in BOOLEAN  BY DEF Input
<1>7. /\ req' \in Request /\ SameRequest /\ req'.pc = "emit"
      /\ req'.events = req.events + 1
      /\ e.stop => req'.next = "parsed" /\ req'.outcome = "localStop"
      /\ ~e.stop => req'.next = "parse" /\ req'.outcome = "none"
  <2>1. req.events + 1 \in 0..MaxEvents  BY <1>2, <1>4
  <2>2. CASE e.stop
    <3>1. req' = [req EXCEPT !.pc = "emit", !.events = req.events + 1,
                             !.next = "parsed", !.outcome = "localStop"]
      BY <1>1, <2>2
    <3> QED  BY <1>3, <2>1, <2>2, <3>1 DEF Request, SameRequest
  <2>3. CASE ~e.stop
    <3>1. req' = [req EXCEPT !.pc = "emit", !.events = req.events + 1,
                             !.next = "parse", !.outcome = "none"]
      BY <1>1, <2>3
    <3> QED  BY <1>3, <2>1, <2>3, <3>1 DEF Request, SameRequest
  <2> QED  BY <1>6, <2>2, <2>3
<1> DEFINE top == hi + 4
           low == hi + 2
<1> HIDE DEF hi
<1>8. Within(w', top) /\ (~e.stop => Within(w', low))  BY <1>1, <1>3, <1>4, HandledWithin
<1>9. Within(w', MaxIndex)
  <2>1. top \in Int /\ top <= MaxIndex /\ MaxIndex \in Int  BY <1>4
  <2> HIDE DEF top
  <2> QED  BY <1>8, <2>1, WithinHigher
<1>10. ~e.stop => Within(w', 2 * req'.events - 1)  BY <1>5, <1>7, <1>8
<1>11. /\ req'.next = "parse" => Within(w', 2 * req'.events - 1)
       /\ req'.next \in {"parse", "parsed", "finish", "done"}
       /\ req'.next = "parsed" => req'.outcome = "localStop"
  <2>1. CASE e.stop  BY <1>7, <2>1
  <2>2. CASE ~e.stop  BY <1>7, <1>10, <2>2
  <2> QED  BY <1>6, <2>1, <2>2
<1> QED  BY <1>2, <1>3, <1>7, <1>9, <1>11, EmittingKeeps

LEMMA BufferEventKeeps ==
  ASSUME Inv, BufferEvent
  PROVE  Place' /\ SessionStep
<1> DEFINE hi == 2 * req.events - 1
<1>1. PICK e \in Input : w' = Accumulated(w, e)
  BY UpstreamEventsAreInputs DEF BufferEvent
<1>2. /\ req.pc = "parse" /\ ~req.stream /\ req.events < MaxEvents /\ SessionUnchanged
      /\ req' = [req EXCEPT !.events = @ + 1]
  BY DEF BufferEvent, Reads
<1>3. req \in Request /\ call = "idle" /\ ~s.finalized /\ Within(w, hi)
  BY <1>2 DEF Inv, Place, CallAt, HeadersAt, WriterAt, Reading
<1>4. hi \in Int /\ hi <= MaxIndex /\ MaxIndex \in Int /\ hi + 2 \in Int /\ hi <= hi + 2
      /\ req.events \in Nat /\ MaxEvents \in Nat
  BY <1>3, EventsLeft, IndicesSuffice, MaxIndexIsNat, MaxEventsIsNat
<1>5. hi + 2 = 2 * (req.events + 1) - 1  BY <1>4
<1>6. /\ req' \in Request /\ SameRequest /\ req'.pc = "parse"
      /\ req'.events = req.events + 1
  <2>1. req.events + 1 \in 0..MaxEvents  BY <1>2, <1>4
  <2> QED  BY <1>2, <1>3, <2>1 DEF Request, SameRequest
<1> DEFINE low == hi + 2
<1> HIDE DEF hi
<1>7. Within(w', hi)  BY <1>1, <1>3, <1>4, AccumulatedWithin
<1>8. Within(w', MaxIndex)  BY <1>4, <1>7, WithinHigher
<1>9. Within(w', 2 * req'.events - 1)
  <2>1. low \in Int /\ hi <= low  BY <1>4
  <2>2. low = 2 * req'.events - 1  BY <1>5, <1>6
  <2> HIDE DEF low
  <2>3. Within(w', low)  BY <1>4, <1>7, <2>1, WithinHigher
  <2> QED  BY <2>2, <2>3
<1>10. s' = s /\ call' = call /\ SessionStep  BY <1>2, SessionStays
<1>11. CallAt'  BY <1>3, <1>6, <1>10 DEF CallAt
<1>12. HeadersAt'  BY <1>2, <1>3, <1>6, <1>10 DEF HeadersAt, Writing, SameRequest
<1>13. WriterAt'  BY <1>6, <1>8, <1>9 DEF WriterAt, Within, Early
<1>14. StopsLocally'  BY <1>6 DEF StopsLocally
<1> QED  BY <1>6, <1>10, <1>11, <1>12, <1>13, <1>14 DEF Place

LEMMA SearchSucceedsKeeps ==
  ASSUME Inv, SearchSucceeds
  PROVE  Place' /\ SessionStep
<1> DEFINE t == FinishWebSearch(WriteText(WriteWebSearchResult(WriteServerToolUse(w))))
<1>1. /\ req \in Request /\ call = "idle" /\ ~s.finalized /\ Within(w, -1) /\ WriterAt
      /\ req.pc = "call" /\ req.search /\ SessionUnchanged
  BY DEF SearchSucceeds, WebSearch, Inv, Place, CallAt, HeadersAt, WriterAt, Early
<1>2. Within(t, MaxIndex)  BY <1>1, IndicesSuffice, MaxIndexIsNat, WebSearchWithin
<1>3. (req.stream /\ Emit(t, "done")) \/ (~req.stream /\ Answer("message") /\ UNCHANGED w)
  BY DEF SearchSucceeds
<1> HIDE DEF t
<1>4. CASE req.stream /\ Emit(t, "done")
  <2>1. s.headersSet  BY <1>1, <1>4 DEF Inv, Place, HeadersAt, Writing
  <2>2. "done" \in NextStates  BY DEF NextStates
  <2>3. w' = t /\ req' \in Request /\ SameRequest /\ req'.pc = "emit" /\ req'.next = "done"
    BY <1>1, <1>4, <2>2, EmitFields
  <2> QED  BY <1>1, <1>2, <2>1, <2>3, EmittingKeeps
<1>5. CASE ~req.stream /\ Answer("message") /\ UNCHANGED w
  <2>1. Within(w', MaxIndex)  BY <1>1, <1>5 DEF WriterAt, Within
  <2> QED  BY <1>1, <1>5, <2>1, AnswerKeeps
<1> QED  BY <1>3, <1>4, <1>5

LEMMA FinishMessageKeeps ==
  ASSUME Inv, FinishMessage
  PROVE  Place' /\ SessionStep
<1> DEFINE hi == 2 * req.events - 1
<1>1. PICK f \in Finals(w) : Emit(Finish(w, f), "finish")  BY DEF FinishMessage
<1> DEFINE t == Finish(w, f)
<1>2. /\ req \in Request /\ req.pc = "parsed" /\ req.stream /\ req.outcome = "eof"
      /\ SessionUnchanged
  BY DEF FinishMessage, Parsed, Inv, Place
<1>3. call = "idle" /\ s.headersSet /\ ~s.finalized /\ Within(w, hi)
  BY <1>2 DEF Inv, Place, CallAt, HeadersAt, Writing, WriterAt, Reading
<1>4. "finish" \in NextStates  BY DEF NextStates
<1>5. t = Finish(w, f)  OBVIOUS
<1> HIDE DEF t
<1>6. /\ w' = t /\ req' \in Request /\ SameRequest /\ req'.pc = "emit"
      /\ req'.next = "finish"
  BY <1>1, <1>2, <1>4, <1>5, EmitFields
<1>7. hi \in Int /\ hi + 2 <= MaxIndex /\ MaxIndex \in Int
  BY <1>2, EventsLeft, IndicesSuffice, MaxIndexIsNat
<1> DEFINE low == hi + 2
<1> HIDE DEF hi
<1>8. Within(t, low)  BY <1>3, <1>5, <1>7, FinishWithin
<1>9. low \in Int /\ low <= MaxIndex  BY <1>7
<1> HIDE DEF low
<1>10. Within(w', MaxIndex)  BY <1>6, <1>7, <1>8, <1>9, WithinHigher
<1> QED  BY <1>2, <1>3, <1>6, <1>10, EmittingKeeps

(* A step to an end or to another attempt, with the writer at hand.        *)
LEMMA LeavingKeeps ==
  ASSUME Inv, SessionUnchanged, req' \in Request, req'.pc \in {"retry", "done"},
         call = "idle", ~s.finalized, Within(w', MaxIndex)
  PROVE  Place' /\ SessionStep
<1>1. s' = s /\ call' = call /\ SessionStep  BY SessionStays
<1>2. CallAt' /\ HeadersAt' /\ WriterAt' /\ StopsLocally'
  BY <1>1 DEF CallAt, HeadersAt, Writing, WriterAt, Within, Early, Reading, StopsLocally
<1> QED  BY <1>1, <1>2 DEF Place

LEMMA BuildResponseKeeps ==
  ASSUME Inv, BuildResponse
  PROVE  Place' /\ SessionStep
<1>1. PICK f \in Finals(w) : w' = Finalized(w, f)  BY DEF BuildResponse
<1>2. /\ req \in Request /\ req.pc = "parsed" /\ SessionUnchanged
      /\ Goto("retry") \/ Answer("message")
  BY DEF BuildResponse, Buffered, Inv, Place
<1>3. call = "idle" /\ ~s.finalized /\ Within(w, MaxIndex) /\ MaxIndex \in Int
  BY <1>2, IndicesSuffice, MaxIndexIsNat DEF Inv, Place, CallAt, HeadersAt, WriterAt
<1>4. Within(w', MaxIndex)
  <2>1. f.stop \in BOOLEAN  BY DEF Finals
  <2> QED  BY <1>1, <1>3, <2>1, FinalizedWithin
<1>5. req' \in Request /\ req'.pc \in {"retry", "done"}
  <2>1. "retry" \in PcStates  BY DEF PcStates
  <2>2. CASE Goto("retry")  BY <1>2, <2>1, <2>2, GotoFields
  <2>3. CASE Answer("message")  BY <1>2, <2>3, AnswerFields
  <2> QED  BY <1>2, <2>2, <2>3
<1> QED  BY <1>2, <1>3, <1>4, <1>5, LeavingKeeps

LEMMA RetryKeeps ==
  ASSUME Inv, Retry
  PROVE  Place' /\ SessionStep
<1>1. /\ w' = NewSSEWriter(LastAttempt) /\ SessionUnchanged /\ req.pc = "retry"
      /\ req \in Request
      /\ req' = [NewRequest(req.stream, FALSE) EXCEPT !.events = req.events]
  BY DEF Retry, NextWriter, Inv, Place
<1>2. LastAttempt \in Attempts  BY AttemptsOfTheCode DEF LastAttempt, FirstAttempt
<1>3. Within(w', -1)  BY <1>1, <1>2, NewWriterWithin
<1>4. /\ req' \in Request /\ req'.pc = "call" /\ ~req'.search
      /\ req'.events = req.events
  <2>1. <<>> \in Seq({"message", "error"})  OBVIOUS
  <2> QED  BY <1>1, <2>1 DEF NewRequest, Request
<1>5. s' = s /\ call' = call /\ SessionStep  BY <1>1, SessionStays
<1>6. Within(w', MaxIndex)
  <2> DEFINE lo == -1
  <2>1. lo \in Int /\ MaxIndex \in Int /\ lo <= MaxIndex /\ Within(w', lo)
    BY <1>3, IndicesSuffice, MaxIndexIsNat
  <2> HIDE DEF lo
  <2> QED  BY <2>1, WithinHigher
<1>7. CallAt'  BY <1>1, <1>4, <1>5 DEF Inv, Place, CallAt
<1>8. HeadersAt'  BY <1>1, <1>4, <1>5 DEF Inv, Place, HeadersAt, Writing
<1>9. WriterAt'  BY <1>3, <1>4, <1>6 DEF WriterAt, Within, Reading
<1>10. StopsLocally'  BY <1>4 DEF StopsLocally
<1> QED  BY <1>4, <1>5, <1>7, <1>8, <1>9, <1>10 DEF Place

LEMMA CalledKeeps ==
  ASSUME req \in Request, WriterAt, w.todo # <<>>, NEW err \in BOOLEAN, Called(err)
  PROVE  Within(w', MaxIndex) /\ (Reading => Within(w', 2 * req.events - 1))
<1> DEFINE hi == 2 * req.events - 1
<1>1. MaxIndex \in Int /\ hi \in Int  BY EventsLeft, IndicesSuffice, MaxIndexIsNat
<1>2. Within(w', MaxIndex)  BY <1>1, CalledWithin DEF WriterAt
<1>3. Reading => Within(w, hi)  BY DEF WriterAt
<1> HIDE DEF hi
<1>4. Reading => Within(w', hi)  BY <1>1, <1>3, CalledWithin
<1> QED  BY <1>2, <1>4 DEF hi

LEMMA CallRefusedKeeps ==
  ASSUME Inv, CallRefused
  PROVE  Place' /\ SessionStep
<1>1. req.pc = "emit" /\ w.todo # <<>> /\ Called(TRUE) /\ UNCHANGED req /\ SessionUnchanged
  BY DEF CallRefused, Emits
<1>2. req \in Request /\ CallAt /\ HeadersAt /\ WriterAt /\ StopsLocally  BY DEF Inv, Place
<1>3. s' = s /\ call' = call /\ SessionStep  BY <1>1, SessionStays
<1>4. Within(w', MaxIndex) /\ (Reading => Within(w', 2 * req.events - 1))
  BY <1>1, <1>2, CalledKeeps DEF WriterAt
<1>5. ~Early' /\ (Reading' => Reading)  BY <1>1 DEF Early, Reading
<1>6. WriterAt'  BY <1>1, <1>4, <1>5 DEF WriterAt, Within
<1>7. CallAt'  BY <1>1, <1>2, <1>3 DEF CallAt
<1>8. HeadersAt'  BY <1>1, <1>2, <1>3 DEF HeadersAt, Writing
<1>9. StopsLocally'  BY <1>1, <1>2 DEF StopsLocally
<1> QED  BY <1>1, <1>2, <1>3, <1>6, <1>7, <1>8, <1>9 DEF Place

----------------------------------------------------------------------------
(* The steps that call a method of the session.                            *)

LEMMA SessionAssumptions ==
  /\ DownP!Marker \cap SSEEvent = {}
  /\ KeepAlive \notin {SseError, JsonError, Cut}
  /\ SseError \notin {JsonError, Cut}
  /\ JsonError # Cut
  /\ HeartbeatOn \in BOOLEAN
  /\ MaxKeepAlives \in Nat
BY SessionConstants DEF Down!Marker, DownP!Marker

(* A step of the session that neither ends it nor takes its headers back.  *)
Going ==
  DownP!Quiet \/ DownP!Start \/ DownP!FinalErrorBegin \/ DownP!StopMark \/ DownP!StopClose

LEMMA GoingKeepsHeaders ==
  ASSUME Inv, Going
  PROVE  s'.finalized = s.finalized /\ (s.headersSet => s'.headersSet)
<1>1. DownP!TypeOK  BY DEF Inv, DownP!IInv
<1> QED  BY <1>1, SessionAssumptions, DownP!HeadersStay DEF Going

LEMMA InstallHeadersKeeps ==
  ASSUME Inv, InstallHeaders
  PROVE  Place' /\ SessionStep
<1>1. /\ req \in Request /\ req.pc = "headers" /\ Goto("start") /\ w' = w
      /\ DownP!SetSSEHeaders
  BY SameActions DEF InstallHeaders, Inv, Place
<1>2. call = "idle" /\ ~s.finalized /\ WriterAt /\ Early
  BY <1>1 DEF Inv, Place, CallAt, HeadersAt, Early
<1>3. "start" \in PcStates  BY DEF PcStates
<1>4. req' \in Request /\ req'.pc = "start"  BY <1>1, <1>3, GotoFields
<1>5. SessionStep
  BY <1>1, <1>2 DEF SessionStep, DownP!Next, DownP!RequestCall
<1>6. call' = call /\ s'.headersSet /\ ~s'.finalized
  BY <1>1, <1>2, SessionFacts DEF DownP!SetSSEHeaders, DownP!Session
<1>7. CallAt'  BY <1>2, <1>4, <1>6 DEF CallAt
<1>8. HeadersAt'  BY <1>6 DEF HeadersAt
<1>9. WriterAt'  BY <1>1, <1>2, <1>4 DEF WriterAt, Within, Early, Reading
<1>10. StopsLocally'  BY <1>4 DEF StopsLocally
<1> QED  BY <1>4, <1>5, <1>7, <1>8, <1>9, <1>10 DEF Place

LEMMA StartHeartbeatKeeps ==
  ASSUME Inv, StartHeartbeat
  PROVE  Place' /\ SessionStep
<1> DEFINE pc == IF WebSearch THEN "call" ELSE "parse"
<1>1. /\ req \in Request /\ req.pc = "start" /\ Goto(pc) /\ w' = w
      /\ DownP!Start \/ SessionUnchanged
  BY SameActions DEF StartHeartbeat, Inv, Place
<1>2. call = "idle" /\ s.headersSet /\ ~s.finalized /\ WriterAt /\ Early
  BY <1>1 DEF Inv, Place, CallAt, HeadersAt, Writing, Early
<1>3. pc \in PcStates /\ pc \in {"call", "parse"}  BY DEF PcStates
<1> HIDE DEF pc
<1>4. /\ req' \in Request /\ req'.pc = pc /\ req'.events = req.events
  BY <1>1, <1>3, GotoFields
<1>5. SessionStep /\ call' = call /\ s'.headersSet /\ ~s'.finalized
  <2>1. CASE DownP!Start
    <3>1. s'.headersSet /\ ~s'.finalized
      BY <1>2, <2>1, GoingKeepsHeaders DEF Going
    <3>2. call' = call  BY <2>1 DEF DownP!Start
    <3> QED  BY <1>2, <2>1, <3>1, <3>2 DEF SessionStep, DownP!Next
  <2>2. CASE SessionUnchanged  BY <1>2, <2>2, SessionStays
  <2> QED  BY <1>1, <2>1, <2>2
<1>6. CallAt'  BY <1>2, <1>3, <1>4, <1>5 DEF CallAt
<1>7. HeadersAt'  BY <1>5 DEF HeadersAt
<1>8. WriterAt'
  <2>1. req.events \in Nat /\ Within(w, -1) /\ Within(w, MaxIndex)
    BY <1>1, <1>2 DEF WriterAt, Request
  <2>2. Within(w, 2 * req.events - 1)  BY <2>1 DEF Within
  <2> QED  BY <1>1, <1>4, <2>1, <2>2 DEF WriterAt, Within
<1>9. StopsLocally'  BY <1>3, <1>4 DEF StopsLocally
<1> QED  BY <1>4, <1>5, <1>6, <1>7, <1>8, <1>9 DEF Place

(* The calls of the writer: the goroutine goes on emitting or flushing.    *)
LEMMA WritingKeeps ==
  ASSUME Inv, DownP!Quiet, SessionStep, call' = call, req' \in Request, SameRequest,
         req.pc = "emit", req'.pc \in {"emit", "flush"},
         req'.next = req.next, req'.outcome = req.outcome, req'.events = req.events,
         Within(w', MaxIndex), Reading => Within(w', 2 * req.events - 1)
  PROVE  Place' /\ SessionStep
<1>1. CallAt /\ s.headersSet /\ ~s.finalized /\ StopsLocally
  BY DEF Inv, Place, HeadersAt, Writing
<1>2. s'.headersSet /\ ~s'.finalized  BY <1>1, GoingKeepsHeaders DEF Going
<1>3. CallAt'  BY <1>1 DEF CallAt
<1>4. HeadersAt'  BY <1>2 DEF HeadersAt
<1>5. WriterAt'
  <2>1. ~Early' /\ (Reading' => Reading)  BY DEF Early, Reading
  <2> QED  BY <2>1 DEF WriterAt, Within
<1>6. StopsLocally'  BY <1>1 DEF StopsLocally
<1> QED  BY <1>3, <1>4, <1>5, <1>6 DEF Place

LEMMA EmitWriteKeeps ==
  ASSUME Inv, EmitWrite
  PROVE  Place' /\ SessionStep
<1> DEFINE p == Head(w.todo)
<1>1. /\ req \in Request /\ WriterAt /\ req.pc = "emit" /\ w.todo # <<>>
      /\ p.event # "promote"
      /\ DownP!Write(p) /\ call' = call /\ Called(s'.firstErr)
      /\ UNCHANGED req \/ Goto("flush")
  BY SameActions DEF EmitWrite, Emits, Inv, Place
<1>2. /\ call \in {"idle", "callback"} /\ s.headersSet /\ s \in DownP!Session
  BY <1>1, SessionFacts DEF Inv, Place, CallAt, HeadersAt, Writing
<1>3. p \in SSEEvent
  <2>1. w.todo \in Seq(Calls)  BY <1>1 DEF WriterAt, Within, WriterState
  <2>2. p \in Calls  BY <1>1, <2>1
  <2> HIDE DEF p
  <2> QED  BY <1>1, <2>2 DEF Calls, PromoteCall, Event
<1> HIDE DEF p
<1>4. DownP!Quiet /\ SessionStep
  BY <1>1, <1>2, <1>3 DEF DownP!Quiet, SessionStep, DownP!Next, DownP!RequestCall
<1>5. s' \in DownP!Session
  <2>1. DownP!TypeOK  BY DEF Inv, DownP!IInv
  <2> QED  BY <1>4, <2>1, SessionAssumptions, DownP!QuietFollows DEF DownP!Follows
<1>6. Within(w', MaxIndex) /\ (Reading => Within(w', 2 * req.events - 1))
  <2>1. s'.firstErr \in BOOLEAN  BY <1>5 DEF DownP!Session
  <2> QED  BY <1>1, <2>1, CalledKeeps
<1>7. /\ req' \in Request /\ SameRequest /\ req'.pc \in {"emit", "flush"}
      /\ req'.next = req.next /\ req'.outcome = req.outcome /\ req'.events = req.events
  <2>1. CASE UNCHANGED req  BY <1>1, <2>1 DEF SameRequest
  <2>2. CASE Goto("flush")
    <3>1. "flush" \in PcStates  BY DEF PcStates
    <3> QED  BY <1>1, <2>2, <3>1, GotoFields
  <2> QED  BY <1>1, <2>1, <2>2
<1> QED  BY <1>1, <1>4, <1>6, <1>7, WritingKeeps

LEMMA EmitPromoteKeeps ==
  ASSUME Inv, EmitPromote
  PROVE  Place' /\ SessionStep
<1>1. /\ req \in Request /\ WriterAt /\ CallAt /\ req.pc = "emit" /\ w.todo # <<>>
      /\ DownP!Promote /\ Called(s'.firstErr) /\ req' = req
  BY SameActions DEF EmitPromote, Emits, Inv, Place
<1>2. s.headersSet  BY <1>1 DEF Inv, Place, HeadersAt, Writing
<1>3. ~s.promoted /\ call' = call  BY <1>1 DEF DownP!Promote
<1>4. call = "idle"  BY <1>1, <1>3, SessionFacts DEF CallAt
<1>5. DownP!Quiet /\ SessionStep
  BY <1>1, <1>2, <1>4 DEF DownP!Quiet, SessionStep, DownP!Next, DownP!RequestCall
<1>6. s' \in DownP!Session
  <2>1. DownP!TypeOK  BY DEF Inv, DownP!IInv
  <2> QED  BY <1>5, <2>1, SessionAssumptions, DownP!QuietFollows DEF DownP!Follows
<1>7. Within(w', MaxIndex) /\ (Reading => Within(w', 2 * req.events - 1))
  <2>1. s'.firstErr \in BOOLEAN  BY <1>6 DEF DownP!Session
  <2> QED  BY <1>1, <2>1, CalledKeeps
<1> QED  BY <1>1, <1>3, <1>5, <1>7, WritingKeeps DEF SameRequest

LEMMA EmitFlushKeeps ==
  ASSUME Inv, EmitFlush
  PROVE  Place' /\ SessionStep
<1> DEFINE pc == IF req.next = "callbackEnd" THEN "callbackEnd" ELSE "emit"
           err == s'.firstErr
           q == IF err THEN <<>> ELSE w.todo
<1>1. /\ req \in Request /\ CallAt /\ WriterAt /\ StopsLocally /\ req.pc = "flush" /\ Goto(pc)
      /\ w' = [w EXCEPT !.writeErr = err, !.todo = q]
      /\ DownP!Flush \/ SessionUnchanged
  BY SameActions DEF EmitFlush, Inv, Place
<1>2. call \in {"idle", "callback", "errored"} /\ s.headersSet /\ ~s.finalized /\ s \in DownP!Session
  BY <1>1, SessionFacts DEF Inv, Place, CallAt, HeadersAt, Writing
<1>3. pc \in PcStates /\ pc \in {"callbackEnd", "emit"}
      /\ (pc = "emit" <=> req.next # "callbackEnd")
  BY DEF PcStates
<1> HIDE DEF pc
<1>4. /\ req' \in Request /\ req'.pc = pc /\ req'.events = req.events
      /\ req'.next = req.next /\ req'.outcome = req.outcome
  BY <1>1, <1>3, GotoFields
<1>5. SessionStep /\ call' = call /\ s'.headersSet /\ ~s'.finalized /\ err \in BOOLEAN
  <2>1. CASE DownP!Flush
    <3>1. DownP!Quiet  BY <2>1 DEF DownP!Quiet
    <3>2. s'.headersSet /\ ~s'.finalized
      BY <1>2, <3>1, GoingKeepsHeaders DEF Going
    <3>3. s' \in DownP!Session
      <4>1. DownP!TypeOK  BY DEF Inv, DownP!IInv
      <4> QED  BY <3>1, <4>1, SessionAssumptions, DownP!QuietFollows DEF DownP!Follows
    <3>4. call' = call  BY <2>1 DEF DownP!Flush
    <3>5. SessionStep
      BY <1>2, <2>1 DEF SessionStep, DownP!Next, DownP!RequestCall
    <3> QED  BY <3>2, <3>3, <3>4, <3>5 DEF DownP!Session
  <2>2. CASE SessionUnchanged  BY <1>2, <2>2, SessionStays DEF DownP!Session
  <2> QED  BY <1>1, <2>1, <2>2
<1>6. /\ Within(w', MaxIndex) /\ (Reading => Within(w', 2 * req.events - 1))
  <2>1. w \in WriterState  BY <1>1 DEF WriterAt, Within
  <2>2. q \in Seq(Calls)
    <3>1. w.todo \in Seq(Calls) /\ <<>> \in Seq(Calls)  BY <2>1 DEF WriterState
    <3> QED  BY <3>1
  <2> HIDE DEF q, err
  <2>3. w' \in WriterState /\ w'.blockIndex = w.blockIndex /\ w'.activeType = w.activeType
    BY <1>1, <1>5, <2>1, <2>2 DEF WriterState
  <2> QED  BY <1>1, <2>3 DEF WriterAt, Within
<1>7. CallAt'  BY <1>1, <1>3, <1>4, <1>5 DEF CallAt
<1>8. HeadersAt'  BY <1>5 DEF HeadersAt
<1>9. WriterAt'
  <2>1. ~Early' /\ (Reading' => Reading)  BY <1>1, <1>3, <1>4 DEF Early, Reading
  <2> QED  BY <1>4, <1>6, <2>1 DEF WriterAt, Within
<1>10. StopsLocally'  BY <1>1, <1>3, <1>4 DEF StopsLocally
<1> QED  BY <1>4, <1>5, <1>7, <1>8, <1>9, <1>10 DEF Place

(* Discard and the last Promote.                                           *)
LEMMA BufferEndsKeep ==
  ASSUME Inv, RetryInvalidState \/ RetryEmpty \/ DeliverMessage
  PROVE  Place' /\ SessionStep
<1>1. PICK pc \in {"retry", "done"} :
        /\ Goto(pc) /\ w' = w /\ req \in Request
        /\ req.pc \in {"parsed", "finish"} /\ (req.pc = "parsed" => req.stream)
        /\ DownP!Discard \/ DownP!Promote \/ SessionUnchanged
  BY SameActions DEF RetryInvalidState, RetryEmpty, DeliverMessage, Parsed, Inv, Place
<1>2. call = "idle" /\ s.headersSet /\ ~s.finalized /\ Within(w, MaxIndex)
  BY <1>1 DEF Inv, Place, CallAt, HeadersAt, Writing, WriterAt
<1>3. pc \in PcStates  BY DEF PcStates
<1>4. req' \in Request /\ req'.pc = pc  BY <1>1, <1>3, GotoFields
<1>5. SessionStep /\ call' = call /\ ~s'.finalized
  <2>1. CASE DownP!Discard \/ DownP!Promote
    <3>1. DownP!Quiet  BY <2>1 DEF DownP!Quiet
    <3>2. ~s'.finalized  BY <1>2, <3>1, GoingKeepsHeaders DEF Going
    <3>3. call' = call  BY <2>1 DEF DownP!Discard, DownP!Promote
    <3>4. SessionStep
      BY <1>2, <2>1 DEF SessionStep, DownP!Next, DownP!RequestCall
    <3> QED  BY <3>2, <3>3, <3>4
  <2>2. CASE SessionUnchanged  BY <1>2, <2>2, SessionStays
  <2> QED  BY <1>1, <2>1, <2>2
<1>6. CallAt'  BY <1>2, <1>4, <1>5 DEF CallAt
<1>7. HeadersAt'  BY <1>4, <1>5 DEF HeadersAt, Writing
<1>8. WriterAt'  BY <1>1, <1>2, <1>4 DEF WriterAt, Within, Early, Reading
<1>9. StopsLocally'  BY <1>4 DEF StopsLocally
<1> QED  BY <1>4, <1>5, <1>6, <1>7, <1>8, <1>9 DEF Place

(* At the end only the order of finalized and done is left.                *)
LEMMA DoneKeeps ==
  ASSUME Inv, req' \in Request, req'.pc = "done", Within(w', MaxIndex)
  PROVE  Place'
BY DEF Place, CallAt, HeadersAt, Writing, WriterAt, Within, Early, Reading, StopsLocally

LEMMA EndsKeep ==
  ASSUME Inv, FinalError \/ FinalErrorReturns \/ Stop
  PROVE  Place' /\ SessionStep
<1>1. req \in Request /\ CallAt /\ Within(w, MaxIndex)  BY DEF Inv, Place, WriterAt
<1>2. w' = w  BY DEF FinalError, FinalErrorReturns, Stop
<1>3. req' \in Request /\ req'.pc = "done"
  <2>1. "done" \in PcStates  BY DEF PcStates
  <2>2. CASE Goto("done")  BY <1>1, <2>1, <2>2, GotoFields
  <2>3. CASE Stop  BY <1>1, <2>3 DEF Stop
  <2> QED  BY <2>2, <2>3 DEF FinalError, FinalErrorReturns
<1>4. Within(w', MaxIndex)  BY <1>1, <1>2
<1>5. SessionStep
  <2>1. CASE FinalError
    BY <1>1, <2>1, SameActions
    DEF FinalError, CallAt, SessionStep, DownP!Next, DownP!RequestCall
  <2>2. CASE FinalErrorReturns
    BY <2>2, SameActions DEF FinalErrorReturns, SessionStep, DownP!Next
  <2>3. CASE Stop  BY <2>3, SameActions DEF Stop, SessionStep, DownP!Next
  <2> QED  BY <2>1, <2>2, <2>3
<1> QED  BY <1>3, <1>4, <1>5, DoneKeeps

LEMMA FinalErrorCallbackKeeps ==
  ASSUME Inv, FinalErrorCallback
  PROVE  Place' /\ SessionStep
<1> DEFINE t == CloseActiveBlock(w)
<1>1. /\ req \in Request /\ Within(w, MaxIndex) /\ DownP!FinalErrorBegin
      /\ Emit(t, "callback") /\ req.pc = "error"
  BY SameActions DEF FinalErrorCallback, Inv, Place, WriterAt
<1>2. MaxIndex \in Int /\ MaxIndex <= MaxIndex /\ "callback" \in NextStates
  BY IndicesSuffice, MaxIndexIsNat DEF NextStates
<1>3. Within(t, MaxIndex)  BY <1>1, <1>2, CloseActiveBlockWithin
<1> HIDE DEF t
<1>4. w' = t /\ req' \in Request /\ req'.pc = "emit" /\ req'.next = "callback"
  BY <1>1, <1>2, EmitFields
<1>5. ~s.finalized /\ s.headersSet
  <2>1. ~s.finalized  BY <1>1 DEF Inv, Place, HeadersAt
  <2>2. s.promoted  BY <1>1 DEF DownP!FinalErrorBegin
  <2> QED  BY <2>1, <2>2, SessionFacts
<1>6. s'.headersSet /\ ~s'.finalized  BY <1>1, <1>5, GoingKeepsHeaders DEF Going
<1>7. call' = "callback"  BY <1>1 DEF DownP!FinalErrorBegin
<1>8. SessionStep  BY <1>1 DEF SessionStep, DownP!Next, DownP!RequestCall
<1>9. CallAt' /\ HeadersAt'  BY <1>4, <1>6, <1>7 DEF CallAt, HeadersAt
<1>10. WriterAt'  BY <1>3, <1>4 DEF WriterAt, Within, Early, Reading
<1>11. StopsLocally'  BY <1>4 DEF StopsLocally
<1> QED  BY <1>4, <1>8, <1>9, <1>10, <1>11 DEF Place

LEMMA ErrorFrameKeeps ==
  ASSUME Inv, ErrorFrame
  PROVE  Place' /\ SessionStep
<1> DEFINE err == s'.firstErr
           pc == IF err THEN "callbackEnd" ELSE "flush"
<1>1. /\ req \in Request /\ Within(w, MaxIndex) /\ DownP!CallbackError
      /\ w' = [w EXCEPT !.writeErr = err] /\ req.pc = "callback"
      /\ req' = [req EXCEPT !.pc = pc, !.next = "callbackEnd"]
  BY SameActions DEF ErrorFrame, Inv, Place, WriterAt
<1>2. s.headersSet /\ ~s.finalized  BY <1>1 DEF Inv, Place, HeadersAt, Writing
<1>3. DownP!Quiet  BY <1>1 DEF DownP!Quiet
<1>4. s' \in DownP!Session
  <2>1. DownP!TypeOK  BY DEF Inv, DownP!IInv
  <2> QED  BY <1>3, <2>1, SessionAssumptions, DownP!QuietFollows DEF DownP!Follows
<1>5. err \in BOOLEAN  BY <1>4 DEF DownP!Session
<1>6. pc \in {"callbackEnd", "flush"}  OBVIOUS
<1> HIDE DEF err, pc
<1>7. req' \in Request /\ req'.pc \in {"callbackEnd", "flush"} /\ req'.next = "callbackEnd"
  BY <1>1, <1>6 DEF Request
<1>8. Within(w', MaxIndex)
  <2>1. w' \in WriterState /\ w'.blockIndex = w.blockIndex /\ w'.activeType = w.activeType
    BY <1>1, <1>5 DEF WriterState, Within
  <2> QED  BY <1>1, <2>1 DEF Within
<1>9. s'.headersSet /\ ~s'.finalized  BY <1>2, <1>3, GoingKeepsHeaders DEF Going
<1>10. call' = "errored"  BY <1>1 DEF DownP!CallbackError
<1>11. SessionStep  BY <1>1 DEF SessionStep, DownP!Next, DownP!RequestCall
<1>12. CallAt' /\ HeadersAt'  BY <1>7, <1>9, <1>10 DEF CallAt, HeadersAt
<1>13. WriterAt'  BY <1>7, <1>8 DEF WriterAt, Within, Early, Reading
<1>14. StopsLocally'  BY <1>7 DEF StopsLocally
<1> QED  BY <1>7, <1>11, <1>12, <1>13, <1>14 DEF Place

(* The heartbeat and the client, next to the request goroutine.            *)
LEMMA EnvironmentKeeps ==
  ASSUME Inv, Environment \/ UNCHANGED vars
  PROVE  Place' /\ SessionStep
<1>1. DownP!Quiet /\ w' = w /\ req' = req /\ SessionStep /\ call' = call
  <2>1. CASE Environment
    <3>1. DownP!Heartbeat \/ DownP!ClientGone
      BY <2>1, SameActions DEF Environment, Down!Heartbeat, DownP!Heartbeat
    <3>2. call' = call
      BY <3>1 DEF DownP!Heartbeat, DownP!HbCheck, DownP!HbTimer, DownP!HbActivity,
        DownP!HbDone, DownP!WriteKeepAlive, DownP!ClientGone
    <3> QED
      BY <2>1, <3>1, <3>2 DEF Environment, DownP!Quiet, SessionStep, DownP!Next
  <2>2. CASE UNCHANGED vars
    BY <2>2 DEF vars, DownP!Quiet, SessionStep, DownP!sessionVars
  <2> QED  BY <2>1, <2>2
<1>2. s'.finalized = s.finalized /\ (s.headersSet => s'.headersSet)
  BY <1>1, GoingKeepsHeaders DEF Going
<1>3. Place  BY DEF Inv
<1>4. HeadersAt'  BY <1>1, <1>2, <1>3 DEF Place, HeadersAt, Writing
<1>5. CallAt' /\ StopsLocally'  BY <1>1, <1>3 DEF Place, CallAt, StopsLocally
<1>6. WriterAt'  BY <1>1, <1>3 DEF Place, WriterAt, Within, Early, Reading
<1> QED  BY <1>1, <1>3, <1>4, <1>5, <1>6 DEF Place

----------------------------------------------------------------------------
(* The invariant, and what follows from it.                                *)

LEMMA NextKeepsPlace ==
  ASSUME Inv, [Next]_vars
  PROVE  Place' /\ SessionStep
<1>1. CASE CallFails \/ CallSucceeds  BY <1>1, CallReturns
<1>2. CASE SearchSucceeds  BY <1>2, SearchSucceedsKeeps
<1>3. CASE InstallHeaders  BY <1>3, InstallHeadersKeeps
<1>4. CASE StartHeartbeat  BY <1>4, StartHeartbeatKeeps
<1>5. CASE ReadEvent  BY <1>5, ReadEventKeeps
<1>6. CASE BufferEvent  BY <1>6, BufferEventKeeps
<1>7. CASE ReadError \/ ReadEOF \/ ReadBreaks  BY <1>7, ReadingEnds
<1>8. CASE EmitWrite  BY <1>8, EmitWriteKeeps
<1>9. CASE EmitPromote  BY <1>9, EmitPromoteKeeps
<1>10. CASE EmitFlush  BY <1>10, EmitFlushKeeps
<1>11. CASE CallRefused  BY <1>11, CallRefusedKeeps
<1>12. CASE EmitDone  BY <1>12, EmitDoneKeeps
<1>13. CASE \/ Abandon \/ ReportError \/ AlreadyFinished \/ BufferedInvalidState
            \/ GiveUp \/ FinalErrorRefused
  BY <1>13, StepAside
<1>14. CASE RetryInvalidState \/ RetryEmpty \/ DeliverMessage  BY <1>14, BufferEndsKeep
<1>15. CASE FinishMessage  BY <1>15, FinishMessageKeeps
<1>16. CASE Retry  BY <1>16, RetryKeeps
<1>17. CASE BufferedError \/ BodyError  BY <1>17, BodiesKeep
<1>18. CASE BuildResponse  BY <1>18, BuildResponseKeeps
<1>19. CASE FinalError \/ FinalErrorReturns \/ Stop  BY <1>19, EndsKeep
<1>20. CASE FinalErrorCallback  BY <1>20, FinalErrorCallbackKeeps
<1>21. CASE ErrorFrame  BY <1>21, ErrorFrameKeeps
<1>22. CASE Environment \/ UNCHANGED vars  BY <1>22, EnvironmentKeeps
<1> QED
  BY <1>1, <1>2, <1>3, <1>4, <1>5, <1>6, <1>7, <1>8, <1>9, <1>10, <1>11, <1>12,
     <1>13, <1>14, <1>15, <1>16, <1>17, <1>18, <1>19, <1>20, <1>21, <1>22
  DEF Next, RequestGoroutine, Attempt, Conclusion

LEMMA PlaceInitially ==
  ASSUME Init
  PROVE  Place
<1>1. PICK stream, search \in BOOLEAN : req = NewRequest(stream, search)  BY DEF Init
<1>2. 1 \in Attempts  BY AttemptsOfTheCode DEF LastAttempt, FirstAttempt
<1>3. Within(w, -1)  BY <1>2, NewWriterWithin DEF Init, FirstAttempt
<1>4. Within(w, MaxIndex)
  <2> DEFINE lo == -1
  <2>1. lo \in Int /\ MaxIndex \in Int /\ lo <= MaxIndex /\ Within(w, lo)
    BY <1>3, IndicesSuffice, MaxIndexIsNat
  <2> HIDE DEF lo
  <2> QED  BY <2>1, WithinHigher
<1>5. /\ req \in Request /\ req.pc \in {"call", "headers"}
      /\ req.pc = "call" => ~(req.stream /\ req.search)
  <2>1. <<>> \in Seq({"message", "error"}) /\ 0 \in 0..MaxEvents  BY MaxEventsIsNat
  <2>2. CASE stream /\ search
    <3>1. req = [pc |-> "headers", next |-> "parse", outcome |-> "none", events |-> 0,
                 stream |-> TRUE, search |-> TRUE, body |-> <<>>]
      BY <1>1, <2>2 DEF NewRequest
    <3> QED  BY <2>1, <3>1 DEF Request
  <2>3. CASE ~(stream /\ search)
    <3>1. req = [pc |-> "call", next |-> "parse", outcome |-> "none", events |-> 0,
                 stream |-> stream, search |-> search, body |-> <<>>]
      BY <1>1, <2>3 DEF NewRequest
    <3> QED  BY <2>1, <2>3, <3>1 DEF Request
  <2> QED  BY <2>2, <2>3
<1>6. call = "idle" /\ ~s.finalized
  BY SameSpec DEF Init, DownP!Init, DownP!newStreamSession
<1>7. CallAt /\ HeadersAt /\ StopsLocally
  BY <1>5, <1>6 DEF CallAt, HeadersAt, Writing, StopsLocally
<1>8. WriterAt  BY <1>3, <1>4, <1>5 DEF WriterAt, Reading
<1> QED  BY <1>5, <1>7, <1>8 DEF Place

LEMMA StepKeepsInv == Inv /\ [Next]_vars => Inv' /\ SessionStep
<1> SUFFICES ASSUME Inv, [Next]_vars PROVE Inv' /\ SessionStep  OBVIOUS
<1>1. Place' /\ SessionStep  BY NextKeepsPlace
<1>2. DownP!TypeOK'
  BY <1>1, SessionAssumptions, DownP!StepKeepsType DEF Inv, DownP!IInv, SessionStep
<1>3. DownP!IInv'
  BY <1>1, <1>2, SessionAssumptions, DownP!StepKeepsInvariant DEF Inv, SessionStep
<1> QED  BY <1>1, <1>3 DEF Inv

THEOREM InvariantHolds == Spec => []Inv
<1>1. Init => Inv
  BY PlaceInitially, SameSpec, SessionAssumptions, DownP!InvariantHoldsInitially
  DEF Inv, Init
<1>2. Inv /\ [Next]_vars => Inv'  BY StepKeepsInv
<1> QED  BY <1>1, <1>2, PTL DEF Spec

(* The request goroutine keeps to what StreamSession allows its caller     *)
(* (UsesSession): one method at a time, headers before anything is         *)
(* written or the heartbeat starts, a callback only while WriteFinalError  *)
(* waits for it.  What is proved of a session under any caller holds here. *)
THEOREM UsesTheSession == Spec => UsesSession
<1>1. Init => Down!Init  BY DEF Init
<1>2. Inv /\ [Next]_vars => [Down!Next]_(Down!sessionVars)
  BY StepKeepsInv, SameSpec DEF SessionStep
<1> QED  BY <1>1, <1>2, InvariantHolds, PTL DEF Spec, UsesSession, Down!Spec

(* From the first headers to the end, through a retry and its second       *)
(* upstream call, a usable session has a running heartbeat                 *)
(* (HeartbeatThroughout).                                                  *)
THEOREM HeartbeatKeepsRunning == Spec => []HeartbeatThroughout
<1> DEFINE J == DownP!CloseMarks /\ DownP!HeartbeatRuns
<1>1. Init => J
  BY SameSpec DEF Init, DownP!Init, DownP!newStreamSession, DownP!CloseMarks,
     DownP!HeartbeatRuns
<1>2. Inv /\ J /\ [Next]_vars => J'
  BY StepKeepsInv, SessionAssumptions, DownP!StepHeartbeatRuns DEF Inv, SessionStep
<1>3. J => HeartbeatThroughout
  BY DEF DownP!HeartbeatRuns, HeartbeatThroughout, Down!Unavailable, DownP!Unavailable
<1> QED  BY <1>1, <1>2, <1>3, InvariantHolds, PTL DEF Spec

(* Whatever the upstream sends and however often the request is retried,   *)
(* the body agrees with the status line and content type it was sent       *)
(* under.                                                                  *)
THEOREM HeaderMatchesBody == Spec => []Down!FramingMatchesHeader
<1>1. Inv => DownP!FramingMatchesHeader
  BY SessionAssumptions, DownP!FramingFollows DEF Inv
<1>2. DownP!FramingMatchesHeader => Down!FramingMatchesHeader
  BY DEF DownP!FramingMatchesHeader, Down!FramingMatchesHeader, Down!Elements,
     DownP!Elements, Down!OK, DownP!OK, Down!Failure, DownP!Failure
<1> QED  BY <1>1, <1>2, InvariantHolds, PTL
----------------------------------------------------------------------------
(* The message.  What the writer has handed to the session and what it is  *)
(* about to hand over tell one well-formed message (Told); as long as more *)
(* may follow, the writer knows where the message stands (Speaks).  That   *)
(* is lost once the message has ended, and when a call of the writer       *)
(* failed; then nothing of this writer follows.                            *)

(* The writer has made all its calls.                                      *)
Resting == ~(req.pc = "emit" \/ (req.pc = "flush" /\ req.next # "callbackEnd"))

(* More of the message may follow.                                         *)
Unended ==
  \/ req.pc \in {"call", "headers", "start", "parse", "error"}
  \/ req.pc = "parsed" /\ req.outcome # "localStop"

InEvent == req.pc \in {"emit", "flush"} /\ req.next = "parse"
InError == (req.pc \in {"emit", "flush"} /\ req.next = "callback") \/ req.pc = "callback"

(* No visible output of this attempt can have reached the session.         *)
Invisible == req.pc \in {"call", "headers", "start", "retry", "fail"} \/ ~req.stream

Reported ==
  \/ req.pc \in {"callbackEnd", "done"}
  \/ req.pc = "flush" /\ req.next = "callbackEnd"

MessageAt ==
  /\ Told(hist.offered, w)
  /\ Resting => w.todo = <<>>
  /\ req.pc = "flush" /\ req.next # "callbackEnd" => ~w.writeErr

StreamAt ==
  /\ req.pc \in {"headers", "start", "emit", "flush", "finish", "callback",
                 "callbackEnd", "error"} => req.stream
  /\ ~req.stream => hist.offered = <<>>
  /\ Invisible => ~s.promoted
  /\ req.pc = "retry" => hist.offered = <<>>

SpeaksAt ==
  /\ req.stream /\ Unended => Speaks(hist.offered, w)
  /\ InEvent => (w.writeErr /\ w.todo = <<>>) \/ Speaks(hist.offered, w)
  /\ InError => IF w.writeErr THEN DownP!Unavailable(s) /\ w.todo = <<>>
                ELSE Speaks(hist.offered, w) /\ w.activeType = NoBlock

(* A message in which no block is open and that has not ended.             *)
Closed(m) ==
  Opens(m) <= Closes(m) /\ \A i \in 1..Len(m) : m[i].event # "message_stop"

ErrorAt ==
  SseError \in DownP!Elements(s.out) => Reported /\ Closed(DownP!Events(s))

Script == MessageAt /\ StreamAt /\ SpeaksAt /\ ErrorAt

MInv == Inv /\ DownP!DInv /\ Script

LEMMA ScriptFacts ==
  ASSUME MInv
  PROVE  /\ req \in Request /\ CallAt /\ HeadersAt /\ WriterAt /\ DownP!TypeOK
         /\ s \in DownP!Session /\ hist.offered \in Seq(SSEEvent)
         /\ MessageAt /\ StreamAt /\ SpeaksAt /\ ErrorAt
         /\ DownP!Delivers(s, hist.offered) /\ w \in WriterState
BY DEF MInv, Inv, DownP!IInv, DownP!DInv, DownP!TypeOK, Script, Place, WriterAt, Within

----------------------------------------------------------------------------
(* A call done, or one that failed.                                        *)

LEMMA EmptyStory ==
  ASSUME NEW b \in Seq(SSEEvent), NEW wr, wr.todo = <<>>
  PROVE  Story(b, wr) = b
<1>1. Filter(wr.todo, SSEEvent) = <<>>  BY FilterEmpty
<1> QED  BY <1>1 DEF Story

(* The beginning of a well-formed message is one.                          *)
LEMMA BeginningTells ==
  ASSUME NEW b \in Seq(SSEEvent), NEW rest \in Seq(SSEEvent), WellFormedSoFar(b \o rest)
  PROVE  WellFormedSoFar(b)
<1> DEFINE q == b \o rest
           n == Len(b)
<1>1. q \in Seq(SSEEvent) /\ n \in Nat /\ n <= Len(q) /\ Len(b) = n  OBVIOUS
<1>2. \A j \in 1..n : b[j] = q[j]  OBVIOUS
<1>3. Agree(b, q, Len(b))  BY <1>2 DEF Agree
<1>4. WellFormedSoFar(q)  OBVIOUS
<1> HIDE DEF q
<1> QED  BY <1>1, <1>3, <1>4, PrefixWellFormed

LEMMA EventsOfCalls ==
  ASSUME NEW q \in Seq(Calls) PROVE Filter(q, SSEEvent) \in Seq(SSEEvent)
<1>1. Filter(q, SSEEvent) \in Seq(Calls \cap SSEEvent)  BY FilterType
<1>2. Calls \cap SSEEvent = SSEEvent  BY DEF Calls
<1> QED  BY <1>1, <1>2

LEMMA EmptiedTells ==
  ASSUME NEW b, NEW wr, Told(b, wr), wr.todo \in Seq(Calls), NEW t, t.todo = <<>>
  PROVE  Told(b, t)
<1>1. b \in Seq(SSEEvent) /\ WellFormedSoFar(Story(b, wr))  BY DEF Told
<1>2. Filter(wr.todo, SSEEvent) \in Seq(SSEEvent)  BY EventsOfCalls
<1>3. WellFormedSoFar(b)  BY <1>1, <1>2, BeginningTells DEF Story
<1>4. Story(b, t) = b  BY <1>1, EmptyStory
<1> QED  BY <1>1, <1>3, <1>4 DEF Told

(* What has reached the session once the writer's first call has.          *)
Handed(b, wr) == IF Head(wr.todo) \in SSEEvent THEN Append(b, Head(wr.todo)) ELSE b
Advanced(t, wr) == t.todo = Tail(wr.todo)

(* Passing the first call on to the session leaves the story as it is.     *)
LEMMA StoryGoesOn ==
  ASSUME NEW b \in Seq(SSEEvent), NEW wr \in WriterState, wr.todo # <<>>,
         NEW t, Advanced(t, wr), NEW c, c = Handed(b, wr)
  PROVE  c \in Seq(SSEEvent) /\ Story(c, t) = Story(b, wr)
<1> DEFINE h == Head(wr.todo)
           r == Tail(wr.todo)
           e == <<>>
           one == Append(e, h)
           fe == Filter(e, SSEEvent)
           fo == Filter(one, SSEEvent)
           fr == Filter(r, SSEEvent)
<1>1. /\ wr.todo \in Seq(Calls) /\ h \in Calls /\ r \in Seq(Calls) /\ one \in Seq(Calls)
      /\ wr.todo = one \o r /\ e \in Seq(Calls)
  BY DEF WriterState
<1>2. e = <<>> /\ c = (IF h \in SSEEvent THEN Append(b, h) ELSE b)  BY DEF Handed
<1> HIDE DEF h, r, e
<1>3. fo = IF h \in SSEEvent THEN Append(fe, h) ELSE fe  BY <1>1, FilterAppend
<1>4. fr \in Seq(SSEEvent)  BY <1>1, EventsOfCalls
<1> HIDE DEF one
<1>5. Filter(one \o r, SSEEvent) = fo \o fr  BY <1>1, FilterConcat
<1>6. Filter(wr.todo, SSEEvent) = fo \o fr  BY <1>1, <1>5
<1>7. fe = e  BY <1>2, FilterEmpty
<1>8. Story(b, wr) = b \o (fo \o fr) /\ Story(c, t) = c \o fr  BY <1>6 DEF Story, r, Advanced
<1> HIDE DEF fe, fo, fr
<1>9. CASE h \in SSEEvent
  <2>1. fo = Append(e, h) /\ c = Append(b, h)  BY <1>2, <1>3, <1>7, <1>9
  <2>2. b \o (Append(e, h) \o fr) = Append(b, h) \o fr  BY <1>2, <1>4, <1>9
  <2>3. Append(b, h) \in Seq(SSEEvent)  BY <1>9
  <2> QED  BY <1>8, <2>1, <2>2, <2>3
<1>10. CASE h \notin SSEEvent
  <2>1. fo = e /\ c = b  BY <1>2, <1>3, <1>7, <1>10
  <2>2. e \o fr = fr  BY <1>2, <1>4
  <2> QED  BY <1>8, <2>1, <2>2
<1> QED  BY <1>9, <1>10

LEMMA CalledTells ==
  ASSUME w \in WriterState, w.todo # <<>>, NEW err \in BOOLEAN, Called(err),
         NEW b, Told(b, w),
         NEW c, c = Handed(b, w)
  PROVE  /\ Told(c, w') /\ w'.writeErr = err /\ (err => w'.todo = <<>>)
         /\ w'.activeType = w.activeType
         /\ ~err /\ Speaks(b, w) => Speaks(c, w')
<1> DEFINE q == IF err THEN <<>> ELSE Rest
<1>1. b \in Seq(SSEEvent) /\ w.todo \in Seq(Calls)  BY DEF Told, WriterState
<1>2. w' = [w EXCEPT !.writeErr = err, !.todo = q]  BY DEF Called
<1> HIDE DEF q
<1>3. /\ w'.writeErr = err /\ w'.todo = q /\ SameBlock(w', w) /\ w'.started = w.started
  BY <1>2 DEF WriterState, SameBlock
<1> DEFINE t == [w EXCEPT !.todo = Tail(w.todo)]
<1>4. t.todo = Tail(w.todo) /\ Advanced(t, w)  BY DEF WriterState, Advanced
<1>5. t.todo \in Seq(Calls)
  <2>1. Tail(w.todo) \in Seq(Calls)  BY <1>1
  <2> QED  BY <1>4, <2>1
<1> HIDE DEF t
<1>6. c \in Seq(SSEEvent) /\ Story(c, t) = Story(b, w)  BY <1>1, <1>4, StoryGoesOn
<1>7. Told(c, t)  BY <1>6 DEF Told
<1>8. CASE err
  <2>1. w'.todo = <<>>  BY <1>3, <1>8 DEF q
  <2>2. Told(c, w')  BY <1>5, <1>7, <2>1, EmptiedTells
  <2> QED  BY <1>3, <1>8, <2>1, <2>2 DEF SameBlock
<1>9. CASE ~err
  <2>1. w'.todo = t.todo  BY <1>3, <1>4, <1>9 DEF q, Rest
  <2>2. Story(c, w') = Story(b, w)  BY <1>6, <2>1 DEF Story
  <2>3. Told(c, w')  BY <1>6, <2>2 DEF Told
  <2>4. Speaks(b, w) => Speaks(c, w')
    BY <1>3, <1>6, <1>9, <2>2 DEF Speaks, SameBlock
  <2> QED  BY <1>3, <1>9, <2>3, <2>4 DEF SameBlock
<1> QED  BY <1>8, <1>9
----------------------------------------------------------------------------
(* Steps that add nothing to the message.                                  *)

LEMMA MovesOn ==
  ASSUME MInv, DownP!Silent, w' = w, req' \in Request, req'.stream = req.stream,
         w.todo = <<>>, req'.pc \notin {"emit", "flush"},
         Reported => Reported',
         req'.pc \in {"headers", "start", "finish", "callback", "callbackEnd", "error"}
           => req.stream,
         Invisible' => ~s.promoted,
         req'.pc = "retry" => hist.offered = <<>>,
         req.stream /\ Unended' => Speaks(hist.offered, w),
         req'.pc = "callback" => InError /\ s' = s
  PROVE  Script'
<1>1. MessageAt /\ StreamAt /\ SpeaksAt /\ ErrorAt  BY ScriptFacts
<1>2. /\ hist'.offered = hist.offered /\ s'.promoted = s.promoted
      /\ DownP!Events(s') = DownP!Events(s)
      /\ SseError \in DownP!Elements(s'.out) => SseError \in DownP!Elements(s.out)
  BY DEF DownP!Silent
<1>3. MessageAt'  BY <1>1, <1>2 DEF MessageAt
<1>4. StreamAt'  BY <1>1, <1>2 DEF StreamAt, Invisible
<1>5. SpeaksAt'
  <2>1. ~InEvent'  BY DEF InEvent
  <2>2. InError' => InError /\ s' = s  BY DEF InError
  <2> QED  BY <1>1, <1>2, <2>1, <2>2 DEF SpeaksAt
<1>6. ErrorAt'  BY <1>1, <1>2 DEF ErrorAt
<1> QED  BY <1>3, <1>4, <1>5, <1>6 DEF Script

(* The session's and its environment's own steps.                          *)
LEMMA StandsBy ==
  ASSUME MInv, DownP!Silent, w' = w, req' = req,
         DownP!Unavailable(s) => DownP!Unavailable(s')
  PROVE  Script'
<1>1. MessageAt /\ StreamAt /\ SpeaksAt /\ ErrorAt  BY ScriptFacts
<1>2. /\ hist'.offered = hist.offered /\ s'.promoted = s.promoted
      /\ DownP!Events(s') = DownP!Events(s)
      /\ SseError \in DownP!Elements(s'.out) => SseError \in DownP!Elements(s.out)
  BY DEF DownP!Silent
<1>3. MessageAt' /\ StreamAt'
  BY <1>1, <1>2 DEF MessageAt, StreamAt, Resting, Invisible
<1>4. SpeaksAt'  BY <1>1, <1>2 DEF SpeaksAt, Unended, InEvent, InError
<1>5. ErrorAt'  BY <1>1, <1>2 DEF ErrorAt, Reported
<1> QED  BY <1>3, <1>4, <1>5 DEF Script

LEMMA UnchangedIsSilent == SessionUnchanged => DownP!Silent
BY DEF SessionUnchanged, DownP!Silent

(* The steps without a call of the session.                                *)
LEMMA AsideScript ==
  ASSUME MInv,
         \/ CallFails \/ CallSucceeds \/ Abandon \/ ReportError \/ AlreadyFinished
         \/ BufferedInvalidState \/ GiveUp \/ FinalErrorRefused
  PROVE  Script'
<1>1. PICK pc \in {"call", "headers", "start", "parse", "done", "error", "finish", "retry", "fail"} :
        /\ Goto(pc) /\ SessionUnchanged /\ w' = w
        /\ req.pc \in {"call", "parsed", "retry", "fail", "error"}
        /\ pc \in {"headers", "finish", "error"} => req.stream
        /\ pc \in {"headers", "parse"} => req.pc = "call"
        /\ pc = "fail" => req.pc \in {"call", "retry"}
        /\ pc = "retry" => ~req.stream
        /\ pc = "error" => req.pc = "parsed" /\ req.outcome # "localStop"
        /\ pc \notin {"call", "start"}
        /\ pc = "parse" => ~req.stream
  BY DEF CallFails, CallSucceeds, Abandon, ReportError, AlreadyFinished, BufferedInvalidState,
         GiveUp, FinalErrorRefused, Parsed, Buffered
<1>2. req \in Request /\ MessageAt /\ StreamAt /\ SpeaksAt  BY ScriptFacts
<1>3. pc \in PcStates  BY DEF PcStates
<1>4. req' \in Request /\ SameRequest /\ req'.pc = pc  BY <1>1, <1>2, <1>3, GotoFields
<1>5. DownP!Silent  BY <1>1, UnchangedIsSilent
<1>6. w.todo = <<>>  BY <1>1, <1>2 DEF MessageAt, Resting
<1>7. ~Reported  BY <1>1 DEF Reported
<1>8. Invisible' => ~s.promoted
  BY <1>1, <1>2, <1>4 DEF Invisible, StreamAt, SameRequest
<1>9. req.stream /\ Unended' => Speaks(hist.offered, w)
  <2>1. Unended' => pc \in {"headers", "parse", "error"}  BY <1>1, <1>4 DEF Unended
  <2>2. req.stream /\ pc \in {"headers", "parse", "error"} => Unended
    BY <1>1 DEF Unended
  <2> QED  BY <1>2, <2>1, <2>2 DEF SpeaksAt
<1>10. req'.pc = "retry" => hist.offered = <<>>  BY <1>1, <1>2, <1>4 DEF StreamAt
<1> QED
  BY <1>1, <1>4, <1>5, <1>6, <1>7, <1>8, <1>9, <1>10, MovesOn DEF SameRequest

LEMMA ReadingEndsScript ==
  ASSUME MInv, ReadError \/ ReadEOF \/ ReadBreaks
  PROVE  Script'
<1>1. PICK o \in {"retryable", "fatal", "eof", "broken"} :
        After(o) /\ SessionUnchanged /\ w' = w /\ req.pc = "parse"
  BY DEF ReadError, ReadEOF, ReadBreaks, Reads
<1>2. req \in Request /\ MessageAt /\ StreamAt /\ SpeaksAt  BY ScriptFacts
<1>3. req' \in Request /\ SameRequest /\ req'.pc = "parsed" /\ req'.outcome = o
  BY <1>1, <1>2, AfterFields
<1>4. DownP!Silent  BY <1>1, UnchangedIsSilent
<1>5. w.todo = <<>> /\ ~Reported  BY <1>1, <1>2 DEF MessageAt, Resting, Reported
<1>6. Invisible' => ~s.promoted  BY <1>2, <1>3 DEF Invisible, StreamAt, SameRequest
<1>7. req.stream => Speaks(hist.offered, w)  BY <1>1, <1>2 DEF Unended, SpeaksAt
<1> QED  BY <1>1, <1>3, <1>4, <1>5, <1>6, <1>7, MovesOn DEF SameRequest

LEMMA EmitDoneScript ==
  ASSUME MInv, EmitDone
  PROVE  Script'
<1> DEFINE pc == IF Failed THEN "done" ELSE req.next
<1>1. Goto(pc) /\ SessionUnchanged /\ w' = w /\ req.pc = "emit" /\ w.todo = <<>>
  BY DEF EmitDone
<1>2. req \in Request /\ MessageAt /\ StreamAt /\ SpeaksAt /\ StopsLocally
  BY ScriptFacts DEF MInv, Inv, Place
<1>3. pc \in NextStates /\ pc \in PcStates /\ (pc = "done" \/ pc = req.next)
  BY <1>2 DEF Request, NextStates, PcStates
<1>4. pc = "parse" => ~w.writeErr  BY DEF Failed
<1> HIDE DEF pc
<1>5. /\ req' \in Request /\ SameRequest /\ req'.pc = pc /\ req'.outcome = req.outcome
  BY <1>1, <1>2, <1>3, GotoFields
<1>6. DownP!Silent /\ s' = s  BY <1>1, UnchangedIsSilent DEF SessionUnchanged
<1>7. ~Reported /\ req.stream  BY <1>1, <1>2 DEF Reported, StreamAt
<1>8. ~Invisible'  BY <1>3, <1>5, <1>7 DEF Invisible, SameRequest, NextStates
<1>9. Unended' => Speaks(hist.offered, w)
  <2>1. Unended' => pc = "parse" /\ InEvent
    BY <1>1, <1>2, <1>3, <1>5 DEF Unended, InEvent, StopsLocally, NextStates
  <2> QED  BY <1>2, <1>4, <2>1 DEF SpeaksAt
<1>10. req'.pc = "callback" => InError  BY <1>1, <1>3, <1>5 DEF InError
<1> QED
  BY <1>1, <1>3, <1>5, <1>6, <1>7, <1>8, <1>9, <1>10, MovesOn DEF SameRequest, NextStates
----------------------------------------------------------------------------
(* Steps that give the writer something to write.                          *)

LEMMA EmitsOn ==
  ASSUME MInv, SessionUnchanged, req' \in Request, req'.stream = req.stream, req.stream,
         req'.pc = "emit", req'.next \in {"parse", "parsed", "finish", "done"},
         ~Reported, Told(hist.offered, w'),
         req'.next = "parse" => Speaks(hist.offered, w')
  PROVE  Script'
<1>1. MessageAt /\ StreamAt /\ SpeaksAt /\ ErrorAt  BY ScriptFacts
<1>2. hist' = hist /\ s' = s  BY DEF SessionUnchanged
<1>3. MessageAt'  BY <1>2 DEF MessageAt, Resting
<1>4. StreamAt'  BY <1>1, <1>2 DEF StreamAt, Invisible
<1>5. SpeaksAt'  BY <1>2 DEF SpeaksAt, Unended, InEvent, InError
<1>6. ErrorAt'  BY <1>1, <1>2 DEF ErrorAt
<1> QED  BY <1>3, <1>4, <1>5, <1>6 DEF Script

(* What an event makes the writer tell.                                    *)
LEMMA ReadEventTells ==
  ASSUME MInv, ReadEvent
  PROVE  /\ SessionUnchanged /\ req.stream /\ ~Reported /\ Told(hist.offered, w')
         /\ req' \in Request /\ req'.stream = req.stream /\ req'.pc = "emit"
         /\ \/ req'.next = "parsed" /\ Ends(hist.offered, w')
            \/ req'.next = "parse" /\ Speaks(hist.offered, w')
<1> DEFINE hi == 2 * req.events - 1
<1>1. PICK e \in Input :
        /\ w' \in Handled(w, e)
        /\ req' = [req EXCEPT !.pc = "emit", !.events = @ + 1,
                              !.next = IF e.stop THEN "parsed" ELSE "parse",
                              !.outcome = IF e.stop THEN "localStop" ELSE "none"]
  BY UpstreamEventsAreInputs DEF ReadEvent
<1>2. req.pc = "parse" /\ req.stream /\ req.events < MaxEvents /\ SessionUnchanged
  BY DEF ReadEvent, Reads
<1>3. req \in Request /\ Within(w, hi) /\ Speaks(hist.offered, w) /\ ~Reported
  BY <1>2, ScriptFacts DEF WriterAt, Reading, SpeaksAt, Unended, Reported
<1>4. hi \in Int /\ hi + 4 <= MaxIndex /\ req.events \in Nat /\ MaxEvents \in Nat
  BY <1>2, <1>3, EventsLeft, MaxEventsIsNat
<1>5. e.stop \in BOOLEAN  BY DEF Input
<1>6. /\ req' \in Request /\ req'.stream = req.stream /\ req'.pc = "emit"
      /\ req'.next = IF e.stop THEN "parsed" ELSE "parse"
  <2>1. req.events + 1 \in 0..MaxEvents  BY <1>2, <1>4
  <2> DEFINE n == IF e.stop THEN "parsed" ELSE "parse"
             o == IF e.stop THEN "localStop" ELSE "none"
             k == req.events + 1
  <2>2. n \in {"parsed", "parse"} /\ o \in {"localStop", "none"} /\ k \in 0..MaxEvents
    BY <2>1
  <2>3. req' = [req EXCEPT !.pc = "emit", !.events = k, !.next = n, !.outcome = o]
    BY <1>1
  <2>4. n = IF e.stop THEN "parsed" ELSE "parse"  OBVIOUS
  <2> HIDE DEF n, o, k
  <2> QED  BY <1>3, <2>2, <2>3, <2>4 DEF Request
<1> HIDE DEF hi
<1>7. Told(hist.offered, w') /\ (IF e.stop THEN Ends(hist.offered, w') ELSE Speaks(hist.offered, w'))
  BY <1>1, <1>3, <1>4, HandledTells
<1> QED  BY <1>2, <1>3, <1>5, <1>6, <1>7

LEMMA ReadEventScript ==
  ASSUME MInv, ReadEvent
  PROVE  Script'
BY ReadEventTells, EmitsOn

LEMMA SearchSucceedsScript ==
  ASSUME MInv, SearchSucceeds
  PROVE  Script'
<1> DEFINE t == FinishWebSearch(WriteText(WriteWebSearchResult(WriteServerToolUse(w))))
<1>1. /\ req \in Request /\ Within(w, -1) /\ req.pc = "call" /\ SessionUnchanged
      /\ MessageAt /\ StreamAt /\ SpeaksAt
  BY ScriptFacts DEF SearchSucceeds, WriterAt, Early
<1>2. (req.stream /\ Emit(t, "done")) \/ (~req.stream /\ Answer("message") /\ w' = w)
  BY DEF SearchSucceeds
<1>3. req.stream => Told(hist.offered, t)
  <2>1. req.stream => Speaks(hist.offered, w)  BY <1>1 DEF SpeaksAt, Unended
  <2>2. MaxIndex >= 2  BY IndicesSuffice
  <2> QED  BY <1>1, <2>1, <2>2, WebSearchTells
<1>4. ~Reported /\ w.todo = <<>>  BY <1>1 DEF Reported, MessageAt, Resting
<1> HIDE DEF t
<1>5. CASE req.stream /\ Emit(t, "done")
  <2>1. "done" \in NextStates  BY DEF NextStates
  <2>2. w' = t /\ req' \in Request /\ SameRequest /\ req'.pc = "emit" /\ req'.next = "done"
    BY <1>1, <1>5, <2>1, EmitFields
  <2> QED  BY <1>1, <1>3, <1>4, <1>5, <2>2, EmitsOn DEF SameRequest
<1>6. CASE ~req.stream /\ Answer("message") /\ w' = w
  <2>1. req' \in Request /\ SameRequest /\ req'.pc = "done"
    BY <1>1, <1>6, AnswerFields
  <2>2. DownP!Silent  BY <1>1, UnchangedIsSilent
  <2>3. ~s.promoted /\ ~Unended'  BY <1>1, <1>6, <2>1 DEF StreamAt, Invisible, Unended
  <2> QED  BY <1>4, <1>6, <2>1, <2>2, <2>3, MovesOn DEF SameRequest
<1> QED  BY <1>2, <1>5, <1>6

LEMMA FinishMessageScript ==
  ASSUME MInv, FinishMessage
  PROVE  Script'
<1> DEFINE hi == 2 * req.events - 1
<1>1. PICK f \in Finals(w) : Emit(Finish(w, f), "finish")  BY DEF FinishMessage
<1> DEFINE t == Finish(w, f)
<1>2. /\ req \in Request /\ req.pc = "parsed" /\ req.stream /\ req.outcome = "eof"
      /\ SessionUnchanged
  BY ScriptFacts DEF FinishMessage, Parsed
<1>3. Within(w, hi) /\ Speaks(hist.offered, w) /\ ~Reported
  BY <1>2, ScriptFacts DEF WriterAt, Reading, SpeaksAt, Unended, Reported
<1>4. "finish" \in NextStates  BY DEF NextStates
<1>5. hi \in Int /\ hi + 2 <= MaxIndex  BY <1>2, EventsLeft
<1>6. t = Finish(w, f)  OBVIOUS
<1> HIDE DEF hi, t
<1>7. Told(hist.offered, t)  BY <1>3, <1>5, <1>6, FinishTells
<1>8. w' = t /\ req' \in Request /\ SameRequest /\ req'.pc = "emit" /\ req'.next = "finish"
  BY <1>1, <1>2, <1>4, <1>6, EmitFields
<1> QED  BY <1>2, <1>3, <1>7, <1>8, EmitsOn DEF SameRequest

LEMMA FinalErrorCallbackScript ==
  ASSUME MInv, FinalErrorCallback
  PROVE  Script'
<1> DEFINE t == CloseActiveBlock(w)
<1>1. /\ req \in Request /\ DownP!FinalErrorBegin /\ Emit(t, "callback") /\ req.pc = "error"
  BY SameActions, ScriptFacts DEF FinalErrorCallback
<1>2. /\ MessageAt /\ StreamAt /\ SpeaksAt /\ ErrorAt /\ DownP!TypeOK
      /\ Within(w, MaxIndex)
  BY ScriptFacts DEF WriterAt
<1>3. req.stream /\ Speaks(hist.offered, w) /\ ~Reported
  BY <1>1, <1>2 DEF StreamAt, SpeaksAt, Unended, Reported
<1>4. MaxIndex \in Int /\ MaxIndex <= MaxIndex /\ "callback" \in NextStates
  BY IndicesSuffice, MaxIndexIsNat DEF NextStates
<1>5. t = CloseActiveBlock(w)  OBVIOUS
<1> HIDE DEF t
<1>6. Speaks(hist.offered, t) /\ t.activeType = NoBlock
  BY <1>2, <1>3, <1>4, <1>5, CloseActiveBlockSpeaks
<1>7. /\ w' = t /\ req' \in Request /\ SameRequest /\ req'.pc = "emit"
      /\ req'.next = "callback"
  BY <1>1, <1>4, EmitFields
<1>8. DownP!Silent  BY <1>1, <1>2, SessionAssumptions, DownP!SilentSteps
<1>9. /\ hist'.offered = hist.offered /\ s'.promoted = s.promoted
      /\ SseError \in DownP!Elements(s'.out) => SseError \in DownP!Elements(s.out)
  BY <1>8 DEF DownP!Silent
<1>10. MessageAt'  BY <1>6, <1>7, <1>9, SpeaksTold DEF MessageAt, Resting
<1>11. StreamAt'  BY <1>3, <1>7, <1>9 DEF StreamAt, Invisible, SameRequest
<1>12. SpeaksAt'
  <2>1. ~t.writeErr  BY <1>6 DEF Speaks
  <2> QED  BY <1>6, <1>7, <1>9, <2>1 DEF SpeaksAt, Unended, InEvent
<1>13. ErrorAt'  BY <1>2, <1>3, <1>9 DEF ErrorAt
<1> QED  BY <1>10, <1>11, <1>12, <1>13 DEF Script
----------------------------------------------------------------------------
(* The writer's calls.                                                     *)

LEMMA PromoteNames ==
  ASSUME NEW e \in Calls
  PROVE  e \in SSEEvent <=> e.event # "promote"
<1>1. \A x \in SSEEvent : x.event # "promote"  BY DEF SSEEvent, Event
<1>2. \A a : PromoteCall(a).event = "promote"  BY DEF PromoteCall, Event
<1> QED  BY <1>1, <1>2 DEF Calls

(* A call that was made, or refused: the message is the same.              *)
LEMMA CallsOn ==
  ASSUME MInv, req.pc = "emit", w.todo # <<>>, NEW err \in BOOLEAN, Called(err),
         hist'.offered = Handed(hist.offered, w),
         DownP!NoErrorFrameAdded,
         req' \in Request, req'.stream = req.stream, req'.next = req.next,
         req'.pc \in {"emit", "flush"}, req'.pc = "flush" => ~err,
         err => DownP!Unavailable(s')
  PROVE  Script'
<1>1. MessageAt /\ StreamAt /\ SpeaksAt /\ ErrorAt /\ CallAt /\ w \in WriterState  BY ScriptFacts
<1>2. Told(hist.offered, w) /\ req.stream  BY <1>1 DEF MessageAt, StreamAt
<1>3. /\ Told(hist'.offered, w') /\ w'.writeErr = err /\ (err => w'.todo = <<>>)
      /\ w'.activeType = w.activeType
      /\ ~err /\ Speaks(hist.offered, w) => Speaks(hist'.offered, w')
  BY <1>1, <1>2, CalledTells
<1>4. SseError \notin DownP!Elements(s'.out)
  BY <1>1 DEF ErrorAt, Reported, DownP!NoErrorFrameAdded
<1>5. MessageAt'
  <2>1. ~Resting'  BY <1>1 DEF CallAt, Resting
  <2> QED  BY <1>1, <1>3, <2>1 DEF MessageAt
<1>6. StreamAt'  BY <1>2 DEF StreamAt, Invisible
<1>7. SpeaksAt'
  <2>1. ~Unended' /\ (InEvent' <=> InEvent) /\ (InError' <=> InError)
    BY DEF Unended, InEvent, InError
  <2>2. InEvent /\ ~err => Speaks(hist'.offered, w')  BY <1>1, <1>3 DEF SpeaksAt
  <2>3. InError /\ ~err => Speaks(hist'.offered, w') /\ w'.activeType = NoBlock
    BY <1>1, <1>3 DEF SpeaksAt
  <2> QED  BY <1>3, <2>1, <2>2, <2>3 DEF SpeaksAt
<1>8. ErrorAt'  BY <1>4 DEF ErrorAt
<1> QED  BY <1>5, <1>6, <1>7, <1>8 DEF Script

LEMMA EmitWriteScript ==
  ASSUME MInv, EmitWrite
  PROVE  Script'
<1> DEFINE h == Head(w.todo)
           err == s'.firstErr
           pc == IF err THEN "emit" ELSE "flush"
<1>1. /\ req.pc = "emit" /\ w.todo # <<>> /\ h.event # "promote"
      /\ DownP!Write(h) /\ Called(err) /\ UNCHANGED call
      /\ IF err THEN UNCHANGED req ELSE Goto("flush")
  BY SameActions DEF EmitWrite, Emits
<1>2. req \in Request /\ w \in WriterState /\ DownP!TypeOK  BY ScriptFacts
<1>3. h \in SSEEvent
  <2>1. h \in Calls  BY <1>1, <1>2 DEF WriterState
  <2> QED  BY <1>1, <2>1, PromoteNames
<1>4. /\ hist'.offered = Append(hist.offered, h) /\ DownP!NoErrorFrameAdded
  BY <1>1, <1>2, <1>3, SessionAssumptions, DownP!WriteAdds
<1>5. hist'.offered = Handed(hist.offered, w)  BY <1>3, <1>4 DEF Handed
<1>6. err \in BOOLEAN
  <2>1. DownP!Quiet  BY <1>1, <1>3 DEF DownP!Quiet
  <2>2. s' \in DownP!Session
    BY <1>2, <2>1, SessionAssumptions, DownP!QuietFollows DEF DownP!Follows
  <2> QED  BY <2>2 DEF DownP!Session
<1>7. err => DownP!Unavailable(s')  BY DEF DownP!Unavailable
<1> HIDE DEF err
<1>8. /\ req' \in Request /\ req'.stream = req.stream /\ req'.next = req.next
      /\ req'.pc \in {"emit", "flush"} /\ (req'.pc = "flush" => ~err)
  <2>1. CASE err  BY <1>1, <1>2, <2>1
  <2>2. CASE ~err
    <3>1. "flush" \in PcStates  BY DEF PcStates
    <3> QED  BY <1>1, <1>2, <2>2, <3>1, GotoFields DEF SameRequest
  <2> QED  BY <1>6, <2>1, <2>2
<1> QED  BY <1>1, <1>4, <1>5, <1>6, <1>7, <1>8, CallsOn

LEMMA EmitPromoteScript ==
  ASSUME MInv, EmitPromote
  PROVE  Script'
<1> DEFINE h == Head(w.todo)
           err == s'.firstErr
<1>1. /\ req.pc = "emit" /\ w.todo # <<>> /\ h.event = "promote"
      /\ DownP!Promote /\ Called(err) /\ UNCHANGED req
  BY SameActions DEF EmitPromote, Emits
<1>2. req \in Request /\ w \in WriterState /\ DownP!TypeOK  BY ScriptFacts
<1>3. h \notin SSEEvent
  <2>1. h \in Calls  BY <1>1, <1>2 DEF WriterState
  <2> QED  BY <1>1, <2>1, PromoteNames
<1>4. hist' = hist /\ DownP!NoErrorFrameAdded
  BY <1>1, <1>2, SessionAssumptions, DownP!PromoteAdds
<1>5. hist'.offered = Handed(hist.offered, w)  BY <1>3, <1>4 DEF Handed
<1>6. err \in BOOLEAN
  <2>1. DownP!Quiet  BY <1>1 DEF DownP!Quiet
  <2>2. s' \in DownP!Session
    BY <1>2, <2>1, SessionAssumptions, DownP!QuietFollows DEF DownP!Follows
  <2> QED  BY <2>2 DEF DownP!Session
<1>7. err => DownP!Unavailable(s')  BY DEF DownP!Unavailable
<1> HIDE DEF err
<1> QED  BY <1>1, <1>2, <1>4, <1>5, <1>6, <1>7, CallsOn

(* A refused call fails the writer, whose remaining calls are dropped.     *)
LEMMA CallRefusedScript ==
  ASSUME MInv, CallRefused
  PROVE  Script'
<1>1. /\ req.pc = "emit" /\ w.todo # <<>> /\ DownP!Unavailable(s)
      /\ Called(TRUE) /\ UNCHANGED req /\ SessionUnchanged
  BY DEF CallRefused, Emits, Down!Unavailable, DownP!Unavailable
<1>2. MessageAt /\ StreamAt /\ SpeaksAt /\ ErrorAt /\ w \in WriterState  BY ScriptFacts
<1>3. w' = [w EXCEPT !.writeErr = TRUE, !.todo = <<>>]  BY <1>1 DEF Called
<1>4. w'.writeErr /\ w'.todo = <<>>  BY <1>2, <1>3 DEF WriterState
<1>5. hist' = hist /\ s' = s  BY <1>1 DEF SessionUnchanged
<1>6. Told(hist.offered, w')
  <2>1. Told(hist.offered, w) /\ w.todo \in Seq(Calls)  BY <1>2 DEF MessageAt, WriterState
  <2> QED  BY <1>4, <2>1, EmptiedTells
<1>7. MessageAt'  BY <1>1, <1>2, <1>4, <1>5, <1>6 DEF MessageAt
<1>8. StreamAt'  BY <1>1, <1>2, <1>5 DEF StreamAt, Invisible
<1>9. SpeaksAt'
  <2>1. ~Unended'  BY <1>1 DEF Unended
  <2> QED  BY <1>1, <1>4, <1>5, <2>1 DEF SpeaksAt
<1>10. ErrorAt'  BY <1>1, <1>2, <1>5 DEF ErrorAt, Reported
<1> QED  BY <1>7, <1>8, <1>9, <1>10 DEF Script

LEMMA EmitFlushScript ==
  ASSUME MInv, EmitFlush
  PROVE  Script'
<1> DEFINE err == s'.firstErr
           q == IF err THEN <<>> ELSE w.todo
           pc == IF req.next = "callbackEnd" THEN "callbackEnd" ELSE "emit"
<1>1. /\ req.pc = "flush" /\ Goto(pc) /\ w' = [w EXCEPT !.writeErr = err, !.todo = q]
      /\ DownP!Flush \/ SessionUnchanged
  BY SameActions DEF EmitFlush
<1>2. /\ req \in Request /\ MessageAt /\ StreamAt /\ SpeaksAt /\ ErrorAt
      /\ w \in WriterState /\ DownP!TypeOK
  BY ScriptFacts
<1>3. pc \in PcStates /\ pc \in {"callbackEnd", "emit"}
      /\ (pc = "emit" <=> req.next # "callbackEnd")
  BY DEF PcStates
<1> HIDE DEF pc
<1>4. /\ req' \in Request /\ SameRequest /\ req'.pc = pc /\ req'.next = req.next
  BY <1>1, <1>2, <1>3, GotoFields
<1>5. DownP!Silent
  <2>1. CASE DownP!Flush  BY <1>2, <2>1, SessionAssumptions, DownP!SilentSteps
  <2>2. CASE SessionUnchanged  BY <2>2, UnchangedIsSilent
  <2> QED  BY <1>1, <2>1, <2>2
<1>6. /\ hist'.offered = hist.offered /\ s'.promoted = s.promoted
      /\ DownP!Events(s') = DownP!Events(s)
      /\ SseError \in DownP!Elements(s'.out) => SseError \in DownP!Elements(s.out)
  BY <1>5 DEF DownP!Silent
<1>7. err \in BOOLEAN /\ (err => DownP!Unavailable(s'))
  <2>1. s' \in DownP!Session
    <3>1. CASE DownP!Flush
      <4>1. DownP!Quiet  BY <3>1 DEF DownP!Quiet
      <4> QED  BY <1>2, <4>1, SessionAssumptions, DownP!QuietFollows DEF DownP!Follows
    <3>2. CASE SessionUnchanged  BY <1>2, <3>2 DEF SessionUnchanged, DownP!TypeOK
    <3> QED  BY <1>1, <3>1, <3>2
  <2> QED  BY <2>1 DEF DownP!Session, DownP!Unavailable
<1> HIDE DEF err
<1>8. /\ w'.writeErr = err /\ w'.todo = q /\ SameBlock(w', w) /\ w'.started = w.started
  <2> HIDE DEF q
  <2> QED  BY <1>1, <1>2 DEF WriterState, SameBlock
<1>9. /\ Told(hist.offered, w') /\ (err \/ w.todo = <<>> => w'.todo = <<>>)
      /\ ~err /\ ~w.writeErr /\ Speaks(hist.offered, w) => Speaks(hist.offered, w')
  <2>1. Told(hist.offered, w) /\ w.todo \in Seq(Calls)  BY <1>2 DEF MessageAt, WriterState
  <2>2. CASE err
    <3>1. w'.todo = <<>>  BY <1>8, <2>2 DEF q
    <3> QED  BY <2>1, <2>2, <3>1, EmptiedTells
  <2>3. CASE ~err
    <3>1. w'.todo = w.todo  BY <1>8, <2>3 DEF q
    <3>2. Told(hist.offered, w')  BY <2>1, <3>1 DEF Told, Story
    <3>3. ~w.writeErr /\ Speaks(hist.offered, w) => Speaks(hist.offered, w')
      <4>1. ~w'.writeErr  BY <1>8, <2>3
      <4>2. Story(hist.offered, w') = Story(hist.offered, w)  BY <3>1 DEF Story
      <4> QED  BY <1>8, <4>1, <4>2 DEF Speaks, SameBlock
    <3> QED  BY <2>3, <3>1, <3>2, <3>3
  <2> QED  BY <1>7, <2>2, <2>3
<1>10. MessageAt'
  <2>1. Resting' => w.todo = <<>>  BY <1>1, <1>2, <1>3, <1>4 DEF Resting, MessageAt
  <2> QED  BY <1>3, <1>4, <1>6, <1>9, <2>1 DEF MessageAt
<1>11. StreamAt'  BY <1>1, <1>2, <1>3, <1>4, <1>6 DEF StreamAt, Invisible, SameRequest
<1>12. SpeaksAt'
  <2>1. ~Unended'  BY <1>3, <1>4 DEF Unended
  <2>2. (InEvent' => InEvent) /\ (InError' => InError) /\ (InEvent' \/ InError' => ~w.writeErr)
    BY <1>1, <1>2, <1>3, <1>4 DEF InEvent, InError, MessageAt
  <2>3. InEvent' => IF err THEN w'.todo = <<>> ELSE Speaks(hist.offered, w')
    BY <1>2, <1>9, <2>2 DEF SpeaksAt
  <2>4. InError' => IF err THEN w'.todo = <<>>
                    ELSE Speaks(hist.offered, w') /\ w'.activeType = NoBlock
    BY <1>2, <1>8, <1>9, <2>2 DEF SpeaksAt, SameBlock
  <2> QED  BY <1>6, <1>7, <1>8, <2>1, <2>3, <2>4 DEF SpeaksAt
<1>13. ErrorAt'  BY <1>1, <1>2, <1>3, <1>4, <1>6 DEF ErrorAt, Reported
<1> QED  BY <1>10, <1>11, <1>12, <1>13 DEF Script
----------------------------------------------------------------------------
(* The session's methods that the request goroutine calls itself.          *)

LEMMA SilentCallsScript ==
  ASSUME MInv, InstallHeaders \/ StartHeartbeat \/ FinalErrorReturns
  PROVE  Script'
<1>1. PICK pc \in {"start", "call", "parse", "done"} :
        /\ Goto(pc) /\ w' = w
        /\ req.pc \in {"headers", "start", "callback", "callbackEnd"}
        /\ \/ DownP!SetSSEHeaders \/ DownP!Start \/ DownP!FinalErrorEnd
           \/ SessionUnchanged
        /\ Reported => pc = "done"
        /\ req.pc \in {"callback", "callbackEnd"} => pc = "done"
  BY SameActions DEF InstallHeaders, StartHeartbeat, FinalErrorReturns, Reported
<1>2. req \in Request /\ MessageAt /\ StreamAt /\ SpeaksAt /\ DownP!TypeOK
  BY ScriptFacts
<1>3. pc \in PcStates  BY DEF PcStates
<1>4. req' \in Request /\ SameRequest /\ req'.pc = pc  BY <1>1, <1>2, <1>3, GotoFields
<1>5. DownP!Silent
  <2>1. CASE SessionUnchanged  BY <2>1, UnchangedIsSilent
  <2>2. CASE DownP!SetSSEHeaders \/ DownP!Start \/ DownP!FinalErrorEnd
    BY <1>2, <2>2, SessionAssumptions, DownP!SilentSteps
  <2> QED  BY <1>1, <2>1, <2>2
<1>6. w.todo = <<>> /\ req.stream  BY <1>1, <1>2 DEF MessageAt, Resting, StreamAt
<1>7. Reported => Reported'  BY <1>1, <1>4 DEF Reported
<1>8. Invisible' => ~s.promoted
  BY <1>1, <1>2, <1>4, <1>6 DEF Invisible, StreamAt, SameRequest
<1>9. Unended' => Speaks(hist.offered, w)
  <2>1. Unended' => Unended  BY <1>1, <1>4 DEF Unended
  <2> QED  BY <1>2, <1>6, <2>1 DEF SpeaksAt
<1> QED  BY <1>1, <1>4, <1>5, <1>6, <1>7, <1>8, <1>9, MovesOn DEF SameRequest

LEMMA NothingLeftTells ==
  ASSUME NEW wr, wr.todo = <<>>
  PROVE  Told(<<>>, wr)
<1> DEFINE e == <<>>
<1>1. e \in Seq(SSEEvent) /\ WellFormedSoFar(e)  BY EmptyWellFormed
<1> HIDE DEF e
<1>2. Story(e, wr) = e  BY <1>1, EmptyStory
<1>3. Told(e, wr)  BY <1>1, <1>2 DEF Told
<1> QED  BY <1>3 DEF e

(* An attempt that is dropped, and with it what it has written.            *)
LEMMA DroppedScript ==
  ASSUME MInv, RetryInvalidState \/ RetryEmpty
  PROVE  Script'
<1>1. /\ Goto("retry") /\ w' = w /\ req.pc \in {"parsed", "finish"}
      /\ DownP!Discard /\ ~s.promoted
      /\ req.pc = "parsed" => req.stream
  BY SameActions DEF RetryInvalidState, RetryEmpty, Parsed, MayRetry, EmptyVisibleEndTurn
<1>2. req \in Request /\ MessageAt /\ StreamAt /\ ErrorAt /\ DownP!TypeOK
  BY ScriptFacts
<1>3. "retry" \in PcStates  BY DEF PcStates
<1>4. req' \in Request /\ SameRequest /\ req'.pc = "retry"
  BY <1>1, <1>2, <1>3, GotoFields
<1>5. s'.out = s.out /\ ~s'.promoted /\ hist'.offered = <<>>
  BY <1>1, <1>2, SessionAssumptions, DownP!DiscardDrops
<1>6. w.todo = <<>> /\ ~Reported  BY <1>1, <1>2 DEF MessageAt, Resting, Reported
<1>7. MessageAt'  BY <1>1, <1>4, <1>5, <1>6, NothingLeftTells DEF MessageAt
<1>8. StreamAt'  BY <1>4, <1>5 DEF StreamAt
<1>9. SpeaksAt'  BY <1>4 DEF SpeaksAt, Unended, InEvent, InError
<1>10. ErrorAt'  BY <1>2, <1>5, <1>6 DEF ErrorAt
<1> QED  BY <1>7, <1>8, <1>9, <1>10 DEF Script

LEMMA DeliverMessageScript ==
  ASSUME MInv, DeliverMessage
  PROVE  Script'
<1>1. /\ Goto("done") /\ w' = w /\ req.pc = "finish"
      /\ DownP!Promote \/ SessionUnchanged
  BY SameActions DEF DeliverMessage
<1>2. req \in Request /\ MessageAt /\ StreamAt /\ ErrorAt /\ DownP!TypeOK
  BY ScriptFacts
<1>3. "done" \in PcStates  BY DEF PcStates
<1>4. req' \in Request /\ SameRequest /\ req'.pc = "done"
  BY <1>1, <1>2, <1>3, GotoFields
<1>5. hist' = hist /\ DownP!NoErrorFrameAdded
  <2>1. CASE DownP!Promote  BY <1>2, <2>1, SessionAssumptions, DownP!PromoteAdds
  <2>2. CASE SessionUnchanged  BY <2>2 DEF SessionUnchanged, DownP!NoErrorFrameAdded
  <2> QED  BY <1>1, <2>1, <2>2
<1>6. w.todo = <<>> /\ ~Reported /\ req.stream
  BY <1>1, <1>2 DEF MessageAt, Resting, Reported, StreamAt
<1>7. MessageAt'  BY <1>1, <1>2, <1>4, <1>5, <1>6 DEF MessageAt
<1>8. StreamAt'  BY <1>4, <1>6 DEF StreamAt, Invisible, SameRequest
<1>9. SpeaksAt'  BY <1>4 DEF SpeaksAt, Unended, InEvent, InError
<1>10. ErrorAt'  BY <1>2, <1>5, <1>6 DEF ErrorAt, DownP!NoErrorFrameAdded
<1> QED  BY <1>7, <1>8, <1>9, <1>10 DEF Script

(* The second attempt begins a message of its own.                         *)
LEMMA RetryScript ==
  ASSUME MInv, Retry
  PROVE  Script'
<1>1. /\ w' = NextWriter /\ req.pc = "retry" /\ SessionUnchanged
      /\ req' = [NewRequest(req.stream, FALSE) EXCEPT !.events = req.events]
  BY DEF Retry
<1>2. req \in Request /\ MessageAt /\ StreamAt /\ ErrorAt  BY ScriptFacts
<1>3. req'.pc = "call" /\ req'.stream = req.stream  BY <1>1 DEF NewRequest
<1>4. hist.offered = <<>> /\ hist' = hist /\ s' = s /\ ~s.promoted /\ ~Reported
  BY <1>1, <1>2 DEF StreamAt, Invisible, SessionUnchanged, Reported
<1>5. Speaks(<<>>, w')
  <2>1. LastAttempt \in Attempts  BY AttemptsOfTheCode DEF LastAttempt, FirstAttempt
  <2> QED  BY <1>1, <2>1, NewWriterSpeaks DEF NextWriter
<1>6. w'.todo = <<>>  BY <1>1 DEF NextWriter, NewSSEWriter
<1>7. MessageAt'
  <2>1. Told(<<>>, w')  BY <1>6, NothingLeftTells
  <2> QED  BY <1>3, <1>4, <1>6, <2>1 DEF MessageAt
<1>8. StreamAt'  BY <1>3, <1>4 DEF StreamAt
<1>9. SpeaksAt'  BY <1>3, <1>4, <1>5 DEF SpeaksAt, InEvent, InError
<1>10. ErrorAt'  BY <1>2, <1>4 DEF ErrorAt
<1> QED  BY <1>7, <1>8, <1>9, <1>10 DEF Script

(* Without a stream the writer only accumulates.                           *)
LEMMA SilentWriterScript ==
  ASSUME MInv, SessionUnchanged, ~req.stream, w'.todo = <<>>, ~req'.stream,
         req'.pc \in {"parse", "retry", "done"}, ~Reported
  PROVE  Script'
<1>1. MessageAt /\ StreamAt /\ ErrorAt  BY ScriptFacts
<1>2. hist' = hist /\ s' = s /\ hist.offered = <<>> /\ ~s.promoted
  BY <1>1 DEF StreamAt, Invisible, SessionUnchanged
<1>3. MessageAt'
  <2>1. Told(<<>>, w')  BY NothingLeftTells
  <2> QED  BY <1>2, <2>1 DEF MessageAt
<1>4. StreamAt'  BY <1>2 DEF StreamAt
<1>5. SpeaksAt'  BY DEF SpeaksAt, InEvent, InError
<1>6. ErrorAt'  BY <1>1, <1>2 DEF ErrorAt
<1> QED  BY <1>3, <1>4, <1>5, <1>6 DEF Script

LEMMA AccumulatedWritesNothing ==
  ASSUME NEW wr \in WriterState, NEW e \in Input
  PROVE  Accumulated(wr, e).todo = wr.todo
<1>1. e.kind \in {"content", "redacted", "tool"} /\ wr.localStop \in BOOLEAN
  BY DEF Input, WriterState
<1>2. CASE wr.localStop \/ e.kind = "redacted"
  <2>1. Accumulated(wr, e) = wr  BY <1>1, <1>2 DEF Accumulated
  <2> QED  BY <2>1
<1>3. CASE ~wr.localStop /\ e.kind = "tool"
  <2>1. Accumulated(wr, e) = [wr EXCEPT !.tool = TRUE, !.localStop = e.stop]
    BY <1>3 DEF Accumulated
  <2> QED  BY <2>1 DEF WriterState
<1>4. CASE ~wr.localStop /\ e.kind = "content"
  <2>1. Accumulated(wr, e)
          = [Recorded(wr, e.deltas) EXCEPT !.localStop = e.stop, !.held = e.held]
    BY <1>4 DEF Accumulated
  <2> QED  BY <2>1 DEF Recorded, WriterState
<1> QED  BY <1>1, <1>2, <1>3, <1>4

LEMMA BufferEventScript ==
  ASSUME MInv, BufferEvent
  PROVE  Script'
<1>1. PICK e \in Input : w' = Accumulated(w, e)
  BY UpstreamEventsAreInputs DEF BufferEvent
<1>2. /\ req.pc = "parse" /\ ~req.stream /\ SessionUnchanged
      /\ req' = [req EXCEPT !.events = @ + 1]
  BY DEF BufferEvent, Reads
<1>3. req \in Request /\ w \in WriterState /\ w.todo = <<>> /\ ~Reported
  BY <1>2, ScriptFacts DEF MessageAt, Resting, Reported
<1>4. w'.todo = <<>>  BY <1>1, <1>3, AccumulatedWritesNothing
<1>5. req'.pc = "parse" /\ ~req'.stream  BY <1>2, <1>3 DEF Request
<1> QED  BY <1>2, <1>3, <1>4, <1>5, SilentWriterScript

LEMMA BodiesScript ==
  ASSUME MInv, BuildResponse \/ BufferedError \/ BodyError
  PROVE  Script'
<1>1. /\ ~req.stream /\ SessionUnchanged /\ req.pc \in {"parsed", "fail"}
      /\ Goto("retry") \/ Answer("message") \/ Answer("error")
      /\ w' = w \/ \E f \in Finals(w) : w' = Finalized(w, f)
  BY DEF BuildResponse, BufferedError, BodyError, Buffered
<1>2. req \in Request /\ w \in WriterState /\ w.todo = <<>> /\ ~Reported
  BY <1>1, ScriptFacts DEF MessageAt, Resting, Reported
<1>3. w'.todo = <<>>
  <2>1. CASE w' = w  BY <1>2, <2>1
  <2>2. CASE \E f \in Finals(w) : w' = Finalized(w, f)
    BY <1>2, <2>2 DEF Finalized, Recorded, WriterState
  <2> QED  BY <1>1, <2>1, <2>2
<1>4. ~req'.stream /\ req'.pc \in {"retry", "done"}
  <2>1. "retry" \in PcStates  BY DEF PcStates
  <2>2. CASE Goto("retry")  BY <1>1, <1>2, <2>1, <2>2, GotoFields DEF SameRequest
  <2>3. CASE Answer("message") \/ Answer("error")
    BY <1>1, <1>2, <2>3, AnswerFields DEF SameRequest
  <2> QED  BY <1>1, <2>2, <2>3
<1> QED  BY <1>1, <1>2, <1>3, <1>4, SilentWriterScript
LEMMA NothingIsClosed == Closed(<<>>)
<1> DEFINE e == <<>>
<1>1. Tells(e, 1, FALSE, NoBlock, -1)  BY TellsNothing
<1>2. Len(e) = 0  OBVIOUS
<1> HIDE DEF e
<1>3. Closed(e)  BY <1>1, <1>2 DEF Closed, Tells
<1> QED  BY <1>3 DEF e

(* WriteFinalError before promotion: no event has reached the client.      *)
LEMMA FinalErrorScript ==
  ASSUME MInv, FinalError
  PROVE  Script'
<1>1. /\ Goto("done") /\ w' = w /\ req.stream /\ DownP!WriteFinalError
      /\ req.pc = "fail" \/ (req.pc = "error" /\ ~s.promoted)
  BY SameActions DEF FinalError
<1>2. /\ req \in Request /\ MessageAt /\ StreamAt /\ DownP!TypeOK
      /\ DownP!Delivers(s, hist.offered)
  BY ScriptFacts
<1>3. "done" \in PcStates  BY DEF PcStates
<1>4. req' \in Request /\ SameRequest /\ req'.pc = "done"
  BY <1>1, <1>2, <1>3, GotoFields
<1>5. ~s.promoted  BY <1>1, <1>2 DEF StreamAt, Invisible
<1>6. DownP!Events(s') = DownP!Events(s) /\ hist'.offered = <<>>
  BY <1>1, <1>2, <1>5, SessionAssumptions, DownP!FinalErrorDrops
<1>7. Closed(DownP!Events(s'))
  BY <1>2, <1>5, <1>6, NothingIsClosed DEF DownP!Delivers
<1>8. w.todo = <<>>  BY <1>1, <1>2 DEF MessageAt, Resting
<1>9. MessageAt'  BY <1>1, <1>4, <1>6, <1>8, NothingLeftTells DEF MessageAt
<1>10. StreamAt'  BY <1>1, <1>4 DEF StreamAt, Invisible, SameRequest
<1>11. SpeaksAt'  BY <1>4 DEF SpeaksAt, Unended, InEvent, InError
<1>12. ErrorAt'  BY <1>4, <1>7 DEF ErrorAt, Reported
<1> QED  BY <1>9, <1>10, <1>11, <1>12 DEF Script

(* A message whose writer has closed its block.                            *)
LEMMA SpokenIsClosed ==
  ASSUME NEW b, NEW wr, Speaks(b, wr), wr.todo = <<>>, wr.activeType = NoBlock
  PROVE  Closed(b)
<1>1. b \in Seq(SSEEvent)  BY DEF Speaks
<1>2. Story(b, wr) = b  BY <1>1, EmptyStory
<1>3. Tells(b, wr.attempt, wr.started, wr.activeType, wr.blockIndex)
  BY <1>2 DEF Speaks
<1>4. Opens(b) \in Nat /\ Closes(b) \in Nat
  <2>1. Len(b) + 1 \in Int  BY <1>1
  <2> QED  BY <2>1, BeforeType DEF Opens, Closes
<1>5. Opens(b) = Closes(b)  BY <1>3 DEF Tells
<1>6. \A i \in 1..Len(b) : b[i].event # "message_stop"
  BY <1>3 DEF Tells, Running
<1> QED  BY <1>4, <1>5, <1>6 DEF Closed

(* The callback of WriteFinalError: every event accepted has reached the   *)
(* client, and the block is closed.                                        *)
LEMMA ErrorFrameScript ==
  ASSUME MInv, ErrorFrame
  PROVE  Script'
<1> DEFINE err == s'.firstErr
           pc == IF err THEN "callbackEnd" ELSE "flush"
<1>1. /\ req.pc = "callback" /\ DownP!CallbackError
      /\ w' = [w EXCEPT !.writeErr = err]
      /\ req' = [req EXCEPT !.pc = pc, !.next = "callbackEnd"]
  BY SameActions DEF ErrorFrame
<1>2. /\ req \in Request /\ MessageAt /\ StreamAt /\ SpeaksAt /\ DownP!TypeOK
      /\ DownP!Delivers(s, hist.offered) /\ w \in WriterState
  BY ScriptFacts
<1>3. ~DownP!Unavailable(s) /\ s.promoted
  <2>1. ~DownP!Unavailable(s) /\ call = "callback"  BY <1>1 DEF DownP!CallbackError
  <2> QED  BY <2>1, SessionFacts DEF MInv
<1>4. w.todo = <<>> /\ req.stream /\ InError
  BY <1>1, <1>2 DEF MessageAt, Resting, StreamAt, InError
<1>5. Closed(hist.offered)
  <2>1. Speaks(hist.offered, w) /\ w.activeType = NoBlock
    BY <1>2, <1>3, <1>4 DEF SpeaksAt
  <2> QED  BY <1>4, <2>1, SpokenIsClosed
<1>6. DownP!Events(s) = hist.offered
  <2>1. s \in DownP!Session /\ ~s.firstErr
    BY <1>2, <1>3 DEF DownP!TypeOK, DownP!Unavailable
  <2>2. DownP!Events(s) \in Seq(SSEEvent)  BY <2>1, SessionAssumptions, DownP!EventsType
  <2>3. s.buf = <<>> /\ hist.offered = DownP!Events(s) \o s.buf
    BY <1>2, <1>3, <2>1 DEF DownP!Delivers, DownP!Joins
  <2> QED  BY <2>2, <2>3
<1>7. /\ DownP!Events(s') = DownP!Events(s) /\ s'.promoted = s.promoted
      /\ hist'.offered = hist.offered
  BY <1>1, <1>2, SessionAssumptions, DownP!CallbackErrorAdds
<1>8. pc \in {"callbackEnd", "flush"}  OBVIOUS
<1> HIDE DEF pc, err
<1>9. /\ req'.pc = pc /\ req'.next = "callbackEnd" /\ req'.stream = req.stream
  BY <1>1, <1>2 DEF Request
<1>10. w'.todo = <<>>  BY <1>1, <1>2, <1>4 DEF WriterState
<1>11. Told(hist.offered, w')
  <2>1. Told(hist.offered, w) /\ w.todo \in Seq(Calls)  BY <1>2 DEF MessageAt, WriterState
  <2> QED  BY <1>10, <2>1, EmptiedTells
<1>12. MessageAt'  BY <1>7, <1>8, <1>9, <1>10, <1>11 DEF MessageAt
<1>13. StreamAt'  BY <1>4, <1>8, <1>9 DEF StreamAt, Invisible
<1>14. SpeaksAt'  BY <1>8, <1>9 DEF SpeaksAt, Unended, InEvent, InError
<1>15. ErrorAt'  BY <1>5, <1>6, <1>7, <1>8, <1>9 DEF ErrorAt, Reported
<1> QED  BY <1>12, <1>13, <1>14, <1>15 DEF Script

LEMMA OthersScript ==
  ASSUME MInv, Stop \/ Environment \/ UNCHANGED vars
  PROVE  Script'
<1>1. w' = w /\ req' = req
      /\ (DownP!StopCall \/ DownP!Heartbeat \/ DownP!ClientGone \/ UNCHANGED DownP!sessionVars)
  BY SameActions
  DEF Stop, Environment, vars, Down!Heartbeat, DownP!Heartbeat, DownP!sessionVars
<1>2. DownP!TypeOK  BY ScriptFacts
<1>3. DownP!Silent  BY <1>1, <1>2, SessionAssumptions, DownP!SilentSteps
<1>4. DownP!Quiet \/ DownP!StopMark \/ DownP!StopClose
  BY <1>1 DEF DownP!Quiet, DownP!StopCall
<1>5. DownP!Unavailable(s) => DownP!Unavailable(s')
  BY <1>2, <1>4, SessionAssumptions, DownP!LostForGood
<1> QED  BY <1>1, <1>3, <1>5, StandsBy

----------------------------------------------------------------------------
(* The invariant, and the message.                                         *)

LEMMA NextKeepsScript ==
  ASSUME MInv, [Next]_vars
  PROVE  Script'
<1>1. CASE \/ CallFails \/ CallSucceeds \/ Abandon \/ ReportError \/ AlreadyFinished
           \/ BufferedInvalidState \/ GiveUp \/ FinalErrorRefused
  BY <1>1, AsideScript
<1>2. CASE SearchSucceeds  BY <1>2, SearchSucceedsScript
<1>3. CASE InstallHeaders \/ StartHeartbeat \/ FinalErrorReturns
  BY <1>3, SilentCallsScript
<1>4. CASE ReadEvent  BY <1>4, ReadEventScript
<1>5. CASE BufferEvent  BY <1>5, BufferEventScript
<1>6. CASE ReadError \/ ReadEOF \/ ReadBreaks  BY <1>6, ReadingEndsScript
<1>7. CASE EmitWrite  BY <1>7, EmitWriteScript
<1>8. CASE EmitPromote  BY <1>8, EmitPromoteScript
<1>9. CASE EmitFlush  BY <1>9, EmitFlushScript
<1>10. CASE CallRefused  BY <1>10, CallRefusedScript
<1>11. CASE EmitDone  BY <1>11, EmitDoneScript
<1>12. CASE RetryInvalidState \/ RetryEmpty  BY <1>12, DroppedScript
<1>13. CASE DeliverMessage  BY <1>13, DeliverMessageScript
<1>14. CASE FinishMessage  BY <1>14, FinishMessageScript
<1>15. CASE Retry  BY <1>15, RetryScript
<1>16. CASE BuildResponse \/ BufferedError \/ BodyError  BY <1>16, BodiesScript
<1>17. CASE FinalError  BY <1>17, FinalErrorScript
<1>18. CASE FinalErrorCallback  BY <1>18, FinalErrorCallbackScript
<1>19. CASE ErrorFrame  BY <1>19, ErrorFrameScript
<1>20. CASE Stop \/ Environment \/ UNCHANGED vars  BY <1>20, OthersScript
<1> QED
  BY <1>1, <1>2, <1>3, <1>4, <1>5, <1>6, <1>7, <1>8, <1>9, <1>10, <1>11, <1>12,
     <1>13, <1>14, <1>15, <1>16, <1>17, <1>18, <1>19, <1>20
  DEF Next, RequestGoroutine, Attempt, Conclusion

LEMMA ScriptInitially ==
  ASSUME Init
  PROVE  Script
<1>1. PICK stream, search \in BOOLEAN : req = NewRequest(stream, search)  BY DEF Init
<1>2. /\ req.pc \in {"call", "headers"} /\ (req.pc = "headers" => req.stream)
  BY <1>1 DEF NewRequest
<1>3. s.out = <<>> /\ ~s.promoted /\ hist.offered = <<>>
  BY SameSpec DEF Init, DownP!Init, DownP!newStreamSession
<1>4. Speaks(<<>>, w) /\ w.todo = <<>>
  <2>1. FirstAttempt \in Attempts  BY AttemptsOfTheCode DEF LastAttempt, FirstAttempt
  <2> QED  BY <2>1, NewWriterSpeaks DEF Init, NewSSEWriter
<1>5. MessageAt  BY <1>2, <1>3, <1>4, SpeaksTold DEF MessageAt
<1>6. StreamAt  BY <1>2, <1>3 DEF StreamAt
<1>7. SpeaksAt  BY <1>2, <1>3, <1>4 DEF SpeaksAt, InEvent, InError
<1>8. ErrorAt  BY <1>3 DEF ErrorAt, DownP!Elements
<1> QED  BY <1>5, <1>6, <1>7, <1>8 DEF Script

LEMMA MessageFollows ==
  ASSUME MInv
  PROVE  OneWellFormedMessage
<1> DEFINE m == DownP!Events(s)
           b == hist.offered
           f == Filter(w.todo, SSEEvent)
<1>1. /\ MessageAt /\ ErrorAt /\ s \in DownP!Session /\ w \in WriterState
      /\ b \in Seq(SSEEvent) /\ DownP!Delivers(s, b)
  BY ScriptFacts
<1>2. Message = m /\ Down!Elements(s.out) = DownP!Elements(s.out)
  BY DEF Message, DownP!Events, Filter, DownP!Filter, Down!Elements, DownP!Elements
<1>3. m \in Seq(SSEEvent)  BY <1>1, SessionAssumptions, DownP!EventsType
<1>4. PICK rest \in Seq(SSEEvent) : b = m \o rest
  BY <1>1 DEF DownP!Delivers, DownP!BeginsWith, DownP!Joins
<1>5. f \in Seq(SSEEvent)
  <2>1. w.todo \in Seq(Calls)  BY <1>1 DEF WriterState
  <2> QED  BY <2>1, EventsOfCalls
<1>6. WellFormedSoFar(b \o f)  BY <1>1 DEF MessageAt, Told, Story
<1> HIDE DEF m, b, f
<1>7. b \o f = m \o (rest \o f) /\ rest \o f \in Seq(SSEEvent)  BY <1>3, <1>4, <1>5
<1>8. WellFormedSoFar(m)  BY <1>3, <1>6, <1>7, BeginningTells
<1>9. ASSUME SseError \in DownP!Elements(s.out)
      PROVE  ~Open(m, Len(m) + 1) /\ \A i \in DOMAIN m : m[i].event # "message_stop"
  <2>1. Closed(m)  BY <1>1, <1>9 DEF ErrorAt, m
  <2>2. Opens(m) \in Nat /\ Closes(m) \in Nat
    <3>1. Len(m) + 1 \in Int  BY <1>3
    <3> QED  BY <3>1, BeforeType DEF Opens, Closes
  <2>3. ~(Opens(m) > Closes(m))  BY <2>1, <2>2 DEF Closed
  <2>4. DOMAIN m = 1..Len(m)  BY <1>3
  <2> QED  BY <2>1, <2>3, <2>4 DEF Closed, Open, Opened, Opens, Closes
<1> QED  BY <1>2, <1>8, <1>9 DEF OneWellFormedMessage, Finished

(* The inductive invariant of the message: the session's delivery and the  *)
(* writer's script go together in every reachable state.                   *)
THEOREM MessageInvariant == Spec => []MInv
<1> DEFINE J == DownP!Delivers(s, hist.offered) /\ Script
<1>1. Init => J
  <2>1. Init => Script  BY ScriptInitially
  <2>2. Init => DownP!DInv
    BY SameSpec, SessionAssumptions, DownP!InitDelivers DEF Init
  <2> QED  BY <2>1, <2>2 DEF DownP!DInv
<1>2. Inv /\ J => MInv
  BY DEF MInv, DownP!DInv, Inv, DownP!IInv
<1>3. Inv /\ J /\ [Next]_vars => J'
  <2> SUFFICES ASSUME Inv, J, [Next]_vars PROVE J'  OBVIOUS
  <2>1. MInv  BY <1>2
  <2>2. Script'  BY <2>1, NextKeepsScript
  <2>3. DownP!Delivers(s', hist'.offered)
    BY <2>1, StepKeepsInv, SessionAssumptions, DownP!StepDelivers DEF MInv, SessionStep
  <2> QED  BY <2>2, <2>3
<1> HIDE DEF J
<1> QED  BY <1>1, <1>2, <1>3, InvariantHolds, PTL DEF Spec

(* Whatever the upstream sends, whichever attempts are made and wherever   *)
(* the session, its heartbeat or its client break off: what the client has *)
(* got is a prefix of one well-formed message of one attempt, and an error *)
(* frame follows a closed block and never the end of the message           *)
(* (OneWellFormedMessage).                                                 *)
THEOREM OneMessageOnTheWire == Spec => []OneWellFormedMessage
<1>1. MInv => OneWellFormedMessage  BY MessageFollows
<1> QED  BY <1>1, MessageInvariant, PTL
----------------------------------------------------------------------------
(* Visible output.  A writer that has text or a tool call has promoted the *)
(* session, or is about to, or has lost it; and only between a write and   *)
(* its flush is anything of a promoted session unflushed.                  *)

Promising ==
  w.visibleFired => s.promoted \/ DownP!Unavailable(s) \/ Promises(w.todo)

Flushed == DownP!Settled(s) \/ (req.pc = "flush" /\ s.promoted)

(* A writer fails when the session is lost to it.                          *)
Failing == w.writeErr => DownP!Unavailable(s)

ShowAt == (req.stream => Shown(w)) /\ Promising /\ Flushed /\ Failing

LEMMA StreamStays ==
  ASSUME req \in Request, [Next]_vars
  PROVE  req'.stream = req.stream
<1>1. CASE \E pc \in PcStates : Goto(pc)  BY <1>1, GotoFields DEF SameRequest
<1>2. CASE \E o \in {"eof", "broken", "retryable", "fatal"} : After(o)
  BY <1>2, AfterFields DEF SameRequest
<1>3. CASE \E kind \in {"message", "error"} : Answer(kind)
  BY <1>3, AnswerFields DEF SameRequest
<1>4. CASE \E wr : \E next \in NextStates : Emit(wr, next)
  BY <1>4, EmitFields DEF SameRequest
<1>5. CASE ReadEvent \/ BufferEvent \/ ErrorFrame  BY <1>5 DEF ReadEvent, BufferEvent, ErrorFrame, Request
<1>6. CASE Retry  BY <1>6 DEF Retry, NewRequest
<1>7. CASE req' = req  BY <1>7
<1>8. CASE SearchSucceeds  BY <1>3, <1>4, <1>8 DEF SearchSucceeds, NextStates
<1>9. CASE BuildResponse
  <2>1. "retry" \in PcStates  BY DEF PcStates
  <2> QED  BY <1>1, <1>3, <1>9, <2>1 DEF BuildResponse
<1>10. CASE \/ CallFails \/ CallSucceeds \/ InstallHeaders \/ StartHeartbeat \/ EmitFlush \/ EmitDone
  <2>1. req.next \in PcStates  BY DEF Request, PcStates
  <2>2. PICK pc \in PcStates \cup {req.next} : Goto(pc)
    BY <1>10
    DEF CallFails, CallSucceeds, InstallHeaders, StartHeartbeat, EmitFlush, EmitDone, PcStates
  <2> QED  BY <1>1, <2>1, <2>2
<1>11. CASE \/ Abandon \/ RetryInvalidState \/ ReportError \/ AlreadyFinished \/ RetryEmpty
            \/ DeliverMessage \/ GiveUp \/ BufferedInvalidState \/ FinalError
            \/ FinalErrorRefused \/ FinalErrorReturns
  BY <1>1, <1>11
  DEF Abandon, RetryInvalidState, ReportError, AlreadyFinished, RetryEmpty, DeliverMessage,
      GiveUp, BufferedInvalidState, FinalError, FinalErrorRefused, FinalErrorReturns, PcStates
<1>12. CASE ReadError \/ ReadEOF \/ ReadBreaks  BY <1>2, <1>12 DEF ReadError, ReadEOF, ReadBreaks
<1>13. CASE BufferedError \/ BodyError  BY <1>3, <1>13 DEF BufferedError, BodyError
<1>14. CASE FinishMessage \/ FinalErrorCallback
  BY <1>4, <1>14 DEF FinishMessage, FinalErrorCallback, NextStates
<1>15. CASE EmitWrite
  <2>1. "flush" \in PcStates  BY DEF PcStates
  <2> QED  BY <1>1, <1>7, <1>15, <2>1 DEF EmitWrite
<1>16. CASE EmitPromote \/ CallRefused \/ Stop \/ Environment \/ UNCHANGED vars
  BY <1>7, <1>16 DEF EmitPromote, CallRefused, Stop, Environment, vars
<1> QED
  BY <1>5, <1>6, <1>8, <1>9, <1>10, <1>11, <1>12, <1>13, <1>14, <1>15, <1>16
  DEF Next, RequestGoroutine, Attempt, Conclusion

(* What a step makes of the writer's promise to call OnVisibleOutput.      *)
Promised ==
  /\ req'.stream => Shown(w')
  /\ w'.visibleFired => w.visibleFired \/ Promises(w'.todo)
  /\ Promises(w.todo) => Promises(w'.todo) \/ s'.promoted \/ DownP!Unavailable(s')
  /\ w'.writeErr => w.writeErr \/ DownP!Unavailable(s')

LEMMA SamePromised ==
  ASSUME ShowAt, req'.stream = req.stream, w'.text = w.text, w'.tool = w.tool,
         w'.visibleFired = w.visibleFired,
         w'.writeErr => w.writeErr \/ DownP!Unavailable(s'),
         w'.todo = w.todo \/ s'.promoted \/ DownP!Unavailable(s') \/ ~Promises(w.todo)
  PROVE  Promised
BY DEF Promised, ShowAt, Shown

LEMMA ShowsPromised ==
  ASSUME Shows(w', w)
  PROVE  Promised
BY DEF Shows, Fires, Promised

LEMMA TailPromises ==
  ASSUME NEW q \in Seq(AnyCall), q # <<>>, Promises(q), Head(q).event # "promote"
  PROVE  Promises(Tail(q))
<1>1. PICK i \in 1..Len(q) : q[i].event = "promote"  BY DEF Promises
<1>2. Head(q) = q[1] /\ Len(Tail(q)) = Len(q) - 1 /\ Len(q) \in Nat  OBVIOUS
<1>3. i # 1  BY <1>1, <1>2
<1>4. i - 1 \in 1..Len(Tail(q)) /\ Tail(q)[i - 1] = q[i]  BY <1>2, <1>3
<1> QED  BY <1>1, <1>4 DEF Promises

(* The calls of the writer on the session.                                 *)
LEMMA CalledPromised ==
  ASSUME MInv, ShowAt, req'.stream = req.stream, w.todo # <<>>, NEW err \in BOOLEAN, Called(err),
         err => DownP!Unavailable(s'),
         Head(w.todo).event = "promote" => s'.promoted \/ DownP!Unavailable(s')
  PROVE  Promised
<1> DEFINE q == IF err THEN <<>> ELSE Rest
<1>1. w \in WriterState /\ w.todo \in Seq(AnyCall)
  BY ScriptFacts, WriterStateIsWriter DEF Writer
<1>2. w' = [w EXCEPT !.writeErr = err, !.todo = q]  BY DEF Called
<1>3. ~err /\ Head(w.todo).event # "promote" /\ Promises(w.todo) => Promises(q)
  BY <1>1, TailPromises DEF Rest
<1> HIDE DEF q
<1>4. /\ w'.text = w.text /\ w'.tool = w.tool /\ w'.visibleFired = w.visibleFired
      /\ w'.todo = q /\ w'.writeErr = err
  BY <1>1, <1>2 DEF WriterState
<1> QED  BY <1>3, <1>4 DEF Promised, ShowAt, Shown

LEMMA EmitPromised ==
  ASSUME MInv, ShowAt, EmitWrite \/ EmitPromote \/ CallRefused, req'.stream = req.stream
  PROVE  Promised
<1> DEFINE err == s'.firstErr
<1>1. DownP!TypeOK  BY ScriptFacts
<1>2. CASE EmitWrite
  <2>1. /\ w.todo # <<>> /\ Head(w.todo).event # "promote" /\ Called(err)
        /\ DownP!Write(Head(w.todo))
    BY <1>2, SameActions DEF EmitWrite, Emits
  <2>2. Head(w.todo) \in SSEEvent
    <3>1. w \in WriterState  BY ScriptFacts
    <3>2. Head(w.todo) \in Calls  BY <2>1, <3>1 DEF WriterState
    <3> QED  BY <2>1, <3>2, PromoteNames
  <2>3. s' \in DownP!Session
    <3>1. DownP!Quiet  BY <2>1, <2>2 DEF DownP!Quiet
    <3> QED  BY <1>1, <3>1, SessionAssumptions, DownP!QuietFollows DEF DownP!Follows
  <2>4. err \in BOOLEAN /\ (err => DownP!Unavailable(s'))
    BY <2>3 DEF DownP!Session, DownP!Unavailable
  <2> HIDE DEF err
  <2> QED  BY <2>1, <2>4, CalledPromised
<1>3. CASE EmitPromote
  <2>1. w.todo # <<>> /\ Called(err) /\ DownP!Promote
    BY <1>3, SameActions DEF EmitPromote, Emits
  <2>2. s'.promoted  BY <1>1, <2>1, SessionAssumptions, DownP!PromoteMarks
  <2>3. s' \in DownP!Session
    <3>1. DownP!Quiet  BY <2>1 DEF DownP!Quiet
    <3> QED  BY <1>1, <3>1, SessionAssumptions, DownP!QuietFollows DEF DownP!Follows
  <2>4. err \in BOOLEAN /\ (err => DownP!Unavailable(s'))
    BY <2>3 DEF DownP!Session, DownP!Unavailable
  <2> HIDE DEF err
  <2> QED  BY <2>1, <2>2, <2>4, CalledPromised
<1>4. CASE CallRefused
  <2>1. w.todo # <<>> /\ Called(TRUE) /\ DownP!Unavailable(s')
    BY <1>4 DEF CallRefused, Emits, SessionUnchanged, Down!Unavailable, DownP!Unavailable
  <2> QED  BY <2>1, CalledPromised
<1> QED  BY <1>2, <1>3, <1>4

LEMMA EmitFlushPromised ==
  ASSUME MInv, ShowAt, EmitFlush \/ ErrorFrame, req'.stream = req.stream
  PROVE  Promised
<1> DEFINE err == s'.firstErr
           q == IF err THEN <<>> ELSE w.todo
<1>1. w \in WriterState  BY ScriptFacts
<1>2. w' = [w EXCEPT !.writeErr = err, !.todo = q] \/ w' = [w EXCEPT !.writeErr = err]
  BY DEF EmitFlush, ErrorFrame
<1>3. err => DownP!Unavailable(s')  BY DEF DownP!Unavailable
<1>4. ~err => q = w.todo  OBVIOUS
<1> HIDE DEF q, err
<1>5. /\ w'.text = w.text /\ w'.tool = w.tool /\ w'.visibleFired = w.visibleFired
      /\ w'.todo = q \/ w'.todo = w.todo
      /\ w'.writeErr = err
  BY <1>1, <1>2 DEF WriterState
<1> QED  BY <1>3, <1>4, <1>5, SamePromised

(* Without a stream nothing is visible before the answer.                  *)
LEMMA AccumulatedPromised ==
  ASSUME MInv, ShowAt, BufferEvent \/ BuildResponse, req'.stream = req.stream
  PROVE  Promised
<1>1. w \in WriterState /\ ~req.stream  BY ScriptFacts DEF BufferEvent, BuildResponse, Buffered
<1>2. /\ w'.visibleFired = w.visibleFired /\ w'.todo = w.todo
      /\ w'.writeErr = w.writeErr
  <2>1. CASE BufferEvent
    <3>1. PICK e \in Input : w' = Accumulated(w, e)
      BY <2>1, UpstreamEventsAreInputs DEF BufferEvent
    <3>2. \/ w' = w \/ w' = [w EXCEPT !.tool = TRUE, !.localStop = e.stop]
          \/ w' = [Recorded(w, e.deltas) EXCEPT !.localStop = e.stop, !.held = e.held]
      <4>1. e.kind \in {"content", "redacted", "tool"} /\ w.localStop \in BOOLEAN
        BY <1>1 DEF Input, WriterState
      <4> QED  BY <3>1, <4>1 DEF Accumulated
    <3> QED  BY <1>1, <3>2 DEF Recorded, WriterState
  <2>2. CASE BuildResponse
    BY <1>1, <2>2 DEF BuildResponse, Finalized, Recorded, WriterState
  <2> QED  BY <2>1, <2>2
<1> QED  BY <1>1, <1>2 DEF Promised

LEMMA NextPromised ==
  ASSUME MInv, ShowAt, [Next]_vars
  PROVE  Promised
<1>1. /\ w \in WriterState /\ w \in Writer /\ req \in Request
  BY ScriptFacts, WriterStateIsWriter
<1>2. req'.stream = req.stream  BY <1>1, StreamStays
<1>3. CASE w' = w  BY <1>2, <1>3, SamePromised
<1>4. CASE \/ CallFails \/ CallSucceeds \/ InstallHeaders \/ StartHeartbeat \/ ReadError
           \/ ReadEOF \/ ReadBreaks \/ EmitDone \/ Abandon \/ RetryInvalidState \/ ReportError
           \/ AlreadyFinished \/ RetryEmpty \/ DeliverMessage \/ GiveUp \/ BufferedInvalidState
           \/ BufferedError \/ BodyError \/ FinalError \/ FinalErrorRefused \/ FinalErrorReturns
           \/ Stop \/ Environment \/ UNCHANGED vars
  BY <1>3, <1>4
  DEF CallFails, CallSucceeds, InstallHeaders, StartHeartbeat, ReadError, ReadEOF, ReadBreaks,
      EmitDone, Abandon, RetryInvalidState, ReportError, AlreadyFinished, RetryEmpty,
      DeliverMessage, GiveUp, BufferedInvalidState, BufferedError, BodyError, FinalError,
      FinalErrorRefused, FinalErrorReturns, Stop, Environment, vars
<1>5. CASE ReadEvent
  <2>1. req.stream /\ \E e \in Input : w' \in Handled(w, e)
    BY <1>5, UpstreamEventsAreInputs DEF ReadEvent
  <2>2. Shown(w)  BY <2>1 DEF ShowAt
  <2> QED  BY <1>1, <2>1, <2>2, HandledShows, ShowsPromised
<1>6. CASE SearchSucceeds
  <2>1. CASE req.stream
    <3>1. w' = FinishWebSearch(WriteText(WriteWebSearchResult(WriteServerToolUse(w))))
      BY <1>6, <2>1 DEF SearchSucceeds, Emit
    <3>2. Shown(w)  BY <2>1 DEF ShowAt
    <3> QED  BY <1>1, <3>1, <3>2, SearchShows, ShowsPromised
  <2>2. CASE ~req.stream  BY <1>3, <1>6, <2>2 DEF SearchSucceeds
  <2> QED  BY <2>1, <2>2
<1>7. CASE FinishMessage
  <2>1. req.stream /\ \E f \in Finals(w) : w' = Finish(w, f)
    BY <1>7 DEF FinishMessage, Parsed, Emit
  <2>2. Shown(w)  BY <2>1 DEF ShowAt
  <2> QED  BY <1>1, <2>1, <2>2, FinishShows, ShowsPromised
<1>8. CASE FinalErrorCallback
  <2>1. w' = CloseActiveBlock(w) /\ req.stream
    BY <1>8, ScriptFacts DEF FinalErrorCallback, Emit, StreamAt
  <2>2. Onward(w', w) /\ Shown(w)  BY <1>1, <2>1, CloseActiveBlockOnward DEF ShowAt
  <2>3. Shows(w', w)  BY <2>2 DEF Onward, Fires, Shows, Shown
  <2> QED  BY <2>3, ShowsPromised
<1>9. CASE EmitWrite \/ EmitPromote \/ CallRefused  BY <1>2, <1>9, EmitPromised
<1>10. CASE EmitFlush \/ ErrorFrame  BY <1>2, <1>10, EmitFlushPromised
<1>11. CASE BufferEvent \/ BuildResponse  BY <1>2, <1>11, AccumulatedPromised
<1>12. CASE Retry
  <2>1. /\ w'.visibleFired = FALSE /\ w'.text = FALSE /\ w'.tool = FALSE
        /\ w'.writeErr = FALSE /\ w.todo = <<>>
    BY <1>12, ScriptFacts DEF Retry, NextWriter, NewSSEWriter, MessageAt, Resting
  <2>2. ~Promises(w.todo)  BY <2>1 DEF Promises
  <2> QED  BY <2>1, <2>2 DEF Promised, Shown
<1> QED
  BY <1>4, <1>5, <1>6, <1>7, <1>8, <1>9, <1>10, <1>11, <1>12
  DEF Next, RequestGoroutine, Attempt, Conclusion

(* What is pending is flushed before anything else happens to the request. *)
LEMMA NextFlushed ==
  ASSUME MInv, ShowAt, [Next]_vars
  PROVE  Flushed'
<1>1. /\ req \in Request /\ DownP!TypeOK /\ w \in WriterState
      /\ Flushed
  BY ScriptFacts DEF ShowAt
<1>2. CASE req.pc # "flush" /\ SessionUnchanged
  BY <1>1, <1>2 DEF Flushed, SessionUnchanged
<1>3. CASE EmitWrite
  <2>1. /\ req.pc = "emit" /\ w.todo # <<>> /\ Head(w.todo).event # "promote"
        /\ DownP!Write(Head(w.todo))
        /\ s'.firstErr \/ Goto("flush")
    BY <1>3, SameActions DEF EmitWrite, Emits
  <2>2. Head(w.todo) \in SSEEvent
    <3>1. Head(w.todo) \in Calls  BY <1>1, <2>1 DEF WriterState
    <3> QED  BY <2>1, <3>1, PromoteNames
  <2>3. CASE s'.firstErr  BY <2>3 DEF Flushed, DownP!Settled, DownP!Unavailable
  <2>4. CASE ~s'.firstErr /\ s.promoted
    <3>1. s'.promoted  BY <1>1, <2>1, <2>2, <2>4, SessionAssumptions, DownP!WriteAdds
    <3>2. "flush" \in PcStates  BY DEF PcStates
    <3>3. req'.pc = "flush"  BY <1>1, <2>1, <2>4, <3>2, GotoFields
    <3> QED  BY <3>1, <3>3 DEF Flushed
  <2>5. CASE ~s.promoted
    BY <1>1, <2>1, <2>2, <2>5, SessionAssumptions, DownP!StaysSettled DEF Flushed
  <2> QED  BY <2>3, <2>4, <2>5
<1>4. CASE ErrorFrame
  <2>1. /\ DownP!CallbackError
        /\ req' = [req EXCEPT !.pc = IF s'.firstErr THEN "callbackEnd" ELSE "flush",
                              !.next = "callbackEnd"]
    BY <1>4, SameActions DEF ErrorFrame
  <2>2. s.promoted
    <3>1. call = "callback"  BY <2>1 DEF DownP!CallbackError
    <3> QED  BY <3>1, SessionFacts DEF MInv
  <2>3. CASE s'.firstErr  BY <2>3 DEF Flushed, DownP!Settled, DownP!Unavailable
  <2>4. CASE ~s'.firstErr
    <3>1. s'.promoted  BY <1>1, <2>1, <2>2, SessionAssumptions, DownP!CallbackErrorAdds
    <3>2. req'.pc = "flush"  BY <1>1, <2>1, <2>4 DEF Request
    <3> QED  BY <3>1, <3>2 DEF Flushed
  <2> QED  BY <2>3, <2>4
<1>5. CASE EmitFlush
  <2>1. DownP!Flush \/ (~DownP!Flushable(s) /\ s' = s)
    BY <1>5, SameActions DEF EmitFlush, SessionUnchanged, Down!Flushable, DownP!Flushable
  <2>2. CASE s.promoted
    BY <1>1, <2>1, <2>2, SessionAssumptions, DownP!FlushesAll DEF Flushed
  <2>3. CASE ~s.promoted
    BY <1>1, <2>1, <2>3 DEF Flushed, DownP!Flush, DownP!Flushable
  <2> QED  BY <2>2, <2>3
<1>6. CASE Stop \/ Environment \/ UNCHANGED vars
  <2>1. /\ req' = req
        /\ \/ DownP!StopCall \/ DownP!Heartbeat \/ DownP!ClientGone
           \/ UNCHANGED DownP!sessionVars
    BY <1>6, SameActions
    DEF Stop, Environment, vars, Down!Heartbeat, DownP!Heartbeat, DownP!sessionVars
  <2>2. DownP!Settled(s) => DownP!Settled(s')
    BY <1>1, <2>1, SessionAssumptions, DownP!StaysSettled
  <2>3. s'.promoted = s.promoted
    BY <1>1, <2>1, SessionAssumptions, DownP!SilentSteps DEF DownP!Silent
  <2> QED  BY <1>1, <2>1, <2>2, <2>3 DEF Flushed
<1>7. CASE \/ InstallHeaders \/ StartHeartbeat \/ EmitPromote \/ RetryInvalidState \/ RetryEmpty
           \/ DeliverMessage \/ FinalError \/ FinalErrorCallback \/ FinalErrorReturns
  <2>1. /\ req.pc # "flush"
        /\ \/ DownP!SetSSEHeaders \/ DownP!Start \/ DownP!Promote \/ DownP!Discard
           \/ DownP!WriteFinalError \/ DownP!FinalErrorBegin \/ DownP!FinalErrorEnd
           \/ SessionUnchanged
    BY <1>7, SameActions
    DEF InstallHeaders, StartHeartbeat, EmitPromote, Emits, RetryInvalidState, Parsed, RetryEmpty,
        DeliverMessage, FinalError, FinalErrorCallback, FinalErrorReturns
  <2>2. CASE SessionUnchanged  BY <1>2, <2>1, <2>2
  <2>3. CASE ~SessionUnchanged
    BY <1>1, <2>1, <2>3, SessionAssumptions, DownP!StaysSettled DEF Flushed
  <2> QED  BY <2>2, <2>3
<1>8. CASE \/ CallFails \/ CallSucceeds \/ SearchSucceeds \/ ReadEvent \/ BufferEvent
           \/ ReadError \/ ReadEOF \/ ReadBreaks \/ CallRefused \/ EmitDone
  BY <1>2, <1>8
  DEF CallFails, CallSucceeds, SearchSucceeds, ReadEvent, BufferEvent, ReadError, ReadEOF,
      ReadBreaks, Reads, CallRefused, Emits, EmitDone
<1>9. CASE \/ Abandon \/ ReportError \/ FinishMessage \/ AlreadyFinished \/ Retry \/ GiveUp
           \/ BufferedInvalidState \/ BufferedError \/ BuildResponse \/ BodyError
           \/ FinalErrorRefused
  BY <1>2, <1>9
  DEF Abandon, ReportError, Parsed, FinishMessage, AlreadyFinished, Retry, GiveUp,
      BufferedInvalidState, BufferedError, BuildResponse, Buffered, BodyError, FinalErrorRefused
<1> QED
  BY <1>3, <1>4, <1>5, <1>6, <1>7, <1>8, <1>9
  DEF Next, RequestGoroutine, Attempt, Conclusion

LEMMA NextShows ==
  ASSUME MInv, ShowAt, [Next]_vars
  PROVE  ShowAt'
<1>1. Promised /\ Flushed'  BY NextPromised, NextFlushed
<1>2. DownP!TypeOK /\ SessionStep  BY StepKeepsInv, ScriptFacts DEF MInv
<1>3. /\ s.promoted => s'.promoted
      /\ DownP!Unavailable(s) => DownP!Unavailable(s')
  BY <1>2, SessionAssumptions, DownP!PromotionStays, DownP!LossStays DEF SessionStep
<1>4. Promising'  BY <1>1, <1>3 DEF Promised, Promising, ShowAt
<1>5. Failing'  BY <1>1, <1>3 DEF Promised, Failing, ShowAt
<1> QED  BY <1>1, <1>4, <1>5 DEF Promised, ShowAt

LEMMA ShowInitially ==
  ASSUME Init
  PROVE  ShowAt
<1>1. ~w.visibleFired /\ ~w.text /\ ~w.tool /\ ~w.writeErr  BY DEF Init, NewSSEWriter
<1>2. ~s.pendingFlush  BY SameSpec DEF Init, DownP!Init, DownP!newStreamSession
<1> QED  BY <1>1, <1>2 DEF ShowAt, Shown, Promising, Flushed, Failing, DownP!Settled

LEMMA VisibleFollows ==
  ASSUME MInv, ShowAt
  PROVE  VisibleOutputDelivered
<1> SUFFICES ASSUME req.stream, req.pc = "parse", w.text \/ w.tool, ~DownP!Unavailable(s)
             PROVE  s.buf = <<>> /\ ~s.pendingFlush
  BY DEF VisibleOutputDelivered, Down!Unavailable, DownP!Unavailable
<1>1. w.todo = <<>>  BY ScriptFacts DEF MessageAt, Resting
<1>2. s.promoted
  <2>1. ~Promises(w.todo)  BY <1>1 DEF Promises
  <2> QED  BY <2>1 DEF ShowAt, Shown, Promising
<1>3. s.buf = <<>>  BY <1>2, ScriptFacts DEF DownP!Delivers, DownP!Unavailable
<1> QED  BY <1>3 DEF ShowAt, Flushed, DownP!Settled

(* While the proxy waits for the upstream, everything visible it has       *)
(* produced has left the buffer and has been flushed                       *)
(* (VisibleOutputDelivered): the first text or tool call promotes the      *)
(* session, and no event stays behind.                                     *)
THEOREM NothingVisibleIsHeld == Spec => []VisibleOutputDelivered
<1>1. Init => ShowAt  BY ShowInitially
<1>2. MInv /\ ShowAt /\ [Next]_vars => ShowAt'  BY NextShows
<1>3. MInv /\ ShowAt => VisibleOutputDelivered  BY VisibleFollows
<1> QED  BY <1>1, <1>2, <1>3, MessageInvariant, PTL DEF Spec
----------------------------------------------------------------------------
(* The conclusion.  While the client is there, the story of a request that *)
(* is about to conclude ends with message_stop (Ends); no error has been   *)
(* sent before Reported, and at the end either everything was delivered or *)
(* there is one error.                                                     *)

Ending ==
  \/ req.pc \in {"emit", "flush"} /\ req.next \in {"parsed", "finish", "done"}
  \/ req.pc = "parsed" /\ req.outcome = "localStop"
  \/ req.pc = "finish"

OneError  == \E i \in DOMAIN s.out : DownP!ErrorsAt(s.out) = {i}
Delivered == s.promoted /\ Ends(hist.offered, w) /\ DownP!ErrorsAt(s.out) = {}

EndNow ==
  /\ Ending => Ends(hist.offered, w)
  /\ ~Reported => DownP!ErrorsAt(s.out) = {}
  /\ Reported /\ req.pc # "done" => OneError
  /\ req.pc = "done" => Delivered \/ OneError

EndAt == req.stream /\ ~s.ctxErr => EndNow

(* The message of a web search has visible output.                         *)
SearchAt == req.pc \in {"emit", "flush"} /\ req.next = "done" => w.visibleFired

(* Without a stream only the answer ends the request.                      *)
BodyAt ==
  ~req.stream => IF req.pc = "done" THEN Len(req.body) = 1 ELSE req.body = <<>>

CInv == DownP!LossExplained /\ EndAt /\ SearchAt /\ BodyAt

(* While the request goroutine runs, a session is lost only with the       *)
(* context.                                                                *)
LEMMA LossMeansGone ==
  ASSUME MInv, DownP!LossExplained, req.pc # "done", DownP!Unavailable(s)
  PROVE  s.ctxErr
<1>1. req \in Request /\ CallAt /\ HeadersAt  BY ScriptFacts
<1>2. call \in {"idle", "callback", "errored"}  BY <1>1 DEF CallAt, Request
<1>3. ~s.stopped  BY <1>2 DEF DownP!LossExplained, DownP!StopCalled
<1>4. ~s.finalized  BY <1>1 DEF HeadersAt
<1> QED  BY <1>3, <1>4 DEF DownP!LossExplained, DownP!Cancels, DownP!Unavailable

LEMMA NextLossExplained ==
  ASSUME MInv, DownP!LossExplained, [Next]_vars
  PROVE  DownP!LossExplained' /\ (s.ctxErr => s'.ctxErr)
<1>1. DownP!TypeOK /\ SessionStep  BY StepKeepsInv, ScriptFacts DEF MInv
<1> QED  BY <1>1, SessionAssumptions, DownP!StepLossExplained DEF SessionStep

(* A step after which the client is still there finds a working session.   *)
LEMMA Attended ==
  ASSUME MInv, ShowAt, CInv, [Next]_vars, req'.stream, ~s'.ctxErr
  PROVE  /\ req.stream /\ EndNow /\ ~s'.firstErr
         /\ req.pc # "done" => ~DownP!Unavailable(s) /\ ~w.writeErr
<1>1. req.stream  BY ScriptFacts, StreamStays
<1>2. DownP!LossExplained' /\ ~s.ctxErr  BY NextLossExplained DEF CInv
<1>3. ~s'.firstErr  BY <1>2 DEF DownP!LossExplained, DownP!Cancels
<1>4. req.pc # "done" => ~DownP!Unavailable(s)  BY <1>2, LossMeansGone DEF CInv
<1>5. ~DownP!Unavailable(s) => ~w.writeErr  BY DEF ShowAt, Failing
<1> QED  BY <1>1, <1>2, <1>3, <1>4, <1>5 DEF CInv, EndAt

(* Steps that neither end the request nor send an error.                   *)
LEMMA EndsStand ==
  ASSUME EndNow, ~Reported, ~Reported', DownP!ErrorsAt(s'.out) = DownP!ErrorsAt(s.out),
         Ending' => Ends(hist'.offered, w')
  PROVE  EndNow'
<1>1. req'.pc # "done"  BY DEF Reported
<1> QED  BY <1>1 DEF EndNow

LEMMA SilentlyEnds ==
  ASSUME EndNow, DownP!Silent, w' = w, ~Reported, ~Reported', Ending' => Ending
  PROVE  EndNow'
<1>1. hist'.offered = hist.offered /\ DownP!ErrorsAt(s'.out) = DownP!ErrorsAt(s.out)
  BY DEF DownP!Silent
<1>2. Ending' => Ends(hist'.offered, w')  BY <1>1 DEF EndNow
<1> QED  BY <1>1, <1>2, EndsStand

LEMMA AsideEnds ==
  ASSUME MInv, EndNow, req.stream,
         \/ CallFails \/ CallSucceeds \/ ReportError \/ AlreadyFinished \/ GiveUp
         \/ InstallHeaders \/ StartHeartbeat
  PROVE  EndNow'
<1>1. PICK pc \in {"fail", "headers", "parse", "error", "finish", "start", "call"} :
        /\ Goto(pc) /\ w' = w
        /\ req.pc \in {"call", "parsed", "retry", "headers", "start"}
        /\ pc = "finish" => req.pc = "parsed" /\ req.outcome = "localStop"
        /\ DownP!SetSSEHeaders \/ DownP!Start \/ SessionUnchanged
  BY SameActions
  DEF CallFails, CallSucceeds, ReportError, AlreadyFinished, GiveUp, InstallHeaders,
      StartHeartbeat, Parsed
<1>2. req \in Request /\ DownP!TypeOK  BY ScriptFacts
<1>3. pc \in PcStates  BY DEF PcStates
<1>4. req'.pc = pc  BY <1>1, <1>2, <1>3, GotoFields
<1>5. DownP!Silent
  <2>1. CASE SessionUnchanged  BY <2>1, UnchangedIsSilent
  <2>2. CASE DownP!SetSSEHeaders \/ DownP!Start
    BY <1>2, <2>2, SessionAssumptions, DownP!SilentSteps
  <2> QED  BY <1>1, <2>1, <2>2
<1>6. ~Reported /\ ~Reported' /\ (Ending' => Ending)
  BY <1>1, <1>4 DEF Reported, Ending
<1> QED  BY <1>1, <1>5, <1>6, SilentlyEnds

LEMMA ReadingEndsEnds ==
  ASSUME MInv, EndNow, ReadError \/ ReadEOF \/ ReadBreaks
  PROVE  EndNow'
<1>1. PICK o \in {"retryable", "fatal", "eof", "broken"} :
        After(o) /\ SessionUnchanged /\ w' = w /\ req.pc = "parse"
  BY DEF ReadError, ReadEOF, ReadBreaks, Reads
<1>2. req'.pc = "parsed" /\ req'.outcome = o  BY <1>1, ScriptFacts, AfterFields
<1>3. DownP!Silent  BY <1>1, UnchangedIsSilent
<1>4. ~Reported /\ ~Reported' /\ ~Ending'  BY <1>1, <1>2 DEF Reported, Ending
<1> QED  BY <1>1, <1>3, <1>4, SilentlyEnds

LEMMA EmitDoneEnds ==
  ASSUME MInv, ShowAt, SearchAt, EndNow, EmitDone, ~DownP!Unavailable(s), ~w.writeErr
  PROVE  EndNow'
<1>1. /\ req.pc = "emit" /\ w.todo = <<>> /\ SessionUnchanged /\ w' = w
      /\ Goto(IF Failed THEN "done" ELSE req.next)
  BY DEF EmitDone
<1>2. ~Failed  BY DEF Failed, DownP!Unavailable
<1>3. req \in Request /\ CallAt /\ StopsLocally  BY ScriptFacts DEF MInv, Inv, Place
<1>4. req.next \in NextStates /\ req.next # "callbackEnd" /\ req.next \in PcStates
  BY <1>1, <1>3 DEF Request, NextStates, PcStates, CallAt
<1>5. req'.pc = req.next /\ req'.outcome = req.outcome /\ req'.next = req.next
  BY <1>1, <1>2, <1>3, <1>4, GotoFields
<1>6. DownP!Silent /\ s' = s  BY <1>1, UnchangedIsSilent DEF SessionUnchanged
<1>7. ~Reported  BY <1>1 DEF Reported
<1>8. CASE req.next = "done"
  <2>1. s.promoted
    <3>1. w.visibleFired  BY <1>1, <1>8 DEF SearchAt
    <3>2. ~Promises(w.todo)  BY <1>1 DEF Promises
    <3> QED  BY <3>1, <3>2 DEF ShowAt, Promising
  <2>2. Ends(hist.offered, w)  BY <1>1, <1>8 DEF EndNow, Ending
  <2>3. Delivered  BY <1>7, <2>1, <2>2 DEF EndNow, Delivered
  <2>4. Delivered'  BY <1>1, <1>6, <2>3 DEF Delivered, DownP!Silent
  <2>5. req'.pc = "done"  BY <1>5, <1>8
  <2>6. Reported' /\ ~Ending'  BY <2>5 DEF Reported, Ending
  <2> QED  BY <2>4, <2>5, <2>6 DEF EndNow
<1>9. CASE req.next # "done"
  <2>1. ~Reported'  BY <1>4, <1>5, <1>9 DEF Reported, NextStates
  <2>2. Ending' => Ending
    BY <1>1, <1>3, <1>4, <1>5, <1>9 DEF Ending, StopsLocally, NextStates
  <2> QED  BY <1>1, <1>6, <1>7, <2>1, <2>2, SilentlyEnds
<1> QED  BY <1>8, <1>9

LEMMA EmitsEnd ==
  ASSUME EndNow, SessionUnchanged, ~Reported, req'.pc = "emit",
         req'.next = "parse" \/ Ends(hist.offered, w')
  PROVE  EndNow'
<1>1. hist' = hist /\ s' = s  BY DEF SessionUnchanged
<1>2. ~Reported'  BY DEF Reported
<1>3. Ending' => Ends(hist'.offered, w')  BY <1>1 DEF Ending
<1> QED  BY <1>1, <1>2, <1>3, EndsStand

LEMMA ReadEventEnds ==
  ASSUME MInv, EndNow, ReadEvent
  PROVE  EndNow'
BY ReadEventTells, EmitsEnd

LEMMA SearchSucceedsEnds ==
  ASSUME MInv, EndNow, SearchSucceeds, req.stream
  PROVE  EndNow'
<1> DEFINE t == FinishWebSearch(WriteText(WriteWebSearchResult(WriteServerToolUse(w))))
<1>1. /\ req \in Request /\ Within(w, -1) /\ req.pc = "call" /\ SessionUnchanged
      /\ Emit(t, "done") /\ SpeaksAt
  BY ScriptFacts DEF SearchSucceeds, WriterAt, Early
<1>2. Ends(hist.offered, t)
  <2>1. Speaks(hist.offered, w)  BY <1>1 DEF SpeaksAt, Unended
  <2> QED  BY <1>1, <2>1, IndicesSuffice, WebSearchTells
<1> HIDE DEF t
<1>3. w' = t /\ req'.pc = "emit"
  <2>1. "done" \in NextStates  BY DEF NextStates
  <2> QED  BY <1>1, <2>1, EmitFields
<1>4. ~Reported  BY <1>1 DEF Reported
<1> QED  BY <1>1, <1>2, <1>3, <1>4, EmitsEnd

LEMMA FinishMessageEnds ==
  ASSUME MInv, EndNow, FinishMessage
  PROVE  EndNow'
<1> DEFINE hi == 2 * req.events - 1
<1>1. PICK f \in Finals(w) : Emit(Finish(w, f), "finish")  BY DEF FinishMessage
<1> DEFINE t == Finish(w, f)
<1>2. /\ req \in Request /\ req.pc = "parsed" /\ req.stream /\ req.outcome = "eof"
      /\ SessionUnchanged
  BY ScriptFacts DEF FinishMessage, Parsed
<1>3. Within(w, hi) /\ Speaks(hist.offered, w) /\ ~Reported
  BY <1>2, ScriptFacts DEF WriterAt, Reading, SpeaksAt, Unended, Reported
<1>4. hi \in Int /\ hi + 2 <= MaxIndex  BY <1>2, EventsLeft
<1>5. t = Finish(w, f)  OBVIOUS
<1> HIDE DEF hi, t
<1>6. Ends(hist.offered, t)  BY <1>3, <1>4, <1>5, FinishTells
<1>7. w' = t /\ req'.pc = "emit"
  <2>1. "finish" \in NextStates  BY DEF NextStates
  <2> QED  BY <1>1, <1>2, <1>5, <2>1, EmitFields
<1> QED  BY <1>2, <1>3, <1>6, <1>7, EmitsEnd

LEMMA FinalErrorCallbackEnds ==
  ASSUME MInv, EndNow, FinalErrorCallback
  PROVE  EndNow'
<1>1. /\ req \in Request /\ DownP!FinalErrorBegin /\ Emit(CloseActiveBlock(w), "callback")
      /\ req.pc = "error" /\ DownP!TypeOK
  BY SameActions, ScriptFacts DEF FinalErrorCallback
<1>2. req'.pc = "emit" /\ req'.next = "callback"
  <2>1. "callback" \in NextStates  BY DEF NextStates
  <2> QED  BY <1>1, <2>1, EmitFields
<1>3. DownP!Silent  BY <1>1, SessionAssumptions, DownP!SilentSteps
<1>4. ~Reported /\ ~Reported' /\ ~Ending'  BY <1>1, <1>2 DEF Reported, Ending
<1> QED  BY <1>3, <1>4, EndsStand DEF DownP!Silent

(* The writer's calls leave its story as it is.                            *)
LEMMA CalledEnds ==
  ASSUME MInv, EndNow, req.pc = "emit", w.todo # <<>>, Called(FALSE),
         hist'.offered = Handed(hist.offered, w), DownP!NoErrorFrameAdded,
         req'.pc \in {"emit", "flush"}, req'.next = req.next
  PROVE  EndNow'
<1>1. w \in WriterState /\ hist.offered \in Seq(SSEEvent) /\ CallAt  BY ScriptFacts
<1>2. Advanced(w', w)
  <2> DEFINE q == Tail(w.todo)
             no == FALSE
  <2>1. w' = [w EXCEPT !.writeErr = no, !.todo = q]  BY DEF Called, Rest
  <2> HIDE DEF q, no
  <2>2. w'.todo = q  BY <1>1, <2>1 DEF WriterState
  <2> QED  BY <2>2 DEF Advanced, q
<1>3. Story(hist'.offered, w') = Story(hist.offered, w)  BY <1>1, <1>2, StoryGoesOn
<1>4. Ending' => Ending  BY DEF Ending
<1>5. Ending' => Ends(hist'.offered, w')  BY <1>3, <1>4 DEF EndNow, Ends
<1>6. ~Reported /\ ~Reported'  BY <1>1 DEF CallAt, Reported
<1> QED  BY <1>5, <1>6, EndsStand DEF DownP!NoErrorFrameAdded

LEMMA EmitWriteEnds ==
  ASSUME MInv, EndNow, EmitWrite, ~s'.firstErr, s' \in DownP!Session
  PROVE  EndNow'
<1> DEFINE h == Head(w.todo)
<1>1. /\ req.pc = "emit" /\ w.todo # <<>> /\ h.event # "promote"
      /\ DownP!Write(h) /\ Called(s'.firstErr) /\ Goto("flush")
  BY SameActions DEF EmitWrite, Emits
<1>2. req \in Request /\ w \in WriterState /\ DownP!TypeOK  BY ScriptFacts
<1>3. h \in SSEEvent
  <2>1. h \in Calls  BY <1>1, <1>2 DEF WriterState
  <2> QED  BY <1>1, <2>1, PromoteNames
<1>4. /\ hist'.offered = Append(hist.offered, h) /\ DownP!NoErrorFrameAdded
  BY <1>1, <1>2, <1>3, SessionAssumptions, DownP!WriteAdds
<1>5. hist'.offered = Handed(hist.offered, w)  BY <1>3, <1>4 DEF Handed
<1>6. Called(FALSE)
  <2>1. s'.firstErr = FALSE  BY DEF DownP!Session
  <2> QED  BY <1>1, <2>1
<1>7. req'.pc = "flush" /\ req'.next = req.next
  <2>1. "flush" \in PcStates  BY DEF PcStates
  <2> QED  BY <1>1, <1>2, <2>1, GotoFields
<1> QED  BY <1>1, <1>4, <1>5, <1>6, <1>7, CalledEnds

LEMMA EmitPromoteEnds ==
  ASSUME MInv, EndNow, EmitPromote, ~s'.firstErr, s' \in DownP!Session
  PROVE  EndNow'
<1> DEFINE h == Head(w.todo)
<1>1. /\ req.pc = "emit" /\ w.todo # <<>> /\ h.event = "promote"
      /\ DownP!Promote /\ Called(s'.firstErr) /\ UNCHANGED req
  BY SameActions DEF EmitPromote, Emits
<1>2. req \in Request /\ w \in WriterState /\ DownP!TypeOK  BY ScriptFacts
<1>3. h \notin SSEEvent
  <2>1. h \in Calls  BY <1>1, <1>2 DEF WriterState
  <2> QED  BY <1>1, <2>1, PromoteNames
<1>4. hist' = hist /\ DownP!NoErrorFrameAdded
  BY <1>1, <1>2, SessionAssumptions, DownP!PromoteAdds
<1>5. hist'.offered = Handed(hist.offered, w)  BY <1>3, <1>4 DEF Handed
<1>6. Called(FALSE)
  <2>1. s'.firstErr = FALSE  BY DEF DownP!Session
  <2> QED  BY <1>1, <2>1
<1> QED  BY <1>1, <1>4, <1>5, <1>6, CalledEnds

(* An error sent stays the only one.                                       *)
LEMMA OneErrorStays ==
  ASSUME OneError, DownP!ErrorsAt(s'.out) = DownP!ErrorsAt(s.out)
  PROVE  OneError'
<1>1. PICK i \in DOMAIN s.out : DownP!ErrorsAt(s.out) = {i}  BY DEF OneError
<1>2. i \in DOMAIN s'.out  BY <1>1 DEF DownP!ErrorsAt
<1> QED  BY <1>1, <1>2 DEF OneError

LEMMA EmitFlushEnds ==
  ASSUME MInv, EndNow, EmitFlush, ~s'.firstErr
  PROVE  EndNow'
<1> DEFINE q == IF s'.firstErr THEN <<>> ELSE w.todo
           err == s'.firstErr
           pc == IF req.next = "callbackEnd" THEN "callbackEnd" ELSE "emit"
<1>1. /\ req.pc = "flush" /\ Goto(pc) /\ w' = [w EXCEPT !.writeErr = err, !.todo = q]
      /\ DownP!Flush \/ SessionUnchanged
  BY SameActions DEF EmitFlush
<1>2. req \in Request /\ w \in WriterState /\ DownP!TypeOK  BY ScriptFacts
<1>3. pc \in PcStates /\ (IF req.next = "callbackEnd" THEN pc = "callbackEnd" ELSE pc = "emit")
  BY DEF PcStates
<1>4. q = w.todo  OBVIOUS
<1> HIDE DEF pc, q, err
<1>5. req'.pc = pc /\ req'.next = req.next  BY <1>1, <1>2, <1>3, GotoFields
<1>6. w'.todo = w.todo  BY <1>1, <1>2, <1>4 DEF WriterState
<1>7. DownP!Silent
  <2>1. CASE DownP!Flush  BY <1>2, <2>1, SessionAssumptions, DownP!SilentSteps
  <2>2. CASE SessionUnchanged  BY <2>2, UnchangedIsSilent
  <2> QED  BY <1>1, <2>1, <2>2
<1>8. CASE req.next = "callbackEnd"
  <2>1. Reported /\ Reported' /\ req.pc # "done" /\ req'.pc # "done" /\ ~Ending'
    BY <1>1, <1>3, <1>5, <1>8 DEF Reported, Ending
  <2>2. OneError'  BY <1>7, <2>1, OneErrorStays DEF EndNow, DownP!Silent
  <2> QED  BY <2>1, <2>2 DEF EndNow
<1>9. CASE req.next # "callbackEnd"
  <2>1. ~Reported /\ ~Reported' /\ (Ending' => Ending)
    BY <1>1, <1>3, <1>5, <1>9 DEF Reported, Ending
  <2>2. Story(hist'.offered, w') = Story(hist.offered, w)
    BY <1>6, <1>7 DEF Story, DownP!Silent
  <2>3. Ending' => Ends(hist'.offered, w')  BY <2>1, <2>2 DEF EndNow, Ends
  <2> QED  BY <1>7, <2>1, <2>3, EndsStand DEF DownP!Silent
<1> QED  BY <1>8, <1>9

(* The error frame of the callback, and the error before promotion.        *)
LEMMA ReportEnds ==
  ASSUME MInv, EndNow, ErrorFrame \/ FinalError, ~s'.firstErr
  PROVE  EndNow'
<1>1. req \in Request /\ s \in DownP!Session /\ DownP!TypeOK  BY ScriptFacts
<1>2. /\ DownP!Reports /\ req.pc \in {"callback", "fail", "error"}
      /\ \/ req'.pc = "done"
         \/ req'.pc \in {"callbackEnd", "flush"} /\ req'.next = "callbackEnd"
  <2>1. CASE ErrorFrame
    <3>1. /\ DownP!CallbackError /\ req.pc = "callback"
          /\ req' = [req EXCEPT !.pc = IF s'.firstErr THEN "callbackEnd" ELSE "flush",
                                !.next = "callbackEnd"]
      BY <2>1, SameActions DEF ErrorFrame
    <3>2. DownP!Reports  BY <1>1, <3>1, SessionAssumptions, DownP!CallbackErrorReports
    <3> QED  BY <1>1, <3>1, <3>2 DEF Request
  <2>2. CASE FinalError
    <3>1. DownP!WriteFinalError /\ req.pc \in {"fail", "error"} /\ Goto("done")
      BY <2>2, SameActions DEF FinalError
    <3>2. DownP!Reports  BY <1>1, <3>1, SessionAssumptions, DownP!FinalErrorReports
    <3>3. "done" \in PcStates  BY DEF PcStates
    <3>4. req'.pc = "done"  BY <1>1, <3>1, <3>3, GotoFields
    <3> QED  BY <3>1, <3>2, <3>4
  <2> QED  BY <2>1, <2>2
<1>3. ~Reported  BY <1>2 DEF Reported
<1>4. OneError'
  <2>1. DownP!ErrorsAt(s.out) = {}  BY <1>3 DEF EndNow
  <2> QED  BY <1>1, <1>2, <2>1, SessionAssumptions, DownP!ReportsOne DEF OneError
<1>5. Reported' /\ ~Ending'  BY <1>2 DEF Reported, Ending
<1> QED  BY <1>4, <1>5 DEF EndNow

LEMMA DroppedEnds ==
  ASSUME MInv, EndNow, RetryInvalidState \/ RetryEmpty
  PROVE  EndNow'
<1>1. /\ Goto("retry") /\ req.pc \in {"parsed", "finish"}
      /\ DownP!Discard /\ ~s.promoted
  BY SameActions DEF RetryInvalidState, RetryEmpty, Parsed, MayRetry, EmptyVisibleEndTurn
<1>2. req \in Request /\ DownP!TypeOK  BY ScriptFacts
<1>3. "retry" \in PcStates  BY DEF PcStates
<1>4. req'.pc = "retry"  BY <1>1, <1>2, <1>3, GotoFields
<1>5. s'.out = s.out  BY <1>1, <1>2, SessionAssumptions, DownP!DiscardDrops
<1>6. ~Reported /\ ~Reported' /\ ~Ending'  BY <1>1, <1>4 DEF Reported, Ending
<1> QED  BY <1>5, <1>6, EndsStand

LEMMA RetryEnds ==
  ASSUME MInv, EndNow, Retry
  PROVE  EndNow'
<1>1. /\ req.pc = "retry" /\ SessionUnchanged
      /\ req' = [NewRequest(req.stream, FALSE) EXCEPT !.events = req.events]
  BY DEF Retry
<1>2. req'.pc = "call" /\ s' = s  BY <1>1 DEF NewRequest, SessionUnchanged
<1>3. ~Reported /\ ~Reported' /\ ~Ending'  BY <1>1, <1>2 DEF Reported, Ending
<1> QED  BY <1>2, <1>3, EndsStand

LEMMA DeliverMessageEnds ==
  ASSUME MInv, EndNow, DeliverMessage, ~DownP!Unavailable(s)
  PROVE  EndNow'
<1>1. /\ Goto("done") /\ w' = w /\ req.pc = "finish"
      /\ DownP!Promote \/ (s.promoted /\ SessionUnchanged)
  BY SameActions DEF DeliverMessage, Down!Unavailable, DownP!Unavailable
<1>2. req \in Request /\ DownP!TypeOK  BY ScriptFacts
<1>3. "done" \in PcStates  BY DEF PcStates
<1>4. req'.pc = "done"  BY <1>1, <1>2, <1>3, GotoFields
<1>5. s'.promoted /\ hist' = hist /\ DownP!ErrorsAt(s'.out) = DownP!ErrorsAt(s.out)
  <2>1. CASE DownP!Promote
    BY <1>2, <2>1, SessionAssumptions, DownP!PromoteAdds, DownP!PromoteMarks
    DEF DownP!NoErrorFrameAdded
  <2>2. CASE s.promoted /\ SessionUnchanged  BY <2>2 DEF SessionUnchanged
  <2> QED  BY <1>1, <2>1, <2>2
<1>6. Ending /\ ~Reported  BY <1>1 DEF Ending, Reported
<1>7. Delivered'  BY <1>1, <1>5, <1>6 DEF EndNow, Delivered
<1>8. Reported' /\ ~Ending'  BY <1>4 DEF Reported, Ending
<1> QED  BY <1>4, <1>7, <1>8 DEF EndNow

LEMMA FinalErrorReturnsEnds ==
  ASSUME MInv, EndNow, FinalErrorReturns, ~DownP!Unavailable(s)
  PROVE  EndNow'
<1>1. /\ Goto("done") /\ w' = w /\ req.pc \in {"callback", "callbackEnd"}
      /\ DownP!FinalErrorEnd
  BY SameActions DEF FinalErrorReturns
<1>2. req \in Request /\ CallAt /\ DownP!TypeOK  BY ScriptFacts
<1>3. "done" \in PcStates  BY DEF PcStates
<1>4. req'.pc = "done"  BY <1>1, <1>2, <1>3, GotoFields
<1>5. req.pc = "callbackEnd"  BY <1>1, <1>2 DEF CallAt, DownP!FinalErrorEnd
<1>6. DownP!Silent  BY <1>1, <1>2, SessionAssumptions, DownP!SilentSteps
<1>7. OneError'  BY <1>5, <1>6, OneErrorStays DEF EndNow, Reported, DownP!Silent
<1>8. Reported' /\ ~Ending'  BY <1>4 DEF Reported, Ending
<1> QED  BY <1>7, <1>8 DEF EndNow

LEMMA OthersEnd ==
  ASSUME MInv, EndNow, Stop \/ Environment \/ UNCHANGED vars
  PROVE  EndNow'
<1>1. w' = w /\ req' = req
      /\ (DownP!StopCall \/ DownP!Heartbeat \/ DownP!ClientGone \/ UNCHANGED DownP!sessionVars)
  BY SameActions
  DEF Stop, Environment, vars, Down!Heartbeat, DownP!Heartbeat, DownP!sessionVars
<1>2. DownP!TypeOK  BY ScriptFacts
<1>3. DownP!Silent  BY <1>1, <1>2, SessionAssumptions, DownP!SilentSteps
<1>4. /\ hist'.offered = hist.offered /\ s'.promoted = s.promoted
      /\ DownP!ErrorsAt(s'.out) = DownP!ErrorsAt(s.out)
  BY <1>3 DEF DownP!Silent
<1>5. (Ending' <=> Ending) /\ (Reported' <=> Reported)  BY <1>1 DEF Ending, Reported
<1>6. OneError => OneError'  BY <1>4, OneErrorStays
<1>7. Delivered => Delivered'  BY <1>1, <1>4 DEF Delivered
<1> QED  BY <1>1, <1>4, <1>5, <1>6, <1>7 DEF EndNow

LEMMA NextEnds ==
  ASSUME MInv, ShowAt, CInv, [Next]_vars
  PROVE  EndAt'
<1> SUFFICES ASSUME req'.stream, ~s'.ctxErr PROVE EndNow'  BY DEF EndAt
<1>1. /\ req.stream /\ EndNow /\ ~s'.firstErr
      /\ req.pc # "done" => ~DownP!Unavailable(s) /\ ~w.writeErr
  BY Attended
<1>2. s' \in DownP!Session
  <2>1. DownP!TypeOK'
    BY StepKeepsInv, SessionAssumptions, DownP!StepKeepsType DEF MInv, Inv, DownP!IInv, SessionStep
  <2> QED  BY <2>1 DEF DownP!TypeOK
<1>3. CASE \/ CallFails \/ CallSucceeds \/ ReportError \/ AlreadyFinished \/ GiveUp
           \/ InstallHeaders \/ StartHeartbeat
  BY <1>1, <1>3, AsideEnds
<1>4. CASE SearchSucceeds  BY <1>1, <1>4, SearchSucceedsEnds
<1>5. CASE ReadEvent  BY <1>1, <1>5, ReadEventEnds
<1>6. CASE ReadError \/ ReadEOF \/ ReadBreaks  BY <1>1, <1>6, ReadingEndsEnds
<1>7. CASE EmitWrite  BY <1>1, <1>2, <1>7, EmitWriteEnds
<1>8. CASE EmitPromote  BY <1>1, <1>2, <1>8, EmitPromoteEnds
<1>9. CASE EmitFlush  BY <1>1, <1>9, EmitFlushEnds
<1>10. CASE CallRefused
  <2>1. req.pc = "emit" /\ DownP!Unavailable(s)
    BY <1>10 DEF CallRefused, Emits, Down!Unavailable, DownP!Unavailable
  <2> QED  BY <1>1, <2>1
<1>11. CASE EmitDone
  <2>1. req.pc = "emit"  BY <1>11 DEF EmitDone
  <2> QED  BY <1>1, <1>11, <2>1, EmitDoneEnds DEF CInv
<1>12. CASE Abandon
  BY <1>1, <1>12 DEF Abandon, Aborted, DownP!Unavailable
<1>13. CASE RetryInvalidState \/ RetryEmpty  BY <1>1, <1>13, DroppedEnds
<1>14. CASE FinishMessage  BY <1>1, <1>14, FinishMessageEnds
<1>15. CASE DeliverMessage
  <2>1. req.pc = "finish"  BY <1>15 DEF DeliverMessage
  <2> QED  BY <1>1, <1>15, <2>1, DeliverMessageEnds
<1>16. CASE Retry  BY <1>1, <1>16, RetryEnds
<1>17. CASE BufferEvent \/ BufferedInvalidState \/ BufferedError \/ BuildResponse \/ BodyError
  BY <1>1, <1>17
  DEF BufferEvent, BufferedInvalidState, BufferedError, BuildResponse, Buffered, BodyError
<1>18. CASE FinalError \/ ErrorFrame  BY <1>1, <1>18, ReportEnds
<1>19. CASE FinalErrorRefused
  BY <1>1, <1>19 DEF FinalErrorRefused, Down!Unavailable, DownP!Unavailable
<1>20. CASE FinalErrorCallback  BY <1>1, <1>20, FinalErrorCallbackEnds
<1>21. CASE FinalErrorReturns
  <2>1. req.pc # "done"  BY <1>21 DEF FinalErrorReturns
  <2> QED  BY <1>1, <1>21, <2>1, FinalErrorReturnsEnds
<1>22. CASE Stop \/ Environment \/ UNCHANGED vars  BY <1>1, <1>22, OthersEnd
<1> QED
  BY <1>3, <1>4, <1>5, <1>6, <1>7, <1>8, <1>9, <1>10, <1>11, <1>12, <1>13, <1>14, <1>15,
     <1>16, <1>17, <1>18, <1>19, <1>20, <1>21, <1>22
  DEF Next, RequestGoroutine, Attempt, Conclusion

(* The calls of a web search keep the search's promise.                    *)
LEMMA EmittingSearches ==
  ASSUME MInv, SearchAt, EmitWrite \/ EmitPromote \/ CallRefused \/ EmitFlush
  PROVE  SearchAt'
<1>1. req \in Request /\ w \in WriterState  BY ScriptFacts
<1>2. \E err, q : w' = [w EXCEPT !.writeErr = err, !.todo = q]
  <2>1. CASE EmitWrite \/ EmitPromote \/ CallRefused
    <3>1. PICK err : Called(err)  BY <2>1 DEF EmitWrite, EmitPromote, CallRefused
    <3> QED  BY <3>1 DEF Called
  <2>2. CASE EmitFlush  BY <2>2 DEF EmitFlush
  <2> QED  BY <2>1, <2>2
<1>3. w'.visibleFired = w.visibleFired
  <2>1. PICK err, q : w' = [w EXCEPT !.writeErr = err, !.todo = q]  BY <1>2
  <2> QED  BY <1>1, <2>1 DEF WriterState
<1>4. req.pc \in {"emit", "flush"} /\ req'.next = req.next
  <2>1. req.pc \in {"emit", "flush"}
    BY DEF EmitWrite, EmitPromote, CallRefused, Emits, EmitFlush
  <2>2. \/ req' = req
        \/ \E pc \in {"flush", "callbackEnd", "emit"} : Goto(pc)
    BY DEF EmitWrite, EmitPromote, CallRefused, EmitFlush
  <2>3. ASSUME NEW pc \in {"flush", "callbackEnd", "emit"}, Goto(pc)
        PROVE  req'.next = req.next
    <3>1. pc \in PcStates  BY DEF PcStates
    <3> QED  BY <1>1, <2>3, <3>1, GotoFields
  <2> QED  BY <2>1, <2>2, <2>3
<1> QED  BY <1>3, <1>4 DEF SearchAt

LEMMA NextSearch ==
  ASSUME MInv, ShowAt, SearchAt, [Next]_vars
  PROVE  SearchAt'
<1>1. req \in Request /\ w \in Writer  BY ScriptFacts, WriterStateIsWriter
<1>2. CASE EmitWrite \/ EmitPromote \/ CallRefused \/ EmitFlush  BY <1>2, EmittingSearches
<1>3. CASE SearchSucceeds
  <2>1. CASE req.stream
    <3>1. w' = FinishWebSearch(WriteText(WriteWebSearchResult(WriteServerToolUse(w))))
      BY <1>3, <2>1 DEF SearchSucceeds, Emit
    <3>2. Shown(w)  BY <2>1 DEF ShowAt
    <3>3. w'.visibleFired  BY <1>1, <3>1, <3>2, SearchShows
    <3> QED  BY <3>3 DEF SearchAt
  <2>2. CASE ~req.stream
    <3>1. Answer("message")  BY <1>3, <2>2 DEF SearchSucceeds
    <3>2. req'.pc = "done"  BY <1>1, <3>1, AnswerFields
    <3> QED  BY <3>2 DEF SearchAt
  <2> QED  BY <2>1, <2>2
<1>4. CASE ReadEvent \/ FinishMessage \/ FinalErrorCallback \/ ErrorFrame
  <2>1. req'.next \in {"parse", "parsed", "finish", "callback", "callbackEnd"}
    BY <1>1, <1>4 DEF ReadEvent, FinishMessage, FinalErrorCallback, Emit, ErrorFrame, Request
  <2> QED  BY <2>1 DEF SearchAt
<1>5. CASE EmitDone
  <2>1. /\ Goto(IF Failed THEN "done" ELSE req.next) /\ CallAt /\ req.pc = "emit"
    BY <1>5, ScriptFacts DEF EmitDone
  <2>2. PICK pc \in NextStates : Goto(pc)
    BY <1>1, <2>1 DEF Request, NextStates
  <2>3. pc \in PcStates /\ pc \notin {"emit", "flush"}  BY DEF NextStates, PcStates
  <2>4. req'.pc = pc  BY <1>1, <2>2, <2>3, GotoFields
  <2> QED  BY <2>3, <2>4 DEF SearchAt
<1>6. CASE \/ CallFails \/ CallSucceeds \/ InstallHeaders \/ StartHeartbeat \/ Abandon
           \/ RetryInvalidState \/ ReportError \/ AlreadyFinished \/ RetryEmpty
           \/ DeliverMessage \/ GiveUp \/ BufferedInvalidState \/ FinalError
           \/ FinalErrorRefused \/ FinalErrorReturns
  <2>1. PICK pc \in PcStates \ {"emit", "flush"} : Goto(pc)
    BY <1>6
    DEF CallFails, CallSucceeds, InstallHeaders, StartHeartbeat, Abandon, RetryInvalidState,
        ReportError, AlreadyFinished, RetryEmpty, DeliverMessage, GiveUp, BufferedInvalidState,
        FinalError, FinalErrorRefused, FinalErrorReturns, PcStates
  <2>2. req'.pc = pc  BY <1>1, <2>1, GotoFields
  <2> QED  BY <2>1, <2>2 DEF SearchAt
<1>7. CASE ReadError \/ ReadEOF \/ ReadBreaks
  <2>1. PICK o \in {"retryable", "fatal", "eof", "broken"} : After(o)
    BY <1>7 DEF ReadError, ReadEOF, ReadBreaks
  <2>2. req'.pc = "parsed"  BY <1>1, <2>1, AfterFields
  <2> QED  BY <2>2 DEF SearchAt
<1>8. CASE BufferedError \/ BodyError \/ BuildResponse
  <2>1. (\E kind \in {"message", "error"} : Answer(kind)) \/ Goto("retry")
    BY <1>8 DEF BufferedError, BodyError, BuildResponse
  <2>2. "retry" \in PcStates  BY DEF PcStates
  <2>3. req'.pc \in {"done", "retry"}  BY <1>1, <2>1, <2>2, GotoFields, AnswerFields
  <2> QED  BY <2>3 DEF SearchAt
<1>9. CASE BufferEvent
  <2>1. req'.pc = "parse"  BY <1>1, <1>9 DEF BufferEvent, Reads, Request
  <2> QED  BY <2>1 DEF SearchAt
<1>10. CASE Retry
  <2>1. req'.pc = "call"  BY <1>10 DEF Retry, NewRequest
  <2> QED  BY <2>1 DEF SearchAt
<1>11. CASE Stop \/ Environment \/ UNCHANGED vars
  BY <1>11 DEF Stop, Environment, vars, SearchAt
<1> QED
  BY <1>2, <1>3, <1>4, <1>5, <1>6, <1>7, <1>8, <1>9, <1>10, <1>11
  DEF Next, RequestGoroutine, Attempt, Conclusion

LEMMA NextBody ==
  ASSUME MInv, BodyAt, [Next]_vars
  PROVE  BodyAt'
<1>1. req \in Request /\ StreamAt  BY ScriptFacts
<1> SUFFICES ASSUME ~req'.stream
             PROVE  IF req'.pc = "done" THEN Len(req'.body) = 1 ELSE req'.body = <<>>
  BY DEF BodyAt
<1>2. /\ ~req.stream
      /\ IF req.pc = "done" THEN Len(req.body) = 1 ELSE req.body = <<>>
  BY <1>1, StreamStays DEF BodyAt
<1>3. ASSUME NEW kind \in {"message", "error"}, Answer(kind), req.pc # "done"
      PROVE  req'.pc = "done" /\ Len(req'.body) = 1
  <2> DEFINE b == Append(req.body, kind)
  <2>1. Len(b) = 1  BY <1>2, <1>3
  <2>2. req' = [req EXCEPT !.pc = "done", !.body = b]  BY <1>3 DEF Answer
  <2> HIDE DEF b
  <2>3. req'.body = b  BY <1>1, <2>2 DEF Request
  <2> QED  BY <1>1, <1>3, <2>1, <2>3, AnswerFields
<1>4. ASSUME NEW pc \in PcStates \ {"done"}, Goto(pc), req.pc # "done"
      PROVE  req'.pc # "done" /\ req'.body = <<>>
  BY <1>1, <1>2, <1>4, GotoFields
<1>5. CASE CallFails \/ CallSucceeds \/ BufferedInvalidState \/ GiveUp
  <2>1. req.pc # "done" /\ \E pc \in {"fail", "parse", "headers", "retry"} : Goto(pc)
    BY <1>2, <1>5 DEF CallFails, CallSucceeds, BufferedInvalidState, Buffered, GiveUp
  <2>2. {"fail", "parse", "headers", "retry"} \subseteq PcStates \ {"done"}  BY DEF PcStates
  <2> QED  BY <1>4, <2>1, <2>2
<1>6. CASE SearchSucceeds
  <2>1. req.pc # "done" /\ Answer("message")  BY <1>2, <1>6 DEF SearchSucceeds
  <2> QED  BY <1>3, <2>1
<1>7. CASE BufferedError \/ BodyError
  <2>1. req.pc # "done" /\ Answer("error")
    BY <1>7 DEF BufferedError, Buffered, BodyError
  <2> QED  BY <1>3, <2>1
<1>8. CASE BuildResponse
  <2>1. req.pc # "done" /\ (Goto("retry") \/ Answer("message"))
    BY <1>8 DEF BuildResponse, Buffered
  <2>2. "retry" \in PcStates \ {"done"}  BY DEF PcStates
  <2> QED  BY <1>3, <1>4, <2>1, <2>2
<1>9. CASE BufferEvent
  <2>1. req'.pc = "parse" /\ req'.body = req.body /\ req.pc = "parse"
    BY <1>1, <1>9 DEF BufferEvent, Reads, Request
  <2> QED  BY <1>2, <2>1
<1>10. CASE ReadError \/ ReadEOF \/ ReadBreaks
  <2>1. PICK o \in {"retryable", "fatal", "eof", "broken"} : After(o) /\ req.pc = "parse"
    BY <1>10 DEF ReadError, ReadEOF, ReadBreaks, Reads
  <2>2. req'.pc = "parsed" /\ req'.body = req.body  BY <1>1, <2>1, AfterFields
  <2> QED  BY <1>2, <2>1, <2>2
<1>11. CASE Retry
  <2>1. req'.pc = "call" /\ req'.body = <<>>  BY <1>11 DEF Retry, NewRequest
  <2> QED  BY <2>1
<1>12. CASE Environment \/ UNCHANGED vars
  <2>1. req' = req  BY <1>12 DEF Environment, vars
  <2> QED  BY <1>2, <2>1
<1>13. CASE \/ InstallHeaders \/ StartHeartbeat \/ ReadEvent \/ EmitWrite \/ EmitPromote
            \/ EmitFlush \/ CallRefused \/ EmitDone \/ Abandon \/ RetryInvalidState
            \/ ReportError \/ FinishMessage \/ AlreadyFinished \/ RetryEmpty
            \/ DeliverMessage \/ FinalError \/ FinalErrorRefused \/ FinalErrorCallback
            \/ ErrorFrame \/ FinalErrorReturns \/ Stop
  BY <1>1, <1>2, <1>13
  DEF StreamAt, InstallHeaders, StartHeartbeat, ReadEvent, EmitWrite, EmitPromote, Emits,
      EmitFlush, CallRefused, EmitDone, Abandon, RetryInvalidState, Parsed, ReportError,
      FinishMessage, AlreadyFinished, RetryEmpty, DeliverMessage, FinalError,
      FinalErrorRefused, FinalErrorCallback, ErrorFrame, FinalErrorReturns, Stop
<1> QED
  BY <1>5, <1>6, <1>7, <1>8, <1>9, <1>10, <1>11, <1>12, <1>13
  DEF Next, RequestGoroutine, Attempt, Conclusion

LEMMA CInitially ==
  ASSUME Init
  PROVE  CInv
<1>1. PICK stream, search \in BOOLEAN : req = NewRequest(stream, search)  BY DEF Init
<1>2. req.pc \in {"call", "headers"} /\ req.body = <<>>  BY <1>1 DEF NewRequest
<1>3. s.out = <<>> /\ ~s.firstErr /\ ~s.stopped
  BY SameSpec DEF Init, DownP!Init, DownP!newStreamSession
<1>4. DownP!ErrorsAt(s.out) = {}  BY <1>3 DEF DownP!ErrorsAt
<1>5. DownP!LossExplained  BY <1>3 DEF DownP!LossExplained, DownP!Cancels, DownP!StopCalled
<1>6. EndAt  BY <1>2, <1>4 DEF EndAt, EndNow, Ending, Reported
<1>7. SearchAt  BY <1>2 DEF SearchAt
<1>8. BodyAt  BY <1>2 DEF BodyAt
<1> QED  BY <1>5, <1>6, <1>7, <1>8 DEF CInv

(* What the client has of a message that was delivered, and of one that an *)
(* error replaced or cut short.                                            *)
LEMMA DeliveredFinishes ==
  ASSUME MInv, Delivered, req.pc = "done", ~s.firstErr
  PROVE  Finished
<1> DEFINE m == DownP!Events(s)
           b == hist.offered
<1>1. /\ s \in DownP!Session /\ MessageAt /\ b \in Seq(SSEEvent) /\ DownP!Delivers(s, b)
  BY ScriptFacts
<1>2. w.todo = <<>>  BY <1>1 DEF MessageAt, Resting
<1>3. m \in Seq(SSEEvent)  BY <1>1, SessionAssumptions, DownP!EventsType
<1>4. b = m
  <2>1. s.buf = <<>> /\ b = m \o s.buf
    BY <1>1 DEF Delivered, DownP!Delivers, DownP!Joins
  <2> QED  BY <1>3, <2>1
<1>5. Message = m  BY DEF Message, DownP!Events, Filter, DownP!Filter
<1> HIDE DEF m, b
<1>6. Story(b, w) = b  BY <1>1, <1>2, EmptyStory
<1>7. Ends(b, w)  BY DEF Delivered, b
<1>8. \E i \in 1..Len(m) : m[i].event = "message_stop"  BY <1>4, <1>6, <1>7 DEF Ends
<1> QED  BY <1>3, <1>5, <1>8 DEF Finished

LEMMA ErrorEnds ==
  ASSUME MInv, OneError
  PROVE  ~Finished
<1> DEFINE m == DownP!Events(s)
           none == <<>>
<1>1. s \in DownP!Session /\ ErrorAt /\ DownP!IInv  BY ScriptFacts DEF MInv, Inv
<1>2. m \in Seq(SSEEvent)  BY <1>1, SessionAssumptions, DownP!EventsType
<1>3. Message = m  BY DEF Message, DownP!Events, Filter, DownP!Filter
<1>4. PICK i \in DOMAIN s.out : s.out[i] \in {SseError, JsonError}
  <2>1. PICK i \in DOMAIN s.out : DownP!ErrorsAt(s.out) = {i}  BY DEF OneError
  <2> QED  BY <2>1 DEF DownP!ErrorsAt
<1>5. s.out[i] \in DownP!Elements(s.out)  BY <1>4 DEF DownP!Elements
<1>6. CASE s.out[i] = SseError
  <2>1. Closed(m)  BY <1>1, <1>5, <1>6 DEF ErrorAt
  <2> HIDE DEF m
  <2> QED  BY <1>2, <1>3, <2>1 DEF Closed, Finished
<1>7. CASE s.out[i] = JsonError
  <2>1. DownP!FramingMatchesHeader  BY <1>1, SessionAssumptions, DownP!FramingFollows
  <2>2. s.out \in {none, <<JsonError>>, <<Cut>>}
    BY <1>5, <1>7, <2>1 DEF DownP!FramingMatchesHeader
  <2>3. m = none
    <3>1. JsonError \notin SSEEvent /\ Cut \notin SSEEvent
      BY SessionAssumptions, DownP!NoMarkerIsEvent
    <3>2. DownP!Filter(none, SSEEvent) = none  BY SessionAssumptions, DownP!FilterEmpty
    <3>3. \A c : c \notin SSEEvent => DownP!Filter(<<c>>, SSEEvent) = none
      BY SessionAssumptions, DownP!FilterOne
    <3> HIDE DEF none
    <3> QED  BY <2>2, <3>1, <3>2, <3>3 DEF DownP!Events
  <2>4. DOMAIN m = {}  BY <2>3
  <2> HIDE DEF m
  <2> QED  BY <1>3, <2>4 DEF Finished
<1> QED  BY <1>4, <1>6, <1>7

LEMMA ConclusionFollows ==
  ASSUME MInv, CInv
  PROVE  ConcludedOnce
<1> DEFINE errors == {i \in DOMAIN s.out : s.out[i] \in {SseError, JsonError}}
<1>1. errors = DownP!ErrorsAt(s.out)  BY DEF DownP!ErrorsAt
<1> HIDE DEF errors
<1>2. ASSUME req.pc = "done", req.stream, ~s.ctxErr
      PROVE  Cardinality(errors) = IF Finished THEN 0 ELSE 1
  <2>1. ~s.firstErr /\ (Delivered \/ OneError)
    BY <1>2 DEF CInv, EndAt, EndNow, DownP!LossExplained, DownP!Cancels
  <2>2. CASE Delivered
    <3>1. Finished  BY <1>2, <2>1, <2>2, DeliveredFinishes
    <3>2. Cardinality(errors) = 0  BY <1>1, <2>2, FS_EmptySet DEF Delivered
    <3> QED  BY <3>1, <3>2
  <2>3. CASE OneError
    <3>1. ~Finished  BY <2>3, ErrorEnds
    <3>2. PICK i : errors = {i}  BY <1>1, <2>3 DEF OneError
    <3>3. Cardinality(errors) = 1  BY <3>2, FS_Singleton
    <3> QED  BY <3>1, <3>3
  <2> QED  BY <2>1, <2>2, <2>3
<1>3. ~req.stream => Len(req.body) = IF req.pc = "done" THEN 1 ELSE 0
  BY DEF CInv, BodyAt
<1> QED  BY <1>2, <1>3 DEF ConcludedOnce, errors

(* A streaming request whose client is still there and whose socket works  *)
(* ends with exactly one conclusion, the end of a message or one error,    *)
(* and any other request with exactly one body, whatever the upstream      *)
(* sends and whichever attempts it takes (ConcludedOnce).                  *)
THEOREM EndsInOneWay == Spec => []ConcludedOnce
<1> DEFINE J == ShowAt /\ CInv
<1>1. Init => J  BY ShowInitially, CInitially
<1>2. MInv /\ J /\ [Next]_vars => J'
  <2> SUFFICES ASSUME MInv, J, [Next]_vars PROVE J'  OBVIOUS
  <2>1. ShowAt'  BY NextShows
  <2>2. DownP!LossExplained'  BY NextLossExplained DEF CInv
  <2>3. EndAt'  BY NextEnds
  <2>4. SearchAt'  BY NextSearch DEF CInv
  <2>5. BodyAt'  BY NextBody DEF CInv
  <2> QED  BY <2>1, <2>2, <2>3, <2>4, <2>5 DEF CInv
<1>3. MInv /\ J => ConcludedOnce  BY ConclusionFollows
<1> HIDE DEF J
<1> QED  BY <1>1, <1>2, <1>3, MessageInvariant, PTL DEF Spec
----------------------------------------------------------------------------
(* The tally of a request.  The blocks of everything offered and still to  *)
(* be offered, at each position of the request goroutine; a session is     *)
(* promoted only for visible output or for a message that is not empty;    *)
(* a message that the writer has finished on its own was stopped locally.  *)

TallyAt ==
  /\ Thinks(hist.offered, w)
  /\ Ends(hist.offered, w) /\ w.visibleFired => Seen(hist.offered, w)
  /\ Promises(w.todo) => w.visibleFired
  /\ req.stream /\ Unended => Tallies(hist.offered, w)
  /\ InEvent => w.writeErr \/ Tallies(hist.offered, w)

PromotedAt ==
  s.promoted => w.visibleFired \/ (req.pc = "done" /\ ~IsEmptyVisibleEndTurn(w))

LocalAt ==
  /\ req.pc \in {"emit", "flush"} /\ req.next = "parsed" => w.localStop
  /\ req.pc = "parsed" /\ req.stream /\ req.outcome = "localStop" => w.localStop
  /\ req.pc \in {"emit", "flush"} /\ req.next = "finish" => req.outcome = "eof"
  /\ req.pc = "finish" => req.outcome = "eof" \/ w.localStop

AnswerAt ==
  /\ req.pc # "done" \/ req.stream => req.body = <<>>
  /\ req.body = <<"message">> => ~IsEmptyVisibleEndTurn(w)

EarlyAt == Early => ~w.thinking

TInv == TallyAt /\ PromotedAt /\ LocalAt /\ AnswerAt /\ EarlyAt

LEMMA EmptyBlocks == BlocksOf(<<>>) = {}
BY DEF BlocksOf

LEMMA HeadBlocks ==
  ASSUME NEW q \in Seq(AnyCall), q # <<>>
  PROVE  /\ BlocksOf(q) = ({Head(q).block} \ {NoBlock}) \cup BlocksOf(Tail(q))
         /\ Promises(Tail(q)) => Promises(q)
<1> DEFINE r == Tail(q)
<1>1. /\ r \in Seq(AnyCall) /\ Head(q) = q[1] /\ Len(r) = Len(q) - 1 /\ Len(q) \in Nat
      /\ Len(q) >= 1 /\ \A i \in 1..Len(r) : r[i] = q[i + 1]
  OBVIOUS
<1>2. DOMAIN q = 1..Len(q) /\ DOMAIN r = 1..Len(r)  BY <1>1
<1> HIDE DEF r
<1>3. BlocksOf(q) \subseteq ({q[1].block} \ {NoBlock}) \cup BlocksOf(r)
  <2> SUFFICES ASSUME NEW i \in 1..Len(q), q[i].block # NoBlock
               PROVE  q[i].block = q[1].block \/ q[i].block \in BlocksOf(r)
    BY <1>2 DEF BlocksOf
  <2>1. CASE i = 1  BY <2>1
  <2>2. CASE i # 1
    <3>1. i - 1 \in 1..Len(r) /\ r[i - 1] = q[i]  BY <1>1, <2>2
    <3> QED  BY <1>2, <3>1 DEF BlocksOf
  <2> QED  BY <2>1, <2>2
<1>4. ({q[1].block} \ {NoBlock}) \cup BlocksOf(r) \subseteq BlocksOf(q)
  <2>1. 1 \in 1..Len(q)  BY <1>1
  <2>2. ASSUME NEW i \in 1..Len(r) PROVE i + 1 \in 1..Len(q) /\ q[i + 1] = r[i]
    BY <1>1
  <2> QED  BY <1>2, <2>1, <2>2 DEF BlocksOf
<1>5. ASSUME Promises(r) PROVE Promises(q)
  <2>1. PICK i \in 1..Len(r) : r[i].event = "promote"  BY <1>5 DEF Promises
  <2>2. i + 1 \in 1..Len(q) /\ q[i + 1] = r[i]  BY <1>1
  <2> QED  BY <2>1, <2>2 DEF Promises
<1> QED  BY <1>1, <1>3, <1>4, <1>5 DEF r

(* A call handed over takes its block along.                               *)
LEMMA HandedBlocks ==
  ASSUME NEW b \in Seq(SSEEvent), NEW wr \in WriterState, wr.todo # <<>>,
         NEW t, Advanced(t, wr), NEW c, c = Handed(b, wr)
  PROVE  Has(c, t) = Has(b, wr) /\ (Promises(t.todo) => Promises(wr.todo))
<1> DEFINE h == Head(wr.todo)
           q == wr.todo
           r == Tail(q)
<1>1. q \in Seq(AnyCall) /\ h \in Calls /\ b \in Seq(AnyCall) /\ h \in AnyCall
  <2>1. wr \in Writer /\ wr.todo \in Seq(Calls)  BY WriterStateIsWriter DEF WriterState
  <2>2. h \in Calls  BY <2>1
  <2>3. SSEEvent \subseteq AnyCall  BY CallsAreCalls DEF Calls
  <2>4. b \in Seq(AnyCall)  BY <2>3
  <2> QED  BY <2>1, <2>2, <2>4, CallsAreCalls DEF Writer
<1>2. /\ BlocksOf(q) = ({h.block} \ {NoBlock}) \cup BlocksOf(r)
      /\ Promises(r) => Promises(q)
  BY <1>1, HeadBlocks
<1>3. t.todo = r  BY DEF Advanced
<1>4. BlocksOf(c) = BlocksOf(b) \cup ({h.block} \ {NoBlock})
  <2>1. CASE h \in SSEEvent
    <3>1. c = Append(b, h)  BY <2>1 DEF Handed
    <3> HIDE DEF h
    <3> QED  BY <1>1, <3>1, BlocksAppend
  <2>2. CASE h \notin SSEEvent
    <3>1. h.block = NoBlock  BY <1>1, <2>2 DEF Calls, PromoteCall, Event
    <3> QED  BY <2>2, <3>1 DEF Handed
  <2> QED  BY <2>1, <2>2
<1> HIDE DEF h, r
<1> QED  BY <1>2, <1>3, <1>4 DEF Has, q

(* Nothing comes after the end of the message.                             *)
LEMMA StopIsLast ==
  ASSUME NEW b, NEW wr \in WriterState, Told(b, wr),
         NEW i \in 1..Len(b), b[i].event = "message_stop"
  PROVE  i = Len(b) /\ Filter(wr.todo, SSEEvent) = <<>> /\ BlocksOf(wr.todo) = {}
<1> DEFINE f == Filter(wr.todo, SSEEvent)
           m == b \o f
<1>1. wr.todo \in Seq(Calls) /\ b \in Seq(SSEEvent)  BY DEF WriterState, Told
<1>2. f \in Seq(SSEEvent)  BY <1>1, EventsOfCalls
<1>3. WellFormedSoFar(m)  BY DEF Told, Story
<1>4. f = Filter(wr.todo, SSEEvent)  OBVIOUS
<1> HIDE DEF f
<1>5. /\ Len(m) = Len(b) + Len(f) /\ Len(b) \in Nat /\ Len(f) \in Nat
      /\ i \in DOMAIN m /\ m[i] = b[i]
  BY <1>1, <1>2
<1> HIDE DEF m
<1>6. i = Len(m)  BY <1>3, <1>5 DEF WellFormedSoFar, InPlace
<1>7. Len(f) = 0 /\ i = Len(b)  BY <1>5, <1>6
<1>8. f = <<>>  BY <1>2, <1>7
<1>9. ASSUME NEW j \in 1..Len(wr.todo) PROVE wr.todo[j].block = NoBlock
  <2>1. wr.todo[j] \notin SSEEvent  BY <1>1, <1>4, <1>8, FilterNothing
  <2>2. wr.todo[j] \in Calls  BY <1>1
  <2> QED  BY <2>1, <2>2 DEF Calls, PromoteCall, Event
<1>10. DOMAIN wr.todo = 1..Len(wr.todo)  BY <1>1
<1>11. BlocksOf(wr.todo) = {}  BY <1>9, <1>10 DEF BlocksOf
<1> QED  BY <1>4, <1>7, <1>8, <1>11

(* t and c carry on what wr and b tell, by calls alone.                    *)
Carries(c, t, b, wr) ==
  /\ t.thinking = wr.thinking /\ t.text = wr.text /\ t.tool = wr.tool
  /\ t.localStop = wr.localStop
  /\ t.visibleFired = wr.visibleFired /\ t.activeType = wr.activeType
  /\ Promises(t.todo) => Promises(wr.todo)
  /\ Has(c, t) \subseteq Has(b, wr)
  /\ ~t.writeErr \/ Ends(c, t) => Has(c, t) = Has(b, wr)
  /\ Ends(c, t) => Ends(b, wr)

(* A writer that made a call, failed at one, or has the same calls to make. *)
SameAccount(t, wr) ==
  /\ t.thinking = wr.thinking /\ t.text = wr.text /\ t.tool = wr.tool
  /\ t.localStop = wr.localStop
  /\ t.visibleFired = wr.visibleFired /\ t.activeType = wr.activeType

LEMMA StillCarries ==
  ASSUME NEW b, NEW wr, NEW t, SameAccount(t, wr), t.todo = wr.todo
  PROVE  Carries(b, t, b, wr)
BY DEF Carries, SameAccount, Has, Ends, Story

LEMMA CallCarries ==
  ASSUME NEW b \in Seq(SSEEvent), NEW wr \in WriterState, wr.todo # <<>>, NEW t,
         SameAccount(t, wr), Advanced(t, wr), NEW c, c = Handed(b, wr)
  PROVE  Carries(c, t, b, wr)
<1>1. Has(c, t) = Has(b, wr) /\ (Promises(t.todo) => Promises(wr.todo))
  BY HandedBlocks
<1>2. Story(c, t) = Story(b, wr)  BY StoryGoesOn
<1> QED  BY <1>1, <1>2 DEF Carries, SameAccount, Ends

LEMMA CutCarries ==
  ASSUME NEW b, NEW wr \in WriterState, Told(b, wr), NEW t, SameAccount(t, wr),
         t.todo = <<>>, t.writeErr
  PROVE  Carries(b, t, b, wr)
<1> DEFINE none == <<>>
<1>1. b \in Seq(SSEEvent) /\ Story(b, t) = b  BY EmptyStory DEF Told
<1>2. none = <<>> /\ t.todo = none  OBVIOUS
<1>3. BlocksOf(none) = {}  BY EmptyBlocks
<1>4. ~Promises(none)  BY DEF Promises
<1> HIDE DEF none
<1>5. Has(b, t) = BlocksOf(b)  BY <1>2, <1>3 DEF Has
<1>6. ASSUME Ends(b, t)
      PROVE  Ends(b, wr) /\ Has(b, t) = Has(b, wr)
  <2>1. PICK i \in 1..Len(b) : b[i].event = "message_stop"  BY <1>1, <1>6 DEF Ends
  <2>2. Filter(wr.todo, SSEEvent) = none /\ BlocksOf(wr.todo) = {}  BY <1>2, <2>1, StopIsLast
  <2>3. Story(b, wr) = b  BY <1>1, <1>2, <2>2 DEF Story
  <2>4. Ends(b, wr)  BY <2>1, <2>3 DEF Ends
  <2>5. Has(b, wr) = BlocksOf(b)  BY <2>2 DEF Has
  <2> QED  BY <1>5, <2>4, <2>5
<1>7. Has(b, t) \subseteq Has(b, wr)  BY <1>5 DEF Has
<1> QED  BY <1>2, <1>4, <1>6, <1>7 DEF Carries, SameAccount

LEMMA CarriesOn ==
  ASSUME NEW b, NEW wr, NEW c, NEW u, NEW t, ~u.writeErr,
         Carries(c, u, b, wr), Carries(c, t, c, u)
  PROVE  Carries(c, t, b, wr)
BY DEF Carries

(* The first call handed over, and none of the others.                     *)
LEMMA CutAfterCallCarries ==
  ASSUME NEW b, NEW wr \in WriterState, Told(b, wr), wr.todo # <<>>, NEW t,
         SameAccount(t, wr), t.todo = <<>>, t.writeErr, NEW c, c = Handed(b, wr)
  PROVE  Carries(c, t, b, wr)
<1> DEFINE q == Tail(wr.todo)
           no == FALSE
           u == [wr EXCEPT !.todo = q, !.writeErr = no]
<1>1. q \in Seq(Calls) /\ no \in BOOLEAN /\ q = Tail(wr.todo) /\ ~no  BY DEF WriterState
<1>2. b \in Seq(SSEEvent)  BY DEF Told
<1> HIDE DEF q, no
<1>3. /\ u \in WriterState /\ u.todo = q /\ ~u.writeErr /\ SameAccount(u, wr)
  BY <1>1 DEF WriterState, SameAccount
<1> HIDE DEF u
<1>4. Advanced(u, wr)  BY <1>1, <1>3 DEF Advanced
<1>5. Carries(c, u, b, wr)  BY <1>2, <1>3, <1>4, CallCarries
<1>6. Told(c, u)
  <2>1. c \in Seq(SSEEvent) /\ Story(c, u) = Story(b, wr)  BY <1>2, <1>4, StoryGoesOn
  <2> QED  BY <2>1 DEF Told
<1>7. SameAccount(t, u)  BY <1>3 DEF SameAccount
<1>8. Carries(c, t, c, u)  BY <1>3, <1>6, <1>7, CutCarries
<1> QED  BY <1>3, <1>5, <1>8, CarriesOn

LEMMA CalledCarries ==
  ASSUME NEW b, w \in WriterState, Told(b, w), w.todo # <<>>, NEW err \in BOOLEAN, Called(err),
         NEW c, c = Handed(b, w) \/ (err /\ c = b)
  PROVE  Carries(c, w', b, w) /\ w'.writeErr = err
<1> DEFINE q == IF err THEN <<>> ELSE Rest
<1>1. w' = [w EXCEPT !.writeErr = err, !.todo = q]  BY DEF Called
<1>2. (err => q = <<>>) /\ (~err => q = Tail(w.todo))  BY DEF Rest
<1> HIDE DEF q
<1>3. w'.todo = q /\ w'.writeErr = err /\ SameAccount(w', w)
  BY <1>1 DEF WriterState, SameAccount
<1>4. CASE ~err
  <2>1. Advanced(w', w) /\ b \in Seq(SSEEvent)  BY <1>2, <1>3, <1>4 DEF Advanced, Told
  <2>2. Carries(c, w', b, w)  BY <1>3, <1>4, <2>1, CallCarries
  <2> QED  BY <1>3, <2>2
<1>5. CASE err /\ c = b
  <2>1. Carries(b, w', b, w)  BY <1>2, <1>3, <1>5, CutCarries
  <2> QED  BY <1>3, <1>5, <2>1
<1>6. CASE err /\ c = Handed(b, w)
  <2>1. Carries(c, w', b, w)  BY <1>2, <1>3, <1>6, CutAfterCallCarries
  <2> QED  BY <1>3, <2>1
<1> QED  BY <1>4, <1>5, <1>6

(* The steps that make the writer's calls, and only the calls.             *)
Emitting == EmitWrite \/ EmitPromote \/ CallRefused \/ EmitFlush

EmitMoves ==
  /\ req'.next = req.next /\ req'.outcome = req.outcome /\ req'.body = req.body
  /\ req'.stream = req.stream
  /\ req.pc \in {"emit", "flush"} /\ req'.pc \in {"emit", "flush", "callbackEnd"}

LEMMA EmittingMoves ==
  ASSUME MInv, Emitting
  PROVE  EmitMoves
<1>1. req \in Request  BY ScriptFacts
<1>2. req.pc \in {"emit", "flush"}
  BY DEF Emitting, EmitWrite, EmitPromote, CallRefused, Emits, EmitFlush
<1>3. \/ req' = req /\ req.pc = "emit"
      \/ \E pc \in {"flush", "callbackEnd", "emit"} : Goto(pc)
  BY DEF Emitting, EmitWrite, EmitPromote, CallRefused, EmitFlush, Emits
<1>4. ASSUME NEW pc \in {"flush", "callbackEnd", "emit"}, Goto(pc)
      PROVE  EmitMoves
  <2>1. pc \in PcStates  BY DEF PcStates
  <2> QED  BY <1>1, <1>2, <1>4, <2>1, GotoFields DEF SameRequest, EmitMoves
<1> QED  BY <1>2, <1>3, <1>4 DEF EmitMoves

LEMMA EmittingCarries ==
  ASSUME MInv, Emitting, s' \in DownP!Session
  PROVE  Carries(hist'.offered, w', hist.offered, w)
<1> DEFINE b == hist.offered
           c == hist'.offered
           err == s'.firstErr
<1>1. /\ req \in Request /\ w \in WriterState /\ DownP!TypeOK /\ MessageAt
      /\ Told(b, w) /\ err \in BOOLEAN
  BY ScriptFacts DEF MessageAt, DownP!Session
<1> HIDE DEF err
<1>2. CASE EmitWrite
  <2>1. /\ w.todo # <<>> /\ Head(w.todo).event # "promote" /\ Called(err)
        /\ DownP!Write(Head(w.todo))
    BY <1>2, SameActions DEF EmitWrite, Emits, err
  <2>2. Head(w.todo) \in SSEEvent
    <3>1. Head(w.todo) \in Calls  BY <1>1, <2>1 DEF WriterState
    <3> QED  BY <2>1, <3>1, PromoteNames
  <2>3. c = Handed(b, w)
    BY <1>1, <2>1, <2>2, SessionAssumptions, DownP!WriteAdds DEF Handed
  <2> HIDE DEF b, c
  <2>4. Carries(c, w', b, w)  BY <1>1, <2>1, <2>3, CalledCarries
  <2> QED  BY <2>4 DEF b, c
<1>3. CASE EmitPromote
  <2>1. /\ w.todo # <<>> /\ Head(w.todo).event = "promote" /\ Called(err)
        /\ DownP!Promote
    BY <1>3, SameActions DEF EmitPromote, Emits, err
  <2>2. Head(w.todo) \notin SSEEvent
    <3>1. Head(w.todo) \in Calls  BY <1>1, <2>1 DEF WriterState
    <3> QED  BY <2>1, <3>1, PromoteNames
  <2>3. hist' = hist  BY <1>1, <2>1, SessionAssumptions, DownP!PromoteAdds
  <2>4. c = Handed(b, w)  BY <2>2, <2>3 DEF Handed
  <2> HIDE DEF b, c
  <2>5. Carries(c, w', b, w)  BY <1>1, <2>1, <2>4, CalledCarries
  <2> QED  BY <2>5 DEF b, c
<1>4. CASE CallRefused
  <2> DEFINE yes == TRUE
  <2>1. w.todo # <<>> /\ Called(yes) /\ c = b
    BY <1>4 DEF CallRefused, Emits, SessionUnchanged
  <2>2. yes \in BOOLEAN /\ yes  OBVIOUS
  <2> HIDE DEF b, c, yes
  <2>3. Carries(c, w', b, w)  BY <1>1, <2>1, <2>2, CalledCarries
  <2> QED  BY <2>3 DEF b, c
<1>5. CASE EmitFlush
  <2> DEFINE q == IF err THEN <<>> ELSE w.todo
  <2>1. /\ w' = [w EXCEPT !.writeErr = err, !.todo = q]
        /\ DownP!Flush \/ SessionUnchanged
    BY <1>5, SameActions DEF EmitFlush, err
  <2>2. (err => q = <<>>) /\ (~err => q = w.todo)  OBVIOUS
  <2> HIDE DEF q
  <2>3. w'.todo = q /\ w'.writeErr = err /\ SameAccount(w', w)
    BY <1>1, <2>1 DEF WriterState, SameAccount
  <2>4. c = b
    <3>1. CASE DownP!Flush
      BY <1>1, <3>1, SessionAssumptions, DownP!SilentSteps DEF DownP!Silent
    <3>2. CASE SessionUnchanged  BY <3>2 DEF SessionUnchanged
    <3> QED  BY <2>1, <3>1, <3>2
  <2> HIDE DEF b, c
  <2>5. Carries(b, w', b, w)
    <3>1. CASE err  BY <1>1, <2>2, <2>3, <3>1, CutCarries
    <3>2. CASE ~err  BY <2>2, <2>3, <3>2, StillCarries
    <3> QED  BY <1>1, <3>1, <3>2
  <2> QED  BY <2>4, <2>5 DEF b, c
<1> QED  BY <1>2, <1>3, <1>4, <1>5 DEF Emitting

----------------------------------------------------------------------------
(* The blocks.                                                             *)

LEMMA CarriedTally ==
  ASSUME NEW b, NEW wr, NEW c, NEW t, Carries(c, t, b, wr), Tallies(b, wr)
  PROVE  t.writeErr \/ Tallies(c, t)
BY DEF Carries, Tallies, Thinks, Active, Seen

LEMMA CarriedTallyAt ==
  ASSUME TallyAt, Carries(hist'.offered, w', hist.offered, w),
         ~(req'.stream /\ Unended'), InEvent' => w'.writeErr \/ Tallies(hist'.offered, w')
  PROVE  TallyAt'
<1> DEFINE b == hist.offered
           c == hist'.offered
<1>1. /\ Thinks(b, w) /\ (Ends(b, w) /\ w.visibleFired => Seen(b, w))
      /\ (Promises(w.todo) => w.visibleFired)
  BY DEF TallyAt
<1>2. Carries(c, w', b, w)  OBVIOUS
<1> HIDE DEF b, c
<1>3. Thinks(c, w')  BY <1>1, <1>2 DEF Carries, Thinks
<1>4. Ends(c, w') /\ w'.visibleFired => Seen(c, w')  BY <1>1, <1>2 DEF Carries, Seen
<1>5. Promises(w'.todo) => w'.visibleFired  BY <1>1, <1>2 DEF Carries
<1> QED  BY <1>3, <1>4, <1>5 DEF TallyAt, b, c

LEMMA EmittingTallies ==
  ASSUME MInv, TallyAt, Emitting, s' \in DownP!Session
  PROVE  TallyAt'
<1>1. Carries(hist'.offered, w', hist.offered, w) /\ EmitMoves
  BY EmittingCarries, EmittingMoves
<1>2. req'.pc \in {"emit", "flush", "callbackEnd"}  BY <1>1 DEF EmitMoves
<1>3. ~Unended'  BY <1>2 DEF Unended
<1>4. InEvent' => InEvent  BY <1>1 DEF InEvent, EmitMoves
<1>5. w.writeErr => ~InEvent
  <2> SUFFICES ASSUME w.writeErr, InEvent PROVE FALSE  OBVIOUS
  <2>1. MessageAt /\ SpeaksAt  BY ScriptFacts
  <2>2. w.todo = <<>> /\ req.pc # "flush"
    BY <2>1 DEF SpeaksAt, Speaks, MessageAt, InEvent
  <2> QED
    BY <2>2, SameActions DEF Emitting, EmitWrite, EmitPromote, CallRefused, Emits, EmitFlush
<1>6. InEvent' => w'.writeErr \/ Tallies(hist'.offered, w')
  BY <1>1, <1>4, <1>5, CarriedTally DEF TallyAt
<1> QED  BY <1>1, <1>3, <1>6, CarriedTallyAt

LEMMA ErrorFrameTallies ==
  ASSUME MInv, TallyAt, ErrorFrame
  PROVE  TallyAt'
<1> DEFINE err == s'.firstErr
<1>1. /\ req \in Request /\ w \in WriterState /\ DownP!TypeOK  BY ScriptFacts
<1>2. /\ DownP!CallbackError /\ w' = [w EXCEPT !.writeErr = err]
      /\ req' = [req EXCEPT !.pc = IF s'.firstErr THEN "callbackEnd" ELSE "flush",
                            !.next = "callbackEnd"]
  BY SameActions DEF ErrorFrame
<1>3. req'.pc \in {"callbackEnd", "flush"} /\ req'.next = "callbackEnd"
  BY <1>1, <1>2 DEF Request
<1>4. hist'.offered = hist.offered  BY <1>1, <1>2, SessionAssumptions, DownP!CallbackErrorAdds
<1> HIDE DEF err
<1>5. SameAccount(w', w) /\ w'.todo = w.todo  BY <1>1, <1>2 DEF WriterState, SameAccount
<1>6. Carries(hist.offered, w', hist.offered, w)  BY <1>5, StillCarries
<1>7. ~Unended' /\ ~InEvent'  BY <1>3 DEF Unended, InEvent
<1> QED  BY <1>4, <1>6, <1>7, CarriedTallyAt

(* A method of the writer.                                                 *)
LEMMA WritingTallies ==
  ASSUME hist'.offered = hist.offered, Tallies(hist.offered, w'), req'.pc = "emit"
  PROVE  TallyAt'
<1>1. ~Unended'  BY DEF Unended
<1> QED  BY <1>1 DEF TallyAt, Tallies

LEMMA SpeaksWorks ==
  ASSUME MInv, req.stream, Unended
  PROVE  Works(w)
BY ScriptFacts, WriterStateIsWriter DEF SpeaksAt, Speaks, Works

LEMMA ReadsAnInput ==
  ASSUME ReadEvent
  PROVE  \E e \in Input :
           /\ w' \in Handled(w, e)
           /\ req' = [req EXCEPT !.pc = "emit", !.events = @ + 1,
                                 !.next = IF e.stop THEN "parsed" ELSE "parse",
                                 !.outcome = IF e.stop THEN "localStop" ELSE "none"]
BY UpstreamEventsAreInputs DEF ReadEvent

LEMMA MethodTallies ==
  ASSUME MInv, TallyAt, [Next]_vars,
         ReadEvent \/ (SearchSucceeds /\ req.stream) \/ FinishMessage \/ FinalErrorCallback
  PROVE  TallyAt'
<1> DEFINE b == hist.offered
<1>1. /\ req \in Request /\ StreamAt /\ DownP!TypeOK  BY ScriptFacts
<1>2. /\ req.pc \in {"parse", "call", "error"} \/ (req.pc = "parsed" /\ req.outcome = "eof")
      /\ req.stream
  BY <1>1
  DEF ReadEvent, Reads, SearchSucceeds, FinishMessage, Parsed, FinalErrorCallback, StreamAt
<1>3. Unended  BY <1>2 DEF Unended
<1>4. Works(w) /\ Tallies(b, w)  BY <1>2, <1>3, SpeaksWorks DEF TallyAt
<1>5. hist'.offered = b
  <2>1. CASE FinalErrorCallback
    <3>1. DownP!FinalErrorBegin  BY <2>1, SameActions DEF FinalErrorCallback
    <3> QED  BY <1>1, <3>1, SessionAssumptions, DownP!SilentSteps DEF DownP!Silent
  <2>2. CASE SessionUnchanged  BY <2>2 DEF SessionUnchanged
  <2> QED  BY <2>1, <2>2 DEF ReadEvent, SearchSucceeds, FinishMessage
<1> HIDE DEF b
<1>6. Tallies(b, w')
  <2>1. CASE ReadEvent
    <3>1. PICK e \in Input : w' \in Handled(w, e)  BY <2>1, ReadsAnInput
    <3> QED  BY <1>4, <3>1, HandledTallies
  <2>2. CASE SearchSucceeds
    <3>1. w' = FinishWebSearch(WriteText(WriteWebSearchResult(WriteServerToolUse(w))))
      BY <1>2, <2>2 DEF SearchSucceeds, Emit
    <3> QED  BY <1>4, <3>1, SearchTallies
  <2>3. CASE FinishMessage
    <3>1. PICK f \in Finals(w) : w' = Finish(w, f)  BY <2>3 DEF FinishMessage, Emit
    <3> QED  BY <1>4, <3>1, FinishTallies
  <2>4. CASE FinalErrorCallback
    <3>1. w' = CloseActiveBlock(w)  BY <2>4 DEF FinalErrorCallback, Emit
    <3> QED  BY <1>4, <3>1, CloseActiveBlockTallies
  <2> QED  BY <2>1, <2>2, <2>3, <2>4
<1>7. req'.pc = "emit"
  <2>1. CASE ReadEvent  BY <2>1, ReadEventTells
  <2>2. CASE \E next \in NextStates : Emit(w', next)  BY <1>1, <2>2, EmitFields
  <2>3. {"done", "finish", "callback"} \subseteq NextStates  BY DEF NextStates
  <2>4. ReadEvent \/ \E next \in {"done", "finish", "callback"} : Emit(w', next)
    BY <1>2 DEF SearchSucceeds, FinishMessage, FinalErrorCallback, Emit
  <2> QED  BY <2>1, <2>2, <2>3, <2>4
<1> QED  BY <1>5, <1>6, <1>7, WritingTallies DEF b

(* A writer with nothing to tell: a new one, and one without a stream.     *)
LEMMA BlankTallies ==
  ASSUME hist'.offered = <<>>, w'.todo = <<>>, ~InEvent',
         req'.stream /\ Unended' => Tallies(<<>>, w')
  PROVE  TallyAt'
<1> DEFINE e == <<>>
<1>1. e \in Seq(SSEEvent) /\ BlocksOf(e) = {} /\ ~Promises(e) /\ Len(e) = 0
  BY EmptyBlocks DEF Promises
<1>2. hist'.offered = e /\ w'.todo = e  OBVIOUS
<1>3. Story(e, w') = e  BY <1>1, EmptyStory
<1>4. req'.stream /\ Unended' => Tallies(e, w')  OBVIOUS
<1> HIDE DEF e
<1>5. Has(e, w') = {}  BY <1>1, <1>2 DEF Has
<1>6. ~Ends(e, w')
  <2>1. 1..Len(e) = {}  BY <1>1
  <2> QED  BY <1>3, <2>1 DEF Ends
<1>7. Thinks(e, w')  BY <1>5 DEF Thinks
<1> QED  BY <1>1, <1>2, <1>4, <1>6, <1>7 DEF TallyAt

(* A step that leaves the writer as it is.                                 *)
LEMMA StandingTallies ==
  ASSUME TallyAt, w' = w, hist'.offered = hist.offered, InEvent' => InEvent,
         req'.stream /\ Unended' => Tallies(hist.offered, w)
  PROVE  TallyAt'
BY DEF TallyAt

LEMMA AsideTallies ==
  ASSUME MInv, TallyAt,
         \/ CallFails \/ CallSucceeds \/ InstallHeaders \/ StartHeartbeat \/ Abandon
         \/ ReportError \/ AlreadyFinished \/ DeliverMessage \/ GiveUp \/ BufferedInvalidState
         \/ FinalErrorRefused \/ FinalErrorReturns
  PROVE  TallyAt'
<1>1. PICK pc \in {"fail", "headers", "parse", "start", "call", "done", "error", "finish",
                   "retry"} :
        /\ Goto(pc) /\ w' = w
        /\ pc \in {"headers", "parse", "start", "call", "error"} => Unended
        /\ \/ DownP!SetSSEHeaders \/ DownP!Start \/ DownP!FinalErrorEnd
           \/ DownP!Promote \/ SessionUnchanged
  BY SameActions
  DEF CallFails, CallSucceeds, InstallHeaders, StartHeartbeat, Abandon, ReportError, Parsed,
      AlreadyFinished, DeliverMessage, GiveUp, BufferedInvalidState, Buffered,
      FinalErrorRefused, FinalErrorReturns, Unended
<1>2. req \in Request /\ DownP!TypeOK  BY ScriptFacts
<1>3. pc \in PcStates  BY DEF PcStates
<1>4. req'.pc = pc /\ req'.stream = req.stream  BY <1>1, <1>2, <1>3, GotoFields DEF SameRequest
<1>5. hist'.offered = hist.offered
  <2>1. CASE SessionUnchanged  BY <2>1 DEF SessionUnchanged
  <2>2. CASE DownP!Promote  BY <1>2, <2>2, SessionAssumptions, DownP!PromoteAdds
  <2>3. CASE DownP!SetSSEHeaders \/ DownP!Start \/ DownP!FinalErrorEnd
    BY <1>2, <2>3, SessionAssumptions, DownP!SilentSteps DEF DownP!Silent
  <2> QED  BY <1>1, <2>1, <2>2, <2>3
<1>6. (Unended' => Unended) /\ ~InEvent'  BY <1>1, <1>4 DEF Unended, InEvent
<1> QED  BY <1>1, <1>4, <1>5, <1>6, StandingTallies DEF TallyAt

LEMMA ReadingEndsTallies ==
  ASSUME MInv, TallyAt, ReadError \/ ReadEOF \/ ReadBreaks
  PROVE  TallyAt'
<1>1. PICK o \in {"retryable", "fatal", "eof", "broken"} :
        After(o) /\ SessionUnchanged /\ w' = w /\ req.pc = "parse"
  BY DEF ReadError, ReadEOF, ReadBreaks, Reads
<1>2. req \in Request  BY ScriptFacts
<1>3. req'.pc = "parsed" /\ req'.stream = req.stream
  BY <1>1, <1>2, AfterFields DEF SameRequest
<1>4. hist'.offered = hist.offered  BY <1>1 DEF SessionUnchanged
<1>5. Unended /\ ~InEvent'  BY <1>1, <1>3 DEF Unended, InEvent
<1> QED  BY <1>1, <1>3, <1>4, <1>5, StandingTallies DEF TallyAt

LEMMA EmitDoneTallies ==
  ASSUME MInv, TallyAt, EmitDone
  PROVE  TallyAt'
<1> DEFINE pc == IF Failed THEN "done" ELSE req.next
<1>1. Goto(pc) /\ SessionUnchanged /\ w' = w /\ req.pc = "emit" /\ w.todo = <<>>
  BY DEF EmitDone
<1>2. req \in Request /\ StopsLocally /\ CallAt  BY ScriptFacts DEF MInv, Inv, Place
<1>3. pc \in NextStates /\ pc \in PcStates /\ (pc = "done" \/ pc = req.next)
  BY <1>2 DEF Request, NextStates, PcStates
<1>4. pc = "parse" => ~w.writeErr  BY DEF Failed
<1> HIDE DEF pc
<1>5. req'.pc = pc /\ req'.outcome = req.outcome  BY <1>1, <1>2, <1>3, GotoFields
<1>6. hist'.offered = hist.offered  BY <1>1 DEF SessionUnchanged
<1>7. ~InEvent'  BY <1>3, <1>5 DEF InEvent, NextStates
<1>8. Unended' => pc = "parse" /\ InEvent
  BY <1>1, <1>2, <1>3, <1>5 DEF Unended, InEvent, StopsLocally, NextStates
<1> QED  BY <1>1, <1>4, <1>6, <1>7, <1>8, StandingTallies DEF TallyAt

LEMMA AnsweringTallies ==
  ASSUME MInv, TallyAt, BufferedError \/ BodyError \/ (SearchSucceeds /\ ~req.stream)
  PROVE  TallyAt'
<1>1. PICK kind \in {"message", "error"} : Answer(kind) /\ SessionUnchanged /\ w' = w
  BY DEF BufferedError, BodyError, SearchSucceeds
<1>2. req \in Request  BY ScriptFacts
<1>3. req'.pc = "done"  BY <1>1, <1>2, AnswerFields
<1>4. hist'.offered = hist.offered  BY <1>1 DEF SessionUnchanged
<1>5. ~Unended' /\ ~InEvent'  BY <1>3 DEF Unended, InEvent
<1> QED  BY <1>1, <1>4, <1>5, StandingTallies

LEMMA OthersTally ==
  ASSUME MInv, TallyAt, Stop \/ Environment \/ UNCHANGED vars
  PROVE  TallyAt'
<1>1. w' = w /\ req' = req
      /\ (DownP!StopCall \/ DownP!Heartbeat \/ DownP!ClientGone \/ UNCHANGED DownP!sessionVars)
  BY SameActions
  DEF Stop, Environment, vars, Down!Heartbeat, DownP!Heartbeat, DownP!sessionVars
<1>2. hist'.offered = hist.offered
  BY <1>1, ScriptFacts, SessionAssumptions, DownP!SilentSteps DEF DownP!Silent
<1>3. (Unended' => Unended) /\ (InEvent' => InEvent)  BY <1>1 DEF Unended, InEvent
<1> QED  BY <1>1, <1>2, <1>3, StandingTallies DEF TallyAt

(* An attempt dropped or replaced by an error.                             *)
LEMMA DroppingTallies ==
  ASSUME MInv, TallyAt, RetryInvalidState \/ RetryEmpty \/ FinalError
  PROVE  TallyAt'
<1>1. /\ req \in Request /\ DownP!TypeOK /\ StreamAt /\ MessageAt  BY ScriptFacts
<1>2. PICK pc \in {"retry", "done"} :
        /\ Goto(pc) /\ w' = w /\ req.pc \in {"parsed", "finish", "fail", "error"}
        /\ DownP!Discard \/ DownP!WriteFinalError
  BY SameActions DEF RetryInvalidState, RetryEmpty, Parsed, FinalError
<1>3. ~s.promoted
  BY <1>1
  DEF RetryInvalidState, MayRetry, RetryEmpty, EmptyVisibleEndTurn, FinalError, StreamAt,
      Invisible
<1>4. hist'.offered = <<>>
  BY <1>1, <1>2, <1>3, SessionAssumptions, DownP!DiscardDrops, DownP!FinalErrorDrops
<1>5. w'.todo = <<>>  BY <1>1, <1>2 DEF MessageAt, Resting
<1>6. req'.pc = pc
  <2>1. pc \in PcStates  BY DEF PcStates
  <2> QED  BY <1>1, <1>2, <2>1, GotoFields
<1>7. ~Unended' /\ ~InEvent'  BY <1>6 DEF Unended, InEvent
<1> QED  BY <1>4, <1>5, <1>7, BlankTallies

LEMMA RetryTallies ==
  ASSUME MInv, Retry
  PROVE  TallyAt' /\ ~w'.thinking /\ ~w'.visibleFired
<1> DEFINE e == <<>>
<1>1. /\ w' = NextWriter /\ req.pc = "retry" /\ SessionUnchanged
      /\ req' = [NewRequest(req.stream, FALSE) EXCEPT !.events = req.events]
  BY DEF Retry
<1>2. req'.pc = "call"  BY <1>1 DEF NewRequest
<1>3. hist'.offered = e  BY <1>1, ScriptFacts DEF StreamAt, SessionUnchanged
<1>4. Tallies(e, w') /\ ~w'.thinking
  <2>1. LastAttempt \in Attempts  BY AttemptsOfTheCode DEF LastAttempt, FirstAttempt
  <2>2. e = <<>> /\ w' = NewSSEWriter(LastAttempt)  BY <1>1 DEF NextWriter
  <2> HIDE DEF e
  <2> QED  BY <2>1, <2>2, NewWriterTallies
<1>5. w'.todo = e /\ ~w'.visibleFired  BY <1>1 DEF NextWriter, NewSSEWriter
<1>6. ~InEvent'  BY <1>2 DEF InEvent
<1> QED  BY <1>3, <1>4, <1>5, <1>6, BlankTallies

LEMMA BufferingTallies ==
  ASSUME MInv, BufferEvent \/ BuildResponse
  PROVE  TallyAt'
<1>1. /\ ~req.stream /\ SessionUnchanged /\ req.pc \in {"parse", "parsed"}
  BY DEF BufferEvent, Reads, BuildResponse, Buffered
<1>2. /\ req \in Request /\ w \in WriterState /\ w.todo = <<>> /\ hist.offered = <<>>
  BY <1>1, ScriptFacts DEF MessageAt, Resting, StreamAt
<1>3. w'.todo = <<>>
  <2>1. CASE BufferEvent
    <3>1. PICK e \in Input : w' = Accumulated(w, e)
      BY <2>1, UpstreamEventsAreInputs DEF BufferEvent
    <3> QED  BY <1>2, <3>1, AccumulatedWritesNothing
  <2>2. CASE BuildResponse
    BY <1>2, <2>2 DEF BuildResponse, Finalized, Recorded, WriterState
  <2> QED  BY <2>1, <2>2
<1>4. ~req'.stream /\ req'.pc \in {"parse", "retry", "done"}
  <2>1. CASE BufferEvent  BY <1>1, <1>2, <2>1 DEF BufferEvent, Reads, Request
  <2>2. CASE BuildResponse
    <3>1. "retry" \in PcStates  BY DEF PcStates
    <3>2. Goto("retry") \/ Answer("message")  BY <2>2 DEF BuildResponse
    <3> QED  BY <1>1, <1>2, <3>1, <3>2, GotoFields, AnswerFields DEF SameRequest
  <2> QED  BY <2>1, <2>2
<1>5. ~InEvent'  BY <1>4 DEF InEvent
<1>6. hist'.offered = <<>>  BY <1>1, <1>2 DEF SessionUnchanged
<1> QED  BY <1>3, <1>4, <1>5, <1>6, BlankTallies

LEMMA NextTally ==
  ASSUME MInv, TallyAt, [Next]_vars, s' \in DownP!Session
  PROVE  TallyAt'
<1>1. CASE \/ CallFails \/ CallSucceeds \/ InstallHeaders \/ StartHeartbeat \/ Abandon
           \/ ReportError \/ AlreadyFinished \/ DeliverMessage \/ GiveUp
           \/ BufferedInvalidState \/ FinalErrorRefused \/ FinalErrorReturns
  BY <1>1, AsideTallies
<1>2. CASE SearchSucceeds
  <2>1. CASE req.stream  BY <1>2, <2>1, MethodTallies
  <2>2. CASE ~req.stream  BY <1>2, <2>2, AnsweringTallies
  <2> QED  BY <2>1, <2>2
<1>3. CASE ReadEvent \/ FinishMessage \/ FinalErrorCallback  BY <1>3, MethodTallies
<1>4. CASE BufferEvent \/ BuildResponse  BY <1>4, BufferingTallies
<1>5. CASE ReadError \/ ReadEOF \/ ReadBreaks  BY <1>5, ReadingEndsTallies
<1>6. CASE EmitWrite \/ EmitPromote \/ EmitFlush \/ CallRefused
  BY <1>6, EmittingTallies DEF Emitting
<1>7. CASE EmitDone  BY <1>7, EmitDoneTallies
<1>8. CASE RetryInvalidState \/ RetryEmpty \/ FinalError  BY <1>8, DroppingTallies
<1>9. CASE Retry  BY <1>9, RetryTallies
<1>10. CASE BufferedError \/ BodyError  BY <1>10, AnsweringTallies
<1>11. CASE ErrorFrame  BY <1>11, ErrorFrameTallies
<1>12. CASE Stop \/ Environment \/ UNCHANGED vars  BY <1>12, OthersTally
<1> QED
  BY <1>1, <1>2, <1>3, <1>4, <1>5, <1>6, <1>7, <1>8, <1>9, <1>10, <1>11, <1>12
  DEF Next, RequestGoroutine, Attempt, Conclusion

----------------------------------------------------------------------------
(* What a promotion stands for.                                            *)

LEMMA StandingPromoted ==
  ASSUME PromotedAt, w' = w, s'.promoted = s.promoted, req.pc # "done" \/ req' = req
  PROVE  PromotedAt'
BY DEF PromotedAt

LEMMA AsidePromoted ==
  ASSUME MInv, PromotedAt,
         \/ CallFails \/ CallSucceeds \/ InstallHeaders \/ StartHeartbeat \/ Abandon
         \/ ReportError \/ AlreadyFinished \/ GiveUp \/ BufferedInvalidState
         \/ FinalErrorRefused \/ FinalErrorReturns \/ ReadError \/ ReadEOF \/ ReadBreaks
         \/ EmitDone \/ BufferedError \/ BodyError \/ Stop \/ Environment \/ UNCHANGED vars
  PROVE  PromotedAt'
<1>1. /\ w' = w /\ (req.pc # "done" \/ req' = req)
      /\ \/ DownP!SetSSEHeaders \/ DownP!Start \/ DownP!FinalErrorEnd
         \/ DownP!StopCall \/ DownP!Heartbeat \/ DownP!ClientGone
         \/ SessionUnchanged
  <2>1. CASE Stop \/ Environment \/ UNCHANGED vars
    BY <2>1, SameActions
    DEF Stop, Environment, vars, Down!Heartbeat, DownP!Heartbeat, SessionUnchanged
  <2>2. CASE \/ CallFails \/ CallSucceeds \/ InstallHeaders \/ StartHeartbeat \/ Abandon
             \/ ReportError \/ AlreadyFinished \/ GiveUp \/ BufferedInvalidState
             \/ FinalErrorRefused \/ FinalErrorReturns
    BY <2>2, SameActions
    DEF CallFails, CallSucceeds, InstallHeaders, StartHeartbeat, Abandon, ReportError, Parsed,
        AlreadyFinished, GiveUp, BufferedInvalidState, Buffered, FinalErrorRefused,
        FinalErrorReturns
  <2>3. CASE ReadError \/ ReadEOF \/ ReadBreaks \/ EmitDone \/ BufferedError \/ BodyError
    BY <2>3
    DEF ReadError, ReadEOF, ReadBreaks, Reads, EmitDone, BufferedError, Buffered, BodyError
  <2> QED  BY <2>1, <2>2, <2>3
<1>2. s'.promoted = s.promoted
  <2>1. CASE SessionUnchanged  BY <2>1 DEF SessionUnchanged
  <2>2. CASE ~SessionUnchanged
    BY <1>1, <2>2, ScriptFacts, SessionAssumptions, DownP!SilentSteps DEF DownP!Silent
  <2> QED  BY <2>1, <2>2
<1> QED  BY <1>1, <1>2, StandingPromoted

(* Without a stream, and in an attempt that is dropped, nothing is         *)
(* promoted.                                                               *)
LEMMA UnpromotedSteps ==
  ASSUME MInv,
         \/ BufferEvent \/ BuildResponse \/ (SearchSucceeds /\ ~req.stream) \/ Retry
         \/ RetryInvalidState \/ RetryEmpty \/ FinalError
  PROVE  PromotedAt'
<1>1. DownP!TypeOK /\ StreamAt  BY ScriptFacts
<1>2. ~s.promoted
  BY <1>1
  DEF StreamAt, Invisible, BufferEvent, BuildResponse, Buffered, Retry, RetryInvalidState,
      MayRetry, RetryEmpty, EmptyVisibleEndTurn, FinalError
<1>3. SessionUnchanged \/ DownP!Discard \/ DownP!WriteFinalError
  BY SameActions
  DEF BufferEvent, BuildResponse, SearchSucceeds, Retry, RetryInvalidState, RetryEmpty,
      FinalError
<1>4. ~s'.promoted
  <2>1. CASE SessionUnchanged  BY <1>2, <2>1 DEF SessionUnchanged
  <2>2. CASE DownP!Discard  BY <1>1, <1>2, <2>2, SessionAssumptions, DownP!DiscardDrops
  <2>3. CASE DownP!WriteFinalError
    BY <1>1, <1>2, <2>3, SessionAssumptions, DownP!FinalErrorDrops
  <2> QED  BY <1>3, <2>1, <2>2, <2>3
<1> QED  BY <1>4 DEF PromotedAt

LEMMA FiredPromoted ==
  ASSUME PromotedAt, s'.promoted = s.promoted, req.pc # "done",
         w.visibleFired => w'.visibleFired
  PROVE  PromotedAt'
BY DEF PromotedAt

LEMMA MethodPromoted ==
  ASSUME MInv, ShowAt, PromotedAt,
         ReadEvent \/ (SearchSucceeds /\ req.stream) \/ FinishMessage \/ FinalErrorCallback
  PROVE  PromotedAt'
<1>1. w \in Writer /\ DownP!TypeOK /\ StreamAt  BY ScriptFacts, WriterStateIsWriter
<1>2. req.stream /\ req.pc # "done"
  BY <1>1
  DEF ReadEvent, Reads, SearchSucceeds, FinishMessage, Parsed, FinalErrorCallback, StreamAt
<1>3. Shown(w)  BY <1>2 DEF ShowAt
<1>4. s'.promoted = s.promoted
  <2>1. CASE FinalErrorCallback
    <3>1. DownP!FinalErrorBegin  BY <2>1, SameActions DEF FinalErrorCallback
    <3> QED  BY <1>1, <3>1, SessionAssumptions, DownP!SilentSteps DEF DownP!Silent
  <2>2. CASE SessionUnchanged  BY <2>2 DEF SessionUnchanged
  <2> QED  BY <2>1, <2>2 DEF ReadEvent, SearchSucceeds, FinishMessage
<1>5. Fires(w', w)
  <2>1. CASE ReadEvent
    <3>1. PICK e \in Input : w' \in Handled(w, e)  BY <2>1, ReadsAnInput
    <3>2. Shows(w', w)  BY <1>1, <1>3, <3>1, HandledShows
    <3> QED  BY <3>2 DEF Shows
  <2>2. CASE SearchSucceeds
    <3>1. w' = FinishWebSearch(WriteText(WriteWebSearchResult(WriteServerToolUse(w))))
      BY <1>2, <2>2 DEF SearchSucceeds, Emit
    <3>2. Shows(w', w)  BY <1>1, <1>3, <3>1, SearchShows
    <3> QED  BY <3>2 DEF Shows
  <2>3. CASE FinishMessage
    <3>1. PICK f \in Finals(w) : w' = Finish(w, f)  BY <2>3 DEF FinishMessage, Emit
    <3>2. Shows(w', w)  BY <1>1, <1>3, <3>1, FinishShows
    <3> QED  BY <3>2 DEF Shows
  <2>4. CASE FinalErrorCallback
    <3>1. w' = CloseActiveBlock(w)  BY <2>4 DEF FinalErrorCallback, Emit
    <3>2. Onward(w', w)  BY <1>1, <3>1, CloseActiveBlockOnward
    <3> QED  BY <3>2 DEF Onward
  <2> QED  BY <2>1, <2>2, <2>3, <2>4
<1> QED  BY <1>2, <1>4, <1>5, FiredPromoted DEF Fires

LEMMA EmittingPromoted ==
  ASSUME MInv, TallyAt, PromotedAt, Emitting, s' \in DownP!Session
  PROVE  PromotedAt'
<1>1. w'.visibleFired = w.visibleFired /\ req.pc # "done"
  BY EmittingCarries, EmittingMoves DEF Carries, EmitMoves
<1>2. w \in WriterState /\ DownP!TypeOK  BY ScriptFacts
<1>3. CASE EmitPromote
  <2>1. w.todo # <<>> /\ Head(w.todo).event = "promote"
    BY <1>3 DEF EmitPromote, Emits
  <2>2. Promises(w.todo)
    <3>1. w.todo \in Seq(Calls)  BY <1>2 DEF WriterState
    <3>2. 1 \in 1..Len(w.todo) /\ Head(w.todo) = w.todo[1]  BY <2>1, <3>1
    <3> QED  BY <2>1, <3>2 DEF Promises
  <2> QED  BY <1>1, <2>2 DEF TallyAt, PromotedAt
<1>4. CASE EmitWrite
  <2>1. w.todo # <<>> /\ Head(w.todo).event # "promote" /\ DownP!Write(Head(w.todo))
    BY <1>4, SameActions DEF EmitWrite, Emits
  <2>2. Head(w.todo) \in SSEEvent
    <3>1. Head(w.todo) \in Calls  BY <1>2, <2>1 DEF WriterState
    <3> QED  BY <2>1, <3>1, PromoteNames
  <2>3. s'.promoted = s.promoted
    BY <1>2, <2>1, <2>2, SessionAssumptions, DownP!WriteAdds
  <2> QED  BY <1>1, <2>3, FiredPromoted
<1>5. CASE EmitFlush
  <2>1. DownP!Flush \/ SessionUnchanged  BY <1>5, SameActions DEF EmitFlush
  <2>2. s'.promoted = s.promoted
    <3>1. CASE DownP!Flush
      BY <1>2, <3>1, SessionAssumptions, DownP!SilentSteps DEF DownP!Silent
    <3>2. CASE SessionUnchanged  BY <3>2 DEF SessionUnchanged
    <3> QED  BY <2>1, <3>1, <3>2
  <2> QED  BY <1>1, <2>2, FiredPromoted
<1>6. CASE CallRefused
  <2>1. s' = s  BY <1>6 DEF CallRefused, SessionUnchanged
  <2> QED  BY <1>1, <2>1, FiredPromoted
<1> QED  BY <1>3, <1>4, <1>5, <1>6 DEF Emitting

LEMMA ErrorFramePromoted ==
  ASSUME MInv, PromotedAt, ErrorFrame
  PROVE  PromotedAt'
<1> DEFINE err == s'.firstErr
<1>1. w \in WriterState /\ DownP!TypeOK  BY ScriptFacts
<1>2. req.pc = "callback" /\ DownP!CallbackError /\ w' = [w EXCEPT !.writeErr = err]
  BY SameActions DEF ErrorFrame
<1>3. s'.promoted = s.promoted  BY <1>1, <1>2, SessionAssumptions, DownP!CallbackErrorAdds
<1> HIDE DEF err
<1>4. w'.visibleFired = w.visibleFired  BY <1>1, <1>2 DEF WriterState
<1> QED  BY <1>2, <1>3, <1>4, FiredPromoted

LEMMA DeliverPromoted ==
  ASSUME MInv, LocalAt, PromotedAt, DeliverMessage
  PROVE  PromotedAt'
<1>1. req \in Request /\ DownP!TypeOK  BY ScriptFacts
<1>2. /\ Goto("done") /\ w' = w /\ req.pc = "finish" /\ ~EmptyVisibleEndTurn
      /\ DownP!Promote \/ SessionUnchanged
  BY SameActions DEF DeliverMessage
<1>3. req'.pc = "done"
  <2>1. "done" \in PcStates  BY DEF PcStates
  <2> QED  BY <1>1, <1>2, <2>1, GotoFields
<1>4. s.promoted => w.visibleFired  BY <1>2 DEF PromotedAt
<1>5. ~s.promoted => ~IsEmptyVisibleEndTurn(w)
  BY <1>2 DEF EmptyVisibleEndTurn, LocalAt, IsEmptyVisibleEndTurn
<1> QED  BY <1>2, <1>3, <1>4, <1>5 DEF PromotedAt

LEMMA NextPromotion ==
  ASSUME MInv, ShowAt, TInv, [Next]_vars, s' \in DownP!Session
  PROVE  PromotedAt'
<1>1. CASE \/ CallFails \/ CallSucceeds \/ InstallHeaders \/ StartHeartbeat \/ Abandon
           \/ ReportError \/ AlreadyFinished \/ GiveUp \/ BufferedInvalidState
           \/ FinalErrorRefused \/ FinalErrorReturns \/ ReadError \/ ReadEOF \/ ReadBreaks
           \/ EmitDone \/ BufferedError \/ BodyError \/ Stop \/ Environment \/ UNCHANGED vars
  BY <1>1, AsidePromoted DEF TInv
<1>2. CASE \/ BufferEvent \/ BuildResponse \/ (SearchSucceeds /\ ~req.stream) \/ Retry
           \/ RetryInvalidState \/ RetryEmpty \/ FinalError
  BY <1>2, UnpromotedSteps
<1>3. CASE \/ ReadEvent \/ (SearchSucceeds /\ req.stream) \/ FinishMessage
           \/ FinalErrorCallback
  BY <1>3, MethodPromoted DEF TInv
<1>4. CASE EmitWrite \/ EmitPromote \/ EmitFlush \/ CallRefused
  BY <1>4, EmittingPromoted DEF Emitting, TInv
<1>5. CASE ErrorFrame  BY <1>5, ErrorFramePromoted DEF TInv
<1>6. CASE DeliverMessage  BY <1>6, DeliverPromoted DEF TInv
<1> QED
  BY <1>1, <1>2, <1>3, <1>4, <1>5, <1>6 DEF Next, RequestGoroutine, Attempt, Conclusion

----------------------------------------------------------------------------
(* Where the request stands.                                               *)

(* A step to another position that leaves the writer as it is.             *)
Positions ==
  \/ CallFails \/ CallSucceeds \/ InstallHeaders \/ StartHeartbeat \/ EmitDone \/ Abandon
  \/ RetryInvalidState \/ ReportError \/ AlreadyFinished \/ RetryEmpty \/ DeliverMessage
  \/ GiveUp \/ BufferedInvalidState \/ FinalError \/ FinalErrorRefused \/ FinalErrorReturns

LEMMA PositionMoves ==
  ASSUME MInv, Positions
  PROVE  /\ w' = w /\ req.pc # "done" /\ req'.pc \notin {"emit", "flush"}
         /\ req'.outcome = req.outcome /\ req'.next = req.next /\ req'.body = req.body
         /\ req'.stream = req.stream
         /\ req'.pc \in {"call", "headers", "start"} => Early
         /\ req'.pc = "parsed" => EmitDone /\ req.pc = "emit" /\ req.next = "parsed"
         /\ req'.pc = "finish" =>
              \/ EmitDone /\ req.pc = "emit" /\ req.next = "finish"
              \/ req.pc = "parsed" /\ req.outcome = "localStop" /\ req.stream
<1>1. req \in Request /\ CallAt /\ (req.pc = "emit" => req.next \in NextStates)
  BY ScriptFacts DEF Request, NextStates
<1>2. PICK pc \in PcStates :
        /\ Goto(pc) /\ w' = w /\ req.pc # "done" /\ pc \notin {"emit", "flush"}
        /\ pc \in {"call", "headers", "start"} => Early
        /\ pc = "parsed" => EmitDone /\ req.pc = "emit" /\ req.next = "parsed"
        /\ pc = "finish" =>
              \/ EmitDone /\ req.pc = "emit" /\ req.next = "finish"
              \/ req.pc = "parsed" /\ req.outcome = "localStop" /\ req.stream
  <2>1. CASE EmitDone
    <3>1. req.pc = "emit" /\ w' = w /\ (Goto("done") \/ Goto(req.next)) /\ req.next \in NextStates
      BY <1>1, <2>1 DEF EmitDone
    <3>2. NextStates \subseteq PcStates \ {"call", "headers", "start", "emit", "flush"}
          /\ "done" \in PcStates
      BY DEF NextStates, PcStates
    <3> QED  BY <2>1, <3>1, <3>2
  <2>2. CASE \/ CallFails \/ CallSucceeds \/ InstallHeaders \/ StartHeartbeat \/ Abandon
             \/ RetryInvalidState \/ ReportError \/ AlreadyFinished
    BY <2>2
    DEF CallFails, CallSucceeds, InstallHeaders, StartHeartbeat, Abandon, RetryInvalidState,
        ReportError, AlreadyFinished, Parsed, PcStates, Early
  <2>3. CASE \/ RetryEmpty \/ DeliverMessage \/ GiveUp \/ BufferedInvalidState \/ FinalError
             \/ FinalErrorRefused \/ FinalErrorReturns
    BY <2>3
    DEF RetryEmpty, DeliverMessage, GiveUp, BufferedInvalidState, Buffered, FinalError,
        FinalErrorRefused, FinalErrorReturns, PcStates
  <2> QED  BY <2>1, <2>2, <2>3 DEF Positions
<1>3. /\ req'.pc = pc /\ req'.outcome = req.outcome /\ req'.next = req.next
      /\ req'.body = req.body /\ req'.stream = req.stream
  BY <1>1, <1>2, GotoFields DEF SameRequest
<1> QED  BY <1>2, <1>3

(* The writer's methods, as steps of the request.                          *)
LEMMA MethodMoves ==
  ASSUME MInv, ReadEvent \/ (SearchSucceeds /\ req.stream) \/ FinishMessage \/ FinalErrorCallback
  PROVE  /\ req.pc # "done" /\ req'.pc = "emit" /\ req'.body = req.body
         /\ req'.next = "parsed" => ReadEvent
         /\ req'.next = "finish" => req'.outcome = "eof"
<1>1. req \in Request  BY ScriptFacts
<1>2. CASE ReadEvent
  <2>1. req.pc = "parse"  BY <1>2 DEF ReadEvent, Reads
  <2>2. PICK next \in {"parsed", "parse"}, outcome \in {"localStop", "none"} :
          req' = [req EXCEPT !.pc = "emit", !.events = @ + 1, !.next = next,
                             !.outcome = outcome]
    BY <1>2, ReadsAnInput
  <2> QED  BY <1>1, <1>2, <2>1, <2>2 DEF Request
<1>3. CASE (SearchSucceeds /\ req.stream) \/ FinishMessage \/ FinalErrorCallback
  <2>1. PICK next \in {"done", "finish", "callback"} :
          /\ Emit(w', next) /\ req.pc # "done" /\ (next = "finish" => req.outcome = "eof")
    BY <1>3 DEF SearchSucceeds, FinishMessage, Parsed, FinalErrorCallback, Emit
  <2>2. next \in NextStates  BY DEF NextStates
  <2>3. req'.pc = "emit" /\ req'.next = next /\ req'.outcome = req.outcome /\ req'.body = req.body
    BY <1>1, <2>1, <2>2, EmitFields
  <2> QED  BY <2>1, <2>3
<1> QED  BY <1>2, <1>3

LEMMA ReadingMoves ==
  ASSUME MInv, ReadError \/ ReadEOF \/ ReadBreaks
  PROVE  /\ req.pc = "parse" /\ req'.pc = "parsed" /\ req'.outcome # "localStop"
         /\ req'.body = req.body
<1>1. PICK o \in {"retryable", "fatal", "eof", "broken"} : After(o) /\ req.pc = "parse"
  BY DEF ReadError, ReadEOF, ReadBreaks, Reads
<1> QED  BY <1>1, ScriptFacts, AfterFields

LEMMA ErrorFrameMoves ==
  ASSUME MInv, ErrorFrame
  PROVE  /\ req.pc = "callback" /\ req'.pc \in {"callbackEnd", "flush"}
         /\ req'.next = "callbackEnd" /\ req'.body = req.body
BY ScriptFacts DEF ErrorFrame, Request

LEMMA BufferEventMoves ==
  ASSUME MInv, BufferEvent
  PROVE  req.pc = "parse" /\ req'.pc = "parse" /\ req'.body = req.body
BY ScriptFacts DEF BufferEvent, Reads, Request

LEMMA RetryMoves ==
  ASSUME MInv, Retry
  PROVE  req.pc = "retry" /\ req'.pc = "call" /\ req'.body = <<>>
BY DEF Retry, NewRequest

LEMMA BodyMoves ==
  ASSUME MInv,
         \/ BufferedError \/ BodyError \/ BuildResponse \/ (SearchSucceeds /\ ~req.stream)
  PROVE  /\ req.pc # "done" /\ ~req.stream /\ ~req'.stream
         /\ \/ req'.pc = "retry" /\ req'.body = req.body
            \/ /\ req'.pc = "done"
               /\ \/ req'.body = Append(req.body, "error")
                  \/ /\ req'.body = Append(req.body, "message")
                     /\ \/ w' = w /\ req.pc = "call"
                        \/ ~IsEmptyVisibleEndTurn(w')
<1>1. req \in Request  BY ScriptFacts
<1>2. /\ req.pc # "done" /\ ~req.stream
      /\ \/ Goto("retry")
         \/ Answer("error")
         \/ Answer("message") /\ ((w' = w /\ req.pc = "call") \/ ~IsEmptyVisibleEndTurn(w'))
  BY DEF BufferedError, BodyError, BuildResponse, Buffered, SearchSucceeds
<1>3. ASSUME NEW kind \in {"message", "error"}, Answer(kind)
      PROVE  req'.pc = "done" /\ ~req'.stream /\ req'.body = Append(req.body, kind)
  <2> DEFINE b == Append(req.body, kind)
  <2>1. req' = [req EXCEPT !.pc = "done", !.body = b]  BY <1>3 DEF Answer
  <2> HIDE DEF b
  <2>2. req'.body = b /\ req'.pc = "done" /\ req'.stream = req.stream
    BY <1>1, <2>1 DEF Request
  <2> QED  BY <1>2, <2>2 DEF b
<1>4. CASE Goto("retry")
  <2>1. "retry" \in PcStates  BY DEF PcStates
  <2> QED  BY <1>1, <1>2, <1>4, <2>1, GotoFields DEF SameRequest
<1> QED  BY <1>2, <1>3, <1>4

LEMMA OtherMoves ==
  ASSUME Stop \/ Environment \/ UNCHANGED vars
  PROVE  w' = w /\ req' = req
BY DEF Stop, Environment, vars

LEMMA NextLocal ==
  ASSUME MInv, TallyAt, LocalAt, [Next]_vars, s' \in DownP!Session
  PROVE  LocalAt'
<1>1. CASE Positions
  BY <1>1, PositionMoves DEF LocalAt
<1>2. CASE ReadEvent \/ (SearchSucceeds /\ req.stream) \/ FinishMessage \/ FinalErrorCallback
  <2>1. /\ req'.pc = "emit" /\ (req'.next = "parsed" => ReadEvent)
        /\ req'.next = "finish" => req'.outcome = "eof"
    BY <1>2, MethodMoves
  <2>2. ASSUME ReadEvent, req'.next = "parsed"
        PROVE  w'.localStop
    <3>1. req.stream /\ Unended /\ req \in Request
      BY <2>2, ScriptFacts DEF ReadEvent, Reads, Unended
    <3>2. Works(w) /\ Tallies(hist.offered, w)  BY <3>1, SpeaksWorks DEF TallyAt
    <3>3. PICK e \in Input :
            /\ w' \in Handled(w, e)
            /\ req' = [req EXCEPT !.pc = "emit", !.events = @ + 1,
                                  !.next = IF e.stop THEN "parsed" ELSE "parse",
                                  !.outcome = IF e.stop THEN "localStop" ELSE "none"]
      BY <2>2, ReadsAnInput
    <3>4. e.stop
      <4>1. req'.next = IF e.stop THEN "parsed" ELSE "parse"  BY <3>1, <3>3 DEF Request
      <4> QED  BY <2>2, <4>1
    <3> QED  BY <3>2, <3>3, <3>4, HandledTallies
  <2> QED  BY <2>1, <2>2 DEF LocalAt
<1>3. CASE EmitWrite \/ EmitPromote \/ EmitFlush \/ CallRefused
  <2>1. w'.localStop = w.localStop /\ EmitMoves
    BY <1>3, EmittingCarries, EmittingMoves DEF Carries, Emitting
  <2> QED  BY <2>1 DEF LocalAt, EmitMoves
<1>4. CASE ReadError \/ ReadEOF \/ ReadBreaks  BY <1>4, ReadingMoves DEF LocalAt
<1>5. CASE ErrorFrame  BY <1>5, ErrorFrameMoves DEF LocalAt
<1>6. CASE BufferEvent  BY <1>6, BufferEventMoves DEF LocalAt
<1>7. CASE Retry  BY <1>7, RetryMoves DEF LocalAt
<1>8. CASE \/ BufferedError \/ BodyError \/ BuildResponse \/ (SearchSucceeds /\ ~req.stream)
  BY <1>8, BodyMoves DEF LocalAt
<1>9. CASE Stop \/ Environment \/ UNCHANGED vars  BY <1>9, OtherMoves DEF LocalAt
<1> QED
  BY <1>1, <1>2, <1>3, <1>4, <1>5, <1>6, <1>7, <1>8, <1>9
  DEF Next, RequestGoroutine, Attempt, Conclusion, Positions

LEMMA NextEarly ==
  ASSUME MInv, EarlyAt, [Next]_vars
  PROVE  EarlyAt'
<1>1. CASE Positions
  <2>1. w' = w /\ (Early' => Early)  BY <1>1, PositionMoves DEF Early
  <2> QED  BY <2>1 DEF EarlyAt
<1>2. CASE ReadEvent \/ (SearchSucceeds /\ req.stream) \/ FinishMessage \/ FinalErrorCallback
  BY <1>2, MethodMoves DEF EarlyAt, Early
<1>3. CASE EmitWrite \/ EmitPromote \/ EmitFlush \/ CallRefused
  <2>1. EmitMoves  BY <1>3, EmittingMoves DEF Emitting
  <2> QED  BY <2>1 DEF EarlyAt, Early, EmitMoves
<1>4. CASE ReadError \/ ReadEOF \/ ReadBreaks  BY <1>4, ReadingMoves DEF EarlyAt, Early
<1>5. CASE ErrorFrame  BY <1>5, ErrorFrameMoves DEF EarlyAt, Early
<1>6. CASE BufferEvent  BY <1>6, BufferEventMoves DEF EarlyAt, Early
<1>7. CASE Retry  BY <1>7, RetryTallies DEF EarlyAt
<1>8. CASE \/ BufferedError \/ BodyError \/ BuildResponse \/ (SearchSucceeds /\ ~req.stream)
  BY <1>8, BodyMoves DEF EarlyAt, Early
<1>9. CASE Stop \/ Environment \/ UNCHANGED vars  BY <1>9, OtherMoves DEF EarlyAt, Early
<1> QED
  BY <1>1, <1>2, <1>3, <1>4, <1>5, <1>6, <1>7, <1>8, <1>9
  DEF Next, RequestGoroutine, Attempt, Conclusion, Positions

LEMMA EmptyAnswers ==
  ASSUME req'.body = <<>> PROVE AnswerAt'
BY DEF AnswerAt

LEMMA NextAnswer ==
  ASSUME MInv, EarlyAt, AnswerAt, [Next]_vars
  PROVE  AnswerAt'
<1>1. CASE Positions  BY <1>1, PositionMoves, EmptyAnswers DEF AnswerAt
<1>2. CASE ReadEvent \/ (SearchSucceeds /\ req.stream) \/ FinishMessage \/ FinalErrorCallback
  BY <1>2, MethodMoves, EmptyAnswers DEF AnswerAt
<1>3. CASE EmitWrite \/ EmitPromote \/ EmitFlush \/ CallRefused
  <2>1. EmitMoves  BY <1>3, EmittingMoves DEF Emitting
  <2> QED  BY <2>1, EmptyAnswers DEF AnswerAt, EmitMoves
<1>4. CASE ReadError \/ ReadEOF \/ ReadBreaks  BY <1>4, ReadingMoves, EmptyAnswers DEF AnswerAt
<1>5. CASE ErrorFrame  BY <1>5, ErrorFrameMoves, EmptyAnswers DEF AnswerAt
<1>6. CASE BufferEvent  BY <1>6, BufferEventMoves, EmptyAnswers DEF AnswerAt
<1>7. CASE Retry  BY <1>7, RetryMoves, EmptyAnswers
<1>8. CASE \/ BufferedError \/ BodyError \/ BuildResponse \/ (SearchSucceeds /\ ~req.stream)
  <2>1. /\ req.pc # "done" /\ ~req.stream /\ ~req'.stream
        /\ \/ req'.pc = "retry" /\ req'.body = req.body
           \/ /\ req'.pc = "done"
              /\ \/ req'.body = Append(req.body, "error")
                 \/ /\ req'.body = Append(req.body, "message")
                    /\ \/ w' = w /\ req.pc = "call"
                       \/ ~IsEmptyVisibleEndTurn(w')
    BY <1>8, BodyMoves
  <2>2. req.body = <<>>  BY <2>1 DEF AnswerAt
  <2>3. CASE req'.pc = "retry" /\ req'.body = req.body  BY <2>2, <2>3, EmptyAnswers
  <2>4. CASE req'.pc = "done" /\ req'.body = Append(req.body, "error")
    <3>1. req'.body = <<"error">>  BY <2>2, <2>4
    <3>2. req'.body # <<"message">>  BY <3>1
    <3> QED  BY <2>1, <2>4, <3>2 DEF AnswerAt
  <2>5. CASE req'.pc = "done" /\ ~IsEmptyVisibleEndTurn(w')
    BY <2>1, <2>5 DEF AnswerAt
  <2>6. CASE req'.pc = "done" /\ w' = w /\ req.pc = "call"
    <3>1. ~w'.thinking  BY <2>6 DEF EarlyAt, Early
    <3> QED  BY <2>1, <2>6, <3>1 DEF AnswerAt, IsEmptyVisibleEndTurn
  <2> QED  BY <2>1, <2>3, <2>4, <2>5, <2>6
<1>9. CASE Stop \/ Environment \/ UNCHANGED vars  BY <1>9, OtherMoves DEF AnswerAt
<1> QED
  BY <1>1, <1>2, <1>3, <1>4, <1>5, <1>6, <1>7, <1>8, <1>9
  DEF Next, RequestGoroutine, Attempt, Conclusion, Positions

LEMMA TInitially ==
  ASSUME Init
  PROVE  TInv
<1> DEFINE e == <<>>
<1>1. PICK stream, search \in BOOLEAN : req = NewRequest(stream, search)  BY DEF Init
<1>2. req.pc \in {"call", "headers"} /\ req.body = e  BY <1>1 DEF NewRequest
<1>3. ~s.promoted /\ hist.offered = e
  BY SameSpec DEF Init, DownP!Init, DownP!newStreamSession
<1>4. w = NewSSEWriter(FirstAttempt) /\ w.todo = e /\ ~w.visibleFired
  BY DEF Init, NewSSEWriter
<1>5. Tallies(e, w) /\ ~w.thinking
  <2>1. FirstAttempt \in Attempts  BY AttemptsOfTheCode DEF LastAttempt, FirstAttempt
  <2>2. e = <<>>  OBVIOUS
  <2> HIDE DEF e
  <2> QED  BY <1>4, <2>1, <2>2, NewWriterTallies
<1>6. TallyAt
  <2>1. ~InEvent  BY <1>2 DEF InEvent
  <2>2. ~Promises(w.todo)  BY <1>4 DEF Promises
  <2> HIDE DEF e
  <2> QED  BY <1>3, <1>4, <1>5, <2>1, <2>2 DEF TallyAt, Tallies
<1>7. PromotedAt /\ EarlyAt  BY <1>3, <1>5 DEF PromotedAt, EarlyAt
<1>8. LocalAt /\ AnswerAt  BY <1>2 DEF LocalAt, AnswerAt
<1> QED  BY <1>6, <1>7, <1>8 DEF TInv

LEMMA NextT ==
  ASSUME MInv, ShowAt, TInv, [Next]_vars
  PROVE  TInv'
<1>1. s' \in DownP!Session
  <2>1. DownP!TypeOK'
    BY StepKeepsInv, SessionAssumptions, DownP!StepKeepsType DEF MInv, Inv, DownP!IInv, SessionStep
  <2> QED  BY <2>1 DEF DownP!TypeOK
<1>2. PromotedAt'  BY <1>1, NextPromotion
<1>3. TallyAt /\ LocalAt /\ AnswerAt /\ EarlyAt  BY DEF TInv
<1>4. TallyAt' /\ LocalAt' /\ AnswerAt' /\ EarlyAt'
  BY <1>1, <1>3, NextTally, NextLocal, NextAnswer, NextEarly
<1> QED  BY <1>2, <1>4 DEF TInv

(* The blocks of a message that has ended are those the writer told.       *)
LEMMA EndedMessage ==
  ASSUME MInv, Finished
  PROVE  /\ Message = hist.offered /\ Ends(hist.offered, w) /\ BlocksOf(w.todo) = {}
         /\ s.promoted /\ req.stream
<1> DEFINE m == DownP!Events(s)
           b == hist.offered
           none == <<>>
<1>1. /\ s \in DownP!Session /\ MessageAt /\ b \in Seq(SSEEvent) /\ StreamAt
      /\ DownP!Delivers(s, b) /\ w \in WriterState
  BY ScriptFacts
<1>2. Message = m  BY DEF Message, DownP!Events, Filter, DownP!Filter
<1>3. m \in Seq(SSEEvent)  BY <1>1, SessionAssumptions, DownP!EventsType
<1>4. PICK i \in 1..Len(m) : m[i].event = "message_stop"
  BY <1>2, <1>3 DEF Finished
<1>5. PICK rest \in Seq(SSEEvent) : b = m \o rest
  BY <1>1 DEF DownP!Delivers, DownP!BeginsWith, DownP!Joins
<1>6. s.promoted
  <2>1. m # <<>>  BY <1>3, <1>4
  <2> QED  BY <1>1, <2>1 DEF DownP!Delivers
<1>7. none = <<>> /\ none \in Seq(SSEEvent)  OBVIOUS
<1>8. b = hist.offered  OBVIOUS
<1> HIDE DEF m, b, none
<1>9. Len(b) = Len(m) + Len(rest) /\ Len(m) \in Nat /\ Len(rest) \in Nat
  BY <1>3, <1>5
<1>10. i \in 1..Len(b) /\ b[i].event = "message_stop"  BY <1>3, <1>4, <1>5, <1>9
<1>11. Told(b, w)  BY <1>1, <1>8 DEF MessageAt
<1>12. i = Len(b) /\ Filter(w.todo, SSEEvent) = none /\ BlocksOf(w.todo) = {}
  BY <1>1, <1>7, <1>10, <1>11, StopIsLast
<1>13. b = m
  <2>1. Len(rest) = 0  BY <1>4, <1>9, <1>12
  <2>2. rest = none  BY <1>7, <2>1
  <2> QED  BY <1>3, <1>5, <1>7, <2>2
<1>14. Ends(b, w)
  <2>1. Story(b, w) = b  BY <1>1, <1>7, <1>12 DEF Story
  <2> QED  BY <1>10, <2>1 DEF Ends
<1>15. req.stream
  <2>1. hist.offered # <<>>  BY <1>8, <1>9, <1>10
  <2> QED  BY <1>1, <2>1 DEF StreamAt
<1> QED  BY <1>2, <1>6, <1>8, <1>12, <1>13, <1>14, <1>15

LEMMA ThinkingFollows ==
  ASSUME MInv, ShowAt, TInv
  PROVE  NoThinkingOnlyMessage
<1> DEFINE blocks == {Message[i].block : i \in DOMAIN Message}
<1>1. ASSUME Finished, ~w.localStop, "thinking" \in blocks
      PROVE  blocks \cap {"text", "tool_use"} # {}
  <2>1. /\ Message = hist.offered /\ Ends(hist.offered, w) /\ BlocksOf(w.todo) = {}
        /\ s.promoted /\ req.stream
    BY <1>1, EndedMessage
  <2>2. Has(hist.offered, w) = blocks \ {NoBlock}  BY <2>1 DEF Has, BlocksOf
  <2> HIDE DEF blocks
  <2>3. w.thinking
    <3>1. "thinking" \in Has(hist.offered, w)  BY <1>1, <2>2 DEF NoBlock
    <3> QED  BY <3>1 DEF TInv, TallyAt, Thinks
  <2>4. w.visibleFired
    <3>1. CASE ~IsEmptyVisibleEndTurn(w)
      <4>1. w.text \/ w.tool  BY <1>1, <2>3, <3>1 DEF IsEmptyVisibleEndTurn
      <4> QED  BY <2>1, <4>1 DEF ShowAt, Shown
    <3>2. CASE IsEmptyVisibleEndTurn(w)  BY <2>1, <3>2 DEF TInv, PromotedAt
    <3> QED  BY <3>1, <3>2
  <2>5. Seen(hist.offered, w)  BY <2>1, <2>4 DEF TInv, TallyAt
  <2> QED  BY <2>2, <2>5 DEF Seen
<1>2. req.body = <<"message">> /\ ~w.localStop /\ w.thinking => w.text \/ w.tool
  BY DEF TInv, AnswerAt, IsEmptyVisibleEndTurn
<1> QED  BY <1>1, <1>2 DEF NoThinkingOnlyMessage

(* A message that has ended and in which the model only thought does not   *)
(* reach the client as complete, unless a stop sequence or the token       *)
(* budget ended it (NoThinkingOnlyMessage): such an attempt is retried or  *)
(* reported, whatever the upstream sends and however the session, its      *)
(* heartbeat and its client behave.                                        *)
THEOREM ThinkingIsNotAnAnswer == Spec => []NoThinkingOnlyMessage
<1> DEFINE J == ShowAt /\ TInv
<1>1. Init => J  BY ShowInitially, TInitially
<1>2. MInv /\ J /\ [Next]_vars => J'  BY NextShows, NextT
<1>3. MInv /\ J => NoThinkingOnlyMessage  BY ThinkingFollows
<1> HIDE DEF J
<1> QED  BY <1>1, <1>2, <1>3, MessageInvariant, PTL DEF Spec
=============================================================================
