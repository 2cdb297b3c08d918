------------------------- MODULE StreamSessionProofs -------------------------
(***************************************************************************)
(* Theorems about StreamSession, for every set of events and every bound:  *)
(* type correctness first, then what needs an inductive invariant.         *)
(*                                                                         *)
(* FramingMatchesHeader is not inductive: that WriteFinalError finds an    *)
(* untouched response when it picks JSON follows only from what every      *)
(* other writer leaves behind.  Framed says it of the session record: a    *)
(* header that was sent left a trace in committed, promoted or firstErr,   *)
(* and whoever could send one had installed the SSE headers first.         *)
(*                                                                         *)
(* StreamSession implements DownstreamResponse: every step of the request  *)
(* goroutine, of the heartbeat and of the client maps to a step of the     *)
(* promised response, or to none.  The mapping hides everything but the    *)
(* bytes written and whether the response has ended.  Beyond IInv the step *)
(* proof needs to know who may still write after an error frame: nobody,   *)
(* because the frame is followed by firstErr or finalized, or by the one   *)
(* state of WriteFinalError's callback in which finalizing holds off the   *)
(* heartbeat.                                                              *)
(*                                                                         *)
(* The events that Write accepted reach the client in order, each once.    *)
(* DeliveredInOrder is not inductive.  That Discard may forget the events  *)
(* it drops needs that an unpromoted session has put no event on the       *)
(* socket; that Write may go straight to the socket once the session is    *)
(* promoted needs that promotion left nothing behind in the buffer.        *)
(*                                                                         *)
(* The last part is for a caller that is not arbitrary: what each method   *)
(* does to the events offered, to those on the wire and to the error frame *)
(* (Silent: nothing), which of them may lose the session or promote it,    *)
(* and that a promoted session holds nothing back.                         *)
(***************************************************************************)
EXTENDS StreamSession, FilteringProofs

----------------------------------------------------------------------------
(* The helpers that run with mu held map session records to session        *)
(* records.                                                                *)

LEMMA SendHeaderType ==
  ASSUME NEW st \in Session, NEW code \in {OK, Failure}
  PROVE  SendHeader(st, code) \in Session
<1> DEFINE v == [type |-> st.ctype, status |-> code]
<1>1. v \in [type : ContentType, status : {0, OK, Failure}]  BY DEF Session
<1>2. [st EXCEPT !.sent = v] \in Session  BY <1>1 DEF Session
<1> QED  BY <1>2 DEF SendHeader

LEMMA StoreErrorType ==
  ASSUME NEW st \in Session
  PROVE  StoreError(st) \in Session
BY DEF StoreError, Session

LEMMA AcceptedType ==
  ASSUME NEW chunks \in Seq(Chunk), NEW o \in WriteOutcomes(Len(chunks))
  PROVE  Accepted(chunks, o) \in Seq(Chunk)
<1>1. o.n \in 0..Len(chunks)  BY DEF WriteOutcomes
<1>2. SubSeq(chunks, 1, o.n) \in Seq(Chunk)  BY <1>1
<1>3. <<Cut>> \in Seq(Chunk)  BY DEF Chunk, Marker
<1>4. <<>> \in Seq(Chunk)  OBVIOUS
<1> QED  BY <1>2, <1>3, <1>4 DEF Accepted

LEMMA WriteSocketType ==
  ASSUME NEW st \in Session,
         NEW chunks \in Seq(Chunk), NEW o \in WriteOutcomes(Len(chunks))
  PROVE  WriteSocket(st, chunks, o) \in Session
<1> DEFINE h == SendHeader(st, OK)
           a == Accepted(chunks, o)
           w == [h EXCEPT !.out = @ \o a, !.committed = @ \/ a # <<>>]
<1>1. h \in Session  BY SendHeaderType
<1>2. a \in Seq(Chunk)  BY AcceptedType
<1>3. w \in Session
  <2> HIDE DEF h, a
  <2>1. h.out \o a \in Seq(Chunk)  BY <1>1, <1>2 DEF Session
  <2>2. (h.committed \/ a # <<>>) \in BOOLEAN  OBVIOUS
  <2> QED  BY <1>1, <2>1, <2>2 DEF Session
<1>4. [w EXCEPT !.pendingFlush = TRUE] \in Session
  <2> HIDE DEF w
  <2> QED  BY <1>3 DEF Session
<1> QED  BY <1>3, <1>4, StoreErrorType DEF WriteSocket

LEMMA FlushSocketType ==
  ASSUME NEW st \in Session, NEW ok \in BOOLEAN
  PROVE  FlushSocket(st, ok) \in Session
<1> DEFINE f == SendHeader(st, OK)
<1>1. f \in Session  BY SendHeaderType
<1> DEFINE g == [f EXCEPT !.pendingFlush = FALSE]
<1>2. Signal(g) \in Session
  <2>1. g \in Session
    <3> HIDE DEF f
    <3> QED  BY <1>1 DEF Session
  <2> HIDE DEF g
  <2> QED  BY <2>1 DEF Signal, Session
<1> QED  BY <1>1, <1>2, StoreErrorType DEF FlushSocket

LEMMA ResetBufferType ==
  ASSUME NEW st \in Session
  PROVE  ResetBuffer(st) \in Session
<1>1. <<>> \in Seq(Payload)  OBVIOUS
<1> QED  BY <1>1 DEF ResetBuffer, Session

LEMMA DropBufferType ==
  ASSUME NEW st \in Session
  PROVE  DropBuffer(st) \in Session
<1>1. <<>> \in Seq(Payload)  OBVIOUS
<1>2. [st EXCEPT !.buf = <<>>] \in Session  BY <1>1 DEF Session
<1> QED  BY <1>1, <1>2 DEF DropBuffer, Session

LEMMA PromotedType ==
  ASSUME NEW st \in Session,
         NEW o \in WriteOutcomes(Len(st.buf)), NEW ok \in BOOLEAN
  PROVE  Promoted(st, o, ok) \in Session
<1> DEFINE h == IF st.statusCode # 0 THEN SendHeader(st, OK) ELSE st
           p == [h EXCEPT !.promoted = TRUE]
           w == IF st.buf = <<>> THEN p ELSE WriteSocket(p, st.buf, o)
           f == FlushSocket(ResetBuffer(w), ok)
<1>1. h \in Session  BY SendHeaderType
<1>2. p \in Session
  <2> HIDE DEF h
  <2> QED  BY <1>1 DEF Session
<1>3. w \in Session
  <2> HIDE DEF p
  <2>1. st.buf \in Seq(Chunk)  BY DEF Session, Chunk
  <2> QED  BY <1>2, <2>1, WriteSocketType
<1>4. ResetBuffer(w) \in Session
  <2> HIDE DEF w
  <2> QED  BY <1>3, ResetBufferType
<1>5. f \in Session
  <2> HIDE DEF w
  <2> QED  BY <1>4, FlushSocketType
<1>6. [f EXCEPT !.committed = @ \/ st.statusCode # 0 \/ st.buf # <<>>] \in Session
  <2> HIDE DEF f
  <2> QED  BY <1>5 DEF Session
<1> QED  BY <1>3, <1>5, <1>6 DEF Promoted

(* A write of one chunk, and of one chunk followed by a flush.             *)
LEMMA OneChunkType ==
  ASSUME NEW st \in Session, NEW c \in Chunk,
         NEW o \in WriteOutcomes(1), NEW ok \in BOOLEAN
  PROVE  /\ WriteSocket(st, <<c>>, o) \in Session
         /\ FlushSocket(WriteSocket(st, <<c>>, o), ok) \in Session
<1>1. <<c>> \in Seq(Chunk) /\ Len(<<c>>) = 1  OBVIOUS
<1>2. WriteSocket(st, <<c>>, o) \in Session  BY <1>1, WriteSocketType
<1> QED  BY <1>2, FlushSocketType

LEMMA ChunksHold ==
  /\ KeepAlive \in Chunk /\ SseError \in Chunk /\ JsonError \in Chunk
  /\ Payload \subseteq Chunk
BY DEF Chunk, Marker

LEMMA DroppingType ==
  ASSUME TypeOK, Dropping
  PROVE  hist' \in [offered : Seq(Payload), dropped : SUBSET Payload]
<1>1. {s.buf[i] : i \in DOMAIN s.buf} \subseteq Payload  BY DEF TypeOK, Session
<1>2. hist.dropped \subseteq Payload  BY DEF TypeOK
<1> QED  BY <1>1, <1>2 DEF Dropping

----------------------------------------------------------------------------
(* One lemma per operation.                                                *)

LEMMA WriteHeaderType == TypeOK /\ WriteHeader => s' \in Session
<1> SUFFICES ASSUME TypeOK, WriteHeader PROVE s' \in Session  OBVIOUS
<1>1. CASE s' = SendHeader(s, OK)  BY <1>1, SendHeaderType DEF TypeOK
<1>2. CASE s' = [s EXCEPT !.statusCode = OK]  BY <1>2 DEF TypeOK, Session
<1> QED  BY <1>1, <1>2 DEF WriteHeader

LEMMA WriteType ==
  ASSUME TypeOK, NEW p \in Payload, Write(p)
  PROVE  /\ s' \in Session
         /\ hist' \in [offered : Seq(Payload), dropped : SUBSET Payload]
<1>1. ASSUME s' = [s EXCEPT !.buf = Append(@, p)] PROVE s' \in Session
  <2> DEFINE b == Append(s.buf, p)
  <2>1. b \in Seq(Payload)  BY DEF TypeOK, Session
  <2>2. s' = [s EXCEPT !.buf = b]  BY <1>1 DEF TypeOK, Session
  <2>3. s \in Session  BY DEF TypeOK
  <2> HIDE DEF b
  <2> QED  BY <2>1, <2>2, <2>3 DEF Session
<1>2. ASSUME \E o \in WriteOutcomes(1) : s' = WriteSocket(s, <<p>>, o)
      PROVE  s' \in Session
  BY <1>2, OneChunkType, ChunksHold DEF TypeOK
<1>3. s' \in Session  BY <1>1, <1>2 DEF Write
<1>4. Append(hist.offered, p) \in Seq(Payload)  BY DEF TypeOK
<1>5. hist' = [hist EXCEPT !.offered = Append(@, p)]  BY DEF Write
<1> QED  BY <1>3, <1>4, <1>5 DEF TypeOK

LEMMA WriteFinalErrorType ==
  ASSUME TypeOK, WriteFinalError
  PROVE  /\ s' \in Session
         /\ hist' \in [offered : Seq(Payload), dropped : SUBSET Payload]
<1>1. ASSUME NEW st \in Session PROVE [st EXCEPT !.finalized = TRUE] \in Session
  BY <1>1 DEF Session
<1>2. CASE FinalSSE
  <2> DEFINE st == IF s.promoted THEN s ELSE DropBuffer(s)
  <2>1. st \in Session  BY DropBufferType DEF TypeOK
  <2>2. PICK o \in WriteOutcomes(1), ok \in BOOLEAN :
          s' = [DirectSSEError(st, o, ok) EXCEPT !.finalized = TRUE]
    BY <1>2 DEF FinalSSE
  <2>3. DirectSSEError(st, o, ok) \in Session
    <3> HIDE DEF st
    <3> QED  BY <2>1, OneChunkType, ChunksHold DEF DirectSSEError
  <2>4. s' \in Session
    <3> HIDE DEF st
    <3> QED  BY <1>1, <2>2, <2>3
  <2> QED  BY <1>2, <2>4, DroppingType DEF FinalSSE, TypeOK
<1>3. CASE FinalJSON
  <2> DEFINE d  == [DropBuffer(s) EXCEPT !.ctype = "json"]
             st == SendHeader(d, Failure)
  <2>1. d \in Session
    <3>1. DropBuffer(s) \in Session  BY DropBufferType DEF TypeOK
    <3> QED  BY <3>1 DEF Session, ContentType
  <2>2. st \in Session
    <3> HIDE DEF d
    <3> QED  BY <2>1, SendHeaderType
  <2>3. PICK o \in WriteOutcomes(1) :
          s' = [WriteSocket(st, <<JsonError>>, o) EXCEPT !.finalized = TRUE]
    BY <1>3 DEF FinalJSON
  <2>4. WriteSocket(st, <<JsonError>>, o) \in Session
    <3> HIDE DEF st
    <3> QED  BY <2>2, OneChunkType, ChunksHold
  <2>5. s' \in Session
    <3> HIDE DEF st
    <3> QED  BY <1>1, <2>3, <2>4
  <2> QED  BY <1>3, <2>5, DroppingType DEF FinalJSON, TypeOK
<1> QED  BY <1>2, <1>3 DEF WriteFinalError

LEMMA WriteKeepAliveType == TypeOK /\ WriteKeepAlive => s' \in Session /\ hb' \in HbStates
<1> SUFFICES ASSUME TypeOK, WriteKeepAlive PROVE s' \in Session /\ hb' \in HbStates
  OBVIOUS
<1>1. CASE KeepAliveRefused(s)
  BY <1>1 DEF WriteKeepAlive, TypeOK, HbStates
<1>2. CASE ~KeepAliveRefused(s)
  BY <1>2, OneChunkType, ChunksHold DEF WriteKeepAlive, TypeOK, HbStates
<1> QED  BY <1>1, <1>2

LEMMA InitType == Init => TypeOK
<1> SUFFICES ASSUME Init PROVE TypeOK  OBVIOUS
<1>1. newStreamSession \in Session
  BY DEF newStreamSession, Session, ContentType, OK, Failure
<1> QED  BY <1>1 DEF Init, TypeOK, HbStates, CallStates

LEMMA StepKeepsType == TypeOK /\ [Next]_sessionVars => TypeOK'
<1> SUFFICES ASSUME TypeOK, [Next]_sessionVars PROVE TypeOK'  OBVIOUS
<1>1. CASE SetSSEHeaders
  BY <1>1 DEF SetSSEHeaders, TypeOK, Session, ContentType
<1>2. CASE WriteHeader
  BY <1>2, WriteHeaderType DEF WriteHeader, TypeOK
<1>3. CASE Flush
  BY <1>3, FlushSocketType DEF Flush, TypeOK
<1>4. CASE Promote
  BY <1>4, PromotedType DEF Promote, TypeOK
<1>5. CASE Discard
  BY <1>5, DropBufferType, DroppingType DEF Discard, TypeOK
<1>6. CASE WriteFinalError
  BY <1>6, WriteFinalErrorType DEF WriteFinalError, TypeOK
<1>7. CASE \E p \in Payload : Write(p) /\ UNCHANGED call
  <2>1. UNCHANGED <<hb, call>>  BY <1>7 DEF Write
  <2> QED  BY <1>7, <2>1, WriteType DEF TypeOK
<1>8. CASE FinalErrorBegin
  BY <1>8 DEF FinalErrorBegin, TypeOK, Session, CallStates
<1>9. CASE CallbackError
  BY <1>9, OneChunkType, ChunksHold DEF CallbackError, TypeOK, CallStates
<1>10. CASE FinalErrorEnd
  BY <1>10 DEF FinalErrorEnd, TypeOK, Session, CallStates
<1>11. CASE StopCall
  <2>1. CASE StopMark    BY <2>1 DEF StopMark, TypeOK, Session, CallStates
  <2>2. CASE StopClose   BY <2>2 DEF StopClose, TypeOK, Session, CallStates
  <2>3. CASE StopCancel  BY <2>3 DEF StopCancel, TypeOK, Session, CallStates
  <2>4. CASE StopJoin    BY <2>4 DEF StopJoin, TypeOK, CallStates
  <2> QED  BY <1>11, <2>1, <2>2, <2>3, <2>4 DEF StopCall
<1>12. CASE Heartbeat
  <2>1. CASE HbCheck     BY <2>1 DEF HbCheck, TypeOK, HbStates
  <2>2. CASE HbTimer     BY <2>2 DEF HbTimer, TypeOK, HbStates
  <2>3. CASE HbActivity
    <3>1. s.activity \in 0..1 /\ s.activity > 0
      BY <2>3 DEF HbActivity, TypeOK, Session
    <3>2. s' = [s EXCEPT !.activity = 0]
      BY <2>3, <3>1 DEF HbActivity, TypeOK, Session
    <3> QED  BY <2>3, <3>2 DEF HbActivity, TypeOK, Session, HbStates
  <2>4. CASE HbDone      BY <2>4 DEF HbDone, TypeOK, HbStates
  <2>5. CASE WriteKeepAlive
    BY <2>5, WriteKeepAliveType DEF WriteKeepAlive, TypeOK
  <2> QED  BY <1>12, <2>1, <2>2, <2>3, <2>4, <2>5 DEF Heartbeat
<1>13. CASE Start
  BY <1>13 DEF Start, TypeOK, Session, HbStates
<1>14. CASE ClientGone
  BY <1>14 DEF ClientGone, TypeOK, Session
<1>15. CASE UNCHANGED sessionVars
  BY <1>15 DEF sessionVars, TypeOK
<1> QED
  BY <1>1, <1>2, <1>3, <1>4, <1>5, <1>6, <1>7, <1>8, <1>9, <1>10, <1>11,
     <1>12, <1>13, <1>14, <1>15 DEF Next, RequestCall

(* Type correctness of every reachable state (TypeOK of StreamSession).    *)
THEOREM TypeCorrect == Spec => []TypeOK
<1> QED  BY InitType, StepKeepsType, PTL DEF Spec
----------------------------------------------------------------------------
(* The inductive invariant.                                                *)

StreamHeader == [type |-> "sse", status |-> OK]
JSONHeader   == [type |-> "json", status |-> Failure]

Framed(st) ==
  /\ st.headersSet /\ ~st.finalized => st.ctype = "sse"
  /\ st.promoted \/ st.committed => st.headersSet \/ st.finalized
  /\ st.sent.status = 0 => st.sent.type = "none" /\ st.out = <<>>
  /\ st.sent.status # 0 =>
       /\ st.committed \/ st.promoted \/ st.firstErr \/ st.finalized
       /\ \/ st.sent = StreamHeader
          \/ /\ st.sent = JSONHeader
             /\ st.finalized
             /\ st.out \in {<<>>, <<JsonError>>, <<Cut>>}
  /\ st.sent.type # "json" => JsonError \notin Elements(st.out)

HeartbeatHasHeaders ==
  hb \in {"check", "select", "fire"} => s.headersSet \/ s.finalized

(* Stop marks the session before it joins, and nothing unmarks it.         *)
StopMarks ==
  /\ call \in {"stopping", "closed", "cancelled", "stopped"} => s.stopped
  /\ call = "stopped" => hb \in {"none", "exited"}

(* The callback of WriteFinalError runs only on a promoted session.        *)
CallbackPromoted == call \in {"callback", "errored"} => s.promoted

IInv ==
  /\ TypeOK
  /\ Framed(s)
  /\ HeartbeatHasHeaders
  /\ StopMarks
  /\ CallbackPromoted

(* A session a stream may be written to.                                   *)
Live(st) == st \in Session /\ Framed(st) /\ st.headersSet /\ ~st.finalized

----------------------------------------------------------------------------
(* What the helpers do to the fields the invariant is about.               *)

SameMarks(t, st) ==
  /\ t.headersSet = st.headersSet /\ t.promoted = st.promoted
  /\ t.finalized = st.finalized /\ t.stopped = st.stopped /\ t.ctype = st.ctype
  /\ t.finalizing = st.finalizing

LEMMA SendHeaderFields ==
  ASSUME NEW st \in Session, NEW code \in {OK, Failure},
         NEW t, t = SendHeader(st, code)
  PROVE  /\ t \in Session /\ SameMarks(t, st)
         /\ t.out = st.out /\ t.committed = st.committed /\ t.firstErr = st.firstErr
         /\ t.buf = st.buf
         /\ t.sent = IF st.sent.status # 0 THEN st.sent
                     ELSE [type |-> st.ctype, status |-> code]
<1>1. t \in Session  BY SendHeaderType
<1>2. CASE st.sent.status # 0  BY <1>1, <1>2 DEF SendHeader, SameMarks
<1>3. CASE st.sent.status = 0  BY <1>1, <1>3 DEF SendHeader, SameMarks, Session
<1> QED  BY <1>2, <1>3

LEMMA StoreErrorFields ==
  ASSUME NEW st \in Session, NEW t, t = StoreError(st)
  PROVE  /\ t \in Session /\ SameMarks(t, st)
         /\ t.out = st.out /\ t.committed = st.committed /\ t.sent = st.sent
         /\ t.buf = st.buf /\ t.firstErr
BY StoreErrorType DEF StoreError, SameMarks, Session

(* A write that puts nothing on the socket fails.                          *)
LEMMA NothingAccepted ==
  ASSUME NEW chunks \in Seq(Chunk), chunks # <<>>,
         NEW o \in WriteOutcomes(Len(chunks)), Accepted(chunks, o) = <<>>
  PROVE  o.err
<1>1. /\ o.n \in 0..Len(chunks) /\ o.cut \in BOOLEAN /\ o.err \in BOOLEAN
      /\ o.n < Len(chunks) => o.err
  BY DEF WriteOutcomes
<1>2. Len(chunks) > 0  OBVIOUS
<1>3. CASE o.n = 0
  <2>1. o.n < Len(chunks)  BY <1>2, <1>3
  <2> QED  BY <1>1, <2>1
<1>4. CASE o.n > 0
  <2> DEFINE q == SubSeq(chunks, 1, o.n)
             c == IF o.cut THEN <<Cut>> ELSE <<>>
  <2>1. q \in Seq(Chunk) /\ Len(q) = o.n  BY <1>1, <1>4
  <2>2. c \in Seq(Chunk)
    <3>1. <<Cut>> \in Seq(Chunk) /\ <<>> \in Seq(Chunk)  BY DEF Chunk, Marker
    <3> QED  BY <3>1
  <2>3. Len(q \o c) = Len(q) + Len(c)
    <3> HIDE DEF q, c
    <3> QED  BY <2>1, <2>2
  <2>4. Len(c) \in Nat
    <3> HIDE DEF c
    <3> QED  BY <2>2
  <2>5. Len(q \o c) > 0
    <3> HIDE DEF q, c
    <3> QED  BY <2>1, <2>3, <2>4, <1>1, <1>4
  <2>6. Accepted(chunks, o) = q \o c  BY DEF Accepted
  <2>7. Len(Accepted(chunks, o)) > 0  BY <2>5, <2>6
  <2>8. Len(<<>>) = 0  OBVIOUS
  <2>9. Accepted(chunks, o) # <<>>  BY <2>7, <2>8
  <2> QED  BY <2>9
<1>5. o.n \in Nat  BY <1>1
<1>6. o.n = 0 \/ o.n > 0  BY <1>5
<1> QED  BY <1>3, <1>4, <1>6

(* The header that the bytes of a write go out under.                      *)
WrittenUnder(st) ==
  IF st.sent.status # 0 THEN st.sent ELSE [type |-> st.ctype, status |-> OK]

LEMMA WriteSocketFields ==
  ASSUME NEW st \in Session, NEW chunks \in Seq(Chunk), chunks # <<>>,
         NEW o \in WriteOutcomes(Len(chunks)),
         NEW t, t = WriteSocket(st, chunks, o)
  PROVE  /\ t \in Session /\ SameMarks(t, st)
         /\ t.out = st.out \o Accepted(chunks, o)
         /\ t.buf = st.buf
         /\ (t.committed \/ t.firstErr)
         /\ (st.firstErr \/ o.err => t.firstErr)
         /\ t.sent = WrittenUnder(st)
<1> DEFINE h == SendHeader(st, OK)
           a == Accepted(chunks, o)
           w == [h EXCEPT !.out = @ \o a, !.committed = @ \/ a # <<>>]
           g == [w EXCEPT !.pendingFlush = TRUE]
<1>1. /\ h \in Session /\ SameMarks(h, st) /\ h.out = st.out /\ h.buf = st.buf
      /\ h.firstErr = st.firstErr
      /\ h.sent = IF st.sent.status # 0 THEN st.sent
                  ELSE [type |-> st.ctype, status |-> OK]
  BY SendHeaderFields
<1>2. a \in Seq(Chunk)  BY AcceptedType
<1>3. a = <<>> => o.err  BY NothingAccepted
<1>4. w \in Session
  <2> HIDE DEF h, a
  <2>1. h.out \o a \in Seq(Chunk)  BY <1>1, <1>2 DEF Session
  <2>2. (h.committed \/ a # <<>>) \in BOOLEAN  OBVIOUS
  <2> QED  BY <1>1, <2>1, <2>2 DEF Session
<1>5. /\ w.out = st.out \o a /\ (a # <<>> => w.committed) /\ w.sent = h.sent
      /\ w.buf = st.buf /\ w.firstErr = st.firstErr /\ SameMarks(w, st)
  <2> HIDE DEF a, h
  <2>1. w.out = h.out \o a  BY <1>1 DEF Session
  <2>2. w.committed = (h.committed \/ a # <<>>)  BY <1>1 DEF Session
  <2>3. w.sent = h.sent /\ w.buf = h.buf /\ w.firstErr = h.firstErr /\ SameMarks(w, h)
    BY <1>1 DEF Session, SameMarks
  <2> QED  BY <1>1, <2>1, <2>2, <2>3 DEF SameMarks
<1>6. t = IF o.err THEN StoreError(w) ELSE g  BY DEF WriteSocket
<1>7. CASE o.err
  <2> HIDE DEF w, g, a, h
  <2>1. t = StoreError(w)  BY <1>6, <1>7
  <2> QED  BY <1>1, <1>4, <1>5, <2>1, StoreErrorFields DEF SameMarks, a, WrittenUnder
<1>8. CASE ~o.err
  <2> HIDE DEF w, a, h
  <2>1. t = g  BY <1>6, <1>8
  <2>2. /\ g \in Session /\ g.out = w.out /\ g.committed = w.committed
        /\ g.sent = w.sent /\ g.buf = w.buf /\ g.firstErr = w.firstErr /\ SameMarks(g, w)
    BY <1>4 DEF Session, SameMarks
  <2> HIDE DEF g
  <2> QED  BY <1>1, <1>3, <1>5, <1>8, <2>1, <2>2 DEF SameMarks, a, WrittenUnder
<1> QED  BY <1>7, <1>8

LEMMA FlushSocketFields ==
  ASSUME NEW st \in Session, NEW ok \in BOOLEAN,
         NEW t, t = FlushSocket(st, ok)
  PROVE  /\ t \in Session /\ SameMarks(t, st)
         /\ t.out = st.out /\ t.committed = st.committed /\ t.buf = st.buf
         /\ st.firstErr => t.firstErr
         /\ \/ t.sent = st.sent
            \/ /\ st.sent.status = 0
               /\ t.sent = [type |-> st.ctype, status |-> OK]
<1> DEFINE f == SendHeader(st, OK)
           g == [f EXCEPT !.pendingFlush = FALSE]
<1>1. /\ f \in Session /\ SameMarks(f, st)
      /\ f.out = st.out /\ f.committed = st.committed /\ f.firstErr = st.firstErr
      /\ f.buf = st.buf
      /\ f.sent = IF st.sent.status # 0 THEN st.sent
                  ELSE [type |-> st.ctype, status |-> OK]
  BY SendHeaderFields
<1>2. t \in Session  BY FlushSocketType
<1>3. t = IF st.firstErr THEN st
          ELSE IF ~ok THEN StoreError(f)
          ELSE IF st.pendingFlush THEN Signal(g) ELSE f
  BY DEF FlushSocket
<1> HIDE DEF f
<1>4. CASE t = st  BY <1>4 DEF SameMarks
<1>5. CASE t = StoreError(f)  BY <1>1, <1>5, StoreErrorFields DEF SameMarks
<1>6. CASE ~st.firstErr /\ t = Signal(g)
  <2>1. /\ g \in Session /\ SameMarks(g, f) /\ g.out = f.out
        /\ g.committed = f.committed /\ g.buf = f.buf /\ g.sent = f.sent
    BY <1>1 DEF Session, SameMarks
  <2> HIDE DEF g
  <2>2. /\ SameMarks(t, g) /\ t.out = g.out
        /\ t.committed = g.committed /\ t.buf = g.buf /\ t.sent = g.sent
    BY <1>6, <2>1 DEF Signal, Session, SameMarks
  <2> QED  BY <1>1, <1>2, <1>6, <2>1, <2>2 DEF SameMarks
<1>7. CASE ~st.firstErr /\ t = f  BY <1>1, <1>7
<1> QED  BY <1>3, <1>4, <1>5, <1>6, <1>7

----------------------------------------------------------------------------
(* Writing, flushing and promoting keep a live session live.               *)

LEMMA NoEmptyElement == Elements(<<>>) = {}
BY DEF Elements

LEMMA OnlyOneErrorBody ==
  /\ JsonError # SseError /\ JsonError # KeepAlive /\ JsonError # Cut
  /\ \A p \in Payload : p # JsonError
BY ChunksDiffer DEF Marker

LEMMA ElementsOfConcat ==
  ASSUME NEW a \in Seq(Chunk), NEW b \in Seq(Chunk)
  PROVE  Elements(a \o b) \subseteq Elements(a) \cup Elements(b)
<1> SUFFICES ASSUME NEW i \in DOMAIN (a \o b)
             PROVE  (a \o b)[i] \in Elements(a) \cup Elements(b)
  BY DEF Elements
<1>1. CASE i \in 1..Len(a)
  <2>1. (a \o b)[i] = a[i] /\ i \in DOMAIN a  BY <1>1
  <2> QED  BY <2>1 DEF Elements
<1>2. CASE i \in (Len(a) + 1)..(Len(a) + Len(b))
  <2>1. (a \o b)[i] = b[i - Len(a)] /\ i - Len(a) \in DOMAIN b  BY <1>2
  <2> QED  BY <2>1 DEF Elements
<1>3. i \in 1..(Len(a) + Len(b))  OBVIOUS
<1>4. i \in 1..Len(a) \/ i \in (Len(a) + 1)..(Len(a) + Len(b))  BY <1>3
<1> QED  BY <1>1, <1>2, <1>4

(* What a write puts on the socket is part of what it was given, or cut.   *)
LEMMA AcceptedElements ==
  ASSUME NEW chunks \in Seq(Chunk), NEW o \in WriteOutcomes(Len(chunks))
  PROVE  /\ Accepted(chunks, o) \in Seq(Chunk)
         /\ Elements(Accepted(chunks, o)) \subseteq Elements(chunks) \cup {Cut}
<1> DEFINE q == SubSeq(chunks, 1, o.n)
           c == IF o.cut THEN <<Cut>> ELSE <<>>
<1>1. o.n \in 0..Len(chunks)  BY DEF WriteOutcomes
<1>2. q \in Seq(Chunk) /\ Len(q) = o.n  BY <1>1
<1>3. c \in Seq(Chunk) /\ \A i \in DOMAIN c : c[i] = Cut
  <2>1. CASE o.cut
    <3>1. c = <<Cut>> /\ Cut \in Chunk  BY <2>1 DEF Chunk, Marker
    <3> HIDE DEF c
    <3> QED  BY <3>1
  <2>2. CASE ~o.cut
    <3>1. c = <<>>  BY <2>2
    <3> HIDE DEF c
    <3> QED  BY <3>1
  <2> QED  BY <2>1, <2>2
<1>4. \A i \in 1..o.n : q[i] = chunks[i] /\ i \in DOMAIN chunks  BY <1>1
<1> HIDE DEF q, c
<1>5. q \o c \in Seq(Chunk)  BY <1>2, <1>3
<1>6. Elements(q \o c) \subseteq Elements(q) \cup Elements(c)
  BY <1>2, <1>3, ElementsOfConcat
<1>7. Elements(q) \subseteq Elements(chunks)  BY <1>2, <1>4 DEF Elements
<1>8. Elements(c) \subseteq {Cut}  BY <1>3 DEF Elements
<1>9. Accepted(chunks, o) = q \o c  BY DEF Accepted, q, c
<1> QED  BY <1>5, <1>6, <1>7, <1>8, <1>9

LEMMA WriteKeepsLive ==
  ASSUME NEW st, Live(st), NEW chunks \in Seq(Chunk), chunks # <<>>,
         JsonError \notin Elements(chunks),
         NEW o \in WriteOutcomes(Len(chunks)),
         NEW t, t = WriteSocket(st, chunks, o)
  PROVE  Live(t) /\ t.sent = StreamHeader /\ SameMarks(t, st) /\ t.buf = st.buf
<1>1. st \in Session  BY DEF Live
<1>2. /\ t \in Session /\ SameMarks(t, st) /\ t.buf = st.buf
      /\ (t.committed \/ t.firstErr)
      /\ t.out = st.out \o Accepted(chunks, o)
      /\ t.sent = WrittenUnder(st)
  BY <1>1, WriteSocketFields
<1>3. t.sent = StreamHeader
  BY <1>2 DEF Live, Framed, StreamHeader, WrittenUnder
<1>4. t.sent.status # 0  BY <1>3 DEF StreamHeader, OK
<1>5. /\ t.headersSet /\ ~t.finalized /\ t.ctype = "sse"
  BY <1>2 DEF Live, Framed, SameMarks
<1>6. JsonError \notin Elements(t.out)
  <2>1. st.sent.type # "json"  BY DEF Live, Framed, StreamHeader
  <2>2. JsonError \notin Elements(st.out) /\ st.out \in Seq(Chunk)
    BY <1>1, <2>1 DEF Live, Framed, Session
  <2>3. JsonError # Cut  BY ChunksDiffer
  <2> DEFINE a == Accepted(chunks, o)
  <2>4. a \in Seq(Chunk) /\ Elements(a) \subseteq Elements(chunks) \cup {Cut}
    BY AcceptedElements
  <2> HIDE DEF a
  <2>5. Elements(st.out \o a) \subseteq Elements(st.out) \cup Elements(a)
    BY <2>2, <2>4, ElementsOfConcat
  <2> QED  BY <1>2, <2>2, <2>3, <2>4, <2>5 DEF a
<1>7. Framed(t)  BY <1>2, <1>3, <1>4, <1>5, <1>6 DEF Framed
<1> QED  BY <1>2, <1>3, <1>5, <1>7 DEF Live

LEMMA FlushKeepsLive ==
  ASSUME NEW st, Live(st), st.promoted \/ st.sent.status # 0, NEW ok \in BOOLEAN,
         NEW t, t = FlushSocket(st, ok)
  PROVE  /\ Live(t) /\ SameMarks(t, st) /\ t.buf = st.buf
         /\ st.sent.status # 0 => t.sent = st.sent
<1>1. st \in Session  BY DEF Live
<1>2. /\ t \in Session /\ SameMarks(t, st)
      /\ t.out = st.out /\ t.committed = st.committed /\ t.buf = st.buf
      /\ st.firstErr => t.firstErr
      /\ \/ t.sent = st.sent
         \/ /\ st.sent.status = 0
            /\ t.sent = [type |-> st.ctype, status |-> OK]
  BY <1>1, FlushSocketFields
<1>3. CASE t.sent = st.sent
  BY <1>2, <1>3 DEF Live, Framed, SameMarks
<1>4. CASE st.sent.status = 0 /\ t.sent = [type |-> st.ctype, status |-> OK]
  <2>1. t.sent = StreamHeader  BY <1>4 DEF Live, Framed, StreamHeader
  <2>2. t.sent.status # 0  BY <2>1 DEF StreamHeader, OK
  <2> QED  BY <1>2, <1>4, <2>1, <2>2 DEF Live, Framed, SameMarks
<1> QED  BY <1>2, <1>3, <1>4

LEMMA PromoteKeepsLive ==
  ASSUME NEW st, Live(st), NEW o \in WriteOutcomes(Len(st.buf)), NEW ok \in BOOLEAN,
         NEW t, t = Promoted(st, o, ok)
  PROVE  Live(t) /\ t.stopped = st.stopped
<1> DEFINE h == IF st.statusCode # 0 THEN SendHeader(st, OK) ELSE st
           p == [h EXCEPT !.promoted = TRUE]
           w == IF st.buf = <<>> THEN p ELSE WriteSocket(p, st.buf, o)
           r == ResetBuffer(w)
           f == FlushSocket(r, ok)
           c == [f EXCEPT !.committed = @ \/ st.statusCode # 0 \/ st.buf # <<>>]
<1>1. st \in Session  BY DEF Live
<1>2. /\ h \in Session /\ SameMarks(h, st) /\ h.out = st.out
      /\ h.committed = st.committed /\ h.firstErr = st.firstErr
      /\ h.sent = st.sent \/ (st.sent.status = 0 /\ h.sent = [type |-> st.ctype, status |-> OK])
  <2>1. CASE st.statusCode # 0
    <3>1. h = SendHeader(st, OK)  BY <2>1
    <3> HIDE DEF h
    <3> QED  BY <1>1, <3>1, SendHeaderFields
  <2>2. CASE st.statusCode = 0
    <3>1. h = st  BY <2>2
    <3> HIDE DEF h
    <3> QED  BY <1>1, <3>1 DEF SameMarks
  <2> QED  BY <1>1, <2>1, <2>2 DEF Session
<1>3. Live(p) /\ p.promoted /\ p.stopped = st.stopped
  <2> HIDE DEF h
  <2>1. /\ p \in Session /\ p.promoted /\ p.headersSet = h.headersSet
        /\ p.finalized = h.finalized /\ p.stopped = h.stopped /\ p.ctype = h.ctype
        /\ p.out = h.out /\ p.sent = h.sent
    BY <1>2 DEF Session
  <2> HIDE DEF p
  <2>2. CASE h.sent = st.sent
    BY <1>2, <2>1, <2>2 DEF Live, Framed, SameMarks
  <2>3. CASE st.sent.status = 0 /\ h.sent = [type |-> st.ctype, status |-> OK]
    <3>1. p.sent = StreamHeader  BY <2>1, <2>3 DEF Live, Framed, StreamHeader
    <3>2. p.sent.status # 0  BY <3>1 DEF StreamHeader, OK
    <3> QED  BY <1>2, <2>1, <3>1, <3>2 DEF Live, Framed, SameMarks
  <2> QED  BY <1>2, <2>2, <2>3
<1>4. Live(w) /\ w.promoted /\ w.stopped = st.stopped
  <2> HIDE DEF p
  <2>1. st.buf \in Seq(Chunk) /\ JsonError \notin Elements(st.buf)
    <3>1. st.buf \in Seq(Payload)  BY <1>1 DEF Session
    <3>2. JsonError \notin Payload  BY ChunksDiffer DEF Marker
    <3> QED  BY <3>1, <3>2 DEF Chunk, Elements
  <2>2. CASE st.buf = <<>>  BY <1>3, <2>2
  <2>3. CASE st.buf # <<>>
    <3>1. w = WriteSocket(p, st.buf, o)  BY <2>3
    <3> HIDE DEF w
    <3> QED  BY <1>3, <2>1, <2>3, <3>1, WriteKeepsLive DEF SameMarks
  <2> QED  BY <2>2, <2>3
<1>5. Live(r) /\ r.promoted /\ r.stopped = st.stopped
  <2> HIDE DEF w
  <2>1. r \in Session  BY <1>4, ResetBufferType DEF Live
  <2>2. /\ SameMarks(r, w) /\ r.out = w.out /\ r.committed = w.committed
        /\ r.firstErr = w.firstErr /\ r.sent = w.sent
    BY <1>4 DEF ResetBuffer, Live, Session, SameMarks
  <2> HIDE DEF r
  <2> QED  BY <1>4, <2>1, <2>2 DEF Live, Framed, SameMarks
<1>6. Live(f) /\ f.promoted /\ f.stopped = st.stopped
  <2> HIDE DEF r
  <2> QED  BY <1>5, FlushKeepsLive DEF SameMarks
<1>7. Live(c) /\ c.stopped = st.stopped
  <2> HIDE DEF f
  <2>1. /\ c \in Session /\ SameMarks(c, f) /\ c.out = f.out
        /\ c.firstErr = f.firstErr /\ c.sent = f.sent
    BY <1>6 DEF Live, Session, SameMarks
  <2> HIDE DEF c
  <2> QED  BY <1>6, <2>1 DEF Live, Framed, SameMarks
<1>8. t \in {w, f, c}  BY DEF Promoted
<1> HIDE DEF w, f, c
<1> QED  BY <1>4, <1>6, <1>7, <1>8

(* Dropping the buffer, and marking the session finalized.                 *)
LEMMA DropBufferFields ==
  ASSUME NEW st \in Session, NEW t, t = DropBuffer(st)
  PROVE  /\ t \in Session /\ SameMarks(t, st) /\ t.out = st.out
         /\ t.committed = st.committed /\ t.firstErr = st.firstErr /\ t.sent = st.sent
<1>1. t \in Session  BY DropBufferType
<1> QED  BY <1>1 DEF DropBuffer, Session, SameMarks

LEMMA FinalizedFramed ==
  ASSUME NEW st \in Session, Framed(st), NEW t, t = [st EXCEPT !.finalized = TRUE]
  PROVE  /\ Framed(t) /\ t.finalized /\ t.stopped = st.stopped
         /\ t.promoted = st.promoted
<1>1. /\ t.finalized /\ t.stopped = st.stopped /\ t.out = st.out /\ t.sent = st.sent
      /\ t.headersSet = st.headersSet /\ t.promoted = st.promoted
      /\ t.committed = st.committed /\ t.ctype = st.ctype /\ t.firstErr = st.firstErr
  BY DEF Session
<1> QED  BY <1>1 DEF Framed

LEMMA OneChunkFits ==
  ASSUME NEW c \in Chunk
  PROVE  /\ <<c>> \in Seq(Chunk) /\ <<c>> # <<>> /\ Len(<<c>>) = 1
         /\ Elements(<<c>>) = {c}
BY DEF Elements

(* An error frame on a live session that has been promoted or committed.   *)
LEMMA DirectSSEErrorKeepsLive ==
  ASSUME NEW st, Live(st), NEW c \in Chunk, c # JsonError,
         NEW o \in WriteOutcomes(1), NEW ok \in BOOLEAN,
         NEW t, t = FlushSocket(WriteSocket(st, <<c>>, o), ok)
  PROVE  Live(t) /\ SameMarks(t, st)
<1> DEFINE w == WriteSocket(st, <<c>>, o)
<1>1. Live(w) /\ w.sent = StreamHeader /\ SameMarks(w, st)
  BY OneChunkFits, WriteKeepsLive
<1>2. w.sent.status # 0  BY <1>1 DEF StreamHeader, OK
<1> HIDE DEF w
<1>3. t = FlushSocket(w, ok)  BY DEF w
<1> QED  BY <1>1, <1>2, <1>3, FlushKeepsLive DEF SameMarks

LEMMA OneChunkAccepted ==
  ASSUME NEW c \in Chunk, NEW o \in WriteOutcomes(1)
  PROVE  Accepted(<<c>>, o) \in {<<>>, <<c>>, <<Cut>>}
<1> DEFINE one == <<c>>
           none == SubSeq(one, 1, 0)
           cut == <<Cut>>
<1>1. one \in Seq(Chunk) /\ Len(one) = 1  BY OneChunkFits
<1>2. none = <<>>
  <2> HIDE DEF one
  <2>1. 1 \in Int /\ 0 \in Int /\ 0 < 1  OBVIOUS
  <2> QED  BY <2>1, SubSeqEmpty
<1>3. SubSeq(one, 1, 1) = one
  <2> HIDE DEF one
  <2>1. SubSeq(one, 1, Len(one)) = one  BY <1>1, SubSeqFull
  <2> QED  BY <1>1, <2>1
<1>4. one \o <<>> = one
  <2> HIDE DEF one
  <2> QED  BY <1>1, ConcatEmptySeq
<1>5. <<>> \o <<>> = <<>> /\ <<>> \o cut = cut  OBVIOUS
<1>6. o.n \in {0, 1} /\ (o.cut => o.n < 1)  BY DEF WriteOutcomes
<1>7. Accepted(one, o) = SubSeq(one, 1, o.n) \o IF o.cut THEN cut ELSE <<>>
  BY DEF Accepted
<1> HIDE DEF one, none, cut
<1>8. CASE o.n = 0
  <2>1. SubSeq(one, 1, o.n) = <<>>  BY <1>2, <1>8 DEF none
  <2> QED  BY <1>5, <1>7, <2>1 DEF one, cut
<1>9. CASE o.n = 1
  <2>1. SubSeq(one, 1, o.n) = one /\ ~o.cut  BY <1>3, <1>6, <1>9
  <2> QED  BY <1>4, <1>7, <2>1 DEF one
<1> QED  BY <1>6, <1>8, <1>9

LEMMA WriteKeepsHeader ==
  ASSUME NEW h \in Session, NEW one \in Seq(Chunk), one # <<>>,
         NEW o \in WriteOutcomes(Len(one)),
         NEW w, w = WriteSocket(h, one, o)
  PROVE  /\ w \in Session /\ SameMarks(w, h)
         /\ h.sent.status # 0 => w.sent = h.sent
         /\ w.out = h.out \o Accepted(one, o)
BY WriteSocketFields DEF WrittenUnder

LEMMA JSONBodyFields ==
  ASSUME NEW h \in Session, NEW o \in WriteOutcomes(1)
  PROVE  LET w == WriteSocket(h, <<JsonError>>, o)
         IN  /\ w \in Session /\ SameMarks(w, h)
             /\ h.sent = JSONHeader => w.sent = JSONHeader
             /\ w.out = h.out \o Accepted(<<JsonError>>, o)
<1> DEFINE one == <<JsonError>>
           w == WriteSocket(h, one, o)
<1>1. one \in Seq(Chunk) /\ one # <<>> /\ Len(one) = 1
  BY OneChunkFits, ChunksHold
<1> HIDE DEF one
<1>2. o \in WriteOutcomes(Len(one))  BY <1>1
<1>3. /\ w \in Session /\ SameMarks(w, h)
      /\ h.sent.status # 0 => w.sent = h.sent
      /\ w.out = h.out \o Accepted(one, o)
  BY <1>1, <1>2, WriteKeepsHeader
<1>4. JSONHeader.status # 0  BY DEF JSONHeader, Failure
<1> HIDE DEF w
<1>5. /\ w \in Session /\ SameMarks(w, h)
      /\ h.sent = JSONHeader => w.sent = JSONHeader
      /\ w.out = h.out \o Accepted(one, o)
  BY <1>3, <1>4
<1> QED  BY <1>5 DEF one, w

(* The JSON branch: nothing has been sent, so the error is alone.          *)
LEMMA JSONErrorFramed ==
  ASSUME NEW st \in Session, Framed(st), st.sent.status = 0,
         NEW o \in WriteOutcomes(1), NEW t,
         t = [WriteSocket(SendHeader([st EXCEPT !.ctype = "json"], Failure),
                          <<JsonError>>, o) EXCEPT !.finalized = TRUE]
  PROVE  Framed(t) /\ t.finalized /\ t.stopped = st.stopped /\ t.promoted = st.promoted
<1> DEFINE one == <<JsonError>>
           d == [st EXCEPT !.ctype = "json"]
           h == SendHeader(d, Failure)
           w == WriteSocket(h, one, o)
<1>1. /\ d \in Session /\ d.sent.status = 0 /\ d.ctype = "json" /\ d.out = <<>>
      /\ d.stopped = st.stopped /\ d.promoted = st.promoted
  BY DEF Session, ContentType, Framed
<1>2. /\ h \in Session /\ h.sent = JSONHeader /\ h.out = <<>>
      /\ h.stopped = st.stopped /\ h.promoted = st.promoted
  <2> HIDE DEF d
  <2>1. Failure \in {OK, Failure}  OBVIOUS
  <2>2. /\ h \in Session /\ SameMarks(h, d) /\ h.out = d.out
        /\ h.sent = IF d.sent.status # 0 THEN d.sent
                    ELSE [type |-> d.ctype, status |-> Failure]
    BY <1>1, <2>1, SendHeaderFields
  <2> QED  BY <1>1, <2>2 DEF SameMarks, JSONHeader
<1>3. JSONHeader.status # 0 /\ JSONHeader.type = "json"  BY DEF JSONHeader, Failure
<1>4. /\ w \in Session /\ w.sent = JSONHeader
      /\ w.out = <<>> \o Accepted(one, o)
      /\ w.stopped = st.stopped /\ w.promoted = st.promoted
  <2> HIDE DEF h
  <2>1. w = WriteSocket(h, <<JsonError>>, o)  OBVIOUS
  <2>2. h \in Session /\ h.sent = JSONHeader  BY <1>2
  <2> HIDE DEF w
  <2>3. /\ w \in Session /\ SameMarks(w, h)
        /\ h.sent = JSONHeader => w.sent = JSONHeader
        /\ w.out = h.out \o Accepted(<<JsonError>>, o)
    BY <2>1, <2>2, JSONBodyFields DEF w
  <2> QED  BY <1>2, <2>3 DEF SameMarks, one
<1>5. t = [w EXCEPT !.finalized = TRUE]  OBVIOUS
<1>6. Accepted(one, o) \in {<<>>, <<JsonError>>, <<Cut>>}  BY OneChunkAccepted, ChunksHold
<1>7. <<>> \o <<>> = <<>> /\ <<>> \o <<JsonError>> = <<JsonError>> /\ <<>> \o <<Cut>> = <<Cut>>
  OBVIOUS
<1> HIDE DEF w, one
<1>8. w.out \in {<<>>, <<JsonError>>, <<Cut>>}  BY <1>4, <1>6, <1>7
<1>9. /\ t.finalized /\ t.stopped = w.stopped /\ t.promoted = w.promoted
      /\ t.sent = w.sent /\ t.out = w.out
  BY <1>4, <1>5 DEF Session
<1> QED  BY <1>3, <1>4, <1>8, <1>9 DEF Framed

----------------------------------------------------------------------------
(* One lemma per operation of more than one case.                          *)

(* What a step owes the invariant when it leaves hb and call alone.        *)
Keeps(t) ==
  /\ Framed(t)
  /\ s.headersSet \/ s.finalized => t.headersSet \/ t.finalized
  /\ s.stopped => t.stopped
  /\ s.promoted => t.promoted

LEMMA LiveKeeps ==
  ASSUME NEW t, Live(t), s.stopped => t.stopped, s.promoted => t.promoted
  PROVE  Keeps(t)
BY DEF Live, Keeps

LEMMA KeepsInvariant ==
  ASSUME IInv, TypeOK', Keeps(s'), UNCHANGED <<hb, call>>
  PROVE  IInv'
BY DEF IInv, Keeps, HeartbeatHasHeaders, StopMarks, CallbackPromoted

LEMMA SetSSEHeadersKeeps == IInv /\ SetSSEHeaders => Keeps(s')
<1> SUFFICES ASSUME IInv, SetSSEHeaders PROVE Keeps(s')  OBVIOUS
<1>1. CASE s' = s  BY <1>1 DEF Keeps, IInv
<1>2. CASE ~s.committed /\ s' = [s EXCEPT !.ctype = "sse", !.headersSet = TRUE]
  <2>1. /\ s'.ctype = "sse" /\ s'.headersSet /\ s'.stopped = s.stopped
        /\ s'.promoted = s.promoted /\ s'.committed = s.committed
        /\ s'.finalized = s.finalized /\ s'.firstErr = s.firstErr
        /\ s'.sent = s.sent /\ s'.out = s.out
    BY <1>2 DEF IInv, TypeOK, Session
  <2> QED  BY <2>1 DEF Keeps, IInv, Framed
<1> QED  BY <1>1, <1>2 DEF SetSSEHeaders

LEMMA WriteHeaderKeeps == IInv /\ s.headersSet /\ WriteHeader => Keeps(s')
<1> SUFFICES ASSUME IInv, s.headersSet, WriteHeader PROVE Keeps(s')  OBVIOUS
<1>1. s \in Session /\ Framed(s)  BY DEF IInv, TypeOK
<1>2. CASE s.promoted /\ s' = SendHeader(s, OK)
  <2>1. /\ SameMarks(s', s) /\ s'.out = s.out /\ s'.committed = s.committed
        /\ s'.firstErr = s.firstErr
        /\ s'.sent = IF s.sent.status # 0 THEN s.sent
                     ELSE [type |-> s.ctype, status |-> OK]
    BY <1>1, <1>2, SendHeaderFields
  <2>2. ~s.finalized /\ s.ctype = "sse"  BY <1>1 DEF WriteHeader, Framed
  <2>3. s'.sent = StreamHeader  BY <1>1, <2>1, <2>2 DEF StreamHeader, Framed
  <2>4. s'.sent.status # 0  BY <2>3 DEF StreamHeader, OK
  <2> QED  BY <1>1, <1>2, <2>1, <2>2, <2>3, <2>4 DEF Keeps, Framed, SameMarks
<1>3. CASE s' = [s EXCEPT !.statusCode = OK]
  <2>1. /\ SameMarks(s', s) /\ s'.out = s.out /\ s'.committed = s.committed
        /\ s'.firstErr = s.firstErr /\ s'.sent = s.sent
    BY <1>1, <1>3 DEF Session, SameMarks
  <2> QED  BY <1>1, <2>1 DEF Keeps, Framed, SameMarks
<1> QED  BY <1>2, <1>3 DEF WriteHeader

LEMMA SessionIsLive ==
  ASSUME IInv, s.headersSet, ~s.finalized
  PROVE  Live(s)
BY DEF IInv, TypeOK, Live

LEMMA WriteKeeps ==
  ASSUME IInv, s.headersSet, NEW p \in Payload, Write(p)
  PROVE  Keeps(s')
<1>1. Live(s)  BY SessionIsLive DEF Write, Unavailable
<1>2. ASSUME s' = [s EXCEPT !.buf = Append(@, p)] PROVE Keeps(s')
  <2>1. /\ SameMarks(s', s) /\ s'.out = s.out /\ s'.committed = s.committed
        /\ s'.firstErr = s.firstErr /\ s'.sent = s.sent
    BY <1>1, <1>2 DEF Live, Session, SameMarks
  <2> QED  BY <1>1, <2>1 DEF Keeps, Live, Framed, SameMarks
<1>3. ASSUME \E o \in WriteOutcomes(1) : s' = WriteSocket(s, <<p>>, o)
      PROVE  Keeps(s')
  <2>1. PICK o \in WriteOutcomes(1) : s' = WriteSocket(s, <<p>>, o)  BY <1>3
  <2>2. p \in Chunk  BY ChunksHold
  <2>3. Live(s') /\ SameMarks(s', s)
    BY <1>1, <2>1, <2>2, OneChunkFits, OnlyOneErrorBody, WriteKeepsLive
  <2> QED  BY <2>3, LiveKeeps DEF SameMarks
<1> QED  BY <1>2, <1>3 DEF Write

LEMMA FlushKeeps == IInv /\ Flush => Keeps(s')
<1> SUFFICES ASSUME IInv, Flush PROVE Keeps(s')  OBVIOUS
<1>1. s.promoted /\ ~s.finalized  BY DEF Flush, Flushable
<1>2. s.headersSet  BY <1>1 DEF IInv, Framed
<1>3. Live(s)  BY <1>1, <1>2, SessionIsLive
<1>4. PICK ok \in BOOLEAN : s' = FlushSocket(s, ok)  BY DEF Flush
<1>5. Live(s') /\ SameMarks(s', s)  BY <1>1, <1>3, <1>4, FlushKeepsLive
<1> QED  BY <1>5, LiveKeeps DEF SameMarks

LEMMA PromoteKeeps == IInv /\ s.headersSet /\ Promote => Keeps(s')
<1> SUFFICES ASSUME IInv, s.headersSet, Promote PROVE Keeps(s')  OBVIOUS
<1>1. Live(s)  BY SessionIsLive DEF Promote, Unavailable
<1>2. PICK o \in WriteOutcomes(Len(s.buf)), ok \in BOOLEAN : s' = Promoted(s, o, ok)
  BY DEF Promote
<1>3. Live(s') /\ s'.stopped = s.stopped  BY <1>1, <1>2, PromoteKeepsLive
<1>4. ~s.promoted  BY DEF Promote
<1> QED  BY <1>3, <1>4, LiveKeeps

LEMMA DropBufferFramed ==
  ASSUME NEW st \in Session, Framed(st), NEW t, t = DropBuffer(st)
  PROVE  t \in Session /\ Framed(t) /\ SameMarks(t, st)
<1>1. /\ t \in Session /\ SameMarks(t, st) /\ t.out = st.out
      /\ t.committed = st.committed /\ t.firstErr = st.firstErr /\ t.sent = st.sent
  BY DropBufferFields
<1> QED  BY <1>1 DEF Framed, SameMarks

LEMMA DiscardKeeps == IInv /\ Discard => Keeps(s')
<1> SUFFICES ASSUME IInv, Discard PROVE Keeps(s')  OBVIOUS
<1>1. CASE s' = s  BY <1>1 DEF Keeps, IInv
<1>2. CASE s' = DropBuffer(s)
  BY <1>2, DropBufferFramed DEF Keeps, IInv, TypeOK, SameMarks
<1> QED  BY <1>1, <1>2 DEF Discard

LEMMA WriteFinalErrorKeeps == IInv /\ WriteFinalError => Keeps(s')
<1> SUFFICES ASSUME IInv, WriteFinalError PROVE Keeps(s')  OBVIOUS
<1>1. s \in Session /\ Framed(s)  BY DEF IInv, TypeOK
<1>2. ~s.finalized /\ ~s.firstErr  BY DEF WriteFinalError, Unavailable
<1>3. CASE FinalSSE
  <2> DEFINE st == IF s.promoted THEN s ELSE DropBuffer(s)
  <2>1. s.headersSet  BY <1>1, <1>2, <1>3 DEF FinalSSE, Framed
  <2>2. Live(s)  BY <1>1, <1>2, <2>1 DEF Live
  <2>3. Live(st) /\ SameMarks(st, s)
    <3>1. CASE s.promoted  BY <2>2, <3>1 DEF SameMarks
    <3>2. CASE ~s.promoted
      BY <1>1, <2>2, <3>2, DropBufferFramed DEF Live, SameMarks
    <3> QED  BY <3>1, <3>2
  <2>4. PICK o \in WriteOutcomes(1), ok \in BOOLEAN :
          s' = [DirectSSEError(st, o, ok) EXCEPT !.finalized = TRUE]
    BY <1>3 DEF FinalSSE
  <2> DEFINE e == DirectSSEError(st, o, ok)
  <2>5. Live(e) /\ SameMarks(e, st)
    <3> HIDE DEF st
    <3>1. e = FlushSocket(WriteSocket(st, <<SseError>>, o), ok)  BY DEF DirectSSEError
    <3> HIDE DEF e
    <3> QED  BY <2>3, <3>1, ChunksHold, OnlyOneErrorBody, DirectSSEErrorKeepsLive
  <2>6. s' = [e EXCEPT !.finalized = TRUE]  BY <2>4
  <2> HIDE DEF e, st
  <2>7. Framed(s') /\ s'.finalized /\ s'.stopped = e.stopped /\ s'.promoted = e.promoted
    BY <2>5, <2>6, FinalizedFramed DEF Live
  <2> QED  BY <2>3, <2>5, <2>7 DEF Keeps, SameMarks
<1>4. CASE FinalJSON
  <2>1. ~s.promoted /\ ~s.committed  BY <1>4 DEF FinalJSON, JSONAllowed
  <2> DEFINE b == DropBuffer(s)
  <2>2. /\ b \in Session /\ Framed(b) /\ SameMarks(b, s) /\ b.sent.status = 0
    <3>1. s.sent.status = 0  BY <1>1, <1>2, <2>1 DEF Framed
    <3> QED  BY <1>1, <3>1, DropBufferFramed, DropBufferFields
  <2>3. PICK o \in WriteOutcomes(1) :
          s' = [WriteSocket(SendHeader([b EXCEPT !.ctype = "json"], Failure),
                            <<JsonError>>, o) EXCEPT !.finalized = TRUE]
    BY <1>4 DEF FinalJSON
  <2> HIDE DEF b
  <2>5. Framed(s') /\ s'.finalized /\ s'.stopped = b.stopped /\ s'.promoted = b.promoted
    BY <2>2, <2>3, JSONErrorFramed
  <2> QED  BY <2>2, <2>5 DEF Keeps, SameMarks
<1> QED  BY <1>3, <1>4 DEF WriteFinalError

LEMMA CallbackErrorKeeps ==
  ASSUME IInv, CallbackError
  PROVE  Keeps(s')
<1>1. s.promoted /\ ~s.finalized
  BY DEF CallbackError, IInv, CallbackPromoted, Unavailable
<1>2. s.headersSet  BY <1>1 DEF IInv, Framed
<1>3. Live(s)  BY <1>1, <1>2, SessionIsLive
<1>4. PICK o \in WriteOutcomes(1) : s' = WriteSocket(s, <<SseError>>, o)
  BY DEF CallbackError
<1>5. Live(s') /\ SameMarks(s', s)
  BY <1>3, <1>4, OneChunkFits, ChunksHold, OnlyOneErrorBody, WriteKeepsLive
<1> QED  BY <1>5, LiveKeeps DEF SameMarks

LEMMA FinalErrorEndKeeps == IInv /\ FinalErrorEnd => Keeps(s')
<1> SUFFICES ASSUME IInv, FinalErrorEnd PROVE Keeps(s')  OBVIOUS
<1> DEFINE u == [s EXCEPT !.finalizing = FALSE]
<1>1. /\ u \in Session /\ u.headersSet = s.headersSet /\ u.promoted = s.promoted
      /\ u.finalized = s.finalized /\ u.stopped = s.stopped /\ u.ctype = s.ctype
      /\ u.out = s.out /\ u.committed = s.committed /\ u.firstErr = s.firstErr /\ u.sent = s.sent
  BY DEF IInv, TypeOK, Session
<1>2. s' = [u EXCEPT !.finalized = TRUE]  BY DEF FinalErrorEnd
<1> HIDE DEF u
<1>3. Framed(u)  BY <1>1 DEF IInv, Framed
<1>4. Framed(s') /\ s'.finalized /\ s'.stopped = u.stopped /\ s'.promoted = u.promoted
  BY <1>1, <1>2, <1>3, FinalizedFramed
<1> QED  BY <1>1, <1>4 DEF Keeps

(* The steps that touch no field Framed reads.                             *)
LEMMA Untouched ==
  ASSUME IInv, NEW t,
         t.headersSet = s.headersSet, t.promoted = s.promoted,
         t.finalized = s.finalized, t.ctype = s.ctype, s.stopped => t.stopped,
         t.out = s.out, t.committed = s.committed, t.firstErr = s.firstErr,
         t.sent = s.sent
  PROVE  Keeps(t)
BY DEF IInv, Framed, Keeps

LEMMA WriteKeepAliveKeeps ==
  ASSUME IInv, WriteKeepAlive
  PROVE  Keeps(s') /\ (hb' \in {"check", "exited"})
<1>1. CASE KeepAliveRefused(s)
  BY <1>1 DEF WriteKeepAlive, Keeps, IInv
<1>2. CASE ~KeepAliveRefused(s)
  <2>1. ~s.finalized  BY <1>2 DEF KeepAliveRefused
  <2>2. s.headersSet  BY <2>1 DEF WriteKeepAlive, IInv, HeartbeatHasHeaders
  <2>3. Live(s)  BY <2>1, <2>2, SessionIsLive
  <2>4. PICK o \in WriteOutcomes(1), ok \in BOOLEAN :
          s' = FlushSocket(WriteSocket(s, <<KeepAlive>>, o), ok)
    BY <1>2 DEF WriteKeepAlive
  <2>5. Live(s') /\ SameMarks(s', s)
    BY <2>3, <2>4, ChunksHold, OnlyOneErrorBody, DirectSSEErrorKeepsLive
  <2>6. hb' \in {"check", "exited"}  BY <1>2 DEF WriteKeepAlive
  <2> QED  BY <2>5, <2>6, LiveKeeps DEF SameMarks
<1> QED  BY <1>1, <1>2

----------------------------------------------------------------------------
(* The invariant and the two theorems.                                     *)

LEMMA InvariantHoldsInitially == Init => IInv
<1> SUFFICES ASSUME Init PROVE IInv  OBVIOUS
<1>1. TypeOK  BY InitType
<1>2. Framed(s)
  BY NoEmptyElement DEF Init, newStreamSession, Framed
<1> QED  BY <1>1, <1>2 DEF IInv, Init, HeartbeatHasHeaders, StopMarks, CallbackPromoted

LEMMA StepKeepsInvariant == IInv /\ TypeOK' /\ [Next]_sessionVars => IInv'
<1> SUFFICES ASSUME IInv, TypeOK', [Next]_sessionVars PROVE IInv'  OBVIOUS
<1>1. CASE /\ call = "idle"
           /\ SetSSEHeaders \/ (s.headersSet /\ (WriteHeader \/ Promote \/ Discard))
                            \/ WriteFinalError
  <2>1. Keeps(s')
    BY <1>1, SetSSEHeadersKeeps, WriteHeaderKeeps, PromoteKeeps, DiscardKeeps,
       WriteFinalErrorKeeps
  <2>2. UNCHANGED <<hb, call>>
    BY <1>1 DEF SetSSEHeaders, WriteHeader, Promote, Discard, WriteFinalError
  <2> QED  BY <2>1, <2>2, KeepsInvariant
<1>2. CASE Flush
  BY <1>2, FlushKeeps, KeepsInvariant DEF Flush
<1>3. CASE s.headersSet /\ (\E p \in Payload : Write(p)) /\ UNCHANGED call
  <2>1. Keeps(s') /\ UNCHANGED hb  BY <1>3, WriteKeeps DEF Write
  <2> QED  BY <1>3, <2>1, KeepsInvariant
<1>4. CASE FinalErrorBegin
  <2>1. Keeps(s') /\ UNCHANGED hb /\ call' = "callback" /\ s'.promoted
    BY <1>4, Untouched DEF FinalErrorBegin, IInv, TypeOK, Session, SameMarks
  <2> QED  BY <2>1 DEF IInv, Keeps, HeartbeatHasHeaders, StopMarks, CallbackPromoted
<1>5. CASE CallbackError
  <2>1. Keeps(s') /\ UNCHANGED hb /\ call' = "errored" /\ s.promoted
    BY <1>5, CallbackErrorKeeps DEF CallbackError, IInv, CallbackPromoted
  <2> QED  BY <2>1 DEF IInv, Keeps, HeartbeatHasHeaders, StopMarks, CallbackPromoted
<1>6. CASE FinalErrorEnd
  <2>1. Keeps(s') /\ UNCHANGED hb /\ call' = "idle"
    BY <1>6, FinalErrorEndKeeps DEF FinalErrorEnd
  <2> QED  BY <2>1 DEF IInv, Keeps, HeartbeatHasHeaders, StopMarks, CallbackPromoted
<1>7. CASE StopMark
  <2>1. Keeps(s') /\ s'.stopped
    BY <1>7, Untouched DEF StopMark, IInv, TypeOK, Session, SameMarks
  <2> QED
    BY <1>7, <2>1 DEF StopMark, IInv, Keeps, HeartbeatHasHeaders, StopMarks, CallbackPromoted
<1>8. CASE StopClose
  <2>1. Keeps(s')
    BY <1>8, Untouched DEF StopClose, IInv, TypeOK, Session, SameMarks
  <2> QED
    BY <1>8, <2>1 DEF StopClose, IInv, Keeps, HeartbeatHasHeaders, StopMarks, CallbackPromoted
<1>9. CASE StopCancel
  <2>1. Keeps(s')
    BY <1>9, Untouched DEF StopCancel, IInv, TypeOK, Session, SameMarks
  <2> QED
    BY <1>9, <2>1 DEF StopCancel, IInv, Keeps, HeartbeatHasHeaders, StopMarks, CallbackPromoted
<1>10. CASE StopJoin
  BY <1>10 DEF StopJoin, Joined, IInv, HeartbeatHasHeaders, StopMarks, CallbackPromoted
<1>11. CASE HbCheck \/ HbTimer \/ HbDone
  BY <1>11 DEF HbCheck, HbTimer, HbDone, IInv, HeartbeatHasHeaders, StopMarks,
               CallbackPromoted
<1>12. CASE HbActivity
  <2>1. Keeps(s')
    BY <1>12, Untouched DEF HbActivity, IInv, TypeOK, Session, SameMarks
  <2> QED
    BY <1>12, <2>1 DEF HbActivity, IInv, Keeps, HeartbeatHasHeaders, StopMarks, CallbackPromoted
<1>13. CASE WriteKeepAlive
  <2>1. Keeps(s') /\ hb = "fire" /\ hb' \in {"check", "exited"} /\ UNCHANGED call
    BY <1>13, WriteKeepAliveKeeps DEF WriteKeepAlive
  <2> QED  BY <2>1 DEF IInv, Keeps, HeartbeatHasHeaders, StopMarks, CallbackPromoted
<1>14. CASE (s.headersSet \/ s.finalized) /\ Start
  <2>1. Keeps(s')
    BY <1>14, Untouched DEF Start, IInv, TypeOK, Session, SameMarks
  <2>2. s.stopped => UNCHANGED hb  BY <1>14 DEF Start, Launch
  <2> QED
    BY <1>14, <2>1, <2>2 DEF Start, IInv, Keeps, HeartbeatHasHeaders, StopMarks,
                             CallbackPromoted
<1>15. CASE ClientGone
  <2>1. Keeps(s')
    BY <1>15, Untouched DEF ClientGone, IInv, TypeOK, Session, SameMarks
  <2> QED  BY <1>15, <2>1, KeepsInvariant DEF ClientGone
<1>16. CASE UNCHANGED sessionVars
  BY <1>16 DEF sessionVars, IInv, TypeOK, HeartbeatHasHeaders, StopMarks, CallbackPromoted
<1> QED
  BY <1>1, <1>2, <1>3, <1>4, <1>5, <1>6, <1>7, <1>8, <1>9, <1>10, <1>11, <1>12,
     <1>13, <1>14, <1>15, <1>16 DEF Next, RequestCall, StopCall, Heartbeat

(* The strengthening holds in every reachable state.                       *)
THEOREM InvariantHolds == Spec => []IInv
<1>1. Init => IInv  BY InvariantHoldsInitially
<1>2. IInv /\ TypeOK' /\ [Next]_sessionVars => IInv'  BY StepKeepsInvariant
<1> QED  BY <1>1, <1>2, TypeCorrect, PTL DEF Spec

LEMMA FramingFollows == IInv => FramingMatchesHeader
<1> SUFFICES ASSUME IInv PROVE FramingMatchesHeader  OBVIOUS
<1>1. s \in Session /\ Framed(s)  BY DEF IInv, TypeOK
<1>2. CASE s.sent.status = 0
  <2>1. s.sent.type = "none" /\ s.out = <<>>  BY <1>1, <1>2 DEF Framed
  <2>2. Elements(s.out) = {}  BY <2>1 DEF Elements
  <2> QED  BY <2>1, <2>2 DEF FramingMatchesHeader
<1>3. CASE s.sent = StreamHeader
  <2>1. JsonError \notin Elements(s.out)  BY <1>1, <1>3 DEF Framed, StreamHeader
  <2> QED  BY <1>3, <2>1 DEF FramingMatchesHeader, StreamHeader
<1>4. CASE s.sent = JSONHeader /\ s.out \in {<<>>, <<JsonError>>, <<Cut>>}
  <2>1. Elements(s.out) \subseteq {JsonError, Cut}  BY <1>4 DEF Elements
  <2>2. {JsonError, Cut} \cap (Payload \cup {KeepAlive, SseError}) = {}
    BY ChunksDiffer DEF Marker
  <2>3. s.sent.type = "json" /\ s.sent.status = Failure  BY <1>4 DEF JSONHeader
  <2> QED  BY <1>4, <2>1, <2>2, <2>3 DEF FramingMatchesHeader
<1> QED  BY <1>1, <1>2, <1>3, <1>4 DEF Framed

(* For every set of events and every bound, whatever the interleaving of   *)
(* request goroutine, heartbeat and client: a JSON error body is alone     *)
(* under its error status, and everything of a stream is under 200         *)
(* text/event-stream (FramingMatchesHeader).                               *)
THEOREM HeaderMatchesBody == Spec => []FramingMatchesHeader
<1>1. IInv => FramingMatchesHeader  BY FramingFollows
<1> QED  BY <1>1, InvariantHolds, PTL

(* No heartbeat goroutine is running, or can still be started, once Stop   *)
(* has returned (StopJoinsHeartbeat).                                      *)
THEOREM StopJoins == Spec => []StopJoinsHeartbeat
<1>1. IInv => StopJoinsHeartbeat  BY DEF IInv, StopMarks, StopJoinsHeartbeat
<1> QED  BY <1>1, InvariantHolds, PTL

----------------------------------------------------------------------------
(* The life of a session: what no step of another operation touches, or    *)
(* takes back.                                                             *)

(* A write that failed has cancelled the context.                          *)
Cancels(st) == st.firstErr => st.ctxErr

Follows(t, st) ==
  /\ t \in Session
  /\ t.startDone = st.startDone /\ t.stopClosed = st.stopClosed
  /\ t.finalizing = st.finalizing /\ t.finalized = st.finalized
  /\ st.headersSet => t.headersSet
  /\ t.stopped = st.stopped
  /\ st.ctxErr => t.ctxErr
  /\ st.firstErr => t.firstErr
  /\ Cancels(st) => Cancels(t)

LEMMA FollowsItself == ASSUME NEW st \in Session PROVE Follows(st, st)
BY DEF Follows

LEMMA FollowsOn ==
  ASSUME NEW r, NEW t, NEW st, Follows(r, t), Follows(t, st)
  PROVE  Follows(r, st)
BY DEF Follows

LEMMA SendHeaderFollows ==
  ASSUME NEW st \in Session, NEW code \in {OK, Failure}
  PROVE  Follows(SendHeader(st, code), st)
<1> DEFINE v == [type |-> st.ctype, status |-> code]
<1>1. SendHeader(st, code) \in Session  BY SendHeaderType
<1>2. CASE st.sent.status # 0
  <2>1. SendHeader(st, code) = st  BY <1>2 DEF SendHeader
  <2> QED  BY <2>1, FollowsItself
<1>3. CASE st.sent.status = 0
  <2>1. SendHeader(st, code) = [st EXCEPT !.sent = v]  BY <1>3 DEF SendHeader
  <2>2. [st EXCEPT !.sent = v] \in Session  BY <1>1, <2>1
  <2> HIDE DEF v
  <2> QED  BY <2>1, <2>2 DEF Follows, Cancels, Session
<1> QED  BY <1>2, <1>3

LEMMA StoreErrorFollows ==
  ASSUME NEW st \in Session PROVE Follows(StoreError(st), st)
BY StoreErrorType DEF StoreError, Follows, Cancels, Session

LEMMA WriteSocketFollows ==
  ASSUME NEW st \in Session, NEW chunks \in Seq(Chunk), NEW o \in WriteOutcomes(Len(chunks))
  PROVE  Follows(WriteSocket(st, chunks, o), st)
<1> DEFINE h == SendHeader(st, OK)
           a == Accepted(chunks, o)
           w == [h EXCEPT !.out = @ \o a, !.committed = @ \/ a # <<>>]
           g == [w EXCEPT !.pendingFlush = TRUE]
<1>1. h \in Session /\ Follows(h, st)  BY SendHeaderFollows DEF Follows
<1>2. a \in Seq(Chunk)  BY AcceptedType
<1>3. w \in Session /\ Follows(w, h)
  <2> HIDE DEF h, a
  <2>1. h.out \o a \in Seq(Chunk)  BY <1>1, <1>2 DEF Session
  <2>2. (h.committed \/ a # <<>>) \in BOOLEAN  OBVIOUS
  <2>3. w \in Session  BY <1>1, <2>1, <2>2 DEF Session
  <2> QED  BY <1>1, <2>3 DEF Follows, Cancels, Session
<1>4. WriteSocket(st, chunks, o) = IF o.err THEN StoreError(w) ELSE g  BY DEF WriteSocket
<1>5. Follows(w, st)
  <2> HIDE DEF h, w
  <2> QED  BY <1>1, <1>3, FollowsOn
<1> HIDE DEF w
<1>6. Follows(g, w)  BY <1>3 DEF Follows, Cancels, Session
<1> HIDE DEF g
<1> QED  BY <1>3, <1>4, <1>5, <1>6, StoreErrorFollows, FollowsOn

LEMMA FlushSocketFollows ==
  ASSUME NEW st \in Session, NEW ok \in BOOLEAN
  PROVE  Follows(FlushSocket(st, ok), st)
<1> DEFINE f == SendHeader(st, OK)
           g == [f EXCEPT !.pendingFlush = FALSE]
           a == Signal(g)
<1>1. f \in Session /\ Follows(f, st)  BY SendHeaderFollows DEF Follows
<1>2. FlushSocket(st, ok) \in {st, StoreError(f), a, f}  BY DEF FlushSocket
<1> HIDE DEF f
<1>3. g \in Session /\ Follows(g, f)  BY <1>1 DEF Follows, Cancels, Session
<1>4. Follows(a, g)
  <2> HIDE DEF g
  <2> QED  BY <1>3 DEF Follows, Cancels, Session, Signal
<1>5. Follows(a, st)
  <2> HIDE DEF g, a
  <2> QED  BY <1>1, <1>3, <1>4, FollowsOn
<1> HIDE DEF a
<1> QED  BY <1>1, <1>2, <1>5, StoreErrorFollows, FollowsItself, FollowsOn

LEMMA PromotedFollows ==
  ASSUME NEW st \in Session, NEW o \in WriteOutcomes(Len(st.buf)), NEW ok \in BOOLEAN
  PROVE  Follows(Promoted(st, o, ok), st)
<1> DEFINE h == IF st.statusCode # 0 THEN SendHeader(st, OK) ELSE st
           p == [h EXCEPT !.promoted = TRUE]
           w == IF st.buf = <<>> THEN p ELSE WriteSocket(p, st.buf, o)
           r == ResetBuffer(w)
           f == FlushSocket(r, ok)
           c == [f EXCEPT !.committed = @ \/ st.statusCode # 0 \/ st.buf # <<>>]
<1>1. h \in Session /\ Follows(h, st)
  BY SendHeaderFollows, FollowsItself DEF Follows
<1>2. p \in Session /\ Follows(p, h)
  <2> HIDE DEF h
  <2> QED  BY <1>1 DEF Follows, Cancels, Session
<1>3. w \in Session /\ Follows(w, p)
  <2> HIDE DEF p
  <2>1. st.buf \in Seq(Chunk)  BY DEF Session, Chunk
  <2>2. CASE st.buf = <<>>  BY <1>2, <2>2, FollowsItself
  <2>3. CASE st.buf # <<>>
    <3>1. w = WriteSocket(p, st.buf, o)  BY <2>3
    <3>2. Follows(w, p)  BY <1>2, <2>1, <3>1, WriteSocketFollows
    <3> QED  BY <3>2 DEF Follows
  <2> QED  BY <2>2, <2>3
<1>4. r \in Session /\ Follows(r, w)
  <2> HIDE DEF w
  <2>1. r \in Session  BY <1>3, ResetBufferType
  <2> QED  BY <1>3, <2>1 DEF ResetBuffer, Follows, Cancels, Session
<1>5. f \in Session /\ Follows(f, r)
  <2> HIDE DEF r
  <2> QED  BY <1>4, FlushSocketFollows DEF Follows
<1>6. c \in Session /\ Follows(c, f)
  <2> HIDE DEF f
  <2> QED  BY <1>5 DEF Follows, Cancels, Session
<1>7. Promoted(st, o, ok) \in {w, f, c}  BY DEF Promoted
<1> HIDE DEF h, p, w, r, f, c
<1>8. Follows(w, st)  BY <1>1, <1>2, <1>3, FollowsOn
<1>9. Follows(f, st)  BY <1>8, <1>4, <1>5, FollowsOn
<1>10. Follows(c, st)  BY <1>9, <1>6, FollowsOn
<1> QED  BY <1>7, <1>8, <1>9, <1>10

LEMMA DropBufferFollows ==
  ASSUME NEW st \in Session PROVE Follows(DropBuffer(st), st)
BY DropBufferType DEF DropBuffer, Follows, Cancels, Session

(* The steps that begin neither the heartbeat's life nor the session's     *)
(* end.                                                                    *)
Quiet ==
  \/ SetSSEHeaders \/ WriteHeader \/ Flush \/ Promote \/ Discard \/ CallbackError
  \/ \E p \in Payload : Write(p)
  \/ StopCancel \/ StopJoin
  \/ Heartbeat \/ ClientGone
  \/ UNCHANGED sessionVars

LEMMA QuietFollows == ASSUME TypeOK, Quiet PROVE Follows(s', s)
<1>1. s \in Session  BY DEF TypeOK
<1>2. CASE SetSSEHeaders
  <2>1. CASE s' = s  BY <1>1, <2>1, FollowsItself
  <2>2. CASE s' = [s EXCEPT !.ctype = "sse", !.headersSet = TRUE]
    BY <1>1, <2>2 DEF Follows, Cancels, Session, ContentType
  <2> QED  BY <1>2, <2>1, <2>2 DEF SetSSEHeaders
<1>3. CASE WriteHeader
  <2>1. CASE s' = SendHeader(s, OK)  BY <1>1, <2>1, SendHeaderFollows
  <2>2. CASE s' = [s EXCEPT !.statusCode = OK]  BY <1>1, <2>2 DEF Follows, Cancels, Session
  <2> QED  BY <1>3, <2>1, <2>2 DEF WriteHeader
<1>4. CASE Flush
  BY <1>1, <1>4, FlushSocketFollows DEF Flush
<1>5. CASE Promote
  BY <1>1, <1>5, PromotedFollows DEF Promote
<1>6. CASE Discard
  BY <1>1, <1>6, DropBufferFollows, FollowsItself DEF Discard
<1>7. CASE \E p \in Payload : Write(p)
  <2>1. PICK p \in Payload : Write(p)  BY <1>7
  <2>2. CASE s' = [s EXCEPT !.buf = Append(@, p)]
    <3>1. Append(s.buf, p) \in Seq(Payload)  BY <1>1 DEF Session
    <3> QED  BY <1>1, <2>2, <3>1 DEF Follows, Cancels, Session
  <2>3. CASE \E o \in WriteOutcomes(1) : s' = WriteSocket(s, <<p>>, o)
    <3>1. p \in Chunk  BY ChunksHold
    <3> QED  BY <1>1, <2>3, <3>1, OneChunkFits, WriteSocketFollows
  <2> QED  BY <2>1, <2>2, <2>3 DEF Write
<1>8. CASE CallbackError
  <2>1. PICK o \in WriteOutcomes(1) : s' = WriteSocket(s, <<SseError>>, o)
    BY <1>8 DEF CallbackError
  <2>2. SseError \in Chunk  BY ChunksHold
  <2>3. <<SseError>> \in Seq(Chunk) /\ o \in WriteOutcomes(Len(<<SseError>>))
    BY <2>2, OneChunkFits
  <2> QED  BY <1>1, <2>1, <2>3, WriteSocketFollows
<1>9. CASE StopCancel \/ StopJoin
  BY <1>1, <1>9 DEF StopCancel, StopJoin, Follows, Session, Cancels
<1>10. CASE HbCheck \/ HbTimer \/ HbDone
  BY <1>1, <1>10, FollowsItself DEF HbCheck, HbTimer, HbDone
<1>11. CASE HbActivity
  <2>1. s.activity - 1 \in {0, 1}  BY <1>1, <1>11 DEF HbActivity, Session
  <2> QED  BY <1>1, <1>11, <2>1 DEF HbActivity, Follows, Cancels, Session
<1>12. CASE WriteKeepAlive
  <2>1. CASE s' = s  BY <1>1, <2>1, FollowsItself
  <2>2. CASE \E o \in WriteOutcomes(1), ok \in BOOLEAN :
               s' = FlushSocket(WriteSocket(s, <<KeepAlive>>, o), ok)
    <3>1. PICK o \in WriteOutcomes(1), ok \in BOOLEAN :
            s' = FlushSocket(WriteSocket(s, <<KeepAlive>>, o), ok)
      BY <2>2
    <3> DEFINE w == WriteSocket(s, <<KeepAlive>>, o)
    <3>2. Follows(w, s)  BY <1>1, OneChunkFits, ChunksHold, WriteSocketFollows
    <3>3. s' = FlushSocket(w, ok)  BY <3>1
    <3> HIDE DEF w
    <3>4. Follows(s', w)  BY <3>2, <3>3, FlushSocketFollows DEF Follows
    <3> QED  BY <3>2, <3>4, FollowsOn
  <2> QED  BY <1>12, <2>1, <2>2 DEF WriteKeepAlive
<1>13. CASE ClientGone
  BY <1>1, <1>13 DEF ClientGone, Follows, Cancels, Session
<1>14. CASE UNCHANGED sessionVars
  BY <1>1, <1>14, FollowsItself DEF sessionVars
<1> QED
  BY <1>2, <1>3, <1>4, <1>5, <1>6, <1>7, <1>8, <1>9, <1>10, <1>11, <1>12, <1>13, <1>14
  DEF Quiet, Heartbeat

(* Only the two ends of WriteFinalError finalize, and nothing takes the    *)
(* headers back.                                                           *)
LEMMA HeadersStay ==
  ASSUME TypeOK, Quiet \/ Start \/ FinalErrorBegin \/ StopMark \/ StopClose
  PROVE  s'.finalized = s.finalized /\ (s.headersSet => s'.headersSet)
<1>1. s \in Session  BY DEF TypeOK
<1>2. CASE Quiet  BY <1>2, QuietFollows DEF Follows
<1>3. CASE Start \/ FinalErrorBegin \/ StopMark \/ StopClose
  BY <1>1, <1>3 DEF Start, FinalErrorBegin, StopMark, StopClose, Session
<1> QED  BY <1>2, <1>3

(* What WriteFinalError leaves.                                            *)
LEMMA WriteFinalErrorFollows ==
  ASSUME TypeOK, WriteFinalError
  PROVE  s'.finalized /\ s'.stopClosed = s.stopClosed /\ s'.startDone = s.startDone
         /\ (s.headersSet => s'.headersSet)
         /\ s'.stopped = s.stopped /\ (s.ctxErr => s'.ctxErr)
         /\ (Cancels(s) => Cancels(s'))
<1>1. s \in Session  BY DEF TypeOK
<1>2. CASE FinalSSE
  <2> DEFINE st == IF s.promoted THEN s ELSE DropBuffer(s)
  <2>1. Follows(st, s)  BY <1>1, DropBufferFollows, FollowsItself
  <2>2. PICK o \in WriteOutcomes(1), ok \in BOOLEAN :
          s' = [DirectSSEError(st, o, ok) EXCEPT !.finalized = TRUE]
    BY <1>2 DEF FinalSSE
  <2> DEFINE w == WriteSocket(st, <<SseError>>, o)
             e == FlushSocket(w, ok)
  <2> HIDE DEF st
  <2>3. st \in Session  BY <2>1 DEF Follows
  <2>4. Follows(w, st)  BY <2>3, OneChunkFits, ChunksHold, WriteSocketFollows
  <2>5. s' = [e EXCEPT !.finalized = TRUE]  BY <2>2 DEF DirectSSEError
  <2> HIDE DEF w
  <2>6. Follows(e, w)  BY <2>4, FlushSocketFollows DEF Follows
  <2> HIDE DEF e
  <2>7. Follows(e, s)  BY <2>1, <2>4, <2>6, FollowsOn
  <2> QED  BY <2>5, <2>7 DEF Follows, Cancels, Session
<1>3. CASE FinalJSON
  <2> DEFINE b == DropBuffer(s)
             d == [b EXCEPT !.ctype = "json"]
             h == SendHeader(d, Failure)
  <2>1. PICK o \in WriteOutcomes(1) :
          s' = [WriteSocket(h, <<JsonError>>, o) EXCEPT !.finalized = TRUE]
    BY <1>3 DEF FinalJSON
  <2> DEFINE w == WriteSocket(h, <<JsonError>>, o)
  <2>2. Follows(b, s)  BY <1>1, DropBufferFollows
  <2> HIDE DEF b
  <2>3. Follows(d, b)  BY <2>2 DEF Follows, Cancels, Session, ContentType
  <2> HIDE DEF d
  <2>4. Follows(h, d)  BY <2>3, SendHeaderFollows DEF Follows
  <2> HIDE DEF h
  <2>5. Follows(w, h)
    BY <2>4, OneChunkFits, ChunksHold, WriteSocketFollows DEF Follows
  <2>6. s' = [w EXCEPT !.finalized = TRUE]  BY <2>1
  <2> HIDE DEF w
  <2>7. Follows(w, s)  BY <2>2, <2>3, <2>4, <2>5, FollowsOn
  <2> QED  BY <2>6, <2>7 DEF Follows, Cancels, Session
<1> QED  BY <1>2, <1>3 DEF WriteFinalError

----------------------------------------------------------------------------
(* The heartbeat runs for as long as the session can be used.              *)

HeartbeatRuns ==
  HeartbeatOn /\ s.startDone /\ ~Unavailable(s) /\ ~s.finalizing =>
    hb \in {"check", "select", "fire"}

CloseMarks == s.stopClosed => s.stopped

LEMMA FollowsRuns ==
  ASSUME HeartbeatRuns, Follows(s', s), hb' = hb \/ hb' \in {"check", "select", "fire"}
  PROVE  HeartbeatRuns'
BY DEF HeartbeatRuns, Follows, Unavailable

LEMMA StepHeartbeatRuns ==
  ASSUME IInv, CloseMarks, HeartbeatRuns, [Next]_sessionVars
  PROVE  CloseMarks' /\ HeartbeatRuns'
<1>1. TypeOK /\ s \in Session  BY DEF IInv, TypeOK
<1>2. CASE Start
  BY <1>1, <1>2 DEF Start, Launch, CloseMarks, HeartbeatRuns, Session, Unavailable
<1>3. CASE FinalErrorBegin
  BY <1>1, <1>3 DEF FinalErrorBegin, CloseMarks, HeartbeatRuns, Session
<1>4. CASE FinalErrorEnd
  BY <1>1, <1>4 DEF FinalErrorEnd, CloseMarks, HeartbeatRuns, Session, Unavailable
<1>5. CASE WriteFinalError
  BY <1>1, <1>5, WriteFinalErrorFollows DEF CloseMarks, HeartbeatRuns, Unavailable
<1>6. CASE StopClose
  BY <1>1, <1>6 DEF StopClose, CloseMarks, HeartbeatRuns, Session, Unavailable, IInv, StopMarks
<1>7. CASE StopMark
  BY <1>1, <1>7 DEF StopMark, CloseMarks, HeartbeatRuns, Session, Unavailable
<1>8. CASE ~(\/ Start \/ FinalErrorBegin \/ FinalErrorEnd \/ WriteFinalError \/ StopClose
             \/ StopMark)
  <2>1. Follows(s', s)
    <3>1. Quiet  BY <1>8 DEF Next, RequestCall, StopCall, Quiet
    <3> QED  BY <1>1, <3>1, QuietFollows
  <2>2. CloseMarks'  BY <2>1 DEF CloseMarks, Follows
  <2> SUFFICES HeartbeatRuns'  BY <2>2
  <2>3. CASE HbCheck
    BY <2>1, <2>3, FollowsRuns DEF HbCheck, HbOver, HeartbeatRuns, Unavailable
  <2>4. CASE HbDone
    BY <2>4 DEF HbDone, CloseMarks, HeartbeatRuns, Unavailable
  <2>5. CASE WriteKeepAlive
    <3>1. CASE KeepAliveRefused(s)
      BY <2>5, <3>1 DEF WriteKeepAlive, KeepAliveRefused, HeartbeatRuns, Unavailable
    <3>2. CASE ~KeepAliveRefused(s)
      BY <2>1, <2>5, <3>2, FollowsRuns DEF WriteKeepAlive, HeartbeatRuns, Unavailable
    <3> QED  BY <3>1, <3>2
  <2>6. CASE HbTimer \/ HbActivity
    BY <2>1, <2>6, FollowsRuns DEF HbTimer, HbActivity
  <2>7. CASE ~(HbCheck \/ HbDone \/ WriteKeepAlive \/ HbTimer \/ HbActivity)
    <3>1. UNCHANGED hb
      BY <1>8, <2>7 DEF Next, RequestCall, StopCall, Heartbeat, sessionVars, SetSSEHeaders,
         WriteHeader, Flush, Promote, Discard, Write, CallbackError, StopCancel, StopJoin,
         ClientGone
    <3> QED  BY <2>1, <3>1, FollowsRuns
  <2> QED  BY <2>2, <2>3, <2>4, <2>5, <2>6, <2>7
<1> QED  BY <1>2, <1>3, <1>4, <1>5, <1>6, <1>8, <1>7

(* From Start to the end of the session its heartbeat runs: it leaves only *)
(* because of an error, Stop, the client or a final error.                 *)
THEOREM HeartbeatLasts == Spec => []HeartbeatRuns
<1>1. Init => CloseMarks /\ HeartbeatRuns
  BY DEF Init, newStreamSession, CloseMarks, HeartbeatRuns
<1>2. IInv /\ CloseMarks /\ HeartbeatRuns /\ [Next]_sessionVars => CloseMarks' /\ HeartbeatRuns'
  BY StepHeartbeatRuns
<1> QED  BY <1>1, <1>2, InvariantHolds, PTL DEF Spec
----------------------------------------------------------------------------
(* What makes a session unusable: a failed write cancels the context, and  *)
(* only Stop marks the session as stopped.                                 *)

StopCalled == s.stopped => call \in {"stopping", "closed", "cancelled", "stopped"}

LossExplained == Cancels(s) /\ StopCalled

LEMMA StepLossExplained ==
  ASSUME TypeOK, LossExplained, [Next]_sessionVars
  PROVE  LossExplained' /\ (s.ctxErr => s'.ctxErr)
<1>1. s \in Session  BY DEF TypeOK
<1>2. CASE Start
  BY <1>1, <1>2 DEF Start, LossExplained, Cancels, StopCalled, Session
<1>3. CASE FinalErrorBegin \/ FinalErrorEnd
  BY <1>1, <1>3 DEF FinalErrorBegin, FinalErrorEnd, LossExplained, Cancels, StopCalled, Session
<1>4. CASE StopMark \/ StopClose
  BY <1>1, <1>4 DEF StopMark, StopClose, LossExplained, Cancels, StopCalled, Session
<1>5. CASE WriteFinalError
  <2>1. UNCHANGED call  BY <1>5 DEF WriteFinalError
  <2> QED  BY <1>5, <2>1, WriteFinalErrorFollows DEF LossExplained, StopCalled
<1>6. CASE ~(\/ Start \/ FinalErrorBegin \/ FinalErrorEnd \/ WriteFinalError
             \/ StopMark \/ StopClose)
  <2>1. Quiet  BY <1>6 DEF Next, RequestCall, StopCall, Quiet
  <2>2. Follows(s', s)  BY <2>1, QuietFollows
  <2>3. s.stopped => call' \in {"stopping", "closed", "cancelled", "stopped"}
    BY <1>6
    DEF LossExplained, StopCalled, Next, RequestCall, StopCall, Heartbeat, sessionVars,
        SetSSEHeaders, WriteHeader, Flush, Promote, Discard, CallbackError, StopCancel, StopJoin,
        ClientGone, HbCheck, HbTimer, HbActivity, HbDone, WriteKeepAlive
  <2> QED  BY <2>2, <2>3 DEF Follows, LossExplained, StopCalled
<1> QED  BY <1>2, <1>3, <1>4, <1>5, <1>6

(* A session is lost only for a reason: every write error has cancelled    *)
(* the context, so that the heartbeat and the upstream call end with it,   *)
(* and the stopped mark is set only by Stop.                               *)
THEOREM LossHasReason == Spec => []LossExplained
<1>1. Init => LossExplained  BY DEF Init, newStreamSession, LossExplained, Cancels, StopCalled
<1>2. IInv /\ LossExplained /\ [Next]_sessionVars => LossExplained'
  BY StepLossExplained DEF IInv
<1> QED  BY <1>1, <1>2, InvariantHolds, PTL DEF Spec

----------------------------------------------------------------------------
(* The refinement of DownstreamResponse.                                   *)

ErrorFrameEnds ==
  /\ SseError \in Elements(s.out) => s.firstErr \/ s.finalized \/ call = "errored"
  /\ call \in {"callback", "errored"} => s.finalizing

RInv == IInv /\ ErrorFrameEnds

----------------------------------------------------------------------------
(* What reaches the socket of a write: a part of its chunks, in order, and *)
(* possibly a truncated one at the end, which is then an error.            *)
LEMMA AcceptedShape ==
  ASSUME NEW chunks \in Seq(Chunk), NEW o \in WriteOutcomes(Len(chunks)),
         NEW a, a = Accepted(chunks, o)
  PROVE  /\ a \in Seq(Chunk)
         /\ \A i \in 1..Len(a) : a[i] \in Elements(chunks) \/ (i = Len(a) /\ a[i] = Cut /\ o.err)
<1> DEFINE q == SubSeq(chunks, 1, o.n)
           c == IF o.cut THEN <<Cut>> ELSE <<>>
<1>1. /\ o.n \in 0..Len(chunks) /\ o.cut \in BOOLEAN /\ o.err \in BOOLEAN
      /\ o.cut => o.err
  BY DEF WriteOutcomes
<1>2. /\ q \in Seq(Chunk) /\ Len(q) = o.n
      /\ \A i \in 1..o.n : q[i] = chunks[i] /\ i \in DOMAIN chunks
  BY <1>1
<1>3. c \in Seq(Chunk) /\ (c = <<>> \/ (Len(c) = 1 /\ c[1] = Cut /\ o.cut))
  <2>1. CASE o.cut
    <3>1. c = <<Cut>> /\ Cut \in Chunk  BY <2>1 DEF Chunk, Marker
    <3> HIDE DEF c
    <3> QED  BY <2>1, <3>1
  <2>2. CASE ~o.cut
    <3>1. c = <<>>  BY <2>2
    <3> HIDE DEF c
    <3> QED  BY <3>1
  <2> QED  BY <1>1, <2>1, <2>2
<1>4. a = q \o c  BY DEF Accepted
<1> HIDE DEF q, c
<1>5. a \in Seq(Chunk) /\ Len(a) = Len(q) + Len(c)  BY <1>2, <1>3, <1>4
<1>6. ASSUME NEW i \in 1..Len(a)
      PROVE  a[i] \in Elements(chunks) \/ (i = Len(a) /\ a[i] = Cut /\ o.err)
  <2>1. CASE i <= Len(q)
    <3>1. a[i] = q[i] /\ i \in 1..o.n  BY <1>2, <1>3, <1>4, <2>1
    <3> QED  BY <1>2, <3>1 DEF Elements
  <2>2. CASE i > Len(q)
    <3>1. c # <<>>
      <4>1. c = <<>> => Len(c) = 0  OBVIOUS
      <4>2. i \in Int /\ i <= Len(a) /\ Len(q) \in Nat  BY <1>2, <1>5
      <4> QED  BY <1>5, <2>2, <4>1, <4>2
    <3>2. i = Len(q) + 1 /\ Len(c) = 1 /\ c[1] = Cut /\ o.cut
      <4>1. Len(c) = 1 /\ c[1] = Cut /\ o.cut  BY <1>3, <3>1
      <4>2. i \in Int /\ i <= Len(q) + 1 /\ Len(q) \in Nat  BY <1>2, <1>5, <4>1
      <4> QED  BY <2>2, <4>1, <4>2
    <3>3. a[i] = c[1]
      <4>1. i \in (Len(q) + 1)..(Len(q) + Len(c)) /\ i - Len(q) = 1  BY <1>2, <3>2
      <4>2. (q \o c)[i] = c[i - Len(q)]  BY <1>2, <1>3, <4>1
      <4> QED  BY <1>4, <4>1, <4>2
    <3> QED  BY <1>1, <1>5, <3>2, <3>3
  <2> QED  BY <1>2, <2>1, <2>2
<1> QED  BY <1>5, <1>6

----------------------------------------------------------------------------
(* How a step looks to the client.                                         *)

Frames == Payload \cup {KeepAlive}

(* t is st after a write of events or of a comment.                        *)
Streams(st, t) ==
  \E a \in Seq(Chunk) :
    /\ t.out = st.out \o a
    /\ \A i \in 1..Len(a) : a[i] \in Frames \/ (i = Len(a) /\ a[i] = Cut /\ t.firstErr)

LEMMA NotAFrame == SseError \notin Frames /\ Cut \notin Frames /\ SseError # Cut
BY ChunksDiffer DEF Frames, Marker

LEMMA StreamStep ==
  ASSUME s \in Session, s' \in Session, ~Ended, Streams(s, s')
  PROVE  Response!Next
<1>1. PICK a \in Seq(Chunk) :
        /\ s'.out = s.out \o a
        /\ \A i \in 1..Len(a) : a[i] \in Frames \/ (i = Len(a) /\ a[i] = Cut /\ s'.firstErr)
  BY DEF Streams
<1> DEFINE x == s.out
           y == s'.out
<1>2. x \in Seq(Chunk) /\ y \in Seq(Chunk) /\ y = x \o a  BY <1>1 DEF Session
<1> HIDE DEF x, y
<1>3. /\ Len(y) = Len(x) + Len(a)
      /\ \A i \in 1..Len(x) : y[i] = x[i]
      /\ \A i \in (Len(x) + 1)..Len(y) : y[i] = a[i - Len(x)] /\ i - Len(x) \in 1..Len(a)
  BY <1>2
<1>4. Response!Grows  BY <1>2, <1>3 DEF Response!Grows, x, y
<1>5. CASE \A i \in 1..Len(a) : a[i] \in Frames
  <2>1. \A i \in (Len(x) + 1)..Len(y) : y[i] \in Frames  BY <1>3, <1>5
  <2>2. Ended' \in BOOLEAN  BY DEF Ended, Session
  <2>3. Response!Stream
    BY <2>1, <2>2 DEF Response!Stream, Response!fresh, Response!Streamed, Frames, x, y
  <2> QED  BY <1>4, <2>3 DEF Response!Next
<1>6. CASE \E i \in 1..Len(a) : a[i] \notin Frames
  <2>1. Len(a) \in Nat /\ Len(a) >= 1 /\ s'.firstErr  BY <1>1, <1>6
  <2>2. \A i \in (Len(x) + 1)..Len(y) : y[i] \in Frames \/ (i = Len(y) /\ y[i] = Cut)
    <3> SUFFICES ASSUME NEW i \in (Len(x) + 1)..Len(y), y[i] \notin Frames
                 PROVE  i = Len(y) /\ y[i] = Cut
      OBVIOUS
    <3>1. y[i] = a[i - Len(x)] /\ i - Len(x) \in 1..Len(a)  BY <1>3
    <3>2. i - Len(x) = Len(a) /\ a[i - Len(x)] = Cut  BY <1>1, <3>1
    <3>3. i \in Int /\ Len(x) \in Nat  BY <1>2
    <3> QED  BY <1>3, <3>1, <3>2, <3>3
  <2>3. (Len(x) + 1)..Len(y) # {}
    <3>1. Len(x) + 1 \in (Len(x) + 1)..Len(y)  BY <1>2, <1>3, <2>1
    <3> QED  BY <3>1
  <2>4. Ended' = TRUE  BY <2>1 DEF Ended
  <2>5. Response!Break
    BY <2>2, <2>3, <2>4 DEF Response!Break, Response!fresh, Response!Streamed, Frames, x, y
  <2> QED  BY <1>4, <2>5 DEF Response!Next
<1> QED  BY <1>5, <1>6

(* Nothing is written, and what had ended has ended.                       *)
LEMMA QuietStep ==
  ASSUME s' \in Session, s'.out = s.out, Ended => Ended'
  PROVE  [Response!Next]_(Response!responseVars)
<1>1. CASE Ended
  <2>1. Ended' = Ended  BY <1>1 DEF Ended, Session
  <2> QED  BY <2>1 DEF Response!responseVars
<1>2. CASE ~Ended
  <2>1. Ended' \in BOOLEAN  BY DEF Ended, Session
  <2>2. Len(s.out) \in Nat /\ (Len(s.out) + 1)..Len(s.out) = {}
    <3> DEFINE n == Len(s.out)
    <3>1. s.out \in Seq(Chunk)  BY DEF Session
    <3>2. n \in Nat  BY <3>1
    <3> HIDE DEF n
    <3>3. (n + 1)..n = {}  BY <3>2
    <3> QED  BY <3>2, <3>3 DEF n
  <2>3. Response!Grows  BY <2>2 DEF Response!Grows
  <2>4. Response!Stream  BY <2>1, <2>2 DEF Response!Stream, Response!fresh
  <2> QED  BY <1>2, <2>3, <2>4 DEF Response!Next
<1> QED  BY <1>1, <1>2

(* An error frame, whole or truncated, is the last that is written.        *)
LEMMA ErrorStep ==
  ASSUME s \in Session, s' \in Session, ~Ended,
         s'.out = Append(s.out, SseError) /\ Ended'
  PROVE  Response!Next
<1> DEFINE x == s.out
           y == s'.out
<1>1. x \in Seq(Chunk) /\ y = Append(x, SseError)  BY DEF Session
<1> HIDE DEF x, y
<1>2. Len(x) <= Len(y) /\ \A i \in 1..Len(x) : y[i] = x[i]  BY <1>1
<1>3. Response!Grows  BY <1>2 DEF Response!Grows, x, y
<1>4. Response!EndWithSSEError  BY <1>1 DEF Response!EndWithSSEError, Ended, x, y, Session
<1> QED  BY <1>3, <1>4 DEF Response!Next

LEMMA JSONStep ==
  ASSUME s \in Session, s' \in Session, ~Ended, Ended', s.out = <<>>,
         s'.out = <<JsonError>>
  PROVE  Response!Next
<1> DEFINE y == s'.out
<1>1. y = <<JsonError>>  OBVIOUS
<1>2. Len(s.out) = 0  OBVIOUS
<1>3. Response!Grows  BY <1>2 DEF Response!Grows
<1>4. Response!EndWithJSONError  BY DEF Response!EndWithJSONError, Ended, Session
<1> QED  BY <1>3, <1>4 DEF Response!Next

----------------------------------------------------------------------------
(* What the operations of the session do to the bytes written.             *)

(* The write of one chunk, with or without a flush.                        *)
LEMMA OneChunkFields ==
  ASSUME NEW st \in Session, NEW c \in Chunk, NEW o \in WriteOutcomes(1), NEW ok \in BOOLEAN,
         NEW t, t = WriteSocket(st, <<c>>, o) \/ t = FlushSocket(WriteSocket(st, <<c>>, o), ok)
  PROVE  /\ t \in Session /\ SameMarks(t, st)
         /\ t.out = st.out \o Accepted(<<c>>, o)
         /\ st.firstErr \/ o.err => t.firstErr
<1> DEFINE one == <<c>>
           w == WriteSocket(st, one, o)
<1>1. one \in Seq(Chunk) /\ one # <<>> /\ Len(one) = 1  BY OneChunkFits
<1>2. t = w \/ t = FlushSocket(w, ok)  OBVIOUS
<1>3. /\ w \in Session /\ SameMarks(w, st) /\ w.out = st.out \o Accepted(one, o)
      /\ (st.firstErr \/ o.err => w.firstErr)
  <2> HIDE DEF one
  <2>1. o \in WriteOutcomes(Len(one))  BY <1>1
  <2> QED  BY <1>1, <2>1, WriteSocketFields
<1> HIDE DEF w, one
<1>4. CASE t = w  BY <1>3, <1>4 DEF one
<1>5. CASE t = FlushSocket(w, ok)
  <2>1. /\ t \in Session /\ SameMarks(t, w) /\ t.out = w.out
        /\ (w.firstErr => t.firstErr)
    BY <1>3, <1>5, FlushSocketFields
  <2> QED  BY <1>3, <2>1 DEF SameMarks, one
<1> QED  BY <1>2, <1>4, <1>5

LEMMA OneFrameStreams ==
  ASSUME NEW st \in Session, NEW c \in Frames, NEW o \in WriteOutcomes(1), NEW ok \in BOOLEAN,
         NEW t, t = WriteSocket(st, <<c>>, o) \/ t = FlushSocket(WriteSocket(st, <<c>>, o), ok)
  PROVE  t \in Session /\ SameMarks(t, st) /\ Streams(st, t) /\ (st.firstErr => t.firstErr)
<1> DEFINE one == <<c>>
           a == Accepted(one, o)
<1>1. c \in Chunk  BY ChunksHold DEF Frames
<1>2. /\ t \in Session /\ SameMarks(t, st) /\ t.out = st.out \o a
      /\ (st.firstErr \/ o.err => t.firstErr)
  <2>1. t = WriteSocket(st, one, o) \/ t = FlushSocket(WriteSocket(st, one, o), ok)  OBVIOUS
  <2> QED  BY SMTT(30), <1>1, <2>1, OneChunkFields
<1>3. one \in Seq(Chunk) /\ Len(one) = 1 /\ Elements(one) = {c}  BY <1>1, OneChunkFits
<1> HIDE DEF one
<1>4. /\ a \in Seq(Chunk)
      /\ \A i \in 1..Len(a) : a[i] \in Elements(one) \/ (i = Len(a) /\ a[i] = Cut /\ o.err)
  BY <1>3, AcceptedShape
<1> HIDE DEF a
<1> QED  BY <1>2, <1>3, <1>4 DEF Streams

(* Promotion writes the buffered events.                                   *)
LEMMA PromotedStreams ==
  ASSUME NEW st \in Session, NEW o \in WriteOutcomes(Len(st.buf)), NEW ok \in BOOLEAN,
         NEW t, t = Promoted(st, o, ok)
  PROVE  /\ t.stopped = st.stopped /\ t.finalized = st.finalized
         /\ t.finalizing = st.finalizing /\ (st.firstErr => t.firstErr)
         /\ Streams(st, t)
<1> DEFINE h == IF st.statusCode # 0 THEN SendHeader(st, OK) ELSE st
           p == [h EXCEPT !.promoted = TRUE]
           w == IF st.buf = <<>> THEN p ELSE WriteSocket(p, st.buf, o)
           r == ResetBuffer(w)
           f == FlushSocket(r, ok)
           c == [f EXCEPT !.committed = @ \/ st.statusCode # 0 \/ st.buf # <<>>]
           Like(u, v) == /\ u.stopped = v.stopped /\ u.finalized = v.finalized
                         /\ u.finalizing = v.finalizing /\ (v.firstErr => u.firstErr)
<1>1. h \in Session /\ Like(h, st) /\ h.out = st.out
  BY SendHeaderFields DEF SameMarks
<1>2. p \in Session /\ Like(p, st) /\ p.out = st.out
  <2> HIDE DEF h
  <2>1. p \in Session /\ Like(p, h) /\ p.out = h.out  BY <1>1 DEF Session
  <2> HIDE DEF p
  <2> QED  BY <1>1, <2>1
<1>3. w \in Session /\ Like(w, st) /\ Streams(st, w)
  <2> HIDE DEF p
  <2>1. CASE st.buf = <<>>
    <3>1. w = p  BY <2>1
    <3>2. st.out \o <<>> = st.out /\ <<>> \in Seq(Chunk) /\ Len(<<>>) = 0
      BY ConcatEmptySeq DEF Session
    <3> HIDE DEF w
    <3>3. Streams(st, w)
      <4>1. w.out = st.out \o <<>>  BY <1>2, <3>1, <3>2
      <4>2. \A i \in 1..Len(<<>>) : FALSE  BY <3>2
      <4> QED  BY <3>2, <4>1, <4>2 DEF Streams
    <3> QED  BY <1>2, <3>1, <3>3
  <2>2. CASE st.buf # <<>>
    <3> DEFINE b == st.buf
               a == Accepted(b, o)
    <3>1. b \in Seq(Chunk) /\ Elements(b) \subseteq Payload
      BY DEF Session, Elements, Chunk
    <3>2. w = WriteSocket(p, b, o) /\ b # <<>> /\ o \in WriteOutcomes(Len(b))  BY <2>2
    <3> HIDE DEF w, b
    <3>3. /\ w \in Session /\ SameMarks(w, p) /\ w.out = p.out \o a
          /\ (p.firstErr \/ o.err => w.firstErr)
      BY <1>2, <3>1, <3>2, WriteSocketFields
    <3>4. /\ a \in Seq(Chunk)
          /\ \A i \in 1..Len(a) : a[i] \in Elements(b) \/ (i = Len(a) /\ a[i] = Cut /\ o.err)
      BY <3>1, <3>2, AcceptedShape
    <3> HIDE DEF a
    <3>5. Streams(st, w)  BY <1>2, <3>1, <3>3, <3>4 DEF Streams, Frames
    <3> QED  BY <1>2, <3>3, <3>5 DEF SameMarks
  <2> QED  BY <2>1, <2>2
<1>4. r \in Session /\ Like(r, w) /\ r.out = w.out
  <2> HIDE DEF w
  <2>1. r \in Session  BY <1>3, ResetBufferType
  <2> QED  BY <1>3, <2>1 DEF ResetBuffer, Session
<1>5. f \in Session /\ Like(f, r) /\ f.out = r.out
  <2>1. f = FlushSocket(r, ok)  OBVIOUS
  <2> HIDE DEF r, f
  <2>2. /\ f \in Session /\ SameMarks(f, r) /\ f.out = r.out
        /\ (r.firstErr => f.firstErr)
    BY <1>4, <2>1, FlushSocketFields
  <2> QED  BY <2>2 DEF SameMarks
<1>6. c \in Session /\ Like(c, f) /\ c.out = f.out
  <2> HIDE DEF f
  <2> QED  BY <1>5 DEF Session
<1>7. t \in {w, f, c}  BY DEF Promoted
<1> HIDE DEF w, r, f, c, p, h
<1>8. ASSUME NEW v, v \in {w, f, c} PROVE Like(v, st) /\ Streams(st, v)
  <2>1. /\ v.out = w.out /\ (w.firstErr => v.firstErr) /\ Like(v, w)
    BY <1>4, <1>5, <1>6, <1>8
  <2> QED  BY <1>3, <2>1 DEF Streams
<1> QED  BY <1>7, <1>8

----------------------------------------------------------------------------
(* The effects a step may have on what the client sees.                    *)

Kept ==
  /\ s.firstErr => s'.firstErr
  /\ s.stopped => s'.stopped
  /\ s.finalized => s'.finalized

(* While the callback of WriteFinalError runs, finalizing is set.          *)
Held == call' \in {"callback", "errored"} => s'.finalizing

NothingWritten ==
  /\ s'.out = s.out /\ Kept /\ Held
  /\ call = "errored" => call' = "errored" \/ s'.finalized

FramesWritten == ~Unavailable(s) /\ call # "errored" /\ Streams(s, s') /\ Kept /\ Held

ErrorWritten ==
  /\ ~Unavailable(s) /\ call # "errored" /\ Kept /\ Held
  /\ \E o \in WriteOutcomes(1) :
       s'.out = s.out \o Accepted(<<SseError>>, o) /\ (o.err => s'.firstErr)
  /\ s'.finalized \/ call' = "errored"

JSONWritten ==
  /\ ~Unavailable(s) /\ call # "errored" /\ Kept /\ Held /\ s'.finalized
  /\ s.out = <<>> /\ s'.out \in {<<>>, <<JsonError>>, <<Cut>>}

LEMMA WriteEffect ==
  ASSUME RInv, call \in {"idle", "callback"}, UNCHANGED call, NEW p \in Payload, Write(p)
  PROVE  NothingWritten \/ FramesWritten
<1>1. s \in Session /\ ~Unavailable(s)  BY DEF RInv, IInv, TypeOK, Write
<1>2. CASE s' = [s EXCEPT !.buf = Append(@, p)]
  <2>1. /\ s'.out = s.out /\ s'.firstErr = s.firstErr /\ s'.stopped = s.stopped
        /\ s'.finalized = s.finalized /\ s'.finalizing = s.finalizing
    BY <1>1, <1>2 DEF Session
  <2> QED  BY <2>1 DEF NothingWritten, Kept, Held, RInv, ErrorFrameEnds
<1>3. CASE \E o \in WriteOutcomes(1) : s' = WriteSocket(s, <<p>>, o)
  <2>1. PICK o \in WriteOutcomes(1) : s' = WriteSocket(s, <<p>>, o)  BY <1>3
  <2>2. p \in Frames /\ TRUE \in BOOLEAN  BY DEF Frames
  <2>3. SameMarks(s', s) /\ Streams(s, s') /\ (s.firstErr => s'.firstErr)
    BY <1>1, <2>1, <2>2, OneFrameStreams
  <2> QED
    BY <1>1, <2>3 DEF FramesWritten, Kept, Held, SameMarks, RInv, ErrorFrameEnds
<1> QED  BY <1>2, <1>3 DEF Write

LEMMA WriteKeepAliveEffect ==
  ASSUME RInv, WriteKeepAlive PROVE NothingWritten \/ FramesWritten
<1>1. s \in Session /\ UNCHANGED call  BY DEF RInv, IInv, TypeOK, WriteKeepAlive
<1>2. CASE KeepAliveRefused(s)
  BY <1>1, <1>2 DEF WriteKeepAlive, NothingWritten, Kept, Held, RInv, ErrorFrameEnds
<1>3. CASE ~KeepAliveRefused(s)
  <2>1. ~s.finalizing /\ ~Unavailable(s)  BY <1>3 DEF KeepAliveRefused
  <2>2. call # "errored"  BY <2>1 DEF RInv, ErrorFrameEnds
  <2>3. PICK o \in WriteOutcomes(1), ok \in BOOLEAN :
          s' = FlushSocket(WriteSocket(s, <<KeepAlive>>, o), ok)
    BY <1>3 DEF WriteKeepAlive
  <2>4. KeepAlive \in Frames  BY DEF Frames
  <2>5. SameMarks(s', s) /\ Streams(s, s') /\ (s.firstErr => s'.firstErr)
    BY <1>1, <2>3, <2>4, OneFrameStreams
  <2> QED
    BY <1>1, <2>1, <2>2, <2>5 DEF FramesWritten, Kept, Held, SameMarks, RInv, ErrorFrameEnds
<1> QED  BY <1>2, <1>3

LEMMA PromoteEffect ==
  ASSUME RInv, call = "idle", Promote PROVE FramesWritten
<1>1. s \in Session /\ ~Unavailable(s) /\ UNCHANGED call
  BY DEF RInv, IInv, TypeOK, Promote
<1>2. PICK o \in WriteOutcomes(Len(s.buf)), ok \in BOOLEAN : s' = Promoted(s, o, ok)
  BY DEF Promote
<1>3. /\ s'.stopped = s.stopped /\ s'.finalized = s.finalized
      /\ (s.firstErr => s'.firstErr) /\ Streams(s, s')
  BY <1>1, <1>2, PromotedStreams
<1> QED  BY <1>1, <1>3 DEF FramesWritten, Kept, Held

LEMMA ErrorFrameFields ==
  ASSUME NEW st \in Session, NEW o \in WriteOutcomes(1), NEW ok \in BOOLEAN,
         NEW t, t = FlushSocket(WriteSocket(st, <<SseError>>, o), ok)
  PROVE  /\ t \in Session /\ SameMarks(t, st)
         /\ t.out = st.out \o Accepted(<<SseError>>, o)
         /\ o.err => t.firstErr
BY OneChunkFields, ChunksHold

LEMMA WriteFinalErrorEffect ==
  ASSUME RInv, call = "idle", WriteFinalError PROVE ErrorWritten \/ JSONWritten
<1>1. s \in Session /\ Framed(s) /\ ~Unavailable(s) /\ UNCHANGED call
  BY DEF RInv, IInv, TypeOK, WriteFinalError
<1>2. CASE FinalSSE
  <2> DEFINE st == IF s.promoted THEN s ELSE DropBuffer(s)
  <2>1. st \in Session /\ SameMarks(st, s) /\ st.out = s.out
    BY <1>1, DropBufferFields DEF SameMarks
  <2>2. PICK o \in WriteOutcomes(1), ok \in BOOLEAN :
          s' = [DirectSSEError(st, o, ok) EXCEPT !.finalized = TRUE]
    BY <1>2 DEF FinalSSE
  <2> DEFINE e == DirectSSEError(st, o, ok)
  <2>3. s' = [e EXCEPT !.finalized = TRUE]  BY <2>2
  <2> HIDE DEF st
  <2>6. e = FlushSocket(WriteSocket(st, <<SseError>>, o), ok)  BY DEF DirectSSEError
  <2>7. SseError \in Chunk  BY ChunksHold
  <2> HIDE DEF e
  <2>4. /\ e \in Session /\ SameMarks(e, st)
        /\ e.out = st.out \o Accepted(<<SseError>>, o)
        /\ (o.err => e.firstErr)
    BY <2>1, <2>6, <2>7, ErrorFrameFields
  <2>5. /\ s'.finalized /\ s'.out = e.out /\ s'.stopped = e.stopped
        /\ s'.firstErr = e.firstErr
    BY <2>3, <2>4 DEF Session
  <2> QED
    BY <1>1, <2>1, <2>4, <2>5 DEF ErrorWritten, Kept, Held, SameMarks, Unavailable
<1>3. CASE FinalJSON
  <2>1. s.sent.status = 0 /\ s.out = <<>>
    BY <1>1, <1>3 DEF FinalJSON, JSONAllowed, Framed, Unavailable
  <2> DEFINE b == DropBuffer(s)
             d == [b EXCEPT !.ctype = "json"]
             h == SendHeader(d, Failure)
  <2>2. b \in Session /\ SameMarks(b, s) /\ b.out = <<>>
    BY <1>1, <2>1, DropBufferFields
  <2>3. d \in Session /\ d.stopped = s.stopped /\ d.out = <<>>
    <3> HIDE DEF b
    <3> QED  BY <2>2 DEF Session, SameMarks, ContentType
  <2>4. h \in Session /\ h.stopped = s.stopped /\ h.out = <<>>
    <3> HIDE DEF d
    <3> QED  BY <2>3, SendHeaderFields DEF SameMarks
  <2>5. PICK o \in WriteOutcomes(1) :
          s' = [WriteSocket(h, <<JsonError>>, o) EXCEPT !.finalized = TRUE]
    BY <1>3 DEF FinalJSON
  <2> HIDE DEF h
  <2> DEFINE w == WriteSocket(h, <<JsonError>>, o)
  <2>6. w \in Session /\ SameMarks(w, h) /\ w.out = h.out \o Accepted(<<JsonError>>, o)
    BY <2>4, OneChunkFields, ChunksHold
  <2>7. s' = [w EXCEPT !.finalized = TRUE]  BY <2>5
  <2> HIDE DEF w
  <2>8. s'.finalized /\ s'.out = w.out /\ s'.stopped = w.stopped  BY <2>6, <2>7 DEF Session
  <2>9. w.out \in {<<>>, <<JsonError>>, <<Cut>>}
    <3>1. Accepted(<<JsonError>>, o) \in {<<>>, <<JsonError>>, <<Cut>>}
      BY OneChunkAccepted, ChunksHold
    <3>2. <<>> \o <<>> = <<>> /\ <<>> \o <<JsonError>> = <<JsonError>> /\ <<>> \o <<Cut>> = <<Cut>>
      OBVIOUS
    <3> QED  BY <2>4, <2>6, <3>1, <3>2
  <2> QED
    BY <1>1, <2>1, <2>4, <2>6, <2>8, <2>9
    DEF JSONWritten, Kept, Held, SameMarks, Unavailable
<1> QED  BY <1>2, <1>3 DEF WriteFinalError

LEMMA CallbackErrorEffect == ASSUME RInv, CallbackError PROVE ErrorWritten
<1>1. s \in Session /\ ~Unavailable(s) /\ call = "callback" /\ call' = "errored" /\ s.finalizing
  BY DEF RInv, IInv, TypeOK, CallbackError, ErrorFrameEnds
<1>2. PICK o \in WriteOutcomes(1) : s' = WriteSocket(s, <<SseError>>, o)
  BY DEF CallbackError
<1>3. TRUE \in BOOLEAN  OBVIOUS
<1>4. /\ SameMarks(s', s) /\ s'.out = s.out \o Accepted(<<SseError>>, o)
      /\ (s.firstErr \/ o.err => s'.firstErr)
  BY <1>1, <1>2, <1>3, OneChunkFields, ChunksHold
<1> QED  BY <1>1, <1>4 DEF ErrorWritten, Kept, Held, SameMarks

(* Every step of the session has one of the effects.                       *)
LEMMA StepEffect ==
  RInv /\ [Next]_sessionVars => NothingWritten \/ FramesWritten \/ ErrorWritten \/ JSONWritten
<1> SUFFICES ASSUME RInv, [Next]_sessionVars
             PROVE  NothingWritten \/ FramesWritten \/ ErrorWritten \/ JSONWritten
  OBVIOUS
<1>1. s \in Session  BY DEF RInv, IInv, TypeOK
<1>2. ASSUME s'.out = s.out, s'.firstErr = s.firstErr, s.stopped => s'.stopped,
             s'.finalized = s.finalized, s'.finalizing = s.finalizing,
             call' = call \/ call' \notin {"callback", "errored"}, call # "errored" \/ call' = call
      PROVE  NothingWritten
  BY <1>2 DEF NothingWritten, Kept, Held, RInv, ErrorFrameEnds
<1>3. CASE /\ call = "idle"
           /\ SetSSEHeaders \/ WriteHeader \/ Discard
  <2>1. UNCHANGED call  BY <1>3 DEF SetSSEHeaders, WriteHeader, Discard
  <2>2. CASE SetSSEHeaders
    <3>1. CASE s' = s  BY <1>2, <2>1, <3>1
    <3>2. CASE s' = [s EXCEPT !.ctype = "sse", !.headersSet = TRUE]
      <4>1. /\ s'.out = s.out /\ s'.firstErr = s.firstErr /\ s'.stopped = s.stopped
            /\ s'.finalized = s.finalized /\ s'.finalizing = s.finalizing
        BY <1>1, <3>2 DEF Session
      <4> QED  BY <1>2, <2>1, <4>1
    <3> QED  BY <2>2, <3>1, <3>2 DEF SetSSEHeaders
  <2>3. CASE WriteHeader
    <3>1. /\ s'.out = s.out /\ s'.firstErr = s.firstErr /\ s'.stopped = s.stopped
          /\ s'.finalized = s.finalized /\ s'.finalizing = s.finalizing
      <4>1. CASE s' = SendHeader(s, OK)  BY <1>1, <4>1, SendHeaderFields DEF SameMarks
      <4>2. CASE s' = [s EXCEPT !.statusCode = OK]  BY <1>1, <4>2 DEF Session
      <4> QED  BY <2>3, <4>1, <4>2 DEF WriteHeader
    <3> QED  BY <1>2, <2>1, <3>1
  <2>4. CASE Discard
    <3>1. /\ s'.out = s.out /\ s'.firstErr = s.firstErr /\ s'.stopped = s.stopped
          /\ s'.finalized = s.finalized /\ s'.finalizing = s.finalizing
      BY <1>1, <2>4, DropBufferFields DEF Discard, SameMarks
    <3> QED  BY <1>2, <2>1, <3>1
  <2> QED  BY <1>3, <2>2, <2>3, <2>4
<1>4. CASE Flush
  <2>1. PICK ok \in BOOLEAN : s' = FlushSocket(s, ok)  BY <1>4 DEF Flush
  <2>2. SameMarks(s', s) /\ s'.out = s.out /\ (s.firstErr => s'.firstErr) /\ UNCHANGED call
    BY <1>1, <1>4, <2>1, FlushSocketFields DEF Flush
  <2> QED  BY <2>2 DEF SameMarks, NothingWritten, Kept, Held, RInv, ErrorFrameEnds
<1>5. CASE call = "idle" /\ (Promote \/ WriteFinalError)
  BY <1>5, PromoteEffect, WriteFinalErrorEffect
<1>6. CASE call \in {"idle", "callback"} /\ (\E p \in Payload : Write(p)) /\ UNCHANGED call
  BY <1>6, WriteEffect
<1>7. CASE FinalErrorBegin
  <2>1. /\ s'.out = s.out /\ s'.firstErr = s.firstErr /\ s'.stopped = s.stopped
        /\ s'.finalized = s.finalized /\ s'.finalizing /\ call = "idle"
    BY <1>1, <1>7 DEF FinalErrorBegin, Session
  <2> QED  BY <2>1 DEF NothingWritten, Kept, Held
<1>8. CASE CallbackError  BY <1>8, CallbackErrorEffect
<1>9. CASE FinalErrorEnd
  <2>1. /\ s'.out = s.out /\ s'.firstErr = s.firstErr /\ s'.stopped = s.stopped
        /\ s'.finalized /\ call' = "idle"
    BY <1>1, <1>9 DEF FinalErrorEnd, Session
  <2> QED  BY <2>1 DEF NothingWritten, Kept, Held
<1>10. CASE StopCall
  <2>1. /\ s'.out = s.out /\ s'.firstErr = s.firstErr /\ (s.stopped => s'.stopped)
        /\ s'.finalized = s.finalized /\ s'.finalizing = s.finalizing
    BY <1>1, <1>10 DEF StopCall, StopMark, StopClose, StopCancel, StopJoin, Session
  <2>2. call # "errored" /\ call' \notin {"callback", "errored"}
    BY <1>10 DEF StopCall, StopMark, StopClose, StopCancel, StopJoin
  <2> QED  BY <1>2, <2>1, <2>2
<1>11. CASE WriteKeepAlive  BY <1>11, WriteKeepAliveEffect
<1>12. CASE HbCheck \/ HbTimer \/ HbActivity \/ HbDone \/ Start \/ ClientGone
  <2>1. /\ s'.out = s.out /\ s'.firstErr = s.firstErr /\ s'.stopped = s.stopped
        /\ s'.finalized = s.finalized /\ s'.finalizing = s.finalizing
    BY <1>1, <1>12 DEF HbCheck, HbTimer, HbActivity, HbDone, Start, ClientGone, Session
  <2>2. UNCHANGED call
    BY <1>12 DEF HbCheck, HbTimer, HbActivity, HbDone, Start, ClientGone
  <2> QED  BY <1>2, <2>1, <2>2
<1>13. CASE UNCHANGED sessionVars  BY <1>2, <1>13 DEF sessionVars
<1> QED
  BY <1>3, <1>4, <1>5, <1>6, <1>7, <1>8, <1>9, <1>10, <1>11, <1>12, <1>13
  DEF Next, RequestCall, Heartbeat

----------------------------------------------------------------------------
(* The invariant, and the mapping of the steps.                            *)

LEMMA NotEnded ==
  ASSUME RInv, ~Unavailable(s), call # "errored" PROVE ~Ended
BY DEF RInv, ErrorFrameEnds, Unavailable, Ended

(* Frames bring no error frame with them.                                  *)
LEMMA StreamsNoError ==
  ASSUME NEW st \in Session, NEW t, Streams(st, t), SseError \in Elements(t.out)
  PROVE  SseError \in Elements(st.out)
<1>1. PICK a \in Seq(Chunk) :
        /\ t.out = st.out \o a
        /\ \A i \in 1..Len(a) : a[i] \in Frames \/ (i = Len(a) /\ a[i] = Cut /\ t.firstErr)
  BY Zenon DEF Streams
<1>2. SseError \notin Elements(a)
  <2>1. DOMAIN a = 1..Len(a)  OBVIOUS
  <2> QED  BY <1>1, <2>1, NotAFrame DEF Elements
<1>3. Elements(t.out) \subseteq Elements(st.out) \cup Elements(a)
  <2> DEFINE x == st.out
  <2>1. x \in Seq(Chunk)  BY DEF Session
  <2> HIDE DEF x
  <2>2. Elements(x \o a) \subseteq Elements(x) \cup Elements(a)
    BY <2>1, ElementsOfConcat
  <2> QED  BY <1>1, <2>2 DEF x
<1> QED  BY <1>2, <1>3

LEMMA StepErrorFrameEnds == RInv /\ [Next]_sessionVars => ErrorFrameEnds'
<1> SUFFICES ASSUME RInv, [Next]_sessionVars PROVE ErrorFrameEnds'
  OBVIOUS
<1>1. s \in Session  BY DEF RInv, IInv, TypeOK
<1>2. CASE NothingWritten
  BY <1>2 DEF NothingWritten, Kept, Held, RInv, ErrorFrameEnds
<1>3. CASE FramesWritten
  <2>1. SseError \notin Elements(s.out)  BY <1>3, NotEnded DEF FramesWritten, Ended
  <2>2. SseError \notin Elements(s'.out)
    BY <1>1, <1>3, <2>1, StreamsNoError DEF FramesWritten
  <2> QED  BY <1>3, <2>2 DEF FramesWritten, Held, ErrorFrameEnds
<1>4. CASE ErrorWritten \/ JSONWritten
  BY <1>4 DEF ErrorWritten, JSONWritten, Held, ErrorFrameEnds
<1> QED  BY <1>2, <1>3, <1>4, StepEffect

LEMMA ErrorWrittenStep ==
  ASSUME RInv, s' \in Session, ErrorWritten PROVE [Response!Next]_(Response!responseVars)
<1>1. s \in Session  BY DEF RInv, IInv, TypeOK
<1>2. PICK o \in WriteOutcomes(1) :
        s'.out = s.out \o Accepted(<<SseError>>, o) /\ (o.err => s'.firstErr)
  BY DEF ErrorWritten
<1>3. ~Ended  BY NotEnded DEF ErrorWritten
<1> DEFINE one == <<SseError>>
           a == Accepted(one, o)
<1>4. one \in Seq(Chunk) /\ Len(one) = 1 /\ Elements(one) = {SseError}
  BY OneChunkFits, ChunksHold
<1>5. a \in {<<>>, <<SseError>>, <<Cut>>}  BY OneChunkAccepted, ChunksHold
<1>6. /\ a \in Seq(Chunk)
      /\ \A i \in 1..Len(a) : a[i] = SseError \/ (i = Len(a) /\ a[i] = Cut /\ o.err)
  <2> HIDE DEF one
  <2> QED  BY <1>4, AcceptedShape
<1> HIDE DEF a, one
<1>7. s'.out = s.out \o a  BY <1>2 DEF a, one
<1>8. CASE a = <<SseError>>
  <2> DEFINE x == s.out
  <2>1. x \in Seq(Chunk)  BY <1>1 DEF Session
  <2> HIDE DEF x
  <2>2. x \o <<SseError>> = Append(x, SseError)  BY <2>1, ChunksHold
  <2>3. s'.out = Append(s.out, SseError)  BY <1>7, <1>8, <2>2 DEF x
  <2>4. SseError \in Elements(Append(x, SseError))
    <3> DEFINE y == Append(x, SseError)
    <3>1. y[Len(x) + 1] = SseError /\ Len(x) + 1 \in DOMAIN y  BY <2>1
    <3> HIDE DEF y
    <3> QED  BY <3>1 DEF Elements, y
  <2>5. Ended'  BY <2>3, <2>4 DEF Ended, x
  <2> QED  BY <1>1, <1>3, <2>3, <2>5, ErrorStep
<1>9. CASE a # <<SseError>>
  <2>1. \A i \in 1..Len(a) : a[i] = Cut /\ i = Len(a) /\ s'.firstErr
    <3>1. a = <<>> \/ a = <<Cut>>  BY <1>5, <1>9
    <3>2. Len(<<>>) = 0 /\ Len(<<Cut>>) = 1 /\ <<Cut>>[1] = Cut  OBVIOUS
    <3>3. ASSUME NEW i \in 1..Len(a) PROVE a[i] = Cut
      BY <3>1, <3>2, <3>3
    <3> QED  BY <1>2, <1>6, <3>3, NotAFrame
  <2>2. Streams(s, s')  BY <1>6, <1>7, <2>1 DEF Streams
  <2> QED  BY <1>1, <1>3, <2>2, StreamStep
<1> QED  BY <1>8, <1>9

(* A JSON error that was cut short.                                        *)
LEMMA CutStep ==
  ASSUME s \in Session, s' \in Session, ~Ended, Ended', s.out = <<>>, s'.out = <<Cut>>
  PROVE  Response!Next
<1>1. Len(s.out) = 0 /\ Len(s'.out) = 1 /\ s'.out[1] = Cut  OBVIOUS
<1>2. Response!Grows  BY <1>1 DEF Response!Grows
<1>3. Ended' = TRUE  BY DEF Ended, Session
<1>4. (Len(s.out) + 1)..Len(s'.out) = {1}  BY <1>1
<1>5. Response!Break
  BY <1>1, <1>3, <1>4 DEF Response!Break, Response!fresh
<1> QED  BY <1>2, <1>5 DEF Response!Next

LEMMA JSONWrittenStep ==
  ASSUME RInv, s' \in Session, JSONWritten PROVE [Response!Next]_(Response!responseVars)
<1>1. s \in Session /\ ~Ended /\ Ended' /\ s.out = <<>>
  BY NotEnded DEF RInv, IInv, TypeOK, JSONWritten, Ended
<1>2. CASE s'.out = <<>>
  BY <1>1, <1>2, QuietStep
<1>3. CASE s'.out = <<JsonError>>
  BY <1>1, <1>3, JSONStep
<1>4. CASE s'.out = <<Cut>>
  BY <1>1, <1>4, CutStep
<1> QED  BY <1>2, <1>3, <1>4 DEF JSONWritten

----------------------------------------------------------------------------
LEMMA InitRInv == Init => ErrorFrameEnds
BY NoEmptyElement DEF Init, ErrorFrameEnds, newStreamSession

(* Whatever the interleaving: once an error frame is on the wire firstErr  *)
(* or finalized is set, so that every later write is refused, or           *)
(* WriteFinalError is about to set finalized while finalizing keeps the    *)
(* heartbeat, the only other writer, away.                                 *)
THEOREM NothingAfterError == Spec => []ErrorFrameEnds
<1>1. Init => IInv /\ ErrorFrameEnds  BY InvariantHoldsInitially, InitRInv
<1>2. IInv /\ ErrorFrameEnds /\ TypeOK' /\ [Next]_sessionVars => IInv' /\ ErrorFrameEnds'
  BY StepKeepsInvariant, StepErrorFrameEnds DEF RInv
<1> QED  BY <1>1, <1>2, TypeCorrect, PTL DEF Spec

LEMMA InitRefines == Init => Response!Init
BY NoEmptyElement DEF Init, Response!Init, Ended, newStreamSession

LEMMA StepRefines ==
  RInv /\ TypeOK' /\ [Next]_sessionVars => [Response!Next]_(Response!responseVars)
<1> SUFFICES ASSUME RInv, TypeOK', [Next]_sessionVars
             PROVE  [Response!Next]_(Response!responseVars)
  OBVIOUS
<1>1. s \in Session /\ s' \in Session  BY DEF RInv, IInv, TypeOK
<1>2. CASE NothingWritten
  <2>1. Ended => Ended'  BY <1>2 DEF NothingWritten, Kept, Held, Ended
  <2> QED  BY <1>1, <1>2, <2>1, QuietStep DEF NothingWritten
<1>3. CASE FramesWritten
  <2>1. ~Ended  BY <1>3, NotEnded DEF FramesWritten
  <2> QED  BY <1>1, <1>3, <2>1, StreamStep DEF FramesWritten
<1>4. CASE ErrorWritten  BY <1>1, <1>4, ErrorWrittenStep
<1>5. CASE JSONWritten  BY <1>1, <1>5, JSONWrittenStep
<1> QED  BY <1>2, <1>3, <1>4, <1>5, StepEffect

(* The whole session implements the promise of one streaming response, for *)
(* all payloads and all interleavings: the body only grows; an error frame *)
(* or a truncated chunk is the last thing in it; a JSON error is the whole *)
(* body; and after the end nothing is written (ImplementsResponse).        *)
THEOREM RefinesResponse == Spec => ImplementsResponse
<1>1. Spec => []ErrorFrameEnds  BY NothingAfterError
<1>2. Spec => []IInv  BY InvariantHolds
<1>3. Spec => []TypeOK  BY TypeCorrect
<1>4. IInv /\ ErrorFrameEnds /\ TypeOK' /\ [Next]_sessionVars
      => [Response!Next]_(Response!responseVars)
  BY StepRefines DEF RInv
<1> QED
  BY <1>1, <1>2, <1>3, <1>4, InitRefines, PTL DEF Spec, ImplementsResponse, Response!Spec

----------------------------------------------------------------------------
(* The delivery of the accepted events.                                    *)


Events(st) == Filter(st.out, Payload)

BeginsWith(q, p) == \E rest \in Seq(Payload) : Joins(q, p, rest)

Delivers(st, offered) ==
  /\ ~st.promoted => Events(st) = <<>>
  /\ st.promoted /\ ~st.firstErr => st.buf = <<>>
  /\ ~st.firstErr => Joins(offered, Events(st), st.buf)
  /\ BeginsWith(offered, Events(st))

DInv == TypeOK /\ Delivers(s, hist.offered)

----------------------------------------------------------------------------
(* Sequences of events.                                                    *)

LEMMA EventsType ==
  ASSUME NEW st \in Session PROVE Events(st) \in Seq(Payload)
<1>1. st.out \in Seq(Chunk)  BY DEF Session
<1>2. Filter(st.out, Payload) \in Seq(Chunk \cap Payload)  BY <1>1, FilterType
<1>3. Chunk \cap Payload = Payload  BY DEF Chunk
<1> QED  BY <1>2, <1>3 DEF Events

LEMMA BeginsWithSelf ==
  ASSUME NEW p \in Seq(Payload) PROVE Joins(p, p, <<>>) /\ BeginsWith(p, p)
<1>1. p \o <<>> = p /\ <<>> \in Seq(Payload)  BY ConcatEmptySeq
<1> QED  BY <1>1 DEF Joins, BeginsWith

LEMMA EmptyBegins ==
  ASSUME NEW p \in Seq(Payload) PROVE Joins(p, <<>>, p) /\ BeginsWith(p, <<>>)
<1>1. <<>> \o p = p  BY ConcatEmptySeq
<1> QED  BY <1>1 DEF Joins, BeginsWith

LEMMA BeginsWithLonger ==
  ASSUME NEW p \in Seq(Payload), NEW q, NEW a \in Seq(Payload),
         BeginsWith(q, p)
  PROVE  BeginsWith(q \o a, p)
<1>1. PICK r \in Seq(Payload) : q = p \o r  BY DEF BeginsWith, Joins
<1>2. (p \o r) \o a = p \o (r \o a)  BY ConcatAssociative
<1>3. r \o a \in Seq(Payload)  OBVIOUS
<1> QED  BY <1>1, <1>2, <1>3 DEF BeginsWith, Joins

LEMMA BeginsWithBoth ==
  ASSUME NEW p \in Seq(Payload), NEW a \in Seq(Payload), NEW b, BeginsWith(b, a)
  PROVE  BeginsWith(p \o b, p \o a)
<1>1. PICK r \in Seq(Payload) : b = a \o r  BY DEF BeginsWith, Joins
<1>2. (p \o a) \o r = p \o (a \o r)  BY <1>1, ConcatAssociative
<1> QED  BY <1>1, <1>2 DEF BeginsWith, Joins

(* The form in which DeliveredInOrder says it.                             *)
LEMMA BeginsWithIsPrefix ==
  ASSUME NEW p \in Seq(Payload), NEW q, BeginsWith(q, p)
  PROVE  Len(p) <= Len(q) /\ p = SubSeq(q, 1, Len(p))
<1>1. PICK r \in Seq(Payload) : q = p \o r  BY DEF BeginsWith, Joins
<1> DEFINE n == Len(p)
<1>2. /\ q \in Seq(Payload) /\ Len(q) = n + Len(r) /\ n \in Nat /\ Len(r) \in Nat
      /\ \A i \in 1..n : q[i] = p[i]
  BY <1>1
<1>3. n <= Len(q)
  <2> HIDE DEF n
  <2> QED  BY <1>2
<1> DEFINE z == SubSeq(q, 1, n)
<1>4. z \in Seq(Payload) /\ Len(z) = n /\ \A i \in 1..n : z[i] = q[i]
  <2> HIDE DEF n
  <2> QED  BY <1>2, <1>3
<1>5. p = z
  <2> HIDE DEF z
  <2>1. Len(p) = Len(z) /\ \A i \in 1..Len(p) : p[i] = z[i]  BY <1>2, <1>4
  <2> QED  BY <1>4, <2>1, SeqEqual
<1> QED  BY <1>3, <1>5

----------------------------------------------------------------------------
(* The events among the bytes of one write.                                *)

LEMMA NoMarkerIsEvent ==
  KeepAlive \notin Payload /\ SseError \notin Payload /\ JsonError \notin Payload
  /\ Cut \notin Payload
BY ChunksDiffer DEF Marker

LEMMA FilterOne ==
  ASSUME NEW c PROVE Filter(<<c>>, Payload) = IF c \in Payload THEN <<c>> ELSE <<>>
<1> DEFINE e == <<>>
           X == {c}
<1>1. e \in Seq(X) /\ c \in X /\ Append(e, c) = <<c>>  OBVIOUS
<1>2. Filter(e, Payload) = e  BY FilterEmpty
<1> HIDE DEF e, X
<1>3. Filter(Append(e, c), Payload)
        = IF c \in Payload THEN Append(Filter(e, Payload), c) ELSE Filter(e, Payload)
  BY <1>1, FilterAppend
<1> QED  BY <1>1, <1>2, <1>3 DEF e

(* Nothing beyond the accepted part of the chunks, all of them if the write*)
(* does not fail.                                                          *)
LEMMA AcceptedEvents ==
  ASSUME NEW chunks \in Seq(Payload), NEW o \in WriteOutcomes(Len(chunks)),
         NEW a, a = Accepted(chunks, o)
  PROVE  /\ Filter(a, Payload) \in Seq(Payload)
         /\ BeginsWith(chunks, Filter(a, Payload))
         /\ ~o.err => Filter(a, Payload) = chunks
<1> DEFINE n == Len(chunks)
           q == SubSeq(chunks, 1, o.n)
           r == SubSeq(chunks, o.n + 1, n)
           c == IF o.cut THEN <<Cut>> ELSE <<>>
<1>1. /\ o.n \in 0..n /\ o.cut \in BOOLEAN /\ o.err \in BOOLEAN
      /\ (o.cut => o.err) /\ (~o.err => o.n = n) /\ n \in Nat
  BY DEF WriteOutcomes
<1>2. q \in Seq(Payload) /\ r \in Seq(Payload)  BY <1>1
<1>3. chunks = q \o r
  <2>1. /\ 1 \in 1..(n + 1) /\ o.n \in (1 - 1)..n /\ n \in o.n..n
        /\ SubSeq(chunks, 1, n) = chunks
    BY <1>1
  <2> QED  BY <2>1, ConcatAdjacentSubSeq
<1>4. ~o.err => q = chunks  BY <1>1
<1>5. q \in Seq(Chunk) /\ c \in Seq(Chunk) /\ Filter(c, Payload) = <<>>
  <2>1. q \in Seq(Chunk)
    <3> HIDE DEF q
    <3>1. Payload \subseteq Chunk  BY ChunksHold
    <3> QED  BY <1>2, <3>1
  <2>2. <<Cut>> \in Seq(Chunk) /\ <<>> \in Seq(Chunk)  BY DEF Chunk, Marker
  <2>3. Filter(<<Cut>>, Payload) = <<>> /\ Filter(<<>>, Payload) = <<>>
    BY FilterOne, FilterEmpty, NoMarkerIsEvent
  <2> QED  BY <2>1, <2>2, <2>3
<1>6. Filter(q, Payload) = q  BY <1>2, FilterAll
<1>7. a = q \o c  BY DEF Accepted
<1> HIDE DEF q, r, c, n
<1>8. Filter(a, Payload) = Filter(q, Payload) \o Filter(c, Payload)
  BY <1>5, <1>7, FilterConcat
<1>9. q \o <<>> = q  BY <1>2, ConcatEmptySeq
<1>10. Filter(a, Payload) = q  BY <1>5, <1>6, <1>8, <1>9
<1> QED  BY <1>2, <1>3, <1>4, <1>10 DEF BeginsWith, Joins

(* An error frame or a comment is no event, however much of it is sent.    *)
LEMMA AcceptedMarker ==
  ASSUME NEW c \in Marker, NEW o \in WriteOutcomes(1)
  PROVE  /\ Accepted(<<c>>, o) \in Seq(Chunk)
         /\ Filter(Accepted(<<c>>, o), Payload) = <<>>
<1>1. c \in Chunk /\ Cut \in Chunk /\ c \notin Payload /\ Cut \notin Payload
  BY ChunksDiffer DEF Chunk, Marker
<1>2. Accepted(<<c>>, o) \in {<<>>, <<c>>, <<Cut>>}  BY <1>1, OneChunkAccepted
<1>3. <<>> \in Seq(Chunk) /\ <<c>> \in Seq(Chunk) /\ <<Cut>> \in Seq(Chunk)  BY <1>1
<1>4. Filter(<<c>>, Payload) = <<>> /\ Filter(<<Cut>>, Payload) = <<>>
      /\ Filter(<<>>, Payload) = <<>>
  BY <1>1, FilterOne, FilterEmpty
<1> QED  BY <1>2, <1>3, <1>4

----------------------------------------------------------------------------
(* The ways in which an operation may affect the delivery.                 *)

(* Nothing changes but that the transport may fail.                        *)
LEMMA UnchangedDelivers ==
  ASSUME NEW st \in Session, NEW offered, Delivers(st, offered), NEW t,
         Events(t) = Events(st), t.buf = st.buf, t.promoted = st.promoted,
         st.firstErr => t.firstErr
  PROVE  Delivers(t, offered)
BY DEF Delivers

(* The buffer and the history of an unpromoted session are dropped.        *)
LEMMA DroppedDelivers ==
  ASSUME NEW st, NEW offered, Delivers(st, offered), ~st.promoted, NEW t,
         Events(t) = Events(st), t.buf = <<>>, t.promoted = st.promoted
  PROVE  Delivers(t, <<>>)
<1>1. Events(t) = <<>>  BY DEF Delivers
<1>2. <<>> \in Seq(Payload)  OBVIOUS
<1>3. Joins(<<>>, <<>>, <<>>) /\ BeginsWith(<<>>, <<>>)  BY <1>2, EmptyBegins
<1> QED  BY <1>1, <1>3 DEF Delivers

LEMMA WriteSocketBuffer ==
  ASSUME NEW st \in Session, NEW chunks \in Seq(Chunk), chunks # <<>>,
         NEW o \in WriteOutcomes(Len(chunks)), NEW t, t = WriteSocket(st, chunks, o)
  PROVE  t.buf = st.buf
BY WriteSocketFields

LEMMA FlushSocketBuffer ==
  ASSUME NEW st \in Session, NEW ok \in BOOLEAN, NEW t, t = FlushSocket(st, ok)
  PROVE  /\ t \in Session /\ SameMarks(t, st) /\ t.buf = st.buf
         /\ t.out = st.out /\ (st.firstErr => t.firstErr)
BY FlushSocketFields

(* A comment or an error frame, without a flush and with one.              *)
LEMMA MarkerWritten ==
  ASSUME NEW st \in Session, NEW c \in Marker, NEW o \in WriteOutcomes(1),
         NEW t, t = WriteSocket(st, <<c>>, o)
  PROVE  /\ t \in Session /\ SameMarks(t, st) /\ t.buf = st.buf
         /\ Events(t) = Events(st) /\ (st.firstErr => t.firstErr)
<1> DEFINE one == <<c>>
           a == Accepted(one, o)
<1>1. one \in Seq(Chunk) /\ one # <<>> /\ Len(one) = 1  BY OneChunkFits DEF Chunk
<1>2. a \in Seq(Chunk) /\ Filter(a, Payload) = <<>>  BY AcceptedMarker
<1>3. one \in Seq(Chunk) /\ one # <<>>  BY <1>1
<1>4. o \in WriteOutcomes(Len(one)) /\ t = WriteSocket(st, one, o)  BY <1>1
<1> HIDE DEF one
<1>5. /\ t \in Session /\ SameMarks(t, st) /\ t.out = st.out \o a
      /\ (st.firstErr => t.firstErr)
  BY <1>3, <1>4, WriteSocketFields
<1>6. t.buf = st.buf  BY <1>3, <1>4, WriteSocketBuffer
<1> HIDE DEF a
<1>7. Events(t) = Events(st)
  <2> DEFINE x == st.out
             y == Filter(x, Payload)
  <2>1. x \in Seq(Chunk)  BY DEF Session
  <2>2. y \in Seq(Payload)  BY EventsType DEF Events
  <2> HIDE DEF x
  <2>3. Filter(x \o a, Payload) = y \o Filter(a, Payload)  BY <1>2, <2>1, FilterConcat
  <2> HIDE DEF y
  <2>4. y \o <<>> = y  BY <2>2, ConcatEmptySeq
  <2> QED  BY <1>2, <1>5, <2>3, <2>4 DEF Events, x, y
<1> QED  BY <1>5, <1>6, <1>7

LEMMA MarkerFlushed ==
  ASSUME NEW st \in Session, NEW c \in Marker, NEW o \in WriteOutcomes(1), NEW ok \in BOOLEAN,
         NEW t, t = FlushSocket(WriteSocket(st, <<c>>, o), ok)
  PROVE  /\ t \in Session /\ SameMarks(t, st) /\ t.buf = st.buf
         /\ Events(t) = Events(st) /\ (st.firstErr => t.firstErr)
<1> DEFINE w == WriteSocket(st, <<c>>, o)
<1>1. /\ w \in Session /\ SameMarks(w, st) /\ w.buf = st.buf
      /\ Events(w) = Events(st) /\ (st.firstErr => w.firstErr)
  <2>1. w = WriteSocket(st, <<c>>, o)  OBVIOUS
  <2> HIDE DEF w
  <2> QED  BY <2>1, MarkerWritten
<1>2. t = FlushSocket(w, ok)  OBVIOUS
<1> HIDE DEF w
<1>3. /\ t \in Session /\ SameMarks(t, w) /\ t.buf = w.buf /\ t.out = w.out
      /\ (w.firstErr => t.firstErr)
  BY <1>1, <1>2, FlushSocketBuffer
<1> QED  BY <1>1, <1>3 DEF SameMarks, Events

(* Events are written to a promoted session.                               *)
LEMMA EventsFields ==
  ASSUME NEW st \in Session, NEW chunks \in Seq(Payload), chunks # <<>>,
         NEW o \in WriteOutcomes(Len(chunks)), NEW t, t = WriteSocket(st, chunks, o)
  PROVE  /\ t \in Session /\ SameMarks(t, st) /\ t.buf = st.buf
         /\ Events(t) = Events(st) \o chunks \/ t.firstErr
         /\ BeginsWith(Events(st) \o chunks, Events(t))
<1> DEFINE a == Accepted(chunks, o)
<1>1. chunks \in Seq(Chunk)
  <2>1. Payload \subseteq Chunk  BY ChunksHold
  <2> QED  BY <2>1
<1>2. a \in Seq(Chunk)  BY <1>1, AcceptedType
<1>3. /\ t \in Session /\ SameMarks(t, st) /\ t.out = st.out \o a /\ t.buf = st.buf
      /\ (st.firstErr \/ o.err => t.firstErr)
  <2>1. /\ t \in Session /\ SameMarks(t, st) /\ t.out = st.out \o a
        /\ (st.firstErr \/ o.err => t.firstErr)
    BY <1>1, WriteSocketFields
  <2>2. t.buf = st.buf  BY <1>1, WriteSocketBuffer
  <2> QED  BY <2>1, <2>2
<1>4. /\ Filter(a, Payload) \in Seq(Payload)
      /\ BeginsWith(chunks, Filter(a, Payload))
      /\ (~o.err => Filter(a, Payload) = chunks)
  <2> HIDE DEF a
  <2>1. a = Accepted(chunks, o)  BY DEF a
  <2> QED  BY <2>1, AcceptedEvents
<1> HIDE DEF a
<1>5. Events(t) = Events(st) \o Filter(a, Payload)
  <2> DEFINE x == st.out
  <2>1. x \in Seq(Chunk)  BY DEF Session
  <2> HIDE DEF x
  <2>2. Filter(x \o a, Payload) = Filter(x, Payload) \o Filter(a, Payload)
    BY <1>2, <2>1, FilterConcat
  <2> QED  BY <1>3, <2>2 DEF Events, x
<1>6. Events(st) \in Seq(Payload)  BY EventsType
<1>7. BeginsWith(Events(st) \o chunks, Events(t))
  <2> DEFINE e == Events(st)
             f == Filter(a, Payload)
  <2>1. e \in Seq(Payload) /\ f \in Seq(Payload) /\ BeginsWith(chunks, f)  BY <1>4, <1>6
  <2> HIDE DEF e, f
  <2>2. BeginsWith(e \o chunks, e \o f)  BY <2>1, BeginsWithBoth
  <2> QED  BY <1>5, <2>2 DEF e, f
<1> QED  BY <1>3, <1>4, <1>5, <1>7

(* Write on a promoted session.                                            *)
LEMMA WrittenDelivers ==
  ASSUME NEW st \in Session, NEW offered \in Seq(Payload), Delivers(st, offered),
         st.promoted, ~st.firstErr, NEW p \in Payload, NEW o \in WriteOutcomes(1),
         NEW t, t = WriteSocket(st, <<p>>, o)
  PROVE  Delivers(t, Append(offered, p))
<1> DEFINE one == <<p>>
           e == Events(st)
<1>1. one \in Seq(Payload) /\ one # <<>> /\ Len(one) = 1  OBVIOUS
<1>2. e \in Seq(Payload)  BY EventsType
<1>3. Append(offered, p) = offered \o one /\ Append(offered, p) \in Seq(Payload)
  BY AppendIsConcat
<1>4. st.buf = <<>> /\ offered = e
  <2>1. st.buf = <<>> /\ offered = e \o <<>>  BY DEF Delivers, Joins
  <2> HIDE DEF e
  <2> QED  BY <1>2, <2>1, ConcatEmptySeq
<1>5. t = WriteSocket(st, one, o) /\ o \in WriteOutcomes(Len(one))  BY <1>1
<1> DEFINE next == Append(offered, p)
<1> HIDE DEF one
<1>6. /\ SameMarks(t, st) /\ t.buf = st.buf
      /\ Events(t) = Events(st) \o one \/ t.firstErr
      /\ BeginsWith(Events(st) \o one, Events(t))
  <2> HIDE DEF e
  <2>1. SameMarks(t, st)  BY <1>1, <1>5, EventsFields
  <2>2. t.buf = st.buf
    <3>1. one \in Seq(Chunk) /\ one # <<>>  BY ChunksHold DEF one
    <3> QED  BY <1>5, <3>1, WriteSocketBuffer
  <2>3. Events(t) = Events(st) \o one \/ t.firstErr  BY <1>1, <1>5, EventsFields
  <2>4. BeginsWith(Events(st) \o one, Events(t))  BY <1>1, <1>5, EventsFields
  <2> QED  BY <2>1, <2>2, <2>3, <2>4
<1>7. next = Events(st) \o one /\ next \in Seq(Payload)  BY <1>3, <1>4
<1> HIDE DEF next, e
<1>8. Joins(next, next, <<>>)  BY <1>7, BeginsWithSelf
<1>9. Delivers(t, next)  BY <1>4, <1>6, <1>7, <1>8 DEF Delivers, SameMarks
<1> QED  BY <1>9 DEF next

(* Promotion: the buffered events follow those on the socket.              *)
LEMMA PromotedDelivers ==
  ASSUME NEW st \in Session, NEW offered \in Seq(Payload), Delivers(st, offered),
         ~st.firstErr, NEW o \in WriteOutcomes(Len(st.buf)), NEW ok \in BOOLEAN,
         NEW t, t = Promoted(st, o, ok)
  PROVE  Delivers(t, offered)
<1> DEFINE h == IF st.statusCode # 0 THEN SendHeader(st, OK) ELSE st
           p == [h EXCEPT !.promoted = TRUE]
           w == IF st.buf = <<>> THEN p ELSE WriteSocket(p, st.buf, o)
           r == ResetBuffer(w)
           f == FlushSocket(r, ok)
           c == [f EXCEPT !.committed = @ \/ st.statusCode # 0 \/ st.buf # <<>>]
           e == Events(st)
           b == st.buf
<1>1. e \in Seq(Payload) /\ b \in Seq(Payload) /\ Joins(offered, e, b)
  BY EventsType DEF Session, Delivers
<1>2. h \in Session /\ h.out = st.out  BY SendHeaderFields
<1>3. p \in Session /\ p.out = st.out /\ p.promoted
  <2> HIDE DEF h
  <2> QED  BY <1>2 DEF Session
<1>4. Events(p) = e  BY <1>3 DEF Events
<1>5. /\ w \in Session /\ w.promoted
      /\ (Events(w) = offered \/ w.firstErr) /\ BeginsWith(offered, Events(w))
  <2>1. CASE b = <<>>
    <3>1. w = p  BY <2>1
    <3>2. offered = e
      <4>1. offered = e \o <<>>  BY <1>1, <2>1 DEF Joins
      <4> HIDE DEF e
      <4> QED  BY <1>1, <4>1, ConcatEmptySeq
    <3> HIDE DEF w, p, e
    <3>3. BeginsWith(offered, offered)  BY BeginsWithSelf
    <3> QED  BY <1>3, <1>4, <3>1, <3>2, <3>3
  <2>2. CASE b # <<>>
    <3>1. w = WriteSocket(p, b, o) /\ o \in WriteOutcomes(Len(b))  BY <2>2
    <3> HIDE DEF w, p, b, e
    <3>2. /\ w \in Session /\ SameMarks(w, p)
          /\ (Events(w) = Events(p) \o b \/ w.firstErr)
          /\ BeginsWith(Events(p) \o b, Events(w))
      BY <1>1, <1>3, <2>2, <3>1, EventsFields
    <3>3. offered = Events(p) \o b  BY <1>1, <1>4 DEF Joins
    <3> QED  BY <1>3, <3>2, <3>3 DEF SameMarks
  <2> QED  BY <2>1, <2>2
<1> HIDE DEF w
<1>6. /\ r \in Session /\ r.promoted = w.promoted /\ r.out = w.out /\ r.buf = <<>>
      /\ r.firstErr = w.firstErr
  <2>1. r \in Session  BY <1>5, ResetBufferType
  <2> QED  BY <1>5, <2>1 DEF ResetBuffer, Session
<1>7. /\ f \in Session /\ f.promoted = r.promoted /\ f.out = r.out /\ f.buf = r.buf
      /\ (r.firstErr => f.firstErr)
  <2>1. f = FlushSocket(r, ok)  OBVIOUS
  <2> HIDE DEF r, f
  <2>2. /\ f \in Session /\ SameMarks(f, r) /\ f.out = r.out /\ f.buf = r.buf
        /\ (r.firstErr => f.firstErr)
    BY <1>6, <2>1, FlushSocketBuffer
  <2> QED  BY <2>2 DEF SameMarks
<1>8. /\ c.promoted = f.promoted /\ c.out = f.out /\ c.buf = f.buf
      /\ c.firstErr = f.firstErr
  <2> HIDE DEF f
  <2> QED  BY <1>7 DEF Session
<1>9. (t = w /\ w.firstErr) \/ ((t = f \/ t = c) /\ ~w.firstErr)
  BY DEF Promoted, w
<1> HIDE DEF r, f, c, p, h, e, b
<1>10. CASE t = w /\ w.firstErr  BY <1>5, <1>10 DEF Delivers
<1>11. CASE (t = f \/ t = c) /\ ~w.firstErr
  <2>1. t.promoted /\ t.out = w.out /\ t.buf = <<>>  BY <1>5, <1>6, <1>7, <1>8, <1>11
  <2>2. Events(t) = offered  BY <1>5, <1>11, <2>1 DEF Events
  <2>3. Joins(offered, offered, <<>>) /\ BeginsWith(offered, offered)  BY BeginsWithSelf
  <2> QED  BY <2>1, <2>2, <2>3 DEF Delivers
<1> QED  BY <1>9, <1>10, <1>11

----------------------------------------------------------------------------
(* One lemma per operation that the delivery depends on.                   *)

LEMMA WriteDelivers ==
  ASSUME DInv, NEW p \in Payload, Write(p)
  PROVE  Delivers(s', hist'.offered)
<1> DEFINE offered == hist.offered
<1>1. /\ s \in Session /\ offered \in Seq(Payload) /\ Delivers(s, offered) /\ ~s.firstErr
  BY DEF DInv, TypeOK, Write, Unavailable
<1>2. hist'.offered = Append(offered, p)  BY DEF DInv, TypeOK, Write
<1> HIDE DEF offered
<1>3. ASSUME ~s.promoted, s' = [s EXCEPT !.buf = Append(@, p)]
      PROVE  Delivers(s', Append(offered, p))
  <2> DEFINE b == s.buf
             longer == Append(b, p)
             next == Append(offered, p)
  <2>1. b \in Seq(Payload)  BY <1>1 DEF Session
  <2>2. s' = [s EXCEPT !.buf = longer]  BY <1>1, <1>3 DEF Session
  <2>3. longer \in Seq(Payload) /\ next \in Seq(Payload)  BY <1>1, <2>1
  <2>4. offered = b
    <3>1. offered = <<>> \o b  BY <1>1, <1>3 DEF Delivers, Joins
    <3> HIDE DEF b
    <3> QED  BY <2>1, <3>1, ConcatEmptySeq
  <2>5. longer = next  BY <2>4
  <2> HIDE DEF longer, next, b
  <2>6. /\ s'.promoted = s.promoted /\ s'.firstErr = s.firstErr /\ s'.buf = longer
        /\ s'.out = s.out
    BY <1>1, <2>2 DEF Session
  <2>7. Events(s') = <<>>  BY <1>1, <1>3, <2>6 DEF Delivers, Events
  <2>8. Joins(next, <<>>, next) /\ BeginsWith(next, <<>>)  BY <2>3, EmptyBegins
  <2>9. Delivers(s', next)  BY <1>3, <2>5, <2>6, <2>7, <2>8 DEF Delivers
  <2> QED  BY <2>9 DEF next
<1>4. ASSUME s.promoted, \E o \in WriteOutcomes(1) : s' = WriteSocket(s, <<p>>, o)
      PROVE  Delivers(s', Append(offered, p))
  BY <1>1, <1>4, WrittenDelivers
<1> QED  BY <1>2, <1>3, <1>4 DEF Write

LEMMA DropBufferEmpties ==
  ASSUME NEW st \in Session, NEW t, t = DropBuffer(st)
  PROVE  t.buf = <<>>
<1>1. t \in Session  BY DropBufferType
<1> QED  BY <1>1 DEF DropBuffer, Session

LEMMA DiscardDelivers ==
  ASSUME DInv, Discard PROVE Delivers(s', hist'.offered)
<1>1. s \in Session /\ Delivers(s, hist.offered)  BY DEF DInv, TypeOK
<1>2. CASE s.promoted  BY <1>1, <1>2 DEF Discard
<1>3. CASE ~s.promoted
  <2>1. s' = DropBuffer(s) /\ hist'.offered = <<>>  BY <1>3 DEF Discard, Dropping
  <2>2. SameMarks(s', s) /\ s'.out = s.out /\ s'.buf = <<>>
    BY <1>1, <2>1, DropBufferFields, DropBufferEmpties
  <2>3. Delivers(s', <<>>)
    BY <1>1, <1>3, <2>2, DroppedDelivers DEF SameMarks, Events
  <2> QED  BY <2>1, <2>3
<1> QED  BY <1>2, <1>3

LEMMA WriteFinalErrorDelivers ==
  ASSUME DInv, WriteFinalError PROVE Delivers(s', hist'.offered)
<1>1. s \in Session /\ Delivers(s, hist.offered)  BY DEF DInv, TypeOK
<1>2. SseError \in Marker /\ JsonError \in Marker   BY DEF Marker
<1>3. CASE FinalSSE
  <2> DEFINE st == IF s.promoted THEN s ELSE DropBuffer(s)
  <2>1. PICK o \in WriteOutcomes(1), ok \in BOOLEAN :
          s' = [DirectSSEError(st, o, ok) EXCEPT !.finalized = TRUE]
    BY <1>3 DEF FinalSSE
  <2> DEFINE e == DirectSSEError(st, o, ok)
  <2>2. s' = [e EXCEPT !.finalized = TRUE]  BY <2>1
  <2>3. /\ st \in Session /\ st.out = s.out /\ st.promoted = s.promoted
        /\ st.firstErr = s.firstErr
        /\ (s.promoted => st.buf = s.buf) /\ (~s.promoted => st.buf = <<>>)
    <3>1. CASE s.promoted  BY <1>1, <3>1
    <3>2. CASE ~s.promoted
      BY <1>1, <3>2, DropBufferFields, DropBufferEmpties DEF SameMarks
    <3> QED  BY <3>1, <3>2
  <2> HIDE DEF st
  <2>4. e = FlushSocket(WriteSocket(st, <<SseError>>, o), ok)  BY DEF DirectSSEError
  <2> HIDE DEF e
  <2>5. /\ e \in Session /\ SameMarks(e, st) /\ e.buf = st.buf
        /\ Events(e) = Events(st) /\ (st.firstErr => e.firstErr)
    BY <1>2, <2>3, <2>4, MarkerFlushed
  <2>6. /\ s'.out = e.out /\ s'.promoted = e.promoted /\ s'.buf = e.buf
        /\ s'.firstErr = e.firstErr
    BY <2>2, <2>5 DEF Session
  <2>7. /\ Events(s') = Events(s) /\ s'.promoted = s.promoted
        /\ s'.buf = st.buf /\ (s.firstErr => s'.firstErr)
    BY <2>3, <2>5, <2>6 DEF SameMarks, Events
  <2>8. CASE s.promoted
    <3>1. hist' = hist  BY <1>3, <2>8 DEF FinalSSE
    <3>2. Delivers(s', hist.offered)  BY <1>1, <2>3, <2>7, <2>8, UnchangedDelivers
    <3> QED  BY <3>1, <3>2
  <2>9. CASE ~s.promoted
    <3>1. hist'.offered = <<>>  BY <1>3, <2>9 DEF FinalSSE, Dropping
    <3>2. Delivers(s', <<>>)  BY <1>1, <2>3, <2>7, <2>9, DroppedDelivers
    <3> QED  BY <3>1, <3>2
  <2> QED  BY <2>8, <2>9
<1>4. CASE FinalJSON
  <2> DEFINE b == DropBuffer(s)
             d == [b EXCEPT !.ctype = "json"]
             h == SendHeader(d, Failure)
  <2>1. PICK o \in WriteOutcomes(1) :
          s' = [WriteSocket(h, <<JsonError>>, o) EXCEPT !.finalized = TRUE]
    BY <1>4 DEF FinalJSON
  <2> DEFINE w == WriteSocket(h, <<JsonError>>, o)
  <2>2. s' = [w EXCEPT !.finalized = TRUE]  BY <2>1
  <2>3. /\ b \in Session /\ b.out = s.out /\ b.promoted = s.promoted /\ b.buf = <<>>
    BY <1>1, DropBufferFields, DropBufferEmpties DEF SameMarks
  <2>4. /\ d \in Session /\ d.out = b.out /\ d.promoted = b.promoted /\ d.buf = b.buf
    <3> HIDE DEF b
    <3> QED  BY <2>3 DEF Session, ContentType
  <2>5. /\ h \in Session /\ h.out = d.out /\ h.promoted = d.promoted /\ h.buf = d.buf
    <3> HIDE DEF d
    <3> QED  BY <2>4, SendHeaderFields DEF SameMarks
  <2> HIDE DEF h
  <2>6. /\ w \in Session /\ SameMarks(w, h) /\ w.buf = h.buf /\ Events(w) = Events(h)
    BY <1>2, <2>5, MarkerWritten
  <2> HIDE DEF w, d, b
  <2>7. s'.out = w.out /\ s'.promoted = w.promoted /\ s'.buf = w.buf
    BY <2>2, <2>6 DEF Session
  <2>8. Events(s') = Events(s) /\ s'.promoted = s.promoted /\ s'.buf = <<>>
    BY <2>3, <2>4, <2>5, <2>6, <2>7 DEF SameMarks, Events
  <2>9. ~s.promoted /\ hist'.offered = <<>>
    BY <1>4 DEF FinalJSON, JSONAllowed, Dropping
  <2>10. Delivers(s', <<>>)  BY <1>1, <2>8, <2>9, DroppedDelivers
  <2> QED  BY <2>9, <2>10
<1> QED  BY <1>3, <1>4 DEF WriteFinalError

----------------------------------------------------------------------------
(* The invariant and the theorem.                                          *)

LEMMA InitDelivers == Init => DInv
<1> SUFFICES ASSUME Init PROVE DInv  OBVIOUS
<1>1. s.out = <<>> /\ s.buf = <<>> /\ hist.offered = <<>> /\ ~s.promoted
  BY DEF Init, newStreamSession
<1>2. Events(s) = <<>>  BY <1>1, FilterEmpty DEF Events
<1>3. <<>> \in Seq(Payload)  OBVIOUS
<1>4. Joins(<<>>, <<>>, <<>>) /\ BeginsWith(<<>>, <<>>)  BY <1>3, EmptyBegins
<1> QED  BY <1>1, <1>2, <1>4, InitType DEF DInv, Delivers

LEMMA StepDelivers == DInv /\ [Next]_sessionVars => Delivers(s', hist'.offered)
<1> SUFFICES ASSUME DInv, [Next]_sessionVars PROVE Delivers(s', hist'.offered)
  OBVIOUS
<1>1. s \in Session /\ Delivers(s, hist.offered)  BY DEF DInv, TypeOK
<1>2. ASSUME s'.out = s.out, s'.buf = s.buf, s'.promoted = s.promoted,
             s.firstErr => s'.firstErr, UNCHANGED hist
      PROVE  Delivers(s', hist'.offered)
  BY <1>1, <1>2, UnchangedDelivers DEF Events
<1>3. CASE SetSSEHeaders
  <2>1. CASE s' = s  BY <1>1, <1>3, <2>1 DEF SetSSEHeaders
  <2>2. CASE s' = [s EXCEPT !.ctype = "sse", !.headersSet = TRUE]
    BY <1>1, <1>2, <1>3, <2>2 DEF SetSSEHeaders, Session
  <2> QED  BY <1>3, <2>1, <2>2 DEF SetSSEHeaders
<1>4. CASE WriteHeader
  <2>1. CASE s' = SendHeader(s, OK)
    BY <1>1, <1>2, <1>4, <2>1, SendHeaderFields DEF WriteHeader, SameMarks
  <2>2. CASE s' = [s EXCEPT !.statusCode = OK]
    BY <1>1, <1>2, <1>4, <2>2 DEF WriteHeader, Session
  <2> QED  BY <1>4, <2>1, <2>2 DEF WriteHeader
<1>5. CASE \E p \in Payload : Write(p)  BY <1>5, WriteDelivers
<1>6. CASE Flush
  <2>1. PICK ok \in BOOLEAN : s' = FlushSocket(s, ok)  BY <1>6 DEF Flush
  <2>2. /\ SameMarks(s', s) /\ s'.out = s.out /\ s'.buf = s.buf
        /\ (s.firstErr => s'.firstErr)
    BY <1>1, <2>1, FlushSocketFields
  <2> QED  BY <1>2, <1>6, <2>2 DEF Flush, SameMarks
<1>7. CASE Promote
  <2>1. PICK o \in WriteOutcomes(Len(s.buf)), ok \in BOOLEAN : s' = Promoted(s, o, ok)
    BY <1>7 DEF Promote
  <2>2. hist.offered \in Seq(Payload) /\ ~s.firstErr /\ hist' = hist
    BY <1>7 DEF DInv, TypeOK, Promote, Unavailable
  <2>3. Delivers(s', hist.offered)  BY <1>1, <2>1, <2>2, PromotedDelivers
  <2> QED  BY <2>2, <2>3
<1>8. CASE Discard  BY <1>8, DiscardDelivers
<1>9. CASE WriteFinalError  BY <1>9, WriteFinalErrorDelivers
<1>10. CASE FinalErrorBegin
  BY <1>1, <1>2, <1>10 DEF FinalErrorBegin, Session
<1>11. CASE CallbackError
  <2>1. PICK o \in WriteOutcomes(1) : s' = WriteSocket(s, <<SseError>>, o)
    BY <1>11 DEF CallbackError
  <2>2. SseError \in Marker  BY DEF Marker
  <2>3. /\ SameMarks(s', s) /\ s'.buf = s.buf
        /\ Events(s') = Events(s) /\ (s.firstErr => s'.firstErr)
    BY <1>1, <2>1, <2>2, MarkerWritten
  <2> QED  BY <1>1, <1>11, <2>3, UnchangedDelivers DEF CallbackError, SameMarks
<1>12. CASE FinalErrorEnd
  BY <1>1, <1>2, <1>12 DEF FinalErrorEnd, Session
<1>13. CASE StopMark  BY <1>1, <1>2, <1>13 DEF StopMark, Session
<1>14. CASE StopClose  BY <1>1, <1>2, <1>14 DEF StopClose, Session
<1>15. CASE StopCancel  BY <1>1, <1>2, <1>15 DEF StopCancel, Session
<1>16. CASE StopJoin  BY <1>1, <1>16 DEF StopJoin
<1>17. CASE HbCheck \/ HbTimer \/ HbDone
  BY <1>1, <1>17 DEF HbCheck, HbTimer, HbDone
<1>18. CASE HbActivity  BY <1>1, <1>2, <1>18 DEF HbActivity, Session
<1>19. CASE WriteKeepAlive
  <2>1. CASE s' = s  BY <1>1, <1>19, <2>1 DEF WriteKeepAlive
  <2>2. CASE \E o \in WriteOutcomes(1), ok \in BOOLEAN :
               s' = FlushSocket(WriteSocket(s, <<KeepAlive>>, o), ok)
    <3>1. KeepAlive \in Marker  BY DEF Marker
    <3>2. /\ SameMarks(s', s) /\ s'.buf = s.buf
          /\ Events(s') = Events(s) /\ (s.firstErr => s'.firstErr)
      BY <1>1, <2>2, <3>1, MarkerFlushed
    <3> QED  BY <1>1, <1>19, <3>2, UnchangedDelivers DEF WriteKeepAlive, SameMarks
  <2> QED  BY <1>19, <2>1, <2>2 DEF WriteKeepAlive
<1>20. CASE Start  BY <1>1, <1>2, <1>20 DEF Start, Session
<1>21. CASE ClientGone  BY <1>1, <1>2, <1>21 DEF ClientGone, Session
<1>22. CASE UNCHANGED sessionVars  BY <1>1, <1>22 DEF sessionVars
<1> QED
  BY <1>3, <1>4, <1>5, <1>6, <1>7, <1>8, <1>9, <1>10, <1>11, <1>12, <1>13, <1>14,
     <1>15, <1>16, <1>17, <1>18, <1>19, <1>20, <1>21, <1>22
  DEF Next, RequestCall, StopCall, Heartbeat

LEMMA DeliveryFollows == DInv => DeliveredInOrder
<1> SUFFICES ASSUME DInv PROVE DeliveredInOrder  OBVIOUS
<1>1. s \in Session /\ Delivers(s, hist.offered)  BY DEF DInv, TypeOK
<1>2. Events(s) \in Seq(Payload)  BY <1>1, EventsType
<1>3. /\ Len(Events(s)) <= Len(hist.offered)
      /\ Events(s) = SubSeq(hist.offered, 1, Len(Events(s)))
  BY <1>1, <1>2, BeginsWithIsPrefix DEF Delivers
<1>4. ~s.firstErr => Events(s) \o s.buf = hist.offered  BY <1>1 DEF Delivers, Joins
<1> QED  BY <1>3, <1>4 DEF DeliveredInOrder, Events

(* For every set of events, whatever fails and whenever the heartbeat puts *)
(* a comment in between: the events on the socket, followed by those in    *)
(* the buffer, are those that Write accepted and nobody discarded, in      *)
(* order and each once; a broken transport leaves a beginning of them      *)
(* (DeliveredInOrder).                                                     *)
THEOREM DeliveryInOrder == Spec => []DeliveredInOrder
<1>1. Init => Delivers(s, hist.offered)  BY InitDelivers DEF DInv
<1>2. TypeOK /\ Delivers(s, hist.offered) /\ [Next]_sessionVars
      => Delivers(s, hist.offered)'
  BY StepDelivers DEF DInv
<1>3. TypeOK /\ Delivers(s, hist.offered) => DeliveredInOrder
  BY DeliveryFollows DEF DInv
<1> QED  BY <1>1, <1>2, <1>3, TypeCorrect, PTL DEF Spec
----------------------------------------------------------------------------
(* What a caller of the session may rely on, step by step: which steps add *)
(* an event or an error frame, which forget what was accepted, and which   *)
(* do neither.                                                             *)

(* Where the errors are that the client has been sent.                     *)
ErrorsAt(q) == {i \in DOMAIN q : q[i] \in {SseError, JsonError}}

Silent ==
  /\ Events(s') = Events(s)
  /\ ErrorsAt(s'.out) = ErrorsAt(s.out)
  /\ SseError \in Elements(s'.out) => SseError \in Elements(s.out)
  /\ s'.promoted = s.promoted
  /\ hist'.offered = hist.offered

NoErrorFrameAdded ==
  /\ SseError \in Elements(s'.out) => SseError \in Elements(s.out)
  /\ ErrorsAt(s'.out) = ErrorsAt(s.out)

(* Frames are not errors.                                                  *)
LEMMA StreamsKeepErrors ==
  ASSUME NEW st \in Session, NEW t, Streams(st, t)
  PROVE  ErrorsAt(t.out) = ErrorsAt(st.out)
<1>1. PICK a \in Seq(Chunk) :
        /\ t.out = st.out \o a
        /\ \A i \in 1..Len(a) : a[i] \in Frames \/ (i = Len(a) /\ a[i] = Cut /\ t.firstErr)
  BY Zenon DEF Streams
<1>2. \A i \in 1..Len(a) : a[i] \notin {SseError, JsonError}
  BY <1>1, ChunksDiffer DEF Frames, Marker
<1> DEFINE x == st.out
           y == x \o a
<1>3. x \in Seq(Chunk) /\ t.out = y  BY <1>1 DEF Session
<1> HIDE DEF x
<1>4. /\ DOMAIN x = 1..Len(x) /\ DOMAIN y = 1..(Len(x) + Len(a)) /\ Len(x) \in Nat
      /\ Len(a) \in Nat
      /\ \A i \in 1..Len(x) : y[i] = x[i]
      /\ \A i \in 1..(Len(x) + Len(a)) : i \notin 1..Len(x) => y[i] = a[i - Len(x)]
  BY <1>3
<1> HIDE DEF y
<1>5. ErrorsAt(y) = ErrorsAt(x)  BY <1>2, <1>4 DEF ErrorsAt
<1> QED  BY <1>3, <1>5 DEF x

(* The one error of a response, unless its write fails.                    *)
Reports ==
  s'.firstErr \/ \E c \in {SseError, JsonError} : s'.out = Append(s.out, c)

LEMMA ReportsOne ==
  ASSUME s \in Session, Reports, ~s'.firstErr, ErrorsAt(s.out) = {}
  PROVE  \E i \in DOMAIN s'.out : ErrorsAt(s'.out) = {i}
<1>1. PICK c \in {SseError, JsonError} : s'.out = Append(s.out, c)  BY DEF Reports
<1> DEFINE x == s.out
           y == Append(x, c)
<1>2. x \in Seq(Chunk) /\ s'.out = y  BY <1>1 DEF Session
<1> HIDE DEF x
<1>3. /\ DOMAIN x = 1..Len(x) /\ DOMAIN y = 1..(Len(x) + 1) /\ Len(x) \in Nat
      /\ \A i \in 1..Len(x) : y[i] = x[i]
      /\ y[Len(x) + 1] = c
  BY <1>2
<1> HIDE DEF y
<1>4. \A i \in 1..Len(x) : x[i] \notin {SseError, JsonError}  BY <1>3 DEF ErrorsAt, x
<1>5. ErrorsAt(y) = {Len(x) + 1}  BY <1>3, <1>4 DEF ErrorsAt
<1> QED  BY <1>2, <1>3, <1>5

(* What the socket takes of one chunk without an error is that chunk.      *)
LEMMA WholeChunk ==
  ASSUME NEW c \in Chunk, NEW o \in WriteOutcomes(1), ~o.err
  PROVE  Accepted(<<c>>, o) = <<c>>
<1> DEFINE one == <<c>>
<1>1. o.n = 1 /\ ~o.cut  BY DEF WriteOutcomes
<1>2. SubSeq(one, 1, 1) = one /\ one \o <<>> = one
  <2>1. one \in Seq(Chunk) /\ Len(one) = 1  BY OneChunkFits
  <2> HIDE DEF one
  <2>2. SubSeq(one, 1, Len(one)) = one  BY <2>1
  <2> QED  BY <2>1, <2>2
<1>3. Accepted(one, o) = SubSeq(one, 1, 1) \o <<>>  BY <1>1 DEF Accepted
<1> QED  BY <1>2, <1>3

LEMMA ErrorWriteReports ==
  ASSUME s \in Session, NEW st \in Session, NEW c \in {SseError, JsonError}, st.out = s.out,
         NEW o \in WriteOutcomes(1), NEW t, t.out = st.out \o Accepted(<<c>>, o),
         o.err => t.firstErr, s'.out = t.out, s'.firstErr = t.firstErr
  PROVE  Reports
<1>1. c \in Chunk  BY ChunksHold
<1>2. CASE o.err  BY <1>2 DEF Reports
<1>3. CASE ~o.err
  <2> DEFINE x == s.out
  <2>1. x \in Seq(Chunk)  BY DEF Session
  <2>2. s'.out = x \o <<c>>
    <3>1. Accepted(<<c>>, o) = <<c>>  BY <1>1, <1>3, WholeChunk
    <3> QED  BY <3>1
  <2> HIDE DEF x
  <2>3. x \o <<c>> = Append(x, c)  BY <1>1, <2>1
  <2> QED  BY <2>2, <2>3 DEF Reports, x
<1> QED  BY <1>2, <1>3

LEMMA SameOutIsSilent ==
  ASSUME s'.out = s.out, s'.promoted = s.promoted, UNCHANGED hist
  PROVE  Silent
BY DEF Silent, Events, ErrorsAt

LEMMA SilentSteps ==
  ASSUME TypeOK,
         \/ SetSSEHeaders \/ Flush \/ FinalErrorBegin \/ FinalErrorEnd \/ StopCall
         \/ Start \/ Heartbeat \/ ClientGone \/ UNCHANGED sessionVars
  PROVE  Silent
<1>1. s \in Session  BY DEF TypeOK
<1>2. CASE SetSSEHeaders
  <2>1. s'.out = s.out /\ s'.promoted = s.promoted
    <3>1. CASE s' = s  BY <3>1
    <3>2. CASE s' = [s EXCEPT !.ctype = "sse", !.headersSet = TRUE]
      BY <1>1, <3>2 DEF Session
    <3> QED  BY <1>2, <3>1, <3>2 DEF SetSSEHeaders
  <2> QED  BY <1>2, <2>1, SameOutIsSilent DEF SetSSEHeaders
<1>3. CASE Flush
  <2>1. PICK ok \in BOOLEAN : s' = FlushSocket(s, ok)  BY <1>3 DEF Flush
  <2>2. s'.out = s.out /\ s'.promoted = s.promoted
    BY <1>1, <2>1, FlushSocketFields DEF SameMarks
  <2> QED  BY <1>3, <2>2, SameOutIsSilent DEF Flush
<1>4. CASE FinalErrorBegin \/ FinalErrorEnd \/ StopCall \/ Start \/ ClientGone
  <2>1. s'.out = s.out /\ s'.promoted = s.promoted /\ UNCHANGED hist
    <3>1. CASE FinalErrorBegin  BY <1>1, <3>1 DEF FinalErrorBegin, Session
    <3>2. CASE FinalErrorEnd  BY <1>1, <3>2 DEF FinalErrorEnd, Session
    <3>3. CASE StopCall
      BY <1>1, <3>3 DEF StopCall, StopMark, StopClose, StopCancel, StopJoin, Session
    <3>4. CASE Start  BY <1>1, <3>4 DEF Start, Session
    <3>5. CASE ClientGone  BY <1>1, <3>5 DEF ClientGone, Session
    <3> QED  BY <1>4, <3>1, <3>2, <3>3, <3>4, <3>5
  <2> QED  BY <2>1, SameOutIsSilent
<1>5. CASE HbCheck \/ HbTimer \/ HbDone \/ HbActivity
  <2>1. s'.out = s.out /\ s'.promoted = s.promoted /\ UNCHANGED hist
    BY <1>1, <1>5 DEF HbCheck, HbTimer, HbDone, HbActivity, Session
  <2> QED  BY <2>1, SameOutIsSilent
<1>6. CASE WriteKeepAlive
  <2>1. CASE s' = s  BY <1>6, <2>1, SameOutIsSilent DEF WriteKeepAlive
  <2>2. CASE \E o \in WriteOutcomes(1), ok \in BOOLEAN :
               s' = FlushSocket(WriteSocket(s, <<KeepAlive>>, o), ok)
    <3>1. KeepAlive \in Marker /\ KeepAlive \in Frames  BY DEF Marker, Frames
    <3>2. SameMarks(s', s) /\ Events(s') = Events(s)  BY <1>1, <2>2, <3>1, MarkerFlushed
    <3>3. Streams(s, s')  BY <1>1, <2>2, <3>1, OneFrameStreams
    <3>4. NoErrorFrameAdded
      BY <1>1, <3>3, StreamsNoError, StreamsKeepErrors DEF NoErrorFrameAdded
    <3> QED  BY <1>6, <3>2, <3>4 DEF NoErrorFrameAdded, WriteKeepAlive, Silent, SameMarks
  <2> QED  BY <1>6, <2>1, <2>2 DEF WriteKeepAlive
<1>7. CASE UNCHANGED sessionVars  BY <1>7, SameOutIsSilent DEF sessionVars
<1> QED  BY <1>2, <1>3, <1>4, <1>5, <1>6, <1>7 DEF Heartbeat

LEMMA WriteAdds ==
  ASSUME TypeOK, NEW p \in Payload, Write(p)
  PROVE  /\ hist'.offered = Append(hist.offered, p)
         /\ s'.promoted = s.promoted
         /\ NoErrorFrameAdded
<1>1. s \in Session  BY DEF TypeOK
<1>2. hist'.offered = Append(hist.offered, p)
  BY DEF Write, TypeOK
<1>3. CASE s' = [s EXCEPT !.buf = Append(@, p)]
  <2>1. s'.out = s.out /\ s'.promoted = s.promoted  BY <1>1, <1>3 DEF Session
  <2> QED  BY <1>2, <2>1 DEF NoErrorFrameAdded, ErrorsAt
<1>4. CASE \E o \in WriteOutcomes(1) : s' = WriteSocket(s, <<p>>, o)
  <2>1. p \in Frames /\ TRUE \in BOOLEAN  BY DEF Frames
  <2>2. SameMarks(s', s) /\ Streams(s, s')  BY <1>1, <1>4, <2>1, OneFrameStreams
  <2>3. NoErrorFrameAdded
    BY <1>1, <2>2, StreamsNoError, StreamsKeepErrors DEF NoErrorFrameAdded
  <2> QED  BY <1>2, <2>2, <2>3 DEF SameMarks
<1> QED  BY <1>3, <1>4 DEF Write

LEMMA PromoteAdds ==
  ASSUME TypeOK, Promote
  PROVE  hist' = hist /\ NoErrorFrameAdded
<1>1. s \in Session  BY DEF TypeOK
<1>2. PICK o \in WriteOutcomes(Len(s.buf)), ok \in BOOLEAN : s' = Promoted(s, o, ok)
  BY DEF Promote
<1>3. Streams(s, s')  BY <1>1, <1>2, PromotedStreams
<1> QED  BY <1>1, <1>3, StreamsNoError, StreamsKeepErrors DEF Promote, NoErrorFrameAdded

LEMMA DiscardDrops ==
  ASSUME TypeOK, ~s.promoted, Discard
  PROVE  s'.out = s.out /\ ~s'.promoted /\ hist'.offered = <<>>
<1>1. s \in Session /\ s' = DropBuffer(s)  BY DEF TypeOK, Discard
<1> QED  BY <1>1, DropBufferFields DEF SameMarks, Discard, Dropping

(* WriteFinalError and CallbackError add no event.                         *)
LEMMA FinalErrorDrops ==
  ASSUME TypeOK, ~s.promoted, WriteFinalError
  PROVE  Events(s') = Events(s) /\ ~s'.promoted /\ hist'.offered = <<>>
<1>1. s \in Session /\ hist'.offered = <<>>
  BY DEF TypeOK, WriteFinalError, FinalSSE, FinalJSON, Dropping
<1>2. SseError \in Marker /\ JsonError \in Marker  BY DEF Marker
<1> DEFINE b == DropBuffer(s)
<1>3. b \in Session /\ b.out = s.out /\ b.promoted = s.promoted
  BY <1>1, DropBufferFields DEF SameMarks
<1>4. CASE FinalSSE
  <2>1. PICK o \in WriteOutcomes(1), ok \in BOOLEAN :
          s' = [DirectSSEError(b, o, ok) EXCEPT !.finalized = TRUE]
    BY <1>4 DEF FinalSSE
  <2> HIDE DEF b
  <2> DEFINE e == FlushSocket(WriteSocket(b, <<SseError>>, o), ok)
  <2>2. s' = [e EXCEPT !.finalized = TRUE]  BY <2>1 DEF DirectSSEError
  <2>3. e \in Session /\ SameMarks(e, b) /\ Events(e) = Events(b)
    BY <1>2, <1>3, MarkerFlushed
  <2> HIDE DEF e
  <2>4. s'.out = e.out /\ s'.promoted = e.promoted  BY <2>2, <2>3 DEF Session
  <2> QED  BY <1>1, <1>3, <2>3, <2>4 DEF Events, SameMarks
<1>5. CASE FinalJSON
  <2> DEFINE d == [b EXCEPT !.ctype = "json"]
             h == SendHeader(d, Failure)
  <2>1. PICK o \in WriteOutcomes(1) :
          s' = [WriteSocket(h, <<JsonError>>, o) EXCEPT !.finalized = TRUE]
    BY <1>5 DEF FinalJSON
  <2> HIDE DEF b
  <2>2. d \in Session /\ d.out = b.out /\ d.promoted = b.promoted
    BY <1>3 DEF Session, ContentType
  <2> HIDE DEF d
  <2>3. h \in Session /\ h.out = d.out /\ h.promoted = d.promoted
    BY <2>2, SendHeaderFields DEF SameMarks
  <2> HIDE DEF h
  <2> DEFINE e == WriteSocket(h, <<JsonError>>, o)
  <2>4. s' = [e EXCEPT !.finalized = TRUE]  BY <2>1
  <2>5. e \in Session /\ SameMarks(e, h) /\ Events(e) = Events(h)
    BY <1>2, <2>3, MarkerWritten
  <2> HIDE DEF e
  <2>6. s'.out = e.out /\ s'.promoted = e.promoted  BY <2>4, <2>5 DEF Session
  <2> QED  BY <1>1, <1>3, <2>2, <2>3, <2>5, <2>6 DEF Events, SameMarks
<1> QED  BY <1>4, <1>5 DEF WriteFinalError

LEMMA CallbackErrorAdds ==
  ASSUME TypeOK, CallbackError
  PROVE  /\ Events(s') = Events(s) /\ s'.promoted = s.promoted
         /\ hist'.offered = hist.offered
<1>1. s \in Session /\ SseError \in Marker  BY DEF TypeOK, Marker
<1> QED  BY <1>1, MarkerWritten DEF CallbackError, SameMarks

LEMMA FinalErrorReports ==
  ASSUME TypeOK, WriteFinalError
  PROVE  Reports
<1>1. s \in Session  BY DEF TypeOK
<1>2. SseError \in {SseError, JsonError} /\ JsonError \in {SseError, JsonError}
      /\ SseError \in Chunk /\ JsonError \in Chunk
  BY ChunksHold
<1> DEFINE b == DropBuffer(s)
<1>3. b \in Session /\ b.out = s.out  BY <1>1, DropBufferFields DEF SameMarks
<1>4. CASE FinalSSE
  <2> DEFINE st == IF s.promoted THEN s ELSE b
  <2>1. PICK o \in WriteOutcomes(1), ok \in BOOLEAN :
          s' = [DirectSSEError(st, o, ok) EXCEPT !.finalized = TRUE]
    BY <1>4 DEF FinalSSE
  <2>2. st \in Session /\ st.out = s.out  BY <1>1, <1>3
  <2> HIDE DEF st
  <2> DEFINE e == FlushSocket(WriteSocket(st, <<SseError>>, o), ok)
  <2>3. s' = [e EXCEPT !.finalized = TRUE]  BY <2>1 DEF DirectSSEError
  <2>4. /\ e \in Session /\ e.out = st.out \o Accepted(<<SseError>>, o)
        /\ (o.err => e.firstErr)
    BY <2>2, ErrorFrameFields
  <2> HIDE DEF e
  <2>5. s'.out = e.out /\ s'.firstErr = e.firstErr  BY <2>3, <2>4 DEF Session
  <2> QED  BY <1>1, <1>2, <2>2, <2>4, <2>5, ErrorWriteReports
<1>5. CASE FinalJSON
  <2> DEFINE d == [b EXCEPT !.ctype = "json"]
             h == SendHeader(d, Failure)
  <2>1. PICK o \in WriteOutcomes(1) :
          s' = [WriteSocket(h, <<JsonError>>, o) EXCEPT !.finalized = TRUE]
    BY <1>5 DEF FinalJSON
  <2> HIDE DEF b
  <2>2. d \in Session /\ d.out = s.out  BY <1>3 DEF Session, ContentType
  <2> HIDE DEF d
  <2>3. h \in Session /\ h.out = s.out  BY <2>2, SendHeaderFields DEF SameMarks
  <2> HIDE DEF h
  <2> DEFINE e == WriteSocket(h, <<JsonError>>, o)
             yes == TRUE
  <2>4. s' = [e EXCEPT !.finalized = TRUE]  BY <2>1
  <2>5. yes \in BOOLEAN  OBVIOUS
  <2> HIDE DEF yes
  <2>6. /\ e \in Session /\ e.out = h.out \o Accepted(<<JsonError>>, o)
        /\ (o.err => e.firstErr)
    BY <1>2, <2>3, <2>5, OneChunkFields
  <2> HIDE DEF e
  <2>7. s'.out = e.out /\ s'.firstErr = e.firstErr  BY <2>4, <2>6 DEF Session
  <2> QED  BY <1>1, <1>2, <2>3, <2>6, <2>7, ErrorWriteReports
<1> QED  BY <1>4, <1>5 DEF WriteFinalError

LEMMA CallbackErrorReports ==
  ASSUME TypeOK, CallbackError
  PROVE  Reports
<1>1. s \in Session  BY DEF TypeOK
<1>2. SseError \in {SseError, JsonError} /\ SseError \in Chunk  BY ChunksHold
<1>3. PICK o \in WriteOutcomes(1) : s' = WriteSocket(s, <<SseError>>, o)
  BY DEF CallbackError
<1> DEFINE yes == TRUE
<1>4. yes \in BOOLEAN  OBVIOUS
<1> HIDE DEF yes
<1>5. s'.out = s.out \o Accepted(<<SseError>>, o) /\ (o.err => s'.firstErr)
  BY <1>1, <1>2, <1>3, <1>4, OneChunkFields
<1> QED  BY <1>1, <1>2, <1>5, ErrorWriteReports

(* A session that is lost to its caller stays lost.                        *)
LEMMA LostForGood ==
  ASSUME TypeOK, Quiet \/ Start \/ StopMark \/ StopClose, Unavailable(s)
  PROVE  Unavailable(s')
<1>1. s \in Session  BY DEF TypeOK
<1>2. CASE Quiet  BY <1>2, QuietFollows DEF Follows, Unavailable
<1>3. CASE Start \/ StopMark \/ StopClose
  BY <1>1, <1>3 DEF Start, StopMark, StopClose, Unavailable, Session
<1> QED  BY <1>2, <1>3
----------------------------------------------------------------------------
(* Promotion and loss are for good, and what was written is flushed.       *)

LEMMA LossStays ==
  ASSUME TypeOK, [Next]_sessionVars, Unavailable(s)
  PROVE  Unavailable(s')
<1>1. s \in Session  BY DEF TypeOK
<1>2. CASE Quiet \/ Start \/ StopMark \/ StopClose  BY <1>2, LostForGood
<1>3. CASE FinalErrorBegin  BY <1>1, <1>3 DEF FinalErrorBegin, Unavailable
<1>4. CASE WriteFinalError  BY <1>4 DEF WriteFinalError
<1>5. CASE FinalErrorEnd  BY <1>1, <1>5 DEF FinalErrorEnd, Unavailable, Session
<1> QED
  BY <1>2, <1>3, <1>4, <1>5
  DEF Next, RequestCall, StopCall, Quiet

LEMMA PromotedMark ==
  ASSUME NEW st \in Session, NEW o \in WriteOutcomes(Len(st.buf)), NEW ok \in BOOLEAN,
         NEW t, t = Promoted(st, o, ok)
  PROVE  t.promoted
<1> DEFINE h == IF st.statusCode # 0 THEN SendHeader(st, OK) ELSE st
           p == [h EXCEPT !.promoted = TRUE]
           w == IF st.buf = <<>> THEN p ELSE WriteSocket(p, st.buf, o)
           r == ResetBuffer(w)
           f == FlushSocket(r, ok)
           c == [f EXCEPT !.committed = @ \/ st.statusCode # 0 \/ st.buf # <<>>]
<1>1. h \in Session  BY SendHeaderType
<1>2. p \in Session /\ p.promoted
  <2> HIDE DEF h
  <2> QED  BY <1>1 DEF Session
<1>3. w \in Session /\ w.promoted
  <2> HIDE DEF p
  <2>1. st.buf \in Seq(Chunk)  BY DEF Session, Chunk
  <2>2. CASE st.buf = <<>>  BY <1>2, <2>2
  <2>3. CASE st.buf # <<>>
    <3>1. w = WriteSocket(p, st.buf, o)  BY <2>3
    <3> QED  BY <1>2, <2>1, <2>3, <3>1, WriteSocketFields DEF SameMarks
  <2> QED  BY <2>2, <2>3
<1>4. r \in Session /\ r.promoted
  <2> HIDE DEF w
  <2> QED  BY <1>3, ResetBufferType DEF ResetBuffer, Session
<1>5. f \in Session /\ f.promoted
  <2> HIDE DEF r
  <2> QED  BY <1>4, FlushSocketFields DEF SameMarks
<1>6. c.promoted
  <2> HIDE DEF f
  <2> QED  BY <1>5 DEF Session
<1>7. t \in {w, f, c}  BY DEF Promoted
<1> HIDE DEF w, f, c
<1> QED  BY <1>3, <1>5, <1>6, <1>7

LEMMA PromoteMarks ==
  ASSUME TypeOK, Promote
  PROVE  s'.promoted
<1>1. s \in Session  BY DEF TypeOK
<1> QED  BY <1>1, PromotedMark DEF Promote

LEMMA PromotionStays ==
  ASSUME TypeOK, [Next]_sessionVars, s.promoted
  PROVE  s'.promoted
<1>1. s \in Session  BY DEF TypeOK
<1>2. CASE \/ SetSSEHeaders \/ Flush \/ FinalErrorBegin \/ FinalErrorEnd \/ StopCall
           \/ Start \/ Heartbeat \/ ClientGone \/ UNCHANGED sessionVars
  BY <1>2, SilentSteps DEF Silent
<1>3. CASE WriteHeader
  BY <1>1, <1>3, SendHeaderFields DEF WriteHeader, SameMarks
<1>4. CASE Promote  BY <1>4, PromoteMarks
<1>5. CASE Discard  BY <1>5 DEF Discard
<1>6. CASE \E p \in Payload : Write(p)  BY <1>6, WriteAdds
<1>7. CASE CallbackError  BY <1>7, CallbackErrorAdds
<1>8. CASE WriteFinalError
  <2>1. PICK o \in WriteOutcomes(1), ok \in BOOLEAN :
          s' = [DirectSSEError(s, o, ok) EXCEPT !.finalized = TRUE]
    BY <1>8 DEF WriteFinalError, FinalSSE, FinalJSON, JSONAllowed
  <2> DEFINE e == FlushSocket(WriteSocket(s, <<SseError>>, o), ok)
  <2>2. s' = [e EXCEPT !.finalized = TRUE]  BY <2>1 DEF DirectSSEError
  <2>3. e \in Session /\ SameMarks(e, s)
    BY <1>1, MarkerFlushed DEF Marker
  <2> HIDE DEF e
  <2> QED  BY <2>2, <2>3 DEF Session, SameMarks
<1> QED
  BY <1>2, <1>3, <1>4, <1>5, <1>6, <1>7, <1>8
  DEF Next, RequestCall

Settled(st) == st.pendingFlush => Unavailable(st)

LEMMA FlushSettles ==
  ASSUME NEW st \in Session, NEW ok \in BOOLEAN, NEW t, t = FlushSocket(st, ok)
  PROVE  t.firstErr \/ ~t.pendingFlush
<1> DEFINE f == SendHeader(st, OK)
           g == [f EXCEPT !.pendingFlush = FALSE]
<1>1. f \in Session  BY SendHeaderType
<1>2. f.pendingFlush = st.pendingFlush  BY DEF SendHeader, Session
<1>3. t = IF st.firstErr THEN st
          ELSE IF ~ok THEN StoreError(f)
          ELSE IF st.pendingFlush THEN Signal(g) ELSE f
  BY DEF FlushSocket
<1> HIDE DEF f
<1>4. StoreError(f).firstErr  BY <1>1, StoreErrorFields
<1>5. ~Signal(g).pendingFlush
  <2>1. g \in Session /\ ~g.pendingFlush  BY <1>1 DEF Session
  <2> HIDE DEF g
  <2> QED  BY <2>1 DEF Signal, Session
<1> QED  BY <1>2, <1>3, <1>4, <1>5

LEMMA PromotedSettles ==
  ASSUME NEW st \in Session, Settled(st), ~Unavailable(st),
         NEW o \in WriteOutcomes(Len(st.buf)), NEW ok \in BOOLEAN,
         NEW t, t = Promoted(st, o, ok)
  PROVE  Settled(t)
<1> DEFINE h == IF st.statusCode # 0 THEN SendHeader(st, OK) ELSE st
           p == [h EXCEPT !.promoted = TRUE]
           w == IF st.buf = <<>> THEN p ELSE WriteSocket(p, st.buf, o)
           r == ResetBuffer(w)
           f == FlushSocket(r, ok)
           c == [f EXCEPT !.committed = @ \/ st.statusCode # 0 \/ st.buf # <<>>]
<1>1. h \in Session  BY SendHeaderType
<1>2. p \in Session
  <2> HIDE DEF h
  <2> QED  BY <1>1 DEF Session
<1>3. w \in Session
  <2> HIDE DEF p
  <2>1. st.buf \in Seq(Chunk)  BY DEF Session, Chunk
  <2> QED  BY <1>2, <2>1, WriteSocketType
<1>4. r \in Session
  <2> HIDE DEF w
  <2> QED  BY <1>3, ResetBufferType
<1>5. f \in Session /\ (f.firstErr \/ ~f.pendingFlush)
  <2> HIDE DEF r
  <2> QED  BY <1>4, FlushSocketFields, FlushSettles
<1>6. c.firstErr = f.firstErr /\ c.pendingFlush = f.pendingFlush
  <2> HIDE DEF f
  <2> QED  BY <1>5 DEF Session
<1>7. t = IF w.firstErr THEN w ELSE IF f.firstErr THEN f ELSE c  BY DEF Promoted
<1> HIDE DEF w, f, c
<1> QED  BY <1>5, <1>6, <1>7 DEF Settled, Unavailable

LEMMA PromoteSettles ==
  ASSUME TypeOK, Settled(s), Promote
  PROVE  Settled(s')
<1>1. s \in Session  BY DEF TypeOK
<1> QED  BY <1>1, PromotedSettles DEF Promote

LEMMA FlushesAll ==
  ASSUME TypeOK, s.promoted, Flush \/ (~Flushable(s) /\ s' = s)
  PROVE  Settled(s')
<1>1. s \in Session  BY DEF TypeOK
<1>2. CASE Flush
  <2>1. PICK ok \in BOOLEAN : s' = FlushSocket(s, ok)  BY <1>2 DEF Flush
  <2> QED  BY <1>1, <2>1, FlushSettles DEF Settled, Unavailable
<1>3. CASE ~Flushable(s) /\ s' = s  BY <1>3 DEF Flushable, Settled, Unavailable
<1> QED  BY <1>2, <1>3

(* Only a write, and WriteFinalError's callback, leave something unflushed.*)
LEMMA StaysSettled ==
  ASSUME TypeOK, Settled(s),
         \/ SetSSEHeaders \/ Flush \/ Promote \/ Discard \/ WriteFinalError
         \/ FinalErrorBegin \/ FinalErrorEnd \/ StopCall \/ Start \/ Heartbeat
         \/ ClientGone \/ UNCHANGED sessionVars
         \/ ~s.promoted /\ \E p \in Payload : Write(p)
  PROVE  Settled(s')
<1>1. s \in Session  BY DEF TypeOK
<1>2. CASE SetSSEHeaders
  <2>1. CASE s' = s  BY <2>1
  <2>2. CASE s' = [s EXCEPT !.ctype = "sse", !.headersSet = TRUE]
    BY <1>1, <2>2 DEF Session, Settled, Unavailable
  <2> QED  BY <1>2, <2>1, <2>2 DEF SetSSEHeaders
<1>3. CASE Flush  BY <1>1, <1>3, FlushSettles DEF Flush, Settled, Unavailable
<1>4. CASE Promote  BY <1>4, PromoteSettles
<1>5. CASE Discard
  <2>1. CASE s' = s  BY <2>1
  <2>2. CASE s' = DropBuffer(s)
    BY <1>1, <2>2 DEF DropBuffer, Session, Settled, Unavailable
  <2> QED  BY <1>5, <2>1, <2>2 DEF Discard
<1>6. CASE WriteFinalError
  <2>1. s'.finalized
    <3>1. CASE FinalSSE
      <4> DEFINE b == IF s.promoted THEN s ELSE DropBuffer(s)
      <4>1. PICK o \in WriteOutcomes(1), ok \in BOOLEAN :
              s' = [DirectSSEError(b, o, ok) EXCEPT !.finalized = TRUE]
        BY <3>1 DEF FinalSSE
      <4>2. b \in Session  BY <1>1, DropBufferType
      <4> HIDE DEF b
      <4> DEFINE e == FlushSocket(WriteSocket(b, <<SseError>>, o), ok)
      <4>3. e \in Session  BY <4>2, MarkerFlushed DEF Marker
      <4>4. s' = [e EXCEPT !.finalized = TRUE]  BY <4>1 DEF DirectSSEError
      <4> HIDE DEF e
      <4> QED  BY <4>3, <4>4 DEF Session
    <3>2. CASE FinalJSON
      <4> DEFINE d == [DropBuffer(s) EXCEPT !.ctype = "json"]
                 h == SendHeader(d, Failure)
      <4>1. PICK o \in WriteOutcomes(1) :
              s' = [WriteSocket(h, <<JsonError>>, o) EXCEPT !.finalized = TRUE]
        BY <3>2 DEF FinalJSON
      <4>2. d \in Session
        <5>1. DropBuffer(s) \in Session  BY <1>1, DropBufferType
        <5> QED  BY <5>1 DEF Session, ContentType
      <4> HIDE DEF d
      <4>3. h \in Session  BY <4>2, SendHeaderFields
      <4> HIDE DEF h
      <4> DEFINE e == WriteSocket(h, <<JsonError>>, o)
      <4>4. e \in Session  BY <4>3, MarkerWritten DEF Marker
      <4>5. s' = [e EXCEPT !.finalized = TRUE]  BY <4>1
      <4> HIDE DEF e
      <4> QED  BY <4>4, <4>5 DEF Session
    <3> QED  BY <1>6, <3>1, <3>2 DEF WriteFinalError
  <2> QED  BY <2>1 DEF Settled, Unavailable
<1>7. CASE FinalErrorBegin \/ FinalErrorEnd \/ StopCall \/ Start \/ ClientGone
  BY <1>1, <1>7
  DEF FinalErrorBegin, FinalErrorEnd, StopCall, StopMark, StopClose, StopCancel, StopJoin,
      Start, ClientGone, Session, Settled, Unavailable
<1>8. CASE HbCheck \/ HbTimer \/ HbDone \/ HbActivity
  BY <1>1, <1>8
  DEF HbCheck, HbTimer, HbDone, HbActivity, Session, Settled, Unavailable
<1>9. CASE WriteKeepAlive
  <2>1. CASE s' = s  BY <2>1
  <2>2. CASE \E o \in WriteOutcomes(1), ok \in BOOLEAN :
               s' = FlushSocket(WriteSocket(s, <<KeepAlive>>, o), ok)
    <3>1. PICK o \in WriteOutcomes(1), ok \in BOOLEAN :
            s' = FlushSocket(WriteSocket(s, <<KeepAlive>>, o), ok)
      BY <2>2
    <3> DEFINE e == WriteSocket(s, <<KeepAlive>>, o)
    <3>2. e \in Session  BY <1>1, MarkerWritten DEF Marker
    <3>3. s' = FlushSocket(e, ok)  BY <3>1
    <3> HIDE DEF e
    <3> QED  BY <3>2, <3>3, FlushSettles DEF Settled, Unavailable
  <2> QED  BY <1>9, <2>1, <2>2 DEF WriteKeepAlive
<1>10. CASE UNCHANGED sessionVars  BY <1>10 DEF sessionVars
<1>11. CASE ~s.promoted /\ \E p \in Payload : Write(p)
  <2>1. PICK p \in Payload : s' = [s EXCEPT !.buf = Append(@, p)]  BY <1>11 DEF Write
  <2> DEFINE q == Append(s.buf, p)
  <2>2. s' = [s EXCEPT !.buf = q]  BY <2>1
  <2> HIDE DEF q
  <2> QED  BY <1>1, <2>2 DEF Session, Settled, Unavailable
<1> QED
  BY <1>2, <1>3, <1>4, <1>5, <1>6, <1>7, <1>8, <1>9, <1>10, <1>11 DEF Heartbeat
=============================================================================
