----------------------------- MODULE EventStream -----------------------------
(***************************************************************************)
(* internal/kiroproto: ParseStream and the accumulator that reassembles    *)
(* tool calls from frames, reading through the idle reader of              *)
(* internal/kiroclient.                                                    *)
(*                                                                         *)
(* Kiro sends a message as frames: text (everything the callback gets as   *)
(* it comes), tool frames, and frames that the parser ignores.  A frame    *)
(* arrives whole or in two parts, and the body may end, break or fall      *)
(* silent anywhere.  Every Read of the body runs in a goroutine of its     *)
(* own, against a timer.                                                   *)
(***************************************************************************)
EXTENDS Integers, Sequences, Filtering

CONSTANT MaxFrames   \* bound: frames of a message

ASSUME MaxFramesIsNat == MaxFrames \in Nat

VARIABLES
  calls,    \* history: the tool calls as Kiro has sent them so far
  sent,     \* how many frames it has sent
  wire,     \* what the next Read of the body returns
  body,     \* FALSE once the response body is closed
  reader,   \* the goroutine of the pending Read
  ch,       \* its result channel, of capacity one
  pc,       \* where ParseStream is
  partial,  \* it has read a part of a frame
  acc,      \* the toolUseAccumulator
  events,   \* history: what the callback was given
  stopped,  \* history: how many events when the callback returned true, or 0
  result,   \* what ParseStream returned
  gone      \* ctx is done

upstream == <<calls, sent>>
reading  == <<reader, ch>>
parsed   == <<acc, events, stopped>>
vars == <<calls, sent, wire, body, reader, ch, pc, partial, acc, events, stopped,
          result, gone>>

Number == 1..MaxFrames   \* of a frame, of a call, and of a call's id and name
None   == 0              \* a field that a frame lacks, an empty string
Made   == MaxFrames + 1  \* an id that the parser made up (a UUID)

(* input is the number of the frame, for whatever the frame holds; whole   *)
(* says that it is a JSON object, and not a piece of a string.             *)
ToolFrame ==
  [ type : {"tool"}, id : {None} \cup Number, name : {None} \cup Number,
    input : {None} \cup Number, whole : BOOLEAN, stop : BOOLEAN ]
TextFrame == [type : {"text"}, text : Number]
Plain(type) == [type |-> type]

(* "malformed": a checksum, a length or the JSON of a text event is wrong. *)
(* "ignored": known no-op and unknown events, undecodable tool frames.     *)
(* "part": the first bytes of a frame; "end": the body's end; "cut": the   *)
(* connection ended before the body did (io.ErrUnexpectedEOF).             *)
Marks == {Plain(t) : t \in {"ignored", "malformed", "exception", "part", "end", "cut"}}
Nothing == Plain("nothing")
Failure == Plain("failure")   \* the Read of a closed or cancelled body

Tool == [id : {None, Made} \cup Number, name : {None} \cup Number, input : Seq(Number)]
NoTool == [id |-> None, name |-> None, input |-> <<>>]

(* A call that Kiro sends: whole calls come as JSON objects, and done ones *)
(* will get no further frame.                                              *)
Call == [id : {None} \cup Number, name : {None} \cup Number, input : Seq(Number),
         whole : BOOLEAN, done : BOOLEAN]

Init ==
  /\ calls = <<>> /\ sent = 0
  /\ wire = Nothing /\ body = TRUE
  /\ reader = "none" /\ ch = Nothing
  /\ pc = "check" /\ partial = FALSE
  /\ acc = NoTool /\ events = <<>> /\ stopped = 0
  /\ result = "none"
  /\ gone = FALSE

----------------------------------------------------------------------------
(* Kiro.  The frames of a call are contiguous but for text between them;   *)
(* its id may be left out after the first frame, or everywhere; its name   *)
(* may come late; its stop frame may be missing when the next call has an  *)
(* id or when none follows.                                                *)

CanSend == body /\ wire = Nothing /\ pc # "done"

Arrives(frame) ==
  /\ CanSend
  /\ wire' = frame
  /\ UNCHANGED <<body, reading, pc, partial, parsed, result, gone>>

SendText ==
  /\ sent < MaxFrames
  /\ sent' = sent + 1
  /\ Arrives([type |-> "text", text |-> sent + 1])
  /\ UNCHANGED calls

SendMark ==
  /\ \E mark \in Marks :
        /\ mark.type = "part" => ~partial
        /\ mark.type \in {"end", "cut", "part"} \/ sent < MaxFrames
        /\ Arrives(mark)
        /\ sent' = IF mark.type \in {"end", "cut", "part"} THEN sent ELSE sent + 1
        /\ calls' = IF mark.type = "end"
                    THEN [k \in 1..Len(calls) |-> [calls[k] EXCEPT !.done = TRUE]]
                    ELSE calls

Extended(call, frame) ==
  [ call EXCEPT !.name  = IF frame.name = None THEN @ ELSE frame.name,
                !.input = IF frame.input = None THEN @
                          ELSE IF frame.whole THEN <<frame.input>> ELSE Append(@, frame.input),
                !.done  = frame.stop ]

Open == calls # <<>> /\ ~calls[Len(calls)].done

(* A frame of call number k, whose id, if it has one, and name are k too.  *)
FrameOf(k, call) ==
  { f \in [ type : {"tool"}, id : {None, call.id}, name : {None, k},
            input : {None, sent + 1}, whole : {FALSE, call.whole}, stop : BOOLEAN ] :
      f.whole = (call.whole /\ f.input # None) }

SendTool ==
  /\ sent < MaxFrames
  /\ sent' = sent + 1
  /\ \/ /\ Open
        /\ LET k == Len(calls)
           IN  \E f \in FrameOf(k, calls[k]) :
                 /\ Arrives(f)
                 /\ calls' = [calls EXCEPT ![k] = Extended(@, f)]
     \/ LET k == Len(calls) + 1
            before == [j \in 1..Len(calls) |-> [calls[j] EXCEPT !.done = TRUE]]
        IN  \E id \in {None, k}, whole \in BOOLEAN :
              LET call == [id |-> id, name |-> None, input |-> <<>>, whole |-> whole,
                           done |-> FALSE]
              IN  \E f \in FrameOf(k, call) :
                    /\ f.id = id
                    /\ id = None => f.name # None /\ ~Open
                    /\ whole => f.input # None
                    /\ Arrives(f)
                    /\ calls' = Append(before, Extended(call, f))

----------------------------------------------------------------------------
(* idleReader.Read, called by bufio for the next frame or part of one.     *)

CheckContext ==
  /\ pc = "check"
  /\ IF gone THEN pc' = "done" /\ result' = "error"
     ELSE pc' = "read" /\ UNCHANGED result
  /\ UNCHANGED <<upstream, wire, body, reading, partial, parsed, gone>>

StartRead ==
  /\ pc = "read"
  /\ pc' = "select"
  /\ reader' = "reading"
  /\ UNCHANGED <<upstream, wire, body, ch, partial, parsed, result, gone>>

(* The end of the body stays there for every later Read.                   *)
BodyRead ==
  /\ reader = "reading"
  /\ \/ /\ body /\ wire # Nothing
        /\ ch' = wire
        /\ wire' = IF wire.type \in {"end", "cut"} THEN wire ELSE Nothing
     \/ (~body \/ gone) /\ ch' = Failure /\ UNCHANGED wire
  /\ reader' = "sending"
  /\ UNCHANGED <<upstream, body, pc, partial, parsed, result, gone>>

Unbuffered == pc = "select"   \* mutant: make(chan result)
Buffered == TRUE

ReaderSends ==
  /\ reader = "sending"
  /\ Buffered
  /\ reader' = "none"
  /\ UNCHANGED <<upstream, wire, body, ch, pc, partial, parsed, result, gone>>

Result == reader = "none" /\ ch # Nothing

Returns(r) == pc' = "done" /\ result' = r

IdleTimeout ==
  /\ pc = "select"
  /\ body' = FALSE
  /\ Returns("error")
  /\ UNCHANGED <<upstream, wire, reading, partial, parsed, gone>>

----------------------------------------------------------------------------
(* toolUseAccumulator.                                                     *)

Built(tool) == [type |-> "tool", id |-> tool.id, name |-> tool.name, input |-> tool.input]

KeepsId(tool) == [tool EXCEPT !.name = None, !.input = <<>>]   \* mutant
Reset(tool) == NoTool

IsNewTool(held, frame) ==
  \/ frame.id # None /\ frame.id # held.id
  \/ frame.id = None /\ held.id = None /\ frame.name # None

(* What the accumulator holds after the frame, before its stop is seen.    *)
Updated(held, frame) ==
  LET tool == IF ~IsNewTool(held, frame) THEN held
              ELSE [NoTool EXCEPT !.id = IF frame.id = None THEN Made ELSE frame.id]
  IN  [ tool EXCEPT !.name  = IF frame.name = None THEN @ ELSE frame.name,
                    !.input = IF frame.input = None THEN @
                              ELSE IF frame.whole THEN <<frame.input>>
                              ELSE Append(@, frame.input) ]

Completed(held, frame) ==
  (IF IsNewTool(held, frame) /\ held.id # None THEN <<Built(held)>> ELSE <<>>)
    \o (IF frame.stop THEN <<Built(Updated(held, frame))>> ELSE <<>>)

----------------------------------------------------------------------------
(* ParseStream, with a result of the reader in hand.                       *)

All(es, i) == es   \* mutant: the loop over the events ignores the callback
UpTo(es, i) == SubSeq(es, 1, i)

(* The callback gets the events until it returns true, which ends it.      *)
Deliver(es) ==
  \/ /\ events' = events \o es
     /\ pc' = "check"
     /\ UNCHANGED <<stopped, result>>
  \/ \E i \in 1..Len(es) :
       /\ events' = events \o UpTo(es, i)
       /\ stopped' = Len(events) + i
       /\ Returns("nil")

Receive(types) ==
  /\ pc = "select"
  /\ Result
  /\ ch.type \in types
  /\ ch' = Nothing
  /\ UNCHANGED <<upstream, wire, body, reader, gone>>

HandleText ==
  /\ Receive({"text"})
  /\ partial' = FALSE
  /\ Deliver(<<ch>>)
  /\ UNCHANGED acc

HandleToolUse ==
  /\ Receive({"tool"})
  /\ partial' = FALSE
  /\ acc' = IF ch.stop THEN Reset(Updated(acc, ch)) ELSE Updated(acc, ch)
  /\ Deliver(Completed(acc, ch))

HandleIgnored ==
  /\ Receive({"ignored"})
  /\ partial' = FALSE
  /\ pc' = "check"
  /\ UNCHANGED <<parsed, result>>

(* The tool call in progress is not flushed.                               *)
HandleException ==
  /\ Receive({"exception"})
  /\ partial' = FALSE
  /\ events' = Append(events, ch)
  /\ Returns("nil")
  /\ UNCHANGED <<acc, stopped>>

ReadMore ==
  /\ Receive({"part"})
  /\ partial' = TRUE
  /\ pc' = "read"
  /\ UNCHANGED <<parsed, result>>

AnyEnd == ch.type \in {"end", "cut"}   \* mutant: n is not looked at
(* io.EOF, and io.ErrUnexpectedEOF too, when no byte of a frame was read.  *)
IsEOF == ch.type \in {"end", "cut"} /\ ~partial

EOFResult == "nil"

HandleEOF ==
  /\ Receive({"end", "cut"})
  /\ IsEOF
  /\ events' = IF acc.id = None THEN events ELSE Append(events, Built(acc))
  /\ acc' = Reset(acc)
  /\ Returns(EOFResult)
  /\ UNCHANGED <<partial, stopped>>

HandleError ==
  /\ Receive({"malformed", "failure", "end", "cut"})
  /\ ~IsEOF
  /\ Returns("error")
  /\ UNCHANGED <<partial, parsed>>

(* The caller's deferred Close.                                            *)
CloseBody ==
  /\ pc = "done" /\ body
  /\ body' = FALSE
  /\ UNCHANGED <<upstream, wire, reading, pc, partial, parsed, result, gone>>

ClientGone ==
  /\ ~gone /\ pc # "done"
  /\ gone' = TRUE
  /\ UNCHANGED <<upstream, wire, body, reading, pc, partial, parsed, result>>

----------------------------------------------------------------------------
Parser ==
  \/ CheckContext \/ StartRead \/ HandleText \/ HandleToolUse \/ HandleIgnored
  \/ HandleException \/ ReadMore \/ HandleEOF \/ HandleError \/ CloseBody

Reader == BodyRead \/ ReaderSends

Kiro == SendText \/ SendMark \/ SendTool

Next == Parser \/ IdleTimeout \/ Reader \/ Kiro \/ ClientGone

(* Goroutines run and the timer of a pending Read fires.  A Read of a      *)
(* closed body returns (net/http promises it).  Kiro need not send.        *)
Fairness == WF_vars(Parser) /\ WF_vars(IdleTimeout) /\ WF_vars(Reader)

Spec     == Init /\ [][Next]_vars
FairSpec == Spec /\ Fairness

----------------------------------------------------------------------------
(* Properties.                                                             *)

(* The parser's variables have the shape of the Go locals they stand for.  *)
TypeOK ==
  /\ calls \in Seq(Call) /\ sent \in 0..MaxFrames
  /\ wire \in ToolFrame \cup TextFrame \cup Marks \cup {Nothing}
  /\ ch \in ToolFrame \cup TextFrame \cup Marks \cup {Nothing, Failure}
  /\ reader \in {"none", "reading", "sending"}
  /\ pc \in {"check", "read", "select", "done"}
  /\ result \in {"none", "nil", "error"}
  /\ acc \in Tool
  /\ body \in BOOLEAN /\ partial \in BOOLEAN /\ gone \in BOOLEAN

(* What the callback gets of a tool call, and of an exception.             *)
ToolEvent == [ type : {"tool"}, id : {None, Made} \cup Number,
               name : {None} \cup Number, input : Seq(Number) ]
ExceptionEvent == {Plain("exception")}

Delivered(kind) == Filter(events, kind)

Matches(event, call) ==
  /\ event.id = IF call.id = None THEN Made ELSE call.id
  /\ event.name = call.name
  /\ event.input = call.input

(* Every tool call that the callback gets is one that Kiro sent, with its  *)
(* id, its name and all of its input, once and in order, although stop     *)
(* frames, ids and names are missing and text comes in between.            *)
ToolCallsAsMeant ==
  LET tools == Delivered(ToolEvent)
  IN  /\ Len(tools) <= Len(calls)
      /\ \A k \in 1..Len(tools) : Matches(tools[k], calls[k])

(* ParseStream returns nil for a stream that ended, not for one that broke *)
(* inside a frame; and then no tool call of the message is missing, with   *)
(* or without a stop frame.                                                *)
CleanEndLosesNothing ==
  result = "nil" /\ stopped = 0 /\ Delivered(ExceptionEvent) = <<>> =>
    ~partial /\ Len(Delivered(ToolEvent)) = Len(calls)

(* "If callback returns true, parsing stops": no event follows, not even   *)
(* the second one of the same frame.                                       *)
StopIsFinal ==
  stopped # 0 => Len(events) = stopped

(* ParseStream returns and leaves no goroutine behind, whatever Kiro sends *)
(* or does not send.                                                       *)
ReturnsWithoutReader == <>[](pc = "done" /\ reader = "none" /\ ~body)
=============================================================================
