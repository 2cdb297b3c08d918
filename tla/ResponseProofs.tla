---------------------------- MODULE ResponseProofs ----------------------------
(***************************************************************************)
(* Proofs about what becomes of Kiro's response: its frames, which         *)
(* ParseStream makes events of, and the events, which the accumulator      *)
(* makes the answer of.                                                    *)
(*                                                                         *)
(* EventStream.  For messages of any length, every tool call that Kiro     *)
(* sends reaches the callback as it was sent.  Kiro is up to two frames    *)
(* ahead of the parser: one that the pending Read has fetched, and one     *)
(* that the next Read will find.  The invariant lets the accumulator take  *)
(* both, and compares the outcome with what was sent.                      *)
(*                                                                         *)
(* Accumulator.  For texts of any length, in any division into events: the *)
(* failure function gives the shortest delta, the token budget counts      *)
(* whatever was delivered, the tag parser reads what a parser of the whole *)
(* text would, the stop sequence that is listed first is found where it    *)
(* begins, and the usage and the tool calls reported are what Kiro sent.   *)
(* A text is taken through the tag parser, the stop sequences and the      *)
(* budget by one lemma for each, and one lemma says of each handler what   *)
(* it keeps.                                                               *)
(***************************************************************************)
EXTENDS EventStream, Accumulator, FilteringProofs

Frame == ToolFrame \cup TextFrame \cup Marks
Event == ToolEvent \cup TextFrame \cup ExceptionEvent
Endings == {"end", "cut"}

Tools == Delivered(ToolEvent)

(* A parser: what it holds of an unfinished call, the calls it delivered.  *)
Parsing == [held : Tool, tools : Seq(ToolEvent)]
Now     == [held |-> acc, tools |-> Tools]

(* What a frame makes of it.                                               *)
Takes(p, f) ==
  IF f.type = "tool"
  THEN [held  |-> IF f.stop THEN NoTool ELSE Updated(p.held, f),
        tools |-> p.tools \o Completed(p.held, f)]
  ELSE IF f.type \in Endings
  THEN [held  |-> NoTool,
        tools |-> IF p.held.id = None THEN p.tools ELSE Append(p.tools, Built(p.held))]
  ELSE p

Ahead == Takes(Takes(Now, ch), wire)

(* All calls of cs were delivered, but for the last one if it is held.     *)
Agrees(p, cs) ==
  /\ \A k \in 1..Len(p.tools) : Matches(p.tools[k], cs[k])
  /\ IF p.held.id = None
     THEN p.held = NoTool /\ Len(p.tools) = Len(cs)
     ELSE Len(cs) = Len(p.tools) + 1 /\ Matches(p.held, cs[Len(cs)])

Unfinished(cs) == cs # <<>> /\ ~cs[Len(cs)].done

(* Calls have the numbers Kiro gave them.                                  *)
Numbered(cs) ==
  /\ cs \in Seq(Call)
  /\ \A k \in 1..Len(cs) : cs[k].id \in {None, k}

InStep ==
  pc # "done" =>
    /\ Agrees(Ahead, calls)
    /\ wire.type \notin Endings => (Unfinished(calls) <=> Ahead.held.id # None)

(* The reader and its channel.                                             *)
OneRead ==
  /\ pc \in {"check", "read"} => reader = "none" /\ ch = Nothing
  /\ reader = "reading" => ch = Nothing
  /\ ch.type \in Endings => wire = ch

(* How ParseStream returned.                                               *)
Outcome ==
  /\ (pc = "done") = (result # "none")
  /\ stopped # 0 => pc = "done" /\ Len(events) = stopped
  /\ result = "nil" =>
       \/ stopped # 0
       \/ Delivered(ExceptionEvent) # <<>>
       \/ ~partial /\ Len(Tools) = Len(calls)

IInv ==
  /\ TypeOK
  /\ events \in Seq(Event) /\ stopped \in Nat
  /\ Numbered(calls) /\ Len(calls) <= sent
  /\ ToolCallsAsMeant
  /\ InStep
  /\ OneRead
  /\ Outcome

----------------------------------------------------------------------------
(* The accumulator.                                                        *)

LEMMA Numbers ==
  /\ Number \subseteq Nat /\ None \notin Number /\ Made \notin Number /\ None # Made
  /\ None \in Nat /\ Made \in Nat
BY MaxFramesIsNat DEF Number, None, Made

LEMMA UpdatedFields ==
  ASSUME NEW held \in Tool, NEW f \in ToolFrame, NEW t, t = Updated(held, f),
         NEW base, base = IF IsNewTool(held, f) THEN <<>> ELSE held.input
  PROVE  /\ t \in Tool
         /\ t.id = IF ~IsNewTool(held, f) THEN held.id
                   ELSE IF f.id = None THEN Made ELSE f.id
         /\ t.name = IF f.name # None THEN f.name
                     ELSE IF IsNewTool(held, f) THEN None ELSE held.name
         /\ t.input = IF f.input = None THEN base
                      ELSE IF f.whole THEN <<f.input>> ELSE Append(base, f.input)
<1> DEFINE new == IsNewTool(held, f)
           id == IF f.id = None THEN Made ELSE f.id
           tool == IF ~new THEN held ELSE [NoTool EXCEPT !.id = id]
           name == IF f.name = None THEN tool.name ELSE f.name
           input == IF f.input = None THEN tool.input
                    ELSE IF f.whole THEN <<f.input>> ELSE Append(tool.input, f.input)
<1>1. /\ f.id \in {None} \cup Number /\ f.name \in {None} \cup Number
      /\ f.input \in {None} \cup Number
  BY DEF ToolFrame
<1>2. t = [tool EXCEPT !.name = name, !.input = input]
  <2>1. t = [ tool EXCEPT !.name  = IF f.name = None THEN @ ELSE f.name,
                          !.input = IF f.input = None THEN @
                                    ELSE IF f.whole THEN <<f.input>>
                                    ELSE Append(@, f.input) ]
    BY DEF Updated
  <2> HIDE DEF tool
  <2> QED  BY <2>1
<1>3. /\ tool \in Tool /\ tool.id = IF ~new THEN held.id ELSE id
      /\ tool.name = (IF new THEN None ELSE held.name)
      /\ tool.input = (IF new THEN <<>> ELSE held.input)
  <2>1. CASE new
    <3>1. id \in {Made} \cup Number  BY <1>1
    <3> HIDE DEF id
    <3>2. tool = [id |-> id, name |-> None, input |-> <<>>]  BY <2>1 DEF NoTool
    <3> HIDE DEF tool, new
    <3> QED  BY <2>1, <3>1, <3>2 DEF Tool
  <2>2. CASE ~new  BY <2>2 DEF Tool
  <2> QED  BY <2>1, <2>2
<1> HIDE DEF tool, id, new
<1>4. name \in {None} \cup Number  BY <1>1, <1>3 DEF Tool
<1>5. input \in Seq(Number)
  <2>1. tool.input \in Seq(Number)  BY <1>3 DEF Tool
  <2>2. f.input # None => <<f.input>> \in Seq(Number) /\ Append(tool.input, f.input) \in Seq(Number)
    BY <1>1, <2>1
  <2> QED  BY <2>1, <2>2
<1>6. /\ name = IF f.name # None THEN f.name ELSE IF new THEN None ELSE held.name
      /\ input = IF f.input = None THEN base
                 ELSE IF f.whole THEN <<f.input>> ELSE Append(base, f.input)
  BY <1>3 DEF new
<1> HIDE DEF name, input
<1>7. t \in Tool /\ t.id = tool.id /\ t.name = name /\ t.input = input
  BY <1>2, <1>3, <1>4, <1>5 DEF Tool
<1> QED  BY <1>3, <1>6, <1>7 DEF new, id

LEMMA BuiltType ==
  ASSUME NEW tool \in Tool
  PROVE  /\ Built(tool) \in ToolEvent /\ Built(tool) \in Event
         /\ \A c : Matches(Built(tool), c) <=> Matches(tool, c)
<1>1. Built(tool) \in ToolEvent  BY DEF Built, Tool, ToolEvent
<1>2. /\ Built(tool).id = tool.id /\ Built(tool).name = tool.name
      /\ Built(tool).input = tool.input
  BY DEF Built
<1> QED  BY <1>1, <1>2 DEF Matches, Event

LEMMA CompletedType ==
  ASSUME NEW held \in Tool, NEW f \in ToolFrame
  PROVE  Completed(held, f) \in Seq(ToolEvent)
<1> DEFINE x == IF IsNewTool(held, f) /\ held.id # None THEN <<Built(held)>> ELSE <<>>
           u == Updated(held, f)
           b == IF f.stop THEN <<Built(u)>> ELSE <<>>
<1>1. u \in Tool  BY UpdatedFields
<1> HIDE DEF u
<1>2. x \in Seq(ToolEvent)
  <2>1. <<Built(held)>> \in Seq(ToolEvent) /\ <<>> \in Seq(ToolEvent)  BY BuiltType
  <2> QED  BY <2>1
<1>3. b \in Seq(ToolEvent)
  <2>1. <<Built(u)>> \in Seq(ToolEvent) /\ <<>> \in Seq(ToolEvent)  BY <1>1, BuiltType
  <2> QED  BY <2>1
<1>4. Completed(held, f) = x \o b  BY DEF Completed, u
<1> HIDE DEF x, b
<1> QED  BY <1>2, <1>3, <1>4

(* What is delivered stays delivered, and a parser stays a parser.         *)
LEMMA TakesType ==
  ASSUME NEW p \in Parsing, NEW f \in Frame \cup {Nothing, Failure}
  PROVE  /\ Takes(p, f) \in Parsing
         /\ Len(p.tools) <= Len(Takes(p, f).tools)
         /\ \A k \in 1..Len(p.tools) : Takes(p, f).tools[k] = p.tools[k]
<1> DEFINE h == p.held
           ts == p.tools
<1>1. h \in Tool /\ ts \in Seq(ToolEvent)  BY DEF Parsing
<1>2. CASE f.type = "tool"
  <2> DEFINE c == Completed(h, f)
             n == IF f.stop THEN NoTool ELSE Updated(h, f)
  <2>1. f \in ToolFrame
    BY <1>2 DEF Frame, TextFrame, Marks, Plain, Nothing, Failure
  <2>2. c \in Seq(ToolEvent) /\ n \in Tool
    <3>1. NoTool \in Tool  BY DEF NoTool, Tool
    <3> QED  BY <1>1, <2>1, <3>1, CompletedType, UpdatedFields
  <2>3. Takes(p, f) = [held |-> n, tools |-> ts \o c]  BY <1>2 DEF Takes
  <2> HIDE DEF h, ts, c, n
  <2> QED  BY <1>1, <2>2, <2>3 DEF Parsing, ts
<1>3. CASE f.type \in Endings
  <2> DEFINE q == IF h.id = None THEN ts ELSE Append(ts, Built(h))
  <2>1. Takes(p, f) = [held |-> NoTool, tools |-> q]  BY <1>3 DEF Takes, Endings
  <2>2. Built(h) \in ToolEvent /\ NoTool \in Tool  BY <1>1, BuiltType DEF NoTool, Tool
  <2>3. q \in Seq(ToolEvent) /\ Len(ts) <= Len(q) /\ \A k \in 1..Len(ts) : q[k] = ts[k]
    <3> HIDE DEF ts, h
    <3> QED  BY <1>1, <2>2
  <2> HIDE DEF h, q
  <2> QED  BY <2>1, <2>2, <2>3 DEF Parsing
<1>4. CASE f.type # "tool" /\ f.type \notin Endings
  <2>1. Takes(p, f) = p  BY <1>4 DEF Takes
  <2> QED  BY <1>1, <2>1
<1> QED  BY <1>2, <1>3, <1>4

----------------------------------------------------------------------------
(* A call grows at Kiro as it grows in the accumulator.                    *)

LEMMA ExtendedFields ==
  ASSUME NEW call \in Call, NEW f \in ToolFrame, NEW t, t = Extended(call, f)
  PROVE  /\ t \in Call /\ t.id = call.id /\ t.done = f.stop
         /\ t.name = IF f.name = None THEN call.name ELSE f.name
         /\ t.input = IF f.input = None THEN call.input
                      ELSE IF f.whole THEN <<f.input>> ELSE Append(call.input, f.input)
<1> DEFINE name == IF f.name = None THEN call.name ELSE f.name
           input == IF f.input = None THEN call.input
                    ELSE IF f.whole THEN <<f.input>> ELSE Append(call.input, f.input)
<1>1. /\ f.id \in {None} \cup Number /\ f.name \in {None} \cup Number
      /\ f.input \in {None} \cup Number /\ f.stop \in BOOLEAN
  BY DEF ToolFrame
<1>2. t = [call EXCEPT !.name = name, !.input = input, !.done = f.stop]
  BY DEF Extended, Call
<1>3. name \in {None} \cup Number  BY <1>1 DEF Call
<1>4. input \in Seq(Number)
  <2>1. call.input \in Seq(Number)  BY DEF Call
  <2>2. f.input # None => <<f.input>> \in Seq(Number) /\ Append(call.input, f.input) \in Seq(Number)
    BY <1>1, <2>1
  <2> QED  BY <2>1, <2>2
<1> HIDE DEF name, input
<1>5. t \in Call /\ t.id = call.id /\ t.name = name /\ t.input = input /\ t.done = f.stop
  BY <1>1, <1>2, <1>3, <1>4 DEF Call
<1> QED  BY <1>5 DEF name, input

(* The last call and the one that is held take the same frame.             *)
LEMMA GrowTogether ==
  ASSUME NEW held \in Tool, NEW call \in Call, NEW f \in ToolFrame,
         Matches(held, call), ~IsNewTool(held, f)
  PROVE  Matches(Updated(held, f), Extended(call, f))
<1> DEFINE u == Updated(held, f)
           e == Extended(call, f)
<1>1. /\ u.id = held.id
      /\ u.name = IF f.name # None THEN f.name ELSE held.name
      /\ u.input = IF f.input = None THEN held.input
                   ELSE IF f.whole THEN <<f.input>> ELSE Append(held.input, f.input)
  BY UpdatedFields
<1>2. /\ e.id = call.id /\ e.name = IF f.name = None THEN call.name ELSE f.name
      /\ e.input = IF f.input = None THEN call.input
                   ELSE IF f.whole THEN <<f.input>> ELSE Append(call.input, f.input)
  BY ExtendedFields
<1> HIDE DEF u, e
<1>3. Matches(u, e)  BY <1>1, <1>2 DEF Matches
<1> QED  BY <1>3 DEF u, e

(* The frames delivered of a parser that holds nothing new.                *)
LEMMA TakesMore ==
  ASSUME NEW p \in Parsing, NEW f \in ToolFrame, NEW q, q = Takes(p, f),
         ~IsNewTool(p.held, f)
  PROVE  /\ f.stop => q = [held |-> NoTool, tools |-> Append(p.tools, Built(Updated(p.held, f)))]
         /\ ~f.stop => q = [held |-> Updated(p.held, f), tools |-> p.tools]
<1> DEFINE ts == p.tools
           u == Updated(p.held, f)
           b == Built(u)
<1>1. /\ f.type = "tool" /\ ts \in Seq(ToolEvent) /\ u \in Tool /\ b \in ToolEvent
  BY UpdatedFields, BuiltType DEF Parsing, ToolFrame
<1>2. Completed(p.held, f) = <<>> \o (IF f.stop THEN <<b>> ELSE <<>>)
  BY DEF Completed
<1> HIDE DEF b
<1>3. Completed(p.held, f) = IF f.stop THEN <<b>> ELSE <<>>  BY <1>2
<1>4. q = [held |-> IF f.stop THEN NoTool ELSE u, tools |-> ts \o Completed(p.held, f)]
  BY <1>1 DEF Takes
<1> HIDE DEF u, ts
<1>5. ts \o <<b>> = Append(ts, b) /\ ts \o <<>> = ts  BY <1>1, ConcatEmptySeq
<1>6. /\ f.stop => q = [held |-> NoTool, tools |-> Append(ts, b)]
      /\ ~f.stop => q = [held |-> u, tools |-> ts]
  BY <1>3, <1>4, <1>5
<1> QED  BY <1>6 DEF u, ts, b

(* A parser that begins a new call, after another or not.                  *)
LEMMA TakesNew ==
  ASSUME NEW p \in Parsing, NEW f \in ToolFrame, NEW q, q = Takes(p, f),
         NEW before, before = IF p.held.id = None THEN p.tools ELSE Append(p.tools, Built(p.held)),
         IsNewTool(p.held, f)
  PROVE  /\ f.stop => q = [held |-> NoTool, tools |-> Append(before, Built(Updated(p.held, f)))]
         /\ ~f.stop => q = [held |-> Updated(p.held, f), tools |-> before]
<1> DEFINE ts == p.tools
           u == Updated(p.held, f)
           b == Built(u)
           h == Built(p.held)
           first == IF p.held.id = None THEN <<>> ELSE <<h>>
           last == IF f.stop THEN <<b>> ELSE <<>>
<1>1. /\ f.type = "tool" /\ ts \in Seq(ToolEvent) /\ u \in Tool
      /\ b \in ToolEvent /\ h \in ToolEvent
  BY UpdatedFields, BuiltType DEF Parsing, ToolFrame
<1>2. Completed(p.held, f) = first \o last  BY DEF Completed
<1>3. q = [held |-> IF f.stop THEN NoTool ELSE u, tools |-> ts \o Completed(p.held, f)]
  BY <1>1 DEF Takes
<1> HIDE DEF u, ts, b, h
<1>4. /\ first \in Seq(ToolEvent) /\ last \in Seq(ToolEvent)
      /\ before = ts \o first /\ before \in Seq(ToolEvent)
  <2>1. <<h>> \in Seq(ToolEvent) /\ <<b>> \in Seq(ToolEvent) /\ <<>> \in Seq(ToolEvent)
    BY <1>1
  <2>2. ts \o <<h>> = Append(ts, h) /\ ts \o <<>> = ts /\ Append(ts, h) \in Seq(ToolEvent)
    BY <1>1, ConcatEmptySeq
  <2>3. before = IF p.held.id = None THEN ts ELSE Append(ts, h)  BY DEF ts, h
  <2> QED  BY <1>1, <2>1, <2>2, <2>3
<1>5. ts \o (first \o last) = before \o last
  <2> HIDE DEF first, last
  <2>1. (ts \o first) \o last = ts \o (first \o last)
    BY <1>1, <1>4, ConcatAssociative
  <2> QED  BY <1>4, <2>1
<1> HIDE DEF first
<1>6. before \o <<b>> = Append(before, b) /\ before \o <<>> = before
  <2> HIDE DEF last
  <2> QED  BY <1>1, <1>4, ConcatEmptySeq
<1>7. /\ f.stop => last = <<b>>
      /\ ~f.stop => last = <<>>
  OBVIOUS
<1> HIDE DEF last
<1>8. /\ f.stop => q = [held |-> NoTool, tools |-> Append(before, b)]
      /\ ~f.stop => q = [held |-> u, tools |-> before]
  BY <1>2, <1>3, <1>5, <1>6, <1>7
<1> QED  BY <1>8 DEF u, b

----------------------------------------------------------------------------
(* What Kiro sends keeps the parser in step.                               *)

InStepWith(p, cs) == Agrees(p, cs) /\ (Unfinished(cs) <=> p.held.id # None)

AllDone(cs) == [k \in 1..Len(cs) |-> [cs[k] EXCEPT !.done = TRUE]]

(* The calls cs, with a frame more of the last one.                        *)
Continued(cs, f, ds) ==
  LET k == Len(cs)
  IN  f.id \in {None, cs[k].id} /\ ds = [cs EXCEPT ![k] = Extended(@, f)]

(* The calls cs, with the first frame of one more.                         *)
Begun(cs, call, f, ds) ==
  LET k == Len(cs) + 1
  IN  /\ k \in Number
      /\ call \in Call /\ call.name = None /\ call.input = <<>> /\ call.id \in {None, k}
      /\ f.id = call.id
      /\ call.id = None => f.name # None /\ ~Unfinished(cs)
      /\ ds = Append(AllDone(cs), Extended(call, f))

(* More of the call that is open.                                          *)
LEMMA ToolContinues ==
  ASSUME NEW p \in Parsing, NEW cs, Numbered(cs), Agrees(p, cs), p.held.id # None,
         NEW f \in ToolFrame, NEW q, q = Takes(p, f), NEW ds, Continued(cs, f, ds)
  PROVE  InStepWith(q, ds) /\ Numbered(ds) /\ Len(ds) = Len(cs)
<1> DEFINE k == Len(cs)
           h == p.held
           ts == p.tools
           e == Extended(cs[k], f)
           u == Updated(h, f)
           b == Built(u)
<1>1. /\ cs \in Seq(Call) /\ Len(cs) = Len(ts) + 1 /\ Matches(h, cs[k])
      /\ \A i \in 1..Len(ts) : Matches(ts[i], cs[i])
      /\ h \in Tool /\ ts \in Seq(ToolEvent) /\ h.id # None
  BY DEF Numbered, Agrees, Parsing
<1>2. k \in 1..Len(cs) /\ k = Len(ts) + 1 /\ cs[k] \in Call  BY <1>1
<1>3. ~IsNewTool(h, f)  BY <1>1 DEF Continued, Matches, IsNewTool
<1>4. e \in Call /\ e.id = cs[k].id /\ e.done = f.stop  BY <1>2, ExtendedFields
<1>5. Matches(u, e) /\ u \in Tool /\ u.id = h.id
  <2>1. Matches(u, e)  BY <1>1, <1>2, <1>3, GrowTogether
  <2>2. u \in Tool /\ u.id = h.id  BY <1>1, <1>3, UpdatedFields
  <2> QED  BY <2>1, <2>2
<1>6. /\ ds \in Seq(Call) /\ Len(ds) = Len(cs) /\ ds[k] = e
      /\ \A i \in 1..Len(cs) : i # k => ds[i] = cs[i]
  <2>1. ds = [cs EXCEPT ![k] = e]  BY <1>2 DEF Continued
  <2> HIDE DEF e
  <2> QED  BY <1>1, <1>2, <1>4, <2>1
<1>7. /\ f.stop => q = [held |-> NoTool, tools |-> Append(ts, b)]
      /\ ~f.stop => q = [held |-> u, tools |-> ts]
  BY <1>3, TakesMore
<1>8. b \in ToolEvent /\ Matches(b, e)  BY <1>5, BuiltType
<1> HIDE DEF h, ts, e, u, b, k
<1>9. Numbered(ds)
  BY <1>1, <1>2, <1>4, <1>6 DEF Numbered
<1>10. \A i \in 1..Len(ts) : Matches(ts[i], ds[i])
  BY <1>1, <1>2, <1>6
<1>11. ds # <<>> /\ (Unfinished(ds) <=> ~f.stop)
  <2>1. Len(ds) # 0  BY <1>1, <1>2, <1>6
  <2>2. ds # <<>>  BY <2>1
  <2> QED  BY <1>1, <1>2, <1>4, <1>6, <2>2 DEF Unfinished
<1>12. CASE f.stop
  <2>1. q.held = NoTool /\ q.tools = Append(ts, b)  BY <1>7, <1>12
  <2>2. NoTool.id = None  BY DEF NoTool
  <2>3. /\ Len(Append(ts, b)) = Len(ds)
        /\ \A i \in 1..Len(Append(ts, b)) : Matches(Append(ts, b)[i], ds[i])
    BY <1>1, <1>2, <1>6, <1>8, <1>10
  <2>4. Agrees(q, ds)  BY <2>1, <2>2, <2>3 DEF Agrees
  <2> QED  BY <1>6, <1>9, <1>11, <1>12, <2>1, <2>2, <2>4 DEF InStepWith
<1>13. CASE ~f.stop
  <2>1. q.held = u /\ q.tools = ts  BY <1>7, <1>13
  <2>2. u.id # None  BY <1>1, <1>5
  <2>3. Len(ds) = Len(ts) + 1 /\ Matches(u, ds[Len(ds)])  BY <1>1, <1>2, <1>5, <1>6
  <2>4. Agrees(q, ds)  BY <1>10, <2>1, <2>2, <2>3 DEF Agrees
  <2> QED  BY <1>6, <1>9, <1>11, <1>13, <2>1, <2>2, <2>4 DEF InStepWith
<1> QED  BY <1>12, <1>13

LEMMA AllDoneFields ==
  ASSUME NEW cs, Numbered(cs), NEW ds, ds = AllDone(cs)
  PROVE  /\ Numbered(ds) /\ Len(ds) = Len(cs) /\ ~Unfinished(ds)
         /\ \A k \in 1..Len(cs) : \A e : Matches(e, cs[k]) => Matches(e, ds[k])
<1>1. cs \in Seq(Call) /\ Len(cs) \in Nat  BY DEF Numbered
<1>2. ASSUME NEW k \in 1..Len(cs)
      PROVE  /\ ds[k] \in Call /\ ds[k].done = TRUE /\ ds[k].id = cs[k].id
             /\ ds[k].name = cs[k].name /\ ds[k].input = cs[k].input
  <2> DEFINE c == cs[k]
  <2>1. c \in Call  BY <1>1
  <2>2. ds[k] = [c EXCEPT !.done = TRUE]  BY DEF AllDone
  <2> HIDE DEF c
  <2>3. /\ ds[k] \in Call /\ ds[k].done = TRUE /\ ds[k].id = c.id
        /\ ds[k].name = c.name /\ ds[k].input = c.input
    BY <2>1, <2>2 DEF Call
  <2> QED  BY <2>3 DEF c
<1>3. ds \in Seq(Call) /\ Len(ds) = Len(cs)
  <2> DEFINE n == Len(cs)
  <2>1. DOMAIN ds = 1..n /\ ds = [k \in 1..n |-> ds[k]]  BY DEF AllDone
  <2>2. ds \in [1..n -> Call]  BY <1>2, <2>1
  <2>3. n \in Nat  BY <1>1
  <2> HIDE DEF n
  <2>4. ds \in Seq(Call)  BY <2>2, <2>3, SeqDef
  <2>5. Len(ds) = n  BY <2>1, <2>3, <2>4, LenProperties
  <2> QED  BY <2>4, <2>5 DEF n
<1>4. Numbered(ds)  BY <1>2, <1>3 DEF Numbered
<1>5. ~Unfinished(ds)
  <2>1. ds # <<>> => Len(ds) \in 1..Len(cs)  BY <1>1, <1>3
  <2> QED  BY <1>2, <2>1 DEF Unfinished
<1>6. \A k \in 1..Len(cs) : \A e : Matches(e, cs[k]) => Matches(e, ds[k])
  BY <1>2 DEF Matches
<1> QED  BY <1>3, <1>4, <1>5, <1>6

(* What a parser delivers at the latest when the next call begins or the   *)
(* message ends.                                                           *)
LEMMA FlushDelivers ==
  ASSUME NEW p \in Parsing, NEW cs, Numbered(cs), Agrees(p, cs),
         NEW q, q = IF p.held.id = None THEN p.tools ELSE Append(p.tools, Built(p.held))
  PROVE  /\ q \in Seq(ToolEvent) /\ Len(q) = Len(cs)
         /\ \A k \in 1..Len(q) : Matches(q[k], cs[k])
<1> DEFINE ts == p.tools
           b == Built(p.held)
<1>1. /\ ts \in Seq(ToolEvent) /\ b \in ToolEvent
      /\ \A k \in 1..Len(ts) : Matches(ts[k], cs[k])
  BY BuiltType DEF Agrees, Parsing
<1>2. CASE p.held.id = None
  <2>1. q = ts /\ Len(ts) = Len(cs)  BY <1>2 DEF Agrees
  <2> QED  BY <1>1, <2>1
<1>3. CASE p.held.id # None
  <2>1. Len(cs) = Len(ts) + 1 /\ Matches(p.held, cs[Len(cs)])  BY <1>3 DEF Agrees
  <2>2. Matches(b, cs[Len(cs)])  BY <2>1, BuiltType DEF Parsing
  <2>3. q = Append(ts, b)  BY <1>3
  <2> HIDE DEF ts, b
  <2>4. q \in Seq(ToolEvent) /\ Len(q) = Len(cs) /\ Len(ts) \in Nat
    <3>1. Append(ts, b) \in Seq(ToolEvent) /\ Len(Append(ts, b)) = Len(ts) + 1
          /\ Len(ts) \in Nat
      BY <1>1
    <3> QED  BY <2>1, <2>3, <3>1
  <2>5. ASSUME NEW k \in 1..Len(q) PROVE Matches(q[k], cs[k])
    <3>1. CASE k = Len(cs)
      <4>1. q[k] = b  BY <1>1, <2>1, <2>3, <3>1
      <4> QED  BY <2>2, <3>1, <4>1
    <3>2. CASE k # Len(cs)
      <4>1. k \in 1..Len(ts)  BY <2>1, <2>4, <3>2
      <4>2. q[k] = ts[k]  BY <1>1, <2>3, <4>1
      <4> QED  BY <1>1, <4>1, <4>2
    <3> QED  BY <3>1, <3>2
  <2> QED  BY <2>4, <2>5
<1> QED  BY <1>2, <1>3

LEMMA AppendFields ==
  ASSUME NEW X, NEW d \in Seq(X), NEW e \in X, NEW t, t = Append(d, e)
  PROVE  /\ t \in Seq(X) /\ Len(t) = Len(d) + 1 /\ t[Len(d) + 1] = e
         /\ \A i \in 1..Len(d) : t[i] = d[i]
OBVIOUS

(* The first frame of the next call.                                       *)
LEMMA ToolBegins ==
  ASSUME NEW p \in Parsing, NEW cs, Numbered(cs), Agrees(p, cs), InStepWith(p, cs),
         NEW f \in ToolFrame, NEW call,
         NEW q, q = Takes(p, f), NEW ds, Begun(cs, call, f, ds)
  PROVE  InStepWith(q, ds) /\ Numbered(ds) /\ Len(ds) = Len(cs) + 1
<1> DEFINE k == Len(cs) + 1
           id == call.id
           h == p.held
           e == Extended(call, f)
           u == Updated(h, f)
           b == Built(u)
           d == AllDone(cs)
           ts == IF h.id = None THEN p.tools ELSE Append(p.tools, Built(h))
<1>1. h \in Tool /\ cs \in Seq(Call) /\ Len(cs) \in Nat  BY DEF Numbered, Parsing
<1>2. /\ call \in Call /\ call.id = id /\ call.name = None /\ call.input = <<>>
      /\ k \in Number /\ id \in {None, k} /\ f.id = id
      /\ id = None => f.name # None /\ ~Unfinished(cs)
  BY DEF Begun
<1>3. IsNewTool(h, f)
  <2>1. CASE id = None
    <3>1. h.id = None  BY <1>2, <2>1 DEF InStepWith
    <3> QED  BY <1>2, <2>1, <3>1 DEF IsNewTool
  <2>2. CASE id # None
    <3>1. h.id \in {None, Made, Len(cs)}
      <4>1. h.id # None => Matches(h, cs[Len(cs)]) /\ Len(cs) \in 1..Len(cs)
        BY <1>1 DEF Agrees, Parsing
      <4>2. Len(cs) \in 1..Len(cs) => cs[Len(cs)].id \in {None, Len(cs)}  BY DEF Numbered
      <4> QED  BY <4>1, <4>2 DEF Matches
    <3>2. k \notin {None, Made, Len(cs)}  BY <1>1, <1>2, Numbers
    <3> QED  BY <1>2, <2>2, <3>1, <3>2 DEF IsNewTool
  <2> QED  BY <2>1, <2>2
<1>4. /\ e \in Call /\ e.id = id /\ e.done = f.stop
      /\ e.name = f.name
      /\ e.input = IF f.input = None THEN <<>>
                   ELSE IF f.whole THEN <<f.input>> ELSE Append(<<>>, f.input)
  <2>1. /\ e \in Call /\ e.id = call.id /\ e.done = f.stop
        /\ e.name = IF f.name = None THEN call.name ELSE f.name
        /\ e.input = IF f.input = None THEN call.input
                     ELSE IF f.whole THEN <<f.input>> ELSE Append(call.input, f.input)
    BY <1>2, ExtendedFields
  <2> HIDE DEF e
  <2> QED  BY <1>2, <2>1
<1>5. /\ u \in Tool /\ u.id = IF f.id = None THEN Made ELSE f.id
      /\ u.name = f.name
      /\ u.input = IF f.input = None THEN <<>>
                   ELSE IF f.whole THEN <<f.input>> ELSE Append(<<>>, f.input)
  <2> DEFINE base == <<>>
  <2>1. base = IF IsNewTool(h, f) THEN <<>> ELSE h.input  BY <1>3
  <2> HIDE DEF base
  <2>2. /\ u \in Tool
        /\ u.id = IF ~IsNewTool(h, f) THEN h.id ELSE IF f.id = None THEN Made ELSE f.id
        /\ u.name = IF f.name # None THEN f.name
                    ELSE IF IsNewTool(h, f) THEN None ELSE h.name
        /\ u.input = IF f.input = None THEN base
                     ELSE IF f.whole THEN <<f.input>> ELSE Append(base, f.input)
    BY <1>1, <2>1, UpdatedFields
  <2> HIDE DEF u
  <2> QED  BY <1>3, <2>2 DEF base
<1>6. Matches(u, e) /\ u.id # None  BY <1>2, <1>4, <1>5, Numbers DEF Matches
<1>7. b \in ToolEvent /\ Matches(b, e)  BY <1>5, <1>6, BuiltType
<1>8. /\ Numbered(d) /\ d \in Seq(Call) /\ Len(d) = Len(cs)
      /\ \A i \in 1..Len(cs) : \A x : Matches(x, cs[i]) => Matches(x, d[i])
  BY AllDoneFields DEF Numbered
<1>9. /\ ts \in Seq(ToolEvent) /\ Len(ts) = Len(cs)
      /\ \A i \in 1..Len(ts) : Matches(ts[i], cs[i])
  BY FlushDelivers
<1>10. /\ f.stop => q = [held |-> NoTool, tools |-> Append(ts, b)]
       /\ ~f.stop => q = [held |-> u, tools |-> ts]
  BY <1>3, TakesNew
<1>11. ds = Append(d, e)  BY DEF Begun
<1> HIDE DEF h, e, u, b, d, ts, id
<1>12. /\ ds \in Seq(Call) /\ Len(ds) = k /\ ds[k] = e
       /\ \A i \in 1..Len(cs) : ds[i] = d[i]
  <2>1. ds \in Seq(Call) /\ Len(ds) = Len(d) + 1 /\ ds[Len(d) + 1] = e
        /\ \A i \in 1..Len(d) : ds[i] = d[i]
    BY <1>4, <1>8, <1>11, AppendFields
  <2> QED  BY <1>8, <2>1
<1>13. Numbered(ds)
  <2>1. \A i \in 1..Len(cs) : ds[i].id \in {None, i}  BY <1>8, <1>12 DEF Numbered
  <2>2. \A i \in 1..Len(ds) : i \in 1..Len(cs) \/ i = k  BY <1>1, <1>12
  <2> QED  BY <1>2, <1>4, <1>12, <2>1, <2>2 DEF Numbered
<1>14. \A i \in 1..Len(ts) : Matches(ts[i], ds[i])  BY <1>8, <1>9, <1>12
<1>15. Unfinished(ds) <=> ~f.stop
  <2>1. Len(ds) # 0  BY <1>1, <1>12
  <2>2. ds # <<>>  BY <2>1
  <2> QED  BY <1>4, <1>12, <2>2 DEF Unfinished
<1>16. CASE f.stop
  <2>1. q.held = NoTool /\ q.tools = Append(ts, b)  BY <1>10, <1>16
  <2>2. NoTool.id = None  BY DEF NoTool
  <2>3. /\ Len(Append(ts, b)) = k
        /\ \A i \in 1..k : i \in 1..Len(ts) \/ i = k
        /\ \A i \in 1..Len(ts) : Append(ts, b)[i] = ts[i]
        /\ Append(ts, b)[k] = b
    BY <1>1, <1>7, <1>9
  <2>4. \A i \in 1..k : Matches(Append(ts, b)[i], ds[i])  BY <1>7, <1>12, <1>14, <2>3
  <2>5. Agrees(q, ds)  BY <1>12, <2>1, <2>2, <2>3, <2>4 DEF Agrees
  <2> QED  BY <1>12, <1>13, <1>15, <1>16, <2>1, <2>2, <2>5 DEF InStepWith
<1>17. CASE ~f.stop
  <2>1. q.held = u /\ q.tools = ts  BY <1>10, <1>17
  <2>2. Len(ds) = Len(ts) + 1 /\ Matches(u, ds[Len(ds)])  BY <1>6, <1>9, <1>12
  <2>3. Agrees(q, ds)  BY <1>6, <1>14, <2>1, <2>2 DEF Agrees
  <2> QED  BY <1>6, <1>12, <1>13, <1>15, <1>17, <2>1, <2>3 DEF InStepWith
<1> QED  BY <1>16, <1>17

(* The end of the message, and of a body that broke off.                   *)
LEMMA MessageEnds ==
  ASSUME NEW p \in Parsing, NEW cs, Numbered(cs), Agrees(p, cs),
         NEW f, f.type \in Endings, NEW q, q = Takes(p, f), NEW ds, ds \in {cs, AllDone(cs)}
  PROVE  Agrees(q, ds) /\ q.held = NoTool /\ Len(q.tools) = Len(cs)
<1> DEFINE ts == IF p.held.id = None THEN p.tools ELSE Append(p.tools, Built(p.held))
<1>1. q = [held |-> NoTool, tools |-> ts]
  <2>1. f.type # "tool"  BY DEF Endings
  <2> QED  BY <2>1 DEF Takes
<1>2. /\ ts \in Seq(ToolEvent) /\ Len(ts) = Len(cs)
      /\ \A i \in 1..Len(ts) : Matches(ts[i], cs[i])
  BY FlushDelivers
<1> HIDE DEF ts
<1>3. /\ Len(ds) = Len(cs)
      /\ \A i \in 1..Len(cs) : \A x : Matches(x, cs[i]) => Matches(x, ds[i])
  BY AllDoneFields
<1>4. q.held = NoTool /\ q.tools = ts /\ NoTool.id = None  BY <1>1 DEF NoTool
<1>5. Agrees(q, ds)  BY <1>2, <1>3, <1>4 DEF Agrees
<1> QED  BY <1>2, <1>4, <1>5

----------------------------------------------------------------------------
(* The state of the parser.                                                *)

Fetched == Frame \cup {Nothing, Failure}

LEMMA TakesNothing ==
  ASSUME NEW p, NEW f, f.type \notin {"tool", "end", "cut"}
  PROVE  Takes(p, f) = p
BY DEF Takes, Endings

LEMMA NothingTaken ==
  /\ Nothing.type \notin {"tool", "end", "cut"} /\ Nothing.type \notin Endings
  /\ Failure.type \notin {"tool", "end", "cut"}
BY DEF Nothing, Failure, Plain, Endings

LEMMA NowType ==
  ASSUME acc \in Tool, events \in Seq(Event), ch \in Fetched, wire \in Fetched
  PROVE  Now \in Parsing /\ Takes(Now, ch) \in Parsing /\ Ahead \in Parsing
<1>1. Tools \in Seq(ToolEvent)
  <2>1. Tools \in Seq(Event \cap ToolEvent)  BY FilterType DEF Tools, Delivered
  <2>2. Event \cap ToolEvent = ToolEvent  BY DEF Event
  <2> QED  BY <2>1, <2>2
<1>2. Now \in Parsing  BY <1>1 DEF Now, Parsing
<1>3. Takes(Now, ch) \in Parsing  BY <1>2, TakesType DEF Fetched
<1>4. Takes(Takes(Now, ch), wire) \in Parsing  BY <1>3, TakesType DEF Fetched
<1> QED  BY <1>2, <1>3, <1>4 DEF Ahead

(* What was delivered is a part of what will have been delivered.          *)
LEMMA PartOfAhead ==
  ASSUME NEW p \in Parsing, NEW f \in Fetched, NEW g \in Fetched, NEW cs,
         Agrees(Takes(Takes(p, f), g), cs)
  PROVE  /\ Len(Takes(p, f).tools) <= Len(cs)
         /\ \A k \in 1..Len(Takes(p, f).tools) : Matches(Takes(p, f).tools[k], cs[k])
         /\ Len(p.tools) <= Len(cs)
         /\ \A k \in 1..Len(p.tools) : Matches(p.tools[k], cs[k])
<1> DEFINE q == Takes(p, f)
           r == Takes(q, g)
<1>1. /\ q \in Parsing /\ Len(p.tools) <= Len(q.tools)
      /\ \A k \in 1..Len(p.tools) : q.tools[k] = p.tools[k]
  BY TakesType DEF Fetched
<1> HIDE DEF q
<1>2. /\ r \in Parsing /\ Len(q.tools) <= Len(r.tools)
      /\ \A k \in 1..Len(q.tools) : r.tools[k] = q.tools[k]
  BY <1>1, TakesType DEF Fetched
<1>3. Agrees(r, cs)  BY DEF q
<1> HIDE DEF r
<1>4. /\ \A k \in 1..Len(r.tools) : Matches(r.tools[k], cs[k])
      /\ Len(r.tools) <= Len(cs)
  <2>1. r.tools \in Seq(ToolEvent)  BY <1>2 DEF Parsing
  <2>2. Len(r.tools) \in Nat  BY <2>1
  <2>3. Len(cs) = Len(r.tools) \/ Len(cs) = Len(r.tools) + 1  BY <1>3 DEF Agrees
  <2> QED  BY <1>3, <2>2, <2>3 DEF Agrees
<1>5. Len(p.tools) \in Nat /\ Len(q.tools) \in Nat /\ Len(r.tools) \in Nat
  <2>1. p.tools \in Seq(ToolEvent) /\ q.tools \in Seq(ToolEvent) /\ r.tools \in Seq(ToolEvent)
    BY <1>1, <1>2 DEF Parsing
  <2> QED  BY <2>1
<1>6. Len(cs) >= Len(q.tools) /\ Len(cs) >= Len(p.tools) 
  <2>1. Len(cs) = Len(r.tools) \/ Len(cs) = Len(r.tools) + 1  BY <1>3 DEF Agrees
  <2> QED  BY <1>1, <1>2, <1>5, <2>1
<1>7. \A k \in 1..Len(q.tools) : k \in 1..Len(r.tools)  BY <1>2, <1>5
<1>8. \A k \in 1..Len(p.tools) : k \in 1..Len(q.tools)  BY <1>1, <1>5
<1>9. \A k \in 1..Len(q.tools) : Matches(q.tools[k], cs[k])  BY <1>2, <1>4, <1>7
<1>10. \A k \in 1..Len(p.tools) : Matches(p.tools[k], cs[k])  BY <1>1, <1>8, <1>9
<1> QED  BY <1>6, <1>9, <1>10 DEF q

LEMMA InitInvariant == Init => IInv
<1> SUFFICES ASSUME Init PROVE IInv  OBVIOUS
<1>1. calls = <<>> /\ events = <<>> /\ Len(<<>>) = 0 /\ <<>> \in Seq(Call) /\ <<>> \in Seq(Event)
  BY DEF Init
<1>2. NoTool \in Tool /\ NoTool.id = None  BY DEF NoTool, Tool
<1>3. TypeOK
  <2>1. calls \in Seq(Call) /\ sent \in 0..MaxFrames
    BY <1>1, MaxFramesIsNat DEF Init
  <2>2. wire = Nothing /\ ch = Nothing  BY DEF Init
  <2>3. acc \in Tool  BY <1>2 DEF Init
  <2>4. /\ reader \in {"none", "reading", "sending"}
        /\ pc \in {"check", "read", "select", "done"}
        /\ result \in {"none", "nil", "error"}
        /\ body \in BOOLEAN /\ partial \in BOOLEAN /\ gone \in BOOLEAN
    BY DEF Init
  <2> QED  BY <2>1, <2>2, <2>3, <2>4 DEF TypeOK
<1>4. Numbered(calls) /\ Len(calls) <= sent  BY <1>1 DEF Init, Numbered
<1>5. Tools = <<>> /\ Delivered(ToolEvent) = <<>> /\ Delivered(ExceptionEvent) = <<>>
  BY <1>1, FilterEmpty DEF Tools, Delivered
<1>6. ToolCallsAsMeant  BY <1>1, <1>5 DEF ToolCallsAsMeant
<1>7. Ahead = Now  BY TakesNothing, NothingTaken DEF Ahead, Init
<1>8. Now.held = NoTool /\ Now.tools = <<>>  BY <1>5 DEF Now, Init
<1>9. InStep
  BY <1>1, <1>2, <1>7, <1>8 DEF InStep, Agrees, Unfinished
<1>10. OneRead  BY NothingTaken DEF OneRead, Init
<1>11. Outcome  BY DEF Outcome, Init
<1> QED  BY <1>1, <1>3, <1>4, <1>6, <1>9, <1>10, <1>11 DEF IInv, Init

----------------------------------------------------------------------------
(* Kiro sends a frame.                                                     *)

LEMMA FrameTypes ==
  /\ \A f \in ToolFrame : f.type = "tool"
  /\ \A f \in TextFrame : f.type = "text"
  /\ \A f \in Marks : f.type \in {"ignored", "malformed", "exception", "part", "end", "cut"}
  /\ \A f \in Marks : f = Plain(f.type)
BY DEF ToolFrame, TextFrame, Marks, Plain

LEMMA ArrivesKeeps ==
  ASSUME IInv, NEW f \in Frame, Arrives(f),
         Numbered(calls'), Len(calls') <= sent', sent' \in 0..MaxFrames,
         Agrees(Takes(Ahead, f), calls'),
         f.type \notin Endings =>
           (Unfinished(calls') <=> Takes(Ahead, f).held.id # None)
  PROVE  IInv'
<1>1. /\ wire = Nothing /\ pc # "done" /\ wire' = f
      /\ UNCHANGED <<body, reader, ch, pc, partial, acc, events, stopped, result, gone>>
  BY DEF Arrives, CanSend, reading, parsed
<1>2. TypeOK /\ events \in Seq(Event) /\ OneRead /\ Outcome /\ stopped \in Nat
  BY DEF IInv
<1>3. TypeOK'
  <2>1. calls' \in Seq(Call)  BY DEF Numbered
  <2>2. wire' \in ToolFrame \cup TextFrame \cup Marks \cup {Nothing}  BY <1>1 DEF Frame
  <2> QED  BY <1>1, <1>2, <2>1, <2>2 DEF TypeOK
<1>4. acc \in Tool /\ ch \in Fetched /\ f \in Fetched
  BY <1>2 DEF TypeOK, Fetched, Frame
<1>5. /\ Now' = Now /\ Tools' = Tools
      /\ Delivered(ToolEvent)' = Delivered(ToolEvent)
  BY <1>1 DEF Now, Tools, Delivered
<1>6. Ahead = Takes(Now, ch)  BY <1>1, TakesNothing, NothingTaken DEF Ahead
<1>7. Ahead' = Takes(Ahead, f)  BY <1>1, <1>5, <1>6 DEF Ahead
<1>8. InStep'  BY <1>1, <1>7 DEF InStep
<1>9. ToolCallsAsMeant'
  <2>1. Nothing \in Fetched  BY DEF Fetched
  <2>2. Now \in Parsing /\ Takes(Now, ch) \in Parsing
    BY <1>2, <1>1, <1>4, <2>1, NowType
  <2>3. /\ Len(Now.tools) <= Len(calls')
        /\ \A k \in 1..Len(Now.tools) : Matches(Now.tools[k], calls'[k])
    BY <1>4, <1>6, <2>2, PartOfAhead
  <2>4. Now.tools = Delivered(ToolEvent)'  BY <1>5 DEF Now, Tools
  <2> QED  BY <2>3, <2>4 DEF ToolCallsAsMeant
<1>10. OneRead'
  <2>1. ch.type \notin Endings  BY <1>1, <1>2, NothingTaken DEF OneRead
  <2> QED  BY <1>1, <1>2, <2>1 DEF OneRead
<1>11. Outcome'  BY <1>1, <1>2 DEF Outcome
<1> QED  BY <1>1, <1>2, <1>3, <1>8, <1>9, <1>10, <1>11 DEF IInv

LEMMA BeforeArrival ==
  ASSUME IInv, CanSend
  PROVE  /\ Ahead \in Parsing /\ Numbered(calls) /\ InStepWith(Ahead, calls)
         /\ Len(calls) \in Nat /\ Len(calls) <= sent /\ sent \in 0..MaxFrames
         /\ calls \in Seq(Call)
<1>1. TypeOK /\ events \in Seq(Event) /\ Numbered(calls) /\ Len(calls) <= sent /\ InStep
  BY DEF IInv
<1>2. acc \in Tool /\ ch \in Fetched /\ wire \in Fetched
  BY <1>1 DEF TypeOK, Fetched, Frame
<1>3. Ahead \in Parsing  BY <1>1, <1>2, NowType
<1>4. InStepWith(Ahead, calls)
  BY <1>1, NothingTaken DEF CanSend, InStep, InStepWith
<1> QED  BY <1>1, <1>3, <1>4 DEF TypeOK

LEMMA SendTextStep == IInv /\ SendText => IInv'
<1> SUFFICES ASSUME IInv, SendText PROVE IInv'  OBVIOUS
<1> DEFINE f == [type |-> "text", text |-> sent + 1]
<1>1. CanSend /\ Arrives(f) /\ calls' = calls /\ sent' = sent + 1 /\ sent < MaxFrames
  BY DEF SendText, Arrives
<1>2. /\ Numbered(calls) /\ InStepWith(Ahead, calls)
      /\ Len(calls) \in Nat /\ Len(calls) <= sent /\ sent \in 0..MaxFrames
  BY <1>1, BeforeArrival
<1>3. sent + 1 \in 0..MaxFrames /\ Len(calls) <= sent + 1 /\ sent + 1 \in Number
  BY <1>1, <1>2, MaxFramesIsNat DEF Number
<1>4. f \in Frame /\ f.type = "text"  BY <1>3 DEF Frame, TextFrame
<1> HIDE DEF f
<1>5. Takes(Ahead, f) = Ahead  BY <1>4, TakesNothing
<1>6. /\ Agrees(Takes(Ahead, f), calls')
      /\ Unfinished(calls') <=> Takes(Ahead, f).held.id # None
  BY <1>1, <1>2, <1>5 DEF InStepWith
<1>7. Numbered(calls') /\ Len(calls') <= sent' /\ sent' \in 0..MaxFrames
  BY <1>1, <1>2, <1>3
<1> QED  BY <1>1, <1>4, <1>6, <1>7, ArrivesKeeps

LEMMA SendMarkStep == IInv /\ SendMark => IInv'
<1> SUFFICES ASSUME IInv, SendMark PROVE IInv'  OBVIOUS
<1>1. PICK f \in Marks :
        /\ f.type \in {"end", "cut", "part"} \/ sent < MaxFrames
        /\ Arrives(f)
        /\ sent' = IF f.type \in {"end", "cut", "part"} THEN sent ELSE sent + 1
        /\ calls' = IF f.type = "end" THEN AllDone(calls) ELSE calls
  BY DEF SendMark, AllDone
<1>2. /\ Ahead \in Parsing /\ Numbered(calls) /\ InStepWith(Ahead, calls)
      /\ Len(calls) \in Nat /\ Len(calls) <= sent /\ sent \in 0..MaxFrames
  BY <1>1, BeforeArrival DEF Arrives
<1>3. sent' \in 0..MaxFrames /\ Len(calls) <= sent'
  BY <1>1, <1>2, MaxFramesIsNat
<1>4. Numbered(calls') /\ Len(calls') = Len(calls)
  BY <1>1, <1>2, AllDoneFields
<1>5. f \in Frame  BY DEF Frame
<1>6. CASE f.type \in Endings
  <2>1. calls' \in {calls, AllDone(calls)}  BY <1>1
  <2>2. Agrees(Ahead, calls)  BY <1>2 DEF InStepWith
  <2>3. Agrees(Takes(Ahead, f), calls')  BY <1>2, <1>6, <2>1, <2>2, MessageEnds
  <2> QED  BY <1>1, <1>3, <1>4, <1>5, <1>6, <2>3, ArrivesKeeps
<1>7. CASE f.type \notin Endings
  <2>1. f.type \notin {"tool", "end", "cut"} /\ f.type # "end"
    BY <1>7, FrameTypes DEF Endings
  <2>2. Takes(Ahead, f) = Ahead /\ calls' = calls  BY <1>1, <2>1, TakesNothing
  <2>3. /\ Agrees(Takes(Ahead, f), calls')
        /\ Unfinished(calls') <=> Takes(Ahead, f).held.id # None
    BY <1>2, <2>2 DEF InStepWith
  <2> QED  BY <1>1, <1>3, <1>4, <1>5, <2>3, ArrivesKeeps
<1> QED  BY <1>6, <1>7

LEMMA SendToolStep == IInv /\ SendTool => IInv'
<1> SUFFICES ASSUME IInv, SendTool PROVE IInv'  OBVIOUS
<1>1. sent < MaxFrames /\ sent' = sent + 1  BY DEF SendTool
<1>2. CanSend  BY DEF SendTool, Arrives
<1>3. /\ Ahead \in Parsing /\ Numbered(calls) /\ InStepWith(Ahead, calls)
      /\ Len(calls) \in Nat /\ Len(calls) <= sent /\ sent \in 0..MaxFrames
      /\ calls \in Seq(Call)
  BY <1>2, BeforeArrival
<1>4. sent' \in 0..MaxFrames /\ sent + 1 \in Number /\ Len(calls) + 1 <= sent'
      /\ Len(calls) + 1 \in Number
  BY <1>1, <1>3, MaxFramesIsNat DEF Number
<1>5. Agrees(Ahead, calls)  BY <1>3 DEF InStepWith
<1>6. ASSUME NEW call \in Call, NEW k \in Number, NEW f \in FrameOf(k, call)
      PROVE  /\ f \in ToolFrame /\ f \in Frame /\ f.id \in {None, call.id}
             /\ f.type \notin Endings
  <2>1. call.id \in {None} \cup Number /\ call.whole \in BOOLEAN  BY DEF Call
  <2>2. f \in [ type : {"tool"}, id : {None, call.id}, name : {None, k},
                input : {None, sent + 1}, whole : {FALSE, call.whole}, stop : BOOLEAN ]
    BY DEF FrameOf
  <2>3. f \in ToolFrame /\ f.id \in {None, call.id}  BY <1>4, <2>1, <2>2 DEF ToolFrame
  <2> QED  BY <2>3, FrameTypes DEF Frame, Endings
<1>7. ASSUME NEW k, k = Len(calls), NEW f \in FrameOf(k, calls[k]), Open, Arrives(f),
             calls' = [calls EXCEPT ![k] = Extended(@, f)]
      PROVE  IInv'
  <2>1. Unfinished(calls)  BY <1>7 DEF Open, Unfinished
  <2>2. k \in 1..Len(calls)
    <3>1. calls # <<>>  BY <2>1 DEF Unfinished
    <3> QED  BY <1>3, <1>7, <3>1
  <2>3. calls[k] \in Call  BY <1>3, <2>2
  <2>4. k \in Number  BY <1>1, <1>3, <2>2, MaxFramesIsNat DEF Number
  <2>5. f \in ToolFrame /\ f \in Frame /\ f.id \in {None, calls[k].id} /\ f.type \notin Endings
    BY <1>6, <2>3, <2>4
  <2>6. Ahead.held.id # None  BY <1>3, <2>1 DEF InStepWith
  <2>7. InStepWith(Takes(Ahead, f), calls') /\ Numbered(calls') /\ Len(calls') = Len(calls)
    <3>1. Continued(calls, f, calls')  BY <1>7, <2>5 DEF Continued
    <3> QED  BY <1>3, <1>5, <2>5, <2>6, <3>1, ToolContinues
  <2>8. Len(calls') <= sent'  BY <1>3, <1>4, <2>7
  <2>9. /\ Agrees(Takes(Ahead, f), calls')
        /\ Unfinished(calls') <=> Takes(Ahead, f).held.id # None
    BY <2>7 DEF InStepWith
  <2> QED  BY <1>4, <1>7, <2>5, <2>7, <2>8, <2>9, ArrivesKeeps
<1>8. ASSUME NEW k, k = Len(calls) + 1, NEW id \in {None, k}, NEW whole \in BOOLEAN, NEW call,
             call = [id |-> id, name |-> None, input |-> <<>>, whole |-> whole, done |-> FALSE],
             NEW f \in FrameOf(k, call), f.id = id, id = None => f.name # None /\ ~Open,
             Arrives(f), calls' = Append(AllDone(calls), Extended(call, f))
      PROVE  IInv'
  <2>1. k \in Number  BY <1>4, <1>8
  <2>2. call \in Call /\ call.id = id /\ call.name = None /\ call.input = <<>>
    <3>1. <<>> \in Seq(Number) /\ id \in {None} \cup Number  BY <1>8, <2>1
    <3> QED  BY <1>8, <3>1 DEF Call, None
  <2>3. f \in ToolFrame /\ f \in Frame /\ f.type \notin Endings  BY <1>6, <2>1, <2>2
  <2>4. id = None => f.name # None /\ ~Unfinished(calls)  BY <1>8 DEF Open, Unfinished
  <2>5. InStepWith(Takes(Ahead, f), calls') /\ Numbered(calls') /\ Len(calls') = k
    <3>1. Begun(calls, call, f, calls')  BY <1>8, <2>1, <2>2, <2>4 DEF Begun
    <3>2. InStepWith(Takes(Ahead, f), calls') /\ Numbered(calls') /\ Len(calls') = Len(calls) + 1
      BY <1>3, <1>5, <2>3, <3>1, ToolBegins
    <3> QED  BY <1>8, <3>2
  <2>6. Len(calls') <= sent'  BY <1>4, <1>8, <2>5
  <2>7. /\ Agrees(Takes(Ahead, f), calls')
        /\ Unfinished(calls') <=> Takes(Ahead, f).held.id # None
    BY <2>5 DEF InStepWith
  <2> QED  BY <1>4, <1>8, <2>3, <2>5, <2>6, <2>7, ArrivesKeeps
<1>9. CASE Open /\ \E f \in FrameOf(Len(calls), calls[Len(calls)]) :
                     /\ Arrives(f)
                     /\ calls' = [calls EXCEPT ![Len(calls)] = Extended(@, f)]
  BY <1>7, <1>9
<1>10. CASE \E id \in {None, Len(calls) + 1}, whole \in BOOLEAN :
              LET call == [id |-> id, name |-> None, input |-> <<>>, whole |-> whole,
                           done |-> FALSE]
              IN  \E f \in FrameOf(Len(calls) + 1, call) :
                    /\ f.id = id /\ (id = None => f.name # None /\ ~Open)
                    /\ Arrives(f)
                    /\ calls' = Append(AllDone(calls), Extended(call, f))
  BY <1>8, <1>10
<1> QED  BY <1>9, <1>10 DEF SendTool, AllDone

----------------------------------------------------------------------------
(* Reading the body.                                                       *)

LEMMA NowParsing ==
  ASSUME IInv
  PROVE  /\ Now \in Parsing /\ Takes(Now, ch) \in Parsing /\ Ahead \in Parsing
         /\ acc \in Tool /\ ch \in Fetched /\ wire \in Fetched
         /\ events \in Seq(Event) /\ Tools \in Seq(ToolEvent)
<1>1. TypeOK /\ events \in Seq(Event)  BY DEF IInv
<1>2. acc \in Tool /\ ch \in Fetched /\ wire \in Fetched
  BY <1>1 DEF TypeOK, Fetched, Frame
<1>3. Now \in Parsing /\ Takes(Now, ch) \in Parsing /\ Ahead \in Parsing
  BY <1>1, <1>2, NowType
<1>4. Tools \in Seq(ToolEvent)  BY <1>3 DEF Now, Parsing
<1> QED  BY <1>1, <1>2, <1>3, <1>4

(* A body that has ended ends again for the next Read.                     *)
LEMMA EndsTwice ==
  ASSUME NEW p \in Parsing, NEW f, f.type \in Endings
  PROVE  /\ Takes(Takes(p, f), f) = Takes(p, f)
         /\ Takes(p, f).held = NoTool
<1> DEFINE ts == IF p.held.id = None THEN p.tools ELSE Append(p.tools, Built(p.held))
           q == [held |-> NoTool, tools |-> ts]
<1>1. f.type # "tool"  BY DEF Endings
<1>2. Takes(p, f) = q  BY <1>1 DEF Takes
<1> HIDE DEF ts
<1>3. q.held = NoTool /\ q.tools = ts /\ NoTool.id = None  BY DEF NoTool
<1>4. Takes(q, f) = [held |-> NoTool, tools |-> ts]  BY <1>1, <1>3 DEF Takes
<1> QED  BY <1>2, <1>3, <1>4

LEMMA BodyReadStep == IInv /\ BodyRead => IInv'
<1> SUFFICES ASSUME IInv, BodyRead PROVE IInv'  OBVIOUS
<1>1. /\ TypeOK /\ InStep /\ OneRead /\ Outcome /\ ToolCallsAsMeant
      /\ events \in Seq(Event) /\ stopped \in Nat
      /\ Numbered(calls) /\ Len(calls) <= sent
  BY DEF IInv
<1>2. /\ reader = "reading" /\ reader' = "sending"
      /\ UNCHANGED <<calls, sent, body, pc, partial, acc, events, stopped, result, gone>>
  BY DEF BodyRead, upstream, parsed
<1>3. ch = Nothing /\ pc \notin {"check", "read"}  BY <1>1, <1>2 DEF OneRead
<1>4. /\ Now \in Parsing /\ wire \in Fetched /\ Now' = Now
      /\ Ahead = Takes(Now, wire)
  BY <1>2, <1>3, NowParsing, TakesNothing, NothingTaken DEF Ahead, Now, Tools, Delivered
<1>5. /\ Ahead' = Ahead
      /\ wire'.type \in Endings <=> wire.type \in Endings
      /\ ch'.type \in Endings => wire' = ch'
      /\ wire' \in ToolFrame \cup TextFrame \cup Marks \cup {Nothing}
      /\ ch' \in ToolFrame \cup TextFrame \cup Marks \cup {Nothing, Failure}
  <2>1. wire \in ToolFrame \cup TextFrame \cup Marks \cup {Nothing}  BY <1>1 DEF TypeOK
  <2>2. CASE ch' = wire /\ wire.type \in {"end", "cut"} /\ wire' = wire
    <3>1. Ahead' = Takes(Takes(Now, wire), wire)  BY <1>4, <2>2 DEF Ahead
    <3>2. wire.type \in Endings  BY <2>2 DEF Endings
    <3>3. Ahead' = Ahead  BY <1>4, <3>1, <3>2, EndsTwice
    <3> QED  BY <2>1, <2>2, <3>3
  <2>3. CASE ch' = wire /\ wire.type \notin {"end", "cut"} /\ wire' = Nothing
    <3>1. Ahead' = Takes(Takes(Now, wire), Nothing)  BY <1>4, <2>3 DEF Ahead
    <3>2. Ahead' = Ahead  BY <1>4, <3>1, TakesNothing, NothingTaken
    <3>3. wire.type \notin Endings  BY <2>3 DEF Endings
    <3> QED  BY <2>1, <2>3, <3>2, <3>3, NothingTaken
  <2>4. CASE ch' = Failure /\ wire' = wire
    <3>1. Ahead' = Takes(Takes(Now, Failure), wire)  BY <1>4, <2>4 DEF Ahead
    <3>2. Ahead' = Ahead  BY <1>4, <3>1, TakesNothing, NothingTaken
    <3>3. ch'.type \notin Endings  BY <2>4, NothingTaken DEF Endings
    <3> QED  BY <2>1, <2>4, <3>2, <3>3
  <2> QED  BY <2>2, <2>3, <2>4 DEF BodyRead
<1>6. TypeOK'  BY <1>1, <1>2, <1>5 DEF TypeOK
<1>7. InStep'  BY <1>1, <1>2, <1>5 DEF InStep
<1>8. OneRead'  BY <1>2, <1>3, <1>5 DEF OneRead
<1>9. Outcome'  BY <1>1, <1>2 DEF Outcome, Tools, Delivered
<1>10. ToolCallsAsMeant'  BY <1>1, <1>2 DEF ToolCallsAsMeant, Delivered
<1> QED  BY <1>1, <1>2, <1>6, <1>7, <1>8, <1>9, <1>10 DEF IInv

(* A step of the control: no frame moves, no event is delivered.           *)
LEMMA ControlStep ==
  ASSUME IInv, UNCHANGED <<calls, sent, wire, ch, partial, acc, events, stopped>>,
         TypeOK', OneRead', pc = "done" => pc' = "done",
         (pc' = "done") = (result' # "none"), result' = "nil" => result = "nil"
  PROVE  IInv'
<1>1. /\ TypeOK /\ InStep /\ OneRead /\ Outcome /\ ToolCallsAsMeant
      /\ events \in Seq(Event) /\ stopped \in Nat
      /\ Numbered(calls) /\ Len(calls) <= sent
  BY DEF IInv
<1>2. Ahead' = Ahead  BY DEF Ahead, Now, Tools, Delivered
<1>3. InStep'  BY <1>1, <1>2 DEF InStep
<1>4. Outcome'  BY <1>1 DEF Outcome, Tools, Delivered
<1>5. ToolCallsAsMeant'  BY <1>1 DEF ToolCallsAsMeant, Delivered
<1> QED  BY <1>1, <1>3, <1>4, <1>5 DEF IInv

LEMMA ControlSteps ==
  IInv /\ (\/ CheckContext \/ StartRead \/ ReaderSends \/ IdleTimeout \/ CloseBody
           \/ ClientGone) => IInv'
<1> SUFFICES ASSUME IInv,
                    \/ CheckContext \/ StartRead \/ ReaderSends \/ IdleTimeout \/ CloseBody
                    \/ ClientGone
             PROVE  IInv'
  OBVIOUS
<1>1. UNCHANGED <<calls, sent, wire, ch, partial, acc, events, stopped>>
  BY DEF CheckContext, StartRead, ReaderSends, IdleTimeout, CloseBody, ClientGone,
         upstream, reading, parsed
<1>2. TypeOK /\ OneRead /\ Outcome  BY DEF IInv
<1>3. TypeOK'
  <2>1. /\ reader \in {"none", "reading", "sending"}
        /\ pc \in {"check", "read", "select", "done"}
        /\ result \in {"none", "nil", "error"}
        /\ body \in BOOLEAN /\ gone \in BOOLEAN
    BY <1>2 DEF TypeOK
  <2>2. /\ reader' \in {"none", "reading", "sending"}
        /\ pc' \in {"check", "read", "select", "done"}
        /\ result' \in {"none", "nil", "error"}
        /\ body' \in BOOLEAN /\ gone' \in BOOLEAN
    BY <2>1 DEF CheckContext, StartRead, ReaderSends, IdleTimeout, CloseBody,
       ClientGone, Returns, reading
  <2> QED  BY <1>1, <1>2, <2>2 DEF TypeOK
<1>4. OneRead'
  BY <1>1, <1>2 DEF OneRead, CheckContext, StartRead, ReaderSends, IdleTimeout,
     CloseBody, ClientGone, Returns, upstream, reading, parsed
<1>5. /\ pc = "done" => pc' = "done"
      /\ (pc' = "done") = (result' # "none")
      /\ result' = "nil" => result = "nil"
  BY <1>2 DEF Outcome, CheckContext, StartRead, ReaderSends, IdleTimeout, CloseBody,
     ClientGone, Returns, upstream, reading, parsed
<1> QED  BY <1>1, <1>3, <1>4, <1>5, ControlStep

----------------------------------------------------------------------------
(* A result of the reader is handled.                                      *)

LEMMA ReceiveFacts ==
  ASSUME IInv, NEW types, Receive(types)
  PROVE  /\ pc = "select" /\ reader = "none" /\ ch.type \in types /\ stopped = 0
         /\ result = "none"
         /\ ch' = Nothing /\ UNCHANGED <<calls, sent, wire, body, reader, gone>>
         /\ Agrees(Ahead, calls)
<1>1. /\ pc = "select" /\ reader = "none" /\ ch.type \in types
      /\ ch' = Nothing /\ UNCHANGED <<calls, sent, wire, body, reader, gone>>
  BY DEF Receive, Result, upstream
<1>2. InStep /\ Outcome  BY DEF IInv
<1> QED  BY <1>1, <1>2 DEF InStep, Outcome

(* The parser goes on: what it took from the channel is in its variables.  *)
LEMMA GoesOn ==
  ASSUME IInv, NEW types, Receive(types),
         partial' \in BOOLEAN, acc' \in Tool, events' \in Seq(Event), pc' \in {"check", "read"},
         UNCHANGED <<stopped, result>>, Now' = Takes(Now, ch)
  PROVE  IInv'
<1>1. /\ pc = "select" /\ reader = "none" /\ stopped = 0 /\ result = "none"
      /\ ch' = Nothing /\ UNCHANGED <<calls, sent, wire, body, reader, gone>>
      /\ Agrees(Ahead, calls)
  BY ReceiveFacts
<1>2. /\ TypeOK /\ InStep /\ stopped \in Nat
      /\ Numbered(calls) /\ Len(calls) <= sent
  BY DEF IInv
<1>3. /\ Now \in Parsing /\ ch \in Fetched /\ wire \in Fetched  BY NowParsing
<1>4. TypeOK'  BY <1>1, <1>2 DEF TypeOK
<1>5. Ahead' = Ahead  BY <1>1, TakesNothing, NothingTaken DEF Ahead
<1>6. InStep'  BY <1>1, <1>2, <1>5 DEF InStep
<1>7. ToolCallsAsMeant'
  <2>1. Now'.tools = Delivered(ToolEvent)'  BY DEF Now, Tools
  <2>2. Agrees(Takes(Takes(Now, ch), wire), calls)  BY <1>1 DEF Ahead
  <2>3. /\ Len(Takes(Now, ch).tools) <= Len(calls)
        /\ \A k \in 1..Len(Takes(Now, ch).tools) : Matches(Takes(Now, ch).tools[k], calls[k])
    BY <1>3, <2>2, PartOfAhead
  <2> QED  BY <1>1, <2>1, <2>3 DEF ToolCallsAsMeant
<1>8. OneRead'  BY <1>1, NothingTaken DEF OneRead
<1>9. Outcome'  BY <1>1 DEF Outcome
<1> QED  BY <1>1, <1>2, <1>4, <1>6, <1>7, <1>8, <1>9 DEF IInv

(* The parser returns, with some of what it took delivered.                *)
LEMMA ReturnsWith ==
  ASSUME IInv, NEW types, Receive(types),
         partial' \in BOOLEAN, acc' \in Tool, events' \in Seq(Event), pc' = "done",
         result' \in {"nil", "error"}, stopped' \in Nat,
         stopped' # 0 => Len(events') = stopped',
         Len(Tools') <= Len(Takes(Now, ch).tools),
         \A k \in 1..Len(Tools') : Tools'[k] = Takes(Now, ch).tools[k],
         result' = "nil" =>
           \/ stopped' # 0
           \/ Delivered(ExceptionEvent)' # <<>>
           \/ ~partial' /\ Len(Tools') = Len(calls)
  PROVE  IInv'
<1>1. /\ pc = "select" /\ reader = "none"
      /\ ch' = Nothing /\ UNCHANGED <<calls, sent, wire, body, reader, gone>>
      /\ Agrees(Ahead, calls)
  BY ReceiveFacts
<1>2. TypeOK /\ Numbered(calls) /\ Len(calls) <= sent  BY DEF IInv
<1>3. /\ Now \in Parsing /\ ch \in Fetched /\ wire \in Fetched
      /\ Takes(Now, ch) \in Parsing
  BY NowParsing
<1>4. TypeOK'  BY <1>1, <1>2 DEF TypeOK
<1>5. InStep'  BY DEF InStep
<1>6. ToolCallsAsMeant'
  <2>1. Agrees(Takes(Takes(Now, ch), wire), calls)  BY <1>1 DEF Ahead
  <2>2. /\ Len(Takes(Now, ch).tools) <= Len(calls)
        /\ \A k \in 1..Len(Takes(Now, ch).tools) : Matches(Takes(Now, ch).tools[k], calls[k])
    BY <1>3, <2>1, PartOfAhead
  <2>3. Len(Tools') \in Nat /\ Len(Takes(Now, ch).tools) \in Nat /\ Len(calls) \in Nat
    <3>1. Tools' \in Seq(Event)
      <4> DEFINE es == events'
      <4>1. es \in Seq(Event) /\ Tools' = Filter(es, ToolEvent)  BY DEF Tools, Delivered
      <4> HIDE DEF es
      <4> QED  BY <4>1, FilterType
    <3>2. Takes(Now, ch).tools \in Seq(ToolEvent)  BY <1>3 DEF Parsing
    <3>3. calls \in Seq(Call)  BY <1>2 DEF TypeOK
    <3> QED  BY <3>1, <3>2, <3>3
  <2>4. Len(Tools') <= Len(calls) /\ \A k \in 1..Len(Tools') : Matches(Tools'[k], calls[k])
    BY <2>2, <2>3
  <2> QED  BY <1>1, <2>4 DEF ToolCallsAsMeant, Tools
<1>7. OneRead'  BY <1>1, NothingTaken DEF OneRead
<1>8. Outcome'  BY <1>1 DEF Outcome
<1> QED  BY <1>1, <1>2, <1>4, <1>5, <1>6, <1>7, <1>8 DEF IInv

LEMMA SkipSteps == IInv /\ (HandleIgnored \/ ReadMore) => IInv'
<1> SUFFICES ASSUME IInv, HandleIgnored \/ ReadMore PROVE IInv'  OBVIOUS
<1>1. PICK types : types \in {{"ignored"}, {"part"}} /\ Receive(types)
  BY DEF HandleIgnored, ReadMore
<1>2. /\ UNCHANGED <<acc, events, stopped, result>> /\ partial' \in BOOLEAN
      /\ pc' \in {"check", "read"}
  BY DEF HandleIgnored, ReadMore, parsed
<1>3. ch.type \in types  BY <1>1, ReceiveFacts
<1>4. Takes(Now, ch) = Now  BY <1>1, <1>3, TakesNothing
<1>5. Now' = Takes(Now, ch)  BY <1>2, <1>4 DEF Now, Tools, Delivered
<1>6. acc' \in Tool /\ events' \in Seq(Event)  BY <1>2, NowParsing
<1> QED  BY <1>1, <1>2, <1>5, <1>6, GoesOn

LEMMA HandleErrorStep == IInv /\ HandleError => IInv'
<1> SUFFICES ASSUME IInv, HandleError PROVE IInv'  OBVIOUS
<1>1. PICK types : Receive(types)  BY DEF HandleError
<1>2. /\ UNCHANGED <<partial, acc, events, stopped>> /\ pc' = "done" /\ result' = "error"
  BY DEF HandleError, Returns, parsed
<1>3. stopped = 0  BY <1>1, ReceiveFacts
<1>4. /\ Now \in Parsing /\ ch \in Fetched /\ acc \in Tool /\ events \in Seq(Event)
      /\ partial \in BOOLEAN
  BY NowParsing DEF IInv, TypeOK
<1>5. /\ Len(Now.tools) <= Len(Takes(Now, ch).tools)
      /\ \A k \in 1..Len(Now.tools) : Takes(Now, ch).tools[k] = Now.tools[k]
  BY <1>4, TakesType DEF Fetched
<1>6. Tools' = Now.tools  BY <1>2 DEF Now, Tools, Delivered
<1> QED  BY <1>1, <1>2, <1>3, <1>4, <1>5, <1>6, ReturnsWith

LEMMA HandleExceptionStep == IInv /\ HandleException => IInv'
<1> SUFFICES ASSUME IInv, HandleException PROVE IInv'  OBVIOUS
<1>1. Receive({"exception"})  BY DEF HandleException
<1>2. /\ UNCHANGED <<acc, stopped>> /\ pc' = "done" /\ result' = "nil" /\ partial' = FALSE
      /\ events' = Append(events, ch)
  BY DEF HandleException, Returns
<1>3. stopped = 0 /\ ch.type = "exception"  BY <1>1, ReceiveFacts
<1>4. /\ Now \in Parsing /\ acc \in Tool /\ events \in Seq(Event)
      /\ ch \in ToolFrame \cup TextFrame \cup Marks \cup {Nothing, Failure}
  BY NowParsing DEF IInv, TypeOK
<1>5. ch = Plain("exception")
  BY <1>3, <1>4, FrameTypes DEF Nothing, Failure, Plain
<1>6. ch \in Event /\ ch \in ExceptionEvent /\ ch \notin ToolEvent
  BY <1>3, <1>5 DEF Event, ExceptionEvent, ToolEvent
<1>7. events' \in Seq(Event)  BY <1>2, <1>4, <1>6
<1>8. Tools' = Now.tools  BY <1>2, <1>4, <1>6, FilterAppend DEF Now, Tools, Delivered
<1>9. Delivered(ExceptionEvent)' # <<>>
  <2> DEFINE d == Filter(events, ExceptionEvent)
  <2>1. Filter(events', ExceptionEvent) = Append(d, ch)
    BY <1>2, <1>4, <1>6, FilterAppend
  <2>2. d \in Seq(Event)  BY <1>4, FilterType
  <2> HIDE DEF d
  <2>3. Len(Append(d, ch)) = Len(d) + 1 /\ Len(d) \in Nat
    <3> DEFINE e == ch
    <3>1. e \in Event  BY <1>6
    <3> HIDE DEF e
    <3>2. Len(Append(d, e)) = Len(d) + 1 /\ Len(d) \in Nat  BY <2>2, <3>1, AppendFields
    <3> QED  BY <3>2 DEF e
  <2>4. Append(d, ch) # <<>>  BY <2>3
  <2> QED  BY <2>1, <2>4 DEF Delivered
<1>10. Takes(Now, ch) = Now  BY <1>3, TakesNothing
<1>11. /\ Len(Tools') <= Len(Takes(Now, ch).tools)
       /\ \A k \in 1..Len(Tools') : Tools'[k] = Takes(Now, ch).tools[k]
  <2>1. Now.tools \in Seq(ToolEvent)  BY <1>4 DEF Parsing
  <2>2. Len(Now.tools) <= Len(Now.tools)  BY <2>1
  <2> QED  BY <1>8, <1>10, <2>2
<1> QED  BY <1>1, <1>2, <1>3, <1>4, <1>7, <1>9, <1>11, ReturnsWith

(* The last tool call is flushed, and it was the last.                     *)
LEMMA HandleEOFStep == IInv /\ HandleEOF => IInv'
<1> SUFFICES ASSUME IInv, HandleEOF PROVE IInv'  OBVIOUS
<1>1. Receive({"end", "cut"})  BY DEF HandleEOF
<1>2. /\ UNCHANGED <<partial, stopped>> /\ pc' = "done" /\ result' = "nil" /\ ~partial
      /\ events' = IF acc.id = None THEN events ELSE Append(events, Built(acc))
      /\ acc' = NoTool
  BY DEF HandleEOF, Returns, EOFResult, Reset, IsEOF
<1>3. stopped = 0 /\ ch.type \in Endings /\ Agrees(Ahead, calls)
  BY <1>1, ReceiveFacts DEF Endings
<1>4. /\ Now \in Parsing /\ acc \in Tool /\ events \in Seq(Event) /\ wire = ch
      /\ Takes(Now, ch) \in Parsing /\ partial \in BOOLEAN
  BY <1>3, NowParsing DEF IInv, OneRead, TypeOK
<1>5. Built(acc) \in ToolEvent /\ Built(acc) \in Event  BY <1>4, BuiltType
<1>6. events' \in Seq(Event)  BY <1>2, <1>4, <1>5
<1>7. Tools' = IF acc.id = None THEN Tools ELSE Append(Tools, Built(acc))
  <2> DEFINE b == Built(acc)
  <2> HIDE DEF b
  <2>1. Filter(Append(events, b), ToolEvent) = Append(Filter(events, ToolEvent), b)
    BY <1>4, <1>5, FilterAppend DEF b
  <2> QED  BY <1>2, <2>1 DEF Tools, Delivered, b
<1>8. Takes(Now, ch).tools = Tools' /\ Takes(Now, ch).held = NoTool
  <2>1. ch.type # "tool"  BY <1>3 DEF Endings
  <2>2. Now.held = acc /\ Now.tools = Tools  BY DEF Now
  <2> QED  BY <1>3, <1>7, <2>1, <2>2 DEF Takes
<1>9. Len(Tools') = Len(calls)
  <2>1. Ahead = Takes(Now, ch)  BY <1>3, <1>4, EndsTwice DEF Ahead
  <2>2. NoTool.id = None  BY DEF NoTool
  <2> QED  BY <1>3, <1>8, <2>1, <2>2 DEF Agrees
<1>10. Len(Tools') <= Len(Takes(Now, ch).tools)
  <2>1. Takes(Now, ch).tools \in Seq(ToolEvent)  BY <1>4 DEF Parsing
  <2>2. Len(Takes(Now, ch).tools) <= Len(Takes(Now, ch).tools)  BY <2>1
  <2> QED  BY <1>8, <2>2
<1>11. NoTool \in Tool  BY DEF NoTool, Tool
<1> QED  BY <1>1, <1>2, <1>3, <1>4, <1>6, <1>8, <1>9, <1>10, <1>11, ReturnsWith

(* The events of a frame, or the first of them, are delivered.             *)
LEMMA Deliveries ==
  ASSUME IInv, NEW es \in Seq(Event), Deliver(es), NEW all, all = Tools \o Filter(es, ToolEvent)
  PROVE  /\ events' \in Seq(Event)
         /\ \/ /\ pc' = "check" /\ UNCHANGED <<stopped, result>>
               /\ Tools' = all
            \/ /\ pc' = "done" /\ result' = "nil" /\ stopped' \in Nat /\ stopped' # 0
               /\ stopped' = Len(events')
               /\ Len(Tools') <= Len(all)
               /\ \A k \in 1..Len(Tools') : Tools'[k] = all[k]
<1>1. events \in Seq(Event) /\ Tools \in Seq(ToolEvent)  BY NowParsing
<1>2. all = Filter(events \o es, ToolEvent)  BY <1>1, FilterConcat DEF Tools, Delivered
<1>3. CASE events' = events \o es /\ pc' = "check" /\ UNCHANGED <<stopped, result>>
  <2>1. events' \in Seq(Event)  BY <1>1, <1>3
  <2> QED  BY <1>2, <1>3, <2>1 DEF Tools, Delivered
<1>4. ASSUME NEW i, i \in 1..Len(es), events' = events \o SubSeq(es, 1, i),
             stopped' = Len(events) + i
      PROVE  /\ events' \in Seq(Event)
             /\ stopped' \in Nat /\ stopped' # 0 /\ stopped' = Len(events')
             /\ Len(Tools') <= Len(all)
             /\ \A k \in 1..Len(Tools') : Tools'[k] = all[k]
  <2>1. PICK first \in Seq(Event), rest \in Seq(Event) :
          FirstOf(first, events, es, i) /\ Joins(events \o es, first, rest)
    BY <1>1, <1>4, FirstJoins
  <2>2. events' = first /\ Len(first) = Len(events) + i  BY <1>4, <2>1 DEF FirstOf
  <2>3. events' \in Seq(Event) /\ stopped' = Len(events') /\ stopped' # 0 /\ stopped' \in Nat
    <3>1. Len(events) \in Nat /\ i \in Nat \ {0}  BY <1>1, <1>4
    <3>2. Len(events) + i \in Nat /\ Len(events) + i # 0  BY <3>1
    <3>3. stopped' = Len(events) + i  BY <1>4
    <3>4. events' \in Seq(Event) /\ Len(events') = Len(events) + i  BY <2>2
    <3> QED  BY <3>2, <3>3, <3>4
  <2>4. Tools' = Filter(first, ToolEvent)  BY <2>2 DEF Tools, Delivered
  <2>5. all = Filter(first, ToolEvent) \o Filter(rest, ToolEvent)
    BY <1>2, <2>1, FilterJoins DEF Joins
  <2>6. Filter(first, ToolEvent) \in Seq(Event) /\ Filter(rest, ToolEvent) \in Seq(Event)
    BY FilterType
  <2>7. PICK ts \in Seq(Event), us \in Seq(Event) : Tools' = ts /\ all = ts \o us
    BY <2>4, <2>5, <2>6
  <2>8. Len(ts) <= Len(ts \o us) /\ \A k \in 1..Len(ts) : ts[k] = (ts \o us)[k]
    OBVIOUS
  <2> QED  BY <2>3, <2>7, <2>8
<1>5. \/ events' = events \o es /\ pc' = "check" /\ UNCHANGED <<stopped, result>>
      \/ /\ pc' = "done" /\ result' = "nil"
         /\ \E i \in 1..Len(es) :
              events' = events \o SubSeq(es, 1, i) /\ stopped' = Len(events) + i
  BY DEF Deliver, Returns, UpTo
<1>6. CASE /\ pc' = "done" /\ result' = "nil"
           /\ \E i \in 1..Len(es) :
                events' = events \o SubSeq(es, 1, i) /\ stopped' = Len(events) + i
  BY <1>4, <1>6
<1> QED  BY <1>3, <1>5, <1>6

LEMMA HandleTextStep == IInv /\ HandleText => IInv'
<1> SUFFICES ASSUME IInv, HandleText PROVE IInv'  OBVIOUS
<1> DEFINE es == <<ch>>
           all == Tools \o Filter(es, ToolEvent)
<1>1. Receive({"text"}) /\ Deliver(es) /\ partial' = FALSE /\ UNCHANGED acc
  BY DEF HandleText
<1>2. ch.type = "text" /\ stopped = 0  BY <1>1, ReceiveFacts
<1>3. /\ Now \in Parsing /\ acc \in Tool /\ Tools \in Seq(ToolEvent)
      /\ ch \in ToolFrame \cup TextFrame \cup Marks \cup {Nothing, Failure}
  BY NowParsing DEF IInv, TypeOK
<1>4. ch \in TextFrame  BY <1>2, <1>3, FrameTypes DEF Nothing, Failure, Plain
<1>5. es \in Seq(TextFrame) /\ es \in Seq(Event)
  <2>1. ch \in Event  BY <1>4 DEF Event
  <2> QED  BY <1>4, <2>1
<1>6. TextFrame \cap ToolEvent = {}  BY FrameTypes DEF ToolEvent
<1> HIDE DEF es
<1>7. Filter(es, ToolEvent) = <<>>  BY <1>5, <1>6, FilterNone
<1>8. all = Tools  BY <1>3, <1>7, ConcatEmptySeq
<1>9. Takes(Now, ch) = Now /\ Takes(Now, ch).tools = all
  BY <1>2, <1>8, TakesNothing DEF Now
<1>10. CASE pc' = "check" /\ UNCHANGED <<stopped, result>> /\ Tools' = all
  <2>1. Now' = Takes(Now, ch)  BY <1>1, <1>8, <1>9, <1>10 DEF Now
  <2> QED  BY <1>1, <1>3, <1>5, <1>10, <2>1, Deliveries, GoesOn
<1>11. CASE /\ pc' = "done" /\ result' = "nil" /\ stopped' \in Nat /\ stopped' # 0
            /\ stopped' = Len(events')
            /\ Len(Tools') <= Len(all)
            /\ \A k \in 1..Len(Tools') : Tools'[k] = all[k]
  BY <1>1, <1>3, <1>5, <1>9, <1>11, Deliveries, ReturnsWith
<1> QED  BY <1>1, <1>5, <1>10, <1>11, Deliveries

LEMMA HandleToolUseStep == IInv /\ HandleToolUse => IInv'
<1> SUFFICES ASSUME IInv, HandleToolUse PROVE IInv'  OBVIOUS
<1> DEFINE es == Completed(acc, ch)
           all == Tools \o Filter(es, ToolEvent)
           next == IF ch.stop THEN NoTool ELSE Updated(acc, ch)
<1>1. Receive({"tool"}) /\ Deliver(es) /\ partial' = FALSE /\ acc' = next
  BY DEF HandleToolUse, Reset
<1>2. ch.type = "tool" /\ stopped = 0  BY <1>1, ReceiveFacts
<1>3. /\ Now \in Parsing /\ acc \in Tool /\ Tools \in Seq(ToolEvent)
      /\ ch \in ToolFrame \cup TextFrame \cup Marks \cup {Nothing, Failure}
  BY NowParsing DEF IInv, TypeOK
<1>4. ch \in ToolFrame  BY <1>2, <1>3, FrameTypes DEF Nothing, Failure, Plain
<1>5. es \in Seq(ToolEvent) /\ es \in Seq(Event)
  <2>1. es \in Seq(ToolEvent)  BY <1>3, <1>4, CompletedType
  <2> HIDE DEF es
  <2>2. ToolEvent \subseteq Event  BY DEF Event
  <2>3. es \in Seq(Event)  BY <2>1, <2>2
  <2> QED  BY <2>1, <2>3
<1>6. next \in Tool
  <2>1. NoTool \in Tool  BY DEF NoTool, Tool
  <2> QED  BY <1>3, <1>4, <2>1, UpdatedFields
<1>7. Takes(Now, ch) = [held |-> next, tools |-> Tools \o es]
  <2>1. Now.held = acc /\ Now.tools = Tools  BY DEF Now
  <2> QED  BY <1>2, <2>1 DEF Takes
<1> HIDE DEF es, next
<1>8. Filter(es, ToolEvent) = es  BY <1>5, FilterAll
<1>9. Takes(Now, ch).held = next /\ Takes(Now, ch).tools = all  BY <1>7, <1>8
<1>10. CASE pc' = "check" /\ UNCHANGED <<stopped, result>> /\ Tools' = all
  <2>1. Now' = Takes(Now, ch)  BY <1>1, <1>7, <1>8, <1>10 DEF Now
  <2>2. acc' \in Tool /\ partial' \in BOOLEAN  BY <1>1, <1>6
  <2> QED  BY <1>1, <1>5, <1>10, <2>1, <2>2, Deliveries, GoesOn
<1>11. CASE /\ pc' = "done" /\ result' = "nil" /\ stopped' \in Nat /\ stopped' # 0
            /\ stopped' = Len(events')
            /\ Len(Tools') <= Len(all)
            /\ \A k \in 1..Len(Tools') : Tools'[k] = all[k]
  <2>1. acc' \in Tool /\ partial' \in BOOLEAN  BY <1>1, <1>6
  <2> QED  BY <1>1, <1>5, <1>9, <1>11, <2>1, Deliveries, ReturnsWith
<1> QED  BY <1>1, <1>5, <1>10, <1>11, Deliveries

----------------------------------------------------------------------------
(* The specification.                                                      *)

LEMMA Stutters == IInv /\ UNCHANGED vars => IInv'
<1> SUFFICES ASSUME IInv, UNCHANGED vars PROVE IInv'  OBVIOUS
<1>1. UNCHANGED <<calls, sent, wire, ch, partial, acc, events, stopped, body, reader,
                  pc, result, gone>>
  BY DEF vars
<1>2. TypeOK /\ OneRead /\ Outcome  BY DEF IInv
<1>3. TypeOK' /\ OneRead'  BY <1>1, <1>2 DEF TypeOK, OneRead
<1>4. /\ pc = "done" => pc' = "done"
      /\ (pc' = "done") = (result' # "none")
      /\ result' = "nil" => result = "nil"
  BY <1>1, <1>2 DEF Outcome
<1> QED  BY <1>1, <1>3, <1>4, ControlStep

LEMMA Inductive == IInv /\ [Next]_vars => IInv'
<1> SUFFICES ASSUME IInv, [Next]_vars PROVE IInv'  OBVIOUS
<1>1. CASE Kiro  BY <1>1, SendTextStep, SendMarkStep, SendToolStep DEF Kiro
<1>2. CASE Reader  BY <1>2, BodyReadStep, ControlSteps DEF Reader
<1>3. CASE Parser
  BY <1>3, ControlSteps, HandleTextStep, HandleToolUseStep, SkipSteps,
     HandleExceptionStep, HandleEOFStep, HandleErrorStep DEF Parser
<1>4. CASE IdleTimeout \/ ClientGone  BY <1>4, ControlSteps
<1>5. CASE UNCHANGED vars  BY <1>5, Stutters
<1> QED  BY <1>1, <1>2, <1>3, <1>4, <1>5 DEF Next

LEMMA Invariance == Spec => []IInv
<1>1. Init => IInv  BY InitInvariant
<1>2. IInv /\ [Next]_vars => IInv'  BY Inductive
<1> QED  BY <1>1, <1>2, PTL DEF Spec

(* The parser's locals keep their types, whatever Kiro sends and however   *)
(* its frames are cut.                                                     *)
THEOREM TypeCorrect == Spec => []TypeOK
<1>1. IInv => TypeOK  BY DEF IInv
<1> QED  BY <1>1, Invariance, PTL

(* Every tool call that the callback of ParseStream gets is one that Kiro  *)
(* sent: the same id, name and input, once, in order, for messages of any  *)
(* length, with frames that lack an id, a name or a stop.                  *)
THEOREM CallsReachCallback == Spec => []ToolCallsAsMeant
<1>1. IInv => ToolCallsAsMeant  BY DEF IInv
<1> QED  BY <1>1, Invariance, PTL

(* When ParseStream returns nil although the callback never stopped it and *)
(* no exception came, the stream ended between two frames and every call   *)
(* of the message was delivered, the last one with or without stop frame.  *)
THEOREM CleanEnd == Spec => []CleanEndLosesNothing
<1>1. IInv => CleanEndLosesNothing
  BY DEF IInv, Outcome, CleanEndLosesNothing, Tools
<1> QED  BY <1>1, Invariance, PTL

(* Once the callback returns true it gets no further event, not even the   *)
(* second tool call that the same frame completed.                         *)
THEOREM StopEndsParsing == Spec => []StopIsFinal
<1>1. IInv => StopIsFinal  BY DEF IInv, Outcome, StopIsFinal
<1> QED  BY <1>1, Invariance, PTL
----------------------------------------------------------------------------
(* The accumulator.                                                        *)
----------------------------------------------------------------------------
(* The overlap search.  Fits says that the last n of the first i elements  *)
(* of y are the first n of b; Greatest, that no more of them are, up to l. *)
Fits(y, i, b, n) == n <= i /\ \A t \in 1..n : y[i - n + t] = b[t]

Greatest(y, i, b, l, n) ==
  /\ n \in 0..l /\ Fits(y, i, b, n)
  /\ \A m \in 0..l : Fits(y, i, b, m) => m <= n

(* The failure function of the first k elements of b.                      *)
Table(f, b, k) == \A i \in 0..(k - 1) : Greatest(b, i + 1, b, i, f[i])

LEMMA FitsNothing ==
  ASSUME NEW y, NEW b, NEW i \in Nat
  PROVE  Fits(y, i, b, 0)
BY DEF Fits

LEMMA FitsBorder ==
  ASSUME NEW y, NEW b, NEW i \in Nat, NEW k \in Nat, NEW n \in 0..k, Fits(y, i, b, k)
  PROVE  Fits(y, i, b, n) <=> Fits(b, k, b, n)
<1>1. n \in Nat /\ n <= k /\ k <= i /\ n <= i  BY DEF Fits
<1>2. ASSUME NEW t \in 1..n PROVE y[i - n + t] = b[k - n + t]
  <2>1. k - n + t \in 1..k /\ i - k + (k - n + t) = i - n + t  BY <1>1
  <2>2. y[i - k + (k - n + t)] = b[k - n + t]  BY <2>1 DEF Fits
  <2> QED  BY <2>1, <2>2
<1> QED  BY <1>1, <1>2 DEF Fits

LEMMA FitsFurther ==
  ASSUME NEW y, NEW b, NEW i \in Nat, NEW n \in Nat
  PROVE  Fits(y, i + 1, b, n + 1) <=> Fits(y, i, b, n) /\ y[i + 1] = b[n + 1]
<1>1. n + 1 <= i + 1 <=> n <= i  OBVIOUS
<1>2. \A t \in 1..n : t \in 1..(n + 1) /\ (i + 1) - (n + 1) + t = i - n + t  OBVIOUS
<1>3. n + 1 \in 1..(n + 1) /\ (i + 1) - (n + 1) + (n + 1) = i + 1  OBVIOUS
<1>4. \A t \in 1..(n + 1) : t \in 1..n \/ t = n + 1  OBVIOUS
<1>5. ASSUME Fits(y, i + 1, b, n + 1) PROVE Fits(y, i, b, n) /\ y[i + 1] = b[n + 1]
  <2>1. \A t \in 1..(n + 1) : y[(i + 1) - (n + 1) + t] = b[t]  BY <1>5 DEF Fits
  <2>2. \A t \in 1..n : y[i - n + t] = b[t]  BY <1>2, <2>1
  <2>3. y[i + 1] = b[n + 1]  BY <1>3, <2>1
  <2> QED  BY <1>1, <1>5, <2>2, <2>3 DEF Fits
<1>6. ASSUME Fits(y, i, b, n), y[i + 1] = b[n + 1] PROVE Fits(y, i + 1, b, n + 1)
  <2>1. \A t \in 1..n : y[i - n + t] = b[t]  BY <1>6 DEF Fits
  <2>2. \A t \in 1..n : y[(i + 1) - (n + 1) + t] = b[t]  BY <1>2, <2>1
  <2>3. y[(i + 1) - (n + 1) + (n + 1)] = b[n + 1]  BY <1>3, <1>6
  <2>4. \A t \in 1..(n + 1) : y[(i + 1) - (n + 1) + t] = b[t]  BY <1>4, <2>2, <2>3
  <2> QED  BY <1>1, <1>6, <2>4 DEF Fits
<1> QED  BY <1>5, <1>6

LEMMA GreatestIsOne ==
  ASSUME NEW y, NEW b, NEW i \in Nat, NEW l \in Nat, NEW m, NEW n,
         Greatest(y, i, b, l, m), Greatest(y, i, b, l, n)
  PROVE  m = n
<1>1. m \in 0..l /\ n \in 0..l /\ m <= n /\ n <= m  BY DEF Greatest
<1> QED  BY <1>1

LEMMA GreatestExists ==
  ASSUME NEW y, NEW b, NEW i \in Nat, NEW l \in Nat
  PROVE  \E n : Greatest(y, i, b, l, n)
<1> DEFINE S == {m \in 1..(l + 1) : Fits(y, i, b, m - 1)}
<1>1. 1 \in S
  <2>1. 1 \in 1..(l + 1) /\ 1 - 1 = 0  OBVIOUS
  <2> QED  BY <2>1, FitsNothing
<1>2. l + 1 \in Nat /\ S \in SUBSET (1..(l + 1)) /\ S # {}  BY <1>1
<1>3. PICK n \in S : \A k \in S : n >= k
  <2> HIDE DEF S
  <2> QED  BY <1>2, GreatestElement
<1>4. n \in 1..(l + 1) /\ n - 1 \in 0..l /\ Fits(y, i, b, n - 1)  OBVIOUS
<1>5. ASSUME NEW m \in 0..l, Fits(y, i, b, m) PROVE m <= n - 1
  <2>1. m + 1 \in 1..(l + 1) /\ (m + 1) - 1 = m  OBVIOUS
  <2>2. m + 1 \in S  BY <1>5, <2>1
  <2>3. n >= m + 1  BY <1>3, <2>2
  <2> QED  BY <1>4, <2>3
<1> HIDE DEF S
<1>6. Greatest(y, i, b, l, n - 1)  BY <1>4, <1>5 DEF Greatest
<1> QED  BY <1>6

(* Fall: the recursion, along the failure function.                        *)
Falls(g, f, b, k, c) ==
  g = [j \in 0..k |-> IF j > 0 /\ b[j + 1] # c THEN g[f[j - 1]] ELSE j]

LEMMA FallsSteps ==
  ASSUME NEW g, NEW f, NEW b, NEW k, NEW c, Falls(g, f, b, k, c)
  PROVE  \A j \in 0..k : g[j] = IF j > 0 /\ b[j + 1] # c THEN g[f[j - 1]] ELSE j
<1> DEFINE h == [j \in 0..k |-> IF j > 0 /\ b[j + 1] # c THEN g[f[j - 1]] ELSE j]
<1>1. g = h  BY DEF Falls
<1>2. \A j \in 0..k : h[j] = IF j > 0 /\ b[j + 1] # c THEN g[f[j - 1]] ELSE j
  OBVIOUS
<1> HIDE DEF h
<1> QED  BY <1>1, <1>2

LEMMA FallsExist ==
  ASSUME NEW f, NEW b, NEW c
  PROVE  \A k \in Nat : Table(f, b, k) => \E g : Falls(g, f, b, k, c)
<1> DEFINE T == {k \in Nat : Table(f, b, k) => \E g : Falls(g, f, b, k, c)}
<1>1. 0 \in T
  <2> DEFINE g == [j \in 0..0 |-> 0]
  <2>1. \A j \in 0..0 : j = 0  OBVIOUS
  <2>2. g = [j \in 0..0 |-> IF j > 0 /\ b[j + 1] # c THEN g[f[j - 1]] ELSE j]
    BY <2>1
  <2> HIDE DEF g
  <2>3. Falls(g, f, b, 0, c)  BY <2>2 DEF Falls
  <2> QED  BY <2>3
<1>2. ASSUME NEW k \in Nat, k \in T, Table(f, b, k + 1)
      PROVE  \E g : Falls(g, f, b, k + 1, c)
  <2>1. \A i \in 0..k : f[i] \in 0..i  BY <1>2 DEF Table, Greatest
  <2>2. Table(f, b, k)  BY <1>2 DEF Table
  <2>3. PICK g : Falls(g, f, b, k, c)  BY <1>2, <2>2
  <2>4. \A j \in 0..k : g[j] = IF j > 0 /\ b[j + 1] # c THEN g[f[j - 1]] ELSE j
    BY <2>3, FallsSteps
  <2> DEFINE last == IF b[k + 2] # c THEN g[f[k]] ELSE k + 1
             h == [j \in 0..(k + 1) |-> IF j = k + 1 THEN last ELSE g[j]]
  <2>5. \A j \in 0..k : h[j] = g[j]  OBVIOUS
  <2>6. h[k + 1] = last  OBVIOUS
  <2> HIDE DEF h
  <2>7. ASSUME NEW j \in 0..(k + 1)
        PROVE  h[j] = IF j > 0 /\ b[j + 1] # c THEN h[f[j - 1]] ELSE j
    <3>1. CASE j = k + 1
      <4>1. j > 0 /\ j + 1 = k + 2 /\ j - 1 = k /\ k \in 0..k  BY <3>1
      <4>2. f[k] \in 0..k  BY <2>1, <4>1
      <4>3. h[f[k]] = g[f[k]]  BY <2>5, <4>2
      <4> QED  BY <2>6, <3>1, <4>1, <4>3
    <3>2. CASE j # k + 1
      <4>1. j \in 0..k  BY <3>2
      <4>2. j > 0 => j - 1 \in 0..k  BY <4>1
      <4>3. j > 0 => f[j - 1] \in 0..(j - 1)  BY <2>1, <4>2
      <4>4. j > 0 => f[j - 1] \in 0..k  BY <4>1, <4>3
      <4>5. j > 0 => h[f[j - 1]] = g[f[j - 1]]  BY <2>5, <4>4
      <4> QED  BY <2>4, <2>5, <4>1, <4>5
    <3> QED  BY <3>1, <3>2
  <2>8. h = [j \in 0..(k + 1) |-> h[j]]  BY DEF h
  <2>9. Falls(h, f, b, k + 1, c)  BY <2>7, <2>8 DEF Falls
  <2> QED  BY <2>9
<1>3. \A k \in Nat : k \in T => k + 1 \in T  BY <1>2
<1>4. Nat \subseteq T
  <2> HIDE DEF T
  <2> QED  BY <1>1, <1>3, Induction
<1> QED  BY <1>4

LEMMA FallUnfolds ==
  ASSUME NEW f, NEW b, NEW k \in Nat, NEW c, Table(f, b, k)
  PROVE  \E g : Falls(g, f, b, k, c) /\ Fall(f, b, k, c) = g[k]
<1> DEFINE U(g) == g = [j \in 0..k |-> IF j > 0 /\ b[j + 1] # c THEN g[f[j - 1]] ELSE j]
           h == CHOOSE g : U(g)
<1>1. \A g : U(g) <=> Falls(g, f, b, k, c)  BY DEF Falls
<1>2. \E g : U(g)
  <2> HIDE DEF U
  <2> QED  BY <1>1, FallsExist
<1>3. U(h)
  <2> HIDE DEF U
  <2> QED  BY <1>2
<1>4. Fall(f, b, k, c) = h[k]  BY DEF Fall
<1> HIDE DEF h, U
<1> QED  BY <1>1, <1>3, <1>4

(* From a place where k elements of b fit, Fall goes to the longest that   *)
(* fit there and are followed by c in b; to 0 when none are.               *)
LEMMA FallFinds ==
  ASSUME NEW y, NEW b, NEW i \in Nat, NEW f, NEW k \in Nat, NEW c,
         Table(f, b, k), Fits(y, i, b, k), NEW j, j = Fall(f, b, k, c)
  PROVE  /\ j \in 0..k /\ Fits(y, i, b, j) /\ (j > 0 => b[j + 1] = c)
         /\ \A n \in 0..k : Fits(y, i, b, n) /\ b[n + 1] = c => n <= j
<1>1. PICK g : Falls(g, f, b, k, c) /\ Fall(f, b, k, c) = g[k]  BY FallUnfolds
<1>2. \A m \in 0..k : g[m] = IF m > 0 /\ b[m + 1] # c THEN g[f[m - 1]] ELSE m
  BY <1>1, FallsSteps
<1> DEFINE P(m, e) ==
             /\ e \in 0..m /\ Fits(y, i, b, e) /\ (e > 0 => b[e + 1] = c)
             /\ \A n \in 0..m : Fits(y, i, b, n) /\ b[n + 1] = c => n <= e
           Q(m) == m \in 0..k /\ Fits(y, i, b, m) => P(m, g[m])
           T == {n \in Nat : \A m \in 0..n : Q(m)}
<1>3. ASSUME NEW m \in Nat, \A n \in 0..(m - 1) : Q(n), m \in 0..k, Fits(y, i, b, m)
      PROVE  P(m, g[m])
  <2>1. CASE ~(m > 0 /\ b[m + 1] # c)
    <3>1. g[m] = m  BY <1>2, <1>3, <2>1
    <3> QED  BY <1>3, <2>1, <3>1
  <2>2. CASE m > 0 /\ b[m + 1] # c
    <3> DEFINE e == f[m - 1]
    <3>1. m - 1 \in 0..(k - 1) /\ (m - 1) + 1 = m  BY <1>3, <2>2
    <3>2. Greatest(b, (m - 1) + 1, b, m - 1, f[m - 1])  BY <3>1 DEF Table
    <3>3. Greatest(b, m, b, m - 1, e)  BY <3>1, <3>2
    <3>4. g[m] = g[e]  BY <1>2, <1>3, <2>2
    <3> HIDE DEF e
    <3>5. e \in 0..(m - 1) /\ Fits(b, m, b, e)  BY <3>3 DEF Greatest
    <3>6. e \in 0..m /\ e \in 0..k  BY <1>3, <3>5
    <3>7. Fits(y, i, b, e)  BY <1>3, <3>5, <3>6, FitsBorder
    <3>8. P(e, g[e])
      <4>1. Q(e)  BY <1>3, <3>5
      <4> QED  BY <3>6, <3>7, <4>1
    <3>9. ASSUME NEW n \in 0..m, Fits(y, i, b, n), b[n + 1] = c PROVE n <= g[e]
      <4>1. n # m /\ n \in 0..(m - 1)  BY <2>2, <3>9
      <4>2. Fits(b, m, b, n)  BY <1>3, <3>9, FitsBorder
      <4>3. n <= e  BY <3>3, <4>1, <4>2 DEF Greatest
      <4>4. n \in 0..e  BY <3>5, <4>1, <4>3
      <4> QED  BY <3>8, <3>9, <4>4
    <3>10. g[e] \in 0..m  BY <3>5, <3>8
    <3> QED  BY <3>4, <3>8, <3>9, <3>10
  <2> QED  BY <2>1, <2>2
<1>4. 0 \in T
  <2>1. \A n \in 0..(0 - 1) : Q(n)  OBVIOUS
  <2>2. Q(0)  BY <1>3, <2>1
  <2>3. \A m \in 0..0 : m = 0  OBVIOUS
  <2> HIDE DEF Q
  <2> QED  BY <2>2, <2>3
<1>5. ASSUME NEW n \in Nat, n \in T PROVE n + 1 \in T
  <2>1. \A m \in 0..((n + 1) - 1) : Q(m)
    <3> HIDE DEF Q
    <3>1. (n + 1) - 1 = n  OBVIOUS
    <3> QED  BY <1>5, <3>1
  <2>2. Q(n + 1)  BY <1>3, <2>1
  <2>3. \A m \in 0..(n + 1) : m = n + 1 \/ m \in 0..n  OBVIOUS
  <2> HIDE DEF Q
  <2> QED  BY <1>5, <2>2, <2>3
<1>6. Nat \subseteq T
  <2> HIDE DEF T
  <2> QED  BY <1>4, <1>5, Induction
<1>7. Q(k)
  <2> HIDE DEF Q
  <2>1. k \in T /\ k \in 0..k  BY <1>6
  <2> QED  BY <2>1
<1>8. P(k, g[k])  BY <1>7
<1> QED  BY <1>1, <1>8

(* One more element: the longest that fits there is what Fall extends.     *)
LEMMA ExtendsGreatest ==
  ASSUME NEW y, NEW b, NEW f, NEW i \in Nat, NEW l \in Nat, NEW k,
         Table(f, b, k), Greatest(y, i, b, l, k),
         NEW e, e = Extend(b, Fall(f, b, k, y[i + 1]), y[i + 1])
  PROVE  Greatest(y, i + 1, b, l + 1, e)
<1> DEFINE c == y[i + 1]
           j == Fall(f, b, k, c)
<1>1. k \in 0..l /\ k \in Nat /\ Fits(y, i, b, k)
      /\ \A n \in 0..l : Fits(y, i, b, n) => n <= k
  BY DEF Greatest
<1>2. /\ j \in 0..k /\ Fits(y, i, b, j) /\ (j > 0 => b[j + 1] = c)
      /\ \A n \in 0..k : Fits(y, i, b, n) /\ b[n + 1] = c => n <= j
  <2> HIDE DEF c
  <2> QED  BY <1>1, FallFinds
<1>3. e = IF b[j + 1] = c THEN j + 1 ELSE j  BY DEF Extend
<1> HIDE DEF j
<1>4. ASSUME NEW n \in 0..(l + 1), Fits(y, i + 1, b, n), n # 0
      PROVE  b[j + 1] = c /\ n <= j + 1
  <2> DEFINE m == n - 1
  <2>1. m \in 0..l /\ n = m + 1 /\ m \in Nat  BY <1>4
  <2> HIDE DEF m
  <2>2. Fits(y, i, b, m) /\ c = b[m + 1]
    <3>1. Fits(y, i + 1, b, m + 1)  BY <1>4, <2>1
    <3> QED  BY <2>1, <3>1, FitsFurther
  <2>3. m <= k /\ m \in 0..k  BY <1>1, <2>1, <2>2
  <2>4. m <= j  BY <1>2, <2>2, <2>3
  <2>5. j = 0 => m = 0  BY <2>1, <2>4
  <2>6. b[j + 1] = c
    <3>1. CASE j > 0  BY <1>2, <3>1
    <3>2. CASE ~(j > 0)
      <4>1. j = 0 /\ m = j  BY <1>1, <1>2, <2>1, <2>4, <3>2
      <4> QED  BY <2>2, <4>1
    <3> QED  BY <3>1, <3>2
  <2> QED  BY <1>1, <1>2, <2>1, <2>4, <2>6
<1>5. CASE b[j + 1] = c
  <2>1. e = j + 1 /\ j \in Nat /\ j + 1 \in 0..(l + 1)  BY <1>1, <1>2, <1>3, <1>5
  <2>2. Fits(y, i + 1, b, j + 1)  BY <1>2, <1>5, <2>1, FitsFurther
  <2>3. \A n \in 0..(l + 1) : Fits(y, i + 1, b, n) => n <= j + 1  BY <1>4, <2>1
  <2> QED  BY <2>1, <2>2, <2>3 DEF Greatest
<1>6. CASE b[j + 1] # c
  <2>1. e = 0
    <3>1. e = j /\ ~(j > 0)  BY <1>2, <1>3, <1>6
    <3> QED  BY <1>1, <1>2, <3>1
  <2>2. i + 1 \in Nat  OBVIOUS
  <2>3. Fits(y, i + 1, b, 0)  BY <2>2, FitsNothing
  <2>4. \A n \in 0..(l + 1) : Fits(y, i + 1, b, n) => n = 0  BY <1>4, <1>6
  <2>5. 0 \in 0..(l + 1)  OBVIOUS
  <2> QED  BY <2>1, <2>3, <2>4, <2>5 DEF Greatest
<1> QED  BY <1>5, <1>6

(* The failure function of the first n elements of b.                      *)
Entry(f, b, i) ==
  IF i = 0 THEN 0 ELSE Extend(b, Fall(f, b, f[i - 1], b[i + 1]), b[i + 1])
Fails(f, b, n) == f = [i \in 0..(n - 1) |-> Entry(f, b, i)]

LEMMA FailureStep ==
  ASSUME NEW f, NEW b, NEW i \in Nat, Table(f, b, i)
  PROVE  Greatest(b, i + 1, b, i, Entry(f, b, i))
<1>1. CASE i = 0
  <2>1. Entry(f, b, i) = 0  BY <1>1 DEF Entry
  <2>2. i + 1 \in Nat /\ 0 \in 0..i /\ \A n \in 0..i : n <= 0  BY <1>1
  <2>3. Fits(b, i + 1, b, 0)  BY <2>2, FitsNothing
  <2> QED  BY <2>1, <2>2, <2>3 DEF Greatest
<1>2. CASE i # 0
  <2> DEFINE l == i - 1
             k == f[i - 1]
             e == Extend(b, Fall(f, b, k, b[i + 1]), b[i + 1])
  <2>1. l \in Nat /\ l \in 0..(i - 1) /\ l + 1 = i  BY <1>2
  <2>2. Greatest(b, l + 1, b, l, f[l])  BY <2>1 DEF Table
  <2>3. Greatest(b, i, b, l, k)
    <3> HIDE DEF l
    <3>1. i - 1 = l  BY <2>1
    <3> QED  BY <2>1, <2>2, <3>1
  <2>4. Entry(f, b, i) = e  BY <1>2 DEF Entry
  <2> HIDE DEF k, l
  <2>5. k \in 0..l  BY <2>3 DEF Greatest
  <2>6. \A n \in 0..(k - 1) : n \in 0..(i - 1)  BY <2>1, <2>5
  <2>7. Table(f, b, k)  BY <2>6 DEF Table
  <2> HIDE DEF e
  <2>8. Greatest(b, i + 1, b, l + 1, e)  BY <2>1, <2>3, <2>7, ExtendsGreatest DEF e
  <2> QED  BY <2>1, <2>4, <2>8
<1> QED  BY <1>1, <1>2

LEMMA FailsIsTable ==
  ASSUME NEW f, NEW b, NEW n \in Nat, Fails(f, b, n)
  PROVE  Table(f, b, n)
<1> DEFINE h == [i \in 0..(n - 1) |-> Entry(f, b, i)]
           T == {k \in Nat : k <= n => Table(f, b, k)}
<1>1. f = h  BY DEF Fails
<1>2. \A i \in 0..(n - 1) : h[i] = Entry(f, b, i)  OBVIOUS
<1> HIDE DEF h
<1>3. 0 \in T  BY DEF Table
<1>4. ASSUME NEW k \in Nat, k \in T PROVE k + 1 \in T
  <2>1. SUFFICES ASSUME k + 1 <= n PROVE Table(f, b, k + 1)  OBVIOUS
  <2>2. k \in 0..(n - 1) /\ k <= n  BY <2>1
  <2>3. Table(f, b, k)  BY <1>4, <2>2
  <2>4. Greatest(b, k + 1, b, k, f[k])  BY <1>1, <1>2, <2>2, <2>3, FailureStep
  <2>5. \A i \in 0..((k + 1) - 1) : i = k \/ i \in 0..(k - 1)  OBVIOUS
  <2> QED  BY <2>3, <2>4, <2>5 DEF Table
<1>5. Nat \subseteq T
  <2> HIDE DEF T
  <2> QED  BY <1>3, <1>4, Induction
<1>6. n \in T /\ n <= n  BY <1>5
<1> QED  BY <1>6

LEMMA FailsExist ==
  ASSUME NEW b, NEW n \in Nat
  PROVE  \E f : Fails(f, b, n)
<1> DEFINE f == [i \in 0..(n - 1) |-> CHOOSE m : Greatest(b, i + 1, b, i, m)]
<1>1. ASSUME NEW i \in 0..(n - 1) PROVE Greatest(b, i + 1, b, i, f[i])
  <2>1. i \in Nat /\ i + 1 \in Nat  OBVIOUS
  <2>2. \E m : Greatest(b, i + 1, b, i, m)  BY <2>1, GreatestExists
  <2>3. f[i] = CHOOSE m : Greatest(b, i + 1, b, i, m)  OBVIOUS
  <2> HIDE DEF f
  <2> QED  BY <2>2, <2>3
<1>2. f = [i \in 0..(n - 1) |-> f[i]]  OBVIOUS
<1> HIDE DEF f
<1>3. ASSUME NEW i \in 0..(n - 1) PROVE f[i] = Entry(f, b, i)
  <2>1. i \in Nat /\ i + 1 \in Nat /\ \A k \in 0..(i - 1) : k \in 0..(n - 1)  OBVIOUS
  <2>2. Table(f, b, i)  BY <1>1, <2>1 DEF Table
  <2>3. Greatest(b, i + 1, b, i, Entry(f, b, i))  BY <2>1, <2>2, FailureStep
  <2> QED  BY <1>1, <2>1, <2>3, GreatestIsOne
<1>4. Fails(f, b, n)  BY <1>2, <1>3 DEF Fails
<1> QED  BY <1>4

(* The search itself: below the length of b, what fits at every place of x.*)
Match(h, f, x, b, i) ==
  IF i = 0 THEN 0
  ELSE LET k == Extend(b, Fall(f, b, h[i - 1], x[i]), x[i])
       IN  IF k = Len(b) THEN f[k - 1] ELSE k
Walk(h, f, x, b) == h = [i \in 0..Len(x) |-> Match(h, f, x, b, i)]

LEMMA MatchStep ==
  ASSUME NEW h, NEW f, NEW x, NEW b, Len(b) \in Nat \ {0}, NEW i \in Nat \ {0},
         Table(f, b, Len(b)), Greatest(x, i - 1, b, Len(b) - 1, h[i - 1])
  PROVE  Greatest(x, i, b, Len(b) - 1, Match(h, f, x, b, i))
<1> DEFINE m == Len(b)
           l == m - 1
           p == i - 1
           k == h[i - 1]
           e == Extend(b, Fall(f, b, k, x[i]), x[i])
<1>1. m \in Nat /\ l \in Nat /\ l + 1 = m /\ p \in Nat /\ p + 1 = i  OBVIOUS
<1>2. Greatest(x, p, b, l, k) /\ Table(f, b, m)  OBVIOUS
<1>3. Match(h, f, x, b, i) = IF e = m THEN f[e - 1] ELSE e  BY DEF Match
<1>4. e = Extend(b, Fall(f, b, k, x[p + 1]), x[p + 1])  BY <1>1
<1> HIDE DEF m, l, p, k, e
<1>5. k \in 0..l /\ \A n \in 0..(k - 1) : n \in 0..(m - 1)  BY <1>1, <1>2 DEF Greatest
<1>6. Table(f, b, k)  BY <1>2, <1>5 DEF Table
<1>7. Greatest(x, i, b, m, e)  BY <1>1, <1>2, <1>4, <1>6, ExtendsGreatest
<1>8. e \in 0..m /\ Fits(x, i, b, e) /\ \A n \in 0..m : Fits(x, i, b, n) => n <= e
  BY <1>7 DEF Greatest
<1>9. \A n \in 0..l : n \in 0..m  BY <1>1
<1>10. CASE e # m
  <2>1. e \in 0..l  BY <1>1, <1>8, <1>10
  <2>2. Greatest(x, i, b, l, e)  BY <1>8, <1>9, <2>1 DEF Greatest
  <2> QED  BY <1>3, <1>10, <2>2 DEF l, m
<1>11. CASE e = m
  <2> DEFINE d == f[l]
  <2>1. l \in 0..(m - 1) /\ e - 1 = l  BY <1>1, <1>11
  <2>2. Match(h, f, x, b, i) = d  BY <1>3, <1>11, <2>1
  <2>3. Greatest(b, l + 1, b, l, d)  BY <1>2, <2>1 DEF Table
  <2> HIDE DEF d
  <2>4. d \in 0..l /\ Fits(b, m, b, d) /\ \A n \in 0..l : Fits(b, m, b, n) => n <= d
    BY <1>1, <2>3 DEF Greatest
  <2>5. \A n \in 0..l : Fits(x, i, b, n) <=> Fits(b, m, b, n)
    <3>1. Fits(x, i, b, m) /\ i \in Nat  BY <1>8, <1>11
    <3> QED  BY <1>1, <1>9, <3>1, FitsBorder
  <2>6. Greatest(x, i, b, l, d)  BY <2>4, <2>5 DEF Greatest
  <2> QED  BY <2>2, <2>6 DEF l, m
<1> QED  BY <1>10, <1>11

LEMMA MatchesIsGreatest ==
  ASSUME NEW f, NEW x, NEW b, Len(x) \in Nat, Len(b) \in Nat \ {0},
         Table(f, b, Len(b)), NEW h, Walk(h, f, x, b)
  PROVE  Greatest(x, Len(x), b, Len(b) - 1, h[Len(x)])
<1> DEFINE n == Len(x)
           l == Len(b) - 1
           g == [i \in 0..n |-> Match(h, f, x, b, i)]
           T == {i \in Nat : i <= n => Greatest(x, i, b, l, h[i])}
<1>1. h = g  BY DEF Walk
<1>2. \A i \in 0..n : g[i] = Match(h, f, x, b, i)  OBVIOUS
<1> HIDE DEF g
<1>3. l \in Nat /\ n \in Nat  OBVIOUS
<1>4. 0 \in T
  <2>1. h[0] = 0
    <3>1. 0 \in 0..n  BY <1>3
    <3> QED  BY <1>1, <1>2, <3>1 DEF Match
  <2>2. Fits(x, 0, b, 0) /\ \A m \in Nat : Fits(x, 0, b, m) => m <= 0
    BY FitsNothing DEF Fits
  <2>3. 0 \in 0..l /\ \A m \in 0..l : m \in Nat  BY <1>3
  <2> HIDE DEF l
  <2>4. Greatest(x, 0, b, l, h[0])  BY <2>1, <2>2, <2>3 DEF Greatest
  <2> QED  BY <2>4
<1>5. ASSUME NEW i \in Nat, i \in T PROVE i + 1 \in T
  <2>1. SUFFICES ASSUME i + 1 <= n PROVE Greatest(x, i + 1, b, l, h[i + 1])  OBVIOUS
  <2>2. i <= n /\ (i + 1) - 1 = i /\ i + 1 \in Nat \ {0} /\ i + 1 \in 0..n  BY <1>3, <2>1
  <2>3. Greatest(x, (i + 1) - 1, b, l, h[(i + 1) - 1])  BY <1>5, <2>2
  <2>4. Greatest(x, i + 1, b, l, Match(h, f, x, b, i + 1))  BY <2>2, <2>3, MatchStep
  <2> QED  BY <1>1, <1>2, <2>2, <2>4
<1>6. Nat \subseteq T
  <2> HIDE DEF T
  <2> QED  BY <1>4, <1>5, Induction
<1>7. n \in T /\ n <= n  BY <1>3, <1>6
<1> QED  BY <1>7

LEMMA MatchesExist ==
  ASSUME NEW f, NEW x, NEW b, Len(x) \in Nat, Len(b) \in Nat \ {0},
         Table(f, b, Len(b))
  PROVE  \E h : Walk(h, f, x, b)
<1> DEFINE n == Len(x)
           l == Len(b) - 1
           h == [i \in 0..n |-> CHOOSE m : Greatest(x, i, b, l, m)]
<1>1. l \in Nat /\ n \in Nat  OBVIOUS
<1>2. ASSUME NEW i \in 0..n PROVE Greatest(x, i, b, l, h[i])
  <2>1. i \in Nat  OBVIOUS
  <2>2. \E m : Greatest(x, i, b, l, m)
    <3> HIDE DEF l
    <3> QED  BY <1>1, <2>1, GreatestExists
  <2>3. h[i] = CHOOSE m : Greatest(x, i, b, l, m)  OBVIOUS
  <2> HIDE DEF h
  <2> QED  BY <2>2, <2>3
<1>3. h = [i \in 0..n |-> h[i]]  OBVIOUS
<1> HIDE DEF h
<1>4. ASSUME NEW i \in 0..n PROVE h[i] = Match(h, f, x, b, i)
  <2>1. CASE i = 0
    <3>1. h[i] \in Nat /\ h[i] <= i  BY <1>2 DEF Greatest, Fits
    <3> QED  BY <2>1, <3>1 DEF Match
  <2>2. CASE i # 0
    <3>1. i \in Nat \ {0} /\ i \in Nat /\ i - 1 \in 0..n  BY <1>1, <2>2
    <3>2. Greatest(x, i - 1, b, l, h[i - 1])  BY <1>2, <3>1
    <3>3. Greatest(x, i, b, l, Match(h, f, x, b, i))  BY <3>1, <3>2, MatchStep
    <3>4. Greatest(x, i, b, l, h[i])  BY <1>2
    <3> HIDE DEF l
    <3> QED  BY <1>1, <3>1, <3>3, <3>4, GreatestIsOne
  <2> QED  BY <2>1, <2>2
<1>5. Walk(h, f, x, b)  BY <1>3, <1>4 DEF Walk
<1> QED  BY <1>5

LEMMA OverlapUnfolds ==
  ASSUME NEW x, NEW b, x # <<>>, b # <<>>, Len(x) \in Nat, Len(b) \in Nat \ {0}
  PROVE  \E f, h : Fails(f, b, Len(b)) /\ Walk(h, f, x, b)
                   /\ kmpOverlap(x, b) = h[Len(x)]
<1> DEFINE U(f) == f = [i \in 0..(Len(b) - 1) |->
                    IF i = 0 THEN 0 ELSE Extend(b, Fall(f, b, f[i - 1], b[i + 1]), b[i + 1])]
           ff == CHOOSE f : U(f)
           V(h) == h = [i \in 0..Len(x) |->
                     IF i = 0 THEN 0
                     ELSE LET k == Extend(b, Fall(ff, b, h[i - 1], x[i]), x[i])
                          IN  IF k = Len(b) THEN ff[k - 1] ELSE k]
           hh == CHOOSE h : V(h)
<1>1. kmpOverlap(x, b) = hh[Len(x)]  BY DEF kmpOverlap
<1>2. \A f : U(f) <=> Fails(f, b, Len(b))  BY DEF Fails, Entry
<1>3. \E f : U(f)
  <2> HIDE DEF U
  <2> QED  BY <1>2, FailsExist
<1>4. U(ff)
  <2> HIDE DEF U
  <2> QED  BY <1>3
<1> HIDE DEF U, ff
<1>5. \A h : V(h) <=> Walk(h, ff, x, b)  BY DEF Walk, Match
<1>6. Fails(ff, b, Len(b))  BY <1>2, <1>4
<1>7. Table(ff, b, Len(b))  BY <1>6, FailsIsTable
<1> HIDE DEF V
<1>8. \E h : V(h)  BY <1>5, <1>7, MatchesExist
<1>9. V(hh)  BY <1>8
<1> HIDE DEF hh
<1> QED  BY <1>1, <1>5, <1>6, <1>9

(* kmpOverlap: the longest suffix of x that is a proper prefix of b.       *)
LEMMA OverlapGreatest ==
  ASSUME NEW X, NEW x \in Seq(X), NEW b \in Seq(X), b # <<>>
  PROVE  Greatest(x, Len(x), b, Len(b) - 1, kmpOverlap(x, b))
<1>1. Len(x) \in Nat /\ Len(b) \in Nat \ {0} /\ Len(b) - 1 \in Nat  OBVIOUS
<1>2. CASE x = <<>>
  <2>1. kmpOverlap(x, b) = 0 /\ Len(x) = 0  BY <1>2 DEF kmpOverlap
  <2>2. Fits(x, 0, b, 0) /\ \A m \in Nat : Fits(x, 0, b, m) => m <= 0
    BY FitsNothing DEF Fits
  <2>3. 0 \in 0..(Len(b) - 1) /\ \A m \in 0..(Len(b) - 1) : m \in Nat  BY <1>1
  <2> QED  BY <2>1, <2>2, <2>3 DEF Greatest
<1>3. CASE x # <<>>
  <2>1. PICK f, h : Fails(f, b, Len(b)) /\ Walk(h, f, x, b)
                    /\ kmpOverlap(x, b) = h[Len(x)]
    BY <1>1, <1>3, OverlapUnfolds
  <2>2. Table(f, b, Len(b))  BY <1>1, <2>1, FailsIsTable
  <2>3. Greatest(x, Len(x), b, Len(b) - 1, h[Len(x)])  BY <1>1, <2>1, <2>2, MatchesIsGreatest
  <2> QED  BY <2>1, <2>3
<1> QED  BY <1>2, <1>3

----------------------------------------------------------------------------
(* Pieces of a text.                                                       *)
LEMMA FirstIs ==
  ASSUME NEW X, NEW s \in Seq(X), NEW n \in 0..Len(s)
  PROVE  /\ First(s, n) \in Seq(X) /\ Len(First(s, n)) = n
         /\ \A t \in 1..n : First(s, n)[t] = s[t]
BY DEF First

LEMMA AfterIs ==
  ASSUME NEW X, NEW s \in Seq(X), NEW n \in 0..Len(s)
  PROVE  /\ After(s, n) \in Seq(X) /\ Len(After(s, n)) = Len(s) - n
         /\ \A t \in 1..(Len(s) - n) : After(s, n)[t] = s[n + t]
<1>1. n + 1 \in 1..(Len(s) + 1) /\ Len(s) \in Nat  OBVIOUS
<1> QED  BY <1>1 DEF After

LEMMA EndingIs ==
  ASSUME NEW X, NEW s \in Seq(X), NEW n \in 0..Len(s)
  PROVE  /\ Ending(s, n) \in Seq(X) /\ Len(Ending(s, n)) = n
         /\ \A t \in 1..n : Ending(s, n)[t] = s[Len(s) - n + t]
<1> DEFINE k == Len(s) - n
<1>1. k \in 0..Len(s) /\ Len(s) - k = n  OBVIOUS
<1>2. Ending(s, n) = After(s, k)  BY DEF Ending
<1> HIDE DEF k
<1>3. /\ After(s, k) \in Seq(X) /\ Len(After(s, k)) = n
      /\ \A t \in 1..n : After(s, k)[t] = s[k + t]
  BY <1>1, AfterIs
<1> QED  BY <1>2, <1>3 DEF k

LEMMA AfterType ==
  ASSUME NEW X, NEW s \in Seq(X), NEW n \in Nat
  PROVE  After(s, n) \in Seq(X)
<1>1. CASE n <= Len(s)
  <2>1. n \in 0..Len(s)  BY <1>1
  <2> QED  BY <2>1, AfterIs
<1>2. CASE ~(n <= Len(s))
  <2>1. Len(s) \in Nat /\ n + 1 > Len(s)  BY <1>2
  <2>2. After(s, n) = <<>>  BY <2>1 DEF After
  <2> QED  BY <2>2
<1> QED  BY <1>1, <1>2

LEMMA MaxIs ==
  ASSUME NEW S \in SUBSET Int, NEW k \in S, \A n \in S : k >= n
  PROVE  Max(S) = k
<1>1. \A m \in S : (\A n \in S : m >= n) => m = k  OBVIOUS
<1> QED  BY <1>1 DEF Max

(* A text that ends in another, element by element.                        *)
LEMMA EndsInIs ==
  ASSUME NEW X, NEW s \in Seq(X), NEW t \in Seq(X)
  PROVE  EndsIn(s, t) <=> Fits(s, Len(s), t, Len(t))
<1>1. Len(s) \in Nat /\ Len(t) \in Nat  OBVIOUS
<1>2. CASE Len(t) <= Len(s)
  <2> DEFINE u == Ending(s, Len(t))
  <2>1. Len(t) \in 0..Len(s)  BY <1>1, <1>2
  <2>2. /\ u \in Seq(X) /\ Len(u) = Len(t)
        /\ \A i \in 1..Len(t) : u[i] = s[Len(s) - Len(t) + i]
    BY <2>1, EndingIs
  <2>3. EndsIn(s, t) <=> u = t  BY <1>2 DEF EndsIn
  <2> HIDE DEF u
  <2>4. (\A i \in 1..Len(t) : u[i] = t[i]) => u = t  BY <2>2, SeqEqual
  <2> QED  BY <1>2, <2>2, <2>3, <2>4 DEF Fits
<1>3. CASE ~(Len(t) <= Len(s))  BY <1>3 DEF Fits, EndsIn
<1> QED  BY <1>2, <1>3

(* What is left of b after an overlap makes x end in b.                    *)
LEMMA OverlapCompletes ==
  ASSUME NEW X, NEW x \in Seq(X), NEW b \in Seq(X), NEW k \in 0..Len(b),
         Fits(x, Len(x), b, k)
  PROVE  EndsIn(x \o After(b, k), b)
<1> DEFINE d == After(b, k)
           y == x \o d
<1>1. Len(x) \in Nat /\ Len(b) \in Nat /\ k \in Nat /\ k <= Len(b)  OBVIOUS
<1>2. /\ d \in Seq(X) /\ Len(d) = Len(b) - k
      /\ \A t \in 1..(Len(b) - k) : d[t] = b[k + t]
  BY AfterIs
<1>3. k <= Len(x) /\ \A t \in 1..k : x[Len(x) - k + t] = b[t]  BY DEF Fits
<1> HIDE DEF d
<1>4. /\ y \in Seq(X) /\ Len(y) = Len(x) + Len(d)
      /\ \A t \in 1..Len(x) : y[t] = x[t]
      /\ \A t \in 1..Len(d) : y[Len(x) + t] = d[t]
  <2>1. d \in Seq(X) /\ Len(d) \in Nat  BY <1>2
  <2>2. y \in Seq(X) /\ Len(y) = Len(x) + Len(d)  BY <2>1
  <2>3. \A t \in 1..(Len(x) + Len(d)) : y[t] = IF t <= Len(x) THEN x[t] ELSE d[t - Len(x)]
    BY <2>1
  <2> HIDE DEF y
  <2>4. ASSUME NEW t \in 1..Len(d) PROVE y[Len(x) + t] = d[t]
    <3>1. /\ Len(x) + t \in 1..(Len(x) + Len(d)) /\ ~(Len(x) + t <= Len(x))
          /\ (Len(x) + t) - Len(x) = t
      BY <1>1, <2>1
    <3> QED  BY <2>3, <3>1
  <2>5. ASSUME NEW t \in 1..Len(x) PROVE y[t] = x[t]
    <3>1. t \in 1..(Len(x) + Len(d)) /\ t <= Len(x)  BY <1>1, <2>1
    <3> QED  BY <2>3, <3>1
  <2> QED  BY <2>2, <2>4, <2>5
<1> HIDE DEF y
<1>5. ASSUME NEW t \in 1..Len(b) PROVE y[Len(y) - Len(b) + t] = b[t]
  <2>1. Len(y) - Len(b) + t = Len(x) - k + t  BY <1>1, <1>2, <1>4
  <2>2. CASE t <= k
    <3>1. Len(x) - k + t \in 1..Len(x) /\ t \in 1..k  BY <1>1, <1>3, <2>2
    <3> QED  BY <1>3, <1>4, <2>1, <3>1
  <2>3. CASE ~(t <= k)
    <3>1. t - k \in 1..(Len(b) - k) /\ Len(x) + (t - k) = Len(x) - k + t /\ k + (t - k) = t
      BY <1>1, <2>3
    <3>2. y[Len(x) + (t - k)] = d[t - k] /\ d[t - k] = b[k + (t - k)]
      BY <1>2, <1>4, <3>1
    <3> QED  BY <2>1, <3>1, <3>2
  <2> QED  BY <2>2, <2>3
<1>6. Len(b) <= Len(y)  BY <1>1, <1>2, <1>3, <1>4
<1>7. Fits(y, Len(y), b, Len(b))  BY <1>5, <1>6 DEF Fits
<1>8. EndsIn(y, b)  BY <1>4, <1>7, EndsInIs
<1> QED  BY <1>8 DEF y, d

(* A text that makes x end in b leaves an overlap of the rest.             *)
LEMMA CompletesOverlap ==
  ASSUME NEW X, NEW x \in Seq(X), NEW b \in Seq(X), NEW d \in Seq(X),
         Len(d) <= Len(b), EndsIn(x \o d, b)
  PROVE  Fits(x, Len(x), b, Len(b) - Len(d))
<1> DEFINE y == x \o d
           m == Len(b) - Len(d)
<1>1. Len(x) \in Nat /\ Len(b) \in Nat /\ Len(d) \in Nat  OBVIOUS
<1>2. /\ y \in Seq(X) /\ Len(y) = Len(x) + Len(d)
      /\ \A t \in 1..Len(x) : y[t] = x[t]
  OBVIOUS
<1> HIDE DEF y
<1>3. Fits(y, Len(y), b, Len(b))
  <2>1. EndsIn(y, b)  BY DEF y
  <2> QED  BY <1>2, <2>1, EndsInIs
<1>4. /\ Len(b) <= Len(y)
      /\ \A t \in 1..Len(b) : y[Len(y) - Len(b) + t] = b[t]
  BY <1>3 DEF Fits
<1>5. m \in Nat /\ m <= Len(x) /\ Len(y) - Len(b) = Len(x) - m  BY <1>1, <1>2, <1>4
<1>6. ASSUME NEW t \in 1..m PROVE x[Len(x) - m + t] = b[t]
  <2>1. t \in 1..Len(b) /\ Len(x) - m + t \in 1..Len(x)  BY <1>1, <1>5
  <2>2. y[Len(x) - m + t] = b[t]  BY <1>4, <1>5, <2>1
  <2>3. y[Len(x) - m + t] = x[Len(x) - m + t]  BY <1>2, <2>1
  <2> QED  BY <2>2, <2>3
<1> QED  BY <1>5, <1>6 DEF Fits

(* DeltaIsShortest, of any two texts.                                      *)
LEMMA DeltaOfTexts ==
  ASSUME NEW X, NEW previous \in Seq(X), NEW chunk \in Seq(X), chunk # <<>>,
         ~IsStrictPrefix(chunk, previous)
  PROVE  LET delta == ComputeDelta(chunk, previous)
         IN  /\ EndsIn(previous \o delta, chunk)
             /\ ~EndsIn(previous, chunk) =>
                  \A n \in 0..(Len(delta) - 1) : ~EndsIn(previous \o Ending(delta, n), chunk)
<1> DEFINE x == previous
           delta == ComputeDelta(chunk, previous)
<1>1. Len(x) \in Nat /\ Len(chunk) \in Nat \ {0}  OBVIOUS
<1>2. PICK k \in 0..Len(chunk) :
        /\ delta = After(chunk, k) /\ Fits(x, Len(x), chunk, k)
        /\ \A m \in 0..(Len(chunk) - 1) : Fits(x, Len(x), chunk, m) => m <= k
  <2>1. CASE IsPrefix(previous, chunk)
    <3>1. /\ Len(x) <= Len(chunk)
          /\ SubSeq(x, 1, Len(x)) = SubSeq(chunk, 1, Len(x))
      BY <2>1 DEF IsPrefix
    <3>2. Len(x) \in 0..Len(chunk)  BY <1>1, <3>1
    <3>3. \A t \in 1..Len(x) : x[t] = chunk[t]
      <4>1. /\ \A t \in 1..Len(x) : SubSeq(x, 1, Len(x))[t] = x[t]
            /\ \A t \in 1..Len(x) : SubSeq(chunk, 1, Len(x))[t] = chunk[t]
        BY <3>1
      <4> QED  BY <3>1, <4>1
    <3>4. Fits(x, Len(x), chunk, Len(x))
      <4>1. \A t \in 1..Len(x) : Len(x) - Len(x) + t = t  BY <1>1
      <4> QED  BY <1>1, <3>3, <4>1 DEF Fits
    <3>5. \A m \in 0..(Len(chunk) - 1) : Fits(x, Len(x), chunk, m) => m <= Len(x)  BY DEF Fits
    <3>6. delta = After(chunk, Len(x))
      <4>1. CASE previous = <<>>
        <5>1. After(chunk, 0) = chunk
          <6>1. After(chunk, 0) = SubSeq(chunk, 0 + 1, Len(chunk))  BY DEF After
          <6> QED  BY <6>1
        <5>2. Len(x) = 0  BY <4>1
        <5> QED  BY <4>1, <5>1, <5>2 DEF ComputeDelta
      <4>2. CASE previous # <<>>  BY <2>1, <4>2 DEF ComputeDelta
      <4> QED  BY <4>1, <4>2
    <3> HIDE DEF x, delta
    <3> QED  BY <3>2, <3>4, <3>5, <3>6
  <2>2. CASE ~IsPrefix(previous, chunk)
    <3> DEFINE o == kmpOverlap(previous, chunk)
    <3>1. previous # <<>>
      <4> SUFFICES ASSUME previous = <<>> PROVE FALSE  OBVIOUS
      <4>1. Len(previous) = 0 /\ SubSeq(previous, 1, 0) = <<>> /\ SubSeq(chunk, 1, 0) = <<>>
        OBVIOUS
      <4> QED  BY <1>1, <2>2, <4>1 DEF IsPrefix
    <3>2. delta = After(chunk, o)  BY <2>2, <3>1 DEF ComputeDelta
    <3>3. Greatest(x, Len(x), chunk, Len(chunk) - 1, o)  BY OverlapGreatest
    <3> HIDE DEF o, delta, x
    <3>4. o \in 0..Len(chunk)  BY <1>1, <3>3 DEF Greatest
    <3> QED  BY <3>2, <3>3, <3>4 DEF Greatest
  <2> QED  BY <2>1, <2>2
<1> HIDE DEF delta
<1>3. EndsIn(x \o delta, chunk)  BY <1>2, OverlapCompletes
<1>4. delta \in Seq(X) /\ Len(delta) = Len(chunk) - k  BY <1>2, AfterIs
<1>5. ASSUME ~EndsIn(x, chunk), NEW n \in 0..(Len(delta) - 1),
             EndsIn(x \o Ending(delta, n), chunk)
      PROVE  FALSE
  <2> DEFINE d == Ending(delta, n)
             m == Len(chunk) - n
  <2>1. n \in 0..Len(delta) /\ n <= Len(chunk) /\ n \in Nat  BY <1>1, <1>4
  <2>2. d \in Seq(X) /\ Len(d) = n  BY <1>4, <2>1, EndingIs
  <2>3. Fits(x, Len(x), chunk, m)
    <3> HIDE DEF d
    <3>1. EndsIn(x \o d, chunk)  BY <1>5 DEF d
    <3> QED  BY <2>1, <2>2, <3>1, CompletesOverlap
  <2>4. CASE n = 0
    <3>1. Fits(x, Len(x), chunk, Len(chunk))
      <4>1. m = Len(chunk)  BY <1>1, <2>4
      <4> QED  BY <2>3, <4>1
    <3> QED  BY <1>5, <3>1, EndsInIs
  <2>5. CASE n # 0
    <3>1. m \in 0..(Len(chunk) - 1) /\ m > k  BY <1>1, <1>4, <2>1, <2>5
    <3> HIDE DEF m
    <3> QED  BY <1>1, <1>2, <2>3, <3>1
  <2> QED  BY <2>4, <2>5
<1> QED  BY <1>3, <1>5 DEF delta

LEMMA MinIs ==
  ASSUME NEW S \in SUBSET Int, NEW k \in S, \A n \in S : k <= n
  PROVE  Min(S) = k
<1>1. \A m \in S : (\A n \in S : m <= n) => m = k  OBVIOUS
<1> QED  BY <1>1 DEF Min

LEMMA MinOfSome ==
  ASSUME NEW S \in SUBSET Nat, S # {}
  PROVE  Min(S) \in S /\ \A n \in S : Min(S) <= n
<1>1. PICK k \in S : \A n \in S : k <= n  BY LeastElement
<1>2. S \in SUBSET Int  OBVIOUS
<1>3. Min(S) = k  BY <1>1, <1>2, MinIs
<1> QED  BY <1>1, <1>3

LEMMA MaxBelow ==
  ASSUME NEW m \in Nat, NEW S \in SUBSET (0..m), S # {}
  PROVE  Max(S) \in S /\ \A n \in S : Max(S) >= n
<1> DEFINE T == {n \in 1..(m + 1) : n - 1 \in S}
<1>1. m + 1 \in Nat /\ T \in SUBSET (1..(m + 1))  OBVIOUS
<1>2. T # {}
  <2>1. PICK n \in S : TRUE  OBVIOUS
  <2>2. n + 1 \in 1..(m + 1) /\ (n + 1) - 1 = n  OBVIOUS
  <2> QED  BY <2>1, <2>2
<1>3. PICK k \in T : \A n \in T : k >= n
  <2> HIDE DEF T
  <2> QED  BY <1>1, <1>2, GreatestElement
<1>4. k - 1 \in S  OBVIOUS
<1>5. ASSUME NEW n \in S PROVE k - 1 >= n
  <2>1. n + 1 \in 1..(m + 1) /\ (n + 1) - 1 = n  OBVIOUS
  <2>2. n + 1 \in T  BY <2>1
  <2>3. k >= n + 1  BY <1>3, <2>2
  <2> QED  BY <2>3
<1>6. S \in SUBSET Int  OBVIOUS
<1> HIDE DEF T
<1>7. Max(S) = k - 1  BY <1>4, <1>5, <1>6, MaxIs
<1> QED  BY <1>4, <1>5, <1>7

(* A maximum over the elements of a sequence, and 0.                       *)
LEMMA MaxOverSequence ==
  ASSUME NEW n \in Nat, NEW h \in [1..n -> Int]
  PROVE  /\ Max({0} \cup {h[i] : i \in 1..n}) \in Nat
         /\ \A j \in 1..n : Max({0} \cup {h[i] : i \in 1..n}) >= h[j]
<1> DEFINE V(m) == {0} \cup {h[i] : i \in 1..m}
           T == {m \in Nat : m <= n => \E k \in V(m) : \A v \in V(m) : k >= v}
<1>1. 0 \in T
  <2>1. 1..0 = {}  OBVIOUS
  <2>2. V(0) = {0}  BY <2>1
  <2> HIDE DEF V
  <2>3. \E k \in V(0) : \A v \in V(0) : k >= v  BY <2>2
  <2> QED  BY <2>3
<1>2. ASSUME NEW m \in Nat, m \in T PROVE m + 1 \in T
  <2>1. SUFFICES ASSUME m + 1 <= n PROVE \E k \in V(m + 1) : \A v \in V(m + 1) : k >= v
    OBVIOUS
  <2>2. m <= n /\ m + 1 \in 1..n /\ h[m + 1] \in Int /\ V(m) \subseteq Int  BY <2>1
  <2>3. V(m + 1) = V(m) \cup {h[m + 1]}
    <3>1. 1..(m + 1) = (1..m) \cup {m + 1}  OBVIOUS
    <3> QED  BY <3>1
  <2>4. PICK k \in V(m) : \A v \in V(m) : k >= v  BY <1>2, <2>2
  <2> HIDE DEF V
  <2>5. CASE k >= h[m + 1]  BY <2>3, <2>4, <2>5
  <2>6. CASE ~(k >= h[m + 1])
    <3>1. \A v \in V(m + 1) : h[m + 1] >= v  BY <2>2, <2>3, <2>4, <2>6
    <3>2. h[m + 1] \in V(m + 1)  BY <2>3
    <3> QED  BY <3>1, <3>2
  <2> QED  BY <2>5, <2>6
<1>3. Nat \subseteq T
  <2> HIDE DEF T
  <2> QED  BY <1>1, <1>2, Induction
<1>4. PICK k \in V(n) : \A v \in V(n) : k >= v
  <2>1. n \in T
    <3> HIDE DEF T
    <3> QED  BY <1>3
  <2> QED  BY <2>1
<1>5. V(n) \in SUBSET Int /\ 0 \in V(n) /\ \A i \in 1..n : h[i] \in V(n)  OBVIOUS
<1> HIDE DEF V
<1>6. Max(V(n)) = k  BY <1>4, <1>5, MaxIs
<1>7. k \in Nat /\ \A i \in 1..n : k >= h[i]  BY <1>4, <1>5
<1> QED  BY <1>6, <1>7 DEF V

LEMMA DeltaType ==
  ASSUME NEW X, NEW chunk \in Seq(X), NEW previous \in Seq(X)
  PROVE  ComputeDelta(chunk, previous) \in Seq(X)
<1>1. CASE previous = <<>>  BY <1>1 DEF ComputeDelta
<1>2. CASE previous # <<>> /\ IsPrefix(previous, chunk)
  <2>1. ComputeDelta(chunk, previous) = After(chunk, Len(previous))  BY <1>2 DEF ComputeDelta
  <2> QED  BY <2>1, AfterType
<1>3. CASE previous # <<>> /\ ~IsPrefix(previous, chunk)
  <2>1. CASE IsStrictPrefix(chunk, previous)
    <3>1. ComputeDelta(chunk, previous) = <<>>  BY <1>3, <2>1 DEF ComputeDelta
    <3> QED  BY <3>1
  <2>2. CASE ~IsStrictPrefix(chunk, previous)
    <3>1. ComputeDelta(chunk, previous) = After(chunk, kmpOverlap(previous, chunk))
      BY <1>3, <2>2 DEF ComputeDelta
    <3>2. chunk # <<>>
      <4> SUFFICES ASSUME chunk = <<>> PROVE FALSE  OBVIOUS
      <4>1. Len(chunk) = 0 /\ Len(previous) \in Nat  OBVIOUS
      <4>2. SubSeq(chunk, 1, 0) = <<>> /\ SubSeq(previous, 1, 0) = <<>>  OBVIOUS
      <4>3. IsStrictPrefix(chunk, previous)  BY <1>3, <4>1, <4>2 DEF IsStrictPrefix, IsPrefix
      <4> QED  BY <2>2, <4>3
    <3>3. Greatest(previous, Len(previous), chunk, Len(chunk) - 1, kmpOverlap(previous, chunk))
      BY <3>2, OverlapGreatest
    <3>4. kmpOverlap(previous, chunk) \in Nat  BY <3>3 DEF Greatest
    <3> QED  BY <3>1, <3>4, AfterType
  <2> QED  BY <2>1, <2>2
<1> QED  BY <1>1, <1>2, <1>3

(* Index: the first place where t is in s, or -1.                          *)
Occurs(s, t, i) ==
  i \in 0..(Len(s) - Len(t)) /\ SubSeq(s, i + 1, i + Len(t)) = t

LEMMA IndexFinds ==
  ASSUME NEW X, NEW s \in Seq(X), NEW t \in Seq(X), NEW i, i = Index(s, t)
  PROVE  \/ i = -1 /\ \A j : ~Occurs(s, t, j)
         \/ i # -1 /\ Occurs(s, t, i) /\ i \in Nat /\ \A j : Occurs(s, t, j) => i <= j
<1> DEFINE at == {j \in 0..(Len(s) - Len(t)) : SubSeq(s, j + 1, j + Len(t)) = t}
<1>1. i = IF at = {} THEN -1 ELSE Min(at)  BY DEF Index
<1>2. \A j : j \in at <=> Occurs(s, t, j)  BY DEF Occurs
<1>3. at \in SUBSET Nat  OBVIOUS
<1> HIDE DEF at
<1>4. CASE at = {}  BY <1>1, <1>2, <1>4
<1>5. CASE at # {}
  <2>1. Min(at) \in at /\ \A n \in at : Min(at) <= n  BY <1>3, <1>5, MinOfSome
  <2>2. i = Min(at) /\ i \in Nat  BY <1>1, <1>3, <1>5, <2>1
  <2>3. i # -1  BY <2>2
  <2> QED  BY <1>2, <2>1, <2>2, <2>3
<1> QED  BY <1>4, <1>5

LEMMA PartialTag ==
  ASSUME NEW X, NEW s \in Seq(X), NEW tag \in Seq(X), tag # <<>>,
         NEW n, n = partialTagSuffix(s, tag)
  PROVE  /\ n \in 0..(Len(tag) - 1) /\ n <= Len(s) /\ Ending(s, n) = First(tag, n)
         /\ \A k \in 0..(Len(tag) - 1) :
               k <= Len(s) /\ Ending(s, k) = First(tag, k) => k <= n
<1> DEFINE S == {k \in 0..(Len(tag) - 1) : k <= Len(s) /\ Ending(s, k) = First(tag, k)}
           m == Len(tag) - 1
<1>1. m \in Nat /\ S \in SUBSET (0..m)  OBVIOUS
<1>2. n = Max(S)  BY DEF partialTagSuffix
<1>3. 0 \in S
  <2>1. 0 \in 0..Len(s) /\ 0 \in 0..Len(tag) /\ 0 \in 0..(Len(tag) - 1) /\ 0 <= Len(s)
    OBVIOUS
  <2>2. Ending(s, 0) \in Seq(X) /\ Len(Ending(s, 0)) = 0  BY <2>1, EndingIs
  <2>3. First(tag, 0) \in Seq(X) /\ Len(First(tag, 0)) = 0  BY <2>1, FirstIs
  <2>4. Ending(s, 0) = <<>> /\ First(tag, 0) = <<>>  BY <2>2, <2>3
  <2> QED  BY <2>1, <2>4
<1> HIDE DEF m
<1>4. n \in S /\ \A k \in S : n >= k
  <2> HIDE DEF S
  <2> QED  BY <1>1, <1>2, <1>3, MaxBelow
<1>5. \A k \in S : k \in Nat /\ n \in Nat  BY <1>1, <1>4
<1> QED  BY <1>1, <1>4, <1>5

Parse == [buf : Text, in : BOOLEAN, text : Text, thinking : Text, opened : BOOLEAN]

LEMMA TagsAre ==
  /\ OpenTag \in Seq(Char) /\ OpenTag # <<>> /\ Len(OpenTag) \in Nat \ {0}
  /\ CloseTag \in Seq(Char) /\ CloseTag # <<>> /\ Len(CloseTag) \in Nat \ {0}
BY TagsAreTexts

LEMMA TurnType ==
  ASSUME NEW p \in Parse
  PROVE  Turn(p) \in Parse
<1> DEFINE tag  == IF p.in THEN CloseTag ELSE OpenTag
           at   == Index(p.buf, tag)
           upto == IF at >= 0 THEN at ELSE Len(p.buf) - partialTagSuffix(p.buf, tag)
           out  == First(p.buf, upto)
           rest == After(p.buf, IF at >= 0 THEN at + Len(tag) ELSE upto)
<1>1. /\ p.buf \in Seq(Char) /\ p.in \in BOOLEAN /\ p.text \in Seq(Char)
      /\ p.thinking \in Seq(Char) /\ p.opened \in BOOLEAN
  BY DEF Parse, Text
<1>2. tag \in Seq(Char) /\ tag # <<>> /\ Len(tag) \in Nat  BY TagsAre
<1>3. Turn(p) = [p EXCEPT !.text     = IF p.in THEN @ ELSE @ \o out,
                          !.thinking = IF p.in THEN @ \o out ELSE @,
                          !.buf      = rest,
                          !.in       = IF at >= 0 THEN ~p.in ELSE @,
                          !.opened   = IF at >= 0 THEN @ \/ ~p.in ELSE @]
  <2>1. CASE at >= 0  BY <2>1 DEF Turn, Parse
  <2>2. CASE ~(at >= 0)  BY <2>2 DEF Turn, Parse
  <2> QED  BY <2>1, <2>2
<1> HIDE DEF tag
<1>4. upto \in 0..Len(p.buf)
  <2>1. CASE at >= 0
    <3>1. at # -1  BY <2>1
    <3>2. Occurs(p.buf, tag, at)  BY <1>1, <1>2, <3>1, IndexFinds
    <3>3. at \in 0..(Len(p.buf) - Len(tag))  BY <3>2 DEF Occurs
    <3> HIDE DEF at
    <3> QED  BY <1>1, <1>2, <2>1, <3>3
  <2>2. CASE ~(at >= 0)
    <3> DEFINE n == partialTagSuffix(p.buf, tag)
    <3>1. n \in 0..(Len(tag) - 1) /\ n <= Len(p.buf)  BY <1>1, <1>2, PartialTag
    <3> HIDE DEF n, at
    <3>2. Len(p.buf) - n \in 0..Len(p.buf)  BY <1>1, <1>2, <3>1
    <3> QED  BY <2>2, <3>2 DEF n
  <2> QED  BY <2>1, <2>2
<1>5. at \in Nat \/ at = -1  BY <1>1, <1>2, IndexFinds
<1> HIDE DEF upto, at
<1>6. out \in Seq(Char)  BY <1>1, <1>4, FirstIs
<1>7. rest \in Seq(Char)
  <2>1. upto \in Nat  BY <1>1, <1>4
  <2>2. at >= 0 => at + Len(tag) \in Nat  BY <1>2, <1>5
  <2>3. (IF at >= 0 THEN at + Len(tag) ELSE upto) \in Nat  BY <2>1, <2>2
  <2> QED  BY <1>1, <2>3, AfterType
<1> HIDE DEF out, rest
<1>8. p.text \o out \in Seq(Char) /\ p.thinking \o out \in Seq(Char)  BY <1>1, <1>6
<1> QED  BY <1>1, <1>3, <1>7, <1>8 DEF Parse, Text

Turns(f, start, k) == f = [n \in 0..k |-> IF n = 0 THEN start ELSE Turn(f[n - 1])]

LEMMA TurnsSteps ==
  ASSUME NEW f, NEW start, NEW k \in Nat, Turns(f, start, k)
  PROVE  /\ f[0] = start
         /\ \A n \in 0..k : n + 1 \in 0..k => f[n + 1] = Turn(f[n])
<1> DEFINE g == [n \in 0..k |-> IF n = 0 THEN start ELSE Turn(f[n - 1])]
<1>1. f = g  BY DEF Turns
<1>2. g[0] = start  OBVIOUS
<1>3. ASSUME NEW n \in 0..k, n + 1 \in 0..k PROVE g[n + 1] = Turn(f[n])
  <2>1. n + 1 # 0 /\ (n + 1) - 1 = n  OBVIOUS
  <2>2. g[n + 1] = Turn(f[(n + 1) - 1])  BY <1>3, <2>1
  <2> QED  BY <2>1, <2>2
<1> HIDE DEF g
<1> QED  BY <1>1, <1>2, <1>3

LEMMA TurnsExist ==
  ASSUME NEW start
  PROVE  \A k \in Nat : \E f : Turns(f, start, k)
<1> DEFINE T == {k \in Nat : \E f : Turns(f, start, k)}
<1>1. 0 \in T
  <2> DEFINE f == [n \in 0..0 |-> start]
  <2>1. \A n \in 0..0 : n = 0  OBVIOUS
  <2>2. f = [n \in 0..0 |-> IF n = 0 THEN start ELSE Turn(f[n - 1])]  BY <2>1
  <2> HIDE DEF f
  <2>3. Turns(f, start, 0)  BY <2>2 DEF Turns
  <2> QED  BY <2>3
<1>2. ASSUME NEW k \in Nat, k \in T PROVE k + 1 \in T
  <2>1. PICK f : Turns(f, start, k)  BY <1>2
  <2>2. f[0] = start /\ \A n \in 0..k : n + 1 \in 0..k => f[n + 1] = Turn(f[n])
    BY <2>1, TurnsSteps
  <2> DEFINE last == Turn(f[k])
             g == [n \in 0..(k + 1) |-> IF n = k + 1 THEN last ELSE f[n]]
  <2>3. g[k + 1] = last /\ \A n \in 0..k : g[n] = f[n]  OBVIOUS
  <2>4. g = [n \in 0..(k + 1) |-> g[n]]  OBVIOUS
  <2> HIDE DEF g
  <2>5. ASSUME NEW n \in 0..(k + 1)
        PROVE  g[n] = IF n = 0 THEN start ELSE Turn(g[n - 1])
    <3>1. CASE n = 0
      <4>1. n \in 0..k  BY <3>1
      <4> QED  BY <2>2, <2>3, <3>1, <4>1
    <3>2. CASE n # 0 /\ n # k + 1
      <4>1. n \in 0..k /\ n - 1 \in 0..k /\ (n - 1) + 1 = n  BY <3>2
      <4>2. f[n] = Turn(f[n - 1])  BY <2>2, <4>1
      <4> QED  BY <2>3, <3>2, <4>1, <4>2
    <3>3. CASE n = k + 1
      <4>1. n # 0 /\ n - 1 = k /\ k \in 0..k  BY <3>3
      <4> QED  BY <2>3, <3>3, <4>1
    <3> QED  BY <3>1, <3>2, <3>3
  <2>6. Turns(g, start, k + 1)  BY <2>4, <2>5 DEF Turns
  <2> QED  BY <2>6
<1>3. Nat \subseteq T
  <2> HIDE DEF T
  <2> QED  BY <1>1, <1>2, Induction
<1> QED  BY <1>3

Start(buffer, inside) ==
  [buf |-> buffer, in |-> inside, text |-> <<>>, thinking |-> <<>>, opened |-> FALSE]

LEMMA ParseUnfolds ==
  ASSUME NEW buffer \in Text, NEW inside
  PROVE  \E f : /\ Turns(f, Start(buffer, inside), Len(buffer))
                /\ parseThinkingTags(buffer, inside) = f[Len(buffer)]
<1> DEFINE start == [buf |-> buffer, in |-> inside, text |-> <<>>, thinking |-> <<>>,
                     opened |-> FALSE]
           U(f) == f = [n \in 0..Len(buffer) |-> IF n = 0 THEN start ELSE Turn(f[n - 1])]
           h == CHOOSE f : U(f)
<1>1. parseThinkingTags(buffer, inside) = h[Len(buffer)]  BY DEF parseThinkingTags
<1>2. \A f : U(f) <=> Turns(f, Start(buffer, inside), Len(buffer))  BY DEF Turns, Start
<1>3. Len(buffer) \in Nat  BY DEF Text
<1>4. U(h)
  <2> HIDE DEF U
  <2>1. \E f : U(f)  BY <1>2, <1>3, TurnsExist
  <2> QED  BY <2>1
<1> HIDE DEF U, h
<1> QED  BY <1>1, <1>2, <1>4

LEMMA ParseType ==
  ASSUME NEW buffer \in Text, NEW inside \in BOOLEAN
  PROVE  parseThinkingTags(buffer, inside) \in Parse
<1> DEFINE k == Len(buffer)
           start == Start(buffer, inside)
<1>1. k \in Nat  BY DEF Text
<1>2. start \in Parse  BY DEF Start, Parse, Text
<1> HIDE DEF start
<1>3. PICK f : Turns(f, start, k) /\ parseThinkingTags(buffer, inside) = f[k]
  BY ParseUnfolds DEF start
<1> HIDE DEF k
<1>4. f[0] = start /\ \A n \in 0..k : n + 1 \in 0..k => f[n + 1] = Turn(f[n])
  BY <1>1, <1>3, TurnsSteps
<1> DEFINE T == {n \in Nat : n <= k => f[n] \in Parse}
<1>5. 0 \in T  BY <1>2, <1>4
<1>6. ASSUME NEW n \in Nat, n \in T PROVE n + 1 \in T
  <2>1. n + 1 <= k => n \in 0..k /\ n + 1 \in 0..k /\ n <= k  BY <1>1
  <2> QED  BY <1>4, <1>6, <2>1, TurnType
<1>7. Nat \subseteq T
  <2> HIDE DEF T
  <2> QED  BY <1>5, <1>6, Induction
<1>8. k \in T /\ k <= k  BY <1>1, <1>7
<1> QED  BY <1>3, <1>8

----------------------------------------------------------------------------
(* The budget.                                                             *)
Below(n) == request.maxTokens # 0 => n < RunesPerToken * request.maxTokens

LEMMA BudgetDivides ==
  ASSUME NEW n \in Nat, NEW d \in Nat \ {0}, NEW m \in Nat
  PROVE  n \div d < m <=> n < d * m
<1> DEFINE q == n \div d
<1>1. q \in Nat /\ d * q <= n /\ n < d * (q + 1)  OBVIOUS
<1> HIDE DEF q
<1>2. ASSUME q < m PROVE d * (q + 1) <= d * m
  <2>1. PICK k \in Nat : m = (q + 1) + k
    <3>1. m - (q + 1) \in Nat /\ m = (q + 1) + (m - (q + 1))  BY <1>1, <1>2
    <3> QED  BY <3>1
  <2>2. d * m = d * (q + 1) + d * k /\ d * k \in Nat /\ d * (q + 1) \in Nat  BY <1>1, <2>1
  <2> QED  BY <2>2
<1>3. ASSUME ~(q < m) PROVE d * m <= d * q
  <2>1. PICK k \in Nat : q = m + k
    <3>1. q - m \in Nat /\ q = m + (q - m)  BY <1>1, <1>3
    <3> QED  BY <3>1
  <2>2. d * q = d * m + d * k /\ d * k \in Nat /\ d * m \in Nat  BY <2>1
  <2> QED  BY <2>2
<1>4. d * m \in Nat /\ d * q \in Nat /\ d * (q + 1) \in Nat  BY <1>1
<1>5. q < m <=> n < d * m  BY <1>1, <1>2, <1>3, <1>4
<1> QED  BY <1>5 DEF q

LEMMA RequestIs ==
  ASSUME request \in Request
  PROVE  /\ request.maxTokens \in Nat /\ request.stopSequences \in Seq(Text)
         /\ RunesPerToken * request.maxTokens \in Nat
         /\ \A n \in Nat : WithinBudget(n) <=> n < RunesPerToken * request.maxTokens
<1>1. request.maxTokens \in Nat /\ request.stopSequences \in Seq(Text)  BY DEF Request
<1>2. RunesPerToken \in Nat \ {0}  BY RunesPerTokenIsPositive
<1>3. \A n \in Nat : WithinBudget(n) <=> n < RunesPerToken * request.maxTokens
  BY <1>1, <1>2, BudgetDivides DEF WithinBudget
<1> QED  BY <1>1, <1>2, <1>3

LEMMA BudgetApplied ==
  ASSUME request \in Request, NEW was \in Acc, NEW X, NEW delta \in Seq(X),
         NEW r, r = applyMaxTokensBudget(was, delta)
  PROVE  /\ r.acc \in Acc /\ r.out \in Seq(X)
         /\ r.acc = [was EXCEPT !.outputRuneCount = r.acc.outputRuneCount,
                                !.localStop = r.acc.localStop,
                                !.stopReason = r.acc.stopReason]
         /\ was.localStop => r.acc.localStop
         /\ ~r.acc.localStop =>
              /\ r.out = delta /\ r.acc.stopReason = was.stopReason
              /\ r.acc.outputRuneCount = was.outputRuneCount + Len(delta)
              /\ Below(r.acc.outputRuneCount)
<1> DEFINE total     == was.outputRuneCount + Len(delta)
           remaining == request.maxTokens * RunesPerToken - was.outputRuneCount
           fits      == [was EXCEPT !.outputRuneCount = total]
<1>1. was.outputRuneCount \in Nat /\ Len(delta) \in Nat /\ was.localStop \in BOOLEAN
  <2>1. was.outputRuneCount \in Nat /\ was.localStop \in BOOLEAN  BY DEF Acc
  <2>2. Len(delta) \in Nat  OBVIOUS
  <2> QED  BY <2>1, <2>2
<1>2. total \in Nat /\ remaining \in Int
  <2>1. request.maxTokens \in Nat /\ RunesPerToken \in Nat
    BY RequestIs, RunesPerTokenIsPositive
  <2>2. request.maxTokens * RunesPerToken \in Nat  BY <2>1
  <2> QED  BY <1>1, <2>2
<1>3. fits \in Acc /\ fits.localStop = was.localStop /\ fits.outputRuneCount = total
      /\ fits.stopReason = was.stopReason
  BY <1>2 DEF Acc
<1>4. Stopped(fits, "max_tokens") \in Acc /\ Stopped(was, "max_tokens") \in Acc
  BY <1>3 DEF Stopped, Acc
<1> HIDE DEF total, remaining
<1>5. CASE request.maxTokens = 0 \/ WithinBudget(total)
  <2>1. r.acc = fits /\ r.out = delta
    BY <1>5 DEF applyMaxTokensBudget, total, remaining
  <2>2. Below(total)  BY <1>2, <1>5, RequestIs DEF Below
  <2>3. fits = [was EXCEPT !.outputRuneCount = fits.outputRuneCount,
                           !.localStop = fits.localStop, !.stopReason = fits.stopReason]
    BY <1>3 DEF Acc
  <2> QED  BY <1>3, <2>1, <2>2, <2>3 DEF total
<1>6. CASE ~(request.maxTokens = 0 \/ WithinBudget(total)) /\ remaining <= 0
  <2> DEFINE new == Stopped(was, "max_tokens")
  <2>1. r.acc = new /\ r.out = <<>>
    BY <1>6 DEF applyMaxTokensBudget, total, remaining
  <2>2. new = [was EXCEPT !.outputRuneCount = new.outputRuneCount,
                          !.localStop = new.localStop, !.stopReason = new.stopReason]
        /\ new.localStop
    BY DEF Acc, Stopped
  <2>3. <<>> \in Seq(X)  OBVIOUS
  <2> QED  BY <1>4, <2>1, <2>2, <2>3
<1>7. CASE /\ ~(request.maxTokens = 0 \/ WithinBudget(total)) /\ ~(remaining <= 0)
           /\ Len(delta) > remaining
  <2> DEFINE new == Stopped([was EXCEPT !.outputRuneCount = @ + remaining], "max_tokens")
  <2>1. r.acc = new /\ r.out = First(delta, remaining)
    BY <1>7 DEF applyMaxTokensBudget, total, remaining
  <2>2. was.outputRuneCount + remaining \in Nat /\ remaining \in 0..Len(delta)
    BY <1>1, <1>2, <1>7
  <2>3. /\ new \in Acc /\ new.localStop
        /\ new = [was EXCEPT !.outputRuneCount = new.outputRuneCount,
                             !.localStop = new.localStop, !.stopReason = new.stopReason]
    <3>1. new = [was EXCEPT !.outputRuneCount = was.outputRuneCount + remaining,
                            !.localStop = TRUE, !.stopReason = "max_tokens"]
      BY DEF Acc, Stopped
    <3>2. new.outputRuneCount = was.outputRuneCount + remaining /\ new.localStop = TRUE
          /\ new.stopReason = "max_tokens"
      BY <3>1 DEF Acc
    <3>3. new \in Acc  BY <2>2, <3>1 DEF Acc
    <3> HIDE DEF new
    <3> QED  BY <3>1, <3>2, <3>3
  <2>4. First(delta, remaining) \in Seq(X)  BY <2>2, FirstIs
  <2> QED  BY <2>1, <2>3, <2>4
<1>8. CASE /\ ~(request.maxTokens = 0 \/ WithinBudget(total)) /\ ~(remaining <= 0)
           /\ ~(Len(delta) > remaining)
  <2> DEFINE new == Stopped(fits, "max_tokens")
  <2>1. r.acc = new /\ r.out = delta
    BY <1>8 DEF applyMaxTokensBudget, total, remaining
  <2>2. new = [was EXCEPT !.outputRuneCount = new.outputRuneCount,
                          !.localStop = new.localStop, !.stopReason = new.stopReason]
        /\ new.localStop
    BY <1>3 DEF Acc, Stopped
  <2> QED  BY <1>4, <2>1, <2>2
<1> QED  BY <1>5, <1>6, <1>7, <1>8

----------------------------------------------------------------------------
(* Stop sequences.                                                         *)
LEMMA StopFiltered ==
  ASSUME request \in Request, NEW was \in Acc, NEW delta \in Text,
         NEW r, r = applyStopSequenceFilter(was, delta)
  PROVE  /\ r.acc \in Acc /\ r.out \in Text
         /\ r.acc = [was EXCEPT !.localStop = r.acc.localStop,
                                !.stopReason = r.acc.stopReason,
                                !.stopSequence = r.acc.stopSequence,
                                !.stopSeqPending = r.acc.stopSeqPending]
         /\ was.localStop => r.acc.localStop
         /\ ~r.acc.localStop => r.acc.stopReason = was.stopReason
<1> DEFINE pending == was.stopSeqPending \o delta
           matches == {i \in Stops : Index(pending, StopSequences[i]) >= 0}
           match   == StopSequences[Min(matches)]
           keep    == Min({Len(pending), stopSeqMaxKeep})
           n       == Len(StopSequences)
<1>1. pending \in Seq(Char)
  <2>1. was.stopSeqPending \in Seq(Char)  BY DEF Acc, Text
  <2>2. delta \in Seq(Char)  BY DEF Text
  <2> QED  BY <2>1, <2>2
<1>2. StopSequences \in Seq(Text) /\ n \in Nat /\ DOMAIN StopSequences = 1..n
      /\ \A i \in 1..n : StopSequences[i] \in Seq(Char)
  <2>1. StopSequences \in Seq(Text)  BY RequestIs DEF StopSequences
  <2> QED  BY <2>1 DEF Text
<1>2a. Stops \subseteq 1..n  BY <1>2 DEF Stops
<1> HIDE DEF pending, n
<1>3. matches \in SUBSET Nat
  <2>1. matches \subseteq Stops  OBVIOUS
  <2> HIDE DEF matches
  <2> QED  BY <1>2, <1>2a, <2>1
<1>4. CASE matches # {}
  <2> DEFINE at  == Index(pending, match)
             new == [Stopped(was, "stop_sequence")
                       EXCEPT !.stopSequence = match, !.stopSeqPending = <<>>]
  <2>1. r.acc = new /\ r.out = First(pending, at)
    BY <1>4 DEF applyStopSequenceFilter, pending
  <2>2. Min(matches) \in matches
    <3> HIDE DEF matches
    <3> QED  BY <1>3, <1>4, MinOfSome
  <2>3. match \in Seq(Char) /\ at >= 0  BY <1>2, <1>2a, <2>2
  <2> HIDE DEF matches, match
  <2>4. Occurs(pending, match, at)
    <3>1. at # -1  BY <2>3
    <3> HIDE DEF at
    <3> QED  BY <1>1, <2>3, <3>1, IndexFinds DEF at
  <2>5. at \in 0..Len(pending)
    <3>1. at \in 0..(Len(pending) - Len(match))  BY <2>4 DEF Occurs
    <3>2. Len(match) \in Nat /\ Len(pending) \in Nat  BY <1>1, <2>3
    <3> HIDE DEF at
    <3> QED  BY <3>1, <3>2
  <2> HIDE DEF at
  <2>6. First(pending, at) \in Text  BY <1>1, <2>5, FirstIs DEF Text
  <2>7. <<>> \in Text /\ match \in Text  BY <2>3 DEF Text
  <2>8. new = [was EXCEPT !.localStop = TRUE, !.stopReason = "stop_sequence",
                          !.stopSequence = match, !.stopSeqPending = <<>>]
    BY DEF Stopped, Acc
  <2>9. new \in Acc /\ new.localStop = TRUE /\ new.stopReason = "stop_sequence"
        /\ new.stopSequence = match /\ new.stopSeqPending = <<>>
    BY <2>7, <2>8 DEF Acc
  <2> HIDE DEF new
  <2> QED  BY <2>1, <2>6, <2>8, <2>9
<1>5. CASE matches = {}
  <2> DEFINE new == [was EXCEPT !.stopSeqPending = Ending(pending, keep)]
  <2>1. r.acc = new /\ r.out = First(pending, Len(pending) - keep)
    BY <1>5 DEF applyStopSequenceFilter, pending
  <2>2. stopSeqMaxKeep \in Nat
    <3> DEFINE h == [i \in 1..n |-> Len(StopSequences[i]) - 1]
    <3>1. h \in [1..n -> Int]  BY <1>2
    <3>2. {Len(StopSequences[i]) - 1 : i \in DOMAIN StopSequences} = {h[i] : i \in 1..n}
      BY <1>2
    <3> HIDE DEF h
    <3>3. Max({0} \cup {h[i] : i \in 1..n}) \in Nat  BY <1>2, <3>1, MaxOverSequence
    <3> QED  BY <3>2, <3>3 DEF stopSeqMaxKeep
  <2>3. Len(pending) \in Nat  BY <1>1
  <2>4. keep \in 0..Len(pending)
    <3> DEFINE S == {Len(pending), stopSeqMaxKeep}
    <3>1. S \in SUBSET Nat /\ S # {}  BY <2>2, <2>3
    <3>2. Len(pending) \in S  OBVIOUS
    <3> HIDE DEF S
    <3>3. Min(S) \in Nat /\ Min(S) <= Len(pending)  BY <3>1, <3>2, MinOfSome
    <3> QED  BY <2>3, <3>3 DEF S
  <2> HIDE DEF keep
  <2>5. Len(pending) - keep \in 0..Len(pending)  BY <2>3, <2>4
  <2>6. First(pending, Len(pending) - keep) \in Text  BY <1>1, <2>5, FirstIs DEF Text
  <2>7. Ending(pending, keep) \in Text  BY <1>1, <2>4, EndingIs DEF Text
  <2>8. new \in Acc /\ new.localStop = was.localStop /\ new.stopReason = was.stopReason
        /\ new.stopSequence = was.stopSequence /\ new.stopSeqPending = Ending(pending, keep)
    BY <2>7 DEF Acc
  <2>9. was = [was EXCEPT !.localStop = was.localStop, !.stopReason = was.stopReason,
                          !.stopSequence = was.stopSequence]
    BY DEF Acc
  <2>10. new = [was EXCEPT !.localStop = new.localStop, !.stopReason = new.stopReason,
                           !.stopSequence = new.stopSequence,
                           !.stopSeqPending = new.stopSeqPending]
    BY <2>8, <2>9 DEF Acc
  <2> HIDE DEF new
  <2> QED  BY <2>1, <2>6, <2>8, <2>10
<1> QED  BY <1>4, <1>5

----------------------------------------------------------------------------
(* What a step of the accumulator keeps.                                   *)
Tally(was) ==
  ~was.localStop =>
    /\ was.outputRuneCount = Len(was.textBuf) + Len(was.thinkingBuf) + was.toolRunes
    /\ Below(was.outputRuneCount)

Reports(was) ==
  <<was.toolCalls, was.toolRunes, was.hasMetadata, was.inputTokens, was.outputTokens,
    was.cacheTokens, was.hasContextUsage, was.contextUsagePercentage, was.hasCredits,
    was.credits>>

Keeps(was, new) ==
  /\ new \in Acc /\ (was.localStop => new.localStop)
  /\ ~new.localStop => new.stopReason = was.stopReason
  /\ Tally(was) => Tally(new)
  /\ Reports(new) = Reports(was)

LEMMA KeepsFurther ==
  ASSUME NEW x, NEW y, NEW z, Keeps(x, y), Keeps(y, z)
  PROVE  Keeps(x, z)
BY DEF Keeps

LEMMA AccTexts ==
  ASSUME NEW was \in Acc
  PROVE  /\ was.textBuf \in Text /\ Len(was.textBuf) \in Nat
         /\ was.thinkingBuf \in Thinking /\ Len(was.thinkingBuf) \in Nat
         /\ was.stopSeqPending \in Text /\ was.thinkingTagBuf \in Text
         /\ was.toolRunes \in Nat /\ was.outputRuneCount \in Nat
<1>1. was.textBuf \in Text /\ was.thinkingBuf \in Thinking  BY DEF Acc
<1>2. was.stopSeqPending \in Text /\ was.thinkingTagBuf \in Text  BY DEF Acc
<1>3. was.toolRunes \in Nat /\ was.outputRuneCount \in Nat  BY DEF Acc
<1>4. Len(was.textBuf) \in Nat /\ Len(was.thinkingBuf) \in Nat
  BY <1>1 DEF Text, Thinking
<1> QED  BY <1>1, <1>2, <1>3, <1>4

LEMMA ThinkingKeeps ==
  ASSUME request \in Request, NEW was \in Acc, NEW thought \in Thinking,
         NEW new, new = accumulateThinking(was, thought)
  PROVE  Keeps(was, new)
<1>1. CASE thought = <<>>
  <2>1. new = was  BY <1>1 DEF accumulateThinking
  <2> QED  BY <2>1 DEF Keeps
<1>2. CASE thought # <<>>
  <2> DEFINE r == applyMaxTokensBudget(was, thought)
             x == r.acc
             buf == x.thinkingBuf \o r.out
  <2>1. new = [x EXCEPT !.thinkingBuf = buf]  BY <1>2 DEF accumulateThinking
  <2>2. /\ x \in Acc /\ r.out \in Seq(Char \cup {Thought})
        /\ x = [was EXCEPT !.outputRuneCount = x.outputRuneCount,
                           !.localStop = x.localStop, !.stopReason = x.stopReason]
        /\ was.localStop => x.localStop
        /\ ~x.localStop =>
             /\ r.out = thought /\ x.stopReason = was.stopReason
             /\ x.outputRuneCount = was.outputRuneCount + Len(thought)
             /\ Below(x.outputRuneCount)
    BY BudgetApplied DEF Thinking
  <2> HIDE DEF r
  <2> HIDE DEF x
  <2>3. /\ x.thinkingBuf = was.thinkingBuf /\ x.textBuf = was.textBuf
        /\ x.toolRunes = was.toolRunes /\ Reports(x) = Reports(was)
    BY <2>2 DEF Acc, Reports
  <2>4. x.thinkingBuf \in Seq(Char \cup {Thought})  BY <2>2 DEF Acc, Thinking
  <2>5. buf \in Thinking /\ Len(buf) = Len(x.thinkingBuf) + Len(r.out)
    BY <2>2, <2>4 DEF Thinking
  <2> HIDE DEF buf
  <2>6. new \in Acc /\ new.thinkingBuf = buf /\ new.textBuf = x.textBuf
        /\ new.outputRuneCount = x.outputRuneCount /\ new.toolRunes = x.toolRunes
    <3>1. new \in Acc  BY <2>1, <2>2, <2>5 DEF Acc
    <3>2. new.thinkingBuf = buf /\ new.textBuf = x.textBuf  BY <2>1, <2>2 DEF Acc
    <3>3. new.outputRuneCount = x.outputRuneCount /\ new.toolRunes = x.toolRunes
      BY <2>1, <2>2 DEF Acc
    <3> QED  BY <3>1, <3>2, <3>3
  <2>7. new.localStop = x.localStop /\ new.stopReason = x.stopReason
        /\ Reports(new) = Reports(x)
    BY <2>1, <2>2 DEF Acc, Reports
  <2>8. ASSUME Tally(was), ~new.localStop
        PROVE  /\ new.outputRuneCount
                    = Len(new.textBuf) + Len(new.thinkingBuf) + new.toolRunes
               /\ Below(new.outputRuneCount)
    <3>1. ~x.localStop /\ ~was.localStop  BY <2>2, <2>7, <2>8
    <3>2. was.outputRuneCount = Len(was.textBuf) + Len(was.thinkingBuf) + was.toolRunes
      BY <2>8, <3>1 DEF Tally
    <3>3. Len(was.textBuf) \in Nat /\ Len(was.thinkingBuf) \in Nat /\ was.toolRunes \in Nat
      BY AccTexts
    <3>4. Len(thought) \in Nat  BY DEF Thinking
    <3>5. /\ new.outputRuneCount = was.outputRuneCount + Len(thought)
          /\ Len(new.textBuf) = Len(was.textBuf) /\ new.toolRunes = was.toolRunes
          /\ Len(new.thinkingBuf) = Len(was.thinkingBuf) + Len(thought)
      BY <2>2, <2>3, <2>5, <2>6, <3>1
    <3>6. Below(new.outputRuneCount)  BY <2>2, <2>6, <3>1
    <3>7. new.outputRuneCount = Len(new.textBuf) + Len(new.thinkingBuf) + new.toolRunes
      <4> DEFINE i == Len(was.textBuf)
                 j == Len(was.thinkingBuf)
                 k == was.toolRunes
                 n == Len(thought)
                 o == new.outputRuneCount
      <4>1. i \in Nat /\ j \in Nat /\ k \in Nat /\ n \in Nat  BY <3>3, <3>4
      <4>2. o = i + j + k + n  BY <3>2, <3>5
      <4> HIDE DEF i, j, k, n, o
      <4>3. o = i + (j + n) + k  BY <4>1, <4>2
      <4> QED  BY <3>5, <4>3 DEF i, j, k, n, o
    <3> QED  BY <3>6, <3>7
  <2> QED  BY <2>2, <2>3, <2>6, <2>7, <2>8 DEF Keeps, Tally
<1> QED  BY <1>1, <1>2

(* Nothing was delivered or counted between was and new.                   *)
Quiet(was, new) ==
  /\ new \in Acc /\ (was.localStop => new.localStop)
  /\ ~new.localStop => new.stopReason = was.stopReason
  /\ new.textBuf = was.textBuf /\ new.thinkingBuf = was.thinkingBuf
  /\ new.outputRuneCount = was.outputRuneCount
  /\ Reports(new) = Reports(was)

LEMMA QuietKeeps ==
  ASSUME NEW was, NEW new, Quiet(was, new)
  PROVE  Keeps(was, new) /\ new.toolRunes = was.toolRunes
<1>1. new.toolRunes = was.toolRunes  BY DEF Quiet, Reports
<1> QED  BY <1>1 DEF Quiet, Keeps, Tally

(* What AccumulateText and flushStopSeqPending share.                      *)
LEMMA AppendKeeps ==
  ASSUME request \in Request, NEW was \in Acc, NEW y, Quiet(was, y), NEW out \in Text,
         NEW r, r = IF out # <<>> /\ ~y.localStop THEN applyMaxTokensBudget(y, out)
                    ELSE [acc |-> y, out |-> out],
         NEW new, new = [r.acc EXCEPT !.textBuf = @ \o r.out]
  PROVE  Keeps(was, new)
<1> DEFINE x == r.acc
           buf == x.textBuf \o r.out
<1>1. y \in Acc  BY DEF Quiet
<1>2. /\ x \in Acc /\ r.out \in Text
      /\ y.localStop => x.localStop
      /\ x.textBuf = y.textBuf /\ x.thinkingBuf = y.thinkingBuf /\ Reports(x) = Reports(y)
      /\ ~x.localStop => /\ r.out = out /\ x.stopReason = y.stopReason
                         /\ x.outputRuneCount = y.outputRuneCount + Len(out)
                         /\ Below(y.outputRuneCount) => Below(x.outputRuneCount)
  <2>1. CASE out # <<>> /\ ~y.localStop
    <3> DEFINE g == applyMaxTokensBudget(y, out)
    <3>1. out \in Seq(Char)  BY DEF Text
    <3>2. /\ g.acc \in Acc /\ g.out \in Seq(Char)
          /\ g.acc = [y EXCEPT !.outputRuneCount = g.acc.outputRuneCount,
                               !.localStop = g.acc.localStop,
                               !.stopReason = g.acc.stopReason]
          /\ y.localStop => g.acc.localStop
          /\ ~g.acc.localStop =>
               /\ g.out = out /\ g.acc.stopReason = y.stopReason
               /\ g.acc.outputRuneCount = y.outputRuneCount + Len(out)
               /\ Below(g.acc.outputRuneCount)
      BY <1>1, <3>1, BudgetApplied
    <3> HIDE DEF g
    <3>2a. r = g  BY <2>1 DEF g
    <3>2b. x = g.acc /\ r.out = g.out  BY <3>2a
    <3> HIDE DEF x
    <3>3. /\ g.acc.textBuf = y.textBuf /\ g.acc.thinkingBuf = y.thinkingBuf
          /\ Reports(g.acc) = Reports(y)
      BY <1>1, <3>2 DEF Acc, Reports
    <3> QED  BY <3>2, <3>2b, <3>3 DEF Text
  <2>2. CASE ~(out # <<>> /\ ~y.localStop)
    <3>1. r = [acc |-> y, out |-> out]  BY <2>2
    <3>2. x = y /\ r.out = out  BY <3>1
    <3>3. y.outputRuneCount \in Nat  BY <1>1, AccTexts
    <3>4. ~y.localStop => y.outputRuneCount = y.outputRuneCount + Len(out)
      <4>1. ~y.localStop => Len(out) = 0  BY <2>2
      <4> QED  BY <3>3, <4>1
    <3> HIDE DEF x
    <3> QED  BY <1>1, <3>2, <3>4
  <2> QED  BY <2>1, <2>2
<1> HIDE DEF x
<1>3. buf \in Text /\ Len(buf) = Len(was.textBuf) + Len(r.out)
  <2>1. x.textBuf \in Seq(Char) /\ r.out \in Seq(Char) /\ x.textBuf = was.textBuf
    BY <1>2, AccTexts DEF Text, Quiet
  <2>2. buf \in Seq(Char) /\ Len(buf) = Len(x.textBuf) + Len(r.out)  BY <2>1
  <2> QED  BY <2>1, <2>2 DEF Text
<1>4. new = [x EXCEPT !.textBuf = buf]  BY DEF x
<1> HIDE DEF buf
<1>5. new \in Acc /\ new.textBuf = buf /\ new.thinkingBuf = x.thinkingBuf
      /\ new.outputRuneCount = x.outputRuneCount
  <2>1. new \in Acc  BY <1>2, <1>3, <1>4 DEF Acc
  <2>2. new.textBuf = buf /\ new.thinkingBuf = x.thinkingBuf  BY <1>2, <1>4 DEF Acc
  <2>3. new.outputRuneCount = x.outputRuneCount  BY <1>2, <1>4 DEF Acc
  <2> QED  BY <2>1, <2>2, <2>3
<1>6. new.localStop = x.localStop /\ new.stopReason = x.stopReason
      /\ Reports(new) = Reports(x)
  BY <1>2, <1>4 DEF Acc, Reports
<1>7. /\ was.localStop => new.localStop
      /\ ~new.localStop => new.stopReason = was.stopReason
  BY <1>2, <1>6 DEF Quiet
<1>8. Reports(new) = Reports(was)  BY <1>2, <1>6 DEF Quiet
<1>9. ASSUME Tally(was), ~new.localStop
      PROVE  /\ new.outputRuneCount
                  = Len(new.textBuf) + Len(new.thinkingBuf) + new.toolRunes
             /\ Below(new.outputRuneCount)
  <2>1. ~x.localStop /\ ~was.localStop  BY <1>6, <1>7, <1>9
  <2>2. was.outputRuneCount = Len(was.textBuf) + Len(was.thinkingBuf) + was.toolRunes
        /\ Below(was.outputRuneCount)
    BY <1>9, <2>1 DEF Tally
  <2>3. Len(was.textBuf) \in Nat /\ Len(was.thinkingBuf) \in Nat /\ was.toolRunes \in Nat
    BY AccTexts
  <2>4. Len(out) \in Nat  BY DEF Text
  <2>5. new.toolRunes = was.toolRunes  BY <1>8 DEF Reports
  <2>6. new.outputRuneCount = was.outputRuneCount + Len(out)
        /\ Len(new.textBuf) = Len(was.textBuf) + Len(out)
        /\ new.thinkingBuf = was.thinkingBuf
    BY <1>2, <1>3, <1>5, <2>1 DEF Quiet
  <2>7. Below(new.outputRuneCount)  BY <1>2, <1>5, <2>1, <2>2 DEF Quiet
  <2>8. new.outputRuneCount = Len(new.textBuf) + Len(new.thinkingBuf) + new.toolRunes
    <3> DEFINE i == Len(was.textBuf)
               j == Len(was.thinkingBuf)
               k == was.toolRunes
               n == Len(out)
               o == new.outputRuneCount
    <3>1. i \in Nat /\ j \in Nat /\ k \in Nat /\ n \in Nat  BY <2>3, <2>4
    <3>2. o = i + j + k + n  BY <2>2, <2>6
    <3> HIDE DEF i, j, k, n, o
    <3>3. o = (i + n) + j + k  BY <3>1, <3>2
    <3> QED  BY <2>5, <2>6, <3>3 DEF i, j, k, n, o
  <2> QED  BY <2>7, <2>8
<1> QED  BY <1>5, <1>7, <1>8, <1>9 DEF Keeps, Tally

LEMMA TextKeeps ==
  ASSUME request \in Request, NEW was \in Acc, NEW text \in Text,
         NEW new, new = AccumulateText(was, text)
  PROVE  Keeps(was, new)
<1>1. CASE text = <<>>
  <2>1. new = was  BY <1>1 DEF AccumulateText
  <2> QED  BY <2>1 DEF Keeps
<1>2. CASE text # <<>>
  <2> DEFINE f == IF Stops = {} THEN [acc |-> was, out |-> text]
                  ELSE applyStopSequenceFilter(was, text)
             r == IF f.out # <<>> /\ ~f.acc.localStop
                  THEN applyMaxTokensBudget(f.acc, f.out) ELSE f
             y == f.acc
             out == f.out
  <2>1. new = [r.acc EXCEPT !.textBuf = @ \o r.out]  BY <1>2 DEF AccumulateText
  <2>2. Quiet(was, y) /\ out \in Text /\ f = [acc |-> y, out |-> out]
    <3>1. CASE Stops = {}  BY <3>1 DEF Quiet
    <3>2. CASE Stops # {}
      <4> DEFINE g == applyStopSequenceFilter(was, text)
      <4>1. g = [acc |-> g.acc, out |-> g.out]  BY DEF applyStopSequenceFilter
      <4>2. /\ g.acc \in Acc /\ g.out \in Text
            /\ g.acc = [was EXCEPT !.localStop = g.acc.localStop,
                                   !.stopReason = g.acc.stopReason,
                                   !.stopSequence = g.acc.stopSequence,
                                   !.stopSeqPending = g.acc.stopSeqPending]
            /\ was.localStop => g.acc.localStop
            /\ ~g.acc.localStop => g.acc.stopReason = was.stopReason
        BY StopFiltered
      <4>3. f = g  BY <3>2
      <4> HIDE DEF f, g
      <4>4. y = g.acc /\ out = g.out  BY <4>3
      <4>5. Quiet(was, g.acc)  BY <4>2 DEF Acc, Quiet, Reports
      <4> HIDE DEF y, out
      <4> QED  BY <4>1, <4>2, <4>3, <4>4, <4>5
    <3> QED  BY <3>1, <3>2
  <2>3. r = IF out # <<>> /\ ~y.localStop THEN applyMaxTokensBudget(y, out)
            ELSE [acc |-> y, out |-> out]
    BY <2>2
  <2> HIDE DEF f, y, out, r
  <2> QED  BY <2>1, <2>2, <2>3, AppendKeeps
<1> QED  BY <1>1, <1>2

LEMMA FlushKeeps ==
  ASSUME request \in Request, NEW was \in Acc, NEW new, new = flushStopSeqPending(was)
  PROVE  Keeps(was, new)
<1> DEFINE y   == [was EXCEPT !.stopSeqPending = <<>>]
           out == was.stopSeqPending
           r   == applyMaxTokensBudget(y, out)
<1>1. out \in Text /\ <<>> \in Text  BY AccTexts DEF Text
<1>2. Quiet(was, y)
  <2>1. y \in Acc  BY <1>1 DEF Acc
  <2> QED  BY <2>1 DEF Acc, Quiet, Reports
<1>3. y.localStop = was.localStop  BY DEF Acc
<1>4. new = IF out = <<>> \/ was.localStop THEN y
            ELSE [r.acc EXCEPT !.textBuf = @ \o r.out]
  BY DEF flushStopSeqPending
<1>5. CASE out = <<>> \/ was.localStop  BY <1>2, <1>4, <1>5, QuietKeeps
<1>6. CASE ~(out = <<>> \/ was.localStop)
  <2> HIDE DEF y, out
  <2>1. r = IF out # <<>> /\ ~y.localStop THEN applyMaxTokensBudget(y, out)
            ELSE [acc |-> y, out |-> out]
    BY <1>3, <1>6
  <2> HIDE DEF r
  <2>2. new = [r.acc EXCEPT !.textBuf = @ \o r.out]  BY <1>4, <1>6
  <2> QED  BY <1>1, <1>2, <2>1, <2>2, AppendKeeps
<1> QED  BY <1>5, <1>6

LEMMA FinalizeKeeps ==
  ASSUME request \in Request, NEW was \in Acc, NEW new, new = finalizeThinkingTags(was)
  PROVE  Keeps(was, new)
<1> DEFINE y == [was EXCEPT !.thinkingTagBuf = <<>>]
<1>1. was.thinkingTagBuf \in Text /\ was.thinkingTagBuf \in Thinking /\ <<>> \in Text
  <2>1. was.thinkingTagBuf \in Seq(Char)  BY AccTexts DEF Text
  <2>2. was.thinkingTagBuf \in Seq(Char \cup {Thought})
    <3> DEFINE s == was.thinkingTagBuf
    <3>1. s \in Seq(Char)  BY <2>1
    <3> HIDE DEF s
    <3> QED  BY <3>1 DEF s
  <2> QED  BY <2>1, <2>2 DEF Text, Thinking
<1>2. Quiet(was, y)
  <2>1. y \in Acc  BY <1>1 DEF Acc
  <2> QED  BY <2>1 DEF Acc, Quiet, Reports
<1>3. Keeps(was, y) /\ y \in Acc  BY <1>2, QuietKeeps DEF Quiet
<1> HIDE DEF y
<1>4. CASE was.thinkingTagInside
  <2>1. new = accumulateThinking(y, was.thinkingTagBuf)
    BY <1>4 DEF finalizeThinkingTags, y
  <2>2. Keeps(y, new)  BY <1>1, <1>3, <2>1, ThinkingKeeps
  <2> QED  BY <1>3, <2>2, KeepsFurther
<1>5. CASE ~was.thinkingTagInside
  <2>1. new = AccumulateText(y, was.thinkingTagBuf)
    BY <1>5 DEF finalizeThinkingTags, y
  <2>2. Keeps(y, new)  BY <1>1, <1>3, <2>1, TextKeeps
  <2> QED  BY <1>3, <2>2, KeepsFurther
<1> QED  BY <1>4, <1>5

LEMMA ContentKeeps ==
  ASSUME request \in Request, a \in Acc, NEW content \in Text,
         NEW new, new = AssistantContent(content)
  PROVE  Keeps(a, new)
<1> DEFINE delta  == ComputeDelta(content, a.lastContent)
           seen   == [a EXCEPT !.lastContent = content]
           p      == parseThinkingTags(a.thinkingTagBuf \o delta, a.thinkingTagInside)
           taken == [seen EXCEPT !.thinkingTagBuf = p.buf, !.thinkingTagInside = p.in,
                                  !.suppressReasoningContent = @ \/ p.opened]
<1>1. new = IF delta = <<>> \/ a.localStop THEN seen
            ELSE AccumulateText(accumulateThinking(taken, p.thinking), p.text)
  BY DEF AssistantContent
<1>2. delta \in Seq(Char)
  <2>1. a.lastContent \in Seq(Char)  BY DEF Acc, Text
  <2>2. content \in Seq(Char)  BY DEF Text
  <2> QED  BY <2>1, <2>2, DeltaType
<1>3. Quiet(a, seen)
  <2>1. seen \in Acc  BY DEF Acc
  <2> QED  BY <2>1 DEF Acc, Quiet, Reports
<1>4. CASE delta = <<>> \/ a.localStop  BY <1>1, <1>3, <1>4, QuietKeeps
<1>5. CASE ~(delta = <<>> \/ a.localStop)
  <2>1. p \in Parse
    <3>1. a.thinkingTagBuf \in Seq(Char) /\ a.thinkingTagInside \in BOOLEAN
      BY DEF Acc, Text
    <3> HIDE DEF delta
    <3>2. a.thinkingTagBuf \o delta \in Text  BY <1>2, <3>1 DEF Text
    <3> QED  BY <3>1, <3>2, ParseType
  <2> HIDE DEF p
  <2>2. p.buf \in Text /\ p.text \in Text /\ p.thinking \in Text
        /\ p.in \in BOOLEAN /\ p.opened \in BOOLEAN
    BY <2>1 DEF Parse
  <2>3. p.thinking \in Thinking
    <3> DEFINE s == p.thinking
    <3>1. s \in Seq(Char)  BY <2>2 DEF Text
    <3> HIDE DEF s
    <3>2. s \in Seq(Char \cup {Thought})  BY <3>1
    <3> QED  BY <3>2 DEF s, Thinking
  <2>4. seen \in Acc /\ seen.suppressReasoningContent \in BOOLEAN
    BY <1>3 DEF Quiet, Acc
  <2> DEFINE flag == seen.suppressReasoningContent \/ p.opened
  <2>5. flag \in BOOLEAN  BY <2>2, <2>4
  <2>6. taken = [seen EXCEPT !.thinkingTagBuf = p.buf, !.thinkingTagInside = p.in,
                              !.suppressReasoningContent = flag]
    BY <2>4 DEF Acc
  <2> HIDE DEF flag, seen, taken
  <2>7. taken \in Acc  BY <2>2, <2>4, <2>5, <2>6 DEF Acc
  <2>8. Quiet(seen, taken)  BY <2>4, <2>6, <2>7 DEF Acc, Quiet, Reports
  <2> DEFINE mid == accumulateThinking(taken, p.thinking)
  <2>9. Keeps(a, seen) /\ Keeps(seen, taken)  BY <1>3, <2>8, QuietKeeps
  <2>10. Keeps(taken, mid)  BY <2>3, <2>7, ThinkingKeeps
  <2> HIDE DEF mid
  <2>11. mid \in Acc  BY <2>10 DEF Keeps
  <2>12. new = AccumulateText(mid, p.text)  BY <1>1, <1>5 DEF mid
  <2>13. Keeps(mid, new)  BY <2>2, <2>11, <2>12, TextKeeps
  <2> QED  BY <2>9, <2>10, <2>13, KeepsFurther
<1> QED  BY <1>4, <1>5

(* The tool made and the usage.                                           *)
LEMMA ReasoningKeeps ==
  ASSUME request \in Request, a \in Acc, NEW thinking, thinking = Append(a.lastThinking, Thought),
         NEW new,
         LET seen == [a EXCEPT !.lastThinking = thinking]
         IN  new = IF a.suppressReasoningContent THEN a
                   ELSE IF a.localStop THEN seen
                   ELSE accumulateThinking(seen, ComputeDelta(thinking, a.lastThinking))
  PROVE  Keeps(a, new)
<1> DEFINE seen == [a EXCEPT !.lastThinking = thinking]
           delta == ComputeDelta(thinking, a.lastThinking)
<1>1. a.lastThinking \in Seq(Char \cup {Thought})  BY DEF Acc, Thinking
<1>2. thinking \in Seq(Char \cup {Thought})
  <2> DEFINE s == a.lastThinking
  <2> HIDE DEF s
  <2>1. s \in Seq(Char \cup {Thought})  BY <1>1 DEF s
  <2>2. Append(s, Thought) \in Seq(Char \cup {Thought})  BY <2>1
  <2> QED  BY <2>2 DEF s
<1>3. delta \in Thinking  BY <1>1, <1>2, DeltaType DEF Thinking
<1>4. Quiet(a, seen) /\ Quiet(a, a)
  <2>1. seen \in Acc  BY <1>2 DEF Acc, Thinking
  <2> QED  BY <2>1 DEF Acc, Quiet, Reports
<1>5. Keeps(a, seen) /\ Keeps(a, a) /\ seen \in Acc  BY <1>4, QuietKeeps DEF Quiet
<1> HIDE DEF seen, delta
<1>6. Keeps(seen, accumulateThinking(seen, delta))  BY <1>3, <1>5, ThinkingKeeps
<1>7. new \in {a, seen, accumulateThinking(seen, delta)}  BY DEF seen, delta
<1>8. Keeps(a, accumulateThinking(seen, delta))
  <2> DEFINE new2 == accumulateThinking(seen, delta)
  <2> HIDE DEF new2
  <2>1. Keeps(seen, new2)  BY <1>6 DEF new2
  <2>2. Keeps(a, new2)  BY <1>5, <2>1, KeepsFurther
  <2> QED  BY <2>2 DEF new2
<1> QED  BY <1>5, <1>7, <1>8

LEMMA ToolUseKeeps ==
  ASSUME request \in Request, a \in Acc, NEW tool \in ToolCall, NEW new, new = Recorded(tool)
  PROVE  new \in Acc /\ (Tally(a) => Tally(new))
<1> DEFINE n     == Len(tool.input)
           made == Append(a.toolCalls, Restored(tool))
           runes == a.toolRunes + n
           total == a.outputRuneCount + n
           was   == [a EXCEPT !.toolCalls = made, !.toolRunes = runes,
                              !.outputRuneCount = total]
<1>1. n \in Nat /\ a.toolRunes \in Nat /\ a.outputRuneCount \in Nat
  <2>1. tool.input \in Seq(STRING)  BY DEF ToolCall
  <2> QED  BY <2>1, AccTexts
<1>2. Restored(tool) \in ToolCall
  <2> DEFINE names == {m.to : m \in {k \in request.toolNames : k.from = tool.name}}
  <2>1. names \in SUBSET STRING
    <3>1. request.toolNames \in SUBSET [from : STRING, to : STRING]  BY DEF Request
    <3> QED  BY <3>1
  <2> DEFINE name == IF names = {} THEN tool.name ELSE CHOOSE x \in names : TRUE
  <2>2. Restored(tool) = [tool EXCEPT !.name = name]  BY DEF Restored, ToolCall
  <2>3. name \in STRING
    <3>1. tool.name \in STRING  BY DEF ToolCall
    <3> HIDE DEF names
    <3> QED  BY <2>1, <3>1
  <2> HIDE DEF name
  <2> QED  BY <2>2, <2>3 DEF ToolCall
<1>3. made \in Seq(ToolCall)
  <2>1. a.toolCalls \in Seq(ToolCall)  BY DEF Acc
  <2> QED  BY <1>2, <2>1
<1>4. runes \in Nat /\ total \in Nat  BY <1>1
<1>5. new = IF request.maxTokens = 0 \/ WithinBudget(was.outputRuneCount) THEN was
            ELSE Stopped(was, "max_tokens")
  BY DEF Recorded, Acc
<1>6. was \in Acc
  <2> HIDE DEF made, runes, total
  <2> QED  BY <1>3, <1>4 DEF Acc
<1>7. was.outputRuneCount = total /\ was.toolRunes = runes /\ was.localStop = a.localStop
      /\ was.textBuf = a.textBuf /\ was.thinkingBuf = a.thinkingBuf
  <2> HIDE DEF made, runes, total
  <2> QED  BY DEF Acc
<1> HIDE DEF was
<1>8. CASE request.maxTokens = 0 \/ WithinBudget(total)
  <2>1. new = was  BY <1>5, <1>7, <1>8
  <2>2. Below(total)  BY <1>4, <1>8, RequestIs DEF Below
  <2>3. ASSUME Tally(a), ~was.localStop
        PROVE  was.outputRuneCount = Len(was.textBuf) + Len(was.thinkingBuf) + was.toolRunes
    <3>1. a.outputRuneCount = Len(a.textBuf) + Len(a.thinkingBuf) + a.toolRunes
      BY <1>7, <2>3 DEF Tally
    <3>2. Len(a.textBuf) \in Nat /\ Len(a.thinkingBuf) \in Nat  BY AccTexts
    <3> DEFINE i == Len(a.textBuf)
               j == Len(a.thinkingBuf)
               k == a.toolRunes
               o == a.outputRuneCount
    <3>3. i \in Nat /\ j \in Nat /\ k \in Nat /\ o = i + j + k  BY <1>1, <3>1, <3>2
    <3> HIDE DEF i, j, k, o, n
    <3>4. o + n = i + j + (k + n)  BY <1>1, <3>3
    <3> QED  BY <1>7, <3>4 DEF i, j, k, o
  <2> QED  BY <1>6, <1>7, <2>1, <2>2, <2>3 DEF Tally
<1>9. CASE ~(request.maxTokens = 0 \/ WithinBudget(total))
  <2>1. new = Stopped(was, "max_tokens")  BY <1>5, <1>7, <1>9
  <2>2. new \in Acc /\ new.localStop  BY <1>6, <2>1 DEF Acc, Stopped
  <2> QED  BY <2>2 DEF Tally
<1> QED  BY <1>8, <1>9

LEMMA EventsAreHeard ==
  ASSUME request \in Requests, NEW kind, NEW e \in Events(kind)
  PROVE  e \in Heard /\ e.kind = kind
<1>1. Sends[request].events \subseteq Heard
  <2>1. Sends[request] \in Bounds  BY RequestsAreTyped
  <2> QED  BY <2>1 DEF Bounds
<1> QED  BY <1>1 DEF Events

LEMMA MetadataKeeps ==
  ASSUME a \in Acc, NEW e \in Heard, e.kind = "metadata",
         NEW new, new = [a EXCEPT !.hasMetadata = TRUE, !.inputTokens = e.input,
                                  !.outputTokens = e.output, !.cacheTokens = e.cache]
  PROVE  new \in Acc /\ (Tally(a) => Tally(new))
<1>1. e.input \in Nat /\ e.output \in Nat /\ e.cache \in Nat  BY DEF Heard
<1>2. new \in Acc  BY <1>1 DEF Acc
<1>3. new.localStop = a.localStop /\ new.textBuf = a.textBuf
      /\ new.thinkingBuf = a.thinkingBuf /\ new.toolRunes = a.toolRunes
      /\ new.outputRuneCount = a.outputRuneCount
  BY DEF Acc
<1> QED  BY <1>2, <1>3 DEF Tally

LEMMA ContextUsageKeeps ==
  ASSUME a \in Acc, NEW e \in Heard, e.kind = "contextUsage",
         NEW new, new = [a EXCEPT !.hasContextUsage = TRUE,
                                  !.contextUsagePercentage = e.percent]
  PROVE  new \in Acc /\ (Tally(a) => Tally(new))
<1>1. e.percent \in Int  BY DEF Heard
<1>2. new \in Acc  BY <1>1 DEF Acc
<1>3. new.localStop = a.localStop /\ new.textBuf = a.textBuf
      /\ new.thinkingBuf = a.thinkingBuf /\ new.toolRunes = a.toolRunes
      /\ new.outputRuneCount = a.outputRuneCount
  BY DEF Acc
<1> QED  BY <1>2, <1>3 DEF Tally

LEMMA MeteringKeeps ==
  ASSUME a \in Acc, NEW e \in Heard, e.kind = "metering",
         NEW new, new = IF e.credits < 0 THEN Counted(e)
                        ELSE [Counted(e) EXCEPT !.hasCredits = TRUE, !.credits = e.credits]
  PROVE  new \in Acc /\ (Tally(a) => Tally(new))
<1> DEFINE Same(x) ==
             /\ x.localStop = a.localStop /\ x.textBuf = a.textBuf
             /\ x.thinkingBuf = a.thinkingBuf /\ x.toolRunes = a.toolRunes
             /\ x.outputRuneCount = a.outputRuneCount
           c == Counted(e)
<1>1. e.input \in Nat /\ e.output \in Nat /\ e.credits \in Nat \cup {-1}  BY DEF Heard
<1>2. c \in Acc /\ Same(c)
  <2>1. CASE a.hasMetadata
    <3>1. c = a  BY <2>1 DEF Counted
    <3> QED  BY <3>1
  <2>2. CASE ~a.hasMetadata
    <3>1. c = [a EXCEPT !.inputTokens = e.input, !.outputTokens = e.output]
      BY <2>2 DEF Counted
    <3> HIDE DEF c
    <3> QED  BY <1>1, <3>1 DEF Acc
  <2> QED  BY <2>1, <2>2
<1>3. CASE e.credits < 0
  <2>1. new = c  BY <1>3
  <2> QED  BY <1>2, <2>1 DEF Tally
<1>4. CASE ~(e.credits < 0)
  <2>1. new = [c EXCEPT !.hasCredits = TRUE, !.credits = e.credits]  BY <1>4
  <2>2. e.credits \in Nat  BY <1>1, <1>4
  <2> HIDE DEF c
  <2>3. new \in Acc /\ Same(new)  BY <1>2, <2>1, <2>2 DEF Acc
  <2> QED  BY <2>3 DEF Tally
<1> QED  BY <1>3, <1>4

----------------------------------------------------------------------------
(* The theorems.                                                           *)
AccIInv == AccTypeOK /\ Tally(a)

LEMMA AccInitHolds == AccInit => AccIInv
<1> SUFFICES ASSUME AccInit PROVE AccIInv  OBVIOUS
<1> USE DEF AccInit
<1>1. a \in Acc
  <2>1. <<>> \in Text /\ <<>> \in Thinking /\ <<>> \in Seq(ToolCall)
    BY DEF Text, Thinking
  <2>2. \A text \in Text, thinking \in Thinking, made \in Seq(ToolCall), no \in BOOLEAN :
          [ lastContent |-> text, lastThinking |-> thinking, textBuf |-> text,
            thinkingBuf |-> thinking, toolCalls |-> made, toolRunes |-> 0,
            hasMetadata |-> no, inputTokens |-> 0, outputTokens |-> 0, cacheTokens |-> 0,
            hasContextUsage |-> no, contextUsagePercentage |-> 0,
            hasCredits |-> no, credits |-> 0,
            localStop |-> no, stopReason |-> "", stopSequence |-> text,
            stopSeqPending |-> text, outputRuneCount |-> 0, thinkingTagInside |-> no,
            thinkingTagBuf |-> text, suppressReasoningContent |-> no ] \in Acc
    BY DEF Acc
  <2>3. newAccumulator \in Acc  BY <2>1, <2>2 DEF newAccumulator
  <2> QED  BY <2>3
<1>2. a.localStop = FALSE /\ a.outputRuneCount = 0 /\ a.textBuf = <<>>
      /\ a.thinkingBuf = <<>> /\ a.toolRunes = 0
  BY DEF newAccumulator
<1>3. request.maxTokens \in Nat /\ request \in Request
  <2>1. request \in Request  BY RequestsAreTyped
  <2> QED  BY <2>1 DEF Request
<1>4. Below(0)
  <2> SUFFICES ASSUME request.maxTokens # 0 PROVE 0 < RunesPerToken * request.maxTokens
    BY DEF Below
  <2>1. RunesPerToken \in Nat \ {0} /\ request.maxTokens \in Nat \ {0}
    BY <1>3, RunesPerTokenIsPositive
  <2>2. \A m, n \in Nat \ {0} : 0 < m * n
    <3> TAKE m, n \in Nat \ {0}
    <3>1. PICK k \in Nat : n = k + 1
      <4>1. n - 1 \in Nat /\ n = (n - 1) + 1  OBVIOUS
      <4> QED  BY <4>1
    <3>2. m * n = m * k + m /\ m * k \in Nat  BY <3>1
    <3> QED  BY <3>2
  <2> QED  BY <2>1, <2>2
<1>5. Tally(a)
  <2>1. a.outputRuneCount = Len(a.textBuf) + Len(a.thinkingBuf) + a.toolRunes
    <3>1. Len(a.textBuf) = 0 /\ Len(a.thinkingBuf) = 0  BY <1>2
    <3> QED  BY <1>2, <3>1
  <2> QED  BY <1>2, <1>4, <2>1 DEF Tally
<1>6. said \in Text /\ heard \in Seq(Heard)  BY DEF Text
<1> QED  BY <1>1, <1>5, <1>6 DEF AccIInv, AccTypeOK

LEMMA AccStepHolds == AccIInv /\ [AccNext]_accVars => AccIInv'
<1> SUFFICES ASSUME AccIInv, [AccNext]_accVars PROVE AccIInv'  OBVIOUS
<1>0. request \in Requests /\ request \in Request /\ said \in Text /\ heard \in Seq(Heard)
      /\ a \in Acc /\ stage \in {"open", "stopped", "finished"} /\ Tally(a)
  BY RequestsAreTyped DEF AccIInv, AccTypeOK
<1>1. SUFFICES /\ a' \in Acc /\ Tally(a') /\ request' = request
               /\ said' \in Text /\ heard' \in Seq(Heard)
               /\ stage' \in {"open", "stopped", "finished"}
  <2> SUFFICES ASSUME a' \in Acc, Tally(a'), request' = request, said' \in Text,
                      heard' \in Seq(Heard), stage' \in {"open", "stopped", "finished"}
               PROVE  AccIInv'
    OBVIOUS
  <2>1. Tally(a)'  BY DEF Tally, Below
  <2>2. AccTypeOK'  BY <1>0 DEF AccTypeOK
  <2> QED  BY <2>1, <2>2 DEF AccIInv
<1>2. \A e \in Heard : Hears(e) => /\ heard' \in Seq(Heard)
                                   /\ request' = request /\ said' = said
  BY <1>0 DEF Hears
<1>3. \A was : AfterEvent(was) => a' = was /\ stage' \in {"open", "stopped"}
  BY DEF AfterEvent
<1>4. CASE AssistantResponse
  <2>1. PICK chunk \in BoundedSeq(Char, Sends[request].text - Len(said)) :
          said' = said \o chunk /\ AfterEvent(AssistantContent(said'))
    BY <1>4 DEF AssistantResponse
  <2>2. chunk \in Seq(Char)  BY <2>1 DEF BoundedSeq, SeqOf
  <2>3. said' \in Text  BY <1>0, <2>1, <2>2 DEF Text
  <2>4. Keeps(a, a')  BY <1>0, <1>3, <2>1, <2>3, ContentKeeps
  <2>5. heard' = heard /\ request' = request  BY <1>4 DEF AssistantResponse
  <2> QED  BY <1>0, <1>3, <2>1, <2>3, <2>4, <2>5 DEF Keeps
<1>5. CASE ReasoningContent
  <2> DEFINE thinking == Append(a.lastThinking, Thought)
             seen == [a EXCEPT !.lastThinking = thinking]
             new  == IF a.suppressReasoningContent THEN a
                     ELSE IF a.localStop THEN seen
                     ELSE accumulateThinking(seen, ComputeDelta(thinking, a.lastThinking))
  <2>1. PICK e \in Events("reasoning") : Hears(e) /\ AfterEvent(new)
    BY <1>5 DEF ReasoningContent
  <2>2. e \in Heard  BY <1>0, EventsAreHeard
  <2>3. Keeps(a, new)  BY <1>0, ReasoningKeeps
  <2> HIDE DEF new
  <2> QED  BY <1>0, <1>2, <1>3, <2>1, <2>2, <2>3 DEF Keeps
<1>6. CASE ToolUse
  <2>1. PICK e \in Events("toolUse") :
          Hears(e) /\ AfterEvent(IF a.localStop \/ e.tool.name = request.dropTool THEN a
                                 ELSE Recorded(e.tool))
    BY <1>6 DEF ToolUse
  <2>2. e \in Heard /\ e.kind = "toolUse"  BY <1>0, EventsAreHeard
  <2>3. e.tool \in ToolCall  BY <2>2 DEF Heard
  <2>4. a' = a \/ a' = Recorded(e.tool)  BY <1>3, <2>1
  <2>5. a' \in Acc /\ Tally(a')  BY <1>0, <2>3, <2>4, ToolUseKeeps
  <2> QED  BY <1>0, <1>2, <1>3, <2>1, <2>2, <2>5
<1>7. CASE Metadata
  <2>1. PICK e \in Events("metadata") :
          Hears(e) /\ AfterEvent([a EXCEPT !.hasMetadata = TRUE, !.inputTokens = e.input,
                                           !.outputTokens = e.output,
                                           !.cacheTokens = e.cache])
    BY <1>7 DEF Metadata
  <2>2. e \in Heard /\ e.kind = "metadata"  BY <1>0, EventsAreHeard
  <2>3. a' \in Acc /\ Tally(a')  BY <1>0, <1>3, <2>1, <2>2, MetadataKeeps
  <2> QED  BY <1>0, <1>2, <1>3, <2>1, <2>2, <2>3
<1>8. CASE Metering
  <2>1. PICK e \in Events("metering") :
          Hears(e) /\ AfterEvent(IF e.credits < 0 THEN Counted(e)
                                 ELSE [Counted(e) EXCEPT !.hasCredits = TRUE,
                                                         !.credits = e.credits])
    BY <1>8 DEF Metering
  <2>2. e \in Heard /\ e.kind = "metering"  BY <1>0, EventsAreHeard
  <2>3. a' \in Acc /\ Tally(a')  BY <1>0, <1>3, <2>1, <2>2, MeteringKeeps
  <2> QED  BY <1>0, <1>2, <1>3, <2>1, <2>2, <2>3
<1>9. CASE ContextUsage
  <2>1. PICK e \in Events("contextUsage") :
          Hears(e) /\ AfterEvent([a EXCEPT !.hasContextUsage = TRUE,
                                           !.contextUsagePercentage = e.percent])
    BY <1>9 DEF ContextUsage
  <2>2. e \in Heard /\ e.kind = "contextUsage"  BY <1>0, EventsAreHeard
  <2>3. a' \in Acc /\ Tally(a')  BY <1>0, <1>3, <2>1, <2>2, ContextUsageKeeps
  <2> QED  BY <1>0, <1>2, <1>3, <2>1, <2>2, <2>3
<1>10. CASE FinalizeStream
  <2> DEFINE mid == finalizeThinkingTags(a)
  <2>1. a' = flushStopSeqPending(mid) /\ stage' = "finished"
        /\ request' = request /\ said' = said /\ heard' = heard
    BY <1>10 DEF FinalizeStream
  <2>2. Keeps(a, mid)  BY <1>0, FinalizeKeeps
  <2> HIDE DEF mid
  <2>3. mid \in Acc /\ Tally(mid)  BY <1>0, <2>2 DEF Keeps
  <2>4. Keeps(mid, a')  BY <1>0, <2>1, <2>3, FlushKeeps
  <2> QED  BY <1>0, <2>1, <2>3, <2>4 DEF Keeps
<1>11. CASE UNCHANGED accVars  BY <1>0, <1>11 DEF accVars
<1> QED  BY <1>4, <1>5, <1>6, <1>7, <1>8, <1>9, <1>10, <1>11 DEF AccNext

(* The inductive invariant: the accumulator is well typed, and has counted *)
(* what it delivered.                                                      *)
LEMMA AccInvariant == AccSpec => []AccIInv
BY AccInitHolds, AccStepHolds, PTL DEF AccSpec

(* Every event handler leaves the accumulator in the shape of the Go       *)
(* struct, whatever the overlap, the tag parser and the limits cut off.    *)
THEOREM AccTypeCorrect == AccSpec => []AccTypeOK
<1>1. AccIInv => AccTypeOK  BY DEF AccIInv
<1> QED  BY <1>1, AccInvariant, PTL

(* The text, the thinking and the tool inputs that were delivered are      *)
(* counted to the last rune until the accumulator stops, and are below     *)
(* max_tokens.                                                             *)
THEOREM BudgetAlwaysCounts == AccSpec => []BudgetCounts
<1>1. AccIInv => BudgetCounts  BY DEF AccIInv, Tally, Below, BudgetCounts
<1> QED  BY <1>1, AccInvariant, PTL

(* ComputeDelta finds by the failure function the shortest text that takes *)
(* the last text to the new one, for all texts that Kiro can have sent;    *)
(* but for a text that is an ending of the last one.                       *)
THEOREM DeltaIsAlwaysShortest == AccSpec => []DeltaIsShortest
<1>1. ASSUME AccTypeOK PROVE DeltaIsShortest
  <2> SUFFICES ASSUME NEW i \in 0..Len(said), NEW j \in 0..(Len(said) - 1)
               PROVE  LET previous == First(said, i)
                          chunk    == After(said, j)
                          delta    == ComputeDelta(chunk, previous)
                      IN  /\ ~IsStrictPrefix(chunk, previous) => EndsIn(previous \o delta, chunk)
                          /\ ~EndsIn(previous, chunk) =>
                               \A n \in 0..(Len(delta) - 1) :
                                 ~EndsIn(previous \o Ending(delta, n), chunk)
    BY DEF DeltaIsShortest
  <2> DEFINE previous == First(said, i)
             chunk    == After(said, j)
             delta    == ComputeDelta(chunk, previous)
  <2>1. said \in Seq(Char) /\ Len(said) \in Nat  BY <1>1 DEF AccTypeOK, Text
  <2>2. previous \in Seq(Char)  BY <2>1, FirstIs
  <2>3. chunk \in Seq(Char) /\ Len(chunk) = Len(said) - j
    <3>1. j \in 0..Len(said)  BY <2>1
    <3> QED  BY <2>1, <3>1, AfterIs
  <2>4. chunk # <<>>
    <3>1. Len(said) - j > 0  BY <2>1
    <3> QED  BY <2>3, <3>1
  <2> HIDE DEF previous, chunk
  <2>5. CASE ~IsStrictPrefix(chunk, previous)
    BY <2>2, <2>3, <2>4, <2>5, DeltaOfTexts DEF previous, chunk
  <2>6. CASE IsStrictPrefix(chunk, previous)
    <3>1. CASE previous # <<>> /\ ~IsPrefix(previous, chunk)
      <4>1. delta = <<>>  BY <2>6, <3>1 DEF ComputeDelta
      <4>2. \A n \in 0..(Len(delta) - 1) : FALSE
        <5>1. Len(delta) - 1 = -1  BY <4>1
        <5> QED  BY <5>1
      <4> QED  BY <2>6, <4>2 DEF previous, chunk
    <3>2. CASE previous = <<>> \/ IsPrefix(previous, chunk)
      <4>1. IsPrefix(chunk, previous) /\ chunk # previous  BY <2>6 DEF IsStrictPrefix
      <4>2. /\ Len(chunk) <= Len(previous)
            /\ SubSeq(chunk, 1, Len(chunk)) = SubSeq(previous, 1, Len(chunk))
        BY <4>1 DEF IsPrefix
      <4>3. Len(previous) <= Len(chunk)
        <5>1. previous = <<>> => Len(previous) = 0  OBVIOUS
        <5>2. IsPrefix(previous, chunk) => Len(previous) <= Len(chunk)  BY DEF IsPrefix
        <5> QED  BY <2>2, <2>3, <3>2, <5>1, <5>2
      <4>4. Len(chunk) = Len(previous)
        <5>1. Len(chunk) \in Nat /\ Len(previous) \in Nat  BY <2>2, <2>3
        <5> QED  BY <4>2, <4>3, <5>1
      <4>5. chunk = previous  BY <2>2, <2>3, <4>2, <4>4, SeqEqual
      <4> QED  BY <4>1, <4>5
    <3> QED  BY <3>1, <3>2
  <2> QED  BY <2>5, <2>6
<1> QED  BY <1>1, AccTypeCorrect, PTL

----------------------------------------------------------------------------
(* The rest is about what was said in a text.  First, how Split, the       *)
(* parser of a whole text, reads it character by character.                *)
Fresh == [in |-> FALSE, skip |-> 0, text |-> <<>>, thinking |-> <<>>]

Reads(f, s, k) == f = [n \in 0..k |-> IF n = 0 THEN Fresh ELSE Read(f[n - 1], s, n)]

(* What was read of s after n characters.                                  *)
ReadTo(s, n) == (CHOOSE f : Reads(f, s, Len(s)))[n]

LEMMA ReadsSteps ==
  ASSUME NEW f, NEW s, NEW k \in Nat, Reads(f, s, k)
  PROVE  /\ f[0] = Fresh
         /\ \A n \in 0..k : n + 1 \in 0..k => f[n + 1] = Read(f[n], s, n + 1)
<1> DEFINE g == [n \in 0..k |-> IF n = 0 THEN Fresh ELSE Read(f[n - 1], s, n)]
<1>1. f = g  BY DEF Reads
<1>2. g[0] = Fresh  OBVIOUS
<1>3. ASSUME NEW n \in 0..k, n + 1 \in 0..k PROVE g[n + 1] = Read(f[n], s, n + 1)
  <2>1. n + 1 # 0 /\ (n + 1) - 1 = n  OBVIOUS
  <2>2. g[n + 1] = Read(f[(n + 1) - 1], s, n + 1)  BY <1>3, <2>1
  <2> QED  BY <2>1, <2>2
<1> HIDE DEF g
<1> QED  BY <1>1, <1>2, <1>3

LEMMA ReadsExist ==
  ASSUME NEW s
  PROVE  \A k \in Nat : \E f : Reads(f, s, k)
<1> DEFINE T == {k \in Nat : \E f : Reads(f, s, k)}
<1>1. 0 \in T
  <2> DEFINE f == [n \in 0..0 |-> Fresh]
  <2>1. \A n \in 0..0 : n = 0  OBVIOUS
  <2>2. f = [n \in 0..0 |-> IF n = 0 THEN Fresh ELSE Read(f[n - 1], s, n)]  BY <2>1
  <2> HIDE DEF f
  <2>3. Reads(f, s, 0)  BY <2>2 DEF Reads
  <2> QED  BY <2>3
<1>2. ASSUME NEW k \in Nat, k \in T PROVE k + 1 \in T
  <2>1. PICK f : Reads(f, s, k)  BY <1>2
  <2>2. f[0] = Fresh /\ \A n \in 0..k : n + 1 \in 0..k => f[n + 1] = Read(f[n], s, n + 1)
    BY <2>1, ReadsSteps
  <2> DEFINE last == Read(f[k], s, k + 1)
             g == [n \in 0..(k + 1) |-> IF n = k + 1 THEN last ELSE f[n]]
  <2>3. g[k + 1] = last /\ \A n \in 0..k : g[n] = f[n]  OBVIOUS
  <2>4. g = [n \in 0..(k + 1) |-> g[n]]  OBVIOUS
  <2> HIDE DEF g
  <2>5. ASSUME NEW n \in 0..(k + 1)
        PROVE  g[n] = IF n = 0 THEN Fresh ELSE Read(g[n - 1], s, n)
    <3>1. CASE n = 0
      <4>1. n \in 0..k  BY <3>1
      <4> QED  BY <2>2, <2>3, <3>1, <4>1
    <3>2. CASE n # 0 /\ n # k + 1
      <4>1. n \in 0..k /\ n - 1 \in 0..k /\ (n - 1) + 1 = n  BY <3>2
      <4>2. f[n] = Read(f[n - 1], s, n)  BY <2>2, <4>1
      <4> QED  BY <2>3, <3>2, <4>1, <4>2
    <3>3. CASE n = k + 1
      <4>1. n # 0 /\ n - 1 = k /\ k \in 0..k  BY <3>3
      <4> QED  BY <2>3, <3>3, <4>1
    <3> QED  BY <3>1, <3>2, <3>3
  <2>6. Reads(g, s, k + 1)  BY <2>4, <2>5 DEF Reads
  <2> QED  BY <2>6
<1>3. Nat \subseteq T
  <2> HIDE DEF T
  <2> QED  BY <1>1, <1>2, Induction
<1> QED  BY <1>3

LEMMA ReadToUnfolds ==
  ASSUME NEW s \in Text
  PROVE  /\ ReadTo(s, 0) = Fresh
         /\ \A n \in 0..Len(s) : n + 1 <= Len(s) =>
              ReadTo(s, n + 1) = Read(ReadTo(s, n), s, n + 1)
         /\ Split(s) = ReadTo(s, Len(s))
<1> DEFINE h == CHOOSE f : Reads(f, s, Len(s))
<1>1. Len(s) \in Nat  BY DEF Text
<1>2. Reads(h, s, Len(s))  BY <1>1, ReadsExist
<1>3. Split(s) = h[Len(s)]
  <2> DEFINE U(f) == f = [n \in 0..Len(s) |-> IF n = 0 THEN
                            [in |-> FALSE, skip |-> 0, text |-> <<>>, thinking |-> <<>>]
                          ELSE Read(f[n - 1], s, n)]
  <2>1. Split(s) = (CHOOSE f : U(f))[Len(s)]  BY DEF Split
  <2>2. \A f : U(f) <=> Reads(f, s, Len(s))  BY DEF Reads, Fresh
  <2> HIDE DEF U
  <2>3. (CHOOSE f : U(f)) = h  BY <2>2
  <2> QED  BY <2>1, <2>3
<1>4. \A n : ReadTo(s, n) = h[n]  BY DEF ReadTo
<1> HIDE DEF h
<1>5. h[0] = Fresh
      /\ \A n \in 0..Len(s) : n + 1 \in 0..Len(s) => h[n + 1] = Read(h[n], s, n + 1)
  BY <1>1, <1>2, ReadsSteps
<1>6. \A n \in 0..Len(s) : n + 1 <= Len(s) => n + 1 \in 0..Len(s)  BY <1>1
<1> QED  BY <1>3, <1>4, <1>5, <1>6

(* Between two tags.                                                       *)
State(in, text, thinking) ==
  [in |-> in, skip |-> 0, text |-> text, thinking |-> thinking]

Tag(in) == IF in THEN CloseTag ELSE OpenTag

LEMMA TagIs ==
  ASSUME NEW in
  PROVE  Tag(in) \in Seq(Char) /\ Tag(in) # <<>> /\ Len(Tag(in)) \in Nat \ {0}
BY TagsAre DEF Tag

Reading == [in : BOOLEAN, skip : Nat, text : Text, thinking : Text]

LEMMA ReadType ==
  ASSUME NEW s \in Text
  PROVE  \A n \in 0..Len(s) : ReadTo(s, n) \in Reading
<1> DEFINE T == {n \in Nat : n <= Len(s) => ReadTo(s, n) \in Reading}
<1>0. s \in Seq(Char) /\ Len(s) \in Nat  BY DEF Text
<1>1. 0 \in T
  <2>1. <<>> \in Text  BY DEF Text
  <2>2. Fresh \in Reading  BY <2>1 DEF Fresh, Reading
  <2> QED  BY <2>2, ReadToUnfolds
<1>2. ASSUME NEW n \in Nat, n \in T PROVE n + 1 \in T
  <2> SUFFICES ASSUME n + 1 <= Len(s) PROVE ReadTo(s, n + 1) \in Reading  OBVIOUS
  <2> DEFINE p == ReadTo(s, n)
  <2>1. n \in 0..Len(s) /\ n + 1 \in 1..Len(s)  BY <1>0
  <2>2. p \in Reading  BY <1>2, <2>1
  <2>3. ReadTo(s, n + 1) = Read(p, s, n + 1)  BY <2>1, ReadToUnfolds
  <2> HIDE DEF p
  <2>4. s[n + 1] \in Char  BY <1>0, <2>1
  <2>5. Append(p.text, s[n + 1]) \in Text /\ Append(p.thinking, s[n + 1]) \in Text
    <3>1. p.text \in Seq(Char) /\ p.thinking \in Seq(Char)  BY <2>2 DEF Reading, Text
    <3>2. \A x \in Seq(Char), e \in Char : Append(x, e) \in Seq(Char)  OBVIOUS
    <3> QED  BY <2>4, <3>1, <3>2 DEF Text
  <2>6. CASE p.skip > 0
    <3>1. Read(p, s, n + 1) = [p EXCEPT !.skip = p.skip - 1]  BY <2>2, <2>6 DEF Read, Reading
    <3>2. p.skip - 1 \in Nat  BY <2>2, <2>6 DEF Reading
    <3> QED  BY <2>2, <2>3, <3>1, <3>2 DEF Reading
  <2>7. CASE ~(p.skip > 0)
    <3> DEFINE k == Len(Tag(p.in)) - 1
    <3>1. k \in Nat  BY TagIs
    <3> HIDE DEF k
    <3>2. Read(p, s, n + 1) \in { [p EXCEPT !.in = ~p.in, !.skip = k],
                                  [p EXCEPT !.thinking = Append(p.thinking, s[n + 1])],
                                  [p EXCEPT !.text = Append(p.text, s[n + 1])] }
      BY <2>2, <2>7 DEF Read, Reading, k, Tag
    <3> QED  BY <2>2, <2>3, <2>5, <3>1, <3>2 DEF Reading
  <2> QED  BY <2>6, <2>7
<1>3. Nat \subseteq T
  <2> HIDE DEF T
  <2> QED  BY <1>1, <1>2, Induction
<1> QED  BY <1>0, <1>3

LEMMA SplitInTwo ==
  ASSUME NEW X, NEW s \in Seq(X), NEW k \in Nat, NEW i \in Nat, k + i + 1 <= Len(s),
         NEW x \in Seq(X)
  PROVE  x \o SubSeq(s, k + 1, k + i + 1) = Append(x \o SubSeq(s, k + 1, k + i), s[k + i + 1])
<1> DEFINE y == SubSeq(s, k + 1, k + i)
           z == SubSeq(s, k + 1, k + i + 1)
           e == s[k + i + 1]
<1>1. /\ y \in Seq(X) /\ Len(y) = i /\ \A j \in 1..i : y[j] = s[k + j]
  OBVIOUS
<1>2. /\ z \in Seq(X) /\ Len(z) = i + 1 /\ \A j \in 1..(i + 1) : z[j] = s[k + j]
  OBVIOUS
<1>3. e \in X /\ z[i + 1] = e
  <2>1. k + i + 1 \in 1..Len(s) /\ i + 1 \in 1..(i + 1) /\ k + (i + 1) = k + i + 1  OBVIOUS
  <2> QED  BY <1>2, <2>1
<1> HIDE DEF y, z, e
<1>4. z = Append(y, e)
  <2>1. Append(y, e) \in Seq(X) /\ Len(Append(y, e)) = i + 1  BY <1>1, <1>3
  <2>2. ASSUME NEW j \in 1..(i + 1) PROVE z[j] = Append(y, e)[j]
    <3>1. CASE j = i + 1  BY <1>1, <1>3, <3>1
    <3>2. CASE j # i + 1
      <4>1. j \in 1..i  BY <3>2
      <4>2. Append(y, e)[j] = y[j]  BY <1>1, <1>3, <4>1
      <4>3. y[j] = s[k + j] /\ z[j] = s[k + j]  BY <1>1, <1>2, <4>1
      <4> QED  BY <4>2, <4>3
    <3> QED  BY <3>1, <3>2
  <2> QED  BY <1>2, <2>1, <2>2
<1>5. x \o Append(y, e) = Append(x \o y, e)  BY <1>1, <1>3
<1> QED  BY <1>4, <1>5 DEF y, z, e

(* Characters that belong to no tag.                                       *)
NoTagIn(s, k, m, tag) == \A j \in k..(k + m - 1) : ~Occurs(s, tag, j)

PlainTo(s, k, m, in, text, thinking) ==
  /\ in => ReadTo(s, k + m) = State(in, text, thinking \o SubSeq(s, k + 1, k + m))
  /\ ~in => ReadTo(s, k + m) = State(in, text \o SubSeq(s, k + 1, k + m), thinking)

LEMMA ReadPlain ==
  ASSUME NEW s \in Text, NEW k \in Nat, NEW in \in BOOLEAN, NEW text \in Text,
         NEW thinking \in Text, ReadTo(s, k) = State(in, text, thinking),
         NEW m \in Nat, k + m <= Len(s), NoTagIn(s, k, m, Tag(in))
  PROVE  PlainTo(s, k, m, in, text, thinking)
<1> DEFINE After2(i) == State(in, IF in THEN text ELSE text \o SubSeq(s, k + 1, k + i),
                          IF in THEN thinking \o SubSeq(s, k + 1, k + i) ELSE thinking)
           T == {i \in Nat : i <= m => ReadTo(s, k + i) = After2(i)}
<1>0. s \in Seq(Char) /\ Len(s) \in Nat /\ text \in Seq(Char) /\ thinking \in Seq(Char)
  BY DEF Text
<1>1. 0 \in T
  <2>1. k + 0 = k /\ SubSeq(s, k + 1, k) = <<>>  BY <1>0
  <2>2. text \o <<>> = text /\ thinking \o <<>> = thinking  BY <1>0
  <2>3. After2(0) = State(in, text, thinking)  BY <2>1, <2>2
  <2> HIDE DEF After2
  <2> QED  BY <2>1, <2>3
<1>2. ASSUME NEW i \in Nat, i \in T PROVE i + 1 \in T
  <2> SUFFICES ASSUME i + 1 <= m PROVE ReadTo(s, k + (i + 1)) = After2(i + 1)  OBVIOUS
  <2> DEFINE n == k + i
             p == After2(i)
             tag == Tag(in)
             e == s[n + 1]
  <2>1. n \in 0..Len(s) /\ n + 1 <= Len(s) /\ n \in k..(k + m - 1) /\ k + (i + 1) = n + 1
        /\ i <= m
    BY <1>0
  <2>2. ReadTo(s, n) = p  BY <1>2, <2>1
  <2>3. ReadTo(s, k + (i + 1)) = Read(p, s, n + 1)  BY <2>1, <2>2, ReadToUnfolds
  <2>4. ~((n + 1) + Len(tag) - 1 <= Len(s) /\ SubSeq(s, n + 1, (n + 1) + Len(tag) - 1) = tag)
    <3>1. ~Occurs(s, tag, n)  BY <2>1 DEF NoTagIn
    <3>2. Len(tag) \in Nat \ {0}  BY TagIs
    <3> HIDE DEF tag, n
    <3>3. (n + 1) + Len(tag) - 1 = n + Len(tag)  BY <2>1, <3>2
    <3>4. n + Len(tag) <= Len(s) => n \in 0..(Len(s) - Len(tag))  BY <1>0, <2>1, <3>2
    <3> QED  BY <3>1, <3>3, <3>4 DEF Occurs
  <2>5. SubSeq(s, k + 1, k + (i + 1)) = SubSeq(s, k + 1, k + i + 1)  BY <2>1
  <2>6. /\ text \o SubSeq(s, k + 1, k + (i + 1)) = Append(text \o SubSeq(s, k + 1, k + i), e)
        /\ thinking \o SubSeq(s, k + 1, k + (i + 1))
             = Append(thinking \o SubSeq(s, k + 1, k + i), e)
    <3>1. k + i + 1 <= Len(s)  BY <2>1
    <3>2. \A x \in Seq(Char) : x \o SubSeq(s, k + 1, k + i + 1)
                                = Append(x \o SubSeq(s, k + 1, k + i), s[k + i + 1])
      BY <1>0, <3>1, SplitInTwo
    <3> QED  BY <1>0, <2>5, <3>2
  <2>7. p.skip = 0 /\ p.in = in  BY DEF State
  <2>8. Read(p, s, n + 1) = IF in THEN [p EXCEPT !.thinking = Append(@, e)]
                            ELSE [p EXCEPT !.text = Append(@, e)]
    <3> HIDE DEF p, n, e
    <3>1. ~(p.skip > 0) /\ (IF p.in THEN CloseTag ELSE OpenTag) = tag  BY <2>7 DEF Tag
    <3> HIDE DEF tag
    <3> QED  BY <2>4, <2>7, <3>1 DEF Read, e
  <2>9. (IF in THEN [p EXCEPT !.thinking = Append(@, e)] ELSE [p EXCEPT !.text = Append(@, e)])
          = After2(i + 1)
    <3> HIDE DEF e, n
    <3>1. CASE in  BY <2>6, <3>1 DEF State
    <3>2. CASE ~in  BY <2>6, <3>2 DEF State
    <3> QED  BY <3>1, <3>2
  <2> QED  BY <2>3, <2>8, <2>9
<1>3. Nat \subseteq T
  <2> HIDE DEF T
  <2> QED  BY <1>1, <1>2, Induction
<1>4. m \in T /\ m <= m  BY <1>3
<1> QED  BY <1>4 DEF PlainTo

(* The characters of a tag.                                                *)
LEMMA ReadTag ==
  ASSUME NEW s \in Text, NEW k \in Nat, NEW in, NEW text, NEW thinking,
         ReadTo(s, k) = State(in, text, thinking), Occurs(s, Tag(in), k)
  PROVE  ReadTo(s, k + Len(Tag(in))) = State(~in, text, thinking)
<1> DEFINE n == Len(Tag(in))
           Within(i) == [in |-> ~in, skip |-> n - i, text |-> text, thinking |-> thinking]
           T == {i \in Nat : i + 1 <= n => ReadTo(s, k + (i + 1)) = Within(i + 1)}
<1>0. s \in Seq(Char) /\ Len(s) \in Nat /\ n \in Nat \ {0}  BY TagIs DEF Text
<1>1. k + n <= Len(s) /\ SubSeq(s, k + 1, k + n) = Tag(in)
  <2>1. k \in 0..(Len(s) - n) /\ SubSeq(s, k + 1, k + n) = Tag(in)  BY DEF Occurs
  <2> HIDE DEF n
  <2> QED  BY <1>0, <2>1
<1> HIDE DEF n
<1>2. 0 \in T
  <2> DEFINE p == State(in, text, thinking)
  <2>1. k \in 0..Len(s) /\ k + 1 <= Len(s) /\ k + (0 + 1) = k + 1 /\ (k + 1) + n - 1 = k + n
    BY <1>0, <1>1
  <2>2. ReadTo(s, k + 1) = Read(p, s, k + 1)  BY <2>1, ReadToUnfolds
  <2>3. p.skip = 0 /\ p.in = in  BY DEF State
  <2>4. Read(p, s, k + 1) = [p EXCEPT !.in = ~p.in, !.skip = n - 1]
    <3> HIDE DEF p
    <3>1. ~(p.skip > 0) /\ (IF p.in THEN CloseTag ELSE OpenTag) = Tag(in)  BY <2>3 DEF Tag
    <3> QED  BY <1>1, <2>1, <2>3, <3>1 DEF Read, n
  <2>5. [p EXCEPT !.in = ~p.in, !.skip = n - 1] = Within(0 + 1)
    <3>1. n - 1 = n - (0 + 1)  BY <1>0
    <3> DEFINE turned == ~in
               one == n - 1
    <3> HIDE DEF turned, one
    <3> DEFINE q == [in |-> turned, skip |-> 0, text |-> text, thinking |-> thinking]
    <3>2. [p EXCEPT !.in = turned] = q  BY DEF State
    <3>3. [q EXCEPT !.skip = one]
            = [in |-> turned, skip |-> one, text |-> text, thinking |-> thinking]
      OBVIOUS
    <3> HIDE DEF p
    <3>4. [p EXCEPT !.in = turned, !.skip = one] = [[p EXCEPT !.in = turned] EXCEPT !.skip = one]
      OBVIOUS
    <3>5. [p EXCEPT !.in = turned, !.skip = one]
            = [in |-> turned, skip |-> one, text |-> text, thinking |-> thinking]
      BY <3>2, <3>3, <3>4
    <3> HIDE DEF q
    <3> QED  BY <2>3, <3>1, <3>5, Zenon DEF turned, one
  <2> QED  BY <2>1, <2>2, <2>4, <2>5
<1>3. ASSUME NEW i \in Nat, i \in T PROVE i + 1 \in T
  <2> SUFFICES ASSUME (i + 1) + 1 <= n
               PROVE  ReadTo(s, k + ((i + 1) + 1)) = Within((i + 1) + 1)
    OBVIOUS
  <2> DEFINE m == k + (i + 1)
             p == Within(i + 1)
  <2>1. i + 1 <= n /\ m \in 0..Len(s) /\ m + 1 <= Len(s) /\ k + ((i + 1) + 1) = m + 1
        /\ n - (i + 1) > 0 /\ (n - (i + 1)) - 1 = n - ((i + 1) + 1)
    BY <1>0, <1>1
  <2>2. ReadTo(s, m) = p  BY <1>3, <2>1
  <2>3. ReadTo(s, m + 1) = Read(p, s, m + 1)  BY <2>1, <2>2, ReadToUnfolds
  <2>4. Read(p, s, m + 1) = [p EXCEPT !.skip = p.skip - 1]  BY <2>1 DEF Read
  <2>5. [p EXCEPT !.skip = p.skip - 1] = Within((i + 1) + 1)  BY <2>1
  <2> QED  BY <2>1, <2>3, <2>4, <2>5
<1>4. Nat \subseteq T
  <2> HIDE DEF T
  <2> QED  BY <1>2, <1>3, Induction
<1>5. (n - 1) \in Nat /\ (n - 1) + 1 = n /\ n - n = 0  BY <1>0
<1>6. (n - 1) \in T  BY <1>4, <1>5
<1>7. ReadTo(s, k + n) = Within(n)  BY <1>5, <1>6
<1>8. Within(n) = State(~in, text, thinking)  BY <1>5 DEF State
<1> QED  BY <1>7, <1>8 DEF n

LEMMA OccursIs ==
  ASSUME NEW X, NEW s \in Seq(X), NEW t \in Seq(X), NEW i \in Int
  PROVE  Occurs(s, t, i) <=> /\ i \in 0..(Len(s) - Len(t))
                             /\ \A m \in 1..Len(t) : s[i + m] = t[m]
<1>1. CASE ~(i \in 0..(Len(s) - Len(t)))  BY <1>1 DEF Occurs
<1>2. CASE i \in 0..(Len(s) - Len(t))
  <2> DEFINE y == SubSeq(s, i + 1, i + Len(t))
  <2>1. Len(s) \in Nat /\ Len(t) \in Nat /\ i \in Nat /\ i + Len(t) <= Len(s)  BY <1>2
  <2>2. y \in Seq(X) /\ Len(y) = Len(t) /\ \A m \in 1..Len(t) : y[m] = s[i + m]
    BY <2>1
  <2> HIDE DEF y
  <2>3. y = t <=> \A m \in 1..Len(t) : y[m] = t[m]
    <3>1. (\A m \in 1..Len(t) : y[m] = t[m]) => y = t  BY <2>1, <2>2, SeqEqual
    <3> QED  BY <3>1
  <2>4. (\A m \in 1..Len(t) : y[m] = t[m]) <=> \A m \in 1..Len(t) : s[i + m] = t[m]
    BY <2>2
  <2> QED  BY <1>2, <2>3, <2>4 DEF Occurs, y
<1> QED  BY <1>1, <1>2

(* What one turn of parseThinkingTags makes of what is buffered.           *)
Taken(p) == IF Index(p.buf, Tag(p.in)) >= 0 THEN Index(p.buf, Tag(p.in))
            ELSE Len(p.buf) - partialTagSuffix(p.buf, Tag(p.in))

LEMMA TurnIs ==
  ASSUME NEW p \in Parse
  PROVE  /\ Turn(p).in = IF Index(p.buf, Tag(p.in)) >= 0 THEN ~p.in ELSE p.in
         /\ Turn(p).buf = After(p.buf, IF Index(p.buf, Tag(p.in)) >= 0
                                       THEN Taken(p) + Len(Tag(p.in)) ELSE Taken(p))
         /\ Turn(p).text = IF p.in THEN p.text ELSE p.text \o First(p.buf, Taken(p))
         /\ Turn(p).thinking = IF p.in THEN p.thinking \o First(p.buf, Taken(p)) ELSE p.thinking
<1> DEFINE at == Index(p.buf, Tag(p.in))
<1>1. CASE at >= 0  BY <1>1 DEF Turn, Parse, Taken, Tag
<1>2. CASE ~(at >= 0)  BY <1>2 DEF Turn, Parse, Taken, Tag
<1> QED  BY <1>1, <1>2

(* A turn takes characters up to a tag, or all that cannot belong to one.  *)
LEMMA TakenIs ==
  ASSUME NEW p \in Parse
  PROVE  LET tag == Tag(p.in)
             at  == Index(p.buf, tag)
             n   == Taken(p)
         IN  /\ n \in 0..Len(p.buf)
             /\ \/ at >= 0 /\ n = at /\ Occurs(p.buf, tag, n) /\ n + Len(tag) <= Len(p.buf)
                \/ ~(at >= 0) /\ Len(p.buf) - n < Len(tag)
             /\ \A d \in 0..(n - 1) :
                  /\ ~Occurs(p.buf, tag, d)
                  /\ \/ d + Len(tag) <= Len(p.buf)
                     \/ \E m \in 1..(Len(p.buf) - d) : p.buf[d + m] # tag[m]
<1> DEFINE tag == Tag(p.in)
           buf == p.buf
           at  == Index(buf, tag)
           n   == Taken(p)
<1>1. buf \in Seq(Char) /\ Len(buf) \in Nat  BY DEF Parse, Text
<1>2. tag \in Seq(Char) /\ tag # <<>> /\ Len(tag) \in Nat \ {0}  BY TagIs
<1>3. n = IF at >= 0 THEN at ELSE Len(buf) - partialTagSuffix(buf, tag)  BY DEF Taken
<1> HIDE DEF tag, buf
<1>4. \/ at = -1 /\ \A j : ~Occurs(buf, tag, j)
      \/ at # -1 /\ Occurs(buf, tag, at) /\ at \in Nat /\ \A j : Occurs(buf, tag, j) => at <= j
  BY <1>1, <1>2, IndexFinds
<1> HIDE DEF at, n
<1>5. CASE at >= 0
  <2>1. n = at /\ n \in Nat /\ Occurs(buf, tag, n)  BY <1>3, <1>4, <1>5
  <2>2. n \in 0..(Len(buf) - Len(tag))  BY <2>1 DEF Occurs
  <2>3. n + Len(tag) <= Len(buf) /\ n \in 0..Len(buf)  BY <1>1, <1>2, <2>1, <2>2
  <2>4. ASSUME NEW d \in 0..(n - 1)
        PROVE  ~Occurs(buf, tag, d) /\ d + Len(tag) <= Len(buf)
    <3>1. ~(at <= d) /\ d + Len(tag) <= Len(buf)  BY <1>1, <1>2, <2>1, <2>3
    <3> QED  BY <1>4, <1>5, <3>1
  <2> QED  BY <1>5, <2>1, <2>3, <2>4 DEF tag, buf, at, n
<1>6. CASE ~(at >= 0)
  <2> DEFINE k == partialTagSuffix(buf, tag)
  <2>1. /\ k \in 0..(Len(tag) - 1) /\ k <= Len(buf)
        /\ \A j \in 0..(Len(tag) - 1) :
             j <= Len(buf) /\ Ending(buf, j) = First(tag, j) => j <= k
    BY <1>1, <1>2, PartialTag
  <2>2. n = Len(buf) - k  BY <1>3, <1>6
  <2> HIDE DEF k
  <2>3. n \in 0..Len(buf) /\ Len(buf) - n < Len(tag)  BY <1>1, <1>2, <2>1, <2>2
  <2>4. \A j : ~Occurs(buf, tag, j)  BY <1>4, <1>6
  <2>5. ASSUME NEW d \in 0..(n - 1), ~(d + Len(tag) <= Len(buf))
        PROVE  \E m \in 1..(Len(buf) - d) : buf[d + m] # tag[m]
    <3> SUFFICES ASSUME \A m \in 1..(Len(buf) - d) : buf[d + m] = tag[m] PROVE FALSE
      OBVIOUS
    <3> DEFINE j == Len(buf) - d
    <3>1. /\ j \in 0..(Len(tag) - 1) /\ j \in 0..Len(buf) /\ j \in 0..Len(tag)
          /\ j <= Len(buf) /\ Len(buf) - j = d /\ ~(j <= k)
      BY <1>1, <1>2, <2>1, <2>2, <2>3, <2>5
    <3>2. \A m \in 1..j : buf[d + m] = tag[m]  OBVIOUS
    <3> HIDE DEF j
    <3>3. Ending(buf, j) \in Seq(Char) /\ Len(Ending(buf, j)) = j
          /\ \A m \in 1..j : Ending(buf, j)[m] = buf[d + m]
      BY <1>1, <3>1, EndingIs
    <3>4. First(tag, j) \in Seq(Char) /\ Len(First(tag, j)) = j
          /\ \A m \in 1..j : First(tag, j)[m] = tag[m]
      BY <1>2, <3>1, FirstIs
    <3>5. Ending(buf, j) = First(tag, j)
      <4> DEFINE x == Ending(buf, j)
                 y == First(tag, j)
      <4>1. \A m \in 1..j : x[m] = y[m]  BY <3>2, <3>3, <3>4
      <4> HIDE DEF x, y
      <4> QED  BY <3>3, <3>4, <4>1 DEF x, y
    <3> QED  BY <2>1, <3>1, <3>5
  <2> QED  BY <1>6, <2>3, <2>4, <2>5 DEF tag, buf, at, n
<1> QED  BY <1>5, <1>6

LEMMA PieceIs ==
  ASSUME NEW X, NEW s \in Seq(X), NEW k \in Nat, NEW n \in Nat, k + n <= Len(s)
  PROVE  /\ SubSeq(s, k + 1, k + n) \in Seq(X) /\ Len(SubSeq(s, k + 1, k + n)) = n
         /\ \A t \in 1..n : SubSeq(s, k + 1, k + n)[t] = s[k + t]
OBVIOUS

LEMMA TextsAssociate ==
  \A x, y, z \in Seq(Char) : x \o (y \o z) = (x \o y) \o z /\ x \o y \in Seq(Char)
BY ConcatAssociative

(* What the tag parser has made of s: it has read all but what it holds    *)
(* back, and whatever follows will not change what was read.               *)
Parsed(s, buf, in, text, thinking) ==
  /\ Len(buf) <= Len(s)
  /\ \A t \in 1..Len(buf) : s[Len(s) - Len(buf) + t] = buf[t]
  /\ \A c \in Text : ReadTo(s \o c, Len(s) - Len(buf)) = State(in, text, thinking)

LEMMA Followed ==
  ASSUME NEW s \in Text, NEW c \in Text
  PROVE  /\ s \o c \in Text /\ s \o c \in Seq(Char)
         /\ Len(s \o c) = Len(s) + Len(c) /\ Len(s) \in Nat /\ Len(c) \in Nat
         /\ \A i \in 1..Len(s) : (s \o c)[i] = s[i]
<1>1. s \in Seq(Char) /\ c \in Seq(Char)  BY DEF Text
<1>2. s \o c \in Seq(Char) /\ Len(s \o c) = Len(s) + Len(c)
      /\ Len(s) \in Nat /\ Len(c) \in Nat
  BY <1>1
<1>3. \A i \in 1..Len(s) : (s \o c)[i] = s[i]  BY <1>1
<1> QED  BY <1>2, <1>3 DEF Text

(* No tag begins in what a turn takes.                                     *)
LEMMA NoTagTaken ==
  ASSUME NEW p \in Parse, NEW z \in Seq(Char), NEW k \in Nat, k + Len(p.buf) <= Len(z),
         \A t \in 1..Len(p.buf) : z[k + t] = p.buf[t],
         NEW j \in k..(k + Taken(p) - 1)
  PROVE  ~Occurs(z, Tag(p.in), j)
<1> DEFINE tag == Tag(p.in)
           buf == p.buf
           n   == Taken(p)
           d   == j - k
<1>1. buf \in Seq(Char) /\ Len(buf) \in Nat  BY DEF Parse, Text
<1>2. tag \in Seq(Char) /\ Len(tag) \in Nat \ {0}  BY TagIs
<1>3. n \in 0..Len(buf)
      /\ \A e \in 0..(n - 1) : /\ ~Occurs(buf, tag, e)
                               /\ \/ e + Len(tag) <= Len(buf)
                                  \/ \E m \in 1..(Len(buf) - e) : buf[e + m] # tag[m]
  BY TakenIs
<1>4. d \in 0..(n - 1) /\ d \in Nat /\ j = k + d /\ d \in Int
  <2> HIDE DEF n
  <2>1. j \in k..(k + n - 1)  BY DEF n
  <2> QED  BY <1>1, <1>3, <2>1
<1>5. /\ ~Occurs(buf, tag, d)
      /\ \/ d + Len(tag) <= Len(buf)
         \/ \E m \in 1..(Len(buf) - d) : buf[d + m] # tag[m]
  <2> HIDE DEF n, d, tag, buf
  <2> QED  BY <1>3, <1>4
<1>6. \A t \in 1..Len(buf) : z[k + t] = buf[t]  OBVIOUS
<1> SUFFICES ASSUME Occurs(z, tag, j) PROVE FALSE  OBVIOUS
<1> HIDE DEF tag, buf, n, d
<1>7. j \in 0..(Len(z) - Len(tag)) /\ \A m \in 1..Len(tag) : z[j + m] = tag[m]
  BY <1>2, <1>4, OccursIs
<1>8. ASSUME NEW m \in 1..Len(tag), d + m <= Len(buf) PROVE buf[d + m] = tag[m]
  <2>1. d + m \in 1..Len(buf) /\ k + (d + m) = j + m  BY <1>1, <1>2, <1>4, <1>8
  <2>2. z[k + (d + m)] = buf[d + m]  BY <1>6, <2>1
  <2> QED  BY <1>7, <2>1, <2>2
<1>9. CASE d + Len(tag) <= Len(buf)
  <2>1. d \in 0..(Len(buf) - Len(tag))  BY <1>1, <1>2, <1>4, <1>9
  <2>2. \A m \in 1..Len(tag) : d + m <= Len(buf)  BY <1>1, <1>2, <1>4, <1>9
  <2>3. Occurs(buf, tag, d)  BY <1>1, <1>2, <1>4, <1>8, <2>1, <2>2, OccursIs
  <2> QED  BY <1>5, <2>3
<1>10. CASE ~(d + Len(tag) <= Len(buf))
  <2>1. PICK m \in 1..(Len(buf) - d) : buf[d + m] # tag[m]  BY <1>5, <1>10
  <2>2. m \in 1..Len(tag) /\ d + m <= Len(buf)  BY <1>1, <1>2, <1>4, <1>10
  <2> QED  BY <1>8, <2>1, <2>2
<1> QED  BY <1>9, <1>10

(* What is held back is no more than the beginning of a tag.               *)
Settled(p) == Len(p.buf) < Len(Tag(p.in))

LEMMA TurnReads ==
  ASSUME NEW s \in Text, NEW p \in Parse, NEW T \in Text, NEW H \in Text,
         Parsed(s, p.buf, p.in, T \o p.text, H \o p.thinking)
  PROVE  /\ Parsed(s, Turn(p).buf, Turn(p).in, T \o Turn(p).text, H \o Turn(p).thinking)
         /\ \/ Settled(Turn(p))
            \/ Len(Turn(p).buf) < Len(p.buf) /\ ~Settled(p)
<1> DEFINE tag == Tag(p.in)
           buf == p.buf
           found == Index(buf, tag) >= 0
           n   == Taken(p)
           m   == IF found THEN n + Len(tag) ELSE n
           k   == Len(s) - Len(buf)
           out == First(buf, n)
           text == T \o p.text
           thinking == H \o p.thinking
           rest == After(buf, m)
<1>1. /\ buf \in Seq(Char) /\ Len(buf) \in Nat /\ p.in \in BOOLEAN
      /\ p.text \in Seq(Char) /\ p.thinking \in Seq(Char)
      /\ T \in Seq(Char) /\ H \in Seq(Char) /\ s \in Seq(Char) /\ Len(s) \in Nat
  BY DEF Parse, Text
<1>2. tag \in Seq(Char) /\ tag # <<>> /\ Len(tag) \in Nat \ {0}  BY TagIs
<1>3. /\ n \in 0..Len(buf)
      /\ \/ found /\ Occurs(buf, tag, n) /\ n + Len(tag) <= Len(buf)
         \/ ~found /\ Len(buf) - n < Len(tag)
  BY TakenIs
<1>4. /\ Turn(p).in = IF found THEN ~p.in ELSE p.in
      /\ Turn(p).buf = rest
      /\ Turn(p).text = IF p.in THEN p.text ELSE p.text \o out
      /\ Turn(p).thinking = IF p.in THEN p.thinking \o out ELSE p.thinking
  BY TurnIs
<1>5. /\ Len(buf) <= Len(s) /\ \A t \in 1..Len(buf) : s[k + t] = buf[t]
      /\ \A c \in Text : ReadTo(s \o c, k) = State(p.in, text, thinking)
  BY DEF Parsed
<1>6. text \in Text /\ thinking \in Text
  <2> HIDE DEF tag, buf, n
  <2>1. text \in Seq(Char) /\ thinking \in Seq(Char)  BY <1>1
  <2> QED  BY <2>1 DEF Text
<1> HIDE DEF tag, buf, found, n, text, thinking
<1>7. k \in Nat /\ k + Len(buf) = Len(s) /\ m \in 0..Len(buf)  BY <1>1, <1>2, <1>3, <1>5
<1>8. out \in Seq(Char) /\ Len(out) = n /\ \A t \in 1..n : out[t] = buf[t]
  BY <1>1, <1>3, FirstIs
<1>9. rest \in Seq(Char) /\ Len(rest) = Len(buf) - m
      /\ \A t \in 1..(Len(buf) - m) : rest[t] = buf[m + t]
  BY <1>1, <1>7, AfterIs
<1> HIDE DEF k, out, rest
<1>10. ASSUME NEW c \in Text
       PROVE  ReadTo(s \o c, k + m)
                = State(Turn(p).in, IF p.in THEN text ELSE text \o out,
                        IF p.in THEN thinking \o out ELSE thinking)
  <2> DEFINE z == s \o c
  <2>1. z \in Text /\ z \in Seq(Char) /\ Len(z) = Len(s) + Len(c) /\ Len(c) \in Nat
        /\ \A i \in 1..Len(s) : z[i] = s[i]
    BY Followed
  <2>2. ReadTo(z, k) = State(p.in, text, thinking)  BY <1>5
  <2> HIDE DEF z
  <2>3. k + Len(buf) <= Len(z) /\ k + n <= Len(z) /\ n \in Nat
    BY <1>1, <1>3, <1>7, <2>1
  <2>4. \A t \in 1..Len(buf) : z[k + t] = buf[t]
    <3>1. \A t \in 1..Len(buf) : k + t \in 1..Len(s)  BY <1>1, <1>7
    <3> QED  BY <1>5, <2>1, <3>1 DEF k
  <2>5. NoTagIn(z, k, n, tag)
    BY <1>7, <2>1, <2>3, <2>4, NoTagTaken DEF tag, buf, n, NoTagIn
  <2>6. SubSeq(z, k + 1, k + n) = out
    <3> DEFINE y == SubSeq(z, k + 1, k + n)
    <3>1. y \in Seq(Char) /\ Len(y) = n /\ \A t \in 1..n : y[t] = z[k + t]
      BY <1>7, <2>1, <2>3, PieceIs
    <3>2. \A t \in 1..n : y[t] = out[t]
      <4>1. \A t \in 1..n : t \in 1..Len(buf)  BY <1>1, <1>3
      <4> QED  BY <1>8, <2>4, <3>1, <4>1
    <3> HIDE DEF y
    <3>3. y = out  BY <1>8, <3>1, <3>2, SeqEqual
    <3> QED  BY <3>3 DEF y
  <2> DEFINE newText == IF p.in THEN text ELSE text \o out
             newThinking == IF p.in THEN thinking \o out ELSE thinking
  <2>7. ReadTo(z, k + n) = State(p.in, newText, newThinking)
    <3>1. /\ p.in => ReadTo(z, k + n) = State(p.in, text, thinking \o SubSeq(z, k + 1, k + n))
          /\ ~p.in => ReadTo(z, k + n) = State(p.in, text \o SubSeq(z, k + 1, k + n), thinking)
      <4>1. z \in Text /\ k \in Nat /\ n \in Nat  BY <1>7, <2>1, <2>3
      <4>2. k + n <= Len(z)  BY <2>3
      <4>3. text \in Text /\ thinking \in Text  BY <1>6
      <4>4. NoTagIn(z, k, n, Tag(p.in))  BY <2>5 DEF tag
      <4>5. p.in \in BOOLEAN  BY <1>1
      <4>6. PlainTo(z, k, n, p.in, text, thinking)
        BY <2>2, <4>1, <4>2, <4>3, <4>4, <4>5, ReadPlain
      <4> QED  BY <4>6 DEF PlainTo
    <3> QED  BY <2>6, <3>1
  <2> HIDE DEF newText, newThinking
  <2>8. CASE found
    <3>1. \A t \in 1..Len(tag) : buf[n + t] = tag[t]
      <4>1. n \in Int  BY <1>1, <1>3
      <4> QED  BY <1>1, <1>2, <1>3, <2>8, <4>1, OccursIs
    <3>2. Occurs(z, tag, k + n)
      <4>1. k + n \in 0..(Len(z) - Len(tag)) /\ k + n \in Int
        BY <1>1, <1>2, <1>3, <1>7, <2>1, <2>8
      <4>2. ASSUME NEW t \in 1..Len(tag) PROVE z[(k + n) + t] = tag[t]
        <5>1. n + t \in 1..Len(buf) /\ (k + n) + t = k + (n + t)
          BY <1>1, <1>2, <1>3, <1>7, <2>8
        <5> QED  BY <2>4, <3>1, <5>1
      <4> QED  BY <1>2, <2>1, <4>1, <4>2, OccursIs
    <3>3. k + n \in Nat  BY <1>7, <2>3
    <3>4. ReadTo(z, (k + n) + Len(tag)) = State(~p.in, newText, newThinking)
      BY <2>1, <2>7, <3>2, <3>3, ReadTag DEF tag
    <3>5. (k + n) + Len(tag) = k + m  BY <1>2, <1>7, <2>3, <2>8
    <3>6. Turn(p).in = ~p.in  BY <1>4, <2>8
    <3> HIDE DEF m
    <3> QED  BY <3>4, <3>5, <3>6 DEF z, newText, newThinking
  <2>9. CASE ~found
    <3>1. k + n = k + m /\ Turn(p).in = p.in  BY <1>4, <2>9
    <3> HIDE DEF m
    <3> QED  BY <2>7, <3>1 DEF z, newText, newThinking
  <2> QED  BY <2>8, <2>9
<1>11. /\ T \o Turn(p).text = IF p.in THEN text ELSE text \o out
       /\ H \o Turn(p).thinking = IF p.in THEN thinking \o out ELSE thinking
  <2>a. out \in Seq(Char)  BY <1>8
  <2>b. p.text \in Seq(Char)  BY <1>1
  <2>c. T \in Seq(Char)  BY <1>1
  <2>d. p.thinking \in Seq(Char)  BY <1>1
  <2>e. H \in Seq(Char)  BY <1>1
  <2>1. T \o (p.text \o out) = (T \o p.text) \o out
    BY <2>a, <2>b, <2>c, TextsAssociate, Zenon
  <2>2. H \o (p.thinking \o out) = (H \o p.thinking) \o out
    BY <2>a, <2>d, <2>e, TextsAssociate, Zenon
  <2> QED  BY <1>4, <2>1, <2>2 DEF text, thinking
<1> HIDE DEF m
<1>12. Len(rest) <= Len(s) /\ Len(s) - Len(rest) = k + m
  BY <1>1, <1>7, <1>9
<1>13. \A t \in 1..Len(rest) : s[(k + m) + t] = rest[t]
  <2> TAKE t \in 1..Len(rest)
  <2>1. m + t \in 1..Len(buf) /\ (k + m) + t = k + (m + t) /\ t \in 1..(Len(buf) - m)
    BY <1>1, <1>7, <1>9
  <2>2. s[k + (m + t)] = buf[m + t]  BY <1>5, <2>1 DEF k
  <2> QED  BY <1>9, <2>1, <2>2
<1>14. Parsed(s, Turn(p).buf, Turn(p).in, T \o Turn(p).text, H \o Turn(p).thinking)
  BY <1>4, <1>10, <1>11, <1>12, <1>13 DEF Parsed
<1>15. \/ Len(rest) < Len(Tag(Turn(p).in))
       \/ Len(rest) < Len(buf) /\ ~(Len(buf) < Len(tag))
  <2>1. CASE found  BY <1>1, <1>2, <1>3, <1>9, <2>1 DEF m
  <2>2. CASE ~found
    <3>1. Turn(p).in = p.in  BY <1>4, <2>2
    <3> QED  BY <1>1, <1>2, <1>3, <1>9, <2>2, <3>1 DEF m, tag
  <2> QED  BY <2>1, <2>2
<1> QED  BY <1>4, <1>14, <1>15 DEF buf, tag, Settled

LEMMA ParseReads ==
  ASSUME NEW s \in Text, NEW buffer \in Text, NEW inside \in BOOLEAN,
         NEW T \in Text, NEW H \in Text, Parsed(s, buffer, inside, T, H),
         NEW p, p = parseThinkingTags(buffer, inside)
  PROVE  p \in Parse /\ Settled(p) /\ Parsed(s, p.buf, p.in, T \o p.text, H \o p.thinking)
<1> DEFINE k == Len(buffer)
           start == Start(buffer, inside)
           Reached(q) == Parsed(s, q.buf, q.in, T \o q.text, H \o q.thinking)
<1>1. k \in Nat /\ T \in Seq(Char) /\ H \in Seq(Char)  BY DEF Text
<1>2. start \in Parse /\ Reached(start) /\ Len(start.buf) = k
  <2>1. start \in Parse  BY DEF Start, Parse, Text
  <2>2. T \o <<>> = T /\ H \o <<>> = H  BY <1>1
  <2>3. start.buf = buffer /\ start.in = inside /\ start.text = <<>> /\ start.thinking = <<>>
    BY DEF Start
  <2>4. Reached(start)  BY <2>2, <2>3
  <2> QED  BY <2>1, <2>3, <2>4
<1> HIDE DEF start
<1>3. PICK f : Turns(f, start, k) /\ p = f[k]
  BY ParseUnfolds DEF start
<1> HIDE DEF k
<1>4. f[0] = start /\ \A n \in 0..k : n + 1 \in 0..k => f[n + 1] = Turn(f[n])
  BY <1>1, <1>3, TurnsSteps
<1>5. \A q \in Parse : Reached(q) => /\ Turn(q) \in Parse /\ Reached(Turn(q))
                                     /\ \/ Settled(Turn(q))
                                        \/ Len(Turn(q).buf) < Len(q.buf) /\ ~Settled(q)
  BY TurnType, TurnReads
<1>6. \A q \in Parse : Len(q.buf) \in Nat  BY DEF Parse, Text
<1> HIDE DEF Reached
<1> DEFINE At(n, q) == q \in Parse /\ Reached(q) /\ (Settled(q) \/ Len(q.buf) + n <= k)
           N == {n \in Nat : n <= k => At(n, f[n])}
<1>7. 0 \in N  BY <1>1, <1>2, <1>4
<1> HIDE DEF At
<1>8. ASSUME NEW n \in Nat, n \in N PROVE n + 1 \in N
  <2> SUFFICES ASSUME n + 1 <= k PROVE At(n + 1, f[n + 1])  OBVIOUS
  <2>1. n \in 0..k /\ n + 1 \in 0..k /\ n <= k  BY <1>1
  <2> DEFINE q == f[n]
             r == Turn(q)
  <2>2. f[n + 1] = r /\ At(n, q)  BY <1>4, <1>8, <2>1
  <2> HIDE DEF q
  <2>3. r \in Parse /\ Reached(r)
        /\ (Settled(r) \/ (Len(r.buf) < Len(q.buf) /\ ~Settled(q)))
    BY <1>5, <2>2 DEF At
  <2>4. Len(q.buf) \in Nat /\ Len(r.buf) \in Nat  BY <1>6, <2>2, <2>3 DEF At
  <2> HIDE DEF r
  <2>5. Settled(r) \/ Len(r.buf) + (n + 1) <= k
    <3> DEFINE i == Len(q.buf)
               j == Len(r.buf)
    <3>1. Settled(q) \/ i + n <= k  BY <2>2 DEF At
    <3>2. Settled(r) \/ (j < i /\ ~Settled(q))  BY <2>3
    <3>3. i \in Nat /\ j \in Nat  BY <2>4
    <3> HIDE DEF i, j
    <3>4. j < i /\ i + n <= k => j + (n + 1) <= k  BY <1>1, <3>3
    <3>5. Settled(r) \/ j + (n + 1) <= k  BY <3>1, <3>2, <3>4
    <3> QED  BY <3>5 DEF j
  <2> QED  BY <2>2, <2>3, <2>5 DEF At
<1>9. Nat \subseteq N
  <2> HIDE DEF N
  <2> QED  BY <1>7, <1>8, Induction
<1>10. At(k, p)
  <2>1. k \in N /\ k <= k  BY <1>1, <1>9
  <2> QED  BY <1>3, <2>1
<1>11. Settled(p)
  <2>1. Len(p.buf) \in Nat /\ Len(Tag(p.in)) \in Nat \ {0}  BY <1>6, <1>10, TagIs DEF At
  <2> QED  BY <1>1, <1>10, <2>1 DEF Settled, At
<1> QED  BY <1>10, <1>11 DEF Reached, At

----------------------------------------------------------------------------
(* The beginnings of a text.                                               *)
StartOf(x, y) == \E z \in Text : y = x \o z

LEMMA StartsItself == ASSUME NEW x \in Text PROVE StartOf(x, x)
<1>1. <<>> \in Text /\ x \o <<>> = x  BY DEF Text
<1> QED  BY <1>1 DEF StartOf

LEMMA TextConcat ==
  \A x, y \in Text : x \o y \in Text /\ Len(x \o y) = Len(x) + Len(y) /\ Len(x) \in Nat
BY DEF Text

LEMMA TextConcats ==
  \A x, y, z \in Text : x \o (y \o z) = (x \o y) \o z
BY TextsAssociate DEF Text

LEMMA StartsFurther ==
  ASSUME NEW x \in Text, NEW y \in Text, NEW z \in Text, StartOf(x, y), StartOf(y, z)
  PROVE  StartOf(x, z)
<1>1. PICK u \in Text : y = x \o u  BY DEF StartOf
<1>2. PICK v \in Text : z = y \o v  BY DEF StartOf
<1>3. z = x \o (u \o v)  BY <1>1, <1>2, TextConcats
<1> QED  BY <1>3, TextConcat DEF StartOf

LEMMA StartsAfter ==
  ASSUME NEW x \in Text, NEW y \in Text, NEW z \in Text, StartOf(y, z)
  PROVE  StartOf(x \o y, x \o z)
<1>1. PICK u \in Text : z = y \o u  BY DEF StartOf
<1>2. x \o z = (x \o y) \o u  BY <1>1, TextConcats
<1> QED  BY <1>2 DEF StartOf

LEMMA FirstStarts ==
  ASSUME NEW X, NEW x \in Seq(X), NEW n \in 0..Len(x)
  PROVE  /\ First(x, n) \in Seq(X) /\ After(x, n) \in Seq(X)
         /\ x = First(x, n) \o After(x, n)
<1> DEFINE y == First(x, n)
           z == After(x, n)
<1>1. Len(x) \in Nat /\ n \in Nat /\ n <= Len(x)  OBVIOUS
<1>2. y \in Seq(X) /\ Len(y) = n /\ \A t \in 1..n : y[t] = x[t]  BY FirstIs
<1>3. z \in Seq(X) /\ Len(z) = Len(x) - n /\ \A t \in 1..(Len(x) - n) : z[t] = x[n + t]
  BY AfterIs
<1> HIDE DEF y, z
<1>4. y \o z \in Seq(X) /\ Len(y \o z) = Len(x)  BY <1>1, <1>2, <1>3
<1>5. ASSUME NEW t \in 1..Len(x) PROVE (y \o z)[t] = x[t]
  <2>1. CASE t <= n
    <3>1. t \in 1..n  BY <1>1, <2>1
    <3>2. (y \o z)[t] = y[t]  BY <1>2, <1>3, <3>1
    <3> QED  BY <1>2, <3>1, <3>2
  <2>2. CASE ~(t <= n)
    <3>1. t - n \in 1..(Len(x) - n) /\ n + (t - n) = t  BY <1>1, <2>2
    <3>2. (y \o z)[t] = z[t - n]  BY <1>1, <1>2, <1>3, <2>2, <3>1
    <3> QED  BY <1>3, <3>1, <3>2
  <2> QED  BY <2>1, <2>2
<1>6. y \o z = x  BY <1>4, <1>5, SeqEqual
<1> QED  BY <1>2, <1>3, <1>6 DEF y, z

LEMMA StartIsPrefix ==
  ASSUME NEW x \in Text, NEW y \in Text, StartOf(x, y)
  PROVE  /\ IsPrefix(x, y) /\ Len(x) <= Len(y) /\ First(y, Len(x)) = x
         /\ \A i \in 1..Len(x) : y[i] = x[i]
<1>1. PICK z \in Text : y = x \o z  BY DEF StartOf
<1>2. x \in Seq(Char) /\ z \in Seq(Char) /\ Len(x) \in Nat /\ Len(z) \in Nat  BY DEF Text
<1>3. y \in Seq(Char) /\ Len(y) = Len(x) + Len(z) /\ \A i \in 1..Len(x) : y[i] = x[i]
  BY <1>1, <1>2
<1>4. Len(x) <= Len(y) /\ Len(x) \in 0..Len(y) /\ Len(x) \in 0..Len(x)  BY <1>2, <1>3
<1>5. First(y, Len(x)) = x
  <2> DEFINE u == First(y, Len(x))
  <2>1. u \in Seq(Char) /\ Len(u) = Len(x) /\ \A i \in 1..Len(x) : u[i] = y[i]
    BY <1>3, <1>4, FirstIs
  <2> HIDE DEF u
  <2>2. u = x  BY <1>2, <1>3, <2>1, SeqEqual
  <2> QED  BY <2>2 DEF u
<1>6. SubSeq(y, 1, Len(x)) = SubSeq(x, 1, Len(x))
  <2>1. First(x, Len(x)) = x
    <3> DEFINE u == First(x, Len(x))
    <3>1. u \in Seq(Char) /\ Len(u) = Len(x) /\ \A i \in 1..Len(x) : u[i] = x[i]
      BY <1>2, <1>4, FirstIs
    <3> HIDE DEF u
    <3>2. u = x  BY <1>2, <3>1, SeqEqual
    <3> QED  BY <3>2 DEF u
  <2> QED  BY <1>5, <2>1 DEF First
<1>7. IsPrefix(x, y)  BY <1>4, <1>6 DEF IsPrefix
<1> QED  BY <1>3, <1>4, <1>5, <1>7

LEMMA ReadGrows ==
  ASSUME NEW s \in Text, NEW k \in 0..Len(s)
  PROVE  \A n \in Nat : k + n <= Len(s) =>
           /\ StartOf(ReadTo(s, k).text, ReadTo(s, k + n).text)
           /\ StartOf(ReadTo(s, k).thinking, ReadTo(s, k + n).thinking)
<1> DEFINE Goal(n) == /\ StartOf(ReadTo(s, k).text, ReadTo(s, k + n).text)
                      /\ StartOf(ReadTo(s, k).thinking, ReadTo(s, k + n).thinking)
           N == {n \in Nat : k + n <= Len(s) => Goal(n)}
<1>0. Len(s) \in Nat /\ s \in Seq(Char) /\ k \in Nat  BY DEF Text
<1>1. \A n \in 0..Len(s) : /\ ReadTo(s, n) \in Reading
                           /\ ReadTo(s, n).text \in Text /\ ReadTo(s, n).thinking \in Text
  BY ReadType DEF Reading
<1>2. 0 \in N
  <2>1. k + 0 = k  BY <1>0
  <2> QED  BY <1>1, <2>1, StartsItself
<1> HIDE DEF Goal
<1>3. ASSUME NEW n \in Nat, n \in N PROVE n + 1 \in N
  <2> SUFFICES ASSUME k + (n + 1) <= Len(s) PROVE Goal(n + 1)  OBVIOUS
  <2> DEFINE j == k + n
             p == ReadTo(s, j)
             q == ReadTo(s, j + 1)
             e == s[j + 1]
  <2>1. k + (n + 1) = j + 1 /\ j \in 0..Len(s) /\ j + 1 \in 0..Len(s) /\ j + 1 \in 1..Len(s)
        /\ j + 1 <= Len(s) /\ j <= Len(s)
    BY <1>0
  <2>2. q = Read(p, s, j + 1)  BY <2>1, ReadToUnfolds
  <2>3. p \in Reading /\ p.text \in Text /\ p.thinking \in Text
        /\ q.text \in Text /\ q.thinking \in Text
    BY <1>1, <2>1
  <2>4. e \in Char /\ <<e>> \in Text  BY <1>0, <2>1 DEF Text
  <2> HIDE DEF p, q, e
  <2>5. q.text \in {p.text, Append(p.text, e)} /\ q.thinking \in {p.thinking, Append(p.thinking, e)}
    BY <2>2, <2>3 DEF Read, Reading, e
  <2>6. \A x \in Text : StartOf(x, x) /\ StartOf(x, Append(x, e))
    <3> TAKE x \in Text
    <3>1. Append(x, e) = x \o <<e>>  BY <2>4 DEF Text
    <3> QED  BY <2>4, <3>1, StartsItself DEF StartOf
  <2>7. StartOf(p.text, q.text) /\ StartOf(p.thinking, q.thinking)  BY <2>3, <2>5, <2>6
  <2>8. Goal(n)  BY <1>3, <2>1
  <2>9. /\ ReadTo(s, k).text \in Text /\ ReadTo(s, k).thinking \in Text
        /\ StartOf(ReadTo(s, k).text, p.text) /\ StartOf(ReadTo(s, k).thinking, p.thinking)
    BY <1>1, <2>8 DEF Goal, p
  <2>10. StartOf(ReadTo(s, k).text, q.text) /\ StartOf(ReadTo(s, k).thinking, q.thinking)
    BY <2>3, <2>7, <2>9, StartsFurther
  <2> QED  BY <2>1, <2>10 DEF Goal, q
<1>4. Nat \subseteq N
  <2> HIDE DEF N
  <2> QED  BY <1>2, <1>3, Induction
<1> QED  BY <1>4 DEF Goal

(* What will have been read of any text that begins with s.                *)
Beginning(s, T, H) ==
  \A c \in Text : StartOf(T, Split(s \o c).text) /\ StartOf(H, Split(s \o c).thinking)

LEMMA SplitType ==
  ASSUME NEW s \in Text
  PROVE  Split(s).text \in Text /\ Split(s).thinking \in Text
<1>1. Len(s) \in Nat /\ Len(s) \in 0..Len(s)  BY DEF Text
<1> QED  BY <1>1, ReadType, ReadToUnfolds DEF Reading

LEMMA SplitBegins ==
  ASSUME NEW s \in Text, NEW buf \in Text, NEW in, NEW T \in Text, NEW H \in Text,
         Parsed(s, buf, in, T, H)
  PROVE  Beginning(s, T, H)
<1> SUFFICES ASSUME NEW c \in Text
             PROVE  StartOf(T, Split(s \o c).text) /\ StartOf(H, Split(s \o c).thinking)
  BY DEF Beginning
<1> DEFINE z == s \o c
           k == Len(s) - Len(buf)
<1>1. z \in Text /\ Len(z) = Len(s) + Len(c) /\ Len(s) \in Nat /\ Len(c) \in Nat
  BY Followed
<1>2. Len(buf) \in Nat /\ Len(buf) <= Len(s)  BY DEF Parsed, Text
<1>3. ReadTo(z, k) = State(in, T, H)  BY DEF Parsed
<1> HIDE DEF z
<1>4. k \in 0..Len(z) /\ Len(z) - k \in Nat /\ k + (Len(z) - k) = Len(z) /\ Len(z) <= Len(z)
  BY <1>1, <1>2
<1> HIDE DEF k
<1>5. /\ StartOf(ReadTo(z, k).text, ReadTo(z, Len(z)).text)
      /\ StartOf(ReadTo(z, k).thinking, ReadTo(z, Len(z)).thinking)
  <2> DEFINE n == Len(z) - k
  <2>1. n \in Nat /\ k + n = Len(z) /\ k + n <= Len(z)  BY <1>4
  <2> HIDE DEF n
  <2>2. /\ StartOf(ReadTo(z, k).text, ReadTo(z, k + n).text)
        /\ StartOf(ReadTo(z, k).thinking, ReadTo(z, k + n).thinking)
    BY <1>1, <1>4, <2>1, ReadGrows
  <2> QED  BY <2>1, <2>2
<1>6. Split(z) = ReadTo(z, Len(z))  BY <1>1, ReadToUnfolds
<1>7. ReadTo(z, k).text = T /\ ReadTo(z, k).thinking = H  BY <1>3 DEF State
<1> QED  BY <1>5, <1>6, <1>7 DEF z

(* At the end of the text, what is held back is no tag.                    *)
LEMMA SplitEnds ==
  ASSUME NEW s \in Text, NEW buf \in Text, NEW in \in BOOLEAN, NEW T \in Text, NEW H \in Text,
         Parsed(s, buf, in, T, H), Len(buf) < Len(Tag(in))
  PROVE  /\ in => Split(s).text = T /\ Split(s).thinking = H \o buf
         /\ ~in => Split(s).text = T \o buf /\ Split(s).thinking = H
<1> DEFINE n == Len(buf)
           k == Len(s) - Len(buf)
           tag == Tag(in)
<1>1. s \in Seq(Char) /\ buf \in Seq(Char) /\ n \in Nat /\ Len(s) \in Nat /\ n <= Len(s)
      /\ <<>> \in Text /\ s \o <<>> = s
  BY DEF Parsed, Text
<1>2. tag \in Seq(Char) /\ Len(tag) \in Nat \ {0} /\ n < Len(tag)  BY TagIs
<1>3. ReadTo(s, k) = State(in, T, H)
  <2>1. ReadTo(s \o <<>>, k) = State(in, T, H)  BY <1>1 DEF Parsed
  <2> QED  BY <1>1, <2>1
<1>4. \A t \in 1..n : s[k + t] = buf[t]  BY DEF Parsed
<1> HIDE DEF n
<1>5. k \in Nat /\ k + n = Len(s) /\ k + n <= Len(s)  BY <1>1 DEF n
<1> HIDE DEF k, tag
<1>6. NoTagIn(s, k, n, tag)
  <2> SUFFICES ASSUME NEW j \in k..(k + n - 1), Occurs(s, tag, j) PROVE FALSE
    BY DEF NoTagIn
  <2>1. j \in 0..(Len(s) - Len(tag))  BY DEF Occurs
  <2> QED  BY <1>1, <1>2, <1>5, <2>1
<1>7. PlainTo(s, k, n, in, T, H)
  BY <1>1, <1>3, <1>5, <1>6, ReadPlain DEF tag
<1>8. SubSeq(s, k + 1, k + n) = buf
  <2> DEFINE y == SubSeq(s, k + 1, k + n)
  <2>1. y \in Seq(Char) /\ Len(y) = n /\ \A t \in 1..n : y[t] = s[k + t]
    BY <1>1, <1>5, PieceIs
  <2> HIDE DEF y
  <2>2. y = buf  BY <1>1, <1>4, <2>1, SeqEqual DEF n
  <2> QED  BY <2>2 DEF y
<1>9. Split(s) = ReadTo(s, k + n)  BY <1>5, ReadToUnfolds
<1>10. \A text, thinking :
         State(in, text, thinking).text = text /\ State(in, text, thinking).thinking = thinking
  BY DEF State
<1>11. /\ in => Split(s) = State(in, T, H \o buf)
       /\ ~in => Split(s) = State(in, T \o buf, H)
  BY <1>7, <1>8, <1>9 DEF PlainTo
<1>12. CASE in
  <2>1. Split(s) = State(in, T, H \o buf)  BY <1>11, <1>12
  <2>2. Split(s).text = T /\ Split(s).thinking = H \o buf  BY <1>10, <2>1
  <2> QED  BY <1>12, <2>2
<1>13. CASE ~in
  <2>1. Split(s) = State(in, T \o buf, H)  BY <1>11, <1>13
  <2>2. Split(s).text = T \o buf /\ Split(s).thinking = H  BY <1>10, <2>1
  <2> QED  BY <1>13, <2>2
<1> QED  BY <1>12, <1>13

LEMMA ParsedFurther ==
  ASSUME NEW s \in Text, NEW buf \in Text, NEW in, NEW T, NEW H, Parsed(s, buf, in, T, H),
         NEW c \in Text
  PROVE  Parsed(s \o c, buf \o c, in, T, H)
<1> DEFINE z == s \o c
           y == buf \o c
           k == Len(s) - Len(buf)
<1>1. s \in Seq(Char) /\ buf \in Seq(Char) /\ c \in Seq(Char)
      /\ Len(s) \in Nat /\ Len(buf) \in Nat /\ Len(c) \in Nat /\ Len(buf) <= Len(s)
  BY DEF Text, Parsed
<1>2. z \in Seq(Char) /\ Len(z) = Len(s) + Len(c) /\ \A i \in 1..Len(z) :
        z[i] = IF i <= Len(s) THEN s[i] ELSE c[i - Len(s)]
  BY <1>1
<1>3. y \in Seq(Char) /\ Len(y) = Len(buf) + Len(c) /\ \A i \in 1..Len(y) :
        y[i] = IF i <= Len(buf) THEN buf[i] ELSE c[i - Len(buf)]
  BY <1>1
<1>4. \A t \in 1..Len(buf) : s[k + t] = buf[t]  BY DEF Parsed
<1>5. \A e \in Text : ReadTo(z \o e, k) = State(in, T, H)
  <2> TAKE e \in Text
  <2>1. z \o e = s \o (c \o e) /\ c \o e \in Text  BY TextConcat, TextConcats
  <2> QED  BY <2>1 DEF Parsed
<1> HIDE DEF z, y
<1>6. Len(y) <= Len(z) /\ Len(z) - Len(y) = k /\ k \in Nat  BY <1>1, <1>2, <1>3
<1>7. ASSUME NEW t \in 1..Len(y) PROVE z[k + t] = y[t]
  <2>0. k + t \in 1..Len(z)  BY <1>1, <1>2, <1>3, <1>6
  <2>1. CASE t <= Len(buf)
    <3>1. k + t <= Len(s) /\ t \in 1..Len(buf)  BY <1>1, <1>3, <2>1
    <3> QED  BY <1>2, <1>3, <1>4, <2>0, <2>1, <3>1
  <2>2. CASE ~(t <= Len(buf))
    <3>1. ~(k + t <= Len(s)) /\ (k + t) - Len(s) = t - Len(buf)  BY <1>1, <1>3, <2>2
    <3>2. z[k + t] = c[(k + t) - Len(s)]  BY <1>2, <2>0, <3>1
    <3>3. y[t] = c[t - Len(buf)]  BY <1>3, <2>2
    <3> QED  BY <3>1, <3>2, <3>3
  <2> QED  BY <2>1, <2>2
<1> HIDE DEF k
<1>8. Parsed(z, y, in, T, H)  BY <1>5, <1>6, <1>7 DEF Parsed
<1> QED  BY <1>8 DEF z, y

LEMMA ParsedNothing == Parsed(<<>>, <<>>, FALSE, <<>>, <<>>)
<1>1. ASSUME NEW c \in Text PROVE ReadTo(<<>> \o c, 0) = State(FALSE, <<>>, <<>>)
  <2>1. <<>> \o c = c  BY DEF Text
  <2>2. ReadTo(c, 0) = Fresh  BY ReadToUnfolds
  <2> QED  BY <2>1, <2>2 DEF Fresh, State
<1>2. Len(<<>>) = 0 /\ 0 - 0 = 0 /\ 1..0 = {} /\ 0 <= 0  OBVIOUS
<1> QED  BY <1>1, <1>2 DEF Parsed

----------------------------------------------------------------------------
(* Where a stop sequence can be.                                           *)
LEMMA OccursAfter ==
  ASSUME NEW x \in Text, NEW y \in Text, NEW t \in Text, NEW j \in Int, j >= Len(x)
  PROVE  Occurs(x \o y, t, j) <=> Occurs(y, t, j - Len(x))
<1> DEFINE z == x \o y
           i == j - Len(x)
<1>1. x \in Seq(Char) /\ y \in Seq(Char) /\ t \in Seq(Char)
      /\ Len(x) \in Nat /\ Len(y) \in Nat /\ Len(t) \in Nat
  BY DEF Text
<1>2. z \in Seq(Char) /\ Len(z) = Len(x) + Len(y) /\ \A m \in 1..Len(z) :
        z[m] = IF m <= Len(x) THEN x[m] ELSE y[m - Len(x)]
  BY <1>1
<1>3. i \in Int /\ i >= 0 /\ j = Len(x) + i  BY <1>1
<1> HIDE DEF z, i
<1>4. j \in 0..(Len(z) - Len(t)) <=> i \in 0..(Len(y) - Len(t))  BY <1>1, <1>2, <1>3
<1>5. ASSUME i \in 0..(Len(y) - Len(t)), NEW m \in 1..Len(t) PROVE z[j + m] = y[i + m]
  <2>1. j + m \in 1..Len(z) /\ ~(j + m <= Len(x)) /\ (j + m) - Len(x) = i + m
    BY <1>1, <1>2, <1>3, <1>5
  <2> QED  BY <1>2, <2>1
<1>6. Occurs(z, t, j) <=> j \in 0..(Len(z) - Len(t)) /\ \A m \in 1..Len(t) : z[j + m] = t[m]
  BY <1>1, <1>2, OccursIs
<1>7. Occurs(y, t, i) <=> i \in 0..(Len(y) - Len(t)) /\ \A m \in 1..Len(t) : y[i + m] = t[m]
  BY <1>1, <1>3, OccursIs
<1>8. Occurs(z, t, j) <=> Occurs(y, t, i)  BY <1>4, <1>5, <1>6, <1>7
<1> QED  BY <1>8 DEF z, i

LEMMA OccursWithin ==
  ASSUME NEW x \in Text, NEW y \in Text, NEW t \in Text, NEW j \in Int,
         j + Len(t) <= Len(x)
  PROVE  Occurs(x \o y, t, j) <=> Occurs(x, t, j)
<1> DEFINE z == x \o y
<1>1. x \in Seq(Char) /\ y \in Seq(Char) /\ t \in Seq(Char)
      /\ Len(x) \in Nat /\ Len(y) \in Nat /\ Len(t) \in Nat
  BY DEF Text
<1>2. z \in Seq(Char) /\ Len(z) = Len(x) + Len(y) /\ \A m \in 1..Len(x) : z[m] = x[m]
  BY <1>1
<1> HIDE DEF z
<1>3. j \in 0..(Len(z) - Len(t)) <=> j \in 0..(Len(x) - Len(t))  BY <1>1, <1>2
<1>4. ASSUME j \in 0..(Len(x) - Len(t)), NEW m \in 1..Len(t) PROVE z[j + m] = x[j + m]
  <2>1. j + m \in 1..Len(x)  BY <1>1, <1>4
  <2> QED  BY <1>2, <2>1
<1>5. Occurs(z, t, j) <=> j \in 0..(Len(z) - Len(t)) /\ \A m \in 1..Len(t) : z[j + m] = t[m]
  <2>1. z \in Seq(Char) /\ t \in Seq(Char)  BY <1>1, <1>2
  <2> QED  BY <2>1, OccursIs
<1>6. Occurs(x, t, j) <=> j \in 0..(Len(x) - Len(t)) /\ \A m \in 1..Len(t) : x[j + m] = t[m]
  BY <1>1, OccursIs
<1>7. Occurs(z, t, j) <=> Occurs(x, t, j)  BY <1>3, <1>4, <1>5, <1>6
<1> QED  BY <1>7 DEF z

(* Index, in terms of Occurs.                                              *)
LEMMA IndexIs ==
  ASSUME NEW s \in Text, NEW t \in Text
  PROVE  /\ Index(s, t) \in Nat \cup {-1}
         /\ Index(s, t) = -1 <=> \A j : ~Occurs(s, t, j)
         /\ \A i \in Nat : Occurs(s, t, i) /\ (\A j : Occurs(s, t, j) => i <= j)
                             => Index(s, t) = i
         /\ Index(s, t) # -1 => /\ Occurs(s, t, Index(s, t))
                                /\ Index(s, t) \in 0..Len(s) /\ Index(s, t) >= 0
                                /\ \A j : Occurs(s, t, j) => Index(s, t) <= j
<1> DEFINE at == Index(s, t)
<1>1. s \in Seq(Char) /\ t \in Seq(Char) /\ Len(s) \in Nat /\ Len(t) \in Nat  BY DEF Text
<1>2. \/ at = -1 /\ \A j : ~Occurs(s, t, j)
      \/ at # -1 /\ Occurs(s, t, at) /\ at \in Nat /\ \A j : Occurs(s, t, j) => at <= j
  BY <1>1, IndexFinds
<1> HIDE DEF at
<1>3. Occurs(s, t, at) => at \in 0..(Len(s) - Len(t))  BY DEF Occurs
<1>4. at # -1 => at \in 0..Len(s) /\ at >= 0  BY <1>1, <1>2, <1>3
<1>5. ASSUME NEW i \in Nat, Occurs(s, t, i), \A j : Occurs(s, t, j) => i <= j
      PROVE  at = i
  <2>1. at # -1 /\ Occurs(s, t, at) /\ at \in Nat  BY <1>2, <1>5
  <2>2. i <= at /\ at <= i  BY <1>2, <1>5, <2>1
  <2> QED  BY <2>1, <2>2
<1> QED  BY <1>2, <1>4, <1>5 DEF at

(* The first place of t does not move when the text goes on.               *)
LEMMA IndexStays ==
  ASSUME NEW x \in Text, NEW y \in Text, NEW t \in Text, Index(x, t) >= 0
  PROVE  Index(x \o y, t) = Index(x, t) /\ First(x \o y, Index(x, t)) = First(x, Index(x, t))
<1> DEFINE i == Index(x, t)
           z == x \o y
<1>1. /\ x \in Seq(Char) /\ y \in Seq(Char) /\ Len(x) \in Nat /\ Len(t) \in Nat
      /\ z \in Seq(Char) /\ z \in Text /\ Len(z) = Len(x) + Len(y) /\ Len(y) \in Nat
      /\ \A m \in 1..Len(x) : z[m] = x[m]
  BY DEF Text
<1>2. i # -1  OBVIOUS
<1>3. Occurs(x, t, i) /\ i \in 0..Len(x) /\ \A j : Occurs(x, t, j) => i <= j
  BY <1>2, IndexIs
<1> HIDE DEF i
<1>4. i \in Nat /\ i + Len(t) <= Len(x)
  <2>1. i \in 0..(Len(x) - Len(t))  BY <1>3 DEF Occurs
  <2> QED  BY <1>1, <2>1
<1>5. Occurs(z, t, i)  BY <1>3, <1>4, OccursWithin
<1>6. ASSUME NEW j, Occurs(z, t, j) PROVE i <= j
  <2>1. j \in 0..(Len(z) - Len(t))  BY <1>6 DEF Occurs
  <2>2. j \in Int  BY <2>1
  <2> SUFFICES ASSUME ~(i <= j) PROVE FALSE  OBVIOUS
  <2>3. j + Len(t) <= Len(x)  BY <1>1, <1>4, <2>2
  <2>4. Occurs(x, t, j)  BY <1>6, <2>2, <2>3, OccursWithin
  <2> QED  BY <1>3, <2>4
<1>7. Index(z, t) = i  BY <1>1, <1>4, <1>5, <1>6, IndexIs
<1>8. First(z, i) = First(x, i)
  <2> DEFINE u == First(z, i)
             v == First(x, i)
  <2>1. i \in 0..Len(z) /\ i \in 0..Len(x)  BY <1>1, <1>3
  <2>2. u \in Seq(Char) /\ Len(u) = i /\ \A m \in 1..i : u[m] = z[m]  BY <1>1, <2>1, FirstIs
  <2>3. v \in Seq(Char) /\ Len(v) = i /\ \A m \in 1..i : v[m] = x[m]  BY <1>1, <2>1, FirstIs
  <2>4. \A m \in 1..i : m \in 1..Len(x)  BY <1>1, <1>3
  <2> HIDE DEF u, v, z
  <2>5. \A m \in 1..i : u[m] = v[m]  BY <1>1, <2>2, <2>3, <2>4
  <2>6. u = v  BY <2>2, <2>3, <2>5, SeqEqual
  <2> QED  BY <2>6 DEF u, v
<1> QED  BY <1>7, <1>8 DEF i, z

(* What is not in a text is not in its beginning.                          *)
LEMMA IndexBefore ==
  ASSUME NEW T \in Text, NEW t \in Text, NEW n \in 0..Len(T), Index(T, t) = -1
  PROVE  Index(First(T, n), t) = -1
<1> DEFINE u == First(T, n)
           v == After(T, n)
<1>1. u \in Text /\ v \in Text /\ T = u \o v  BY FirstStarts DEF Text
<1> HIDE DEF u, v
<1>2. Index(u, t) \in Nat \cup {-1}  BY <1>1, IndexIs
<1>3. ASSUME Index(u, t) >= 0 PROVE FALSE
  <2>1. Index(u \o v, t) = Index(u, t)  BY <1>1, <1>3, IndexStays
  <2> QED  BY <1>1, <1>3, <2>1
<1>4. Index(u, t) = -1  BY <1>2, <1>3
<1> QED  BY <1>4 DEF u

LEMMA StopsAre ==
  ASSUME request \in Request
  PROVE  /\ stopSeqMaxKeep \in Nat
         /\ \A i \in Stops : /\ StopSequences[i] \in Text /\ Len(StopSequences[i]) \in Nat \ {0}
                             /\ Len(StopSequences[i]) - 1 <= stopSeqMaxKeep
         /\ Stops \in SUBSET Nat
<1> DEFINE n == Len(StopSequences)
           h == [i \in 1..n |-> Len(StopSequences[i]) - 1]
<1>1. StopSequences \in Seq(Text)  BY RequestIs DEF StopSequences
<1>2. n \in Nat /\ DOMAIN StopSequences = 1..n /\ \A i \in 1..n : StopSequences[i] \in Seq(Char)
  BY <1>1 DEF Text
<1>3. h \in [1..n -> Int]  BY <1>2
<1>4. {Len(StopSequences[i]) - 1 : i \in DOMAIN StopSequences} = {h[i] : i \in 1..n}
  BY <1>2
<1>5. \A i \in 1..n : h[i] = Len(StopSequences[i]) - 1  OBVIOUS
<1> HIDE DEF h, n
<1>6. /\ Max({0} \cup {h[i] : i \in 1..n}) \in Nat
      /\ \A j \in 1..n : Max({0} \cup {h[i] : i \in 1..n}) >= h[j]
  BY <1>2, <1>3, MaxOverSequence
<1>7. stopSeqMaxKeep = Max({0} \cup {h[i] : i \in 1..n})  BY <1>4 DEF stopSeqMaxKeep
<1>8. ASSUME NEW i \in Stops
      PROVE  /\ StopSequences[i] \in Text /\ Len(StopSequences[i]) \in Nat \ {0}
             /\ Len(StopSequences[i]) - 1 <= stopSeqMaxKeep
  <2> DEFINE t == StopSequences[i]
  <2>1. i \in 1..n /\ t # <<>>  BY <1>2 DEF Stops
  <2>2. t \in Seq(Char)  BY <1>2, <2>1
  <2>3. h[i] = Len(t) - 1 /\ stopSeqMaxKeep >= h[i]  BY <1>5, <1>6, <1>7, <2>1
  <2> HIDE DEF t
  <2>4. Len(t) \in Nat \ {0}  BY <2>1, <2>2
  <2>5. t \in Text /\ Len(t) - 1 <= stopSeqMaxKeep  BY <1>6, <1>7, <2>2, <2>3, <2>4 DEF Text
  <2> QED  BY <2>4, <2>5 DEF t
<1>9. Stops \in SUBSET Nat
  <2>1. Stops \subseteq 1..n  BY <1>2 DEF Stops
  <2> QED  BY <1>2, <2>1
<1> QED  BY <1>6, <1>7, <1>8, <1>9
(* When x and y were read without finding t, and y is all that a stop      *)
(* sequence that goes on could have begun in, t is first found where it    *)
(* first is in y and what follows it.                                      *)
LEMMA StopPlace ==
  ASSUME NEW x \in Text, NEW y \in Text, NEW z \in Text, NEW t \in Text,
         x = <<>> \/ Len(t) - 1 <= Len(y), Index(x \o y, t) = -1,
         NEW j, Occurs(x \o (y \o z), t, j)
  PROVE  j \in Int /\ j >= Len(x) /\ Occurs(y \o z, t, j - Len(x))
<1>1. /\ x \o y \in Text /\ y \o z \in Text /\ x \o (y \o z) = (x \o y) \o z
      /\ Len(x \o y) = Len(x) + Len(y) /\ Len(x) \in Nat /\ Len(y) \in Nat
  <2>1. x \o y \in Text /\ y \o z \in Text  BY TextConcat
  <2>2. x \o (y \o z) = (x \o y) \o z  BY TextConcats
  <2>3. Len(x \o y) = Len(x) + Len(y) /\ Len(x) \in Nat /\ Len(y) \in Nat  BY TextConcat
  <2> QED  BY <2>1, <2>2, <2>3
<1>2. Len(t) \in Nat  BY DEF Text
<1>3. j \in Int /\ j >= 0
  <2>1. j \in 0..(Len(x \o (y \o z)) - Len(t))  BY DEF Occurs
  <2> QED  BY <2>1
<1>4. j >= Len(x)
  <2> SUFFICES ASSUME ~(j >= Len(x)) PROVE FALSE  OBVIOUS
  <2>1. Len(x) # 0  BY <1>1, <1>3
  <2>2. x # <<>>  BY <2>1
  <2>3. Len(t) - 1 <= Len(y)  BY <2>2
  <2>4. j + Len(t) <= Len(x \o y)  BY <1>1, <1>2, <1>3, <2>3
  <2>5. Occurs((x \o y) \o z, t, j)  BY <1>1
  <2>6. Occurs(x \o y, t, j)  BY <1>1, <1>3, <2>4, <2>5, OccursWithin
  <2> QED  BY <1>1, <2>6, IndexIs
<1>5. Occurs(y \o z, t, j - Len(x))  BY <1>1, <1>3, <1>4, OccursAfter
<1> QED  BY <1>3, <1>4, <1>5

LEMMA StopIndex ==
  ASSUME NEW x \in Text, NEW y \in Text, NEW z \in Text, NEW t \in Text,
         x = <<>> \/ Len(t) - 1 <= Len(y), Index(x \o y, t) = -1,
         NEW i, i = Index(y \o z, t)
  PROVE  /\ i = -1 => Index(x \o (y \o z), t) = -1
         /\ i # -1 => Index(x \o (y \o z), t) = Len(x) + i /\ i \in 0..Len(y \o z)
<1>1. y \o z \in Text /\ x \o (y \o z) \in Text /\ Len(x) \in Nat  BY TextConcat
<1>2. CASE i = -1
  <2>1. \A j : ~Occurs(y \o z, t, j)  BY <1>1, <1>2, IndexIs
  <2>2. \A j : ~Occurs(x \o (y \o z), t, j)  BY <2>1, StopPlace
  <2>3. Index(x \o (y \o z), t) = -1  BY <1>1, <2>2, IndexIs
  <2> QED  BY <1>2, <2>3
<1>3. CASE i # -1
  <2>1. Occurs(y \o z, t, i) /\ i \in 0..Len(y \o z) /\ \A j : Occurs(y \o z, t, j) => i <= j
    BY <1>1, <1>3, IndexIs
  <2> DEFINE at == Len(x) + i
  <2>2. at \in Nat /\ at >= Len(x) /\ at - Len(x) = i  BY <1>1, <2>1
  <2> HIDE DEF at
  <2>3. Occurs(x \o (y \o z), t, at)  BY <1>1, <2>1, <2>2, OccursAfter
  <2>4. ASSUME NEW j, Occurs(x \o (y \o z), t, j) PROVE at <= j
    <3>1. j \in Int /\ Occurs(y \o z, t, j - Len(x))  BY <2>4, StopPlace
    <3>2. i <= j - Len(x)  BY <2>1, <3>1
    <3> QED  BY <1>1, <2>1, <3>1, <3>2 DEF at
  <2>5. Index(x \o (y \o z), t) = at  BY <1>1, <2>2, <2>3, <2>4, IndexIs
  <2> QED  BY <1>3, <2>1, <2>5 DEF at
<1> QED  BY <1>2, <1>3

LEMMA FirstOfTwo ==
  ASSUME NEW x \in Text, NEW y \in Text, NEW n \in 0..Len(y)
  PROVE  First(x \o y, Len(x) + n) = x \o First(y, n)
<1> DEFINE z == x \o y
           m == Len(x) + n
           u == First(z, m)
           f == First(y, n)
           v == x \o f
<1>1. /\ x \in Seq(Char) /\ y \in Seq(Char) /\ z \in Seq(Char)
      /\ Len(x) \in Nat /\ Len(y) \in Nat /\ Len(z) = Len(x) + Len(y)
      /\ \A i \in 1..Len(z) : z[i] = IF i <= Len(x) THEN x[i] ELSE y[i - Len(x)]
  BY DEF Text
<1>2. m \in 0..Len(z) /\ m \in Nat  BY <1>1
<1>3. f \in Seq(Char) /\ Len(f) = n /\ \A i \in 1..n : f[i] = y[i]  BY <1>1, FirstIs
<1> HIDE DEF z, f
<1>4. u \in Seq(Char) /\ Len(u) = m /\ \A i \in 1..m : u[i] = z[i]  BY <1>1, <1>2, FirstIs
<1>5. /\ v \in Seq(Char) /\ Len(v) = m
      /\ \A i \in 1..m : v[i] = IF i <= Len(x) THEN x[i] ELSE f[i - Len(x)]
  <2>1. /\ v \in Seq(Char) /\ Len(v) = Len(x) + Len(f)
        /\ \A i \in 1..(Len(x) + Len(f)) : v[i] = IF i <= Len(x) THEN x[i] ELSE f[i - Len(x)]
    <3>1. x \in Seq(Char) /\ f \in Seq(Char)  BY <1>1, <1>3
    <3> QED  BY <3>1
  <2>2. Len(x) + Len(f) = m  BY <1>3
  <2> HIDE DEF v, m
  <2> QED  BY <2>1, <2>2
<1> HIDE DEF u, v
<1>6. ASSUME NEW i \in 1..m PROVE u[i] = v[i]
  <2>1. i \in 1..Len(z)  BY <1>2
  <2>2. CASE i <= Len(x)  BY <1>1, <1>4, <1>5, <2>1, <2>2
  <2>3. CASE ~(i <= Len(x))
    <3>1. i - Len(x) \in 1..n  BY <1>1, <2>3
    <3> QED  BY <1>1, <1>3, <1>4, <1>5, <2>1, <2>3, <3>1
  <2> QED  BY <2>2, <2>3
<1>7. u = v  BY <1>4, <1>5, <1>6
<1> QED  BY <1>7 DEF u, v, z, f
----------------------------------------------------------------------------
(* Until it stops, the accumulator has delivered or holds back the whole   *)
(* text T, in which there is no stop sequence; it holds back as much as    *)
(* one may have begun in.                                                  *)
NoneIn(T) == \A i \in Stops : Index(T, StopSequences[i]) = -1
Held(text, pending) ==
  /\ Stops = {} => pending = <<>>
  /\ Stops # {} => text = <<>> \/ stopSeqMaxKeep <= Len(pending)
Whole(text, pending, T) == text \o pending = T /\ NoneIn(T) /\ Held(text, pending)
FirstListed(text, t) ==
  \E m \in Stops :
    /\ StopSequences[m] = t
    /\ \A i \in Stops : i < m => Index(text, StopSequences[i]) = -1
CutAt(text, T, t) == Index(T, t) >= 0 /\ text = First(T, Index(T, t)) /\ FirstListed(text, t)

(* What a text of the accumulator was, and what passes the filter of it.   *)
Passes(was, f, T) ==
  \/ /\ f.acc.localStop /\ f.acc.stopReason = "stop_sequence"
     /\ CutAt(was.textBuf \o f.out, T, f.acc.stopSequence)
  \/ /\ f.acc.localStop = was.localStop /\ f.acc.stopReason = was.stopReason
     /\ Whole(was.textBuf \o f.out, f.acc.stopSeqPending, T)

LEMMA StopFinds ==
  ASSUME request \in Request, NEW was \in Acc, NEW T \in Text,
         Whole(was.textBuf, was.stopSeqPending, T), NEW text \in Text, Stops # {},
         NEW f, f = applyStopSequenceFilter(was, text)
  PROVE  Passes(was, f, T \o text)
<1> DEFINE x       == was.textBuf
           y       == was.stopSeqPending
           pending == y \o text
           matches == {i \in Stops : Index(pending, StopSequences[i]) >= 0}
           match   == StopSequences[Min(matches)]
           keep    == Min({Len(pending), stopSeqMaxKeep})
<1>1. x \in Text /\ y \in Text /\ pending \in Text /\ Len(pending) \in Nat
  <2>1. x \in Text /\ y \in Text  BY AccTexts
  <2> HIDE DEF x, y
  <2> QED  BY <2>1, TextConcat
<1>2. T \o text = x \o pending
  <2>1. T = x \o y  BY DEF Whole
  <2> HIDE DEF x, y
  <2> QED  BY <1>1, <2>1, TextConcats
<1>3. stopSeqMaxKeep \in Nat /\ Stops \in SUBSET Nat  BY StopsAre
<1>4. ASSUME NEW i \in Stops
      PROVE  LET t  == StopSequences[i]
                 at == Index(pending, t)
             IN  /\ t \in Text /\ at \in Nat \cup {-1}
                 /\ at = -1 => Index(T \o text, t) = -1
                 /\ at # -1 => Index(T \o text, t) = Len(x) + at /\ at \in 0..Len(pending)
  <2> DEFINE t == StopSequences[i]
  <2>1. t \in Text /\ Len(t) \in Nat /\ Len(t) - 1 <= stopSeqMaxKeep  BY StopsAre
  <2>2. x = <<>> \/ stopSeqMaxKeep <= Len(y)  BY DEF Whole, Held
  <2>3. x = <<>> \/ Len(t) - 1 <= Len(y)
    <3>1. Len(y) \in Nat  BY <1>1 DEF Text
    <3> HIDE DEF x, y, t
    <3> QED  BY <1>3, <2>1, <2>2, <3>1
  <2>4. Index(x \o y, t) = -1  BY DEF Whole, NoneIn
  <2> HIDE DEF x, y, t
  <2>5. Index(pending, t) \in Nat \cup {-1}
    <3> HIDE DEF pending
    <3> QED  BY <1>1, <2>1, IndexIs
  <2>6. /\ Index(pending, t) = -1 => Index(x \o pending, t) = -1
        /\ Index(pending, t) # -1 =>
             Index(x \o pending, t) = Len(x) + Index(pending, t)
             /\ Index(pending, t) \in 0..Len(pending)
    BY <1>1, <2>1, <2>3, <2>4, StopIndex
  <2> HIDE DEF pending
  <2> QED  BY <1>2, <2>1, <2>5, <2>6 DEF t
<1> HIDE DEF x, y
<1>5. CASE matches # {}
  <2> DEFINE at  == Index(pending, match)
             new == [Stopped(was, "stop_sequence")
                       EXCEPT !.stopSequence = match, !.stopSeqPending = <<>>]
  <2>1. f.acc = new /\ f.out = First(pending, at)
    BY <1>5 DEF applyStopSequenceFilter, pending, y
  <2>2. Min(matches) \in matches /\ \A i \in matches : Min(matches) <= i
    <3>1. matches \in SUBSET Nat  BY <1>3
    <3> HIDE DEF matches
    <3> QED  BY <1>5, <3>1, MinOfSome
  <2>3. Min(matches) \in Stops /\ at >= 0  BY <2>2
  <2>4. new.localStop = TRUE /\ new.stopReason = "stop_sequence" /\ new.stopSequence = match
    BY DEF Stopped, Acc
  <2>11. ASSUME NEW i \in Stops, i < Min(matches)
         PROVE  StopSequences[i] \in Text /\ Index(T \o text, StopSequences[i]) = -1
    <3>1. i \notin matches
      <4> SUFFICES ASSUME i \in matches PROVE FALSE  OBVIOUS
      <4>1. Min(matches) <= i  BY <2>2
      <4>2. Min(matches) \in Nat /\ i \in Nat  BY <1>3, <2>3
      <4> HIDE DEF matches
      <4> QED  BY <2>11, <4>1, <4>2
    <3>2. ~(Index(pending, StopSequences[i]) >= 0)  BY <3>1
    <3>3. Index(pending, StopSequences[i]) \in Nat \cup {-1}  BY <1>4
    <3>4. Index(pending, StopSequences[i]) = -1  BY <3>2, <3>3
    <3> QED  BY <1>4, <3>4
  <2> HIDE DEF new
  <2>12. match = StopSequences[Min(matches)]  OBVIOUS
  <2> HIDE DEF matches
  <2>5. at # -1  BY <2>3
  <2>6. match \in Text /\ Index(T \o text, match) = Len(x) + at /\ at \in 0..Len(pending)
    BY <1>4, <2>3, <2>5
  <2> HIDE DEF match, pending, at
  <2>7. First(x \o pending, Len(x) + at) = x \o First(pending, at)
    BY <1>1, <2>6, FirstOfTwo
  <2>8. Len(x) \in Nat  BY <1>1, TextConcat
  <2>9. Index(T \o text, match) >= 0  BY <2>6, <2>8
  <2>13. FirstListed(x \o f.out, match)
    <3> DEFINE all == T \o text
               k   == Index(all, match)
    <3>1. x \o f.out = First(all, k)  BY <1>2, <2>1, <2>6, <2>7
    <3>2. all \in Text  BY TextConcat
    <3>3. k \in 0..Len(all)
      <4> HIDE DEF all
      <4>1. k # -1  BY <2>9 DEF all
      <4> QED  BY <2>6, <3>2, <4>1, IndexIs
    <3> HIDE DEF all, k
    <3>4. ASSUME NEW i \in Stops, i < Min(matches)
          PROVE  Index(x \o f.out, StopSequences[i]) = -1
      <4>1. StopSequences[i] \in Text /\ Index(all, StopSequences[i]) = -1
        BY <2>11, <3>4 DEF all
      <4> QED  BY <3>1, <3>2, <3>3, <4>1, IndexBefore
    <3> QED  BY <2>3, <2>12, <3>4 DEF FirstListed
  <2>10. CutAt(x \o f.out, T \o text, match)
    BY <1>2, <2>1, <2>6, <2>7, <2>9, <2>13 DEF CutAt
  <2> QED  BY <2>1, <2>4, <2>10 DEF Passes, x
<1>6. CASE matches = {}
  <2> DEFINE new == [was EXCEPT !.stopSeqPending = Ending(pending, keep)]
             n   == Len(pending) - keep
  <2>1. f.acc = new /\ f.out = First(pending, n)
    BY <1>6 DEF applyStopSequenceFilter, pending, y
  <2>2. new.localStop = was.localStop /\ new.stopReason = was.stopReason
        /\ new.stopSeqPending = Ending(pending, keep)
    BY DEF Acc
  <2>3. NoneIn(T \o text)
    <3>1. ASSUME NEW i \in Stops PROVE Index(T \o text, StopSequences[i]) = -1
      <4>1. ~(Index(pending, StopSequences[i]) >= 0)  BY <1>6
      <4>2. Index(pending, StopSequences[i]) = -1
        <5>1. Index(pending, StopSequences[i]) \in Nat \cup {-1}  BY <1>4
        <5> QED  BY <4>1, <5>1
      <4> QED  BY <1>4, <4>2
    <3> QED  BY <3>1 DEF NoneIn
  <2> HIDE DEF matches, new
  <2>4. /\ keep \in Nat /\ keep <= Len(pending)
        /\ keep = Len(pending) \/ keep = stopSeqMaxKeep
    <3> DEFINE S == {Len(pending), stopSeqMaxKeep}
    <3>1. S \in SUBSET Nat /\ S # {}  BY <1>1, <1>3
    <3>2. Len(pending) \in S  OBVIOUS
    <3>3. \A k \in S : k = Len(pending) \/ k = stopSeqMaxKeep  OBVIOUS
    <3> HIDE DEF S
    <3>4. Min(S) \in S /\ Min(S) <= Len(pending)  BY <3>1, <3>2, MinOfSome
    <3> QED  BY <3>1, <3>3, <3>4 DEF S
  <2> HIDE DEF keep
  <2>5. Ending(pending, keep) = After(pending, n)  BY DEF Ending
  <2>6. n \in 0..Len(pending)  BY <1>1, <2>4
  <2> HIDE DEF pending, n
  <2>7. /\ f.out \in Text /\ f.acc.stopSeqPending \in Text
        /\ pending = f.out \o f.acc.stopSeqPending
    <3>1. First(pending, n) \in Seq(Char) /\ After(pending, n) \in Seq(Char)
          /\ pending = First(pending, n) \o After(pending, n)
      BY <1>1, <2>6, FirstStarts DEF Text
    <3> QED  BY <2>1, <2>2, <2>5, <3>1 DEF Text
  <2>8. (x \o f.out) \o f.acc.stopSeqPending = T \o text
    <3>1. x \in Text /\ f.out \in Text /\ f.acc.stopSeqPending \in Text  BY <1>1, <2>7
    <3> DEFINE o == f.out
               q == f.acc.stopSeqPending
    <3>2. x \o (o \o q) = (x \o o) \o q
      <4> HIDE DEF o, q
      <4>1. x \in Text /\ o \in Text /\ q \in Text  BY <3>1 DEF o, q
      <4> QED  BY <4>1, TextConcats
    <3> QED  BY <1>2, <2>7, <3>2
  <2>9. x \o f.out = <<>> \/ stopSeqMaxKeep <= Len(f.acc.stopSeqPending)
    <3>1. Len(f.acc.stopSeqPending) = keep
      <4>1. Len(Ending(pending, keep)) = keep
        <5>1. keep \in 0..Len(pending)  BY <1>1, <2>4
        <5> QED  BY <1>1, <5>1, EndingIs DEF Text
      <4> QED  BY <2>1, <2>2, <4>1
    <3>2. CASE keep = stopSeqMaxKeep  BY <1>3, <3>1, <3>2
    <3>3. CASE keep # stopSeqMaxKeep /\ stopSeqMaxKeep <= keep  BY <3>1, <3>3
    <3>4. CASE keep # stopSeqMaxKeep /\ ~(stopSeqMaxKeep <= keep)
      <4>1. keep = Len(pending) /\ n = 0  BY <1>1, <2>4, <3>4 DEF n
      <4>2. f.out = <<>>
        <5>1. First(pending, 0) = <<>>  BY <1>1 DEF First, Text
        <5> QED  BY <2>1, <4>1, <5>1
      <4>3. Len(y) <= Len(pending)  BY <1>1, TextConcat DEF pending
      <4>4. ~(stopSeqMaxKeep <= Len(y))
        <5>1. Len(y) \in Nat  BY <1>1, TextConcat
        <5> QED  BY <1>1, <1>3, <3>4, <4>1, <4>3, <5>1
      <4>5. x = <<>>  BY <4>4 DEF Whole, Held, x, y
      <4> QED  BY <4>2, <4>5
    <3> QED  BY <3>2, <3>3, <3>4
  <2>10. Whole(x \o f.out, f.acc.stopSeqPending, T \o text)
    BY <2>3, <2>8, <2>9 DEF Whole, Held
  <2> QED  BY <2>1, <2>2, <2>10 DEF Passes, x
<1> QED  BY <1>5, <1>6
(* What the budget makes of a delta: it may cut it, and then it stops.     *)
LEMMA BudgetCuts ==
  ASSUME request \in Request, NEW was \in Acc, NEW delta \in Thinking
  PROVE  LET r == applyMaxTokensBudget(was, delta)
         IN  /\ \E n \in 0..Len(delta) : r.out = First(delta, n)
             /\ \/ /\ r.acc.localStop = was.localStop /\ r.acc.stopReason = was.stopReason
                   /\ r.out = delta
                \/ r.acc.localStop = TRUE /\ r.acc.stopReason = "max_tokens"
<1> DEFINE r         == applyMaxTokensBudget(was, delta)
           total     == was.outputRuneCount + Len(delta)
           remaining == request.maxTokens * RunesPerToken - was.outputRuneCount
           fits      == [was EXCEPT !.outputRuneCount = total]
           cut       == [was EXCEPT !.outputRuneCount = @ + remaining]
<1>1. /\ fits.localStop = was.localStop /\ fits.stopReason = was.stopReason
      /\ \A x \in Acc : /\ Stopped(x, "max_tokens").localStop = TRUE
                        /\ Stopped(x, "max_tokens").stopReason = "max_tokens"
  BY DEF Acc, Stopped
<1>2. Stopped(fits, "max_tokens").localStop = TRUE
      /\ Stopped(fits, "max_tokens").stopReason = "max_tokens"
      /\ Stopped(cut, "max_tokens").localStop = TRUE
      /\ Stopped(cut, "max_tokens").stopReason = "max_tokens"
  BY DEF Acc, Stopped
<1>3. Len(delta) \in Nat /\ First(delta, Len(delta)) = delta /\ First(delta, 0) = <<>>
  <2>1. delta \in Seq(Char \cup {Thought})  BY DEF Thinking
  <2> QED  BY <2>1 DEF First
<1>4. remaining \in Int
  <2>1. was.outputRuneCount \in Nat  BY AccTexts
  <2>2. request.maxTokens \in Nat /\ RunesPerToken \in Nat
    BY RequestIs, RunesPerTokenIsPositive
  <2>3. request.maxTokens * RunesPerToken \in Nat  BY <2>2
  <2> QED  BY <2>1, <2>3
<1> HIDE DEF total, remaining, fits, cut
<1>5. CASE request.maxTokens = 0 \/ WithinBudget(total)
  <2>1. r.acc = fits /\ r.out = delta
    BY <1>5 DEF applyMaxTokensBudget, total, fits
  <2> QED  BY <1>1, <1>3, <2>1
<1>6. CASE ~(request.maxTokens = 0 \/ WithinBudget(total)) /\ remaining <= 0
  <2>1. r.acc = Stopped(was, "max_tokens") /\ r.out = <<>>
    BY <1>6 DEF applyMaxTokensBudget, total, remaining
  <2> QED  BY <1>1, <1>3, <2>1
<1>7. CASE /\ ~(request.maxTokens = 0 \/ WithinBudget(total)) /\ ~(remaining <= 0)
           /\ Len(delta) > remaining
  <2>1. r.acc = Stopped(cut, "max_tokens") /\ r.out = First(delta, remaining)
    BY <1>7 DEF applyMaxTokensBudget, total, remaining, cut
  <2>2. remaining \in 0..Len(delta)  BY <1>3, <1>4, <1>7
  <2> QED  BY <1>2, <2>1, <2>2
<1>8. CASE /\ ~(request.maxTokens = 0 \/ WithinBudget(total)) /\ ~(remaining <= 0)
           /\ ~(Len(delta) > remaining)
  <2>1. r.acc = Stopped(fits, "max_tokens") /\ r.out = delta
    BY <1>8 DEF applyMaxTokensBudget, total, remaining, fits
  <2> QED  BY <1>2, <1>3, <2>1
<1> QED  BY <1>5, <1>6, <1>7, <1>8

Rest(was) ==
  <<was.lastContent, was.lastThinking, was.thinkingTagBuf, was.thinkingTagInside>>
Limited(was, new) ==
  /\ new \in Acc /\ Rest(new) = Rest(was) /\ (was.localStop => new.localStop)
  /\ new.textBuf = was.textBuf /\ new.thinkingBuf = was.thinkingBuf
  /\ new.stopSequence = was.stopSequence /\ new.stopSeqPending = was.stopSeqPending

LEMMA BudgetLimits ==
  ASSUME request \in Request, NEW was \in Acc, NEW delta \in Thinking
  PROVE  LET r == applyMaxTokensBudget(was, delta)
         IN  Limited(was, r.acc) /\ (~r.acc.localStop => r.out = delta)
<1> DEFINE g == applyMaxTokensBudget(was, delta)
           x == g.acc
<1>1. /\ x \in Acc /\ g.out \in Seq(Char \cup {Thought})
      /\ x = [was EXCEPT !.outputRuneCount = x.outputRuneCount,
                         !.localStop = x.localStop, !.stopReason = x.stopReason]
      /\ was.localStop => x.localStop
      /\ ~x.localStop =>
           /\ g.out = delta /\ x.stopReason = was.stopReason
           /\ x.outputRuneCount = was.outputRuneCount + Len(delta)
           /\ Below(x.outputRuneCount)
  BY BudgetApplied DEF Thinking
<1> HIDE DEF x, g
<1>2. Rest(x) = Rest(was)  BY <1>1 DEF Acc, Rest
<1>3. x.textBuf = was.textBuf /\ x.thinkingBuf = was.thinkingBuf  BY <1>1 DEF Acc
<1>4. x.stopSequence = was.stopSequence /\ x.stopSeqPending = was.stopSeqPending
  BY <1>1 DEF Acc
<1>5. Limited(was, x)  BY <1>1, <1>2, <1>3, <1>4 DEF Limited
<1> QED  BY <1>1, <1>5 DEF x, g
----------------------------------------------------------------------------
(* The thinking between tags, among the thinking of both kinds.            *)
Tagged(was) == Filter(was.thinkingBuf, Char)

Thinks(was, new) ==
  /\ new \in Acc /\ Rest(new) = Rest(was) /\ (was.localStop => new.localStop)
  /\ new.textBuf = was.textBuf /\ new.stopSeqPending = was.stopSeqPending
  /\ new.stopReason = was.stopReason \/ new.stopReason = "max_tokens"
  /\ new.stopSequence = was.stopSequence

LEMMA ThinkingAdds ==
  ASSUME request \in Request, NEW was \in Acc, NEW thought \in Thinking,
         NEW new, new = accumulateThinking(was, thought)
  PROVE  /\ Thinks(was, new)
         /\ \E n \in 0..Len(thought) :
              /\ new.thinkingBuf = was.thinkingBuf \o First(thought, n)
              /\ ~new.localStop => First(thought, n) = thought
<1>1. was.thinkingBuf \in Seq(Char \cup {Thought}) /\ thought \in Seq(Char \cup {Thought})
  BY DEF Acc, Thinking
<1>2. CASE thought = <<>>
  <2>1. new = was  BY <1>2 DEF accumulateThinking
  <2>2. 0 \in 0..Len(thought) /\ First(thought, 0) = thought  BY <1>2 DEF First
  <2>3. was.thinkingBuf \o <<>> = was.thinkingBuf
    <3> DEFINE s == was.thinkingBuf
    <3>1. s \in Seq(Char \cup {Thought})  BY <1>1
    <3> HIDE DEF s
    <3>2. s \o <<>> = s  BY <3>1
    <3> QED  BY <3>2 DEF s
  <2>4. new.thinkingBuf = was.thinkingBuf \o First(thought, 0)  BY <1>2, <2>1, <2>2, <2>3
  <2> QED  BY <2>1, <2>2, <2>4 DEF Thinks
<1>3. CASE thought # <<>>
  <2> DEFINE r == applyMaxTokensBudget(was, thought)
             x == r.acc
  <2>1. Limited(was, x) /\ (~x.localStop => r.out = thought)  BY BudgetLimits
  <2>2. /\ \E n \in 0..Len(thought) : r.out = First(thought, n)
        /\ \/ x.localStop = was.localStop /\ x.stopReason = was.stopReason /\ r.out = thought
           \/ x.localStop = TRUE /\ x.stopReason = "max_tokens"
    BY <1>1, BudgetCuts
  <2>3. new = [x EXCEPT !.thinkingBuf = @ \o r.out]  BY <1>3 DEF accumulateThinking
  <2>4. new \in Acc  BY ThinkingKeeps DEF Keeps
  <2> HIDE DEF r, x
  <2>5. x \in Acc  BY <2>1 DEF Limited
  <2>6. /\ new.textBuf = x.textBuf /\ new.stopSeqPending = x.stopSeqPending
        /\ new.stopReason = x.stopReason /\ new.localStop = x.localStop
        /\ new.stopSequence = x.stopSequence
    BY <2>3, <2>5 DEF Acc
  <2>7. Rest(new) = Rest(x)  BY <2>3, <2>5 DEF Acc, Rest
  <2>8. new.thinkingBuf = x.thinkingBuf \o r.out  BY <2>3, <2>5 DEF Acc
  <2>9. Thinks(was, new)
    BY <2>1, <2>2, <2>4, <2>6, <2>7 DEF Thinks, Limited
  <2>10. PICK n \in 0..Len(thought) : r.out = First(thought, n)  BY <2>2
  <2>11. new.thinkingBuf = was.thinkingBuf \o First(thought, n)
    BY <2>1, <2>8, <2>10 DEF Limited
  <2>12. ~new.localStop => First(thought, n) = thought  BY <2>1, <2>6, <2>10
  <2> QED  BY <2>9, <2>11, <2>12
<1> QED  BY <1>2, <1>3

LEMMA TaggedAdds ==
  ASSUME NEW was \in Acc, NEW new, NEW h \in Thinking, new.thinkingBuf = was.thinkingBuf \o h
  PROVE  Tagged(new) = Tagged(was) \o Filter(h, Char)
<1> DEFINE s == was.thinkingBuf
<1>1. s \in Seq(Char \cup {Thought}) /\ h \in Seq(Char \cup {Thought})  BY DEF Acc, Thinking
<1> HIDE DEF s
<1>2. Filter(s \o h, Char) = Filter(s, Char) \o Filter(h, Char)  BY <1>1, FilterConcat
<1> QED  BY <1>2 DEF s, Tagged

LEMMA TaggedIsText ==
  ASSUME NEW was \in Acc
  PROVE  Tagged(was) \in Text
<1> DEFINE s == was.thinkingBuf
<1>1. s \in Seq(Char \cup {Thought})  BY DEF Acc, Thinking
<1>2. (Char \cup {Thought}) \cap Char = Char  OBVIOUS
<1> HIDE DEF s
<1>3. Filter(s, Char) \in Seq((Char \cup {Thought}) \cap Char)  BY <1>1, FilterType
<1> QED  BY <1>2, <1>3 DEF s, Tagged, Text

LEMMA TextIsThinking ==
  ASSUME NEW s \in Text PROVE s \in Thinking
<1>1. s \in Seq(Char)  BY DEF Text
<1>2. s \in Seq(Char \cup {Thought})  BY <1>1
<1> QED  BY <1>2 DEF Thinking

(* Until it stops, the accumulator has delivered all thinking H between    *)
(* tags; afterwards, the beginning of it.                                  *)
ThinkingFits(was, H) == StartOf(Tagged(was), H) /\ (~was.localStop => Tagged(was) = H)

LEMMA ThinkingSays ==
  ASSUME request \in Request, NEW was \in Acc, ~was.localStop, NEW H \in Text,
         ThinkingFits(was, H), NEW thought \in Text,
         NEW new, new = accumulateThinking(was, thought)
  PROVE  Thinks(was, new) /\ ThinkingFits(new, H \o thought)
<1>1. thought \in Thinking  BY TextIsThinking
<1>2. Thinks(was, new)  BY <1>1, ThinkingAdds
<1>3. PICK n \in 0..Len(thought) :
        /\ new.thinkingBuf = was.thinkingBuf \o First(thought, n)
        /\ ~new.localStop => First(thought, n) = thought
  BY <1>1, ThinkingAdds
<1> DEFINE h == First(thought, n)
           z == After(thought, n)
<1>4. h \in Seq(Char) /\ z \in Seq(Char) /\ thought = h \o z
  BY FirstStarts DEF Text
<1> HIDE DEF h, z
<1>5. Filter(h, Char) = h  BY <1>4, FilterAll
<1>6. h \in Text /\ z \in Text  BY <1>4 DEF Text
<1>7. new.thinkingBuf = was.thinkingBuf \o h  BY <1>3 DEF h
<1>8. h \in Thinking  BY <1>6, TextIsThinking
<1>9. Tagged(new) = Tagged(was) \o h  BY <1>5, <1>7, <1>8, TaggedAdds
<1>10. Tagged(was) = H  BY DEF ThinkingFits
<1>11. StartOf(h, thought)  BY <1>4, <1>6 DEF StartOf
<1>12. StartOf(H \o h, H \o thought)  BY <1>6, <1>11, StartsAfter
<1>13. ~new.localStop => h = thought  BY <1>3 DEF h
<1> QED  BY <1>2, <1>9, <1>10, <1>12, <1>13 DEF ThinkingFits

LEMMA ThoughtSays ==
  ASSUME request \in Request, NEW was \in Acc, NEW H, ThinkingFits(was, H),
         NEW thought \in Seq({Thought}), NEW new, new = accumulateThinking(was, thought)
  PROVE  Thinks(was, new) /\ ThinkingFits(new, H)
<1>1. thought \in Thinking
  <2>1. thought \in Seq(Char \cup {Thought})  OBVIOUS
  <2> QED  BY <2>1 DEF Thinking
<1>2. Thinks(was, new)  BY <1>1, ThinkingAdds
<1>3. PICK n \in 0..Len(thought) : new.thinkingBuf = was.thinkingBuf \o First(thought, n)
  BY <1>1, ThinkingAdds
<1> DEFINE h == First(thought, n)
<1>4. h \in Seq({Thought})  BY FirstStarts
<1> HIDE DEF h
<1>5. {Thought} \cap Char = {}  BY ThoughtsDiffer
<1>6. Filter(h, Char) = <<>>  BY <1>4, <1>5, FilterNone
<1>7. h \in Thinking
  <2>1. h \in Seq(Char \cup {Thought})  BY <1>4
  <2> QED  BY <2>1 DEF Thinking
<1>8. Tagged(new) = Tagged(was) \o <<>>  BY <1>3, <1>6, <1>7, TaggedAdds DEF h
<1>9. Tagged(was) \o <<>> = Tagged(was)
  <2> DEFINE x == Tagged(was)
  <2>1. x \in Seq(Char)  BY TaggedIsText DEF Text
  <2> HIDE DEF x
  <2>2. x \o <<>> = x  BY <2>1
  <2> QED  BY <2>2 DEF x
<1>10. Tagged(new) = Tagged(was)  BY <1>8, <1>9
<1> QED  BY <1>2, <1>10 DEF ThinkingFits, Thinks
----------------------------------------------------------------------------
(* What was delivered of the text T: its beginning, up to the stop         *)
(* sequence if one stopped the accumulator; all but what is held back,     *)
(* until it stops.                                                         *)
TextFits(was, T) ==
  /\ StartOf(was.textBuf, T)
  /\ was.stopReason = "stop_sequence" =>
       was.localStop /\ CutAt(was.textBuf, T, was.stopSequence)
  /\ ~was.localStop => Whole(was.textBuf, was.stopSeqPending, T)

LEMMA WholeStarts ==
  ASSUME NEW x, NEW y \in Text, NEW T, Whole(x, y, T)
  PROVE  StartOf(x, T)
BY DEF Whole, StartOf

LEMMA CutStarts ==
  ASSUME NEW x, NEW T \in Text, NEW t \in Text, CutAt(x, T, t)
  PROVE  StartOf(x, T)
<1> DEFINE i == Index(T, t)
<1>1. i # -1 /\ x = First(T, i)  BY DEF CutAt
<1>2. i \in 0..Len(T)  BY <1>1, IndexIs
<1> HIDE DEF i
<1>3. After(T, i) \in Seq(Char) /\ T = First(T, i) \o After(T, i)
  BY <1>2, FirstStarts DEF Text
<1> QED  BY <1>1, <1>3 DEF StartOf, Text

(* What is left of a text after the filter and after the budget.           *)
Filtered(was, text) ==
  IF Stops = {} THEN [acc |-> was, out |-> text] ELSE applyStopSequenceFilter(was, text)
Budgeted(f) ==
  IF f.out # <<>> /\ ~f.acc.localStop THEN applyMaxTokensBudget(f.acc, f.out) ELSE f
Appended(r) == [r.acc EXCEPT !.textBuf = @ \o r.out]

LEMMA FilteredSays ==
  ASSUME request \in Request, NEW was \in Acc, NEW T \in Text,
         Whole(was.textBuf, was.stopSeqPending, T), NEW text \in Text,
         NEW f, f = Filtered(was, text)
  PROVE  /\ f.acc \in Acc /\ f.out \in Text /\ Rest(f.acc) = Rest(was)
         /\ f.acc.textBuf = was.textBuf /\ f.acc.thinkingBuf = was.thinkingBuf
         /\ was.localStop => f.acc.localStop
         /\ Passes(was, f, T \o text)
<1>1. CASE Stops = {}
  <2>1. f.acc = was /\ f.out = text  BY <1>1 DEF Filtered
  <2>2. was.stopSeqPending = <<>>  BY <1>1 DEF Whole, Held
  <2>3. was.textBuf = T /\ (T \o text) \o <<>> = T \o text
    <3> DEFINE x == was.textBuf
               z == T \o text
    <3>1. x \in Seq(Char) /\ z \in Seq(Char)  BY AccTexts, TextConcat DEF Text
    <3>2. x \o <<>> = T  BY <2>2 DEF Whole
    <3> HIDE DEF x, z
    <3>3. x \o <<>> = x /\ z \o <<>> = z  BY <3>1
    <3> QED  BY <3>2, <3>3 DEF x, z
  <2>4. NoneIn(T \o text) /\ Held(T \o text, <<>>)  BY <1>1 DEF NoneIn, Held
  <2>5. Whole(was.textBuf \o f.out, f.acc.stopSeqPending, T \o text)
    BY <2>1, <2>2, <2>3, <2>4 DEF Whole
  <2>6. Passes(was, f, T \o text)  BY <2>1, <2>5 DEF Passes
  <2> QED  BY <2>1, <2>6
<1>2. CASE Stops # {}
  <2> DEFINE g == applyStopSequenceFilter(was, text)
             x == g.acc
  <2>1. f = g  BY <1>2 DEF Filtered
  <2>2. Passes(was, g, T \o text)  BY <1>2, StopFinds
  <2>3. /\ x \in Acc /\ g.out \in Text
        /\ x = [was EXCEPT !.localStop = x.localStop, !.stopReason = x.stopReason,
                           !.stopSequence = x.stopSequence,
                           !.stopSeqPending = x.stopSeqPending]
        /\ was.localStop => x.localStop
        /\ ~x.localStop => x.stopReason = was.stopReason
    BY StopFiltered
  <2> HIDE DEF x
  <2>4. Rest(x) = Rest(was)  BY <2>3 DEF Acc, Rest
  <2>5. x.textBuf = was.textBuf /\ x.thinkingBuf = was.thinkingBuf  BY <2>3 DEF Acc
  <2> QED  BY <2>1, <2>2, <2>3, <2>4, <2>5 DEF x
<1> QED  BY <1>1, <1>2

LEMMA BudgetedSays ==
  ASSUME request \in Request, NEW was \in Acc, was.stopReason # "stop_sequence",
         NEW T \in Text, NEW f, f.acc \in Acc, f.out \in Text, f.acc.textBuf = was.textBuf,
         Passes(was, f, T), NEW new \in Acc,
         new = Appended(Budgeted(f))
  PROVE  /\ TextFits(new, T) /\ Rest(new) = Rest(f.acc)
         /\ new.thinkingBuf = f.acc.thinkingBuf
<1> DEFINE r == Budgeted(f)
           x == r.acc
           y == f.acc
           before == was.textBuf
<1>1. new = [x EXCEPT !.textBuf = @ \o r.out]  BY DEF Appended
<1>2. /\ Limited(y, x) /\ (~x.localStop => r.out = f.out) /\ r.out \in Text
      /\ StartOf(r.out, f.out)
      /\ \/ x.stopReason = y.stopReason /\ x.localStop = y.localStop /\ r.out = f.out
         \/ x.stopReason = "max_tokens" /\ ~y.localStop /\ x.localStop
  <2>1. CASE f.out # <<>> /\ ~y.localStop
    <3> DEFINE g == applyMaxTokensBudget(f.acc, f.out)
    <3>1. r = g  BY <2>1 DEF Budgeted
    <3>2. f.out \in Thinking  BY TextIsThinking
    <3>3. Limited(f.acc, g.acc) /\ (~g.acc.localStop => g.out = f.out)
      BY <3>2, BudgetLimits
    <3>4. /\ \E n \in 0..Len(f.out) : g.out = First(f.out, n)
          /\ \/ g.acc.localStop = f.acc.localStop /\ g.acc.stopReason = f.acc.stopReason
                /\ g.out = f.out
             \/ g.acc.localStop = TRUE /\ g.acc.stopReason = "max_tokens"
      BY <3>2, BudgetCuts
    <3> HIDE DEF g
    <3>5. PICK n \in 0..Len(f.out) : g.out = First(f.out, n)  BY <3>4
    <3>6. /\ First(f.out, n) \in Seq(Char) /\ After(f.out, n) \in Seq(Char)
          /\ f.out = First(f.out, n) \o After(f.out, n)
      BY FirstStarts DEF Text
    <3>7. g.out \in Text /\ StartOf(g.out, f.out)  BY <3>5, <3>6 DEF StartOf, Text
    <3> QED  BY <2>1, <3>1, <3>3, <3>4, <3>7
  <2>2. CASE ~(f.out # <<>> /\ ~y.localStop)
    <3>1. r = f  BY <2>2 DEF Budgeted
    <3>2. StartOf(f.out, f.out)  BY StartsItself
    <3>3. Limited(y, y)  BY DEF Limited
    <3> HIDE DEF r
    <3> QED  BY <3>1, <3>2, <3>3
  <2> QED  BY <2>1, <2>2
<1> HIDE DEF r, x
<1>3. x \in Acc  BY <1>2 DEF Limited
<1>4. /\ new.stopSeqPending = x.stopSeqPending /\ new.stopReason = x.stopReason
      /\ new.localStop = x.localStop /\ new.stopSequence = x.stopSequence
      /\ new.thinkingBuf = x.thinkingBuf
  BY <1>1, <1>3 DEF Acc
<1>5. Rest(new) = Rest(x)  BY <1>1, <1>3 DEF Acc, Rest
<1>6. new.textBuf = x.textBuf \o r.out  BY <1>1, <1>3 DEF Acc
<1>7. new.textBuf = before \o r.out  BY <1>2, <1>6 DEF Limited
<1>8. /\ new.stopSeqPending = y.stopSeqPending /\ new.stopSequence = y.stopSequence
      /\ new.thinkingBuf = y.thinkingBuf /\ Rest(new) = Rest(y)
  BY <1>2, <1>4, <1>5 DEF Limited
<1>9. before \in Text /\ y.stopSeqPending \in Text /\ y.stopSequence \in Text
  BY AccTexts DEF Acc
<1>10. CASE /\ y.localStop /\ y.stopReason = "stop_sequence"
            /\ CutAt(before \o f.out, T, y.stopSequence)
  <2>1. r.out = f.out /\ x.localStop  BY <1>2, <1>10
  <2>2. CutAt(new.textBuf, T, new.stopSequence)  BY <1>7, <1>8, <1>10, <2>1
  <2>3. StartOf(new.textBuf, T)  BY <1>8, <1>9, <2>2, CutStarts
  <2>4. new.localStop  BY <1>4, <2>1
  <2> QED  BY <1>8, <2>2, <2>3, <2>4 DEF TextFits
<1>11. CASE /\ y.localStop = was.localStop /\ y.stopReason = was.stopReason
            /\ Whole(before \o f.out, y.stopSeqPending, T)
  <2>1. StartOf(before \o f.out, T)  BY <1>9, <1>11, WholeStarts
  <2>2. StartOf(before \o r.out, before \o f.out)
    <3> HIDE DEF before
    <3> QED  BY <1>2, <1>9, StartsAfter
  <2>3. before \o r.out \in Text /\ before \o f.out \in Text
    <3> HIDE DEF before
    <3> QED  BY <1>2, <1>9, TextConcat
  <2>4. StartOf(before \o r.out, T)  BY <2>1, <2>2, <2>3, StartsFurther
  <2>5. new.stopReason # "stop_sequence"  BY <1>2, <1>4, <1>11
  <2>6. ~new.localStop => Whole(new.textBuf, new.stopSeqPending, T)
    BY <1>2, <1>4, <1>7, <1>8, <1>11
  <2> QED  BY <1>7, <1>8, <2>4, <2>5, <2>6 DEF TextFits
<1> QED  BY <1>10, <1>11 DEF Passes

LEMMA TextSays ==
  ASSUME request \in Request, NEW was \in Acc, was.stopReason # "stop_sequence",
         NEW T \in Text, Whole(was.textBuf, was.stopSeqPending, T), NEW text \in Text,
         NEW new, new = AccumulateText(was, text)
  PROVE  /\ new \in Acc /\ (was.localStop => new.localStop)
         /\ Rest(new) = Rest(was) /\ new.thinkingBuf = was.thinkingBuf
         /\ TextFits(new, T \o text)
<1>1. new \in Acc /\ (was.localStop => new.localStop)  BY TextKeeps DEF Keeps
<1>2. CASE text = <<>>
  <2>1. new = was  BY <1>2 DEF AccumulateText
  <2>2. T \o text = T
    <3>1. T \in Seq(Char)  BY DEF Text
    <3> QED  BY <1>2, <3>1
  <2>3. StartOf(was.textBuf, T)  BY AccTexts, WholeStarts
  <2>4. TextFits(was, T)  BY <2>3 DEF TextFits
  <2> QED  BY <1>1, <2>1, <2>2, <2>4
<1>3. CASE text # <<>>
  <2> DEFINE f == Filtered(was, text)
             all == T \o text
  <2>1. new = Appended(Budgeted(f))
    BY <1>3 DEF AccumulateText, Filtered, Budgeted, Appended
  <2>2. /\ f.acc \in Acc /\ f.out \in Text /\ Rest(f.acc) = Rest(was)
        /\ f.acc.textBuf = was.textBuf /\ f.acc.thinkingBuf = was.thinkingBuf
        /\ Passes(was, f, all)
    BY FilteredSays
  <2>3. all \in Text  BY TextConcat
  <2> HIDE DEF f, all
  <2>4. /\ TextFits(new, all) /\ Rest(new) = Rest(f.acc)
        /\ new.thinkingBuf = f.acc.thinkingBuf
    BY <1>1, <2>1, <2>2, <2>3, BudgetedSays
  <2> QED  BY <1>1, <2>2, <2>4 DEF all
<1> QED  BY <1>2, <1>3
----------------------------------------------------------------------------
(* Deltas: Kiro sends the whole text again.                                *)
LEMMA DeltaIsNew ==
  ASSUME NEW s \in Text, NEW c \in Text
  PROVE  ComputeDelta(s \o c, s) = c
<1> DEFINE z == s \o c
           d == After(z, Len(s))
<1>1. z \in Seq(Char) /\ s \in Seq(Char) /\ c \in Seq(Char) /\ z \in Text
      /\ Len(s) \in Nat /\ Len(c) \in Nat /\ Len(z) = Len(s) + Len(c)
      /\ \A i \in 1..Len(c) : z[Len(s) + i] = c[i]
  BY DEF Text
<1>2. StartOf(s, z)  BY DEF StartOf
<1> HIDE DEF z
<1>3. IsPrefix(s, z)  BY <1>1, <1>2, StartIsPrefix
<1>4. d = c
  <2>1. Len(s) \in 0..Len(z)  BY <1>1
  <2>2. /\ d \in Seq(Char) /\ Len(d) = Len(z) - Len(s)
        /\ \A t \in 1..(Len(z) - Len(s)) : d[t] = z[Len(s) + t]
    BY <1>1, <2>1, AfterIs
  <2>3. Len(z) - Len(s) = Len(c)  BY <1>1
  <2> HIDE DEF d
  <2>4. Len(d) = Len(c) /\ \A t \in 1..Len(c) : d[t] = c[t]  BY <1>1, <2>2, <2>3
  <2>5. d \in Seq(Char) /\ c \in Seq(Char)  BY <1>1, <2>2
  <2> QED  BY <2>4, <2>5
<1>5. s = <<>> => z = c
  <2>1. <<>> \o c = c  BY <1>1
  <2> QED  BY <2>1 DEF z
<1>6. ComputeDelta(z, s) = c
  BY <1>3, <1>4, <1>5 DEF ComputeDelta
<1> QED  BY <1>6 DEF z

LEMMA BeginningFurther ==
  ASSUME NEW s \in Text, NEW c \in Text, NEW T, NEW H, Beginning(s, T, H)
  PROVE  Beginning(s \o c, T, H)
<1> SUFFICES ASSUME NEW d \in Text
             PROVE  StartOf(T, Split((s \o c) \o d).text)
                    /\ StartOf(H, Split((s \o c) \o d).thinking)
  BY DEF Beginning
<1>1. (s \o c) \o d = s \o (c \o d)  BY TextConcats
<1>2. c \o d \in Text  BY TextConcat
<1> QED  BY <1>1, <1>2 DEF Beginning

LEMMA BeginningHere ==
  ASSUME NEW s \in Text, NEW T, NEW H, Beginning(s, T, H)
  PROVE  StartOf(T, Split(s).text) /\ StartOf(H, Split(s).thinking)
<1>1. <<>> \in Text  BY DEF Text
<1>2. s \o <<>> = s
  <2>1. s \in Seq(Char)  BY DEF Text
  <2> QED  BY <2>1
<1>3. StartOf(T, Split(s \o <<>>).text) /\ StartOf(H, Split(s \o <<>>).thinking)
  BY <1>1 DEF Beginning
<1> QED  BY <1>2, <1>3

(* How far the accumulator has come with the text s that Kiro has sent: it *)
(* has found the text T and the thinking H, with which the whole text and  *)
(* the whole thinking begin, and has delivered what fits them; until it    *)
(* stops, only the buffer of the tag parser is not in them.                *)
Settles(was) == Len(was.thinkingTagBuf) < Len(Tag(was.thinkingTagInside))
Follows(was, s, T, H) ==
  /\ Beginning(s, T, H) /\ TextFits(was, T) /\ ThinkingFits(was, H)
  /\ ~was.localStop =>
       Parsed(s, was.thinkingTagBuf, was.thinkingTagInside, T, H) /\ Settles(was)

Core(was) ==
  <<was.textBuf, was.thinkingBuf, was.stopSeqPending, was.stopReason, was.stopSequence,
    was.localStop, was.thinkingTagBuf, was.thinkingTagInside>>

LEMMA CoreFollows ==
  ASSUME NEW was, NEW new, Core(new) = Core(was), NEW s, NEW T, NEW H, Follows(was, s, T, H)
  PROVE  Follows(new, s, T, H)
<1>1. /\ new.textBuf = was.textBuf /\ new.thinkingBuf = was.thinkingBuf
      /\ new.stopSeqPending = was.stopSeqPending /\ new.stopReason = was.stopReason
      /\ new.stopSequence = was.stopSequence /\ new.localStop = was.localStop
      /\ new.thinkingTagBuf = was.thinkingTagBuf
      /\ new.thinkingTagInside = was.thinkingTagInside
  BY DEF Core
<1>2. TextFits(new, T) <=> TextFits(was, T)  BY <1>1 DEF TextFits
<1>3. ThinkingFits(new, H) <=> ThinkingFits(was, H)  BY <1>1 DEF ThinkingFits, Tagged
<1>4. Settles(new) <=> Settles(was)  BY <1>1 DEF Settles
<1> QED  BY <1>1, <1>2, <1>3, <1>4 DEF Follows

LEMMA ThinksFollows ==
  ASSUME NEW was, NEW new, Thinks(was, new), NEW s, NEW T, NEW H, Follows(was, s, T, H),
         ThinkingFits(new, H)
  PROVE  Follows(new, s, T, H)
<1>1. /\ new.textBuf = was.textBuf /\ new.stopSeqPending = was.stopSeqPending
      /\ new.stopReason = was.stopReason \/ new.stopReason = "max_tokens"
      /\ new.stopSequence = was.stopSequence /\ (was.localStop => new.localStop)
  BY DEF Thinks
<1>2. new.thinkingTagBuf = was.thinkingTagBuf
      /\ new.thinkingTagInside = was.thinkingTagInside
  BY DEF Thinks, Rest
<1>3. TextFits(new, T)
  <2>1. TextFits(was, T)  BY DEF Follows
  <2> QED  BY <1>1, <2>1 DEF TextFits
<1>4. Settles(new) <=> Settles(was)  BY <1>2 DEF Settles
<1> QED  BY <1>1, <1>2, <1>3, <1>4 DEF Follows
----------------------------------------------------------------------------
(* What each handler does to that.                                         *)
LEMMA ContentSays ==
  ASSUME request \in Request, a \in Acc, NEW s \in Text, NEW c \in Text, a.lastContent = s,
         NEW T \in Text, NEW H \in Text, Follows(a, s, T, H),
         NEW new, new = AssistantContent(s \o c)
  PROVE  /\ new.lastContent = s \o c /\ new.lastThinking = a.lastThinking
         /\ \E U, K \in Text : Follows(new, s \o c, U, K)
<1> DEFINE z     == s \o c
           seen  == [a EXCEPT !.lastContent = z]
           p     == parseThinkingTags(a.thinkingTagBuf \o c, a.thinkingTagInside)
           taken == [seen EXCEPT !.thinkingTagBuf = p.buf, !.thinkingTagInside = p.in,
                                 !.suppressReasoningContent = @ \/ p.opened]
           mid   == accumulateThinking(taken, p.thinking)
<1>0. z \in Text  BY TextConcat
<1>1. new = IF c = <<>> \/ a.localStop THEN seen ELSE AccumulateText(mid, p.text)
  BY DeltaIsNew DEF AssistantContent
<1>2. Core(seen) = Core(a) /\ seen.lastContent = z /\ seen.lastThinking = a.lastThinking
      /\ seen \in Acc
  BY <1>0 DEF Core, Acc
<1>3. CASE c = <<>>
  <2>1. z = s
    <3>1. s \in Seq(Char)  BY DEF Text
    <3> QED  BY <1>3, <3>1
  <2>2. Follows(seen, z, T, H)  BY <1>2, <2>1, CoreFollows
  <2> HIDE DEF seen, z
  <2> QED  BY <1>1, <1>2, <1>3, <2>2 DEF z
<1>4. CASE a.localStop
  <2>1. Beginning(z, T, H)  BY BeginningFurther DEF Follows
  <2>2. Follows(a, z, T, H)  BY <1>4, <2>1 DEF Follows
  <2>3. Follows(seen, z, T, H)  BY <1>2, <2>2, CoreFollows
  <2> HIDE DEF seen, z
  <2> QED  BY <1>1, <1>2, <1>4, <2>3 DEF z
<1>5. CASE c # <<>> /\ ~a.localStop
  <2> DEFINE buf == a.thinkingTagBuf
             in  == a.thinkingTagInside
             U   == T \o p.text
             K   == H \o p.thinking
  <2>1. buf \in Text /\ in \in BOOLEAN /\ buf \o c \in Text
    <3>1. buf \in Text /\ in \in BOOLEAN  BY DEF Acc
    <3> HIDE DEF buf
    <3> QED  BY <3>1, TextConcat
  <2>2. Parsed(s, buf, in, T, H)  BY <1>5 DEF Follows
  <2>3. Parsed(z, buf \o c, in, T, H)
    <3> HIDE DEF buf, in
    <3> QED  BY <2>1, <2>2, ParsedFurther
  <2>4. p \in Parse /\ Settled(p) /\ Parsed(z, p.buf, p.in, U, K)
    <3> DEFINE all == buf \o c
    <3>1. p = parseThinkingTags(all, in)  OBVIOUS
    <3>2. all \in Text /\ Parsed(z, all, in, T, H)  BY <2>1, <2>3
    <3> HIDE DEF all, in, p, z
    <3> QED  BY <1>0, <2>1, <3>1, <3>2, ParseReads
  <2> HIDE DEF p
  <2>5. p.buf \in Text /\ p.text \in Text /\ p.thinking \in Text
        /\ p.in \in BOOLEAN /\ p.opened \in BOOLEAN
    BY <2>4 DEF Parse
  <2>6. U \in Text /\ K \in Text  BY <2>5, TextConcat
  <2>7. Beginning(z, U, K)
    <3> DEFINE inside == p.in
               left   == p.buf
    <3>1. Parsed(z, left, inside, U, K) /\ left \in Text  BY <2>4, <2>5
    <3> HIDE DEF inside, left, U, K, z
    <3> QED  BY <1>0, <2>6, <3>1, SplitBegins
  <2> DEFINE flag == seen.suppressReasoningContent \/ p.opened
  <2>8. flag \in BOOLEAN  BY <1>2, <2>5 DEF Acc
  <2>9. taken = [seen EXCEPT !.thinkingTagBuf = p.buf, !.thinkingTagInside = p.in,
                             !.suppressReasoningContent = flag]
    BY <1>2 DEF Acc
  <2> HIDE DEF flag, seen, taken
  <2>10. taken \in Acc  BY <1>2, <2>5, <2>8, <2>9 DEF Acc
  <2>11. /\ taken.textBuf = seen.textBuf /\ taken.thinkingBuf = seen.thinkingBuf
         /\ taken.stopSeqPending = seen.stopSeqPending
         /\ taken.stopReason = seen.stopReason /\ taken.localStop = seen.localStop
    BY <1>2, <2>9 DEF Acc
  <2>12. /\ taken.lastContent = seen.lastContent /\ taken.lastThinking = seen.lastThinking
         /\ taken.thinkingTagBuf = p.buf /\ taken.thinkingTagInside = p.in
    BY <1>2, <2>9 DEF Acc
  <2>13. Follows(seen, s, T, H) /\ ~seen.localStop
    <3>1. seen.localStop = a.localStop  BY <1>2 DEF Core
    <3> QED  BY <1>2, <1>5, <3>1, CoreFollows
  <2>14. /\ Whole(taken.textBuf, taken.stopSeqPending, T) /\ taken.stopReason # "stop_sequence"
         /\ ThinkingFits(taken, H) /\ ~taken.localStop
    <3>1. TextFits(seen, T) /\ ThinkingFits(seen, H)  BY <2>13 DEF Follows
    <3>2. Whole(seen.textBuf, seen.stopSeqPending, T) /\ seen.stopReason # "stop_sequence"
      BY <2>13, <3>1 DEF TextFits
    <3>3. ThinkingFits(taken, H)  BY <2>11, <3>1 DEF ThinkingFits, Tagged
    <3> QED  BY <2>11, <2>13, <3>2, <3>3
  <2>15. Thinks(taken, mid) /\ ThinkingFits(mid, K)  BY <2>5, <2>10, <2>14, ThinkingSays
  <2> HIDE DEF mid
  <2>16. mid \in Acc /\ mid.stopReason # "stop_sequence"
         /\ Whole(mid.textBuf, mid.stopSeqPending, T)
    BY <2>14, <2>15 DEF Thinks
  <2>17. new = AccumulateText(mid, p.text)  BY <1>1, <1>5
  <2>18. /\ new \in Acc /\ (mid.localStop => new.localStop)
         /\ Rest(new) = Rest(mid) /\ new.thinkingBuf = mid.thinkingBuf
         /\ TextFits(new, U)
    BY <2>5, <2>16, <2>17, TextSays
  <2> HIDE DEF U, K
  <2>19. ThinkingFits(new, K)  BY <2>15, <2>18 DEF ThinkingFits, Tagged
  <2>20. Rest(new) = Rest(taken)  BY <2>15, <2>18 DEF Thinks
  <2>21. /\ new.lastContent = z /\ new.lastThinking = a.lastThinking
         /\ new.thinkingTagBuf = p.buf /\ new.thinkingTagInside = p.in
    BY <1>2, <2>12, <2>20 DEF Rest
  <2>22. Settles(new)  BY <2>4, <2>21 DEF Settles, Settled
  <2>23. Parsed(z, new.thinkingTagBuf, new.thinkingTagInside, U, K)  BY <2>4, <2>21
  <2>24. Follows(new, z, U, K)  BY <2>7, <2>18, <2>19, <2>22, <2>23 DEF Follows
  <2> HIDE DEF z
  <2> QED  BY <2>6, <2>21, <2>24 DEF z
<1> QED  BY <1>3, <1>4, <1>5
Reasoned(thinking) ==
  LET seen == [a EXCEPT !.lastThinking = thinking]
  IN  IF a.suppressReasoningContent THEN a
      ELSE IF a.localStop THEN seen
      ELSE accumulateThinking(seen, ComputeDelta(thinking, a.lastThinking))

LEMMA ReasoningSays ==
  ASSUME request \in Request, a \in Acc, a.lastThinking \in Seq({Thought}),
         NEW s, NEW T, NEW H, Follows(a, s, T, H),
         NEW thinking, thinking = Append(a.lastThinking, Thought),
         NEW new, new = Reasoned(thinking)
  PROVE  /\ new.lastContent = a.lastContent /\ new.lastThinking \in Seq({Thought})
         /\ Follows(new, s, T, H)
<1> DEFINE seen  == [a EXCEPT !.lastThinking = thinking]
           delta == ComputeDelta(thinking, a.lastThinking)
           last  == a.lastThinking
<1>1. last \in Seq({Thought}) /\ thinking \in Seq({Thought}) /\ thinking \in Thinking
  <2>1. last \in Seq({Thought})  OBVIOUS
  <2>2. thinking = Append(last, Thought)  OBVIOUS
  <2> HIDE DEF last
  <2>3. thinking \in Seq({Thought})  BY <2>1, <2>2
  <2>4. thinking \in Seq(Char \cup {Thought})  BY <2>3
  <2> QED  BY <2>1, <2>3, <2>4 DEF Thinking
<1>2. delta \in Seq({Thought})  BY <1>1, DeltaType
<1>3. Core(seen) = Core(a) /\ seen \in Acc /\ seen.lastContent = a.lastContent
      /\ seen.lastThinking = thinking
  BY <1>1 DEF Core, Acc
<1> HIDE DEF delta, seen
<1>4. new \in {a, seen} \/ new = accumulateThinking(seen, delta)
  BY DEF delta, seen, Reasoned
<1>5. Follows(seen, s, T, H)  BY <1>3, CoreFollows
<1>6. CASE new = a  BY <1>6
<1>7. CASE new = seen  BY <1>1, <1>3, <1>5, <1>7
<1>8. CASE new = accumulateThinking(seen, delta)
  <2>1. ThinkingFits(seen, H)  BY <1>5 DEF Follows
  <2>2. Thinks(seen, new) /\ ThinkingFits(new, H)  BY <1>2, <1>3, <1>8, <2>1, ThoughtSays
  <2>3. Follows(new, s, T, H)  BY <1>5, <2>2, ThinksFollows
  <2>4. new.lastContent = seen.lastContent /\ new.lastThinking = seen.lastThinking
    BY <2>2 DEF Thinks, Rest
  <2> QED  BY <1>1, <1>3, <2>3, <2>4
<1> QED  BY <1>4, <1>6, <1>7, <1>8

(* The other events leave the text and the thinking alone.                 *)
Spares(was, new) == Thinks(was, new) /\ new.thinkingBuf = was.thinkingBuf

LEMMA SparesFollows ==
  ASSUME NEW was, NEW new, Spares(was, new), NEW s, NEW T, NEW H, Follows(was, s, T, H)
  PROVE  /\ new.lastContent = was.lastContent /\ new.lastThinking = was.lastThinking
         /\ Follows(new, s, T, H)
<1>1. Thinks(was, new) /\ new.thinkingBuf = was.thinkingBuf  BY DEF Spares
<1>2. ThinkingFits(was, H)  BY DEF Follows
<1>3. was.localStop => new.localStop  BY <1>1 DEF Thinks
<1>4. ThinkingFits(new, H)  BY <1>1, <1>2, <1>3 DEF ThinkingFits, Tagged
<1>5. new.lastContent = was.lastContent /\ new.lastThinking = was.lastThinking
  BY <1>1 DEF Thinks, Rest
<1> QED  BY <1>1, <1>4, <1>5, ThinksFollows

LEMMA ToolUseSpares ==
  ASSUME a \in Acc, NEW tool, NEW new \in Acc, new = Recorded(tool)
  PROVE  Spares(a, new)
<1> DEFINE made  == Append(a.toolCalls, Restored(tool))
           runes == a.toolRunes + Len(tool.input)
           total == a.outputRuneCount + Len(tool.input)
           was   == [a EXCEPT !.toolCalls = made, !.toolRunes = runes,
                              !.outputRuneCount = total]
<1>1. new = was \/ new = Stopped(was, "max_tokens")
  BY DEF Recorded, Acc
<1> HIDE DEF made, runes, total
<1>2. /\ was.textBuf = a.textBuf /\ was.thinkingBuf = a.thinkingBuf
      /\ was.stopSeqPending = a.stopSeqPending /\ was.stopReason = a.stopReason
      /\ was.stopSequence = a.stopSequence /\ was.localStop = a.localStop
  BY DEF Acc
<1>3. Rest(was) = Rest(a)  BY DEF Acc, Rest
<1>4. CASE new = was  BY <1>2, <1>3, <1>4 DEF Spares, Thinks
<1>5. CASE new = Stopped(was, "max_tokens")
  <2>1. new = [a EXCEPT !.toolCalls = made, !.toolRunes = runes, !.outputRuneCount = total,
                        !.localStop = TRUE, !.stopReason = "max_tokens"]
    BY <1>5 DEF Stopped, Acc
  <2>2. /\ new.textBuf = a.textBuf /\ new.thinkingBuf = a.thinkingBuf
        /\ new.stopSeqPending = a.stopSeqPending /\ new.stopReason = "max_tokens"
        /\ new.stopSequence = a.stopSequence /\ new.localStop = TRUE
    BY <2>1 DEF Acc
  <2>3. Rest(new) = Rest(a)  BY <2>1 DEF Acc, Rest
  <2> QED  BY <2>2, <2>3 DEF Spares, Thinks
<1> QED  BY <1>1, <1>4, <1>5

LEMMA UsageSpares ==
  ASSUME a \in Acc, NEW new \in Acc, NEW e,
         \/ new = [a EXCEPT !.hasMetadata = TRUE, !.inputTokens = e.input,
                            !.outputTokens = e.output, !.cacheTokens = e.cache]
         \/ new = [a EXCEPT !.hasContextUsage = TRUE, !.contextUsagePercentage = e.percent]
         \/ new = Counted(e)
         \/ new = [Counted(e) EXCEPT !.hasCredits = TRUE, !.credits = e.credits]
  PROVE  Spares(a, new)
<1> DEFINE Same(x) ==
             /\ x.textBuf = a.textBuf /\ x.thinkingBuf = a.thinkingBuf
             /\ x.stopSeqPending = a.stopSeqPending /\ x.stopReason = a.stopReason
             /\ x.stopSequence = a.stopSequence /\ x.localStop = a.localStop
             /\ x.lastContent = a.lastContent /\ x.lastThinking = a.lastThinking
             /\ x.thinkingTagBuf = a.thinkingTagBuf
             /\ x.thinkingTagInside = a.thinkingTagInside
           i == e.input
           o == e.output
           k == e.cache
           p == e.percent
           r == e.credits
           c == Counted(e)
<1> SUFFICES Same(new)  BY DEF Spares, Thinks, Rest
<1>1. c = a \/ c = [a EXCEPT !.inputTokens = i, !.outputTokens = o]  BY DEF Counted
<1>2. CASE new = [a EXCEPT !.hasMetadata = TRUE, !.inputTokens = i,
                           !.outputTokens = o, !.cacheTokens = k]
  BY <1>2 DEF Acc
<1>3. CASE new = [a EXCEPT !.hasContextUsage = TRUE, !.contextUsagePercentage = p]
  BY <1>3 DEF Acc
<1>4. CASE new = c
  <2> HIDE DEF c
  <2> QED  BY <1>1, <1>4 DEF Acc
<1>5. CASE new = [c EXCEPT !.hasCredits = TRUE, !.credits = r]
  <2> HIDE DEF c
  <2>1. CASE c = a
    <3>1. new = [a EXCEPT !.hasCredits = TRUE, !.credits = r]  BY <1>5, <2>1
    <3> QED  BY <3>1 DEF Acc
  <2>2. CASE c = [a EXCEPT !.inputTokens = i, !.outputTokens = o]
    <3>1. new = [a EXCEPT !.inputTokens = i, !.outputTokens = o, !.hasCredits = TRUE,
                          !.credits = r]
      BY <1>5, <2>2 DEF Acc
    <3> QED  BY <3>1 DEF Acc
  <2> QED  BY <1>1, <2>1, <2>2
<1> QED  BY <1>2, <1>3, <1>4, <1>5
----------------------------------------------------------------------------
(* The end: what was held back is delivered.                               *)
LEMMA FlushSays ==
  ASSUME request \in Request, NEW was \in Acc, NEW T,
         Whole(was.textBuf, was.stopSeqPending, T),
         NEW new, new = flushStopSeqPending(was), ~was.localStop
  PROVE  /\ new.thinkingBuf = was.thinkingBuf /\ new.stopSeqPending = <<>>
         /\ ~new.localStop => new.textBuf = T
<1> DEFINE out == was.stopSeqPending
           y   == [was EXCEPT !.stopSeqPending = <<>>]
           r   == applyMaxTokensBudget(y, out)
           x   == r.acc
<1>1. out \in Text /\ out \in Thinking /\ <<>> \in Text
  <2>1. out \in Text  BY AccTexts
  <2> HIDE DEF out
  <2> QED  BY <2>1, TextIsThinking DEF Text
<1>2. y \in Acc /\ y.textBuf = was.textBuf /\ y.thinkingBuf = was.thinkingBuf
      /\ y.stopSeqPending = <<>>
  BY <1>1 DEF Acc
<1>3. was.textBuf \o out = T  BY DEF Whole
<1>4. CASE out = <<>>
  <2>1. new = y  BY <1>4 DEF flushStopSeqPending
  <2>2. was.textBuf = T
    <3> DEFINE text == was.textBuf
    <3>1. text \in Seq(Char)  BY DEF Acc, Text
    <3>2. text \o <<>> = T  BY <1>3, <1>4
    <3> HIDE DEF text
    <3>3. text \o <<>> = text  BY <3>1
    <3> QED  BY <3>2, <3>3 DEF text
  <2> HIDE DEF y
  <2> QED  BY <1>2, <2>1, <2>2
<1>5. CASE out # <<>>
  <2>1. new = [x EXCEPT !.textBuf = @ \o r.out]  BY <1>5 DEF flushStopSeqPending
  <2> HIDE DEF y, out
  <2>2. Limited(y, x) /\ (~x.localStop => r.out = out)  BY <1>1, <1>2, BudgetLimits
  <2> HIDE DEF r, x
  <2>3. x \in Acc  BY <2>2 DEF Limited
  <2>4. new.thinkingBuf = x.thinkingBuf /\ new.stopSeqPending = x.stopSeqPending
        /\ new.localStop = x.localStop /\ new.textBuf = x.textBuf \o r.out
    BY <2>1, <2>3 DEF Acc
  <2>5. new.thinkingBuf = was.thinkingBuf /\ new.stopSeqPending = <<>>
    BY <1>2, <2>2, <2>4 DEF Limited
  <2>6. x.textBuf = was.textBuf  BY <1>2, <2>2 DEF Limited
  <2> QED  BY <1>3, <2>2, <2>4, <2>5, <2>6
<1> QED  BY <1>4, <1>5

LEMMA FinalizeSays ==
  ASSUME request \in Request, NEW was \in Acc, NEW s \in Text, NEW T \in Text, NEW H \in Text,
         Follows(was, s, T, H), ~was.localStop,
         NEW mid, mid = finalizeThinkingTags(was), ~mid.localStop
  PROVE  /\ Whole(mid.textBuf, mid.stopSeqPending, Split(s).text)
         /\ Tagged(mid) = Split(s).thinking
<1> DEFINE buf == was.thinkingTagBuf
           in  == was.thinkingTagInside
           y   == [was EXCEPT !.thinkingTagBuf = <<>>]
<1>1. buf \in Text /\ in \in BOOLEAN /\ <<>> \in Text
  <2>1. buf \in Text /\ in \in BOOLEAN  BY DEF Acc
  <2>2. <<>> \in Text  BY DEF Text
  <2> QED  BY <2>1, <2>2
<1>2. /\ y \in Acc /\ y.textBuf = was.textBuf /\ y.thinkingBuf = was.thinkingBuf
      /\ y.stopSeqPending = was.stopSeqPending /\ y.stopReason = was.stopReason
      /\ y.localStop = was.localStop
  BY <1>1 DEF Acc
<1>3. Parsed(s, buf, in, T, H) /\ Len(buf) < Len(Tag(in))  BY DEF Follows, Settles
<1>4. TextFits(was, T) /\ ThinkingFits(was, H)  BY DEF Follows
<1> HIDE DEF y
<1>5. /\ Whole(y.textBuf, y.stopSeqPending, T) /\ y.stopReason # "stop_sequence"
      /\ ThinkingFits(y, H) /\ ~y.localStop
  BY <1>2, <1>4 DEF TextFits, ThinkingFits, Tagged
<1>6. /\ in => Split(s).text = T /\ Split(s).thinking = H \o buf
      /\ ~in => Split(s).text = T \o buf /\ Split(s).thinking = H
  <2> HIDE DEF buf, in
  <2> QED  BY <1>1, <1>3, SplitEnds
<1>7. CASE in
  <2>1. mid = accumulateThinking(y, buf)  BY <1>7 DEF finalizeThinkingTags, y
  <2> HIDE DEF buf
  <2>2. Thinks(y, mid) /\ ThinkingFits(mid, H \o buf)
    BY <1>1, <1>2, <1>5, <2>1, ThinkingSays
  <2>3. Tagged(mid) = H \o buf  BY <2>2 DEF ThinkingFits
  <2>4. mid.textBuf = y.textBuf /\ mid.stopSeqPending = y.stopSeqPending
    BY <2>2 DEF Thinks
  <2> QED  BY <1>5, <1>6, <1>7, <2>3, <2>4
<1>8. CASE ~in
  <2>1. mid = AccumulateText(y, buf)  BY <1>8 DEF finalizeThinkingTags, y
  <2> HIDE DEF buf
  <2>2. mid.thinkingBuf = y.thinkingBuf /\ TextFits(mid, T \o buf)
    BY <1>1, <1>2, <1>5, <2>1, TextSays
  <2>3. Whole(mid.textBuf, mid.stopSeqPending, T \o buf)  BY <2>2 DEF TextFits
  <2>4. Tagged(mid) = H  BY <1>5, <2>2 DEF ThinkingFits, Tagged
  <2> QED  BY <1>6, <1>8, <2>3, <2>4
<1> QED  BY <1>7, <1>8

----------------------------------------------------------------------------
(* The invariant: the accumulator follows what Kiro says, and has          *)
(* delivered all of it in the end.                                         *)
Following ==
  /\ a.lastContent = said /\ a.lastThinking \in Seq({Thought})
  /\ \E T, H \in Text : Follows(a, said, T, H)
Ended ==
  ~a.localStop => /\ a.textBuf = Split(said).text /\ Tagged(a) = Split(said).thinking
                  /\ a.stopSeqPending = <<>> /\ NoneIn(a.textBuf)
Told == IF stage = "finished" THEN Ended ELSE Following

LEMMA ToldInit == AccInit => Told
<1> SUFFICES ASSUME AccInit PROVE Told  OBVIOUS
<1>1. /\ a.lastContent = <<>> /\ a.lastThinking = <<>> /\ a.textBuf = <<>>
      /\ a.thinkingBuf = <<>> /\ a.stopSeqPending = <<>> /\ a.thinkingTagBuf = <<>>
      /\ a.thinkingTagInside = FALSE /\ a.localStop = FALSE /\ a.stopReason = ""
      /\ said = <<>> /\ stage = "open" /\ request \in Request
  BY RequestsAreTyped DEF AccInit, newAccumulator
<1>2. <<>> \in Text /\ <<>> \in Seq({Thought})  BY DEF Text
<1>3. Beginning(<<>>, <<>>, <<>>)  BY <1>2, ParsedNothing, SplitBegins
<1>4. <<>> \o <<>> = <<>> /\ StartOf(<<>>, <<>>)  BY <1>2, StartsItself
<1>5. NoneIn(<<>>)
  <2>1. ASSUME NEW i \in Stops PROVE Index(<<>>, StopSequences[i]) = -1
    <3> DEFINE t == StopSequences[i]
    <3>1. t \in Text /\ Len(t) \in Nat \ {0}  BY <1>1, StopsAre
    <3> HIDE DEF t
    <3>2. ASSUME NEW j, Occurs(<<>>, t, j) PROVE FALSE
      <4>1. j \in 0..(Len(<<>>) - Len(t))  BY <3>2 DEF Occurs
      <4>2. Len(<<>>) = 0  OBVIOUS
      <4> QED  BY <3>1, <4>1, <4>2
    <3>3. Index(<<>>, t) = -1  BY <1>2, <3>1, <3>2, IndexIs
    <3> QED  BY <3>3 DEF t
  <2> QED  BY <2>1 DEF NoneIn
<1>6. Whole(<<>>, <<>>, <<>>)  BY <1>4, <1>5 DEF Whole, Held
<1>7. TextFits(a, <<>>)  BY <1>1, <1>4, <1>6 DEF TextFits
<1>8. ThinkingFits(a, <<>>)  BY <1>1, <1>4, FilterEmpty DEF ThinkingFits, Tagged
<1>9. Settles(a)
  <2>1. Len(Tag(FALSE)) \in Nat \ {0}  BY TagIs
  <2>2. Len(<<>>) = 0  OBVIOUS
  <2>3. 0 < Len(Tag(FALSE))
    <3> DEFINE n == Len(Tag(FALSE))
    <3> HIDE DEF n
    <3>1. n \in Nat \ {0}  BY <2>1 DEF n
    <3>2. 0 < n  BY <3>1
    <3> QED  BY <3>2 DEF n
  <2> QED  BY <1>1, <2>2, <2>3 DEF Settles
<1>10. Follows(a, <<>>, <<>>, <<>>)
  BY <1>1, <1>3, <1>7, <1>8, <1>9, ParsedNothing DEF Follows
<1> QED  BY <1>1, <1>2, <1>10 DEF Told, Following

(* The stop sequences are those of the request.                            *)
LEMMA FollowsStays ==
  ASSUME request' = request, NEW T, NEW H, Follows(a', said', T, H)
  PROVE  Follows(a, said, T, H)'
<1>1. StopSequences' = StopSequences /\ Stops' = Stops  BY DEF StopSequences, Stops
<1>2. stopSeqMaxKeep' = stopSeqMaxKeep  BY <1>1 DEF stopSeqMaxKeep
<1>3. TextFits(a', T) => TextFits(a, T)'
  <2>1. StartOf(a'.textBuf, T) <=> StartOf(a.textBuf, T)'  BY DEF StartOf
  <2>2. FirstListed(a'.textBuf, a'.stopSequence) <=> FirstListed(a.textBuf, a.stopSequence)'
    BY <1>1 DEF FirstListed, Index
  <2>3. CutAt(a'.textBuf, T, a'.stopSequence) <=> CutAt(a.textBuf, T, a.stopSequence)'
    BY <2>2 DEF CutAt, Index, First
  <2>4. Whole(a'.textBuf, a'.stopSeqPending, T) <=> Whole(a.textBuf, a.stopSeqPending, T)'
    BY <1>1, <1>2 DEF Whole, NoneIn, Held, Index
  <2> QED  BY <2>1, <2>3, <2>4 DEF TextFits
<1>4. ThinkingFits(a', H) => ThinkingFits(a, H)'
  BY DEF ThinkingFits, Tagged, StartOf, Filter
<1> QED  BY <1>3, <1>4 DEF Follows

LEMMA NoneInStays ==
  ASSUME request' = request, NoneIn(a'.textBuf)
  PROVE  NoneIn(a.textBuf)'
<1>1. StopSequences' = StopSequences /\ Stops' = Stops  BY DEF StopSequences, Stops
<1> QED  BY <1>1 DEF NoneIn

LEMMA ToldStep == AccIInv /\ AccIInv' /\ Told /\ [AccNext]_accVars => Told'
<1> SUFFICES ASSUME AccIInv, AccIInv', Told, [AccNext]_accVars PROVE Told'  OBVIOUS
<1>0. request \in Requests /\ request \in Request /\ said \in Text /\ a \in Acc
      /\ a' \in Acc /\ stage' \in {"open", "stopped", "finished"}
  BY RequestsAreTyped DEF AccIInv, AccTypeOK
<1>1. ASSUME request' = request, stage' # "finished", a'.lastContent = said',
             a'.lastThinking \in Seq({Thought}), \E T, H \in Text : Follows(a', said', T, H)
      PROVE  Told'
  <2>1. PICK T \in Text, H \in Text : Follows(a', said', T, H)  BY <1>1
  <2>2. Follows(a, said, T, H)'  BY <1>1, <2>1, FollowsStays
  <2>3. T \in Text' /\ H \in Text'  BY <2>1 DEF Text
  <2>4. Following'  BY <1>1, <2>2, <2>3 DEF Following
  <2> QED  BY <1>1, <2>4 DEF Told
<1>2. \A was : AfterEvent(was) => a' = was /\ stage' # "finished"
  BY DEF AfterEvent
<1>3. \A e : Hears(e) => stage # "finished" /\ request' = request /\ said' = said
  BY DEF Hears
<1>4. ASSUME stage # "finished", request' = request, said' = said, stage' # "finished",
             Spares(a, a')
      PROVE  Told'
  <2>1. Following  BY <1>4 DEF Told
  <2>2. PICK T \in Text, H \in Text : Follows(a, said, T, H)  BY <2>1 DEF Following
  <2>3. /\ a'.lastContent = a.lastContent /\ a'.lastThinking = a.lastThinking
        /\ Follows(a', said, T, H)
    BY <1>4, <2>2, SparesFollows
  <2>4. a'.lastContent = said' /\ a'.lastThinking \in Seq({Thought})
    BY <1>4, <2>1, <2>3 DEF Following
  <2>5. Follows(a', said', T, H)  BY <1>4, <2>3
  <2> QED  BY <1>1, <1>4, <2>2, <2>4, <2>5
<1>5. CASE AssistantResponse
  <2>1. PICK chunk \in BoundedSeq(Char, Sends[request].text - Len(said)) :
          said' = said \o chunk /\ AfterEvent(AssistantContent(said'))
    BY <1>5 DEF AssistantResponse
  <2>2. chunk \in Text  BY <2>1 DEF BoundedSeq, SeqOf, Text
  <2>3. Following  BY <1>5 DEF AssistantResponse, Told
  <2>4. PICK T \in Text, H \in Text : Follows(a, said, T, H)  BY <2>3 DEF Following
  <2>5. a' = AssistantContent(said \o chunk) /\ stage' # "finished"  BY <1>2, <2>1
  <2>6. /\ a'.lastContent = said \o chunk /\ a'.lastThinking = a.lastThinking
        /\ \E U, K \in Text : Follows(a', said \o chunk, U, K)
    <3>1. a.lastContent = said  BY <2>3 DEF Following
    <3> QED  BY <1>0, <2>2, <2>4, <2>5, <3>1, ContentSays
  <2>7. a'.lastThinking \in Seq({Thought})  BY <2>3, <2>6 DEF Following
  <2>8. request' = request  BY <1>5 DEF AssistantResponse
  <2> QED  BY <1>1, <2>1, <2>5, <2>6, <2>7, <2>8
<1>6. CASE ReasoningContent
  <2> DEFINE thinking == Append(a.lastThinking, Thought)
             new == Reasoned(thinking)
  <2>1. PICK e \in Events("reasoning") : Hears(e) /\ AfterEvent(new)
    BY <1>6 DEF ReasoningContent, Reasoned
  <2>2. stage # "finished" /\ request' = request /\ said' = said  BY <1>3, <2>1
  <2>3. Following  BY <2>2 DEF Told
  <2>4. PICK T \in Text, H \in Text : Follows(a, said, T, H)  BY <2>3 DEF Following
  <2>5. /\ new.lastContent = a.lastContent /\ new.lastThinking \in Seq({Thought})
        /\ Follows(new, said, T, H)
    <3>1. a.lastThinking \in Seq({Thought})  BY <2>3 DEF Following
    <3> QED  BY <1>0, <2>4, <3>1, ReasoningSays
  <2> HIDE DEF new
  <2>6. a' = new /\ stage' # "finished"  BY <1>2, <2>1
  <2>7. a'.lastContent = said' /\ a'.lastThinking \in Seq({Thought})
        /\ Follows(a', said', T, H)
    BY <2>2, <2>3, <2>5, <2>6 DEF Following
  <2> QED  BY <1>1, <2>2, <2>4, <2>6, <2>7
<1>7. CASE ToolUse
  <2>1. PICK e \in Events("toolUse") :
          Hears(e) /\ AfterEvent(IF a.localStop \/ e.tool.name = request.dropTool THEN a
                                 ELSE Recorded(e.tool))
    BY <1>7 DEF ToolUse
  <2>2. (a' = a \/ a' = Recorded(e.tool)) /\ stage' # "finished"  BY <1>2, <2>1
  <2>3. Spares(a, a)  BY <1>0 DEF Spares, Thinks
  <2>4. Spares(a, a')
    <3> DEFINE tool == e.tool
    <3>1. a' = a \/ a' = Recorded(tool)  BY <2>2
    <3> HIDE DEF tool
    <3> QED  BY <1>0, <2>3, <3>1, ToolUseSpares
  <2> QED  BY <1>3, <1>4, <2>1, <2>2, <2>4
<1>8. CASE Metadata
  <2>1. PICK e \in Events("metadata") :
          Hears(e) /\ AfterEvent([a EXCEPT !.hasMetadata = TRUE, !.inputTokens = e.input,
                                           !.outputTokens = e.output,
                                           !.cacheTokens = e.cache])
    BY <1>8 DEF Metadata
  <2>2. a' = [a EXCEPT !.hasMetadata = TRUE, !.inputTokens = e.input,
                       !.outputTokens = e.output, !.cacheTokens = e.cache]
        /\ stage' # "finished"
    BY <1>2, <2>1
  <2>3. Spares(a, a')  BY <1>0, <2>2, UsageSpares
  <2> QED  BY <1>3, <1>4, <2>1, <2>2, <2>3
<1>9. CASE Metering
  <2>1. PICK e \in Events("metering") :
          Hears(e) /\ AfterEvent(IF e.credits < 0 THEN Counted(e)
                                 ELSE [Counted(e) EXCEPT !.hasCredits = TRUE,
                                                         !.credits = e.credits])
    BY <1>9 DEF Metering
  <2>2. /\ \/ a' = Counted(e)
           \/ a' = [Counted(e) EXCEPT !.hasCredits = TRUE, !.credits = e.credits]
        /\ stage' # "finished"
    BY <1>2, <2>1
  <2>3. Spares(a, a')  BY <1>0, <2>2, UsageSpares
  <2> QED  BY <1>3, <1>4, <2>1, <2>2, <2>3
<1>10. CASE ContextUsage
  <2>1. PICK e \in Events("contextUsage") :
          Hears(e) /\ AfterEvent([a EXCEPT !.hasContextUsage = TRUE,
                                           !.contextUsagePercentage = e.percent])
    BY <1>10 DEF ContextUsage
  <2>2. a' = [a EXCEPT !.hasContextUsage = TRUE, !.contextUsagePercentage = e.percent]
        /\ stage' # "finished"
    BY <1>2, <2>1
  <2>3. Spares(a, a')  BY <1>0, <2>2, UsageSpares
  <2> QED  BY <1>3, <1>4, <2>1, <2>2, <2>3
<1>11. CASE FinalizeStream
  <2> DEFINE mid == finalizeThinkingTags(a)
  <2>1. /\ a' = flushStopSeqPending(mid) /\ stage' = "finished" /\ stage # "finished"
        /\ request' = request /\ said' = said
    BY <1>11 DEF FinalizeStream
  <2>2. Following  BY <2>1 DEF Told
  <2>3. PICK T \in Text, H \in Text : Follows(a, said, T, H)  BY <2>2 DEF Following
  <2>4. Keeps(a, mid)  BY <1>0, FinalizeKeeps
  <2>5. ~mid.localStop =>
          /\ ~a.localStop
          /\ Whole(mid.textBuf, mid.stopSeqPending, Split(said).text)
          /\ Tagged(mid) = Split(said).thinking
    <3>1. a.localStop => mid.localStop  BY <2>4 DEF Keeps
    <3> QED  BY <1>0, <2>3, <3>1, FinalizeSays
  <2> HIDE DEF mid
  <2>6. mid \in Acc  BY <2>4 DEF Keeps
  <2>7. Keeps(mid, a')  BY <1>0, <2>1, <2>6, FlushKeeps
  <2> SUFFICES ASSUME ~a'.localStop
               PROVE  /\ a'.textBuf = Split(said).text /\ Tagged(a') = Split(said).thinking
                      /\ a'.stopSeqPending = <<>> /\ NoneIn(a'.textBuf)
    <3>1. NoneIn(a'.textBuf) => NoneIn(a.textBuf)'
      BY <2>1, NoneInStays
    <3>2. Tagged(a') = Tagged(a)'  BY DEF Tagged
    <3>3. Split(said) = Split(said)'  BY <2>1
    <3> QED  BY <2>1, <3>1, <3>2, <3>3 DEF Told, Ended
  <2>8. ~mid.localStop  BY <2>7 DEF Keeps
  <2> DEFINE whole == Split(said).text
  <2>9. Whole(mid.textBuf, mid.stopSeqPending, whole) /\ Tagged(mid) = Split(said).thinking
    BY <2>5, <2>8
  <2> HIDE DEF whole
  <2>10. a'.thinkingBuf = mid.thinkingBuf /\ a'.stopSeqPending = <<>> /\ a'.textBuf = whole
    BY <1>0, <2>1, <2>6, <2>8, <2>9, FlushSays
  <2>11. NoneIn(whole)  BY <2>9 DEF Whole
  <2>12. Tagged(a') = Split(said).thinking  BY <2>9, <2>10 DEF Tagged
  <2> QED  BY <2>10, <2>11, <2>12 DEF whole
<1>12. CASE UNCHANGED accVars
  <2>1. request' = request /\ said' = said /\ a' = a /\ stage' = stage  BY <1>12 DEF accVars
  <2>2. CASE stage # "finished"
    <3>1. Spares(a, a')  BY <1>0, <2>1 DEF Spares, Thinks
    <3> QED  BY <1>4, <2>1, <2>2, <3>1
  <2>3. CASE stage = "finished"
    <3>1. Ended  BY <2>3 DEF Told
    <3>2. NoneIn(a'.textBuf) => NoneIn(a.textBuf)'  BY <2>1, NoneInStays
    <3>3. Ended'  BY <2>1, <3>1, <3>2 DEF Ended, Tagged
    <3> QED  BY <2>1, <2>3, <3>3 DEF Told
  <2> QED  BY <2>2, <2>3
<1> QED
  BY <1>5, <1>6, <1>7, <1>8, <1>9, <1>10, <1>11, <1>12 DEF AccNext

(* The inductive invariant of what is said and what is delivered.          *)
LEMMA ToldInvariant == AccSpec => [](AccIInv /\ Told)
<1>1. AccInit => Told  BY ToldInit
<1>2. AccIInv /\ AccIInv' /\ Told /\ [AccNext]_accVars => Told'  BY ToldStep
<1> QED  BY <1>1, <1>2, AccInvariant, PTL DEF AccSpec

(* How Kiro cuts its text into events does not show: the text and the      *)
(* thinking that the tag parser and the limits let through are those of    *)
(* the whole text.                                                         *)
THEOREM ChunksAlwaysInvisible == AccSpec => []ChunksAreInvisible
<1>1. ASSUME AccIInv, Told PROVE ChunksAreInvisible
  <2> DEFINE whole == Split(said)
             tagged == Filter(a.thinkingBuf, Char)
  <2>1. said \in Text /\ a \in Acc  BY <1>1 DEF AccIInv, AccTypeOK
  <2>2. whole.text \in Text /\ whole.thinking \in Text  BY <2>1, SplitType
  <2>3. tagged = Tagged(a) /\ tagged \in Text /\ a.textBuf \in Text
    BY <2>1, TaggedIsText, AccTexts DEF Tagged
  <2> HIDE DEF whole, tagged
  <2>4. ASSUME stage # "finished"
        PROVE  IsPrefix(a.textBuf, whole.text) /\ IsPrefix(tagged, whole.thinking)
    <3>1. PICK T \in Text, H \in Text : Follows(a, said, T, H)
      BY <1>1, <2>4 DEF Told, Following
    <3>2. StartOf(T, whole.text) /\ StartOf(H, whole.thinking)
      BY <2>1, <3>1, BeginningHere DEF Follows, whole
    <3>3. StartOf(a.textBuf, T) /\ StartOf(tagged, H)
      BY <2>3, <3>1 DEF Follows, TextFits, ThinkingFits
    <3> DEFINE x == a.textBuf
               t == whole.text
               h == whole.thinking
    <3>4. x \in Text /\ t \in Text /\ h \in Text /\ StartOf(x, T) /\ StartOf(T, t)
          /\ StartOf(H, h)
      BY <2>2, <2>3, <3>2, <3>3
    <3> HIDE DEF x, t, h
    <3>5. StartOf(x, t)  BY <3>4, StartsFurther
    <3>6. StartOf(tagged, h)  BY <2>3, <3>3, <3>4, StartsFurther
    <3>7. IsPrefix(x, t) /\ IsPrefix(tagged, h)  BY <2>3, <3>4, <3>5, <3>6, StartIsPrefix
    <3> QED  BY <3>7 DEF x, t, h
  <2>5. ASSUME stage = "finished", ~a.localStop
        PROVE  a.textBuf = whole.text /\ tagged = whole.thinking
    BY <1>1, <2>3, <2>5 DEF Told, Ended, whole
  <2> QED  BY <2>4, <2>5 DEF ChunksAreInvisible, whole, tagged
<1> QED  BY <1>1, ToldInvariant, PTL

(* Until the stop no stop sequence passes the filter.  The text that was   *)
(* delivered when one is found ends where it begins in the whole text, and *)
(* has none that the client listed before it.                              *)
THEOREM StopsAlwaysFound == AccSpec => []StopSequencesFound
<1>1. ASSUME AccIInv, Told PROVE StopSequencesFound
  <2>1. said \in Text /\ a \in Acc  BY <1>1 DEF AccIInv, AccTypeOK
  <2> DEFINE x == a.textBuf
             y == a.stopSeqPending
             t == a.stopSequence
             whole == Split(said).text
  <2>2. x \in Text /\ y \in Text /\ t \in Text /\ whole \in Text
    <3>1. x \in Text /\ y \in Text /\ t \in Text  BY <2>1 DEF Acc
    <3>2. whole \in Text  BY <2>1, SplitType
    <3> QED  BY <3>1, <3>2
  <2>3. ASSUME ~a.localStop PROVE NoneIn(x \o y)
    <3>1. CASE stage = "finished"
      <4>1. y = <<>> /\ NoneIn(x)  BY <1>1, <2>3, <3>1 DEF Told, Ended
      <4> HIDE DEF x, y
      <4>2. x \o y = x
        <5>1. x \in Seq(Char)  BY <2>2 DEF Text
        <5> QED  BY <4>1, <5>1
      <4> QED  BY <4>1, <4>2
    <3>2. CASE stage # "finished"
      <4>1. PICK T \in Text, H \in Text : Follows(a, said, T, H)
        BY <1>1, <3>2 DEF Told, Following
      <4>2. Whole(x, y, T)  BY <2>3, <4>1 DEF Follows, TextFits
      <4> QED  BY <4>2 DEF Whole
    <3> QED  BY <3>1, <3>2
  <2>4. ASSUME stage # "finished", a.stopReason = "stop_sequence"
        PROVE  x = First(whole, Index(whole, t)) /\ FirstListed(x, t)
    <3>1. PICK T \in Text, H \in Text : Follows(a, said, T, H)
      BY <1>1, <2>4 DEF Told, Following
    <3>2. CutAt(x, T, t)  BY <2>4, <3>1 DEF Follows, TextFits
    <3>3. StartOf(T, whole)  BY <2>1, <3>1, BeginningHere DEF Follows
    <3> HIDE DEF x, t, whole
    <3>4. PICK z \in Text : whole = T \o z  BY <3>3 DEF StartOf
    <3>5. Index(T, t) >= 0 /\ x = First(T, Index(T, t)) /\ FirstListed(x, t)
      BY <3>2 DEF CutAt
    <3>6. Index(whole, t) = Index(T, t) /\ First(whole, Index(T, t)) = First(T, Index(T, t))
      BY <2>2, <3>4, <3>5, IndexStays
    <3> QED  BY <3>5, <3>6
  <2> QED  BY <2>3, <2>4 DEF StopSequencesFound, NoneIn, FirstListed
<1> QED  BY <1>1, ToldInvariant, PTL

----------------------------------------------------------------------------
(* The rest is about what is reported in the end.  First, the usage: the   *)
(* last frame of each kind, and the last that had credits.                 *)
LastIn(S) == Max({0} \cup S)

LEMMA LastInIs ==
  ASSUME NEW n \in Nat, NEW S \in SUBSET (1..n)
  PROVE  /\ LastIn(S) = 0 <=> S = {}
         /\ S # {} => LastIn(S) \in S /\ LastIn(S) = Max(S)
<1>1. CASE S = {}
  <2>1. {0} \cup S = {0}  BY <1>1
  <2>2. Max({0}) = 0
    <3>1. {0} \in SUBSET Int /\ 0 \in {0} /\ \A m \in {0} : 0 >= m  OBVIOUS
    <3> QED  BY <3>1, MaxIs
  <2> QED  BY <1>1, <2>1, <2>2 DEF LastIn
<1>2. CASE S # {}
  <2>1. S \in SUBSET (0..n)  OBVIOUS
  <2>2. Max(S) \in S /\ \A m \in S : Max(S) >= m  BY <1>2, <2>1, MaxBelow
  <2> DEFINE k == Max(S)
  <2>3. k \in S /\ \A m \in S : k >= m  BY <2>2
  <2> HIDE DEF k
  <2>4. {0} \cup S \in SUBSET Int /\ k \in {0} \cup S /\ \A m \in {0} \cup S : k >= m
        /\ k # 0
    BY <2>3
  <2>5. LastIn(S) = k  BY <2>4, MaxIs DEF LastIn
  <2> QED  BY <1>2, <2>3, <2>4, <2>5 DEF k
<1> QED  BY <1>1, <1>2

LEMMA LastInGrows ==
  ASSUME NEW n \in Nat, NEW S \in SUBSET (1..n)
  PROVE  LastIn(S \cup {n + 1}) = n + 1
<1> DEFINE T == {0} \cup (S \cup {n + 1})
<1>1. T \in SUBSET Int /\ n + 1 \in T /\ \A m \in T : n + 1 >= m  OBVIOUS
<1> HIDE DEF T
<1>2. Max(T) = n + 1  BY <1>1, MaxIs
<1> QED  BY <1>2 DEF T, LastIn

OfKind(h, kind) == {i \in DOMAIN h : h[i].kind = kind}
Priced(h) == {i \in DOMAIN h : h[i].kind = "metering" /\ h[i].credits >= 0}

Had(h, kind)    == LastIn(OfKind(h, kind)) # 0
Newest(h, kind) == h[LastIn(OfKind(h, kind))]
HadPrice(h)     == LastIn(Priced(h)) # 0
NewestPrice(h)  == h[LastIn(Priced(h))].credits

(* What k, which is h and then e, says more than h.                        *)
Says(k, h, e) ==
  /\ \A kind : Had(k, kind) <=> (e.kind = kind \/ Had(h, kind))
  /\ \A kind : e.kind = kind => Newest(k, kind) = e
  /\ \A kind : e.kind # kind /\ Had(h, kind) => Newest(k, kind) = Newest(h, kind)
  /\ HadPrice(k) <=> (HadPrice(h) \/ (e.kind = "metering" /\ e.credits >= 0))
  /\ e.kind = "metering" /\ e.credits >= 0 => NewestPrice(k) = e.credits
  /\ ~(e.kind = "metering" /\ e.credits >= 0) /\ HadPrice(h) => NewestPrice(k) = NewestPrice(h)

LEMMA HeardNext ==
  ASSUME NEW h \in Seq(Heard), NEW e \in Heard, NEW k, k = Append(h, e)
  PROVE  Says(k, h, e)
<1> DEFINE n == Len(h)
<1>1. n \in Nat /\ DOMAIN h = 1..n  OBVIOUS
<1>2. DOMAIN k = 1..(n + 1) /\ k[n + 1] = e /\ \A i \in 1..n : k[i] = h[i]  BY <1>1
<1> HIDE DEF n
<1>3. ASSUME NEW kind
      PROVE  OfKind(k, kind) = OfKind(h, kind) \cup (IF e.kind = kind THEN {n + 1} ELSE {})
  BY <1>1, <1>2 DEF OfKind
<1>4. Priced(k) = Priced(h) \cup (IF e.kind = "metering" /\ e.credits >= 0 THEN {n + 1} ELSE {})
  BY <1>1, <1>2 DEF Priced
<1>5. \A kind : OfKind(h, kind) \in SUBSET (1..n)  BY <1>1 DEF OfKind
<1>6. Priced(h) \in SUBSET (1..n)  BY <1>1 DEF Priced
<1>7. n + 1 # 0 /\ 0 \notin 1..n  BY <1>1
<1>8. ASSUME NEW kind
      PROVE  /\ Had(k, kind) <=> (e.kind = kind \/ Had(h, kind))
             /\ e.kind = kind => Newest(k, kind) = e
             /\ e.kind # kind /\ Had(h, kind) => Newest(k, kind) = Newest(h, kind)
  <2> DEFINE S == OfKind(h, kind)
  <2>1. S \in SUBSET (1..n)  BY <1>5
  <2>2. OfKind(k, kind) = S \cup (IF e.kind = kind THEN {n + 1} ELSE {})  BY <1>3
  <2>3. CASE e.kind = kind
    <3>1. LastIn(OfKind(k, kind)) = n + 1
      <4> HIDE DEF S
      <4> QED  BY <1>1, <2>1, <2>2, <2>3, LastInGrows
    <3> QED  BY <1>2, <1>7, <2>3, <3>1 DEF Had, Newest
  <2>4. CASE e.kind # kind
    <3>1. OfKind(k, kind) = S  BY <2>2, <2>4
    <3>2. LastIn(S) # 0 => LastIn(S) \in 1..n
      <4> HIDE DEF S
      <4> QED  BY <1>1, <2>1, LastInIs
    <3> QED  BY <1>2, <2>4, <3>1, <3>2 DEF Had, Newest
  <2> QED  BY <2>3, <2>4
<1>9. /\ HadPrice(k) <=> (HadPrice(h) \/ (e.kind = "metering" /\ e.credits >= 0))
      /\ e.kind = "metering" /\ e.credits >= 0 => NewestPrice(k) = e.credits
      /\ ~(e.kind = "metering" /\ e.credits >= 0) /\ HadPrice(h) =>
           NewestPrice(k) = NewestPrice(h)
  <2> DEFINE S == Priced(h)
             P == e.kind = "metering" /\ e.credits >= 0
  <2>1. S \in SUBSET (1..n)  BY <1>6
  <2>2. Priced(k) = S \cup (IF P THEN {n + 1} ELSE {})  BY <1>4
  <2>3. CASE P
    <3>1. LastIn(Priced(k)) = n + 1
      <4> HIDE DEF S, P
      <4> QED  BY <1>1, <2>1, <2>2, <2>3, LastInGrows
    <3> QED  BY <1>2, <1>7, <2>3, <3>1 DEF HadPrice, NewestPrice
  <2>4. CASE ~P
    <3>1. Priced(k) = S
      <4> HIDE DEF S, P
      <4> QED  BY <2>2, <2>4
    <3>2. LastIn(S) # 0 => LastIn(S) \in 1..n
      <4> HIDE DEF S
      <4> QED  BY <1>1, <2>1, LastInIs
    <3> QED  BY <1>2, <2>4, <3>1, <3>2 DEF HadPrice, NewestPrice
  <2> QED  BY <2>3, <2>4
<1> QED  BY <1>8, <1>9 DEF Says

(* The accumulator has the usage that the frames heard so far say.         *)
Usage(was, h) ==
  /\ was.hasMetadata <=> Had(h, "metadata")
  /\ Had(h, "metadata") =>
       /\ was.inputTokens = Newest(h, "metadata").input
       /\ was.outputTokens = Newest(h, "metadata").output
       /\ was.cacheTokens = Newest(h, "metadata").cache
  /\ ~Had(h, "metadata") =>
       /\ was.cacheTokens = 0
       /\ Had(h, "metering") => /\ was.inputTokens = Newest(h, "metering").input
                                /\ was.outputTokens = Newest(h, "metering").output
       /\ ~Had(h, "metering") => was.inputTokens = 0 /\ was.outputTokens = 0
  /\ was.hasContextUsage <=> Had(h, "contextUsage")
  /\ Had(h, "contextUsage") => was.contextUsagePercentage = Newest(h, "contextUsage").percent
  /\ was.hasCredits <=> HadPrice(h)
  /\ HadPrice(h) => was.credits = NewestPrice(h)

LEMMA UsageKept ==
  ASSUME NEW was, NEW new, NEW h, Reports(new) = Reports(was), Usage(was, h)
  PROVE  Usage(new, h)
<1>1. /\ new.hasMetadata = was.hasMetadata /\ new.inputTokens = was.inputTokens
      /\ new.outputTokens = was.outputTokens /\ new.cacheTokens = was.cacheTokens
      /\ new.hasContextUsage = was.hasContextUsage
      /\ new.contextUsagePercentage = was.contextUsagePercentage
      /\ new.hasCredits = was.hasCredits /\ new.credits = was.credits
  BY DEF Reports
<1> QED  BY <1>1 DEF Usage

(* Each frame of usage does to it what the last one of its kind says.      *)
LEMMA MetadataHeard ==
  ASSUME NEW was \in Acc, NEW h \in Seq(Heard), Usage(was, h),
         NEW e \in Heard, e.kind = "metadata", NEW k, k = Append(h, e),
         NEW new, new = [was EXCEPT !.hasMetadata = TRUE, !.inputTokens = e.input,
                                    !.outputTokens = e.output, !.cacheTokens = e.cache]
  PROVE  Usage(new, k)
<1>0. Says(k, h, e)  BY HeardNext
<1>1. /\ Had(k, "metadata") /\ Newest(k, "metadata") = e
      /\ (Had(k, "contextUsage") <=> Had(h, "contextUsage"))
      /\ Had(h, "contextUsage") => Newest(k, "contextUsage") = Newest(h, "contextUsage")
      /\ (HadPrice(k) <=> HadPrice(h)) /\ (HadPrice(h) => NewestPrice(k) = NewestPrice(h))
  BY <1>0 DEF Says
<1>2. /\ new.hasMetadata = TRUE /\ new.inputTokens = e.input
      /\ new.outputTokens = e.output /\ new.cacheTokens = e.cache
      /\ new.hasContextUsage = was.hasContextUsage
      /\ new.contextUsagePercentage = was.contextUsagePercentage
      /\ new.hasCredits = was.hasCredits /\ new.credits = was.credits
  BY DEF Acc
<1> QED  BY <1>1, <1>2 DEF Usage

LEMMA ContextUsageHeard ==
  ASSUME NEW was \in Acc, NEW h \in Seq(Heard), Usage(was, h),
         NEW e \in Heard, e.kind = "contextUsage", NEW k, k = Append(h, e),
         NEW new, new = [was EXCEPT !.hasContextUsage = TRUE,
                                    !.contextUsagePercentage = e.percent]
  PROVE  Usage(new, k)
<1>0. Says(k, h, e)  BY HeardNext
<1>1. /\ Had(k, "contextUsage") /\ Newest(k, "contextUsage") = e
      /\ (Had(k, "metadata") <=> Had(h, "metadata")) /\ (Had(k, "metering") <=> Had(h, "metering"))
      /\ Had(h, "metadata") => Newest(k, "metadata") = Newest(h, "metadata")
      /\ Had(h, "metering") => Newest(k, "metering") = Newest(h, "metering")
      /\ (HadPrice(k) <=> HadPrice(h)) /\ (HadPrice(h) => NewestPrice(k) = NewestPrice(h))
  BY <1>0 DEF Says
<1>2. /\ new.hasMetadata = was.hasMetadata /\ new.inputTokens = was.inputTokens
      /\ new.outputTokens = was.outputTokens /\ new.cacheTokens = was.cacheTokens
      /\ new.hasContextUsage = TRUE /\ new.contextUsagePercentage = e.percent
      /\ new.hasCredits = was.hasCredits /\ new.credits = was.credits
  BY DEF Acc
<1> QED  BY <1>1, <1>2 DEF Usage

LEMMA MeteringHeard ==
  ASSUME a \in Acc, NEW h \in Seq(Heard), Usage(a, h),
         NEW e \in Heard, e.kind = "metering", NEW k, k = Append(h, e),
         NEW new, new = IF e.credits < 0 THEN Counted(e)
                        ELSE [Counted(e) EXCEPT !.hasCredits = TRUE, !.credits = e.credits]
  PROVE  Usage(new, k)
<1> DEFINE c == Counted(e)
<1>0. Says(k, h, e)  BY HeardNext
<1>0b. e.credits \in Int
  <2>1. e.credits \in Nat \cup {-1}  BY DEF Heard
  <2> QED  BY <2>1
<1>1. /\ Had(k, "metering") /\ Newest(k, "metering") = e
      /\ (Had(k, "metadata") <=> Had(h, "metadata"))
      /\ (Had(k, "contextUsage") <=> Had(h, "contextUsage"))
      /\ Had(h, "metadata") => Newest(k, "metadata") = Newest(h, "metadata")
      /\ Had(h, "contextUsage") => Newest(k, "contextUsage") = Newest(h, "contextUsage")
  BY <1>0 DEF Says
<1>2. /\ HadPrice(k) <=> (HadPrice(h) \/ ~(e.credits < 0))
      /\ ~(e.credits < 0) => NewestPrice(k) = e.credits
      /\ e.credits < 0 /\ HadPrice(h) => NewestPrice(k) = NewestPrice(h)
  <2>1. e.credits >= 0 <=> ~(e.credits < 0)  BY <1>0b
  <2> QED  BY <2>1, <1>0 DEF Says
<1>3. /\ c \in Acc \/ e.input \notin Nat \/ e.output \notin Nat
      /\ c.hasMetadata = a.hasMetadata /\ c.cacheTokens = a.cacheTokens
      /\ c.hasContextUsage = a.hasContextUsage
      /\ c.contextUsagePercentage = a.contextUsagePercentage
      /\ c.hasCredits = a.hasCredits /\ c.credits = a.credits
      /\ a.hasMetadata => c.inputTokens = a.inputTokens /\ c.outputTokens = a.outputTokens
      /\ ~a.hasMetadata => c.inputTokens = e.input /\ c.outputTokens = e.output
  <2>1. CASE a.hasMetadata
    <3>1. c = a  BY <2>1 DEF Counted
    <3> QED  BY <2>1, <3>1
  <2>2. CASE ~a.hasMetadata
    <3>1. c = [a EXCEPT !.inputTokens = e.input, !.outputTokens = e.output]
      BY <2>2 DEF Counted
    <3> HIDE DEF c
    <3> QED  BY <2>2, <3>1 DEF Acc
  <2> QED  BY <2>1, <2>2
<1>4. c \in Acc
  <2>1. e.input \in Nat /\ e.output \in Nat  BY DEF Heard
  <2> QED  BY <1>3, <2>1
<1> HIDE DEF c
<1>5. /\ new.hasMetadata = c.hasMetadata /\ new.cacheTokens = c.cacheTokens
      /\ new.inputTokens = c.inputTokens /\ new.outputTokens = c.outputTokens
      /\ new.hasContextUsage = c.hasContextUsage
      /\ new.contextUsagePercentage = c.contextUsagePercentage
      /\ e.credits < 0 => new.hasCredits = c.hasCredits /\ new.credits = c.credits
      /\ ~(e.credits < 0) => new.hasCredits = TRUE /\ new.credits = e.credits
  <2>1. CASE e.credits < 0
    <3>1. new = c  BY <2>1 DEF c
    <3> QED  BY <2>1, <3>1
  <2>2. CASE ~(e.credits < 0)
    <3>1. new = [c EXCEPT !.hasCredits = TRUE, !.credits = e.credits]  BY <2>2 DEF c
    <3> QED  BY <1>4, <2>2, <3>1 DEF Acc
  <2> QED  BY <2>1, <2>2
<1>6. CASE a.hasMetadata
  <2>1. Had(h, "metadata")  BY <1>6 DEF Usage
  <2> QED  BY <1>1, <1>2, <1>3, <1>5, <1>6, <2>1 DEF Usage
<1>7. CASE ~a.hasMetadata
  <2>1. ~Had(h, "metadata")  BY <1>7 DEF Usage
  <2> QED  BY <1>1, <1>2, <1>3, <1>5, <1>7, <2>1 DEF Usage
<1> QED  BY <1>6, <1>7

(* An event that is none of these leaves the usage as it is.               *)
LEMMA OthersHeard ==
  ASSUME NEW was, NEW h \in Seq(Heard), Usage(was, h),
         NEW e \in Heard, e.kind \notin {"metadata", "metering", "contextUsage"},
         NEW k, k = Append(h, e)
  PROVE  Usage(was, k)
<1>0. Says(k, h, e)  BY HeardNext
<1>1. \A kind \in {"metadata", "metering", "contextUsage"} :
        /\ (Had(k, kind) <=> Had(h, kind))
        /\ Had(h, kind) => Newest(k, kind) = Newest(h, kind)
  BY <1>0 DEF Says
<1>2. (HadPrice(k) <=> HadPrice(h)) /\ (HadPrice(h) => NewestPrice(k) = NewestPrice(h))
  BY <1>0 DEF Says
<1> QED  BY <1>1, <1>2 DEF Usage

LEMMA OfTwo ==
  ASSUME NEW m \in Int, NEW n \in Int
  PROVE  /\ Max({m, n}) = IF m >= n THEN m ELSE n
         /\ Min({m, n}) = IF m <= n THEN m ELSE n
<1> DEFINE S == {m, n}
           top == IF m >= n THEN m ELSE n
           least == IF m <= n THEN m ELSE n
<1>1. S \in SUBSET Int /\ top \in S /\ least \in S
      /\ (\A k \in S : top >= k) /\ (\A k \in S : least <= k)
  OBVIOUS
<1> HIDE DEF S, top, least
<1>2. Max(S) = top  BY <1>1, MaxIs
<1>3. Min(S) = least  BY <1>1, MinIs
<1> QED  BY <1>2, <1>3 DEF S, top, least

LEMMA PercentBounds ==
  ASSUME NEW p \in 0..100, NEW w \in Nat
  PROVE  (p * w) \div 100 \in 0..w
<1>1. PICK q \in Nat : p + q = 100
  <2>1. 100 - p \in Nat /\ p + (100 - p) = 100  OBVIOUS
  <2> QED  BY <2>1
<1>2. p * w \in Nat /\ q * w \in Nat /\ p * w + q * w = 100 * w  BY <1>1
<1> DEFINE t == p * w
           u == q * w
<1>3. t \in Nat /\ u \in Nat /\ t + u = 100 * w  BY <1>2
<1> HIDE DEF t, u
<1>4. t \div 100 \in 0..w  BY <1>3
<1> QED  BY <1>4 DEF t

(* finalizeResult: what is reported, by the best source there is.          *)
LEMMA UsageResolved ==
  ASSUME request \in Request, NEW was \in Acc, NEW usage, usage = resolvedUsage(was),
         NEW known, known = (was.hasMetadata \/ was.inputTokens > 0 \/ was.outputTokens > 0)
  PROVE  /\ known => usage = Tokens(was.inputTokens, was.outputTokens)
         /\ ~known /\ request.preCounted > 0 => usage.input = request.preCounted
         /\ ~known /\ ~(request.preCounted > 0) =>
              /\ usage.input \in Nat /\ usage.output \in Nat
              /\ usage.input + usage.output > 0 => was.hasContextUsage
              /\ usage.input > 0 => usage.input + usage.output <= request.contextWindow
<1> DEFINE estimate == estimatedOutputTokens(was)
           percent  == Max({0, Min({100, was.contextUsagePercentage})})
           total    == (percent * request.contextWindow) \div 100
<1>1. /\ known => usage = Tokens(was.inputTokens, was.outputTokens)
      /\ ~known /\ request.preCounted > 0 => usage = Tokens(request.preCounted, estimate)
      /\ ~known /\ ~(request.preCounted > 0) =>
           usage = IF was.hasContextUsage /\ request.contextWindow > 0
                   THEN Tokens(Max({0, total - estimate}), estimate) ELSE Tokens(0, 0)
  BY DEF resolvedUsage
<1>2. estimate \in Nat
  <2>1. was.outputRuneCount \in Nat /\ RunesPerToken \in Nat \ {0}
    BY AccTexts, RunesPerTokenIsPositive
  <2> DEFINE q == was.outputRuneCount \div RunesPerToken
  <2>2. q \in Nat  BY <2>1
  <2> HIDE DEF q
  <2>3. Max({1, q}) \in Nat  BY <2>2, OfTwo
  <2> QED  BY <2>3 DEF estimatedOutputTokens, q
<1>3. request.contextWindow \in Nat  BY DEF Request
<1>4. percent \in 0..100
  <2>1. was.contextUsagePercentage \in Int  BY DEF Acc
  <2> DEFINE p == was.contextUsagePercentage
             m == Min({100, p})
  <2> HIDE DEF p
  <2>2. m = IF 100 <= p THEN 100 ELSE p
    <3>1. 100 \in Int /\ p \in Int  BY <2>1 DEF p
    <3> QED  BY <3>1, OfTwo
  <2> HIDE DEF m
  <2>2a. m \in Int /\ m <= 100  BY <2>1, <2>2 DEF p
  <2>2b. Max({0, m}) = IF 0 >= m THEN 0 ELSE m
    <3>1. 0 \in Int /\ m \in Int  BY <2>2a
    <3> QED  BY <3>1, OfTwo
  <2>3. Max({0, m}) \in 0..100  BY <2>2a, <2>2b
  <2> QED  BY <2>3 DEF m, p
<1> HIDE DEF percent
<1>5. total \in 0..request.contextWindow  BY <1>3, <1>4, PercentBounds
<1> HIDE DEF total, estimate
<1>6. Max({0, total - estimate}) = IF 0 >= total - estimate THEN 0 ELSE total - estimate
  BY <1>2, <1>3, <1>5, OfTwo
<1>7. \A i, o : Tokens(i, o).input = i /\ Tokens(i, o).output = o  BY DEF Tokens
<1>8. ASSUME ~known, ~(request.preCounted > 0)
      PROVE  /\ usage.input \in Nat /\ usage.output \in Nat
             /\ usage.input + usage.output > 0 => was.hasContextUsage
             /\ usage.input > 0 => usage.input + usage.output <= request.contextWindow
  <2>1. CASE was.hasContextUsage /\ request.contextWindow > 0
    <3> DEFINE i == Max({0, total - estimate})
    <3>1. usage = Tokens(i, estimate)  BY <1>1, <1>8, <2>1
    <3>2. usage.input = i /\ usage.output = estimate
      <4> HIDE DEF i
      <4> QED  BY <1>7, <3>1
    <3>3. i \in Nat /\ (i > 0 => i + estimate <= request.contextWindow)
      BY <1>2, <1>3, <1>5, <1>6
    <3> HIDE DEF i
    <3> QED  BY <1>2, <2>1, <3>2, <3>3
  <2>2. CASE ~(was.hasContextUsage /\ request.contextWindow > 0)
    <3>1. usage = Tokens(0, 0)  BY <1>1, <1>8, <2>2
    <3>2. usage.input = 0 /\ usage.output = 0  BY <1>7, <3>1
    <3> QED  BY <3>2
  <2> QED  BY <2>1, <2>2
<1>9. ~known /\ request.preCounted > 0 => usage.input = request.preCounted  BY <1>1, <1>7
<1> QED  BY <1>1, <1>8, <1>9

LEMMA UsageReported ==
  ASSUME request \in Request, a \in Acc, heard \in Seq(Heard), Usage(a, heard)
  PROVE  UsageAsHeard
<1> DEFINE Latest(kind) == LastIn(OfKind(heard, kind))
           best == IF Had(heard, "metadata") THEN "metadata"
                   ELSE IF /\ Had(heard, "metering")
                           /\ Newest(heard, "metering").input
                                + Newest(heard, "metering").output > 0
                        THEN "metering"
                   ELSE IF request.preCounted > 0 THEN "preCounted" ELSE "contextUsage"
           usage == resolvedUsage(a)
           known == a.hasMetadata \/ a.inputTokens > 0 \/ a.outputTokens > 0
<1>1. /\ known => usage = Tokens(a.inputTokens, a.outputTokens)
      /\ ~known /\ request.preCounted > 0 => usage.input = request.preCounted
      /\ ~known /\ ~(request.preCounted > 0) =>
           /\ usage.input \in Nat /\ usage.output \in Nat
           /\ usage.input + usage.output > 0 => a.hasContextUsage
           /\ usage.input > 0 => usage.input + usage.output <= request.contextWindow
  BY UsageResolved
<1>2. a.inputTokens \in Nat /\ a.outputTokens \in Nat /\ a.hasCredits \in BOOLEAN
  BY DEF Acc
<1> HIDE DEF usage
<1>3. best \in {"metadata", "metering"} =>
        usage = Tokens(Newest(heard, best).input, Newest(heard, best).output)
  <2>1. CASE Had(heard, "metadata")
    <3>1. best = "metadata" /\ known  BY <2>1 DEF Usage
    <3>2. a.inputTokens = Newest(heard, "metadata").input
          /\ a.outputTokens = Newest(heard, "metadata").output
      BY <2>1 DEF Usage
    <3> QED  BY <1>1, <3>1, <3>2
  <2>2. CASE ~Had(heard, "metadata")
    <3> SUFFICES ASSUME best = "metering"
                 PROVE  usage = Tokens(Newest(heard, "metering").input,
                                       Newest(heard, "metering").output)
      BY <2>2
    <3>1. Had(heard, "metering")
          /\ Newest(heard, "metering").input + Newest(heard, "metering").output > 0
      BY <2>2
    <3>2. a.inputTokens = Newest(heard, "metering").input
          /\ a.outputTokens = Newest(heard, "metering").output
      BY <2>2, <3>1 DEF Usage
    <3>3. known  BY <1>2, <3>1, <3>2
    <3> QED  BY <1>1, <3>2, <3>3
  <2> QED  BY <2>1, <2>2
<1>4. best \in {"preCounted", "contextUsage"} => ~known
  <2> SUFFICES ASSUME ~Had(heard, "metadata"),
                      Had(heard, "metering") =>
                        ~(Newest(heard, "metering").input
                            + Newest(heard, "metering").output > 0)
               PROVE  ~known
    OBVIOUS
  <2>1. ~a.hasMetadata  BY DEF Usage
  <2>2. CASE Had(heard, "metering")
    <3>1. a.inputTokens = Newest(heard, "metering").input
          /\ a.outputTokens = Newest(heard, "metering").output
      BY <2>2 DEF Usage
    <3> QED  BY <1>2, <2>1, <2>2, <3>1
  <2>3. CASE ~Had(heard, "metering")
    <3>1. a.inputTokens = 0 /\ a.outputTokens = 0  BY <2>3 DEF Usage
    <3> QED  BY <2>1, <3>1
  <2> QED  BY <2>2, <2>3
<1>5. best = "preCounted" => usage.input = request.preCounted
  <2> SUFFICES ASSUME best = "preCounted" PROVE usage.input = request.preCounted  OBVIOUS
  <2>1. request.preCounted > 0  OBVIOUS
  <2> HIDE DEF best, known
  <2> QED  BY <1>1, <1>4, <2>1
<1>6. best = "contextUsage" =>
        /\ usage.input + usage.output > 0 => Had(heard, best)
        /\ usage.input > 0 => usage.input + usage.output <= request.contextWindow
  <2> SUFFICES ASSUME best = "contextUsage"
               PROVE  /\ usage.input + usage.output > 0 => Had(heard, "contextUsage")
                      /\ usage.input > 0 =>
                           usage.input + usage.output <= request.contextWindow
    OBVIOUS
  <2>1. ~(request.preCounted > 0)  OBVIOUS
  <2>2. a.hasContextUsage => Had(heard, "contextUsage")  BY DEF Usage
  <2> HIDE DEF best, known
  <2> QED  BY <1>1, <1>4, <2>1, <2>2
<1>7. a.cacheTokens = IF Had(heard, "metadata") THEN Newest(heard, "metadata").cache ELSE 0
  BY DEF Usage
<1>8. /\ a.hasCredits = (Priced(heard) # {})
      /\ a.hasCredits => a.credits = heard[Max(Priced(heard))].credits
  <2> DEFINE S == Priced(heard)
             n == Len(heard)
  <2>1. S \in SUBSET (1..n) /\ n \in Nat  BY DEF Priced
  <2> HIDE DEF S, n
  <2>2. (LastIn(S) = 0 <=> S = {}) /\ (S # {} => LastIn(S) = Max(S))  BY <2>1, LastInIs
  <2>3. a.hasCredits <=> S # {}  BY <2>2 DEF Usage, HadPrice, S
  <2>4. a.hasCredits => a.credits = heard[LastIn(S)].credits
    BY DEF Usage, NewestPrice, S
  <2> QED  BY <1>2, <2>2, <2>3, <2>4 DEF S
<1> HIDE DEF known
<1> QED
  BY <1>3, <1>5, <1>6, <1>7, <1>8
  DEF UsageAsHeard, Had, Newest, LastIn, OfKind, Priced, usage

----------------------------------------------------------------------------
(* The tool calls.  DeduplicateToolCalls collects twice what is not yet    *)
(* there: ids, and then calls.                                             *)
Added(key, what, xs, x) == IF what = "ids" THEN Noted(xs, x) ELSE Kept(key, xs, x)

Collects(f, key, what, xs, k) ==
  f = [n \in 0..k |-> IF n = 0 THEN <<>> ELSE Added(key, what, f[n - 1], xs[n])]

LEMMA CollectsSteps ==
  ASSUME NEW f, NEW key, NEW what, NEW xs, NEW k \in Nat, Collects(f, key, what, xs, k)
  PROVE  /\ f[0] = <<>>
         /\ \A n \in 0..k : n + 1 \in 0..k => f[n + 1] = Added(key, what, f[n], xs[n + 1])
<1> DEFINE g == [n \in 0..k |-> IF n = 0 THEN <<>> ELSE Added(key, what, f[n - 1], xs[n])]
<1>1. f = g  BY DEF Collects
<1>2. g[0] = <<>>  OBVIOUS
<1>3. ASSUME NEW n \in 0..k, n + 1 \in 0..k PROVE g[n + 1] = Added(key, what, f[n], xs[n + 1])
  <2>1. n + 1 # 0 /\ (n + 1) - 1 = n  OBVIOUS
  <2>2. g[n + 1] = Added(key, what, f[(n + 1) - 1], xs[n + 1])  BY <1>3, <2>1
  <2> QED  BY <2>1, <2>2
<1> HIDE DEF g
<1> QED  BY <1>1, <1>2, <1>3

LEMMA CollectsExist ==
  ASSUME NEW key, NEW what, NEW xs
  PROVE  \A k \in Nat : \E f : Collects(f, key, what, xs, k)
<1> DEFINE T == {k \in Nat : \E f : Collects(f, key, what, xs, k)}
<1>1. 0 \in T
  <2> DEFINE f == [n \in 0..0 |-> <<>>]
  <2>1. \A n \in 0..0 : n = 0  OBVIOUS
  <2>2. f = [n \in 0..0 |-> IF n = 0 THEN <<>> ELSE Added(key, what, f[n - 1], xs[n])]  BY <2>1
  <2> HIDE DEF f
  <2>3. Collects(f, key, what, xs, 0)  BY <2>2 DEF Collects
  <2> QED  BY <2>3
<1>2. ASSUME NEW k \in Nat, k \in T PROVE k + 1 \in T
  <2>1. PICK f : Collects(f, key, what, xs, k)  BY <1>2
  <2>2. f[0] = <<>> /\ \A n \in 0..k : n + 1 \in 0..k => f[n + 1] = Added(key, what, f[n], xs[n + 1])
    BY <2>1, CollectsSteps
  <2> DEFINE last == Added(key, what, f[k], xs[k + 1])
             g == [n \in 0..(k + 1) |-> IF n = k + 1 THEN last ELSE f[n]]
  <2>3. g[k + 1] = last /\ \A n \in 0..k : g[n] = f[n]  OBVIOUS
  <2>4. g = [n \in 0..(k + 1) |-> g[n]]  OBVIOUS
  <2> HIDE DEF g
  <2>5. ASSUME NEW n \in 0..(k + 1)
        PROVE  g[n] = IF n = 0 THEN <<>> ELSE Added(key, what, g[n - 1], xs[n])
    <3>1. CASE n = 0
      <4>1. n \in 0..k  BY <3>1
      <4> QED  BY <2>2, <2>3, <3>1, <4>1
    <3>2. CASE n # 0 /\ n # k + 1
      <4>1. n \in 0..k /\ n - 1 \in 0..k /\ (n - 1) + 1 = n  BY <3>2
      <4>2. f[n] = Added(key, what, f[n - 1], xs[n])  BY <2>2, <4>1
      <4> QED  BY <2>3, <3>2, <4>1, <4>2
    <3>3. CASE n = k + 1
      <4>1. n # 0 /\ n - 1 = k /\ k \in 0..k  BY <3>3
      <4> QED  BY <2>3, <3>3, <4>1
    <3> QED  BY <3>1, <3>2, <3>3
  <2>6. Collects(g, key, what, xs, k + 1)  BY <2>4, <2>5 DEF Collects
  <2> QED  BY <2>6
<1>3. Nat \subseteq T
  <2> HIDE DEF T
  <2> QED  BY <1>1, <1>2, Induction
<1> QED  BY <1>3

(* Its two recursive functions, as two such collections.                   *)
LEMMA DeduplicateUnfolds ==
  ASSUME NEW cs \in Seq(ToolCall), NEW key
  PROVE  \E f, g :
           LET order   == f[Len(cs)]
               ids     == [n \in 1..Len(cs) |-> cs[n].id]
               longest == [n \in 1..Len(order) |-> Longest(cs, order[n])]
           IN  /\ Collects(f, key, "ids", ids, Len(cs))
               /\ Len(order) \in Nat => /\ Collects(g, key, "calls", longest, Len(order))
                                        /\ DeduplicateToolCalls(cs, key) = g[Len(order)]
<1> DEFINE k == Len(cs)
           ids == [n \in 1..k |-> cs[n].id]
           F(f) == f = [n \in 0..k |-> IF n = 0 THEN <<>> ELSE Noted(f[n - 1], cs[n].id)]
           f0 == CHOOSE f : F(f)
           order == f0[k]
           m == Len(order)
           longest == [n \in 1..m |-> Longest(cs, order[n])]
           G(g) == g = [n \in 0..m |-> IF n = 0 THEN <<>> ELSE Kept(key, g[n - 1], Longest(cs, order[n]))]
           g0 == CHOOSE g : G(g)
<1>1. DeduplicateToolCalls(cs, key) = g0[m]  BY DEF DeduplicateToolCalls
<1>2. k \in Nat  OBVIOUS
<1> HIDE DEF k
<1>3. \A f : F(f) <=> Collects(f, key, "ids", ids, k)
  <2> TAKE f
  <2>1. [n \in 0..k |-> IF n = 0 THEN <<>> ELSE Noted(f[n - 1], cs[n].id)]
          = [n \in 0..k |-> IF n = 0 THEN <<>> ELSE Added(key, "ids", f[n - 1], ids[n])]
    <3> SUFFICES ASSUME NEW n \in 0..k, n # 0
                 PROVE  Noted(f[n - 1], cs[n].id) = Added(key, "ids", f[n - 1], ids[n])
      OBVIOUS
    <3>1. n \in 1..k  BY <1>2
    <3>2. ids[n] = cs[n].id  BY <3>1
    <3> QED  BY <3>2 DEF Added
  <2> QED  BY <2>1 DEF Collects
<1>4. \E f : F(f)
  <2>1. \E f : Collects(f, key, "ids", ids, k)  BY <1>2, CollectsExist
  <2> QED  BY <1>3, <2>1
<1>5. Collects(f0, key, "ids", ids, k)
  <2> HIDE DEF F, ids
  <2> QED  BY <1>3, <1>4
<1> HIDE DEF f0
<1>6. ASSUME m \in Nat PROVE Collects(g0, key, "calls", longest, m)
  <2>1. \A g : G(g) <=> Collects(g, key, "calls", longest, m)
    <3> TAKE g
    <3>1. [n \in 0..m |-> IF n = 0 THEN <<>> ELSE Kept(key, g[n - 1], Longest(cs, order[n]))]
            = [n \in 0..m |-> IF n = 0 THEN <<>> ELSE Added(key, "calls", g[n - 1], longest[n])]
      <4> HIDE DEF order, m
      <4> SUFFICES ASSUME NEW n \in 0..m, n # 0
                   PROVE  Kept(key, g[n - 1], Longest(cs, order[n])) = Added(key, "calls", g[n - 1], longest[n])
        OBVIOUS
      <4>1. n \in 1..m  BY <1>6
      <4>2. longest[n] = Longest(cs, order[n])  BY <4>1
      <4> QED  BY <4>2 DEF Added
    <3> QED  BY <3>1 DEF Collects
  <2> HIDE DEF longest, m
  <2>2. \E g : Collects(g, key, "calls", longest, m)  BY <1>6, CollectsExist
  <2> HIDE DEF G
  <2> QED  BY <2>1, <2>2
<1> HIDE DEF g0
<1> QED  BY <1>1, <1>5, <1>6 DEF k

LEMMA CallIs ==
  ASSUME NEW cs \in Seq(ToolCall)
  PROVE  /\ Len(cs) \in Nat /\ DOMAIN cs = 1..Len(cs)
         /\ \A i \in 1..Len(cs) : /\ cs[i] \in ToolCall /\ cs[i].id \in STRING
                                  /\ Len(cs[i].input) \in Nat
<1>1. Len(cs) \in Nat /\ DOMAIN cs = 1..Len(cs) /\ \A i \in 1..Len(cs) : cs[i] \in ToolCall
  OBVIOUS
<1>2. \A c \in ToolCall : c.id \in STRING /\ c.input \in Seq(STRING)  BY DEF ToolCall
<1>3. \A s \in Seq(STRING) : Len(s) \in Nat  OBVIOUS
<1> QED  BY <1>1, <1>2, <1>3

(* The call that is kept of those with one id.                             *)
LEMMA LongestIs ==
  ASSUME NEW cs \in Seq(ToolCall), NEW id, NEW j \in 1..Len(cs), cs[j].id = id
  PROVE  /\ \E m \in 1..Len(cs) : Longest(cs, id) = cs[m]
         /\ Longest(cs, id).id = id
         /\ \A i \in 1..Len(cs) :
              cs[i].id = id => Len(Longest(cs, id).input) >= Len(cs[i].input)
<1> DEFINE n    == Len(cs)
           same == {i \in DOMAIN cs : cs[i].id = id}
           S    == {Len(cs[i].input) : i \in same}
           size == Max(S)
           best == {i \in same : Len(cs[i].input) = size}
           h    == [i \in 1..n |-> Len(cs[i].input)]
           top  == Max({0} \cup {h[i] : i \in 1..n})
<1>1. n \in Nat /\ DOMAIN cs = 1..n /\ \A i \in 1..n : Len(cs[i].input) \in Nat
  BY CallIs
<1>2. top \in Nat /\ \A i \in 1..n : top >= Len(cs[i].input)
  <2>1. h \in [1..n -> Int] /\ \A i \in 1..n : h[i] = Len(cs[i].input)  BY <1>1
  <2> HIDE DEF h, n
  <2>2. top \in Nat /\ \A i \in 1..n : top >= h[i]  BY <1>1, <2>1, MaxOverSequence
  <2> QED  BY <2>1, <2>2
<1> HIDE DEF top
<1>3. S \in SUBSET (0..top) /\ S # {}
  <2>1. \A i \in same : Len(cs[i].input) \in 0..top
    <3>1. \A i \in same : i \in 1..n  BY <1>1
    <3> QED  BY <1>1, <1>2, <3>1
  <2>2. j \in same  BY <1>1
  <2> QED  BY <2>1, <2>2
<1>4. size \in S /\ \A l \in S : size >= l
  <2> HIDE DEF S
  <2> QED  BY <1>2, <1>3, MaxBelow
<1>5. best \in SUBSET Nat /\ best # {}
  <2>1. best \subseteq 1..n  BY <1>1
  <2>2. PICK i \in same : Len(cs[i].input) = size  BY <1>4
  <2> HIDE DEF size, same
  <2> QED  BY <2>1, <2>2
<1>6. Min(best) \in best
  <2> HIDE DEF best
  <2> QED  BY <1>5, MinOfSome
<1>7. Longest(cs, id) = cs[Min(best)]  BY DEF Longest
<1> DEFINE m == Min(best)
<1> HIDE DEF m, size
<1>8. m \in 1..n /\ cs[m].id = id /\ Len(cs[m].input) = size  BY <1>1, <1>6 DEF m
<1>9. \A i \in 1..n : cs[i].id = id => Len(cs[i].input) \in S  BY <1>1
<1> HIDE DEF S
<1>10. \A i \in 1..n : cs[i].id = id => Len(cs[m].input) >= Len(cs[i].input)
  BY <1>4, <1>8, <1>9
<1> QED  BY <1>7, <1>8, <1>10 DEF m

Unlike(xs) == \A i, j \in 1..Len(xs) : i # j => xs[i] # xs[j]

(* Every id is noted, and none twice.                                      *)
Lists(xs, ids, k) ==
  /\ xs \in Seq(STRING) /\ Unlike(xs)
  /\ \A i \in 1..k : \E j \in 1..Len(xs) : xs[j] = ids[i]
  /\ \A j \in 1..Len(xs) : \E i \in 1..k : xs[j] = ids[i]

LEMMA IdsNoted ==
  ASSUME NEW k \in Nat, NEW ids \in [1..k -> STRING], NEW f, NEW key,
         Collects(f, key, "ids", ids, k)
  PROVE  Lists(f[k], ids, k)
<1> DEFINE P(n) == Lists(f[n], ids, n)
           T == {n \in Nat : n <= k => P(n)}
<1>1. f[0] = <<>> /\ \A n \in 0..k : n + 1 \in 0..k => f[n + 1] = Added(key, "ids", f[n], ids[n + 1])
  BY CollectsSteps
<1>2. 0 \in T
  <2>1. <<>> \in Seq(STRING) /\ Len(<<>>) = 0 /\ 1..0 = {}  OBVIOUS
  <2>2. Unlike(<<>>)  BY <2>1 DEF Unlike
  <2>3. P(0)  BY <1>1, <2>1, <2>2 DEF Lists
  <2> QED  BY <2>3
<1>3. ASSUME NEW n \in Nat, n \in T PROVE n + 1 \in T
  <2> SUFFICES ASSUME n + 1 <= k PROVE P(n + 1)  OBVIOUS
  <2>1. n \in 0..k /\ n + 1 \in 0..k /\ n + 1 \in 1..k  OBVIOUS
  <2> DEFINE xs == f[n]
             ys == f[n + 1]
             x  == ids[n + 1]
  <2>2. x \in STRING  BY <2>1
  <2>3. ys = Noted(xs, x)  BY <1>1, <2>1 DEF Added
  <2>4. /\ xs \in Seq(STRING) /\ Unlike(xs)
        /\ \A i \in 1..n : \E j \in 1..Len(xs) : xs[j] = ids[i]
        /\ \A j \in 1..Len(xs) : \E i \in 1..n : xs[j] = ids[i]
    BY <1>3, <2>1 DEF Lists
  <2>5. Len(xs) \in Nat  BY <2>4
  <2> HIDE DEF xs, ys
  <2>6. CASE \E j \in 1..Len(xs) : xs[j] = x
    <3>1. ys = xs  BY <2>3, <2>6 DEF Noted, Contains
    <3>2. \A i \in 1..(n + 1) : \E j \in 1..Len(xs) : xs[j] = ids[i]
      <4> TAKE i \in 1..(n + 1)
      <4>1. i \in 1..n \/ i = n + 1  OBVIOUS
      <4> QED  BY <2>4, <2>6, <4>1
    <3>3. \A j \in 1..Len(xs) : \E i \in 1..(n + 1) : xs[j] = ids[i]
      <4> TAKE j \in 1..Len(xs)
      <4>1. PICK i \in 1..n : xs[j] = ids[i]  BY <2>4
      <4>2. i \in 1..(n + 1)  OBVIOUS
      <4> QED  BY <4>1, <4>2
    <3> QED  BY <2>4, <3>1, <3>2, <3>3 DEF ys, Lists
  <2>7. CASE ~\E j \in 1..Len(xs) : xs[j] = x
    <3>1. ys = Append(xs, x)  BY <2>3, <2>7 DEF Noted, Contains
    <3>2. ys \in Seq(STRING) /\ Len(ys) = Len(xs) + 1 /\ ys[Len(xs) + 1] = x
          /\ \A j \in 1..Len(xs) : ys[j] = xs[j]
      BY <2>2, <2>4, <3>1
    <3> HIDE DEF x
    <3>3. \A j \in 1..Len(ys) : j \in 1..Len(xs) \/ j = Len(xs) + 1  BY <2>5, <3>2
    <3>4. Len(xs) + 1 \in 1..Len(ys) /\ \A j \in 1..Len(xs) : j \in 1..Len(ys)
      BY <2>5, <3>2
    <3>5. Unlike(ys)
      <4> SUFFICES ASSUME NEW i \in 1..Len(ys), NEW j \in 1..Len(ys), i # j
                   PROVE  ys[i] # ys[j]
        BY DEF Unlike
      <4> QED  BY <2>4, <2>7, <3>2, <3>3 DEF Unlike
    <3>6. \A i \in 1..(n + 1) : \E j \in 1..Len(ys) : ys[j] = ids[i]
      <4> TAKE i \in 1..(n + 1)
      <4>1. CASE i = n + 1  BY <3>2, <3>4, <4>1 DEF x
      <4>2. CASE i # n + 1
        <5>1. i \in 1..n  BY <4>2
        <5>2. PICK j \in 1..Len(xs) : xs[j] = ids[i]  BY <2>4, <5>1
        <5> QED  BY <3>2, <3>4, <5>2
      <4> QED  BY <4>1, <4>2
    <3>7. \A j \in 1..Len(ys) : \E i \in 1..(n + 1) : ys[j] = ids[i]
      <4> TAKE j \in 1..Len(ys)
      <4>1. CASE j = Len(xs) + 1
        <5>1. n + 1 \in 1..(n + 1)  OBVIOUS
        <5> QED  BY <3>2, <4>1, <5>1 DEF x
      <4>2. CASE j \in 1..Len(xs)
        <5>1. PICK i \in 1..n : xs[j] = ids[i]  BY <2>4, <4>2
        <5>2. i \in 1..(n + 1)  OBVIOUS
        <5> QED  BY <3>2, <4>2, <5>1, <5>2
      <4> QED  BY <3>3, <4>1, <4>2
    <3> QED  BY <3>2, <3>5, <3>6, <3>7 DEF ys, Lists
  <2> QED  BY <2>6, <2>7
<1>4. Nat \subseteq T
  <2> HIDE DEF T
  <2> QED  BY <1>2, <1>3, Induction
<1>5. P(k)
  <2> HIDE DEF P
  <2> QED  BY <1>4
<1> QED  BY <1>5

LEMMA SameKeyIsEqual ==
  ASSUME NEW key
  PROVE  /\ \A c : SameKey(key, c, c)
         /\ \A c, d : SameKey(key, c, d) => SameKey(key, d, c)
BY DEF SameKey

OwnIds(cs)   == \A i, j \in 1..Len(cs) : i # j => cs[i].id # cs[j].id
OwnArgs(key, cs)  == \A i, j \in 1..Len(cs) : i # j => ~SameKey(key, cs[i], cs[j])

(* Of calls with ids of their own, one with each arguments is kept.        *)
Keeping(key, xs, cs, m) ==
  /\ xs \in Seq(ToolCall) /\ OwnIds(xs) /\ OwnArgs(key, xs)
  /\ \A i \in 1..m : \E j \in 1..Len(xs) : SameKey(key, xs[j], cs[i])
  /\ \A j \in 1..Len(xs) : \E i \in 1..m : xs[j] = cs[i]

LEMMA CallsKept ==
  ASSUME NEW m \in Nat, NEW cs \in Seq(ToolCall), Len(cs) = m, OwnIds(cs),
         NEW f, NEW key, Collects(f, key, "calls", cs, m)
  PROVE  Keeping(key, f[m], cs, m)
<1> DEFINE P(n) == Keeping(key, f[n], cs, n)
           T == {n \in Nat : n <= m => P(n)}
<1>1. f[0] = <<>>
      /\ \A n \in 0..m : n + 1 \in 0..m => f[n + 1] = Added(key, "calls", f[n], cs[n + 1])
  BY CollectsSteps
<1>2. 0 \in T
  <2>1. <<>> \in Seq(ToolCall) /\ Len(<<>>) = 0 /\ 1..0 = {}  OBVIOUS
  <2>2. OwnIds(<<>>) /\ OwnArgs(key, <<>>)  BY <2>1 DEF OwnIds, OwnArgs
  <2>3. P(0)  BY <1>1, <2>1, <2>2 DEF Keeping
  <2> QED  BY <2>3
<1>3. ASSUME NEW n \in Nat, n \in T PROVE n + 1 \in T
  <2> SUFFICES ASSUME n + 1 <= m PROVE P(n + 1)  OBVIOUS
  <2>1. n \in 0..m /\ n + 1 \in 0..m /\ n + 1 \in 1..m
        /\ \A i \in 1..n : i \in 1..m /\ i # n + 1
    OBVIOUS
  <2> DEFINE xs == f[n]
             ys == f[n + 1]
             x  == cs[n + 1]
  <2>2. x \in ToolCall  BY <2>1
  <2>3. ys = Kept(key, xs, x)  BY <1>1, <2>1 DEF Added
  <2>4. /\ xs \in Seq(ToolCall) /\ OwnIds(xs) /\ OwnArgs(key, xs)
        /\ \A i \in 1..n : \E j \in 1..Len(xs) : SameKey(key, xs[j], cs[i])
        /\ \A j \in 1..Len(xs) : \E i \in 1..n : xs[j] = cs[i]
    BY <1>3, <2>1 DEF Keeping
  <2>5. Len(xs) \in Nat /\ DOMAIN xs = 1..Len(xs)  BY <2>4
  <2>5a. \A i \in 1..n : cs[i].id # x.id  BY <2>1 DEF OwnIds
  <2> HIDE DEF xs, ys, x
  <2>6. CASE \E j \in 1..Len(xs) : SameKey(key, xs[j], x)
    <3>1. ys = xs  BY <2>3, <2>5, <2>6 DEF Kept
    <3>2. \A i \in 1..(n + 1) : \E j \in 1..Len(xs) : SameKey(key, xs[j], cs[i])
      <4> TAKE i \in 1..(n + 1)
      <4>1. i \in 1..n \/ i = n + 1  OBVIOUS
      <4> QED  BY <2>4, <2>6, <4>1 DEF x
    <3>3. \A j \in 1..Len(xs) : \E i \in 1..(n + 1) : xs[j] = cs[i]
      <4> TAKE j \in 1..Len(xs)
      <4>1. PICK i \in 1..n : xs[j] = cs[i]  BY <2>4
      <4>2. i \in 1..(n + 1)  OBVIOUS
      <4> QED  BY <4>1, <4>2
    <3> QED  BY <2>4, <3>1, <3>2, <3>3 DEF ys, Keeping
  <2>7. CASE ~\E j \in 1..Len(xs) : SameKey(key, xs[j], x)
    <3>1. ys = Append(xs, x)  BY <2>3, <2>5, <2>7 DEF Kept
    <3>2. ys \in Seq(ToolCall) /\ Len(ys) = Len(xs) + 1 /\ ys[Len(xs) + 1] = x
          /\ \A j \in 1..Len(xs) : ys[j] = xs[j]
      BY <2>2, <2>4, <3>1
    <3>3. \A j \in 1..Len(ys) : j \in 1..Len(xs) \/ j = Len(xs) + 1  BY <2>5, <3>2
    <3>4. Len(xs) + 1 \in 1..Len(ys) /\ \A j \in 1..Len(xs) : j \in 1..Len(ys)
      BY <2>5, <3>2
    <3>5. \A j \in 1..Len(xs) : xs[j].id # x.id
      <4> TAKE j \in 1..Len(xs)
      <4>1. PICK i \in 1..n : xs[j] = cs[i]  BY <2>4
      <4> QED  BY <2>5a, <4>1
    <3>6. OwnIds(ys)
      <4> SUFFICES ASSUME NEW i \in 1..Len(ys), NEW j \in 1..Len(ys), i # j
                   PROVE  ys[i].id # ys[j].id
        BY DEF OwnIds
      <4> QED  BY <2>4, <3>2, <3>3, <3>5 DEF OwnIds
    <3>7. OwnArgs(key, ys)
      <4> SUFFICES ASSUME NEW i \in 1..Len(ys), NEW j \in 1..Len(ys), i # j
                   PROVE  ~SameKey(key, ys[i], ys[j])
        BY DEF OwnArgs
      <4> QED  BY <2>4, <2>7, <3>2, <3>3, SameKeyIsEqual DEF OwnArgs
    <3>8. \A i \in 1..(n + 1) : \E j \in 1..Len(ys) : SameKey(key, ys[j], cs[i])
      <4> TAKE i \in 1..(n + 1)
      <4>1. CASE i = n + 1
        <5>1. SameKey(key, x, x)  BY SameKeyIsEqual
        <5> QED  BY <3>2, <3>4, <4>1, <5>1 DEF x
      <4>2. CASE i # n + 1
        <5>1. i \in 1..n  BY <4>2
        <5>2. PICK j \in 1..Len(xs) : SameKey(key, xs[j], cs[i])  BY <2>4, <5>1
        <5> QED  BY <3>2, <3>4, <5>2
      <4> QED  BY <4>1, <4>2
    <3>9. \A j \in 1..Len(ys) : \E i \in 1..(n + 1) : ys[j] = cs[i]
      <4> TAKE j \in 1..Len(ys)
      <4>1. CASE j = Len(xs) + 1
        <5>1. n + 1 \in 1..(n + 1)  OBVIOUS
        <5> QED  BY <3>2, <4>1, <5>1 DEF x
      <4>2. CASE j \in 1..Len(xs)
        <5>1. PICK i \in 1..n : xs[j] = cs[i]  BY <2>4, <4>2
        <5>2. i \in 1..(n + 1)  OBVIOUS
        <5> QED  BY <3>2, <4>2, <5>1, <5>2
      <4> QED  BY <3>3, <4>1, <4>2
    <3> QED  BY <3>2, <3>6, <3>7, <3>8, <3>9 DEF ys, Keeping
  <2> QED  BY <2>6, <2>7
<1>4. Nat \subseteq T
  <2> HIDE DEF T
  <2> QED  BY <1>2, <1>3, Induction
<1>5. P(m)
  <2> HIDE DEF P
  <2> QED  BY <1>4
<1> QED  BY <1>5

(* What is left of the calls, and what stands for those that are not.      *)
Stand(key, ds, cs) ==
  /\ ds \in Seq(ToolCall) /\ OwnIds(ds) /\ OwnArgs(key, ds)
  /\ \A i \in 1..Len(ds) : \E j \in 1..Len(cs) :
       ds[i] = Longest(cs, cs[j].id) /\ ds[i].id = cs[j].id
  /\ \A j \in 1..Len(cs) : \E i \in 1..Len(ds) : SameKey(key, ds[i], Longest(cs, cs[j].id))

LEMMA Deduplicated ==
  ASSUME NEW cs \in Seq(ToolCall), NEW key, NEW ds, ds = DeduplicateToolCalls(cs, key)
  PROVE  Stand(key, ds, cs)
<1> DEFINE k   == Len(cs)
           ids == [n \in 1..k |-> cs[n].id]
<1>1. k \in Nat /\ ids \in [1..k -> STRING] /\ \A n \in 1..k : ids[n] = cs[n].id  BY CallIs
<1>2. PICK f, g :
        LET order   == f[k]
            longest == [n \in 1..Len(order) |-> Longest(cs, order[n])]
        IN  /\ Collects(f, key, "ids", ids, k)
            /\ Len(order) \in Nat => /\ Collects(g, key, "calls", longest, Len(order))
                                     /\ ds = g[Len(order)]
  BY DeduplicateUnfolds
<1> DEFINE order == f[k]
           m == Len(order)
           longest == [n \in 1..m |-> Longest(cs, order[n])]
<1>3. /\ order \in Seq(STRING) /\ Unlike(order)
      /\ \A i \in 1..k : \E j \in 1..m : order[j] = ids[i]
      /\ \A j \in 1..m : \E i \in 1..k : order[j] = ids[i]
  <2>1. Collects(f, key, "ids", ids, k)  BY <1>2
  <2> HIDE DEF ids, k
  <2>2. Lists(order, ids, k)  BY <1>1, <2>1, IdsNoted
  <2> QED  BY <2>2 DEF Lists
<1>4. m \in Nat  BY <1>3
<1>5. Collects(g, key, "calls", longest, m) /\ ds = g[m]  BY <1>2, <1>4
<1> HIDE DEF ids, order
<1>6. \A n \in 1..m : \E j \in 1..k : order[n] = cs[j].id  BY <1>1, <1>3
<1>7. ASSUME NEW n \in 1..m
      PROVE  longest[n] = Longest(cs, order[n]) /\ longest[n] \in ToolCall
             /\ longest[n].id = order[n]
  <2>1. PICK j \in 1..k : order[n] = cs[j].id  BY <1>6
  <2> DEFINE c == Longest(cs, order[n])
  <2>2. (\E l \in 1..k : c = cs[l]) /\ c.id = order[n]  BY <2>1, LongestIs
  <2> HIDE DEF c
  <2>3. c \in ToolCall  BY <2>2, CallIs
  <2>4. longest[n] = c  BY DEF c
  <2> QED  BY <2>2, <2>3, <2>4 DEF c
<1>8. longest \in Seq(ToolCall) /\ Len(longest) = m  BY <1>4, <1>7
<1> HIDE DEF longest, m
<1>9. OwnIds(longest)
  <2> SUFFICES ASSUME NEW i \in 1..m, NEW j \in 1..m, i # j
               PROVE  longest[i].id # longest[j].id
    BY <1>8 DEF OwnIds
  <2> QED  BY <1>3, <1>7 DEF Unlike, m
<1>10. /\ ds \in Seq(ToolCall) /\ OwnIds(ds) /\ OwnArgs(key, ds)
       /\ \A i \in 1..m : \E j \in 1..Len(ds) : SameKey(key, ds[j], longest[i])
       /\ \A j \in 1..Len(ds) : \E i \in 1..m : ds[j] = longest[i]
  <2>1. Keeping(key, ds, longest, m)  BY <1>4, <1>5, <1>8, <1>9, CallsKept
  <2> QED  BY <2>1 DEF Keeping
<1>11. ASSUME NEW i \in 1..Len(ds)
       PROVE  \E j \in 1..k : ds[i] = Longest(cs, cs[j].id) /\ ds[i].id = cs[j].id
  <2>1. PICK n \in 1..m : ds[i] = longest[n]  BY <1>10
  <2>2. PICK j \in 1..k : order[n] = cs[j].id  BY <1>6
  <2> QED  BY <1>7, <2>1, <2>2
<1>12. ASSUME NEW j \in 1..k
       PROVE  \E i \in 1..Len(ds) : SameKey(key, ds[i], Longest(cs, cs[j].id))
  <2>1. PICK n \in 1..m : order[n] = cs[j].id
    <3>1. \E n \in 1..m : order[n] = ids[j]  BY <1>3
    <3>2. ids[j] = cs[j].id  BY <1>1
    <3> QED  BY <3>1, <3>2
  <2>2. longest[n] = Longest(cs, cs[j].id)  BY <1>7, <2>1
  <2> QED  BY <1>10, <2>2
<1> QED  BY <1>10, <1>11, <1>12 DEF Stand

(* The client's names, and a stop reason only with a stop.                 *)
Named(was) ==
  \A i \in DOMAIN was.toolCalls : was.toolCalls[i].name \notin {m.from : m \in request.toolNames}

ReasonIfStopped(was) == was.localStop \/ was.stopReason = ""

LEMMA RestoredIsNamed ==
  ASSUME request \in Requests, NEW tool \in ToolCall
  PROVE  Restored(tool).name \notin {m.from : m \in request.toolNames}
<1> DEFINE names == {m.to : m \in {n \in request.toolNames : n.from = tool.name}}
           name  == IF names = {} THEN tool.name ELSE CHOOSE x \in names : TRUE
<1>1. Restored(tool) = [tool EXCEPT !.name = name]  BY DEF Restored, ToolCall
<1>2. Restored(tool).name = name
  <2> HIDE DEF name
  <2> QED  BY <1>1 DEF ToolCall
<1>3. CASE names = {}
  <2>1. \A m \in request.toolNames : m.from # tool.name  BY <1>3
  <2>2. name = tool.name  BY <1>3
  <2> QED  BY <1>2, <2>1, <2>2
<1>4. CASE names # {}
  <2>1. name \in names  BY <1>4
  <2>2. PICK m \in request.toolNames : name = m.to  BY <2>1
  <2>3. \A n \in request.toolNames : m.to # n.from  BY NamesWereLonger
  <2> HIDE DEF name
  <2> QED  BY <1>2, <2>2, <2>3
<1> QED  BY <1>3, <1>4

LEMMA NamedKept ==
  ASSUME NEW was, NEW new, Keeps(was, new)
  PROVE  (Named(was) => Named(new)) /\ (ReasonIfStopped(was) => ReasonIfStopped(new))
<1>1. new.toolCalls = was.toolCalls  BY DEF Keeps, Reports
<1>2. Named(was) => Named(new)  BY <1>1 DEF Named
<1>3. ReasonIfStopped(was) => ReasonIfStopped(new)  BY DEF Keeps, ReasonIfStopped
<1> QED  BY <1>2, <1>3

(* A frame of usage changes nothing else.                                  *)
LEMMA UsageAlone ==
  ASSUME a \in Acc, NEW e, NEW new,
         \/ new = [a EXCEPT !.hasMetadata = TRUE, !.inputTokens = e.input,
                            !.outputTokens = e.output, !.cacheTokens = e.cache]
         \/ new = [a EXCEPT !.hasContextUsage = TRUE, !.contextUsagePercentage = e.percent]
         \/ new = IF e.credits < 0 THEN Counted(e)
                  ELSE [Counted(e) EXCEPT !.hasCredits = TRUE, !.credits = e.credits]
  PROVE  (Named(a) => Named(new)) /\ (ReasonIfStopped(a) => ReasonIfStopped(new))
<1> DEFINE Same(x) == /\ x.toolCalls = a.toolCalls /\ x.localStop = a.localStop
                      /\ x.stopReason = a.stopReason
                      /\ DOMAIN x = DOMAIN a
           c == Counted(e)
<1>1. Same(c)
  <2>1. c = a \/ c = [a EXCEPT !.inputTokens = e.input, !.outputTokens = e.output]
    BY DEF Counted
  <2> HIDE DEF c
  <2> QED  BY <2>1 DEF Acc
<1>2. Same([c EXCEPT !.hasCredits = TRUE, !.credits = e.credits])
  <2>1. {"toolCalls", "localStop", "stopReason"} \subseteq DOMAIN a  BY DEF Acc
  <2> HIDE DEF c
  <2> QED  BY <1>1, <2>1
<1>3. Same([a EXCEPT !.hasMetadata = TRUE, !.inputTokens = e.input,
                     !.outputTokens = e.output, !.cacheTokens = e.cache])
  BY DEF Acc
<1>4. Same([a EXCEPT !.hasContextUsage = TRUE, !.contextUsagePercentage = e.percent])
  BY DEF Acc
<1>5. Same(new)
  <2> HIDE DEF Same
  <2> QED  BY <1>1, <1>2, <1>3, <1>4 DEF c
<1> QED  BY <1>5 DEF Named, ReasonIfStopped

LEMMA ToolUseReports ==
  ASSUME request \in Requests, a \in Acc, NEW tool \in ToolCall, NEW new, new = Recorded(tool)
  PROVE  /\ Named(a) => Named(new)
         /\ ReasonIfStopped(a) => ReasonIfStopped(new)
         /\ \A h : Usage(a, h) => Usage(new, h)
<1> DEFINE was == [a EXCEPT !.toolCalls = Append(@, Restored(tool)),
                            !.toolRunes = @ + Len(tool.input),
                            !.outputRuneCount = @ + Len(tool.input)]
           stop == Stopped(was, "max_tokens")
           Same(x) ==
             /\ x.toolCalls = Append(a.toolCalls, Restored(tool))
             /\ x.hasMetadata = a.hasMetadata /\ x.inputTokens = a.inputTokens
             /\ x.outputTokens = a.outputTokens /\ x.cacheTokens = a.cacheTokens
             /\ x.hasContextUsage = a.hasContextUsage
             /\ x.contextUsagePercentage = a.contextUsagePercentage
             /\ x.hasCredits = a.hasCredits /\ x.credits = a.credits
<1>1. new = was \/ new = stop  BY DEF Recorded
<1>2. Same(was) /\ was.localStop = a.localStop /\ was.stopReason = a.stopReason  BY DEF Acc
<1>3. Same(stop) /\ stop.localStop
  <2>1. /\ DOMAIN was = DOMAIN a /\ "localStop" \in DOMAIN a
        /\ stop = [was EXCEPT !.localStop = TRUE, !.stopReason = "max_tokens"]
    BY DEF Acc, Stopped
  <2> HIDE DEF was
  <2> QED  BY <1>2, <2>1 DEF Acc
<1> HIDE DEF was, stop
<1>4. Same(new)  BY <1>1, <1>2, <1>3
<1>5. ReasonIfStopped(a) => ReasonIfStopped(new)  BY <1>1, <1>2, <1>3 DEF ReasonIfStopped
<1>6. \A h : Usage(a, h) => Usage(new, h)  BY <1>4 DEF Usage
<1>7. ASSUME Named(a) PROVE Named(new)
  <2>1. a.toolCalls \in Seq(ToolCall)  BY DEF Acc
  <2> DEFINE n == Len(a.toolCalls)
             last == Restored(tool)
             cs == a.toolCalls
  <2>2. new.toolCalls = Append(cs, last)  BY <1>4
  <2>3. last.name \notin {m.from : m \in request.toolNames}  BY RestoredIsNamed
  <2>4. \A i \in 1..n : cs[i].name \notin {m.from : m \in request.toolNames}
    BY <1>7, <2>1 DEF Named
  <2> HIDE DEF last, cs, n
  <2>5. DOMAIN Append(cs, last) = 1..(n + 1) /\ n \in Nat
        /\ Append(cs, last)[n + 1] = last /\ \A i \in 1..n : Append(cs, last)[i] = cs[i]
    BY <2>1 DEF cs, n
  <2>6. \A i \in 1..(n + 1) : i \in 1..n \/ i = n + 1  BY <2>5
  <2> QED  BY <2>2, <2>3, <2>4, <2>5, <2>6 DEF Named
<1> QED  BY <1>5, <1>6, <1>7

(* Each call that is kept was normalized to a form of its own input.       *)
LEMMA NormalizedInput ==
  ASSUME NEW cs \in Seq(ToolCall), NEW key \in Normalizations(cs), NEW j \in 1..Len(cs)
  PROVE  key[cs[j].id] \in normalizeJSON(Longest(cs, cs[j].id).input)
<1> DEFINE ids    == {cs[i].id : i \in DOMAIN cs}
           inputs == [id \in ids |-> Longest(cs, id).input]
<1>1. cs[j].id \in ids  BY CallIs
<1>2. \A id \in DOMAIN inputs : key[id] \in normalizeJSON(inputs[id])
  BY DEF Normalizations
<1> HIDE DEF ids
<1>3. DOMAIN inputs = ids /\ \A id \in ids : inputs[id] = Longest(cs, id).input  OBVIOUS
<1> HIDE DEF inputs
<1> QED  BY <1>1, <1>2, <1>3

LEMMA CallsReported ==
  ASSUME a \in Acc, Named(a), ReasonIfStopped(a)
  PROVE  CallsAsHeard
<1> SUFFICES ASSUME NEW key \in Normalizations(a.toolCalls)
             PROVE
    LET told == ReportedCalls(a, key)
        Stands(c, d) ==
          IF c.id = d.id THEN Len(c.input) >= Len(d.input)
          ELSE /\ c.name = Longest(a.toolCalls, d.id).name
               /\ normalizeJSON(c.input) \cap normalizeJSON(Longest(a.toolCalls, d.id).input) # {}
        Repeats(c, d) ==
          /\ c.name = d.name
          /\ \E x \in normalizeJSON(c.input) : {x} = normalizeJSON(c.input) /\ {x} = normalizeJSON(d.input)
    IN  /\ \A j \in DOMAIN a.toolCalls : \E i \in DOMAIN told : Stands(told[i], a.toolCalls[j])
        /\ \A i \in DOMAIN told : told[i].name \notin {m.from : m \in request.toolNames}
        /\ ~request.stream =>
             \A i, j \in DOMAIN told :
               i # j => told[i].id # told[j].id /\ ~Repeats(told[i], told[j])
        /\ ~a.localStop => (resolveStopReason(a) = "tool_use") = (told # <<>>)
  BY Zenon DEF CallsAsHeard
<1> DEFINE cs == a.toolCalls
           told == ReportedCalls(a, key)
           Stands(c, d) ==
             IF c.id = d.id THEN Len(c.input) >= Len(d.input)
             ELSE /\ c.name = Longest(a.toolCalls, d.id).name
                  /\ normalizeJSON(c.input) \cap normalizeJSON(Longest(a.toolCalls, d.id).input) # {}
           Repeats(c, d) ==
             /\ c.name = d.name
             /\ \E x \in normalizeJSON(c.input) : {x} = normalizeJSON(c.input) /\ {x} = normalizeJSON(d.input)
<1>1. cs \in Seq(ToolCall)  BY DEF Acc
<1>2. Len(cs) \in Nat /\ DOMAIN cs = 1..Len(cs)
      /\ \A i \in 1..Len(cs) : cs[i] \in ToolCall /\ Len(cs[i].input) \in Nat
  BY <1>1, CallIs
<1>3. /\ \A j \in DOMAIN cs : \E i \in DOMAIN told : Stands(told[i], cs[j])
      /\ \A i \in DOMAIN told : told[i].name \notin {m.from : m \in request.toolNames}
      /\ ~request.stream =>
           \A i, j \in DOMAIN told :
             i # j => told[i].id # told[j].id /\ ~Repeats(told[i], told[j])
      /\ told \in Seq(ToolCall)
      /\ told # <<>> <=> cs # <<>>
  <2>1. CASE request.stream
    <3>1. told = cs  BY <2>1 DEF ReportedCalls
    <3>2. \A j \in DOMAIN cs : Stands(cs[j], cs[j])  BY <1>2
    <3> HIDE DEF told, cs, Stands, Repeats
    <3>3. \A i \in DOMAIN cs : cs[i].name \notin {m.from : m \in request.toolNames}
      BY DEF Named, cs
    <3> QED  BY <1>1, <2>1, <3>1, <3>2, <3>3
  <2>2. CASE ~request.stream
    <3>1. told = DeduplicateToolCalls(cs, key)  BY <2>2 DEF ReportedCalls
    <3> HIDE DEF told
    <3>2. /\ told \in Seq(ToolCall) /\ OwnIds(told) /\ OwnArgs(key, told)
          /\ \A i \in 1..Len(told) : \E j \in 1..Len(cs) :
               told[i] = Longest(cs, cs[j].id) /\ told[i].id = cs[j].id
          /\ \A j \in 1..Len(cs) : \E i \in 1..Len(told) :
               SameKey(key, told[i], Longest(cs, cs[j].id))
      <4>1. Stand(key, told, cs)  BY <1>1, <3>1, Deduplicated
      <4> HIDE DEF cs
      <4> QED  BY <4>1 DEF Stand
    <3>3. DOMAIN told = 1..Len(told) /\ Len(told) \in Nat  BY <3>2
    <3>4. \A j \in 1..Len(cs) : /\ key[cs[j].id] \in normalizeJSON(Longest(cs, cs[j].id).input)
                               /\ Longest(cs, cs[j].id).id = cs[j].id
      BY <1>1, NormalizedInput, LongestIs
    <3>5. \A i \in 1..Len(told) : key[told[i].id] \in normalizeJSON(told[i].input)
      <4> TAKE i \in 1..Len(told)
      <4>1. PICK l \in 1..Len(cs) : told[i] = Longest(cs, cs[l].id) /\ told[i].id = cs[l].id
        BY <3>2
      <4> HIDE DEF cs
      <4> QED  BY <3>4, <4>1
    <3>6. ASSUME NEW j \in 1..Len(cs) PROVE \E i \in 1..Len(told) : Stands(told[i], cs[j])
      <4>1. PICK i \in 1..Len(told) : SameKey(key, told[i], Longest(cs, cs[j].id))  BY <3>2
      <4>2. CASE told[i].id = cs[j].id
        <5>1. PICK l \in 1..Len(cs) :
                told[i] = Longest(cs, cs[l].id) /\ told[i].id = cs[l].id
          BY <3>2
        <5>2. told[i] = Longest(cs, cs[j].id)  BY <4>2, <5>1
        <5>3. Len(Longest(cs, cs[j].id).input) >= Len(cs[j].input)  BY <1>1, LongestIs
        <5> QED  BY <4>2, <5>2, <5>3
      <4>3. CASE told[i].id # cs[j].id
        <5> DEFINE c == Longest(cs, cs[j].id)
        <5>1. told[i].name = c.name /\ key[told[i].id] = key[c.id]  BY <4>1 DEF SameKey
        <5>2. c.id = cs[j].id /\ key[cs[j].id] \in normalizeJSON(c.input)  BY <3>4
        <5>3. key[told[i].id] \in normalizeJSON(told[i].input)  BY <3>5
        <5> HIDE DEF c
        <5>4. key[told[i].id] \in normalizeJSON(told[i].input) \cap normalizeJSON(c.input)
          BY <5>1, <5>2, <5>3
        <5> QED  BY <4>3, <5>1, <5>4 DEF c
      <4> QED  BY <4>2, <4>3
    <3>7. ASSUME NEW i \in 1..Len(told)
          PROVE  told[i].name \notin {m.from : m \in request.toolNames}
      <4>1. PICK j \in 1..Len(cs) : told[i] = Longest(cs, cs[j].id)  BY <3>2
      <4>2. PICK l \in 1..Len(cs) : Longest(cs, cs[j].id) = cs[l]  BY <1>1, LongestIs
      <4>3. cs[l].name \notin {m.from : m \in request.toolNames}  BY <1>2 DEF Named
      <4> QED  BY <4>1, <4>2, <4>3
    <3>8. ASSUME NEW i \in 1..Len(told), NEW j \in 1..Len(told), i # j
          PROVE  told[i].id # told[j].id /\ ~Repeats(told[i], told[j])
      <4>1. told[i].id # told[j].id /\ ~SameKey(key, told[i], told[j])
        BY <3>2, <3>8 DEF OwnIds, OwnArgs
      <4>2. ASSUME Repeats(told[i], told[j]) PROVE FALSE
        <5>1. PICK x : {x} = normalizeJSON(told[i].input) /\ {x} = normalizeJSON(told[j].input)
          BY <4>2
        <5>2. key[told[i].id] = x /\ key[told[j].id] = x  BY <3>5, <5>1
        <5>3. SameKey(key, told[i], told[j])  BY <4>2, <5>2 DEF SameKey
        <5> QED  BY <4>1, <5>3
      <4> QED  BY <4>1, <4>2
    <3> HIDE DEF Stands, Repeats, cs
    <3>9. told # <<>> <=> cs # <<>>
      <4>1. told # <<>> => 1 \in 1..Len(told)  BY <3>2, <3>3
      <4>2. cs # <<>> => 1 \in 1..Len(cs)  BY <1>1, <1>2
      <4>3. told = <<>> => 1..Len(told) = {}  OBVIOUS
      <4>4. cs = <<>> => 1..Len(cs) = {}  OBVIOUS
      <4> QED  BY <3>2, <4>1, <4>2, <4>3, <4>4
    <3> QED  BY <1>2, <2>2, <3>2, <3>3, <3>6, <3>7, <3>8, <3>9
  <2> QED  BY <2>1, <2>2
<1> HIDE DEF told
<1>4. ~a.localStop => (resolveStopReason(a) = "tool_use" <=> told # <<>>)
  <2> SUFFICES ASSUME ~a.localStop PROVE resolveStopReason(a) = "tool_use" <=> told # <<>>
    OBVIOUS
  <2>1. a.stopReason = ""  BY DEF ReasonIfStopped
  <2>2. resolveStopReason(a) = IF a.toolCalls # <<>> THEN "tool_use" ELSE "end_turn"
    BY <2>1, Zenon DEF resolveStopReason
  <2>3. resolveStopReason(a) = "tool_use" <=> cs # <<>>  BY <2>2
  <2> HIDE DEF cs
  <2> QED  BY <1>3, <2>3
<1>5. ~a.localStop => (resolveStopReason(a) = "tool_use") = (told # <<>>)
  <2> HIDE DEF cs, Stands
  <2> QED  BY <1>4
<1> QED  BY <1>3, <1>5, Zenon DEF told

(* The inductive invariant of what is reported.                            *)
Reported == Usage(a, heard) /\ Named(a) /\ ReasonIfStopped(a)

LEMMA ReportedInit == AccInit => Reported
<1> SUFFICES ASSUME AccInit PROVE Reported  OBVIOUS
<1>1. heard = <<>> /\ DOMAIN <<>> = {} /\ 1..0 = {}  BY DEF AccInit
<1>2. \A kind : OfKind(heard, kind) = {}  BY <1>1 DEF OfKind
<1>3. Priced(heard) = {}  BY <1>1 DEF Priced
<1>4. LastIn({}) = 0
  <2>1. 0 \in Nat /\ {} \in SUBSET (1..0)  OBVIOUS
  <2> QED  BY <2>1, LastInIs
<1>5. (\A kind : ~Had(heard, kind)) /\ ~HadPrice(heard)
  BY <1>2, <1>3, <1>4 DEF Had, HadPrice
<1>6. /\ a.hasMetadata = FALSE /\ a.inputTokens = 0 /\ a.outputTokens = 0
      /\ a.cacheTokens = 0 /\ a.hasContextUsage = FALSE /\ a.hasCredits = FALSE
      /\ a.toolCalls = <<>>
  BY DEF AccInit, newAccumulator
<1>7. a.stopReason = ""  BY DEF AccInit, newAccumulator
<1>8. Usage(a, heard)  BY <1>5, <1>6 DEF Usage
<1>9. Named(a)  BY <1>1, <1>6 DEF Named
<1>10. ReasonIfStopped(a)  BY <1>7, Zenon DEF ReasonIfStopped
<1> QED  BY <1>8, <1>9, <1>10 DEF Reported

LEMMA ReportedStep == AccIInv /\ Reported /\ [AccNext]_accVars => Reported'
<1> SUFFICES ASSUME AccIInv, Reported, [AccNext]_accVars PROVE Reported'  OBVIOUS
<1>0. /\ request \in Requests /\ request \in Request /\ said \in Text
      /\ heard \in Seq(Heard) /\ a \in Acc
      /\ Usage(a, heard) /\ Named(a) /\ ReasonIfStopped(a)
  BY RequestsAreTyped DEF AccIInv, AccTypeOK, Reported
<1>1. SUFFICES request' = request /\ Usage(a', heard') /\ Named(a') /\ ReasonIfStopped(a')
  <2> SUFFICES ASSUME request' = request, Usage(a', heard'), Named(a'), ReasonIfStopped(a')
               PROVE  Reported'
    OBVIOUS
  <2>1. Usage(a, heard)'
    <3>1. Usage(a', heard') <=> Usage(a, heard)'
      BY DEF Usage, Had, Newest, HadPrice, NewestPrice, LastIn, OfKind, Priced
    <3> QED  BY <3>1
  <2>2. Named(a)'  BY DEF Named
  <2>3. ReasonIfStopped(a)'  BY DEF ReasonIfStopped
  <2> QED  BY <2>1, <2>2, <2>3 DEF Reported
<1>2. \A e : Hears(e) => heard' = Append(heard, e) /\ request' = request  BY DEF Hears
<1>3. \A was : AfterEvent(was) => a' = was  BY DEF AfterEvent
<1>4. Keeps(a, a') => Usage(a', heard) /\ Named(a') /\ ReasonIfStopped(a')
  <2>1. Keeps(a, a') => Reports(a') = Reports(a)  BY DEF Keeps
  <2> QED  BY <1>0, <2>1, UsageKept, NamedKept
<1>5. CASE AssistantResponse
  <2>1. PICK chunk \in BoundedSeq(Char, Sends[request].text - Len(said)) :
          said' = said \o chunk /\ AfterEvent(AssistantContent(said'))
    BY <1>5 DEF AssistantResponse
  <2>2. chunk \in Seq(Char)  BY <2>1 DEF BoundedSeq, SeqOf
  <2>3. said' \in Text  BY <1>0, <2>1, <2>2 DEF Text
  <2>4. Keeps(a, a')  BY <1>0, <1>3, <2>1, <2>3, ContentKeeps
  <2>5. heard' = heard /\ request' = request  BY <1>5 DEF AssistantResponse
  <2> QED  BY <1>4, <2>4, <2>5
<1>6. CASE ReasoningContent
  <2> DEFINE thinking == Append(a.lastThinking, Thought)
             seen == [a EXCEPT !.lastThinking = thinking]
             new  == IF a.suppressReasoningContent THEN a
                     ELSE IF a.localStop THEN seen
                     ELSE accumulateThinking(seen, ComputeDelta(thinking, a.lastThinking))
  <2>1. PICK e \in Events("reasoning") : Hears(e) /\ AfterEvent(new)
    BY <1>6 DEF ReasoningContent
  <2>2. e \in Heard /\ e.kind = "reasoning"  BY <1>0, EventsAreHeard
  <2>3. Keeps(a, new)  BY <1>0, ReasoningKeeps
  <2> HIDE DEF new
  <2>4. Usage(a', heard) /\ Named(a') /\ ReasonIfStopped(a')  BY <1>3, <1>4, <2>1, <2>3
  <2>5. Usage(a', Append(heard, e))
    <3>1. e.kind \notin {"metadata", "metering", "contextUsage"}  BY <2>2
    <3> QED  BY <1>0, <2>2, <2>4, <3>1, OthersHeard
  <2> QED  BY <1>2, <2>1, <2>4, <2>5
<1>7. CASE ToolUse
  <2>1. PICK e \in Events("toolUse") :
          Hears(e) /\ AfterEvent(IF a.localStop \/ e.tool.name = request.dropTool THEN a
                                 ELSE Recorded(e.tool))
    BY <1>7 DEF ToolUse
  <2>2. e \in Heard /\ e.kind = "toolUse"  BY <1>0, EventsAreHeard
  <2>3. e.tool \in ToolCall  BY <2>2 DEF Heard
  <2>4. a' = a \/ a' = Recorded(e.tool)  BY <1>3, <2>1
  <2>5. Usage(a', heard) /\ Named(a') /\ ReasonIfStopped(a')
    BY <1>0, <2>3, <2>4, ToolUseReports
  <2>6. Usage(a', Append(heard, e))
    <3>1. e.kind \notin {"metadata", "metering", "contextUsage"}  BY <2>2
    <3> QED  BY <1>0, <2>2, <2>5, <3>1, OthersHeard
  <2> QED  BY <1>2, <2>1, <2>5, <2>6
<1>8. CASE Metadata
  <2>1. PICK e \in Events("metadata") :
          Hears(e) /\ AfterEvent([a EXCEPT !.hasMetadata = TRUE, !.inputTokens = e.input,
                                           !.outputTokens = e.output,
                                           !.cacheTokens = e.cache])
    BY <1>8 DEF Metadata
  <2>2. e \in Heard /\ e.kind = "metadata"  BY <1>0, EventsAreHeard
  <2>3. a' = [a EXCEPT !.hasMetadata = TRUE, !.inputTokens = e.input,
                       !.outputTokens = e.output, !.cacheTokens = e.cache]
    BY <1>3, <2>1
  <2>4. Usage(a', Append(heard, e))  BY <1>0, <2>2, <2>3, MetadataHeard
  <2>5. Named(a') /\ ReasonIfStopped(a')  BY <1>0, <2>3, UsageAlone
  <2> QED  BY <1>2, <2>1, <2>4, <2>5
<1>9. CASE Metering
  <2>1. PICK e \in Events("metering") :
          Hears(e) /\ AfterEvent(IF e.credits < 0 THEN Counted(e)
                                 ELSE [Counted(e) EXCEPT !.hasCredits = TRUE,
                                                         !.credits = e.credits])
    BY <1>9 DEF Metering
  <2>2. e \in Heard /\ e.kind = "metering"  BY <1>0, EventsAreHeard
  <2>3. a' = IF e.credits < 0 THEN Counted(e)
             ELSE [Counted(e) EXCEPT !.hasCredits = TRUE, !.credits = e.credits]
    BY <1>3, <2>1
  <2>4. Usage(a', Append(heard, e))  BY <1>0, <2>2, <2>3, MeteringHeard
  <2>5. Named(a') /\ ReasonIfStopped(a')  BY <1>0, <2>3, UsageAlone
  <2> QED  BY <1>2, <2>1, <2>4, <2>5
<1>10. CASE ContextUsage
  <2>1. PICK e \in Events("contextUsage") :
          Hears(e) /\ AfterEvent([a EXCEPT !.hasContextUsage = TRUE,
                                           !.contextUsagePercentage = e.percent])
    BY <1>10 DEF ContextUsage
  <2>2. e \in Heard /\ e.kind = "contextUsage"  BY <1>0, EventsAreHeard
  <2>3. a' = [a EXCEPT !.hasContextUsage = TRUE, !.contextUsagePercentage = e.percent]
    BY <1>3, <2>1
  <2>4. Usage(a', Append(heard, e))  BY <1>0, <2>2, <2>3, ContextUsageHeard
  <2>5. Named(a') /\ ReasonIfStopped(a')  BY <1>0, <2>3, UsageAlone
  <2> QED  BY <1>2, <2>1, <2>4, <2>5
<1>11. CASE FinalizeStream
  <2> DEFINE mid == finalizeThinkingTags(a)
  <2>1. a' = flushStopSeqPending(mid) /\ request' = request /\ heard' = heard
    BY <1>11 DEF FinalizeStream
  <2>2. Keeps(a, mid)  BY <1>0, FinalizeKeeps
  <2> HIDE DEF mid
  <2>3. mid \in Acc  BY <2>2 DEF Keeps
  <2>4. Keeps(mid, a')  BY <1>0, <2>1, <2>3, FlushKeeps
  <2>5. Keeps(a, a')  BY <2>2, <2>4, KeepsFurther
  <2> QED  BY <1>4, <2>1, <2>5
<1>12. CASE UNCHANGED accVars
  <2>1. a' = a /\ heard' = heard /\ request' = request  BY <1>12 DEF accVars
  <2> QED  BY <1>0, <2>1
<1> QED
  BY <1>5, <1>6, <1>7, <1>8, <1>9, <1>10, <1>11, <1>12 DEF AccNext

LEMMA ReportedInvariant == AccSpec => [](AccIInv /\ Reported)
<1>1. AccInit => Reported  BY ReportedInit
<1>2. AccIInv /\ AccIInv' /\ Reported /\ [AccNext]_accVars => Reported'  BY ReportedStep
<1> QED  BY <1>1, <1>2, AccInvariant, PTL DEF AccSpec

(* The answer reports the usage of the last frame of the best source, and  *)
(* something for every recorded call, under the client's name and with the *)
(* stop reason that announces it, whatever Kiro sent, in whatever order    *)
(* and however normalizeJSON writes the members.  Without a stream it has  *)
(* no id twice, nor arguments that can be written in one way only.         *)
THEOREM AlwaysReportedAsHeard == AccSpec => []ReportedAsHeard
<1>1. ASSUME AccIInv, Reported PROVE ReportedAsHeard
  <2>1. /\ request \in Request /\ a \in Acc /\ heard \in Seq(Heard)
        /\ Usage(a, heard) /\ Named(a) /\ ReasonIfStopped(a)
    BY <1>1, RequestsAreTyped DEF AccIInv, AccTypeOK, Reported
  <2>2. UsageAsHeard /\ CallsAsHeard  BY <2>1, UsageReported, CallsReported
  <2> QED  BY <2>2 DEF ReportedAsHeard
<1> QED  BY <1>1, ReportedInvariant, PTL
=============================================================================
