----------------------------- MODULE Accumulator -----------------------------
(***************************************************************************)
(* internal/respconv: the responseAccumulator, which turns the events of   *)
(* Kiro into text and thinking deltas.  Kiro sends the whole text again    *)
(* with every event; the accumulator takes the difference, routes what is  *)
(* between <thinking> tags to the thinking, holds back what may become a   *)
(* tag or a stop sequence, and enforces stop_sequences and max_tokens.  It *)
(* also collects the tool calls and the usage that the answer reports.     *)
(*                                                                         *)
(* A text is a sequence of characters, and a tag a short one: what counts  *)
(* is that the two tags begin alike and that neither contains the other's  *)
(* first character twice.  One handler call is one action.                 *)
(***************************************************************************)
EXTENDS Integers, SequencesExt, Filtering

CONSTANTS
  Char, OpenTag, CloseTag,
  Thought,         \* a character of a reasoningContentEvent
  RunesPerToken,   \* of the token estimate: 4 in the code
  Rounded,         \* the number that a float64 makes of those it has not
  Requests,        \* what a request makes of its accumulator: see Request
  Sends            \* bound: what Kiro may send to each request: see Bounds

ASSUME TagsAreTexts == {OpenTag, CloseTag} \subseteq Seq(Char) \ {<<>>}
ASSUME ThoughtsDiffer == Thought \notin Char
ASSUME RunesPerTokenIsPositive == RunesPerToken \in Nat \ {0}

VARIABLES
  request,   \* what the accumulator was made with
  said,      \* history: the text that Kiro has sent
  heard,     \* history: the other events it has sent
  a,         \* the accumulator
  stage      \* "open", "stopped" after a stop signal, "finished"

accVars == <<request, said, heard, a, stage>>

Text     == Seq(Char)
Thinking == Seq(Char \cup {Thought})
ToolCall == [id : STRING, name : STRING, input : Seq(STRING)]

(* The events that carry no text.  The credits of a malformed meteringEvent*)
(* are -1; one number stands for both cache counts.                        *)
Heard ==
  [kind : {"reasoning"}] \cup [kind : {"toolUse"}, tool : ToolCall]
  \cup [kind : {"metadata"}, input : Nat, output : Nat, cache : Nat]
  \cup [kind : {"metering"}, input : Nat, output : Nat, credits : Nat \cup {-1}]
  \cup [kind : {"contextUsage"}, percent : Int]

(* A maxTokens or preCounted of 0 is none.  toolNames has the shortened    *)
(* names of tools, and dropTool is the name that is not recorded, or "".   *)
Request ==
  [ stream : BOOLEAN, stopSequences : Seq(Text), maxTokens : Nat, preCounted : Nat,
    contextWindow : Nat, toolNames : SUBSET [from : STRING, to : STRING],
    dropTool : STRING ]
Bounds == [text : Nat, others : Nat, events : SUBSET Heard]   \* bounds

ASSUME RequestsAreTyped ==
  /\ Requests \subseteq Request
  /\ DOMAIN Sends = Requests /\ \A r \in Requests : Sends[r] \in Bounds

(* A shortened name has 64 characters, and the name it stands for has more.*)
ASSUME NamesWereLonger ==
  \A r \in Requests : \A m, n \in r.toolNames : m.to # n.from

(* toolRunes is a history variable.                                        *)
Acc ==
  [ lastContent : Text, lastThinking : Thinking, textBuf : Text, thinkingBuf : Thinking,
    toolCalls : Seq(ToolCall), toolRunes : Nat,
    hasMetadata : BOOLEAN, inputTokens : Nat, outputTokens : Nat, cacheTokens : Nat,
    hasContextUsage : BOOLEAN, contextUsagePercentage : Int,
    hasCredits : BOOLEAN, credits : Nat,
    localStop : BOOLEAN, stopReason : {"", "stop_sequence", "max_tokens"},
    stopSequence : Text, stopSeqPending : Text, outputRuneCount : Nat,
    thinkingTagInside : BOOLEAN, thinkingTagBuf : Text,
    suppressReasoningContent : BOOLEAN ]

newAccumulator ==
  [ lastContent |-> <<>>, lastThinking |-> <<>>, textBuf |-> <<>>, thinkingBuf |-> <<>>,
    toolCalls |-> <<>>, toolRunes |-> 0,
    hasMetadata |-> FALSE, inputTokens |-> 0, outputTokens |-> 0, cacheTokens |-> 0,
    hasContextUsage |-> FALSE, contextUsagePercentage |-> 0,
    hasCredits |-> FALSE, credits |-> 0,
    localStop |-> FALSE, stopReason |-> "", stopSequence |-> <<>>,
    stopSeqPending |-> <<>>, outputRuneCount |-> 0, thinkingTagInside |-> FALSE,
    thinkingTagBuf |-> <<>>, suppressReasoningContent |-> FALSE ]

AccInit ==
  /\ request \in Requests
  /\ said = <<>> /\ heard = <<>>
  /\ a = newAccumulator
  /\ stage = "open"

First(s, n) == SubSeq(s, 1, n)
After(s, n) == SubSeq(s, n + 1, Len(s))
Ending(s, n) == After(s, Len(s) - n)

(* strings.Index, counted from 0; -1 when s does not contain t.            *)
Index(s, t) ==
  LET at == {i \in 0..(Len(s) - Len(t)) : SubSeq(s, i + 1, i + Len(t)) = t}
  IN  IF at = {} THEN -1 ELSE Min(at)

----------------------------------------------------------------------------
(* ComputeDelta.                                                           *)

OnlyOnce(f, b, k, c) == IF k > 0 /\ b[k + 1] # c THEN f[k - 1] ELSE k   \* mutant: if, not for
Fall(f, b, k, c) ==
  LET fall[j \in 0..k] == IF j > 0 /\ b[j + 1] # c THEN fall[f[j - 1]] ELSE j
  IN  fall[k]

Extend(b, k, c) == IF b[k + 1] = c THEN k + 1 ELSE k

(* The longest suffix of x that is a prefix of b, by the failure function. *)
kmpOverlap(x, b) ==
  LET f[i \in 0..(Len(b) - 1)] ==
        IF i = 0 THEN 0 ELSE Extend(b, Fall(f, b, f[i - 1], b[i + 1]), b[i + 1])
      match[i \in 0..Len(x)] ==
        IF i = 0 THEN 0
        ELSE LET k == Extend(b, Fall(f, b, match[i - 1], x[i]), x[i])
             IN  IF k = Len(b) THEN f[k - 1] ELSE k
  IN  IF x = <<>> \/ b = <<>> THEN 0 ELSE match[Len(x)]

ComputeDelta(chunk, previous) ==
  IF previous = <<>> THEN chunk
  ELSE IF IsPrefix(previous, chunk) THEN After(chunk, Len(previous))
  ELSE IF IsStrictPrefix(chunk, previous) THEN <<>>
  ELSE After(chunk, kmpOverlap(previous, chunk))

----------------------------------------------------------------------------
(* parseThinkingTags.                                                      *)

NoPartialTag(s, tag) == 0   \* mutant: only whole tags are looked for
partialTagSuffix(s, tag) ==
  Max({n \in 0..(Len(tag) - 1) : n <= Len(s) /\ Ending(s, n) = First(tag, n)})

(* One turn of the loop, on what is buffered.  A turn that finds no tag    *)
(* ends the loop: what it leaves, another turn leaves as it is.            *)
Turn(p) ==
  LET tag   == IF p.in THEN CloseTag ELSE OpenTag
      at    == Index(p.buf, tag)
      upto  == IF at >= 0 THEN at ELSE Len(p.buf) - partialTagSuffix(p.buf, tag)
      out   == First(p.buf, upto)
      taken == [p EXCEPT !.text     = IF p.in THEN @ ELSE @ \o out,
                         !.thinking = IF p.in THEN @ \o out ELSE @]
  IN  IF at >= 0
      THEN [taken EXCEPT !.buf = After(p.buf, at + Len(tag)), !.in = ~p.in,
                         !.opened = @ \/ ~p.in]
      ELSE [taken EXCEPT !.buf = After(p.buf, upto)]

(* A tag is at least one character long, and so there are no more turns.   *)
parseThinkingTags(buffer, inside) ==
  LET start == [buf |-> buffer, in |-> inside, text |-> <<>>, thinking |-> <<>>,
                opened |-> FALSE]
      turns[n \in 0..Len(buffer)] == IF n = 0 THEN start ELSE Turn(turns[n - 1])
  IN  turns[Len(buffer)]

----------------------------------------------------------------------------
(* Limits.  Each returns the accumulator and what is left of the delta.    *)

Stopped(acc, reason) == [acc EXCEPT !.localStop = TRUE, !.stopReason = reason]

OffByOne(runes) == runes \div RunesPerToken <= request.maxTokens   \* mutant
WithinBudget(runes) == runes \div RunesPerToken < request.maxTokens

applyMaxTokensBudget(acc, delta) ==
  LET total     == acc.outputRuneCount + Len(delta)
      remaining == request.maxTokens * RunesPerToken - acc.outputRuneCount
      fits      == [acc EXCEPT !.outputRuneCount = total]
  IN  IF request.maxTokens = 0 \/ WithinBudget(total) THEN [acc |-> fits, out |-> delta]
      ELSE IF remaining <= 0 THEN [acc |-> Stopped(acc, "max_tokens"), out |-> <<>>]
      ELSE IF Len(delta) > remaining
           THEN [acc |-> Stopped([acc EXCEPT !.outputRuneCount = @ + remaining], "max_tokens"),
                 out |-> First(delta, remaining)]
           ELSE [acc |-> IF WithinBudget(total) THEN fits ELSE Stopped(fits, "max_tokens"),
                 out |-> delta]

(* initStopSequences leaves out the empty ones.                            *)
StopSequences == request.stopSequences
Stops == {i \in DOMAIN StopSequences : StopSequences[i] # <<>>}
KeepsOneLess == Max({0} \cup {Len(StopSequences[i]) - 2 : i \in DOMAIN StopSequences})   \* mutant
stopSeqMaxKeep == Max({0} \cup {Len(StopSequences[i]) - 1 : i \in DOMAIN StopSequences})

applyStopSequenceFilter(acc, delta) ==
  LET pending == acc.stopSeqPending \o delta
      matches == {i \in Stops : Index(pending, StopSequences[i]) >= 0}
      match   == StopSequences[Min(matches)]
      keep    == Min({Len(pending), stopSeqMaxKeep})
  IN  IF matches # {}
      THEN [acc |-> [Stopped(acc, "stop_sequence")
                       EXCEPT !.stopSequence = match, !.stopSeqPending = <<>>],
            out |-> First(pending, Index(pending, match))]
      ELSE [acc |-> [acc EXCEPT !.stopSeqPending = Ending(pending, keep)],
            out |-> First(pending, Len(pending) - keep)]

----------------------------------------------------------------------------
(* Where a delta goes.                                                     *)

accumulateThinking(acc, thought) ==
  LET r == applyMaxTokensBudget(acc, thought)
  IN  IF thought = <<>> THEN acc ELSE [r.acc EXCEPT !.thinkingBuf = @ \o r.out]

(* The budget is not applied once the accumulator has stopped.             *)
AccumulateText(acc, text) ==
  LET f == IF Stops = {} THEN [acc |-> acc, out |-> text]
           ELSE applyStopSequenceFilter(acc, text)
      r == IF f.out # <<>> /\ ~f.acc.localStop THEN applyMaxTokensBudget(f.acc, f.out) ELSE f
  IN  IF text = <<>> THEN acc ELSE [r.acc EXCEPT !.textBuf = @ \o r.out]

(* ProcessEvent, assistantResponseEvent.                                   *)
AssistantContent(content) ==
  LET delta  == ComputeDelta(content, a.lastContent)
      seen   == [a EXCEPT !.lastContent = content]
      p      == parseThinkingTags(a.thinkingTagBuf \o delta, a.thinkingTagInside)
      parsed == [seen EXCEPT !.thinkingTagBuf = p.buf, !.thinkingTagInside = p.in,
                             !.suppressReasoningContent = @ \/ p.opened]
  IN  IF delta = <<>> \/ a.localStop THEN seen
      ELSE AccumulateText(accumulateThinking(parsed, p.thinking), p.text)

(* A stop signal ends the reading of a stream, and only of a stream.       *)
AfterEvent(acc) ==
  /\ a' = acc
  /\ stage' = IF acc.localStop /\ request.stream THEN "stopped" ELSE "open"

(* Kiro says more, or repeats itself.                                      *)
AssistantResponse ==
  /\ stage = "open"
  /\ \E chunk \in BoundedSeq(Char, Sends[request].text - Len(said)) :
       /\ said' = said \o chunk
       /\ AfterEvent(AssistantContent(said'))
  /\ UNCHANGED <<request, heard>>

Hears(e) ==
  /\ stage = "open"
  /\ Len(heard) < Sends[request].others
  /\ heard' = Append(heard, e)
  /\ UNCHANGED <<request, said>>

Events(kind) == {e \in Sends[request].events : e.kind = kind}

(* More thinking, cumulative as well; not used once tags were seen.        *)
ReasoningContent ==
  \E e \in Events("reasoning") :
    /\ Hears(e)
    /\ LET thinking == Append(a.lastThinking, Thought)
           seen     == [a EXCEPT !.lastThinking = thinking]
       IN  AfterEvent(IF a.suppressReasoningContent THEN a
                      ELSE IF a.localStop THEN seen
                      ELSE accumulateThinking(seen, ComputeDelta(thinking, a.lastThinking)))

Restored(tool) ==
  LET names == {m.to : m \in {n \in request.toolNames : n.from = tool.name}}
  IN  [tool EXCEPT !.name = IF names = {} THEN @ ELSE CHOOSE name \in names : TRUE]

(* A tool input cannot be cut: it counts as a whole.                       *)
Recorded(tool) ==
  LET acc == [a EXCEPT !.toolCalls = Append(@, Restored(tool)),
                       !.toolRunes = @ + Len(tool.input),
                       !.outputRuneCount = @ + Len(tool.input)]
  IN  IF request.maxTokens = 0 \/ WithinBudget(acc.outputRuneCount) THEN acc
      ELSE Stopped(acc, "max_tokens")

ToolUse ==
  \E e \in Events("toolUse") :
    /\ Hears(e)
    /\ AfterEvent(IF a.localStop \/ e.tool.name = request.dropTool THEN a ELSE Recorded(e.tool))

Metadata ==
  \E e \in Events("metadata") :
    /\ Hears(e)
    /\ AfterEvent([a EXCEPT !.hasMetadata = TRUE, !.inputTokens = e.input,
                            !.outputTokens = e.output, !.cacheTokens = e.cache])

AlwaysCounts(e) ==   \* mutant: metering overwrites the counts of metadata
  [a EXCEPT !.inputTokens = e.input, !.outputTokens = e.output]
Counted(e) ==
  IF a.hasMetadata THEN a
  ELSE [a EXCEPT !.inputTokens = e.input, !.outputTokens = e.output]

Metering ==
  \E e \in Events("metering") :
    /\ Hears(e)
    /\ AfterEvent(IF e.credits < 0 THEN Counted(e)
                  ELSE [Counted(e) EXCEPT !.hasCredits = TRUE, !.credits = e.credits])

ContextUsage ==
  \E e \in Events("contextUsage") :
    /\ Hears(e)
    /\ AfterEvent([a EXCEPT !.hasContextUsage = TRUE, !.contextUsagePercentage = e.percent])

finalizeThinkingTags(acc) ==
  LET cleared == [acc EXCEPT !.thinkingTagBuf = <<>>]
  IN  IF acc.thinkingTagInside THEN accumulateThinking(cleared, acc.thinkingTagBuf)
      ELSE AccumulateText(cleared, acc.thinkingTagBuf)

flushStopSeqPending(acc) ==
  LET cleared == [acc EXCEPT !.stopSeqPending = <<>>]
      r       == applyMaxTokensBudget(cleared, acc.stopSeqPending)
  IN  IF acc.stopSeqPending = <<>> \/ acc.localStop THEN cleared
      ELSE [r.acc EXCEPT !.textBuf = @ \o r.out]

(* The stream ended, or an event raised a stop signal.                     *)
FinalizeStream ==
  /\ stage \in {"open", "stopped"}
  /\ a' = flushStopSeqPending(finalizeThinkingTags(a))
  /\ stage' = "finished"
  /\ UNCHANGED <<request, said, heard>>

AccNext ==
  \/ AssistantResponse \/ ReasoningContent \/ ToolUse
  \/ Metadata \/ Metering \/ ContextUsage
  \/ FinalizeStream

AccSpec == AccInit /\ [][AccNext]_accVars

----------------------------------------------------------------------------
(* finalizeResult: what is reported of the accumulator in the end.         *)

estimatedOutputTokens(acc) ==
  IF acc.outputRuneCount = 0 THEN 0 ELSE Max({1, acc.outputRuneCount \div RunesPerToken})

Tokens(input, output) == [input |-> input, output |-> output]

(* Kiro's own counts, then the count of the prompt, then the percentage.   *)
resolvedUsage(acc) ==
  LET estimate == estimatedOutputTokens(acc)
      percent  == Max({0, Min({100, acc.contextUsagePercentage})})
      total    == (percent * request.contextWindow) \div 100
  IN  CASE acc.hasMetadata \/ acc.inputTokens > 0 \/ acc.outputTokens > 0 ->
             Tokens(acc.inputTokens, acc.outputTokens)
        [] OTHER ->
             IF request.preCounted > 0 THEN Tokens(request.preCounted, estimate)
             ELSE IF acc.hasContextUsage /\ request.contextWindow > 0
                  THEN Tokens(Max({0, total - estimate}), estimate)
                  ELSE Tokens(0, 0)

resolveStopReason(acc) ==
  IF acc.stopReason # "" THEN acc.stopReason
  ELSE IF acc.toolCalls # <<>> THEN "tool_use" ELSE "end_turn"

(* What normalizeJSON may return.  An input is its members and its blanks; *)
(* without a member, or with one twice, it is not JSON, and stays as it is.*)
(* Numbers are read as float64, and a map is written in any order.         *)
Read64(x) == IF x \in DOMAIN Rounded THEN Rounded[x] ELSE x

normalizeJSON(input) ==
  LET members == SelectSeq(input, LAMBDA x : x # "blank")
      read    == [k \in DOMAIN members |-> Read64(members[k])]
  IN  IF members = <<>> \/ ~IsInjective(members) THEN {input} ELSE InAnyOrder(read)

Longest(calls, id) ==
  LET same == {i \in DOMAIN calls : calls[i].id = id}
      size == Max({Len(calls[i].input) : i \in same})
  IN  calls[Min({i \in same : Len(calls[i].input) = size})]

(* What normalizeJSON returned for the call of each id: any of these.      *)
Normalizations(calls) ==
  LET inputs == [id \in {calls[i].id : i \in DOMAIN calls} |-> Longest(calls, id).input]
  IN  {n \in [DOMAIN inputs -> UNION {normalizeJSON(inputs[id]) : id \in DOMAIN inputs}] :
         \A id \in DOMAIN inputs : n[id] \in normalizeJSON(inputs[id])}

SameKey(n, c, d) == c.name = d.name /\ n[c.id] = n[d.id]

Noted(ids, id)   == IF Contains(ids, id) THEN ids ELSE Append(ids, id)
Kept(n, kept, c) == IF \E i \in DOMAIN kept : SameKey(n, kept[i], c) THEN kept ELSE Append(kept, c)

(* The longest of each id, in the order of the ids, and the first of equals. *)
DeduplicateToolCalls(calls, n) ==
  LET ids[k \in 0..Len(calls)] ==
        IF k = 0 THEN <<>> ELSE Noted(ids[k - 1], calls[k].id)
      order == ids[Len(calls)]
      kept[k \in 0..Len(order)] ==
        IF k = 0 THEN <<>> ELSE Kept(n, kept[k - 1], Longest(calls, order[k]))
  IN  kept[Len(order)]

(* A stream has shown each call as it came.                                *)
ReportedCalls(acc, n) ==
  IF request.stream THEN acc.toolCalls ELSE DeduplicateToolCalls(acc.toolCalls, n)

----------------------------------------------------------------------------
(* Reference definitions, on the whole text at once.                       *)

(* Character by character: what is outside of tags, and what is inside.    *)
Read(p, s, n) ==
  LET tag == IF p.in THEN CloseTag ELSE OpenTag
      end == n + Len(tag) - 1
  IN  IF p.skip > 0 THEN [p EXCEPT !.skip = @ - 1]
      ELSE IF end <= Len(s) /\ SubSeq(s, n, end) = tag
           THEN [p EXCEPT !.in = ~@, !.skip = Len(tag) - 1]
      ELSE IF p.in THEN [p EXCEPT !.thinking = Append(@, s[n])]
      ELSE [p EXCEPT !.text = Append(@, s[n])]

Split(s) ==
  LET start == [in |-> FALSE, skip |-> 0, text |-> <<>>, thinking |-> <<>>]
      read[n \in 0..Len(s)] == IF n = 0 THEN start ELSE Read(read[n - 1], s, n)
  IN  read[Len(s)]

Overlaps(x, b) == {n \in 0..Len(b) : n <= Len(x) /\ Ending(x, n) = First(b, n)}
EndsIn(s, t)   == Len(t) <= Len(s) /\ Ending(s, Len(t)) = t

----------------------------------------------------------------------------
(* Properties.                                                             *)

(* The accumulator has the shape of the Go struct.                         *)
AccTypeOK ==
  /\ request \in Requests /\ said \in Text /\ heard \in Seq(Heard)
  /\ a \in Acc
  /\ stage \in {"open", "stopped", "finished"}

(* Whatever text was last and comes next, the delta is the shortest text   *)
(* that makes the last one end in the new one.  (A shorter one could only  *)
(* be an ending of it.)  Two cases are out: a text that is a beginning of  *)
(* the last one has no delta, and one that is an ending of it is delivered *)
(* again, in part or as a whole: see OverlapIsLongest.                     *)
DeltaIsShortest ==
  stage = "finished" =>
    \A i \in 0..Len(said), j \in 0..(Len(said) - 1) :
      LET previous == First(said, i)
          chunk    == After(said, j)
          delta    == ComputeDelta(chunk, previous)
      IN  /\ ~IsStrictPrefix(chunk, previous) => EndsIn(previous \o delta, chunk)
          /\ ~EndsIn(previous, chunk) =>
               \A n \in 0..(Len(delta) - 1) : ~EndsIn(previous \o Ending(delta, n), chunk)

(* How Kiro cuts its text into events does not show: what is delivered is  *)
(* a prefix of what a parser of the whole text finds, and all of it in the *)
(* end, in text and thinking alike.                                        *)
ChunksAreInvisible ==
  LET whole  == Split(said)
      tagged == Filter(a.thinkingBuf, Char)
  IN  /\ stage # "finished" =>
           IsPrefix(a.textBuf, whole.text) /\ IsPrefix(tagged, whole.thinking)
      /\ stage = "finished" /\ ~a.localStop =>
           a.textBuf = whole.text /\ tagged = whole.thinking

(* Until the stop no stop sequence passes, however it is split over        *)
(* events.  From the stop signal on the text ends right before the one     *)
(* that matched, and has none that the client listed before it.  One that  *)
(* is listed later and came in the same event may be in it, as a whole.    *)
StopSequencesFound ==
  /\ ~a.localStop =>
       \A i \in Stops :
         Index(a.textBuf \o a.stopSeqPending, StopSequences[i]) = -1
  /\ stage # "finished" /\ a.stopReason = "stop_sequence" =>
       /\ LET text == Split(said).text
          IN  a.textBuf = First(text, Index(text, a.stopSequence))
       /\ \E m \in Stops :
            /\ StopSequences[m] = a.stopSequence
            /\ \A i \in Stops : i < m => Index(a.textBuf, StopSequences[i]) = -1

(* Until it stops, the accumulator has counted every character that it     *)
(* delivered, text, thinking and tool input, and they are below max_tokens.*)
BudgetCounts ==
  ~a.localStop =>
    /\ a.outputRuneCount = Len(a.textBuf) + Len(a.thinkingBuf) + a.toolRunes
    /\ request.maxTokens # 0 => a.outputRuneCount < RunesPerToken * request.maxTokens

(* The usage is that of the last frame of the best source, in whatever     *)
(* order the frames came: Kiro's metadata, a metering with counts, then    *)
(* what was counted before the request, then the context usage.            *)
UsageAsHeard ==
  LET Latest(kind) == Max({0} \cup {i \in DOMAIN heard : heard[i].kind = kind})
      Has(kind)    == Latest(kind) # 0
      e(kind)      == heard[Latest(kind)]
      best == IF Has("metadata") THEN "metadata"
              ELSE IF Has("metering") /\ e("metering").input + e("metering").output > 0
                   THEN "metering"
              ELSE IF request.preCounted > 0 THEN "preCounted" ELSE "contextUsage"
      usage  == resolvedUsage(a)
      priced == {i \in DOMAIN heard : heard[i].kind = "metering" /\ heard[i].credits >= 0}
  IN  /\ best \in {"metadata", "metering"} =>
            usage = Tokens(e(best).input, e(best).output)
      /\ best = "preCounted" => usage.input = request.preCounted
      /\ best = "contextUsage" =>
            /\ usage.input + usage.output > 0 => Has(best)
            /\ Has(best) /\ e(best).percent > 0 /\ usage.input > 0 =>
                 usage.input + usage.output <= request.contextWindow
      /\ a.cacheTokens = IF Has("metadata") THEN e("metadata").cache ELSE 0
      /\ a.hasCredits = (priced # {})
      /\ a.hasCredits => a.credits = heard[Max(priced)].credits

(* Every call that was recorded is answered for: under its own id with no *)
(* less of its input, or, without a stream, by a call of the same tool     *)
(* whose arguments can be written as its own; without a stream no id comes *)
(* twice, and no arguments that can be written in one way only.  A call    *)
(* has the client's name for the tool, and the stop reason announces it.   *)
CallsAsHeard ==
  \A n \in Normalizations(a.toolCalls) :
    LET calls == ReportedCalls(a, n)
        Stands(c, d) ==
          IF c.id = d.id THEN Len(c.input) >= Len(d.input)
          ELSE /\ c.name = Longest(a.toolCalls, d.id).name
               /\ normalizeJSON(c.input) \cap normalizeJSON(Longest(a.toolCalls, d.id).input) # {}
        Repeats(c, d) ==
          /\ c.name = d.name
          /\ \E x \in normalizeJSON(c.input) : {x} = normalizeJSON(c.input) /\ {x} = normalizeJSON(d.input)
    IN  /\ \A j \in DOMAIN a.toolCalls : \E i \in DOMAIN calls : Stands(calls[i], a.toolCalls[j])
        /\ \A i \in DOMAIN calls : calls[i].name \notin {m.from : m \in request.toolNames}
        /\ ~request.stream =>
             \A i, j \in DOMAIN calls :
               i # j => calls[i].id # calls[j].id /\ ~Repeats(calls[i], calls[j])
        /\ ~a.localStop => (resolveStopReason(a) = "tool_use") = (calls # <<>>)

(* The end of the answer reports what Kiro sent.                           *)
ReportedAsHeard == stage = "finished" => UsageAsHeard /\ CallsAsHeard

(* "Enforces stop_sequences and max_tokens adapter-side": nothing follows  *)
(* the stop sequence, and text and thinking together stay within the       *)
(* budget.  Text that accompanies the thinking that exhausted the budget,  *)
(* and the start of a tag held back when the stop came, break this.        *)
LimitsEnforced ==
  /\ a.stopReason = "stop_sequence" =>
       LET text == Split(said).text
       IN  a.textBuf = First(text, Index(text, a.stopSequence))
  /\ a.stopReason = "max_tokens" =>
       Len(a.textBuf) + Len(a.thinkingBuf) <= RunesPerToken * request.maxTokens

(* "The longest suffix of a that is a prefix of b", and of a full match:   *)
(* "the overlap is len(b)" (kmpOverlap's comments), for what ComputeDelta  *)
(* passes to it.                                                           *)
OverlapIsLongest ==
  stage = "finished" =>
    \A i \in 0..Len(said), j \in 0..(Len(said) - 1) :
      LET x == First(said, i)
          b == After(said, j)
      IN  ~IsPrefix(x, b) /\ ~IsPrefix(b, x) => kmpOverlap(x, b) = Max(Overlaps(x, b))
=============================================================================
