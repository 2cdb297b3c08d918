---------------------------- MODULE MCAccumulator ----------------------------
(* Tags of two characters that begin alike, and requests with and without  *)
(* stop sequences (an empty one, and others of two lengths, one of them    *)
(* the beginning of a tag) and with a budget that half of the text         *)
(* exhausts.  The other requests are for what is reported: usage in every  *)
(* order, and calls that repeat each other.                                *)
EXTENDS Accumulator

CONSTANTS TextLength, OtherEvents   \* bounds

MCChar     == {"<", "t", "/", "x"}
MCOpenTag  == <<"<", "t">>
MCCloseTag == <<"<", "/">>

PlainRequest ==
  [ stream |-> TRUE, stopSequences |-> <<>>, maxTokens |-> 0, preCounted |-> 0,
    contextWindow |-> 0, toolNames |-> {}, dropTool |-> "" ]

AboutText ==
  { PlainRequest,
    [PlainRequest EXCEPT !.maxTokens = 2],
    [PlainRequest EXCEPT !.stopSequences = << <<>>, <<"t", "x">>, <<"x", "/", "t">> >>],
    [PlainRequest EXCEPT !.stopSequences = << <<"x">>, <<"/", "<">> >>, !.maxTokens = 2,
                  !.stream = FALSE] }

AboutUsage ==
  {[PlainRequest EXCEPT !.preCounted = n, !.contextWindow = w, !.maxTokens = 1] :
     n \in {0, 7}, w \in {0, 10}}

AboutCalls ==
  {[PlainRequest EXCEPT !.stream = FALSE, !.dropTool = "search",
                 !.toolNames = {[from |-> "short", to |-> "read"]}]}

MCRequests == AboutText \cup AboutUsage \cup AboutCalls

Reasoning == [kind |-> "reasoning"]
CallEvent(id, name, input) ==
  [kind |-> "toolUse", tool |-> [id |-> id, name |-> name, input |-> input]]

(* The usage frames, with and without counts, and out of range.            *)
UsageFrames ==
  {[kind |-> "metadata", input |-> n, output |-> n, cache |-> n] : n \in {0, 3}}
  \cup {[kind |-> "metering", input |-> n, output |-> n, credits |-> c] :
          n \in {0, 5}, c \in {-1, 2}}
  \cup {[kind |-> "contextUsage", percent |-> p] : p \in {-10, 50, 200}}

(* Inputs that are equal as JSON, longer, with two members or with numbers *)
(* that a float64 does not tell apart, or not JSON.                        *)
MCRounded == [largest |-> "large"]
Inputs == {<<"value">>, <<"blank", "value">>, <<"value", "other">>, <<"blank">>,
           <<"large">>, <<"largest">>}
Calls  == {CallEvent(id, name, input) :
             id \in {"1", "2"}, name \in {"short", "read", "search"}, input \in Inputs}

MCSends ==
  [r \in MCRequests |->
     [ text   |-> IF r \in AboutText THEN TextLength ELSE IF r \in AboutUsage THEN 1 ELSE 0,
       others |-> IF r \in AboutText THEN 1 ELSE OtherEvents,
       events |-> IF r \in AboutText THEN {Reasoning, CallEvent("1", "read", <<"value">>)}
                  ELSE IF r \in AboutUsage THEN UsageFrames \cup {CallEvent("1", "read", <<"value">>)}
                  ELSE Calls ]]
=============================================================================
