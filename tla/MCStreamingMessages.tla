------------------------- MODULE MCStreamingMessages -------------------------
(* Two attempts that share a budget of upstream events, so that a block    *)
(* can be switched, a visible event can follow a buffered one, and the     *)
(* second attempt can fail, be empty, or succeed after the first.          *)
EXTENDS StreamingMessages

MCAttempts == FirstAttempt..LastAttempt

(* Everything the accumulator can make of an event.                        *)
AllInputs == Input

(* One input of each effect: buffered only, buffered and then visible,     *)
(* visible with a stop.                                                    *)
FewInputs ==
  { [kind |-> "content", deltas |-> {"thinking"}, stop |-> FALSE, held |-> FALSE],
    [kind |-> "content", deltas |-> {"thinking", "text"}, stop |-> FALSE, held |-> FALSE],
    [kind |-> "tool", deltas |-> {}, stop |-> TRUE, held |-> FALSE] }
=============================================================================
