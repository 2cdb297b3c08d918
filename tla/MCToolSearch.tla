---------------------------- MODULE MCToolSearch ----------------------------
(* Two tools, all rounds, and a few frames in both runs together: of what  *)
(* Kiro may send, thinking, text that is held back in part or stopped, a   *)
(* redacted block and a call of a client's tool.                           *)
EXTENDS ToolSearch

MCContent(deltas, stop, held) ==
  [kind |-> "content", deltas |-> deltas, stop |-> stop, held |-> held]

MCUpstreamEvents ==
  { MCContent({"thinking"}, FALSE, FALSE), MCContent({"text"}, FALSE, TRUE),
    MCContent({"text"}, TRUE, FALSE),
    [kind |-> "redacted", deltas |-> {}, stop |-> FALSE, held |-> FALSE],
    [kind |-> "tool", deltas |-> {}, stop |-> FALSE, held |-> FALSE] }
=============================================================================
