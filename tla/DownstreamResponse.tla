-------------------------- MODULE DownstreamResponse --------------------------
(***************************************************************************)
(* What one streaming /v1/messages request promises the client: the body   *)
(* is a stream of events and keep-alive comments that at most one error    *)
(* frame closes, or it is a single JSON error and nothing else; and once   *)
(* the response has ended, by an error frame, a broken transport or the    *)
(* end of the request, not one more byte is written.                       *)
(***************************************************************************)
EXTENDS Integers, Sequences

CONSTANTS Payload, KeepAlive, SseError, JsonError, Cut

VARIABLES
  out,    \* the chunks of the body written so far
  ended   \* nothing may be written any more

responseVars == <<out, ended>>

Streamed == Payload \cup {KeepAlive}

Init == out = <<>> /\ ended = FALSE

(* The body grows at its end; fresh are the positions a step adds.         *)
Grows ==
  /\ Len(out) <= Len(out')
  /\ \A i \in 1..Len(out) : out'[i] = out[i]

fresh == (Len(out) + 1)..Len(out')

(* A comment, or the events of one write, reach the client.                *)
Stream ==
  /\ \A i \in fresh : out'[i] \in Streamed
  /\ ended' \in BOOLEAN

(* A short write leaves whole chunks, then a truncated one, and ends it.   *)
Break ==
  /\ fresh # {}
  /\ \A i \in fresh : out'[i] \in Streamed \/ (i = Len(out') /\ out'[i] = Cut)
  /\ ended' = TRUE

EndWithSSEError  == out' = Append(out, SseError) /\ ended' = TRUE

(* A JSON error is only ever the whole body.                               *)
EndWithJSONError == out = <<>> /\ out' = <<JsonError>> /\ ended' = TRUE

Next ==
  /\ ~ended
  /\ Grows
  /\ Stream \/ Break \/ EndWithSSEError \/ EndWithJSONError

Spec == Init /\ [][Next]_responseVars
=============================================================================
