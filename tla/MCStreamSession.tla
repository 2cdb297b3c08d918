--------------------------- MODULE MCStreamSession ---------------------------
(* StreamSession with three events and up to two keep-alive comments: a    *)
(* buffered batch of two events and one event after promotion, a comment   *)
(* before and one after them, and every way a write may fail.  An event is *)
(* written once, which bounds the run and identifies the bytes.            *)
EXTENDS StreamSession

WrittenOnce ==
  /\ \A i, j \in DOMAIN hist.offered : hist.offered[i] = hist.offered[j] => i = j
  /\ hist.dropped \cap Elements(hist.offered) = {}

MCSpec == Init /\ [][Next /\ WrittenOnce']_sessionVars /\ Fairness
=============================================================================
