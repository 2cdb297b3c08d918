---------------------------- MODULE MCEventStream ----------------------------
(* Messages of up to three frames: two calls, the first without its stop   *)
(* frame, the second in two pieces or with text in between.                *)
EXTENDS EventStream
=============================================================================
