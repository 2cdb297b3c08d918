---------------------------- MODULE MCAuthManager ----------------------------
(* Two callers and three tokens: one in the database at the start, one the *)
(* CLI or a refresh adds while a flight is in the air, and one after it.   *)
EXTENDS AuthManager
=============================================================================
