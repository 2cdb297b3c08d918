---------------------------- MODULE MCKiroClient ----------------------------
(* A client with all its attempts next to a caller that gets, refreshes    *)
(* and invalidates tokens at any time.  Two tokens: the one in the         *)
(* database, and the one that replaces it.                                 *)
EXTENDS KiroClient
=============================================================================
