---------------------------- MODULE MCTranslation ----------------------------
(* The gateway translates in both directions: the conversation becomes     *)
(* requests to Kiro, and what Kiro answers becomes a response.  Neither    *)
(* direction reads state of the other, so that each is checked while the   *)
(* other rests in one of its initial states.                               *)
EXTENDS MCConversation, MCAccumulator

VARIABLE direction   \* which of the two is checked

TranslationInit ==
  /\ Init /\ AccInit
  /\ direction \in {"request", "response"}
  /\ direction = "request"  => request = PlainRequest
  /\ direction = "response" => client = "talks" /\ env = Env(TRUE, FALSE, <<>>)

TranslationNext ==
  \/ direction = "request"  /\ Next /\ UNCHANGED <<accVars, direction>>
  \/ direction = "response" /\ AccNext /\ UNCHANGED <<vars, direction>>

TranslationSpec == TranslationInit /\ [][TranslationNext]_<<vars, accVars, direction>>
=============================================================================
