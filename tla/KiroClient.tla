------------------------------ MODULE KiroClient ------------------------------
(***************************************************************************)
(* internal/kiroclient: the retry loop of GenerateAssistantResponse and of *)
(* SearchWeb, run by requests that authenticate and refresh through the    *)
(* AuthManager they share (internal/app/messages/handler.go).              *)
(*                                                                         *)
(* A client is the goroutine of one request: it gets a token, then makes   *)
(* one upstream call after another (a transparent retry and every round of *)
(* a tool search is a call), each with the token it was given first.  A    *)
(* call makes up to MaxAttempts requests.  Callers that are not clients    *)
(* stand for requests whose upstream calls are of no interest.             *)
(***************************************************************************)
EXTENDS AuthManager

CONSTANTS
  Client,       \* the callers whose upstream calls are modelled
  MaxAttempts   \* maxAttempts: 3 in the code

ASSUME ClientsAreCallers == Client \subseteq Caller
ASSUME MaxAttemptsIsPositive == MaxAttempts \in Nat \ {0}

VARIABLES
  post,   \* the upstream call of each client
  gone    \* clients whose request context is cancelled

vars == <<db, cached, expired, issued, flight, caller, post, gone>>

Kind == {"generate", "search"}

(* What the API makes of one HTTP request: a success, a 200 that carries a *)
(* transient AWS exception instead of an event stream, 429 or 5xx, 403,    *)
(* any other failure, or no response at all.  "unreadable" is a response   *)
(* whose body SearchWeb could not read.                                    *)
Response(kind) ==
  {"ok", "busy", "forbidden", "refused", "unreachable"}
    \cup IF kind = "generate" THEN {"exception"} ELSE {}
Transient == {"busy", "exception", "unreachable"}

(* first is the token of inv.creds, token is currentToken, body says that  *)
(* the body of a response is open.                                         *)
Post ==
  [ pc      : {"idle", "auth", "send", "answered", "decide", "wait", "refresh",
               "returned"},
    kind    : Kind,
    attempt : 0..MaxAttempts,   \* requests made by this call
    first   : {0} \cup Token,
    token   : {0} \cup Token,
    answer  : Response("generate") \cup {"none", "unreadable"},
    body    : BOOLEAN,
    result  : {"none", "success", "error"},
    renewed : {0} \cup Token ]   \* history: the refresher's last answer

NoPost ==
  [ pc |-> "idle", kind |-> "generate", attempt |-> 0, first |-> 0, token |-> 0,
    answer |-> "none", body |-> FALSE, result |-> "none", renewed |-> 0 ]

Init ==
  /\ AuthInit
  /\ post = [c \in Client |-> NoPost]
  /\ gone = {}

Becomes(c, p) == post' = [post EXCEPT ![c] = p]
Goto(c, pc)   == post' = [post EXCEPT ![c].pc = pc]
At(c, pc)     == post[c].pc = pc

Returned(c, result) ==
  Becomes(c, [post[c] EXCEPT !.pc = "returned", !.result = result])

----------------------------------------------------------------------------
(* HandleMessages: authenticate, then call.                                *)

Authenticate(c) ==
  /\ At(c, "idle")
  /\ GetToken(c)
  /\ Goto(c, "auth")
  /\ UNCHANGED gone

(* The token of the credentials the request was given; 401 without.        *)
Call(c, kind, token) ==
  Becomes(c, [NoPost EXCEPT !.pc = "send", !.kind = kind, !.first = token,
                            !.token = token])

Authenticated(c) ==
  /\ At(c, "auth")
  /\ caller[c].pc = "returned"
  /\ IF caller[c].creds = NoCreds THEN Becomes(c, NoPost)
     ELSE \E kind \in Kind : Call(c, kind, caller[c].creds.access)
  /\ gone' = IF caller[c].creds = NoCreds THEN gone \ {c} ELSE gone
  /\ UNCHANGED authVars

(* A transparent retry, or the next round of a tool search: the body is    *)
(* closed and the payload goes out with the token of inv.creds.            *)
CallAgain(c) ==
  /\ At(c, "returned")
  /\ post[c].kind = "generate" /\ post[c].result = "success"
  /\ Call(c, "generate", post[c].first)
  /\ UNCHANGED <<authVars, gone>>

Respond(c) ==
  /\ At(c, "returned")
  /\ Becomes(c, NoPost)
  /\ gone' = gone \ {c}
  /\ UNCHANGED authVars

----------------------------------------------------------------------------
(* One attempt.                                                            *)

(* httpClient.Do; with a cancelled context it fails before it sends.       *)
Send(c) ==
  /\ At(c, "send")
  /\ \E a \in Response(post[c].kind) :
       /\ c \in gone => a = "unreachable"
       /\ Becomes(c, [post[c] EXCEPT !.pc = "answered", !.attempt = @ + 1,
                                     !.answer = a, !.body = a # "unreachable"])
  /\ UNCHANGED <<authVars, gone>>

(* Which bodies are read before the answer is looked at: those of errors,  *)
(* and every one of SearchWeb.                                             *)
Drained(p) ==
  p.body /\ (p.kind = "search" \/ p.answer \in {"busy", "exception", "refused"})

(* A body that breaks off may hide its exception: no transient one then.   *)
Parsed(answer) == IF answer = "exception" THEN {"exception", "refused"} ELSE {answer}

IgnoresCancel(c) == FALSE   \* mutant: NewRequest without the context
Unblocked(c) == c \in gone

(* The body ends, or its transport breaks.  There is no idle timeout here: *)
(* it may do neither for as long as the client stays.                      *)
Drain(c) ==
  /\ At(c, "answered")
  /\ Drained(post[c])
  /\ \/ \E a \in Parsed(post[c].answer) :
          Becomes(c, [post[c] EXCEPT !.pc = "decide", !.answer = a, !.body = FALSE])
     \/ /\ post[c].kind = "search"
        /\ Becomes(c, [post[c] EXCEPT !.pc = "returned", !.result = "error",
                                      !.answer = "unreadable", !.body = FALSE])
  /\ UNCHANGED <<authVars, gone>>

DrainAborted(c) == Unblocked(c) /\ Drain(c)

MayRetry(p) == p.attempt < MaxAttempts

Decides(c) ==
  \/ At(c, "decide")
  \/ At(c, "answered") /\ ~Drained(post[c])

Succeed(c) ==
  /\ Decides(c)
  /\ post[c].answer = "ok"
  /\ Returned(c, "success")
  /\ UNCHANGED <<authVars, gone>>

GivesUpAfterException(p) == p.answer \in {"busy", "unreachable"}   \* mutant
Retryable(p) == p.answer \in Transient

Backoff(c) ==
  /\ Decides(c)
  /\ Retryable(post[c]) /\ MayRetry(post[c])
  /\ Goto(c, "wait")
  /\ UNCHANGED <<authVars, gone>>

(* retryWait: the timer, or a context that is done.                        *)
Waited(c) ==
  /\ At(c, "wait")
  /\ \/ Goto(c, "send")
     \/ c \in gone /\ Returned(c, "error")
  /\ UNCHANGED <<authVars, gone>>

LeavesOpen(p) == p   \* mutant: the 403 branch forgets its body
Close(p) == [p EXCEPT !.body = FALSE]

(* mutant: the refresher invalidates the cache and asks for no token       *)
OnlyInvalidates(c) ==
  /\ Decides(c)
  /\ post[c].answer = "forbidden" /\ MayRetry(post[c])
  /\ cached' = NoCreds
  /\ UNCHANGED <<db, expired, issued, flight, caller, gone>>
  /\ Becomes(c, [Close(post[c]) EXCEPT !.pc = "refresh"])

(* A 403 closes the body and runs the token refresher.                     *)
Forbidden(c) ==
  /\ Decides(c)
  /\ post[c].answer = "forbidden" /\ MayRetry(post[c])
  /\ RefreshRejectedToken(c)
  /\ Becomes(c, [Close(post[c]) EXCEPT !.pc = "refresh"])
  /\ UNCHANGED gone

Shadowed(p, token) == p   \* mutant: currentToken := newToken in the branch
WithToken(p, token) == [p EXCEPT !.token = token]

Refreshed(c) ==
  /\ At(c, "refresh")
  /\ caller[c].pc = "returned"
  /\ IF caller[c].creds = NoCreds THEN Returned(c, "error")
     ELSE LET new == caller[c].creds.access
          IN  Becomes(c, [WithToken(post[c], new) EXCEPT !.pc = "send", !.renewed = new])
  /\ UNCHANGED <<authVars, gone>>

(* Any other failure, and the last attempt's.                              *)
GiveUp(c) ==
  /\ Decides(c)
  /\ post[c].answer # "ok"
  /\ ~(MayRetry(post[c]) /\ (Retryable(post[c]) \/ post[c].answer = "forbidden"))
  /\ Becomes(c, [Close(post[c]) EXCEPT !.pc = "returned", !.result = "error"])
  /\ UNCHANGED <<authVars, gone>>

----------------------------------------------------------------------------
ClientGone(c) ==
  /\ ~At(c, "idle")
  /\ c \notin gone
  /\ gone' = gone \cup {c}
  /\ UNCHANGED <<authVars, post>>

(* What a client's goroutine does without waiting for a body to end.       *)
Runs(c) ==
  \/ Authenticated(c) \/ Send(c) \/ DrainAborted(c) \/ Succeed(c) \/ Backoff(c)
  \/ Waited(c) \/ Forbidden(c) \/ Refreshed(c) \/ GiveUp(c)

InGetToken(c) == Hit(c) \/ Miss(c) \/ Join(c)

Next ==
  \/ \E c \in Client :
       Authenticate(c) \/ Runs(c) \/ Drain(c) \/ CallAgain(c) \/ Respond(c) \/ ClientGone(c)
  \/ /\ \/ \E c \in Caller : InGetToken(c)
        \/ \E c \in Caller \ Client : GetToken(c) \/ RefreshRejectedToken(c)
        \/ Flight
        \/ Expire
        \/ CliWrites
     /\ UNCHANGED <<post, gone>>

Spec == Init /\ [][Next]_vars

----------------------------------------------------------------------------
(* Properties.                                                             *)

(* A call has the shape of the loop's local variables.                     *)
TypeOK ==
  /\ AuthTypeOK
  /\ post \in [Client -> Post]
  /\ gone \subseteq Client

(* On every way out of the loop, and before every further attempt, the     *)
(* response body is closed, except the one that a successful call of       *)
(* GenerateAssistantResponse hands to its caller.                          *)
BodiesClosed ==
  \A c \in Client :
    post[c].body =>
      \/ At(c, "answered")
      \/ At(c, "returned") /\ post[c].result = "success" /\ post[c].kind = "generate"

(* Once a 403 made a call refresh its token, every later attempt of the    *)
(* call, also the one after a later 429, sends what the refresher returned *)
(* last: a token that had not expired when that refresh began.             *)
RetriesSendValidToken ==
  \A c \in Client :
    At(c, "send") /\ post[c].renewed # 0 =>
      /\ post[c].token = post[c].renewed
      /\ post[c].token \notin caller[c].expired

(* A call makes no more requests than the amz-sdk-request header says, and *)
(* fails only for a reason that ends it: a client that left, a refusal, a  *)
(* token that cannot be refreshed, or all its attempts spent.              *)
(* "Exponential backoff retry for 403 (token expiry), 429, and 5xx".       *)
PersistsWhileTransient ==
  \A c \in Client :
    /\ post[c].attempt <= MaxAttempts
    /\ At(c, "returned") /\ post[c].result = "error" =>
      \/ post[c].attempt = MaxAttempts
      \/ c \in gone
      \/ post[c].answer \in {"refused", "unreadable"}
      \/ post[c].answer = "forbidden" /\ caller[c].creds = NoCreds

(* The loop uses the auth manager as its own specification allows, so what *)
(* is proved there of any callers holds for the requests.                  *)
UsesAuth == AuthSpec

(* A request whose client left waits for no peer: whether it is in an      *)
(* HTTP exchange, an error body without end or a backoff, it can take its  *)
(* next step, and only a shared refresh, which ends by itself, holds it.   *)
CancelledNeverWaits ==
  \A c \in gone :
    \/ At(c, "returned")
    \/ caller[c].pc \in {"lookup", "missed"}
    \/ caller[c].pc = "waiting" /\ c \in flight.joined
    \/ ENABLED Runs(c)
=============================================================================
