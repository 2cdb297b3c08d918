----------------------------- MODULE AuthManager -----------------------------
(***************************************************************************)
(* internal/auth/refresh.go: GetToken, InvalidateCache and the refresh     *)
(* that concurrent callers share, and the token refresher of               *)
(* cmd/kirocc/main.go that a 403 from the Kiro API runs.                   *)
(*                                                                         *)
(* Callers are goroutines.  The cache is read and written under mu, and    *)
(* the singleflight group under its own lock; everything between two       *)
(* critical sections, the database read and the HTTP refresh included, may *)
(* interleave with other callers, with the clock and with the Kiro CLI     *)
(* writing the database.  Access and refresh tokens are numbered in the    *)
(* order in which they are issued.  API-key mode, in which GetToken        *)
(* returns the key and touches no state, is left out.                      *)
(***************************************************************************)
EXTENDS Integers

CONSTANTS
  Caller,     \* goroutines
  MaxIssued   \* bound: access tokens issued, by a login or a refresh

ASSUME MaxIssuedIsPositive == MaxIssued \in Nat \ {0}

VARIABLES
  db,       \* the credentials in the Kiro CLI's SQLite database
  cached,   \* m.cached, or NoCreds
  expired,  \* access tokens that isTokenValid no longer accepts
  issued,   \* how many access tokens exist
  flight,   \* the call of refreshCredentials in the singleflight group
  caller    \* what each caller is doing

authVars == <<db, cached, expired, issued, flight, caller>>

Token      == 1..MaxIssued
Creds      == [access : Token, refresh : Token]
NoCreds    == [access |-> 0, refresh |-> 0]
MaybeCreds == Creds \cup {NoCreds}

(* creds is what a call, or the flight, returned or is about to; NoCreds   *)
(* is an error.  History: expired are the tokens that had expired when the *)
(* call, or the flight that answers it, began; rejected is the token the   *)
(* API answered with 403, when the token refresher is the caller (else 0). *)
CallerState ==
  [ pc : {"idle", "lookup", "missed", "waiting", "returned"}, creds : MaybeCreds,
    expired : SUBSET Token, rejected : {0} \cup Token ]

FlightState ==
  [ pc : {"none", "recheck", "read", "refresh", "store", "done"},
    creds : MaybeCreds, expired : SUBSET Token, joined : SUBSET Caller ]

NoFlight == [pc |-> "none", creds |-> NoCreds, expired |-> {}, joined |-> {}]

Calls(rejected) ==
  [ pc |-> "lookup", creds |-> NoCreds, expired |-> expired, rejected |-> rejected ]

AuthInit ==
  /\ db = [access |-> 1, refresh |-> 1]
  /\ cached = NoCreds
  /\ expired = {}
  /\ issued = 1
  /\ flight = NoFlight
  /\ caller = [c \in Caller |-> [Calls(0) EXCEPT !.pc = "idle"]]

IgnoresExpiry(creds) == creds # NoCreds   \* mutant: no look at the clock
isTokenValid(creds) == creds # NoCreds /\ creds.access \notin expired

----------------------------------------------------------------------------
(* GetToken, called by a request or by the token refresher.                *)

Available(c) == caller[c].pc \in {"idle", "returned"}

GetToken(c) ==
  /\ Available(c)
  /\ caller' = [caller EXCEPT ![c] = Calls(0)]
  /\ UNCHANGED <<db, cached, expired, issued, flight>>

(* The API refused the token that c was given: the refresher invalidates   *)
(* the cache and calls GetToken.                                           *)
RefreshRejectedToken(c) ==
  /\ caller[c].pc = "returned"
  /\ caller[c].creds # NoCreds
  /\ caller' = [caller EXCEPT ![c] = Calls(caller[c].creds.access)]
  /\ cached' = NoCreds
  /\ UNCHANGED <<db, expired, issued, flight>>

Hit(c) ==
  /\ caller[c].pc = "lookup"
  /\ isTokenValid(cached)
  /\ caller' = [caller EXCEPT ![c].pc = "returned", ![c].creds = cached]
  /\ UNCHANGED <<db, cached, expired, issued, flight>>

Miss(c) ==
  /\ caller[c].pc = "lookup"
  /\ ~isTokenValid(cached)
  /\ caller' = [caller EXCEPT ![c].pc = "missed"]
  /\ UNCHANGED <<db, cached, expired, issued, flight>>

(* mutant: waits for the flight in the air without signing up for it       *)
WaitsUnregistered(c) ==
  /\ caller[c].pc = "missed"
  /\ flight' = IF flight.pc = "none"
               THEN [pc |-> "recheck", creds |-> NoCreds, expired |-> expired,
                     joined |-> {c}]
               ELSE flight
  /\ caller' = [caller EXCEPT ![c].pc = "waiting"]
  /\ UNCHANGED <<db, cached, expired, issued>>

(* singleflight.Do: start a flight, or share the one in the air.           *)
Join(c) ==
  /\ caller[c].pc = "missed"
  /\ flight' = IF flight.pc = "none"
               THEN [pc |-> "recheck", creds |-> NoCreds, expired |-> expired,
                     joined |-> {c}]
               ELSE [flight EXCEPT !.joined = @ \cup {c}]
  /\ caller' = [caller EXCEPT ![c].pc = "waiting"]
  /\ UNCHANGED <<db, cached, expired, issued>>

----------------------------------------------------------------------------
(* refreshCredentials, under singleflight and detached from its callers.   *)

Flies(from, to, creds) ==
  /\ flight.pc = from
  /\ flight' = [flight EXCEPT !.pc = to, !.creds = creds]

NeverRechecks == FALSE   \* mutant: a refresh that just ended is repeated
AlreadyRefreshed == isTokenValid(cached)

FlightRecheck ==
  /\ IF AlreadyRefreshed THEN Flies("recheck", "done", cached)
     ELSE Flies("recheck", "read", NoCreds)
  /\ UNCHANGED <<db, cached, expired, issued, caller>>

FlightRead ==
  /\ \/ Flies("read", "done", NoCreds)   \* the database cannot be read
     \/ isTokenValid(db) /\ Flies("read", "store", db)
     \/ ~isTokenValid(db) /\ Flies("read", "refresh", db)
  /\ UNCHANGED <<db, cached, expired, issued, caller>>

coalesce(returned, sent) == IF returned # 0 THEN returned ELSE sent

(* No device registration, a failed request or an unusable answer: an      *)
(* error.  Otherwise a new access token, with or without (0) a new refresh *)
(* token.                                                                  *)
FlightRefresh ==
  /\ \/ Flies("refresh", "done", NoCreds) /\ UNCHANGED issued
     \/ /\ issued < MaxIssued
        /\ issued' = issued + 1
        /\ \E returned \in {0, issued + 1} :
              Flies("refresh", "store",
                    [access  |-> issued + 1,
                     refresh |-> coalesce(returned, flight.creds.refresh)])
  /\ UNCHANGED <<db, cached, expired, caller>>

FlightStore ==
  /\ Flies("store", "done", flight.creds)
  /\ cached' = flight.creds
  /\ UNCHANGED <<db, expired, issued, caller>>

(* The flight leaves the group and all its callers get a copy.             *)
FlightReturn ==
  /\ flight.pc = "done"
  /\ caller' = [c \in Caller |->
       IF c \in flight.joined
       THEN [caller[c] EXCEPT !.pc = "returned", !.creds = flight.creds,
                              !.expired = flight.expired]
       ELSE caller[c]]
  /\ flight' = NoFlight
  /\ UNCHANGED <<db, cached, expired, issued>>

Flight == FlightRecheck \/ FlightRead \/ FlightRefresh \/ FlightStore \/ FlightReturn

----------------------------------------------------------------------------
(* The clock, and the Kiro CLI's own logins and refreshes.                 *)

Expire ==
  /\ \E t \in (1..issued) \ expired : expired' = expired \cup {t}
  /\ UNCHANGED <<db, cached, issued, flight, caller>>

CliWrites ==
  /\ issued < MaxIssued
  /\ issued' = issued + 1
  /\ db' = [access |-> issued + 1, refresh |-> issued + 1]
  /\ UNCHANGED <<cached, expired, flight, caller>>

AuthNext ==
  \/ \E c \in Caller : GetToken(c) \/ RefreshRejectedToken(c) \/ Hit(c) \/ Miss(c) \/ Join(c)
  \/ Flight
  \/ Expire
  \/ CliWrites

(* A caller inside GetToken runs, and a flight ends: its context has a     *)
(* deadline of 35 seconds and nothing cancels it earlier.                  *)
AuthFairness ==
  /\ \A c \in Caller : WF_authVars(Hit(c) \/ Miss(c) \/ Join(c))
  /\ WF_authVars(Flight)

AuthSpec     == AuthInit /\ [][AuthNext]_authVars
FairAuthSpec == AuthSpec /\ AuthFairness

----------------------------------------------------------------------------
(* Properties.                                                             *)

(* Every variable has the shape of the Go fields it stands for.            *)
AuthTypeOK ==
  /\ db \in Creds
  /\ cached \in MaybeCreds
  /\ issued \in Token
  /\ expired \subseteq 1..issued
  /\ flight \in FlightState
  /\ caller \in [Caller -> CallerState]

(* GetToken's doc, "returns valid credentials": a caller is never given a  *)
(* token that had already expired when its call, or the flight it shared,  *)
(* began.  (It may expire while the flight is in the air; the five minutes *)
(* of tokenValidityBuffer are for that.)                                   *)
ReturnsValidCredentials ==
  \A c \in Caller :
    caller[c].pc = "returned" /\ caller[c].creds # NoCreds =>
      caller[c].creds.access \notin caller[c].expired

(* "Concurrent refresh requests are deduplicated": the token endpoint is   *)
(* never called while the cache holds a valid token, even for a caller     *)
(* that missed the cache before the previous flight filled it.             *)
RefreshesOnlyWithoutToken ==
  [][flight.pc = "refresh" /\ flight'.pc = "store" => ~isTokenValid(cached)]_authVars

(* A caller that waits for a shared flight is answered, whatever becomes   *)
(* of the refresh.                                                         *)
WaitersAnswered ==
  \A c \in Caller : (caller[c].pc = "waiting") ~> (caller[c].pc # "waiting")

(* cmd/kirocc/main.go on the refresher: "so GetToken re-reads from DB and  *)
(* refreshes instead of returning the same rejected token."  The code does *)
(* not refresh a token of the database that has not expired.               *)
RejectedTokenIsReplaced ==
  \A c \in Caller :
    caller[c].pc = "returned" /\ caller[c].rejected # 0 =>
      caller[c].creds.access # caller[c].rejected
=============================================================================
