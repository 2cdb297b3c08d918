-------------------------- MODULE KiroClientProofs --------------------------
(***************************************************************************)
(* Theorems about KiroClient and the AuthManager it extends, for every set *)
(* of callers and clients and any number of attempts and tokens.           *)
(*                                                                         *)
(* Those of the auth manager come first.  Their inductive invariant says   *)
(* of the flight what GetToken's promise needs: a token it is about to     *)
(* hand out had not expired when it began, and between the look at the     *)
(* cache and the end of the refresh no valid token is in the cache,        *)
(* because only the flight fills it.                                       *)
(*                                                                         *)
(* The retry loop is then shown to use the auth manager as AuthManager     *)
(* allows, so that this invariant holds in it too; the inductive invariant *)
(* of the loop ties the local variables of a call to what the manager last *)
(* returned to its client.                                                 *)
(***************************************************************************)
EXTENDS KiroClient, TLAPS

ExpiredBefore ==
  /\ flight.expired \subseteq expired
  /\ \A c \in Caller : caller[c].expired \subseteq expired

FlightIsFresh ==
  flight.pc \in {"store", "done"} /\ flight.creds # NoCreds =>
    flight.creds.access \notin flight.expired

FlightHasCreds == flight.pc \in {"refresh", "store"} => flight.creds \in Creds

CacheEmptyInFlight == flight.pc \in {"read", "refresh"} => ~isTokenValid(cached)

AuthInv ==
  /\ AuthTypeOK
  /\ ExpiredBefore
  /\ FlightIsFresh
  /\ FlightHasCreds
  /\ CacheEmptyInFlight
  /\ ReturnsValidCredentials

----------------------------------------------------------------------------
LEMMA InitAuthInv == AuthInit => AuthInv
<1> SUFFICES ASSUME AuthInit PROVE AuthInv
  OBVIOUS
<1> DEFINE v == [Calls(0) EXCEPT !.pc = "idle"]
<1>1. AuthTypeOK
  <2>1. 1 \in Token  BY MaxIssuedIsPositive DEF Token
  <2>2. NoCreds \in MaybeCreds  BY DEF MaybeCreds
  <2>3. v \in CallerState
    BY <2>2 DEF AuthInit, Calls, CallerState
  <2>4. NoFlight \in FlightState  BY <2>2 DEF NoFlight, FlightState
  <2>5. caller = [c \in Caller |-> v]  BY DEF AuthInit
  <2> HIDE DEF v
  <2> QED  BY <2>1, <2>2, <2>3, <2>4, <2>5 DEF AuthInit, AuthTypeOK, Creds
<1>2. ReturnsValidCredentials
  BY DEF AuthInit, ReturnsValidCredentials, Calls
<1> QED
  BY <1>1, <1>2 DEF AuthInit, AuthInv, ExpiredBefore, FlightIsFresh, FlightHasCreds,
     CacheEmptyInFlight, NoFlight, isTokenValid, Calls

(* A valid credential is one, and its token has not expired.               *)
LEMMA ValidCreds ==
  ASSUME NEW x \in MaybeCreds, isTokenValid(x)
  PROVE  x \in Creds /\ x.access \notin expired
BY DEF MaybeCreds, isTokenValid

LEMMA StepAuthInv == AuthInv /\ [AuthNext]_authVars => AuthInv'
<1> SUFFICES ASSUME AuthInv, [AuthNext]_authVars PROVE AuthInv'
  OBVIOUS
<1> USE DEF AuthInv
<1>1. ASSUME NEW c \in Caller, GetToken(c) PROVE AuthInv'
  <2>1. Calls(0) \in CallerState
    BY MaxIssuedIsPositive DEF AuthTypeOK, Calls, CallerState, MaybeCreds, Token
  <2>2. AuthTypeOK'  BY <1>1, <2>1 DEF GetToken, AuthTypeOK
  <2>3. ReturnsValidCredentials' /\ ExpiredBefore'
    BY <1>1 DEF GetToken, AuthTypeOK, ReturnsValidCredentials, ExpiredBefore, Calls
  <2> QED
    BY <1>1, <2>2, <2>3 DEF GetToken, FlightIsFresh, FlightHasCreds, CacheEmptyInFlight, isTokenValid
<1>2. ASSUME NEW c \in Caller, RefreshRejectedToken(c) PROVE AuthInv'
  <2> DEFINE t == caller[c].creds.access
  <2>1. caller[c].creds \in Creds
    BY <1>2 DEF RefreshRejectedToken, AuthTypeOK, CallerState, MaybeCreds
  <2>2. t \in Token  BY <2>1 DEF Creds
  <2>3. caller' = [caller EXCEPT ![c] = Calls(t)]
    BY <1>2 DEF RefreshRejectedToken
  <2> HIDE DEF t
  <2>4. Calls(t) \in CallerState
    BY <2>2, MaxIssuedIsPositive DEF AuthTypeOK, Calls, CallerState, MaybeCreds, Token
  <2>5. AuthTypeOK'
    BY <1>2, <2>3, <2>4 DEF RefreshRejectedToken, AuthTypeOK, MaybeCreds
  <2>6. ReturnsValidCredentials' /\ ExpiredBefore'
    BY <1>2, <2>3 DEF RefreshRejectedToken, AuthTypeOK, ReturnsValidCredentials,
       ExpiredBefore, Calls
  <2> QED
    BY <1>2, <2>5, <2>6 DEF RefreshRejectedToken, FlightIsFresh, FlightHasCreds, CacheEmptyInFlight,
       isTokenValid
<1>3. ASSUME NEW c \in Caller, Hit(c) PROVE AuthInv'
  <2> DEFINE v == [caller[c] EXCEPT !.pc = "returned", !.creds = cached]
  <2>1. v \in CallerState  BY DEF AuthTypeOK, CallerState
  <2>2. caller' = [caller EXCEPT ![c] = v]  BY <1>3 DEF Hit, AuthTypeOK, CallerState
  <2>3. AuthTypeOK'  BY <1>3, <2>1, <2>2 DEF Hit, AuthTypeOK
  <2>4. v.creds.access \notin v.expired
    BY <1>3, ValidCreds DEF Hit, AuthTypeOK, CallerState, ExpiredBefore
  <2>5. v.expired = caller[c].expired  BY DEF AuthTypeOK, CallerState
  <2> HIDE DEF v
  <2>6. ReturnsValidCredentials' /\ ExpiredBefore'
    BY <1>3, <2>2, <2>4, <2>5 DEF Hit, AuthTypeOK, ReturnsValidCredentials, ExpiredBefore
  <2> QED
    BY <1>3, <2>3, <2>6 DEF Hit, FlightIsFresh, FlightHasCreds, CacheEmptyInFlight, isTokenValid
<1>4. ASSUME NEW c \in Caller, NEW pc \in {"missed", "waiting"},
             caller' = [caller EXCEPT ![c].pc = pc], UNCHANGED <<db, cached, expired, issued>>
      PROVE  AuthTypeOK!6' /\ ReturnsValidCredentials'
             /\ \A d \in Caller : caller'[d].expired \subseteq expired'
  <2> QED  BY <1>4 DEF AuthTypeOK, CallerState, ReturnsValidCredentials, ExpiredBefore
<1>5. ASSUME NEW c \in Caller, Miss(c) PROVE AuthInv'
  <2>1. caller' = [caller EXCEPT ![c].pc = "missed"]  BY <1>5 DEF Miss
  <2>2. UNCHANGED <<db, cached, expired, issued, flight>>  BY <1>5 DEF Miss
  <2> QED
    BY <2>1, <2>2, <1>4 DEF AuthTypeOK, ExpiredBefore, FlightIsFresh, FlightHasCreds, CacheEmptyInFlight,
       isTokenValid
<1>6. ASSUME NEW c \in Caller, Join(c) PROVE AuthInv'
  <2>1. caller' = [caller EXCEPT ![c].pc = "waiting"]  BY <1>6 DEF Join
  <2>2. UNCHANGED <<db, cached, expired, issued>>  BY <1>6 DEF Join
  <2>3. CASE flight.pc = "none"
    <3>1. flight' = [pc |-> "recheck", creds |-> NoCreds, expired |-> expired, joined |-> {c}]
      BY <1>6, <2>3 DEF Join
    <3>2. expired \subseteq Token
      BY MaxIssuedIsPositive DEF AuthTypeOK, Token
    <3>3. flight' \in FlightState
      <4>1. NoCreds \in MaybeCreds  BY DEF MaybeCreds
      <4> QED  BY <3>1, <3>2, <4>1 DEF FlightState
    <3> QED
      BY <2>1, <2>2, <3>1, <3>3, <1>4 DEF AuthTypeOK, ExpiredBefore, FlightIsFresh,
         FlightHasCreds, CacheEmptyInFlight
  <2>4. CASE flight.pc # "none"
    <3>1. flight' = [flight EXCEPT !.joined = @ \cup {c}]  BY <1>6, <2>4 DEF Join
    <3>2. flight' \in FlightState  BY <3>1 DEF AuthTypeOK, FlightState
    <3>3. /\ flight'.pc = flight.pc /\ flight'.creds = flight.creds
          /\ flight'.expired = flight.expired
      BY <3>1 DEF AuthTypeOK, FlightState
    <3> QED
      BY <2>1, <2>2, <3>2, <3>3, <1>4 DEF AuthTypeOK, ExpiredBefore, FlightIsFresh, FlightHasCreds,
         CacheEmptyInFlight, isTokenValid
  <2> QED  BY <2>3, <2>4
<1>7. ASSUME NEW from, NEW to \in {"read", "refresh", "store", "done"},
             NEW creds \in MaybeCreds, Flies(from, to, creds)
      PROVE  /\ flight' \in FlightState
             /\ flight'.pc = to /\ flight'.creds = creds
             /\ flight'.expired = flight.expired
  <2> QED  BY <1>7 DEF Flies, AuthTypeOK, FlightState
<1>8. CASE FlightRecheck
  <2>1. NoCreds \in MaybeCreds  BY DEF MaybeCreds
  <2>2. CASE isTokenValid(cached)
    <3>1. Flies("recheck", "done", cached)  BY <1>8, <2>2 DEF FlightRecheck, AlreadyRefreshed
    <3>2. cached \in Creds /\ cached.access \notin expired
      BY <2>2, ValidCreds DEF AuthTypeOK
    <3>3. /\ flight' \in FlightState /\ flight'.pc = "done" /\ flight'.creds = cached
          /\ flight'.expired = flight.expired
      BY <3>1, <1>7 DEF AuthTypeOK
    <3> QED
      BY <1>8, <3>2, <3>3 DEF FlightRecheck, AuthTypeOK, ExpiredBefore, FlightIsFresh, FlightHasCreds,
         CacheEmptyInFlight, ReturnsValidCredentials
  <2>3. CASE ~isTokenValid(cached)
    <3>1. Flies("recheck", "read", NoCreds)  BY <1>8, <2>3 DEF FlightRecheck, AlreadyRefreshed
    <3>2. /\ flight' \in FlightState /\ flight'.pc = "read" /\ flight'.creds = NoCreds
          /\ flight'.expired = flight.expired
      BY <3>1, <2>1, <1>7
    <3> QED
      BY <1>8, <2>3, <3>2 DEF FlightRecheck, AuthTypeOK, ExpiredBefore, FlightIsFresh, FlightHasCreds,
         CacheEmptyInFlight, ReturnsValidCredentials, isTokenValid
  <2> QED  BY <2>2, <2>3
<1>9. CASE FlightRead
  <2>1. PICK to \in {"done", "store", "refresh"}, x \in {NoCreds, db} :
          /\ Flies("read", to, x)
          /\ to = "done" => x = NoCreds
          /\ to = "store" => isTokenValid(x)
          /\ to = "refresh" => x = db
    BY <1>9 DEF FlightRead
  <2>2. x \in MaybeCreds  BY DEF AuthTypeOK, MaybeCreds
  <2>3. /\ flight' \in FlightState /\ flight'.pc = to /\ flight'.creds = x
        /\ flight'.expired = flight.expired
    BY <2>1, <2>2, <1>7
  <2>4. UNCHANGED <<db, cached, expired, issued, caller>>  BY <1>9 DEF FlightRead
  <2>5. flight.pc = "read"  BY <2>1 DEF Flies
  <2>6. FlightIsFresh'
    <3>1. to = "store" => x.access \notin expired
      BY <2>1, <2>2, ValidCreds
    <3>2. to = "done" => x = NoCreds  BY <2>1
    <3> HIDE DEF AuthInv
    <3> QED  BY <2>3, <2>4, <3>1, <3>2 DEF AuthInv, FlightIsFresh, ExpiredBefore
  <2>7. FlightHasCreds'
    <3>1. to = "store" => x \in Creds  BY <2>1, <2>2, ValidCreds
    <3>2. to = "refresh" => x \in Creds  BY <2>1 DEF AuthTypeOK
    <3> QED  BY <2>3, <3>1, <3>2 DEF FlightHasCreds
  <2> QED
    BY <2>3, <2>4, <2>5, <2>6, <2>7 DEF AuthTypeOK, ExpiredBefore, CacheEmptyInFlight,
       ReturnsValidCredentials, isTokenValid
<1>10. CASE FlightRefresh
  <2>1. UNCHANGED <<db, cached, expired, caller>>  BY <1>10 DEF FlightRefresh
  <2>2. CASE Flies("refresh", "done", NoCreds) /\ UNCHANGED issued
    <3>1. /\ flight' \in FlightState /\ flight'.pc = "done" /\ flight'.creds = NoCreds
          /\ flight'.expired = flight.expired
      BY <2>2, <1>7 DEF MaybeCreds
    <3> QED
      BY <2>1, <2>2, <3>1 DEF AuthTypeOK, ExpiredBefore, FlightIsFresh, FlightHasCreds, CacheEmptyInFlight,
         ReturnsValidCredentials
  <2>3. CASE /\ issued < MaxIssued
             /\ issued' = issued + 1
             /\ \E returned \in {0, issued + 1} :
                  Flies("refresh", "store",
                        [access  |-> issued + 1,
                         refresh |-> coalesce(returned, flight.creds.refresh)])
    <3>1. PICK r \in {flight.creds.refresh, issued + 1} :
            Flies("refresh", "store", [access |-> issued + 1, refresh |-> r])
      BY <2>3 DEF coalesce
    <3> DEFINE x == [access |-> issued + 1, refresh |-> r]
    <3>2. issued + 1 \in Token /\ issued \in Nat
      BY <2>3, MaxIssuedIsPositive DEF AuthTypeOK, Token
    <3>3. r \in Token
      BY <3>1, <3>2 DEF Flies, FlightHasCreds, Creds
    <3>4. x \in Creds  BY <3>2, <3>3 DEF Creds
    <3>5. /\ flight' \in FlightState /\ flight'.pc = "store" /\ flight'.creds = x
          /\ flight'.expired = flight.expired
      BY <3>1, <3>4, <1>7 DEF MaybeCreds
    <3>6. issued + 1 \notin expired  BY <3>2 DEF AuthTypeOK
    <3>7. expired' \subseteq 1..issued'  BY <2>1, <2>3, <3>2 DEF AuthTypeOK
    <3>8. FlightIsFresh'
      <4>1. x.access \notin flight.expired  BY <3>6 DEF ExpiredBefore
      <4> HIDE DEF x
      <4> QED  BY <3>5, <4>1 DEF FlightIsFresh
    <3>9. FlightHasCreds'
      <4> HIDE DEF x
      <4> QED  BY <3>4, <3>5 DEF FlightHasCreds
    <3> QED
      BY <2>1, <2>3, <3>2, <3>5, <3>7, <3>8, <3>9 DEF AuthTypeOK, ExpiredBefore,
         CacheEmptyInFlight, ReturnsValidCredentials
  <2> QED  BY <1>10, <2>2, <2>3 DEF FlightRefresh
<1>11. CASE FlightStore
  <2>1. Flies("store", "done", flight.creds)  BY <1>11 DEF FlightStore
  <2>2. flight.creds \in Creds  BY <2>1 DEF Flies, FlightHasCreds
  <2>3. /\ flight' \in FlightState /\ flight'.pc = "done" /\ flight'.creds = flight.creds
        /\ flight'.expired = flight.expired
    BY <2>1, <2>2, <1>7 DEF MaybeCreds
  <2>4. flight.pc = "store"  BY <2>1 DEF Flies
  <2> QED
    BY <1>11, <2>2, <2>3, <2>4 DEF FlightStore, AuthTypeOK, MaybeCreds, ExpiredBefore,
       FlightIsFresh, FlightHasCreds, CacheEmptyInFlight, ReturnsValidCredentials
<1>12. CASE FlightReturn
  <2>1. UNCHANGED <<db, cached, expired, issued>> /\ flight' = NoFlight /\ flight.pc = "done"
    BY <1>12 DEF FlightReturn
  <2>2. NoFlight \in FlightState  BY DEF NoFlight, FlightState, MaybeCreds
  <2>3. ASSUME NEW c \in Caller
        PROVE  /\ caller'[c] \in CallerState
               /\ caller'[c].expired \subseteq expired
               /\ caller'[c].pc = "returned" /\ caller'[c].creds # NoCreds =>
                    caller'[c].creds.access \notin caller'[c].expired
    <3> DEFINE v == [caller[c] EXCEPT !.pc = "returned", !.creds = flight.creds,
                                      !.expired = flight.expired]
    <3>1. caller'[c] = IF c \in flight.joined THEN v ELSE caller[c]  BY <1>12 DEF FlightReturn
    <3>2. caller[c] \in CallerState  BY DEF AuthTypeOK
    <3>3. CASE c \in flight.joined
      <4>1. /\ v \in CallerState
            /\ v.creds = flight.creds /\ v.expired = flight.expired
        BY <3>2 DEF AuthTypeOK, FlightState, CallerState
      <4> HIDE DEF v
      <4> QED  BY <2>1, <3>1, <3>3, <4>1 DEF FlightIsFresh, ExpiredBefore
    <3>4. CASE c \notin flight.joined
      BY <3>1, <3>2, <3>4 DEF ReturnsValidCredentials, ExpiredBefore
    <3> QED  BY <3>3, <3>4
  <2>4. caller' \in [Caller -> CallerState]
    <3>1. caller' = [c \in Caller |-> caller'[c]]  BY <1>12 DEF FlightReturn
    <3> HIDE DEF AuthInv
    <3> QED  BY <2>3, <3>1
  <2>5. AuthTypeOK'  BY <2>1, <2>2, <2>4 DEF AuthTypeOK
  <2>6. ReturnsValidCredentials'  BY <2>3 DEF ReturnsValidCredentials
  <2>7. ExpiredBefore'  BY <2>1, <2>3 DEF ExpiredBefore, NoFlight
  <2> QED
    BY <2>1, <2>5, <2>6, <2>7 DEF NoFlight, FlightIsFresh, FlightHasCreds,
       CacheEmptyInFlight
<1>13. CASE Expire
  <2>1. expired \subseteq expired' /\ expired' \subseteq 1..issued
    BY <1>13 DEF Expire, AuthTypeOK
  <2> QED
    BY <1>13, <2>1 DEF Expire, AuthTypeOK, ExpiredBefore, FlightIsFresh, FlightHasCreds,
       CacheEmptyInFlight, ReturnsValidCredentials, isTokenValid
<1>14. CASE CliWrites
  <2>1. issued + 1 \in Token /\ issued \in Nat
    BY <1>14, MaxIssuedIsPositive DEF CliWrites, AuthTypeOK, Token
  <2>2. AuthTypeOK'
    BY <1>14, <2>1 DEF CliWrites, AuthTypeOK, Creds
  <2> QED
    BY <1>14, <2>2 DEF CliWrites, ExpiredBefore, FlightIsFresh, FlightHasCreds,
       CacheEmptyInFlight, ReturnsValidCredentials, isTokenValid
<1>15. CASE UNCHANGED authVars
  BY <1>15 DEF authVars, AuthTypeOK, ExpiredBefore, FlightIsFresh, FlightHasCreds,
     CacheEmptyInFlight, ReturnsValidCredentials, isTokenValid
<1> QED
  BY <1>1, <1>2, <1>3, <1>5, <1>6, <1>8, <1>9, <1>10, <1>11, <1>12, <1>13, <1>14, <1>15
  DEF AuthNext, Flight

LEMMA AuthInductive == AuthSpec => []AuthInv
<1>1. AuthInit => AuthInv  BY InitAuthInv
<1>2. AuthInv /\ [AuthNext]_authVars => AuthInv'  BY StepAuthInv
<1> QED  BY <1>1, <1>2, PTL DEF AuthSpec

----------------------------------------------------------------------------
(* The types of the manager, its flight and its callers are kept.          *)
THEOREM AuthTypeCorrect == AuthSpec => []AuthTypeOK
<1>1. AuthInv => AuthTypeOK  BY DEF AuthInv
<1> QED  BY <1>1, AuthInductive, PTL

(* GetToken never returns a token that had expired when the call, or the   *)
(* flight that answers it, began - whichever callers share the flight and  *)
(* whenever the cache is invalidated or the clock moves on.                *)
THEOREM CredentialsAreValid == AuthSpec => []ReturnsValidCredentials
<1>1. AuthInv => ReturnsValidCredentials  BY DEF AuthInv
<1> QED  BY <1>1, AuthInductive, PTL

(* No refresh succeeds while the cache holds a valid token.                *)
THEOREM NoNeedlessRefresh == AuthSpec => RefreshesOnlyWithoutToken
<1>1. AuthInv => (flight.pc = "refresh" /\ flight'.pc = "store" => ~isTokenValid(cached))
  BY DEF AuthInv, CacheEmptyInFlight
<1> QED  BY <1>1, AuthInductive, PTL DEF RefreshesOnlyWithoutToken

----------------------------------------------------------------------------
(* The callers that wait are those the flight in the air will answer.      *)
WaitersJoined ==
  /\ flight.pc = "none" => flight.joined = {}
  /\ \A c \in Caller : c \in flight.joined <=> caller[c].pc = "waiting"

LEMMA StepWaitersJoined == AuthTypeOK /\ WaitersJoined /\ [AuthNext]_authVars => WaitersJoined'
<1> SUFFICES ASSUME AuthTypeOK, WaitersJoined, [AuthNext]_authVars PROVE WaitersJoined'
  OBVIOUS
<1>1. caller \in [Caller -> CallerState] /\ flight \in FlightState  BY DEF AuthTypeOK
<1>2. ASSUME NEW c \in Caller, flight' = flight,
             \A d \in Caller : d # c => caller'[d] = caller[d],
             caller[c].pc # "waiting", caller'[c].pc # "waiting"
      PROVE  WaitersJoined'
  BY <1>2 DEF WaitersJoined
<1>3. ASSUME NEW c \in Caller, GetToken(c) \/ RefreshRejectedToken(c) PROVE WaitersJoined'
  <2>1. PICK r : caller' = [caller EXCEPT ![c] = Calls(r)]
    BY <1>3 DEF GetToken, RefreshRejectedToken
  <2>2. caller'[c].pc = "lookup"  BY <1>1, <2>1 DEF Calls
  <2>3. \A d \in Caller : d # c => caller'[d] = caller[d]  BY <1>1, <2>1
  <2>4. flight' = flight /\ caller[c].pc # "waiting"
    BY <1>3 DEF GetToken, RefreshRejectedToken, Available
  <2> QED  BY <1>2, <2>2, <2>3, <2>4
<1>4. ASSUME NEW c \in Caller, Hit(c) \/ Miss(c) PROVE WaitersJoined'
  <2>1. caller'[c].pc \in {"returned", "missed"}
    BY <1>1, <1>4 DEF Hit, Miss, CallerState
  <2>2. \A d \in Caller : d # c => caller'[d] = caller[d]
    BY <1>1, <1>4 DEF Hit, Miss, CallerState
  <2>3. flight' = flight /\ caller[c].pc # "waiting"  BY <1>4 DEF Hit, Miss
  <2> QED  BY <1>2, <2>1, <2>2, <2>3
<1>5. ASSUME NEW c \in Caller, Join(c) PROVE WaitersJoined'
  <2>1. /\ caller'[c].pc = "waiting"
        /\ \A d \in Caller : d # c => caller'[d] = caller[d]
    BY <1>1, <1>5 DEF Join, CallerState
  <2>2. flight'.pc # "none" /\ flight'.joined = flight.joined \cup {c}
    BY <1>1, <1>5 DEF Join, WaitersJoined, FlightState
  <2> QED  BY <2>1, <2>2 DEF WaitersJoined
<1>6. CASE FlightRecheck \/ FlightRead \/ FlightRefresh \/ FlightStore
  <2>1. PICK from, to, x : /\ from \in {"recheck", "read", "refresh", "store"}
                           /\ to \in {"read", "refresh", "store", "done"}
                           /\ Flies(from, to, x)
    BY <1>6 DEF FlightRecheck, FlightRead, FlightRefresh, FlightStore
  <2>2. flight'.joined = flight.joined /\ flight'.pc # "none"
    BY <1>1, <2>1 DEF Flies, FlightState
  <2>3. caller' = caller
    BY <1>6 DEF FlightRecheck, FlightRead, FlightRefresh, FlightStore
  <2> QED  BY <2>2, <2>3 DEF WaitersJoined
<1>7. CASE FlightReturn
  <2>1. flight' = NoFlight  BY <1>7 DEF FlightReturn
  <2>2. ASSUME NEW c \in Caller PROVE caller'[c].pc # "waiting"
    <3>1. CASE c \in flight.joined
      <4>1. caller'[c] = [caller[c] EXCEPT !.pc = "returned", !.creds = flight.creds,
                                           !.expired = flight.expired]
        BY <1>7, <3>1 DEF FlightReturn
      <4> QED  BY <1>1, <4>1 DEF CallerState
    <3>2. CASE c \notin flight.joined
      BY <1>7, <3>2 DEF FlightReturn, WaitersJoined
    <3> QED  BY <3>1, <3>2
  <2> QED  BY <2>1, <2>2 DEF WaitersJoined, NoFlight
<1>8. CASE Expire \/ CliWrites \/ UNCHANGED authVars
  BY <1>8 DEF Expire, CliWrites, authVars, WaitersJoined
<1> QED
  BY <1>3, <1>4, <1>5, <1>6, <1>7, <1>8 DEF AuthNext, Flight

(* No waiter is lost: while a caller waits, a flight is in the air that    *)
(* will hand it its result, and nobody else is handed one.                 *)
THEOREM NoWaiterIsLost == AuthSpec => []WaitersJoined
<1>1. AuthInit => WaitersJoined  BY DEF AuthInit, WaitersJoined, NoFlight, Calls
<1>2. AuthTypeOK /\ WaitersJoined /\ [AuthNext]_authVars => WaitersJoined'
  BY StepWaitersJoined
<1> QED  BY <1>1, <1>2, AuthTypeCorrect, PTL DEF AuthSpec

----------------------------------------------------------------------------
(* Every step of the requests is a step of the auth manager, or leaves it  *)
(* alone.                                                                  *)
LEMMA StepAuth == [Next]_vars => [AuthNext]_authVars
<1> SUFFICES ASSUME [Next]_vars PROVE [AuthNext]_authVars
  OBVIOUS
<1>1. ASSUME NEW c \in Client, Authenticate(c) \/ Forbidden(c) PROVE AuthNext
  BY <1>1, ClientsAreCallers DEF Authenticate, Forbidden, AuthNext
<1>2. ASSUME NEW c \in Client,
             Authenticated(c) \/ Send(c) \/ DrainAborted(c) \/ Succeed(c) \/ Backoff(c)
               \/ Waited(c) \/ Refreshed(c) \/ GiveUp(c) \/ Drain(c) \/ CallAgain(c)
               \/ Respond(c) \/ ClientGone(c)
      PROVE  UNCHANGED authVars
  BY <1>2 DEF Authenticated, Send, DrainAborted, Succeed, Backoff, Waited, Refreshed, GiveUp,
     Drain, CallAgain, Respond, ClientGone, authVars
<1>3. ASSUME \/ \E c \in Caller : InGetToken(c)
             \/ \E c \in Caller \ Client : GetToken(c) \/ RefreshRejectedToken(c)
             \/ Flight \/ Expire \/ CliWrites
      PROVE  AuthNext
  BY <1>3 DEF InGetToken, AuthNext
<1>4. CASE UNCHANGED vars
  BY <1>4 DEF vars, authVars
<1> QED  BY <1>1, <1>2, <1>3, <1>4 DEF Next, Runs

(* The requests, their retries and their refreshers drive the auth manager *)
(* as AuthManager specifies: what is proved there of any callers holds for *)
(* them.                                                                   *)
THEOREM ImplementsAuth == Spec => UsesAuth
<1>1. Init => AuthInit  BY DEF Init
<1>2. [Next]_vars => [AuthNext]_authVars  BY StepAuth
<1> QED  BY <1>1, <1>2, PTL DEF Spec, UsesAuth, AuthSpec

----------------------------------------------------------------------------
(* The inductive invariant: of the local variables of a call (p), of them  *)
(* and what the auth manager holds for their client (k), and, where a call *)
(* has failed, of the client that may have left.                           *)
InExchange(p) == p.pc \in {"send", "answered", "decide", "wait"}

CallInv(p) ==
  /\ p \in Post
  /\ p.body => \/ p.pc = "answered"
               \/ p.pc = "returned" /\ p.result = "success" /\ p.kind = "generate"
  /\ p.pc = "answered" => p.body = (p.answer # "unreachable")
  /\ p.pc \in {"answered", "decide"} => p.answer \in Response("generate")
  /\ p.pc = "refresh" => p.answer = "forbidden"
  /\ p.pc \in {"send", "wait", "refresh"} => p.attempt < MaxAttempts

CallerAtRest(p, k) == p.pc \notin {"auth", "refresh"} => k.pc \in {"idle", "returned"}

TokenFromRefresher(p, k) ==
  InExchange(p) /\ p.renewed # 0 =>
    k.pc = "returned" /\ p.token = p.renewed /\ p.token = k.creds.access

HasReason(p, k, left) ==
  p.pc = "returned" /\ p.result = "error" =>
    \/ p.attempt = MaxAttempts
    \/ left
    \/ p.answer \in {"refused", "unreadable"}
    \/ p.answer = "forbidden" /\ k.creds = NoCreds

ClientInv(p, k, left) ==
  /\ CallInv(p)
  /\ CallerAtRest(p, k)
  /\ TokenFromRefresher(p, k)
  /\ HasReason(p, k, left)

ClientsInv ==
  /\ post \in [Client -> Post]
  /\ gone \subseteq Client
  /\ \A c \in Client : ClientInv(post[c], caller[c], c \in gone)

IInv == AuthInv /\ WaitersJoined /\ ClientsInv

LEMMA NoPostFields ==
  /\ NoPost \in Post
  /\ NoPost.pc = "idle" /\ NoPost.body = FALSE /\ NoPost.attempt = 0 /\ NoPost.renewed = 0
  /\ NoPost.result = "none"
<1>1. NoPost \in Post
  BY MaxAttemptsIsPositive DEF NoPost, Post, Kind, Response
<1> QED  BY <1>1 DEF NoPost

(* A client that makes no upstream call, and one that begins a call.       *)
LEMMA IdleCall == ASSUME NEW k, k.pc \in {"idle", "returned"}, NEW left
                  PROVE  ClientInv(NoPost, k, left)
BY NoPostFields DEF ClientInv, CallInv, CallerAtRest, TokenFromRefresher, HasReason, InExchange

LEMMA NewCall ==
  ASSUME NEW k, k.pc \in {"idle", "returned"}, NEW left, NEW p,
         CallInv(p), p.pc = "send", p.renewed = 0
  PROVE  ClientInv(p, k, left)
BY DEF ClientInv, CallerAtRest, TokenFromRefresher, HasReason

(* A step of one client that moves no other client keeps the invariant, if *)
(* it keeps what the invariant says of the client.                         *)
LEMMA OneClient ==
  ASSUME ClientsInv, NEW c \in Client, NEW p, Becomes(c, p),
         ClientInv(p, caller'[c], c \in gone'), gone' \subseteq Client,
         \A d \in Client : d # c => caller'[d] = caller[d] /\ (d \in gone' <=> d \in gone)
  PROVE  ClientsInv'
<1>1. p \in Post  BY DEF ClientInv, CallInv
<1>2. post' \in [Client -> Post] /\ post'[c] = p
      /\ \A d \in Client : d # c => post'[d] = post[d]
  BY <1>1 DEF ClientsInv, Becomes
<1>3. ASSUME NEW d \in Client PROVE ClientInv(post'[d], caller'[d], d \in gone')
  <2>1. CASE d = c  BY <1>2, <2>1
  <2>2. CASE d # c
    <3>1. ClientInv(post[d], caller[d], d \in gone)  BY DEF ClientsInv
    <3>2. (d \in gone') = (d \in gone)  BY <2>2
    <3> QED  BY <1>2, <2>2, <3>1, <3>2
  <2> QED  BY <2>1, <2>2
<1> QED  BY <1>2, <1>3 DEF ClientsInv

(* The same of a step that moves neither callers nor the clients that left.*)
LEMMA OnlyPost ==
  ASSUME ClientsInv, NEW c \in Client, NEW p, Becomes(c, p), UNCHANGED <<authVars, gone>>,
         ClientInv(p, caller[c], c \in gone)
  PROVE  ClientsInv'
<1>1. caller' = caller /\ gone' = gone /\ gone \subseteq Client  BY DEF authVars, ClientsInv
<1>2. ClientInv(p, caller'[c], c \in gone')  BY <1>1
<1> QED  BY <1>1, <1>2, OneClient

(* A call that goes on, or ends well, has no more to say than CallInv and  *)
(* that its token is still the refresher's.                                *)
LEMMA CallGoesOn ==
  ASSUME NEW p, NEW q, NEW k, NEW left, ClientInv(p, k, left), CallInv(q),
         p.pc \notin {"idle", "auth", "refresh", "returned"},
         q.pc \in {"send", "answered", "decide", "wait", "returned"},
         q.token = p.token, q.renewed = p.renewed,
         HasReason(q, k, left)
  PROVE  ClientInv(q, k, left)
BY DEF ClientInv, CallInv, Post, CallerAtRest, TokenFromRefresher, InExchange

LEMMA StepSend == ASSUME ClientsInv, NEW c \in Client, Send(c) PROVE ClientsInv'
<1>1. PICK a \in Response(post[c].kind) :
        Becomes(c, [post[c] EXCEPT !.pc = "answered", !.attempt = @ + 1,
                                   !.answer = a, !.body = a # "unreachable"])
  BY DEF Send
<1> DEFINE p == post[c]
           q == [p EXCEPT !.pc = "answered", !.attempt = @ + 1,
                          !.answer = a, !.body = a # "unreachable"]
<1>2. ClientInv(p, caller[c], c \in gone) /\ p \in Post /\ p.pc = "send"
  BY DEF ClientsInv, ClientInv, CallInv, Send, At
<1>3. p.attempt + 1 \in 0..MaxAttempts
  BY <1>2, MaxAttemptsIsPositive DEF ClientInv, CallInv, Post
<1>4. a \in Response("generate")  BY DEF Response
<1>5. /\ q \in Post /\ q.pc = "answered" /\ q.answer = a /\ q.body = (a # "unreachable")
      /\ q.token = p.token /\ q.renewed = p.renewed
  BY <1>2, <1>3, <1>4 DEF Post
<1>6. UNCHANGED <<authVars, gone>> /\ Becomes(c, q)  BY <1>1 DEF Send
<1> HIDE DEF p, q
<1>7. CallInv(q)  BY <1>4, <1>5 DEF CallInv
<1>8. ClientInv(q, caller[c], c \in gone)
  BY <1>2, <1>5, <1>7, CallGoesOn DEF HasReason
<1> QED  BY <1>6, <1>8, OnlyPost

LEMMA StepDrain == ASSUME ClientsInv, NEW c \in Client, Drain(c) PROVE ClientsInv'
<1> DEFINE p == post[c]
           q(a) == [p EXCEPT !.pc = "decide", !.answer = a, !.body = FALSE]
           r == [p EXCEPT !.pc = "returned", !.result = "error", !.answer = "unreadable",
                          !.body = FALSE]
<1>1. ClientInv(p, caller[c], c \in gone) /\ p \in Post /\ p.pc = "answered"
  BY DEF ClientsInv, ClientInv, CallInv, Drain, At
<1>2. UNCHANGED <<authVars, gone>>  BY DEF Drain
<1>3. ASSUME NEW a \in Parsed(p.answer), Becomes(c, q(a)) PROVE ClientsInv'
  <2>1. a \in Response("generate")
    BY <1>1 DEF ClientInv, CallInv, Parsed, Response
  <2>2. /\ q(a) \in Post /\ q(a).pc = "decide" /\ q(a).answer = a /\ q(a).body = FALSE
        /\ q(a).token = p.token /\ q(a).renewed = p.renewed
    BY <1>1, <2>1 DEF Post
  <2> DEFINE s == q(a)
  <2> HIDE DEF p, q
  <2>3. CallInv(s)  BY <2>1, <2>2 DEF CallInv
  <2>4. ClientInv(s, caller[c], c \in gone)
    BY <1>1, <2>2, <2>3, CallGoesOn DEF HasReason
  <2> QED  BY <1>2, <1>3, <2>4, OnlyPost
<1>4. ASSUME Becomes(c, r) PROVE ClientsInv'
  <2>1. /\ r \in Post /\ r.pc = "returned" /\ r.answer = "unreadable" /\ r.body = FALSE
        /\ r.token = p.token /\ r.renewed = p.renewed
    BY <1>1 DEF Post
  <2> HIDE DEF p, r
  <2>2. CallInv(r)  BY <2>1 DEF CallInv
  <2>3. ClientInv(r, caller[c], c \in gone)
    BY <1>1, <2>1, <2>2, CallGoesOn DEF HasReason
  <2> QED  BY <1>2, <1>4, <2>3, OnlyPost
<1> QED  BY <1>3, <1>4 DEF Drain

(* The ways to look at an answer find the body closed, unless it is of a   *)
(* success, a 403 or, with generate, any answer that nobody reads.         *)
LEMMA Decided ==
  ASSUME ClientsInv, NEW c \in Client, Decides(c)
  PROVE  /\ ClientInv(post[c], caller[c], c \in gone)
         /\ post[c] \in Post
         /\ post[c].pc \in {"answered", "decide"}
         /\ post[c].answer \in Response("generate")
         /\ post[c].body => post[c].kind = "generate"
         /\ post[c].answer \in Transient => post[c].body = FALSE
<1>1. ClientInv(post[c], caller[c], c \in gone) /\ post[c] \in Post
  BY DEF ClientsInv, ClientInv, CallInv
<1>2. post[c].kind \in {"generate", "search"} /\ post[c].body \in BOOLEAN
  BY <1>1 DEF Post, Kind
<1>3. CASE At(c, "decide")
  BY <1>1, <1>2, <1>3 DEF At, ClientInv, CallInv
<1>4. CASE At(c, "answered") /\ ~Drained(post[c])
  <2>1. post[c].body = (post[c].answer # "unreachable")
        /\ post[c].answer \in Response("generate")
    BY <1>1, <1>4 DEF At, ClientInv, CallInv
  <2> QED  BY <1>1, <1>2, <1>4, <2>1 DEF At, Drained, Transient
<1> QED  BY <1>3, <1>4 DEF Decides

LEMMA StepSucceed == ASSUME ClientsInv, NEW c \in Client, Succeed(c) PROVE ClientsInv'
<1> DEFINE p == post[c]
           q == [p EXCEPT !.pc = "returned", !.result = "success"]
<1>1. ClientInv(p, caller[c], c \in gone) /\ p \in Post /\ p.pc \in {"answered", "decide"}
      /\ (p.body => p.kind = "generate")
  BY Decided DEF Succeed
<1>2. UNCHANGED <<authVars, gone>> /\ Becomes(c, q)  BY DEF Succeed, Returned
<1>3. /\ q \in Post /\ q.pc = "returned" /\ q.result = "success" /\ q.body = p.body
      /\ q.kind = p.kind /\ q.token = p.token /\ q.renewed = p.renewed
  BY <1>1 DEF Post
<1> HIDE DEF p, q
<1>4. CallInv(q)  BY <1>1, <1>3 DEF CallInv
<1>5. ClientInv(q, caller[c], c \in gone)
  BY <1>1, <1>3, <1>4, CallGoesOn DEF HasReason
<1> QED  BY <1>2, <1>5, OnlyPost

LEMMA StepBackoff == ASSUME ClientsInv, NEW c \in Client, Backoff(c) PROVE ClientsInv'
<1> DEFINE p == post[c]
           q == [p EXCEPT !.pc = "wait"]
<1>1. ClientInv(p, caller[c], c \in gone) /\ p \in Post /\ p.pc \in {"answered", "decide"}
      /\ p.body = FALSE /\ p.attempt < MaxAttempts
  BY Decided DEF Backoff, Retryable, MayRetry
<1>2. /\ q \in Post /\ q.pc = "wait" /\ q.body = FALSE /\ q.attempt = p.attempt
      /\ q.token = p.token /\ q.renewed = p.renewed
  BY <1>1 DEF Post
<1>3. UNCHANGED <<authVars, gone>> /\ Becomes(c, q)
  BY <1>1 DEF Backoff, Goto, Becomes, ClientsInv
<1> HIDE DEF p, q
<1>4. CallInv(q)  BY <1>1, <1>2 DEF CallInv
<1>5. ClientInv(q, caller[c], c \in gone)
  BY <1>1, <1>2, <1>4, CallGoesOn DEF HasReason
<1> QED  BY <1>3, <1>5, OnlyPost

LEMMA StepWaited == ASSUME ClientsInv, NEW c \in Client, Waited(c) PROVE ClientsInv'
<1> DEFINE p == post[c]
           q == [p EXCEPT !.pc = "send"]
           r == [p EXCEPT !.pc = "returned", !.result = "error"]
<1>1. ClientInv(p, caller[c], c \in gone) /\ p \in Post /\ p.pc = "wait"
      /\ p.body = FALSE /\ p.attempt < MaxAttempts
  BY DEF ClientsInv, ClientInv, CallInv, Waited, At, Post
<1>2. UNCHANGED <<authVars, gone>>  BY DEF Waited
<1>3. CASE Goto(c, "send")
  <2>1. /\ q \in Post /\ q.pc = "send" /\ q.body = FALSE /\ q.attempt = p.attempt
        /\ q.token = p.token /\ q.renewed = p.renewed
    BY <1>1 DEF Post
  <2>2. Becomes(c, q)  BY <1>1, <1>3 DEF Goto, Becomes, ClientsInv
  <2> HIDE DEF p, q
  <2>3. CallInv(q)  BY <1>1, <2>1 DEF CallInv
  <2>4. ClientInv(q, caller[c], c \in gone)
    BY <1>1, <2>1, <2>3, CallGoesOn DEF HasReason
  <2> QED  BY <1>2, <2>2, <2>4, OnlyPost
<1>4. CASE c \in gone /\ Returned(c, "error")
  <2>1. /\ r \in Post /\ r.pc = "returned" /\ r.body = FALSE
        /\ r.token = p.token /\ r.renewed = p.renewed
    BY <1>1 DEF Post
  <2>2. Becomes(c, r)  BY <1>4 DEF Returned
  <2> HIDE DEF p, r
  <2>3. CallInv(r)  BY <2>1 DEF CallInv
  <2>4. ClientInv(r, caller[c], c \in gone)
    BY <1>1, <1>4, <2>1, <2>3, CallGoesOn DEF HasReason
  <2> QED  BY <1>2, <2>2, <2>4, OnlyPost
<1> QED  BY <1>3, <1>4 DEF Waited

LEMMA StepGiveUp == ASSUME ClientsInv, NEW c \in Client, GiveUp(c) PROVE ClientsInv'
<1> DEFINE p == post[c]
           o == Close(p)
           q == [o EXCEPT !.pc = "returned", !.result = "error"]
<1>1. ClientInv(p, caller[c], c \in gone) /\ p \in Post /\ p.pc \in {"answered", "decide"}
      /\ p.answer \in Response("generate")
  BY Decided DEF GiveUp
<1>2. UNCHANGED <<authVars, gone>> /\ Becomes(c, q)  BY DEF GiveUp
<1>3. o \in Post /\ o = [p EXCEPT !.body = FALSE]  BY <1>1 DEF Close, Post
<1>4. /\ o.body = FALSE /\ o.token = p.token /\ o.renewed = p.renewed
      /\ o.attempt = p.attempt /\ o.answer = p.answer
  BY <1>1, <1>3 DEF Post
<1>5. HasReason(q, caller[c], c \in gone)
  <2>1. p.attempt \in 0..MaxAttempts  BY <1>1 DEF Post
  <2>2. p.attempt = MaxAttempts \/ p.answer = "refused"
    BY <1>1, <2>1, MaxAttemptsIsPositive
    DEF GiveUp, MayRetry, Retryable, Transient, Response
  <2>3. q.answer = p.answer /\ q.attempt = p.attempt
    <3> HIDE DEF o
    <3> QED  BY <1>3, <1>4 DEF Post
  <2> QED  BY <2>2, <2>3 DEF HasReason
<1> HIDE DEF p, o
<1>6. /\ q \in Post /\ q.pc = "returned" /\ q.body = FALSE
      /\ q.token = p.token /\ q.renewed = p.renewed
  BY <1>3, <1>4 DEF Post
<1> HIDE DEF q
<1>7. CallInv(q)  BY <1>6 DEF CallInv
<1>8. ClientInv(q, caller[c], c \in gone)
  BY <1>1, <1>5, <1>6, <1>7, CallGoesOn
<1> QED  BY <1>2, <1>8, OnlyPost

(* What the auth manager holds for a client.                               *)
LEMMA ClientCaller ==
  ASSUME AuthTypeOK, NEW c \in Client
  PROVE  /\ caller[c] \in CallerState
         /\ caller[c].creds.access \in {0} \cup Token
         /\ caller[c].creds # NoCreds => caller[c].creds.access \in Token
<1>1. caller[c] \in CallerState  BY ClientsAreCallers DEF AuthTypeOK
<1>2. caller[c].creds \in Creds \/ caller[c].creds = NoCreds
  BY <1>1 DEF CallerState, MaybeCreds
<1> QED  BY <1>1, <1>2 DEF Creds, NoCreds

(* A client that stops calling is forgotten as a cancelled one, too.       *)
LEMMA ClientEnds ==
  ASSUME ClientsInv, NEW c \in Client, Becomes(c, NoPost), gone' = gone \ {c},
         UNCHANGED authVars, caller[c].pc \in {"idle", "returned"}
  PROVE  ClientsInv'
<1>1. caller' = caller  BY DEF authVars
<1>2. ClientInv(NoPost, caller'[c], c \in gone')  BY <1>1, IdleCall
<1>3. gone' \subseteq Client  BY DEF ClientsInv
<1> QED  BY <1>1, <1>2, <1>3, OneClient

LEMMA StepAuthenticated ==
  ASSUME ClientsInv, AuthTypeOK, NEW c \in Client, Authenticated(c) PROVE ClientsInv'
<1>1. caller[c].pc = "returned" /\ UNCHANGED authVars  BY DEF Authenticated
<1>2. CASE caller[c].creds = NoCreds
  <2>1. Becomes(c, NoPost) /\ gone' = gone \ {c}  BY <1>2 DEF Authenticated
  <2> QED  BY <1>1, <2>1, ClientEnds
<1>3. CASE caller[c].creds # NoCreds
  <2>1. PICK kind \in Kind : Call(c, kind, caller[c].creds.access)
    BY <1>3 DEF Authenticated
  <2>2. gone' = gone  BY <1>3 DEF Authenticated
  <2> DEFINE t == caller[c].creds.access
             p == [NoPost EXCEPT !.pc = "send", !.kind = kind, !.first = t, !.token = t]
  <2>3. t \in {0} \cup Token  BY ClientCaller
  <2>4. Becomes(c, p)  BY <2>1 DEF Call
  <2> HIDE DEF t
  <2>5. p \in Post /\ p.pc = "send" /\ p.body = FALSE /\ p.attempt = 0 /\ p.renewed = 0
    BY <2>3, NoPostFields DEF Post
  <2> HIDE DEF p
  <2>6. CallInv(p)  BY <2>5, MaxAttemptsIsPositive DEF CallInv
  <2>7. ClientInv(p, caller[c], c \in gone)  BY <1>1, <2>5, <2>6, NewCall
  <2> QED  BY <1>1, <2>2, <2>4, <2>7, OnlyPost
<1> QED  BY <1>2, <1>3

LEMMA StepCallAgain == ASSUME ClientsInv, NEW c \in Client, CallAgain(c) PROVE ClientsInv'
<1>1. ClientInv(post[c], caller[c], c \in gone) /\ post[c].pc = "returned"
  BY DEF ClientsInv, CallAgain, At
<1>2. caller[c].pc \in {"idle", "returned"}
  BY <1>1 DEF ClientInv, CallerAtRest
<1>3. post[c].first \in {0} \cup Token /\ "generate" \in Kind
  BY <1>1 DEF ClientInv, CallInv, Post, Kind
<1> DEFINE t == post[c].first
           p == [NoPost EXCEPT !.pc = "send", !.kind = "generate", !.first = t, !.token = t]
<1>4. Becomes(c, p) /\ UNCHANGED <<authVars, gone>>
  BY DEF CallAgain, Call
<1>5. p \in Post /\ p.pc = "send" /\ p.body = FALSE /\ p.attempt = 0 /\ p.renewed = 0
  <2> HIDE DEF t
  <2> QED  BY <1>3, NoPostFields DEF Post, t
<1> HIDE DEF p
<1>6. CallInv(p)  BY <1>5, MaxAttemptsIsPositive DEF CallInv
<1>7. ClientInv(p, caller[c], c \in gone)  BY <1>2, <1>5, <1>6, NewCall
<1> QED  BY <1>4, <1>7, OnlyPost

LEMMA StepRespond == ASSUME ClientsInv, NEW c \in Client, Respond(c) PROVE ClientsInv'
<1>1. ClientInv(post[c], caller[c], c \in gone) /\ post[c].pc = "returned"
  BY DEF ClientsInv, Respond, At
<1>2. caller[c].pc \in {"idle", "returned"}  BY <1>1 DEF ClientInv, CallerAtRest
<1> QED  BY <1>2, ClientEnds DEF Respond

(* That a client leaves is one more reason, and takes none away.           *)
LEMMA StepClientGone == ASSUME ClientsInv, NEW c \in Client, ClientGone(c) PROVE ClientsInv'
<1>1. caller' = caller /\ post' = post /\ gone' = gone \cup {c}
  BY DEF ClientGone, authVars
<1>2. ASSUME NEW d \in Client PROVE ClientInv(post[d], caller[d], d \in gone')
  <2>1. ClientInv(post[d], caller[d], d \in gone) /\ (d \in gone => d \in gone')
    BY <1>1 DEF ClientsInv
  <2> QED  BY <2>1 DEF ClientInv, HasReason
<1> QED  BY <1>1, <1>2 DEF ClientsInv

LEMMA StepRefreshed ==
  ASSUME ClientsInv, AuthTypeOK, NEW c \in Client, Refreshed(c) PROVE ClientsInv'
<1> DEFINE p == post[c]
           q == [p EXCEPT !.pc = "returned", !.result = "error"]
           t == caller[c].creds.access
           r == [WithToken(p, t) EXCEPT !.pc = "send", !.renewed = t]
<1>1. ClientInv(p, caller[c], c \in gone) /\ p \in Post /\ p.pc = "refresh"
      /\ p.body = FALSE /\ p.attempt < MaxAttempts /\ p.answer = "forbidden"
  BY DEF ClientsInv, ClientInv, CallInv, Refreshed, At, Post
<1>2. UNCHANGED <<authVars, gone>> /\ caller[c].pc = "returned"  BY DEF Refreshed
<1>3. CASE caller[c].creds = NoCreds
  <2>1. /\ q \in Post /\ q.pc = "returned" /\ q.body = FALSE /\ q.answer = "forbidden"
    BY <1>1 DEF Post
  <2>2. Becomes(c, q)  BY <1>3 DEF Refreshed, Returned
  <2> HIDE DEF p, q
  <2>3. CallInv(q)  BY <2>1 DEF CallInv
  <2>4. ClientInv(q, caller[c], c \in gone)
    BY <1>2, <1>3, <2>1, <2>3
    DEF ClientInv, CallerAtRest, TokenFromRefresher, HasReason, InExchange
  <2> QED  BY <1>2, <2>2, <2>4, OnlyPost
<1>4. CASE caller[c].creds # NoCreds
  <2>1. t \in Token  BY <1>4, ClientCaller
  <2>2. Becomes(c, r)  BY <1>4 DEF Refreshed
  <2>3. /\ r \in Post /\ r.pc = "send" /\ r.body = FALSE /\ r.attempt = p.attempt
        /\ r.token = t /\ r.renewed = t
    <3> DEFINE w == WithToken(p, t)
    <3> HIDE DEF t
    <3>1. w \in Post /\ w.body = FALSE /\ w.attempt = p.attempt /\ w.token = t
      BY <1>1, <2>1 DEF WithToken, Post
    <3> HIDE DEF w
    <3>2. /\ [w EXCEPT !.pc = "send", !.renewed = t] \in Post
          /\ [w EXCEPT !.pc = "send", !.renewed = t].pc = "send"
          /\ [w EXCEPT !.pc = "send", !.renewed = t].body = FALSE
          /\ [w EXCEPT !.pc = "send", !.renewed = t].attempt = p.attempt
          /\ [w EXCEPT !.pc = "send", !.renewed = t].token = t
          /\ [w EXCEPT !.pc = "send", !.renewed = t].renewed = t
      BY <2>1, <3>1 DEF Post
    <3> QED  BY <3>2 DEF w
  <2> HIDE DEF r, p
  <2>4. CallInv(r)  BY <1>1, <2>3 DEF CallInv
  <2>5. ClientInv(r, caller[c], c \in gone)
    BY <1>2, <2>3, <2>4 DEF ClientInv, CallerAtRest, TokenFromRefresher, HasReason, t
  <2> QED  BY <1>2, <2>2, <2>5, OnlyPost
<1> QED  BY <1>3, <1>4

(* A client asks the auth manager for a token: its own state, and what the *)
(* manager holds for the other clients, stays as it is.                    *)
LEMMA AsksForToken ==
  ASSUME ClientsInv, AuthTypeOK, NEW c \in Client, NEW p, Becomes(c, p), CallInv(p),
         p.pc \in {"auth", "refresh"}, gone' = gone,
         GetToken(c) \/ RefreshRejectedToken(c)
  PROVE  ClientsInv'
<1>1. PICK t : caller' = [caller EXCEPT ![c] = Calls(t)]
  BY DEF GetToken, RefreshRejectedToken
<1>2. \A d \in Client : d # c => caller'[d] = caller[d]
  BY <1>1, ClientsAreCallers DEF AuthTypeOK
<1>3. ClientInv(p, caller'[c], c \in gone')
  BY DEF ClientInv, CallerAtRest, TokenFromRefresher, HasReason, InExchange
<1>4. gone' \subseteq Client  BY DEF ClientsInv
<1> QED  BY <1>2, <1>3, <1>4, OneClient

LEMMA StepAuthenticate ==
  ASSUME ClientsInv, AuthTypeOK, NEW c \in Client, Authenticate(c) PROVE ClientsInv'
<1> DEFINE p == post[c]
           q == [p EXCEPT !.pc = "auth"]
<1>1. CallInv(p) /\ p \in Post /\ p.pc = "idle" /\ ~p.body
  BY DEF ClientsInv, ClientInv, CallInv, Authenticate, At, Post
<1>2. Becomes(c, q)  BY DEF Authenticate, Goto, Becomes, ClientsInv
<1>3. q \in Post /\ q.pc = "auth" /\ ~q.body  BY <1>1 DEF Post
<1> HIDE DEF p, q
<1>4. CallInv(q)  BY <1>3 DEF CallInv
<1> QED  BY <1>2, <1>3, <1>4, AsksForToken DEF Authenticate

LEMMA StepForbidden ==
  ASSUME ClientsInv, AuthTypeOK, NEW c \in Client, Forbidden(c) PROVE ClientsInv'
<1> DEFINE p == post[c]
           o == Close(p)
           q == [o EXCEPT !.pc = "refresh"]
<1>1. p \in Post /\ p.answer = "forbidden" /\ p.attempt < MaxAttempts
  BY Decided DEF Forbidden, MayRetry
<1>2. o \in Post /\ ~o.body /\ o.answer = "forbidden" /\ o.attempt < MaxAttempts
  BY <1>1 DEF Close, Post
<1>3. Becomes(c, q)  BY DEF Forbidden
<1> HIDE DEF p, o
<1>4. /\ q \in Post /\ q.pc = "refresh" /\ ~q.body /\ q.answer = "forbidden"
      /\ q.attempt < MaxAttempts
  BY <1>2 DEF Post
<1> HIDE DEF q
<1>5. CallInv(q)  BY <1>4 DEF CallInv
<1> QED  BY <1>3, <1>4, <1>5, AsksForToken DEF Forbidden

(* What the auth manager returned to a client that asks for nothing stays  *)
(* what it is, whatever other callers, flights, the clock and the CLI do.  *)
LEMMA RestingCaller ==
  ASSUME AuthTypeOK, WaitersJoined, NEW c \in Client,
         caller[c].pc \in {"idle", "returned"},
         \/ \E d \in Caller : InGetToken(d)
         \/ \E d \in Caller \ Client : GetToken(d) \/ RefreshRejectedToken(d)
         \/ Flight \/ Expire \/ CliWrites
  PROVE  caller'[c] = caller[c]
<1>1. c \in Caller /\ caller \in [Caller -> CallerState]
  BY ClientsAreCallers DEF AuthTypeOK
<1>2. ASSUME NEW d \in Caller, InGetToken(d) PROVE caller'[c] = caller[c]
  <2>1. d # c  BY <1>2 DEF InGetToken, Hit, Miss, Join
  <2> QED  BY <1>1, <1>2, <2>1 DEF InGetToken, Hit, Miss, Join
<1>3. ASSUME NEW d \in Caller \ Client, GetToken(d) \/ RefreshRejectedToken(d)
      PROVE  caller'[c] = caller[c]
  BY <1>1, <1>3 DEF GetToken, RefreshRejectedToken
<1>4. ASSUME Flight PROVE caller'[c] = caller[c]
  <2>1. CASE FlightReturn
    <3>1. c \notin flight.joined  BY <1>1 DEF WaitersJoined
    <3> QED  BY <1>1, <2>1, <3>1 DEF FlightReturn
  <2> QED
    BY <1>4, <2>1 DEF Flight, FlightRecheck, FlightRead, FlightRefresh,
       FlightStore
<1> QED  BY <1>2, <1>3, <1>4 DEF Expire, CliWrites

LEMMA StepOthers ==
  ASSUME AuthTypeOK, WaitersJoined, ClientsInv, UNCHANGED <<post, gone>>,
         \/ \E d \in Caller : InGetToken(d)
         \/ \E d \in Caller \ Client : GetToken(d) \/ RefreshRejectedToken(d)
         \/ Flight \/ Expire \/ CliWrites
  PROVE  ClientsInv'
<1>1. ASSUME NEW c \in Client PROVE ClientInv(post[c], caller'[c], c \in gone)
  <2>1. ClientInv(post[c], caller[c], c \in gone)  BY DEF ClientsInv
  <2>2. CASE post[c].pc \in {"auth", "refresh"}
    BY <2>1, <2>2
    DEF ClientInv, CallerAtRest, TokenFromRefresher, HasReason, InExchange
  <2>3. CASE post[c].pc \notin {"auth", "refresh"}
    <3>1. caller[c].pc \in {"idle", "returned"}
      BY <2>1, <2>3 DEF ClientInv, CallerAtRest
    <3>2. caller'[c] = caller[c]  BY <3>1, RestingCaller
    <3> QED  BY <2>1, <3>2
  <2> QED  BY <2>2, <2>3
<1> QED  BY <1>1 DEF ClientsInv

----------------------------------------------------------------------------
LEMMA StepIInv == IInv /\ [Next]_vars => IInv'
<1> SUFFICES ASSUME IInv, [Next]_vars PROVE IInv'
  OBVIOUS
<1>1. ClientsInv /\ WaitersJoined /\ AuthTypeOK
  BY DEF IInv, AuthInv
<1>2. AuthInv' /\ WaitersJoined'
  <2>1. [AuthNext]_authVars  BY StepAuth
  <2>2. AuthInv'  BY <2>1, StepAuthInv DEF IInv
  <2>3. WaitersJoined'
    BY <1>1, <2>1, StepWaitersJoined
  <2> QED  BY <2>2, <2>3
<1>3. ClientsInv'
  <2>1. ASSUME NEW c \in Client, Authenticate(c) PROVE ClientsInv'
    BY <1>1, <2>1, StepAuthenticate
  <2>2. ASSUME NEW c \in Client, Runs(c) PROVE ClientsInv'
    BY <1>1, <2>2, StepAuthenticated, StepSend, StepDrain, StepSucceed, StepBackoff, StepWaited,
       StepForbidden, StepRefreshed, StepGiveUp DEF Runs, DrainAborted
  <2>3. ASSUME NEW c \in Client, Drain(c) \/ CallAgain(c) \/ Respond(c) \/ ClientGone(c)
        PROVE  ClientsInv'
    BY <1>1, <2>3, StepDrain, StepCallAgain, StepRespond, StepClientGone
  <2>4. CASE UNCHANGED vars  BY <1>1, <2>4 DEF vars, ClientsInv
  <2> QED  BY <1>1, <2>1, <2>2, <2>3, <2>4, StepOthers DEF Next
<1> QED  BY <1>2, <1>3 DEF IInv

LEMMA InitIInv == Init => IInv
<1> SUFFICES ASSUME Init PROVE IInv
  OBVIOUS
<1>1. AuthInit  BY DEF Init
<1>2. AuthInv  BY <1>1, InitAuthInv
<1>3. WaitersJoined
  BY <1>1 DEF AuthInit, WaitersJoined, NoFlight, Calls
<1>4. ASSUME NEW c \in Client PROVE ClientInv(post[c], caller[c], c \in gone)
  <2>1. caller[c].pc = "idle" /\ post[c] = NoPost
    BY <1>1, ClientsAreCallers DEF Init, AuthInit, Calls
  <2> QED  BY <2>1, IdleCall
<1>5. ClientsInv  BY <1>4, NoPostFields DEF ClientsInv, Init
<1> QED  BY <1>2, <1>3, <1>5 DEF IInv

LEMMA Inductive == Spec => []IInv
<1>1. Init => IInv  BY InitIInv
<1>2. IInv /\ [Next]_vars => IInv'  BY StepIInv
<1> QED  BY <1>1, <1>2, PTL DEF Spec

----------------------------------------------------------------------------
(* The local variables of every call, and the state of the auth manager    *)
(* they share, keep their types.                                           *)
THEOREM TypeCorrect == Spec => []TypeOK
<1>1. IInv => TypeOK  BY DEF IInv, AuthInv, ClientsInv, TypeOK
<1> QED  BY <1>1, Inductive, PTL

(* No way through the retry loop leaves a response body open, but the one  *)
(* on which a successful call hands it to its caller.                      *)
THEOREM NoBodyLeaks == Spec => []BodiesClosed
<1>1. IInv => BodiesClosed
  BY DEF IInv, ClientsInv, ClientInv, CallInv, BodiesClosed, At
<1> QED  BY <1>1, Inductive, PTL

(* After a 403 every further attempt of the call sends the token that the  *)
(* refresher returned last, whatever other requests refresh or invalidate  *)
(* meanwhile; it had not expired when that refresh began.                  *)
THEOREM RefreshedTokenIsSent == Spec => []RetriesSendValidToken
<1>1. IInv => RetriesSendValidToken
  <2> SUFFICES ASSUME IInv, NEW c \in Client, At(c, "send"), post[c].renewed # 0
               PROVE  /\ post[c].token = post[c].renewed
                      /\ post[c].token \notin caller[c].expired
    BY DEF RetriesSendValidToken
  <2>1. ClientInv(post[c], caller[c], c \in gone) /\ post[c].pc = "send"
    BY DEF IInv, ClientsInv, At
  <2>2. /\ caller[c].pc = "returned" /\ post[c].token = post[c].renewed
        /\ post[c].token = caller[c].creds.access
    BY <2>1 DEF ClientInv, TokenFromRefresher, InExchange
  <2>3. caller[c].creds # NoCreds  BY <2>2 DEF NoCreds
  <2>4. ReturnsValidCredentials  BY DEF IInv, AuthInv
  <2> QED  BY <2>2, <2>3, <2>4, ClientsAreCallers DEF ReturnsValidCredentials
<1> QED  BY <1>1, Inductive, PTL

(* A call makes at most MaxAttempts requests and gives up only for one of  *)
(* the reasons that end it.                                                *)
THEOREM GivesUpOnlyForReason == Spec => []PersistsWhileTransient
<1>1. IInv => PersistsWhileTransient
  BY DEF IInv, ClientsInv, ClientInv, CallInv, Post, HasReason, PersistsWhileTransient, At
<1> QED  BY <1>1, Inductive, PTL
=============================================================================
