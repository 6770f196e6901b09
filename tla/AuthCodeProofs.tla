--------------------------- MODULE AuthCodeProofs ---------------------------
(***************************************************************************)
(* The safety of the login, for any number of logins in one process and    *)
(* any requests: who is told that a login succeeded, and for whose         *)
(* authorization request a token was granted. The invariant says in        *)
(* addition when a login may have taken a code, so that a second one can   *)
(* never replace it, and that no two logins share a verifier, so that the  *)
(* challenge a code is bound to names one login.                           *)
(***************************************************************************)
EXTENDS AuthCodeFlow, TLAPS

\* A connection that was accepted was accepted by some login's server.
AcceptedByLogin == \A r \in Requests : conn[r] # "none" => at[r] \in Logins

\* A login takes nothing before its select ends, and exchanges what it took.
TakenOnce ==
  \A l \in Logins :
    /\ main[l] \in {"idle", "waiting"} => taken[l] = NoRequest
    /\ main[l] \in {"exchange", "token"} => taken[l] # NoRequest
    /\ taken[l] # NoRequest => conn[taken[l]] \in {"replying", "answered"}

\* No two logins drew one verifier, and each drew one before it did anything else.
VerifiersDiffer ==
  /\ \A l \in Logins : main[l] = "idle" <=> verifier[l] = NoVerifier
  /\ \A k, l \in Logins : verifier[k] = verifier[l] /\ verifier[l] # NoVerifier => k = l

\* A code is bound to the challenge of the login whose URL it was asked for with.
CodesBound ==
  \A c \in Codes : issued[c] # NotIssued =>
    /\ issued[c].challenge = S256(verifier[issued[c].url])
    /\ verifier[issued[c].url] # NoVerifier

\* A token was granted for the code that was taken and the login's own verifier.
TokensGranted ==
  \A l \in Logins : main[l] = "token" => Granted(carries[taken[l]], verifier[l])

IInv ==
  /\ TypeOK
  /\ AcceptedByLogin
  /\ TakenOnce
  /\ PageOnlyForTakenCode
  /\ VerifiersDiffer
  /\ CodesBound
  /\ TokensGranted

LEMMA InitInvariant == Init => IInv
BY NoneAssumption
   DEF Init, IInv, TypeOK, AcceptedByLogin, TakenOnce, PageOnlyForTakenCode, VerifiersDiffer,
       CodesBound, TokensGranted, Ended

LEMMA NextInvariant == IInv /\ [Next]_vars => IInv'
<1> SUFFICES ASSUME IInv, [Next]_vars PROVE IInv'
  OBVIOUS
<1> USE NoneAssumption
    DEF IInv, TypeOK, AcceptedByLogin, TakenOnce, PageOnlyForTakenCode, Main, Ended, Running, pkce
<1>1. ASSUME NEW l \in Logins, NEW v \in Verifiers, Start(l, v) PROVE IInv'
  <2>1. /\ main[l] = "idle" /\ main' = [main EXCEPT ![l] = "waiting"]
        /\ \A k \in Logins : verifier[k] # v
        /\ verifier' = [verifier EXCEPT ![l] = v]
        /\ server' = [server EXCEPT ![l] = "starting"]
        /\ UNCHANGED <<process, port, conn, at, taken, carries, issued>>
    BY <1>1 DEF Start, DrawsNew
  <2>2. verifier[l] = NoVerifier
    BY <2>1 DEF VerifiersDiffer
  <2>3. TypeOK' /\ AcceptedByLogin' /\ TakenOnce' /\ PageOnlyForTakenCode'
    BY <2>1
  <2>4. VerifiersDiffer'
    BY <2>1 DEF VerifiersDiffer
  <2>5. CodesBound'
    BY <2>1, <2>2 DEF CodesBound
  <2>6. TokensGranted'
    BY <2>1 DEF TokensGranted, Granted
  <2>7. QED
    BY <2>3, <2>4, <2>5, <2>6
<1>2. ASSUME NEW l \in Logins, NEW r \in Requests, TakeCode(l, r) PROVE IInv'
  <2>1. /\ main[l] = "waiting" /\ taken[l] = NoRequest /\ at[r] = l /\ conn[r] = "sending"
        /\ main' = [main EXCEPT ![l] = "stopping"]
        /\ taken' = [taken EXCEPT ![l] = r]
        /\ conn' = [conn EXCEPT ![r] = "replying"]
        /\ UNCHANGED <<process, server, port, at, pkce>>
    BY <1>2 DEF TakeCode
  <2>2. TypeOK'
    BY <2>1
  <2>3. AcceptedByLogin' /\ TakenOnce'
    BY <2>1
  <2>4. PageOnlyForTakenCode'
    <3> SUFFICES ASSUME NEW s \in Requests, conn'[s] \in {"replying", "answered"}
                 PROVE  at'[s] \in Logins /\ taken'[at'[s]] = s
      OBVIOUS
    <3>1. CASE s = r
      BY <2>1, <3>1
    <3>2. CASE s # r
      <4>1. at[s] \in Logins /\ taken[at[s]] = s
        BY <2>1, <3>2
      <4>2. at[s] # l
        BY <2>1, <4>1
      <4>3. QED
        BY <2>1, <4>1, <4>2
    <3>3. QED
      BY <3>1, <3>2
  <2>5. VerifiersDiffer' /\ CodesBound' /\ TokensGranted'
    BY <2>1 DEF VerifiersDiffer, CodesBound, TokensGranted, Granted
  <2>6. QED
    BY <2>2, <2>3, <2>4, <2>5
<1>3. ASSUME NEW l \in Logins, TimeOut(l) \/ BeginShutdown(l) \/ FinishShutdown(l) PROVE IInv'
  <2>1. TypeOK' /\ AcceptedByLogin' /\ TakenOnce' /\ PageOnlyForTakenCode'
    BY <1>3 DEF TimeOut, BeginShutdown, FinishShutdown
  <2>2. VerifiersDiffer' /\ CodesBound' /\ TokensGranted'
    BY <1>3 DEF TimeOut, BeginShutdown, FinishShutdown, VerifiersDiffer, CodesBound, TokensGranted,
                Granted
  <2>3. QED
    BY <2>1, <2>2
<1>4. ASSUME NEW l \in Logins, Exchange(l) PROVE IInv'
  <2>1. TypeOK' /\ AcceptedByLogin' /\ TakenOnce' /\ PageOnlyForTakenCode'
    BY <1>4 DEF Exchange
  <2>2. VerifiersDiffer' /\ CodesBound' /\ TokensGranted'
    BY <1>4 DEF Exchange, VerifiersDiffer, CodesBound, TokensGranted, Granted
  <2>3. QED
    BY <2>1, <2>2
<1>5. ASSUME NEW l \in Logins, Listen(l) PROVE IInv'
  BY <1>5 DEF Listen, VerifiersDiffer, CodesBound, TokensGranted, Granted
<1>6. ASSUME NEW r \in Requests, Connect(r) \/ Drop(r) \/ Reply(r) PROVE IInv'
  <2>1. TypeOK' /\ AcceptedByLogin' /\ TakenOnce' /\ PageOnlyForTakenCode'
    BY <1>6 DEF Connect, ServedByLogin, Drop, Reply
  <2>2. VerifiersDiffer' /\ CodesBound' /\ TokensGranted'
    BY <1>6 DEF Connect, Drop, Reply, VerifiersDiffer, CodesBound, TokensGranted, Granted
  <2>3. QED
    BY <2>1, <2>2
<1>7. ASSUME NEW r \in Requests, NEW c \in Codes \union {NoCode}, ServeHTTP(r, c) PROVE IInv'
  <2>1. TypeOK' /\ AcceptedByLogin' /\ TakenOnce' /\ PageOnlyForTakenCode'
    BY <1>7 DEF ServeHTTP
  <2>2. VerifiersDiffer' /\ CodesBound'
    BY <1>7 DEF ServeHTTP, VerifiersDiffer, CodesBound
  <2>3. TokensGranted'
    BY <1>7 DEF ServeHTTP, TokensGranted, Granted
  <2>4. QED
    BY <2>1, <2>2, <2>3
<1>8. ASSUME NEW c \in Codes, NEW l \in Logins, Authorize(c, l) PROVE IInv'
  <2>1. verifier[l] \in Verifiers
    BY <1>8 DEF Authorize, VerifiersDiffer
  <2>2. TypeOK' /\ AcceptedByLogin' /\ TakenOnce' /\ PageOnlyForTakenCode' /\ VerifiersDiffer'
    BY <1>8, <2>1 DEF Authorize, VerifiersDiffer, S256
  <2>3. CodesBound'
    BY <1>8, <2>1, <2>2 DEF Authorize, CodesBound
  <2>4. TokensGranted'
    BY <1>8 DEF Authorize, TokensGranted, Granted
  <2>5. QED
    BY <2>2, <2>3, <2>4
<1>9. CASE UNCHANGED vars
  BY <1>9 DEF vars, VerifiersDiffer, CodesBound, TokensGranted, Granted
<1>10. QED
  BY <1>1, <1>2, <1>3, <1>4, <1>5, <1>6, <1>7, <1>8, <1>9 DEF Next, TokenStep, Serve

LEMMA Invariant == Spec => []IInv
BY InitInvariant, NextInvariant, PTL DEF Spec

(***************************************************************************)
(* The processes, ports, connections and logins stay well formed.          *)
(***************************************************************************)
THEOREM LoginTypeCorrect == Spec => []TypeOK
<1>1. IInv => TypeOK
  BY DEF IInv
<1>2. QED
  BY <1>1, Invariant, PTL

(***************************************************************************)
(* `Login successful` is shown for the code that was taken and no other,   *)
(* whatever reaches port 8484 and whenever it does.                        *)
(***************************************************************************)
THEOREM PageAlwaysForTakenCode == Spec => []PageOnlyForTakenCode
<1>1. IInv => PageOnlyForTakenCode
  BY DEF IInv
<1>2. QED
  BY <1>1, Invariant, PTL

(***************************************************************************)
(* A login's token was granted for the URL this login opened: late and     *)
(* crossed redirects of other logins in the process fail the exchange.     *)
(* What makes it so is that no two logins draw the same verifier.          *)
(***************************************************************************)
THEOREM TokenAlwaysFromOwnUrl == Spec => []TokenFromOwnUrl
<1>1. IInv => TokenFromOwnUrl
  <2> SUFFICES ASSUME IInv, NEW l \in Logins, main[l] = "token"
               PROVE  issued[carries[taken[l]]].url = l
    BY DEF TokenFromOwnUrl
  <2> DEFINE grant == issued[carries[taken[l]]]
  <2>1. /\ carries[taken[l]] \in Codes
        /\ grant # NotIssued
        /\ grant.challenge = S256(verifier[l])
    BY DEF IInv, TokensGranted, Granted
  <2>2. /\ grant.url \in Logins
        /\ verifier[grant.url] # NoVerifier
        /\ grant.challenge = S256(verifier[grant.url])
    BY <2>1 DEF IInv, TypeOK, CodesBound
  <2>3. verifier[grant.url] = verifier[l]
    BY <2>1, <2>2 DEF S256
  <2>4. QED
    BY <2>2, <2>3 DEF IInv, VerifiersDiffer
<1>2. QED
  BY <1>1, Invariant, PTL
=============================================================================
