---------------------------- MODULE AuthCodeFlow ----------------------------
(***************************************************************************)
(* The authorization-code login (oauth/authcode.go). Token starts a server *)
(* on port 8484, opens the browser, takes one code from the server's       *)
(* handler over an unbuffered channel or gives up after five minutes,      *)
(* shuts the server down and exchanges the code. One process may run       *)
(* several logins, at once under the MCP server, where every tool call     *)
(* authenticates for itself.                                               *)
(***************************************************************************)
CONSTANTS
  Logins,      \* calls of Token in one process
  Requests,    \* HTTP requests that reach port 8484
  Verifiers,   \* the random strings a login may draw
  Codes,       \* the authorization codes the authorization server may issue
  NoLogin,     \* no login: a free port, a connection no server accepted
  NoCode,      \* no code: a request without the query parameter
  NoVerifier,  \* no verifier: the login has not begun
  NotIssued,   \* the code was not issued yet
  NoRequest,   \* no request: no code was taken
  Elsewhere,   \* another listener on port 8484, such as `mcp --http :8484`
  PortTaken,   \* whether there may be one
  Overlap      \* whether logins may overlap

ASSUME NoneAssumption ==
  /\ NoLogin \notin Logins \union {Elsewhere}
  /\ Elsewhere \notin Logins
  /\ NoRequest \notin Requests
  /\ NoCode \notin Codes
  /\ NoVerifier \notin Verifiers
  /\ NotIssued \notin [url : Logins, challenge : {"S256"} \X Verifiers]
ASSUME FlagsAssumption == {Overlap, PortTaken} \subseteq BOOLEAN

VARIABLES
  process,   \* whether the process runs
  main,      \* where each call of Token is
  server,    \* each login's ListenAndServe goroutine
  port,      \* who listens on port 8484
  conn,      \* what became of each request's connection
  at,        \* the login whose server accepted the connection
  taken,     \* the request whose code a login received from the channel
  verifier,  \* the verifier each login drew
  carries,   \* the code in the query of each request
  issued     \* per code, the URL it was asked for with and its challenge

vars == <<process, main, server, port, conn, at, taken, verifier, carries, issued>>
pkce == <<verifier, carries, issued>>

\* The S256 challenge of a verifier: from it nobody finds another verifier.
S256(v) == <<"S256", v>>

Ended == {"token", "error"}
TypeOK ==
  /\ process \in {"running", "dead"}
  /\ main \in [Logins -> {"idle", "waiting", "stopping", "draining", "exchange"} \union Ended]
  /\ server \in [Logins -> {"off", "starting", "serving", "closed"}]
  /\ port \in Logins \union {NoLogin, Elsewhere}
  /\ conn \in [Requests -> {"none", "open", "sending", "replying", "answered", "dropped"}]
  /\ at \in [Requests -> Logins \union {NoLogin}]
  /\ taken \in [Logins -> Requests \union {NoRequest}]
  /\ verifier \in [Logins -> Verifiers \union {NoVerifier}]
  /\ carries \in [Requests -> Codes \union {NoCode}]
  /\ issued \in [Codes -> [url : Logins, challenge : {"S256"} \X Verifiers] \union {NotIssued}]

Init ==
  /\ process = "running"
  /\ main = [l \in Logins |-> "idle"]
  /\ server = [l \in Logins |-> "off"]
  /\ port \in {NoLogin} \union IF PortTaken THEN {Elsewhere} ELSE {}
  /\ conn = [r \in Requests |-> "none"]
  /\ at = [r \in Requests |-> NoLogin]
  /\ taken = [l \in Logins |-> NoRequest]
  /\ verifier = [l \in Logins |-> NoVerifier]
  /\ carries = [r \in Requests |-> NoCode]
  /\ issued = [c \in Codes |-> NotIssued]

-----------------------------------------------------------------------------
(* The call of Token.                                                      *)

Running == process = "running"
Main(l, from, to) == main[l] = from /\ main' = [main EXCEPT ![l] = to]

\* Seeded fault: the bytes come from a source that repeats itself.
DrawsAny(v) == v \in Verifiers

\* rand.Read: 32 random bytes are never drawn twice.
DrawsNew(v) == \A l \in Logins : verifier[l] # v

\* Token up to its select: the verifier is drawn, the server's goroutine is
\* started, and the browser opened at the URL with the verifier's challenge.
Start(l, v) ==
  /\ Running
  /\ Overlap \/ \A k \in Logins : main[k] \in Ended \union {"idle"}
  /\ Main(l, "idle", "waiting")
  /\ DrawsNew(v)
  /\ verifier' = [verifier EXCEPT ![l] = v]
  /\ server' = [server EXCEPT ![l] = "starting"]
  /\ UNCHANGED <<process, port, conn, at, taken, carries, issued>>

\* The select's first case: the handler's send and this receive are one step.
TakeCode(l, r) ==
  /\ Running
  /\ conn[r] = "sending" /\ at[r] = l
  /\ Main(l, "waiting", "stopping")
  /\ taken' = [taken EXCEPT ![l] = r]
  /\ conn' = [conn EXCEPT ![r] = "replying"]
  /\ UNCHANGED <<process, server, port, at, pkce>>

\* Seeded fault: without the timer the select has one case.
NeverTimeOut(l) == FALSE /\ UNCHANGED vars

\* The select's second case: five minutes have passed.
TimeOut(l) ==
  /\ Running
  /\ Main(l, "waiting", "stopping")
  /\ UNCHANGED <<process, server, port, conn, at, taken, pkce>>

\* Shutdown closes the listener first: ListenAndServe returns ErrServerClosed.
BeginShutdown(l) ==
  /\ Running
  /\ Main(l, "stopping", "draining")
  /\ server' = [server EXCEPT ![l] = "closed"]
  /\ port' = IF port = l THEN NoLogin ELSE port
  /\ UNCHANGED <<process, conn, at, taken, pkce>>

\* Connections that Shutdown waits for: its context is never cancelled.
Active(l) == {r \in Requests : at[r] = l /\ conn[r] \in {"open", "sending", "replying"}}

FinishShutdown(l) ==
  /\ Running
  /\ Active(l) = {}
  /\ Main(l, "draining", IF taken[l] = NoRequest THEN "error" ELSE "exchange")
  /\ UNCHANGED <<process, server, port, conn, at, taken, pkce>>

\* The authorization server grants a token for a code it issued, to whoever
\* knows the verifier of the challenge the code was asked for with.
Granted(c, v) == c \in Codes /\ issued[c] # NotIssued /\ issued[c].challenge = S256(v)

\* requestToken posts the login's verifier with the code that was taken,
\* whatever it is; it may also fail for reasons of its own.
Exchange(l) ==
  /\ Running
  /\ \/ Main(l, "exchange", "token") /\ Granted(carries[taken[l]], verifier[l])
     \/ Main(l, "exchange", "error")
  /\ UNCHANGED <<process, server, port, conn, at, taken, pkce>>

-----------------------------------------------------------------------------
(* The server's goroutine and its handler.                                 *)

\* ListenAndServe: after Shutdown it returns at once; when the port cannot be
\* bound it returns the error, which log.Fatal turns into the process's exit.
Listen(l) ==
  /\ Running
  /\ server[l] = "starting"
  /\ \/ /\ port = NoLogin
        /\ port' = l
        /\ server' = [server EXCEPT ![l] = "serving"]
        /\ process' = process
     \/ /\ port # NoLogin
        /\ process' = "dead"
        /\ UNCHANGED <<server, port, pkce>>
  /\ UNCHANGED <<main, conn, at, taken, pkce>>

\* Seeded fault: whatever listens on the port takes the connection.
ServedByAny == port # NoLogin

\* A login's own server listens.
ServedByLogin == port \in Logins

\* A browser connects: the redirect, a second tab, a preconnected socket.
Connect(r) ==
  /\ Running
  /\ ServedByLogin
  /\ conn[r] = "none"
  /\ conn' = [conn EXCEPT ![r] = "open"]
  /\ at' = [at EXCEPT ![r] = port]
  /\ UNCHANGED <<process, main, server, port, taken, pkce>>

\* Seeded fault: the channel has a buffer, so the handler does not wait.
ServeBuffered(r, c) ==
  /\ Running
  /\ conn[r] = "open"
  /\ conn' = [conn EXCEPT ![r] = "replying"]
  /\ carries' = [carries EXCEPT ![r] = c]
  /\ UNCHANGED <<process, main, server, port, at, taken, verifier, issued>>

\* Codes a browser can send: it was redirected with them, at any time before.
KnownCodes == {c \in Codes : issued[c] # NotIssued} \union {NoCode}

\* ServeHTTP starts: it blocks in its send of the code until Token receives.
ServeHTTP(r, c) ==
  /\ Running
  /\ conn[r] = "open"
  /\ c \in KnownCodes
  /\ conn' = [conn EXCEPT ![r] = "sending"]
  /\ carries' = [carries EXCEPT ![r] = c]
  /\ UNCHANGED <<process, main, server, port, at, taken, verifier, issued>>

\* A connection on which nothing was read yet: the read timeout, Shutdown's
\* sweep of new connections, or the browser closes it.
Drop(r) ==
  /\ Running
  /\ conn[r] = "open"
  /\ conn' = [conn EXCEPT ![r] = "dropped"]
  /\ UNCHANGED <<process, main, server, port, at, taken, pkce>>

\* After its send, the handler writes the page `Login successful`.
Reply(r) ==
  /\ Running
  /\ conn[r] = "replying"
  /\ conn' = [conn EXCEPT ![r] = "answered"]
  /\ UNCHANGED <<process, main, server, port, at, taken, pkce>>

-----------------------------------------------------------------------------
(* The authorization server and the user.                                  *)

\* The user logs in at the URL of a login, in any tab and at any time after it
\* was opened; the server issues a code bound to the challenge in the URL.
Authorize(c, l) ==
  /\ Running
  /\ main[l] # "idle"
  /\ issued[c] = NotIssued
  /\ issued' = [issued EXCEPT ![c] = [url |-> l, challenge |-> S256(verifier[l])]]
  /\ UNCHANGED <<process, main, server, port, conn, at, taken, verifier, carries>>

-----------------------------------------------------------------------------
TokenStep(l) ==
  \/ \E r \in Requests : TakeCode(l, r)
  \/ TimeOut(l)
  \/ BeginShutdown(l)
  \/ FinishShutdown(l)
  \/ Exchange(l)

Serve(r) == \E c \in Codes \union {NoCode} : ServeHTTP(r, c)

Next ==
  \/ \E l \in Logins : TokenStep(l) \/ Listen(l) \/ \E v \in Verifiers : Start(l, v)
  \/ \E r \in Requests : Connect(r) \/ Serve(r) \/ Drop(r) \/ Reply(r)
  \/ \E c \in Codes, l \in Logins : Authorize(c, l)

\* Every goroutine that can run runs, the timer fires, and a connection that
\* stays silent meets its read timeout. No user or browser has to do anything.
Fairness ==
  /\ \A l \in Logins : WF_vars(TokenStep(l)) /\ WF_vars(Listen(l))
  /\ \A r \in Requests : WF_vars(Serve(r) \/ Drop(r)) /\ WF_vars(Reply(r))

Spec == Init /\ [][Next]_vars
FairSpec == Spec /\ Fairness

-----------------------------------------------------------------------------
(* Properties.                                                             *)

(***************************************************************************)
(* The browser is told `Login successful` on at most one request of a      *)
(* login, the one whose code Token received: a stray request that came too *)
(* late, or came after the five minutes, is never answered.                *)
(***************************************************************************)
PageOnlyForTakenCode ==
  \A r \in Requests : conn[r] \in {"replying", "answered"} => at[r] \in Logins /\ taken[at[r]] = r

(***************************************************************************)
(* A login that ends with a token was given it for an authorization        *)
(* request of its own: the user logged in at the URL this very login       *)
(* opened. The redirect of an earlier login that timed out, of another tab *)
(* or of a login under way beside it is taken like any other request, but  *)
(* never becomes a token.                                                  *)
(***************************************************************************)
TokenFromOwnUrl ==
  \A l \in Logins : main[l] = "token" => issued[carries[taken[l]]].url = l

(***************************************************************************)
(* A login that waits for the browser ends (`guarding against a user who   *)
(* never completes the browser flow`), whatever the browser does, unless   *)
(* the process died or a request was in the handler's send when the select *)
(* was over: with that one the login hangs for ever.                       *)
(***************************************************************************)
Stuck(l) ==
  /\ main[l] \in {"stopping", "draining"}
  /\ \E r \in Requests : at[r] = l /\ conn[r] = "sending"

LoginEndsUnlessStuck ==
  \A l \in Logins :
    main[l] = "waiting" ~> main[l] \in Ended \/ process = "dead" \/ []Stuck(l)

(***************************************************************************)
(* Every login ends: Token waits for one code or for five minutes.         *)
(***************************************************************************)
EveryLoginEnds == \A l \in Logins : main[l] = "waiting" ~> main[l] \in Ended

(***************************************************************************)
(* A login that fails is an error of its caller: it does not end the       *)
(* process other callers are served by.                                    *)
(***************************************************************************)
LoginNeverEndsProcess == process = "running"
=============================================================================
