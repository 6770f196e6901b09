----------------------------- MODULE TokenCache -----------------------------
(***************************************************************************)
(* The OAuth token cache (oauth/oauth.go, refresh.go, authcode.go,         *)
(* clientcredentials.go): processes that share cache.json and talk to an   *)
(* authorization server. A process reads the file once (initCache), serves *)
(* requests from its own copy, and on a new token puts the whole copy back *)
(* with viper's WriteConfig, which truncates the file before filling it.   *)
(* Tokens are numbered in the order the server issues them.                *)
(***************************************************************************)
EXTENDS Naturals, Sequences, FiniteSets

CONSTANTS
  Procs,          \* processes of the generated CLI (one may serve MCP calls)
  Profiles,       \* profiles that hold an OAuth credential
  NoProfile,      \* no profile in force: the client comes from the constructor
  Clients,        \* OAuth clients: flow, token endpoint, client id, scopes
  Confidential,   \* the clients that use the client-credentials flow
  Torn,           \* cache.json truncated, or cut short
  Answers,        \* how a refresh may be answered: whether the refresh token
                  \* is replaced, and the access token is the one the client has
  MaxIssues       \* bound: tokens the server issues

ASSUME ClientsAssumption ==
  /\ Clients # {} /\ Confidential \subseteq Clients
  /\ Profiles \intersect Clients = {}
  /\ NoProfile \notin Profiles

ASSUME BoundsAssumption ==
  /\ MaxIssues \in Nat
  /\ Answers \subseteq [rotates : BOOLEAN, repeats : BOOLEAN]

VARIABLES
  disk,      \* cache.json
  stored,    \* the client each profile in credentials.json names
  pc,        \* where each process is
  mem,       \* each process's memory
  issues,    \* every token issued: to which client, for which profile
  live,      \* issues whose refresh token the server still accepts
  expired,   \* issues whose access token has expired
  forgone    \* history: refresh tokens lost by a failure, not by the program

vars == <<disk, stored, pc, mem, issues, live, expired, forgone>>

\* Buckets of the cache: the profile in force, or the client's identity.
Scopes == Profiles \union Clients
Tokens == 1 .. MaxIssues
None == 0

\* Keys <scope>.token (with .expires and .type) and <scope>.refresh.
Bucket == [token : Tokens \union {None}, refresh : Tokens \union {None}]
EmptyBucket == [token |-> None, refresh |-> None]
Cache == [Scopes -> Bucket]
ASSUME TornAssumption == Torn \notin Cache

EmptyCache == [s \in Scopes |-> EmptyBucket]

Issue == [client : Clients, profile : Profiles \union {NoProfile},
          refresh : BOOLEAN, repeats : BOOLEAN]

Labels == {"down", "ready", "refresh", "login", "store", "write", "send"}

Memory ==
  [cache : Cache,                          \* cli.Cache
   creds : [Profiles -> Clients],          \* cli.Creds, read at startup
   profile : Profiles \union {NoProfile},  \* the request's profile and client
   client : Clients,
   got : Tokens \union {None},             \* the token the source answered
   unsaved : BOOLEAN]                      \* history: its last WriteConfig failed

TypeOK ==
  /\ disk \in Cache \union {Torn}
  /\ stored \in [Profiles -> Clients]
  /\ pc \in [Procs -> Labels]
  /\ mem \in [Procs -> Memory]
  /\ issues \in Seq(Issue) /\ Len(issues) <= MaxIssues
  /\ live \in SUBSET Tokens
  /\ expired \in SUBSET Tokens
  /\ forgone \in SUBSET Tokens

SomeClient == CHOOSE c \in Clients : TRUE

\* Seeded fault: the profile's name is left out of the bucket's key.
ClientScope(profile, client) == client

(***************************************************************************)
(* credentialScope and CredentialScope: a profile's name is its bucket; an *)
(* environment credential is told apart by its client.                     *)
(***************************************************************************)
Scope(profile, client) == IF profile # NoProfile THEN profile ELSE client

MyScope(m) == Scope(m.profile, m.client)
MyBucket(m) == m.cache[MyScope(m)]

\* The memory of a process that is not running.
Blank ==
  [cache |-> EmptyCache, creds |-> [n \in Profiles |-> SomeClient], profile |-> NoProfile,
   client |-> SomeClient, got |-> None, unsaved |-> FALSE]

Init ==
  /\ disk = EmptyCache
  /\ stored \in [Profiles -> Clients]
  /\ pc = [p \in Procs |-> "down"]
  /\ mem = [p \in Procs |-> Blank]
  /\ issues = <<>>
  /\ live = {} /\ expired = {} /\ forgone = {}

Goto(p, label) == pc' = [pc EXCEPT ![p] = label]

\* The request was sent, or failed; the process is ready for another.
EndRequest(p, m) ==
  /\ mem' = [mem EXCEPT ![p] =
       [m EXCEPT !.profile = NoProfile, !.client = SomeClient, !.got = None]]
  /\ Goto(p, "ready")

-----------------------------------------------------------------------------
(* The authorization server, and everything outside the processes.         *)

\* requestToken answered with a new token.
Issued(m, withRefresh, repeats) ==
  /\ Len(issues) < MaxIssues
  /\ issues' = Append(issues, [client |-> m.client, profile |-> m.profile,
                               refresh |-> withRefresh, repeats |-> repeats])

NewToken == Len(issues) + 1

Expire(t) ==
  /\ t \in 1 .. Len(issues) \ expired
  /\ expired' = expired \union {t}
  /\ UNCHANGED <<disk, stored, pc, mem, issues, live, forgone>>

\* `auth profile add` gives a profile another client id.
EditProfile(n, c) ==
  /\ stored[n] # c
  /\ stored' = [stored EXCEPT ![n] = c]
  /\ UNCHANGED <<disk, pc, mem, issues, live, expired, forgone>>

-----------------------------------------------------------------------------
(* A process.                                                              *)

\* Seeded fault: whatever the file holds is taken for a cache.
ReadTorn == disk

\* initCache's ReadInConfig: a file that cannot be parsed is empty.
ReadCache == IF disk = Torn THEN EmptyCache ELSE disk

\* initCache and InitCredentialsFile.
Start(p) ==
  /\ pc[p] = "down"
  /\ mem' = [mem EXCEPT ![p].cache = ReadCache, ![p].creds = stored]
  /\ Goto(p, "ready")
  /\ UNCHANGED <<disk, stored, issues, live, expired, forgone>>

\* ReuseTokenSource: a cached token is used again until it expires.
Reusable(bucket) == bucket.token # None /\ bucket.token \notin expired

\* What OnRequest does first, from the bucket as the process remembers it.
FirstStep(m) ==
  IF Reusable(MyBucket(m)) THEN "send"
  ELSE IF m.client \notin Confidential /\ MyBucket(m).refresh # None THEN "refresh"
  ELSE "login"

\* AuthCodeHandler.OnRequest and ClientCredentialsHandler.OnRequest; the
\* latter refuses when no profile holds the client's secret.
OnRequest(p, n, c) ==
  /\ pc[p] = "ready"
  /\ IF n # NoProfile THEN c = mem[p].creds[n] ELSE c \notin Confidential
  /\ LET m == [mem[p] EXCEPT !.profile = n, !.client = c]
     IN  /\ mem' = [mem EXCEPT ![p] = m]
         /\ Goto(p, FirstStep(m))
  /\ UNCHANGED <<disk, stored, issues, live, expired, forgone>>

\* The server may answer with the access token its client already holds.
Repeatable(m) ==
  MyBucket(m).token # None /\ issues[MyBucket(m).token].client = m.client

\* What the server does with a refresh token it accepts.
Exchanged(m, r, answer) ==
  /\ answer.repeats => Repeatable(m)
  /\ Issued(m, answer.rotates, answer.repeats)
  /\ live' = IF answer.rotates THEN (live \ {r}) \union {NewToken} ELSE live

\* RefreshTokenSource.Token with a refresh token. Whatever the error, it turns
\* to the source it wraps: refused, never delivered, or the answer lost.
Refresh(p) ==
  LET m == mem[p]
      r == MyBucket(m).refresh
      accepted == r \in live /\ issues[r].client = m.client
  IN  /\ pc[p] = "refresh"
      /\ \/ /\ accepted /\ \E answer \in Answers : Exchanged(m, r, answer)
            /\ mem' = [mem EXCEPT ![p].got = NewToken]
            /\ Goto(p, "store")
            /\ UNCHANGED forgone
         \/ /\ Goto(p, "login")
            /\ forgone' = IF accepted THEN forgone \union {r} ELSE forgone
            /\ UNCHANGED <<mem, issues, live>>
         \/ /\ accepted /\ \E answer \in Answers : Exchanged(m, r, answer)
            /\ Goto(p, "login")
            /\ forgone' = forgone \union {r, NewToken}
            /\ UNCHANGED mem
      /\ UNCHANGED <<disk, stored, expired>>

\* The user logs in through the browser, or the client presents its secret;
\* or neither happens and the request fails.
Login(p) ==
  LET m == mem[p]
  IN  /\ pc[p] = "login"
      /\ \/ /\ \E withRefresh \in IF m.client \in Confidential THEN {FALSE} ELSE BOOLEAN :
                 /\ Issued(m, withRefresh, FALSE)
                 /\ live' = IF withRefresh THEN live \union {NewToken} ELSE live
            /\ mem' = [mem EXCEPT ![p].got = NewToken]
            /\ Goto(p, "store")
         \/ EndRequest(p, mem[p]) /\ UNCHANGED <<issues, live>>
      /\ UNCHANGED <<disk, stored, expired, forgone>>

\* TokenHandler: the new token's fields, and its refresh token if it has one.
BucketWith(bucket, t) ==
  [token |-> t, refresh |-> IF issues[t].refresh THEN t ELSE bucket.refresh]

\* The token is in the cache of the process; the file may not have it.
Stored(m, unsaved) ==
  [m EXCEPT !.cache[MyScope(m)] = BucketWith(MyBucket(m), m.got), !.unsaved = unsaved]

\* The access token is the cached one, whatever else the answer holds.
SameAccess(m) == MyBucket(m).token # None /\ issues[m.got].repeats

\* TokenHandler leaves the cache alone when the access token is the cached one.
\* Else it puts the token in the cache and calls WriteConfig, which truncates
\* the file; if it cannot be opened the request fails.
StoreToken(p) ==
  /\ pc[p] = "store"
  /\ \/ /\ SameAccess(mem[p])
        /\ Goto(p, "send")
        /\ UNCHANGED <<disk, mem>>
     \/ /\ ~SameAccess(mem[p])
        /\ disk' = Torn
        /\ mem' = [mem EXCEPT ![p] = Stored(mem[p], FALSE)]
        /\ Goto(p, "write")
     \/ /\ ~SameAccess(mem[p])
        /\ disk' = disk
        /\ EndRequest(p, Stored(mem[p], TRUE))
  /\ UNCHANGED <<stored, issues, live, expired, forgone>>

\* Seeded fault: only the bucket that changed is written.
ChangedBucketOnly(p) ==
  [EmptyCache EXCEPT ![MyScope(mem[p])] = MyBucket(mem[p])]

\* The tree WriteConfig fills the file with.
WrittenTree(p) == mem[p].cache

\* The file is filled; or that fails, after some of it or none was written,
\* and so does the request.
FinishWrite(p) ==
  /\ pc[p] = "write"
  /\ \/ /\ disk' = WrittenTree(p)
        /\ Goto(p, "send")
        /\ mem' = mem
     \/ /\ disk' \in {disk, Torn}
        /\ EndRequest(p, [mem[p] EXCEPT !.unsaved = TRUE])
  /\ UNCHANGED <<stored, issues, live, expired, forgone>>

\* SetAuthHeader, with the cached token or the one just stored.
Send(p) ==
  /\ pc[p] = "send"
  /\ EndRequest(p, mem[p])
  /\ UNCHANGED <<disk, stored, issues, live, expired, forgone>>

Refreshes(cache) == {cache[s].refresh : s \in Scopes}

\* What dies with the process: the answer it had not stored, everything if the
\* file is truncated, and what a failed WriteConfig left in memory only.
DiesWith(p) ==
  IF pc[p] = "write" THEN live
  ELSE (IF pc[p] = "store" THEN {mem[p].got} ELSE {})
         \union (IF mem[p].unsaved THEN live \intersect Refreshes(mem[p].cache) ELSE {})

\* The process ends or is killed.
Stop(p) ==
  /\ pc[p] # "down"
  /\ Goto(p, "down")
  /\ mem' = [mem EXCEPT ![p] = Blank]
  /\ forgone' = forgone \union DiesWith(p)
  /\ UNCHANGED <<disk, stored, issues, live, expired>>

Step(p) ==
  \/ Start(p)
  \/ \E n \in Profiles \union {NoProfile}, c \in Clients : OnRequest(p, n, c)
  \/ Refresh(p)
  \/ Login(p)
  \/ StoreToken(p)
  \/ FinishWrite(p)
  \/ Send(p)
  \/ Stop(p)

Next ==
  \/ \E p \in Procs : Step(p)
  \/ \E t \in Tokens : Expire(t)
  \/ \E n \in Profiles, c \in Clients : EditProfile(n, c)

Spec == Init /\ [][Next]_vars

-----------------------------------------------------------------------------
(* Properties.                                                             *)

Held(bucket) == {bucket.token, bucket.refresh} \ {None}

\* The token was issued for the profile, or for the client if there is none.
IssuedFor(log, t, profile, client) ==
  /\ t \in 1 .. Len(log)
  /\ log[t].profile = profile
  /\ profile = NoProfile => log[t].client = client

Keeps(log, cache) ==
  /\ \A n \in Profiles : \A t \in Held(cache[n]) : IssuedFor(log, t, n, SomeClient)
  /\ \A c \in Clients : \A t \in Held(cache[c]) : IssuedFor(log, t, NoProfile, c)

(***************************************************************************)
(* However processes share and overwrite cache.json, a token is found only *)
(* in the bucket it was issued for, and an environment credential's bucket *)
(* holds tokens of its own client alone; so a request carries a token of   *)
(* its own profile or client (oauth_test.go: a cached token must not reach *)
(* a request built from a different client id).                            *)
(***************************************************************************)
TokensStayInTheirBucket ==
  /\ disk # Torn => Keeps(issues, disk)
  /\ \A p \in Procs : Keeps(issues, mem[p].cache)
  /\ \A p \in Procs : pc[p] = "send" =>
       IssuedFor(issues, MyBucket(mem[p]).token, mem[p].profile, mem[p].client)

\* The newest refresh token issued for that profile or client.
NewestRefresh(r, profile, client) ==
  /\ issues[r].refresh /\ IssuedFor(issues, r, profile, client)
  /\ \A t \in r + 1 .. Len(issues) : ~(issues[t].refresh /\ IssuedFor(issues, t, profile, client))

(***************************************************************************)
(* With one process at a time, the user is sent to the browser only if the *)
(* newest refresh token issued for the bucket is no longer accepted for    *)
(* the client, or was lost to a failed request, a failed write or a kill:  *)
(* no step of the program forgets it. The server's answers never replace   *)
(* the refresh token and repeat the access token at once: one that did is  *)
(* dropped (oauth.go:120), and with it the only one that works.            *)
(***************************************************************************)
LoginOnlyWhenNeeded ==
  [][\A p \in Procs :
       pc[p] = "login" /\ pc'[p] = "store" /\ mem[p].client \notin Confidential =>
         \A r \in live \ forgone :
           NewestRefresh(r, mem[p].profile, mem[p].client) =>
             issues[r].client # mem[p].client]_vars

(***************************************************************************)
(* A request whose token was obtained goes on to be sent: a cache that     *)
(* cannot be written costs only the file (cli.go: `when it cannot be       *)
(* written the cache lives in memory for this run`).                       *)
(***************************************************************************)
TokenObtainedIsUsed ==
  [][\A p \in Procs : pc[p] \in {"store", "write"} => pc'[p] # "ready"]_vars
=============================================================================
