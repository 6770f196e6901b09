------------------------------ MODULE McpServer ------------------------------
(***************************************************************************)
(* One MCP server process (mcpserver/): it prepares its tools, then serves *)
(* concurrent tool calls over stdio or Streamable HTTP. A call passes the  *)
(* inbound authentication, its tool's argument validation, the client's    *)
(* outbound authentication and the upstream API; its client may cancel it  *)
(* and a signal may shut the server down at any point. The upstream client *)
(* has no timeout: the API may never answer.                               *)
(***************************************************************************)
EXTENDS McpTools

CONSTANTS
  Calls,       \* tool calls
  Setups,      \* how the process is started and who calls it, see SetupsAssumption
  Headers,     \* Authorization headers callers may present
  NoHeader,    \* none, or one that holds no bearer token
  ServerToken, \* the header with the token of --http-auth bearer
  Own,         \* the credential of this process: its profile or environment
  Missing      \* no credential configured

Mode == {"stdio", "none", "bearer", "oauth", "forward"}

ASSUME HeadersAssumption ==
  /\ NoHeader \notin Headers
  /\ ServerToken \in Headers
  /\ Own \notin Headers \union {NoHeader}
  /\ Missing \notin Headers \union {NoHeader, Own}

Operations == {d.op : d \in Generated} \union CustomOps

\* A request: its header, the tool called, the operation a meta-tool is to run,
\* and whether the arguments meant for the operation match its schema.
Request == [header : Headers \union {NoHeader}, tool : Names, target : Names, argsOK : BOOLEAN]

Quiet == [header |-> NoHeader, tool |-> Meta.search, target |-> Meta.search, argsOK |-> TRUE]

Options == [keep : SUBSET Names, remove : SUBSET Names, patches : Seq(Patches),
            extra : Seq(Tool(CustomOps)), wraps : Nat, discover : BOOLEAN]

\* A setup: the transport, the customizations of cli/custom, the filter flags,
\* the calls that are made and the requests they may be.
ASSUME SetupsAssumption ==
  \A s \in Setups :
    /\ s.mode \in Mode /\ s.calls \subseteq Calls /\ s.requests \subseteq Request
    /\ s.options \in Options
    /\ \A i \in 1 .. Len(s.options.extra) : s.options.extra[i].wraps = 0

\* The meta-tools, the custom handlers and the generated ones run different things.
ASSUME OperationsAssumption ==
  /\ Operations \intersect MetaNames = {}
  /\ CustomOps \intersect {g.op : g \in Generated} = {}

VARIABLES
  mode,        \* the transport and inbound authentication
  setup,       \* the options and flags the process was started with
  own,         \* the credential this process resolves
  tools,       \* what prepareTools returned
  server,      \* the server's life cycle
  pc,          \* where each call is
  req,         \* each call's request
  run,         \* the tool record each call executes
  cancelled,   \* calls whose client went away
  sent         \* history: what reached the API, and for which call

vars == <<mode, setup, own, tools, server, pc, req, run, cancelled, sent>>
started == <<mode, setup, own, tools>>

Ended == {"unauthorized", "result", "error"}
Idle == {"idle"} \union Ended
NoRun == CHOOSE d \in DiscoveryTools : d.name = Meta.search

TypeOK ==
  /\ mode \in Mode
  /\ setup \in Setups
  /\ own \in {Own, Missing}
  /\ server \in {"serving", "draining", "stopped"}
  /\ pc \in [Calls -> {"called", "auth", "send", "upstream"} \union Idle]
  /\ req \in [Calls -> Request]
  /\ cancelled \in SUBSET Calls
  /\ \A s \in sent : s.call \in Calls /\ s.credential \in Headers \union {Own}

\* A start that fails ends the process before anything is served.
Init ==
  /\ setup \in Setups
  /\ mode = setup.mode
  /\ own \in {Own, Missing}
  /\ tools = RegisterTools(PrepareTools(setup.options, setup.filter))
  /\ server = IF tools = Failed THEN "stopped" ELSE "serving"
  /\ pc = [c \in Calls |-> "idle"]
  /\ req = [c \in Calls |-> Quiet]
  /\ run = [c \in Calls |-> NoRun]
  /\ cancelled = {}
  /\ sent = {}

-----------------------------------------------------------------------------
(* A tool call.                                                            *)

Up == server # "stopped"
Move(c, from, to) == pc[c] = from /\ pc' = [pc EXCEPT ![c] = to]

\* Seeded fault: forward admits a request that carries no credential.
AdmitsAnonymous(h) ==
  CASE mode = "bearer" -> h = ServerToken
    [] mode = "oauth" -> h # NoHeader
    [] OTHER -> TRUE

\* withInboundAuth. Which tokens the JWT verifier accepts is left open: every
\* header of Headers stands for a token that passes or fails in Receive.
Admits(h) ==
  CASE mode = "bearer" -> h = ServerToken
    [] mode \in {"forward", "oauth"} -> h # NoHeader
    [] OTHER -> TRUE

\* A request arrives. While the server drains, one may still arrive on a
\* connection that was accepted before.
Receive(c, r) ==
  /\ Up
  /\ mode = "stdio" => server = "serving" /\ r.header = NoHeader
  /\ req' = [req EXCEPT ![c] = r]
  /\ \/ Admits(r.header) /\ Move(c, "idle", "called")
     \/ ~Admits(r.header) /\ Move(c, "idle", "unauthorized")
     \/ mode = "oauth" /\ Move(c, "idle", "unauthorized")
  /\ UNCHANGED <<started, server, run, cancelled, sent>>

\* The listed tool a call names, and the operation the meta-tools look up.
Called(c) == {d \in tools.listed : d.name = req[c].tool}
Looked(c) == {d \in tools.catalog : d.name = req[c].target}

\* The call is answered without reaching the API.
Answer(c, label) ==
  /\ pc' = [pc EXCEPT ![c] = label]
  /\ UNCHANGED <<started, server, req, run, cancelled, sent>>

Begin(c, d) ==
  /\ pc' = [pc EXCEPT ![c] = "auth"]
  /\ run' = [run EXCEPT ![c] = d]
  /\ UNCHANGED <<started, server, req, cancelled, sent>>

\* The SDK answers for a tool that is not listed.
NoSuchTool(c) == Up /\ pc[c] = "called" /\ Called(c) = {} /\ Answer(c, "error")

\* makeHandler for a tool that is not one of the meta-tools.
CallTool(c) ==
  /\ Up /\ pc[c] = "called"
  /\ \E d \in Called(c) :
       /\ d.op \notin MetaNames
       /\ IF req[c].argsOK THEN Begin(c, d) ELSE Answer(c, "error")

\* search_operations finds what it can; describe_operation needs its operation.
Discover(c) ==
  /\ Up /\ pc[c] = "called"
  /\ \E m \in Called(c) :
       \/ m.op = Meta.search /\ Answer(c, "result")
       \/ m.op = Meta.describe /\ Answer(c, IF Looked(c) = {} THEN "error" ELSE "result")

\* Seeded fault: call_read_operation does not look at the operation.
AnyMayRun(m, d) == TRUE

\* call_read_operation refuses what is not read-only.
MayRun(m, d) == m.op = Meta.callRead => d.readOnly

\* Seeded fault: the operation's own schema is not consulted.
SkipsSchema(c, d) == TRUE

\* invoke validates against the schema of the operation, as makeHandler would.
MatchesSchema(c, d) == d.schema /\ req[c].argsOK

\* call_read_operation and call_operation.
CallOperation(c) ==
  /\ Up /\ pc[c] = "called"
  /\ \E m \in Called(c) :
       /\ m.op \in {Meta.callRead, Meta.call}
       /\ \/ Looked(c) = {} /\ Answer(c, "error")
          \/ \E d \in Looked(c) :
               IF MayRun(m, d) /\ MatchesSchema(c, d) THEN Begin(c, d) ELSE Answer(c, "error")

\* Seeded fault: the caller's header stands in wherever there is one.
PrefersCaller(c) == IF req[c].header # NoHeader THEN req[c].header ELSE own

\* The credential of the API request: under forward the caller's, which the
\* middleware takes from the context; without one it resolves its own.
CredentialFor(c) ==
  IF mode = "forward" /\ req[c].header # NoHeader THEN req[c].header ELSE own

\* Seeded fault: a request without a credential is sent all the same.
AuthenticateAnyway(c) ==
  Up /\ Move(c, "auth", "send") /\ UNCHANGED <<started, server, req, run, cancelled, sent>>

\* The auth middleware; the token cache or a login may take long.
Authenticate(c) ==
  /\ Up
  /\ Move(c, "auth", IF CredentialFor(c) = Missing THEN "error" ELSE "send")
  /\ UNCHANGED <<started, server, req, run, cancelled, sent>>

\* Seeded fault: the request is not bound to the call's context.
SendUnbound(c) ==
  /\ Up /\ Move(c, "send", "upstream")
  /\ sent' = sent \union {[call |-> c, run |-> run[c], credential |-> CredentialFor(c)]}
  /\ UNCHANGED <<started, server, req, run, cancelled>>

\* Sending, bound to the call's context: a cancelled one sends nothing.
Send(c) ==
  /\ Up /\ pc[c] = "send"
  /\ IF c \in cancelled
     THEN Answer(c, "error")
     ELSE /\ Move(c, "send", "upstream")
          /\ sent' = sent \union {[call |-> c, run |-> run[c], credential |-> CredentialFor(c)]}
          /\ UNCHANGED <<started, server, req, run, cancelled>>

\* The API answers, with a success or an error.
Respond(c) ==
  /\ Up /\ pc[c] = "upstream"
  /\ \E label \in {"result", "error"} : Answer(c, label)

\* Seeded fault: cancellation does not reach the request in flight.
NeverAbort(c) == FALSE /\ UNCHANGED vars

\* The context of a cancelled call aborts its request.
Abort(c) == Up /\ pc[c] = "upstream" /\ c \in cancelled /\ Answer(c, "error")

\* The client cancels the call, or its HTTP request goes away.
Cancel(c) ==
  /\ Up /\ pc[c] \notin Idle
  /\ cancelled' = cancelled \union {c}
  /\ UNCHANGED <<started, server, pc, req, run, sent>>

-----------------------------------------------------------------------------
(* Shutting down.                                                          *)

Shut(to) == server' = to /\ UNCHANGED <<started, pc, req, run, cancelled, sent>>

\* SIGINT or SIGTERM: over stdio Run returns, over HTTP Shutdown begins.
Signal == server = "serving" /\ Shut(IF mode = "stdio" THEN "stopped" ELSE "draining")

\* Shutdown returns once no call is in flight.
Drained == server = "draining" /\ (\A c \in Calls : pc[c] \in Idle) /\ Shut("stopped")

\* Seeded fault: Shutdown waits without a deadline.
DrainForever == FALSE /\ UNCHANGED vars

\* Shutdown's context expires after httpShutdownTimeout.
DrainTimeout == server = "draining" /\ Shut("stopped")

CallStep(c) ==
  \/ NoSuchTool(c) \/ CallTool(c) \/ Discover(c) \/ CallOperation(c)
  \/ Authenticate(c) \/ Send(c) \/ Abort(c)

Next ==
  \/ \E c \in setup.calls, r \in setup.requests : Receive(c, r)
  \/ \E c \in Calls : CallStep(c) \/ Respond(c) \/ Cancel(c)
  \/ Signal \/ Drained \/ DrainTimeout

\* Handlers run and the shutdown timer fires. The API need not answer, a client
\* need not cancel and the process need not be signalled.
Fairness == WF_vars(Drained \/ DrainTimeout) /\ \A c \in Calls : WF_vars(CallStep(c))

Spec == Init /\ [][Next]_vars
FairSpec == Spec /\ Fairness

-----------------------------------------------------------------------------
(* Properties.                                                             *)

(***************************************************************************)
(* Under --http-auth forward the API is called with the credential of the  *)
(* caller itself and nothing else, however calls interleave; in every other*)
(* mode with the credential of this process and never with an inbound one. *)
(***************************************************************************)
ActsAsCaller ==
  \A s \in sent :
    s.credential = IF mode = "forward" THEN req[s.call].header ELSE Own

\* Some patch assigns a tool of its own making, which KeepTools never saw.
MadeAnew(o) == \E i \in 1 .. Len(o.patches) : o.patches[i].anew

(***************************************************************************)
(* Nothing reaches the API that the options and flags exclude: a removed   *)
(* generated operation never, one KeepTools left out only with             *)
(* DiscoverTools or if a patch makes a tool anew, and only what --groups   *)
(* and --read-only allow, whatever a patch made of it; and only through a  *)
(* tool that --tools lists.                                                *)
(***************************************************************************)
OnlySelectedRun ==
  \A s \in sent :
    LET d == s.run
        o == setup.options
        f == setup.filter
        original == {g.name : g \in {h \in Generated : h.op = d.op}}
    IN  /\ original \intersect o.remove = {}
        /\ o.keep # {} /\ original # {} /\ ~o.discover /\ ~MadeAnew(o) => original \subseteq o.keep
        /\ f.tools # {} => req[s.call].tool \in f.tools
        /\ f.groups # {} => d.group \in f.groups
        /\ f.readOnly => d.readOnly

(***************************************************************************)
(* A tool annotated read-only runs read-only operations only: a model that *)
(* calls call_read_operation never causes a write.                         *)
(***************************************************************************)
ReadOnlyToolsOnlyRead ==
  \A s \in sent :
    \A d \in tools.listed : d.name = req[s.call].tool /\ d.readOnly => s.run.readOnly

(***************************************************************************)
(* Every operation runs behind each wrapper exactly once, and with         *)
(* arguments that match its own schema, which has to resolve for that,     *)
(* whether its tool is listed or it is reached through a meta-tool.        *)
(***************************************************************************)
WrappedOnceAndValid ==
  \A s \in sent :
    s.run.wraps = setup.options.wraps /\ s.run.schema /\ req[s.call].argsOK

(***************************************************************************)
(* No two tools of a running server have one name: which operation a call  *)
(* runs is decided by its name.                                            *)
(***************************************************************************)
NamesAreUnique ==
  tools # Failed => \A S \in {tools.listed, tools.catalog} :
    \A d, e \in S : d.name = e.name => d = e

(***************************************************************************)
(* Once its client is gone, a call starts no request to the API.           *)
(***************************************************************************)
NothingSentAfterCancel ==
  [][\A c \in cancelled : pc[c] # "upstream" => pc'[c] # "upstream"]_vars

(***************************************************************************)
(* `Cancelling a tool call aborts the upstream API request`, even when the *)
(* API never answers.                                                      *)
(***************************************************************************)
CancelAborts ==
  \A c \in Calls : c \in cancelled /\ pc[c] = "upstream" ~> pc[c] # "upstream" \/ server = "stopped"

(***************************************************************************)
(* A server that was signalled stops, even when the API never answers a    *)
(* call that is in flight.                                                 *)
(***************************************************************************)
DrainEnds == server = "draining" ~> server = "stopped"
=============================================================================
