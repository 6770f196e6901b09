--------------------------- MODULE McpServerProofs ---------------------------
(***************************************************************************)
(* Whose credential reaches the API, and which operations run, for any     *)
(* tools, options, flags, headers and number of concurrent calls.          *)
(*   - IInv: past the inbound authentication of --http-auth forward a call *)
(*     has a header, only a call with a credential is sent, and a sent     *)
(*     call keeps its request.                                             *)
(*   - ToolInv: what a call executes is a listed tool that it called, or   *)
(*     one of the catalog that a listed meta-tool may run, from the moment *)
(*     it begins. What is offered follows from how the tools are prepared, *)
(*     by induction over the patches.                                      *)
(***************************************************************************)
EXTENDS McpServer, FiniteSetTheorems, TLAPS

\* Forward let a call in only with a header.
Admitted ==
  mode = "forward" =>
    \A c \in Calls : pc[c] \in {"called", "auth", "send", "upstream"} => req[c].header # NoHeader

\* What is about to be sent has a credential.
Authenticated == \A c \in Calls : pc[c] = "send" => CredentialFor(c) # Missing

\* A call that has sent something has begun: its request does not change.
SentCallsBegan == \A s \in sent : pc[s.call] # "idle"

IInv ==
  /\ TypeOK
  /\ Admitted
  /\ Authenticated
  /\ SentCallsBegan
  /\ ActsAsCaller

LEMMA InitInvariant == Init => IInv
BY MetaAssumption, SetupsAssumption
   DEF Init, IInv, TypeOK, Admitted, Authenticated, SentCallsBegan, ActsAsCaller, Quiet, Request,
       MetaNames, Idle, Ended

\* A call moves on without sending or changing its request.
LEMMA LocalStep ==
  ASSUME IInv, NEW c \in Calls, NEW label \in {"auth", "send"} \union Ended,
         pc[c] # "idle", pc' = [pc EXCEPT ![c] = label],
         label = "auth" => pc[c] = "called",
         label = "send" => pc[c] = "auth" /\ CredentialFor(c) # Missing,
         UNCHANGED <<started, server, req, cancelled, sent>>
  PROVE  IInv'
<1> USE DEF IInv, TypeOK, started
<1>1. TypeOK'
  BY DEF Idle, Ended
<1>2. Admitted'
  BY DEF Admitted, Ended
<1>3. Authenticated'
  BY DEF Authenticated, CredentialFor, Ended
<1>4. SentCallsBegan' /\ ActsAsCaller'
  BY DEF SentCallsBegan, ActsAsCaller, Ended
<1>5. QED
  BY <1>1, <1>2, <1>3, <1>4

LEMMA NextInvariant == IInv /\ [Next]_vars => IInv'
<1> SUFFICES ASSUME IInv, [Next]_vars PROVE IInv'
  OBVIOUS
<1>1. ASSUME NEW c \in setup.calls, NEW r \in setup.requests, Receive(c, r) PROVE IInv'
  <2>1. /\ c \in Calls /\ r \in Request /\ pc[c] = "idle"
        /\ req' = [req EXCEPT ![c] = r]
        /\ UNCHANGED <<started, server, run, cancelled, sent>>
    BY <1>1, SetupsAssumption DEF Receive, Move, IInv, TypeOK
  <2>2. PICK label \in {"called", "unauthorized"} :
          /\ pc' = [pc EXCEPT ![c] = label]
          /\ label = "called" => Admits(r.header)
    BY <1>1 DEF Receive, Move
  <2>3. TypeOK'
    BY <2>1, <2>2 DEF IInv, TypeOK, started, Idle, Ended
  <2>4. Admitted'
    BY <2>1, <2>2 DEF IInv, TypeOK, started, Admitted, Admits
  <2>5. Authenticated'
    BY <2>1, <2>2 DEF IInv, TypeOK, started, Authenticated, CredentialFor
  <2>6. \A s \in sent : s.call \in Calls /\ s.call # c
    BY <2>1 DEF IInv, TypeOK, SentCallsBegan
  <2>7. SentCallsBegan' /\ ActsAsCaller'
    BY <2>1, <2>2, <2>6 DEF IInv, TypeOK, started, SentCallsBegan, ActsAsCaller
  <2>8. QED
    BY <2>3, <2>4, <2>5, <2>7 DEF IInv
<1>2. ASSUME NEW c \in Calls, pc[c] # "idle",
             NEW label \in Ended, Answer(c, label) PROVE IInv'
  BY <1>2, LocalStep DEF Answer, Ended
<1>3. ASSUME NEW c \in Calls, pc[c] = "called", NEW d, Begin(c, d) PROVE IInv'
  BY <1>3, LocalStep DEF Begin
<1>4. ASSUME NEW c \in Calls, NoSuchTool(c) \/ CallTool(c) \/ Discover(c) \/ CallOperation(c) PROVE IInv'
  BY <1>4, <1>2, <1>3 DEF NoSuchTool, CallTool, Discover, CallOperation, Ended
<1>5. ASSUME NEW c \in Calls, Authenticate(c) PROVE IInv'
  <2>1. CASE CredentialFor(c) = Missing
    BY <1>5, <2>1, <1>2 DEF Authenticate, Move, Answer, Ended
  <2>2. CASE CredentialFor(c) # Missing
    BY <1>5, <2>2, LocalStep DEF Authenticate, Move
  <2>3. QED
    BY <2>1, <2>2
<1>6. ASSUME NEW c \in Calls, Send(c) PROVE IInv'
  <2>1. CASE c \in cancelled
    BY <1>6, <2>1, <1>2 DEF Send, Ended
  <2>2. CASE c \notin cancelled
    <3> DEFINE s == [call |-> c, run |-> run[c], credential |-> CredentialFor(c)]
    <3>1. /\ pc[c] = "send" /\ pc' = [pc EXCEPT ![c] = "upstream"]
          /\ sent' = sent \union {s}
          /\ UNCHANGED <<started, server, req, run, cancelled>>
      BY <1>6, <2>2 DEF Send, Move
    <3>2. CredentialFor(c) = IF mode = "forward" THEN req[c].header ELSE Own
      BY <3>1 DEF IInv, TypeOK, Admitted, Authenticated, CredentialFor
    <3>3. CredentialFor(c) \in Headers \union {Own}
      BY <3>1, <3>2 DEF IInv, TypeOK, Request, Admitted
    <3>4. TypeOK'
      BY <3>1, <3>3 DEF IInv, TypeOK, started
    <3>5. Admitted' /\ Authenticated' /\ SentCallsBegan'
      BY <3>1 DEF IInv, TypeOK, started, Admitted, Authenticated, CredentialFor, SentCallsBegan
    <3>6. ActsAsCaller'
      BY <3>1, <3>2 DEF IInv, TypeOK, started, ActsAsCaller
    <3>7. QED
      BY <3>4, <3>5, <3>6 DEF IInv
  <2>3. QED
    BY <2>1, <2>2
<1>7. ASSUME NEW c \in Calls, Respond(c) \/ Abort(c) PROVE IInv'
  BY <1>7, <1>2 DEF Respond, Abort, Ended
<1>8. ASSUME NEW c \in Calls, Cancel(c) PROVE IInv'
  BY <1>8 DEF Cancel, IInv, TypeOK, started, Admitted, Authenticated, CredentialFor,
              SentCallsBegan, ActsAsCaller
<1>9. CASE Signal \/ Drained \/ DrainTimeout
  BY <1>9 DEF Signal, Drained, DrainTimeout, Shut, IInv, TypeOK, started, Admitted, Authenticated,
              CredentialFor, SentCallsBegan, ActsAsCaller
<1>10. CASE UNCHANGED vars
  BY <1>10 DEF vars, IInv, TypeOK, started, Admitted, Authenticated, CredentialFor,
               SentCallsBegan, ActsAsCaller
<1>11. QED
  BY <1>1, <1>4, <1>5, <1>6, <1>7, <1>8, <1>9, <1>10 DEF Next, CallStep

LEMMA Invariant == Spec => []IInv
BY InitInvariant, NextInvariant, PTL DEF Spec

(***************************************************************************)
(* The server, its calls and what it sent stay well formed; in particular  *)
(* nothing is sent without a credential.                                   *)
(***************************************************************************)
THEOREM ServerTypeCorrect == Spec => []TypeOK
<1>1. IInv => TypeOK
  BY DEF IInv
<1>2. QED
  BY <1>1, Invariant, PTL

(***************************************************************************)
(* Whatever calls run at once, --http-auth forward calls the API as each   *)
(* call's own caller, and every other mode as this process.                *)
(***************************************************************************)
THEOREM AlwaysActsAsCaller == Spec => []ActsAsCaller
<1>1. IInv => ActsAsCaller
  BY DEF IInv
<1>2. QED
  BY <1>1, Invariant, PTL

(***************************************************************************)
(* A cancelled call starts no request to the API.                          *)
(***************************************************************************)
THEOREM NeverSentAfterCancel == Spec => NothingSentAfterCancel
<1>1. IInv /\ [Next]_vars => [\A c \in cancelled : pc[c] # "upstream" => pc'[c] # "upstream"]_vars
  <2> SUFFICES ASSUME IInv, Next, NEW c \in cancelled, pc[c] # "upstream"
               PROVE  pc'[c] # "upstream"
    BY DEF vars
  <2> USE DEF IInv, TypeOK, Answer, Begin, Move, Shut
  <2>1. ASSUME NEW b \in setup.calls, NEW r \in setup.requests, Receive(b, r) PROVE pc'[c] # "upstream"
    BY <2>1, SetupsAssumption DEF Receive
  <2>2. ASSUME NEW b \in Calls, CallStep(b) PROVE pc'[c] # "upstream"
    BY <2>2 DEF CallStep, NoSuchTool, CallTool, Discover, CallOperation, Authenticate, Send, Abort
  <2>3. ASSUME NEW b \in Calls, Respond(b) \/ Cancel(b) PROVE pc'[c] # "upstream"
    BY <2>3 DEF Respond, Cancel
  <2>4. CASE Signal \/ Drained \/ DrainTimeout
    BY <2>4 DEF Signal, Drained, DrainTimeout
  <2>5. QED
    BY <2>1, <2>2, <2>3, <2>4 DEF Next
<1>2. QED
  BY <1>1, Invariant, PTL DEF Spec, NothingSentAfterCancel

-----------------------------------------------------------------------------
(* What prepareTools offers.                                               *)

\* Induction over the naturals, for a set of them.
LEMMA SetInduction ==
  ASSUME NEW T, 0 \in T, \A n \in Nat : n \in T => n + 1 \in T
  PROVE  Nat \subseteq T
<1>1. SUFFICES ASSUME NEW z \in Nat, z \notin T PROVE FALSE
  OBVIOUS
<1> DEFINE Segment(n) == 1 .. n
           Left == {Segment(n) : n \in {m \in Nat : m \notin T}}
<1>2. Left \subseteq FiniteSubsetsOf(Nat) /\ Left # {}
  <2>1. \A n \in Nat : Segment(n) \in FiniteSubsetsOf(Nat)
    BY FS_Interval DEF FiniteSubsetsOf
  <2>2. QED
    BY <1>1, <2>1
<1>3. PICK least \in Left : \A other \in Left : <<other, least>> \notin StrictSubsetOrdering(Nat)
  BY <1>2, FS_StrictSubsetOrderingWellFounded, WFMin
<1>4. PICK n \in Nat : n \notin T /\ least = Segment(n)
  OBVIOUS
<1>5. n - 1 \in Nat /\ n - 1 \notin T
  BY <1>4
<1>6. <<Segment(n - 1), Segment(n)>> \in StrictSubsetOrdering(Nat)
  BY <1>5 DEF StrictSubsetOrdering
<1>7. QED
  BY <1>3, <1>4, <1>5, <1>6

\* A name is that of one tool.
WellNamed(defs) == \A d, e \in defs : d.name = e.name => d = e

\* Where a tool comes from, whatever patches made of it.
Stems(d, o) ==
  \/ d.op \in CustomOps
  \/ \E g \in Generated :
       /\ d.op = g.op /\ g.name \notin o.remove
       /\ o.keep # {} /\ ~MadeAnew(o) => d.hidden = (g.name \notin o.keep)

\* Tools before they are wrapped.
Sound(defs, o) ==
  /\ defs \subseteq Tool(Operations) /\ WellNamed(defs)
  /\ \A d \in defs : Stems(d, o) /\ d.wraps = 0

\* KeepTools and RemoveTools see the generated names.
LEMMA KeepIsSound ==
  ASSUME NEW o \in Options, KeepTools(Generated, o.keep) # Failed
  PROVE  Sound(RemoveTools(KeepTools(Generated, o.keep), o.remove), o)
<1> DEFINE kept == KeepTools(Generated, o.keep)
<1>1. Generated \subseteq Tool(Operations)
  BY GeneratedAssumption DEF Tool, Operations
<1>2. ASSUME NEW d \in kept
      PROVE  /\ d \in Tool(Operations) /\ d.wraps = 0
             /\ \E g \in Generated :
                  /\ d.op = g.op /\ d.name = g.name
                  /\ o.keep # {} => d.hidden = (g.name \notin o.keep) /\ d = [g EXCEPT !.hidden = g.name \notin o.keep]
                  /\ o.keep = {} => d = g
  <2>1. CASE o.keep = {}
    BY <1>1, <1>2, <2>1, GeneratedAssumption DEF KeepTools
  <2>2. CASE o.keep # {}
    <3>1. PICK g \in Generated : d = [g EXCEPT !.hidden = g.name \notin o.keep]
      BY <1>2, <2>2 DEF KeepTools
    <3>2. g \in Tool(Operations) /\ g.wraps = 0
      BY <1>1, GeneratedAssumption
    <3>3. d \in Tool(Operations) /\ d.wraps = 0 /\ d.op = g.op /\ d.name = g.name /\ d.hidden = (g.name \notin o.keep)
      BY <3>1, <3>2 DEF Tool
    <3>4. QED
      BY <2>2, <3>1, <3>3
  <2>3. QED
    BY <2>1, <2>2
<1>3. WellNamed(kept)
  BY <1>2, GeneratedAssumption DEF WellNamed
<1> HIDE DEF kept
<1> DEFINE left == RemoveTools(kept, o.remove)
<1>4. ASSUME NEW d \in left PROVE d \in Tool(Operations) /\ Stems(d, o) /\ d.wraps = 0
  <2>1. d \in kept /\ d.name \notin o.remove
    BY DEF RemoveTools
  <2>2. QED
    BY <1>2, <2>1 DEF Stems
<1>5. WellNamed(left)
  BY <1>3 DEF WellNamed, RemoveTools
<1> HIDE DEF left
<1>6. Sound(left, o)
  BY <1>4, <1>5 DEF Sound
<1>7. QED
  BY <1>6 DEF left, kept

\* A patch keeps tools apart: it renames to no name in use.
LEMMA PatchIsSound ==
  ASSUME NEW o, NEW defs, Sound(defs, o), NEW p \in Patches, PatchTool(defs, p) # Failed,
         p.anew => MadeAnew(o)
  PROVE  Sound(PatchTool(defs, p), o)
<1> DEFINE After(d) == IF d.name = p.name THEN Patched(d, p) ELSE d
<1>1. /\ PatchTool(defs, p) = {After(d) : d \in defs}
      /\ \A d \in defs : d.name = p.rename => d.name = p.name
  BY DEF PatchTool
<1>2. ASSUME NEW d \in defs
      PROVE  /\ After(d) \in Tool(Operations) /\ Stems(After(d), o) /\ After(d).wraps = 0
             /\ After(d).name = IF d.name = p.name THEN p.rename ELSE d.name
  <2>1. d \in Tool(Operations) /\ Stems(d, o) /\ d.wraps = 0
    BY DEF Sound
  <2>2. /\ Patched(d, p) \in Tool(Operations)
        /\ Patched(d, p).op = IF p.op = SameOp THEN d.op ELSE p.op
        /\ Patched(d, p).hidden = (d.hidden /\ ~p.anew) /\ Patched(d, p).wraps = d.wraps
        /\ Patched(d, p).name = p.rename
    <3>1. (IF p.op = SameOp THEN d.op ELSE p.op) \in Operations
      BY <2>1 DEF Tool, Patches, Operations
    <3>2. QED
      BY <2>1, <3>1 DEF Tool, Patches, Patched
  <2>3. Stems(Patched(d, p), o)
    <3>1. CASE p.op # SameOp
      BY <2>2, <3>1 DEF Stems, Patches
    <3>2. CASE p.op = SameOp /\ p.anew
      BY <2>1, <2>2, <3>2 DEF Stems
    <3>3. CASE p.op = SameOp /\ ~p.anew
      <4>1. p.anew \in BOOLEAN /\ d.hidden \in BOOLEAN
        BY <2>1 DEF Patches, Tool
      <4>2. Patched(d, p).hidden = d.hidden /\ Patched(d, p).op = d.op
        BY <2>2, <3>3, <4>1
      <4>3. QED
        BY <2>1, <4>2 DEF Stems
    <3>4. QED
      BY <3>1, <3>2, <3>3
  <2>4. QED
    BY <2>1, <2>2, <2>3
<1> HIDE DEF After
<1>3. WellNamed({After(d) : d \in defs})
  <2>1. SUFFICES ASSUME NEW d \in defs, NEW e \in defs, After(d).name = After(e).name PROVE d = e
    BY DEF WellNamed
  <2>2. d.name = e.name
    BY <1>1, <1>2, <2>1
  <2>3. QED
    BY <2>2 DEF Sound, WellNamed
<1>4. QED
  BY <1>1, <1>2, <1>3 DEF Sound

\* Any sequence of patches, by induction over its length.
LEMMA PatchesAreSound ==
  ASSUME NEW o, NEW defs, Sound(defs, o), NEW patches \in Seq(Patches), PatchTools(defs, patches) # Failed,
         \A i \in 1 .. Len(patches) : patches[i].anew => MadeAnew(o)
  PROVE  Sound(PatchTools(defs, patches), o)
<1> DEFINE Last == Len(patches)
           Chain(n, f) == f = [i \in 0 .. n |-> IF i = 0 THEN defs ELSE PatchTool(f[i - 1], patches[i])]
           after == CHOOSE f : Chain(Last, f)
           Built == {n \in Nat : \E f : Chain(n, f)}
           Fine == {n \in Nat : n <= Last => after[n] = Failed \/ Sound(after[n], o)}
<1>1. PatchTools(defs, patches) = after[Last]
  BY DEF PatchTools
<1>2. Last \in Nat /\ \A i \in 1 .. Last : patches[i] \in Patches /\ (patches[i].anew => MadeAnew(o))
  OBVIOUS
<1> HIDE DEF Last
<1>3. Nat \subseteq Built
  <2>1. 0 \in Built
    <3> DEFINE f == [i \in 0 .. 0 |-> defs]
    <3>1. Chain(0, f)
      OBVIOUS
    <3> HIDE DEF Chain, f
    <3>2. QED
      BY <3>1
  <2>2. ASSUME NEW n \in Nat, n \in Built PROVE n + 1 \in Built
    <3>1. PICK f : Chain(n, f)
      BY <2>2
    <3> DEFINE g == [i \in 0 .. n + 1 |-> IF i <= n THEN f[i] ELSE PatchTool(f[n], patches[n + 1])]
    <3>2. \A i \in 0 .. n : f[i] = IF i = 0 THEN defs ELSE PatchTool(f[i - 1], patches[i])
      BY <3>1
    <3> HIDE DEF Chain
    <3>3. \A i \in 0 .. n + 1 : g[i] = IF i = 0 THEN defs ELSE PatchTool(g[i - 1], patches[i])
      <4>1. \A i \in 0 .. n + 1 : i <= n => g[i] = f[i]
        OBVIOUS
      <4>2. g[n + 1] = PatchTool(f[n], patches[n + 1])
        OBVIOUS
      <4> HIDE DEF g
      <4>3. ASSUME NEW i \in 0 .. n + 1, i <= n
            PROVE  g[i] = IF i = 0 THEN defs ELSE PatchTool(g[i - 1], patches[i])
        <5>1. i # 0 => g[i - 1] = f[i - 1]
          BY <4>1, <4>3
        <5>2. QED
          BY <3>2, <4>1, <4>3, <5>1
      <4>4. g[n] = f[n]
        BY <4>1
      <4>5. QED
        BY <4>2, <4>3, <4>4
    <3>4. g = [i \in 0 .. n + 1 |-> g[i]]
      OBVIOUS
    <3> HIDE DEF g
    <3>5. Chain(n + 1, g)
      BY <3>3, <3>4 DEF Chain
    <3>6. QED
      BY <3>5
  <2> HIDE DEF Built
  <2>3. QED
    BY <2>1, <2>2, SetInduction
<1>4. Chain(Last, after)
  <2> HIDE DEF Chain
  <2>1. \E f : Chain(Last, f)
    BY <1>2, <1>3
  <2>2. QED
    BY <2>1
<1>5. \A i \in 0 .. Last : after[i] = IF i = 0 THEN defs ELSE PatchTool(after[i - 1], patches[i])
  <2> HIDE DEF after
  <2>1. QED
    BY <1>4
<1> HIDE DEF after, Chain
<1>6. Nat \subseteq Fine
  <2>1. 0 \in Fine
    BY <1>2, <1>5
  <2>2. ASSUME NEW n \in Nat, n \in Fine, n + 1 <= Last PROVE after[n + 1] = Failed \/ Sound(after[n + 1], o)
    <3>1. /\ patches[n + 1] \in Patches /\ after[n + 1] = PatchTool(after[n], patches[n + 1])
          /\ patches[n + 1].anew => MadeAnew(o)
      BY <1>2, <1>5, <2>2
    <3>2. after[n] # Failed \/ after[n + 1] = Failed
      BY <3>1 DEF PatchTool
    <3>3. after[n] = Failed \/ Sound(after[n], o)
      BY <1>2, <2>2
    <3>4. QED
      BY <3>1, <3>2, <3>3, PatchIsSound
  <2>3. \A n \in Nat : n \in Fine => n + 1 \in Fine
    BY <2>2
  <2> HIDE DEF Fine
  <2>4. QED
    BY <2>1, <2>3, SetInduction
<1>7. QED
  BY <1>1, <1>2, <1>6

\* Tools after all options.
Customized(defs, o) ==
  /\ defs \subseteq Tool(Operations) /\ WellNamed(defs)
  /\ \A d \in defs : Stems(d, o) /\ d.wraps = o.wraps

LEMMA CustomizedTools ==
  ASSUME NEW s \in Setups, ApplyCustomizations(Generated, s.options) # Failed
  PROVE  Customized(ApplyCustomizations(Generated, s.options), s.options)
<1> DEFINE o == s.options
           kept == KeepTools(Generated, o.keep)
           patched == PatchTools(RemoveTools(kept, o.remove), o.patches)
           added == AddTools(patched, o.extra)
<1>1. /\ kept # Failed /\ patched # Failed /\ added # Failed
      /\ ApplyCustomizations(Generated, o) = WrapTools(added, o.wraps)
  BY DEF ApplyCustomizations
<1>2. /\ o \in Options /\ o.patches \in Seq(Patches) /\ o.wraps \in Nat
      /\ \A i \in 1 .. Len(o.extra) :
           o.extra[i] \in Tool(CustomOps) /\ o.extra[i].wraps = 0
  BY SetupsAssumption DEF Options
<1> HIDE DEF o
<1>3. Sound(patched, o)
  <2>1. Sound(RemoveTools(kept, o.remove), o)
    BY <1>1, <1>2, KeepIsSound
  <2>2. \A i \in 1 .. Len(o.patches) : o.patches[i].anew => MadeAnew(o)
    BY DEF MadeAnew
  <2>3. QED
    BY <1>1, <1>2, <2>1, <2>2, PatchesAreSound
<1> HIDE DEF patched
<1>4. Sound(added, o)
  <2> DEFINE extras == {o.extra[i] : i \in 1 .. Len(o.extra)}
  <2>1. /\ added = patched \union extras
        /\ \A i \in 1 .. Len(o.extra) : \A d \in patched : d.name # o.extra[i].name
        /\ \A i, j \in 1 .. Len(o.extra) : o.extra[i].name = o.extra[j].name => i = j
    BY <1>1 DEF AddTools, HasName
  <2>2. \A d \in extras : d \in Tool(CustomOps) /\ d.wraps = 0 /\ \A e \in patched : e.name # d.name
    BY <1>2, <2>1
  <2>3. \A d, e \in extras : d.name = e.name => d = e
    BY <2>1
  <2> HIDE DEF extras, added
  <2>4. \A d \in extras : d \in Tool(Operations) /\ d.op \in CustomOps
    BY <2>2 DEF Tool, Operations
  <2>5. QED
    BY <1>3, <2>1, <2>2, <2>3, <2>4 DEF Sound, WellNamed, Stems
<1> HIDE DEF added
<1>5. Customized(WrapTools(added, o.wraps), o)
  <2> DEFINE Wrapped(d) == [d EXCEPT !.wraps = @ + o.wraps]
  <2>1. WrapTools(added, o.wraps) = {Wrapped(d) : d \in added}
    BY DEF WrapTools
  <2>2. ASSUME NEW d \in added
        PROVE  /\ Wrapped(d) \in Tool(Operations) /\ Stems(Wrapped(d), o)
               /\ Wrapped(d).wraps = o.wraps /\ Wrapped(d).name = d.name
    <3>1. d \in Tool(Operations) /\ Stems(d, o) /\ d.wraps = 0
      BY <1>4 DEF Sound
    <3>2. /\ Wrapped(d) \in Tool(Operations) /\ Wrapped(d).op = d.op /\ Wrapped(d).name = d.name
          /\ Wrapped(d).hidden = d.hidden /\ Wrapped(d).wraps = o.wraps
      BY <1>2, <3>1 DEF Tool
    <3>3. QED
      BY <3>1, <3>2 DEF Stems
  <2> HIDE DEF Wrapped
  <2>3. WellNamed({Wrapped(d) : d \in added})
    BY <1>4, <2>2 DEF Sound, WellNamed
  <2>4. QED
    BY <2>1, <2>2, <2>3 DEF Customized
<1>6. QED
  BY <1>1, <1>5 DEF o

\* A tool that the options and the flags of --groups and --read-only let run.
Allowed(d, s) ==
  /\ d.op \in Operations /\ Stems(d, s.options) /\ d.wraps = s.options.wraps
  /\ s.filter.groups # {} => d.group \in s.filter.groups
  /\ s.filter.readOnly => d.readOnly

\* What a server started with s lists and has its meta-tools run.
Offered(t, s) ==
  /\ WellNamed(t.listed) /\ WellNamed(t.catalog)
  /\ \A d \in t.listed : d.schema
  /\ \A d \in t.listed : s.filter.tools # {} => d.name \in s.filter.tools
  /\ \A d \in t.listed : d \in DiscoveryTools \/ (Allowed(d, s) /\ ~d.hidden)
  /\ \A d \in t.catalog : s.options.discover /\ Allowed(d, s)

\* A meta-tool is known by its name; only call_operation is not read-only.
LEMMA MetaToolNames ==
  /\ \A d, e \in DiscoveryTools : d.name = e.name => d = e
  /\ \A d \in DiscoveryTools : d.op \in MetaNames /\ (d.op = Meta.call => ~d.readOnly)
<1> DEFINE MetaTool(n) == [op |-> n, name |-> n, group |-> NoGroup, readOnly |-> n # Meta.call,
                           hidden |-> FALSE, valid |-> TRUE, schema |-> TRUE, wraps |-> 0]
<1>1. DiscoveryTools = {MetaTool(n) : n \in MetaNames}
  BY DEF DiscoveryTools
<1>2. \A n : MetaTool(n).name = n /\ MetaTool(n).op = n
  OBVIOUS
<1>3. ~MetaTool(Meta.call).readOnly
  OBVIOUS
<1> HIDE DEF MetaTool
<1>4. QED
  BY <1>1, <1>2, <1>3

LEMMA OfferedTools ==
  ASSUME NEW s \in Setups, NEW t, t = RegisterTools(PrepareTools(s.options, s.filter)), t # Failed
  PROVE  Offered(t, s)
<1> DEFINE o == s.options
           f == s.filter
           defs == ApplyCustomizations(Generated, o)
           listed == FilterTools(ListedTools(defs), f.tools, f.groups, f.readOnly)
           meta == FilterTools(DiscoveryTools, f.tools, {}, f.readOnly)
<1>1. /\ defs # Failed
      /\ t = PrepareTools(o, f)
      /\ \/ ~o.discover /\ t = [listed |-> listed, catalog |-> {}]
         \/ /\ o.discover /\ t = [listed |-> listed \union meta, catalog |-> Catalog(defs, f)]
            /\ \A m \in meta : \A d \in listed : d.name # m.name
  BY DEF RegisterTools, PrepareTools, HasName
<1>resolve. \A d \in t.listed : d.schema
  BY DEF RegisterTools
<1>2. Customized(defs, o)
  BY <1>1, CustomizedTools
<1> HIDE DEF defs
<1>3. \A d \in listed : Allowed(d, s) /\ ~d.hidden /\ (f.tools # {} => d.name \in f.tools) /\ d \in defs
  BY <1>2 DEF FilterTools, ListedTools, Allowed, Customized, Tool
<1>4. \A d \in meta : d \in DiscoveryTools /\ (f.tools # {} => d.name \in f.tools)
  BY DEF FilterTools
<1>5. \A d \in Catalog(defs, f) : Allowed(d, s) /\ d \in defs
  BY <1>2 DEF FilterTools, Catalog, Allowed, Customized, Tool
<1>6. WellNamed(DiscoveryTools)
  BY MetaToolNames DEF WellNamed
<1> HIDE DEF listed, meta
<1>7. WellNamed(listed) /\ WellNamed(meta) /\ WellNamed(Catalog(defs, f))
  BY <1>2, <1>3, <1>4, <1>5, <1>6 DEF Customized, WellNamed
<1>8. CASE ~o.discover
  <2>1. t.listed = listed /\ t.catalog = {}
    BY <1>1, <1>8
  <2>2. QED
    BY <1>resolve, <2>1, <1>3, <1>7 DEF Offered, WellNamed
<1>9. CASE o.discover
  <2>1. /\ t.listed = listed \union meta /\ t.catalog = Catalog(defs, f)
        /\ \A m \in meta : \A d \in listed : d.name # m.name
    BY <1>1, <1>9
  <2>2. WellNamed(listed \union meta)
    BY <1>7, <2>1 DEF WellNamed
  <2>3. QED
    BY <1>resolve, <1>3, <1>4, <1>5, <1>7, <1>9, <2>1, <2>2 DEF Offered
<1>10. QED
  BY <1>8, <1>9

\* What a call asked for may run d: it called d, or a meta-tool that runs it.
MayCall(t, r, d) ==
  /\ r.argsOK
  /\ \E m \in t.listed :
       /\ m.name = r.tool
       /\ \/ m.op \notin MetaNames /\ d = m
          \/ m.op \in {Meta.callRead, Meta.call} /\ d \in t.catalog /\ d.schema /\ MayRun(m, d)

LEMMA WhatMayBeCalled ==
  ASSUME NEW s \in Setups, NEW t, Offered(t, s), NEW r, NEW d, MayCall(t, r, d)
  PROVE  /\ Allowed(d, s) /\ (~s.options.discover => ~d.hidden)
         /\ s.filter.tools # {} => r.tool \in s.filter.tools
         /\ \A m \in t.listed : m.name = r.tool /\ m.readOnly => d.readOnly
         /\ d.schema
<1>1. PICK m \in t.listed :
        /\ m.name = r.tool
        /\ \/ m.op \notin MetaNames /\ d = m
           \/ m.op \in {Meta.callRead, Meta.call} /\ d \in t.catalog /\ d.schema /\ MayRun(m, d)
  BY DEF MayCall
<1>2. \A n \in t.listed : n.name = r.tool => n = m
  BY <1>1 DEF Offered, WellNamed
<1>3. s.filter.tools # {} => r.tool \in s.filter.tools
  BY <1>1 DEF Offered
<1>4. CASE m.op \notin MetaNames /\ d = m
  <2>1. m \notin DiscoveryTools
    BY <1>4, MetaToolNames
  <2>2. QED
    BY <1>2, <1>3, <1>4, <2>1 DEF Offered
<1>5. CASE m.op \in {Meta.callRead, Meta.call} /\ d \in t.catalog /\ d.schema /\ MayRun(m, d)
  <2>1. m \in DiscoveryTools
    BY <1>5, OperationsAssumption DEF Offered, Allowed, MetaNames
  <2>2. m.readOnly => d.readOnly
    BY <1>5, <2>1, MetaToolNames DEF MayRun
  <2>3. QED
    BY <1>2, <1>3, <1>5, <2>2 DEF Offered
<1>6. QED
  BY <1>1, <1>4, <1>5

-----------------------------------------------------------------------------
(* Which of them calls run.                                                *)

\* The tools stay what they were at the start.
Prepared ==
  /\ tools = RegisterTools(PrepareTools(setup.options, setup.filter))
  /\ tools = Failed => server = "stopped"

ToolInv ==
  /\ Prepared
  /\ DOMAIN run = Calls
  /\ \A c \in Calls :
       pc[c] \in {"auth", "send", "upstream"} => tools # Failed /\ MayCall(tools, req[c], run[c])
  /\ \A s \in sent : tools # Failed /\ MayCall(tools, req[s.call], s.run)

LEMMA InitTools == Init => ToolInv
BY DEF Init, ToolInv, Prepared

\* A step that begins and sends nothing.
LEMMA SameTools ==
  ASSUME IInv, ToolInv, UNCHANGED <<started, req, run, sent>>,
         server = "stopped" => server' = "stopped",
         \A c \in Calls : pc'[c] \in {"auth", "send", "upstream"} => pc[c] \in {"auth", "send", "upstream"}
  PROVE  ToolInv'
BY DEF ToolInv, Prepared, started

LEMMA BeginIsChosen ==
  ASSUME IInv, ToolInv, NEW c \in Calls, NEW d, Up, Begin(c, d), MayCall(tools, req[c], d)
  PROVE  ToolInv'
<1>1. /\ pc' = [pc EXCEPT ![c] = "auth"] /\ run' = [run EXCEPT ![c] = d]
      /\ UNCHANGED <<started, server, req, sent>>
  BY DEF Begin
<1>2. tools # Failed
  BY DEF Up, ToolInv, Prepared
<1>3. DOMAIN run = Calls /\ DOMAIN pc = Calls
  BY DEF ToolInv, IInv, TypeOK
<1>4. /\ DOMAIN run' = Calls
      /\ \A b \in Calls : run'[b] = IF b = c THEN d ELSE run[b]
      /\ \A b \in Calls : b # c => pc'[b] = pc[b]
  BY <1>1, <1>3
<1>5. Prepared'
  BY <1>1 DEF ToolInv, Prepared, started
<1>6. QED
  BY <1>1, <1>2, <1>4, <1>5 DEF ToolInv, started

LEMMA NextTools == IInv /\ ToolInv /\ [Next]_vars => ToolInv'
<1> SUFFICES ASSUME IInv, ToolInv, [Next]_vars PROVE ToolInv'
  OBVIOUS
<1>1. pc \in [Calls -> {"called", "auth", "send", "upstream"} \union Idle]
  BY DEF IInv, TypeOK
<1>2. ASSUME NEW c \in Calls, NEW label, Answer(c, label),
             label \in {"auth", "send", "upstream"} => pc[c] \in {"auth", "send", "upstream"}
      PROVE  ToolInv'
  BY <1>1, <1>2, SameTools DEF Answer
<1>3. ASSUME NEW c \in setup.calls, NEW r \in setup.requests, Receive(c, r) PROVE ToolInv'
  <2>1. /\ c \in Calls /\ pc[c] = "idle" /\ req \in [Calls -> Request]
        /\ req' = [req EXCEPT ![c] = r]
        /\ UNCHANGED <<started, server, run, cancelled, sent>>
        /\ pc' = [pc EXCEPT ![c] = "called"] \/ pc' = [pc EXCEPT ![c] = "unauthorized"]
    BY <1>3, SetupsAssumption DEF Receive, Move, IInv, TypeOK
  <2>2. \A s \in sent : s.call \in Calls /\ s.call # c
    BY <2>1 DEF IInv, TypeOK, SentCallsBegan
  <2>3. /\ \A b \in Calls : b # c => req'[b] = req[b] /\ pc'[b] = pc[b]
        /\ pc'[c] \notin {"auth", "send", "upstream"}
    BY <1>1, <2>1
  <2>4. QED
    BY <2>1, <2>2, <2>3 DEF ToolInv, Prepared, started
<1>4. ASSUME NEW c \in Calls, CallTool(c) PROVE ToolInv'
  <2>1. PICK d \in Called(c) :
          d.op \notin MetaNames /\ IF req[c].argsOK THEN Begin(c, d) ELSE Answer(c, "error")
    BY <1>4 DEF CallTool
  <2>2. CASE req[c].argsOK
    <3>1. MayCall(tools, req[c], d)
      BY <2>1, <2>2 DEF MayCall, Called
    <3>2. QED
      BY <1>4, <2>1, <2>2, <3>1, BeginIsChosen DEF CallTool
  <2>3. QED
    BY <1>2, <2>1, <2>2
<1>5. ASSUME NEW c \in Calls, CallOperation(c) PROVE ToolInv'
  <2>1. CASE Answer(c, "error")
    BY <1>2, <2>1
  <2>2. CASE \E m \in Called(c) : \E d \in Looked(c) :
               /\ m.op \in {Meta.callRead, Meta.call}
               /\ MayRun(m, d) /\ MatchesSchema(c, d) /\ Begin(c, d)
    <3>1. PICK m \in Called(c), d \in Looked(c) :
               /\ m.op \in {Meta.callRead, Meta.call}
               /\ MayRun(m, d) /\ MatchesSchema(c, d) /\ Begin(c, d)
      BY <2>2
    <3>2. MayCall(tools, req[c], d)
      BY <3>1 DEF MayCall, Called, Looked, MatchesSchema
    <3>3. QED
      BY <1>5, <3>1, <3>2, BeginIsChosen DEF CallOperation
  <2>3. QED
    BY <1>5, <2>1, <2>2 DEF CallOperation
<1>6. ASSUME NEW c \in Calls, NoSuchTool(c) \/ Discover(c) \/ Respond(c) \/ Abort(c) PROVE ToolInv'
  BY <1>2, <1>6 DEF NoSuchTool, Discover, Respond, Abort
<1>7. ASSUME NEW c \in Calls, Authenticate(c) PROVE ToolInv'
  BY <1>1, <1>7, SameTools DEF Authenticate, Move
<1>8. ASSUME NEW c \in Calls, Send(c) PROVE ToolInv'
  <2>1. CASE c \in cancelled
    BY <1>2, <1>8, <2>1 DEF Send
  <2>2. CASE c \notin cancelled
    <3> DEFINE s == [call |-> c, run |-> run[c], credential |-> CredentialFor(c)]
    <3>1. /\ pc[c] = "send" /\ pc' = [pc EXCEPT ![c] = "upstream"]
          /\ sent' = sent \union {s}
          /\ UNCHANGED <<started, server, req, run, cancelled>>
      BY <1>8, <2>2 DEF Send, Move
    <3>2. tools # Failed /\ MayCall(tools, req[s.call], s.run)
      BY <3>1 DEF ToolInv
    <3>3. \A b \in Calls : pc'[b] = pc[b] \/ b = c
      BY <1>1, <3>1
    <3> HIDE DEF s
    <3>4. QED
      BY <3>1, <3>2, <3>3 DEF ToolInv, Prepared, started
  <2>3. QED
    BY <2>1, <2>2
<1>9. ASSUME NEW c \in Calls, Cancel(c) PROVE ToolInv'
  BY <1>9, SameTools DEF Cancel
<1>10. CASE Signal \/ Drained \/ DrainTimeout
  BY <1>10, SameTools DEF Signal, Drained, DrainTimeout, Shut
<1>11. CASE UNCHANGED vars
  BY <1>11, SameTools DEF vars, started
<1>12. QED
  BY <1>3, <1>4, <1>5, <1>6, <1>7, <1>8, <1>9, <1>10, <1>11 DEF Next, CallStep

LEMMA ToolsInvariant == Spec => [](IInv /\ ToolInv)
BY InitInvariant, NextInvariant, InitTools, NextTools, PTL DEF Spec

LEMMA SentIsAllowed ==
  ASSUME IInv, ToolInv, NEW s \in sent
  PROVE  /\ setup \in Setups /\ s.call \in Calls /\ req[s.call].argsOK
         /\ Allowed(s.run, setup) /\ (~setup.options.discover => ~s.run.hidden)
         /\ setup.filter.tools # {} => req[s.call].tool \in setup.filter.tools
         /\ \A m \in tools.listed : m.name = req[s.call].tool /\ m.readOnly => s.run.readOnly
         /\ s.run.schema
<1>1. setup \in Setups /\ s.call \in Calls
  BY DEF IInv, TypeOK
<1>2. tools # Failed /\ MayCall(tools, req[s.call], s.run)
  BY DEF ToolInv
<1>3. Offered(tools, setup)
  BY <1>1, <1>2, OfferedTools DEF ToolInv, Prepared
<1>4. req[s.call].argsOK
  BY <1>2 DEF MayCall
<1>5. QED
  BY <1>1, <1>2, <1>3, <1>4, WhatMayBeCalled

(***************************************************************************)
(* No mix of options, patches and flags lets a call reach an operation they*)
(* exclude.                                                                *)
(***************************************************************************)
THEOREM AlwaysOnlySelected == Spec => []OnlySelectedRun
<1>1. IInv /\ ToolInv => OnlySelectedRun
  <2> SUFFICES ASSUME IInv, ToolInv, NEW s \in sent
               PROVE  LET d == s.run
                          o == setup.options
                          f == setup.filter
                          original == {g.name : g \in {h \in Generated : h.op = d.op}}
                      IN  /\ original \intersect o.remove = {}
                          /\ o.keep # {} /\ original # {} /\ ~o.discover /\ ~MadeAnew(o) => original \subseteq o.keep
                          /\ f.tools # {} => req[s.call].tool \in f.tools
                          /\ f.groups # {} => d.group \in f.groups
                          /\ f.readOnly => d.readOnly
    BY DEF OnlySelectedRun
  <2> DEFINE original == {g.name : g \in {h \in Generated : h.op = s.run.op}}
  <2>1. /\ Allowed(s.run, setup) /\ (~setup.options.discover => ~s.run.hidden)
        /\ setup.filter.tools # {} => req[s.call].tool \in setup.filter.tools
    BY SentIsAllowed
  <2>2. CASE s.run.op \in CustomOps
    <3>1. original = {}
      BY <2>2, OperationsAssumption
    <3>2. QED
      BY <2>1, <3>1 DEF Allowed
  <2>3. ASSUME NEW g \in Generated, s.run.op = g.op, g.name \notin setup.options.remove,
               setup.options.keep # {} /\ ~MadeAnew(setup.options) =>
                 s.run.hidden = (g.name \notin setup.options.keep)
        PROVE  /\ original \intersect setup.options.remove = {}
               /\ setup.options.keep # {} /\ ~setup.options.discover /\ ~MadeAnew(setup.options) =>
                    original \subseteq setup.options.keep
    <3>1. original = {g.name}
      BY <2>3, GeneratedAssumption
    <3>2. QED
      BY <2>1, <2>3, <3>1
  <2>4. QED
    BY <2>1, <2>2, <2>3 DEF Allowed, Stems
<1>2. QED
  BY <1>1, ToolsInvariant, PTL

(***************************************************************************)
(* A read-only tool never causes a write, whatever tools, patches and      *)
(* wrappers a server has.                                                  *)
(***************************************************************************)
THEOREM AlwaysOnlyRead == Spec => []ReadOnlyToolsOnlyRead
<1>1. IInv /\ ToolInv => ReadOnlyToolsOnlyRead
  BY SentIsAllowed DEF ReadOnlyToolsOnlyRead
<1>2. QED
  BY <1>1, ToolsInvariant, PTL

(***************************************************************************)
(* Every operation runs behind each wrapper once, with arguments that match*)
(* its schema, for any number of wrappers.                                 *)
(***************************************************************************)
THEOREM AlwaysWrappedOnce == Spec => []WrappedOnceAndValid
<1>1. IInv /\ ToolInv => WrappedOnceAndValid
  BY SentIsAllowed DEF WrappedOnceAndValid, Allowed
<1>2. QED
  BY <1>1, ToolsInvariant, PTL

(***************************************************************************)
(* Tools keep apart: after any sequence of patches, additions and filters, *)
(* a name is that of one tool.                                             *)
(***************************************************************************)
THEOREM AlwaysUniqueNames == Spec => []NamesAreUnique
<1>1. IInv /\ ToolInv => NamesAreUnique
  <2> SUFFICES ASSUME IInv, ToolInv, tools # Failed
               PROVE  \A S \in {tools.listed, tools.catalog} :
                        \A d, e \in S : d.name = e.name => d = e
    BY DEF NamesAreUnique
  <2>1. Offered(tools, setup)
    BY OfferedTools DEF IInv, TypeOK, ToolInv, Prepared
  <2>2. QED
    BY <2>1 DEF Offered, WellNamed
<1>2. QED
  BY <1>1, ToolsInvariant, PTL
=============================================================================
