---------------------------- MODULE ServerChoice ----------------------------
(***************************************************************************)
(* What `server set`, `server use` and `server clear` promise, however     *)
(* invocations overlap: there is one choice, a custom URL or none and the  *)
(* index of one of the document's servers.                                 *)
(*   - Only the command asked to decide changes it, and exactly as asked;  *)
(*     any other keeps it, or puts back one that was in force while it ran.*)
(*   - A request that neither its command line, its environment nor its    *)
(*     profile redirects goes to a choice that was in force while it ran.  *)
(*   - An invocation that failed to read the choice (blind) takes it for   *)
(*     one never made: its request goes to the document's first server, and*)
(*     what it writes is that, or what it was asked to make of it.         *)
(* CliSettings implements it with keys of config.json that every process   *)
(* copies, one of them an older version's.                                 *)
(***************************************************************************)
EXTENDS Settings

CONSTANTS
  Invocations,
  Initially,     \* the choices it may begin with
  Redirected     \* the last request was redirected, or there was none

VARIABLES
  choice,    \* the choice in force: a custom URL, Blank for none, and an index
  asked,     \* the command of each invocation: its op and arg
  blind,     \* whether each invocation failed to read it
  seen,      \* the choices in force while each invocation ran
  reached    \* the server the last request went to

choiceVars == <<choice, asked, blind, seen, reached>>

\* No choice was ever made.
Unmade == [custom |-> Blank, index |-> 0]

\* What p may hold the choice to be.
Believed(p) == seen[p] \union (IF blind[p] THEN {Unmade} ELSE {})

\* What p alone may change of what it was asked and whether it could read.
OnlyOf(p) ==
  \A q \in Invocations \ {p} : asked'[q] = asked[q] /\ blind'[q] = blind[q]

\* The server a choice means.
Means(c) == NormalizeResolved(IF c.custom # Blank THEN c.custom ELSE ServerAt(c.index))

\* What a command makes of the choice it read.
Decided(old, command) ==
  CASE command.op = "set" -> [old EXCEPT !.custom = NormalizeServerURL(command.arg)]
    [] command.op = "use" -> [custom |-> Blank, index |-> ResolveServerSelection(command.arg)]
    [] command.op = "clear" -> [old EXCEPT !.custom = Blank]
    [] OTHER -> old

ChoiceInit ==
  /\ choice \in Initially
  /\ seen = [p \in Invocations |-> {}]
  /\ blind = [p \in Invocations |-> FALSE]
  /\ reached = Redirected

Start(p) ==
  /\ seen[p] = {}
  /\ seen' = [seen EXCEPT ![p] = {choice}]
  /\ OnlyOf(p)
  /\ UNCHANGED <<choice, reached>>

\* Reads it once more, or fails to.
Look(p) ==
  /\ blind' \in {[blind EXCEPT ![p] = b] : b \in BOOLEAN}
  /\ UNCHANGED <<choice, asked, seen, reached>>

Write(p) ==
  /\ \E old \in Believed(p) : choice' \in {old, Decided(old, asked[p])}
  /\ seen' = [q \in Invocations |-> IF seen[q] = {} THEN {} ELSE seen[q] \union {choice'}]
  /\ UNCHANGED <<asked, blind, reached>>

Request(p) ==
  /\ reached' \in {Redirected} \union {Means(c) : c \in Believed(p)}
  /\ UNCHANGED <<choice, asked, blind, seen>>

Stop(p) ==
  /\ seen' = [seen EXCEPT ![p] = {}]
  /\ OnlyOf(p)
  /\ reached' \in {reached, Redirected}
  /\ UNCHANGED choice

ChoiceNext == \E p \in Invocations : Start(p) \/ Look(p) \/ Write(p) \/ Request(p) \/ Stop(p)

ChoiceSpec == ChoiceInit /\ [][ChoiceNext]_choiceVars
=============================================================================
