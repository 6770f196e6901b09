----------------------------- MODULE CommandRun -----------------------------
(***************************************************************************)
(* One run of a generated command, from its flags to its exit code: the    *)
(* generated operation, the raw `request` command, and the `wait` command  *)
(* with its polling. Around the process are whoever holds the other end of *)
(* standard input, the operator who is asked to confirm, the API, and the  *)
(* resource the API works on, which goes on changing by itself.            *)
(***************************************************************************)
EXTENDS Integers, Sequences, RequestBody

CONSTANTS
  Commands,   \* the command lines
  Waiters,    \* the waiters, numbered in the order their flags are handled
  Matchers,   \* for each waiter, the sequence of its matchers
  Attempts,   \* how often a waiter polls
  Nothing     \* no request was sent

Statuses == {"pending", "ready", "failed"}

\* The status a matcher expects, and what reaching it means.
Matcher == [when : Statuses, state : {"success", "failure"}]

Command ==
  [kind : {"operation", "request", "wait"},
   delete : BOOLEAN, force : BOOLEAN,
   stdin : {"terminal", "regular", "pipe"}, mayPrompt : BOOLEAN,
   server : {"ok", "none", "bad"}, headerOk : BOOLEAN, paramsOk : BOOLEAN,
   hasBody : BOOLEAN, example : BOOLEAN, media : {"json", "yaml", "other"},
   file : FileInput, stdinFlag : BOOLEAN, input : StdinInput,
   args : ArgsInput, flags : FlagsInput,
   waits : SUBSET Waiters]

\* A `request` has no body flags; `wait` runs one waiter on a GET; without a
\* body there is nothing to build it from.
WellFormed(c) ==
  /\ ~c.hasBody => c.args.kind = "none" /\ c.flags.kind = "none"
  /\ c.kind = "request" =>
       c.hasBody /\ ~c.example /\ c.flags.kind = "none" /\ c.waits = {}
  /\ c.kind = "wait" =>
       ~c.hasBody /\ ~c.delete /\ \E w \in Waiters : c.waits = {w}

ASSUME CommandsAssumption == Commands \subseteq Command /\ \A c \in Commands : WellFormed(c)
ASSUME AttemptsAssumption == Attempts \in Nat
ASSUME WaitersAssumption == Waiters \subseteq Nat \ {0}
ASSUME MatchersAssumption == Matchers \in [Waiters -> Seq(Matcher)]
ASSUME NothingAssumption == Nothing \notin Body

VARIABLES
  cmd,       \* the command line
  pc,        \* where the process is
  exit,      \* the exit code, once there is one
  pipe,      \* standard input: silent, written, or written and closed
  base,      \* where the base body came from
  body,      \* the body so far
  sent,      \* the body of the request that was sent
  answer,    \* what the API answered
  applied,   \* whether the API carried the operation out
  agreed,    \* the operator's answer to the prompt
  job,       \* the status of the resource
  waiter,    \* the waiter that is polling, or 0
  attempt,   \* its attempts so far
  seen,      \* the status its last answer carried
  met        \* the waiters that returned nil

input == <<pipe, base, body>>
call == <<sent, answer, applied>>
polling == <<waiter, attempt, seen, met>>
vars == <<cmd, pc, exit, input, call, agreed, job, polling>>

Labels ==
  {"start", "load", "read", "grace", "build", "confirm", "prompt", "target", "call",
   "sent", "applied", "print", "after", "poll", "polled", "match", "sleep", "done"}

\* Exit codes: ExitOK, ExitError and ExitUsage, and a Go panic.
Codes == {"ok", "error", "usage", "panic"}

Init ==
  /\ cmd \in Commands
  /\ pc = "start"
  /\ exit = "none"
  /\ pipe = IF cmd.stdin = "regular" THEN "closed" ELSE "silent"
  /\ base = "none"
  /\ body = NoBody
  /\ sent = Nothing
  /\ answer = "none"
  /\ applied = FALSE
  /\ agreed = "unasked"
  /\ job = "pending"
  /\ waiter = 0 /\ attempt = 0 /\ seen = "none" /\ met = {}

Goto(label) == pc' = label /\ exit' = exit
ExitWith(code) == pc' = "done" /\ exit' = code

-----------------------------------------------------------------------------
(* Before the command: flags, environment and the server setting. *)

\* RunE of each kind: a `request` confirms before it reads a body, a generated
\* operation after.
FirstStep == CASE cmd.kind = "request" -> "confirm"
               [] cmd.kind = "operation" -> IF cmd.hasBody THEN "load" ELSE "confirm"
               [] cmd.kind = "wait" -> "poll"

Start ==
  /\ pc = "start"
  /\ CASE cmd.server = "bad" -> ExitWith("usage")
       [] cmd.server # "bad" /\ cmd.hasBody /\ cmd.example -> ExitWith("ok")
       [] cmd.server # "bad" /\ ~(cmd.hasBody /\ cmd.example) -> Goto(FirstStep)
  /\ IF cmd.server # "bad" /\ cmd.kind = "wait"
     THEN waiter' \in cmd.waits ELSE UNCHANGED waiter
  /\ UNCHANGED <<cmd, input, call, agreed, job, attempt, seen, met>>

-----------------------------------------------------------------------------
(* The body. *)

Elsewhere == BodySuppliedElsewhere(cmd.file, cmd.args, cmd.flags)

LoadFile ==
  /\ pc = "load" /\ cmd.file.kind # "none"
  /\ IF cmd.file.kind = "missing"
     THEN ExitWith("usage") /\ UNCHANGED <<base, body>>
     ELSE /\ Goto("build")
          /\ base' = "file"
          /\ body' = Text("file", cmd.file)
  /\ UNCHANGED <<cmd, pipe, call, agreed, job, polling>>

\* --stdin insists on piped input; otherwise a terminal is left alone, a
\* regular file is read to its end, and a pipe is waited for without a limit
\* only if nothing else supplies the body.
LoadStdin ==
  /\ pc = "load" /\ cmd.file.kind = "none"
  /\ CASE cmd.stdin = "terminal" -> IF cmd.stdinFlag THEN ExitWith("usage") ELSE Goto("build")
       [] cmd.stdin = "regular" -> Goto("read")
       [] cmd.stdin = "pipe" -> Goto(IF Elsewhere /\ ~cmd.stdinFlag THEN "grace" ELSE "read")
  /\ UNCHANGED <<cmd, input, call, agreed, job, polling>>

\* ReadAll returns at the end of input. It may also fail.
ReadStdin ==
  /\ pc \in {"read", "grace"} /\ pipe = "closed"
  /\ Goto("build")
  /\ base' = "stdin"
  /\ body' = Text("stdin", cmd.input)
  /\ UNCHANGED <<cmd, pipe, call, agreed, job, polling>>

ReadFails ==
  /\ pc \in {"read", "grace"}
  /\ ExitWith("usage")
  /\ UNCHANGED <<cmd, input, call, agreed, job, polling>>

\* The timer of stdinPipeGrace; the goroutine that reads is abandoned. When
\* the read has just ended too, select takes either.
GraceExpires ==
  /\ pc = "grace"
  /\ Goto("build")
  /\ UNCHANGED <<cmd, input, call, agreed, job, polling>>

\* The other end of a pipe writes and closes, or leaves it open for ever.
WriterWrites ==
  /\ cmd.stdin = "pipe" /\ cmd.input.kind # "empty" /\ pipe = "silent"
  /\ pipe' = "written"
  /\ UNCHANGED <<cmd, pc, exit, base, body, call, agreed, job, polling>>

WriterCloses ==
  /\ cmd.stdin = "pipe"
  /\ pipe = IF cmd.input.kind = "empty" THEN "silent" ELSE "written"
  /\ pipe' = "closed"
  /\ UNCHANGED <<cmd, pc, exit, base, body, call, agreed, job, polling>>

Build ==
  LET built == BuildBody(cmd.media, body, cmd.args, cmd.flags)
  IN  /\ pc = "build"
      /\ body' = built.body
      /\ IF built.outcome = "ok"
         THEN Goto(IF cmd.kind = "request" THEN "call" ELSE "confirm")
         ELSE ExitWith(built.outcome)
      /\ UNCHANGED <<cmd, pipe, base, call, agreed, job, polling>>

-----------------------------------------------------------------------------
(* ConfirmDestructive. *)

AfterConsent == IF cmd.kind = "request" THEN "target" ELSE "call"

\* Seeded fault: a terminal is taken for consent.
ProceedsOnTerminal == ~cmd.delete \/ cmd.force \/ cmd.stdin = "terminal"

MayProceed == ~cmd.delete \/ cmd.force

ConfirmDestructive ==
  /\ pc = "confirm"
  /\ CASE MayProceed -> Goto(AfterConsent)
       [] ~MayProceed /\ cmd.stdin = "terminal" /\ cmd.mayPrompt -> Goto("prompt")
       [] ~MayProceed /\ ~(cmd.stdin = "terminal" /\ cmd.mayPrompt) -> ExitWith("usage")
  /\ UNCHANGED <<cmd, input, call, agreed, job, polling>>

\* Declining is not an error: ErrDestructiveRefused exits with ExitOK.
OperatorAnswers ==
  /\ pc = "prompt"
  /\ \/ agreed' = "yes" /\ Goto(AfterConsent)
     \/ agreed' = "no" /\ ExitWith("ok")
     \/ agreed' = "unread" /\ ExitWith("error")
  /\ UNCHANGED <<cmd, input, call, job, polling>>

-----------------------------------------------------------------------------
(* The request. *)

\* The raw command needs a server and well-formed headers before it reads.
Target ==
  /\ pc = "target"
  /\ IF cmd.server = "ok" /\ cmd.headerOk THEN Goto("load") ELSE ExitWith("error")
  /\ UNCHANGED <<cmd, input, call, agreed, job, polling>>

\* Seeded fault: the parameters are checked once the request was made.
SendThenCheck ==
  /\ pc = "call"
  /\ sent' = body
  /\ IF cmd.paramsOk \/ cmd.kind = "request" THEN Goto("sent") ELSE ExitWith("usage")
  /\ UNCHANGED <<cmd, input, answer, applied, agreed, job, polling>>

\* Path parameters that are empty, and values outside an enum or a format, are
\* refused before anything is sent.
Send ==
  /\ pc = "call"
  /\ IF cmd.paramsOk \/ cmd.kind = "request"
     THEN Goto("sent") /\ sent' = body
     ELSE ExitWith("usage") /\ UNCHANGED sent
  /\ UNCHANGED <<cmd, input, answer, applied, agreed, job, polling>>

\* The API carries the operation out, or refuses it with a status >= 400.
Apply ==
  /\ pc = "sent" /\ cmd.server = "ok"
  /\ applied' = TRUE
  /\ Goto("applied")
  /\ UNCHANGED <<cmd, input, sent, answer, agreed, job, polling>>

\* Seeded fault: a refusal is printed like any response.
PrintRejection ==
  /\ pc = "sent" /\ cmd.server = "ok"
  /\ answer' = "refused"
  /\ Goto("print")
  /\ UNCHANGED <<cmd, input, sent, applied, agreed, job, polling>>

Reject ==
  /\ pc = "sent" /\ cmd.server = "ok"
  /\ answer' = "refused"
  /\ IF cmd.kind = "request" THEN Goto("print") ELSE ExitWith("error")
  /\ UNCHANGED <<cmd, input, sent, applied, agreed, job, polling>>

\* No connection, no credential, or an answer that was lost: no retry.
RequestFails ==
  /\ pc \in {"sent", "applied"}
  /\ ExitWith("error")
  /\ UNCHANGED <<cmd, input, call, agreed, job, polling>>

\* The response decodes and passes the after handlers, or it does not; a raw
\* response is shown either way.
HandleResponse ==
  /\ pc = "applied"
  /\ answer' = "good"
  /\ \/ Goto("print")
     \/ cmd.kind = "operation" /\ ExitWith("error")
  /\ UNCHANGED <<cmd, input, sent, applied, agreed, job, polling>>

Format ==
  /\ pc = "print"
  /\ \/ Goto("after")
     \/ ExitWith("error")
  /\ UNCHANGED <<cmd, input, call, agreed, job, polling>>

-----------------------------------------------------------------------------
(* Waiters: the --wait-<name> flags one after the other, or `wait <name>`. *)

\* Selectors are evaluated against the operation's own response and may fail.
NextWaiter ==
  /\ pc = "after"
  /\ LET left == cmd.waits \ met
     IN  IF left = {}
         THEN ExitWith("ok") /\ UNCHANGED <<waiter, attempt, seen>>
         ELSE \/ /\ waiter' \in {w \in left : \A v \in left : w <= v}
                 /\ attempt' = 0 /\ seen' = "none"
                 /\ Goto("poll")
              \/ ExitWith("error") /\ UNCHANGED <<waiter, attempt, seen>>
  /\ UNCHANGED <<cmd, input, call, agreed, job, met>>

\* Seeded fault: one attempt too many.
PollOnceMore ==
  /\ pc = "poll"
  /\ IF attempt <= Attempts
     THEN attempt' = attempt + 1 /\ Goto("polled")
     ELSE ExitWith("error") /\ UNCHANGED attempt
  /\ UNCHANGED <<cmd, input, call, agreed, job, waiter, seen, met>>

\* Seeded fault: an attempt is not counted.
PollUncounted ==
  /\ pc = "poll"
  /\ IF attempt < Attempts THEN Goto("polled") ELSE ExitWith("error")
  /\ UNCHANGED <<cmd, input, call, agreed, job, polling>>

\* The loop's head. The arguments a selector found, like those of `wait`, may
\* be refused as parameters are, with a usage error.
Poll ==
  /\ pc = "poll"
  /\ IF attempt < Attempts
     THEN /\ attempt' = attempt + 1
          /\ \/ (cmd.kind = "wait" => cmd.paramsOk) /\ Goto("polled")
             \/ attempt = 0 /\ (cmd.kind = "wait" => ~cmd.paramsOk) /\ ExitWith("usage")
     ELSE ExitWith("error") /\ UNCHANGED attempt
  /\ UNCHANGED <<cmd, input, call, agreed, job, waiter, seen, met>>

PollAnswered ==
  /\ pc = "polled" /\ cmd.server = "ok"
  /\ seen' = job
  /\ Goto("match")
  /\ UNCHANGED <<cmd, input, call, agreed, job, waiter, attempt, met>>

\* Any failure ends the wait, a status >= 400 among them.
PollFails ==
  /\ pc = "polled"
  /\ ExitWith("error")
  /\ UNCHANGED <<cmd, input, call, agreed, job, polling>>

FirstMatch(w, status) ==
  {i \in DOMAIN Matchers[w] : /\ Matchers[w][i].when = status
                              /\ \A j \in 1..(i - 1) : Matchers[w][j].when # status}
Succeeds(w, status) == \E i \in FirstMatch(w, status) : Matchers[w][i].state # "failure"
Fails(w, status) == FirstMatch(w, status) # {} /\ ~Succeeds(w, status)

\* Seeded fault: a failure matcher ends the loop as any other does.
MatchAny ==
  /\ pc = "match"
  /\ CASE FirstMatch(waiter, seen) # {} -> Goto("after") /\ met' = met \union {waiter}
       [] FirstMatch(waiter, seen) = {} -> Goto("sleep") /\ UNCHANGED met
  /\ UNCHANGED <<cmd, input, call, agreed, job, waiter, attempt, seen>>

\* A match breaks out of the loop, and the check behind the loop is made: on
\* the last attempt the wait fails although the state was reached.
Match ==
  /\ pc = "match"
  /\ \/ /\ Succeeds(waiter, seen) /\ attempt < Attempts
        /\ Goto("after")
        /\ met' = met \union {waiter}
     \/ /\ Fails(waiter, seen) \/ (Succeeds(waiter, seen) /\ attempt >= Attempts)
        /\ ExitWith("error")
        /\ UNCHANGED met
     \/ /\ FirstMatch(waiter, seen) = {}
        /\ Goto("sleep")
        /\ UNCHANGED met
  /\ UNCHANGED <<cmd, input, call, agreed, job, waiter, attempt, seen>>

Sleep ==
  /\ pc = "sleep"
  /\ Goto("poll")
  /\ UNCHANGED <<cmd, input, call, agreed, job, polling>>

\* The resource settles, at any moment.
Settle ==
  /\ job = "pending"
  /\ job' \in {"ready", "failed"}
  /\ UNCHANGED <<cmd, pc, exit, input, call, agreed, polling>>

-----------------------------------------------------------------------------
Process ==
  \/ Start \/ LoadFile \/ LoadStdin \/ ReadStdin \/ GraceExpires \/ Build
  \/ ConfirmDestructive \/ Target \/ Send \/ Format
  \/ NextWaiter \/ Poll \/ Match \/ Sleep

API == Apply \/ Reject \/ HandleResponse \/ RequestFails \/ PollAnswered \/ PollFails

Next ==
  \/ Process \/ API \/ OperatorAnswers \/ ReadFails
  \/ WriterWrites \/ WriterCloses \/ Settle

Spec == Init /\ [][Next]_vars

\* The process goes on when it can and its timer fires. The writer, the
\* operator and the API need do nothing.
FairSpec == Spec /\ WF_vars(Process)

-----------------------------------------------------------------------------
\* The variables hold what their comments say. Covers the whole of a run.
TypeOK ==
  /\ cmd \in Command /\ WellFormed(cmd)
  /\ pc \in Labels /\ exit \in Codes \union {"none"}
  /\ pipe \in {"silent", "written", "closed"}
  /\ base \in {"none", "file", "stdin"} /\ body \in Body
  /\ sent \in Body \union {Nothing} /\ answer \in {"none", "good", "refused"}
  /\ applied \in BOOLEAN
  /\ agreed \in {"unasked", "yes", "no", "unread"}
  /\ job \in Statuses
  /\ waiter \in Waiters \union {0} /\ attempt \in 0..Attempts
  /\ seen \in Statuses \union {"none"} /\ met \subseteq Waiters

\* Nothing destructive is sent unless --force was given or the operator said
\* yes (ConfirmDestructive), though the two kinds of command ask at different
\* points.
ConsentBeforeSending ==
  sent # Nothing /\ cmd.delete => cmd.force \/ agreed = "yes"

\* Exit code 2 says that the API was asked for nothing (OperationError). It is
\* also what a run ends with whose operation was carried out and whose waiter
\* then got an argument it refuses: there only the waiter was not run.
UsageMeansNotSent ==
  exit = "usage" => sent = Nothing \/ (waiter # 0 /\ seen = "none" /\ waiter \notin met)

\* What exit code 0 tells a script, of every command (operationRun, ExitCodeFor):
\* all it was asked for was done, the operation and every waiter. Otherwise
\* nothing was asked of the API, since the operator declined (exit.go maps that
\* to 0, although credentials.go:1160 says that no refusal exits 0) or only an
\* example was wanted; or raw `request` showed what the API refused, which exits
\* 0 although exit.go:12 says that every failure does not.
OkMeansDone ==
  exit = "ok" =>
    \/ sent = Nothing /\ met = {} /\ (agreed = "no" \/ cmd.example)
    \/ cmd.kind = "request" /\ sent # Nothing /\ answer = "refused"
    \/ /\ cmd.kind # "wait" => applied /\ answer = "good"
       /\ met = cmd.waits

\* A waiter that returned saw a status it accepts, which the resource still
\* has unless it accepted `pending`; and when it fails although it saw such a
\* status, that was its last attempt.
WaitReportsState ==
  /\ \A w \in met : Succeeds(w, job) \/ Succeeds(w, "pending")
  /\ pc = "done" /\ waiter # 0 /\ waiter \notin met /\ Succeeds(waiter, seen) =>
       exit = "error" /\ attempt = Attempts

\* What the sources hold at a leaf, in the order GetBodyWithFlags gives them.
Leaves(given) == IF given.kind \in {"object", "map"} THEN given.has ELSE {}
BaseLeaves(c, from) == CASE from = "none"  -> {}
                         [] from = "file"  -> Leaves(c.file)
                         [] from = "stdin" -> Leaves(c.input)
SuppliedAt(c, from, f) == <<IF f \in BaseLeaves(c, from) THEN from ELSE Absent,
                            IF f \in Leaves(c.args) THEN "args" ELSE Absent,
                            IF f \in Leaves(c.flags) THEN "flags" ELSE Absent>>

\* The base a command line calls for: its file, or else what standard input
\* holds. Only a pipe beside another source of the body may be passed over.
CallsFor(c, from) ==
  /\ from = "file" <=> c.hasBody /\ c.file.kind # "none"
  /\ from = "stdin" => c.hasBody /\ c.stdin # "terminal"
  /\ from = "none" =>
       \/ ~c.hasBody \/ c.stdin = "terminal"
       \/ c.stdin = "pipe" /\ ~c.stdinFlag /\ (c.args.kind # "none" \/ c.flags.kind # "none")

\* The highest of base, shorthand and flags that supplies a leaf.
Highest(c, from, f) ==
  LET at == SuppliedAt(c, from, f)
  IN  IF at[3] # Absent THEN at[3] ELSE IF at[2] # Absent THEN at[2] ELSE at[1]

\* Whether the object of a nested leaf is replaced as a whole, by a source above
\* the one that supplies it: by any in YAML, by a string-map flag in JSON too.
Replaced(c, from, f) ==
  /\ f \in Nested
  /\ \E i \in 2..3 :
       /\ c.media = "yaml" \/ (i = 3 /\ c.flags.kind = "map")
       /\ \A j \in i..3 : SuppliedAt(c, from, f)[j] = Absent
       /\ \E g \in Nested : SuppliedAt(c, from, g)[i] # Absent

Layered(c, from, b) ==
  \A f \in Fields :
    b.at[f] = IF Replaced(c, from, f) THEN Absent ELSE Highest(c, from, f)

\* What is sent is what the command line and its input supply, each leaf from
\* the highest source (GetBodyWithFlags): the file or all of standard input is
\* never dropped or mixed, and never wins over shorthand or flags. Two losses are
\* the code's: a pipe beside another source is passed over if it is not closed
\* within the grace period, though input.go:505 speaks of one where nothing has
\* arrived; and a nested leaf is lost to another of its object in YAML or beside
\* a string-map flag, though cli.go:765 lets shorthand override single fields.
BodyIsLayered ==
  sent # Nothing =>
    \E from \in {"none", "file", "stdin"} : CallsFor(cmd, from) /\ Layered(cmd, from, sent)

\* A command whose body is already supplied gets past standard input whatever
\* holds its other end (loadBaseBody), unless --stdin asks to wait or the only
\* source is a flag that was renamed.
IdlePipeIsSkipped ==
  (pc = "load" /\ ~cmd.stdinFlag
    /\ (cmd.args.kind # "none" \/ cmd.file.kind # "none"
        \/ (cmd.flags.kind # "none" /\ ~cmd.flags.renamed)))
  ~> pc \notin {"load", "read", "grace", "build"}

\* If the API answers, a wait ends, settled or not: no waiter polls for ever.
WaitEnds == WF_vars(API) => (pc = "poll" ~> pc = "done")
=============================================================================
