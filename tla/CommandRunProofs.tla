-------------------------- MODULE CommandRunProofs --------------------------
(***************************************************************************)
(* What the exit code of a command says, for any command lines, waiters    *)
(* and number of attempts. The invariant follows the process: what must    *)
(* have been asked, sent and answered by the time it is at each label; a   *)
(* second one, BodyInv, says what the body holds there.                    *)
(***************************************************************************)
EXTENDS CommandRun, TLAPS

Consented == ~cmd.delete \/ cmd.force \/ agreed = "yes"
Answered == \/ applied /\ answer = "good"
            \/ cmd.kind = "request" /\ answer = "refused"

Before == {"start", "load", "read", "grace", "build", "confirm", "prompt", "target", "call"}
Waiting == {"poll", "polled", "match", "sleep"}

ExitOnlyWhenDone == exit = "none" <=> pc # "done"

\* Until the request is made nothing is sent, and no waiter runs.
NothingBefore ==
  /\ pc \in Before => sent = Nothing /\ waiter = 0 /\ met = {} /\ agreed # "no"
  /\ pc \in {"sent", "applied", "print"} => waiter = 0 /\ met = {}
  /\ pc = "start" => attempt = 0 /\ seen = "none"

\* The consent a label presupposes.
ConsentKept ==
  /\ cmd.kind = "request" /\ pc \in {"target", "load", "read", "grace", "build"} => Consented
  /\ pc \in {"call", "sent", "applied", "print"} => Consented
  /\ pc \in {"prompt"} => sent = Nothing
  /\ agreed = "no" => sent = Nothing

KindKept ==
  /\ pc \in Before \ {"start"} => cmd.kind # "wait"
  /\ pc \in {"sent", "applied", "print"} => cmd.kind # "wait"

AnswerKept ==
  /\ pc = "applied" => applied
  /\ pc = "print" => Answered
  /\ pc \in {"after"} \union Waiting /\ cmd.kind # "wait" => Answered

WaiterKept ==
  /\ met \subseteq cmd.waits
  /\ pc \in Waiting => waiter \in cmd.waits \ met
  /\ pc \in {"poll", "polled", "sleep"} => ~Succeeds(waiter, seen)
  /\ pc = "poll" /\ attempt = 0 => seen = "none"
  /\ pc \in {"polled", "match", "sleep"} => attempt # 0
  /\ pc = "match" => seen \in Statuses
  /\ seen # "none" => seen = job \/ seen = "pending"
  /\ pc = "after" => waiter = 0 \/ waiter \in met

IInv ==
  /\ TypeOK
  /\ ExitOnlyWhenDone
  /\ NothingBefore
  /\ ConsentKept
  /\ KindKept
  /\ AnswerKept
  /\ WaiterKept
  /\ ConsentBeforeSending
  /\ UsageMeansNotSent
  /\ OkMeansDone
  /\ WaitReportsState

-----------------------------------------------------------------------------
(* Facts about the constants and the body. *)

LEMMA CommandFields ==
  ASSUME NEW c \in Command
  PROVE  /\ c.kind \in {"operation", "request", "wait"}
         /\ c.delete \in BOOLEAN /\ c.force \in BOOLEAN
         /\ c.waits \subseteq Waiters
         /\ c.file \in FileInput /\ c.input \in StdinInput
         /\ c.args \in ArgsInput /\ c.flags \in FlagsInput
         /\ c.media \in {"json", "yaml", "other"}
         /\ c.stdin \in {"terminal", "regular", "pipe"}
         /\ c.mayPrompt \in BOOLEAN /\ c.hasBody \in BOOLEAN /\ c.example \in BOOLEAN
BY DEF Command

\* No matcher accepts a status that was never answered.
LEMMA NothingSucceedsUnseen ==
  ASSUME NEW w \in Waiters PROVE ~Succeeds(w, "none")
<1> SUFFICES ASSUME NEW i \in FirstMatch(w, "none") PROVE FALSE
  BY DEF Succeeds
<1>1. Matchers[w] \in Seq(Matcher)
  BY MatchersAssumption
<1>2. i \in DOMAIN Matchers[w] /\ Matchers[w][i].when = "none"
  BY DEF FirstMatch
<1>3. Matchers[w][i] \in Matcher
  BY <1>1, <1>2
<1>4. QED
  BY <1>2, <1>3 DEF Statuses, Matcher

LEMMA NoBodyTyped == NoBody \in Body
BY DEF NoBody, Body

LEMMA TextTyped ==
  /\ \A given \in FileInput : given.kind \notin {"none", "missing"} => Text("file", given) \in Body
  /\ \A given \in StdinInput : Text("stdin", given) \in Body
BY DEF Text, Body, FileInput, StdinInput, Sources

LEMMA SuppliedTyped ==
  ASSUME NEW source \in Sources, NEW given
  PROVE  Supplied(source, given) \in Body
BY DEF Supplied, Body

LEMMA MergeTyped ==
  ASSUME NEW b \in Body, NEW over \in Body, NEW whole \in BOOLEAN,
         NEW media \in {"json", "yaml", "other"}
  PROVE  /\ MergeStructuredBody(media, b, over, whole).outcome \in {"ok", "usage", "panic"}
         /\ MergeStructuredBody(media, b, over, whole).body \in Body
<1>1. ASSUME NEW w \in BOOLEAN
      PROVE  [kind |-> "object", at |-> DeepAssign(b.at, over.at, w)] \in Body
  BY DEF Body, DeepAssign
<1>2. b.kind \in {"empty", "object", "null", "other"}
  BY DEF Body
<1>3. QED
  BY <1>1, <1>2, NoBodyTyped DEF MergeStructuredBody, Accepted, Refused, Panicked

LEMMA BuildTyped ==
  ASSUME NEW b \in Body, NEW args \in ArgsInput, NEW flags \in FlagsInput,
         NEW media \in {"json", "yaml", "other"}
  PROVE  /\ BuildBody(media, b, args, flags).outcome \in {"ok", "usage", "panic"}
         /\ BuildBody(media, b, args, flags).body \in Body
<1>1. /\ ApplyArgs(media, b, args).outcome \in {"ok", "usage", "panic"}
      /\ ApplyArgs(media, b, args).body \in Body
  <2>1. args.kind \in {"none", "bad", "object"}
    BY DEF ArgsInput
  <2>2. Supplied("args", args) \in Body
    BY SuppliedTyped DEF Sources
  <2>3. QED
    BY <2>1, <2>2, MergeTyped, NoBodyTyped DEF ApplyArgs, Accepted, Refused
<1>2. ASSUME NEW c \in Body
      PROVE  /\ ApplyBodyFlags(media, c, flags).outcome \in {"ok", "usage", "panic"}
             /\ ApplyBodyFlags(media, c, flags).body \in Body
  <2>1. flags.kind \in {"none", "bad", "blank", "object", "map"}
    BY DEF FlagsInput
  <2>2. Supplied("flags", flags) \in Body
    BY SuppliedTyped DEF Sources
  <2>3. QED
    BY <2>1, <2>2, MergeTyped, NoBodyTyped DEF ApplyBodyFlags, Accepted, Refused
<1>3. QED
  BY <1>1, <1>2 DEF BuildBody

-----------------------------------------------------------------------------
(* The invariant is inductive. *)

LEMMA InitInvariant == Init => IInv
<1> SUFFICES ASSUME Init PROVE IInv
  OBVIOUS
<1>1. cmd \in Command /\ WellFormed(cmd)
  BY CommandsAssumption DEF Init
<1>2. pipe \in {"silent", "written", "closed"}
  BY DEF Init
<1>3. attempt \in 0..Attempts
  BY AttemptsAssumption DEF Init
<1>4. TypeOK
  BY <1>1, <1>2, <1>3, NoBodyTyped DEF Init, TypeOK, Labels, Statuses
<1>5. QED
  BY <1>4 DEF Init, IInv, ExitOnlyWhenDone, NothingBefore, ConsentKept, KindKept,
     AnswerKept, WaiterKept, ConsentBeforeSending, UsageMeansNotSent, OkMeansDone,
     WaitReportsState, Before, Waiting, Answered, Consented, Statuses

LEMMA NextInvariant == IInv /\ [Next]_vars => IInv'
<1> SUFFICES ASSUME IInv, [Next]_vars PROVE IInv'
  OBVIOUS
<1>f. /\ cmd.kind \in {"operation", "request", "wait"}
      /\ cmd.delete \in BOOLEAN /\ cmd.force \in BOOLEAN
      /\ cmd.waits \subseteq Waiters
      /\ cmd.file \in FileInput /\ cmd.input \in StdinInput
      /\ cmd.args \in ArgsInput /\ cmd.flags \in FlagsInput
      /\ cmd.media \in {"json", "yaml", "other"}
      /\ cmd.stdin \in {"terminal", "regular", "pipe"}
      /\ cmd.mayPrompt \in BOOLEAN /\ cmd.hasBody \in BOOLEAN /\ cmd.example \in BOOLEAN
      /\ WellFormed(cmd)
  BY CommandFields DEF IInv, TypeOK
<1>w. 0 \notin Waiters
  BY WaitersAssumption
<1> USE <1>f, <1>w, AttemptsAssumption, NothingAssumption
    DEF IInv, TypeOK, ExitOnlyWhenDone, NothingBefore, ConsentKept, KindKept,
        AnswerKept, WaiterKept, ConsentBeforeSending, UsageMeansNotSent, OkMeansDone,
        WaitReportsState, Before, Waiting, Answered, Consented, Labels, Codes,
        Goto, ExitWith, input, call, polling
<1>1. CASE Start
  <2>1. waiter' \in Waiters \union {0} /\ (cmd.kind = "wait" => waiter' \in cmd.waits \union {0})
    BY <1>1 DEF Start
  <2>2. CASE cmd.server = "bad" \/ (cmd.hasBody /\ cmd.example)
    <3>1. pc' = "done" /\ waiter' = waiter /\ exit' \in {"usage", "ok"}
      BY <1>1, <2>2 DEF Start, WellFormed
    <3>2. exit' = "ok" => cmd.example
      BY <1>1, <2>2 DEF Start
    <3>3. QED
      BY <1>1, <3>1, <3>2 DEF Start
  <2>3. CASE cmd.server # "bad" /\ ~(cmd.hasBody /\ cmd.example)
    <3>1. pc' = FirstStep /\ exit' = exit
      BY <1>1, <2>3 DEF Start
    <3>2. CASE cmd.kind = "wait"
      <4>1. pc' = "poll" /\ waiter' \in cmd.waits
        BY <1>1, <2>3, <3>1, <3>2 DEF Start, FirstStep
      <4>2. ~Succeeds(waiter', seen)
        BY <1>1, <4>1, NothingSucceedsUnseen DEF Start
      <4>3. QED
        BY <1>1, <3>1, <3>2, <4>1, <4>2 DEF Start
    <3>3. CASE cmd.kind # "wait"
      <4>1. pc' \in {"load", "confirm"} /\ waiter' = waiter
        BY <1>1, <2>3, <3>1, <3>3 DEF Start, FirstStep
      <4>2. cmd.kind = "request" => pc' = "confirm"
        BY <3>1 DEF FirstStep
      <4>3. QED
        BY <1>1, <3>1, <3>3, <4>1, <4>2 DEF Start
    <3>4. QED
      BY <3>2, <3>3
  <2>4. QED
    BY <2>2, <2>3
<1>2. CASE LoadFile
  BY <1>2, TextTyped DEF LoadFile
<1>3. CASE LoadStdin
  <2>1. \/ pc' = "done" /\ exit' = "usage"
        \/ pc' \in {"build", "read", "grace"} /\ exit' = exit
    BY <1>3 DEF LoadStdin
  <2>2. QED
    BY <1>3, <2>1 DEF LoadStdin
<1>4. CASE ReadStdin
  BY <1>4, TextTyped DEF ReadStdin
<1>5. CASE GraceExpires \/ ReadFails
  <2>1. CASE GraceExpires
    BY <2>1 DEF GraceExpires
  <2>2. CASE ReadFails
    BY <2>2 DEF ReadFails
  <2>3. QED
    BY <1>5, <2>1, <2>2
<1>6. CASE Build
  BY <1>6, BuildTyped DEF Build
<1>7. CASE ConfirmDestructive
  <2>1. \/ MayProceed /\ pc' = AfterConsent /\ exit' = exit
        \/ pc' = "prompt" /\ exit' = exit
        \/ pc' = "done" /\ exit' = "usage"
    BY <1>7 DEF ConfirmDestructive
  <2>2. MayProceed => Consented
    BY DEF MayProceed
  <2>3. AfterConsent \in {"target", "call"} /\ (cmd.kind # "request" => AfterConsent = "call")
    BY DEF AfterConsent
  <2>4. QED
    BY <1>7, <2>1, <2>2, <2>3 DEF ConfirmDestructive
<1>8. CASE OperatorAnswers
  BY <1>8 DEF OperatorAnswers, AfterConsent
<1>9. CASE Target
  BY <1>9 DEF Target
<1>10. CASE Send
  BY <1>10 DEF Send
<1>11. CASE Apply \/ Reject
  <2>1. CASE Apply
    BY <2>1 DEF Apply
  <2>2. CASE Reject
    BY <2>2 DEF Reject
  <2>3. QED
    BY <1>11, <2>1, <2>2
<1>12. CASE HandleResponse \/ RequestFails
  <2>1. CASE HandleResponse
    BY <2>1 DEF HandleResponse
  <2>2. CASE RequestFails
    BY <2>2 DEF RequestFails
  <2>3. QED
    BY <1>12, <2>1, <2>2
<1>13. CASE Format
  BY <1>13 DEF Format
<1>14. CASE NextWaiter
  <2>1. CASE cmd.waits \ met = {} /\ pc' = "done" /\ exit' = "ok"
    BY <1>14, <2>1 DEF NextWaiter
  <2>2. CASE pc' = "done" /\ exit' = "error" /\ UNCHANGED <<waiter, attempt, seen>>
    BY <1>14, <2>2 DEF NextWaiter
  <2>3. CASE /\ pc' = "poll" /\ exit' = exit
             /\ waiter' \in cmd.waits \ met /\ attempt' = 0 /\ seen' = "none"
    <3>1. waiter' \in Waiters /\ waiter' # 0
      BY <2>3
    <3>2. ~Succeeds(waiter', seen')
      BY <2>3, <3>1, NothingSucceedsUnseen
    <3>3. attempt' \in 0..Attempts
      BY <2>3
    <3>4. QED
      BY <1>14, <2>3, <3>1, <3>2, <3>3 DEF NextWaiter
  <2>4. QED
    BY <1>14, <2>1, <2>2, <2>3 DEF NextWaiter
<1>15. CASE Poll
  <2>1. CASE attempt < Attempts
    <3>1. attempt' = attempt + 1 /\ attempt' \in 0..Attempts
      BY <1>15, <2>1 DEF Poll
    <3>2. CASE pc' = "polled" /\ exit' = exit
      BY <1>15, <3>1, <3>2 DEF Poll
    <3>3. CASE attempt = 0 /\ pc' = "done" /\ exit' = "usage"
      BY <1>15, <3>1, <3>3, NothingSucceedsUnseen DEF Poll
    <3>4. QED
      BY <1>15, <2>1, <3>2, <3>3 DEF Poll
  <2>2. CASE ~(attempt < Attempts)
    BY <1>15, <2>2 DEF Poll
  <2>3. QED
    BY <2>1, <2>2
<1>16. CASE PollAnswered
  BY <1>16 DEF PollAnswered
<1>17. CASE PollFails
  BY <1>17 DEF PollFails
<1>18. CASE Match
  <2>1. waiter \in cmd.waits /\ waiter \notin met /\ exit = "none"
    BY <1>18 DEF Match
  <2>2. CASE Succeeds(waiter, seen) /\ pc' = "after" /\ exit' = exit /\ met' = met \union {waiter}
    <3>1. seen = job \/ seen = "pending"
      BY <1>18 DEF Match, Statuses
    <3>2. Succeeds(waiter, job) \/ Succeeds(waiter, "pending")
      BY <2>2, <3>1
    <3>3. \A w \in met' : Succeeds(w, job) \/ Succeeds(w, "pending")
      BY <2>2, <3>2
    <3>4. QED
      BY <1>18, <2>1, <2>2, <3>3 DEF Match
  <2>3. CASE /\ ~Succeeds(waiter, seen) \/ (Succeeds(waiter, seen) /\ attempt >= Attempts)
             /\ pc' = "done" /\ exit' = "error" /\ met' = met
    BY <1>18, <2>1, <2>3 DEF Match
  <2>4. CASE ~Succeeds(waiter, seen) /\ pc' = "sleep" /\ exit' = exit /\ met' = met
    BY <1>18, <2>1, <2>4 DEF Match
  <2>5. QED
    BY <1>18, <2>2, <2>3, <2>4 DEF Match, Fails, Succeeds
<1>19. CASE Sleep
  BY <1>19 DEF Sleep
<1>20. CASE WriterWrites \/ WriterCloses
  <2>1. CASE WriterWrites
    BY <2>1 DEF WriterWrites
  <2>2. CASE WriterCloses
    BY <2>2 DEF WriterCloses
  <2>3. QED
    BY <1>20, <2>1, <2>2
<1>21. CASE Settle
  BY <1>21 DEF Settle, Statuses
<1>22. CASE UNCHANGED vars
  BY <1>22 DEF vars
<1>23. QED
  BY <1>1, <1>2, <1>3, <1>4, <1>5, <1>6, <1>7, <1>8, <1>9, <1>10, <1>11, <1>12,
     <1>13, <1>14, <1>15, <1>16, <1>17, <1>18, <1>19, <1>20, <1>21, <1>22
  DEF Next, Process, API

LEMMA Invariant == Spec => []IInv
BY InitInvariant, NextInvariant, PTL DEF Spec

-----------------------------------------------------------------------------
(* The theorems. *)

\* The variables keep to their types, whatever the command line, the input,
\* the operator and the API do.
THEOREM CommandTypeCorrect == Spec => []TypeOK
<1>1. IInv => TypeOK
  BY DEF IInv
<1>2. QED
  BY <1>1, Invariant, PTL

\* No run of ConfirmDestructive lets a DELETE go out that neither --force nor
\* the operator allowed.
THEOREM AlwaysConsentBeforeSending == Spec => []ConsentBeforeSending
<1>1. IInv => ConsentBeforeSending
  BY DEF IInv
<1>2. QED
  BY <1>1, Invariant, PTL

\* A usage error means the API was asked for nothing, or that a waiter behind
\* a request already carried out could not be started.
THEOREM UsageAlwaysMeansNotSent == Spec => []UsageMeansNotSent
<1>1. IInv => UsageMeansNotSent
  BY DEF IInv
<1>2. QED
  BY <1>1, Invariant, PTL

\* Success is reported for nothing that was not done.
THEOREM OkAlwaysMeansDone == Spec => []OkMeansDone
<1>1. IInv => OkMeansDone
  BY DEF IInv
<1>2. QED
  BY <1>1, Invariant, PTL

\* For any matchers, waiters and attempts: a wait that succeeded saw a status
\* it accepts, and one that saw such a status fails only on its last attempt.
THEOREM WaitAlwaysReportsState == Spec => []WaitReportsState
<1>1. IInv => WaitReportsState
  BY DEF IInv
<1>2. QED
  BY <1>1, Invariant, PTL

-----------------------------------------------------------------------------
(* What the body holds. *)

\* The base body, as the source it was read from holds it.
BaseBody(c, from) ==
  CASE from = "none" -> NoBody
    [] from = "file" -> Text("file", c.file)
    [] from = "stdin" -> Text("stdin", c.input)

LEMMA BaseIsLayered ==
  ASSUME NEW from \in {"none", "file", "stdin"}, NEW c \in Command,
         ~(from = "file" /\ c.file.kind \in {"none", "missing"})
  PROVE  /\ \A f \in Fields : BaseBody(c, from).at[f] = SuppliedAt(c, from, f)[1]
         /\ BaseBody(c, from).kind \in {"empty", "object", "null", "other"}
         /\ BaseBody(c, from).kind = "empty" => \A f \in Fields : SuppliedAt(c, from, f)[1] = Absent
<1>1. c.file \in FileInput /\ c.input \in StdinInput
  BY DEF Command
<1>2. CASE from = "none"
  <2>1. BaseBody(c, from) = NoBody /\ BaseLeaves(c, from) = {}
    BY <1>2 DEF BaseBody, BaseLeaves
  <2>2. QED
    BY <2>1 DEF NoBody, SuppliedAt
<1>3. ASSUME NEW source \in {"file", "stdin"}, NEW given, from = source,
             BaseBody(c, from) = Text(source, given), BaseLeaves(c, from) = Leaves(given), given.kind # "map"
      PROVE  /\ \A f \in Fields : BaseBody(c, from).at[f] = SuppliedAt(c, from, f)[1]
             /\ BaseBody(c, from).kind = given.kind
             /\ BaseBody(c, from).kind = "empty" => \A f \in Fields : SuppliedAt(c, from, f)[1] = Absent
  <2>1. \A f \in Fields : SuppliedAt(c, from, f)[1] = IF f \in Leaves(given) THEN source ELSE Absent
    BY <1>3 DEF SuppliedAt
  <2>2. /\ BaseBody(c, from).kind = given.kind
        /\ \A f \in Fields : BaseBody(c, from).at[f] = IF given.kind = "object" /\ f \in given.has THEN source ELSE Absent
    BY <1>3 DEF Text
  <2>3. QED
    BY <1>3, <2>1, <2>2 DEF Leaves
<1>4. CASE from = "file"
  <2>1. /\ BaseBody(c, from) = Text("file", c.file) /\ BaseLeaves(c, from) = Leaves(c.file)
        /\ c.file.kind \in {"empty", "object", "null", "other"}
    BY <1>1, <1>4 DEF BaseBody, BaseLeaves, FileInput
  <2>2. "file" \in {"file", "stdin"} /\ c.file.kind # "map"
    BY <2>1
  <2>3. QED
    BY <1>3, <1>4, <2>1, <2>2
<1>5. CASE from = "stdin"
  <2>1. /\ BaseBody(c, from) = Text("stdin", c.input) /\ BaseLeaves(c, from) = Leaves(c.input)
        /\ c.input.kind \in {"empty", "object", "null", "other"}
    BY <1>1, <1>5 DEF BaseBody, BaseLeaves, StdinInput
  <2>2. "stdin" \in {"file", "stdin"} /\ c.input.kind # "map"
    BY <2>1
  <2>3. QED
    BY <1>3, <1>5, <2>1, <2>2
<1>6. QED
  BY <1>2, <1>4, <1>5

MergedAs(merged, media, b, source, given, whole) ==
  /\ merged.kind = "object"
  /\ \A f \in Fields :
       merged.at[f] =
         IF f \in given.has THEN source
         ELSE IF /\ whole = TRUE \/ media = "yaml"
                 /\ f \in Nested /\ \E g \in Nested : g \in given.has
           THEN Absent
           ELSE b.at[f]

\* A source's leaves replace what is below them, and no others but the rest of
\* a nested object it replaces as a whole.
LEMMA MergedLeaves ==
  ASSUME NEW media, NEW b, NEW source \in Sources, NEW given, NEW whole \in BOOLEAN,
         b.kind \in {"empty", "object", "null", "other"},
         b.kind = "empty" => \A f \in Fields : b.at[f] = Absent,
         MergeStructuredBody(media, b, Supplied(source, given), whole).outcome = "ok"
  PROVE  MergedAs(MergeStructuredBody(media, b, Supplied(source, given), whole).body,
                  media, b, source, given, whole)
<1> DEFINE over == Supplied(source, given)
           result == MergeStructuredBody(media, b, over, whole)
<1>1. /\ over.kind = "object"
      /\ \A f \in Fields : over.at[f] = IF f \in given.has THEN source ELSE Absent
      /\ source # Absent
  BY AbsentAssumption DEF Supplied
<1> HIDE DEF over
<1>2. CASE b.kind = "empty"
  <2>1. result.body = over
    BY <1>2 DEF MergeStructuredBody, Accepted, Refused
  <2>2. QED
    BY <1>1, <1>2, <2>1 DEF over, MergedAs
<1>3. CASE b.kind # "empty"
  <2>1. /\ result.body.kind = "object"
        /\ result.body.at = DeepAssign(b.at, over.at, whole \/ media = "yaml")
    BY <1>3 DEF MergeStructuredBody, Accepted, Refused, Panicked
  <2> HIDE DEF result
  <2>2. \A f \in Fields :
          result.body.at[f] =
            IF over.at[f] # Absent THEN over.at[f]
            ELSE IF (whole \/ media = "yaml") /\ f \in Nested /\ \E g \in Nested : over.at[g] # Absent
              THEN Absent ELSE b.at[f]
    BY <2>1 DEF DeepAssign
  <2>3. \A g \in Nested : over.at[g] # Absent <=> g \in given.has
    BY <1>1, FieldsAssumption
  <2>4. QED
    BY <1>1, <2>1, <2>2, <2>3 DEF over, result, MergedAs
<1>4. QED
  BY <1>2, <1>3

LEMMA BuiltIsLayered ==
  ASSUME NEW from \in {"none", "file", "stdin"}, NEW c \in Command,
         ~(from = "file" /\ c.file.kind \in {"none", "missing"}),
         BuildBody(c.media, BaseBody(c, from), c.args, c.flags).outcome = "ok"
  PROVE  Layered(c, from, BuildBody(c.media, BaseBody(c, from), c.args, c.flags).body)
<1> DEFINE first == ApplyArgs(c.media, BaseBody(c, from), c.args)
           last == ApplyBodyFlags(c.media, first.body, c.flags)
<1>1. /\ c.args.kind \in {"none", "bad", "object"}
      /\ c.flags.kind \in {"none", "bad", "blank", "object", "map"}
  BY DEF Command, ArgsInput, FlagsInput
<1>2. /\ first.outcome = "ok" /\ last.outcome = "ok"
      /\ BuildBody(c.media, BaseBody(c, from), c.args, c.flags) = last
  BY DEF BuildBody
<1>3. /\ \A f \in Fields : BaseBody(c, from).at[f] = SuppliedAt(c, from, f)[1]
      /\ BaseBody(c, from).kind \in {"empty", "object", "null", "other"}
      /\ BaseBody(c, from).kind = "empty" => \A f \in Fields : BaseBody(c, from).at[f] = Absent
  BY BaseIsLayered
<1>4. \A f : /\ SuppliedAt(c, from, f)[2] = IF f \in Leaves(c.args) THEN "args" ELSE Absent
             /\ SuppliedAt(c, from, f)[3] = IF f \in Leaves(c.flags) THEN "flags" ELSE Absent
  BY DEF SuppliedAt
<1>5. "args" # Absent /\ "flags" # Absent
  BY AbsentAssumption DEF Sources
<1> HIDE DEF first
<1> DEFINE Lower(f) == IF SuppliedAt(c, from, f)[2] # Absent THEN SuppliedAt(c, from, f)[2] ELSE SuppliedAt(c, from, f)[1]
           Hidden(f) == /\ f \in Nested /\ SuppliedAt(c, from, f)[2] = Absent
                        /\ c.media = "yaml" /\ \E g \in Nested : SuppliedAt(c, from, g)[2] # Absent
<1>6. /\ first.body.kind \in {"empty", "object", "null", "other"}
      /\ first.body.kind = "empty" => \A f \in Fields : first.body.at[f] = Absent
      /\ \A f \in Fields : first.body.at[f] = IF Hidden(f) THEN Absent ELSE Lower(f)
  <2>1. CASE c.args.kind = "none"
    <3>1. first.body = BaseBody(c, from)
      BY <2>1 DEF first, ApplyArgs, Accepted
    <3>2. Leaves(c.args) = {}
      BY <2>1 DEF Leaves
    <3>3. QED
      BY <1>3, <1>4, <3>1, <3>2
  <2>2. CASE c.args.kind = "object"
    <3> DEFINE merged == MergeStructuredBody(c.media, BaseBody(c, from), Supplied("args", c.args), FALSE)
    <3>1. first = merged
      BY <2>2 DEF first, ApplyArgs
    <3>2. Leaves(c.args) = c.args.has
      BY <2>2 DEF Leaves
    <3>3. merged.outcome = "ok" /\ "args" \in Sources
      BY <1>2, <3>1 DEF Sources
    <3>4. \A whole \in BOOLEAN :
            MergeStructuredBody(c.media, BaseBody(c, from), Supplied("args", c.args), whole).outcome = "ok" =>
              MergedAs(MergeStructuredBody(c.media, BaseBody(c, from), Supplied("args", c.args), whole).body,
                       c.media, BaseBody(c, from), "args", c.args, whole)
      BY <1>3, <3>3, MergedLeaves
    <3>5. MergedAs(merged.body, c.media, BaseBody(c, from), "args", c.args, FALSE)
      BY <3>3, <3>4, Zenon
    <3> HIDE DEF merged
    <3>6. QED
      BY <1>3, <1>4, <1>5, <3>1, <3>2, <3>5 DEF MergedAs
  <2>3. c.args.kind # "bad"
    BY <1>2 DEF first, ApplyArgs, Refused
  <2>4. QED
    BY <1>1, <2>1, <2>2, <2>3
<1> HIDE DEF last
<1> DEFINE Covered(f) == /\ f \in Nested /\ f \notin Leaves(c.flags)
                         /\ c.flags.kind = "map" \/ c.media = "yaml"
                         /\ \E g \in Nested : g \in Leaves(c.flags)
<1>7. ASSUME NEW f \in Fields
      PROVE  last.body.at[f] = IF f \in Leaves(c.flags) THEN "flags"
                               ELSE IF Covered(f) THEN Absent ELSE first.body.at[f]
  <2>1. CASE c.flags.kind \in {"none", "blank"}
    <3>1. last.body = first.body /\ Leaves(c.flags) = {}
      BY <2>1 DEF last, ApplyBodyFlags, Accepted, Leaves
    <3>2. QED
      BY <3>1
  <2>2. CASE c.flags.kind \in {"object", "map"}
    <3> DEFINE merged == MergeStructuredBody(c.media, first.body, Supplied("flags", c.flags),
                                             c.flags.kind = "map")
    <3>1. last = merged /\ Leaves(c.flags) = c.flags.has
      BY <2>2 DEF last, ApplyBodyFlags, Leaves
    <3>2. merged.outcome = "ok" /\ "flags" \in Sources
      BY <1>2, <3>1 DEF Sources
    <3>3. \A whole \in BOOLEAN :
            MergeStructuredBody(c.media, first.body, Supplied("flags", c.flags), whole).outcome = "ok" =>
              MergedAs(MergeStructuredBody(c.media, first.body, Supplied("flags", c.flags), whole).body,
                       c.media, first.body, "flags", c.flags, whole)
      BY <1>6, <3>2, MergedLeaves
    <3>4. MergedAs(merged.body, c.media, first.body, "flags", c.flags, c.flags.kind = "map")
      <4>1. (c.flags.kind = "map") \in BOOLEAN
        OBVIOUS
      <4>2. QED
        BY <3>2, <3>3, <4>1, Zenon
    <3> HIDE DEF merged
    <3>5. QED
      BY <3>1, <3>4 DEF MergedAs
  <2>3. c.flags.kind # "bad"
    BY <1>2 DEF last, ApplyBodyFlags, Refused
  <2>4. QED
    BY <1>1, <2>1, <2>2, <2>3
<1>8. SUFFICES ASSUME NEW f \in Fields
               PROVE  last.body.at[f] = IF Replaced(c, from, f) THEN Absent ELSE Highest(c, from, f)
  BY <1>2 DEF Layered
<1>9. Highest(c, from, f) = IF SuppliedAt(c, from, f)[3] # Absent THEN SuppliedAt(c, from, f)[3] ELSE Lower(f)
  BY DEF Highest
<1>10. \A g : g \in Leaves(c.flags) <=> SuppliedAt(c, from, g)[3] # Absent
  BY <1>4, <1>5
<1>11. Replaced(c, from, f) <=> f \notin Leaves(c.flags) /\ (Covered(f) \/ Hidden(f))
  <2>1. Replaced(c, from, f) <=>
          /\ f \in Nested /\ SuppliedAt(c, from, f)[3] = Absent
          /\ \/ /\ c.media = "yaml" /\ SuppliedAt(c, from, f)[2] = Absent
                /\ \E g \in Nested : SuppliedAt(c, from, g)[2] # Absent
             \/ /\ c.media = "yaml" \/ c.flags.kind = "map"
                /\ \E g \in Nested : SuppliedAt(c, from, g)[3] # Absent
    BY DEF Replaced
  <2>2. QED
    BY <1>10, <2>1
<1>12. CASE f \in Leaves(c.flags)
  BY <1>4, <1>5, <1>7, <1>9, <1>11, <1>12
<1>13. CASE f \notin Leaves(c.flags)
  BY <1>4, <1>6, <1>7, <1>9, <1>11, <1>13
<1>14. QED
  BY <1>12, <1>13

\* The body of a command, from a base that its command line calls for.
FromCalledFor(b) == \E from \in {"none", "file", "stdin"} : CallsFor(cmd, from) /\ Layered(cmd, from, b)

\* Nothing is read before "load", standard input only where it is called for;
\* the base is what its source holds until the other sources are merged over
\* it, and then the body is layered.
BodyInv ==
  /\ pc \in {"target", "load", "read", "grace"} => cmd.hasBody
  /\ pc \in {"read", "grace"} => CallsFor(cmd, "stdin")
  /\ pc = "grace" => CallsFor(cmd, "none")
  /\ base = "file" => cmd.file.kind \notin {"none", "missing"}
  /\ \/ pc \in {"start", "target", "load", "read", "grace"}
     \/ cmd.kind = "request" /\ pc \in {"confirm", "prompt"}
     => base = "none" /\ body = NoBody
  /\ pc = "build" => body = BaseBody(cmd, base) /\ CallsFor(cmd, base)
  /\ pc \in {"confirm", "prompt"} /\ cmd.kind = "operation" => FromCalledFor(body)
  /\ pc = "call" => FromCalledFor(body)
  /\ BodyIsLayered

\* A command without a body sends the empty one.
LEMMA NoBodyIsLayered ==
  ASSUME NEW c \in Command, WellFormed(c), ~c.hasBody
  PROVE  CallsFor(c, "none") /\ Layered(c, "none", NoBody)
BY DEF WellFormed, CallsFor, Layered, Replaced, Highest, SuppliedAt, BaseLeaves, Leaves, NoBody

LEMMA InitBody == Init => BodyInv
BY NothingAssumption DEF Init, BodyInv, BodyIsLayered

LEMMA NextBody == IInv /\ BodyInv /\ [Next]_vars => BodyInv'
<1> SUFFICES ASSUME IInv, BodyInv, [Next]_vars PROVE BodyInv'
  OBVIOUS
<1>1. /\ cmd \in Command /\ WellFormed(cmd) /\ cmd.kind \in {"operation", "request", "wait"}
      /\ base \in {"none", "file", "stdin"}
      /\ pc \in Labels /\ (pc \in Before => sent = Nothing)
      /\ pc \in Before \ {"start"} => cmd.kind # "wait"
  BY CommandFields DEF IInv, TypeOK, NothingBefore, KindKept
<1>a. cmd.kind = "request" => cmd.hasBody
  BY <1>1 DEF WellFormed
<1> USE <1>1, <1>a DEF BodyInv, BodyIsLayered, FromCalledFor, Goto, ExitWith, input, call, polling, Before
\* Steps that leave the body alone.
<1>2. ASSUME UNCHANGED <<cmd, base, body, sent>>,
             pc' \notin {"start", "load", "read", "grace", "confirm", "prompt", "target", "build", "call"}
      PROVE  BodyInv'
  BY <1>2
<1>3. CASE Start
  <2>1. /\ UNCHANGED <<cmd, base, body, sent>>
        /\ pc = "start" /\ (pc' = "done" \/ pc' = FirstStep)
    BY <1>3 DEF Start
  <2>2. /\ FirstStep = "confirm" /\ cmd.kind = "operation" => ~cmd.hasBody
        /\ FirstStep = "load" => cmd.hasBody
    BY DEF FirstStep
  <2>3. FirstStep \in {"confirm", "load", "poll"}
    BY DEF FirstStep
  <2>4. QED
    BY <2>1, <2>2, <2>3, NoBodyIsLayered
<1>4. CASE LoadFile
  <2>1. CASE cmd.file.kind = "missing"
    BY <1>2, <1>4, <2>1 DEF LoadFile
  <2>2. CASE cmd.file.kind # "missing"
    BY <1>4, <2>2 DEF LoadFile, BaseBody, CallsFor
  <2>3. QED
    BY <2>1, <2>2
<1>5. CASE LoadStdin
  <2>1. /\ pc = "load" /\ pc' \in {"done", "build", "read", "grace"} /\ UNCHANGED <<cmd, base, body, sent>>
        /\ cmd.file.kind = "none" /\ base = "none" /\ body = NoBody
    BY <1>5 DEF LoadStdin, Command
  <2>2. pc' = "build" => CallsFor(cmd, "none")
    BY <1>5 DEF LoadStdin, Command, CallsFor
  <2>3. pc' \in {"read", "grace"} => CallsFor(cmd, "stdin") /\ cmd.hasBody
    BY <1>5 DEF LoadStdin, Command, CallsFor
  <2>4. pc' = "grace" => CallsFor(cmd, "none")
    BY <1>5 DEF LoadStdin, Command, CallsFor, Elsewhere, BodySuppliedElsewhere
  <2>5. QED
    BY <2>1, <2>2, <2>3, <2>4 DEF BaseBody
<1>6. CASE ReadStdin
  BY <1>6 DEF ReadStdin, BaseBody
<1>7. CASE GraceExpires
  BY <1>7 DEF GraceExpires, BaseBody
<1>8. CASE Build
  <2> DEFINE built == BuildBody(cmd.media, body, cmd.args, cmd.flags)
  <2>1. /\ pc = "build" /\ UNCHANGED <<cmd, base, sent>> /\ body' = built.body
        /\ IF built.outcome = "ok"
           THEN pc' = IF cmd.kind = "request" THEN "call" ELSE "confirm"
           ELSE pc' = "done"
    BY <1>8 DEF Build
  <2>2. body = BaseBody(cmd, base) /\ sent = Nothing /\ CallsFor(cmd, base)
    BY <2>1
  <2>3. built.outcome = "ok" => Layered(cmd, base, built.body)
    BY <2>2, BuiltIsLayered
  <2> HIDE DEF built
  <2>4. QED
    BY <2>1, <2>2, <2>3
<1>9. CASE ConfirmDestructive
  <2>1. /\ pc = "confirm" /\ pc' \in {"done", "prompt", AfterConsent} /\ UNCHANGED <<cmd, base, body, sent>>
    BY <1>9 DEF ConfirmDestructive
  <2>2. AfterConsent = IF cmd.kind = "request" THEN "target" ELSE "call"
    BY DEF AfterConsent
  <2>3. QED
    BY <2>1, <2>2
<1>10. CASE OperatorAnswers
  <2>1. /\ pc = "prompt" /\ pc' \in {"done", AfterConsent} /\ UNCHANGED <<cmd, base, body, sent>>
    BY <1>10 DEF OperatorAnswers
  <2>2. AfterConsent = IF cmd.kind = "request" THEN "target" ELSE "call"
    BY DEF AfterConsent
  <2>3. QED
    BY <2>1, <2>2
<1>11. CASE Target
  BY <1>11 DEF Target
<1>12. CASE Send
  <2>1. /\ pc = "call" /\ pc' \in {"sent", "done"} /\ UNCHANGED <<cmd, base, body>>
        /\ sent' = sent \/ sent' = body
    BY <1>12 DEF Send
  <2>2. FromCalledFor(body)
    BY <2>1
  <2>3. QED
    BY <2>1, <2>2
<1>13. CASE ReadFails \/ Format \/ NextWaiter \/ Poll \/ Match \/ Sleep \/ API
  <2>1. /\ UNCHANGED <<cmd, base, body, sent>>
        /\ pc' \in {"done", "sent", "applied", "print", "after", "poll", "polled", "match", "sleep"}
    BY <1>13 DEF ReadFails, Format, NextWaiter, Poll, Match, Sleep, API, Apply, Reject, HandleResponse,
                 RequestFails, PollAnswered, PollFails
  <2>2. QED
    BY <1>2, <2>1
<1>14. CASE WriterWrites \/ WriterCloses \/ Settle \/ UNCHANGED vars
  <2>1. UNCHANGED <<cmd, base, body, sent, pc>>
    BY <1>14 DEF WriterWrites, WriterCloses, Settle, vars
  <2>2. QED
    BY <2>1
<1>15. QED
  BY <1>3, <1>4, <1>5, <1>6, <1>7, <1>8, <1>9, <1>10, <1>11, <1>12, <1>13, <1>14 DEF Next, Process

\* Whatever combination of file, standard input, shorthand and flags supplies
\* a body: what is sent takes each leaf from the highest source, over the base
\* the command line calls for; only a pipe beside another source may be passed
\* over, and only a YAML body or a string-map flag may lose nested leaves.
THEOREM BodyAlwaysLayered == Spec => []BodyIsLayered
<1>1. BodyInv => BodyIsLayered
  BY DEF BodyInv
<1>2. Spec => [](IInv /\ BodyInv)
  BY InitInvariant, NextInvariant, InitBody, NextBody, PTL DEF Spec
<1>3. QED
  BY <1>1, <1>2, PTL
=============================================================================
