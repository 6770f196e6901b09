---------------------------- MODULE MCCommandRun ----------------------------
(***************************************************************************)
(* Command lines for TLC: every way to supply a body with every kind of    *)
(* standard input, and every way a request or a wait can go.               *)
(***************************************************************************)
EXTENDS CommandRun

CONSTANTS name, size, tags   \* one plain leaf, and two in a nested object

MCFields == {name, size, tags}
MCNested == {size, tags}

\* The first waiter takes `ready` and gives up on `failed`; the second waits
\* for any settled status.
MCMatchers ==
  <<<<[when |-> "failed", state |-> "failure"], [when |-> "ready", state |-> "success"]>>,
    <<[when |-> "ready", state |-> "success"], [when |-> "failed", state |-> "success"]>>>>

NoFile == [kind |-> "none", has |-> {}]
NoArgs == [kind |-> "none", has |-> {}]
NoFlags == [kind |-> "none", has |-> {}, renamed |-> FALSE]
Silence == [kind |-> "empty", has |-> {}]

Plain ==
  [kind |-> "operation", delete |-> FALSE, force |-> FALSE, stdin |-> "terminal",
   mayPrompt |-> TRUE, server |-> "ok", headerOk |-> TRUE, paramsOk |-> TRUE,
   hasBody |-> TRUE, example |-> FALSE, media |-> "json", file |-> NoFile,
   stdinFlag |-> FALSE, input |-> Silence, args |-> NoArgs, flags |-> NoFlags, waits |-> {}]

Files == {[kind |-> k, has |-> {}] : k \in {"none", "missing", "empty", "null", "other"}}
  \union {[kind |-> "object", has |-> {name, size}]}
Inputs == {[kind |-> k, has |-> {}] : k \in {"empty", "null", "other"}}
  \union {[kind |-> "object", has |-> {name, size}]}
Args == {[kind |-> k, has |-> {}] : k \in {"none", "bad"}}
  \union {[kind |-> "object", has |-> h] : h \in {{name}, {tags}}}
Flags == {[kind |-> k, has |-> {}, renamed |-> FALSE] : k \in {"none", "bad", "blank"}}
  \union {[kind |-> "object", has |-> {name}, renamed |-> r] : r \in BOOLEAN}
  \union {[kind |-> "map", has |-> {tags}, renamed |-> FALSE]}

\* Bodies of a generated operation.
BodyCommands ==
  {[Plain EXCEPT !.stdin = s, !.media = m, !.file = f, !.stdinFlag = d,
                 !.input = i, !.args = a, !.flags = g] :
     s \in {"terminal", "regular", "pipe"}, m \in {"json", "yaml"}, f \in Files,
     d \in BOOLEAN, i \in Inputs, a \in Args, g \in Flags}

\* The same for the raw command, in an unknown media type too.
RawBodyCommands ==
  {[Plain EXCEPT !.kind = "request", !.stdin = s, !.media = m, !.input = i, !.args = a] :
     s \in {"terminal", "regular", "pipe"}, m \in {"json", "other"}, i \in Inputs, a \in Args}

\* Everything else that decides how a run ends.
CallCommands ==
  {c \in {[Plain EXCEPT !.kind = k, !.delete = d, !.force = f, !.stdin = s, !.mayPrompt = p,
                        !.server = v, !.headerOk = h, !.paramsOk = q, !.hasBody = (k = "request"),
                        !.waits = w] :
            k \in {"operation", "request", "wait"}, d \in BOOLEAN, f \in BOOLEAN,
            s \in {"terminal", "pipe"}, p \in BOOLEAN, v \in {"ok", "none", "bad"},
            h \in BOOLEAN, q \in BOOLEAN, w \in SUBSET Waiters} : WellFormed(c)}

ExampleCommands == {[Plain EXCEPT !.example = TRUE, !.waits = w] : w \in SUBSET Waiters}

MCCommands == BodyCommands \union RawBodyCommands \union CallCommands \union ExampleCommands
=============================================================================
