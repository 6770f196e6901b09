--------------------------- MODULE MCProfileStore ---------------------------
(***************************************************************************)
(* Instances of ProfileStore: the command lines TLC launches and the       *)
(* stores an installation may start from.                                  *)
(***************************************************************************)
EXTENDS ProfileStore

CONSTANTS work, key, server, k1, k2, s1

Given(k, s) == [f \in Fields |-> IF f = key THEN k ELSE s]
Plain(op, n) ==
  [op |-> op, name |-> n, fields |-> NoFields,
   flag |-> NotPassed, env |-> NoName, envSelected |-> NoName]
WithFields(c, k, s) == [c EXCEPT !.fields = Given(k, s)]
WithFlag(c, n) == [c EXCEPT !.flag = n]
WithEnv(c, n) == [c EXCEPT !.env = n]
WithEnvSelected(c, n) == [c EXCEPT !.envSelected = n]

NamedOps == {Plain(op, n) : op \in {"use", "remove"}, n \in Names}
PlainOps == {Plain(op, NoName) : op \in {"clear", "setting", "request"}}

\* Rotating a key (server left out), setting a server, and a missing key.
Adds ==
  {WithFields(Plain("add", n), k, s) : n \in Names, k \in {k1, k2}, s \in {NoValue, s1}}
    \union {WithFields(Plain("add", n), NoValue, s1) : n \in Names}
Setups == {WithFields(Plain("setup", n), k2, NoValue) : n \in NameOrNone}

\* The same commands with a profile forced by flag or environment.
Overridden(cs) ==
  {WithFlag(c, n) : c \in cs, n \in NameOrNone}
    \union {WithEnv(c, n) : c \in cs, n \in Names}
    \union {WithEnvSelected(c, n) : c \in cs, n \in Names}

\* One at a time: every command, and overrides of those they can change.
SerialCommands ==
  NamedOps \union PlainOps \union Adds \union Setups
    \union Overridden({Plain("request", NoName), WithFields(Plain("setup", NoName), k2, NoValue)}
                        \union {Plain("remove", n) : n \in Names}
                        \union {WithFields(Plain("add", n), k1, NoValue) : n \in Names})

\* Overlapping: one command of each kind that reads or writes either file.
OverlapCommands ==
  {Plain("use", work), Plain("remove", Legacy), Plain("clear", NoName), Plain("setting", NoName)}
    \union {WithFields(Plain("add", work), k, NoValue) : k \in {k1, NoValue}}

FreshOrLegacy == {NoProfiles, [NoProfiles EXCEPT ![Legacy] = Given(k1, NoValue)]}
=============================================================================
