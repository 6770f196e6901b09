--------------------------- MODULE MCCliSettings ---------------------------
(***************************************************************************)
(* An instance of CliOutput: two profiles, of which one has a server;      *)
(* config files of this version and an older one; every place a server or  *)
(* a key may come from; and responses of every shape.                      *)
(***************************************************************************)
EXTENDS CliOutput, NormalizedValues

CONSTANTS staging, bare, unknown    \* profiles: bound to a server, not bound, not stored
CONSTANTS keyS, keyB, keyE, keyD    \* their keys, the exported one, the one in .env
CONSTANTS Other                     \* a switch that is no boolean

MCProfiles ==
  [n \in {staging, bare} |->
     IF n = staging THEN [key |-> keyS, server |-> Url("https", "staging")]
     ELSE [key |-> keyB, server |-> Blank]]

MCServers == <<Url("https", "one"), Url("https", "two")>>

\* Server values as typed: without a scheme, ambiguous, mistyped, not http, ...
Bare(host) == [Url("none", host) EXCEPT !.canonical = FALSE]
Odd == {Bare("localhost"), Url("typo", "https"), Url("ftp", "api"), Url("https", ""),
        [Bare("api") EXCEPT !.user = TRUE], [Url("https", "api") EXCEPT !.query = TRUE]}

\* config.json: an older version's, empty or not, this one's, both, and a broken one.
With(tree, k, v) == [tree EXCEPT ![k] = v]
Old == With(NoKeys, "server", Bare("old"))
New == With(With(With(NoKeys, "server-default", Url("https", "new")), "server-index", 1), "output-format", "yaml")
MCHomes ==
  {[file |-> f, system |-> Nothing] : f \in
     {With(NoKeys, "server", Blank), Old, New, With(New, "server", Bare("old")), Invalid}}
    \union {[file |-> With(Old, "profile-selected", staging),
             system |-> With(NoKeys, "server-default", Url("https", "corp"))]}

\* Where it runs.
Around(env, switch, files) == [env |-> env, switch |-> switch, files |-> files, unreadable |-> FALSE]
Exported == [NoVariables EXCEPT !["api-key"] = keyE, !["unrelated"] = keyE]
DotEnv == [NoVariables EXCEPT !["api-key"] = keyD, !["unrelated"] = keyD]
DotProfile == [NoVariables EXCEPT !["profile"] = staging, !["server"] = Bare("dot")]
Plain == Around(Exported, Unset, <<>>)
Unreadable == [Plain EXCEPT !.unreadable = TRUE]
Ambient == {Around([Exported EXCEPT ![k] = Bare("env")], Unset, <<>>) : k \in {"server", "server-default"}}
  \union {Around([Exported EXCEPT !["server"] = Url("ftp", "env")], Unset, <<>>),
          Around([Exported EXCEPT !["output-format"] = "csv"], Unset, <<>>),
          Around([Exported EXCEPT !["server-index"] = 7, !["profile"] = bare], Unset, <<>>)}
FromFiles ==
  {Around(NoVariables, s, <<DotEnv, DotProfile>>) : s \in {Unset, Blank, TRUE, FALSE, Other}}
    \union {Around([NoVariables EXCEPT !["api-key"] = Blank], TRUE, <<DotEnv>>),
            Around(Exported, TRUE, <<DotProfile, DotEnv>>)}
MCSurroundings == {Plain} \union Ambient \union FromFiles

\* How a response is shown: at a terminal or not, with columns or not.
AtTerminal ==
  [list |-> TRUE, terminal |-> TRUE, raw |-> FALSE, override |-> FALSE, selected |-> <<>>,
   declared |-> <<>>, projected |-> FALSE, fitting |-> 2]
ToolKeys == <<Part("settings"), Each("tools"), Part("key")>>
Hows ==
  {AtTerminal, [AtTerminal EXCEPT !.terminal = FALSE], [AtTerminal EXCEPT !.raw = TRUE],
   [AtTerminal EXCEPT !.list = FALSE], [AtTerminal EXCEPT !.override = TRUE]}
    \union {[AtTerminal EXCEPT !.declared = <<c>>, !.projected = j] : c \in {Key("id"), ToolKeys}, j \in BOOLEAN}
    \union {[AtTerminal EXCEPT !.override = TRUE, !.selected = <<c>>] :
              c \in {Key("nmae"), <<Part("settings"), Part("mode")>>, <<Each("ids"), Part("key")>>}}

\* Responses.
Member(name, value) == [k \in {Key(name)} |-> value]
Record(at) == Object("string", at)
Id(n) == Record(Member("id", Text(n)))
Two == List(<<Id("a"), Id("b")>>)
Tools(items) ==
  Record(Member("settings", Record(Member("tools", List(items)) @@ Member("mode", Text("x")))))
Responses ==
  {Null, Text("done"), Two, List(<<>>), List(<<Text("a"), Null>>), List(<<Id("a"), Text("b")>>),
   List(<<Tools(<<>>), Tools(<<Id("t")>>), Tools(<<Record(Member("key", Text("k")))>>)>>),
   List(<<Tools(<<Id("t")>>)>>), List(<<Record(Member("ids", Text("a")))>>), List(<<Record(Member("sub", Id("a")))>>)}
  \union {Record(at) : at \in
    {Member("data", Two) @@ Member("total", Number(9)),
     Member("items", List(<<>>)) @@ Member("has_more", Truth(TRUE)) @@ Member("note", Text("n")),
     Member("data", List(<<>>)) @@ Member("matches", Two),
     Member("data", List(<<>>)) @@ Member("matches", Two) @@ Member("warnings", Two),
     Member("ids", List(<<Text("a")>>)) @@ Member("warnings", List(<<>>)),
     Member("matches", Two) @@ Member("object", Text("list")) @@ Member("next_cursor", Text("c")),
     Member("results", Two) @@ Member("total_pages", Number(2)) @@ Member("errors", Two),
     Member("results", Two) @@ Member("errors", List(<<Id("x")>>)),
     Member("left", Two) @@ Member("right", Two)}}
  \union {Object("any", Member("data", Two)), Object("odd", Member("data", Two))}

\* Command lines.
Line(op, arg) == [op |-> op, arg |-> arg, flag |-> NoKeys, data |-> Null, how |-> AtTerminal]
Flagged(c, k, v) == [c EXCEPT !.flag[k] = v]
Request == Line("request", Blank)
Deciding ==
  {Line("set", u) : u \in Odd \union {Bare("api"), Url("https", "api")}} \union {Line("clear", Blank)}
    \union {Line("use", [by |-> "index", index |-> i]) : i \in {1, 7}}
    \union {Line("use", [by |-> "url", url |-> Url("https", h)]) : h \in {"two", "elsewhere"}}
Formats == {Line("format", f) : f \in {Blank, "yaml", "csv"}}
Redirecting ==
  {Flagged(Request, "server", s) : s \in {Bare("flag"), Blank, Url("ftp", "flag")}}
    \union {Flagged(Request, "profile", n) : n \in {staging, bare, unknown, Blank}}
    \union {Flagged(Request, "output-format", "json")}
Absolutes == {[Flagged(Line("raw", Url("https", "else")), "profile", n) EXCEPT !.how.list = FALSE] : n \in {staging, bare}}
Views == {[Request EXCEPT !.data = d, !.how = h] : d \in Responses, h \in Hows}
Others == {Line("list", Blank), Line("current", Blank), Flagged(Line("clear", Blank), "server", Bare("flag"))}
Launched(cmds, arounds) == [cmd : cmds, around : arounds]
MCLaunches ==
  Launched(Deciding \union Formats \union Views \union Absolutes \union {Line("raw", Blank)}, {Plain})
    \union Launched(Redirecting \union Others \union {Request}, MCSurroundings)
    \union Launched({Line("clear", Blank), Line("format", "yaml"), Request}, {Unreadable})

\* Beside each other: one command of each kind, nothing set around them.
MCConcurrent ==
  Launched({Line("clear", Blank), Line("format", "yaml"), Request}, {Plain})

Alike == Permutations(Procs)
=============================================================================
