------------------------------ MODULE Project ------------------------------
(***************************************************************************)
(* init, generate and sync (main.go) on the files of one project. A command*)
(* writes its files one after another, each truncated and then filled, and *)
(* may be killed or fail at any of them. cli/generated belongs to the      *)
(* generator, the other files to the user once they exist, but for the     *)
(* entry point and .bartolo.json, which sync refreshes. The user edits and *)
(* deletes files between commands.                                         *)
(***************************************************************************)
EXTENDS Naturals, SequencesExt

CONSTANTS
  Specs,       \* the OpenAPI files, by the short name normalizeSpecName gives them
  NoSpec,      \* no spec recorded
  Apis,        \* what ProcessAPI may make of a spec: [groups, tools]
  MaxCommands, \* bounds: commands run, edits made
  MaxEdits

VARIABLES
  disk,     \* [File -> FileState]
  config,   \* .bartolo.json
  package,  \* [the files of cli/generated -> what each was written from]
  todo,     \* the operations the running command has left, <<>> when none runs
  command,  \* the spec and the config the running command holds
  made,     \* what the last command generated, if it ended well and nothing changed since
  ran,      \* counters for the bounds
  edits

projectVars == <<disk, config, package, todo, command, made, ran, edits>>

\* What the user builds with: each is written, and kept, by itself.
Tooling == <<"Makefile", "build.sh", "install-local.sh", ".gitignore", ".editorconfig", ".gitattributes",
             ".env.example">>

File == {"main.go", "custom", "go.mod", "README.md", "README.generated.md", "examples"} \union ToSet(Tooling)

FileState == {"absent", "written", "torn", "edited", "tidied"}

\* Never touched again once they exist.
UserFile == {"custom", "README.md"} \union ToSet(Tooling)

Surface == {"cli", "mcp"}
Config == [state : {"absent", "torn", "ok"}, targets : SUBSET Surface, spec : Specs \union {NoSpec},
           mcpOK : BOOLEAN]
\* The groups that have a command for the CLI, and whether any tool is included.
Api == [groups : Seq(Seq(STRING)), tools : BOOLEAN]

\* A group named root would write its commands over those of the root.
ASSUME ApisAssumption == \A a \in Apis : a \in Api /\ <<"root">> \notin ToSet(a.groups)
ASSUME NoSpecAssumption == NoSpec \notin Specs

NoConfig == [state |-> "absent", targets |-> {}, spec |-> NoSpec, mcpOK |-> TRUE]
Torn == [NoConfig EXCEPT !.state = "torn"]

\* Nothing was generated.
NoApi == [spec |-> NoSpec, groups |-> <<>>, tools |-> FALSE, surfaces |-> {}]

\* An absent or unreadable config means both surfaces, and so does an empty list.
LoadProjectConfig == IF config.state = "ok" THEN config ELSE NoConfig
EffectiveTargets(c) == IF c.targets = {} THEN Surface ELSE c.targets

ProjectInit ==
  /\ disk = [f \in File |-> "absent"]
  /\ config = NoConfig
  /\ package = <<>>
  /\ todo = <<>>
  /\ command = [spec |-> NoSpec, config |-> NoConfig]
  /\ made = NoApi
  /\ ran = 0
  /\ edits = 0

(***************************************************************************)
(* The operations of a command.                                            *)
(***************************************************************************)
Part(kind, name) == [kind |-> kind, name |-> name]

Write(file)        == [op |-> "write", file |-> file, part |-> Part("none", <<>>), from |-> NoApi]
WriteIfMissing(file) == [Write(file) EXCEPT !.op = "missing"]
WritePart(part, from) == [op |-> "part", file |-> "none", part |-> part, from |-> from]
Op(name) == [Write("none") EXCEPT !.op = name]

RegisterPart == Part("register", <<>>)

Scaffold ==
  <<Write("main.go"), WritePart(RegisterPart, NoApi), WriteIfMissing("custom"),
    WriteIfMissing("go.mod")>> \o
  [i \in 1 .. Len(Tooling) |-> WriteIfMissing(Tooling[i])] \o <<Op("config")>>

\* HasMCPTools
HasTools(from) == from.tools /\ "mcp" \in from.surfaces

CommandFiles(from) ==
  IF "cli" \in from.surfaces
  THEN <<WritePart(Part("root", <<>>), from)>> \o
       [i \in 1 .. Len(from.groups) |-> WritePart(Part("group", from.groups[i]), from)]
  ELSE <<>>

\* writeGeneratedCommandFiles, which deletes the package first.
PackageFiles(from) ==
  <<WritePart(Part("client", from.spec), from), WritePart(RegisterPart, from)>> \o
  CommandFiles(from) \o
  (IF HasTools(from) THEN <<WritePart(Part("mcp", <<>>), from)>> ELSE <<>>)

\* What Register calls, by its template.
RegisterCalls(from) ==
  (IF "cli" \in from.surfaces
   THEN {Part("root", <<>>)} \union {Part("group", g) : g \in ToSet(from.groups)} ELSE {}) \union
  (IF HasTools(from) THEN {Part("mcp", <<>>)} ELSE {})

GenerateFiles(from, recorded) ==
  PackageFiles(from) \o <<Op("readme"), Write("examples")>> \o
  (IF recorded THEN <<Op("config")>> ELSE <<>>)

GenerateOps(from, recorded) == <<Op("reset")>> \o GenerateFiles(from, recorded)

(***************************************************************************)
(* Starting a command.                                                     *)
(***************************************************************************)
Idle == todo = <<>>

Start(spec, conf, operations) ==
  /\ Idle /\ ran < MaxCommands
  /\ command' = [spec |-> spec, config |-> conf]
  /\ todo' = operations
  /\ made' = NoApi
  /\ ran' = ran + 1
  /\ UNCHANGED <<disk, config, package, edits>>

\* init refuses to run over an existing entry point, and forgets a recorded spec.
StartInit(targets) ==
  /\ disk["main.go"] = "absent"
  /\ Start(NoSpec, [NoConfig EXCEPT !.state = "ok", !.targets = targets],
           Scaffold \o <<Op("tidy")>>)

StartGenerate(spec) == Start(spec, NoConfig, <<Op("process"), Op("tidy")>>)

\* The spec sync was given, else the one recorded; targets are settled first.
StartSync(spec, targets) ==
  LET held == LoadProjectConfig
      used == IF spec = NoSpec THEN held.spec ELSE spec
      first == [held EXCEPT !.targets = IF @ = {} THEN targets ELSE @]
  IN  /\ held.state = "ok"
      /\ Start(used, first,
               Scaffold \o (IF used = NoSpec THEN <<Op("tidy")>> ELSE <<Op("process"), Op("tidy")>>))

(***************************************************************************)
(* The steps of a command.                                                 *)
(***************************************************************************)
Doing(op) == ~Idle /\ Head(todo).op = op

WriteFile ==
  /\ Doing("write")
  /\ disk' = [disk EXCEPT ![Head(todo).file] = "written"]
  /\ todo' = Tail(todo)
  /\ UNCHANGED <<config, package, command, made, ran, edits>>

WriteMissingFile ==
  /\ Doing("missing")
  /\ disk' = [disk EXCEPT ![Head(todo).file] = IF @ = "absent" THEN "written" ELSE @]
  /\ todo' = Tail(todo)
  /\ UNCHANGED <<config, package, command, made, ran, edits>>

\* Seeded fault: the README is generated over the user's.
OneReadme == "README.md"

ReadmeTarget == IF disk["README.md"] = "absent" THEN "README.md" ELSE "README.generated.md"

WriteReadme ==
  /\ Doing("readme")
  /\ disk' = [disk EXCEPT ![ReadmeTarget] = "written"]
  /\ todo' = Tail(todo)
  /\ UNCHANGED <<config, package, command, made, ran, edits>>

WriteConfig ==
  /\ Doing("config")
  /\ config' = command.config
  /\ todo' = Tail(todo)
  /\ UNCHANGED <<disk, package, command, made, ran, edits>>

\* Seeded fault: what an earlier generation left behind stays.
KeepGeneratedPackage == UNCHANGED package

ResetGeneratedPackage == package' = <<>>

ResetPackage ==
  /\ Doing("reset")
  /\ ResetGeneratedPackage
  /\ todo' = Tail(todo)
  /\ UNCHANGED <<disk, config, command, made, ran, edits>>

With(part, from) == [p \in DOMAIN package \union {part} |-> IF p = part THEN from ELSE package[p]]

WritePackageFile ==
  /\ Doing("part")
  /\ package' = With(Head(todo).part, Head(todo).from)
  /\ todo' = Tail(todo)
  /\ UNCHANGED <<disk, config, command, made, ran, edits>>

\* The spec was read and processed; only now is the config loaded (again).
Processed(api, targets) ==
  LET held     == LoadProjectConfig
      recorded == held.state = "ok"
      asked    == IF recorded /\ held.targets = {} THEN targets ELSE held.targets
      from     == [spec |-> command.spec, groups |-> api.groups, tools |-> api.tools,
                   surfaces |-> EffectiveTargets([held EXCEPT !.targets = asked])]
  IN  /\ Doing("process")
      /\ held.mcpOK
      /\ command' = [command EXCEPT !.config = [held EXCEPT !.targets = asked, !.spec = command.spec]]
      /\ todo' = GenerateOps(from, recorded) \o Tail(todo)
      /\ made' = from
      /\ UNCHANGED <<disk, config, package, ran, edits>>

\* go mod tidy may rewrite the module file; it warns where it fails.
Tidy ==
  /\ Doing("tidy")
  /\ \E tidied \in {"tidied", disk["go.mod"]} :
       disk' = [disk EXCEPT !["go.mod"] = IF @ = "absent" THEN @ ELSE tidied]
  /\ todo' = Tail(todo)
  /\ UNCHANGED <<config, package, command, made, ran, edits>>

(***************************************************************************)
(* Commands that do not get to their end.                                  *)
(***************************************************************************)
Fail ==
  /\ todo' = <<>>
  /\ made' = NoApi
  /\ UNCHANGED <<command, ran, edits>>

\* The spec is not there or not valid, or mcp in the config is not.
CannotProcess ==
  /\ Doing("process")
  /\ Fail /\ UNCHANGED <<disk, config, package>>

Killed == ~Idle /\ Fail /\ UNCHANGED <<disk, config, package>>

\* A failed write leaves what it got to, and so does a kill inside one; source
\* that does not format is written as it is and panics.
Opened ==
  CASE Head(todo).op \in {"write", "missing"} -> Head(todo).file
    [] Head(todo).op = "readme" -> ReadmeTarget

TearFile ==
  /\ ~Idle /\ Head(todo).op \in {"write", "missing", "readme"}
  /\ Head(todo).op = "missing" => disk[Opened] = "absent"
  /\ disk' = [disk EXCEPT ![Opened] = "torn"]
  /\ Fail /\ UNCHANGED <<config, package>>

TearConfig == Doing("config") /\ config' = Torn /\ Fail /\ UNCHANGED <<disk, package>>

TearPackageFile ==
  /\ Doing("part")
  /\ package' = With(Head(todo).part, NoApi)
  /\ Fail /\ UNCHANGED <<disk, config>>

\* RemoveAll stops at a file it cannot remove.
TearReset ==
  /\ Doing("reset")
  /\ \E left \in SUBSET DOMAIN package : package' = [p \in left |-> package[p]]
  /\ Fail /\ UNCHANGED <<disk, config>>

(***************************************************************************)
(* The user, between commands.                                             *)
(***************************************************************************)
EditFile ==
  /\ Idle /\ edits < MaxEdits
  /\ \E f \in File, state \in {"edited", "absent"} : disk' = [disk EXCEPT ![f] = state]
  /\ edits' = edits + 1
  /\ UNCHANGED <<config, package, todo, command, made, ran>>

EditConfig ==
  /\ Idle /\ edits < MaxEdits
  /\ \E c \in {NoConfig} \union
          [state : {"ok"}, targets : SUBSET Surface, spec : {config.spec}, mcpOK : BOOLEAN] :
       config' = c
  /\ edits' = edits + 1
  /\ made' = NoApi
  /\ UNCHANGED <<disk, package, todo, command, ran>>

Step ==
  \/ WriteFile \/ WriteMissingFile \/ WriteReadme \/ WriteConfig
  \/ ResetPackage \/ WritePackageFile \/ Tidy

Broken == CannotProcess \/ Killed \/ TearFile \/ TearConfig \/ TearPackageFile \/ TearReset

StartCommand ==
  \/ \E targets \in SUBSET Surface \ {{}} : StartInit(targets)
  \/ \E spec \in Specs : StartGenerate(spec)
  \/ \E spec \in Specs \union {NoSpec}, targets \in SUBSET Surface \ {{}} : StartSync(spec, targets)

ProcessSpec == \E api \in Apis, targets \in SUBSET Surface \ {{}} : Processed(api, targets)

ProjectNext == StartCommand \/ ProcessSpec \/ Step \/ Broken \/ EditFile \/ EditConfig

ProjectSpec == ProjectInit /\ [][ProjectNext]_projectVars

(***************************************************************************)
(* Properties.                                                             *)
(***************************************************************************)
\* What a generate or sync that ended leaves in cli/generated is one spec's:
\* nothing of an earlier spec or of a command that broke off is left, every
\* function Register calls has its file and every file is called, and the config
\* remembers the spec for the next sync (main.go generateFromSpec).
PackageIsWhole ==
  Idle /\ made # NoApi =>
    /\ \A p \in DOMAIN package : package[p] = made
    /\ DOMAIN package = {Part("client", made.spec), RegisterPart} \union RegisterCalls(made)
    /\ config.state = "ok" => config.spec = made.spec

\* No command, whole or broken off, changes a file that is the user's once it
\* exists, whatever wrote it first (main.go writeFileIfMissing,
\* writeCustomPackageStub, writeGeneratedREADME).
UserFilesKept ==
  [][\A f \in UserFile : disk[f] # "absent" /\ edits' = edits => disk'[f] = disk[f]]_projectVars
=============================================================================
