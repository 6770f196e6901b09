--------------------------- MODULE ProjectProofs ---------------------------
(***************************************************************************)
(* For any specs, APIs, edits and failures: commands keep the user's files,*)
(* and what a generation that ended leaves is whole. The invariant is about*)
(* the operations a command has left: which files they overwrite, and that *)
(* with what is already in cli/generated they make the whole package.      *)
(***************************************************************************)
EXTENDS Project, SequenceTheorems, TLAPS

Kinds == {"none", "client", "register", "root", "group", "mcp"}
OpNames == {"write", "missing", "part", "config", "reset", "readme", "process", "tidy"}
FileNames == File \union {"none"}
PartName == Specs \union {NoSpec} \union Seq(STRING)
Parts == [kind : Kinds, name : PartName]
From == [spec : Specs \union {NoSpec}, groups : Seq(Seq(STRING)), tools : BOOLEAN,
         surfaces : SUBSET Surface]
Operation == [op : OpNames, file : FileNames, part : Parts, from : From]

\* What is written without a look at what is there is not the user's.
Overwritten == File \ UserFile

ProjectTypeOK ==
  /\ disk \in [File -> FileState]
  /\ config \in Config
  /\ command \in [spec : Specs \union {NoSpec}, config : Config]
  /\ made \in From
  /\ todo \in Seq(Operation)
  /\ edits \in Nat

Left(name) == {o \in ToSet(todo) : o.op = name}
PartsLeft == {o.part : o \in Left("part")}
WholeOf(from) == {Part("client", from.spec), RegisterPart} \union RegisterCalls(from)

KeepsFiles ==
  \A o \in ToSet(todo) : /\ o.op = "write" => o.file \in Overwritten
                         /\ o.op = "missing" => o.file \in File

\* Once the spec is processed only its generation and go mod tidy are left.
ProcessedLast ==
  \A i, j \in 1 .. Len(todo) : i < j /\ todo[i].op = "process" => todo[j].op = "tidy"

\* A generation under way: nothing is written yet, or what is written and what
\* is left make the whole.
Generating ==
  made # NoApi =>
    /\ \A o \in Left("part") : o.from = made
    /\ Left("process") = {}
    /\ Left("reset") # {} =>
         /\ Head(todo).op = "reset"
         /\ \A o \in ToSet(Tail(todo)) : o.op # "reset"
         /\ PartsLeft = WholeOf(made)
    /\ Left("reset") = {} =>
         /\ \A p \in DOMAIN package : package[p] = made
         /\ DOMAIN package \union PartsLeft = WholeOf(made)
    /\ \/ Left("config") # {} /\ command.config.spec = made.spec
       \/ Left("config") = {} /\ (config.state = "ok" => config.spec = made.spec)

ProjectInv == ProjectTypeOK /\ KeepsFiles /\ ProcessedLast /\ Generating

(***************************************************************************)
(* Sequences of operations as sets.                                        *)
(***************************************************************************)
\* A first element and the rest.
LEMMA TailElems ==
  ASSUME NEW S, NEW s \in Seq(S), s # <<>>
  PROVE  /\ Tail(s) \in Seq(S) /\ Head(s) \in S /\ Head(s) = s[1]
         /\ Len(Tail(s)) = Len(s) - 1
         /\ \A i \in 1 .. Len(Tail(s)) : Tail(s)[i] = s[i + 1]
         /\ ToSet(s) = {Head(s)} \union ToSet(Tail(s))
<1>1. /\ Tail(s) \in Seq(S) /\ Head(s) \in S /\ Head(s) = s[1]
      /\ Len(Tail(s)) = Len(s) - 1 /\ Len(s) \in Nat \ {0}
      /\ \A i \in 1 .. Len(Tail(s)) : Tail(s)[i] = s[i + 1]
  BY HeadTailProperties, EmptySeq, LenProperties
<1>d. DOMAIN s = 1 .. Len(s) /\ DOMAIN Tail(s) = 1 .. Len(Tail(s))
  BY <1>1, LenProperties
<1>2. ASSUME NEW x \in ToSet(s) PROVE x \in {Head(s)} \union ToSet(Tail(s))
  <2>1. PICK i \in 1 .. Len(s) : x = s[i]
    BY DEF ToSet
  <2>2. CASE i = 1
    BY <1>1, <2>1, <2>2
  <2>3. CASE i # 1
    <3>1. i - 1 \in 1 .. Len(Tail(s)) /\ Tail(s)[i - 1] = s[i]
      BY <1>1, <2>1, <2>3
    <3> QED BY <1>d, <2>1, <3>1 DEF ToSet
  <2> QED BY <2>2, <2>3
<1>3. \A x \in {Head(s)} \union ToSet(Tail(s)) : x \in ToSet(s)
  <2>1. Head(s) \in ToSet(s)
    BY <1>1 DEF ToSet
  <2>2. ASSUME NEW x \in ToSet(Tail(s)) PROVE x \in ToSet(s)
    <3>1. PICK i \in 1 .. Len(Tail(s)) : x = Tail(s)[i]
      BY <1>1 DEF ToSet
    <3>2. i + 1 \in 1 .. Len(s) /\ x = s[i + 1]
      BY <1>1, <3>1
    <3> QED BY <3>2 DEF ToSet
  <2> QED BY <2>1, <2>2
<1> QED BY <1>1, <1>2, <1>3

LEMMA ConcatElems ==
  ASSUME NEW S, NEW s \in Seq(S), NEW t \in Seq(S)
  PROVE  s \o t \in Seq(S) /\ ToSet(s \o t) = ToSet(s) \union ToSet(t)
<1>1. /\ s \o t \in Seq(S) /\ Len(s \o t) = Len(s) + Len(t)
      /\ \A i \in 1 .. Len(s) : (s \o t)[i] = s[i]
      /\ \A i \in 1 .. Len(t) : (s \o t)[Len(s) + i] = t[i]
      /\ Len(s) \in Nat /\ Len(t) \in Nat
  BY ConcatProperties, LenProperties
<1>2. ASSUME NEW x \in ToSet(s \o t) PROVE x \in ToSet(s) \union ToSet(t)
  <2>1. PICK i \in 1 .. Len(s \o t) : x = (s \o t)[i]
    BY <1>1 DEF ToSet
  <2>2. CASE i <= Len(s)
    BY <1>1, <2>1, <2>2 DEF ToSet
  <2>3. CASE ~(i <= Len(s))
    <3>1. i - Len(s) \in 1 .. Len(t) /\ x = t[i - Len(s)]
      BY <1>1, <2>1, <2>3
    <3> QED BY <3>1 DEF ToSet
  <2> QED BY <2>2, <2>3
<1>3. ASSUME NEW x \in ToSet(s) PROVE x \in ToSet(s \o t)
  <2>1. PICK i \in 1 .. Len(s) : x = s[i]
    BY DEF ToSet
  <2>2. i \in 1 .. Len(s \o t) /\ x = (s \o t)[i]
    BY <1>1, <2>1
  <2> QED BY <1>1, <2>2 DEF ToSet
<1>4. ASSUME NEW x \in ToSet(t) PROVE x \in ToSet(s \o t)
  <2>1. PICK i \in 1 .. Len(t) : x = t[i]
    BY DEF ToSet
  <2>2. Len(s) + i \in 1 .. Len(s \o t) /\ x = (s \o t)[Len(s) + i]
    BY <1>1, <2>1
  <2> QED BY <1>1, <2>2 DEF ToSet
<1> QED BY <1>1, <1>2, <1>3, <1>4

\* What follows an operation put before two sequences.
LEMMA ConsElems ==
  ASSUME NEW S, NEW x \in S, NEW w \in Seq(S), NEW t \in Seq(S)
  PROVE  LET s == (<<x>> \o w) \o t
         IN  /\ s \in Seq(S) /\ s # <<>> /\ Head(s) = x
             /\ ToSet(Tail(s)) = ToSet(w) \union ToSet(t)
<1> DEFINE s == (<<x>> \o w) \o t
<1>1. <<x>> \in Seq(S) /\ Len(<<x>>) = 1
  OBVIOUS
<1>2. /\ <<x>> \o w \in Seq(S) /\ Len(<<x>> \o w) = 1 + Len(w) /\ (<<x>> \o w)[1] = x
      /\ \A i \in 1 .. Len(w) : (<<x>> \o w)[1 + i] = w[i]
  BY <1>1, ConcatProperties, LenProperties
<1>3. /\ s \in Seq(S) /\ Len(s) = (1 + Len(w)) + Len(t) /\ s[1] = x
      /\ \A i \in 1 .. Len(w) : s[1 + i] = w[i]
      /\ \A i \in 1 .. Len(t) : s[(1 + Len(w)) + i] = t[i]
  <2>1. /\ s \in Seq(S) /\ Len(s) = (1 + Len(w)) + Len(t)
        /\ \A i \in 1 .. (1 + Len(w)) : s[i] = (<<x>> \o w)[i]
        /\ \A i \in 1 .. Len(t) : s[(1 + Len(w)) + i] = t[i]
    BY <1>2, ConcatProperties, LenProperties
  <2>2. Len(w) \in Nat
    BY LenProperties
  <2> QED BY <1>2, <2>1, <2>2
<1>4. s # <<>> /\ Len(w) \in Nat /\ Len(t) \in Nat
  BY <1>3, LenProperties
<1> HIDE DEF s
<1>5. /\ Head(s) = x /\ Tail(s) \in Seq(S) /\ Len(Tail(s)) = Len(w) + Len(t)
      /\ \A i \in 1 .. Len(Tail(s)) : Tail(s)[i] = s[i + 1]
  BY <1>3, <1>4, TailElems
<1>d. /\ DOMAIN Tail(s) = 1 .. Len(Tail(s)) /\ DOMAIN w = 1 .. Len(w) /\ DOMAIN t = 1 .. Len(t)
  BY <1>5, LenProperties
<1>6. ASSUME NEW y \in ToSet(Tail(s)) PROVE y \in ToSet(w) \union ToSet(t)
  <2>0. PICK i \in 1 .. Len(Tail(s)) : y = Tail(s)[i]
    BY <1>d DEF ToSet
  <2>1. y = s[i + 1]
    BY <1>5, <2>0
  <2>2. CASE i <= Len(w)
    <3>1. y = w[i]
      BY <1>3, <1>4, <2>1, <2>2
    <3> QED BY <1>4, <2>1, <2>2, <3>1 DEF ToSet
  <2>3. CASE ~(i <= Len(w))
    <3>0. i - Len(w) \in 1 .. Len(t) /\ (1 + Len(w)) + (i - Len(w)) = i + 1
      BY <1>4, <1>5, <2>3
    <3>1. i - Len(w) \in 1 .. Len(t) /\ y = t[i - Len(w)]
      <4>1. s[(1 + Len(w)) + (i - Len(w))] = t[i - Len(w)]
        BY <1>3, <3>0, Zenon
      <4> QED BY <2>1, <3>0, <4>1
    <3> QED BY <3>1 DEF ToSet
  <2> QED BY <2>2, <2>3
<1>7. ASSUME NEW y \in ToSet(w) PROVE y \in ToSet(Tail(s))
  <2>1. PICK i \in 1 .. Len(w) : y = w[i]
    BY DEF ToSet
  <2>2. i \in 1 .. Len(Tail(s)) /\ y = Tail(s)[i]
    BY <1>3, <1>4, <1>5, <2>1
  <2> QED BY <1>d, <2>2 DEF ToSet
<1>8. ASSUME NEW y \in ToSet(t) PROVE y \in ToSet(Tail(s))
  <2>1. PICK i \in 1 .. Len(t) : y = t[i]
    BY DEF ToSet
  <2>0. Len(w) + i \in 1 .. Len(Tail(s)) /\ (1 + Len(w)) + i = (Len(w) + i) + 1
    BY <1>4, <1>5
  <2>2. Len(w) + i \in 1 .. Len(Tail(s)) /\ y = Tail(s)[Len(w) + i]
    <3>1. s[(1 + Len(w)) + i] = t[i]
      BY <1>3, Zenon
    <3>2. Tail(s)[Len(w) + i] = s[(Len(w) + i) + 1]
      BY <1>5, <2>0
    <3> QED BY <2>0, <2>1, <3>1, <3>2
  <2> QED BY <1>d, <2>2 DEF ToSet
<1>9. s \in Seq(S) /\ s # <<>> /\ Head(s) = x /\ ToSet(Tail(s)) = ToSet(w) \union ToSet(t)
  BY <1>3, <1>4, <1>5, <1>6, <1>7, <1>8
<1> QED BY <1>9 DEF s

(***************************************************************************)
(* The operations of a generation.                                         *)
(***************************************************************************)
LEMMA OperationTypes ==
  /\ NoApi \in From /\ RegisterPart \in Parts /\ Part("none", <<>>) \in Parts
  /\ \A k \in Kinds, n \in PartName : Part(k, n) \in Parts
  /\ \A f \in FileNames : Write(f) \in Operation /\ WriteIfMissing(f) \in Operation
  /\ \A op \in OpNames : Op(op) \in Operation
  /\ \A p \in Parts, from \in From : WritePart(p, from) \in Operation
<1>1. <<>> \in PartName
  BY DEF PartName
<1>2. NoApi \in From
  BY DEF NoApi, From
<1>3. \A k \in Kinds, n \in PartName : Part(k, n) \in Parts
  BY DEF Part, Parts
<1>3a. RegisterPart \in Parts /\ Part("none", <<>>) \in Parts
  BY <1>1, <1>3 DEF RegisterPart, Kinds
<1>4. ASSUME NEW f \in FileNames PROVE Write(f) \in Operation
  BY <1>2, <1>3a DEF Write, Operation, OpNames
<1>5. ASSUME NEW f \in FileNames PROVE WriteIfMissing(f) \in Operation
  BY <1>4 DEF WriteIfMissing, Operation, OpNames
<1>5a. ASSUME NEW op \in OpNames PROVE Op(op) \in Operation
  <2>1. Write("none") \in Operation
    BY <1>4 DEF FileNames
  <2> QED BY <2>1 DEF Op, Operation
<1>6. ASSUME NEW p \in Parts, NEW from \in From PROVE WritePart(p, from) \in Operation
  BY DEF WritePart, Operation, OpNames, FileNames
<1> QED BY <1>2, <1>3, <1>3a, <1>4, <1>5, <1>5a, <1>6

\* The files of a package are the client, the registration and what it calls.
LEMMA PackageFilesAreWhole ==
  ASSUME NEW from \in From
  PROVE  /\ PackageFiles(from) \in Seq(Operation)
         /\ \A o \in ToSet(PackageFiles(from)) : o.op = "part" /\ o.from = from
         /\ {o.part : o \in ToSet(PackageFiles(from))} = WholeOf(from)
<1> DEFINE client   == WritePart(Part("client", from.spec), from)
           register == WritePart(RegisterPart, from)
           root     == WritePart(Part("root", <<>>), from)
           mcp      == WritePart(Part("mcp", <<>>), from)
           group(i) == WritePart(Part("group", from.groups[i]), from)
           groups   == [i \in 1 .. Len(from.groups) |-> group(i)]
           tools    == IF HasTools(from) THEN <<mcp>> ELSE <<>>
           always   == <<client, register>>
           first    == <<root>>
           commands == CommandFiles(from)
<1>0. /\ from.groups \in Seq(Seq(STRING)) /\ Len(from.groups) \in Nat
      /\ DOMAIN from.groups = 1 .. Len(from.groups)
      /\ \A i \in 1 .. Len(from.groups) : from.groups[i] \in Seq(STRING)
      /\ from.spec \in Specs \union {NoSpec}
  BY DEF From
<1>1. /\ client \in Operation /\ register \in Operation /\ root \in Operation /\ mcp \in Operation
      /\ \A i \in 1 .. Len(from.groups) : group(i) \in Operation
  <2>1. /\ Part("client", from.spec) \in Parts /\ Part("root", <<>>) \in Parts /\ Part("mcp", <<>>) \in Parts
        /\ \A i \in 1 .. Len(from.groups) : Part("group", from.groups[i]) \in Parts
    <3>1. /\ from.spec \in PartName /\ <<>> \in PartName
          /\ \A i \in 1 .. Len(from.groups) : from.groups[i] \in PartName
      BY <1>0 DEF PartName
    <3> QED BY <3>1, OperationTypes DEF Kinds
  <2> QED BY <2>1, OperationTypes
<1>2. /\ client.op = "part" /\ client.from = from /\ client.part = Part("client", from.spec)
      /\ register.op = "part" /\ register.from = from /\ register.part = RegisterPart
      /\ root.op = "part" /\ root.from = from /\ root.part = Part("root", <<>>)
      /\ mcp.op = "part" /\ mcp.from = from /\ mcp.part = Part("mcp", <<>>)
      /\ \A i \in 1 .. Len(from.groups) :
           group(i).op = "part" /\ group(i).from = from /\ group(i).part = Part("group", from.groups[i])
  BY DEF WritePart
<1>3. groups \in Seq(Operation) /\ ToSet(groups) = {group(i) : i \in 1 .. Len(from.groups)}
  <2>1. groups \in Seq(Operation) /\ DOMAIN groups = 1 .. Len(from.groups)
    BY <1>0, <1>1
  <2> QED BY <2>1 DEF ToSet
<1> HIDE DEF client, register, root, mcp, group, groups
<1>4. /\ always \in Seq(Operation) /\ ToSet(always) = {client, register}
      /\ first \in Seq(Operation) /\ ToSet(first) = {root}
      /\ tools \in Seq(Operation) /\ ToSet(tools) = IF HasTools(from) THEN {mcp} ELSE {}
  BY <1>1 DEF ToSet
<1>5. commands = IF "cli" \in from.surfaces THEN first \o groups ELSE <<>>
  BY DEF CommandFiles, root, groups, group
<1>7. PackageFiles(from) = (always \o commands) \o tools
  BY DEF PackageFiles, client, register, mcp, tools
<1> HIDE DEF tools, always, first, commands
<1>6. /\ commands \in Seq(Operation)
      /\ ToSet(commands) = IF "cli" \in from.surfaces THEN {root} \union ToSet(groups) ELSE {}
  <2>1. CASE "cli" \in from.surfaces
    <3>1. first \o groups \in Seq(Operation) /\ ToSet(first \o groups) = ToSet(first) \union ToSet(groups)
      BY <1>3, <1>4, ConcatElems
    <3> QED BY <1>4, <1>5, <2>1, <3>1
  <2>2. CASE "cli" \notin from.surfaces
    BY <1>5, <2>2 DEF ToSet
  <2> QED BY <2>1, <2>2
<1>8. /\ PackageFiles(from) \in Seq(Operation)
      /\ ToSet(PackageFiles(from)) =
           ({client, register} \union ToSet(commands)) \union ToSet(tools)
  <2>1. /\ always \o commands \in Seq(Operation)
        /\ ToSet(always \o commands) = ToSet(always) \union ToSet(commands)
    BY <1>4, <1>6, ConcatElems
  <2> DEFINE both == always \o commands
  <2>0. both \in Seq(Operation)
    BY <2>1
  <2> HIDE DEF both
  <2>3. both \o tools \in Seq(Operation) /\ ToSet(both \o tools) = ToSet(both) \union ToSet(tools)
    BY <1>4, <2>0, ConcatElems
  <2>2. /\ (always \o commands) \o tools \in Seq(Operation)
        /\ ToSet((always \o commands) \o tools) = ToSet(always \o commands) \union ToSet(tools)
    BY <2>3 DEF both
  <2> QED BY <1>4, <1>7, <2>1, <2>2
<1>9. ToSet(from.groups) = {from.groups[i] : i \in 1 .. Len(from.groups)}
  BY <1>0 DEF ToSet
<1>10. RegisterCalls(from) =
         (IF "cli" \in from.surfaces
          THEN {Part("root", <<>>)} \union {Part("group", from.groups[i]) : i \in 1 .. Len(from.groups)}
          ELSE {}) \union
         (IF HasTools(from) THEN {Part("mcp", <<>>)} ELSE {})
  BY <1>9 DEF RegisterCalls
<1>11. \A o \in ToSet(PackageFiles(from)) : o.op = "part" /\ o.from = from
  BY <1>2, <1>3, <1>4, <1>6, <1>8
<1>12. {o.part : o \in ToSet(PackageFiles(from))} = WholeOf(from)
  <2> DEFINE all == ToSet(PackageFiles(from))
  <2>0. /\ all = ({client, register} \union
                 (IF "cli" \in from.surfaces THEN {root} \union {group(i) : i \in 1 .. Len(from.groups)} ELSE {}))
                \union (IF HasTools(from) THEN {mcp} ELSE {})
        /\ WholeOf(from) = {client.part, register.part} \union
             ((IF "cli" \in from.surfaces
               THEN {root.part} \union {group(i).part : i \in 1 .. Len(from.groups)} ELSE {}) \union
              (IF HasTools(from) THEN {mcp.part} ELSE {}))
    <3>1. {group(i).part : i \in 1 .. Len(from.groups)} =
            {Part("group", from.groups[i]) : i \in 1 .. Len(from.groups)}
      BY <1>2
    <3> QED BY <1>2, <1>3, <1>4, <1>6, <1>8, <1>10, <3>1 DEF WholeOf
  <2> HIDE DEF all
  <2>1. ASSUME NEW o \in all PROVE o.part \in WholeOf(from)
    BY <2>0
  <2>2. ASSUME NEW p \in WholeOf(from) PROVE \E o \in all : o.part = p
    BY <2>0
  <2>3. {o.part : o \in all} = WholeOf(from)
    BY <2>1, <2>2
  <2> QED BY <2>3 DEF all
<1> QED BY <1>8, <1>11, <1>12

LEMMA GenerateFilesElems ==
  ASSUME NEW from \in From, NEW recorded \in BOOLEAN
  PROVE  /\ GenerateFiles(from, recorded) \in Seq(Operation)
         /\ ToSet(GenerateFiles(from, recorded)) =
              (ToSet(PackageFiles(from)) \union {Op("readme"), Write("examples")}) \union
              (IF recorded THEN {Op("config")} ELSE {})
<1> DEFINE files == PackageFiles(from)
           docs  == <<Op("readme"), Write("examples")>>
           last  == IF recorded THEN <<Op("config")>> ELSE <<>>
           both  == files \o docs
<1>1. Op("readme") \in Operation /\ Op("config") \in Operation /\ Write("examples") \in Operation
  BY OperationTypes DEF OpNames, FileNames, File
<1>2. /\ docs \in Seq(Operation) /\ ToSet(docs) = {Op("readme"), Write("examples")}
      /\ last \in Seq(Operation) /\ ToSet(last) = IF recorded THEN {Op("config")} ELSE {}
  BY <1>1 DEF ToSet
<1>3. GenerateFiles(from, recorded) = both \o last
  BY DEF GenerateFiles
<1>4. files \in Seq(Operation)
  BY PackageFilesAreWhole
<1> HIDE DEF files, docs, last
<1>5. both \in Seq(Operation) /\ ToSet(both) = ToSet(files) \union ToSet(docs)
  BY <1>2, <1>4, ConcatElems
<1> HIDE DEF both
<1>6. both \o last \in Seq(Operation) /\ ToSet(both \o last) = ToSet(both) \union ToSet(last)
  BY <1>2, <1>5, ConcatElems
<1> QED BY <1>2, <1>3, <1>5, <1>6 DEF files

(***************************************************************************)
(* The invariant.                                                          *)
(***************************************************************************)
\* A command that starts overwrites only the generator's files, and processes last.
LEMMA StartKeepsInv ==
  ASSUME ProjectInv,
         NEW spec \in Specs \union {NoSpec}, NEW conf \in Config, NEW operations \in Seq(Operation),
         Start(spec, conf, operations),
         \A o \in ToSet(operations) :
           /\ o.op = "write" => o.file \in Overwritten
           /\ o.op = "missing" => o.file \in File,
         \A i, j \in 1 .. Len(operations) : i < j /\ operations[i].op = "process" => operations[j].op = "tidy"
  PROVE  ProjectInv'
<1>1. /\ todo' = operations /\ made' = NoApi /\ command' = [spec |-> spec, config |-> conf]
      /\ disk' = disk /\ config' = config /\ edits' = edits
  BY DEF Start
<1>2. ProjectTypeOK'
  BY <1>1, OperationTypes DEF ProjectInv, ProjectTypeOK
<1>3. KeepsFiles' /\ ProcessedLast' /\ Generating'
  BY <1>1 DEF KeepsFiles, ProcessedLast, Generating
<1> QED BY <1>2, <1>3 DEF ProjectInv

\* Whose the files are.
LEMMA FilesApart ==
  /\ Overwritten = {"main.go", "go.mod", "README.generated.md", "examples"}
  /\ \A f \in File \ UserFile : f \in Overwritten
<1>1. ToSet(Tooling) = {"Makefile", "build.sh", "install-local.sh", ".gitignore", ".editorconfig",
                        ".gitattributes", ".env.example"}
  BY DEF Tooling, ToSet
<1> QED BY <1>1 DEF Overwritten, File, UserFile

LEMMA ScaffoldElems ==
  /\ Scaffold \in Seq(Operation) /\ Len(Scaffold) = 12
  /\ \A o \in ToSet(Scaffold) : /\ o.op = "write" => o.file \in Overwritten
                                /\ o.op = "missing" => o.file \in File
                                /\ o.op # "process"
<1> DEFINE Fine(o) == /\ o.op = "write" => o.file \in Overwritten
                      /\ o.op = "missing" => o.file \in File
                      /\ o.op # "process"
           front == <<Write("main.go"), WritePart(RegisterPart, NoApi), WriteIfMissing("custom"),
                      WriteIfMissing("go.mod")>>
           own   == [i \in 1 .. Len(Tooling) |-> WriteIfMissing(Tooling[i])]
           last  == <<Op("config")>>
           both  == front \o own
<1>1. Len(Tooling) = 7 /\ \A i \in 1 .. 7 : Tooling[i] \in ToSet(Tooling)
  BY DEF Tooling, ToSet
<1>2. "main.go" \in Overwritten /\ {"custom", "go.mod"} \union ToSet(Tooling) \subseteq File
  BY FilesApart DEF File
<1>3. \A file \in File : WriteIfMissing(file) \in Operation /\ Fine(WriteIfMissing(file))
  <2>1. \A file : WriteIfMissing(file).op = "missing" /\ WriteIfMissing(file).file = file
    BY DEF WriteIfMissing, Write
  <2>2. \A file \in File : WriteIfMissing(file) \in Operation
    BY OperationTypes DEF OpNames, FileNames
  <2> QED BY <2>1, <2>2
<1>4. /\ Write("main.go") \in Operation /\ Fine(Write("main.go"))
      /\ WritePart(RegisterPart, NoApi) \in Operation /\ Fine(WritePart(RegisterPart, NoApi))
      /\ Op("config") \in Operation /\ Fine(Op("config"))
  <2>1. /\ Write("main.go").op = "write" /\ Write("main.go").file = "main.go"
        /\ WritePart(RegisterPart, NoApi).op = "part" /\ Op("config").op = "config"
    BY DEF Write, WritePart, Op
  <2>2. /\ Write("main.go") \in Operation /\ Op("config") \in Operation
        /\ WritePart(RegisterPart, NoApi) \in Operation
    BY OperationTypes DEF OpNames, FileNames, File
  <2> QED BY <1>2, <2>1, <2>2
<1>5. Scaffold = both \o last
  BY DEF Scaffold
<1> HIDE DEF Fine
<1>6. front \in Seq(Operation) /\ Len(front) = 4 /\ \A o \in ToSet(front) : Fine(o)
  BY <1>2, <1>3, <1>4 DEF ToSet
<1>7. last \in Seq(Operation) /\ Len(last) = 1 /\ \A o \in ToSet(last) : Fine(o)
  BY <1>4 DEF ToSet
<1>8. own \in Seq(Operation) /\ Len(own) = 7 /\ \A o \in ToSet(own) : Fine(o)
  <2>1. \A i \in 1 .. 7 : own[i] \in Operation /\ Fine(own[i])
    BY <1>1, <1>2, <1>3
  <2>2. own = [i \in 1 .. 7 |-> own[i]]
    BY <1>1
  <2> HIDE DEF own
  <2>3. own \in Seq(Operation) /\ Len(own) = 7 /\ DOMAIN own = 1 .. 7
    BY <2>1, <2>2
  <2> QED BY <2>1, <2>3 DEF ToSet
<1> HIDE DEF front, own, last
<1>9. both \in Seq(Operation) /\ Len(both) = 11 /\ ToSet(both) = ToSet(front) \union ToSet(own)
  <2>1. Len(front \o own) = Len(front) + Len(own)
    BY <1>6, <1>8, ConcatProperties
  <2>2. front \o own \in Seq(Operation) /\ ToSet(front \o own) = ToSet(front) \union ToSet(own)
    BY <1>6, <1>8, ConcatElems
  <2> QED BY <1>6, <1>8, <2>1, <2>2
<1> HIDE DEF both
<1>10. /\ both \o last \in Seq(Operation) /\ Len(both \o last) = 12
       /\ ToSet(both \o last) = ToSet(both) \union ToSet(last)
  <2>1. Len(both \o last) = Len(both) + Len(last)
    BY <1>7, <1>9, ConcatProperties
  <2>2. both \o last \in Seq(Operation) /\ ToSet(both \o last) = ToSet(both) \union ToSet(last)
    BY <1>7, <1>9, ConcatElems
  <2> QED BY <1>7, <1>9, <2>1, <2>2
<1>11. \A o \in ToSet(Scaffold) : Fine(o)
  BY <1>5, <1>6, <1>7, <1>8, <1>9, <1>10
<1> QED BY <1>5, <1>10, <1>11 DEF Fine

LEMMA StartCommandKeepsInv == ProjectInv /\ StartCommand => ProjectInv'
<1> SUFFICES ASSUME ProjectInv, StartCommand PROVE ProjectInv'
  OBVIOUS
<1> DEFINE tidy == Op("tidy")  process == Op("process")
<1>0. /\ tidy \in Operation /\ process \in Operation /\ tidy.op = "tidy" /\ process.op = "process"
  <2>1. tidy.op = "tidy" /\ process.op = "process"
    BY DEF Op, Write
  <2> QED BY <2>1, OperationTypes DEF OpNames
<1>a. NoConfig \in Config /\ config \in Config
  BY DEF NoConfig, Config, ProjectInv, ProjectTypeOK
<1> HIDE DEF tidy, process
<1>b. ASSUME NEW rest \in {<<tidy>>, <<process, tidy>>}
      PROVE  /\ rest \in Seq(Operation)
             /\ ToSet(rest) \subseteq {tidy, process}
             /\ \A i, j \in 1 .. Len(rest) : i < j /\ rest[i].op = "process" => rest[j].op = "tidy"
  <2>1. CASE rest = <<tidy>>
    BY <1>0, <2>1 DEF ToSet
  <2>2. CASE rest = <<process, tidy>>
    BY <1>0, <2>2 DEF ToSet
  <2> QED BY <2>1, <2>2
<1>c. ASSUME NEW rest \in {<<tidy>>, <<process, tidy>>}, NEW operations, operations = Scaffold \o rest
      PROVE  /\ operations \in Seq(Operation)
             /\ \A o \in ToSet(operations) : /\ o.op = "write" => o.file \in Overwritten
                                             /\ o.op = "missing" => o.file \in File
             /\ \A i, j \in 1 .. Len(operations) :
                  i < j /\ operations[i].op = "process" => operations[j].op = "tidy"
  <2>1. rest \in Seq(Operation) /\ ToSet(rest) \subseteq {tidy, process}
    BY <1>b
  <2>a. Scaffold \in Seq(Operation) /\ Len(Scaffold) = 12
    BY ScaffoldElems
  <2>b. operations \in Seq(Operation) /\ ToSet(operations) = ToSet(Scaffold) \union ToSet(rest)
    <3>1. Scaffold \o rest \in Seq(Operation) /\ ToSet(Scaffold \o rest) = ToSet(Scaffold) \union ToSet(rest)
      BY <2>1, <2>a, ConcatElems
    <3> QED BY <1>c, <3>1
  <2>c. /\ Len(operations) = 12 + Len(rest)
        /\ \A i \in 1 .. 12 + Len(rest) : operations[i] = IF i <= 12 THEN Scaffold[i] ELSE rest[i - 12]
    <3>1. /\ Len(Scaffold \o rest) = Len(Scaffold) + Len(rest)
          /\ \A i \in 1 .. Len(Scaffold) + Len(rest) :
               (Scaffold \o rest)[i] = IF i <= Len(Scaffold) THEN Scaffold[i] ELSE rest[i - Len(Scaffold)]
      BY <2>1, <2>a, ConcatProperties
    <3> QED BY <1>c, <2>a, <3>1
  <2>d. Len(rest) \in Nat
    BY <2>1, LenProperties
  <2>2. /\ operations \in Seq(Operation) /\ ToSet(operations) = ToSet(Scaffold) \union ToSet(rest)
        /\ Len(operations) = 12 + Len(rest) /\ Len(rest) \in Nat
        /\ \A i \in 1 .. 12 + Len(rest) : operations[i] = IF i <= 12 THEN Scaffold[i] ELSE rest[i - 12]
    BY <2>b, <2>c, <2>d
  <2>3. \A o \in ToSet(operations) : /\ o.op = "write" => o.file \in Overwritten
                                     /\ o.op = "missing" => o.file \in File
    BY <1>0, <2>1, <2>2, ScaffoldElems
  <2>4. ASSUME NEW i \in 1 .. Len(operations), NEW j \in 1 .. Len(operations),
               i < j, operations[i].op = "process"
        PROVE  operations[j].op = "tidy"
    <3>1. ~(i <= 12)
      <4>1. SUFFICES ASSUME i <= 12 PROVE FALSE
        OBVIOUS
      <4>2. operations[i] = Scaffold[i] /\ i \in 1 .. 12
        BY <2>2, <4>1
      <4>3. Scaffold[i] \in ToSet(Scaffold)
        BY <4>2, ScaffoldElems DEF ToSet
      <4> QED BY <2>4, <4>2, <4>3, ScaffoldElems
    <3>2. /\ operations[i] = rest[i - 12] /\ operations[j] = rest[j - 12]
          /\ i - 12 \in 1 .. Len(rest) /\ j - 12 \in 1 .. Len(rest) /\ i - 12 < j - 12
      BY <2>2, <2>4, <3>1
    <3> DEFINE m == i - 12
               n == j - 12
    <3>3. rest[m].op = "process" /\ m \in 1 .. Len(rest) /\ n \in 1 .. Len(rest) /\ m < n
      BY <2>4, <3>2
    <3>4. \A k, l \in 1 .. Len(rest) : k < l /\ rest[k].op = "process" => rest[l].op = "tidy"
      BY <1>b
    <3> HIDE DEF m, n
    <3>5. rest[n].op = "tidy"
      BY <3>3, <3>4
    <3> QED BY <3>2, <3>5 DEF n
  <2> QED BY <2>2, <2>3, <2>4
<1>1. ASSUME NEW targets \in SUBSET Surface \ {{}}, StartInit(targets) PROVE ProjectInv'
  <2>1. Start(NoSpec, [NoConfig EXCEPT !.state = "ok", !.targets = targets], Scaffold \o <<tidy>>)
    BY <1>1 DEF StartInit, tidy
  <2>2. [NoConfig EXCEPT !.state = "ok", !.targets = targets] \in Config
    BY <1>a DEF Config
  <2> DEFINE operations == Scaffold \o <<tidy>>
  <2>3. /\ operations \in Seq(Operation)
        /\ \A o \in ToSet(operations) : /\ o.op = "write" => o.file \in Overwritten
                                        /\ o.op = "missing" => o.file \in File
        /\ \A i, j \in 1 .. Len(operations) :
             i < j /\ operations[i].op = "process" => operations[j].op = "tidy"
    BY <1>c
  <2> HIDE DEF operations
  <2>4. Start(NoSpec, [NoConfig EXCEPT !.state = "ok", !.targets = targets], operations)
    BY <2>1 DEF operations
  <2> QED BY <2>2, <2>3, <2>4, StartKeepsInv
<1>2. ASSUME NEW spec \in Specs, StartGenerate(spec) PROVE ProjectInv'
  <2> DEFINE operations == <<process, tidy>>
  <2>1. Start(spec, NoConfig, operations)
    BY <1>2 DEF StartGenerate, process, tidy
  <2>2. /\ operations \in Seq(Operation)
        /\ ToSet(operations) \subseteq {tidy, process}
        /\ \A i, j \in 1 .. Len(operations) :
             i < j /\ operations[i].op = "process" => operations[j].op = "tidy"
    BY <1>b
  <2> HIDE DEF operations
  <2>3. \A o \in ToSet(operations) : /\ o.op = "write" => o.file \in Overwritten
                                     /\ o.op = "missing" => o.file \in File
    BY <1>0, <2>2
  <2> QED BY <1>a, <2>1, <2>2, <2>3, StartKeepsInv
<1>3. ASSUME NEW spec \in Specs \union {NoSpec}, NEW targets \in SUBSET Surface \ {{}}, StartSync(spec, targets)
      PROVE  ProjectInv'
  <2> DEFINE held == LoadProjectConfig
             used == IF spec = NoSpec THEN held.spec ELSE spec
             conf == [held EXCEPT !.targets = IF @ = {} THEN targets ELSE @]
             rest == IF used = NoSpec THEN <<tidy>> ELSE <<process, tidy>>
             operations == Scaffold \o rest
  <2>1. held \in Config
    BY <1>a DEF LoadProjectConfig
  <2>2. used \in Specs \union {NoSpec} /\ conf \in Config
    BY <2>1 DEF Config
  <2>3. Start(used, conf, operations)
    BY <1>3 DEF StartSync, process, tidy
  <2>4. rest \in {<<tidy>>, <<process, tidy>>}
    OBVIOUS
  <2> HIDE DEF rest, held
  <2>5. /\ operations \in Seq(Operation)
        /\ \A o \in ToSet(operations) : /\ o.op = "write" => o.file \in Overwritten
                                        /\ o.op = "missing" => o.file \in File
        /\ \A i, j \in 1 .. Len(operations) :
             i < j /\ operations[i].op = "process" => operations[j].op = "tidy"
    BY <1>c, <2>4
  <2> HIDE DEF operations, used, conf
  <2> QED BY <2>2, <2>3, <2>5, StartKeepsInv
<1> QED BY <1>1, <1>2, <1>3 DEF StartCommand

\* A processed spec leaves a whole generation to write.
LEMMA ProcessSpecKeepsInv == ProjectInv /\ ProcessSpec => ProjectInv'
<1> SUFFICES ASSUME ProjectInv, NEW api \in Apis, NEW targets \in SUBSET Surface \ {{}},
                    Processed(api, targets)
             PROVE  ProjectInv'
  BY DEF ProcessSpec
<1> DEFINE held     == LoadProjectConfig
           recorded == held.state = "ok"
           asked    == IF recorded /\ held.targets = {} THEN targets ELSE held.targets
           from     == [spec |-> command.spec, groups |-> api.groups, tools |-> api.tools,
                        surfaces |-> EffectiveTargets([held EXCEPT !.targets = asked])]
           reset    == Op("reset")
           files    == GenerateFiles(from, recorded)
           after    == Tail(todo)
<1>1. /\ todo # <<>> /\ Head(todo).op = "process"
      /\ command' = [command EXCEPT !.config = [held EXCEPT !.targets = asked, !.spec = command.spec]]
      /\ todo' = (<<reset>> \o files) \o after
      /\ made' = from
      /\ disk' = disk /\ config' = config /\ package' = package /\ edits' = edits
  BY DEF Processed, GenerateOps, Doing, Idle
<1>2. /\ held \in Config /\ recorded \in BOOLEAN /\ asked \in SUBSET Surface
      /\ config \in Config /\ command.spec \in Specs \union {NoSpec}
      /\ command \in [spec : Specs \union {NoSpec}, config : Config]
  BY DEF LoadProjectConfig, NoConfig, Config, ProjectInv, ProjectTypeOK
<1>3. from \in From /\ from.spec = command.spec
  <2>1. api \in Api
    BY ApisAssumption
  <2>2. EffectiveTargets([held EXCEPT !.targets = asked]) \in SUBSET Surface
    BY <1>2 DEF EffectiveTargets, Config
  <2> QED BY <1>2, <2>1, <2>2 DEF From, Api
<1>4. command' \in [spec : Specs \union {NoSpec}, config : Config] /\ command'.config.spec = command.spec
  BY <1>1, <1>2 DEF Config
<1>5. ~recorded => config'.state # "ok"
  BY <1>1 DEF LoadProjectConfig
<1> HIDE DEF recorded, asked, held, from
<1>6. after \in Seq(Operation) /\ \A o \in ToSet(after) : o.op = "tidy"
  <2>1. todo \in Seq(Operation)
    BY DEF ProjectInv, ProjectTypeOK
  <2>2. /\ after \in Seq(Operation) /\ Head(todo) = todo[1] /\ Len(after) = Len(todo) - 1
        /\ \A i \in 1 .. Len(after) : after[i] = todo[i + 1]
        /\ Len(todo) \in Nat
    BY <1>1, <2>1, TailElems, LenProperties
  <2>3. DOMAIN after = 1 .. Len(after)
    BY <2>2, LenProperties
  <2>4. ASSUME NEW o \in ToSet(after) PROVE o.op = "tidy"
    <3>1. PICK i \in 1 .. Len(after) : o = after[i]
      BY <2>3 DEF ToSet
    <3>2. o = todo[i + 1] /\ i + 1 \in 1 .. Len(todo) /\ 1 < i + 1 /\ 1 \in 1 .. Len(todo)
      BY <2>2, <3>1
    <3> QED BY <1>1, <2>2, <3>2 DEF ProjectInv, ProcessedLast
  <2> QED BY <2>2, <2>4
<1>7. reset \in Operation /\ reset.op = "reset"
  <2>1. reset.op = "reset"
    BY DEF Op, Write
  <2> QED BY <2>1, OperationTypes DEF OpNames
<1>8. /\ files \in Seq(Operation)
      /\ ToSet(files) = (ToSet(PackageFiles(from)) \union {Op("readme"), Write("examples")}) \union
                        (IF recorded THEN {Op("config")} ELSE {})
  BY <1>2, <1>3, GenerateFilesElems
<1> HIDE DEF reset, files, after
<1>9. /\ todo' \in Seq(Operation) /\ todo' # <<>> /\ Head(todo') = reset
      /\ ToSet(Tail(todo')) = ToSet(files) \union ToSet(after)
  BY <1>1, <1>6, <1>7, <1>8, ConsElems
<1>10. ToSet(todo') = {reset} \union (ToSet(files) \union ToSet(after))
  BY <1>9, TailElems
<1>11. /\ \A o \in ToSet(PackageFiles(from)) : o.op = "part" /\ o.from = from
       /\ {o.part : o \in ToSet(PackageFiles(from))} = WholeOf(from)
  BY <1>3, PackageFilesAreWhole
<1>12. /\ Op("readme").op = "readme" /\ Write("examples").op = "write"
       /\ Write("examples").file = "examples" /\ Op("config").op = "config"
  BY DEF Op, Write
<1>13. /\ \A o \in ToSet(files) : o.op \in {"part", "readme", "write", "config"}
       /\ \A o \in ToSet(files) : o.op = "part" <=> o \in ToSet(PackageFiles(from))
       /\ \A o \in ToSet(files) : o.op = "write" => o.file = "examples"
       /\ ToSet(PackageFiles(from)) \subseteq ToSet(files)
       /\ recorded <=> \E o \in ToSet(files) : o.op = "config"
  BY <1>8, <1>11, <1>12
<1>14. ProjectTypeOK'
  BY <1>1, <1>3, <1>4, <1>9 DEF ProjectInv, ProjectTypeOK
<1>15. KeepsFiles'
  <2>1. "examples" \in Overwritten
    BY FilesApart
  <2> QED BY <1>6, <1>7, <1>10, <1>13, <2>1 DEF KeepsFiles
<1>16. ProcessedLast'
  <2>1. \A o \in ToSet(todo') : o.op # "process"
    BY <1>6, <1>7, <1>10, <1>13
  <2>2. DOMAIN todo' = 1 .. Len(todo')
    BY <1>9, LenProperties
  <2>3. \A i \in 1 .. Len(todo') : todo'[i] \in ToSet(todo')
    BY <2>2 DEF ToSet
  <2> QED BY <2>1, <2>3 DEF ProcessedLast
<1>17. Generating'
  <2>1. Left("part")' = ToSet(PackageFiles(from))
    BY <1>6, <1>7, <1>10, <1>13 DEF Left
  <2>2. Left("process")' = {} /\ Left("reset")' # {}
    BY <1>6, <1>7, <1>10, <1>13 DEF Left
  <2>3. \A o \in ToSet(Tail(todo')) : o.op # "reset"
    BY <1>6, <1>9, <1>13
  <2>4. PartsLeft' = WholeOf(made')
    BY <1>1, <1>11, <2>1 DEF PartsLeft
  <2>5. \/ Left("config")' # {} /\ command'.config.spec = made'.spec
        \/ Left("config")' = {} /\ (config'.state = "ok" => config'.spec = made'.spec)
    <3>1. CASE recorded
      <4>1. PICK o \in ToSet(files) : o.op = "config"
        BY <1>13, <3>1
      <4>2. o \in Left("config")'
        BY <1>10, <4>1 DEF Left
      <4> QED BY <1>1, <1>3, <1>4, <4>2
    <3>2. CASE ~recorded
      <4>1. Left("config")' = {}
        BY <1>6, <1>7, <1>10, <1>13, <3>2 DEF Left
      <4> QED BY <1>5, <3>2, <4>1
    <3> QED BY <3>1, <3>2
  <2> QED BY <1>1, <1>7, <1>9, <1>11, <2>1, <2>2, <2>3, <2>4, <2>5 DEF Generating
<1> QED BY <1>14, <1>15, <1>16, <1>17 DEF ProjectInv

\* A step that does the first operation leaves the others.
LEMMA DoneFirst ==
  ASSUME ProjectInv, ~Idle, todo' = Tail(todo)
  PROVE  /\ todo' \in Seq(Operation) /\ KeepsFiles' /\ ProcessedLast'
         /\ Head(todo) \in Operation /\ Head(todo) \in ToSet(todo)
         /\ \A name \in OpNames :
              /\ Left(name)' \subseteq Left(name)
              /\ Head(todo).op = name => Left(name) = {Head(todo)} \union Left(name)'
              /\ Head(todo).op # name => Left(name)' = Left(name)
<1>1. /\ todo' \in Seq(Operation) /\ Head(todo) \in Operation
      /\ Len(todo') = Len(todo) - 1 /\ \A i \in 1 .. Len(todo') : todo'[i] = todo[i + 1]
      /\ ToSet(todo) = {Head(todo)} \union ToSet(todo')
      /\ Len(todo) \in Nat
  BY TailElems, LenProperties DEF ProjectInv, ProjectTypeOK, Idle
<1>2. KeepsFiles'
  BY <1>1 DEF ProjectInv, KeepsFiles
<1>3. ProcessedLast'
  <2>1. ASSUME NEW i \in 1 .. Len(todo'), NEW j \in 1 .. Len(todo'), i < j, todo'[i].op = "process"
        PROVE  todo'[j].op = "tidy"
    <3>1. /\ i + 1 \in 1 .. Len(todo) /\ j + 1 \in 1 .. Len(todo) /\ i + 1 < j + 1
          /\ todo'[i] = todo[i + 1] /\ todo'[j] = todo[j + 1]
      BY <1>1, <2>1
    <3> QED BY <2>1, <3>1 DEF ProjectInv, ProcessedLast
  <2> QED BY <2>1 DEF ProcessedLast
<1>4. ASSUME NEW name \in OpNames
      PROVE  /\ Left(name)' \subseteq Left(name)
             /\ Head(todo).op = name => Left(name) = {Head(todo)} \union Left(name)'
             /\ Head(todo).op # name => Left(name)' = Left(name)
  BY <1>1 DEF Left
<1> QED BY <1>1, <1>2, <1>3, <1>4

\* Operations that do not touch the package or the config.
LEMMA DoneElsewhere ==
  ASSUME ProjectInv, ~Idle, todo' = Tail(todo), UNCHANGED <<config, package, command, made>>,
         Head(todo).op \in {"write", "missing", "readme", "tidy"}
  PROVE  Generating'
<1>1. /\ Left("process")' \subseteq Left("process") /\ Left("reset")' = Left("reset")
      /\ Left("part")' = Left("part") /\ Left("config")' = Left("config")
  BY DoneFirst DEF OpNames
<1>2. PartsLeft' = PartsLeft
  BY <1>1 DEF PartsLeft
<1> QED BY <1>1, <1>2 DEF ProjectInv, Generating

LEMMA StepKeepsInv == ProjectInv /\ Step => ProjectInv'
<1> SUFFICES ASSUME ProjectInv, Step PROVE ProjectInv'
  OBVIOUS
<1> USE DEF ProjectInv
<1>1. ASSUME WriteFile PROVE ProjectInv'
  <2>1. ~Idle /\ todo' = Tail(todo) /\ Head(todo).op = "write"
    BY <1>1 DEF WriteFile, Doing
  <2>2. ProjectTypeOK'
    BY <1>1, <2>1, DoneFirst DEF WriteFile, ProjectTypeOK, FileState
  <2> QED BY <1>1, <2>1, <2>2, DoneFirst, DoneElsewhere DEF WriteFile
<1>2. ASSUME WriteMissingFile PROVE ProjectInv'
  <2>1. ~Idle /\ todo' = Tail(todo) /\ Head(todo).op = "missing"
    BY <1>2 DEF WriteMissingFile, Doing
  <2>2. ProjectTypeOK'
    BY <1>2, <2>1, DoneFirst DEF WriteMissingFile, ProjectTypeOK, FileState
  <2> QED BY <1>2, <2>1, <2>2, DoneFirst, DoneElsewhere DEF WriteMissingFile
<1>3. ASSUME WriteReadme PROVE ProjectInv'
  <2>1. ~Idle /\ todo' = Tail(todo) /\ Head(todo).op = "readme"
    BY <1>3 DEF WriteReadme, Doing
  <2>2. ProjectTypeOK'
    BY <1>3, <2>1, DoneFirst DEF WriteReadme, ProjectTypeOK, FileState
  <2> QED BY <1>3, <2>1, <2>2, DoneFirst, DoneElsewhere DEF WriteReadme
<1>4. ASSUME Tidy PROVE ProjectInv'
  <2>1. ~Idle /\ todo' = Tail(todo) /\ Head(todo).op = "tidy"
    BY <1>4 DEF Tidy, Doing
  <2>2. disk' \in [File -> FileState]
    BY <1>4 DEF Tidy, ProjectTypeOK, FileState, File
  <2>3. ProjectTypeOK'
    BY <1>4, <2>1, <2>2, DoneFirst DEF Tidy, ProjectTypeOK
  <2> QED BY <1>4, <2>1, <2>3, DoneFirst, DoneElsewhere DEF Tidy
<1>5. ASSUME WriteConfig PROVE ProjectInv'
  <2>1. ~Idle /\ todo' = Tail(todo) /\ Head(todo).op = "config" /\ config' = command.config
    BY <1>5 DEF WriteConfig, Doing
  <2>2. ProjectTypeOK'
    BY <1>5, <2>1, DoneFirst DEF WriteConfig, ProjectTypeOK
  <2>3. Generating'
    <3>1. /\ Left("process")' = Left("process") /\ Left("reset")' = Left("reset")
          /\ Left("part")' = Left("part") /\ Left("config") # {}
      BY <2>1, DoneFirst DEF OpNames
    <3>2. PartsLeft' = PartsLeft
      BY <3>1 DEF PartsLeft
    <3>3. Left("reset") = {} \/ made = NoApi
      BY <2>1 DEF Generating
    <3>4. UNCHANGED <<package, command, made>>
      BY <1>5 DEF WriteConfig
    <3> QED BY <2>1, <3>1, <3>2, <3>3, <3>4 DEF Generating
  <2> QED BY <2>1, <2>2, <2>3, DoneFirst
<1>6. ASSUME ResetPackage PROVE ProjectInv'
  <2>1. ~Idle /\ todo' = Tail(todo) /\ Head(todo).op = "reset" /\ package' = <<>>
    BY <1>6 DEF ResetPackage, ResetGeneratedPackage, Doing
  <2>2. ProjectTypeOK'
    BY <1>6, <2>1, DoneFirst DEF ResetPackage, ProjectTypeOK
  <2>3. Generating'
    <3>1. /\ Left("process")' = Left("process") /\ Left("config")' = Left("config")
          /\ Left("part")' = Left("part") /\ Left("reset") # {}
      BY <2>1, DoneFirst DEF OpNames
    <3>2. PartsLeft' = PartsLeft
      BY <3>1 DEF PartsLeft
    <3>3. made # NoApi => Left("reset")' = {} /\ PartsLeft = WholeOf(made)
      BY <2>1, <3>1 DEF Generating, Left
    <3>4. UNCHANGED <<config, command, made>>
      BY <1>6 DEF ResetPackage
    <3>5. DOMAIN package' = {}
      BY <2>1
    <3> QED BY <3>1, <3>2, <3>3, <3>4, <3>5 DEF Generating
  <2> QED BY <2>1, <2>2, <2>3, DoneFirst
<1>7. ASSUME WritePackageFile PROVE ProjectInv'
  <2>1. /\ ~Idle /\ todo' = Tail(todo) /\ Head(todo).op = "part"
        /\ package' = With(Head(todo).part, Head(todo).from)
    BY <1>7 DEF WritePackageFile, Doing
  <2>2. ProjectTypeOK'
    BY <1>7, <2>1, DoneFirst DEF WritePackageFile, ProjectTypeOK
  <2>3. Generating'
    <3>1. /\ Left("process")' = Left("process") /\ Left("config")' = Left("config")
          /\ Left("reset")' = Left("reset") /\ Left("part") = {Head(todo)} \union Left("part")'
      BY <2>1, DoneFirst DEF OpNames
    <3>2. PartsLeft = {Head(todo).part} \union PartsLeft'
      BY <3>1 DEF PartsLeft
    <3>3. DOMAIN package' = DOMAIN package \union {Head(todo).part}
      BY <2>1 DEF With
    <3>4. UNCHANGED <<config, command, made>>
      BY <1>7 DEF WritePackageFile
    <3>5. ASSUME made # NoApi
          PROVE  /\ Left("reset") = {} /\ Head(todo).from = made
                 /\ \A p \in DOMAIN package' : package'[p] = made
      <4>1. Left("reset") = {} /\ Head(todo).from = made /\ \A p \in DOMAIN package : package[p] = made
        BY <2>1, <3>1, <3>5 DEF Generating
      <4> QED BY <2>1, <4>1 DEF With
    <3> QED BY <3>1, <3>2, <3>3, <3>4, <3>5 DEF Generating
  <2> QED BY <2>1, <2>2, <2>3, DoneFirst
<1> QED BY <1>1, <1>2, <1>3, <1>4, <1>5, <1>6, <1>7 DEF Step

\* A command that breaks off has nothing left and made nothing.
LEMMA BrokenKeepsInv == ProjectInv /\ Broken => ProjectInv'
<1> SUFFICES ASSUME ProjectInv, Broken PROVE ProjectInv'
  OBVIOUS
<1>1. Fail
  BY DEF Broken, CannotProcess, Killed, TearFile, TearConfig, TearPackageFile, TearReset
<1>2. config' \in Config
  <2>1. Torn \in Config /\ config \in Config
    BY DEF Torn, NoConfig, Config, ProjectInv, ProjectTypeOK
  <2> QED BY <2>1 DEF Broken, CannotProcess, Killed, TearFile, TearConfig, TearPackageFile, TearReset
<1>3. disk' \in [File -> FileState]
  BY DEF Broken, CannotProcess, Killed, TearFile, TearConfig, TearPackageFile, TearReset,
         FileState, ProjectInv, ProjectTypeOK
<1>4. ProjectTypeOK'
  BY <1>1, <1>2, <1>3, OperationTypes DEF Fail, ProjectInv, ProjectTypeOK
<1>5. KeepsFiles' /\ ProcessedLast' /\ Generating'
  BY <1>1 DEF Fail, KeepsFiles, ProcessedLast, Generating, ToSet
<1> QED BY <1>4, <1>5 DEF ProjectInv

LEMMA EditKeepsInv == ProjectInv /\ (EditFile \/ EditConfig) => ProjectInv'
<1> SUFFICES ASSUME ProjectInv, EditFile \/ EditConfig PROVE ProjectInv'
  OBVIOUS
<1>1. CASE EditFile
  <2>1. ProjectTypeOK'
    BY <1>1 DEF EditFile, FileState, ProjectInv, ProjectTypeOK
  <2>2. UNCHANGED <<config, package, todo, command, made>>
    BY <1>1 DEF EditFile
  <2>3. KeepsFiles' /\ ProcessedLast' /\ Generating'
    BY <2>2 DEF ProjectInv, KeepsFiles, ProcessedLast, Generating, Left, PartsLeft
  <2> QED BY <2>1, <2>3 DEF ProjectInv
<1>2. CASE EditConfig
  <2>1. config' \in Config
    <3>1. config.spec \in Specs \union {NoSpec} /\ NoConfig \in Config
      BY DEF NoConfig, Config, ProjectInv, ProjectTypeOK
    <3>2. [state : {"ok"}, targets : SUBSET Surface, spec : {config.spec}, mcpOK : BOOLEAN] \subseteq Config
      BY <3>1 DEF Config
    <3> QED BY <1>2, <3>1, <3>2 DEF EditConfig
  <2>2. ProjectTypeOK'
    BY <1>2, <2>1, OperationTypes DEF EditConfig, ProjectInv, ProjectTypeOK
  <2>3. made' = NoApi /\ todo' = todo
    BY <1>2 DEF EditConfig
  <2>4. KeepsFiles' /\ ProcessedLast' /\ Generating'
    BY <2>3 DEF ProjectInv, KeepsFiles, ProcessedLast, Generating
  <2> QED BY <2>2, <2>4 DEF ProjectInv
<1> QED BY <1>1, <1>2

LEMMA InitHasInv == ProjectInit => ProjectInv
<1> SUFFICES ASSUME ProjectInit PROVE ProjectInv
  OBVIOUS
<1>1. ProjectTypeOK
  BY OperationTypes DEF ProjectInit, ProjectTypeOK, NoConfig, Config, FileState
<1>2. KeepsFiles /\ ProcessedLast /\ Generating
  BY DEF ProjectInit, KeepsFiles, ProcessedLast, Generating, ToSet
<1> QED BY <1>1, <1>2 DEF ProjectInv

LEMMA NextKeepsInv == ProjectInv /\ [ProjectNext]_projectVars => ProjectInv'
<1> SUFFICES ASSUME ProjectInv, [ProjectNext]_projectVars PROVE ProjectInv'
  OBVIOUS
<1>1. CASE ProjectNext
  BY <1>1, StartCommandKeepsInv, ProcessSpecKeepsInv, StepKeepsInv, BrokenKeepsInv, EditKeepsInv
     DEF ProjectNext
<1>2. CASE UNCHANGED projectVars
  BY <1>2 DEF projectVars, ProjectInv, ProjectTypeOK, KeepsFiles, ProcessedLast, Generating,
              Left, PartsLeft
<1> QED BY <1>1, <1>2

(***************************************************************************)
(* The results.                                                            *)
(***************************************************************************)
\* With nothing left to write, what is there is the whole.
LEMMA InvIsWhole == ProjectInv => PackageIsWhole
<1> SUFFICES ASSUME ProjectInv, Idle, made # NoApi
             PROVE  /\ \A p \in DOMAIN package : package[p] = made
                    /\ DOMAIN package = WholeOf(made)
                    /\ config.state = "ok" => config.spec = made.spec
  BY DEF PackageIsWhole, WholeOf
<1>1. ToSet(todo) = {}
  BY DEF Idle, ToSet
<1>2. Left("reset") = {} /\ Left("config") = {} /\ PartsLeft = {}
  BY <1>1 DEF Left, PartsLeft
<1> QED BY <1>2 DEF ProjectInv, Generating

\* A step of a command writes no user file that exists.
LEMMA StepKeepsUserFiles ==
  ASSUME ProjectInv, [ProjectNext]_projectVars, NEW f \in UserFile, disk[f] # "absent", edits' = edits
  PROVE  disk'[f] = disk[f]
<1>1. /\ disk \in [File -> FileState] /\ edits \in Nat /\ f \in File
      /\ f \notin Overwritten /\ f # "go.mod" /\ f # "README.generated.md"
  <2>1. f \in File /\ f \notin Overwritten
    BY DEF Overwritten, File, UserFile
  <2> QED BY <2>1, FilesApart DEF ProjectInv, ProjectTypeOK
<1>2. ASSUME ~Idle PROVE /\ Head(todo).op = "write" => Head(todo).file \in Overwritten
                         /\ Head(todo).op = "missing" => Head(todo).file \in File
  <2>1. Head(todo) \in ToSet(todo)
    BY <1>2, TailElems DEF Idle, ProjectInv, ProjectTypeOK
  <2> QED BY <2>1 DEF ProjectInv, KeepsFiles
<1>3. CASE WriteFile
  BY <1>1, <1>2, <1>3 DEF WriteFile, Doing
<1>4. CASE WriteMissingFile
  BY <1>1, <1>2, <1>4 DEF WriteMissingFile, Doing
<1>5. ReadmeTarget = f => disk[f] = "absent"
  BY <1>1 DEF ReadmeTarget
<1>6. CASE WriteReadme
  BY <1>1, <1>5, <1>6 DEF WriteReadme
<1>7. CASE Tidy
  BY <1>1, <1>7 DEF Tidy
<1>8. CASE TearFile
  <2>1. Opened = f => disk[f] = "absent"
    BY <1>1, <1>2, <1>5, <1>8 DEF TearFile, Opened
  <2> QED BY <1>1, <1>8, <2>1 DEF TearFile
<1>9. CASE EditFile \/ EditConfig
  BY <1>1, <1>9 DEF EditFile, EditConfig
<1>10. CASE \/ StartCommand \/ ProcessSpec \/ WriteConfig \/ ResetPackage \/ WritePackageFile
            \/ CannotProcess \/ Killed \/ TearConfig \/ TearPackageFile \/ TearReset
            \/ UNCHANGED projectVars
  BY <1>10 DEF StartCommand, StartInit, StartGenerate, StartSync, Start, ProcessSpec, Processed,
               WriteConfig, ResetPackage, WritePackageFile, CannotProcess, Killed, TearConfig,
               TearPackageFile, TearReset, projectVars
<1> QED BY <1>3, <1>4, <1>6, <1>7, <1>8, <1>9, <1>10 DEF ProjectNext, Step, Broken

\* A generation that ended leaves the package of one spec, whole and registered,
\* whatever broke off before it (main.go generateFromSpec).
THEOREM PackageAlwaysWhole == ProjectSpec => []PackageIsWhole
<1>1. ProjectInit => ProjectInv
  BY InitHasInv
<1>2. ProjectInv /\ [ProjectNext]_projectVars => ProjectInv'
  BY NextKeepsInv
<1>3. ProjectInv => PackageIsWhole
  BY InvIsWhole
<1> QED BY <1>1, <1>2, <1>3, PTL DEF ProjectSpec

\* No command, and no command that broke off, changes a file of the user's
\* (main.go writeFileIfMissing, writeGeneratedREADME).
THEOREM UserFilesAlwaysKept == ProjectSpec => UserFilesKept
<1>1. ProjectInit => ProjectInv
  BY InitHasInv
<1>2. ProjectInv /\ [ProjectNext]_projectVars => ProjectInv'
  BY NextKeepsInv
<1>3. ProjectInv /\ [ProjectNext]_projectVars =>
        [\A f \in UserFile : disk[f] # "absent" /\ edits' = edits => disk'[f] = disk[f]]_projectVars
  BY StepKeepsUserFiles
<1> QED BY <1>1, <1>2, <1>3, PTL DEF ProjectSpec, UserFilesKept
=============================================================================
