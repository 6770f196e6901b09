------------------------- MODULE CliSettingsProofs -------------------------
(***************************************************************************)
(* Theorems about CliSettings: invocations over config.json, overlapping   *)
(* or not, implement the one choice of ServerChoice, a profile's key goes  *)
(* only to the server that belongs to it, and tables hide nothing.         *)
(*                                                                         *)
(* The first rests on what each label of an invocation knows about the     *)
(* tree in its hand: until a save begins, a migration's tree says the same *)
(* of the choice as the file it was read from; the second on the launch,   *)
(* which loads the file as it is, and on the pre-run, which decides server *)
(* and key of a request from the same memory. The last follows the choice  *)
(* of an envelope's rows, through both of its rounds.                      *)
(***************************************************************************)
EXTENDS CliOutput, FiniteSetTheorems, TLAPS

(***************************************************************************)
(* URLs.                                                                   *)
(***************************************************************************)

\* What NormalizeServerURL accepts it accepts again, and changes no more.
LEMMA NormalizedTwice ==
  ASSUME NEW raw \in {Blank} \union URLs, NormalizeServerURL(raw) # Unusable
  PROVE  /\ NormalizeServerURL(raw) \in URLs
         /\ NormalizeServerURL(NormalizeServerURL(raw)) = NormalizeServerURL(raw)
<1>1. raw \in URLs /\ Usable(raw) /\ (raw.scheme \in {"none", "typo"} => Guessable(raw))
  BY DEF NormalizeServerURL
<1> DEFINE scheme == IF raw.scheme = "none" THEN "https" ELSE raw.scheme
           url == [scheme |-> scheme, host |-> raw.host, user |-> raw.user,
                   query |-> FALSE, canonical |-> TRUE]
<1>2. NormalizeServerURL(raw) = url
  BY <1>1, MarksAssumption DEF NormalizeServerURL
<1>3. scheme \in {"http", "https"}
  BY <1>1 DEF Usable
<1> HIDE DEF scheme
<1>4. url \in URLs
  <2>1. scheme \in Schemes
    BY <1>3 DEF Schemes
  <2>2. QED
    BY <1>1, <2>1 DEF URLs
<1>5. /\ url.scheme = scheme /\ url.host = raw.host /\ url.user = raw.user
      /\ url.query = FALSE
  OBVIOUS
<1>6. Usable(url) /\ url # Blank
  BY <1>1, <1>3, <1>4, <1>5, MarksAssumption DEF Usable
<1>7. NormalizeServerURL(url) = url
  BY <1>3, <1>5, <1>6 DEF NormalizeServerURL
<1> QED
  BY <1>2, <1>4, <1>7

(***************************************************************************)
(* Least elements, by induction over the naturals: what First picks.       *)
(***************************************************************************)

LEMMA SetInduction ==
  ASSUME NEW T, 0 \in T, \A n \in Nat : n \in T => n + 1 \in T
  PROVE  Nat \subseteq T
<1>1. SUFFICES ASSUME NEW z \in Nat, z \notin T PROVE FALSE
  OBVIOUS
<1> DEFINE Segment(n) == 1 .. n
           Left == {Segment(n) : n \in {m \in Nat : m \notin T}}
<1>2. Left \subseteq FiniteSubsetsOf(Nat) /\ Left # {}
  <2>1. \A n \in Nat : Segment(n) \in FiniteSubsetsOf(Nat)
    BY FS_Interval DEF FiniteSubsetsOf
  <2>2. QED
    BY <1>1, <2>1
<1>3. PICK least \in Left : \A other \in Left : <<other, least>> \notin StrictSubsetOrdering(Nat)
  BY <1>2, FS_StrictSubsetOrderingWellFounded, WFMin
<1>4. PICK n \in Nat : n \notin T /\ least = Segment(n)
  OBVIOUS
<1>5. n - 1 \in Nat /\ n - 1 \notin T
  BY <1>4
<1>6. <<Segment(n - 1), Segment(n)>> \in StrictSubsetOrdering(Nat)
  BY <1>5 DEF StrictSubsetOrdering
<1>7. QED
  BY <1>3, <1>4, <1>5, <1>6

LEMMA FirstIsLeast ==
  ASSUME NEW S, S \subseteq Nat, S # {}
  PROVE  First(S) \in S /\ \A i \in S : First(S) <= i
<1>1. SUFFICES \E i \in S : \A j \in S : i <= j
  BY DEF First
<1>2. SUFFICES ASSUME \A i \in S : \E j \in S : j < i PROVE FALSE
  BY <1>2
<1> DEFINE Below == {n \in Nat : \A i \in S : n < i}
<1>3. 0 \in Below
  BY <1>2
<1>4. \A n \in Nat : n \in Below => n + 1 \in Below
  <2>1. SUFFICES ASSUME NEW n \in Nat, n \in Below, NEW i \in S, i <= n + 1 PROVE FALSE
    OBVIOUS
  <2>2. PICK j \in S : j < i
    BY <1>2
  <2>3. n < j
    BY <2>1
  <2>4. QED
    BY <2>1, <2>2, <2>3
<1>5. Nat \subseteq Below
  <2> HIDE DEF Below
  <2>1. QED
    BY <1>3, <1>4, SetInduction
<1>6. PICK i \in S : i \in Below
  BY <1>5
<1>7. QED
  BY <1>6

(***************************************************************************)
(* Choices.                                                                *)
(***************************************************************************)

\* ServerChoice reads servers and arguments as the program does.
LEMMA SameOperators ==
  /\ \A raw : Chosen!NormalizeServerURL(raw) = NormalizeServerURL(raw)
  /\ \A raw : Chosen!NormalizeResolved(raw) = NormalizeResolved(raw)
  /\ \A input : Chosen!ResolveServerSelection(input) = ResolveServerSelection(input)
  /\ \A index : Chosen!ServerAt(index) = ServerAt(index)
<1>1. \A raw : Chosen!NormalizeServerURL(raw) = NormalizeServerURL(raw)
  BY DEF Chosen!NormalizeServerURL, NormalizeServerURL, Chosen!Guessable, Guessable,
         Chosen!Usable, Usable
<1>2. \A raw : Chosen!NormalizeResolved(raw) = NormalizeResolved(raw)
  BY <1>1 DEF Chosen!NormalizeResolved, NormalizeResolved
<1>3. \A input : Chosen!ResolveServerSelection(input) = ResolveServerSelection(input)
  BY DEF Chosen!ResolveServerSelection, ResolveServerSelection, Chosen!First, First
<1>4. \A index : Chosen!ServerAt(index) = ServerAt(index)
  BY DEF Chosen!ServerAt, ServerAt
<1>5. QED
  BY <1>1, <1>2, <1>3, <1>4

LEMMA TreeKeys ==
  ASSUME NEW tree, IsTree(tree)
  PROVE  /\ DOMAIN tree = Keys
         /\ tree # Invalid /\ Tree(tree) = tree
         /\ tree["server"] \in Given /\ tree["server-default"] \in Given
         /\ tree["server-index"] \in {Unset} \union Int
<1>1. /\ DOMAIN tree = Keys
      /\ tree["server"] \in Given /\ tree["server-default"] \in Given
      /\ tree["server-index"] \in {Unset} \union Int
  BY DEF IsTree, IsSource
<1>2. "server" \in Keys /\ "server" \notin DOMAIN Invalid
  BY DEF Keys, Invalid
<1>3. tree # Invalid
  BY <1>1, <1>2
<1>4. QED
  BY <1>1, <1>3 DEF Tree

LEMMA NoKeysIsTree == IsTree(NoKeys) /\ ChoiceOf(NoKeys) = Chosen!Unmade
BY DEF IsTree, IsSource, NoKeys, Keys, Given, ChoiceOf, Chosen!Unmade

\* The migration of the old key moves the choice, and leaves it as it was.
LEMMA MigrationKeepsChoice ==
  ASSUME NEW tree, IsTree(tree), tree["server"] # Unset
  PROVE  IsTree(MigrateServer(tree)) /\ ChoiceOf(MigrateServer(tree)) = ChoiceOf(tree)
<1> DEFINE merged == MigrateServer(tree)
<1>1. /\ DOMAIN tree = Keys
      /\ tree["server"] \in Given /\ tree["server-default"] \in Given
      /\ tree["server-index"] \in {Unset} \union Int
  BY TreeKeys
<1>2. /\ DOMAIN merged = Keys
      /\ merged["server"] = Unset
      /\ merged["server-index"] = tree["server-index"]
      /\ merged["server-default"] =
           IF tree["server-default"] \in {Unset, Blank} /\ tree["server"] # Blank
           THEN tree["server"] ELSE tree["server-default"]
  BY <1>1 DEF MigrateServer, Keys
<1> HIDE DEF merged
<1>3. IsTree(merged)
  BY <1>1, <1>2 DEF IsTree, IsSource, Given
<1>4. ChoiceOf(merged) = ChoiceOf(tree)
  BY <1>1, <1>2 DEF ChoiceOf
<1>5. QED
  BY <1>3, <1>4 DEF merged

\* What the commands that save make of the choice they read.
CanSave(cmd) ==
  \/ cmd.op = "set" /\ cmd.arg \in {Blank} \union URLs /\ NormalizeServerURL(cmd.arg) # Unusable
  \/ cmd.op = "use" /\ ResolveServerSelection(cmd.arg) # -1
  \/ cmd.op \in {"clear", "format"}

LEMMA SelectionIsIndex ==
  ASSUME NEW input
  PROVE  ResolveServerSelection(input) \in Int
<1> DEFINE matching == IF input.by = "index" THEN {input.index + 1} \cap DOMAIN Servers
                       ELSE {i \in DOMAIN Servers : Servers[i] = input.url}
<1>1. CASE matching = {}
  BY <1>1 DEF ResolveServerSelection
<1>2. CASE matching # {}
  <2>1. matching \subseteq Nat
    BY ServersAssumption
  <2> HIDE DEF matching
  <2>2. First(matching) \in Nat
    BY <1>2, <2>1, FirstIsLeast
  <2>3. ResolveServerSelection(input) = First(matching) - 1
    BY <1>2 DEF ResolveServerSelection, matching
  <2>4. QED
    BY <2>2, <2>3
<1>3. QED
  BY <1>1, <1>2

LEMMA SavingDecides ==
  ASSUME NEW tree, IsTree(tree), NEW cmd, CanSave(cmd)
  PROVE  /\ IsTree(SaveKeys(tree, Saves(cmd)))
         /\ ChoiceOf(SaveKeys(tree, Saves(cmd))) \in {ChoiceOf(tree), Chosen!Decided(ChoiceOf(tree), cmd)}
<1> DEFINE saved == SaveKeys(tree, Saves(cmd))
<1>1. /\ DOMAIN tree = Keys
      /\ tree["server"] \in Given /\ tree["server-default"] \in Given
      /\ tree["server-index"] \in {Unset} \union Int
  BY TreeKeys
<1>2. DOMAIN saved = Keys
  BY DEF SaveKeys
<1>3. CASE cmd.op = "set"
  <2> DEFINE url == NormalizeServerURL(cmd.arg)
  <2>1. url \in URLs /\ Chosen!NormalizeServerURL(cmd.arg) = url
    BY <1>3, NormalizedTwice, SameOperators DEF CanSave
  <2>2. Saves(cmd) = [k \in {"server", "server-default"} |-> IF k = "server" THEN Nil ELSE url]
    BY <1>3 DEF Saves
  <2>3. /\ saved["server"] = Unset /\ saved["server-default"] = url
        /\ saved["server-index"] = tree["server-index"]
    BY <2>1, <2>2, MarksAssumption DEF SaveKeys, Keys, Nil
  <2> HIDE DEF saved, url
  <2>4. IsTree(saved)
    BY <1>1, <1>2, <2>1, <2>3 DEF IsTree, IsSource, Given
  <2>5. ChoiceOf(saved) = [custom |-> url, index |-> ChoiceOf(tree).index]
    BY <2>1, <2>3, MarksAssumption DEF ChoiceOf
  <2>6. Chosen!Decided(ChoiceOf(tree), cmd) = [custom |-> url, index |-> ChoiceOf(tree).index]
    BY <1>3, <2>1 DEF Chosen!Decided, ChoiceOf
  <2>7. QED
    BY <2>4, <2>5, <2>6 DEF saved
<1>4. CASE cmd.op = "use"
  <2> DEFINE index == ResolveServerSelection(cmd.arg)
  <2>1. index \in Int /\ Chosen!ResolveServerSelection(cmd.arg) = index
    BY SelectionIsIndex, SameOperators
  <2>2. Saves(cmd) = [k \in {"server", "server-default", "server-index"} |->
                        IF k = "server-index" THEN index ELSE Nil]
    BY <1>4 DEF Saves
  <2> HIDE DEF index
  <2>3. /\ saved["server"] = Unset /\ saved["server-default"] = Unset
        /\ saved["server-index"] = index
    BY <2>1, <2>2, MarksAssumption DEF SaveKeys, Keys, Nil
  <2> HIDE DEF saved
  <2>4. IsTree(saved)
    BY <1>1, <1>2, <2>1, <2>3 DEF IsTree, IsSource, Given
  <2>5. ChoiceOf(saved) = [custom |-> Blank, index |-> index]
    BY <2>1, <2>3, MarksAssumption DEF ChoiceOf
  <2>6. Chosen!Decided(ChoiceOf(tree), cmd) = [custom |-> Blank, index |-> index]
    BY <1>4, <2>1 DEF Chosen!Decided
  <2>7. QED
    BY <2>4, <2>5, <2>6 DEF saved
<1>5. CASE cmd.op = "clear"
  <2>1. Saves(cmd) = [k \in {"server", "server-default"} |-> Nil]
    BY <1>5 DEF Saves
  <2>2. /\ saved["server"] = Unset /\ saved["server-default"] = Unset
        /\ saved["server-index"] = tree["server-index"]
    BY <2>1 DEF SaveKeys, Keys, Nil
  <2> HIDE DEF saved
  <2>3. IsTree(saved)
    BY <1>1, <1>2, <2>2 DEF IsTree, IsSource, Given
  <2>4. ChoiceOf(saved) = [custom |-> Blank, index |-> ChoiceOf(tree).index]
    BY <2>2 DEF ChoiceOf
  <2>5. Chosen!Decided(ChoiceOf(tree), cmd) = [custom |-> Blank, index |-> ChoiceOf(tree).index]
    BY <1>5 DEF Chosen!Decided, ChoiceOf
  <2>6. QED
    BY <2>3, <2>4, <2>5 DEF saved
<1>6. CASE cmd.op = "format"
  <2>1. Saves(cmd) = [k \in {"output-format"} |-> cmd.arg]
    BY <1>6 DEF Saves
  <2>2. \A k \in {"server", "server-default", "server-index"} : saved[k] = tree[k]
    BY <2>1 DEF SaveKeys, Keys
  <2> HIDE DEF saved
  <2>3. IsTree(saved)
    BY <1>1, <1>2, <2>2 DEF IsTree, IsSource
  <2>4. ChoiceOf(saved) = ChoiceOf(tree)
    BY <2>2 DEF ChoiceOf
  <2>5. QED
    BY <2>3, <2>4 DEF saved
<1>7. QED
  BY <1>3, <1>4, <1>5, <1>6 DEF CanSave

(***************************************************************************)
(* Requests.                                                               *)
(***************************************************************************)

\* The `server` setting before the checks normalize it: with nothing set since.
Asked(m) ==
  IF m.cmd.flag["server"] # Unset THEN m.cmd.flag["server"]
  ELSE IF m.env["server"] \notin {Unset, Blank} THEN m.env["server"]
  ELSE IF m.file["server"] # Unset THEN m.file["server"]
  ELSE Blank

\* After the checks: the setting is usable, and kept as normalized.
Settled(m) ==
  /\ Asked(m) # Blank => NormalizeServerURL(Asked(m)) # Unusable
  /\ m.over = [k \in Keys |-> IF k = "server" /\ Asked(m) # Blank
                              THEN NormalizeServerURL(Asked(m)) ELSE Unset]

\* The command lines and surroundings of LaunchesAssumption.
CommandOK(cmd) ==
  /\ cmd.op \in {"set", "raw"} => cmd.arg \in {Blank} \union URLs
  /\ cmd.flag["server"] \in Given
  /\ \A k \in {"server-default", "server-index"} : cmd.flag[k] = Unset

AroundOK(around) ==
  /\ IsEnvironment(around.env) /\ around.unreadable \in BOOLEAN
  /\ \A i \in DOMAIN around.files : i \in Nat /\ IsEnvironment(around.files[i])

MemoryOK(m) ==
  /\ DOMAIN m = {"cmd", "around", "env", "file", "over", "merged", "format", "blind"}
  /\ m.blind \in BOOLEAN
  /\ CommandOK(m.cmd)
  /\ AroundOK(m.around)
  /\ m.env = LoadDotEnvFiles(m.around.env, m.around.switch, m.around.files)
  /\ IsTree(m.file)

LEMMA ResolvedAgain ==
  ASSUME NEW raw \in {Blank} \union URLs, NormalizeServerURL(raw) # Unusable
  PROVE  NormalizeResolved(NormalizeServerURL(raw)) = NormalizeResolved(raw)
BY NormalizedTwice, MarksAssumption DEF NormalizeResolved, NormalizeServerURL

\* .env files fill in what the environment lacks, value for value.
LEMMA LoadedValues ==
  ASSUME NEW around, AroundOK(around), NEW v \in Variables
  PROVE  LET env == LoadDotEnvFiles(around.env, around.switch, around.files)
         IN  env[v] = around.env[v] \/ \E i \in DOMAIN around.files : env[v] = around.files[i][v]
<1> DEFINE env == LoadDotEnvFiles(around.env, around.switch, around.files)
<1>1. SUFFICES ASSUME env[v] # around.env[v]
               PROVE  \E i \in DOMAIN around.files : env[v] = around.files[i][v]
  OBVIOUS
<1>2. /\ Defining(around.files, v) # {}
      /\ env[v] = around.files[First(Defining(around.files, v))][v]
  BY <1>1 DEF LoadDotEnvFiles
<1>3. Defining(around.files, v) \subseteq Nat
  BY DEF Defining, AroundOK
<1>4. First(Defining(around.files, v)) \in Defining(around.files, v)
  BY <1>2, <1>3, FirstIsLeast
<1>5. QED
  BY <1>2, <1>4 DEF Defining

LEMMA EnvironmentLoaded ==
  ASSUME NEW around, AroundOK(around)
  PROVE  IsEnvironment(LoadDotEnvFiles(around.env, around.switch, around.files))
<1> DEFINE env == LoadDotEnvFiles(around.env, around.switch, around.files)
<1>1. DOMAIN env = Variables
  BY DEF LoadDotEnvFiles
<1>2. \A v \in Variables :
        env[v] = around.env[v] \/ \E i \in DOMAIN around.files : env[v] = around.files[i][v]
  BY LoadedValues
<1>3. {"server", "server-default", "server-index"} \subseteq Variables
  BY DEF Variables, Keys
<1> HIDE DEF env
<1>4. QED
  BY <1>1, <1>2, <1>3 DEF AroundOK, IsEnvironment, IsSource, env

\* What the rules find in the memory of a request whose checks passed.
LEMMA SettledLookup ==
  ASSUME NEW m, MemoryOK(m), Settled(m)
  PROVE  /\ Lookup(m, "server") = IF Asked(m) = Blank THEN Blank ELSE NormalizeServerURL(Asked(m))
         /\ \A k \in {"server-default", "server-index"} :
              Lookup(m, k) = IF m.env[k] \notin {Unset, Blank} THEN m.env[k]
                             ELSE IF m.file[k] # Unset THEN m.file[k]
                             ELSE IF k = "server-index" THEN 0 ELSE Blank
         /\ Asked(m) \in {Blank} \union URLs
<1>1. Asked(m) \in {Blank} \union URLs
  <2>1. m.cmd.flag["server"] \in Given /\ m.file["server"] \in Given
    BY TreeKeys DEF MemoryOK, CommandOK
  <2>2. m.env["server"] \in Given
    BY EnvironmentLoaded DEF MemoryOK, AroundOK, IsEnvironment, IsSource
  <2>3. QED
    BY <2>1, <2>2 DEF Asked, Given
<1>2. Lookup(m, "server") = IF Asked(m) = Blank THEN Blank ELSE NormalizeServerURL(Asked(m))
  <2>1. m.over["server"] = IF Asked(m) # Blank THEN NormalizeServerURL(Asked(m)) ELSE Unset
    BY DEF Settled, Keys
  <2>2. CASE Asked(m) # Blank
    <3>1. NormalizeServerURL(Asked(m)) \in URLs
      BY <1>1, <2>2, NormalizedTwice DEF Settled
    <3>2. QED
      BY <2>1, <2>2, <3>1, MarksAssumption DEF Lookup
  <2>3. CASE Asked(m) = Blank
    BY <2>1, <2>3 DEF Lookup, Asked, Default
  <2>4. QED
    BY <2>2, <2>3
<1>3. ASSUME NEW k \in {"server-default", "server-index"}
      PROVE  Lookup(m, k) = IF m.env[k] \notin {Unset, Blank} THEN m.env[k]
                            ELSE IF m.file[k] # Unset THEN m.file[k]
                            ELSE IF k = "server-index" THEN 0 ELSE Blank
  <2>1. m.over[k] = Unset /\ m.cmd.flag[k] = Unset
    BY <1>3 DEF Settled, Keys, MemoryOK, CommandOK
  <2>2. Default(k) = IF k = "server-index" THEN 0 ELSE Blank
    BY <1>3 DEF Default
  <2>3. QED
    BY <2>1, <2>2 DEF Lookup
<1>4. QED
  BY <1>1, <1>2, <1>3

\* A request that nothing redirects goes where the choice it read means.
LEMMA RequestFollowsChoice ==
  ASSUME NEW m, MemoryOK(m), Settled(m), ~Redirects(m)
  PROVE  ResolveServer(m) = Chosen!Means(ChoiceOf(m.file))
<1> DEFINE choice == ChoiceOf(m.file)
<1>1. /\ m.cmd.flag["server"] = Unset /\ ProfileServer(m) = Blank
      /\ \A k \in {"server", "server-default", "server-index"} : m.env[k] \in {Unset, Blank}
      /\ m.file["server"] \in {Unset, Blank} \/ m.file["server-default"] \in {Unset, Blank}
  BY DEF Redirects
<1>2. /\ m.file["server"] \in Given /\ m.file["server-default"] \in Given
  BY TreeKeys DEF MemoryOK
<1>3. Asked(m) = IF m.file["server"] # Unset THEN m.file["server"] ELSE Blank
  BY <1>1 DEF Asked
<1>4. Chosen!Means(choice) =
        NormalizeResolved(IF choice.custom # Blank THEN choice.custom ELSE ServerAt(choice.index))
  BY SameOperators DEF Chosen!Means
<1>5. /\ choice.custom = IF m.file["server-default"] \notin {Unset, Blank} THEN m.file["server-default"]
                         ELSE IF m.file["server"] # Unset THEN m.file["server"] ELSE Blank
      /\ choice.index = IF m.file["server-index"] = Unset THEN 0 ELSE m.file["server-index"]
  BY DEF ChoiceOf
<1> HIDE DEF choice
<1>6. CASE Asked(m) # Blank
  <2>1. /\ choice.custom = Asked(m) /\ Asked(m) \in URLs
    BY <1>1, <1>2, <1>3, <1>5, <1>6 DEF Given
  <2>2. Lookup(m, "server") = NormalizeServerURL(Asked(m)) /\ Lookup(m, "server") \in URLs
    BY <1>6, SettledLookup, NormalizedTwice DEF Settled
  <2>3. ResolveServerRaw(m) = NormalizeServerURL(Asked(m))
    BY <1>1, <2>2, MarksAssumption DEF ResolveServerRaw
  <2>4. NormalizeResolved(NormalizeServerURL(Asked(m))) = NormalizeResolved(Asked(m))
    BY <1>6, <2>1, ResolvedAgain DEF Settled
  <2>5. QED
    BY <1>4, <1>6, <2>1, <2>3, <2>4 DEF ResolveServer, choice
<1>7. CASE Asked(m) = Blank
  <2>1. Lookup(m, "server") = Blank
    BY <1>7, SettledLookup
  <2>2. /\ Lookup(m, "server-default") =
             IF m.file["server-default"] # Unset THEN m.file["server-default"] ELSE Blank
        /\ Lookup(m, "server-index") = choice.index
    BY <1>1, <1>5, SettledLookup
  <2>3. choice.custom = Lookup(m, "server-default")
    BY <1>3, <1>5, <1>7, <2>2
  <2>4. ResolveServerRaw(m) = IF choice.custom # Blank THEN choice.custom ELSE ServerAt(choice.index)
    BY <1>1, <2>1, <2>2, <2>3 DEF ResolveServerRaw, SelectedServer
  <2>5. QED
    BY <1>4, <2>4 DEF ResolveServer, choice
<1>8. QED
  BY <1>6, <1>7

(***************************************************************************)
(* The invariant. Each invocation has seen the choice it read, unless it   *)
(* could not read it, and what it is about to write is a choice it holds   *)
(* or one its command decides.                                             *)
(***************************************************************************)

Starting == {"migrate", "migrateWrite", "reload", "preRun"}
Labels == Starting \union {"down", "run", "save", "write", "report", "end"}

\* The choices an invocation may hold, of those in force since it started.
Held(chosen, m) == chosen \union (IF m.blind THEN {Chosen!Unmade} ELSE {})

\* What holds of an invocation at a label, with the choices in force since it started.
StageOK(label, m, chosen, sys) ==
  /\ label \in Starting \union {"run"} /\ sys = Nothing => ChoiceOf(m.file) \in Held(chosen, m)
  /\ label \in Starting => m.over = NoKeys
  /\ label = "run" => Settled(m)
  /\ label = "migrateWrite" => IsTree(m.merged) /\ ChoiceOf(m.merged) \in chosen
  /\ label = "save" => CanSave(m.cmd)
  /\ label = "write" =>
       /\ IsTree(m.merged)
       /\ \E old \in Held(chosen, m) : ChoiceOf(m.merged) \in {old, Chosen!Decided(old, m.cmd)}

FilesOK ==
  /\ file = Invalid \/ IsTree(file)
  /\ system = Nothing \/ IsTree(system)

IInv ==
  /\ pc \in [Procs -> Labels]
  /\ DOMAIN mem = Procs
  /\ DOMAIN seen = Procs
  /\ FilesOK
  /\ \A p \in Procs :
       /\ MemoryOK(mem[p])
       /\ StageOK(pc[p], mem[p], seen[p], system)
       /\ IF pc[p] = "down" THEN seen[p] = {} ELSE ChoiceOf(Tree(file)) \in seen[p]

LEMMA TreeOK ==
  ASSUME NEW content, content = Invalid \/ IsTree(content)
  PROVE  IsTree(Tree(content))
BY NoKeysIsTree, TreeKeys DEF Tree

LEMMA IdleOK ==
  /\ MemoryOK(Idle)
  /\ Idle.over = NoKeys
<1>1. CommandOK(Idle.cmd)
  BY DEF Idle, CommandOK, NoKeys, Keys, Given
<1>2. IsEnvironment(NoVariables)
  BY DEF IsEnvironment, IsSource, NoVariables, Variables, Keys, Given
<1>3. AroundOK(Idle.around)
  <2>1. /\ Idle.around.env = NoVariables /\ Idle.around.files = <<>>
        /\ Idle.around.unreadable = FALSE
    BY DEF Idle
  <2>2. \A i \in DOMAIN Idle.around.files : FALSE
    BY <2>1
  <2>3. Idle.around.unreadable \in BOOLEAN
    BY <2>1
  <2> HIDE DEF Idle
  <2>4. QED
    BY <1>2, <2>1, <2>2, <2>3 DEF AroundOK
<1>4. NoVariables = LoadDotEnvFiles(NoVariables, Unset, <<>>)
  BY DEF NoVariables, LoadDotEnvFiles, Defining
<1>5. QED
  BY <1>1, <1>3, <1>4, NoKeysIsTree DEF MemoryOK, Idle

LEMMA InitInvariant == Init => IInv
<1> SUFFICES ASSUME Init PROVE IInv
  OBVIOUS
<1>1. FilesOK
  BY HomesAssumption DEF Init, FilesOK
<1>2. ASSUME NEW p \in Procs
      PROVE  MemoryOK(mem[p]) /\ StageOK(pc[p], mem[p], seen[p], system) /\ pc[p] = "down" /\ seen[p] = {}
  BY IdleOK DEF Init, StageOK, Starting
<1>3. QED
  BY <1>1, <1>2 DEF Init, IInv, Labels

\* A step of one invocation that leaves the files alone.
LEMMA LocalStep ==
  ASSUME IInv, NEW p \in Procs, NEW label \in Labels \ {"down"}, pc[p] # "down",
         pc' = [pc EXCEPT ![p] = label],
         DOMAIN mem' = Procs, \A q \in Procs : q # p => mem'[q] = mem[q],
         MemoryOK(mem'[p]), StageOK(label, mem'[p], seen[p], system),
         UNCHANGED <<file, system, seen>>
  PROVE  IInv'
<1>1. pc' \in [Procs -> Labels] /\ DOMAIN seen' = Procs /\ FilesOK'
  BY DEF IInv, FilesOK
<1>2. ASSUME NEW q \in Procs
      PROVE  (/\ MemoryOK(mem[q])
              /\ StageOK(pc[q], mem[q], seen[q], system)
              /\ IF pc[q] = "down" THEN seen[q] = {} ELSE ChoiceOf(Tree(file)) \in seen[q])'
  <2>1. CASE q = p
    BY <2>1 DEF IInv
  <2>2. CASE q # p
    BY <2>2 DEF IInv
  <2>3. QED
    BY <2>1, <2>2
<1>3. QED
  BY <1>1, <1>2 DEF IInv

\* An invocation ends.
LEMMA ExitStep ==
  ASSUME IInv, NEW p \in Procs, Exit(p), UNCHANGED <<file, system>>
  PROVE  IInv'
<1>1. pc' \in [Procs -> Labels] /\ DOMAIN mem' = Procs /\ DOMAIN seen' = Procs /\ FilesOK'
  BY DEF IInv, FilesOK, Exit, Goto, Labels
<1>2. ASSUME NEW q \in Procs
      PROVE  (/\ MemoryOK(mem[q])
              /\ StageOK(pc[q], mem[q], seen[q], system)
              /\ IF pc[q] = "down" THEN seen[q] = {} ELSE ChoiceOf(Tree(file)) \in seen[q])'
  <2>1. CASE q = p
    <3>1. pc'[q] = "down" /\ mem'[q] = Idle /\ seen'[q] = {}
      BY <2>1 DEF IInv, Exit, Goto
    <3>2. QED
      BY <3>1, IdleOK DEF StageOK, Starting
  <2>2. CASE q # p
    <3>1. pc'[q] = pc[q] /\ mem'[q] = mem[q] /\ seen'[q] = seen[q]
      BY <2>2 DEF IInv, Exit, Goto
    <3>2. QED
      BY <3>1 DEF IInv
  <2>3. QED
    BY <2>1, <2>2
<1>3. QED
  BY <1>1, <1>2 DEF IInv

\* config.json is replaced, and its writer moves on.
LEMMA ReplaceStep ==
  ASSUME IInv, NEW p \in Procs, NEW label \in {"reload", "report"}, pc[p] # "down",
         IsTree(mem[p].merged), Replace(mem[p].merged), pc' = [pc EXCEPT ![p] = label],
         UNCHANGED <<system, mem>>, label = "reload" => pc[p] = "migrateWrite"
  PROVE  IInv'
<1> DEFINE chosen == ChoiceOf(Tree(file'))
<1>1. file' = mem[p].merged /\ Tree(file') = mem[p].merged /\ IsTree(file')
  BY TreeKeys DEF Replace
<1>2. seen' = [q \in Procs |-> IF seen[q] = {} THEN {} ELSE seen[q] \union {chosen}]
  BY <1>1 DEF Replace
<1>3. pc' \in [Procs -> Labels] /\ DOMAIN mem' = Procs /\ DOMAIN seen' = Procs /\ FilesOK'
  BY <1>1, <1>2 DEF IInv, FilesOK, Labels, Starting
<1> HIDE DEF chosen
<1>4. ASSUME NEW q \in Procs
      PROVE  (/\ MemoryOK(mem[q])
              /\ StageOK(pc[q], mem[q], seen[q], system)
              /\ IF pc[q] = "down" THEN seen[q] = {} ELSE ChoiceOf(Tree(file)) \in seen[q])'
  <2>1. MemoryOK(mem[q])' /\ StageOK(pc[q], mem[q], seen[q], system)
    BY DEF IInv
  <2>2. CASE pc[q] = "down"
    <3>1. q # p /\ seen'[q] = {} /\ pc'[q] = "down"
      BY <1>2, <2>2 DEF IInv
    <3>2. QED
      BY <2>1, <2>2, <3>1 DEF StageOK, Starting
  <2>3. CASE pc[q] # "down"
    <3>1. seen[q] # {} /\ seen[q] \subseteq seen'[q] /\ chosen \in seen'[q] /\ pc'[q] # "down"
      BY <1>2, <2>3 DEF IInv
    <3>2. StageOK(pc'[q], mem[q], seen'[q], system)
      <4>0. Held(seen[q], mem[q]) \subseteq Held(seen'[q], mem[q])
        BY <3>1 DEF Held
      <4>1. CASE q = p
        BY <2>1, <3>1, <4>0, <4>1 DEF StageOK, Starting, IInv
      <4>2. CASE q # p
        <5>1. pc'[q] = pc[q]
          BY <4>2 DEF IInv
        <5>2. QED
          BY <2>1, <3>1, <4>0, <5>1 DEF StageOK
      <4>3. QED
        BY <4>1, <4>2
    <3>3. QED
      BY <2>1, <3>1, <3>2 DEF chosen
  <2>4. QED
    BY <2>2, <2>3
<1>5. QED
  BY <1>3, <1>4 DEF IInv

LEMMA ReadInConfigOK ==
  ASSUME FilesOK
  PROVE  /\ IsTree(ReadInConfig)
         /\ system = Nothing => ReadInConfig = Tree(file)
BY TreeOK DEF FilesOK, ReadInConfig

LEMMA LaunchStep ==
  ASSUME IInv, NEW p \in Procs, NEW l \in Launches, Launch(p, l.cmd, l.around)
  PROVE  IInv'
<1>1. /\ pc[p] = "down" /\ pc' = [pc EXCEPT ![p] = "migrate"]
      /\ seen' = [seen EXCEPT ![p] = {ChoiceOf(Tree(file))}]
      /\ UNCHANGED <<file, system>>
  BY DEF Launch, Goto
<1> PICK blind \in Reads(l.around) :
      mem' = [mem EXCEPT ![p] =
        [Idle EXCEPT !.cmd = l.cmd, !.around = l.around, !.blind = blind,
                     !.file = IF blind THEN NoKeys ELSE ReadInConfig,
                     !.env = LoadDotEnvFiles(l.around.env, l.around.switch, l.around.files)]]
  BY DEF Launch
<1>2. /\ DOMAIN mem' = Procs
      /\ \A q \in Procs : q # p => mem'[q] = mem[q]
      /\ DOMAIN mem'[p] = {"cmd", "around", "env", "file", "over", "merged", "format", "blind"}
      /\ mem'[p].cmd = l.cmd /\ mem'[p].around = l.around
      /\ mem'[p].env = LoadDotEnvFiles(l.around.env, l.around.switch, l.around.files)
      /\ mem'[p].file = IF blind THEN NoKeys ELSE ReadInConfig
      /\ mem'[p].over = NoKeys /\ mem'[p].blind = blind
  BY DEF IInv, Idle
<1>3. MemoryOK(mem'[p])
  <2>1. CommandOK(l.cmd) /\ AroundOK(l.around)
    BY LaunchesAssumption DEF CommandOK, AroundOK
  <2>2. blind \in BOOLEAN
    BY <2>1 DEF Reads, AroundOK
  <2>3. QED
    BY <1>2, <2>1, <2>2, ReadInConfigOK, NoKeysIsTree DEF MemoryOK, IInv
<1>4. StageOK("migrate", mem'[p], {ChoiceOf(Tree(file))}, system)
  BY <1>2, ReadInConfigOK, NoKeysIsTree DEF StageOK, Starting, IInv, Held
<1>5. pc' \in [Procs -> Labels] /\ DOMAIN seen' = Procs /\ FilesOK'
  BY <1>1 DEF IInv, FilesOK, Labels, Starting
<1>6. ASSUME NEW q \in Procs
      PROVE  (/\ MemoryOK(mem[q])
              /\ StageOK(pc[q], mem[q], seen[q], system)
              /\ IF pc[q] = "down" THEN seen[q] = {} ELSE ChoiceOf(Tree(file)) \in seen[q])'
  <2>1. CASE q = p
    BY <1>1, <1>3, <1>4, <2>1 DEF IInv
  <2>2. CASE q # p
    BY <1>1, <1>2, <2>2 DEF IInv
  <2>3. QED
    BY <2>1, <2>2
<1>7. QED
  BY <1>2, <1>5, <1>6 DEF IInv

LEMMA MigrateReadStep ==
  ASSUME IInv, NEW p \in Procs, MigrateRead(p)
  PROVE  IInv'
<1>1. /\ pc[p] = "migrate" /\ DOMAIN mem = Procs /\ MemoryOK(mem[p])
      /\ StageOK("migrate", mem[p], seen[p], system)
      /\ ChoiceOf(Tree(file)) \in seen[p] /\ FilesOK
      /\ UNCHANGED <<file, system, seen>>
  BY DEF IInv, MigrateRead
<1>2. CASE UNCHANGED mem /\ Goto(p, "preRun")
  <2>1. pc' = [pc EXCEPT ![p] = "preRun"] /\ mem' = mem
    BY <1>2 DEF Goto
  <2>2. StageOK("preRun", mem[p], seen[p], system)
    BY <1>1 DEF StageOK, Starting
  <2>3. QED
    BY <1>1, <2>1, <2>2, LocalStep DEF Labels, Starting
<1>3. CASE /\ Tree(file)["server"] # Unset
           /\ mem' = [mem EXCEPT ![p].merged = MigrateServer(file)]
           /\ Goto(p, "migrateWrite")
  <2>1. /\ pc' = [pc EXCEPT ![p] = "migrateWrite"]
        /\ mem' = [mem EXCEPT ![p].merged = MigrateServer(file)]
    BY <1>3 DEF Goto
  <2>2. IsTree(file) /\ Tree(file) = file /\ file["server"] # Unset
    <3>1. file # Invalid
      BY <1>3 DEF Tree, NoKeys, Keys
    <3>2. QED
      BY <1>1, <1>3, <3>1, TreeKeys DEF FilesOK
  <2>3. /\ DOMAIN mem' = Procs
        /\ \A q \in Procs : q # p => mem'[q] = mem[q]
        /\ DOMAIN mem'[p] = DOMAIN mem[p]
        /\ mem'[p].cmd = mem[p].cmd /\ mem'[p].around = mem[p].around
        /\ mem'[p].env = mem[p].env /\ mem'[p].file = mem[p].file /\ mem'[p].over = mem[p].over
        /\ mem'[p].blind = mem[p].blind /\ mem'[p].merged = MigrateServer(file)
    BY <1>1, <2>1 DEF MemoryOK
  <2>4. MemoryOK(mem'[p])
    BY <1>1, <2>3 DEF MemoryOK
  <2>5. IsTree(MigrateServer(file)) /\ ChoiceOf(MigrateServer(file)) = ChoiceOf(Tree(file))
    BY <2>2, MigrationKeepsChoice
  <2>6. StageOK("migrateWrite", mem'[p], seen[p], system)
    BY <1>1, <2>3, <2>5 DEF StageOK, Starting, Held
  <2>7. QED
    BY <1>1, <2>1, <2>3, <2>4, <2>6, LocalStep DEF Labels, Starting
<1>4. QED
  BY <1>2, <1>3 DEF MigrateRead

LEMMA MigrateReloadStep ==
  ASSUME IInv, NEW p \in Procs, MigrateReload(p)
  PROVE  IInv'
<1>1. /\ pc[p] = "reload" /\ DOMAIN mem = Procs /\ MemoryOK(mem[p])
      /\ StageOK("reload", mem[p], seen[p], system)
      /\ ChoiceOf(Tree(file)) \in seen[p] /\ FilesOK
      /\ pc' = [pc EXCEPT ![p] = "preRun"]
      /\ UNCHANGED <<file, system, seen>>
  BY DEF IInv, MigrateReload, Goto
<1>2. CASE mem' = [mem EXCEPT ![p].file = ReadInConfig, ![p].blind = FALSE]
  <2>1. /\ DOMAIN mem' = Procs
        /\ \A q \in Procs : q # p => mem'[q] = mem[q]
        /\ DOMAIN mem'[p] = DOMAIN mem[p]
        /\ mem'[p].cmd = mem[p].cmd /\ mem'[p].around = mem[p].around
        /\ mem'[p].env = mem[p].env /\ mem'[p].file = ReadInConfig
        /\ mem'[p].over = mem[p].over /\ mem'[p].blind = FALSE
    BY <1>1, <1>2 DEF MemoryOK
  <2>2. MemoryOK(mem'[p]) /\ StageOK("preRun", mem'[p], seen[p], system)
    BY <1>1, <2>1, ReadInConfigOK DEF MemoryOK, StageOK, Starting, Held
  <2>3. QED
    BY <1>1, <2>1, <2>2, LocalStep DEF Labels, Starting
<1>3. CASE mem' = mem
  <2>1. MemoryOK(mem'[p]) /\ StageOK("preRun", mem'[p], seen[p], system)
    BY <1>1, <1>3 DEF StageOK, Starting
  <2>2. QED
    BY <1>1, <1>3, <2>1, LocalStep DEF Labels, Starting
<1>4. QED
  BY <1>2, <1>3 DEF MigrateReload

LEMMA PreRunStep ==
  ASSUME IInv, NEW p \in Procs, PreRun(p)
  PROVE  IInv'
<1> DEFINE m == mem[p]
           ok == /\ DotEnvUsable(m.around.switch)
                 /\ Lookup(m, "output-format") \in OutputFormats
                 /\ ServerSettingUsable(m)
<1>1. /\ pc[p] = "preRun" /\ DOMAIN mem = Procs /\ MemoryOK(m)
      /\ StageOK("preRun", m, seen[p], system)
      /\ UNCHANGED <<file, system>>
  BY DEF IInv, PreRun
<1>2. m.over = NoKeys /\ Lookup(m, "server") = Asked(m)
  <2>1. m.over = NoKeys
    BY <1>1 DEF StageOK, Starting
  <2>2. m.over["server"] = Unset /\ Default("server") = Blank
    BY <2>1 DEF NoKeys, Keys, Default
  <2>3. QED
    BY <2>1, <2>2 DEF Lookup, Asked
<1>3. CASE ok
  <2>1. /\ pc' = [pc EXCEPT ![p] = "run"] /\ seen' = seen
        /\ mem' = [mem EXCEPT ![p] = [ApplyServerSetting(m) EXCEPT !.format = Lookup(m, "output-format")]]
    BY <1>3 DEF PreRun, Goto
  <2> DEFINE applied == ApplyServerSetting(m)
  <2>2. /\ DOMAIN applied = DOMAIN m
        /\ applied.cmd = m.cmd /\ applied.around = m.around /\ applied.env = m.env
        /\ applied.file = m.file /\ applied.blind = m.blind
        /\ applied.over = IF Asked(m) = Blank THEN NoKeys
                          ELSE [NoKeys EXCEPT !["server"] = NormalizeServerURL(Asked(m))]
    BY <1>1, <1>2 DEF ApplyServerSetting, MemoryOK
  <2>3. applied.over = [k \in Keys |-> IF k = "server" /\ Asked(m) # Blank
                                       THEN NormalizeServerURL(Asked(m)) ELSE Unset]
    BY <2>2 DEF NoKeys, Keys
  <2> HIDE DEF applied
  <2>4. /\ DOMAIN mem' = Procs
        /\ \A q \in Procs : q # p => mem'[q] = mem[q]
        /\ DOMAIN mem'[p] = DOMAIN m
        /\ mem'[p].cmd = m.cmd /\ mem'[p].around = m.around
        /\ mem'[p].env = m.env /\ mem'[p].file = m.file /\ mem'[p].over = applied.over
        /\ mem'[p].blind = m.blind
    BY <1>1, <2>1, <2>2 DEF MemoryOK, applied
  <2>5. Asked(mem'[p]) = Asked(m)
    BY <2>4 DEF Asked
  <2>6. Asked(m) # Blank => NormalizeServerURL(Asked(m)) # Unusable
    BY <1>2, <1>3 DEF ServerSettingUsable
  <2>7. Settled(mem'[p])
    BY <2>3, <2>4, <2>5, <2>6 DEF Settled
  <2>8. MemoryOK(mem'[p]) /\ StageOK("run", mem'[p], seen[p], system)
    BY <1>1, <2>4, <2>7 DEF MemoryOK, StageOK, Starting, Held
  <2>9. QED
    BY <1>1, <2>1, <2>4, <2>8, LocalStep DEF Labels, Starting
<1>4. CASE ~ok
  <2>1. Exit(p)
    BY <1>4 DEF PreRun
  <2>2. QED
    BY <1>1, <2>1, ExitStep
<1>5. QED
  BY <1>3, <1>4

\* A command goes on without touching anything but its label.
LEMMA ProceedStep ==
  ASSUME IInv, NEW p \in Procs, NEW label \in {"save", "report", "end"}, Goto(p, label),
         pc[p] # "down", UNCHANGED <<file, system, mem, seen>>,
         label = "save" => CanSave(mem[p].cmd)
  PROVE  IInv'
<1>1. /\ pc' = [pc EXCEPT ![p] = label] /\ DOMAIN mem' = Procs /\ MemoryOK(mem'[p])
      /\ \A q \in Procs : q # p => mem'[q] = mem[q]
  BY DEF Goto, IInv
<1>2. StageOK(label, mem'[p], seen[p], system)
  BY DEF StageOK, Starting
<1>3. QED
  BY <1>1, <1>2, LocalStep DEF Labels, Starting

LEMMA SaveReadStep ==
  ASSUME IInv, NEW p \in Procs, SaveRead(p)
  PROVE  IInv'
<1>1. /\ pc[p] = "save" /\ DOMAIN mem = Procs /\ MemoryOK(mem[p]) /\ CanSave(mem[p].cmd)
      /\ ChoiceOf(Tree(file)) \in seen[p] /\ FilesOK
      /\ UNCHANGED <<file, system>>
  BY DEF IInv, StageOK, SaveRead, Rejected
<1>2. CASE Rejected(p)
  BY <1>1, <1>2, ExitStep DEF Rejected
<1>3. CASE ~Rejected(p)
  <2> PICK blind \in Reads(mem[p].around) :
        /\ ~(file = Invalid /\ ~blind)
        /\ mem' = [mem EXCEPT ![p].merged = SaveKeys(IF blind THEN NoKeys ELSE file, Saves(mem[p].cmd)),
                              ![p].over = SetKeys(@, Saves(mem[p].cmd)), ![p].blind = blind]
        /\ Goto(p, "write") /\ seen' = seen
    BY <1>3 DEF SaveRead
  <2> DEFINE tree == IF blind THEN NoKeys ELSE file
             saved == SaveKeys(tree, Saves(mem[p].cmd))
  <2>1. /\ pc' = [pc EXCEPT ![p] = "write"] /\ seen' = seen
        /\ mem' = [mem EXCEPT ![p].merged = saved, ![p].over = SetKeys(@, Saves(mem[p].cmd)),
                              ![p].blind = blind]
        /\ blind \in BOOLEAN
    BY <1>1 DEF Goto, Reads, MemoryOK, AroundOK
  <2>2. /\ IsTree(tree)
        /\ ChoiceOf(tree) \in seen[p] \union (IF blind THEN {Chosen!Unmade} ELSE {})
    BY <1>1, TreeKeys, NoKeysIsTree DEF FilesOK
  <2>3. /\ DOMAIN mem' = Procs
        /\ \A q \in Procs : q # p => mem'[q] = mem[q]
        /\ DOMAIN mem'[p] = DOMAIN mem[p]
        /\ mem'[p].cmd = mem[p].cmd /\ mem'[p].around = mem[p].around
        /\ mem'[p].env = mem[p].env /\ mem'[p].file = mem[p].file
        /\ mem'[p].merged = saved /\ mem'[p].blind = blind
    <3> HIDE DEF saved
    <3>1. QED
      BY <1>1, <2>1 DEF MemoryOK
  <2>4. MemoryOK(mem'[p])
    BY <1>1, <2>1, <2>3 DEF MemoryOK
  <2> HIDE DEF tree
  <2>5. /\ IsTree(saved)
        /\ ChoiceOf(saved) \in {ChoiceOf(tree), Chosen!Decided(ChoiceOf(tree), mem[p].cmd)}
    BY <1>1, <2>2, SavingDecides
  <2>6. StageOK("write", mem'[p], seen[p], system)
    <3> HIDE DEF saved
    <3>1. QED
      BY <1>1, <2>2, <2>3, <2>5 DEF StageOK, Starting, Held
  <2>7. QED
    BY <1>1, <2>1, <2>3, <2>4, <2>6, LocalStep DEF Labels
<1>4. QED
  BY <1>2, <1>3

LEMMA NextInvariant == IInv /\ [Next]_vars => IInv'
<1> SUFFICES ASSUME IInv, [Next]_vars PROVE IInv'
  OBVIOUS
<1>1. ASSUME NEW p \in Procs, NEW l \in Launches, Launch(p, l.cmd, l.around) PROVE IInv'
  BY <1>1, LaunchStep
<1>2. ASSUME NEW p \in Procs, MigrateRead(p) PROVE IInv'
  BY <1>2, MigrateReadStep
<1>3. ASSUME NEW p \in Procs, MigrateWrite(p) PROVE IInv'
  <2>1. pc[p] = "migrateWrite" /\ UNCHANGED <<system, mem>> /\ IsTree(mem[p].merged)
    BY <1>3 DEF MigrateWrite, IInv, StageOK
  <2>2. CASE Replace(mem[p].merged) /\ Goto(p, "reload")
    BY <2>1, <2>2, ReplaceStep DEF Goto
  <2>3. CASE UNCHANGED <<file, seen>> /\ Goto(p, "preRun")
    <3>1. MemoryOK(mem'[p]) /\ StageOK("preRun", mem'[p], seen[p], system)
      BY <2>1 DEF IInv, StageOK, Starting
    <3>2. pc' = [pc EXCEPT ![p] = "preRun"] /\ DOMAIN mem' = Procs
      BY <2>1, <2>3 DEF Goto, IInv
    <3>3. QED
      BY <2>1, <2>3, <3>1, <3>2, LocalStep DEF Labels, Starting
  <2>4. QED
    BY <1>3, <2>2, <2>3 DEF MigrateWrite
<1>4. ASSUME NEW p \in Procs, MigrateReload(p) PROVE IInv'
  BY <1>4, MigrateReloadStep
<1>5. ASSUME NEW p \in Procs, PreRun(p) PROVE IInv'
  BY <1>5, PreRunStep
<1>6. ASSUME NEW p \in Procs, ServerSet(p) PROVE IInv'
  <2>1. mem[p].cmd.op = "set" /\ mem[p].cmd.arg \in {Blank} \union URLs
    BY <1>6 DEF ServerSet, Running, IInv, MemoryOK, CommandOK
  <2>2. QED
    BY <1>6, <2>1, ProceedStep, ExitStep DEF ServerSet, Running, Proceed, Rejected, CanSave
<1>7. ASSUME NEW p \in Procs, ServerUse(p) PROVE IInv'
  BY <1>7, ProceedStep, ExitStep DEF ServerUse, Running, Proceed, Rejected, CanSave
<1>8. ASSUME NEW p \in Procs, ServerClear(p) PROVE IInv'
  BY <1>8, ProceedStep DEF ServerClear, Running, Proceed, CanSave
<1>9. ASSUME NEW p \in Procs, DefaultFormat(p) PROVE IInv'
  BY <1>9, ProceedStep, ExitStep DEF DefaultFormat, Running, Proceed, Rejected, CanSave
<1>10. ASSUME NEW p \in Procs, SaveRead(p) PROVE IInv'
  BY <1>10, SaveReadStep
<1>11. ASSUME NEW p \in Procs, SaveWrite(p) PROVE IInv'
  <2>1. pc[p] = "write" /\ system' = system /\ IsTree(mem[p].merged)
    BY <1>11 DEF SaveWrite, IInv, StageOK
  <2>2. CASE Replace(mem[p].merged) /\ Goto(p, "report") /\ UNCHANGED mem
    BY <2>1, <2>2, ReplaceStep DEF Goto
  <2>3. CASE Exit(p) /\ UNCHANGED file
    BY <2>1, <2>3, ExitStep
  <2>4. QED
    BY <1>11, <2>2, <2>3 DEF SaveWrite
<1>12. ASSUME NEW p \in Procs, ServerListing(p) \/ Report(p) PROVE IInv'
  BY <1>12, ProceedStep DEF ServerListing, Report, Running
<1>13. ASSUME NEW p \in Procs, SendRequest(p) PROVE IInv'
  BY <1>13, ProceedStep, ExitStep DEF SendRequest, Running, Rejected
<1>14. ASSUME NEW p \in Procs, Leave(p) PROVE IInv'
  BY <1>14, ExitStep DEF Leave
<1>15. CASE UNCHANGED vars
  BY <1>15 DEF vars, IInv, FilesOK
<1>16. QED
  BY <1>1, <1>2, <1>3, <1>4, <1>5, <1>6, <1>7, <1>8, <1>9, <1>10, <1>11, <1>12, <1>13,
     <1>14, <1>15 DEF Next, Step

(***************************************************************************)
(* The refinement.                                                         *)
(***************************************************************************)

\* An invocation that ends, or is refused, stops; nothing else of the choice changes.
LEMMA ExitStops ==
  ASSUME IInv, NEW p \in Procs, Exit(p), UNCHANGED file, reached' \in {reached, Nothing}
  PROVE  Chosen!ChoiceNext
<1>1. \A q \in Procs \ {p} : mem'[q] = mem[q]
  BY DEF Exit, IInv
<1>2. Chosen!Stop(p)
  BY <1>1 DEF Chosen!Stop, Chosen!OnlyOf, Exit
<1>3. QED
  BY <1>2 DEF Chosen!ChoiceNext

\* config.json is replaced with a choice the writer has seen, or decides.
LEMMA ReplaceWrites ==
  ASSUME IInv, NEW p \in Procs, IsTree(mem[p].merged), Replace(mem[p].merged),
         \E old \in Held(seen[p], mem[p]) :
           ChoiceOf(mem[p].merged) \in {old, Chosen!Decided(old, mem[p].cmd)},
         UNCHANGED <<mem, reached>>
  PROVE  Chosen!ChoiceNext
<1>1. file' = mem[p].merged /\ Tree(file') = mem[p].merged
  BY TreeKeys DEF Replace
<1>2. Chosen!Write(p)
  BY <1>1 DEF Chosen!Write, Chosen!Believed, Held, Replace
<1>3. QED
  BY <1>2 DEF Chosen!ChoiceNext

\* The memory of an invocation keeps its command line while it runs.
KeepsCommands == \A p \in Procs : mem'[p].cmd = mem[p].cmd

\* And what came of its last read, until it reads again.
KeepsReads(readers) == \A p \in Procs \ readers : mem'[p].blind = mem[p].blind

LEMMA Stutters ==
  ASSUME KeepsCommands, KeepsReads({}), UNCHANGED <<file, seen, reached>>
  PROVE  UNCHANGED Chosen!choiceVars
BY DEF KeepsCommands, KeepsReads, Chosen!choiceVars

LEMMA Looks ==
  ASSUME NEW p \in Procs, KeepsCommands, KeepsReads({p}), mem'[p].blind \in BOOLEAN,
         UNCHANGED <<file, seen, reached>>
  PROVE  Chosen!ChoiceNext
<1>1. [q \in Procs |-> mem'[q].blind] =
        [[q \in Procs |-> mem[q].blind] EXCEPT ![p] = mem'[p].blind]
  BY DEF KeepsReads
<1>2. [q \in Procs |-> mem'[q].cmd] = [q \in Procs |-> mem[q].cmd]
  BY DEF KeepsCommands
<1>3. Chosen!Look(p)
  BY <1>1, <1>2 DEF Chosen!Look
<1>4. QED
  BY <1>3 DEF Chosen!ChoiceNext

LEMMA NextSimulates == IInv /\ [Next]_vars => [Chosen!ChoiceNext]_(Chosen!choiceVars)
<1> SUFFICES ASSUME IInv, [Next]_vars PROVE [Chosen!ChoiceNext]_(Chosen!choiceVars)
  OBVIOUS
<1>0. \A p \in Procs : DOMAIN mem = Procs /\ MemoryOK(mem[p]) /\ StageOK(pc[p], mem[p], seen[p], system)
  BY DEF IInv
<1>1. ASSUME NEW p \in Procs, NEW l \in Launches, Launch(p, l.cmd, l.around)
      PROVE  Chosen!ChoiceNext
  <2>1. Chosen!Start(p)
    BY <1>1 DEF Launch, Chosen!Start, Chosen!OnlyOf, IInv
  <2>2. QED
    BY <2>1 DEF Chosen!ChoiceNext
<1>2. ASSUME NEW p \in Procs, MigrateRead(p) \/ MigrateReload(p)
      PROVE  [Chosen!ChoiceNext]_(Chosen!choiceVars)
  <2>1. CASE MigrateRead(p)
    BY <1>0, <2>1, Stutters DEF MigrateRead, KeepsCommands, KeepsReads, MemoryOK
  <2>2. CASE MigrateReload(p) /\ UNCHANGED mem
    BY <2>2, Stutters DEF MigrateReload, KeepsCommands, KeepsReads
  <2>3. CASE MigrateReload(p) /\ mem' = [mem EXCEPT ![p].file = ReadInConfig, ![p].blind = FALSE]
    <3>1. KeepsCommands /\ KeepsReads({p}) /\ mem'[p].blind = FALSE
      BY <1>0, <2>3 DEF KeepsCommands, KeepsReads, MemoryOK
    <3>2. QED
      BY <2>3, <3>1, Looks DEF MigrateReload
  <2>4. QED
    BY <1>2, <2>1, <2>2, <2>3 DEF MigrateReload
<1>3. ASSUME NEW p \in Procs, MigrateWrite(p) PROVE [Chosen!ChoiceNext]_(Chosen!choiceVars)
  <2>1. IsTree(mem[p].merged) /\ ChoiceOf(mem[p].merged) \in seen[p] /\ UNCHANGED <<mem, reached>>
    BY <1>0, <1>3 DEF MigrateWrite, StageOK
  <2>2. CASE Replace(mem[p].merged)
    BY <2>1, <2>2, ReplaceWrites DEF Held
  <2>3. CASE UNCHANGED <<file, seen>>
    BY <2>1, <2>3, Stutters DEF KeepsCommands, KeepsReads
  <2>4. QED
    BY <1>3, <2>2, <2>3 DEF MigrateWrite
<1>4. ASSUME NEW p \in Procs, PreRun(p) PROVE [Chosen!ChoiceNext]_(Chosen!choiceVars)
  <2>1. CASE Exit(p)
    BY <1>4, <2>1, ExitStops DEF PreRun
  <2>2. CASE ~Exit(p)
    <3>1. /\ mem' = [mem EXCEPT ![p] =
                [ApplyServerSetting(mem[p]) EXCEPT !.format = Lookup(mem[p], "output-format")]]
          /\ UNCHANGED <<file, seen, reached>>
      BY <1>4, <2>2 DEF PreRun
    <3> DEFINE applied == ApplyServerSetting(mem[p])
    <3>2. DOMAIN applied = DOMAIN mem[p] /\ applied.cmd = mem[p].cmd /\ applied.blind = mem[p].blind
      BY <1>0 DEF ApplyServerSetting, MemoryOK
    <3> HIDE DEF applied
    <3>3. KeepsCommands /\ KeepsReads({})
      BY <1>0, <3>1, <3>2 DEF KeepsCommands, KeepsReads, MemoryOK, applied
    <3>4. QED
      BY <3>1, <3>3, Stutters
  <2>3. QED
    BY <2>1, <2>2
<1>5. ASSUME NEW p \in Procs,
             ServerSet(p) \/ ServerUse(p) \/ ServerClear(p) \/ DefaultFormat(p)
      PROVE  [Chosen!ChoiceNext]_(Chosen!choiceVars)
  <2>1. CASE Rejected(p)
    BY <2>1, ExitStops DEF Rejected
  <2>2. CASE UNCHANGED <<file, system, mem, seen, sent, reached, shown>>
    BY <2>2, Stutters DEF KeepsCommands, KeepsReads
  <2>3. QED
    BY <1>5, <2>1, <2>2 DEF ServerSet, ServerUse, ServerClear, DefaultFormat, Proceed
<1>6. ASSUME NEW p \in Procs, SaveRead(p) PROVE [Chosen!ChoiceNext]_(Chosen!choiceVars)
  <2>1. CASE Rejected(p)
    BY <2>1, ExitStops DEF Rejected
  <2>2. CASE ~Rejected(p)
    <3>1. PICK blind \in Reads(mem[p].around) :
            /\ mem' = [mem EXCEPT
                  ![p].merged = SaveKeys(IF blind THEN NoKeys ELSE file, Saves(mem[p].cmd)),
                  ![p].over = SetKeys(@, Saves(mem[p].cmd)), ![p].blind = blind]
            /\ UNCHANGED <<file, seen, reached>>
      BY <1>6, <2>2 DEF SaveRead
    <3>2. blind \in BOOLEAN
      BY <1>0 DEF Reads, MemoryOK, AroundOK
    <3>3. KeepsCommands /\ KeepsReads({p}) /\ mem'[p].blind = blind
      BY <1>0, <3>1 DEF KeepsCommands, KeepsReads, MemoryOK
    <3>4. QED
      BY <3>1, <3>2, <3>3, Looks
  <2>3. QED
    BY <2>1, <2>2
<1>7. ASSUME NEW p \in Procs, SaveWrite(p) PROVE Chosen!ChoiceNext
  <2>1. /\ IsTree(mem[p].merged)
        /\ \E old \in Held(seen[p], mem[p]) :
             ChoiceOf(mem[p].merged) \in {old, Chosen!Decided(old, mem[p].cmd)}
        /\ reached' = reached
    BY <1>0, <1>7 DEF SaveWrite, StageOK
  <2>2. CASE Replace(mem[p].merged) /\ UNCHANGED mem
    BY <2>1, <2>2, ReplaceWrites
  <2>3. CASE Exit(p) /\ UNCHANGED file
    BY <2>1, <2>3, ExitStops
  <2>4. QED
    BY <1>7, <2>2, <2>3 DEF SaveWrite
<1>8. ASSUME NEW p \in Procs, ServerListing(p) \/ Report(p) PROVE UNCHANGED Chosen!choiceVars
  BY <1>8, Stutters DEF ServerListing, Report, KeepsCommands, KeepsReads
<1>9. ASSUME NEW p \in Procs, SendRequest(p) PROVE [Chosen!ChoiceNext]_(Chosen!choiceVars)
  <2>1. pc[p] = "run"
    BY <1>9 DEF SendRequest, Running
  <2>2. CASE Rejected(p)
    BY <2>2, ExitStops DEF Rejected
  <2>3. CASE ~Rejected(p)
    <3>1. /\ reached' = IF Redirects(mem[p]) THEN Nothing ELSE ResolveServer(mem[p])
          /\ UNCHANGED <<file, mem, seen>>
      BY <1>9, <2>3 DEF SendRequest, Target, Redirects
    <3>2. ~Redirects(mem[p]) => \E c \in Held(seen[p], mem[p]) : ResolveServer(mem[p]) = Chosen!Means(c)
      <4>1. SUFFICES ASSUME ~Redirects(mem[p])
                     PROVE  ResolveServer(mem[p]) = Chosen!Means(ChoiceOf(mem[p].file))
                            /\ ChoiceOf(mem[p].file) \in Held(seen[p], mem[p])
        OBVIOUS
      <4>2. system = Nothing
        BY <4>1 DEF Redirects
      <4>3. ChoiceOf(mem[p].file) \in Held(seen[p], mem[p]) /\ Settled(mem[p])
        BY <1>0, <2>1, <4>2 DEF StageOK
      <4>4. QED
        BY <1>0, <4>1, <4>3, RequestFollowsChoice
    <3>3. Chosen!Request(p)
      BY <3>1, <3>2 DEF Chosen!Request, Chosen!Believed, Held
    <3>4. QED
      BY <3>3 DEF Chosen!ChoiceNext
  <2>4. QED
    BY <2>2, <2>3
<1>10. ASSUME NEW p \in Procs, Leave(p) PROVE Chosen!ChoiceNext
  BY <1>10, ExitStops DEF Leave
<1>11. CASE UNCHANGED vars
  BY <1>11, Stutters DEF vars, KeepsCommands, KeepsReads
<1>12. QED
  BY <1>1, <1>2, <1>3, <1>4, <1>5, <1>6, <1>7, <1>8, <1>9, <1>10, <1>11 DEF Next, Step

LEMMA InitSimulates == Init => Chosen!ChoiceInit
<1> SUFFICES ASSUME Init PROVE Chosen!ChoiceInit
  OBVIOUS
<1>1. ChoiceOf(Tree(file)) \in {ChoiceOf(Tree(home.file)) : home \in Homes}
  BY DEF Init
<1>2. [p \in Procs |-> mem[p].blind] = [p \in Procs |-> FALSE]
  BY DEF Init, Idle
<1>3. QED
  BY <1>1, <1>2 DEF Init, Chosen!ChoiceInit

(***************************************************************************)
(* Keys of config.json that every invocation copies, an older version's    *)
(* among them, reads and writes that fail, and invocations cut short       *)
(* implement one choice, that only the causes ServerChoice lists change.   *)
(***************************************************************************)
THEOREM RefinesServerChoice == Spec => ImplementsServerChoice
<1>1. Init => IInv /\ Chosen!ChoiceInit
  BY InitInvariant, InitSimulates
<1>2. IInv /\ [Next]_vars => IInv' /\ [Chosen!ChoiceNext]_(Chosen!choiceVars)
  BY NextInvariant, NextSimulates
<1>3. QED
  BY <1>1, <1>2, PTL DEF Spec, ImplementsServerChoice, Chosen!ChoiceSpec

(***************************************************************************)
(* Deployments. Whatever an invocation holds besides the profiles is a     *)
(* server and a key of no profile.                                         *)
(***************************************************************************)

AroundElsewhere(around) ==
  /\ HoldsElsewhere(around.env) /\ around.env["api-key"] \notin ProfileKeys
  /\ \A i \in DOMAIN around.files :
       /\ HoldsElsewhere(around.files[i]) /\ around.files[i]["api-key"] \notin ProfileKeys
       /\ around.files[i]["api-key"] = around.env["api-key"] =>
            around.env["api-key"] \in {Unset, Blank}

MemoryElsewhere(label, m) ==
  /\ m.cmd.op = "set" => Elsewhere(m.cmd.arg)
  /\ AroundElsewhere(m.around)
  /\ HoldsElsewhere(m.file)
  /\ label \in {"migrateWrite", "write"} => HoldsElsewhere(m.merged)

FilesElsewhere ==
  /\ file = Invalid \/ HoldsElsewhere(file)
  /\ system = Nothing \/ HoldsElsewhere(system)

DeploymentInv ==
  /\ FilesElsewhere
  /\ \A p \in Procs : MemoryElsewhere(pc[p], mem[p])
  /\ OneDeployment

LEMMA NormalizedElsewhere ==
  ASSUME NEW raw \in {Blank} \union URLs, NormalizeServerURL(raw) # Unusable, Elsewhere(raw)
  PROVE  Elsewhere(NormalizeServerURL(raw))
<1>1. raw \notin {Unset, Blank}
  BY MarksAssumption DEF NormalizeServerURL
<1>2. QED
  BY <1>1, ResolvedAgain DEF Elsewhere

LEMMA NoKeysElsewhere == HoldsElsewhere(NoKeys)
BY DEF HoldsElsewhere, NoKeys, Keys, Elsewhere

LEMMA IdleElsewhere == MemoryElsewhere("down", Idle)
<1>1. HoldsElsewhere(NoVariables) /\ NoVariables["api-key"] = Unset
  BY DEF HoldsElsewhere, NoVariables, Variables, Keys, Elsewhere
<1>2. AroundElsewhere(Idle.around)
  BY <1>1, SourcesAssumption DEF AroundElsewhere, Idle
<1>3. QED
  BY <1>2, NoKeysElsewhere DEF MemoryElsewhere, Idle

LEMMA ReadElsewhere ==
  ASSUME FilesElsewhere
  PROVE  HoldsElsewhere(ReadInConfig)
BY NoKeysElsewhere DEF FilesElsewhere, ReadInConfig, Tree

LEMMA MigratedElsewhere ==
  ASSUME NEW tree, IsTree(tree), HoldsElsewhere(tree)
  PROVE  HoldsElsewhere(MigrateServer(tree))
BY TreeKeys DEF MigrateServer, HoldsElsewhere, Elsewhere, Keys

LEMMA SavedElsewhere ==
  ASSUME NEW tree, IsTree(tree), HoldsElsewhere(tree), NEW cmd, CanSave(cmd),
         cmd.op = "set" => Elsewhere(cmd.arg)
  PROVE  HoldsElsewhere(SaveKeys(tree, Saves(cmd)))
<1> DEFINE saved == SaveKeys(tree, Saves(cmd))
<1>1. CASE cmd.op = "set"
  <2> DEFINE url == NormalizeServerURL(cmd.arg)
  <2>1. Elsewhere(url)
    BY <1>1, NormalizedElsewhere DEF CanSave
  <2>2. Saves(cmd) = [k \in {"server", "server-default"} |-> IF k = "server" THEN Nil ELSE url]
    BY <1>1 DEF Saves
  <2> HIDE DEF url
  <2>3. saved["server"] = Unset /\ saved["server-default"] \in {Unset, url}
    BY <2>2 DEF SaveKeys, Keys, Nil
  <2>4. QED
    BY <2>1, <2>3 DEF HoldsElsewhere, Elsewhere
<1>2. CASE cmd.op # "set"
  <2>1. \A k \in {"server", "server-default"} : saved[k] \in {Unset, tree[k]}
    <3>1. CASE cmd.op = "use"
      <4>1. Saves(cmd) = [k \in {"server", "server-default", "server-index"} |->
                            IF k = "server-index" THEN ResolveServerSelection(cmd.arg) ELSE Nil]
        BY <3>1 DEF Saves
      <4>2. QED
        BY <4>1 DEF SaveKeys, Keys, Nil
    <3>2. CASE cmd.op = "clear"
      <4>1. Saves(cmd) = [k \in {"server", "server-default"} |-> Nil]
        BY <3>2 DEF Saves
      <4>2. QED
        BY <4>1 DEF SaveKeys, Keys, Nil
    <3>3. CASE cmd.op = "format"
      <4>1. Saves(cmd) = [k \in {"output-format"} |-> cmd.arg]
        BY <3>3 DEF Saves
      <4>2. QED
        BY <4>1 DEF SaveKeys, Keys
    <3>4. QED
      BY <1>2, <3>1, <3>2, <3>3 DEF CanSave
  <2> HIDE DEF saved
  <2>2. HoldsElsewhere(saved)
    BY <2>1 DEF HoldsElsewhere, Elsewhere
  <2>3. QED
    BY <2>2 DEF saved
<1>3. QED
  BY <1>1, <1>2

\* The environment of a request, .env files loaded.
LEMMA LoadedElsewhere ==
  ASSUME NEW m, MemoryOK(m), AroundElsewhere(m.around)
  PROVE  HoldsElsewhere(m.env) /\ m.env["api-key"] \notin ProfileKeys
<1>1. \A v \in Variables :
        m.env[v] = m.around.env[v] \/ \E i \in DOMAIN m.around.files : m.env[v] = m.around.files[i][v]
  BY LoadedValues DEF MemoryOK
<1>2. {"server", "server-default", "api-key"} \subseteq Variables
  BY DEF Variables, Keys
<1>3. QED
  BY <1>1, <1>2 DEF AroundElsewhere, HoldsElsewhere

\* Without --server and a profile's server, a request goes to no profile's server.
LEMMA RequestElsewhere ==
  ASSUME NEW m, MemoryOK(m), Settled(m), AroundElsewhere(m.around), HoldsElsewhere(m.file),
         m.cmd.flag["server"] \in {Unset, Blank}, ProfileServer(m) = Blank,
         NEW n \in DOMAIN Profiles, Profiles[n].server # Blank
  PROVE  ResolveServer(m) # NormalizeResolved(Profiles[n].server)
<1> DEFINE raw == ResolveServerRaw(m)
<1>1. HoldsElsewhere(m.env)
  BY LoadedElsewhere
<1>2. Elsewhere(Asked(m))
  BY <1>1 DEF Asked, HoldsElsewhere, Elsewhere
<1>3. Lookup(m, "server") # Blank => Elsewhere(Lookup(m, "server")) /\ Lookup(m, "server") \in URLs
  BY <1>2, SettledLookup, NormalizedElsewhere, NormalizedTwice DEF Settled
<1>4. /\ Elsewhere(Lookup(m, "server-default"))
      /\ Lookup(m, "server-default") \in {Blank} \union URLs
  <2>1. Lookup(m, "server-default") = IF m.env["server-default"] \notin {Unset, Blank} THEN m.env["server-default"]
                                      ELSE IF m.file["server-default"] # Unset THEN m.file["server-default"]
                                      ELSE Blank
    BY SettledLookup
  <2>2. m.env["server-default"] \in Given /\ m.file["server-default"] \in Given
    BY EnvironmentLoaded, TreeKeys DEF MemoryOK, IsEnvironment, IsSource
  <2>3. Elsewhere(m.env["server-default"]) /\ Elsewhere(m.file["server-default"])
    BY <1>1 DEF HoldsElsewhere
  <2>4. Elsewhere(Lookup(m, "server-default"))
    BY <2>1, <2>3 DEF Elsewhere
  <2>5. QED
    BY <2>1, <2>2, <2>4 DEF Given
<1>5. Elsewhere(SelectedServer(m)) /\ SelectedServer(m) \in {Blank} \union URLs
  <2> DEFINE index == Lookup(m, "server-index")
  <2>1. index \in Int
    <3>1. m.env["server-index"] \in {Unset, Blank} \union Int
      BY EnvironmentLoaded DEF MemoryOK, IsEnvironment
    <3>2. m.file["server-index"] \in {Unset} \union Int
      BY DEF MemoryOK, IsTree
    <3>3. index = IF m.env["server-index"] \notin {Unset, Blank} THEN m.env["server-index"]
                  ELSE IF m.file["server-index"] # Unset THEN m.file["server-index"] ELSE 0
      BY SettledLookup
    <3>4. QED
      BY <3>1, <3>2, <3>3
  <2> HIDE DEF index
  <2>2. ServerAt(index) = Blank \/ \E i \in DOMAIN Servers : ServerAt(index) = Servers[i]
    BY <2>1, ServersAssumption DEF ServerAt
  <2>3. \A i \in DOMAIN Servers : Servers[i] \in URLs /\ Elsewhere(Servers[i])
    BY ServersAssumption, SourcesAssumption
  <2>4. Elsewhere(Blank)
    BY DEF Elsewhere
  <2>5. QED
    BY <2>2, <2>3, <2>4 DEF SelectedServer, index
<1>6. raw \in {Blank} \union URLs /\ Elsewhere(raw)
  BY <1>3, <1>4, <1>5 DEF ResolveServerRaw
<1>7. NormalizeResolved(Profiles[n].server) # Blank
  BY SourcesAssumption, NormalizedTwice, MarksAssumption DEF NormalizeResolved
<1>8. CASE raw = Blank
  BY <1>7, <1>8 DEF ResolveServer, NormalizeResolved
<1>9. CASE raw # Blank
  BY <1>6, <1>9, MarksAssumption DEF ResolveServer, Elsewhere
<1>10. QED
  BY <1>8, <1>9

\* The request that SendRequest sends belongs together.
LEMMA SentTogether ==
  ASSUME NEW m, MemoryOK(m), Settled(m), AroundElsewhere(m.around), HoldsElsewhere(m.file),
         LookupKey(m) \notin {Refused, Blank},
         sent' = [key |-> LookupKey(m), server |-> Target(m), absolute |-> Absolute(m.cmd),
                  given |-> m.cmd.flag["server"], around |-> m.around]
  PROVE  OneDeployment'
<1> DEFINE name == ActiveProfileName(m)
           key == LookupKey(m)
<1>1. \/ /\ name \in DOMAIN Profiles /\ key = Profiles[name].key /\ key \in ProfileKeys
         /\ ProfileServer(m) = Profiles[name].server
      \/ /\ name = Blank /\ ProfileServer(m) = Blank
         /\ key = m.env["api-key"] /\ key # Unset /\ key \notin ProfileKeys
  <2>1. CASE name # Blank
    BY <2>1 DEF LookupKey, ProfileExists, ProfileServer, ProfileKeys
  <2>2. CASE name = Blank
    <3>1. m.env["api-key"] \notin ProfileKeys
      BY LoadedElsewhere
    <3>2. QED
      BY <2>2, <3>1, SourcesAssumption DEF LookupKey, ProfileExists, ProfileServer
  <2>3. QED
    BY <2>1, <2>2
<1>2. key # Blank
  OBVIOUS
<1> HIDE DEF name, key
<1>3. ASSUME NEW n \in DOMAIN Profiles, Profiles[n].server # Blank,
             m.cmd.flag["server"] \in {Unset, Blank}
      PROVE  key = Profiles[n].key <=> ResolveServer(m) = NormalizeResolved(Profiles[n].server)
  <2>1. CASE ProfileServer(m) # Blank
    <3>1. name \in DOMAIN Profiles /\ key = Profiles[name].key /\ ProfileServer(m) = Profiles[name].server
      BY <1>1, <2>1
    <3>2. ResolveServer(m) = NormalizeResolved(Profiles[name].server)
      BY <1>3, <2>1, <3>1 DEF ResolveServer, ResolveServerRaw
    <3>3. CASE n = name
      BY <3>1, <3>2, <3>3
    <3>4. CASE n # name
      <4>1. Profiles[n].key # Profiles[name].key
        BY <1>2, <3>1, <3>4, SourcesAssumption
      <4>2. NormalizeResolved(Profiles[n].server) # NormalizeResolved(Profiles[name].server)
        BY <1>3, <2>1, <3>1, <3>4, SourcesAssumption
      <4>3. QED
        BY <3>1, <3>2, <4>1, <4>2
    <3>5. QED
      BY <3>3, <3>4
  <2>2. CASE ProfileServer(m) = Blank
    <3>1. ResolveServer(m) # NormalizeResolved(Profiles[n].server)
      BY <1>3, <2>2, RequestElsewhere
    <3>2. key # Profiles[n].key
      <4>1. CASE name \in DOMAIN Profiles /\ key = Profiles[name].key /\ Profiles[name].server = Blank
        <5>1. name # n
          BY <1>3, <4>1
        <5>2. QED
          BY <1>2, <4>1, <5>1, SourcesAssumption
      <4>2. CASE key \notin ProfileKeys
        BY <1>2, <4>2 DEF ProfileKeys
      <4>3. QED
        BY <1>1, <2>2, <4>1, <4>2
    <3>3. QED
      BY <3>1, <3>2
  <2>3. QED
    BY <2>1, <2>2
<1>4. ASSUME NEW i \in DOMAIN m.around.files, key = m.around.files[i]["api-key"]
      PROVE  DotEnvEnabled(m.around.switch)
  <2>1. key \notin ProfileKeys
    BY <1>4 DEF AroundElsewhere
  <2>2. key = m.env["api-key"] /\ key # Unset
    BY <1>1, <2>1
  <2>3. SUFFICES ASSUME ~DotEnvEnabled(m.around.switch) PROVE FALSE
    OBVIOUS
  <2>4. "api-key" \in Variables
    BY DEF Variables
  <2>5. m.env["api-key"] = m.around.env["api-key"]
    BY <2>3, <2>4 DEF MemoryOK, LoadDotEnvFiles
  <2>6. QED
    BY <1>2, <1>4, <2>2, <2>5 DEF AroundElsewhere
<1>5. /\ sent'.key = key /\ (~sent'.absolute => sent'.server = ResolveServer(m))
      /\ sent'.given = m.cmd.flag["server"] /\ sent'.around = m.around
  BY DEF key, Target
<1>6. ASSUME NEW n \in DOMAIN Profiles, Profiles[n].server # Blank,
             sent'.given \in {Unset, Blank}, ~sent'.absolute
      PROVE  sent'.key = Profiles[n].key <=> sent'.server = NormalizeResolved(Profiles[n].server)
  BY <1>3, <1>5, <1>6
<1>7. ASSUME NEW i \in DOMAIN sent'.around.files, sent'.key = sent'.around.files[i]["api-key"]
      PROVE  DotEnvEnabled(sent'.around.switch)
  BY <1>4, <1>5, <1>7
<1>8. QED
  BY <1>6, <1>7 DEF OneDeployment

\* Steps of one invocation keep what it and the files hold.
LEMMA HoldsStep ==
  ASSUME IInv, DeploymentInv, NEW p \in Procs, FilesElsewhere', OneDeployment',
         \A q \in Procs : q # p => pc'[q] = pc[q] /\ mem'[q] = mem[q],
         MemoryElsewhere(pc'[p], mem'[p])
  PROVE  DeploymentInv'
<1>1. ASSUME NEW q \in Procs PROVE MemoryElsewhere(pc'[q], mem'[q])
  BY DEF DeploymentInv
<1>2. QED
  BY <1>1 DEF DeploymentInv

LEMMA ExitHolds ==
  ASSUME IInv, DeploymentInv, NEW p \in Procs, Exit(p), UNCHANGED <<file, system>>,
         sent' \in {sent, Nothing}
  PROVE  DeploymentInv'
<1>1. /\ \A q \in Procs : q # p => pc'[q] = pc[q] /\ mem'[q] = mem[q]
      /\ pc'[p] = "down" /\ mem'[p] = Idle
  BY DEF Exit, Goto, IInv
<1>2. FilesElsewhere' /\ OneDeployment'
  BY DEF DeploymentInv, FilesElsewhere, OneDeployment
<1>3. QED
  BY <1>1, <1>2, IdleElsewhere, HoldsStep

LEMMA NextHolds == IInv /\ DeploymentInv /\ [Next]_vars => DeploymentInv'
<1> SUFFICES ASSUME IInv, DeploymentInv, [Next]_vars PROVE DeploymentInv'
  OBVIOUS
<1>0. /\ DOMAIN mem = Procs /\ FilesOK /\ pc \in [Procs -> Labels] /\ FilesElsewhere /\ OneDeployment
      /\ \A p \in Procs : /\ MemoryOK(mem[p]) /\ StageOK(pc[p], mem[p], seen[p], system)
                          /\ MemoryElsewhere(pc[p], mem[p])
  BY DEF IInv, DeploymentInv
<1>1. ASSUME NEW p \in Procs, NEW l \in Launches, Launch(p, l.cmd, l.around) PROVE DeploymentInv'
  <2>1. /\ \A q \in Procs : q # p => pc'[q] = pc[q] /\ mem'[q] = mem[q]
        /\ pc'[p] = "migrate"
        /\ mem'[p].cmd = l.cmd /\ mem'[p].around = l.around
        /\ mem'[p].file \in {NoKeys, ReadInConfig}
        /\ UNCHANGED <<file, system, sent>>
    BY <1>0, <1>1 DEF Launch, Goto, Idle
  <2>2. MemoryElsewhere(pc'[p], mem'[p])
    BY <1>0, <2>1, ReadElsewhere, NoKeysElsewhere, SourcesAssumption DEF MemoryElsewhere, AroundElsewhere
  <2>3. FilesElsewhere' /\ OneDeployment'
    BY <1>0, <2>1 DEF FilesElsewhere, OneDeployment
  <2>4. QED
    BY <2>1, <2>2, <2>3, HoldsStep
<1>2. ASSUME NEW p \in Procs, MigrateRead(p) PROVE DeploymentInv'
  <2>1. FilesElsewhere' /\ OneDeployment' /\ \A q \in Procs : q # p => pc'[q] = pc[q] /\ mem'[q] = mem[q]
    BY <1>0, <1>2 DEF MigrateRead, Goto, FilesElsewhere, OneDeployment
  <2>2. CASE mem' = mem
    <3>1. pc'[p] = "preRun" \/ mem'[p].merged = MigrateServer(file)
      BY <1>0, <1>2, <2>2 DEF MigrateRead, Goto, MemoryOK
    <3>2. CASE pc'[p] = "preRun"
      <4>1. MemoryElsewhere(pc'[p], mem'[p])
        BY <1>0, <2>2, <3>2 DEF MemoryElsewhere
      <4>2. QED
        BY <2>1, <4>1, HoldsStep
    <3>3. CASE pc'[p] # "preRun"
      <4>1. IsTree(file) /\ HoldsElsewhere(file)
        <5>1. Tree(file)["server"] # Unset
          BY <1>0, <1>2, <3>3 DEF MigrateRead, Goto
        <5>2. file # Invalid
          BY <5>1 DEF Tree, NoKeys, Keys
        <5>3. QED
          BY <1>0, <5>2 DEF FilesOK, FilesElsewhere
      <4>2. MemoryElsewhere(pc'[p], mem'[p])
        BY <1>0, <2>2, <3>1, <3>3, <4>1, MigratedElsewhere DEF MemoryElsewhere
      <4>3. QED
        BY <2>1, <4>2, HoldsStep
    <3>4. QED
      BY <3>2, <3>3
  <2>3. CASE mem' # mem
    <3>1. file # Invalid /\ mem' = [mem EXCEPT ![p].merged = MigrateServer(file)]
      <4>1. Tree(file)["server"] # Unset /\ mem' = [mem EXCEPT ![p].merged = MigrateServer(file)]
        BY <1>2, <2>3 DEF MigrateRead
      <4>2. QED
        BY <4>1 DEF Tree, NoKeys, Keys
    <3>2. /\ mem'[p].cmd = mem[p].cmd /\ mem'[p].around = mem[p].around
          /\ mem'[p].file = mem[p].file /\ mem'[p].merged = MigrateServer(file)
      BY <1>0, <3>1 DEF MemoryOK
    <3>3. IsTree(file) /\ HoldsElsewhere(file)
      BY <1>0, <3>1 DEF FilesOK, FilesElsewhere
    <3>4. MemoryElsewhere(pc'[p], mem'[p])
      BY <1>0, <3>2, <3>3, MigratedElsewhere DEF MemoryElsewhere
    <3>5. QED
      BY <2>1, <3>4, HoldsStep
  <2>4. QED
    BY <2>2, <2>3
<1>3. ASSUME NEW p \in Procs, MigrateWrite(p) \/ SaveWrite(p) PROVE DeploymentInv'
  <2>1. CASE Exit(p) /\ UNCHANGED file
    BY <1>3, <2>1, ExitHolds DEF MigrateWrite, SaveWrite
  <2>2. CASE ~(Exit(p) /\ UNCHANGED file)
    <3>1. /\ pc[p] \in {"migrateWrite", "write"} /\ UNCHANGED <<system, mem, sent>>
          /\ file' \in {file, mem[p].merged}
          /\ \A q \in Procs : q # p => pc'[q] = pc[q]
          /\ pc'[p] \in {"reload", "report", "preRun"}
      BY <1>0, <1>3, <2>2 DEF MigrateWrite, SaveWrite, Replace, Goto
    <3>2. HoldsElsewhere(mem[p].merged)
      BY <1>0, <3>1 DEF MemoryElsewhere
    <3>3. FilesElsewhere' /\ OneDeployment'
      BY <1>0, <3>1, <3>2 DEF FilesElsewhere, OneDeployment
    <3>4. MemoryElsewhere(pc'[p], mem'[p])
      BY <1>0, <3>1 DEF MemoryElsewhere
    <3>5. QED
      BY <3>1, <3>3, <3>4, HoldsStep
  <2>3. QED
    BY <2>1, <2>2
<1>4. ASSUME NEW p \in Procs, MigrateReload(p) PROVE DeploymentInv'
  <2>1. /\ FilesElsewhere' /\ OneDeployment' /\ pc'[p] = "preRun"
        /\ \A q \in Procs : q # p => pc'[q] = pc[q] /\ mem'[q] = mem[q]
        /\ mem'[p].cmd = mem[p].cmd /\ mem'[p].around = mem[p].around
        /\ mem'[p].file \in {mem[p].file, ReadInConfig}
    BY <1>0, <1>4 DEF MigrateReload, Goto, FilesElsewhere, OneDeployment, MemoryOK
  <2>2. MemoryElsewhere(pc'[p], mem'[p])
    BY <1>0, <2>1, ReadElsewhere DEF MemoryElsewhere
  <2>3. QED
    BY <2>1, <2>2, HoldsStep
<1>5. ASSUME NEW p \in Procs, PreRun(p) PROVE DeploymentInv'
  <2>1. CASE Exit(p)
    BY <1>5, <2>1, ExitHolds DEF PreRun
  <2>2. CASE ~Exit(p)
    <3>1. /\ mem' = [mem EXCEPT ![p] =
                [ApplyServerSetting(mem[p]) EXCEPT !.format = Lookup(mem[p], "output-format")]]
          /\ pc' = [pc EXCEPT ![p] = "run"] /\ UNCHANGED <<file, system, sent>>
      BY <1>5, <2>2 DEF PreRun, Goto
    <3> DEFINE applied == ApplyServerSetting(mem[p])
    <3>2. /\ DOMAIN applied = DOMAIN mem[p] /\ applied.cmd = mem[p].cmd
          /\ applied.around = mem[p].around /\ applied.file = mem[p].file
      BY <1>0 DEF ApplyServerSetting, MemoryOK
    <3> HIDE DEF applied
    <3>3. /\ \A q \in Procs : q # p => pc'[q] = pc[q] /\ mem'[q] = mem[q]
          /\ mem'[p].cmd = mem[p].cmd /\ mem'[p].around = mem[p].around /\ mem'[p].file = mem[p].file
          /\ pc'[p] = "run"
      BY <1>0, <3>1, <3>2 DEF MemoryOK, applied
    <3>4. MemoryElsewhere(pc'[p], mem'[p])
      BY <1>0, <3>3 DEF MemoryElsewhere
    <3>5. FilesElsewhere' /\ OneDeployment'
      BY <1>0, <3>1 DEF FilesElsewhere, OneDeployment
    <3>6. QED
      BY <3>3, <3>4, <3>5, HoldsStep
  <2>3. QED
    BY <2>1, <2>2
<1>6. ASSUME NEW p \in Procs,
             \/ ServerSet(p) \/ ServerUse(p) \/ ServerClear(p) \/ DefaultFormat(p)
             \/ ServerListing(p) \/ Report(p)
      PROVE  DeploymentInv'
  <2>1. CASE Rejected(p)
    BY <2>1, ExitHolds DEF Rejected
  <2>2. CASE ~Rejected(p)
    <3>1. /\ UNCHANGED <<file, system, mem, sent>>
          /\ pc'[p] \in {"save", "report", "end"} /\ \A q \in Procs : q # p => pc'[q] = pc[q]
      BY <1>0, <1>6, <2>2
      DEF ServerSet, ServerUse, ServerClear, DefaultFormat, ServerListing, Report, Proceed, Goto
    <3>2. MemoryElsewhere(pc'[p], mem'[p])
      BY <1>0, <3>1 DEF MemoryElsewhere
    <3>3. FilesElsewhere' /\ OneDeployment'
      BY <1>0, <3>1 DEF FilesElsewhere, OneDeployment
    <3>4. QED
      BY <3>1, <3>2, <3>3, HoldsStep
  <2>3. QED
    BY <2>1, <2>2
<1>7. ASSUME NEW p \in Procs, SaveRead(p) PROVE DeploymentInv'
  <2>1. CASE Rejected(p)
    BY <2>1, ExitHolds DEF Rejected
  <2>2. CASE ~Rejected(p)
    <3> PICK blind \in Reads(mem[p].around) :
          /\ ~(file = Invalid /\ ~blind)
          /\ mem' = [mem EXCEPT ![p].merged = SaveKeys(IF blind THEN NoKeys ELSE file, Saves(mem[p].cmd)),
                                ![p].over = SetKeys(@, Saves(mem[p].cmd)), ![p].blind = blind]
          /\ Goto(p, "write") /\ UNCHANGED <<file, system, sent>>
      BY <1>7, <2>2 DEF SaveRead
    <3> DEFINE tree == IF blind THEN NoKeys ELSE file
               saved == SaveKeys(tree, Saves(mem[p].cmd))
    <3>1. /\ pc[p] = "save"
          /\ mem' = [mem EXCEPT ![p].merged = saved, ![p].over = SetKeys(@, Saves(mem[p].cmd)),
                                ![p].blind = blind]
          /\ pc' = [pc EXCEPT ![p] = "write"] /\ UNCHANGED <<file, system, sent>>
      BY <1>7 DEF SaveRead, Goto
    <3>2. HoldsElsewhere(saved)
      <4>1. IsTree(tree) /\ HoldsElsewhere(tree)
        BY <1>0, NoKeysIsTree, NoKeysElsewhere DEF FilesOK, FilesElsewhere
      <4>4. CanSave(mem[p].cmd)
        BY <1>0, <3>1 DEF StageOK
      <4> HIDE DEF tree
      <4>2. mem[p].cmd.op = "set" => Elsewhere(mem[p].cmd.arg)
        BY <1>0 DEF MemoryElsewhere
      <4>3. QED
        BY <4>1, <4>2, <4>4, SavedElsewhere
    <3> HIDE DEF saved
    <3>3. /\ mem'[p].cmd = mem[p].cmd /\ mem'[p].around = mem[p].around
          /\ mem'[p].file = mem[p].file /\ mem'[p].merged = saved
      BY <1>0, <3>1 DEF MemoryOK
    <3>4. \A q \in Procs : q # p => pc'[q] = pc[q] /\ mem'[q] = mem[q]
      BY <1>0, <3>1
    <3>5. MemoryElsewhere(pc'[p], mem'[p])
      BY <1>0, <3>2, <3>3 DEF MemoryElsewhere
    <3>6. FilesElsewhere' /\ OneDeployment'
      BY <1>0, <3>1 DEF FilesElsewhere, OneDeployment
    <3>7. QED
      BY <3>4, <3>5, <3>6, HoldsStep
  <2>3. QED
    BY <2>1, <2>2
<1>8. ASSUME NEW p \in Procs, SendRequest(p) PROVE DeploymentInv'
  <2>1. CASE Rejected(p)
    BY <2>1, ExitHolds DEF Rejected
  <2>2. CASE ~Rejected(p)
    <3>1. /\ pc[p] = "run" /\ LookupKey(mem[p]) \notin {Refused, Blank}
          /\ sent' = [key |-> LookupKey(mem[p]), server |-> Target(mem[p]),
                      absolute |-> Absolute(mem[p].cmd),
                      given |-> mem[p].cmd.flag["server"], around |-> mem[p].around]
          /\ pc' = [pc EXCEPT ![p] = "end"] /\ UNCHANGED <<file, system, mem>>
      BY <1>8, <2>2 DEF SendRequest, Running, Goto
    <3>2. Settled(mem[p]) /\ AroundElsewhere(mem[p].around) /\ HoldsElsewhere(mem[p].file)
      BY <1>0, <3>1 DEF StageOK, MemoryElsewhere
    <3>3. OneDeployment'
      BY <1>0, <3>1, <3>2, SentTogether
    <3>4. /\ pc'[p] = "end" /\ \A q \in Procs : q # p => pc'[q] = pc[q] /\ mem'[q] = mem[q]
      BY <1>0, <3>1
    <3>5. MemoryElsewhere(pc'[p], mem'[p]) /\ FilesElsewhere'
      BY <1>0, <3>1, <3>4 DEF MemoryElsewhere, FilesElsewhere
    <3>6. QED
      BY <3>3, <3>4, <3>5, HoldsStep
  <2>3. QED
    BY <2>1, <2>2
<1>9. ASSUME NEW p \in Procs, Leave(p) PROVE DeploymentInv'
  BY <1>9, ExitHolds DEF Leave
<1>10. CASE UNCHANGED vars
  BY <1>10 DEF vars, DeploymentInv, FilesElsewhere, OneDeployment
<1>11. QED
  BY <1>1, <1>2, <1>3, <1>4, <1>5, <1>6, <1>7, <1>8, <1>9, <1>10 DEF Next, Step

LEMMA InitHolds == Init => DeploymentInv
<1> SUFFICES ASSUME Init PROVE DeploymentInv
  OBVIOUS
<1>1. FilesElsewhere
  BY SourcesAssumption DEF Init, FilesElsewhere
<1>2. \A p \in Procs : MemoryElsewhere(pc[p], mem[p])
  BY IdleElsewhere DEF Init
<1>3. QED
  BY <1>1, <1>2 DEF DeploymentInv, Init, OneDeployment

(***************************************************************************)
(* Where neither --server nor an absolute URL says where to go, no request *)
(* reaches one deployment with another's key; and no .env file of a        *)
(* directory supplies a key to any request unless the exported switch is   *)
(* on.                                                                     *)
(***************************************************************************)
THEOREM AlwaysOneDeployment == Spec => []OneDeployment
<1>1. Init => IInv /\ DeploymentInv
  BY InitInvariant, InitHolds
<1>2. IInv /\ DeploymentInv /\ [Next]_vars => IInv' /\ DeploymentInv'
  BY NextInvariant, NextHolds
<1>3. DeploymentInv => OneDeployment
  BY DEF DeploymentInv
<1>4. QED
  BY <1>1, <1>2, <1>3, PTL DEF Spec

(***************************************************************************)
(* What is shown. Whatever the normal form of a response is, if it keeps   *)
(* the keys of envelopes.                                                  *)
(***************************************************************************)

LEMMA CandidateIsAmong ==
  ASSUME NEW arrays
  PROVE  Candidate(arrays) = NoKey \/ Candidate(arrays) \in arrays
<1> DEFINE Conventional(i) == Key(ConventionalCollectionKeys[i])
           named == {i \in DOMAIN ConventionalCollectionKeys : Conventional(i) \in arrays}
<1>1. CASE named # {}
  <2>1. named \subseteq Nat
    BY DEF ConventionalCollectionKeys
  <2> DEFINE least == CHOOSE i \in named : \A j \in named : i <= j
  <2> HIDE DEF named
  <2>2. least \in named
    BY <1>1, <2>1, FirstIsLeast DEF First
  <2>3. Candidate(arrays) = Conventional(least)
    BY <1>1 DEF Candidate, named
  <2>4. QED
    BY <2>2, <2>3 DEF named
<1>2. CASE named = {}
  <2>1. Candidate(arrays) = SoleObjectArray(arrays)
    BY <1>2 DEF Candidate
  <2>2. Cardinality(arrays) = 1 => arrays # {}
    BY FS_EmptySet
  <2>3. QED
    BY <2>1, <2>2 DEF SoleObjectArray
<1>3. QED
  BY <1>1, <1>2

\* None is found among no arrays, or among several without a conventional name.
LEMMA WithoutCandidate ==
  ASSUME NEW arrays, NoKey \notin arrays, Candidate(arrays) = NoKey
  PROVE  /\ arrays = {} \/ \E k1, k2 \in arrays : k1 # k2
         /\ \A k \in arrays : ~NamedConventionally(k)
<1> DEFINE Conventional(i) == Key(ConventionalCollectionKeys[i])
           named == {i \in DOMAIN ConventionalCollectionKeys : Conventional(i) \in arrays}
<1>1. CASE named # {}
  <2>1. named \subseteq Nat
    BY DEF ConventionalCollectionKeys
  <2> DEFINE least == CHOOSE i \in named : \A j \in named : i <= j
  <2> HIDE DEF named
  <2>2. least \in named
    BY <1>1, <2>1, FirstIsLeast DEF First
  <2>3. Candidate(arrays) = Conventional(least)
    BY <1>1 DEF Candidate, named
  <2>4. QED
    BY <2>2, <2>3 DEF named
<1>2. CASE named = {}
  <2>1. SoleObjectArray(arrays) = NoKey
    BY <1>2 DEF Candidate
  <2>2. SUFFICES ASSUME NEW k \in arrays, \A j \in arrays : j = k PROVE FALSE
    BY <1>2 DEF NamedConventionally
  <2>3. arrays = {k}
    BY <2>2
  <2>4. Cardinality(arrays) = 1
    BY <2>3, FS_Singleton
  <2>5. QED
    BY <2>1, <2>2, <2>4 DEF SoleObjectArray
<1>3. QED
  BY <1>1, <1>2

\* The rows found in an envelope, and what an empty one means.
LEMMA RowsOfEnvelope ==
  ASSUME NEW object, NoKey \notin DOMAIN object.at, CollectionKey(object) # NoKey
  PROVE  LET k == CollectionKey(object)
         IN  /\ k \in DOMAIN object.at /\ IsRows(object.at[k], TRUE)
             /\ object.at[k].items = <<>> => NothingInThem(object) \/ Ambiguous(object)
<1> DEFINE k == CollectionKey(object)
           full == {j \in DOMAIN object.at : IsRows(object.at[j], FALSE)}
           all == {j \in DOMAIN object.at : IsRows(object.at[j], TRUE)}
<1>1. full \subseteq all /\ full = Populated(object)
  BY DEF IsRows, Populated
<1>2. CollectionCandidate(object, FALSE) = Candidate(full)
  BY DEF CollectionCandidate
<1>3. CASE Candidate(full) # NoKey
  <2>1. k = Candidate(full)
    BY <1>2, <1>3 DEF CollectionKey
  <2>2. k \in full
    BY <1>3, <2>1, CandidateIsAmong
  <2>3. QED
    BY <1>1, <2>2 DEF IsRows
<1>4. CASE Candidate(full) = NoKey
  <2>1. k = CollectionCandidate(object, TRUE) /\ k # NoKey
    BY <1>2, <1>4 DEF CollectionKey
  <2>2. ~HasUnrenderableArray(object) /\ k = Candidate(all)
    BY <2>1 DEF CollectionCandidate
  <2>3. k \in all
    BY <2>1, <2>2, CandidateIsAmong
  <2>4. full = {} \/ Ambiguous(object)
    BY <1>1, <1>4, WithoutCandidate DEF Ambiguous
  <2>5. full = {} => NothingInThem(object)
    BY <2>2 DEF HasUnrenderableArray, IsRows, NothingInThem, Arrays
  <2>6. QED
    BY <1>1, <2>3, <2>4, <2>5
<1>5. QED
  BY <1>3, <1>4

\* Something that is no table is called by its format.
LEMMA SerializedIsNoTable ==
  ASSUME NEW data, NEW how, how.format \in OutputFormats, how.configured \in OutputFormats \ {"table"}
  PROVE  Serialize(data, how).as \notin {"table", "noResults"}
<1>1. SerializationFormat(how.format, how.configured) \notin {"table", "noResults"}
  BY DEF SerializationFormat, OutputFormats
<1> DEFINE format == SerializationFormat(how.format, how.configured)
<1>2. Serialize(data, how).as \in {"json", "raw", format}
  BY DEF Serialize
<1>3. QED
  BY <1>1, <1>2

\* A table, or "No results.", stands for rows that were found.
LEMMA RenderedFrom ==
  ASSUME NEW response, NEW requested, NEW fitting,
         NEW rendered, rendered = RenderTable(response, requested, fitting),
         rendered.as \in {"table", "noResults"}
  PROVE  LET found == TableRows(Normalized(response), requested)
         IN  /\ found.ok
             /\ IF rendered.as = "table"
                THEN rendered.rows = found.rows /\ rendered.footer = TableFooter(found.label, found.envelope)
                ELSE found.rows = <<>>
<1> DEFINE found == TableRows(Normalized(response), requested)
<1>1. found.ok /\ rendered = RenderRows(found, requested, fitting)
  BY DEF RenderTable, RenderFound, NotATable
<1> HIDE DEF found
<1>2. \/ rendered = NoResults /\ found.rows = <<>>
      \/ \E columns : rendered = Table(found.rows, columns, TableFooter(found.label, found.envelope))
  BY <1>1 DEF RenderRows, Refusal, NotATable
<1>3. QED
  BY <1>1, <1>2 DEF NoResults, Table, found

LEMMA TableShowsCollection ==
  ASSUME NEW response, NEW how,
         how.format \in OutputFormats, how.configured \in OutputFormats \ {"table"},
         Normalized(response).kind = "object" => NoKey \notin DOMAIN Normalized(response).at
  PROVE  ShowsCollection(response, how)
<1> DEFINE printed == Format(response, how)
           data == Normalized(response)
           rows == IF printed.as = "table" THEN printed.rows ELSE <<>>
<1>1. SUFFICES ASSUME printed.as \in {"table", "noResults"}
               PROVE  /\ how.terminal /\ ~how.raw
                      /\ IF data.kind = "list" THEN rows = data.items
                         ELSE /\ \E k \in Arrays(data) : data.at[k].items = rows
                              /\ rows = <<>> => NothingInThem(data) \/ Ambiguous(data)
                              /\ printed.as = "table" =>
                                   \A k \in DOMAIN data.at :
                                     \/ k \in printed.footer.members
                                     \/ IsRows(data.at[k], TRUE)
                                     \/ IsEnvelopePlumbing(k, data.at[k])
  BY DEF ShowsCollection, AsTable, RowsShown
<1>2. printed # Serialize(response, how)
  BY <1>1, SerializedIsNoTable
<1>3. ShouldRenderTable(how)
  BY <1>2 DEF Format
<1>4. how.terminal /\ ~how.raw
  BY <1>3 DEF ShouldRenderTable
<1>5. PICK requested : printed = RenderTable(response, requested, how.fitting)
  <2>1. printed # Refusal
    BY <1>1 DEF Refusal
  <2>2. QED
    BY <1>2, <1>3, <2>1 DEF Format, OrSerialize
<1> DEFINE found == TableRows(data, requested)
<1>6. /\ found.ok
      /\ IF printed.as = "table"
         THEN printed.rows = found.rows /\ printed.footer = TableFooter(found.label, found.envelope)
         ELSE found.rows = <<>>
  <2> HIDE DEF printed
  <2>1. QED
    BY <1>1, <1>5, RenderedFrom
<1> HIDE DEF printed
<1>7. rows = found.rows
  BY <1>1, <1>6
<1>8. CASE data.kind = "object"
  <2> DEFINE k == CollectionKey(data)
  <2>1. k # NoKey /\ found = RowsOf(data.at[k].items, k, data)
    BY <1>6, <1>8 DEF TableRows, NoTable
  <2>2. found.rows = data.at[k].items /\ found.label = k /\ found.envelope = data
    BY <2>1 DEF RowsOf
  <2>3. NoKey \notin DOMAIN data.at
    BY <1>8
  <2> HIDE DEF found
  <2>4. /\ k \in Arrays(data)
        /\ data.at[k].items = <<>> => NothingInThem(data) \/ Ambiguous(data)
    BY <2>1, <2>3, RowsOfEnvelope DEF IsRows, Arrays
  <2>5. ASSUME printed.as = "table", NEW j \in DOMAIN data.at
        PROVE  \/ j \in printed.footer.members
               \/ IsRows(data.at[j], TRUE)
               \/ IsEnvelopePlumbing(j, data.at[j])
    <3>1. printed.footer = TableFooter(k, data)
      BY <1>6, <2>2, <2>5
    <3>2. printed.footer.members = {i \in DOMAIN data.at :
                                      ~IsRows(data.at[i], TRUE) /\ ~IsEnvelopePlumbing(i, data.at[i])}
      BY <2>1, <3>1 DEF TableFooter
    <3>3. QED
      BY <2>5, <3>2
  <2> HIDE DEF rows
  <2>6. QED
    BY <1>4, <1>7, <1>8, <2>2, <2>4, <2>5
<1>9. CASE data.kind # "object"
  <2>1. IsRows(data, requested # <<>>) /\ found = RowsOf(data.items, NoKey, Null)
    BY <1>6, <1>9 DEF TableRows, NoTable
  <2>2. data.kind = "list" /\ found.rows = data.items
    BY <2>1 DEF IsRows, RowsOf
  <2> HIDE DEF found, rows
  <2>3. QED
    BY <1>4, <1>7, <2>2
<1>10. QED
  BY <1>8, <1>9

\* Every invocation has a format, and so has what was shown; no response has an
\* empty key.
MemoryShows(m) == m.format \in OutputFormats /\ KeysNamed(m.cmd.data)

ShownInv ==
  /\ \A p \in Procs : MemoryShows(mem[p])
  /\ shown # Nothing =>
       /\ shown.how.format \in OutputFormats /\ shown.how.configured = Configured
       /\ KeysNamed(shown.data)

LEMMA IdleShows == MemoryShows(Idle)
BY DEF MemoryShows, Idle, OutputFormats, KeysNamed, Null

\* What the commands about servers report has keys.
LEMMA ReportsAreNamed ==
  ASSUME NEW m
  PROVE  KeysNamed(ServerList(m)) /\ KeysNamed(ServerReport(m))
<1>1. DOMAIN ServerList(m).at = {Key(name) : name \in {"selected_server", "overridden", "servers"}}
  BY DEF ServerList, Object, Members
<1>2. DOMAIN ServerReport(m).at \in {{Key("server")}, {Key("output_format")}}
  BY DEF ServerReport, Object, Members
<1>3. \A name \in {"selected_server", "overridden", "servers", "server", "output_format"} :
        Key(name) # NoKey
  BY DEF NoKey, Key, Part
<1>4. QED
  BY <1>1, <1>2, <1>3 DEF KeysNamed

LEMMA ShowShows ==
  ASSUME NEW p \in Procs, NEW data, NEW list, MemoryShows(mem[p]), KeysNamed(data), Show(p, data, list)
  PROVE  /\ shown'.how.format \in OutputFormats /\ shown'.how.configured = Configured
         /\ KeysNamed(shown'.data)
BY DEF Show, MemoryShows

LEMMA InitShows == Init => ShownInv
BY IdleShows DEF Init, ShownInv

LEMMA NextShows == IInv /\ ShownInv /\ [Next]_vars => ShownInv'
<1> SUFFICES ASSUME IInv, ShownInv, [Next]_vars PROVE ShownInv'
  OBVIOUS
<1>0. /\ DOMAIN mem = Procs
      /\ \A p \in Procs : MemoryShows(mem[p]) /\ MemoryOK(mem[p])
  BY DEF IInv, ShownInv
<1>1. ASSUME NEW p \in Procs, NEW l \in Launches, Launch(p, l.cmd, l.around) PROVE ShownInv'
  <2>1. KeysNamed(l.cmd.data)
    BY ResponsesAssumption
  <2>2. MemoryShows(mem'[p])
    BY <1>0, <1>1, <2>1, IdleShows DEF Launch, MemoryShows, Idle
  <2>3. \A q \in Procs \ {p} : mem'[q] = mem[q]
    BY <1>0, <1>1 DEF Launch
  <2>4. QED
    BY <1>0, <1>1, <2>2, <2>3 DEF Launch, ShownInv
<1>2. ASSUME NEW p \in Procs, Step(p) PROVE ShownInv'
  <2>1. \A q \in Procs : MemoryShows(mem'[q])
    <3>1. CASE Exit(p)
      BY <1>0, <3>1, IdleShows DEF Exit
    <3>2. CASE PreRun(p) /\ ~Exit(p)
      <4> DEFINE m == mem[p]
                 settled == [ApplyServerSetting(m) EXCEPT !.format = Lookup(m, "output-format")]
      <4>1. Lookup(m, "output-format") \in OutputFormats /\ mem' = [mem EXCEPT ![p] = settled]
        BY <3>2 DEF PreRun
      <4>2. DOMAIN ApplyServerSetting(m) = DOMAIN m /\ ApplyServerSetting(m).cmd = m.cmd
        BY <1>0 DEF ApplyServerSetting, MemoryOK
      <4>3. settled.format \in OutputFormats /\ settled.cmd = m.cmd
        BY <1>0, <4>1, <4>2 DEF MemoryOK
      <4> HIDE DEF settled
      <4>4. QED
        BY <1>0, <4>1, <4>3 DEF MemoryShows
    <3>3. CASE ~Exit(p) /\ ~PreRun(p)
      <4>1. \A q \in Procs : mem'[q].format = mem[q].format /\ mem'[q].cmd = mem[q].cmd
        <5> DEFINE saves == \E blind \in Reads(mem[p].around) :
              mem' = [mem EXCEPT
                ![p].merged = SaveKeys(IF blind THEN NoKeys ELSE file, Saves(mem[p].cmd)),
                ![p].over = SetKeys(@, Saves(mem[p].cmd)), ![p].blind = blind]
                   merges == mem' = [mem EXCEPT ![p].merged = MigrateServer(file)]
                   reloads == mem' = [mem EXCEPT ![p].file = ReadInConfig, ![p].blind = FALSE]
                   keeps == UNCHANGED mem
        <5>1. keeps \/ merges \/ saves \/ reloads
          BY <1>2, <3>3 DEF Step, MigrateRead, MigrateWrite, MigrateReload, ServerSet, ServerUse,
             ServerClear, DefaultFormat, SaveRead, SaveWrite, ServerListing, Report, SendRequest,
             Leave, Proceed, Rejected
        <5>2. CASE keeps
          BY <5>2
        <5>3. CASE saves
          <6>1. PICK blind \in Reads(mem[p].around) :
                  mem' = [mem EXCEPT
                    ![p].merged = SaveKeys(IF blind THEN NoKeys ELSE file, Saves(mem[p].cmd)),
                    ![p].over = SetKeys(@, Saves(mem[p].cmd)), ![p].blind = blind]
            BY <5>3
          <6>2. QED
            BY <1>0, <6>1 DEF MemoryOK
        <5>4. CASE merges
          BY <1>0, <5>4 DEF MemoryOK
        <5>5. CASE reloads
          BY <1>0, <5>5 DEF MemoryOK
        <5> HIDE DEF keeps, merges, saves, reloads
        <5>6. QED
          BY <5>1, <5>2, <5>3, <5>4, <5>5
      <4>2. QED
        BY <1>0, <4>1 DEF MemoryShows
    <3>4. QED
      BY <3>1, <3>2, <3>3
  <2>2. \/ UNCHANGED shown
        \/ shown' = Nothing
        \/ \E data, list : KeysNamed(data) /\ Show(p, data, list)
    <3>1. KeysNamed(mem[p].cmd.data)
      BY <1>0 DEF MemoryShows
    <3>2. QED
      BY <1>2, <3>1, ReportsAreNamed DEF Step, MigrateRead, MigrateWrite, MigrateReload, PreRun,
         ServerSet, ServerUse, ServerClear, DefaultFormat, SaveRead, SaveWrite, ServerListing,
         Report, SendRequest, Leave, Proceed, Rejected
  <2>3. shown' # Nothing =>
          /\ shown'.how.format \in OutputFormats /\ shown'.how.configured = Configured
          /\ KeysNamed(shown'.data)
    BY <1>0, <2>2, ShowShows DEF ShownInv
  <2>4. QED
    BY <2>1, <2>3 DEF ShownInv
<1>3. CASE UNCHANGED vars
  BY <1>3 DEF ShownInv, vars
<1>4. QED
  BY <1>1, <1>2, <1>3 DEF Next

\* Normalized is what normalizeTableValue says of a value, given what it makes of
\* the parts.
NormalForms == \A value : Normalized(value) = NormalizedWith(value, Normalized)

\* So an object has its keys in normal form, and nothing else becomes an object.
LEMMA NormalizedKeepsKeys ==
  ASSUME NormalForms, NEW value, Normalized(value).kind = "object"
  PROVE  value.kind = "object" /\ DOMAIN Normalized(value).at = DOMAIN value.at
<1>1. Normalized(value) = NormalizedWith(value, Normalized)
  BY DEF NormalForms
<1>2. CASE value.kind = "object"
  BY <1>1, <1>2 DEF NormalizedWith, Object
<1>3. CASE value.kind = "list"
  <2>1. Normalized(value).kind = "list"
    BY <1>1, <1>3 DEF NormalizedWith, List
  <2>2. QED
    BY <2>1
<1>4. CASE value.kind \notin {"object", "list"}
  <2>1. Normalized(value) = value
    BY <1>1, <1>4 DEF NormalizedWith
  <2>2. QED
    BY <1>4, <2>1
<1>5. QED
  BY <1>2, <1>3, <1>4

\* A table is for a terminal and shows one collection whole, whatever the responses
\* are and however they are to be shown, if they have no empty keys; data in arrays
\* is reported empty only if it is ambiguous (renderTable, tableRows, tableFooter).
THEOREM AlwaysShowsCollection ==
  ASSUME NormalForms
  PROVE  Spec => []CollectionShown
<1>1. Init => IInv /\ ShownInv
  BY InitInvariant, InitShows
<1>2. IInv /\ ShownInv /\ [Next]_vars => IInv' /\ ShownInv'
  BY NextInvariant, NextShows
<1>3. ShownInv => CollectionShown
  <2>1. SUFFICES ASSUME ShownInv, shown # Nothing PROVE ShowsCollection(shown.data, shown.how)
    BY DEF CollectionShown
  <2>2. KeysNamed(shown.data)
    BY <2>1 DEF ShownInv
  <2>3. Normalized(shown.data).kind = "object" => NoKey \notin DOMAIN Normalized(shown.data).at
    BY <2>2, NormalizedKeepsKeys DEF KeysNamed
  <2>4. QED
    BY <2>1, <2>3, TableShowsCollection, ConfiguredAssumption DEF ShownInv
<1>4. QED
  BY <1>1, <1>2, <1>3, PTL DEF Spec
=============================================================================
