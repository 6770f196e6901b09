------------------------------ MODULE Settings ------------------------------
(***************************************************************************)
(* Where one invocation takes its settings from (cli/cli.go, cli/agent.go, *)
(* apikey/apikey.go): the command line, the environment, .env files and    *)
(* config.json, as viper ranks them, and the rules on top of that for the  *)
(* server a request goes to and the key it carries.                        *)
(***************************************************************************)
EXTENDS Integers, Sequences

CONSTANTS
  Unset,        \* no value given
  Blank,        \* an empty value
  Unusable,     \* a server value that is no base URL
  Refused,      \* the key of a profile that has none, or is unknown
  Loopback,     \* hosts that are this machine
  Profiles,     \* credentials.json: profile name -> [key, server]
  Servers       \* the servers of the OpenAPI document, in order

\* config.json's keys, and the variables <PREFIX>_... that go by their names.
Keys == {"server", "server-default", "server-index", "output-format", "profile", "profile-selected"}

\* The API key's variable, and one that belongs to another program.
Variables == Keys \union {"api-key", "unrelated"}

NoKeys == [k \in Keys |-> Unset]
NoVariables == [v \in Variables |-> Unset]

-----------------------------------------------------------------------------
(* Server URLs. A value as given is a record of what the rules look at.    *)

\* ftp: any scheme that is not HTTP's; typo: one that looks mistyped.
Schemes == {"http", "https", "ftp", "none", "typo"}
URLs == [scheme : Schemes, host : STRING, user : BOOLEAN, query : BOOLEAN, canonical : BOOLEAN]

\* A server value that may be absent.
Given == {Unset, Blank} \union URLs

\* What marks an absent value, or a bad one, is neither a URL nor an index.
ASSUME MarksAssumption ==
  /\ Unset # Blank
  /\ \A mark \in {Unset, Blank, Unusable} : mark \notin URLs /\ mark \notin Int

ASSUME ServersAssumption == Servers \in Seq(URLs)

Url(scheme, host) ==
  [scheme |-> scheme, host |-> host, user |-> FALSE, query |-> FALSE, canonical |-> TRUE]

\* withScheme refuses to guess for loopback hosts and mistyped schemes.
Guessable(raw) == raw.host \notin Loopback /\ raw.scheme # "typo"

\* checkParsedServer, on a value whose scheme was there or was added.
Usable(raw) ==
  /\ raw.scheme \in {"http", "https", "none"}
  /\ raw.host # ""
  /\ ~(raw.scheme = "none" /\ raw.user)
  /\ ~raw.query

\* NormalizeServerURL: scheme added, case lowered, trailing slash dropped.
NormalizeServerURL(raw) ==
  IF raw = Blank THEN Unusable
  ELSE IF (raw.scheme \in {"none", "typo"} => Guessable(raw)) /\ Usable(raw)
  THEN [scheme |-> IF raw.scheme = "none" THEN "https" ELSE raw.scheme,
        host |-> raw.host, user |-> raw.user, query |-> FALSE, canonical |-> TRUE]
  ELSE Unusable

\* normalizeResolved: an unusable value goes out as it is.
NormalizeResolved(raw) ==
  IF raw = Blank \/ NormalizeServerURL(raw) = Unusable THEN raw ELSE NormalizeServerURL(raw)

-----------------------------------------------------------------------------
(* The environment and .env files.                                         *)

\* dotEnvEnabled: <PREFIX>_DOTENV as exported, never as a .env file has it.
DotEnvUsable(switch) == switch \in {Unset, Blank, TRUE, FALSE}
DotEnvEnabled(switch) == switch = TRUE

\* dotEnvWanted: this program's variables and its key, no other program's.
DotEnvWanted(v) == v # "unrelated"

\* scanDotEnvFile: the first file that defines v.
Defining(files, v) == {i \in DOMAIN files : files[i][v] # Unset}
First(indexes) == CHOOSE i \in indexes : \A j \in indexes : i <= j

\* loadDotEnvFiles: what is exported, even empty, stays.
LoadDotEnvFiles(env, switch, files) ==
  [v \in Variables |->
     IF /\ DotEnvEnabled(switch)
        /\ DotEnvWanted(v)
        /\ env[v] = Unset
        /\ Defining(files, v) # {}
     THEN files[First(Defining(files, v))][v]
     ELSE env[v]]

-----------------------------------------------------------------------------
(* One value. m: an invocation's command line (cmd.flag), environment (env),   *)
(* config.json as loaded (file) and what was set since (over).             *)

Default(k) == CASE k = "output-format" -> "table" [] k = "server-index" -> 0 [] OTHER -> Blank

\* viper.Get.
Lookup(m, k) ==
  IF m.over[k] # Unset THEN m.over[k]
  ELSE IF m.cmd.flag[k] # Unset THEN m.cmd.flag[k]
  ELSE IF m.env[k] \notin {Unset, Blank} THEN m.env[k]
  ELSE IF m.file[k] # Unset THEN m.file[k]
  ELSE Default(k)

\* activeProfileNameWithSource.
ActiveProfileName(m) ==
  IF m.cmd.flag["profile"] # Unset THEN m.cmd.flag["profile"]
  ELSE IF Lookup(m, "profile") # Blank THEN Lookup(m, "profile")
  ELSE Lookup(m, "profile-selected")

ProfileExists(name) == name \in DOMAIN Profiles

ProfileServer(m) ==
  IF ProfileExists(ActiveProfileName(m)) THEN Profiles[ActiveProfileName(m)].server ELSE Blank

\* SelectedServer: an index out of range means the first server.
ServerAt(index) ==
  IF Servers = <<>> THEN Blank
  ELSE IF index >= 0 /\ index < Len(Servers) THEN Servers[index + 1] ELSE Servers[1]
SelectedServer(m) == ServerAt(Lookup(m, "server-index"))

\* Seeded fault: the environment outranks the profile.
ResolveByKeyFirst(m) ==
  IF Lookup(m, "server") # Blank THEN Lookup(m, "server")
  ELSE IF ProfileServer(m) # Blank THEN ProfileServer(m)
  ELSE IF Lookup(m, "server-default") # Blank THEN Lookup(m, "server-default")
  ELSE SelectedServer(m)

\* resolveServerRaw: --server, the profile's, the setting, `server set`, the
\* OpenAPI document's.
ResolveServerRaw(m) ==
  IF m.cmd.flag["server"] \notin {Unset, Blank} THEN m.cmd.flag["server"]
  ELSE IF ProfileServer(m) # Blank THEN ProfileServer(m)
  ELSE IF Lookup(m, "server") # Blank THEN Lookup(m, "server")
  ELSE IF Lookup(m, "server-default") # Blank THEN Lookup(m, "server-default")
  ELSE SelectedServer(m)

ResolveServer(m) == NormalizeResolved(ResolveServerRaw(m))

\* lookupKey: a profile in force is authoritative. Blank: no key anywhere.
LookupKey(m) ==
  IF ActiveProfileName(m) # Blank
  THEN IF ProfileExists(ActiveProfileName(m)) /\ Profiles[ActiveProfileName(m)].key # Blank
       THEN Profiles[ActiveProfileName(m)].key ELSE Refused
  ELSE IF m.env["api-key"] # Unset THEN m.env["api-key"] ELSE Blank

\* resolveServerSelection: by index, else by URL or description. -1: no match.
ResolveServerSelection(input) ==
  LET matching == IF input.by = "index" THEN {input.index + 1} \cap DOMAIN Servers
                  ELSE {i \in DOMAIN Servers : Servers[i] = input.url}
  IN  IF matching = {} THEN -1 ELSE First(matching) - 1

OutputFormats == {"json", "yaml", "toon", "table"}

-----------------------------------------------------------------------------
(* config.json.                                                            *)

\* What the rules above read in a file, or in an environment.
IsSource(names, source) ==
  /\ DOMAIN source = names
  /\ source["server"] \in Given /\ source["server-default"] \in Given

IsTree(tree) == IsSource(Keys, tree) /\ tree["server-index"] \in {Unset} \union Int
IsEnvironment(env) == IsSource(Variables, env) /\ env["server-index"] \in {Unset, Blank} \union Int

\* Seeded fault: the old key replaces a default that was set since.
MigrateOver(tree) ==
  IF tree["server"] \in {Unset, Blank} THEN [tree EXCEPT !["server"] = Unset]
  ELSE [tree EXCEPT !["server"] = Unset, !["server-default"] = tree["server"]]

\* migrateLegacyServerConfig: an older version's `server` becomes the default,
\* unless there is one.
MigrateServer(tree) ==
  IF tree["server-default"] \in {Unset, Blank} /\ tree["server"] # Blank
  THEN [tree EXCEPT !["server"] = Unset, !["server-default"] = tree["server"]]
  ELSE [tree EXCEPT !["server"] = Unset]

\* saveJSONConfig: a key is replaced, deleted when its value is nil, or kept.
Nil == Blank
SaveKeys(tree, values) ==
  [k \in Keys |-> CASE k \notin DOMAIN values -> tree[k]
                    [] k \in DOMAIN values /\ values[k] = Nil -> Unset
                    [] k \in DOMAIN values /\ values[k] # Nil -> values[k]]

\* The same change in memory, where a deleted key reads as empty.
SetKeys(over, values) == [k \in Keys |-> IF k \in DOMAIN values THEN values[k] ELSE over[k]]
=============================================================================
