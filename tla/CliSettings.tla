---------------------------- MODULE CliSettings ----------------------------
(***************************************************************************)
(* Invocations of a generated CLI over config.json, from Init to what they *)
(* print: initConfig, with .env files and the migration of an older        *)
(* version's server key, the checks before any command (PersistentPreRunE),*)
(* the server and default-format commands with saveJSONConfig's read and   *)
(* replacement, and a request with the server and key it resolves.         *)
(* Invocations may overlap, a write may fail, the file may not be readable,*)
(* and an invocation may be killed between any two steps.                  *)
(***************************************************************************)
EXTENDS Settings, Values

CONSTANTS
  Procs,          \* invocations that may be running
  Launches,       \* what is launched: a command line (op, arg, flags, what it shows
                  \* and how) among variables, <PREFIX>_DOTENV, .env files and a
                  \* config.json that can be read or not (around)
  Concurrent,     \* those of them that may run beside another (a bound)
  Homes,          \* what both config.json may hold at first: the user's, the system's
  Configured,     \* Config.SerializationFormat
  Nothing         \* no file, no request, nothing shown

\* serializationOrDefault: a table cannot be what a table falls back to.
ASSUME ConfiguredAssumption == Configured \in OutputFormats \ {"table"}

\* A config.json that is no JSON: no key can be read from it.
Invalid == <<>>

\* Files have all their keys, or none can be read from them.
ASSUME HomesAssumption ==
  \A home \in Homes :
    /\ home.file = Invalid \/ IsTree(home.file)
    /\ home.system = Nothing \/ IsTree(home.system)

\* `server set` takes a URL, raw `request` a path (Blank) or an absolute URL, and
\* of the choice's keys --server alone is a flag.
ASSUME LaunchesAssumption ==
  \A l \in Launches :
    /\ l.cmd.op \in {"set", "raw"} => l.cmd.arg \in {Blank} \union URLs
    /\ l.cmd.flag["server"] \in Given
    /\ \A k \in {"server-default", "server-index"} : l.cmd.flag[k] = Unset
    /\ IsEnvironment(l.around.env) /\ l.around.unreadable \in BOOLEAN
    /\ \A i \in DOMAIN l.around.files : i \in Nat /\ IsEnvironment(l.around.files[i])

ProfileKeys == {Profiles[n].key : n \in DOMAIN Profiles} \ {Blank}

\* A server that is no profile's, or none.
Elsewhere(server) ==
  server \in {Unset, Blank} \/
    \A n \in DOMAIN Profiles :
      Profiles[n].server # Blank => NormalizeResolved(server) # NormalizeResolved(Profiles[n].server)

HoldsElsewhere(source) == Elsewhere(source["server"]) /\ Elsewhere(source["server-default"])

\* A profile has a name, and a URL if it has a server. A key, or a server, tells
\* where it was taken from: no two places hold the same.
ASSUME SourcesAssumption ==
  /\ Blank \notin DOMAIN Profiles /\ Unset \notin ProfileKeys
  /\ \A n \in DOMAIN Profiles : Profiles[n].server \in {Blank} \union URLs
  /\ \A n1, n2 \in DOMAIN Profiles : n1 # n2 =>
       /\ Profiles[n1].key = Profiles[n2].key => Profiles[n1].key = Blank
       /\ Profiles[n1].server # Blank /\ Profiles[n2].server # Blank =>
            NormalizeResolved(Profiles[n1].server) # NormalizeResolved(Profiles[n2].server)
  /\ \A i \in DOMAIN Servers : Elsewhere(Servers[i])
  /\ \A home \in Homes :
       /\ home.file = Invalid \/ HoldsElsewhere(home.file)
       /\ home.system = Nothing \/ HoldsElsewhere(home.system)
  /\ \A l \in Launches :
       /\ l.cmd.op = "set" => Elsewhere(l.cmd.arg)
       /\ HoldsElsewhere(l.around.env) /\ l.around.env["api-key"] \notin ProfileKeys
       /\ \A i \in DOMAIN l.around.files :
            /\ HoldsElsewhere(l.around.files[i]) /\ l.around.files[i]["api-key"] \notin ProfileKeys
            /\ l.around.files[i]["api-key"] = l.around.env["api-key"] =>
                 l.around.env["api-key"] \in {Unset, Blank}

VARIABLES
  file,      \* $HOME/.<app>/config.json, Invalid if it is no JSON
  system,    \* /etc/<app>/config.json or Nothing
  pc,        \* where each invocation is
  mem,       \* each invocation's memory
  seen,      \* history: the choices in force while each invocation ran
  sent,      \* history: the last request, until an invocation ends
  reached,   \* history: its server, unless something redirected it
  shown      \* history: what the formatter was last given, and how to show it

vars == <<file, system, pc, mem, seen, sent, reached, shown>>

Idle ==
  [cmd |-> [op |-> "current", arg |-> Blank, flag |-> NoKeys, data |-> Null, how |-> Nothing],
   around |-> [env |-> NoVariables, switch |-> Unset, files |-> <<>>, unreadable |-> FALSE],
   env |-> NoVariables, file |-> NoKeys, over |-> NoKeys, blind |-> FALSE,
   merged |-> NoKeys, format |-> "table"]

Init ==
  /\ \E home \in Homes : file = home.file /\ system = home.system
  /\ pc = [p \in Procs |-> "down"]
  /\ mem = [p \in Procs |-> Idle]
  /\ seen = [p \in Procs |-> {}]
  /\ sent = Nothing
  /\ reached = Nothing
  /\ shown = Nothing

-----------------------------------------------------------------------------
Goto(p, label) == pc' = [pc EXCEPT ![p] = label]

\* The process is gone and its memory with it.
Exit(p) ==
  /\ Goto(p, "down")
  /\ mem' = [mem EXCEPT ![p] = Idle]
  /\ seen' = [seen EXCEPT ![p] = {}]

\* A file that is no JSON reads as one without keys.
Tree(content) == IF content = Invalid THEN NoKeys ELSE content

\* Whether a read fails (EACCES, EIO): it may, where the file may be unreadable.
Reads(around) == {FALSE, around.unreadable}

\* viper.ReadInConfig: the system-wide file hides the user's.
ReadInConfig == IF system # Nothing THEN system ELSE Tree(file)

\* The choice a tree stands for: the older version's key as long as no other is.
ChoiceOf(tree) ==
  [custom |-> IF tree["server-default"] \notin {Unset, Blank} THEN tree["server-default"]
              ELSE IF tree["server"] # Unset THEN tree["server"] ELSE Blank,
   index |-> IF tree["server-index"] = Unset THEN 0 ELSE tree["server-index"]]

\* config.json is replaced, under the eyes of every running invocation.
Replace(tree) ==
  /\ file' = tree
  /\ seen' = [q \in Procs |-> IF seen[q] = {} THEN {} ELSE seen[q] \union {ChoiceOf(tree)}]

-----------------------------------------------------------------------------
(* Starting up.                                                            *)

\* initConfig, up to the migration: the file, then .env, then the environment. The
\* error of a failed read is dropped.
Launch(p, cmd, around) ==
  /\ pc[p] = "down"
  /\ \A q \in Procs : pc[q] = "down" \/
       {[cmd |-> cmd, around |-> around], [cmd |-> mem[q].cmd, around |-> mem[q].around]} \subseteq Concurrent
  /\ \E blind \in Reads(around) :
       mem' = [mem EXCEPT ![p] =
         [Idle EXCEPT !.cmd = cmd, !.around = around, !.blind = blind,
                      !.file = IF blind THEN NoKeys ELSE ReadInConfig,
                      !.env = LoadDotEnvFiles(around.env, around.switch, around.files)]]
  /\ seen' = [seen EXCEPT ![p] = {ChoiceOf(Tree(file))}]
  /\ Goto(p, "migrate")
  /\ UNCHANGED <<file, system, sent, reached, shown>>

\* migrateLegacyServerConfig reads the user's file, whichever viper read.
MigrateRead(p) ==
  /\ pc[p] = "migrate"
  /\ \/ /\ Tree(file)["server"] = Unset \/ mem[p].around.unreadable
        /\ Goto(p, "preRun") /\ UNCHANGED mem
     \/ /\ Tree(file)["server"] # Unset
        /\ mem' = [mem EXCEPT ![p].merged = MigrateServer(file)]
        /\ Goto(p, "migrateWrite")
  /\ UNCHANGED <<file, system, seen, sent, reached, shown>>

MigrateWrite(p) ==
  /\ pc[p] = "migrateWrite"
  /\ \/ Replace(mem[p].merged) /\ Goto(p, "reload")
     \/ UNCHANGED <<file, seen>> /\ Goto(p, "preRun")     \* the write failed
  /\ UNCHANGED <<system, mem, sent, reached, shown>>

\* A read that fails leaves what was loaded before.
MigrateReload(p) ==
  /\ pc[p] = "reload"
  /\ \/ mem' = [mem EXCEPT ![p].file = ReadInConfig, ![p].blind = FALSE]
     \/ mem[p].around.unreadable /\ UNCHANGED mem
  /\ Goto(p, "preRun")
  /\ UNCHANGED <<file, system, seen, sent, reached, shown>>

\* applyServerSetting: --server, <PREFIX>_SERVER or the file's `server`.
ServerSettingUsable(m) ==
  Lookup(m, "server") = Blank \/ NormalizeServerURL(Lookup(m, "server")) # Unusable

ApplyServerSetting(m) ==
  IF Lookup(m, "server") = Blank THEN m
  ELSE [m EXCEPT !.over["server"] = NormalizeServerURL(Lookup(m, "server"))]

\* PersistentPreRunE: an unusable setting is an error before the command runs.
PreRun(p) ==
  LET m == mem[p]
  IN  /\ pc[p] = "preRun"
      /\ IF /\ DotEnvUsable(m.around.switch)
            /\ Lookup(m, "output-format") \in OutputFormats
            /\ ServerSettingUsable(m)
         THEN /\ mem' = [mem EXCEPT ![p] =
                   [ApplyServerSetting(m) EXCEPT !.format = Lookup(m, "output-format")]]
              /\ Goto(p, "run")
              /\ UNCHANGED seen
         ELSE Exit(p)
      /\ UNCHANGED <<file, system, sent, reached, shown>>

-----------------------------------------------------------------------------
(* Commands that save.                                                     *)

Running(p, op) == pc[p] = "run" /\ mem[p].cmd.op = op

\* A command whose argument is refused.
Rejected(p) == Exit(p) /\ UNCHANGED <<file, system, sent, reached, shown>>

Proceed(p, label) == Goto(p, label) /\ UNCHANGED <<file, system, mem, seen, sent, reached, shown>>

ServerSet(p) ==
  /\ Running(p, "set")
  /\ IF NormalizeServerURL(mem[p].cmd.arg) # Unusable THEN Proceed(p, "save") ELSE Rejected(p)

ServerUse(p) ==
  /\ Running(p, "use")
  /\ IF ResolveServerSelection(mem[p].cmd.arg) # -1 THEN Proceed(p, "save") ELSE Rejected(p)

ServerClear(p) == Running(p, "clear") /\ Proceed(p, "save")

DefaultFormat(p) ==
  /\ Running(p, "format")
  /\ IF mem[p].cmd.arg = Blank THEN Proceed(p, "report")
     ELSE IF mem[p].cmd.arg \in OutputFormats THEN Proceed(p, "save") ELSE Rejected(p)

\* The keys each command saves; every server command drops the old key too.
Saves(cmd) ==
  CASE cmd.op = "set" -> [k \in {"server", "server-default"} |->
                            IF k = "server" THEN Nil ELSE NormalizeServerURL(cmd.arg)]
    [] cmd.op = "use" -> [k \in {"server", "server-default", "server-index"} |->
                            IF k = "server-index" THEN ResolveServerSelection(cmd.arg) ELSE Nil]
    [] cmd.op = "clear" -> [k \in {"server", "server-default"} |-> Nil]
    [] cmd.op = "format" -> [k \in {"output-format"} |-> cmd.arg]

\* saveJSONConfig re-reads the user's file: one that is no JSON is an error, one
\* that cannot be read counts as absent.
SaveRead(p) ==
  /\ pc[p] = "save"
  /\ \E blind \in Reads(mem[p].around) :
       IF file = Invalid /\ ~blind THEN Rejected(p)
       ELSE /\ mem' = [mem EXCEPT
                 ![p].merged = SaveKeys(IF blind THEN NoKeys ELSE file, Saves(mem[p].cmd)),
                 ![p].over = SetKeys(@, Saves(mem[p].cmd)),
                 ![p].blind = blind]
            /\ Goto(p, "write")
            /\ UNCHANGED <<file, system, seen, sent, reached, shown>>

SaveWrite(p) ==
  /\ pc[p] = "write"
  /\ \/ Replace(mem[p].merged) /\ Goto(p, "report") /\ UNCHANGED mem
     \/ Exit(p) /\ UNCHANGED file     \* the write failed
  /\ UNCHANGED <<system, sent, reached, shown>>

-----------------------------------------------------------------------------
(* Commands that show.                                                     *)

\* An object's members, from a record.
Members(record) == [k \in {Key(name) : name \in DOMAIN record} |-> record[k[1].name]]
ServerText(url) == Text(IF url = Blank THEN "" ELSE url.host)

\* `server list`: FormatList of the document's servers.
ServerList(m) ==
  LET current == ResolveServer(m)
      Row(i) == Object("string", Members(
        [index |-> Number(i - 1), url |-> ServerText(Servers[i]),
         selected |-> Truth(Servers[i] = current)]))
  IN  Object("string", Members(
        [selected_server |-> ServerText(current),
         overridden |-> Truth(current # SelectedServer(m)),
         servers |-> List([i \in DOMAIN Servers |-> Row(i)])]))

\* What `server current`, and each command that saves, reports of the server, or
\* of the format.
ServerReport(m) ==
  Object("string", Members(
    CASE m.cmd.op = "format" ->
           [output_format |-> Text(IF m.cmd.arg = Blank THEN m.format ELSE m.cmd.arg)]
      [] m.cmd.op = "set" -> [server |-> ServerText(NormalizeServerURL(m.cmd.arg))]
      [] m.cmd.op = "use" -> [server |-> ServerText(Servers[ResolveServerSelection(m.cmd.arg) + 1])]
      [] OTHER -> [server |-> ServerText(ResolveServer(m))]))

\* The formatter gets the format the checks settled on, not the setting.
Show(p, data, list) ==
  LET how == mem[p].cmd.how
  IN  shown' =
        [data |-> data,
         how |-> [list |-> list, format |-> mem[p].format, configured |-> Configured,
                  terminal |-> how.terminal, raw |-> how.raw, override |-> how.override,
                  selected |-> how.selected, declared |-> how.declared,
                  projected |-> how.projected, fitting |-> how.fitting]]

ServerListing(p) ==
  /\ Running(p, "list")
  /\ Show(p, ServerList(mem[p]), TRUE)
  /\ Goto(p, "end")
  /\ UNCHANGED <<file, system, mem, seen, sent, reached>>

Report(p) ==
  /\ pc[p] = "report" \/ Running(p, "current")
  /\ Show(p, ServerReport(mem[p]), FALSE)
  /\ Goto(p, "end")
  /\ UNCHANGED <<file, system, mem, seen, sent, reached>>

\* Raw `request` was given a URL, not a path.
Absolute(cmd) == cmd.op = "raw" /\ cmd.arg # Blank

\* Where a request goes. An absolute URL is taken as it is.
Target(m) == IF Absolute(m.cmd) THEN m.cmd.arg ELSE ResolveServer(m)

\* Something that outranks the choice for this invocation: an absolute URL,
\* --server even empty, a variable, the profile's server, the system-wide file,
\* or an old key that could not be migrated and hides a newer one.
Redirects(m) ==
  \/ Absolute(m.cmd)
  \/ m.cmd.flag["server"] # Unset
  \/ ProfileServer(m) # Blank
  \/ \E k \in {"server", "server-default", "server-index"} : m.env[k] \notin {Unset, Blank}
  \/ system # Nothing
  \/ {m.file["server"], m.file["server-default"]} \cap {Unset, Blank} = {}

\* An operation, or raw `request`: where it goes, or an error; the key that the
\* handler of every request finds, or an error; the answer.
SendRequest(p) ==
  LET m == mem[p]
  IN  /\ Running(p, "request") \/ Running(p, "raw")
      /\ IF \/ m.cmd.op = "raw" /\ Target(m) = Blank
            \/ LookupKey(m) \in {Refused, Blank}
         THEN Rejected(p)
         ELSE /\ sent' = [key |-> LookupKey(m), server |-> Target(m), absolute |-> Absolute(m.cmd),
                          given |-> m.cmd.flag["server"], around |-> m.around]
              /\ reached' = IF Redirects(m) THEN Nothing ELSE Target(m)
              /\ Show(p, m.cmd.data, m.cmd.op = "request" /\ m.cmd.how.list)
              /\ Goto(p, "end")
              /\ UNCHANGED <<file, system, mem, seen>>

\* It ends, or is killed at any step: what it had not yet renamed into place is lost.
Leave(p) ==
  /\ pc[p] # "down"
  /\ Exit(p)
  /\ sent' = Nothing /\ reached' = Nothing /\ shown' = Nothing
  /\ UNCHANGED <<file, system>>

Step(p) ==
  \/ MigrateRead(p)
  \/ MigrateWrite(p)
  \/ MigrateReload(p)
  \/ PreRun(p)
  \/ ServerSet(p)
  \/ ServerUse(p)
  \/ ServerClear(p)
  \/ DefaultFormat(p)
  \/ SaveRead(p)
  \/ SaveWrite(p)
  \/ ServerListing(p)
  \/ Report(p)
  \/ SendRequest(p)
  \/ Leave(p)

Next ==
  \/ \E p \in Procs, l \in Launches : Launch(p, l.cmd, l.around)
  \/ \E p \in Procs : Step(p)

Spec == Init /\ [][Next]_vars

-----------------------------------------------------------------------------
(* Properties.                                                             *)

(***************************************************************************)
(* What becomes of the server choice: no migration of the older key, save  *)
(* of another setting, failed write or kill changes it. Only three things  *)
(* do: a command that decides; an overlapping save or migration, which may *)
(* put back what was in force while it ran; and a save over a file that    *)
(* could not be read, which drops it. A request goes to a choice in force  *)
(* while it ran, or to the document's when the file could not be read      *)
(* (migrateLegacyServerConfig, saveJSONConfig, ResolveServer).             *)
(***************************************************************************)
Chosen == INSTANCE ServerChoice WITH
  Invocations <- Procs,
  Initially <- {ChoiceOf(Tree(home.file)) : home \in Homes},
  Redirected <- Nothing,
  choice <- ChoiceOf(Tree(file)),
  asked <- [p \in Procs |-> mem[p].cmd],
  blind <- [p \in Procs |-> mem[p].blind]
ImplementsServerChoice == Chosen!ChoiceSpec

(***************************************************************************)
(* Where the settings decide about the server (no --server and no absolute *)
(* URL of raw `request` says where to go), server and key belong together: *)
(* a profile that has a server gives its key to that server only, and its  *)
(* server gets no other key. And on every request a directory's .env files *)
(* supply no key unless the exported switch is on (ResolveServer and       *)
(* lookupKey decide separately; dotEnvEnabled). An absolute URL is outside *)
(* it: it passes ResolveServer by (agent.go:354) but not the handler that  *)
(* adds the key, so it does take a profile's key to any server.            *)
(***************************************************************************)
OneDeployment ==
  sent # Nothing =>
    /\ \A n \in DOMAIN Profiles :
         Profiles[n].server # Blank /\ sent.given \in {Unset, Blank} /\ ~sent.absolute =>
           (sent.key = Profiles[n].key <=> sent.server = NormalizeResolved(Profiles[n].server))
    /\ \A i \in DOMAIN sent.around.files :
         sent.key = sent.around.files[i]["api-key"] => DotEnvEnabled(sent.around.switch)
=============================================================================
