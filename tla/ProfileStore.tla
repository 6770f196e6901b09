---------------------------- MODULE ProfileStore ----------------------------
(***************************************************************************)
(* Invocations of one generated CLI over its two files, credentials.json   *)
(* and config.json. An invocation reads config.json (initConfig), then     *)
(* credentials.json (InitCredentialsFile), may adopt the legacy profile,   *)
(* runs one command on its own copies, and writes back:                    *)
(*   - Creds.Save replaces credentials.json by the whole in-memory tree,   *)
(*   - saveJSONConfig re-reads config.json, changes its keys, replaces it. *)
(* Each read and each atomic replace is a step; invocations may overlap,   *)
(* a write may fail and an invocation may be killed between any two steps. *)
(***************************************************************************)
EXTENDS Profiles

CONSTANTS
  Procs,           \* invocations that may be running
  Commands,        \* the command lines, with their environment
  InitialStores,   \* what credentials.json may hold at first
  Unset,           \* profile-selected not overridden in memory
  Overlap,         \* whether invocations may overlap
  SystemConfig,    \* whether /etc/<app>/config.json exists
  ReadFaults       \* whether reading either file may fail

Ops == {"use", "remove", "clear", "add", "setup", "setting", "request"}

\* A command line: operation, its profile name and fields, the --profile flag,
\* and the environment's <PREFIX>_PROFILE and <PREFIX>_PROFILE_SELECTED.
Command ==
  [op : Ops, name : NameOrNone, fields : Profile,
   flag : NameOrNone \union {NotPassed}, env : NameOrNone, envSelected : NameOrNone]

\* Commands that take a name got one (cobra's Args; `auth setup` may omit it).
NeedsName(c) == c.op \in {"use", "remove", "add"}

ASSUME CommandsAssumption ==
  /\ Commands \subseteq Command
  /\ \A c \in Commands : NeedsName(c) => c.name \in Names

ASSUME InitialStoresAssumption ==
  /\ InitialStores \subseteq Store
  /\ \A s \in InitialStores, n \in Names : s[n] # Absent => Complete(s[n])

ASSUME UnsetAssumption == Unset \notin NameOrNone
ASSUME FlagsAssumption == {Overlap, SystemConfig, ReadFaults} \subseteq BOOLEAN

VARIABLES
  credentials,   \* credentials.json
  config,        \* the profile keys of $HOME/.<app>/config.json
  pc,            \* where each invocation is
  mem,           \* each invocation's memory
  wire,          \* the credential the last request carried
  torn           \* history: names whose removal kept them selected

vars == <<credentials, config, pc, mem, wire, torn>>

Labels == {"down", "creds", "adopt", "adoptWrite", "run", "save", "persist", "write"}

Memory ==
  [cmd : Command,
   file : Config,                         \* config.json as viper loaded it
   over : NameOrNone \union {Unset},      \* viper.Set("profile-selected", _)
   creds : Store,                         \* the CredentialsFile's viper
   merged : Config]                       \* the tree saveJSONConfig is writing

NoFields == [f \in Fields |-> NoValue]
NoProfiles == [n \in Names |-> Absent]
Idle ==
  [cmd |-> [op |-> "request", name |-> NoName, fields |-> NoFields,
            flag |-> NotPassed, env |-> NoName, envSelected |-> NoName],
   file |-> UndecidedConfig, over |-> Unset, creds |-> NoProfiles,
   merged |-> UndecidedConfig]

TypeOK ==
  /\ credentials \in Store
  /\ config \in Config
  /\ pc \in [Procs -> Labels]
  /\ mem \in [Procs -> Memory]
  /\ wire \in Wire
  /\ torn \in SUBSET Names

Init ==
  /\ credentials \in InitialStores
  /\ config = UndecidedConfig
  /\ pc = [p \in Procs |-> "down"]
  /\ mem = [p \in Procs |-> Idle]
  /\ wire = Refused
  /\ torn = {}

-----------------------------------------------------------------------------
(* What one invocation sees.                                               *)

\* viper.GetString("profile-selected"): override, environment, file.
SelectedKey(m) ==
  IF m.over # Unset THEN m.over
  ELSE IF m.cmd.envSelected # NoName THEN m.cmd.envSelected
  ELSE m.file.selected

\* ActiveProfileName in this invocation.
Active(m) == ActiveProfileName(m.cmd.flag, m.cmd.env, SelectedKey(m))

\* Seeded fault: adoption looks only at whether a profile is selected.
AdoptsIfUnselected(m) == Exists(m.creds, Legacy) /\ SelectedKey(m) = NoName

\* adoptLegacyDefaultProfile's guards.
AdoptsLegacy(m) ==
  /\ ~m.file.decided
  /\ Exists(m.creds, Legacy)
  /\ SelectedKey(m) = NoName

\* Seeded fault: clear stores a null instead of deleting the key.
NullTarget(m) == IF m.cmd.op \in {"clear", "remove"} THEN Unset ELSE m.cmd.name

\* The name this command hands to persistProfileSelection.
PersistTarget(m) == IF m.cmd.op \in {"clear", "remove"} THEN NoName ELSE m.cmd.name

\* Seeded fault: the selection is left alone when its profile is removed.
AfterSaveKeepSelection(m) ==
  IF m.cmd.op = "remove" THEN "down"
  ELSE IF Active(m) = NoName THEN "persist" ELSE "down"

\* What follows a successful Creds.Save: `remove` drops a selection of the
\* removed profile, saveAuthProfile selects the profile if none is in force.
AfterSave(m) ==
  IF m.cmd.op = "remove"
  THEN IF SelectedKey(m) = m.cmd.name THEN "persist" ELSE "down"
  ELSE IF Active(m) = NoName THEN "persist" ELSE "down"

Goto(p, label) == pc' = [pc EXCEPT ![p] = label]

\* The process is gone and its memory with it.
Exit(p) ==
  /\ Goto(p, "down")
  /\ mem' = [mem EXCEPT ![p] = Idle]

-----------------------------------------------------------------------------
(* Starting up.                                                            *)

\* What a read of config.json yields: initConfig and saveJSONConfig both take a
\* file they cannot read for an absent one.
ConfigRead == {config} \union IF ReadFaults THEN {UndecidedConfig} ELSE {}

\* initConfig: viper reads the first config file it finds, and the system-wide
\* one is searched first. That file holds other settings, no profile keys.
Launch(p, c) ==
  /\ pc[p] = "down"
  /\ Overlap \/ \A q \in Procs : pc[q] = "down"
  /\ \E file \in ConfigRead :
       mem' = [mem EXCEPT ![p] =
         [Idle EXCEPT !.cmd = c, !.file = IF SystemConfig THEN UndecidedConfig ELSE file]]
  /\ Goto(p, "creds")
  /\ UNCHANGED <<credentials, config, wire, torn>>

\* Seeded fault: the store starts empty instead of reading what is on disk.
LoadedNothing == {NoProfiles}

\* What InitCredentialsFile can load: it ignores ReadInConfig's error, so a
\* file it cannot read is an empty store.
Loaded == {credentials} \union IF ReadFaults THEN {NoProfiles} ELSE {}

\* InitCredentialsFile, up to adoptLegacyDefaultProfile's decision.
InitCredentialsFile(p) ==
  /\ pc[p] = "creds"
  /\ \E tree \in Loaded :
       LET m == [mem[p] EXCEPT !.creds = tree]
       IN  /\ mem' = [mem EXCEPT ![p] = m]
           /\ Goto(p, IF AdoptsLegacy(m) THEN "adopt" ELSE "run")
  /\ UNCHANGED <<credentials, config, wire, torn>>

-----------------------------------------------------------------------------
(* saveJSONConfig: a read of config.json, then its atomic replacement.     *)

\* The merged tree, and the same change made in memory before the write.
ReadForPersist(p, n, next) ==
  /\ \E tree \in ConfigRead :
       mem' = [mem EXCEPT ![p].merged = PersistSelection(tree, n), ![p].over = n]
  /\ Goto(p, next)
  /\ UNCHANGED <<credentials, config, wire, torn>>

AdoptRead(p) == pc[p] = "adopt" /\ ReadForPersist(p, Legacy, "adoptWrite")

\* A failed adoption is only warned about: the command runs, with the legacy
\* profile selected in memory all the same.
AdoptWrite(p) ==
  /\ pc[p] = "adoptWrite"
  /\ config' \in {config, mem[p].merged}
  /\ Goto(p, "run")
  /\ UNCHANGED <<credentials, mem, wire, torn>>

PersistRead(p) ==
  /\ pc[p] = "persist"
  /\ IF mem[p].cmd.op = "setting"
     THEN /\ \E tree \in ConfigRead : mem' = [mem EXCEPT ![p].merged = tree]
          /\ Goto(p, "write")
          /\ UNCHANGED <<credentials, config, wire, torn>>
     ELSE ReadForPersist(p, PersistTarget(mem[p]), "write")

\* Removing a profile took effect but the selection of it stays on disk.
LeftSelected(p) ==
  IF mem[p].cmd.op = "remove" /\ pc[p] \in {"persist", "write"}
  THEN torn \union {mem[p].cmd.name} ELSE torn

PersistWrite(p) ==
  /\ pc[p] = "write"
  /\ \/ config' = mem[p].merged /\ torn' = torn
     \/ config' = config /\ torn' = LeftSelected(p)    \* the write failed
  /\ Exit(p)
  /\ UNCHANGED <<credentials, wire>>

-----------------------------------------------------------------------------
(* The commands.                                                           *)

Running(p, op) == pc[p] = "run" /\ mem[p].cmd.op = op

\* A command that fails before it changes anything.
Rejected(p) == Exit(p) /\ UNCHANGED <<credentials, config, wire, torn>>

Proceed(p, label) == Goto(p, label) /\ UNCHANGED <<credentials, config, mem, wire, torn>>

ProfileUse(p) ==
  /\ Running(p, "use")
  /\ IF Exists(mem[p].creds, mem[p].cmd.name) THEN Proceed(p, "persist") ELSE Rejected(p)

ProfileClear(p) == Running(p, "clear") /\ Proceed(p, "persist")

\* default-format, server use, server set, server clear: other keys of the file.
SaveSetting(p) == Running(p, "setting") /\ Proceed(p, "persist")

ProfileRemove(p) ==
  LET n == mem[p].cmd.name
  IN  /\ Running(p, "remove")
      /\ IF Exists(mem[p].creds, n)
         THEN /\ mem' = [mem EXCEPT ![p].creds = RemoveProfile(@, n)]
              /\ Goto(p, "save")
              /\ UNCHANGED <<credentials, config, wire, torn>>
         ELSE Rejected(p)

\* Seeded fault: values are not checked before they are stored.
SaveUncheckedProfile(p, n) ==
  /\ mem' = [mem EXCEPT ![p].cmd.name = n,
                        ![p].creds = SetProfile(@, n, mem[p].cmd.fields)]
  /\ Goto(p, "save")
  /\ UNCHANGED <<credentials, config, wire, torn>>

\* saveAuthProfile, up to its Creds.Save.
SaveAuthProfile(p, n) ==
  IF Complete(mem[p].cmd.fields)
  THEN /\ mem' = [mem EXCEPT ![p].cmd.name = n,
                             ![p].creds = SetProfile(@, n, mem[p].cmd.fields)]
       /\ Goto(p, "save")
       /\ UNCHANGED <<credentials, config, wire, torn>>
  ELSE Rejected(p)

ProfileAdd(p) == Running(p, "add") /\ SaveAuthProfile(p, mem[p].cmd.name)

\* resolveSetupProfileName: the name given, else the one in force, else an
\* answer to the prompt.
SetupNames(m) ==
  IF m.cmd.name # NoName THEN {m.cmd.name}
  ELSE IF Active(m) # NoName THEN {Active(m)}
  ELSE Names

\* RunAuthSetup; it refuses without a terminal or when a prompt is abandoned.
AuthSetup(p) ==
  /\ Running(p, "setup")
  /\ \/ \E n \in SetupNames(mem[p]) : SaveAuthProfile(p, n)
     \/ Rejected(p)

\* <PREFIX>_PROFILE_SELECTED hides the selection on disk from this invocation.
SelectionMasked(m) == m.cmd.envSelected \notin {NoName, m.cmd.name}

\* Creds.Save, and the decision what to do next.
SaveCredentials(p) ==
  LET m == mem[p]
  IN  /\ pc[p] = "save"
      /\ \/ /\ credentials' = m.creds
            /\ torn' = IF m.cmd.op # "remove" THEN torn \ {m.cmd.name}
                       ELSE IF SelectionMasked(m) /\ config.selected = m.cmd.name
                       THEN torn \union {m.cmd.name} ELSE torn
            /\ IF AfterSave(m) = "down" THEN Exit(p) ELSE Goto(p, AfterSave(m)) /\ UNCHANGED mem
         \/ UNCHANGED <<credentials, torn>> /\ Exit(p)     \* the write failed
      /\ UNCHANGED <<config, wire>>

\* An API command: the auth middleware, the handler and lookupKey.
SendRequest(p) ==
  /\ Running(p, "request")
  /\ wire' = CredentialOf(mem[p].creds, Active(mem[p]))
  /\ Exit(p)
  /\ UNCHANGED <<credentials, config, torn>>

\* The invocation is killed. What it had not yet renamed into place is lost.
Kill(p) ==
  /\ pc[p] # "down"
  /\ torn' = LeftSelected(p)
  /\ Exit(p)
  /\ UNCHANGED <<credentials, config, wire>>

Step(p) ==
  \/ InitCredentialsFile(p)
  \/ AdoptRead(p)
  \/ AdoptWrite(p)
  \/ PersistRead(p)
  \/ PersistWrite(p)
  \/ ProfileUse(p)
  \/ ProfileClear(p)
  \/ SaveSetting(p)
  \/ ProfileRemove(p)
  \/ ProfileAdd(p)
  \/ AuthSetup(p)
  \/ SaveCredentials(p)
  \/ SendRequest(p)
  \/ Kill(p)

Next ==
  \/ \E p \in Procs, c \in Commands : Launch(p, c)
  \/ \E p \in Procs : Step(p)

Spec == Init /\ [][Next]_vars

-----------------------------------------------------------------------------
(* Properties.                                                             *)

(***************************************************************************)
(* However invocations interleave, fail or die, a selection is on disk     *)
(* only together with the marker profile-decided. (`persistProfileSelection*)
(* is the only writer of profile-selected, always pairing it`: the other   *)
(* writers of config.json put back a tree they read earlier.)              *)
(***************************************************************************)
SelectionIsDecided == config.selected # NoName => config.decided

(***************************************************************************)
(* However invocations interleave, fail or die, every stored profile holds *)
(* every required field: no merge, stale copy or partial save leaves a     *)
(* profile that is in force yet has no credential.                         *)
(***************************************************************************)
StoredProfilesComplete == \A n \in Names : Exists(credentials, n) => Complete(credentials[n])

(***************************************************************************)
(* With invocations one at a time, the selection on disk names a profile   *)
(* that does not exist only while the remove of that very profile is       *)
(* between its two files, or after one was cut short there or had the      *)
(* selection masked by the environment.                                    *)
(***************************************************************************)
DanglingOnlyIfTorn ==
  config.selected # NoName /\ ~Exists(credentials, config.selected) =>
    \/ config.selected \in torn
    \/ \E p \in Procs : /\ pc[p] \in {"persist", "write"}
                       /\ mem[p].cmd.op = "remove" /\ mem[p].cmd.name = config.selected

(***************************************************************************)
(* Once the user has decided (chosen or cleared), startup adoption never   *)
(* writes a selection: a clear is not undone by the next invocation.       *)
(***************************************************************************)
ClearNeverUndone ==
  [][\A p \in Procs : pc[p] = "adoptWrite" /\ config.decided => config' = config]_vars

(***************************************************************************)
(* With invocations one at a time the two files and the copies in memory   *)
(* behave as one table (ProfileRegistry): every change is one whole store, *)
(* drop or choice, no profile is lost to another's save, only a stored     *)
(* profile is chosen, and a request carries what the table says.           *)
(***************************************************************************)
Registry == INSTANCE ProfileRegistry WITH table <- credentials, chosen <- config
ImplementsRegistry == Registry!RegistrySpec
=============================================================================
