------------------------------ MODULE Profiles ------------------------------
(***************************************************************************)
(* The data of bartolo's credentials store (cli/credentials.go): what a    *)
(* profile is, how a store of profiles is edited, how config.json records  *)
(* the chosen profile, and which profile is in force for one invocation.   *)
(* No variables: ProfileRegistry and ProfileStore share these operators.   *)
(***************************************************************************)
CONSTANTS
  Names,      \* sanitized profile names
  Legacy,     \* the name "default" of the old implicit profile
  NoName,     \* the empty name: no profile
  NotPassed,  \* --profile absent from the command line
  Fields,     \* the keys an auth handler stores in a profile, plus "server"
  Required,   \* the keys that may not be empty
  Values,     \* what a field may hold
  NoValue,    \* a field left out
  Absent,     \* no profile of that name
  EnvKey,     \* the credential taken from the environment
  Refused     \* a request refused before anything is sent

ASSUME NamesAssumption ==
  /\ Legacy \in Names
  /\ NoName \notin Names
  /\ NotPassed \notin Names \union {NoName}

ASSUME FieldsAssumption ==
  /\ Required \subseteq Fields
  /\ NoValue \notin Values

NameOrNone == Names \union {NoName}

\* The fields of one profile, as given on a command line or as stored.
Profile == [Fields -> Values \union {NoValue}]

ASSUME SentinelAssumption ==
  /\ Absent \notin Profile
  /\ EnvKey \notin Profile
  /\ Refused \notin Profile \union {EnvKey}

\* credentials.json, or a process's in-memory copy of it.
Store == [Names -> Profile \union {Absent}]

\* The two keys of config.json that concern profiles.
Config == [selected : NameOrNone, decided : BOOLEAN]

\* config.json missing, or present with neither key.
UndecidedConfig == [selected |-> NoName, decided |-> FALSE]

Exists(store, n) == n \in Names /\ store[n] # Absent

\* requireProfileValues: every required field was given a value.
Complete(fields) == \A f \in Required : fields[f] # NoValue

(***************************************************************************)
(* SetProfile replaces the named profile by the given fields merged over   *)
(* what it already held; a field left out keeps its stored value.          *)
(***************************************************************************)
MergeFields(old, new) ==
  [f \in Fields |-> IF new[f] = NoValue /\ old # Absent THEN old[f] ELSE new[f]]

SetProfile(store, n, fields) ==
  [store EXCEPT ![n] = MergeFields(store[n], fields)]

RemoveProfile(store, n) == [store EXCEPT ![n] = Absent]

\* Seeded fault: the selection is written without the marker.
SelectWithoutMarker(config, n) == [config EXCEPT !.selected = n]

(***************************************************************************)
(* persistProfileSelection: the selection is written, or deleted when the  *)
(* name is empty, always together with profile-decided.                    *)
(***************************************************************************)
PersistSelection(config, n) ==
  [config EXCEPT !.selected = n, !.decided = TRUE]

(***************************************************************************)
(* ActiveProfileName: the --profile flag when it was passed (even empty),  *)
(* else <PREFIX>_PROFILE, else the chosen profile.                         *)
(***************************************************************************)
ActiveProfileName(flag, env, chosen) ==
  IF flag # NotPassed THEN flag
  ELSE IF env # NoName THEN env
  ELSE chosen

(***************************************************************************)
(* lookupKey: what goes on the wire. A profile in force is authoritative:  *)
(* when it is unknown or incomplete the request is refused, and the        *)
(* environment is read only with no profile in force.                      *)
(***************************************************************************)
CredentialOf(store, active) ==
  IF active = NoName THEN EnvKey
  ELSE IF Exists(store, active) /\ Complete(store[active]) THEN store[active]
  ELSE Refused

\* What CredentialOf can answer.
Wire == Profile \union {EnvKey, Refused}
=============================================================================
