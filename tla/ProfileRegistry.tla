--------------------------- MODULE ProfileRegistry ---------------------------
(***************************************************************************)
(* What the profile commands promise when they run one at a time: a table  *)
(* of profiles with at most one chosen, where                              *)
(*   - storing or dropping touches exactly one profile,                    *)
(*   - only a stored profile is ever chosen,                               *)
(*   - once something was chosen or cleared, that is never forgotten,      *)
(*   - a request carries the credential of the profile in force as the     *)
(*     table holds it, and the environment's only if none is in force.     *)
(* ProfileStore implements it with two files and a copy in each process.   *)
(***************************************************************************)
EXTENDS Profiles

VARIABLES
  table,     \* Store: the profiles
  chosen,    \* Config: the chosen profile, and whether anyone ever decided
  wire       \* the credential the last request carried

regVars == <<table, chosen, wire>>

RegistryInit ==
  /\ table \in {s \in Store : \A n \in Names : s[n] # Absent => Complete(s[n])}
  /\ chosen = UndecidedConfig
  /\ wire = Refused

StoreProfile(n) ==
  \E fields \in Profile :
    /\ Complete(fields)
    /\ table' = SetProfile(table, n, fields)
    /\ UNCHANGED <<chosen, wire>>

DropProfile(n) ==
  /\ Exists(table, n)
  /\ table' = RemoveProfile(table, n)
  /\ UNCHANGED <<chosen, wire>>

Choose(n) ==
  /\ n = NoName \/ Exists(table, n)
  /\ chosen' = PersistSelection(chosen, n)
  /\ UNCHANGED <<table, wire>>

\* The profile in force without a flag or variable: the chosen one, or the
\* legacy profile as long as nobody decided anything.
ChosenOrLegacy ==
  IF chosen = UndecidedConfig /\ Exists(table, Legacy) THEN Legacy ELSE chosen.selected

\* One request, with whatever override its command line and environment hold.
Request ==
  \E o \in Names \union {NoName, NotPassed} :
    /\ wire' = CredentialOf(table, ActiveProfileName(o, NoName, ChosenOrLegacy))
    /\ UNCHANGED <<table, chosen>>

RegistryNext ==
  \/ \E n \in Names : StoreProfile(n) \/ DropProfile(n)
  \/ \E n \in NameOrNone : Choose(n)
  \/ Request

RegistrySpec == RegistryInit /\ [][RegistryNext]_regVars
=============================================================================
