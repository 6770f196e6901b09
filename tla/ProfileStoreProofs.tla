------------------------- MODULE ProfileStoreProofs -------------------------
(***************************************************************************)
(* Proofs about ProfileStore for every set of names, fields, commands and  *)
(* invocations. The first part holds however invocations overlap and fail, *)
(* the second of one invocation at a time.                                 *)
(***************************************************************************)
EXTENDS ProfileStore, TLAPS

-----------------------------------------------------------------------------
(* The operators of Profiles.                                              *)

\* A merged profile is a profile, and keeps every required field it is given.
LEMMA MergeFieldsFacts ==
  ASSUME NEW old \in Profile \union {Absent}, NEW new \in Profile
  PROVE  /\ MergeFields(old, new) \in Profile
         /\ MergeFields(old, new) # Absent
         /\ Complete(new) => Complete(MergeFields(old, new))
<1>1. MergeFields(old, new) \in Profile
  BY DEF MergeFields, Profile
<1>2. Complete(new) => Complete(MergeFields(old, new))
  BY FieldsAssumption DEF MergeFields, Complete
<1>3. QED
  BY <1>1, <1>2, SentinelAssumption

\* Storing and removing a profile keep a store a store.
LEMMA StoreEdits ==
  ASSUME NEW s \in Store, NEW n, NEW fields \in Profile
  PROVE  /\ SetProfile(s, n, fields) \in Store
         /\ RemoveProfile(s, n) \in Store
<1>1. CASE n \in Names
  <2>1. s[n] \in Profile \union {Absent}
    BY <1>1 DEF Store
  <2>2. MergeFields(s[n], fields) \in Profile
    BY <2>1, MergeFieldsFacts
  <2>3. QED
    BY <2>2 DEF Store, SetProfile, RemoveProfile
<1>2. CASE n \notin Names
  BY <1>2 DEF Store, SetProfile, RemoveProfile
<1>3. QED
  BY <1>1, <1>2

\* A store whose every profile holds every required field.
CompleteStore(s) == \A n \in Names : s[n] # Absent => Complete(s[n])

\* Both edits keep a store complete, given complete fields to store.
LEMMA EditsKeepComplete ==
  ASSUME NEW s \in Store, NEW n, NEW fields \in Profile, CompleteStore(s)
  PROVE  /\ Complete(fields) => CompleteStore(SetProfile(s, n, fields))
         /\ CompleteStore(RemoveProfile(s, n))
<1>1. ASSUME Complete(fields), NEW x \in Names
      PROVE  SetProfile(s, n, fields)[x] # Absent => Complete(SetProfile(s, n, fields)[x])
  <2>1. CASE x = n
    <3>1. SetProfile(s, n, fields)[x] = MergeFields(s[n], fields)
      BY <1>1, <2>1 DEF SetProfile, Store
    <3>2. s[n] \in Profile \union {Absent}
      BY <1>1, <2>1 DEF Store
    <3>3. QED
      BY <3>1, <3>2, <1>1, MergeFieldsFacts
  <2>2. CASE x # n
    BY <1>1, <2>2 DEF SetProfile, Store, CompleteStore
  <2>3. QED
    BY <2>1, <2>2
<1>2. CompleteStore(RemoveProfile(s, n))
  BY DEF RemoveProfile, Store, CompleteStore
<1>3. QED
  BY <1>1, <1>2 DEF CompleteStore

\* A persisted selection is well typed and always carries the marker.
LEMMA PersistSelectionFacts ==
  ASSUME NEW c \in Config, NEW n \in NameOrNone
  PROVE  /\ PersistSelection(c, n) \in Config
         /\ PersistSelection(c, n).selected = n
         /\ PersistSelection(c, n).decided = TRUE
BY DEF PersistSelection, Config

LEMMA IdleType == Idle \in Memory
  BY NamesAssumption
  DEF Idle, Memory, Command, Ops, NameOrNone, NoFields, Profile, UndecidedConfig, Config,
      NoProfiles, Store

-----------------------------------------------------------------------------
(* The inductive invariant: what is true of the files is true of every     *)
(* copy an invocation holds, since any copy may become the file.           *)

Paired(c) == c.selected # NoName => c.decided

MemoryOK(m) ==
  /\ Paired(m.merged)
  /\ CompleteStore(m.creds)
  /\ NeedsName(m.cmd) => m.cmd.name \in Names

IInv ==
  /\ TypeOK
  /\ Paired(config)
  /\ CompleteStore(credentials)
  /\ \A p \in Procs : MemoryOK(mem[p])

LEMMA IdleOK == MemoryOK(Idle)
  BY DEF MemoryOK, Idle, Paired, UndecidedConfig, CompleteStore, NoProfiles, NeedsName

LEMMA InitIInv == Init => IInv
<1> SUFFICES ASSUME Init PROVE IInv
  OBVIOUS
<1>1. credentials \in Store /\ CompleteStore(credentials)
  BY InitialStoresAssumption DEF Init, CompleteStore
<1>2. config \in Config /\ Paired(config)
  BY DEF Init, Config, UndecidedConfig, NameOrNone, Paired
<1>3. mem \in [Procs -> Memory] /\ \A p \in Procs : MemoryOK(mem[p])
  BY IdleType, IdleOK DEF Init
<1>4. pc \in [Procs -> Labels] /\ wire \in Wire /\ torn \in SUBSET Names
  BY DEF Init, Labels, Wire
<1>5. QED
  BY <1>1, <1>2, <1>3, <1>4 DEF IInv, TypeOK

\* A step of one invocation that keeps the shared files and leaves its memory
\* well formed keeps the invariant.
LEMMA LocalStep ==
  ASSUME IInv, NEW p \in Procs, NEW m \in Memory, MemoryOK(m), NEW label \in Labels,
         mem' = [mem EXCEPT ![p] = m], Goto(p, label),
         credentials' \in Store, CompleteStore(credentials'),
         config' \in Config, Paired(config'),
         wire' \in Wire, torn' \in SUBSET Names
  PROVE  IInv'
<1>1. mem' \in [Procs -> Memory] /\ pc' \in [Procs -> Labels]
  BY DEF IInv, TypeOK, Goto
<1>2. \A q \in Procs : MemoryOK(mem'[q])
  BY DEF IInv, TypeOK
<1>3. QED
  BY <1>1, <1>2 DEF IInv, TypeOK, Paired, CompleteStore

\* An invocation that ends leaves a blank memory.
LEMMA ExitStep ==
  ASSUME IInv, NEW p \in Procs, Exit(p),
         credentials' \in Store, CompleteStore(credentials'),
         config' \in Config, Paired(config'),
         wire' \in Wire, torn' \in SUBSET Names
  PROVE  IInv'
  BY LocalStep, IdleType, IdleOK DEF Exit, Labels

\* A step that moves one invocation on and leaves its memory alone.
LEMMA MoveStep ==
  ASSUME IInv, NEW p \in Procs, NEW label \in Labels, Goto(p, label), mem' = mem,
         credentials' \in Store, CompleteStore(credentials'),
         config' \in Config, Paired(config'),
         wire' \in Wire, torn' \in SUBSET Names
  PROVE  IInv'
<1>1. mem' = [mem EXCEPT ![p] = mem[p]]
  BY DEF IInv, TypeOK
<1>2. mem[p] \in Memory /\ MemoryOK(mem[p])
  BY DEF IInv, TypeOK
<1>3. QED
  BY <1>1, <1>2, LocalStep

\* A config.json as read is one written by persistProfileSelection, or none.
LEMMA ConfigReadFacts ==
  ASSUME IInv, NEW tree \in ConfigRead
  PROVE  tree \in Config /\ Paired(tree)
<1>1. tree = config \/ tree = UndecidedConfig
  <2>1. CASE ReadFaults
    BY <2>1 DEF ConfigRead
  <2>2. CASE ~ReadFaults
    BY <2>2 DEF ConfigRead
  <2>3. QED
    BY <2>1, <2>2
<1>2. UndecidedConfig \in Config /\ Paired(UndecidedConfig)
  BY DEF UndecidedConfig, Config, NameOrNone, Paired
<1>3. QED
  BY <1>1, <1>2 DEF IInv, TypeOK

LEMMA ReadForPersistStep ==
  ASSUME IInv, NEW p \in Procs, NEW n \in NameOrNone, NEW label \in Labels,
         ReadForPersist(p, n, label)
  PROVE  IInv'
<1>0. PICK tree \in ConfigRead :
        mem' = [mem EXCEPT ![p].merged = PersistSelection(tree, n), ![p].over = n]
  BY DEF ReadForPersist
<1> DEFINE m == [mem[p] EXCEPT !.merged = PersistSelection(tree, n), !.over = n]
<1>1. mem' = [mem EXCEPT ![p] = m] /\ Goto(p, label)
  BY <1>0 DEF ReadForPersist
<1>2. m \in Memory /\ MemoryOK(m)
  <2>1. mem[p] \in Memory /\ MemoryOK(mem[p]) /\ tree \in Config
    BY ConfigReadFacts DEF IInv, TypeOK
  <2>2. PersistSelection(tree, n) \in Config /\ Paired(PersistSelection(tree, n))
    BY <2>1, PersistSelectionFacts DEF Paired
  <2>3. QED
    BY <2>1, <2>2 DEF Memory, MemoryOK, NeedsName
<1>3. UNCHANGED <<credentials, config, wire, torn>>
  BY DEF ReadForPersist
<1>4. QED
  BY <1>1, <1>2, <1>3, LocalStep DEF IInv, TypeOK

LEMMA SaveAuthProfileStep ==
  ASSUME IInv, NEW p \in Procs, NEW n \in Names, SaveAuthProfile(p, n)
  PROVE  IInv'
<1> DEFINE c == [mem[p].cmd EXCEPT !.name = n]
           t == SetProfile(mem[p].creds, n, mem[p].cmd.fields)
           m == [mem[p] EXCEPT !.cmd = c, !.creds = t]
<1>1. mem[p] \in Memory /\ MemoryOK(mem[p])
  BY DEF IInv, TypeOK
<1>2. CASE Complete(mem[p].cmd.fields)
  <2>1. mem' = [mem EXCEPT ![p] = m] /\ Goto(p, "save") /\ UNCHANGED <<credentials, config, wire, torn>>
    BY <1>2 DEF SaveAuthProfile
  <2>2. mem[p].cmd.fields \in Profile /\ mem[p].creds \in Store /\ CompleteStore(mem[p].creds)
    BY <1>1 DEF Memory, Command, MemoryOK
  <2>3. t \in Store /\ CompleteStore(t)
    BY <1>2, <2>2, StoreEdits, EditsKeepComplete
  <2>4. c \in Command /\ c.name = n
    BY <1>1 DEF Memory, Command, NameOrNone
  <2>5. m \in Memory /\ MemoryOK(m)
    <3> HIDE DEF c, t
    <3> QED
      BY <1>1, <2>3, <2>4 DEF Memory, MemoryOK
  <2>6. QED
    <3> HIDE DEF m
    <3> QED
      BY <2>1, <2>5, LocalStep DEF IInv, TypeOK, Labels
<1>3. CASE ~Complete(mem[p].cmd.fields)
  BY <1>3, ExitStep DEF SaveAuthProfile, Rejected, IInv, TypeOK
<1>4. QED
  BY <1>2, <1>3

\* The names recorded as cut short are names of profiles.
LEMMA LeftSelectedType ==
  ASSUME IInv, NEW p \in Procs
  PROVE  LeftSelected(p) \in SUBSET Names
  BY DEF IInv, TypeOK, LeftSelected, MemoryOK, NeedsName

\* `auth setup` writes to a profile with a name.
LEMMA SetupNamesType ==
  ASSUME NEW m \in Memory
  PROVE  SetupNames(m) \subseteq Names
<1>1. /\ m.cmd.name \in NameOrNone /\ m.cmd.env \in NameOrNone
      /\ m.cmd.envSelected \in NameOrNone /\ m.cmd.flag \in NameOrNone \union {NotPassed}
      /\ m.file.selected \in NameOrNone /\ m.over \in NameOrNone \union {Unset}
  BY DEF Memory, Command, Config
<1>2. Active(m) \in NameOrNone
  BY <1>1 DEF Active, ActiveProfileName, SelectedKey
<1>3. QED
  BY <1>1, <1>2 DEF SetupNames, NameOrNone

LEMMA NextIInv == IInv /\ [Next]_vars => IInv'
<1> SUFFICES ASSUME IInv, [Next]_vars PROVE IInv'
  OBVIOUS
<1> USE DEF Labels
<1>0. /\ credentials \in Store /\ CompleteStore(credentials)
      /\ config \in Config /\ Paired(config)
      /\ wire \in Wire /\ torn \in SUBSET Names
      /\ \A p \in Procs : mem[p] \in Memory /\ MemoryOK(mem[p])
  BY DEF IInv, TypeOK
<1>1. ASSUME NEW p \in Procs, NEW c \in Commands, Launch(p, c) PROVE IInv'
  <2>0. PICK tree \in ConfigRead :
          mem' = [mem EXCEPT ![p] =
            [Idle EXCEPT !.cmd = c, !.file = IF SystemConfig THEN UndecidedConfig ELSE tree]]
    BY <1>1 DEF Launch
  <2> DEFINE file == IF SystemConfig THEN UndecidedConfig ELSE tree
             m == [Idle EXCEPT !.cmd = c, !.file = file]
  <2>1. m \in Memory /\ MemoryOK(m)
    <3>1. c \in Command /\ (NeedsName(c) => c.name \in Names)
      BY CommandsAssumption
    <3>2. file \in Config
      BY ConfigReadFacts DEF UndecidedConfig, Config, NameOrNone
    <3>3. Idle \in Memory /\ MemoryOK(Idle)
      BY IdleType, IdleOK
    <3>4. QED
      BY <1>0, <3>1, <3>2, <3>3 DEF Memory, MemoryOK
  <2>2. mem' = [mem EXCEPT ![p] = m] /\ Goto(p, "creds") /\ UNCHANGED <<credentials, config, wire, torn>>
    BY <1>1, <2>0 DEF Launch
  <2> HIDE DEF m
  <2>3. QED
    BY <1>0, <2>1, <2>2, LocalStep
<1>2. ASSUME NEW p \in Procs, InitCredentialsFile(p) PROVE IInv'
  <2>1. PICK tree \in Loaded :
          /\ mem' = [mem EXCEPT ![p] = [mem[p] EXCEPT !.creds = tree]]
          /\ Goto(p, IF AdoptsLegacy([mem[p] EXCEPT !.creds = tree]) THEN "adopt" ELSE "run")
    BY <1>2 DEF InitCredentialsFile
  <2> DEFINE m == [mem[p] EXCEPT !.creds = tree]
  <2>2. tree \in Store /\ CompleteStore(tree)
    BY <1>0 DEF Loaded, NoProfiles, Store, CompleteStore
  <2>3. m \in Memory /\ MemoryOK(m)
    BY <1>0, <2>2 DEF Memory, MemoryOK
  <2>4. UNCHANGED <<credentials, config, wire, torn>>
    BY <1>2 DEF InitCredentialsFile
  <2>5. mem' = [mem EXCEPT ![p] = m] /\ \E label \in Labels : Goto(p, label)
    BY <2>1
  <2> HIDE DEF m
  <2>6. QED
    BY <1>0, <2>3, <2>4, <2>5, LocalStep
<1>3. ASSUME NEW p \in Procs, AdoptRead(p) PROVE IInv'
  BY <1>3, ReadForPersistStep, NamesAssumption DEF AdoptRead, NameOrNone
<1>4. ASSUME NEW p \in Procs, AdoptWrite(p) PROVE IInv'
  <2>1. config' \in Config /\ Paired(config')
    BY <1>0, <1>4 DEF AdoptWrite, Memory, MemoryOK
  <2>2. QED
    BY <1>0, <1>4, <2>1, MoveStep DEF AdoptWrite
<1>5. ASSUME NEW p \in Procs, PersistRead(p) PROVE IInv'
  <2>1. CASE mem[p].cmd.op = "setting"
    <3>0. PICK tree \in ConfigRead : mem' = [mem EXCEPT ![p].merged = tree]
      BY <1>5, <2>1 DEF PersistRead
    <3> DEFINE m == [mem[p] EXCEPT !.merged = tree]
    <3>1. m \in Memory /\ MemoryOK(m)
      BY <1>0, ConfigReadFacts DEF Memory, MemoryOK
    <3>2. mem' = [mem EXCEPT ![p] = m] /\ Goto(p, "write") /\ UNCHANGED <<credentials, config, wire, torn>>
      BY <1>5, <2>1, <3>0 DEF PersistRead
    <3> HIDE DEF m
    <3>3. QED
      BY <1>0, <3>1, <3>2, LocalStep
  <2>2. CASE mem[p].cmd.op # "setting"
    <3>1. PersistTarget(mem[p]) \in NameOrNone
      BY <1>0 DEF PersistTarget, Memory, Command, NameOrNone
    <3>2. QED
      BY <1>5, <2>2, <3>1, ReadForPersistStep DEF PersistRead
  <2>3. QED
    BY <2>1, <2>2
<1>6. ASSUME NEW p \in Procs, PersistWrite(p) PROVE IInv'
  <2>1. config' \in Config /\ Paired(config')
    BY <1>0, <1>6 DEF PersistWrite, Memory, MemoryOK
  <2>2. torn' \in SUBSET Names
    BY <1>0, <1>6, LeftSelectedType DEF PersistWrite
  <2>3. QED
    BY <1>0, <1>6, <2>1, <2>2, ExitStep DEF PersistWrite
<1>7. ASSUME NEW p \in Procs, ProfileUse(p) \/ ProfileClear(p) \/ SaveSetting(p) PROVE IInv'
  BY <1>0, <1>7, ExitStep, MoveStep
  DEF ProfileUse, ProfileClear, SaveSetting, Proceed, Rejected
<1>8. ASSUME NEW p \in Procs, ProfileRemove(p) PROVE IInv'
  <2> DEFINE t == RemoveProfile(mem[p].creds, mem[p].cmd.name)
             m == [mem[p] EXCEPT !.creds = t]
  <2>1. CASE Exists(mem[p].creds, mem[p].cmd.name)
    <3>1. mem[p].cmd.fields \in Profile /\ mem[p].creds \in Store /\ CompleteStore(mem[p].creds)
      BY <1>0 DEF Memory, Command, MemoryOK
    <3>2. t \in Store /\ CompleteStore(t)
      BY <3>1, StoreEdits, EditsKeepComplete
    <3>3. m \in Memory /\ MemoryOK(m)
      <4> HIDE DEF t
      <4> QED
        BY <1>0, <3>2 DEF Memory, MemoryOK
    <3>4. mem' = [mem EXCEPT ![p] = m] /\ Goto(p, "save") /\ UNCHANGED <<credentials, config, wire, torn>>
      BY <1>8, <2>1 DEF ProfileRemove
    <3> HIDE DEF m
    <3>5. QED
      BY <1>0, <3>3, <3>4, LocalStep
  <2>2. CASE ~Exists(mem[p].creds, mem[p].cmd.name)
    BY <1>0, <1>8, <2>2, ExitStep DEF ProfileRemove, Rejected
  <2>3. QED
    BY <2>1, <2>2
<1>9. ASSUME NEW p \in Procs, ProfileAdd(p) PROVE IInv'
  BY <1>0, <1>9, SaveAuthProfileStep DEF ProfileAdd, Running, MemoryOK, NeedsName
<1>10. ASSUME NEW p \in Procs, AuthSetup(p) PROVE IInv'
  <2>1. SetupNames(mem[p]) \subseteq Names
    BY <1>0, SetupNamesType
  <2>2. CASE Rejected(p)
    BY <1>0, <2>2, ExitStep DEF Rejected
  <2>3. CASE \E n \in SetupNames(mem[p]) : SaveAuthProfile(p, n)
    BY <2>1, <2>3, SaveAuthProfileStep
  <2>4. QED
    BY <1>10, <2>2, <2>3 DEF AuthSetup
<1>11. ASSUME NEW p \in Procs, SaveCredentials(p) PROVE IInv'
  <2>1. credentials' \in Store /\ CompleteStore(credentials')
    BY <1>0, <1>11 DEF SaveCredentials, Memory, MemoryOK
  <2>2. torn' \in SUBSET Names
    <3>1. mem[p].cmd.op \in Ops /\ (mem[p].cmd.op = "remove" => mem[p].cmd.name \in Names)
      BY <1>0 DEF Memory, Command, MemoryOK, NeedsName
    <3>2. QED
      BY <1>0, <1>11, <3>1 DEF SaveCredentials
  <2>3. UNCHANGED <<config, wire>>
    BY <1>11 DEF SaveCredentials
  <2>4. Exit(p) \/ (Goto(p, AfterSave(mem[p])) /\ mem' = mem)
    BY <1>11 DEF SaveCredentials
  <2>5. AfterSave(mem[p]) \in Labels
    BY DEF AfterSave
  <2>6. QED
    BY <1>0, <2>1, <2>2, <2>3, <2>4, <2>5, ExitStep, MoveStep
<1>12. ASSUME NEW p \in Procs, SendRequest(p) PROVE IInv'
  <2>1. wire' \in Wire
    <3>1. mem[p].creds \in Store
      BY <1>0 DEF Memory
    <3>2. QED
      BY <1>12, <3>1 DEF SendRequest, CredentialOf, Exists, Wire, Store
  <2>2. QED
    BY <1>0, <1>12, <2>1, ExitStep DEF SendRequest
<1>13. ASSUME NEW p \in Procs, Kill(p) PROVE IInv'
  BY <1>0, <1>13, ExitStep, LeftSelectedType DEF Kill
<1>14. CASE UNCHANGED vars
  BY <1>14 DEF IInv, TypeOK, vars, Paired, CompleteStore
<1>15. QED
  BY <1>1, <1>2, <1>3, <1>4, <1>5, <1>6, <1>7, <1>8, <1>9, <1>10, <1>11, <1>12, <1>13, <1>14
  DEF Next, Step

(***************************************************************************)
(* Every variable keeps its type, and so does every invocation's memory.   *)
(***************************************************************************)
THEOREM TypeCorrect == Spec => []TypeOK
<1>1. IInv => TypeOK
  BY DEF IInv
<1>2. QED
  BY <1>1, InitIInv, NextIInv, PTL DEF Spec

(***************************************************************************)
(* persistProfileSelection and every other writer of config.json keep      *)
(* profile-selected and profile-decided together, overlapping or not.      *)
(***************************************************************************)
THEOREM SelectionAlwaysDecided == Spec => []SelectionIsDecided
<1>1. IInv => SelectionIsDecided
  BY DEF IInv, Paired, SelectionIsDecided
<1>2. QED
  BY <1>1, InitIInv, NextIInv, PTL DEF Spec

(***************************************************************************)
(* No save of any invocation, whatever stale copy it holds, leaves a       *)
(* stored profile without a required field.                                *)
(***************************************************************************)
THEOREM StoredProfilesAlwaysComplete == Spec => []StoredProfilesComplete
<1>1. IInv => StoredProfilesComplete
  BY DEF IInv, CompleteStore, StoredProfilesComplete, Exists
<1>2. QED
  BY <1>1, InitIInv, NextIInv, PTL DEF Spec

-----------------------------------------------------------------------------
(***************************************************************************)
(* With invocations one at a time, readable files and no system-wide       *)
(* config file, ProfileStore implements ProfileRegistry. Writes may still  *)
(* fail and invocations may still be killed between any two steps.         *)
(***************************************************************************)

Alone == ~Overlap /\ ~SystemConfig /\ ~ReadFaults

\* The profile in force without a flag or variable, from the two files.
InForce(store, conf) ==
  IF conf = UndecidedConfig /\ Exists(store, Legacy) THEN Legacy ELSE conf.selected

\* The selection an invocation at its command works with is the files', or
\* the environment's <PREFIX>_PROFILE_SELECTED hides it.
SelectionCurrent(m, store, conf) ==
  \/ m.over = Unset /\ m.cmd.envSelected # NoName
  \/ SelectedKey(m) = InForce(store, conf)

\* What the copies of the one running invocation say about the files.
CopiesCurrent(label, m, store, conf) ==
  /\ label = "creds" => m.file = conf /\ m.over = Unset
  /\ label \in {"adopt", "adoptWrite"} =>
       /\ conf = UndecidedConfig /\ m.creds = store /\ Exists(store, Legacy)
       /\ m.cmd.envSelected = NoName
  /\ label = "adoptWrite" =>
       m.merged = PersistSelection(conf, Legacy) /\ m.over = Legacy
  /\ label = "run" => m.creds = store /\ SelectionCurrent(m, store, conf)
  /\ label = "save" =>
       \/ /\ m.cmd.op = "remove"
          /\ Exists(store, m.cmd.name)
          /\ m.creds = RemoveProfile(store, m.cmd.name)
          /\ SelectionCurrent(m, store, conf)
       \/ /\ m.cmd.op \in {"add", "setup"}
          /\ m.cmd.name \in Names
          /\ Complete(m.cmd.fields)
          /\ m.creds = SetProfile(store, m.cmd.name, m.cmd.fields)
  /\ label \in {"persist", "write"} =>
       /\ m.cmd.op \in {"use", "add", "setup"} => Exists(store, m.cmd.name)
       /\ m.cmd.op # "request"
  /\ label = "write" =>
       m.merged = IF m.cmd.op = "setting" THEN conf
                  ELSE PersistSelection(conf, PersistTarget(m))

AloneInv ==
  /\ \A p, q \in Procs : pc[p] # "down" /\ pc[q] # "down" => p = q
  /\ \A p \in Procs : CopiesCurrent(pc[p], mem[p], credentials, config)

LEMMA InitAlone == Init => AloneInv
BY DEF Init, AloneInv, CopiesCurrent

LEMMA NextAlone ==
  ASSUME Alone
  PROVE  IInv /\ IInv' /\ AloneInv /\ [Next]_vars => AloneInv'
<1> SUFFICES ASSUME IInv, IInv', AloneInv, [Next]_vars PROVE AloneInv'
  OBVIOUS
<1> USE DEF Labels
<1>0. /\ credentials \in Store /\ config \in Config /\ torn \in SUBSET Names
      /\ pc \in [Procs -> Labels] /\ mem \in [Procs -> Memory]
      /\ \A p \in Procs : mem[p] \in Memory /\ MemoryOK(mem[p])
  BY DEF IInv, TypeOK
<1>down. ASSUME NEW p \in Procs, \A q \in Procs : q # p => pc[q] = "down",
                mem' = [mem EXCEPT ![p] = Idle], Goto(p, "down")
         PROVE  AloneInv'
  BY <1>0, <1>down DEF AloneInv, CopiesCurrent, Goto
<1>move. ASSUME NEW p \in Procs, \A q \in Procs : q # p => pc[q] = "down",
                NEW m, mem' = [mem EXCEPT ![p] = m], NEW label \in Labels, Goto(p, label),
                CopiesCurrent(label, m, credentials', config')
         PROVE  AloneInv'
  <2>1. \A q \in Procs : q # p => pc'[q] = "down"
    BY <1>0, <1>move DEF Goto
  <2>2. pc'[p] = label /\ mem'[p] = m
    BY <1>0, <1>move DEF Goto
  <2>3. \A q \in Procs : CopiesCurrent(pc'[q], mem'[q], credentials', config')
    <3> SUFFICES ASSUME NEW q \in Procs PROVE CopiesCurrent(pc'[q], mem'[q], credentials', config')
      OBVIOUS
    <3>1. CASE q = p
      BY <1>move, <2>2, <3>1
    <3>2. CASE q # p
      BY <2>1, <3>2 DEF CopiesCurrent
    <3>3. QED
      BY <3>1, <3>2
  <2>4. QED
    BY <2>1, <2>3 DEF AloneInv
<1>sole. ASSUME NEW p \in Procs, pc[p] # "down"
         PROVE  /\ \A q \in Procs : q # p => pc[q] = "down"
                /\ CopiesCurrent(pc[p], mem[p], credentials, config)
  BY <1>sole DEF AloneInv
<1>1. ASSUME NEW p \in Procs, NEW c \in Commands, Launch(p, c) PROVE AloneInv'
  <2> DEFINE m == [Idle EXCEPT !.cmd = c, !.file = config]
  <2>1. mem' = [mem EXCEPT ![p] = m] /\ Goto(p, "creds") /\ config' = config
    BY <1>1 DEF Launch, ConfigRead, Alone
  <2>2. \A q \in Procs : q # p => pc[q] = "down"
    BY <1>1 DEF Launch, Alone
  <2>3. CopiesCurrent("creds", m, credentials', config')
    BY <2>1 DEF CopiesCurrent, Idle, Alone
  <2> HIDE DEF m
  <2>4. QED
    BY <1>move, <2>1, <2>2, <2>3
<1>2. ASSUME NEW p \in Procs, InitCredentialsFile(p) PROVE AloneInv'
  <2> DEFINE m == [mem[p] EXCEPT !.creds = credentials]
             label == IF AdoptsLegacy(m) THEN "adopt" ELSE "run"
  <2>1. /\ pc[p] = "creds" /\ mem' = [mem EXCEPT ![p] = m] /\ Goto(p, label)
        /\ credentials' = credentials /\ config' = config
    BY <1>2 DEF InitCredentialsFile, Loaded, Alone
  <2>2. /\ \A q \in Procs : q # p => pc[q] = "down"
        /\ mem[p].file = config /\ mem[p].over = Unset
    BY <1>sole, <2>1 DEF CopiesCurrent
  <2>3. /\ m.creds = credentials /\ m.file = config /\ m.over = Unset /\ m.cmd = mem[p].cmd
        /\ m.cmd.envSelected \in NameOrNone
    BY <1>0, <2>2 DEF Memory, Command
  <2>4. CASE AdoptsLegacy(m)
    <3>1. config.selected = NoName /\ ~config.decided /\ m.cmd.envSelected = NoName
      BY <2>3, <2>4 DEF AdoptsLegacy, SelectedKey
    <3>2. config = UndecidedConfig
      BY <1>0, <3>1 DEF Config, UndecidedConfig
    <3>3. CopiesCurrent("adopt", m, credentials', config')
      BY <2>1, <2>3, <2>4, <3>1, <3>2 DEF CopiesCurrent, AdoptsLegacy, Exists, UndecidedConfig
    <3> HIDE DEF m
    <3>4. QED
      BY <1>move, <2>1, <2>2, <2>4, <3>3
  <2>5. CASE ~AdoptsLegacy(m)
    <3>1. SelectionCurrent(m, credentials', config')
      BY <1>0, <2>1, <2>3, <2>5
      DEF SelectionCurrent, SelectedKey, AdoptsLegacy, InForce, UndecidedConfig, Config
    <3>2. CopiesCurrent("run", m, credentials', config')
      BY <2>1, <2>3, <3>1 DEF CopiesCurrent
    <3> HIDE DEF m
    <3>3. QED
      BY <1>move, <2>1, <2>2, <2>5, <3>2
  <2>6. QED
    BY <2>4, <2>5
<1>3. ASSUME NEW p \in Procs, AdoptRead(p) PROVE AloneInv'
  <2> DEFINE m == [mem[p] EXCEPT !.merged = PersistSelection(config, Legacy), !.over = Legacy]
  <2>1. /\ pc[p] = "adopt" /\ mem' = [mem EXCEPT ![p] = m] /\ Goto(p, "adoptWrite")
        /\ credentials' = credentials /\ config' = config
    BY <1>3 DEF AdoptRead, ReadForPersist, ConfigRead, Alone
  <2>2. CopiesCurrent("adoptWrite", m, credentials', config')
    BY <1>0, <1>sole, <2>1 DEF CopiesCurrent, Memory, PersistSelection, Exists, UndecidedConfig
  <2> HIDE DEF m
  <2>3. QED
    BY <1>move, <1>sole, <2>1, <2>2
<1>4. ASSUME NEW p \in Procs, AdoptWrite(p) PROVE AloneInv'
  <2>1. /\ pc[p] = "adoptWrite" /\ mem' = [mem EXCEPT ![p] = mem[p]] /\ Goto(p, "run")
        /\ credentials' = credentials /\ config' \in {config, PersistSelection(config, Legacy)}
    BY <1>0, <1>4, <1>sole DEF AdoptWrite, CopiesCurrent
  <2>2. /\ config = UndecidedConfig /\ mem[p].creds = credentials /\ Exists(credentials, Legacy)
        /\ mem[p].over = Legacy
    BY <1>sole, <2>1 DEF CopiesCurrent
  <2>3. SelectedKey(mem[p]) = Legacy
    BY <2>2, UnsetAssumption, NamesAssumption DEF SelectedKey, NameOrNone
  <2>4. InForce(credentials', config') = Legacy
    BY <2>1, <2>2, NamesAssumption
    DEF InForce, Exists, PersistSelection, UndecidedConfig
  <2>5. CopiesCurrent("run", mem[p], credentials', config')
    BY <2>1, <2>2, <2>3, <2>4 DEF CopiesCurrent, SelectionCurrent, SelectedKey
  <2>6. QED
    BY <1>move, <1>sole, <2>1, <2>5
<1>5. ASSUME NEW p \in Procs, PersistRead(p) PROVE AloneInv'
  <2>0. /\ pc[p] = "persist" /\ credentials' = credentials /\ config' = config
        /\ mem[p].cmd.op \in {"use", "add", "setup"} => Exists(credentials, mem[p].cmd.name)
        /\ mem[p].cmd.op # "request"
    BY <1>5, <1>sole DEF PersistRead, ReadForPersist, CopiesCurrent
  <2>1. CASE mem[p].cmd.op = "setting"
    <3> DEFINE m == [mem[p] EXCEPT !.merged = config]
    <3>1. mem' = [mem EXCEPT ![p] = m] /\ Goto(p, "write")
      BY <1>5, <2>1 DEF PersistRead, ConfigRead, Alone
    <3>2. CopiesCurrent("write", m, credentials', config')
      BY <1>0, <2>0, <2>1 DEF CopiesCurrent, Memory, Exists
    <3> HIDE DEF m
    <3>3. QED
      BY <1>move, <1>sole, <2>0, <3>1, <3>2
  <2>2. CASE mem[p].cmd.op # "setting"
    <3> DEFINE n == PersistTarget(mem[p])
               m == [mem[p] EXCEPT !.merged = PersistSelection(config, n), !.over = n]
    <3>1. mem' = [mem EXCEPT ![p] = m] /\ Goto(p, "write")
      BY <1>5, <2>2 DEF PersistRead, ReadForPersist, ConfigRead, Alone
    <3>2. m.cmd = mem[p].cmd /\ m.merged = PersistSelection(config, n) /\ PersistTarget(m) = n
      BY <1>0 DEF Memory, PersistTarget
    <3>3. CopiesCurrent("write", m, credentials', config')
      <4> HIDE DEF m, n
      <4> QED
        BY <2>0, <2>2, <3>2 DEF CopiesCurrent, Exists, PersistTarget, PersistSelection
    <3> HIDE DEF m
    <3>4. QED
      BY <1>move, <1>sole, <2>0, <3>1, <3>3
  <2>3. QED
    BY <2>1, <2>2
<1>6. ASSUME NEW p \in Procs, PersistWrite(p) \/ SendRequest(p) \/ Kill(p) PROVE AloneInv'
  <2>1. pc[p] # "down" /\ Exit(p)
    BY <1>6 DEF PersistWrite, SendRequest, Kill, Running
  <2>2. QED
    BY <1>sole, <1>down, <2>1 DEF Exit
<1>7. ASSUME NEW p \in Procs, ProfileUse(p) \/ ProfileClear(p) \/ SaveSetting(p) PROVE AloneInv'
  <2>1. pc[p] = "run" /\ mem[p].creds = credentials
    BY <1>7, <1>sole DEF ProfileUse, ProfileClear, SaveSetting, Running, CopiesCurrent
  <2>2. CASE Exit(p)
    BY <1>sole, <1>down, <2>1, <2>2 DEF Exit
  <2>3. CASE Proceed(p, "persist")
    <3>1. /\ mem[p].cmd.op = "use" => Exists(credentials, mem[p].cmd.name)
          /\ mem[p].cmd.op \in {"use", "clear", "setting"}
      BY <1>0, <1>7, <2>1, <2>3 DEF ProfileUse, ProfileClear, SaveSetting, Running, Proceed, Rejected, Exit, Goto
    <3>2. CopiesCurrent("persist", mem[p], credentials', config')
      BY <2>3, <3>1 DEF CopiesCurrent, Proceed, Exists
    <3>3. mem' = [mem EXCEPT ![p] = mem[p]] /\ Goto(p, "persist")
      BY <1>0, <2>3 DEF Proceed
    <3>4. QED
      BY <1>move, <1>sole, <2>1, <3>2, <3>3
  <2>4. QED
    BY <1>7, <2>2, <2>3 DEF ProfileUse, ProfileClear, SaveSetting, Rejected
<1>8. ASSUME NEW p \in Procs, ProfileRemove(p) PROVE AloneInv'
  <2>1. /\ pc[p] = "run" /\ mem[p].creds = credentials /\ mem[p].cmd.op = "remove"
        /\ SelectionCurrent(mem[p], credentials, config)
    BY <1>8, <1>sole DEF ProfileRemove, Running, CopiesCurrent
  <2>2. CASE Exists(mem[p].creds, mem[p].cmd.name)
    <3> DEFINE m == [mem[p] EXCEPT !.creds = RemoveProfile(mem[p].creds, mem[p].cmd.name)]
    <3>1. /\ mem' = [mem EXCEPT ![p] = m] /\ Goto(p, "save")
          /\ credentials' = credentials /\ config' = config
      BY <1>8, <2>2 DEF ProfileRemove
    <3>2. /\ m.cmd = mem[p].cmd /\ m.over = mem[p].over /\ m.file = mem[p].file
          /\ m.creds = RemoveProfile(credentials, m.cmd.name)
      BY <1>0, <2>1 DEF Memory
    <3> HIDE DEF m
    <3>3. SelectionCurrent(m, credentials', config')
      BY <2>1, <3>1, <3>2 DEF SelectionCurrent, SelectedKey
    <3>4. CopiesCurrent("save", m, credentials', config')
      BY <2>1, <2>2, <3>1, <3>2, <3>3 DEF CopiesCurrent
    <3>5. QED
      BY <1>move, <1>sole, <2>1, <3>1, <3>4
  <2>3. CASE Exit(p)
    BY <1>sole, <1>down, <2>1, <2>3 DEF Exit
  <2>4. QED
    BY <1>8, <2>2, <2>3 DEF ProfileRemove, Rejected
<1>9. ASSUME NEW p \in Procs, NEW n \in Names, pc[p] = "run", mem[p].cmd.op \in {"add", "setup"},
             SaveAuthProfile(p, n)
      PROVE  AloneInv'
  <2>1. mem[p].creds = credentials
    BY <1>9, <1>sole DEF CopiesCurrent
  <2>2. CASE Complete(mem[p].cmd.fields)
    <3> DEFINE m == [mem[p] EXCEPT !.cmd.name = n, !.creds = SetProfile(mem[p].creds, n, mem[p].cmd.fields)]
    <3>1. mem' = [mem EXCEPT ![p] = m] /\ Goto(p, "save") /\ credentials' = credentials
      BY <1>9, <2>2 DEF SaveAuthProfile
    <3>2. /\ m.cmd.op = mem[p].cmd.op /\ m.cmd.name = n /\ m.cmd.fields = mem[p].cmd.fields
          /\ m.creds = SetProfile(credentials, n, mem[p].cmd.fields)
      BY <1>0, <2>1 DEF Memory, Command
    <3>3. CopiesCurrent("save", m, credentials', config')
      <4> HIDE DEF m
      <4> QED
        BY <1>9, <2>2, <3>1, <3>2 DEF CopiesCurrent, SetProfile
    <3> HIDE DEF m
    <3>4. QED
      BY <1>move, <1>sole, <1>9, <3>1, <3>3
  <2>3. CASE Exit(p)
    BY <1>sole, <1>down, <1>9, <2>3 DEF Exit
  <2>4. QED
    BY <1>9, <2>2, <2>3 DEF SaveAuthProfile, Rejected
<1>10. ASSUME NEW p \in Procs, ProfileAdd(p) PROVE AloneInv'
  BY <1>0, <1>9, <1>10 DEF ProfileAdd, Running, MemoryOK, NeedsName
<1>11. ASSUME NEW p \in Procs, AuthSetup(p) PROVE AloneInv'
  <2>1. pc[p] = "run" /\ mem[p].cmd.op = "setup"
    BY <1>11 DEF AuthSetup, Running
  <2>2. CASE Rejected(p)
    BY <1>sole, <1>down, <2>1, <2>2 DEF Rejected, Exit
  <2>3. ASSUME NEW n \in SetupNames(mem[p]), SaveAuthProfile(p, n) PROVE AloneInv'
    BY <1>0, <1>9, <2>1, <2>3, SetupNamesType
  <2>4. QED
    BY <1>11, <2>2, <2>3 DEF AuthSetup
<1>12. ASSUME NEW p \in Procs, SaveCredentials(p) PROVE AloneInv'
  <2>1. pc[p] = "save" /\ CopiesCurrent("save", mem[p], credentials, config)
    BY <1>12, <1>sole DEF SaveCredentials
  <2>2. CASE Exit(p)
    BY <1>sole, <1>down, <2>1, <2>2 DEF Exit
  <2>3. CASE /\ AfterSave(mem[p]) = "persist" /\ Goto(p, "persist") /\ mem' = mem
             /\ credentials' = mem[p].creds
    <3>1. /\ mem[p].cmd.op \in {"remove", "add", "setup"}
          /\ mem[p].cmd.op \in {"add", "setup"} => Exists(credentials', mem[p].cmd.name)
      <4>1. CASE mem[p].cmd.op = "remove"
        BY <4>1
      <4>2. CASE mem[p].cmd.op # "remove"
        <5>1. /\ mem[p].cmd.op \in {"add", "setup"} /\ mem[p].cmd.name \in Names
              /\ mem[p].creds = SetProfile(credentials, mem[p].cmd.name, mem[p].cmd.fields)
          BY <2>1, <4>2 DEF CopiesCurrent
        <5>2. MergeFields(credentials[mem[p].cmd.name], mem[p].cmd.fields) # Absent
          BY <1>0, <5>1, MergeFieldsFacts DEF Store, Memory, Command
        <5>3. QED
          BY <1>0, <2>3, <5>1, <5>2 DEF Exists, SetProfile, Store
      <4>3. QED
        BY <4>1, <4>2
    <3>2. CopiesCurrent("persist", mem[p], credentials', config')
      BY <3>1 DEF CopiesCurrent, Exists
    <3>3. mem' = [mem EXCEPT ![p] = mem[p]]
      BY <1>0, <2>3
    <3>4. QED
      BY <1>move, <1>sole, <2>1, <2>3, <3>2, <3>3
  <2>4. QED
    BY <1>12, <2>2, <2>3 DEF SaveCredentials, AfterSave
<1>13. CASE UNCHANGED vars
  BY <1>13 DEF vars, AloneInv
<1>14. QED
  BY <1>1, <1>2, <1>3, <1>4, <1>5, <1>6, <1>7, <1>8, <1>10, <1>11, <1>12, <1>13 DEF Next, Step

\* The selection names a profile, unless a removal of it is or was underway.
LEMMA NextDangling ==
  ASSUME Alone
  PROVE  IInv /\ AloneInv /\ DanglingOnlyIfTorn /\ [Next]_vars => DanglingOnlyIfTorn'
<1> SUFFICES ASSUME IInv, AloneInv, DanglingOnlyIfTorn, [Next]_vars PROVE DanglingOnlyIfTorn'
  OBVIOUS
<1> USE DEF Labels
<1>0. /\ credentials \in Store /\ config \in Config /\ torn \in SUBSET Names
      /\ pc \in [Procs -> Labels] /\ mem \in [Procs -> Memory]
      /\ \A p \in Procs : mem[p] \in Memory /\ MemoryOK(mem[p])
  BY DEF IInv, TypeOK
\* Steps that leave both files, and every remove between its files, alone.
<1>idle. ASSUME NEW p \in Procs, UNCHANGED <<credentials, config, torn>>,
                \A q \in Procs : q # p => pc'[q] = pc[q] /\ mem'[q] = mem[q],
                pc[p] \in {"persist", "write"} /\ mem[p].cmd.op = "remove" =>
                  pc'[p] \in {"persist", "write"} /\ mem'[p].cmd = mem[p].cmd
         PROVE  DanglingOnlyIfTorn'
  BY <1>idle DEF DanglingOnlyIfTorn, Exists
<1>1. ASSUME NEW p \in Procs, NEW c \in Commands, Launch(p, c) PROVE DanglingOnlyIfTorn'
  BY <1>0, <1>1, <1>idle DEF Launch, Goto
<1>2. ASSUME NEW p \in Procs, InitCredentialsFile(p) PROVE DanglingOnlyIfTorn'
  BY <1>0, <1>2, <1>idle DEF InitCredentialsFile, Goto
<1>3. ASSUME NEW p \in Procs, AdoptRead(p) PROVE DanglingOnlyIfTorn'
  BY <1>0, <1>3, <1>idle DEF AdoptRead, ReadForPersist, Goto
<1>4. ASSUME NEW p \in Procs, AdoptWrite(p) PROVE DanglingOnlyIfTorn'
  <2>1. /\ Exists(credentials, Legacy) /\ config = UndecidedConfig
        /\ mem[p].merged = PersistSelection(config, Legacy)
    BY <1>4 DEF AdoptWrite, AloneInv, CopiesCurrent
  <2>2. config'.selected \in {NoName, Legacy}
    <3>1. config.selected = NoName /\ mem[p].merged.selected = Legacy
      BY <2>1 DEF PersistSelection, UndecidedConfig
    <3>2. config' = config \/ config' = mem[p].merged
      BY <1>4 DEF AdoptWrite
    <3>3. QED
      BY <3>1, <3>2
  <2>3. QED
    BY <1>4, <2>1, <2>2 DEF AdoptWrite, DanglingOnlyIfTorn, Exists
<1>5. ASSUME NEW p \in Procs, PersistRead(p) PROVE DanglingOnlyIfTorn'
  <2>1. CASE mem[p].cmd.op = "setting"
    BY <1>0, <1>5, <1>idle, <2>1 DEF PersistRead, Goto
  <2>2. CASE mem[p].cmd.op # "setting"
    <3>1. PICK tree \in ConfigRead :
            mem' = [mem EXCEPT ![p].merged = PersistSelection(tree, PersistTarget(mem[p])),
                               ![p].over = PersistTarget(mem[p])]
      BY <1>5, <2>2 DEF PersistRead, ReadForPersist
    <3>2. mem'[p].cmd = mem[p].cmd /\ \A q \in Procs : q # p => mem'[q] = mem[q]
      BY <1>0, <3>1 DEF Memory
    <3>3. QED
      BY <1>0, <1>5, <1>idle, <2>2, <3>2 DEF PersistRead, ReadForPersist, Goto
  <2>3. QED
    BY <2>1, <2>2
<1>6. ASSUME NEW p \in Procs, PersistWrite(p) PROVE DanglingOnlyIfTorn'
  <2>0. /\ pc[p] = "write" /\ credentials' = credentials
        /\ \A q \in Procs : q # p => pc[q] = "down" /\ pc'[q] = "down"
        /\ CopiesCurrent("write", mem[p], credentials, config)
    BY <1>0, <1>6 DEF PersistWrite, AloneInv, Exit, Goto
  <2>1. CASE config' = mem[p].merged /\ torn' = torn
    <3>1. CASE mem[p].cmd.op = "setting"
      BY <2>0, <2>1, <3>1 DEF CopiesCurrent, DanglingOnlyIfTorn, Exists
    <3>2. CASE mem[p].cmd.op # "setting"
      <4>1. config'.selected = PersistTarget(mem[p])
        BY <1>0, <2>0, <2>1, <3>2 DEF CopiesCurrent, PersistSelection, Config
      <4>2. mem[p].cmd.op \in Ops
        BY <1>0 DEF Memory, Command
      <4>3. QED
        BY <2>0, <3>2, <4>1, <4>2 DEF CopiesCurrent, PersistTarget, DanglingOnlyIfTorn, Exists, Ops
    <3>3. QED
      BY <3>1, <3>2
  <2>2. CASE config' = config /\ torn' = LeftSelected(p)
    BY <2>0, <2>2 DEF LeftSelected, DanglingOnlyIfTorn, Exists
  <2>3. QED
    BY <1>6, <2>1, <2>2 DEF PersistWrite
<1>7. ASSUME NEW p \in Procs,
             ProfileUse(p) \/ ProfileClear(p) \/ SaveSetting(p) \/ ProfileRemove(p) \/ SendRequest(p)
      PROVE  DanglingOnlyIfTorn'
  BY <1>0, <1>7, <1>idle
  DEF ProfileUse, ProfileClear, SaveSetting, ProfileRemove, SendRequest, Running, Proceed,
      Rejected, Exit, Goto
<1>8. ASSUME NEW p \in Procs, ProfileAdd(p) \/ AuthSetup(p) PROVE DanglingOnlyIfTorn'
  <2>1. /\ pc[p] = "run" /\ UNCHANGED <<credentials, config, torn>>
        /\ \A q \in Procs : q # p => pc'[q] = pc[q] /\ mem'[q] = mem[q]
    BY <1>0, <1>8 DEF ProfileAdd, AuthSetup, Running, SaveAuthProfile, Rejected, Exit, Goto
  <2>2. QED
    BY <1>idle, <2>1
<1>9. ASSUME NEW p \in Procs, SaveCredentials(p) PROVE DanglingOnlyIfTorn'
  <2>0. /\ pc[p] = "save" /\ config' = config
        /\ CopiesCurrent("save", mem[p], credentials, config)
        /\ \A q \in Procs : q # p => pc[q] = "down" /\ pc'[q] = "down"
        /\ mem[p].cmd.name \in NameOrNone
    BY <1>0, <1>9 DEF SaveCredentials, AloneInv, Exit, Goto, Memory, Command
  <2>1. CASE UNCHANGED <<credentials, torn>>
    BY <2>0, <2>1 DEF DanglingOnlyIfTorn, Exists
  <2>2. CASE mem[p].cmd.op = "remove" /\ credentials' = mem[p].creds
    <3>1. credentials' = RemoveProfile(credentials, mem[p].cmd.name)
      BY <2>0, <2>2 DEF CopiesCurrent
    <3>2. \A n \in Names : n # mem[p].cmd.name => (Exists(credentials, n) => Exists(credentials', n))
      BY <1>0, <3>1 DEF RemoveProfile, Exists, Store
    <3>3. torn \subseteq torn'
      BY <1>9, <2>1, <2>2 DEF SaveCredentials
    <3>4. \/ pc'[p] = "persist" /\ mem' = mem
          \/ config.selected = mem[p].cmd.name => mem[p].cmd.name \in torn' \/ credentials' = credentials
      <4>1. SUFFICES ASSUME config.selected = mem[p].cmd.name, ~UNCHANGED <<credentials, torn>>
                     PROVE  \/ pc'[p] = "persist" /\ mem' = mem
                            \/ mem[p].cmd.name \in torn'
        BY <2>2, <2>1
      <4>2. Exists(credentials, mem[p].cmd.name) /\ SelectionCurrent(mem[p], credentials, config)
        BY <2>0, <2>2 DEF CopiesCurrent
      <4>3. InForce(credentials, config) = mem[p].cmd.name
        BY <4>1, <4>2, NamesAssumption DEF InForce, UndecidedConfig, Exists
      <4>4. SelectionMasked(mem[p]) \/ SelectedKey(mem[p]) = mem[p].cmd.name
        BY <4>2, <4>3 DEF SelectionCurrent, SelectionMasked, SelectedKey
      <4>5. CASE SelectionMasked(mem[p])
        BY <1>0, <1>9, <2>2, <4>1, <4>5 DEF SaveCredentials
      <4>6. CASE SelectedKey(mem[p]) = mem[p].cmd.name
        BY <1>0, <1>9, <2>0, <2>2, <4>1, <4>6 DEF SaveCredentials, AfterSave, Goto
      <4>7. QED
        BY <4>4, <4>5, <4>6
    <3>5. config.selected \in NameOrNone
      BY <1>0 DEF Config
    <3>6. QED
      BY <2>0, <2>2, <3>2, <3>3, <3>4, <3>5 DEF DanglingOnlyIfTorn, Exists, NameOrNone
  <2>3. CASE mem[p].cmd.op # "remove" /\ credentials' = mem[p].creds
    <3>1. /\ mem[p].cmd.name \in Names
          /\ mem[p].creds = SetProfile(credentials, mem[p].cmd.name, mem[p].cmd.fields)
      BY <2>0, <2>3 DEF CopiesCurrent
    <3>2. MergeFields(credentials[mem[p].cmd.name], mem[p].cmd.fields) # Absent
      BY <1>0, <3>1, MergeFieldsFacts DEF Store, Memory, Command
    <3>3. /\ Exists(credentials', mem[p].cmd.name)
          /\ \A n \in Names : Exists(credentials, n) => Exists(credentials', n)
      BY <1>0, <2>3, <3>1, <3>2 DEF Exists, SetProfile, Store
    <3>4. \A n \in Names : n \in torn => n \in torn' \/ Exists(credentials', n)
      BY <1>9, <2>3, <3>3 DEF SaveCredentials
    <3>5. QED
      BY <1>0, <2>0, <3>3, <3>4 DEF DanglingOnlyIfTorn, Exists
  <2>4. QED
    BY <1>9, <2>1, <2>2, <2>3 DEF SaveCredentials
<1>10. ASSUME NEW p \in Procs, Kill(p) PROVE DanglingOnlyIfTorn'
  <2>1. /\ \A q \in Procs : q # p => pc[q] = "down"
        /\ UNCHANGED <<credentials, config>> /\ torn' = LeftSelected(p)
    BY <1>10 DEF Kill, AloneInv
  <2>2. QED
    BY <2>1 DEF LeftSelected, DanglingOnlyIfTorn, Exists
<1>11. CASE UNCHANGED vars
  BY <1>11 DEF vars, DanglingOnlyIfTorn, Exists
<1>12. QED
  BY <1>1, <1>2, <1>3, <1>4, <1>5, <1>6, <1>7, <1>8, <1>9, <1>10, <1>11 DEF Next, Step

(***************************************************************************)
(* With invocations one at a time, a selection on disk that names no       *)
(* stored profile is the trace of a remove of that profile: one between    *)
(* its two files, one cut short there, or one the environment masked.      *)
(***************************************************************************)
THEOREM SelectionNamesProfile ==
  ASSUME Alone
  PROVE  Spec => []DanglingOnlyIfTorn
<1>1. Init => IInv /\ AloneInv /\ DanglingOnlyIfTorn
  BY InitIInv, InitAlone DEF Init, DanglingOnlyIfTorn, UndecidedConfig
<1>2. IInv /\ AloneInv /\ DanglingOnlyIfTorn /\ [Next]_vars => IInv' /\ AloneInv' /\ DanglingOnlyIfTorn'
  BY NextIInv, NextAlone, NextDangling
<1>3. QED
  BY <1>1, <1>2, PTL DEF Spec

(***************************************************************************)
(* With invocations one at a time, adoption of the legacy profile never    *)
(* overwrites a decision: what it read is still what the file holds.       *)
(***************************************************************************)
THEOREM ClearStands ==
  ASSUME Alone
  PROVE  Spec => ClearNeverUndone
<1>1. Init => IInv /\ AloneInv
  BY InitIInv, InitAlone
<1>2. IInv /\ AloneInv /\ [Next]_vars => IInv' /\ AloneInv'
  BY NextIInv, NextAlone
<1>3. AloneInv =>
        [\A p \in Procs : pc[p] = "adoptWrite" /\ config.decided => config' = config]_vars
  BY DEF AloneInv, CopiesCurrent, UndecidedConfig
<1>4. QED
  BY <1>1, <1>2, <1>3, PTL DEF Spec, ClearNeverUndone

-----------------------------------------------------------------------------
(* The step simulation. The instance's operators are those of Profiles.    *)

LEMMA SameOperators ==
  /\ Registry!Store = Store
  /\ Registry!Profile = Profile
  /\ Registry!NameOrNone = NameOrNone
  /\ Registry!UndecidedConfig = UndecidedConfig
  /\ \A s, n : Registry!Exists(s, n) <=> Exists(s, n)
  /\ \A f : Registry!Complete(f) <=> Complete(f)
  /\ \A s, n, f : Registry!SetProfile(s, n, f) = SetProfile(s, n, f)
  /\ \A s, n : Registry!RemoveProfile(s, n) = RemoveProfile(s, n)
  /\ \A c, n : Registry!PersistSelection(c, n) = PersistSelection(c, n)
  /\ \A s, a : Registry!CredentialOf(s, a) = CredentialOf(s, a)
  /\ \A f, e, c : Registry!ActiveProfileName(f, e, c) = ActiveProfileName(f, e, c)
<1>1. /\ Registry!Store = Store
      /\ Registry!Profile = Profile
      /\ Registry!NameOrNone = NameOrNone
      /\ Registry!UndecidedConfig = UndecidedConfig
  BY DEF Registry!Store, Store, Registry!Profile, Profile, Registry!NameOrNone, NameOrNone,
         Registry!UndecidedConfig, UndecidedConfig
<1>2. /\ \A s, n : Registry!Exists(s, n) <=> Exists(s, n)
      /\ \A f : Registry!Complete(f) <=> Complete(f)
  BY DEF Registry!Exists, Exists, Registry!Complete, Complete
<1>3. /\ \A s, n, f : Registry!SetProfile(s, n, f) = SetProfile(s, n, f)
      /\ \A s, n : Registry!RemoveProfile(s, n) = RemoveProfile(s, n)
      /\ \A c, n : Registry!PersistSelection(c, n) = PersistSelection(c, n)
  BY DEF Registry!SetProfile, SetProfile, Registry!MergeFields, MergeFields,
         Registry!RemoveProfile, RemoveProfile, Registry!PersistSelection, PersistSelection
<1>4. /\ \A s, a : Registry!CredentialOf(s, a) = CredentialOf(s, a)
      /\ \A f, e, c : Registry!ActiveProfileName(f, e, c) = ActiveProfileName(f, e, c)
  BY DEF Registry!CredentialOf, CredentialOf, Registry!Exists, Exists, Registry!Complete, Complete,
         Registry!ActiveProfileName, ActiveProfileName
<1>5. QED
  BY <1>1, <1>2, <1>3, <1>4

LEMMA InitSimulates == Init => Registry!RegistryInit
<1> SUFFICES ASSUME Init PROVE Registry!RegistryInit
  OBVIOUS
<1>1. credentials \in Store /\ \A n \in Names : credentials[n] # Absent => Complete(credentials[n])
  BY InitialStoresAssumption DEF Init
<1>2. QED
  BY <1>1, SameOperators DEF Registry!RegistryInit, Init

\* Choosing, whatever the previous choice: one step of the registry.
LEMMA ChooseSimulates ==
  ASSUME IInv, NEW n \in NameOrNone, n = NoName \/ Exists(credentials, n),
         config' = PersistSelection(config, n), credentials' = credentials, wire' = wire
  PROVE  Registry!RegistryNext
<1>1. Registry!Choose(n)
  BY SameOperators DEF Registry!Choose
<1>2. QED
  BY <1>1, SameOperators DEF Registry!RegistryNext

LEMMA NextSimulates ==
  ASSUME Alone
  PROVE  IInv /\ AloneInv /\ [Next]_vars => [Registry!RegistryNext]_<<credentials, config, wire>>
<1> SUFFICES ASSUME IInv, AloneInv, [Next]_vars,
                    ~ UNCHANGED <<credentials, config, wire>>
             PROVE  Registry!RegistryNext
  OBVIOUS
<1>0. /\ credentials \in Store /\ config \in Config
      /\ \A p \in Procs : mem[p] \in Memory /\ MemoryOK(mem[p])
      /\ \A p \in Procs : CopiesCurrent(pc[p], mem[p], credentials, config)
  BY DEF IInv, TypeOK, AloneInv
<1>1. ASSUME NEW p \in Procs, AdoptWrite(p) PROVE Registry!RegistryNext
  <2>1. /\ config' = PersistSelection(config, Legacy) /\ Exists(credentials, Legacy)
        /\ UNCHANGED <<credentials, wire>>
    BY <1>0, <1>1 DEF AdoptWrite, CopiesCurrent
  <2>2. QED
    BY <2>1, ChooseSimulates, NamesAssumption DEF NameOrNone
<1>2. ASSUME NEW p \in Procs, PersistWrite(p) PROVE Registry!RegistryNext
  <2>1. /\ config' = mem[p].merged /\ mem[p].cmd.op # "setting"
        /\ UNCHANGED <<credentials, wire>>
    BY <1>0, <1>2 DEF PersistWrite, CopiesCurrent
  <2>2. config' = PersistSelection(config, PersistTarget(mem[p]))
    BY <1>0, <1>2, <2>1 DEF PersistWrite, CopiesCurrent
  <2>3. /\ PersistTarget(mem[p]) \in NameOrNone
        /\ PersistTarget(mem[p]) = NoName \/ Exists(credentials, PersistTarget(mem[p]))
    BY <1>0, <1>2, <2>1
    DEF PersistWrite, CopiesCurrent, PersistTarget, Memory, Command, Ops, NameOrNone
  <2>4. QED
    BY <2>1, <2>2, <2>3, ChooseSimulates
<1>3. ASSUME NEW p \in Procs, SaveCredentials(p) PROVE Registry!RegistryNext
  <2> DEFINE n == mem[p].cmd.name
  <2>1. credentials' = mem[p].creds /\ UNCHANGED <<config, wire>>
    BY <1>3 DEF SaveCredentials
  <2>2. CASE /\ mem[p].cmd.op = "remove" /\ Exists(credentials, n)
             /\ mem[p].creds = RemoveProfile(credentials, n)
    <3>1. Registry!DropProfile(n)
      BY <2>1, <2>2, SameOperators DEF Registry!DropProfile
    <3>2. n \in Names
      BY <2>2 DEF Exists
    <3>3. QED
      BY <3>1, <3>2 DEF Registry!RegistryNext
  <2>3. CASE /\ n \in Names /\ Complete(mem[p].cmd.fields)
             /\ mem[p].creds = SetProfile(credentials, n, mem[p].cmd.fields)
    <3>1. mem[p].cmd.fields \in Profile
      BY <1>0 DEF Memory, Command
    <3>2. Registry!StoreProfile(n)
      BY <2>1, <2>3, <3>1, SameOperators DEF Registry!StoreProfile
    <3>3. QED
      BY <2>3, <3>2 DEF Registry!RegistryNext
  <2>4. QED
    BY <1>0, <1>3, <2>2, <2>3 DEF SaveCredentials, CopiesCurrent
<1>4. ASSUME NEW p \in Procs, SendRequest(p) PROVE Registry!RegistryNext
  <2>1. /\ wire' = CredentialOf(credentials, Active(mem[p]))
        /\ SelectionCurrent(mem[p], credentials, config)
        /\ UNCHANGED <<credentials, config>>
    BY <1>0, <1>4 DEF SendRequest, Running, CopiesCurrent
  <2>2. Registry!ChosenOrLegacy = InForce(credentials, config)
    BY SameOperators DEF Registry!ChosenOrLegacy, InForce
  <2>3. /\ mem[p].cmd.flag \in NameOrNone \union {NotPassed}
        /\ mem[p].cmd.env \in NameOrNone /\ mem[p].cmd.envSelected \in NameOrNone
    BY <1>0 DEF Memory, Command
  <2>4. \E o \in Names \union {NoName, NotPassed} :
          Active(mem[p]) = ActiveProfileName(o, NoName, InForce(credentials, config))
    <3>1. CASE mem[p].cmd.flag # NotPassed
      BY <2>3, <3>1 DEF Active, ActiveProfileName, NameOrNone
    <3>2. CASE mem[p].cmd.flag = NotPassed /\ mem[p].cmd.env # NoName
      BY <2>3, <3>2, NamesAssumption DEF Active, ActiveProfileName, NameOrNone
    <3>3. CASE /\ mem[p].cmd.flag = NotPassed /\ mem[p].cmd.env = NoName
               /\ SelectedKey(mem[p]) = InForce(credentials, config)
      BY <3>3 DEF Active, ActiveProfileName
    <3>4. CASE /\ mem[p].cmd.flag = NotPassed /\ mem[p].cmd.env = NoName
               /\ mem[p].over = Unset /\ mem[p].cmd.envSelected # NoName
      BY <2>3, <3>4, NamesAssumption DEF Active, ActiveProfileName, SelectedKey, NameOrNone
    <3>5. QED
      BY <2>1, <3>1, <3>2, <3>3, <3>4 DEF SelectionCurrent
  <2>5. Registry!Request
    BY <2>1, <2>2, <2>4, SameOperators DEF Registry!Request
  <2>6. QED
    BY <2>5 DEF Registry!RegistryNext
<1>5. ASSUME NEW p \in Procs,
             \/ InitCredentialsFile(p) \/ AdoptRead(p) \/ PersistRead(p)
             \/ ProfileUse(p) \/ ProfileClear(p) \/ SaveSetting(p) \/ ProfileRemove(p)
             \/ ProfileAdd(p) \/ AuthSetup(p) \/ Kill(p)
      PROVE  FALSE
  BY <1>5
  DEF InitCredentialsFile, AdoptRead, PersistRead, ReadForPersist, ProfileUse, ProfileClear,
      SaveSetting, ProfileRemove, ProfileAdd, AuthSetup, SaveAuthProfile, Kill, Proceed, Rejected
<1>6. ASSUME NEW p \in Procs, NEW c \in Commands, Launch(p, c) PROVE FALSE
  BY <1>6 DEF Launch
<1>7. QED
  BY <1>1, <1>2, <1>3, <1>4, <1>5, <1>6 DEF Next, Step, vars

(***************************************************************************)
(* With invocations one at a time the two files, their copies and their    *)
(* separate writes implement the single table of ProfileRegistry.          *)
(***************************************************************************)
THEOREM RefinesRegistry ==
  ASSUME Alone
  PROVE  Spec => ImplementsRegistry
<1>1. Init => IInv /\ AloneInv /\ Registry!RegistryInit
  BY InitIInv, InitAlone, InitSimulates
<1>2. IInv /\ AloneInv /\ [Next]_vars => IInv' /\ AloneInv'
  BY NextIInv, NextAlone
<1>3. IInv /\ AloneInv /\ [Next]_vars => [Registry!RegistryNext]_(Registry!regVars)
  BY NextSimulates DEF Registry!regVars
<1>4. QED
  BY <1>1, <1>2, <1>3, PTL DEF Spec, ImplementsRegistry, Registry!RegistrySpec
=============================================================================
