-------------------------- MODULE TokenCacheProofs --------------------------
(***************************************************************************)
(* For any number of overlapping processes, profiles and clients, and      *)
(* whatever the server answers, tokens stay in the bucket they were issued *)
(* for. The invariant adds to the buckets what each process is about to    *)
(* put into them: the token it got was issued for the request in hand.     *)
(* For processes that do not overlap, the user is sent to the browser only *)
(* when that is needed; that invariant stands before its theorem, below.   *)
(***************************************************************************)
EXTENDS TokenCache, SequenceTheorems, TLAPS

\* What a process in the middle of a request knows about it.
RequestOK(log, label, m) ==
  /\ label = "store" => m.got # None /\ IssuedFor(log, m.got, m.profile, m.client)
  /\ label \in {"write", "send"} => IssuedFor(log, MyBucket(m).token, m.profile, m.client)
  /\ label \in {"ready", "down"} => m.got = None

IInv ==
  /\ TypeOK
  /\ disk # Torn => Keeps(issues, disk)
  /\ \A p \in Procs : Keeps(issues, mem[p].cache) /\ RequestOK(issues, pc[p], mem[p])

LEMMA EmptyKeeps == EmptyCache \in Cache /\ \A log : Keeps(log, EmptyCache)
BY DEF EmptyCache, EmptyBucket, Cache, Bucket, Keeps, Held, Scopes, None

LEMMA BlankOK ==
  Blank \in Memory /\ \A log : Keeps(log, Blank.cache) /\ RequestOK(log, "down", Blank)
<1>1. SomeClient \in Clients
  BY ClientsAssumption DEF SomeClient
<1>2. QED
  BY <1>1, EmptyKeeps DEF Blank, Memory, RequestOK, None

LEMMA ScopeInScopes ==
  ASSUME NEW m \in Memory
  PROVE  MyScope(m) \in Scopes
BY DEF MyScope, Scope, Scopes, Memory

\* The bucket of the request in hand, in a cache that keeps.
LEMMA MyBucketFacts ==
  ASSUME NEW m \in Memory, Keeps(issues, m.cache)
  PROVE  /\ MyBucket(m) \in Bucket
         /\ \A t \in Held(MyBucket(m)) : IssuedFor(issues, t, m.profile, m.client)
<1>1. MyScope(m) \in Scopes /\ m.cache \in Cache
  BY ScopeInScopes DEF Memory
<1>2. CASE m.profile # NoProfile
  <2>1. m.profile \in Profiles /\ MyScope(m) = m.profile
    BY <1>2 DEF MyScope, Scope, Memory
  <2>2. QED
    BY <1>1, <1>2, <2>1 DEF MyBucket, Cache, Keeps, IssuedFor
<1>3. CASE m.profile = NoProfile
  <2>1. m.client \in Clients /\ MyScope(m) = m.client
    BY <1>3 DEF MyScope, Scope, Memory
  <2>2. QED
    BY <1>1, <1>3, <2>1 DEF MyBucket, Cache, Keeps
<1>4. QED
  BY <1>2, <1>3

\* Putting a token issued for the request into its bucket.
LEMMA StoredFacts ==
  ASSUME IInv, NEW m \in Memory, Keeps(issues, m.cache), NEW unsaved \in BOOLEAN,
         IssuedFor(issues, m.got, m.profile, m.client), m.got \in Tokens
  PROVE  /\ Stored(m, unsaved) \in Memory
         /\ Keeps(issues, Stored(m, unsaved).cache)
         /\ MyBucket(Stored(m, unsaved)).token = m.got
<1> DEFINE s == MyScope(m)
           b == BucketWith(MyBucket(m), m.got)
           cache == [m.cache EXCEPT ![s] = b]
<1>1. s \in Scopes /\ m.cache \in Cache
  BY ScopeInScopes DEF Memory
<1>2. b \in Bucket /\ b.token = m.got /\ Held(b) \subseteq Held(MyBucket(m)) \union {m.got}
  BY MyBucketFacts DEF BucketWith, Bucket, Held, None, Tokens
<1>3. \A t \in Held(b) : IssuedFor(issues, t, m.profile, m.client)
  BY <1>2, MyBucketFacts
<1>4. cache \in Cache
  <2> HIDE DEF b, s
  <2> QED BY <1>1, <1>2 DEF Cache
<1>5. Keeps(issues, cache)
  <2>1. CASE m.profile # NoProfile
    <3>1. m.profile \in Profiles /\ s = m.profile
      BY <2>1 DEF MyScope, Scope, Memory
    <3>2. s \notin Clients
      BY <3>1, ClientsAssumption
    <3> HIDE DEF b, s
    <3>3. QED
      BY <1>1, <1>3, <2>1, <3>1, <3>2 DEF Keeps, Cache, Scopes, IssuedFor
  <2>2. CASE m.profile = NoProfile
    <3>1. m.client \in Clients /\ s = m.client
      BY <2>2 DEF MyScope, Scope, Memory
    <3>2. s \notin Profiles
      BY <3>1, ClientsAssumption
    <3> HIDE DEF b, s
    <3>3. QED
      BY <1>1, <1>3, <2>2, <3>1, <3>2 DEF Keeps, Cache, Scopes
  <2>3. QED
    BY <2>1, <2>2
<1>6. Stored(m, unsaved) = [m EXCEPT !.cache = cache, !.unsaved = unsaved]
  BY DEF Stored, Memory
<1> HIDE DEF cache, b, s
<1>7. Stored(m, unsaved) \in Memory /\ Stored(m, unsaved).cache = cache
  BY <1>4, <1>6 DEF Memory
<1>8. MyBucket(Stored(m, unsaved)) = b
  BY <1>1, <1>6, <1>7 DEF MyBucket, MyScope, Memory, Cache, cache, s
<1>9. QED
  BY <1>2, <1>5, <1>7, <1>8

\* A token stays issued for what it was issued for.
LEMMA IssuedForStays ==
  ASSUME IInv, NEW t, NEW n, NEW c, IssuedFor(issues, t, n, c),
         issues' = issues \/ \E i \in Issue : issues' = Append(issues, i)
  PROVE  IssuedFor(issues', t, n, c)
<1>1. issues \in Seq(Issue) /\ Len(issues) \in Nat
  BY DEF IInv, TypeOK
<1>2. CASE issues' = issues
  BY <1>2 DEF IssuedFor
<1>3. ASSUME NEW i \in Issue, issues' = Append(issues, i) PROVE IssuedFor(issues', t, n, c)
  <2>1. Len(issues') = Len(issues) + 1 /\ \A k \in 1 .. Len(issues) : issues'[k] = issues[k]
    BY <1>1, <1>3, AppendProperties
  <2>2. QED
    BY <1>1, <2>1 DEF IssuedFor
<1>4. QED
  BY <1>2, <1>3

LEMMA KeepsStays ==
  ASSUME IInv, NEW cache, Keeps(issues, cache),
         issues' = issues \/ \E i \in Issue : issues' = Append(issues, i)
  PROVE  Keeps(issues', cache)
BY IssuedForStays DEF Keeps

LEMMA RequestStays ==
  ASSUME IInv, NEW label, NEW m, RequestOK(issues, label, m),
         issues' = issues \/ \E i \in Issue : issues' = Append(issues, i)
  PROVE  RequestOK(issues', label, m)
BY IssuedForStays DEF RequestOK, MyBucket, MyScope, Scope

LEMMA InitIInv == Init => IInv
<1> SUFFICES ASSUME Init PROVE IInv
  OBVIOUS
<1>1. TypeOK
  BY BlankOK, EmptyKeeps, BoundsAssumption, EmptySeq DEF Init, TypeOK, Labels
<1>2. Keeps(issues, disk) /\ \A p \in Procs : Keeps(issues, mem[p].cache) /\ RequestOK(issues, pc[p], mem[p])
  BY BlankOK, EmptyKeeps DEF Init
<1>3. QED
  BY <1>1, <1>2 DEF IInv

\* A step of one process: what it leaves behind is what it must show.
LEMMA LocalStep ==
  ASSUME IInv, NEW p \in Procs, NEW m \in Memory, NEW label \in Labels,
         mem' = [mem EXCEPT ![p] = m], Goto(p, label),
         Keeps(issues', m.cache), RequestOK(issues', label, m),
         disk' \in Cache \union {Torn}, disk' # Torn => Keeps(issues', disk'),
         stored' = stored,
         issues' = issues \/ (Len(issues) < MaxIssues /\ \E i \in Issue : issues' = Append(issues, i)),
         live' \in SUBSET Tokens, expired' = expired, forgone' \in SUBSET Tokens
  PROVE  IInv'
<1>1. issues' \in Seq(Issue) /\ Len(issues') <= MaxIssues
  BY AppendProperties, BoundsAssumption, LenProperties DEF IInv, TypeOK
<1>2. TypeOK'
  BY <1>1 DEF IInv, TypeOK, Goto
<1>3. ASSUME NEW q \in Procs PROVE Keeps(issues', mem'[q].cache) /\ RequestOK(issues', pc'[q], mem'[q])
  <2>1. CASE q = p
    BY <2>1 DEF IInv, TypeOK, Goto
  <2>2. CASE q # p
    <3>1. mem'[q] = mem[q] /\ pc'[q] = pc[q]
      BY <2>2 DEF IInv, TypeOK, Goto
    <3>2. Keeps(issues, mem[q].cache) /\ RequestOK(issues, pc[q], mem[q])
      BY DEF IInv
    <3>3. QED
      BY <3>1, <3>2, KeepsStays, RequestStays
  <2>3. QED
    BY <2>1, <2>2
<1>4. QED
  BY <1>2, <1>3 DEF IInv

\* The new token the server answers, and what is in the sequence for it.
LEMMA IssuedFacts ==
  ASSUME IInv, NEW m \in Memory, NEW withRefresh \in BOOLEAN, NEW repeats \in BOOLEAN,
         Issued(m, withRefresh, repeats)
  PROVE  /\ Len(issues) < MaxIssues /\ \E i \in Issue : issues' = Append(issues, i)
         /\ NewToken \in Tokens
         /\ IssuedFor(issues', NewToken, m.profile, m.client)
<1> DEFINE i == [client |-> m.client, profile |-> m.profile, refresh |-> withRefresh, repeats |-> repeats]
           k == NewToken
<1>1. i \in Issue /\ issues \in Seq(Issue) /\ Len(issues) \in Nat /\ MaxIssues \in Nat
  BY BoundsAssumption DEF IInv, TypeOK, Issue, Memory
<1>2. Len(issues) < MaxIssues /\ issues' = Append(issues, i)
  BY DEF Issued
<1>3. NewToken \in Tokens
  BY <1>1, <1>2 DEF NewToken, Tokens
<1>4. Len(issues') = Len(issues) + 1 /\ issues'[Len(issues) + 1] = i
  BY <1>1, <1>2, AppendProperties
<1>5. IssuedFor(issues', k, m.profile, m.client)
  BY <1>1, <1>4 DEF IssuedFor, NewToken
<1>6. QED
  BY <1>1, <1>2, <1>3, <1>5

\* The end of a request.
LEMMA EndStep ==
  ASSUME IInv, NEW p \in Procs, NEW m \in Memory, Keeps(issues, m.cache), EndRequest(p, m),
         disk' \in {disk, Torn}, stored' = stored, issues' = issues, live' = live,
         expired' = expired, forgone' = forgone
  PROVE  IInv'
<1> DEFINE k == [m EXCEPT !.profile = NoProfile, !.client = SomeClient, !.got = None]
<1>1. k \in Memory /\ k.cache = m.cache /\ k.got = None
  BY ClientsAssumption DEF Memory, SomeClient
<1>2. mem' = [mem EXCEPT ![p] = k] /\ Goto(p, "ready")
  BY DEF EndRequest
<1> HIDE DEF k
<1>3. Keeps(issues', k.cache) /\ RequestOK(issues', "ready", k)
  <2>1. Keeps(issues', m.cache)
    BY KeepsStays
  <2>2. QED
    BY <1>1, <2>1 DEF RequestOK, Keeps
<1>4. disk' # Torn => Keeps(issues', disk')
  BY DEF IInv, Keeps, IssuedFor
<1>5. QED
  BY <1>1, <1>2, <1>3, <1>4, LocalStep DEF IInv, TypeOK, Labels

LEMMA NextIInv == IInv /\ [Next]_vars => IInv'
<1> SUFFICES ASSUME IInv, [Next]_vars PROVE IInv'
  OBVIOUS
<1> USE DEF Labels
<1>0. /\ disk \in Cache \union {Torn} /\ (disk # Torn => Keeps(issues, disk))
      /\ stored \in [Profiles -> Clients]
      /\ live \in SUBSET Tokens /\ expired \in SUBSET Tokens /\ forgone \in SUBSET Tokens
      /\ \A p \in Procs : mem[p] \in Memory /\ Keeps(issues, mem[p].cache) /\ RequestOK(issues, pc[p], mem[p])
  BY DEF IInv, TypeOK
<1>same. ASSUME issues' = issues, disk' = disk PROVE disk' # Torn => Keeps(issues', disk')
  BY <1>0, <1>same DEF Keeps, IssuedFor
<1>1. ASSUME NEW p \in Procs, Start(p) PROVE IInv'
  <2> DEFINE m == [mem[p] EXCEPT !.cache = ReadCache, !.creds = stored]
  <2>1. m \in Memory /\ m.cache = ReadCache /\ m.got = mem[p].got
    BY <1>0, EmptyKeeps DEF Memory, ReadCache
  <2>2. Keeps(issues, ReadCache) /\ mem[p].got = None
    BY <1>0, <1>1, EmptyKeeps DEF Start, ReadCache, RequestOK
  <2>3. mem' = [mem EXCEPT ![p] = m] /\ Goto(p, "ready") /\ UNCHANGED <<disk, stored, issues, live, expired, forgone>>
    BY <1>1 DEF Start
  <2> HIDE DEF m
  <2>4. Keeps(issues', m.cache) /\ RequestOK(issues', "ready", m)
    BY <2>1, <2>2, <2>3 DEF Keeps, IssuedFor, RequestOK
  <2>5. QED
    BY <1>0, <1>same, <2>1, <2>3, <2>4, LocalStep
<1>2. ASSUME NEW p \in Procs, NEW n \in Profiles \union {NoProfile}, NEW c \in Clients, OnRequest(p, n, c)
      PROVE  IInv'
  <2> DEFINE m == [mem[p] EXCEPT !.profile = n, !.client = c]
             label == FirstStep(m)
  <2>1. m \in Memory /\ m.cache = mem[p].cache /\ m.got = mem[p].got /\ m.profile = n /\ m.client = c
    BY <1>0 DEF Memory
  <2>2. mem' = [mem EXCEPT ![p] = m] /\ Goto(p, label) /\ UNCHANGED <<disk, stored, issues, live, expired, forgone>>
    BY <1>2 DEF OnRequest
  <2> HIDE DEF m
  <2>3. label \in {"send", "refresh", "login"} /\ (label = "send" => MyBucket(m).token # None)
    BY DEF FirstStep, Reusable
  <2>4. Keeps(issues, m.cache) /\ Keeps(issues', m.cache)
    BY <1>0, <2>1, <2>2, KeepsStays
  <2>5. RequestOK(issues, label, m)
    BY <2>1, <2>3, <2>4, MyBucketFacts DEF RequestOK, Held, Bucket
  <2>6. RequestOK(issues', label, m)
    BY <2>2, <2>5, RequestStays
  <2> HIDE DEF label
  <2>7. QED
    BY <1>0, <1>same, <2>1, <2>2, <2>3, <2>4, <2>6, LocalStep
<1>got. ASSUME NEW p \in Procs, NEW withRefresh \in BOOLEAN, NEW repeats \in BOOLEAN,
               Issued(mem[p], withRefresh, repeats),
               mem' = [mem EXCEPT ![p].got = NewToken], Goto(p, "store"), disk' = disk, stored' = stored,
               live' \in SUBSET Tokens, expired' = expired, forgone' = forgone
        PROVE  IInv'
  <2> DEFINE m == [mem[p] EXCEPT !.got = NewToken]
  <2>1. /\ Len(issues) < MaxIssues /\ \E i \in Issue : issues' = Append(issues, i)
        /\ NewToken \in Tokens /\ IssuedFor(issues', NewToken, mem[p].profile, mem[p].client)
    BY <1>0, <1>got, IssuedFacts
  <2>2. NewToken # None
    BY <2>1, BoundsAssumption DEF Tokens, None
  <2>3. m \in Memory /\ m.cache = mem[p].cache /\ m.got = NewToken
        /\ m.profile = mem[p].profile /\ m.client = mem[p].client
    BY <1>0, <2>1 DEF Memory
  <2>4. mem' = [mem EXCEPT ![p] = m]
    BY <1>got
  <2> HIDE DEF m
  <2>5. Keeps(issues', m.cache)
    BY <1>0, <2>1, <2>3, KeepsStays
  <2>6. RequestOK(issues', "store", m)
    <3> DEFINE t == NewToken
    <3>1. IssuedFor(issues', t, mem[p].profile, mem[p].client)
      BY <2>1
    <3>2. QED
      BY <2>1, <2>2, <2>3 DEF RequestOK, IssuedFor
  <2>7. disk' # Torn => Keeps(issues', disk')
    BY <1>0, <1>got, <2>1, KeepsStays
  <2>8. QED
    BY <1>0, <1>got, <2>1, <2>3, <2>4, <2>5, <2>6, <2>7, LocalStep
<1>move. ASSUME NEW p \in Procs, mem' = mem, Goto(p, "login"), disk' = disk, stored' = stored,
                issues' = issues \/ (Len(issues) < MaxIssues /\ \E i \in Issue : issues' = Append(issues, i)),
                live' \in SUBSET Tokens, expired' = expired, forgone' \in SUBSET Tokens
         PROVE  IInv'
  <2> DEFINE m == mem[p]
  <2>1. m \in Memory /\ mem' = [mem EXCEPT ![p] = m]
    BY <1>0, <1>move DEF IInv, TypeOK
  <2>2. Keeps(issues', m.cache)
    BY <1>0, <1>move, KeepsStays DEF Keeps
  <2>3. RequestOK(issues', "login", m) /\ (disk' # Torn => Keeps(issues', disk'))
    BY <1>0, <1>move, KeepsStays DEF RequestOK
  <2> HIDE DEF m
  <2>4. QED
    BY <1>0, <1>move, <2>1, <2>2, <2>3, LocalStep
<1>3. ASSUME NEW p \in Procs, Refresh(p) PROVE IInv'
  <2> DEFINE m == mem[p]
             r == MyBucket(m).refresh
  <2>1. m \in Memory /\ r \in Tokens \union {None}
    BY <1>0, MyBucketFacts DEF Bucket
  <2>2. ASSUME NEW answer \in Answers, Exchanged(m, r, answer)
        PROVE  /\ Issued(m, answer.rotates, answer.repeats)
               /\ answer.rotates \in BOOLEAN /\ answer.repeats \in BOOLEAN
               /\ live' \in SUBSET Tokens /\ NewToken \in Tokens
               /\ Len(issues) < MaxIssues /\ \E i \in Issue : issues' = Append(issues, i)
    <3>1. /\ Issued(m, answer.rotates, answer.repeats)
          /\ answer.rotates \in BOOLEAN /\ answer.repeats \in BOOLEAN
      BY <2>2, BoundsAssumption DEF Exchanged
    <3>2. /\ NewToken \in Tokens
          /\ Len(issues) < MaxIssues /\ \E i \in Issue : issues' = Append(issues, i)
      BY <2>1, <3>1, IssuedFacts, BoundsAssumption
    <3>3. QED
      BY <1>0, <2>2, <3>1, <3>2 DEF Exchanged
  <2>3. CASE /\ \E answer \in Answers : Exchanged(m, r, answer)
             /\ mem' = [mem EXCEPT ![p].got = NewToken]
             /\ Goto(p, "store") /\ UNCHANGED forgone
    <3>1. UNCHANGED <<disk, stored, expired>>
      BY <1>3 DEF Refresh
    <3>2. QED
      BY <1>got, <2>2, <2>3, <3>1, BoundsAssumption
  <2>4. CASE Goto(p, "login") /\ UNCHANGED <<mem, issues, live>>
    <3>1. UNCHANGED <<disk, stored, expired>> /\ forgone' \in SUBSET Tokens
      <4>1. r \in live => r \in Tokens
        BY <1>0
      <4>2. CASE forgone' = IF r \in live /\ issues[r].client = m.client THEN forgone \union {r} ELSE forgone
        BY <1>0, <1>3, <4>1, <4>2 DEF Refresh
      <4>3. CASE r \in live /\ NewToken \in Tokens /\ forgone' = forgone \union {r, NewToken}
        BY <1>0, <1>3, <4>3 DEF Refresh
      <4>4. CASE forgone' = forgone
        BY <1>0, <1>3, <4>4 DEF Refresh
      <4>5. QED
        BY <1>3, <2>2, <4>2, <4>3, <4>4 DEF Refresh
    <3>2. QED
      BY <1>0, <1>move, <2>4, <3>1
  <2>5. CASE /\ r \in live /\ \E answer \in Answers : Exchanged(m, r, answer)
             /\ Goto(p, "login")
             /\ forgone' = forgone \union {r, NewToken} /\ UNCHANGED mem
    <3>1. UNCHANGED <<disk, stored, expired>> /\ forgone' \in SUBSET Tokens
      BY <1>0, <1>3, <2>2, <2>5 DEF Refresh
    <3>2. QED
      BY <1>move, <2>2, <2>5, <3>1
  <2>6. QED
    BY <1>3, <2>3, <2>4, <2>5 DEF Refresh
<1>4. ASSUME NEW p \in Procs, Login(p) PROVE IInv'
  <2>0. UNCHANGED <<disk, stored, expired, forgone>>
    BY <1>4 DEF Login
  <2>1. CASE EndRequest(p, mem[p]) /\ UNCHANGED <<issues, live>>
    BY <1>0, <2>0, <2>1, EndStep
  <2>2. ASSUME NEW withRefresh \in BOOLEAN, Issued(mem[p], withRefresh, FALSE),
               live' = (IF withRefresh THEN live \union {NewToken} ELSE live),
               mem' = [mem EXCEPT ![p].got = NewToken], Goto(p, "store")
        PROVE  IInv'
    <3>1. NewToken \in Tokens
      BY <1>0, <2>2, IssuedFacts
    <3>2. live' \in SUBSET Tokens
      BY <1>0, <2>2, <3>1
    <3>3. QED
      BY <1>got, <2>0, <2>2, <3>2
  <2>3. QED
    BY <1>4, <2>1, <2>2 DEF Login
<1>5. ASSUME NEW p \in Procs, StoreToken(p) PROVE IInv'
  <2>1. /\ mem[p] \in Memory /\ Keeps(issues, mem[p].cache) /\ mem[p].got \in Tokens
        /\ IssuedFor(issues, mem[p].got, mem[p].profile, mem[p].client)
        /\ UNCHANGED <<stored, issues, live, expired, forgone>>
    BY <1>0, <1>5 DEF StoreToken, RequestOK, Memory
  <2>2. CASE disk' = disk /\ EndRequest(p, Stored(mem[p], TRUE))
    BY <2>1, <2>2, StoredFacts, EndStep
  <2>3. CASE disk' = Torn /\ mem' = [mem EXCEPT ![p] = Stored(mem[p], FALSE)] /\ Goto(p, "write")
    <3> DEFINE m == Stored(mem[p], FALSE)
    <3>1. m \in Memory /\ Keeps(issues, m.cache) /\ MyBucket(m).token = mem[p].got
      BY <2>1, StoredFacts
    <3>2. m.profile = mem[p].profile /\ m.client = mem[p].client
      BY <2>1 DEF Stored, Memory
    <3>3. mem' = [mem EXCEPT ![p] = m]
      BY <2>3
    <3> HIDE DEF m
    <3>4. RequestOK(issues, "write", m)
      BY <2>1, <3>1, <3>2 DEF RequestOK
    <3>5. RequestOK(issues', "write", m) /\ Keeps(issues', m.cache)
      BY <2>1, <3>1, <3>4, RequestStays, KeepsStays
    <3>6. QED
      BY <1>0, <2>1, <2>3, <3>1, <3>3, <3>5, LocalStep
  <2>4. CASE SameAccess(mem[p]) /\ Goto(p, "send") /\ UNCHANGED <<disk, mem>>
    <3> DEFINE m == mem[p]
    <3>1. RequestOK(issues, "send", m)
      <4>1. MyBucket(m).token \in Held(MyBucket(m))
        BY <2>4 DEF SameAccess, Held
      <4>2. QED
        BY <2>1, <4>1, MyBucketFacts DEF RequestOK
    <3>2. RequestOK(issues', "send", m) /\ Keeps(issues', m.cache) /\ (disk' # Torn => Keeps(issues', disk'))
      BY <1>same, <2>1, <2>4, <3>1, RequestStays, KeepsStays
    <3>3. mem' = [mem EXCEPT ![p] = m]
      BY <2>4 DEF IInv, TypeOK
    <3>4. disk' \in Cache \union {Torn}
      BY <1>0, <2>4
    <3> HIDE DEF m
    <3>5. m \in Memory
      BY <2>1 DEF m
    <3>6. QED
      BY <1>0, <2>1, <2>4, <3>2, <3>3, <3>4, <3>5, LocalStep
  <2>5. QED
    BY <1>5, <2>2, <2>3, <2>4 DEF StoreToken
<1>6. ASSUME NEW p \in Procs, FinishWrite(p) PROVE IInv'
  <2> DEFINE m == mem[p]
             failed == [m EXCEPT !.unsaved = TRUE]
  <2>0. CASE disk' \in {disk, Torn} /\ EndRequest(p, failed)
    <3>1. failed \in Memory /\ failed.cache = m.cache
      BY <1>0 DEF Memory
    <3>2. Keeps(issues, failed.cache)
      BY <1>0, <3>1
    <3> HIDE DEF failed
    <3>3. QED
      BY <1>6, <2>0, <3>1, <3>2, EndStep DEF FinishWrite
  <2> SUFFICES ASSUME disk' = WrittenTree(p), Goto(p, "send"), mem' = mem
               PROVE  IInv'
    BY <1>6, <2>0 DEF FinishWrite
  <2> HIDE DEF failed
  <2>1. /\ disk' = m.cache /\ mem' = [mem EXCEPT ![p] = m] /\ Goto(p, "send")
        /\ UNCHANGED <<stored, issues, live, expired, forgone>> /\ pc[p] = "write"
        /\ mem' = mem
    BY <1>0, <1>6 DEF FinishWrite, WrittenTree, IInv, TypeOK
  <2>2. m \in Memory /\ Keeps(issues, m.cache) /\ RequestOK(issues, "send", m)
    BY <1>0, <2>1 DEF RequestOK
  <2>3. Keeps(issues', disk') /\ disk' \in Cache
    BY <2>1, <2>2 DEF Keeps, IssuedFor, Memory
  <2>4. Keeps(issues', m.cache) /\ RequestOK(issues', "send", m)
    BY <2>1, <2>2 DEF Keeps, IssuedFor, RequestOK, MyBucket, MyScope, Scope
  <2> HIDE DEF m
  <2>5. QED
    BY <1>0, <2>1, <2>2, <2>3, <2>4, LocalStep
<1>7. ASSUME NEW p \in Procs, Send(p) PROVE IInv'
  BY <1>0, <1>7, EndStep DEF Send
<1>8. ASSUME NEW p \in Procs, Stop(p) PROVE IInv'
  <2>1. DiesWith(p) \in SUBSET Tokens
    <3>1. pc[p] = "store" => mem[p].got \in Tokens
      BY <1>0 DEF RequestOK, Memory
    <3>2. QED
      BY <1>0, <3>1 DEF DiesWith
  <2>2. /\ mem' = [mem EXCEPT ![p] = Blank] /\ Goto(p, "down")
        /\ forgone' \in SUBSET Tokens /\ UNCHANGED <<disk, stored, issues, live, expired>>
    BY <1>0, <1>8, <2>1 DEF Stop
  <2> DEFINE m == Blank
  <2>3. m \in Memory /\ Keeps(issues, m.cache) /\ RequestOK(issues, "down", m) /\ mem' = [mem EXCEPT ![p] = m]
    BY <2>2, BlankOK
  <2> HIDE DEF m
  <2>4. Keeps(issues', m.cache) /\ RequestOK(issues', "down", m)
    BY <2>2, <2>3, KeepsStays, RequestStays
  <2>5. QED
    BY <1>0, <1>same, <2>2, <2>3, <2>4, LocalStep
<1>9. ASSUME UNCHANGED <<disk, pc, mem, issues, live, forgone>>,
             stored' \in [Profiles -> Clients], expired' \in SUBSET Tokens
      PROVE  IInv'
  <2>1. TypeOK'
    BY <1>9 DEF IInv, TypeOK
  <2>2. ASSUME NEW p \in Procs
        PROVE  Keeps(issues', mem'[p].cache) /\ RequestOK(issues', pc'[p], mem'[p])
    <3>1. mem'[p] = mem[p] /\ pc'[p] = pc[p]
      BY <1>9
    <3>2. Keeps(issues, mem[p].cache) /\ RequestOK(issues, pc[p], mem[p])
      BY <1>0
    <3>3. QED
      BY <1>9, <3>1, <3>2, KeepsStays, RequestStays
  <2>3. disk' # Torn => Keeps(issues', disk')
    BY <1>9, <1>same
  <2>4. QED
    BY <2>1, <2>2, <2>3 DEF IInv
<1>10. ASSUME NEW t \in Tokens, Expire(t) PROVE IInv'
  BY <1>0, <1>9, <1>10 DEF Expire
<1>11. ASSUME NEW n \in Profiles, NEW c \in Clients, EditProfile(n, c) PROVE IInv'
  BY <1>0, <1>9, <1>11 DEF EditProfile
<1>12. CASE UNCHANGED vars
  BY <1>0, <1>9, <1>12 DEF vars
<1>13. QED
  BY <1>1, <1>2, <1>3, <1>4, <1>5, <1>6, <1>7, <1>8, <1>10, <1>11, <1>12 DEF Next, Step

(***************************************************************************)
(* The cache file, the copies of it and the requests in hand stay well     *)
(* formed, whatever the processes and the authorization server do.         *)
(***************************************************************************)
THEOREM CacheTypeCorrect == Spec => []TypeOK
<1>1. IInv => TypeOK
  BY DEF IInv
<1>2. QED
  BY InitIInv, NextIInv, <1>1, PTL DEF Spec

(***************************************************************************)
(* Whatever overlaps, fails or dies, a token is only ever in the bucket it *)
(* was issued for, and a request carries a token of its own profile or     *)
(* client.                                                                 *)
(***************************************************************************)
THEOREM TokensAlwaysInTheirBucket == Spec => []TokensStayInTheirBucket
<1>1. IInv => TokensStayInTheirBucket
  BY DEF IInv, TokensStayInTheirBucket, RequestOK
<1>2. QED
  BY InitIInv, NextIInv, <1>1, PTL DEF Spec

-----------------------------------------------------------------------------
(***************************************************************************)
(* Nobody is sent to the browser while a refresh token works: with one     *)
(* process at a time, what the newest refresh token of each bucket is can  *)
(* be told at every label from the memory of the process, and while none   *)
(* runs, from the file.                                                    *)
(***************************************************************************)

OneProcess == \A p, q \in Procs : p = q

\* No answer of the server replaces the refresh token and repeats the access token.
NeverBoth == \A answer \in Answers : ~(answer.rotates /\ answer.repeats)

\* An issue that repeats the access token brought no refresh token.
RepeatsBringNone == \A t \in 1 .. Len(issues) : issues[t].repeats => ~issues[t].refresh

\* The refresh tokens that work and that no failure took away.
Accepted == live \ forgone

\* NewestRefresh, in a given log of issues.
NewestIn(log, r, n, c) ==
  /\ r \in 1 .. Len(log) /\ log[r].refresh /\ IssuedFor(log, r, n, c)
  /\ \A t \in r + 1 .. Len(log) : ~(log[t].refresh /\ IssuedFor(log, t, n, c))

\* A newest refresh token that works is the one in its bucket.
Remembers(log, working, cache) ==
  \A n \in Profiles \union {NoProfile}, c \in Clients : \A r \in working :
    NewestIn(log, r, n, c) => cache[Scope(n, c)].refresh = r

\* The cache of a process once it has put the token it got into it.
StoredIn(log, m) ==
  [m.cache EXCEPT ![MyScope(m)] =
    [token |-> m.got, refresh |-> IF log[m.got].refresh THEN m.got ELSE MyBucket(m).refresh]]

\* What holds the tokens at each label; file is what a start would read.
Knows(label, m, log, working, file) ==
  /\ label = "down" => Remembers(log, working, file)
  /\ label \notin {"down", "store"} => Remembers(log, working, m.cache)
  /\ label = "store" => Remembers(log, working, StoredIn(log, m))
  /\ label \notin {"down", "write"} /\ ~m.unsaved => file = m.cache
  /\ label = "login" /\ m.client \notin Confidential =>
       \A r \in working : NewestIn(log, r, m.profile, m.client) => log[r].client # m.client

RefreshInv == \A p \in Procs : Knows(pc[p], mem[p], issues, Accepted, ReadCache)

LEMMA NewestIsNewest ==
  ASSUME NEW r, NEW n, NEW c
  PROVE  NewestRefresh(r, n, c) <=> NewestIn(issues, r, n, c)
BY DEF NewestRefresh, NewestIn, IssuedFor

LEMMA RemembersFewer ==
  ASSUME NEW log, NEW working, NEW fewer, fewer \subseteq working, NEW cache,
         Remembers(log, working, cache)
  PROVE  Remembers(log, fewer, cache)
BY DEF Remembers

\* What was the newest before is the newest still, if it still is one.
LEMMA NewestBefore ==
  ASSUME NEW log \in Seq(Issue), NEW i \in Issue, NEW r, NEW n, NEW c,
         NewestIn(Append(log, i), r, n, c)
  PROVE  /\ r = Len(log) + 1 \/ NewestIn(log, r, n, c)
         /\ r \in 1 .. Len(log) + 1
         /\ r # Len(log) + 1 => ~(i.refresh /\ i.profile = n /\ (n = NoProfile => i.client = c))
         /\ r = Len(log) + 1 => i.profile = n /\ (n = NoProfile => i.client = c) /\ i.refresh
<1> DEFINE longer == Append(log, i)
           k == Len(log) + 1
<1>1. /\ Len(log) \in Nat /\ Len(longer) = k /\ longer[k] = i
      /\ \A j \in 1 .. Len(log) : longer[j] = log[j]
  BY AppendProperties, LenProperties
<1> HIDE DEF longer
<1>2. NewestIn(longer, r, n, c)
  BY DEF longer
<1>3. r \in 1 .. k /\ k \in 1 .. k
  BY <1>1, <1>2 DEF NewestIn
<1>4. CASE r = k
  BY <1>1, <1>2, <1>3, <1>4 DEF NewestIn, IssuedFor
<1>5. CASE r # k
  <2>1. r \in 1 .. Len(log) /\ longer[r] = log[r] /\ k \in r + 1 .. k
    BY <1>1, <1>3, <1>5
  <2>2. ~(longer[k].refresh /\ IssuedFor(longer, k, n, c))
    BY <1>1, <1>2, <2>1 DEF NewestIn
  <2>3. ~(i.refresh /\ i.profile = n /\ (n = NoProfile => i.client = c))
    BY <1>1, <1>3, <2>2 DEF IssuedFor
  <2>4. log[r].refresh /\ IssuedFor(log, r, n, c)
    BY <1>1, <1>2, <2>1 DEF NewestIn, IssuedFor
  <2>5. ASSUME NEW t \in r + 1 .. Len(log) PROVE ~(log[t].refresh /\ IssuedFor(log, t, n, c))
    <3>1. t \in 1 .. Len(log) /\ t \in r + 1 .. Len(longer) /\ longer[t] = log[t]
      BY <1>1, <2>1
    <3>2. ~(longer[t].refresh /\ IssuedFor(longer, t, n, c))
      BY <1>2, <3>1 DEF NewestIn
    <3>3. QED
      BY <1>1, <3>1, <3>2 DEF IssuedFor
  <2>6. QED
    BY <1>5, <2>1, <2>3, <2>4, <2>5 DEF NewestIn
<1>6. QED
  BY <1>4, <1>5, <1>3

\* A new token leaves the other buckets to the tokens they hold.
LEMMA LostIssue ==
  ASSUME NEW log \in Seq(Issue), NEW i \in Issue, NEW cache,
         NEW working, Remembers(log, working, cache),
         NEW fewer, fewer \subseteq working, Len(log) + 1 \notin fewer
  PROVE  Remembers(Append(log, i), fewer, cache)
<1> SUFFICES ASSUME NEW n \in Profiles \union {NoProfile}, NEW c \in Clients, NEW r \in fewer,
                    NewestIn(Append(log, i), r, n, c)
             PROVE  cache[Scope(n, c)].refresh = r
  BY DEF Remembers
<1>1. NewestIn(log, r, n, c)
  BY NewestBefore
<1>2. QED
  BY <1>1 DEF Remembers

\* A token that was issued for the request and put into its bucket.
LEMMA StoredIssue ==
  ASSUME NEW log \in Seq(Issue), NEW m \in Memory, NEW i \in Issue,
         i.client = m.client, i.profile = m.profile, m.got = Len(log) + 1,
         NEW working, NEW more, more \subseteq working \union {Len(log) + 1},
         Remembers(log, working, m.cache)
  PROVE  Remembers(Append(log, i), more, StoredIn(Append(log, i), m))
<1> DEFINE longer == Append(log, i)
           k == Len(log) + 1
           s == MyScope(m)
           b == [token |-> m.got, refresh |-> IF longer[m.got].refresh THEN m.got ELSE MyBucket(m).refresh]
<1>1. longer[k] = i /\ i.refresh \in BOOLEAN /\ Len(log) \in Nat
  BY AppendProperties, LenProperties DEF Issue
<1>2. b.refresh = IF i.refresh THEN k ELSE m.cache[s].refresh
  BY <1>1 DEF MyBucket
<1>3. m.cache \in [Scopes -> Bucket] /\ s \in Scopes
      /\ m.profile \in Profiles \union {NoProfile} /\ m.client \in Clients
  BY ScopeInScopes DEF Memory, Cache
<1>4. StoredIn(longer, m) = [m.cache EXCEPT ![s] = b]
  BY DEF StoredIn
<1> HIDE DEF b
<1>5. ASSUME NEW n \in Profiles \union {NoProfile}, NEW c \in Clients, NEW r \in more,
             NewestIn(Append(log, i), r, n, c)
      PROVE  StoredIn(longer, m)[Scope(n, c)].refresh = r
  <2>1. Scope(n, c) \in Scopes
        /\ (Scope(n, c) = s <=> n = m.profile /\ (n = NoProfile => c = m.client))
    <3> DEFINE pr == m.profile
               cl == m.client
    <3>1. pr \in Profiles \union {NoProfile} /\ cl \in Clients /\ s = Scope(pr, cl)
      BY <1>3 DEF MyScope
    <3> HIDE DEF pr, cl, s
    <3>2. /\ Scope(n, c) \in Scopes
          /\ Scope(n, c) = Scope(pr, cl) <=> n = pr /\ (n = NoProfile => c = cl)
      BY <1>5, <3>1, ClientsAssumption DEF Scope, Scopes
    <3>3. QED
      BY <3>1, <3>2 DEF pr, cl
  <2>2. CASE r = k
    <3>1. n = m.profile /\ (n = NoProfile => c = m.client) /\ i.refresh
      BY <1>5, <2>2, NewestBefore
    <3>2. QED
      BY <1>2, <1>3, <1>4, <2>1, <2>2, <3>1
  <2>3. CASE r # k
    <3>1. NewestIn(log, r, n, c) /\ ~(i.refresh /\ n = m.profile /\ (n = NoProfile => c = m.client))
      BY <1>5, <2>3, NewestBefore
    <3>2. r \in working
      BY <1>5, <2>3
    <3>3. m.cache[Scope(n, c)].refresh = r
      BY <3>1, <3>2 DEF Remembers
    <3>4. CASE Scope(n, c) = s
      BY <1>2, <1>3, <1>4, <2>1, <3>1, <3>3, <3>4
    <3>5. CASE Scope(n, c) # s
      BY <1>3, <1>4, <2>1, <3>3, <3>5
    <3>6. QED
      BY <3>4, <3>5
  <2>4. QED
    BY <2>2, <2>3
<1>6. QED
  BY <1>5 DEF Remembers

\* Storing changes no refresh token but to the new one.
LEMMA StoredRefresh ==
  ASSUME NEW log, NEW m \in Memory, NEW s \in Scopes
  PROVE  StoredIn(log, m)[s].refresh \in {m.got, m.cache[s].refresh}
<1> DEFINE b == [token |-> m.got, refresh |-> IF log[m.got].refresh THEN m.got ELSE MyBucket(m).refresh]
<1>1. b.refresh \in {m.got, m.cache[MyScope(m)].refresh}
  BY DEF MyBucket
<1> HIDE DEF b
<1>2. StoredIn(log, m) = [m.cache EXCEPT ![MyScope(m)] = b] /\ m.cache \in [Scopes -> Bucket]
  BY DEF StoredIn, b, Memory, Cache
<1>3. QED
  BY <1>1, <1>2

LEMMA StoredNothing ==
  ASSUME NEW log, NEW m \in Memory, ~log[m.got].refresh, NEW s \in Scopes
  PROVE  StoredIn(log, m)[s].refresh = m.cache[s].refresh
<1> DEFINE b == [token |-> m.got, refresh |-> IF log[m.got].refresh THEN m.got ELSE MyBucket(m).refresh]
<1>1. b.refresh = m.cache[MyScope(m)].refresh
  BY DEF MyBucket
<1> HIDE DEF b
<1>2. StoredIn(log, m) = [m.cache EXCEPT ![MyScope(m)] = b] /\ m.cache \in [Scopes -> Bucket]
  BY DEF StoredIn, b, Memory, Cache
<1>3. QED
  BY <1>1, <1>2

LEMMA StoredCache ==
  ASSUME NEW m \in Memory, NEW unsaved \in BOOLEAN
  PROVE  /\ Stored(m, unsaved).cache = StoredIn(issues, m)
         /\ Stored(m, unsaved).unsaved = unsaved
         /\ Stored(m, unsaved).profile = m.profile /\ Stored(m, unsaved).client = m.client
<1> DEFINE cache == StoredIn(issues, m)
<1>1. Stored(m, unsaved) = [m EXCEPT !.cache = cache, !.unsaved = unsaved]
  BY DEF Stored, StoredIn, BucketWith, Memory
<1> HIDE DEF cache
<1>2. QED
  BY <1>1 DEF Memory, cache

LEMMA InitKnows == Init => RefreshInv
<1> SUFFICES ASSUME Init, NEW p \in Procs PROVE Knows(pc[p], mem[p], issues, Accepted, ReadCache)
  BY DEF RefreshInv
<1>1. pc[p] = "down" /\ Accepted = {}
  BY DEF Init, Accepted
<1>2. QED
  BY <1>1 DEF Knows, Remembers

\* What one process did, when there is no other.
LEMMA OneStep ==
  ASSUME IInv, OneProcess, NEW p \in Procs, NEW m, NEW label,
         mem' = [mem EXCEPT ![p] = m], Goto(p, label),
         Knows(label, m, issues', Accepted', ReadCache')
  PROVE  RefreshInv'
<1>1. mem'[p] = m /\ pc'[p] = label
  BY DEF IInv, TypeOK, Goto
<1>2. QED
  BY <1>1 DEF OneProcess, RefreshInv

\* The end of a request changes neither the cache nor what the server accepts.
LEMMA EndKnows ==
  ASSUME IInv, OneProcess, NEW p \in Procs, NEW m \in Memory, EndRequest(p, m),
         disk' = disk, issues' = issues, live' = live, forgone' = forgone,
         Remembers(issues, Accepted, m.cache), ~m.unsaved => ReadCache = m.cache
  PROVE  RefreshInv'
<1> DEFINE k == [m EXCEPT !.profile = NoProfile, !.client = SomeClient, !.got = None]
<1>1. k.cache = m.cache /\ k.unsaved = m.unsaved
  BY DEF Memory
<1>2. mem' = [mem EXCEPT ![p] = k] /\ Goto(p, "ready")
  BY DEF EndRequest
<1> HIDE DEF k
<1>3. Accepted' = Accepted /\ ReadCache' = ReadCache
  BY DEF Accepted, ReadCache
<1>4. Knows("ready", k, issues', Accepted', ReadCache')
  BY <1>1, <1>3 DEF Knows
<1>5. QED
  BY <1>2, <1>4, OneStep

\* A request that failed to write its cache: the process remembers what the
\* file lost.
LEMMA FailedKnows ==
  ASSUME IInv, OneProcess, NEW p \in Procs, NEW m \in Memory, EndRequest(p, m), m.unsaved = TRUE,
         UNCHANGED <<issues, live, forgone>>, Remembers(issues, Accepted, m.cache)
  PROVE  RefreshInv'
<1> DEFINE k == [m EXCEPT !.profile = NoProfile, !.client = SomeClient, !.got = None]
<1>1. k.cache = m.cache /\ k.unsaved = TRUE
  BY DEF Memory
<1>2. mem' = [mem EXCEPT ![p] = k] /\ Goto(p, "ready")
  BY DEF EndRequest
<1> HIDE DEF k
<1>3. Accepted' = Accepted
  BY DEF Accepted
<1>4. Knows("ready", k, issues', Accepted', ReadCache')
  BY <1>1, <1>3 DEF Knows
<1>5. QED
  BY <1>2, <1>4, OneStep

\* What is appended to the log keeps what holds of each issue.
LEMMA NextRepeats == IInv /\ NeverBoth /\ RepeatsBringNone /\ [Next]_vars => RepeatsBringNone'
<1> SUFFICES ASSUME IInv, NeverBoth, RepeatsBringNone, [Next]_vars PROVE RepeatsBringNone'
  OBVIOUS
<1>1. issues \in Seq(Issue) /\ \A p \in Procs : mem[p] \in Memory
  BY DEF IInv, TypeOK
<1>2. ASSUME NEW p \in Procs, NEW w \in BOOLEAN, NEW repeats \in BOOLEAN, ~(w /\ repeats),
             Issued(mem[p], w, repeats)
      PROVE  RepeatsBringNone'
  <2> DEFINE i == [client |-> mem[p].client, profile |-> mem[p].profile, refresh |-> w, repeats |-> repeats]
  <2>1. i \in Issue /\ issues' = Append(issues, i) /\ ~(i.refresh /\ i.repeats)
    BY <1>1, <1>2 DEF Issued, Issue, Memory
  <2> HIDE DEF i
  <2>2. /\ Len(issues') = Len(issues) + 1 /\ issues'[Len(issues) + 1] = i
        /\ \A k \in 1 .. Len(issues) : issues'[k] = issues[k]
    BY <1>1, <2>1, AppendProperties
  <2>3. Len(issues) \in Nat
    BY <1>1, LenProperties
  <2>4. QED
    BY <2>1, <2>2, <2>3 DEF RepeatsBringNone
<1>3. CASE issues' = issues
  BY <1>3 DEF RepeatsBringNone
<1>4. ASSUME NEW p \in Procs, NEW answer \in Answers, NEW r, Exchanged(mem[p], r, answer)
      PROVE  RepeatsBringNone'
  BY <1>2, <1>4, BoundsAssumption DEF Exchanged, NeverBoth
<1>5. ASSUME NEW p \in Procs, Refresh(p) PROVE RepeatsBringNone'
  BY <1>3, <1>4, <1>5 DEF Refresh
<1>6. ASSUME NEW p \in Procs, Login(p) PROVE RepeatsBringNone'
  BY <1>2, <1>3, <1>6 DEF Login
<1>7. ASSUME NEW p \in Procs, Step(p) PROVE RepeatsBringNone'
  BY <1>3, <1>5, <1>6, <1>7 DEF Step, Start, OnRequest, StoreToken, FinishWrite, Send, Stop
<1>8. QED
  BY <1>3, <1>7 DEF Next, Expire, EditProfile, vars

LEMMA NextKnows ==
  IInv /\ OneProcess /\ RepeatsBringNone /\ RefreshInv /\ [Next]_vars => RefreshInv'
<1> SUFFICES ASSUME IInv, OneProcess, RepeatsBringNone, RefreshInv, [Next]_vars PROVE RefreshInv'
  OBVIOUS
<1>0. /\ disk \in Cache \union {Torn} /\ issues \in Seq(Issue) /\ Len(issues) \in Nat
      /\ live \subseteq Tokens
      /\ \A p \in Procs : /\ mem[p] \in Memory
                          /\ Knows(pc[p], mem[p], issues, Accepted, ReadCache)
  BY DEF IInv, TypeOK, RefreshInv
\* The token in hand is new, and the request still holds all it held.
<1>got. ASSUME NEW p \in Procs, NEW w \in BOOLEAN, NEW repeats \in BOOLEAN,
               Issued(mem[p], w, repeats), pc[p] \in {"refresh", "login"},
               mem' = [mem EXCEPT ![p].got = NewToken], Goto(p, "store"), disk' = disk,
               forgone' = forgone, live' \subseteq live \union {NewToken}
        PROVE  RefreshInv'
  <2> DEFINE m == [mem[p] EXCEPT !.got = NewToken]
             i == [client |-> mem[p].client, profile |-> mem[p].profile, refresh |-> w, repeats |-> repeats]
  <2>1. i \in Issue /\ issues' = Append(issues, i) /\ NewToken \in Tokens
    BY <1>0, <1>got, IssuedFacts DEF Issued, Issue, Memory
  <2>2. m \in Memory /\ m.cache = mem[p].cache /\ m.got = NewToken /\ m.unsaved = mem[p].unsaved
        /\ m.profile = mem[p].profile /\ m.client = mem[p].client
    BY <1>0, <2>1 DEF Memory
  <2>3. mem' = [mem EXCEPT ![p] = m]
    BY <1>got
  <2>4. i.client = m.client /\ i.profile = m.profile
    BY <2>2
  <2> HIDE DEF m, i
  <2>5. Remembers(issues, Accepted, m.cache) /\ (~m.unsaved => ReadCache = m.cache)
    BY <1>0, <1>got, <2>2 DEF Knows
  <2>6. Accepted' \subseteq Accepted \union {Len(issues) + 1} /\ ReadCache' = ReadCache
    BY <1>got DEF Accepted, NewToken, ReadCache
  <2>7. Remembers(issues', Accepted', StoredIn(issues', m))
    BY <1>0, <2>1, <2>2, <2>4, <2>5, <2>6, StoredIssue DEF NewToken
  <2>8. Knows("store", m, issues', Accepted', ReadCache')
    BY <2>5, <2>6, <2>7 DEF Knows
  <2>9. QED
    BY <1>got, <2>3, <2>8, OneStep
<1>1. ASSUME NEW p \in Procs, Start(p) PROVE RefreshInv'
  <2> DEFINE m == [mem[p] EXCEPT !.cache = ReadCache, !.creds = stored]
  <2>1. m.cache = ReadCache
    BY <1>0 DEF Memory
  <2>2. mem' = [mem EXCEPT ![p] = m] /\ Goto(p, "ready") /\ pc[p] = "down"
        /\ UNCHANGED <<disk, issues, live, forgone>>
    BY <1>1 DEF Start
  <2> HIDE DEF m
  <2>3. ReadCache' = ReadCache /\ Accepted' = Accepted
    BY <2>2 DEF ReadCache, Accepted
  <2>4. Knows("ready", m, issues', Accepted', ReadCache')
    BY <1>0, <2>1, <2>2, <2>3 DEF Knows
  <2>5. QED
    BY <2>2, <2>4, OneStep
<1>2. ASSUME NEW p \in Procs, NEW n \in Profiles \union {NoProfile}, NEW c \in Clients, OnRequest(p, n, c)
      PROVE  RefreshInv'
  <2> DEFINE m == [mem[p] EXCEPT !.profile = n, !.client = c]
             label == FirstStep(m)
  <2>1. m \in Memory /\ m.cache = mem[p].cache /\ m.unsaved = mem[p].unsaved /\ m.profile = n /\ m.client = c
    BY <1>0 DEF Memory
  <2>2. mem' = [mem EXCEPT ![p] = m] /\ Goto(p, label) /\ pc[p] = "ready"
        /\ UNCHANGED <<disk, issues, live, forgone>>
    BY <1>2 DEF OnRequest
  <2> HIDE DEF m
  <2>3. label \in {"send", "refresh", "login"}
        /\ (label = "login" /\ m.client \notin Confidential => MyBucket(m).refresh = None)
    BY DEF FirstStep
  <2> HIDE DEF label
  <2>4. ReadCache' = ReadCache /\ Accepted' = Accepted /\ issues' = issues
    BY <2>2 DEF ReadCache, Accepted
  <2>5. Remembers(issues, Accepted, m.cache) /\ (~m.unsaved => ReadCache = m.cache)
    BY <1>0, <2>1, <2>2 DEF Knows
  <2>6. ASSUME label = "login", m.client \notin Confidential, NEW r \in Accepted,
               NewestIn(issues, r, m.profile, m.client)
        PROVE  FALSE
    <3>1. m.cache[Scope(n, c)].refresh = r
      BY <2>1, <2>5, <2>6 DEF Remembers
    <3>2. r = None
      BY <2>1, <2>3, <2>6, <3>1 DEF MyBucket, MyScope
    <3>3. QED
      BY <1>0, <2>6, <3>2 DEF NewestIn, None
  <2>7. Knows(label, m, issues', Accepted', ReadCache')
    BY <2>3, <2>4, <2>5, <2>6 DEF Knows
  <2>8. QED
    BY <2>2, <2>7, OneStep
<1>3. ASSUME NEW p \in Procs, Refresh(p) PROVE RefreshInv'
  <2> DEFINE m == mem[p]
             r == MyBucket(m).refresh
             accepted == r \in live /\ issues[r].client = m.client
  <2>0. /\ pc[p] = "refresh" /\ disk' = disk /\ ReadCache' = ReadCache /\ m \in Memory
        /\ Remembers(issues, Accepted, m.cache) /\ (~m.unsaved => ReadCache = m.cache)
    BY <1>0, <1>3 DEF Refresh, ReadCache, Knows
  <2>1. ASSUME NEW q \in Accepted, NewestIn(issues, q, m.profile, m.client) PROVE q = r
    BY <2>0, <2>1 DEF Remembers, MyBucket, MyScope, Memory
  <2>2. ASSUME accepted, NEW answer \in Answers, Exchanged(m, r, answer),
               mem' = [mem EXCEPT ![p].got = NewToken], Goto(p, "store"), UNCHANGED forgone
        PROVE  RefreshInv'
    <3>1. /\ Issued(m, answer.rotates, answer.repeats) /\ live' \subseteq live \union {NewToken}
          /\ answer.rotates \in BOOLEAN /\ answer.repeats \in BOOLEAN
      BY <2>2, BoundsAssumption DEF Exchanged
    <3>2. QED
      BY <1>got, <2>0, <2>2, <3>1
  <2>3. CASE Goto(p, "login") /\ forgone' = (IF accepted THEN forgone \union {r} ELSE forgone)
             /\ UNCHANGED <<mem, issues, live>>
    <3>1. Accepted' \subseteq Accepted /\ (accepted => r \notin Accepted')
      BY <2>3 DEF Accepted
    <3>2. Remembers(issues', Accepted', m.cache)
      BY <2>0, <2>3, <3>1, RemembersFewer
    <3>3. ASSUME NEW q \in Accepted', NewestIn(issues', q, m.profile, m.client)
          PROVE  issues'[q].client # m.client
      <4>1. q = r /\ q \in live
        BY <2>1, <2>3, <3>1, <3>3 DEF Accepted
      <4>2. ~accepted
        BY <3>1, <3>3, <4>1
      <4>3. QED
        BY <2>3, <4>1, <4>2
    <3>4. mem' = [mem EXCEPT ![p] = m]
      BY <2>3 DEF IInv, TypeOK
    <3> HIDE DEF m
    <3>5. Knows("login", m, issues', Accepted', ReadCache')
      BY <2>0, <3>2, <3>3 DEF Knows
    <3>6. QED
      BY <2>3, <3>4, <3>5, OneStep
  <2>4. ASSUME accepted, NEW answer \in Answers, Exchanged(m, r, answer), Goto(p, "login"),
               forgone' = forgone \union {r, NewToken}, UNCHANGED mem
        PROVE  RefreshInv'
    <3> DEFINE i == [client |-> m.client, profile |-> m.profile,
                     refresh |-> answer.rotates, repeats |-> answer.repeats]
               k == Len(issues) + 1
    <3>1. issues' = Append(issues, i) /\ i \in Issue
      BY <2>0, <2>4, BoundsAssumption DEF Exchanged, Issued, Issue, Memory
    <3>2. Accepted' \subseteq Accepted /\ r \notin Accepted' /\ k \notin Accepted'
      <4>1. live' \subseteq live \union {k} /\ forgone' = forgone \union {r, k}
        BY <2>4 DEF Exchanged, NewToken
      <4>2. QED
        BY <4>1 DEF Accepted
    <3> HIDE DEF i
    <3>3. Remembers(issues', Accepted', m.cache)
      BY <1>0, <2>0, <3>1, <3>2, LostIssue
    <3>4. ASSUME NEW q \in Accepted', NewestIn(issues', q, m.profile, m.client) PROVE FALSE
      <4>1. NewestIn(issues, q, m.profile, m.client)
        BY <1>0, <3>1, <3>2, <3>4, NewestBefore
      <4>2. QED
        BY <2>1, <3>2, <3>4, <4>1
    <3>5. mem' = [mem EXCEPT ![p] = m]
      BY <2>4 DEF IInv, TypeOK
    <3> HIDE DEF m
    <3>6. Knows("login", m, issues', Accepted', ReadCache')
      BY <2>0, <3>3, <3>4 DEF Knows
    <3>7. QED
      BY <2>4, <3>5, <3>6, OneStep
  <2>5. QED
    BY <1>3, <2>2, <2>3, <2>4 DEF Refresh
<1>4. ASSUME NEW p \in Procs, Login(p) PROVE RefreshInv'
  <2>1. pc[p] = "login" /\ UNCHANGED <<disk, forgone>>
    BY <1>4 DEF Login
  <2>2. CASE EndRequest(p, mem[p]) /\ UNCHANGED <<issues, live>>
    <3> DEFINE m == mem[p]
    <3>1. m \in Memory /\ Remembers(issues, Accepted, m.cache) /\ (~m.unsaved => ReadCache = m.cache)
      BY <1>0, <2>1 DEF Knows
    <3>2. QED
      BY <2>1, <2>2, <3>1, EndKnows
  <2>3. ASSUME NEW w \in BOOLEAN, Issued(mem[p], w, FALSE),
               live' = (IF w THEN live \union {NewToken} ELSE live),
               mem' = [mem EXCEPT ![p].got = NewToken], Goto(p, "store")
        PROVE  RefreshInv'
    BY <1>got, <2>1, <2>3
  <2>4. QED
    BY <1>4, <2>2, <2>3 DEF Login
<1>5. ASSUME NEW p \in Procs, StoreToken(p) PROVE RefreshInv'
  <2>1. /\ pc[p] = "store" /\ UNCHANGED <<issues, live, forgone>> /\ mem[p] \in Memory
        /\ Accepted' = Accepted /\ Remembers(issues, Accepted, StoredIn(issues, mem[p]))
    BY <1>0, <1>5 DEF StoreToken, Knows, Accepted
  <2>2. mem[p].got \in Tokens /\ IssuedFor(issues, mem[p].got, mem[p].profile, mem[p].client)
        /\ Keeps(issues, mem[p].cache)
    BY <2>1 DEF IInv, RequestOK, Memory
  <2>3. CASE disk' = disk /\ EndRequest(p, Stored(mem[p], TRUE))
    <3> DEFINE m == Stored(mem[p], TRUE)
    <3>1. m \in Memory /\ m.cache = StoredIn(issues, mem[p]) /\ m.unsaved = TRUE
      BY <2>1, <2>2, StoredFacts, StoredCache
    <3>2. EndRequest(p, m)
      BY <2>3
    <3> HIDE DEF m
    <3>3. QED
      BY <2>1, <2>3, <3>1, <3>2, EndKnows
  <2>4. CASE disk' = Torn /\ mem' = [mem EXCEPT ![p] = Stored(mem[p], FALSE)] /\ Goto(p, "write")
    <3> DEFINE m == Stored(mem[p], FALSE)
    <3>1. m.cache = StoredIn(issues, mem[p])
      BY <2>1, StoredCache
    <3>2. mem' = [mem EXCEPT ![p] = m]
      BY <2>4
    <3> HIDE DEF m
    <3>3. Knows("write", m, issues', Accepted', ReadCache')
      BY <2>1, <3>1 DEF Knows
    <3>4. QED
      BY <2>4, <3>2, <3>3, OneStep
  <2>5. CASE SameAccess(mem[p]) /\ Goto(p, "send") /\ UNCHANGED <<disk, mem>>
    <3> DEFINE m == mem[p]
    <3>1. ~issues[m.got].refresh
      BY <2>2, <2>5 DEF SameAccess, RepeatsBringNone, IssuedFor
    <3>2. \A s \in Scopes : StoredIn(issues, m)[s].refresh = m.cache[s].refresh
      BY <2>1, <3>1, StoredNothing
    <3>3. Remembers(issues, Accepted, m.cache)
      BY <2>1, <3>2 DEF Remembers, Scope, Scopes
    <3>4. ~m.unsaved => ReadCache = m.cache
      BY <1>0, <2>1 DEF Knows
    <3>5. ReadCache' = ReadCache /\ mem' = [mem EXCEPT ![p] = m]
      BY <2>5 DEF ReadCache, IInv, TypeOK
    <3> HIDE DEF m
    <3>6. Knows("send", m, issues', Accepted', ReadCache')
      BY <2>1, <3>3, <3>4, <3>5 DEF Knows
    <3>7. QED
      BY <2>5, <3>5, <3>6, OneStep
  <2>6. QED
    BY <1>5, <2>3, <2>4, <2>5 DEF StoreToken
<1>6. ASSUME NEW p \in Procs, FinishWrite(p) PROVE RefreshInv'
  <2> DEFINE m == mem[p]
             failed == [m EXCEPT !.unsaved = TRUE]
  <2>0. CASE EndRequest(p, failed)
    <3>1. failed \in Memory /\ failed.cache = m.cache /\ failed.unsaved = TRUE
      BY <1>0 DEF Memory
    <3>2. Remembers(issues, Accepted, failed.cache) /\ UNCHANGED <<issues, live, forgone>>
      BY <1>0, <1>6, <3>1 DEF FinishWrite, Knows
    <3> HIDE DEF failed
    <3>3. QED
      BY <2>0, <3>1, <3>2, FailedKnows
  <2> SUFFICES ASSUME disk' = WrittenTree(p), Goto(p, "send"), mem' = mem
               PROVE  RefreshInv'
    BY <1>6, <2>0 DEF FinishWrite
  <2> HIDE DEF failed
  <2>1. /\ pc[p] = "write" /\ disk' = m.cache /\ Goto(p, "send") /\ mem' = mem /\ m \in Memory
        /\ UNCHANGED <<issues, live, forgone>> /\ Remembers(issues, Accepted, m.cache)
    BY <1>0, <1>6 DEF FinishWrite, WrittenTree, Knows
  <2>2. mem' = [mem EXCEPT ![p] = m]
    BY <2>1 DEF IInv, TypeOK
  <2>3. ReadCache' = m.cache /\ Accepted' = Accepted
    BY <2>1, TornAssumption DEF ReadCache, Accepted, Memory
  <2> HIDE DEF m
  <2>4. Knows("send", m, issues', Accepted', ReadCache')
    BY <2>1, <2>3 DEF Knows
  <2>5. QED
    BY <2>1, <2>2, <2>4, OneStep
<1>7. ASSUME NEW p \in Procs, Send(p) PROVE RefreshInv'
  <2> DEFINE m == mem[p]
  <2>1. /\ EndRequest(p, m) /\ UNCHANGED <<disk, issues, live, forgone>> /\ m \in Memory
        /\ Remembers(issues, Accepted, m.cache) /\ (~m.unsaved => ReadCache = m.cache)
    BY <1>0, <1>7 DEF Send, Knows
  <2>2. QED
    BY <2>1, EndKnows
<1>8. ASSUME NEW p \in Procs, Stop(p) PROVE RefreshInv'
  <2> DEFINE m == mem[p]
  <2>1. /\ pc[p] # "down" /\ Goto(p, "down") /\ mem' = [mem EXCEPT ![p] = Blank]
        /\ forgone' = forgone \union DiesWith(p) /\ UNCHANGED <<disk, issues, live>>
        /\ m \in Memory /\ ReadCache' = ReadCache /\ Knows(pc[p], m, issues, Accepted, ReadCache)
    BY <1>0, <1>8 DEF Stop, ReadCache
  <2>2. Accepted' = Accepted \ DiesWith(p)
    BY <2>1 DEF Accepted
  <2>3. SUFFICES ASSUME NEW n \in Profiles \union {NoProfile}, NEW c \in Clients, NEW r \in Accepted',
                        NewestIn(issues, r, n, c)
                 PROVE  ReadCache[Scope(n, c)].refresh = r
    <3>1. Remembers(issues', Accepted', ReadCache')
      BY <2>1, <2>3 DEF Remembers
    <3>2. Knows("down", Blank, issues', Accepted', ReadCache')
      BY <3>1 DEF Knows
    <3>3. QED
      BY <2>1, <3>2, OneStep
  <2>4. r \in live /\ r \in Accepted /\ r \notin DiesWith(p) /\ Scope(n, c) \in Scopes
    BY <2>2 DEF Accepted, Scope, Scopes
  <2>5. pc[p] # "write"
    BY <2>4 DEF DiesWith
  <2>6. m.cache[Scope(n, c)].refresh = r
    <3>1. CASE pc[p] = "store"
      <4>1. StoredIn(issues, m)[Scope(n, c)].refresh = r
        BY <2>1, <2>3, <2>4, <3>1 DEF Knows, Remembers
      <4>2. r # m.got
        BY <2>4, <3>1 DEF DiesWith
      <4>3. QED
        BY <2>1, <2>4, <4>1, <4>2, StoredRefresh
    <3>2. CASE pc[p] # "store"
      BY <2>1, <2>3, <2>4, <3>2 DEF Knows, Remembers
    <3>3. QED
      BY <3>1, <3>2
  <2>7. ~m.unsaved
    <3>1. r \in live \intersect Refreshes(m.cache)
      BY <2>4, <2>6 DEF Refreshes
    <3>2. QED
      BY <2>4, <2>5, <3>1 DEF DiesWith
  <2>8. QED
    BY <2>1, <2>5, <2>6, <2>7 DEF Knows
<1>9. ASSUME UNCHANGED <<disk, pc, mem, issues, live, forgone>> PROVE RefreshInv'
  <2>1. ReadCache' = ReadCache /\ Accepted' = Accepted
    BY <1>9 DEF ReadCache, Accepted
  <2>2. QED
    BY <1>9, <2>1 DEF RefreshInv
<1>10. QED
  BY <1>1, <1>2, <1>3, <1>4, <1>5, <1>6, <1>7, <1>8, <1>9
     DEF Next, Step, Expire, EditProfile, vars

(***************************************************************************)
(* If processes do not overlap, whatever fails, is lost or is killed, the  *)
(* program opens a browser only when no refresh token that it was given    *)
(* for this profile or client could have served, if the server's answers   *)
(* never replace the refresh token and repeat the access token at once.    *)
(***************************************************************************)
THEOREM LoginsOnlyWhenNeeded == OneProcess /\ NeverBoth /\ Spec => LoginOnlyWhenNeeded
<1> DEFINE Needed == \A p \in Procs :
             pc[p] = "login" /\ pc'[p] = "store" /\ mem[p].client \notin Confidential =>
               \A r \in live \ forgone :
                 NewestRefresh(r, mem[p].profile, mem[p].client) =>
                   issues[r].client # mem[p].client
           Inv == OneProcess /\ NeverBoth /\ IInv /\ RepeatsBringNone /\ RefreshInv
<1>1. OneProcess /\ NeverBoth /\ Init => Inv
  BY InitIInv, InitKnows DEF Init, RepeatsBringNone
<1>2. Inv /\ [Next]_vars => Inv'
  BY NextIInv, NextRepeats, NextKnows DEF OneProcess, NeverBoth
<1>3. Inv => Needed
  BY NewestIsNewest DEF RefreshInv, Knows, Accepted
<1> HIDE DEF Inv, Needed
<1>4. OneProcess /\ NeverBoth /\ Spec => [][Needed]_vars
  BY <1>1, <1>2, <1>3, PTL DEF Spec
<1>5. QED
  BY <1>4 DEF LoginOnlyWhenNeeded, Needed
=============================================================================
