-------------------------- MODULE ApiBuilderProofs --------------------------
(***************************************************************************)
(* Names that never meet, for any specification.                           *)
(*   - NamingInv: the set the code looks tool names up in is the set of the*)
(*     names assigned, so a name taken when that set does not hold it is   *)
(*     unique; it is within the limit as a number is cut for.              *)
(*   - BuildInv: every operation built so far keeps what is promised of its*)
(*     name, flags and arguments. An operation is built by operators, so   *)
(*     the argument is about them: groups and leaves are words however they*)
(*     are trimmed, and ClaimAll gives every request a name of its own, by *)
(*     induction over the requests, since a number below one more than the *)
(*     names taken is always free. It also keeps where fields, arguments   *)
(*     and results are taken from.                                         *)
(*   - Schemas: what holds of a schema when it holds of its branches holds *)
(*     of all, since compositions end (BranchInduction), so each value that*)
(*     a body declares in a field is declared by the merged property, and  *)
(*     its choices are offered; by induction over the levels a conversion  *)
(*     has left, it accepts what the schema declares, cut off or not.      *)
(***************************************************************************)
EXTENDS SchemaPromises, SequenceTheorems, FiniteSetTheorems, WellFoundedInduction, TLAPS

\* What names are made of: words of the document, numerals, and words of the
\* generator's own, among them those a name is moved by.
NamePrefixes == {"body", "param", "path", "query", "header", "cookie"}
OwnWords == {"tool", "mcp", "group", "get", "list", "create", "update", "delete"}
Symbol == STRING \union {ToString(n) : n \in Nat} \union NamePrefixes \union OwnWords
Derived == Seq(Symbol)

(***************************************************************************)
(* Numbers and sequences.                                                  *)
(***************************************************************************)
\* Induction over the naturals, for a set of them.
LEMMA SetInduction ==
  ASSUME NEW T, 0 \in T, \A n \in Nat : n \in T => n + 1 \in T
  PROVE  Nat \subseteq T
<1>1. SUFFICES ASSUME NEW z \in Nat, z \notin T PROVE FALSE
  OBVIOUS
<1> DEFINE Piece(n) == 1 .. n
           Left == {Piece(n) : n \in {m \in Nat : m \notin T}}
<1>2. Left \subseteq FiniteSubsetsOf(Nat) /\ Left # {}
  <2>1. \A n \in Nat : Piece(n) \in FiniteSubsetsOf(Nat)
    BY FS_Interval DEF FiniteSubsetsOf
  <2>2. QED
    BY <1>1, <2>1
<1>3. PICK least \in Left : \A other \in Left : <<other, least>> \notin StrictSubsetOrdering(Nat)
  BY <1>2, FS_StrictSubsetOrderingWellFounded, WFMin
<1>4. PICK n \in Nat : n \notin T /\ least = Piece(n)
  OBVIOUS
<1>5. n - 1 \in Nat /\ n - 1 \notin T
  BY <1>4
<1>6. <<Piece(n - 1), Piece(n)>> \in StrictSubsetOrdering(Nat)
  BY <1>5 DEF StrictSubsetOrdering
<1>7. QED
  BY <1>3, <1>4, <1>5, <1>6


\* The values of a table's steps, taken one after another from a start.
Takes(f, n, start, step) == f[0] = start /\ \A i \in 1 .. n : f[i] = step[i][f[i - 1]]

LEMMA StepsAreTaken ==
  ASSUME NEW V, NEW n \in Nat, NEW start \in V, NEW step \in [1 .. n -> [V -> V]]
  PROVE  \E f \in [0 .. n -> V] : Takes(f, n, start, step)
<1> DEFINE Taken(m, f) == f[0] = start /\ \A i \in 1 .. m : f[i] = step[i][f[i - 1]]
           Reached == {m \in Nat : m <= n => \E f \in [0 .. m -> V] : Taken(m, f)}
<1>1. 0 \in Reached
  <2>1. [i \in 0 .. 0 |-> start] \in [0 .. 0 -> V] /\ Taken(0, [i \in 0 .. 0 |-> start])
    OBVIOUS
  <2>2. QED
    BY <2>1
<1>2. ASSUME NEW m \in Nat, m \in Reached PROVE m + 1 \in Reached
  <2>1. SUFFICES ASSUME m + 1 <= n PROVE \E f \in [0 .. m + 1 -> V] : Taken(m + 1, f)
    OBVIOUS
  <2>2. PICK f \in [0 .. m -> V] : Taken(m, f)
    BY <1>2, <2>1
  <2> DEFINE g == [i \in 0 .. m + 1 |-> IF i <= m THEN f[i] ELSE step[m + 1][f[m]]]
  <2>3. g \in [0 .. m + 1 -> V]
    <3>1. step[m + 1] \in [V -> V] /\ f[m] \in V
      BY <2>1
    <3>2. QED
      BY <3>1
  <2>4. \A i \in 0 .. m : g[i] = f[i]
    OBVIOUS
  <2>5. g[m + 1] = step[m + 1][f[m]]
    OBVIOUS
  <2> HIDE DEF g
  <2>6. Taken(m + 1, g)
    <3>1. \A i \in 1 .. m : i - 1 \in 0 .. m
      OBVIOUS
    <3>2. g[0] = start /\ \A i \in 1 .. m : g[i] = step[i][g[i - 1]]
      BY <2>2, <2>4, <3>1
    <3>3. g[m + 1] = step[m + 1][g[m + 1 - 1]]
      BY <2>4, <2>5
    <3>4. QED
      BY <3>2, <3>3
  <2> HIDE DEF Taken
  <2>7. QED
    BY <2>3, <2>6
<1> HIDE DEF Reached
<1>3. n \in Reached
  BY <1>1, <1>2, SetInduction
<1>4. QED
  BY <1>3 DEF Reached, Takes

\* The elements of a sequence that has grown.
LEMMA SetOfAppended ==
  ASSUME NEW X, NEW seq \in Seq(X), NEW x \in X
  PROVE  ToSet(Append(seq, x)) = ToSet(seq) \union {x}
<1> DEFINE n == Len(seq)
           longer == Append(seq, x)
<1>1. n \in Nat /\ DOMAIN seq = 1 .. n /\ DOMAIN longer = 1 .. n + 1
  OBVIOUS
<1>2. longer[n + 1] = x /\ \A i \in 1 .. n : longer[i] = seq[i]
  OBVIOUS
<1> HIDE DEF n, longer
<1>3. 1 .. n + 1 = 1 .. n \union {n + 1}
  BY <1>1
<1>4. ToSet(longer) = {seq[i] : i \in 1 .. n} \union {x}
  BY <1>1, <1>2, <1>3 DEF ToSet
<1>5. QED
  BY <1>1, <1>4 DEF ToSet, longer

\* Only keeps the elements of the set, and no others.
LEMMA OnlyFacts ==
  ASSUME NEW X, NEW seq \in Seq(X), NEW set
  PROVE  /\ Only(seq, set) \in Seq(X)
         /\ ToSet(Only(seq, set)) = ToSet(seq) \intersect set
         /\ \A x \in ToSet(seq) \ set : Len(Only(seq, set)) < Len(seq)
<1> DEFINE n == Len(seq)
           Advance(i, t) == IF seq[i] \in set THEN Append(t, seq[i]) ELSE t
           step == [i \in 1 .. n |-> [t \in Seq(X) |-> Advance(i, t)]]
           Kept(f) == f = [i \in 0 .. n |-> IF i = 0 THEN <<>> ELSE Advance(i, f[i - 1])]
           kept == CHOOSE f : Kept(f)
<1>1. Only(seq, set) = kept[n]
  BY DEF Only
<1>2. n \in Nat /\ \A i \in 1 .. n : seq[i] \in X
  OBVIOUS
<1> HIDE DEF n
<1>3. step \in [1 .. n -> [Seq(X) -> Seq(X)]]
  BY <1>2
<1>4. \A i \in 1 .. n, t \in Seq(X) : step[i][t] = Advance(i, t)
  <2> HIDE DEF Advance
  <2>1. QED
    OBVIOUS
<1> HIDE DEF step
<1>5. PICK f \in [0 .. n -> Seq(X)] : f[0] = <<>> /\ \A i \in 1 .. n : f[i] = step[i][f[i - 1]]
  <2> DEFINE V == Seq(X)
             start == <<>>
  <2>1. start \in V
    OBVIOUS
  <2>2. step \in [1 .. n -> [V -> V]]
    BY <1>3
  <2> HIDE DEF V, start
  <2>3. \E f \in [0 .. n -> V] : Takes(f, n, start, step)
    BY <1>2, <2>1, <2>2, StepsAreTaken
  <2>4. QED
    BY <2>3 DEF V, start, Takes
<1>6. Kept(f)
  <2>1. \A i \in 0 .. n : f[i] = IF i = 0 THEN <<>> ELSE Advance(i, f[i - 1])
    <3> HIDE DEF Advance
    <3>1. ASSUME NEW i \in 1 .. n PROVE f[i] = Advance(i, f[i - 1])
      <4>1. i - 1 \in 0 .. n
        BY <1>2
      <4>2. f[i - 1] \in Seq(X)
        BY <4>1
      <4>3. step[i][f[i - 1]] = Advance(i, f[i - 1])
        BY <1>4, <4>2
      <4>4. QED
        BY <1>5, <4>3
    <3>2. QED
      BY <1>2, <1>5, <3>1
  <2> HIDE DEF Advance
  <2>2. QED
    BY <2>1
<1>7. Kept(kept)
  <2> HIDE DEF Kept
  <2>1. QED
    BY <1>6
<1>8. /\ kept[0] = <<>>
      /\ \A i \in 1 .. n : kept[i] = Advance(i, kept[i - 1])
  <2> HIDE DEF kept, Advance
  <2>1. QED
    BY <1>2, <1>7
<1> HIDE DEF kept, Kept
<1> DEFINE Good(i) == /\ kept[i] \in Seq(X)
                      /\ ToSet(kept[i]) = {seq[j] : j \in 1 .. i} \intersect set
                      /\ Len(kept[i]) <= i
                      /\ \A j \in 1 .. i : seq[j] \notin set => Len(kept[i]) < i
           Fine == {i \in Nat : i <= n => Good(i)}
<1>9. 0 \in Fine
  <2>1. ToSet(<<>>) = {} /\ {seq[j] : j \in 1 .. 0} = {}
    BY DEF ToSet
  <2>2. Good(0)
    BY <1>8, <2>1
  <2> HIDE DEF Good
  <2>3. QED
    BY <2>2
<1>10. ASSUME NEW i \in Nat, i \in Fine, i + 1 <= n PROVE Good(i + 1)
  <2>1. Good(i) /\ kept[i + 1] = Advance(i + 1, kept[i]) /\ seq[i + 1] \in X
    <3>1. Good(i)
      <4> HIDE DEF Good
      <4>1. i <= n
        BY <1>2, <1>10
      <4>2. QED
        BY <1>10, <4>1
    <3> HIDE DEF Good, Advance
    <3>2. i + 1 \in 1 .. n /\ (i + 1) - 1 = i
      BY <1>2, <1>10
    <3>3. QED
      BY <1>2, <1>8, <3>1, <3>2
  <2>2. {seq[j] : j \in 1 .. i + 1} = {seq[j] : j \in 1 .. i} \union {seq[i + 1]}
    OBVIOUS
  <2>3. CASE seq[i + 1] \in set
    <3>1. kept[i + 1] = Append(kept[i], seq[i + 1])
      BY <2>1, <2>3
    <3>2. ToSet(kept[i + 1]) = ToSet(kept[i]) \union {seq[i + 1]}
      BY <2>1, <3>1, SetOfAppended
    <3>3. Len(kept[i + 1]) = Len(kept[i]) + 1
      BY <2>1, <3>1
    <3>4. QED
      BY <2>1, <2>2, <2>3, <3>1, <3>2, <3>3
  <2>4. CASE seq[i + 1] \notin set
    <3>1. kept[i + 1] = kept[i] /\ Len(kept[i]) \in Nat
      BY <2>1, <2>4
    <3>2. QED
      BY <2>1, <2>2, <2>4, <3>1
  <2>5. QED
    BY <2>3, <2>4
<1>11. \A i \in Nat : i \in Fine => i + 1 \in Fine
  <2> HIDE DEF Good
  <2>1. QED
    BY <1>10
<1>12. n \in Fine
  <2> HIDE DEF Fine
  <2>1. QED
    BY <1>2, <1>9, <1>11, SetInduction
<1>13. Good(n)
  BY <1>2, <1>12
<1>14. {seq[j] : j \in 1 .. n} = ToSet(seq)
  BY DEF n, ToSet
<1>15. \A x \in ToSet(seq) \ set : Len(kept[n]) < n
  BY <1>13, <1>14
<1>16. QED
  BY <1>1, <1>13, <1>14, <1>15 DEF n

\* The elements of a concatenation are those of its parts.
LEMMA SetOfConcatenated ==
  ASSUME NEW X, NEW front \in Seq(X), NEW back \in Seq(X)
  PROVE  ToSet(front \o back) = ToSet(front) \union ToSet(back)
<1> DEFINE m == Len(front)
           n == Len(back)
           whole == front \o back
<1>1. /\ m \in Nat /\ n \in Nat /\ DOMAIN front = 1 .. m /\ DOMAIN back = 1 .. n
      /\ DOMAIN whole = 1 .. m + n
  OBVIOUS
<1>2. \A i \in 1 .. m + n : whole[i] = IF i <= m THEN front[i] ELSE back[i - m]
  OBVIOUS
<1> HIDE DEF m, n, whole
<1>3. ToSet(whole) \subseteq ToSet(front) \union ToSet(back)
  BY <1>1, <1>2 DEF ToSet
<1>4. ToSet(front) \subseteq ToSet(whole)
  BY <1>1, <1>2 DEF ToSet
<1>5. \A i \in 1 .. n : m + i \in 1 .. m + n /\ whole[m + i] = back[i]
  BY <1>1, <1>2
<1>6. ToSet(back) \subseteq ToSet(whole)
  BY <1>1, <1>5 DEF ToSet
<1>7. QED
  BY <1>3, <1>4, <1>6 DEF whole

\* A sequence cut in two and joined again.
LEMMA SplitJoins ==
  ASSUME NEW X, NEW seq \in Seq(X), NEW m \in 0 .. Len(seq)
  PROVE  SubSeq(seq, 1, m) \o SubSeq(seq, m + 1, Len(seq)) = seq
<1> DEFINE n == Len(seq)
           front == SubSeq(seq, 1, m)
           back == SubSeq(seq, m + 1, n)
<1>1. n \in Nat /\ m \in Nat /\ m <= n
  OBVIOUS
<1>2. front \in Seq(X) /\ Len(front) = m /\ \A i \in 1 .. m : front[i] = seq[i]
  OBVIOUS
<1>3. back \in Seq(X) /\ Len(back) = n - m /\ \A i \in 1 .. n - m : back[i] = seq[m + i]
  OBVIOUS
<1> HIDE DEF front, back
<1>4. /\ front \o back \in Seq(X)
      /\ Len(front \o back) = Len(front) + Len(back)
      /\ \A i \in 1 .. Len(front) + Len(back) :
           (front \o back)[i] = IF i <= Len(front) THEN front[i] ELSE back[i - Len(front)]
  <2>1. front \in Seq(X) /\ back \in Seq(X)
    BY <1>2, <1>3
  <2>2. QED
    BY <2>1, ConcatProperties
<1>5. Len(front \o back) = n
  BY <1>1, <1>2, <1>3, <1>4
<1>6. ASSUME NEW i \in 1 .. n PROVE (front \o back)[i] = seq[i]
  <2>1. (front \o back)[i] = IF i <= m THEN front[i] ELSE back[i - m]
    BY <1>1, <1>2, <1>3, <1>4
  <2>2. QED
    BY <1>1, <1>2, <1>3, <2>1
<1>7. QED
  BY <1>4, <1>5, <1>6, SeqEqual DEF front, back

\* A sequence, of whatever it holds.
IsList(s) == s \in Seq(ToSet(s))

LEMMA TablesAreLists ==
  ASSUME NEW n \in Nat, NEW table, table = [i \in 1 .. n |-> table[i]]
  PROVE  IsList(table) /\ Len(table) = n /\ DOMAIN table = 1 .. n
<1>1. DOMAIN table = 1 .. n
  OBVIOUS
<1>2. \A i \in 1 .. n : table[i] \in ToSet(table)
  BY <1>1 DEF ToSet
<1> DEFINE X == ToSet(table)
<1>3. table \in Seq(X)
  <2> HIDE DEF X
  <2>1. \A i \in 1 .. n : table[i] \in X
    BY <1>2 DEF X
  <2>2. [i \in 1 .. n |-> table[i]] \in Seq(X)
    BY <2>1
  <2>3. QED
    BY <2>2
<1>4. Len(table) = n
  <2> HIDE DEF X
  <2>1. QED
    BY <1>1, <1>3
<1>5. QED
  BY <1>1, <1>3, <1>4 DEF IsList

\* A sequence has finitely many elements.
LEMMA RangeIsFinite ==
  ASSUME NEW X, NEW seq \in Seq(X)
  PROVE  IsFiniteSet(ToSet(seq))
<1>1. seq \in Surjection(1 .. Len(seq), ToSet(seq)) /\ Len(seq) \in Nat
  BY DEF Surjection, ToSet
<1>2. IsFiniteSet(1 .. Len(seq))
  BY <1>1, FS_Interval
<1>3. QED
  BY <1>1, <1>2, FS_Surjection

\* A set of numbers has a least one.
LEMMA LeastExists ==
  ASSUME NEW S, S \subseteq Nat, S # {}
  PROVE  \E i \in S : \A j \in S : i <= j
<1>2. SUFFICES ASSUME \A i \in S : \E j \in S : j < i PROVE FALSE
  BY <1>2
<1> DEFINE Below == {n \in Nat : \A i \in S : n < i}
<1>3. 0 \in Below
  BY <1>2
<1>4. \A n \in Nat : n \in Below => n + 1 \in Below
  <2>1. SUFFICES ASSUME NEW n \in Nat, n \in Below, NEW i \in S, i <= n + 1 PROVE FALSE
    OBVIOUS
  <2>2. PICK j \in S : j < i
    BY <1>2
  <2>3. n < j
    BY <2>1
  <2>4. QED
    BY <2>1, <2>2, <2>3
<1>5. Nat \subseteq Below
  <2> HIDE DEF Below
  <2>1. QED
    BY <1>3, <1>4, SetInduction
<1>6. PICK i \in S : i \in Below
  BY <1>5
<1>7. QED
  BY <1>6

(***************************************************************************)
(* The names of tools.                                                     *)
(***************************************************************************)
Fits(name) == name \in Seq(Symbol) /\ Len(name) <= MaxName

Bases == {bases[i] : i \in 1 .. Len(bases)}

NamingInv ==
  /\ bases \in Seq(Seq(Symbol)) /\ \A i \in 1 .. Len(bases) : Fits(bases[i])
  /\ named \in Seq(Seq(Symbol)) /\ \A i \in 1 .. Len(named) : Fits(named[i])
  /\ Len(named) <= Len(bases)
  /\ seen = {named[i] : i \in 1 .. Len(named)}
  /\ counter \in [Bases -> Nat]
  /\ Fits(candidate)
  /\ \A i, j \in 1 .. Len(named) : named[i] = named[j] => i = j

\* A numeral is one word, whatever it looks like.
LEMMA NumberIsOneSymbol ==
  ASSUME NEW n \in Nat
  PROVE  Number(n) \in Seq(Symbol) /\ Len(Number(n)) = 1
BY DEF Number, Symbol

\* A number after a name that is cut for it stays within the limit.
LEMMA NumberFits ==
  ASSUME NEW base, Fits(base), NEW suffix \in Seq(Symbol), Len(suffix) = 1
  PROVE  Fits(Cut(base, suffix) \o suffix)
<1>1. CASE Len(base) + Len(suffix) > MaxName
  <2>1. Cut(base, suffix) = SubSeq(base, 1, MaxName - 1)
    BY <1>1, MaxNameAssumption DEF Cut, Fits
  <2>2. /\ SubSeq(base, 1, MaxName - 1) \in Seq(Symbol)
        /\ Len(SubSeq(base, 1, MaxName - 1)) = MaxName - 1
    BY <1>1, MaxNameAssumption DEF Fits
  <2> DEFINE cut == SubSeq(base, 1, MaxName - 1)
  <2> HIDE DEF cut
  <2>3. Len(cut \o suffix) = MaxName /\ cut \o suffix \in Seq(Symbol)
    <3>1. cut \in Seq(Symbol) /\ Len(cut) = MaxName - 1
      BY <2>2 DEF cut
    <3>2. Len(cut \o suffix) = Len(cut) + Len(suffix) /\ cut \o suffix \in Seq(Symbol)
      BY <3>1, ConcatProperties
    <3> QED BY <3>1, <3>2, MaxNameAssumption
  <2>4. Cut(base, suffix) \o suffix = cut \o suffix
    BY <2>1 DEF cut
  <2>5. Fits(cut \o suffix)
    BY <2>3, MaxNameAssumption DEF Fits
  <2> QED BY <2>4, <2>5
<1>2. CASE ~(Len(base) + Len(suffix) > MaxName)
  <2>1. Cut(base, suffix) = base /\ Len(base) + Len(suffix) <= MaxName
    BY <1>2, LenProperties, MaxNameAssumption DEF Fits, Cut
  <2>2. base \o suffix \in Seq(Symbol) /\ Len(base \o suffix) = Len(base) + Len(suffix)
    BY ConcatProperties DEF Fits
  <2> QED BY <2>1, <2>2 DEF Fits
<1> QED BY <1>1, <1>2

Fitting(list) == list \in Seq(Seq(Symbol)) /\ \A i \in 1 .. Len(list) : Fits(list[i])

LEMMA ToolListsFit == \A list \in ToolLists : Fitting(list)
<1>1. Words \subseteq Seq(Symbol)
  BY SeqMonotonic DEF Words, Symbol
<1>2. ASSUME NEW list \in ToolLists PROVE Fitting(list)
  <2>1. list \in Seq(Words)
    BY ToolListsAssumption
  <2>2. list \in Seq(Seq(Symbol))
    BY <1>1, <2>1, SeqMonotonic
  <2>3. QED
    BY <2>2, ToolListsAssumption DEF Fits, Fitting
<1>3. QED
  BY <1>2

\* A specification's tools are collected before any of them has a name.
LEMMA CollectKeepsInv ==
  ASSUME NamingInv, NEW list, Fitting(list), CollectTools(list)
  PROVE  NamingInv'
<1>1. list \in Seq(Seq(Symbol)) /\ \A i \in 1 .. Len(list) : Fits(list[i])
  BY DEF Fitting
<1>2. Fits(<<>>)
  BY MaxNameAssumption DEF Fits
<1>3. Fits(candidate')
  BY <1>1, <1>2 DEF CollectTools
<1>4. /\ named' \in Seq(Seq(Symbol)) /\ Len(named') = 0
      /\ seen' = {named'[i] : i \in 1 .. Len(named')}
  BY DEF CollectTools
<1>5. counter' \in [Bases' -> Nat]
  BY DEF CollectTools, Bases
<1> QED BY <1>1, <1>3, <1>4, <1>5 DEF CollectTools, NamingInv, Fits

\* A name that is taken is tried again with the next number.
LEMMA RenumberKeepsInv ==
  ASSUME NamingInv, Renumber
  PROVE  NamingInv'
<1>1. Base \in Bases /\ Fits(Base)
  BY DEF NamingInv, Renumber, Naming, Base, Bases
<1>2. counter' \in [Bases -> Nat]
  BY <1>1 DEF NamingInv, Renumber
<1> DEFINE suffix == Number(counter[Base] + 2)
<1>3. suffix \in Seq(Symbol) /\ Len(suffix) = 1
  <2>1. counter[Base] + 2 \in Nat
    BY <1>1 DEF NamingInv
  <2>2. ASSUME NEW n \in Nat PROVE Number(n) \in Seq(Symbol) /\ Len(Number(n)) = 1
    BY NumberIsOneSymbol
  <2> QED BY <2>1, <2>2
<1>4. candidate' = Cut(Base, suffix) \o suffix
  BY DEF Renumber
<1> HIDE DEF suffix
<1>5. Fits(candidate')
  <2>1. Fits(Cut(Base, suffix) \o suffix)
    BY <1>1, <1>3, NumberFits
  <2> QED BY <2>1, <1>4 DEF Fits
<1>6. UNCHANGED <<bases, named, seen, Bases>>
  BY DEF Renumber, Bases
<1> QED BY <1>2, <1>5, <1>6 DEF NamingInv, Fits

\* A free name is assigned.
LEMMA TakeKeepsInv ==
  ASSUME NamingInv, TakeName
  PROVE  NamingInv'
<1>1. /\ named' = Append(named, candidate)
      /\ named \in Seq(Seq(Symbol)) /\ candidate \in Seq(Symbol)
      /\ Len(named') = Len(named) + 1 /\ Len(named') <= Len(bases)
  BY DEF TakeName, Naming, NamingInv, Fits
<1>2. /\ named' \in Seq(Seq(Symbol))
      /\ \A i \in 1 .. Len(named) : named'[i] = named[i]
      /\ named'[Len(named')] = candidate
  BY <1>1
<1>3. \A i \in 1 .. Len(named') : Fits(named'[i])
  BY <1>1, <1>2 DEF NamingInv, Fits
<1>4. seen' = {named'[i] : i \in 1 .. Len(named')}
  BY <1>1, <1>2 DEF TakeName, NamingInv
<1>5. \A i, j \in 1 .. Len(named') : named'[i] = named'[j] => i = j
  <2>1. \A i \in 1 .. Len(named) : named[i] # candidate
    BY DEF TakeName, Free, NamingInv
  <2>2. \A i, j \in 1 .. Len(named) : named[i] = named[j] => i = j
    BY DEF NamingInv
  <2>3. Len(named) \in Nat /\ \A i \in 1 .. Len(named') : i \in 1 .. Len(named) \/ i = Len(named')
    BY <1>1
  <2> QED BY <2>1, <2>2, <2>3, <1>2
<1>6. Fits(candidate')
  BY <1>1, MaxNameAssumption DEF TakeName, NamingInv, Fits
<1>7. UNCHANGED <<bases, counter, Bases>>
  BY DEF TakeName, Bases
<1> QED BY <1>1, <1>2, <1>3, <1>4, <1>5, <1>6, <1>7 DEF NamingInv, Fits

LEMMA NamingRests ==
  ASSUME NamingInv, UNCHANGED toolNameVars
  PROVE  NamingInv'
BY DEF NamingInv, toolNameVars, Fits, Bases

LEMMA NoNamesYet ==
  ASSUME ToolNamesInit
  PROVE  NamingInv
BY MaxNameAssumption DEF ToolNamesInit, NamingInv, Fits, Bases

LEMMA NamingInvHolds == ToolNamesSpec => []NamingInv
<1>1. ToolNamesInit => NamingInv
  BY NoNamesYet
<1>2. NamingInv /\ [ToolNamesNext]_toolNameVars => NamingInv'
  <2> SUFFICES ASSUME NamingInv, [ToolNamesNext]_toolNameVars PROVE NamingInv'
    OBVIOUS
  <2>1. ASSUME NEW list \in ToolLists, CollectTools(list) PROVE NamingInv'
    BY <2>1, ToolListsFit, CollectKeepsInv
  <2>2. CASE Renumber
    BY <2>2, RenumberKeepsInv
  <2>3. CASE TakeName
    BY <2>3, TakeKeepsInv
  <2>4. CASE UNCHANGED toolNameVars
    BY <2>4, NamingRests
  <2> QED BY <2>1, <2>2, <2>3, <2>4 DEF ToolNamesNext, AssignToolNames
<1> QED BY <1>1, <1>2, PTL DEF ToolNamesSpec

\* The names of a server's tools are distinct and within the limit, however many
\* operations share a name and wherever a cut name ends (assignMCPToolNames).
THEOREM ToolNamesUnique == ToolNamesSpec => []ToolNamesAreUnique
<1>1. NamingInv => ToolNamesAreUnique
  BY DEF NamingInv, ToolNamesAreUnique, Fits
<1> QED BY <1>1, NamingInvHolds, PTL

(***************************************************************************)
(* Names claimed in turn.                                                  *)
(***************************************************************************)
\* Different numbers are written differently: all that is assumed of ToString.
NumeralsDiffer == \A i, j \in Nat : ToString(i) = ToString(j) => i = j

\* The i-th name tried for a source whose first name is taken.
Tried(prefix, name, i) == <<prefix>> \o name \o (IF i = 1 THEN <<>> ELSE <<ToString(i)>>)

\* A name that is tried is words, the first of them its prefix, the last its number.
LEMMA TriedFacts ==
  ASSUME NEW prefix \in NamePrefixes, NEW name \in Derived, NEW i \in Nat
  PROVE  /\ Tried(prefix, name, i) \in Derived
         /\ Tried(prefix, name, i) # <<>> /\ Tried(prefix, name, i)[1] = prefix
         /\ i = 1 => Len(Tried(prefix, name, i)) = Len(name) + 1
         /\ i # 1 => /\ Len(Tried(prefix, name, i)) = Len(name) + 2
                     /\ Tried(prefix, name, i)[Len(name) + 2] = ToString(i)
<1> DEFINE numeral == ToString(i)
           stem == <<prefix>> \o name
<1>1. prefix \in Symbol /\ numeral \in Symbol
  BY DEF Symbol
<1> HIDE DEF numeral
<1>2. /\ stem \in Seq(Symbol) /\ Len(stem) = Len(name) + 1 /\ Len(name) \in Nat
      /\ stem[1] = prefix
  BY <1>1 DEF Derived
<1> HIDE DEF stem
<1>3. /\ stem \o <<>> = stem
      /\ stem \o <<numeral>> \in Seq(Symbol) /\ Len(stem \o <<numeral>>) = Len(name) + 2
      /\ (stem \o <<numeral>>)[Len(name) + 2] = numeral
      /\ (stem \o <<numeral>>)[1] = prefix
  BY <1>1, <1>2
<1>4. Tried(prefix, name, i) = IF i = 1 THEN stem ELSE stem \o <<numeral>>
  BY <1>3 DEF Tried, numeral, stem
<1>5. stem # <<>> /\ stem \o <<numeral>> # <<>>
  BY <1>2, <1>3
<1>6. QED
  BY <1>2, <1>3, <1>4, <1>5 DEF Derived, numeral

\* Two numbers make two names.
LEMMA TriedAreDistinct ==
  ASSUME NumeralsDiffer, NEW prefix \in NamePrefixes, NEW name \in Derived, NEW i \in Nat, NEW j \in Nat,
         Tried(prefix, name, i) = Tried(prefix, name, j)
  PROVE  i = j
<1>1. Len(name) \in Nat
  BY DEF Derived
<1>2. CASE i = 1 \/ j = 1
  BY <1>1, <1>2, TriedFacts
<1>3. CASE i # 1 /\ j # 1
  <2>1. ToString(i) = ToString(j)
    BY <1>3, TriedFacts
  <2>2. QED
    BY <2>1 DEF NumeralsDiffer
<1>4. QED
  BY <1>2, <1>3

\* One more number than there are names to avoid is enough.
LEMMA FirstFreeIsFree ==
  ASSUME NumeralsDiffer, NEW prefix \in NamePrefixes, NEW name \in Derived, NEW taken, IsFiniteSet(taken)
  PROVE  /\ FirstFree(prefix, name, taken) \in Derived \ taken
         /\ FirstFree(prefix, name, taken) # <<>> /\ FirstFree(prefix, name, taken)[1] = prefix
<1> DEFINE size == Cardinality(taken)
           numbers == 1 .. size + 1
           free == {i \in numbers : Tried(prefix, name, i) \notin taken}
           least == CHOOSE i \in free : \A j \in free : i <= j
<1>1. FirstFree(prefix, name, taken) = Tried(prefix, name, least)
  BY DEF FirstFree, Tried
<1>2. size \in Nat
  BY FS_CardinalityType
<1>3. IsFiniteSet(numbers) /\ Cardinality(numbers) = size + 1
  BY <1>2, FS_Interval
<1>4. free # {}
  <2>1. SUFFICES ASSUME \A i \in numbers : Tried(prefix, name, i) \in taken PROVE FALSE
    OBVIOUS
  <2> DEFINE f == [i \in numbers |-> Tried(prefix, name, i)]
  <2>2. f \in [numbers -> taken]
    BY <2>1
  <2>3. \A i \in numbers : f[i] = Tried(prefix, name, i)
    OBVIOUS
  <2> HIDE DEF f
  <2>4. PICK i, j \in numbers : i # j /\ f[i] = f[j]
    <3>1. size < size + 1
      BY <1>2
    <3>3. Cardinality(taken) < Cardinality(numbers)
      BY <1>3, <3>1
    <3> HIDE DEF numbers, size
    <3>2. QED
      BY <1>3, <2>2, <3>3, FS_PigeonHole
  <2>5. Tried(prefix, name, i) = Tried(prefix, name, j) /\ i \in Nat /\ j \in Nat
    BY <1>2, <2>3, <2>4
  <2>6. QED
    BY <2>4, <2>5, TriedAreDistinct
<1>5. free \subseteq Nat
  BY <1>2
<1>6. least \in free
  <2> HIDE DEF free
  <2>1. QED
    BY <1>4, <1>5, LeastExists
<1>7. least \in Nat /\ Tried(prefix, name, least) \notin taken
  BY <1>5, <1>6
<1> HIDE DEF least
<1>8. QED
  BY <1>1, <1>7, TriedFacts

\* What is asked for: words, and a prefix to move them by.
Requests == [first : Derived, prefix : NamePrefixes, name : Derived]

\* A claim is not taken; it is what was asked for first, or begins with the prefix.
LEMMA ClaimIsFree ==
  ASSUME NumeralsDiffer, NEW request \in Requests, NEW taken, IsFiniteSet(taken)
  PROVE  /\ Claim(request, taken) \in Derived \ taken
         /\ \/ Claim(request, taken) = request.first
            \/ Claim(request, taken) # <<>> /\ Claim(request, taken)[1] = request.prefix
BY FirstFreeIsFree DEF Claim, Requests

\* What was asked for, in turn, is named without a name given twice.
LEMMA ClaimsAreDistinct ==
  ASSUME NumeralsDiffer, NEW requests \in Seq(Requests)
  PROVE  /\ ClaimAll(requests) \in Seq(Derived)
         /\ Len(ClaimAll(requests)) = Len(requests)
         /\ IsInjective(ClaimAll(requests))
         /\ \A i \in 1 .. Len(requests) :
              LET name == ClaimAll(requests)[i]
              IN  name = requests[i].first \/ (name # <<>> /\ name[1] = requests[i].prefix)
<1> DEFINE n == Len(requests)
           Advance(i, t) == Append(t, Claim(requests[i], ToSet(t)))
           V == Seq(Derived)
           step == [i \in 1 .. n |-> [t \in V |-> Advance(i, t)]]
           start == <<>>
           Made(f) == f = [i \in 0 .. n |-> IF i = 0 THEN start ELSE Advance(i, f[i - 1])]
           claims == CHOOSE f : Made(f)
<1>1. ClaimAll(requests) = claims[n]
  BY DEF ClaimAll
<1>2. n \in Nat /\ \A i \in 1 .. n : requests[i] \in Requests
  OBVIOUS
<1> HIDE DEF n
<1>3. ASSUME NEW i \in 1 .. n, NEW t \in V PROVE Claim(requests[i], ToSet(t)) \in Derived \ ToSet(t)
  BY <1>2, RangeIsFinite, ClaimIsFree
<1>4. step \in [1 .. n -> [V -> V]] /\ start \in V
  <2>1. \A i \in 1 .. n, t \in V : Advance(i, t) \in V
    BY <1>3
  <2> HIDE DEF Advance, V
  <2>2. step \in [1 .. n -> [V -> V]]
    BY <2>1
  <2>3. start \in V
    BY DEF V
  <2>4. QED
    BY <2>2, <2>3
<1>5. \A i \in 1 .. n, t \in V : step[i][t] = Advance(i, t)
  <2> HIDE DEF Advance, V
  <2>1. QED
    OBVIOUS
<1> HIDE DEF step, start, V
<1>6. PICK f \in [0 .. n -> V] : Takes(f, n, start, step)
  BY <1>2, <1>4, StepsAreTaken
<1>7. Made(f)
  <2> HIDE DEF Advance
  <2>1. ASSUME NEW i \in 1 .. n PROVE f[i] = Advance(i, f[i - 1])
    <3>1. i - 1 \in 0 .. n
      BY <1>2
    <3>2. f[i - 1] \in V
      BY <3>1
    <3>3. step[i][f[i - 1]] = Advance(i, f[i - 1])
      BY <1>5, <3>2
    <3>4. QED
      BY <1>6, <3>3 DEF Takes
  <2>2. \A i \in 0 .. n : f[i] = IF i = 0 THEN start ELSE Advance(i, f[i - 1])
    BY <1>2, <1>6, <2>1 DEF Takes
  <2>3. QED
    BY <2>2
<1>8. Made(claims)
  <2> HIDE DEF Made
  <2>1. QED
    BY <1>7
<1>9. /\ claims[0] = <<>>
      /\ \A i \in 1 .. n : claims[i] = Advance(i, claims[i - 1])
  <2> HIDE DEF claims, Advance
  <2>1. QED
    BY <1>2, <1>8 DEF start
<1> HIDE DEF claims, Made
<1> DEFINE Kept(name, i) == \/ name = requests[i].first
                            \/ name # <<>> /\ name[1] = requests[i].prefix
           Good(i) == /\ claims[i] \in Seq(Derived) /\ Len(claims[i]) = i
                      /\ \A j, k \in 1 .. i : claims[i][j] = claims[i][k] => j = k
                      /\ \A j \in 1 .. i : Kept(claims[i][j], j)
           Fine == {i \in Nat : i <= n => Good(i)}
<1>10. 0 \in Fine
  <2> HIDE DEF Kept
  <2>1. <<>> \in Seq(Derived) /\ Len(<<>>) = 0 /\ 1 .. 0 = {}
    OBVIOUS
  <2>2. Good(0)
    BY <1>9, <2>1
  <2> HIDE DEF Good
  <2>3. QED
    BY <2>2
<1>11. ASSUME NEW i \in Nat, i \in Fine, i + 1 <= n PROVE Good(i + 1)
  <2> DEFINE new == Claim(requests[i + 1], ToSet(claims[i]))
  <2>1. Good(i) /\ i + 1 \in 1 .. n
    BY <1>2, <1>11
  <2>2. claims[i + 1] = Append(claims[i], new)
    BY <1>9, <2>1
  <2>3. new \in Derived /\ new \notin ToSet(claims[i])
    BY <1>3, <2>1 DEF V
  <2>4. Kept(new, i + 1)
    BY <1>2, <2>1, RangeIsFinite, ClaimIsFree
  <2> HIDE DEF new, Kept
  <2>5. /\ claims[i + 1] \in Seq(Derived) /\ Len(claims[i + 1]) = i + 1
        /\ claims[i + 1][i + 1] = new
        /\ \A j \in 1 .. i : claims[i + 1][j] = claims[i][j]
    BY <2>1, <2>2, <2>3
  <2>6. \A j \in 1 .. i : claims[i][j] # new
    BY <2>1, <2>3 DEF ToSet
  <2>7. ASSUME NEW j \in 1 .. i + 1 PROVE j = i + 1 \/ j \in 1 .. i
    OBVIOUS
  <2>8. \A j, k \in 1 .. i + 1 : claims[i + 1][j] = claims[i + 1][k] => j = k
    BY <2>1, <2>5, <2>6, <2>7
  <2>9. \A j \in 1 .. i + 1 : Kept(claims[i + 1][j], j)
    BY <2>1, <2>4, <2>5, <2>7
  <2>10. QED
    BY <2>5, <2>8, <2>9
<1>12. \A i \in Nat : i \in Fine => i + 1 \in Fine
  <2> HIDE DEF Good
  <2>1. QED
    BY <1>11
<1>13. n \in Fine
  <2> HIDE DEF Fine
  <2>1. QED
    BY <1>2, <1>10, <1>12, SetInduction
<1>14. Good(n)
  BY <1>2, <1>13
<1>15. QED
  BY <1>1, <1>14 DEF IsInjective, n

(***************************************************************************)
(* The flags of one operation.                                             *)
(***************************************************************************)
\* What the document names is words.
LEMMA WordsAreDerived == Seq(Word) \subseteq Derived
BY SeqMonotonic DEF Word, Symbol, Derived

\* A parameter of an operation under construction.
Parameter == [name : Name, in : {"path", "query", "header", "cookie"}, required : BOOLEAN, flag : Derived]

\* Every parameter of the document that is not ignored is one of the operation.
LEMMA ParametersAreTyped ==
  ASSUME NEW item, item.params \in Seq(Param), NEW op, op.params \in Seq(Param)
  PROVE  /\ GetParams(item, op) \in Seq(Parameter)
         /\ \A p \in ToSet(item.params) \union ToSet(op.params) : ~p.ignored =>
              \E q \in ToSet(GetParams(item, op)) :
                Key(q) = Key(p) /\ q.required = (p.required \/ p.in = "path")
<1> DEFINE all == item.params \o op.params
           used == {p \in ToSet(all) : ~p.ignored}
           usable == Only(all, used)
           Made(p) == [name |-> p.name, in |-> p.in, required |-> p.required \/ p.in = "path",
                       flag |-> IF p.flag # <<>> THEN p.flag ELSE Slug(p.name)]
<1>1. GetParams(item, op) = [i \in 1 .. Len(usable) |-> Made(usable[i])]
  BY DEF GetParams
<1>2. all \in Seq(Param) /\ ToSet(all) = ToSet(item.params) \union ToSet(op.params)
  BY SetOfConcatenated
<1>3. usable \in Seq(Param) /\ ToSet(usable) = used
  <2> HIDE DEF all
  <2>1. QED
    BY <1>2, OnlyFacts
<1>4. ASSUME NEW p \in Param
      PROVE  Made(p) \in Parameter /\ Key(Made(p)) = Key(p) /\ Made(p).required = (p.required \/ p.in = "path")
  <2>1. p.flag \in Derived /\ Slug(p.name) \in Derived
    BY WordsAreDerived DEF Param, Name, Slug
  <2>2. QED
    BY <2>1 DEF Param, Parameter, Key
<1> HIDE DEF usable, Made
<1>5. Len(usable) \in Nat /\ \A i \in 1 .. Len(usable) : usable[i] \in Param
  BY <1>3
<1>6. GetParams(item, op) \in Seq(Parameter)
  BY <1>1, <1>4, <1>5
<1>7. ASSUME NEW p \in ToSet(item.params) \union ToSet(op.params), ~p.ignored
      PROVE  \E q \in ToSet(GetParams(item, op)) :
               Key(q) = Key(p) /\ q.required = (p.required \/ p.in = "path")
  <2>1. p \in ToSet(usable)
    BY <1>2, <1>3, <1>7
  <2>2. PICK i \in 1 .. Len(usable) : usable[i] = p
    BY <1>3, <2>1 DEF ToSet
  <2>3. GetParams(item, op)[i] = Made(p) /\ i \in DOMAIN GetParams(item, op)
    BY <1>1, <2>2
  <2>4. Made(p) \in ToSet(GetParams(item, op))
    BY <2>3 DEF ToSet
  <2>5. QED
    BY <1>4, <1>5, <2>2, <2>4
<1>8. QED
  BY <1>6, <1>7

\* What has a flag: the fields and the optional parameters of an operation.
Flagged(sources) ==
  /\ Len(sources) \in Nat /\ DOMAIN sources = 1 .. Len(sources)
  /\ \A i \in 1 .. Len(sources) : "flag" \in DOMAIN sources[i] /\ sources[i].flag \in Derived

\* Giving sources their flags gives them those flags.
LEMMA FlagsAreSet ==
  ASSUME NEW sources, Flagged(sources), NEW flags \in Seq(Derived), Len(flags) = Len(sources)
  PROVE  /\ FlagsOf(sources) \in Seq(Derived) /\ Len(FlagsOf(sources)) = Len(sources)
         /\ FlagsOf(Reflagged(sources, flags)) = flags
<1>1. FlagsOf(sources) \in Seq(Derived) /\ Len(FlagsOf(sources)) = Len(sources)
  BY DEF FlagsOf, Flagged
<1> DEFINE moved == Reflagged(sources, flags)
<1>2. \A i \in 1 .. Len(sources) : moved[i].flag = flags[i]
  BY DEF Reflagged, Flagged
<1>3. Len(moved) = Len(sources)
  BY DEF Reflagged, Flagged
<1> HIDE DEF moved
<1>4. FlagsOf(moved) = [i \in 1 .. Len(sources) |-> flags[i]]
  BY <1>2, <1>3 DEF FlagsOf
<1>5. flags = [i \in 1 .. Len(sources) |-> flags[i]]
  OBVIOUS
<1>6. QED
  BY <1>1, <1>4, <1>5 DEF moved

\* No two sources of a command end up with one flag, and none with a reserved one.
LEMMA ReservedFlagsStayFree ==
  ASSUME NumeralsDiffer, NEW fields \in Seq(Derived), NEW optional \in Seq(Derived)
  PROVE  LET flags == ReserveGeneratedFlagNames(fields, optional)
         IN  /\ flags \in Seq(Derived) /\ Len(flags) = Len(fields) + Len(optional)
             /\ IsInjective(flags) /\ ToSet(flags) \intersect ReservedFlags = {}
<1> DEFINE all == fields \o optional
           Prefix(i) == IF i <= Len(fields) THEN "body" ELSE "param"
           requests == [i \in 1 .. Len(all) |->
                          [first |-> ResolveGeneratedFlagName(Prefix(i), all[i]),
                           prefix |-> Prefix(i), name |-> all[i]]]
           flags == ClaimAll(requests)
<1>1. ReserveGeneratedFlagNames(fields, optional) = flags
  BY DEF ReserveGeneratedFlagNames
<1>2. all \in Seq(Derived) /\ Len(all) = Len(fields) + Len(optional)
  OBVIOUS
<1>3. \A i \in 1 .. Len(all) : Prefix(i) \in {"body", "param"}
  OBVIOUS
<1> HIDE DEF all, Prefix
<1>4. ASSUME NEW i \in 1 .. Len(all)
      PROVE  /\ ResolveGeneratedFlagName(Prefix(i), all[i]) \in Derived \ ReservedFlags
             /\ Prefix(i) \in NamePrefixes /\ all[i] \in Derived
  <2>1. all[i] \in Derived /\ Prefix(i) \in NamePrefixes /\ Prefix(i) \in Symbol
    BY <1>2, <1>3 DEF NamePrefixes, Symbol
  <2>2. /\ <<Prefix(i)>> \o all[i] \in Derived
        /\ <<Prefix(i)>> \o all[i] # <<>> /\ (<<Prefix(i)>> \o all[i])[1] = Prefix(i)
    BY <2>1 DEF Derived
  <2>3. <<Prefix(i)>> \o all[i] \notin ReservedFlags
    BY <1>3, <2>2, ReservedAssumption
  <2>4. QED
    BY <2>1, <2>2, <2>3 DEF ResolveGeneratedFlagName
<1>5. requests \in Seq(Requests) /\ Len(requests) = Len(all)
  <2>1. Len(all) \in Nat
    BY <1>2
  <2>2. \A i \in 1 .. Len(all) : requests[i] \in Requests
    BY <1>4 DEF Requests
  <2>3. QED
    BY <2>1, <2>2
<1>6. \A i \in 1 .. Len(all) :
        /\ requests[i].first \notin ReservedFlags
        /\ requests[i].prefix \in {"body", "param"}
  BY <1>3, <1>4
<1> HIDE DEF requests
<1>7. /\ flags \in Seq(Derived) /\ Len(flags) = Len(requests) /\ IsInjective(flags)
      /\ \A i \in 1 .. Len(requests) :
           flags[i] = requests[i].first \/ (flags[i] # <<>> /\ flags[i][1] = requests[i].prefix)
  BY <1>5, ClaimsAreDistinct
<1> HIDE DEF flags
<1>8. \A i \in 1 .. Len(flags) : flags[i] \notin ReservedFlags
  BY <1>5, <1>6, <1>7, ReservedAssumption
<1>9. QED
  BY <1>1, <1>2, <1>5, <1>7, <1>8 DEF ToSet

\* The fields of a request body have flags.
LEMMA FieldsAreFlagged ==
  ASSUME NEW op, \A field \in ToSet(RequestFields(op)) : field.flag \in Seq(Word)
  PROVE  Flagged(RequestFields(op))
<1>1. CASE RequestSchema(op) = <<>>
  <2>1. RequestFields(op) = <<>>
    BY <1>1 DEF RequestFields
  <2>2. QED
    BY <2>1 DEF Flagged
<1>2. CASE RequestSchema(op) # <<>>
  <2> DEFINE merged == Merged[RequestSchema(op)[1]]
             kept == {name \in DOMAIN merged.props : ~merged.props[name].ignored}
             order == Sorted(kept)
             Field(name) == BodyField(name, merged.props[name], BodyFieldType(merged.props[name]))
             fields == [i \in 1 .. Len(order) |-> Field(order[i])]
  <2>1. RequestFields(op) = fields
    BY <1>2 DEF RequestFields, BodyFields, FlaggedFields
  <2>2. \A name : "flag" \in DOMAIN Field(name)
    BY DEF BodyField
  <2> HIDE DEF kept, Field
  <2>3. order \in Seq(Name)
    BY NameOrderAssumption, OnlyFacts DEF Sorted
  <2> HIDE DEF order
  <2>4. /\ Len(fields) = Len(order) /\ Len(order) \in Nat
        /\ \A i \in 1 .. Len(order) : fields[i] = Field(order[i])
    BY <2>3
  <2>5. \A i \in 1 .. Len(order) : fields[i].flag \in Derived
    <3>1. \A i \in 1 .. Len(order) : fields[i] \in ToSet(fields)
      BY DEF ToSet
    <3> HIDE DEF fields
    <3>2. QED
      BY <2>1, <3>1, WordsAreDerived
  <2>6. DOMAIN fields = 1 .. Len(order)
    OBVIOUS
  <2> HIDE DEF fields
  <2>7. QED
    BY <2>1, <2>2, <2>4, <2>5, <2>6 DEF Flagged
<1>3. QED
  BY <1>1, <1>2

\* What is promised of the flags of one command.
DistinctFlags(fields, optional) ==
  LET flags == FlagsOf(fields) \o FlagsOf(optional)
  IN  IsInjective(flags) /\ ToSet(flags) \intersect ReservedFlags = {}

\* The flags of an operation's fields and optional parameters are what was claimed.
LEMMA OperationFlags ==
  ASSUME NumeralsDiffer, NEW fields, Flagged(fields), NEW optional \in Seq(Parameter)
  PROVE  LET flags == ReserveGeneratedFlagNames(FlagsOf(fields), FlagsOf(optional))
             moved == Reflagged(optional, SubSeq(flags, Len(fields) + 1, Len(flags)))
         IN  /\ DistinctFlags(Reflagged(fields, SubSeq(flags, 1, Len(fields))), moved)
             /\ moved \in Seq(Parameter)
             /\ IsInjective(FlagsOf(moved))
<1> DEFINE flags == ReserveGeneratedFlagNames(FlagsOf(fields), FlagsOf(optional))
           front == SubSeq(flags, 1, Len(fields))
           back == SubSeq(flags, Len(fields) + 1, Len(flags))
           moved == Reflagged(optional, back)
<1>1. Flagged(optional)
  <2>1. \A p \in Parameter : "flag" \in DOMAIN p /\ p.flag \in Derived
    BY DEF Parameter
  <2> HIDE DEF Parameter
  <2>2. Len(optional) \in Nat /\ DOMAIN optional = 1 .. Len(optional)
    OBVIOUS
  <2>3. \A i \in 1 .. Len(optional) : optional[i] \in Parameter
    OBVIOUS
  <2>4. QED
    BY <2>1, <2>2, <2>3 DEF Flagged
<1>2. /\ FlagsOf(fields) \in Seq(Derived) /\ Len(FlagsOf(fields)) = Len(fields)
      /\ FlagsOf(optional) \in Seq(Derived) /\ Len(FlagsOf(optional)) = Len(optional)
      /\ Len(fields) \in Nat /\ Len(optional) \in Nat
  BY <1>1 DEF FlagsOf, Flagged
<1>3. /\ flags \in Seq(Derived) /\ Len(flags) = Len(fields) + Len(optional)
      /\ IsInjective(flags) /\ ToSet(flags) \intersect ReservedFlags = {}
  BY <1>2, ReservedFlagsStayFree
<1> HIDE DEF flags
<1>4. /\ front \in Seq(Derived) /\ Len(front) = Len(fields)
      /\ \A i \in 1 .. Len(fields) : front[i] = flags[i]
  BY <1>2, <1>3
<1>5. /\ back \in Seq(Derived) /\ Len(back) = Len(optional)
      /\ \A i \in 1 .. Len(optional) : back[i] = flags[Len(fields) + i]
  BY <1>2, <1>3
<1> HIDE DEF front, back
<1>6. front \o back = flags
  <2>1. Len(fields) \in 0 .. Len(flags)
    BY <1>2, <1>3
  <2>2. QED
    BY <1>3, <2>1, SplitJoins DEF front, back
<1>7. FlagsOf(Reflagged(fields, front)) = front /\ FlagsOf(moved) = back
  BY <1>1, <1>4, <1>5, FlagsAreSet
<1>8. DistinctFlags(Reflagged(fields, front), moved)
  BY <1>3, <1>6, <1>7 DEF DistinctFlags
<1>9. moved \in Seq(Parameter)
  <2>1. ASSUME NEW i \in 1 .. Len(optional) PROVE [optional[i] EXCEPT !.flag = back[i]] \in Parameter
    <3>1. optional[i] \in Parameter /\ back[i] \in Derived
      BY <1>5
    <3>2. \A p \in Parameter, flag \in Derived : [p EXCEPT !.flag = flag] \in Parameter
      BY DEF Parameter
    <3>3. QED
      BY <3>1, <3>2
  <2>2. QED
    BY <1>2, <2>1 DEF Reflagged
<1>10. IsInjective(back)
  <2>1. ASSUME NEW i \in 1 .. Len(optional), NEW j \in 1 .. Len(optional), back[i] = back[j] PROVE i = j
    <3>1. Len(fields) + i \in 1 .. Len(flags) /\ Len(fields) + j \in 1 .. Len(flags)
      BY <1>2, <1>3
    <3>2. flags[Len(fields) + i] = flags[Len(fields) + j]
      BY <1>5, <2>1
    <3>3. Len(fields) + i = Len(fields) + j
      BY <1>3, <3>1, <3>2 DEF IsInjective
    <3>4. QED
      BY <1>2, <3>3
  <2>2. DOMAIN back = 1 .. Len(optional)
    BY <1>5
  <2>3. QED
    BY <2>1, <2>2 DEF IsInjective
<1>11. QED
  BY <1>7, <1>8, <1>9, <1>10 DEF front, back, flags

(***************************************************************************)
(* The arguments of one tool.                                              *)
(***************************************************************************)
RouteFields == {"arg", "name", "in", "flag", "positional", "required"}

\* A route as far as the claim of its name needs it.
IsRoute(route) ==
  DOMAIN route = RouteFields /\ route.arg \in Derived /\ route.in \in NamePrefixes

\* A route that is sent as one of the parameters the operation takes.
Reaches(route, required, optional) ==
  route.in # "body" =>
    IF route.positional THEN \E p \in ToSet(required) : Key(p) = Key(route)
    ELSE {Key(p) : p \in {q \in ToSet(optional) : q.flag = route.flag}} = {Key(route)}

\* The flag of an optional parameter is that of the last of its name and place.
LEMMA FlagForReaches ==
  ASSUME NEW optional \in Seq(Parameter), IsInjective(FlagsOf(optional)), NEW p,
         FlagFor(optional, p) # <<>>
  PROVE  {Key(q) : q \in {r \in ToSet(optional) : r.flag = FlagFor(optional, p)}} = {Key(p)}
<1> DEFINE wanted == {o \in ToSet(optional) : Key(o) = Key(p)}
           same == Only(optional, wanted)
<1>1. same \in Seq(Parameter) /\ ToSet(same) = wanted
  <2> HIDE DEF wanted
  <2>1. same \in Seq(Parameter) /\ ToSet(same) = ToSet(optional) \intersect wanted
    BY OnlyFacts
  <2>2. QED
    BY <2>1 DEF wanted
<1>2. same # <<>> /\ FlagFor(optional, p) = Last(same).flag
  BY DEF FlagFor
<1> HIDE DEF same
<1>3. Last(same) \in ToSet(same)
  BY <1>1, <1>2 DEF Last, ToSet
<1>4. PICK o \in ToSet(optional) : Key(o) = Key(p) /\ o.flag = FlagFor(optional, p)
  BY <1>1, <1>2, <1>3
<1>5. ASSUME NEW r \in ToSet(optional), r.flag = o.flag PROVE r = o
  <2>1. PICK i \in 1 .. Len(optional), j \in 1 .. Len(optional) : optional[i] = o /\ optional[j] = r
    BY DEF ToSet
  <2>2. /\ DOMAIN FlagsOf(optional) = 1 .. Len(optional)
        /\ FlagsOf(optional)[i] = o.flag /\ FlagsOf(optional)[j] = r.flag
    BY <2>1 DEF FlagsOf
  <2>3. QED
    BY <1>5, <2>1, <2>2 DEF IsInjective
<1>6. QED
  BY <1>4, <1>5

\* An argument for a parameter is sent as that parameter.
LEMMA ParamRoutesReach ==
  ASSUME NEW params \in Seq(Param), NEW optional \in Seq(Parameter), IsInjective(FlagsOf(optional)),
         NEW required,
         \A p \in ToSet(params) : p.required \/ p.in = "path" => \E q \in ToSet(required) : Key(q) = Key(p)
  PROVE  LET routes == AddParams(params, optional)
         IN  /\ IsList(routes) /\ DOMAIN routes = 1 .. Len(routes) /\ Len(routes) \in Nat
             /\ \A i \in 1 .. Len(routes) : IsRoute(routes[i]) /\ Reaches(routes[i], required, optional)
<1> DEFINE Added(p) == LET route == ParamRoute(optional, p)
                       IN  p.in # "cookie" /\ (route.required \/ route.flag # <<>>) /\ route.arg # <<>>
           kept == {p \in ToSet(params) : Added(p)}
           added == Only(params, kept)
           routes == AddParams(params, optional)
<1>1. routes = [i \in 1 .. Len(added) |-> ParamRoute(optional, added[i])]
  BY DEF AddParams
<1>2. added \in Seq(Param) /\ ToSet(added) = kept
  <2> HIDE DEF kept
  <2>1. added \in Seq(Param) /\ ToSet(added) = ToSet(params) \intersect kept
    BY OnlyFacts
  <2>2. QED
    BY <2>1 DEF kept
<1> HIDE DEF added, routes
<1>3. \A i \in 1 .. Len(added) : added[i] \in kept
  <2> HIDE DEF kept
  <2>1. DOMAIN added = 1 .. Len(added)
    BY <1>2
  <2>2. QED
    BY <1>2, <2>1 DEF ToSet
<1>4. ASSUME NEW p \in kept, p \in Param
      PROVE  IsRoute(ParamRoute(optional, p)) /\ Reaches(ParamRoute(optional, p), required, optional)
  <2> DEFINE route == ParamRoute(optional, p)
  <2>1. /\ DOMAIN route = RouteFields
        /\ route.arg = Slug(p.name) /\ route.in = p.in /\ route.name = p.name
        /\ route.flag = FlagFor(optional, p)
        /\ route.positional = (p.required \/ p.in = "path")
        /\ route.required = (p.required \/ p.in = "path")
    BY DEF ParamRoute, RouteFields
  <2>2. Added(p)
    BY <1>4
  <2> HIDE DEF route
  <2>3. route.required \/ route.flag # <<>>
    BY <2>2 DEF route
  <2>4. IsRoute(route)
    <3>1. Slug(p.name) \in Derived /\ p.in \in NamePrefixes
      BY <1>4, WordsAreDerived DEF Param, Name, Slug, NamePrefixes
    <3>2. QED
      BY <2>1, <3>1 DEF IsRoute
  <2>5. Key(route) = Key(p)
    BY <2>1 DEF Key
  <2>6. ASSUME route.positional PROVE Reaches(route, required, optional)
    <3>1. p \in ToSet(params) /\ (p.required \/ p.in = "path")
      BY <1>4, <2>1, <2>6
    <3>2. \E q \in ToSet(required) : Key(q) = Key(p)
      BY <3>1
    <3>3. QED
      BY <2>5, <2>6, <3>2 DEF Reaches
  <2>7. ASSUME ~route.positional PROVE Reaches(route, required, optional)
    <3>1. FlagFor(optional, p) # <<>>
      BY <2>1, <2>3, <2>7
    <3>2. {Key(q) : q \in {r \in ToSet(optional) : r.flag = FlagFor(optional, p)}} = {Key(p)}
      BY <3>1, FlagForReaches
    <3>3. QED
      BY <2>1, <2>5, <2>7, <3>2 DEF Reaches
  <2>8. QED
    BY <2>4, <2>6, <2>7 DEF route
<1> HIDE DEF kept
<1>5. Len(added) \in Nat /\ \A i \in 1 .. Len(added) : added[i] \in Param
  BY <1>2
<1>6. /\ Len(routes) = Len(added) /\ DOMAIN routes = 1 .. Len(added)
      /\ \A i \in 1 .. Len(added) : routes[i] = ParamRoute(optional, added[i])
  BY <1>1, <1>5
<1>7. IsList(routes)
  <2>1. routes = [i \in 1 .. Len(added) |-> routes[i]]
    BY <1>1, <1>6
  <2>2. QED
    BY <1>5, <2>1, TablesAreLists
<1>8. QED
  BY <1>3, <1>4, <1>5, <1>6, <1>7 DEF routes

\* The arguments for the body are sent in the body.
LEMMA BodyRoutesAreRoutes ==
  ASSUME NEW op
  PROVE  LET routes == AddBody(op)
         IN  /\ IsList(routes) /\ DOMAIN routes = 1 .. Len(routes) /\ Len(routes) \in Nat
             /\ \A i \in 1 .. Len(routes) : IsRoute(routes[i]) /\ routes[i].in = "body"
<1>1. ASSUME NEW arg \in Derived, NEW name, NEW required
      PROVE  LET route == [BodyRoute EXCEPT !.arg = arg, !.name = name, !.required = required]
             IN  IsRoute(route) /\ route.in = "body"
  BY DEF BodyRoute, IsRoute, RouteFields, NamePrefixes
<1>2. ASSUME NEW merged
      PROVE  LET routes == AddProperties(merged)
             IN  /\ IsList(routes) /\ DOMAIN routes = 1 .. Len(routes) /\ Len(routes) \in Nat
                 /\ \A i \in 1 .. Len(routes) : IsRoute(routes[i]) /\ routes[i].in = "body"
  <2> DEFINE kept == {name \in DOMAIN merged.props : ~merged.props[name].readOnly /\ Slug(name) # <<>>}
             fields == Sorted(kept)
             Made(name) == [BodyRoute EXCEPT !.arg = Slug(name), !.name = name,
                                             !.required = name \in merged.required]
             routes == [i \in 1 .. Len(fields) |-> Made(fields[i])]
  <2>1. AddProperties(merged) = routes
    BY DEF AddProperties
  <2> HIDE DEF kept
  <2>2. fields \in Seq(Name)
    BY NameOrderAssumption, OnlyFacts DEF Sorted
  <2> HIDE DEF fields
  <2>3. Len(fields) \in Nat /\ \A i \in 1 .. Len(fields) : Slug(fields[i]) \in Derived
    <3>1. \A name \in Name : Slug(name) \in Derived
      BY WordsAreDerived DEF Name, Slug
    <3>2. Len(fields) \in Nat /\ \A i \in 1 .. Len(fields) : fields[i] \in Name
      BY <2>2
    <3>3. QED
      BY <3>1, <3>2
  <2>4. \A i \in 1 .. Len(fields) : IsRoute(Made(fields[i])) /\ Made(fields[i]).in = "body"
    BY <1>1, <2>3
  <2> HIDE DEF Made
  <2>5. /\ Len(routes) = Len(fields) /\ DOMAIN routes = 1 .. Len(fields)
        /\ \A i \in 1 .. Len(fields) : routes[i] = Made(fields[i])
        /\ routes = [i \in 1 .. Len(fields) |-> routes[i]]
    BY <2>3
  <2> HIDE DEF routes
  <2>6. IsList(routes)
    BY <2>3, <2>5, TablesAreLists
  <2>7. QED
    BY <2>1, <2>3, <2>4, <2>5, <2>6
<1>3. LET route == [BodyRoute EXCEPT !.arg = <<"body">>, !.required = op.bodyRequired]
      IN  IsRoute(route) /\ route.in = "body"
  <2>1. <<"body">> \in Derived
    BY DEF Derived, Symbol, NamePrefixes
  <2>2. QED
    BY <2>1 DEF BodyRoute, IsRoute, RouteFields, NamePrefixes
<1>4. \/ \E merged : AddBody(op) = AddProperties(merged)
      \/ AddBody(op) = <<[BodyRoute EXCEPT !.arg = <<"body">>, !.required = op.bodyRequired]>>
      \/ AddBody(op) = <<>>
  BY DEF AddBody
<1>5. ASSUME NEW route, IsRoute(route) /\ route.in = "body"
      PROVE  LET routes == <<route>>
             IN  /\ IsList(routes) /\ DOMAIN routes = 1 .. Len(routes) /\ Len(routes) \in Nat
                 /\ \A i \in 1 .. Len(routes) : IsRoute(routes[i]) /\ routes[i].in = "body"
  BY <1>5 DEF IsList, ToSet
<1>6. CASE \E merged : AddBody(op) = AddProperties(merged)
  BY <1>2, <1>6
<1>7. CASE AddBody(op) = <<[BodyRoute EXCEPT !.arg = <<"body">>, !.required = op.bodyRequired]>>
  BY <1>3, <1>5, <1>7
<1>8. CASE AddBody(op) = <<>>
  BY <1>8 DEF IsList, ToSet
<1>9. QED
  BY <1>4, <1>6, <1>7, <1>8

\* Claiming changes the names of arguments only, and gives each its own.
LEMMA ClaimedRoutes ==
  ASSUME NumeralsDiffer, NEW routes, Len(routes) \in Nat, \A i \in 1 .. Len(routes) : IsRoute(routes[i])
  PROVE  LET claimed == ClaimArguments(routes)
         IN  /\ Len(claimed) = Len(routes) /\ DOMAIN claimed = 1 .. Len(routes)
             /\ \A i \in 1 .. Len(routes) :
                  /\ claimed[i].in = routes[i].in /\ claimed[i].name = routes[i].name
                  /\ claimed[i].flag = routes[i].flag /\ claimed[i].positional = routes[i].positional
             /\ \A i, j \in 1 .. Len(routes) : claimed[i].arg = claimed[j].arg => i = j
<1> DEFINE n == Len(routes)
           requests == [i \in 1 .. n |->
                          [first |-> routes[i].arg, prefix |-> routes[i].in, name |-> routes[i].arg]]
           names == ClaimAll(requests)
           claimed == [i \in 1 .. n |-> [routes[i] EXCEPT !.arg = names[i]]]
<1>1. ClaimArguments(routes) = claimed
  BY DEF ClaimArguments
<1>2. requests \in Seq(Requests) /\ Len(requests) = n
  <2>1. \A i \in 1 .. n : requests[i] \in Requests
    BY DEF IsRoute, Requests
  <2>2. QED
    BY <2>1
<1> HIDE DEF requests
<1>3. names \in Seq(Derived) /\ Len(names) = n /\ IsInjective(names)
  BY <1>2, ClaimsAreDistinct
<1>4. \A i, j \in 1 .. n : names[i] = names[j] => i = j
  BY <1>3 DEF IsInjective
<1> HIDE DEF names
<1>5. ASSUME NEW i \in 1 .. n
      PROVE  LET route == [routes[i] EXCEPT !.arg = names[i]]
             IN  /\ route.arg = names[i] /\ route.in = routes[i].in /\ route.name = routes[i].name
                 /\ route.flag = routes[i].flag /\ route.positional = routes[i].positional
  BY DEF IsRoute, RouteFields
<1>6. /\ Len(claimed) = n /\ DOMAIN claimed = 1 .. n
      /\ \A i \in 1 .. n : claimed[i] = [routes[i] EXCEPT !.arg = names[i]]
  OBVIOUS
<1> HIDE DEF claimed
<1>7. \A i \in 1 .. n :
        /\ claimed[i].arg = names[i]
        /\ claimed[i].in = routes[i].in /\ claimed[i].name = routes[i].name
        /\ claimed[i].flag = routes[i].flag /\ claimed[i].positional = routes[i].positional
  BY <1>5, <1>6
<1>8. \A i, j \in 1 .. n : claimed[i].arg = claimed[j].arg => i = j
  BY <1>4, <1>7
<1>9. QED
  BY <1>1, <1>6, <1>7, <1>8

\* What is promised of the arguments of one tool.
ArgumentsReach(routes, required, optional) ==
  /\ IsInjective([i \in 1 .. Len(routes) |-> routes[i].arg])
  /\ \A r \in ToSet(routes) : Reaches(r, required, optional)

\* The arguments of a tool, parameters and body together.
LEMMA ToolArguments ==
  ASSUME NumeralsDiffer, NEW item, item.params \in Seq(Param), NEW op, op.params \in Seq(Param),
         NEW optional \in Seq(Parameter), IsInjective(FlagsOf(optional)), NEW group, NEW leaf
  PROVE  ArgumentsReach(BuildMCPTool(item, op, group, leaf, optional).routes,
                        GetRequiredParams(GetParams(item, op)), optional)
<1> DEFINE params == McpParams(item, op)
           required == GetRequiredParams(GetParams(item, op))
           front == AddParams(params, optional)
           back == AddBody(op)
           all == front \o back
           claimed == ClaimArguments(all)
<1>1. BuildMCPTool(item, op, group, leaf, optional).routes = claimed
  BY DEF BuildMCPTool
<1>2. /\ params \in Seq(Param)
      /\ \A p \in ToSet(params) : p \in ToSet(item.params) \union ToSet(op.params) /\ ~p.ignored
  <2> DEFINE inherited == {p \in ToSet(item.params) : ~p.ignored /\ Key(p) \notin {Key(q) : q \in ToSet(op.params)}}
             own == {p \in ToSet(op.params) : ~p.ignored}
  <2>1. params = Only(item.params, inherited) \o Only(op.params, own)
    BY DEF McpParams
  <2> HIDE DEF inherited, own
  <2>2. /\ Only(item.params, inherited) \in Seq(Param)
        /\ ToSet(Only(item.params, inherited)) = ToSet(item.params) \intersect inherited
        /\ Only(op.params, own) \in Seq(Param)
        /\ ToSet(Only(op.params, own)) = ToSet(op.params) \intersect own
    BY OnlyFacts
  <2>3. ToSet(params) = (ToSet(item.params) \intersect inherited) \union (ToSet(op.params) \intersect own)
    BY <2>1, <2>2, SetOfConcatenated
  <2>4. params \in Seq(Param)
    BY <2>1, <2>2
  <2> HIDE DEF params
  <2>5. QED
    BY <2>3, <2>4 DEF inherited, own
<1>3. \A p \in ToSet(params) : p.required \/ p.in = "path" => \E q \in ToSet(required) : Key(q) = Key(p)
  <2> DEFINE gathered == GetParams(item, op)
             needed == {q \in ToSet(gathered) : q.required}
  <2>1. gathered \in Seq(Parameter)
    BY ParametersAreTyped
  <2>2. ToSet(required) = needed
    <3> HIDE DEF gathered, needed
    <3>1. ToSet(Only(gathered, needed)) = ToSet(gathered) \intersect needed
      BY <2>1, OnlyFacts
    <3>2. QED
      BY <3>1 DEF gathered, needed, GetRequiredParams
  <2>3. ASSUME NEW p \in ToSet(params), p.required \/ p.in = "path"
        PROVE  \E q \in ToSet(required) : Key(q) = Key(p)
    <3>1. PICK q \in ToSet(gathered) : Key(q) = Key(p) /\ q.required = (p.required \/ p.in = "path")
      BY <1>2, ParametersAreTyped
    <3>2. q \in needed
      BY <2>3, <3>1
    <3>3. QED
      BY <2>2, <3>1, <3>2
  <2>4. QED
    BY <2>3
<1> HIDE DEF params, required
<1>4. /\ IsList(front) /\ DOMAIN front = 1 .. Len(front)
      /\ \A i \in 1 .. Len(front) : IsRoute(front[i]) /\ Reaches(front[i], required, optional)
  BY <1>2, <1>3, ParamRoutesReach
<1>5. /\ IsList(back) /\ DOMAIN back = 1 .. Len(back)
      /\ \A i \in 1 .. Len(back) : IsRoute(back[i]) /\ Reaches(back[i], required, optional)
  BY BodyRoutesAreRoutes DEF Reaches
<1> HIDE DEF front, back
<1>6. Len(all) \in Nat /\ \A i \in 1 .. Len(all) : IsRoute(all[i]) /\ Reaches(all[i], required, optional)
  <2> DEFINE X == ToSet(front) \union ToSet(back)
  <2>1. \A r \in X : IsRoute(r) /\ Reaches(r, required, optional)
    BY <1>4, <1>5 DEF ToSet
  <2>2. front \in Seq(X) /\ back \in Seq(X)
    BY <1>4, <1>5, SeqMonotonic DEF IsList
  <2> HIDE DEF X
  <2>3. front \o back \in Seq(X)
    BY <2>2
  <2> HIDE DEF all
  <2>4. all \in Seq(X)
    BY <2>3 DEF all
  <2>5. QED
    BY <2>1, <2>4
<1> HIDE DEF all
<1>7. /\ Len(claimed) = Len(all) /\ DOMAIN claimed = 1 .. Len(all)
      /\ \A i \in 1 .. Len(all) :
           /\ claimed[i].in = all[i].in /\ claimed[i].name = all[i].name
           /\ claimed[i].flag = all[i].flag /\ claimed[i].positional = all[i].positional
      /\ \A i, j \in 1 .. Len(all) : claimed[i].arg = claimed[j].arg => i = j
  BY <1>6, ClaimedRoutes
<1> HIDE DEF claimed
<1>8. \A i \in 1 .. Len(all) : Reaches(claimed[i], required, optional)
  BY <1>6, <1>7 DEF Reaches, Key
<1>9. QED
  BY <1>1, <1>7, <1>8 DEF ArgumentsReach, IsInjective, ToSet, required

(***************************************************************************)
(* The words of groups and leaves. Whatever an operation is called, its    *)
(* tool's base name is words and within the limit.                         *)
(***************************************************************************)
LEMMA OwnWordsAreSymbols == OwnWords \subseteq Symbol /\ Word \subseteq Symbol
BY DEF Symbol, Word

LEMMA OneWord ==
  ASSUME NEW word \in Symbol
  PROVE  <<word>> \in Derived /\ Len(<<word>>) = 1
BY DEF Derived

\* A name has words, and so has the name of what has none.
Named(name) == Slug(name) \in Derived

LEMMA NamesHaveWords == Named(NoName) /\ \A name \in Name : Named(name)
<1>1. Named(NoName)
  BY DEF Named, NoName, Slug, Derived
<1>2. QED
  BY <1>1, WordsAreDerived DEF Named, Name, Slug

LEMMA RestIsWords ==
  ASSUME NEW X, NEW seq \in Seq(X), NEW n \in Nat
  PROVE  Rest(seq, n) \in Seq(X)
<1>1. \A i \in n + 1 .. Len(seq) : seq[i] \in X
  OBVIOUS
<1>2. QED
  BY <1>1, SubSeqProperties DEF Rest

LEMMA SingularIsWords ==
  ASSUME NEW words \in Derived
  PROVE  Singular(words) \in Derived
<1>1. CASE words # <<>> /\ Last(words) \in DOMAIN Singulars
  <2>1. Front(words) \in Derived
    BY <1>1, SubSeqProperties DEF Front, Derived
  <2>2. <<Singulars[Last(words)]>> \in Derived
    BY <1>1, SingularsAssumption, OwnWordsAreSymbols, OneWord
  <2>3. QED
    BY <1>1, <2>1, <2>2, ConcatProperties DEF Singular, Derived
<1>2. CASE ~(words # <<>> /\ Last(words) \in DOMAIN Singulars)
  BY <1>2 DEF Singular
<1>3. QED
  BY <1>1, <1>2

\* FlattenSeq of words is words.
LEMMA FlattenedIsWords ==
  ASSUME NEW seqs \in Seq(Derived)
  PROVE  FlattenSeq(seqs) \in Derived
<1> DEFINE n == Len(seqs)
           Flat(f) == f = [i \in 1 .. n |-> IF i = 1 THEN seqs[i] ELSE f[i - 1] \o seqs[i]]
           flat == CHOOSE f : Flat(f)
           step == [i \in 1 .. n |-> [t \in Derived |-> t \o seqs[i]]]
<1>1. CASE n = 0
  BY <1>1 DEF FlattenSeq, Derived
<1>2. CASE n # 0
  <2>1. FlattenSeq(seqs) = flat[n]
    BY <1>2 DEF FlattenSeq
  <2>2. n \in Nat /\ \A i \in 1 .. n : seqs[i] \in Derived
    OBVIOUS
  <2>3. <<>> \in Derived /\ \A s, t \in Derived : s \o t \in Derived
    BY ConcatProperties DEF Derived
  <2>4. step \in [1 .. n -> [Derived -> Derived]]
    BY <2>2, <2>3
  <2>5. \A i \in 1 .. n, t \in Derived : step[i][t] = t \o seqs[i]
    OBVIOUS
  <2> HIDE DEF step
  <2>6. PICK f \in [0 .. n -> Derived] : Takes(f, n, <<>>, step)
    BY <2>2, <2>3, <2>4, StepsAreTaken
  <2> DEFINE g == [i \in 1 .. n |-> f[i]]
  <2>7. \A i \in 1 .. n : g[i] = IF i = 1 THEN seqs[i] ELSE g[i - 1] \o seqs[i]
    <3>1. ASSUME NEW i \in 1 .. n PROVE f[i] = f[i - 1] \o seqs[i]
      <4>1. i - 1 \in 0 .. n /\ f[i - 1] \in Derived
        BY <2>2, <2>6
      <4>2. f[i] = step[i][f[i - 1]]
        BY <2>6 DEF Takes
      <4>3. QED
        BY <2>5, <4>1, <4>2
    <3>2. <<>> \o seqs[1] = seqs[1]
      BY <1>2, <2>2 DEF Derived
    <3>3. f[0] = <<>>
      BY <2>6 DEF Takes
    <3>4. QED
      BY <2>2, <3>1, <3>2, <3>3
  <2>8. Flat(g)
    BY <2>7
  <2>9. Flat(flat)
    BY <2>8
  <2>10. \A i \in 1 .. n : flat[i] = IF i = 1 THEN seqs[i] ELSE flat[i - 1] \o seqs[i]
    BY <2>9
  <2> HIDE DEF flat, Flat, n
  <2> DEFINE Good == {i \in Nat : i + 1 \in 1 .. n => flat[i + 1] \in Derived}
  <2>11. 0 \in Good
    BY <1>2, <2>2, <2>10
  <2>12. \A i \in Nat : i \in Good => i + 1 \in Good
    <3>1. SUFFICES ASSUME NEW i \in Nat, i \in Good, i + 2 \in 1 .. n PROVE flat[i + 2] \in Derived
      OBVIOUS
    <3>2. i + 1 \in 1 .. n /\ i + 2 # 1 /\ i + 2 - 1 = i + 1
      BY <2>2, <3>1
    <3>3. flat[i + 2] = flat[i + 1] \o seqs[i + 2]
      <4>1. flat[i + 2] = IF i + 2 = 1 THEN seqs[i + 2] ELSE flat[i + 2 - 1] \o seqs[i + 2]
        BY <2>10, <3>1
      <4>2. QED
        BY <3>2, <4>1
    <3>4. flat[i + 1] \in Derived
      BY <3>1, <3>2 DEF Good
    <3>5. QED
      BY <2>2, <2>3, <3>1, <3>3, <3>4
  <2> HIDE DEF Good
  <2>13. n - 1 \in Good
    BY <1>2, <2>2, <2>11, <2>12, SetInduction
  <2>14. QED
    BY <1>2, <2>1, <2>2, <2>13 DEF Good
<1>3. QED
  BY <1>1, <1>2

\* The slugs of a path's segments.
LEMMA SlugsOfPath ==
  ASSUME NEW path \in Seq(Segment)
  PROVE  [i \in 1 .. Len(path) |-> Slug(path[i].name)] \in Seq(Derived)
<1>1. \A i \in 1 .. Len(path) : path[i].name \in Name
  <2>1. \A i \in 1 .. Len(path) : path[i] \in Segment
    OBVIOUS
  <2>2. QED
    BY <2>1 DEF Segment
<1>2. \A i \in 1 .. Len(path) : Slug(path[i].name) \in Derived
  BY <1>1, NamesHaveWords DEF Named
<1>3. QED
  BY <1>2

LEMMA OperationNameIsWords ==
  ASSUME NEW method \in Word, NEW path \in Seq(Segment), NEW id \in Name
  PROVE  Named(OperationName(method, path, id))
<1> DEFINE slugs == [i \in 1 .. Len(path) |-> Slug(path[i].name)]
<1>1. FlattenSeq(slugs) \in Derived
  BY SlugsOfPath, FlattenedIsWords
<1> HIDE DEF slugs
<1>2. <<method>> \o FlattenSeq(slugs) \in Derived
  BY <1>1, OwnWordsAreSymbols, OneWord, ConcatProperties DEF Derived
<1>3. QED
  BY <1>2, NamesHaveWords DEF OperationName, Named, Slug, slugs

LEMMA GroupIsWords ==
  ASSUME NEW path \in Seq(Segment), NEW group \in Name, NEW tags \in Seq(Name),
         NEW tagNames, \A tag \in DOMAIN tagNames : tagNames[tag] \in Name
  PROVE  ResolveCommandGroup(path, group, tags, tagNames) \in Derived
<1>1. Named(InferGroupFromPath(path))
  <2> DEFINE nouns == Only(path, {s \in ToSet(path) : s.kind = "static" /\ ~IsVersionToken(s)})
  <2>1. nouns \in Seq(Segment)
    BY OnlyFacts
  <2>2. InferGroupFromPath(path) = IF nouns = <<>> THEN NoName ELSE nouns[1].name
    BY DEF InferGroupFromPath
  <2> HIDE DEF nouns
  <2>3. nouns # <<>> => nouns[1] \in Segment
    BY <2>1
  <2>4. nouns # <<>> => nouns[1].name \in Name
    BY <2>3 DEF Segment
  <2>5. QED
    BY <2>2, <2>4, NamesHaveWords
<1>2. Named(GroupName(path, group, tags))
  <2>1. tags # <<>> => Head(tags) \in Name
    OBVIOUS
  <2>2. QED
    BY <1>1, <2>1, NamesHaveWords DEF GroupName
<1>3. QED
  BY <1>2, NamesHaveWords DEF ResolveCommandGroup, Named

LEMMA TrimmedIsWords ==
  ASSUME NEW leaf \in Derived, NEW group \in Derived
  PROVE  /\ TrimGroupPrefix(leaf, group) \in Derived
         /\ TrimGroupedNounAfterVerb(leaf, group) \in Derived
<1>1. ASSUME NEW stem \in Derived PROVE Trims(leaf, stem) \in Seq(Derived)
  <2>1. IsStrictPrefix(stem, leaf) => SubSeq(leaf, Len(stem) + 1, Len(leaf)) \in Derived
    BY SubSeqProperties DEF Derived
  <2>2. IsStrictSuffix(stem, leaf) => SubSeq(leaf, 1, Len(leaf) - Len(stem)) \in Derived
    BY SubSeqProperties DEF Derived
  <2>3. QED
    BY <2>1, <2>2, ConcatProperties DEF Trims
<1>2. TrimGroupPrefix(leaf, group) \in Derived
  <2> DEFINE trims == Trims(leaf, group) \o Trims(leaf, Singular(group)) \o <<leaf>>
  <2>1. trims \in Seq(Derived) /\ trims # <<>>
    <3>1. Trims(leaf, group) \in Seq(Derived) /\ Trims(leaf, Singular(group)) \in Seq(Derived)
      BY <1>1, SingularIsWords
    <3>2. <<leaf>> \in Seq(Derived) /\ Len(<<leaf>>) = 1
      OBVIOUS
    <3> DEFINE front == Trims(leaf, group) \o Trims(leaf, Singular(group))
    <3>3. front \in Seq(Derived)
      BY <3>1, ConcatProperties
    <3> HIDE DEF front
    <3>4. front \o <<leaf>> \in Seq(Derived) /\ Len(front \o <<leaf>>) = Len(front) + 1
      BY <3>2, <3>3, ConcatProperties
    <3>5. QED
      BY <3>3, <3>4 DEF front
  <2> HIDE DEF trims
  <2>2. Head(trims) \in Derived
    BY <2>1, HeadTailProperties
  <2>3. QED
    BY <2>2 DEF TrimGroupPrefix, trims
<1>3. TrimGroupedNounAfterVerb(leaf, group) \in Derived
  <2>1. Len(leaf) >= 2 => RemoveAt(leaf, 2) \in Derived
    BY SubSeqProperties, ConcatProperties DEF RemoveAt, Derived
  <2>2. QED
    BY <2>1 DEF TrimGroupedNounAfterVerb
<1>4. QED
  BY <1>2, <1>3

LEMMA NormalizedLeafIsWords ==
  ASSUME NEW leaf \in Derived
  PROVE  NormalizeGroupedLeafName(leaf) \in Derived
<1>1. Rest(leaf, 1) \in Derived /\ Rest(leaf, 2) \in Derived
  BY RestIsWords DEF Derived
<1>2. <<"list">> \in Derived /\ <<"get">> \in Derived
  BY OwnWordsAreSymbols, OneWord DEF OwnWords
<1>3. /\ <<"list">> \o Rest(leaf, 2) \in Derived
      /\ <<"get">> \o Rest(leaf, 2) \in Derived /\ <<"get">> \o Rest(leaf, 1) \in Derived
  BY <1>1, <1>2, ConcatProperties DEF Derived
<1>4. QED
  BY <1>1, <1>3 DEF NormalizeGroupedLeafName

LEMMA LeafBelowIsWords ==
  ASSUME NEW method, NEW path, NEW below \in Seq(Derived)
  PROVE  LeafBelow(method, path, below) \in Derived
<1> DEFINE joined == FlattenSeq(below)
<1>1. joined \in Derived /\ Singular(joined) \in Derived
  BY FlattenedIsWords, SingularIsWords
<1>2. below # <<>> => Last(below) \in Derived
  BY DEF Last
<1> HIDE DEF joined
<1>3. \A verb \in {"get", "list", "create", "update", "delete"} :
        <<verb>> \in Derived /\ <<verb>> \o joined \in Derived /\ <<verb>> \o Singular(joined) \in Derived
  <2>1. ASSUME NEW verb \in {"get", "list", "create", "update", "delete"} PROVE <<verb>> \in Derived
    BY OwnWordsAreSymbols, OneWord DEF OwnWords
  <2>2. QED
    BY <1>1, <2>1, ConcatProperties DEF Derived
<1>4. QED
  BY <1>1, <1>2, <1>3 DEF LeafBelow, joined

LEMMA InferredLeafIsWords ==
  ASSUME NEW method, NEW path \in Seq(Segment), NEW group
  PROVE  InferLeafFromPath(method, path, group) \in Derived
<1> DEFINE static == Only(path, {s \in ToSet(path) : s.kind # "param" /\ ~IsVersionToken(s)})
           all == [i \in 1 .. Len(static) |-> Slug(static[i].name)]
           places == {i \in 1 .. Len(all) : all[i] \in GroupForms(group)}
           first == CHOOSE i \in places : \A j \in places : i <= j
           below == IF places = {} THEN all ELSE Rest(all, first)
<1>1. static \in Seq(Segment)
  BY OnlyFacts
<1>2. all \in Seq(Derived)
  BY <1>1, SlugsOfPath
<1>3. InferLeafFromPath(method, path, group) = LeafBelow(method, path, below)
  BY DEF InferLeafFromPath
<1> HIDE DEF static, all
<1>4. places # {} => first \in Nat
  <2>1. places \subseteq Nat
    OBVIOUS
  <2> HIDE DEF places
  <2>2. ASSUME places # {} PROVE \E i \in places : \A j \in places : i <= j
    BY <2>1, <2>2, LeastExists
  <2>3. QED
    BY <2>1, <2>2
<1>5. below \in Seq(Derived)
  BY <1>2, <1>4, RestIsWords
<1> HIDE DEF below
<1>6. QED
  BY <1>3, <1>5, LeafBelowIsWords

LEMMA GroupedLeafIsWords ==
  ASSUME NEW name \in Derived, NEW method \in Word, NEW path \in Seq(Segment), NEW group \in Derived,
         NEW explicit
  PROVE  GroupedLeaf(name, method, path, group, explicit) \in Derived
<1>1. TrimGroupPrefix(name, group) \in Derived
  BY TrimmedIsWords
<1> DEFINE once == NormalizeGroupedLeafName(TrimGroupPrefix(name, group))
<1>2. once \in Derived
  BY <1>1, NormalizedLeafIsWords
<1> HIDE DEF once
<1>3. TrimGroupPrefix(once, group) \in Derived
  BY <1>2, TrimmedIsWords
<1>4. TrimGroupedNounAfterVerb(TrimGroupPrefix(once, group), group) \in Derived
  BY <1>3, TrimmedIsWords
<1>5. InferGroupedLeafName(name, method, path, group, explicit) \in Derived
  BY <1>4, InferredLeafIsWords DEF InferGroupedLeafName, once
<1>6. <<method>> \in Derived
  BY OwnWordsAreSymbols, OneWord
<1>7. QED
  BY <1>5, <1>6 DEF GroupedLeaf

LEMMA ToolNameFits ==
  ASSUME NEW group \in Derived, NEW leaf \in Derived
  PROVE  Fits(McpToolName(group, leaf))
<1> DEFINE moved == IF group = <<"mcp">> THEN <<"mcp", "group">> ELSE group
           words == moved \o leaf
<1>1. moved \in Derived
  <2>1. \A first, second \in Symbol : <<first, second>> \in Derived
    BY DEF Derived
  <2>2. QED
    BY <2>1, OwnWordsAreSymbols DEF OwnWords
<1> HIDE DEF moved
<1>2. words \in Derived
  BY <1>1, ConcatProperties DEF Derived
<1>3. McpToolName(group, leaf) = SanitizeToolName(words)
  BY DEF McpToolName, moved
<1> HIDE DEF words
<1>4. <<"tool">> \in Derived /\ Len(<<"tool">>) = 1
  BY OwnWordsAreSymbols, OneWord DEF OwnWords
<1>5. Len(words) > MaxName => Fits(SubSeq(words, 1, MaxName))
  BY <1>2, MaxNameAssumption, SubSeqProperties DEF Fits, Derived
<1>6. QED
  BY <1>2, <1>3, <1>4, <1>5, MaxNameAssumption DEF SanitizeToolName, Fits, Derived

LEMMA BaseNameFits ==
  ASSUME NEW item, item.path \in Seq(Segment), NEW op, IsOperation(op),
         \A tag \in DOMAIN doc.tagNames : doc.tagNames[tag] \in Name
  PROVE  Fits(BuildOperation(item, op).tool.name)
<1> DEFINE name == OperationName(op.method, item.path, op.id)
           leafName == IF op.name # NoName THEN Slug(op.name) ELSE Slug(name)
           group == ResolveCommandGroup(item.path, op.group, op.tags, doc.tagNames)
           leaf == IF group = <<>> THEN leafName
                   ELSE GroupedLeaf(leafName, op.method, item.path, group, op.name # NoName)
<1>1. leafName \in Derived /\ group \in Derived
  BY OperationNameIsWords, GroupIsWords, NamesHaveWords DEF IsOperation, Named
<1>2. BuildOperation(item, op).tool.name = McpToolName(group, leaf)
  BY DEF BuildOperation, OperationWithFields, BuildMCPTool
<1> HIDE DEF group, leafName
<1>3. leaf \in Derived
  BY <1>1, GroupedLeafIsWords DEF IsOperation
<1> HIDE DEF leaf
<1>4. QED
  BY <1>1, <1>2, <1>3, ToolNameFits

(***************************************************************************)
(* Schemas whose compositions come to an end, and what is defined along    *)
(* them.                                                                   *)
(***************************************************************************)
IsRecord(schema) ==
  DOMAIN schema = DOMAIN AnySchema /\ IsSchema(schema) /\ schema.id \in Node \union {NoNode}

LEMMA NodesAreRecords == \A n \in Node : IsRecord(Graph[n])
BY GraphAssumption DEF IsRecord

LEMMA ElementsOf ==
  ASSUME NEW X, NEW seq \in Seq(X)
  PROVE  /\ ToSet(seq) \subseteq X
         /\ \A i \in 1 .. Len(seq) : seq[i] \in ToSet(seq)
         /\ \A x \in ToSet(seq) : \E i \in 1 .. Len(seq) : seq[i] = x
         /\ seq = <<>> <=> ToSet(seq) = {}
<1>1. DOMAIN seq = 1 .. Len(seq) /\ Len(seq) \in Nat
  OBVIOUS
<1>2. \A i \in 1 .. Len(seq) : seq[i] \in X
  OBVIOUS
<1>3. seq # <<>> => 1 \in 1 .. Len(seq)
  OBVIOUS
<1>4. seq = <<>> => 1 .. Len(seq) = {}
  OBVIOUS
<1>5. ToSet(seq) = {seq[i] : i \in 1 .. Len(seq)}
  BY <1>1 DEF ToSet
<1>6. QED
  BY <1>2, <1>3, <1>4, <1>5

LEMMA BranchesOf ==
  ASSUME NEW s, IsSchema(s)
  PROVE  /\ s.allOf \in Seq(Node) /\ s.oneOf \in Seq(Node) /\ s.anyOf \in Seq(Node)
         /\ s.items \in Seq(Node) /\ s.more \in Seq(Node)
         /\ Either(s) \in Seq(Node) /\ s.anyOf \o s.oneOf \in Seq(Node)
         /\ ToSet(Either(s)) = ToSet(s.oneOf) \union ToSet(s.anyOf)
         /\ ToSet(s.anyOf \o s.oneOf) = ToSet(s.oneOf) \union ToSet(s.anyOf)
         /\ Branches(s) = ToSet(s.allOf) \union ToSet(s.oneOf) \union ToSet(s.anyOf)
         /\ Branches(s) \subseteq Node
         /\ \A name \in DOMAIN s.props : s.props[name] \in Node
<1>1. s.allOf \in Seq(Node) /\ s.oneOf \in Seq(Node) /\ s.anyOf \in Seq(Node)
      /\ s.items \in Seq(Node) /\ s.more \in Seq(Node)
  BY DEF IsSchema
<1>2. Either(s) \in Seq(Node) /\ ToSet(Either(s)) = ToSet(s.oneOf) \union ToSet(s.anyOf)
  BY <1>1, SetOfConcatenated DEF Either
<1>3. s.anyOf \o s.oneOf \in Seq(Node) /\ ToSet(s.anyOf \o s.oneOf) = ToSet(s.oneOf) \union ToSet(s.anyOf)
  BY <1>1, SetOfConcatenated
<1>4. Branches(s) \subseteq Node /\ \A name \in DOMAIN s.props : s.props[name] \in Node
  BY DEF IsSchema, Children, Range
<1>5. QED
  BY <1>1, <1>2, <1>3, <1>4 DEF Branches

Most == Cardinality(Node)
NestedIn(below) == {n \in Node : Branches(Graph[n]) \subseteq below}

LEMMA NestedSteps ==
  /\ Most \in Nat /\ Nested[Most] = Node /\ Nested[0] = {}
  /\ \A k \in 1 .. Most : Nested[k] = NestedIn(Nested[k - 1])
<1>1. Most \in Nat /\ Nested[Most] = Node
  BY CompositionsEnd, FS_CardinalityType DEF Most
<1> DEFINE V == SUBSET Node
           start == {}
           step == [k \in 1 .. Most |-> [below \in V |-> NestedIn(below)]]
           Solves(f) == f = [k \in 0 .. Most |-> IF k = 0 THEN {} ELSE LET below == f[k - 1] IN {n \in Node : Branches(Graph[n]) \subseteq below}]
<1>2. step \in [1 .. Most -> [V -> V]] /\ start \in V
  BY DEF NestedIn
<1>3. \A k \in 1 .. Most, below \in V : step[k][below] = NestedIn(below)
  OBVIOUS
<1> HIDE DEF V, start, step
<1>4. PICK f \in [0 .. Most -> V] : Takes(f, Most, start, step)
  BY <1>1, <1>2, StepsAreTaken
<1>5. \A k \in 1 .. Most : k - 1 \in 0 .. Most /\ f[k] = NestedIn(f[k - 1])
  BY <1>1, <1>3, <1>4 DEF Takes
<1>6. Solves(f)
  <2>1. f[0] = {}
    BY <1>4 DEF Takes, start
  <2>2. \A k \in 0 .. Most : f[k] = IF k = 0 THEN {} ELSE {n \in Node : Branches(Graph[n]) \subseteq f[k - 1]}
    BY <1>1, <1>5, <2>1 DEF NestedIn
  <2>3. QED
    BY <2>2
<1>7. Solves(Nested)
  <2> HIDE DEF Solves
  <2>1. Nested = CHOOSE f1 : Solves(f1)
    BY DEF Nested, Solves, Most
  <2>2. QED
    BY <1>6, <2>1
<1>8. \A k \in 0 .. Most : Nested[k] = IF k = 0 THEN {} ELSE NestedIn(Nested[k - 1])
  BY <1>7 DEF NestedIn
<1>9. QED
  BY <1>1, <1>8

\* What holds of a schema when it holds of its branches holds of every one.
LEMMA BranchInduction ==
  ASSUME NEW T, \A n \in Node : Branches(Graph[n]) \subseteq T => n \in T
  PROVE  Node \subseteq T
<1> DEFINE Reached == {k \in Nat : k <= Most => Nested[k] \subseteq T}
<1>1. 0 \in Reached
  BY NestedSteps
<1>2. ASSUME NEW k \in Nat, k \in Reached PROVE k + 1 \in Reached
  <2>1. k + 1 <= Most => Nested[k + 1] = NestedIn(Nested[k])
    BY NestedSteps
  <2>2. QED
    BY <1>2, <2>1, NestedSteps DEF NestedIn
<1> HIDE DEF Reached
<1>3. Most \in Reached
  BY <1>1, <1>2, NestedSteps, SetInduction
<1>4. QED
  BY <1>3, NestedSteps DEF Reached

LEMMA NestedGrows == \A k \in 1 .. Most : Nested[k - 1] \subseteq Nested[k]
<1> DEFINE Reached == {k \in Nat : k + 1 <= Most => Nested[k] \subseteq Nested[k + 1]}
<1>1. 0 \in Reached
  BY NestedSteps
<1>2. ASSUME NEW k \in Nat, k \in Reached PROVE k + 1 \in Reached
  <2>1. SUFFICES ASSUME k + 2 <= Most PROVE Nested[k + 1] \subseteq Nested[k + 1 + 1]
    OBVIOUS
  <2>2. Nested[k] \subseteq Nested[k + 1]
    BY <1>2, <2>1, NestedSteps
  <2>3. k + 1 \in 1 .. Most /\ k + 1 + 1 \in 1 .. Most /\ (k + 1) - 1 = k /\ (k + 1 + 1) - 1 = k + 1
    BY <2>1, NestedSteps
  <2>4. Nested[k + 1] = NestedIn(Nested[k]) /\ Nested[k + 1 + 1] = NestedIn(Nested[k + 1])
    BY <2>3, NestedSteps
  <2>5. QED
    BY <2>2, <2>4 DEF NestedIn
<1> HIDE DEF Reached
<1>3. Nat \subseteq Reached
  BY <1>1, <1>2, SetInduction
<1>4. ASSUME NEW k \in 1 .. Most PROVE k - 1 \in Nat /\ (k - 1) + 1 = k /\ k <= Most
  BY NestedSteps
<1>5. QED
  BY <1>3, <1>4 DEF Reached

(***************************************************************************)
(* The functions that recur along compositions solve their definitions.    *)
(***************************************************************************)
LEMMA NonNullBranches ==
  ASSUME NEW s, IsSchema(s)
  PROVE  /\ NonNull(s) \in Seq(Node)
         /\ ToSet(NonNull(s)) = {b \in ToSet(s.oneOf) \union ToSet(s.anyOf) : ~Is(Graph[b], "null")}
         /\ Len(NonNull(s)) = 1 =>
              /\ NonNull(s)[1] \in Branches(s)
              /\ ToSet(NonNull(s)) = {NonNull(s)[1]}
<1> DEFINE branches == s.anyOf \o s.oneOf
           kind == {b \in ToSet(branches) : ~Is(Graph[b], "null")}
<1>1. NonNull(s) \in Seq(Node) /\ ToSet(NonNull(s)) = {b \in ToSet(s.oneOf) \union ToSet(s.anyOf) : ~Is(Graph[b], "null")}
  <2>1. branches \in Seq(Node) /\ ToSet(branches) = ToSet(s.oneOf) \union ToSet(s.anyOf)
    BY BranchesOf
  <2>2. kind = {b \in ToSet(s.oneOf) \union ToSet(s.anyOf) : ~Is(Graph[b], "null")}
    BY <2>1
  <2>3. NonNull(s) = Only(branches, kind)
    BY DEF NonNull
  <2> HIDE DEF branches, kind
  <2>4. Only(branches, kind) \in Seq(Node) /\ ToSet(Only(branches, kind)) = ToSet(branches) \intersect kind
    BY <2>1, OnlyFacts
  <2>5. QED
    BY <2>1, <2>2, <2>3, <2>4
<1> HIDE DEF branches, kind
<1>2. ToSet(NonNull(s)) \subseteq Branches(s)
  BY <1>1, BranchesOf
<1> DEFINE kept == NonNull(s)
<1>3. kept \in Seq(Node)
  BY <1>1
<1> HIDE DEF kept
<1>4. Len(kept) = 1 => kept[1] \in ToSet(kept) /\ ToSet(kept) = {kept[1]}
  BY <1>3, ElementsOf
<1>5. QED
  BY <1>1, <1>2, <1>4 DEF kept

LEMMA EffectiveReads ==
  ASSUME NEW s, IsSchema(s), NEW f, NEW g, \A b \in Branches(s) : f[b] = g[b]
  PROVE  EffectiveWith(s, f) = EffectiveWith(s, g)
<1>1. Len(NonNull(s)) = 1 => f[NonNull(s)[1]] = g[NonNull(s)[1]]
  BY NonNullBranches
<1>2. CASE Len(NonNull(s)) = 1
  BY <1>1, <1>2 DEF EffectiveWith, Collapsed, NonNull
<1>3. CASE Len(NonNull(s)) # 1
  BY <1>3 DEF EffectiveWith, Collapsed, NonNull
<1>4. QED
  BY <1>2, <1>3

LEMMA EffectiveIsDefined == Effective = [n \in Node |-> EffectiveWith(Graph[n], Effective)]
<1> DEFINE Solves(f, k) == f = [n \in Nested[k] |-> EffectiveWith(Graph[n], f)]
           Reached == {k \in Nat : k <= Most => \E f : Solves(f, k)}
<1>1. 0 \in Reached
  <2>1. Solves(<<>>, 0)
    BY NestedSteps
  <2> HIDE DEF Solves
  <2>2. QED
    BY <2>1
<1>2. ASSUME NEW k \in Nat, k \in Reached PROVE k + 1 \in Reached
  <2>1. SUFFICES ASSUME k + 1 <= Most PROVE \E f : Solves(f, k + 1)
    OBVIOUS
  <2>2. PICK f : Solves(f, k)
    <3> HIDE DEF Solves
    <3>1. QED
      BY <1>2, <2>1, NestedSteps
  <2>3. /\ k + 1 \in 1 .. Most /\ (k + 1) - 1 = k
        /\ Nested[k] \subseteq Nested[k + 1] /\ Nested[k + 1] = NestedIn(Nested[k])
    BY <2>1, NestedSteps, NestedGrows
  <2> DEFINE g == [n \in Nested[k + 1] |-> EffectiveWith(Graph[n], f)]
  <2>4. \A n \in Nested[k] : f[n] = EffectiveWith(Graph[n], f)
    BY <2>2
  <2>5. \A n \in Nested[k] : g[n] = f[n]
    BY <2>3, <2>4
  <2> HIDE DEF g
  <2>6. ASSUME NEW n \in Nested[k + 1] PROVE EffectiveWith(Graph[n], f) = EffectiveWith(Graph[n], g)
    <3>1. IsSchema(Graph[n]) /\ \A b \in Branches(Graph[n]) : f[b] = g[b]
      BY <2>3, <2>5, NodesAreRecords DEF NestedIn, IsRecord
    <3>2. QED
      BY <3>1, EffectiveReads
  <2>7. Solves(g, k + 1)
    BY <2>6 DEF g
  <2> HIDE DEF Solves
  <2>8. QED
    BY <2>7
<1> HIDE DEF Reached
<1>3. Most \in Reached
  BY <1>1, <1>2, NestedSteps, SetInduction
<1>4. \E f : Solves(f, Most)
  <2> HIDE DEF Solves
  <2>1. QED
    BY <1>3, NestedSteps DEF Reached
<1> DEFINE Whole(f) == f = [n \in Node |-> EffectiveWith(Graph[n], f)]
<1>5. \E f : Whole(f)
  BY <1>4, NestedSteps
<1>6. Effective = CHOOSE f : Whole(f)
  BY DEF Effective
<1>7. Whole(Effective)
  <2> HIDE DEF Whole
  <2>1. QED
    BY <1>5, <1>6
<1>8. QED
  BY <1>7

\* No universe holds every flattened object, so the merge is defined the same way.
LEMMA AlternativesReads ==
  ASSUME NEW s, IsSchema(s), NEW f, NEW g, \A b \in Branches(s) : f[b] = g[b]
  PROVE  /\ Alternatives(s, f) = Alternatives(s, g)
         /\ Alternatives(s, f) \in Seq(Node)
         /\ ToSet(Alternatives(s, f)) = {b \in ToSet(s.oneOf) \union ToSet(s.anyOf) : ~Is(f[b], "null")}
<1>1. \A b \in ToSet(Either(s)) : b \in Branches(s) /\ f[b] = g[b]
  BY BranchesOf
<1>2. {b \in ToSet(Either(s)) : ~Is(f[b], "null")} = {b \in ToSet(Either(s)) : ~Is(g[b], "null")}
  BY <1>1 DEF Is
<1>3. Alternatives(s, f) = Alternatives(s, g)
  BY <1>2 DEF Alternatives
<1>4. Either(s) \in Seq(Node) /\ ToSet(Either(s)) = ToSet(s.oneOf) \union ToSet(s.anyOf)
  BY BranchesOf
<1>5. QED
  BY <1>3, <1>4, OnlyFacts DEF Alternatives

\* The branches of a composition, flattened.
AllFlat(s, flat) == [i \in 1 .. Len(s.allOf) |-> flat[s.allOf[i]]]
UnionFlat(s, flat) == [i \in 1 .. Len(Alternatives(s, flat)) |-> flat[Alternatives(s, flat)[i]]]

LEMMA MergeReads ==
  ASSUME NEW s, IsSchema(s), NEW f, NEW g, \A b \in Branches(s) : f[b] = g[b]
  PROVE  MergeWith(s, f) = MergeWith(s, g)
<1>1. /\ Alternatives(s, f) = Alternatives(s, g)
      /\ Alternatives(s, f) \in Seq(Node)
      /\ ToSet(Alternatives(s, f)) \subseteq Branches(s)
  BY AlternativesReads, BranchesOf
<1> DEFINE alternatives == Alternatives(s, f)
<1>2. \A i \in 1 .. Len(alternatives) : alternatives[i] \in Branches(s)
  <2>1. alternatives \in Seq(Node) /\ ToSet(alternatives) \subseteq Branches(s)
    BY <1>1
  <2> HIDE DEF alternatives
  <2>2. QED
    BY <2>1, ElementsOf
<1>3. \A i \in 1 .. Len(s.allOf) : s.allOf[i] \in Branches(s)
  BY BranchesOf, ElementsOf
<1>4. UnionFlat(s, f) = UnionFlat(s, g)
  <2> HIDE DEF alternatives
  <2>1. [i \in 1 .. Len(alternatives) |-> f[alternatives[i]]] = [i \in 1 .. Len(alternatives) |-> g[alternatives[i]]]
    BY <1>2
  <2>2. QED
    BY <1>1, <2>1 DEF UnionFlat, alternatives
<1>5. AllFlat(s, f) = AllFlat(s, g)
  BY <1>3 DEF AllFlat
<1>6. QED
  BY <1>4, <1>5 DEF MergeWith, UnionFlat, AllFlat

LEMMA MergedIsDefined == Merged = [n \in Node |-> MergeWith(Graph[n], Merged)]
<1> DEFINE Solves(f, k) == f = [n \in Nested[k] |-> MergeWith(Graph[n], f)]
           Reached == {k \in Nat : k <= Most => \E f : Solves(f, k)}
<1>1. 0 \in Reached
  <2>1. Solves(<<>>, 0)
    BY NestedSteps
  <2> HIDE DEF Solves
  <2>2. QED
    BY <2>1
<1>2. ASSUME NEW k \in Nat, k \in Reached PROVE k + 1 \in Reached
  <2>1. SUFFICES ASSUME k + 1 <= Most PROVE \E f : Solves(f, k + 1)
    OBVIOUS
  <2>2. PICK f : Solves(f, k)
    <3> HIDE DEF Solves
    <3>1. QED
      BY <1>2, <2>1, NestedSteps
  <2>3. /\ k + 1 \in 1 .. Most /\ (k + 1) - 1 = k
        /\ Nested[k] \subseteq Nested[k + 1] /\ Nested[k + 1] = NestedIn(Nested[k])
    BY <2>1, NestedSteps, NestedGrows
  <2> DEFINE g == [n \in Nested[k + 1] |-> MergeWith(Graph[n], f)]
  <2>4. \A n \in Nested[k] : f[n] = MergeWith(Graph[n], f)
    BY <2>2
  <2>5. \A n \in Nested[k] : g[n] = f[n]
    BY <2>3, <2>4
  <2> HIDE DEF g
  <2>6. ASSUME NEW n \in Nested[k + 1] PROVE MergeWith(Graph[n], f) = MergeWith(Graph[n], g)
    <3>1. IsSchema(Graph[n]) /\ \A b \in Branches(Graph[n]) : f[b] = g[b]
      BY <2>3, <2>5, NodesAreRecords DEF NestedIn, IsRecord
    <3>2. QED
      BY <3>1, MergeReads
  <2>7. Solves(g, k + 1)
    BY <2>6 DEF g
  <2> HIDE DEF Solves
  <2>8. QED
    BY <2>7
<1> HIDE DEF Reached
<1>3. Most \in Reached
  BY <1>1, <1>2, NestedSteps, SetInduction
<1>4. \E f : Solves(f, Most)
  <2> HIDE DEF Solves
  <2>1. QED
    BY <1>3, NestedSteps DEF Reached
<1> DEFINE Whole(f) == f = [n \in Node |-> MergeWith(Graph[n], f)]
<1>5. \E f : Whole(f)
  BY <1>4, NestedSteps
<1>6. Merged = CHOOSE f : Whole(f)
  BY DEF Merged
<1>7. Whole(Merged)
  <2> HIDE DEF Whole
  <2>1. QED
    BY <1>5, <1>6
<1>8. QED
  BY <1>7

(***************************************************************************)
(* The choices a flag offers.                                              *)
(***************************************************************************)
LEMMA NullIs == Null.type = "null" /\ Null.text = "null" /\ Null.fields = <<>> /\ Null.items = <<>>
BY DEF Null, Scalar

LEMMA StringParts ==
  ASSUME NEW s, NEW w, w.type = "string", DeclaredBy(s, "input", w)
  PROVE  /\ HasType(SchemaType(s), w)
         /\ s.enum = {} \/ w.text \in s.enum
         /\ s.oneOf # <<>> => \E n \in ToSet(s.oneOf) : Declares(n, "input", w)
         /\ s.anyOf # <<>> => \E n \in ToSet(s.anyOf) : Declares(n, "input", w)
<1>1. HasType(SchemaType(s), w) /\ IsChoice(s.enum, s.nullable, w)
  BY DEF DeclaredBy, DeclaredWith
<1>2. w # Null
  BY NullIs
<1>3. \A branches \in {s.oneOf, s.anyOf} : branches # <<>> => \E n \in ToSet(branches) : Declares(n, "input", w)
  BY DEF DeclaredBy, DeclaredWith
<1>4. QED
  BY <1>1, <1>2, <1>3 DEF IsChoice

\* What only takes null takes no string and no object.
LEMMA OnlyNull ==
  ASSUME Meaning, NEW n \in Node, NEW w, w.type \in {"string", "object"}, Declares(n, "input", w)
  PROVE  ~Is(Graph[n], "null")
<1>1. HasType(SchemaType(Graph[n]), w)
  BY DEF Meaning, DeclaredBy, DeclaredWith, Mode
<1>2. QED
  BY <1>1 DEF HasType, SchemaType, Is

Sound(effective, w) ==
  effective.schema # <<>> /\ effective.schema[1].enum # {} => w.text \in effective.schema[1].enum

Stripped(s) == [s EXCEPT !.types = @ \ {"null"}]

\* The three ways effectiveBodySchema ends.
LEMMA EffectiveCases ==
  ASSUME NEW s, NEW e, e = EffectiveBodySchema(s)
  PROVE  \/ /\ Len(NonNull(s)) = 1 /\ Effective[NonNull(s)[1]].schema # <<>>
            /\ e.schema = Effective[NonNull(s)[1]].schema
         \/ e.schema = <<>>
         \/ e.schema = <<Stripped(s)>>
BY DEF EffectiveBodySchema, EffectiveWith, Collapsed, NonNull, Stripped

LEMMA StrippedKeeps ==
  ASSUME NEW s, IsRecord(s)
  PROVE  /\ Stripped(s).types = s.types \ {"null"} /\ Stripped(s).enum = s.enum
         /\ Stripped(s).nullable = s.nullable /\ Stripped(s).id = s.id
         /\ Stripped(s).allOf = s.allOf /\ Stripped(s).oneOf = s.oneOf /\ Stripped(s).anyOf = s.anyOf
         /\ Stripped(s).props = s.props /\ Stripped(s).items = s.items /\ Stripped(s).more = s.more
         /\ DOMAIN Stripped(s) = DOMAIN AnySchema
<1>1. DOMAIN s = {"id", "types", "nullable", "dateTime", "enum", "props", "required", "more", "moreAllowed",
                  "items", "allOf", "oneOf", "anyOf", "readOnly", "writeOnly", "ignored", "flag"}
  BY DEF IsRecord, AnySchema
<1>2. QED
  BY <1>1 DEF Stripped, AnySchema

LEMMA ChoicesOf ==
  ASSUME Meaning, NEW s, IsRecord(s), NEW w, w.type = "string", DeclaredBy(s, "input", w),
         \A b \in Branches(s) : Declares(b, "input", w) => Sound(Effective[b], w)
  PROVE  Sound(EffectiveBodySchema(s), w)
<1> DEFINE e == EffectiveBodySchema(s)
           b == NonNull(s)[1]
<1>0. IsSchema(s)
  BY DEF IsRecord
<1>1. CASE Len(NonNull(s)) = 1 /\ e.schema = Effective[b].schema
  <2>1. s.oneOf # <<>> \/ s.anyOf # <<>>
    <3>1. b \in ToSet(s.oneOf) \union ToSet(s.anyOf)
      BY <1>0, <1>1, NonNullBranches
    <3>2. s.oneOf \in Seq(Node) /\ s.anyOf \in Seq(Node)
      BY <1>0, BranchesOf
    <3>3. QED
      BY <3>1, <3>2, ElementsOf
  <2>2. PICK n \in ToSet(s.oneOf) \union ToSet(s.anyOf) : Declares(n, "input", w)
    BY <2>1, StringParts
  <2>3. n \in Node /\ n \in Branches(s)
    BY <1>0, BranchesOf
  <2>4. n \in ToSet(NonNull(s))
    BY <1>0, <2>2, <2>3, OnlyNull, NonNullBranches
  <2>5. n = b
    BY <1>0, <1>1, <2>4, NonNullBranches
  <2>6. QED
    BY <1>1, <2>2, <2>3, <2>5 DEF Sound
<1>2. CASE e.schema = <<>>
  BY <1>2 DEF Sound
<1>3. CASE e.schema = <<Stripped(s)>>
  <2>1. e.schema[1].enum = s.enum
    BY <1>3, StrippedKeeps
  <2>2. QED
    BY <2>1, StringParts DEF Sound
<1>4. QED
  BY <1>1, <1>2, <1>3, EffectiveCases

\* A flag that offers choices offers each string its schema declares, whichever
\* branch the choices are of.
LEMMA ChoicesSound ==
  ASSUME Meaning, NEW w, w.type = "string"
  PROVE  \A n \in Node : Declares(n, "input", w) => Sound(Effective[n], w)
<1> DEFINE T == {n \in Node : Declares(n, "input", w) => Sound(Effective[n], w)}
<1>1. ASSUME NEW n \in Node, Branches(Graph[n]) \subseteq T, Declares(n, "input", w)
      PROVE  Sound(Effective[n], w)
  <2>1. Effective[n] = EffectiveBodySchema(Graph[n])
    BY EffectiveIsDefined DEF EffectiveBodySchema
  <2>2. IsRecord(Graph[n]) /\ DeclaredBy(Graph[n], "input", w)
    BY <1>1, NodesAreRecords DEF Meaning, Mode
  <2>3. QED
    BY <1>1, <2>1, <2>2, ChoicesOf
<1>2. \A n \in Node : Branches(Graph[n]) \subseteq T => n \in T
  BY <1>1
<1> HIDE DEF T
<1>3. Node \subseteq T
  BY <1>2, BranchInduction
<1>4. QED
  BY <1>3 DEF T

(***************************************************************************)
(* Strings, with or without choices, that may be null beside them: what    *)
(* branches may differ in and still be joined.                             *)
(***************************************************************************)
LEMMA FieldsOfSchemas ==
  DOMAIN AnySchema = {"id", "types", "nullable", "dateTime", "enum", "props", "required", "more", "moreAllowed",
                      "items", "allOf", "oneOf", "anyOf", "readOnly", "writeOnly", "ignored", "flag"}
BY DEF AnySchema

LEMMA Uncomposed ==
  ASSUME NEW s, IsSchema(s)
  PROVE  Composed(s) <=> ~(s.allOf = <<>> /\ s.oneOf = <<>> /\ s.anyOf = <<>>)
<1>1. s.allOf \in Seq(Node) /\ s.oneOf \in Seq(Node) /\ s.anyOf \in Seq(Node)
  BY BranchesOf
<1> DEFINE all == s.allOf
           one == s.oneOf
           any == s.anyOf
<1>2. all \in Seq(Node) /\ one \in Seq(Node) /\ any \in Seq(Node)
  BY <1>1
<1> HIDE DEF all, one, any
<1>3. all \o one \o any = <<>> <=> (all = <<>> /\ one = <<>> /\ any = <<>>)
  BY <1>2
<1>4. QED
  BY <1>3 DEF Composed, all, one, any

Flat(w) == w.type \in {"string", "null"} /\ Fields(w) = {} /\ (w.type = "null" => w = Null)

Admits(t, w) == t.enum = {} \/ w.text \in t.enum

LEMMA TextDeclares ==
  ASSUME NEW s, IsRecord(s), IsText(s), NEW w, Flat(w)
  PROVE  DeclaredBy(s, "input", w) <=> HasType(SchemaType(s), w) /\ IsChoice(s.enum, s.nullable, w)
<1>1. s.allOf = <<>> /\ s.oneOf = <<>> /\ s.anyOf = <<>>
  BY Uncomposed DEF IsText, IsRecord
<1>2. ToSet(s.allOf) = {}
  BY <1>1 DEF ToSet
<1>3. w.type # "object" /\ w.type # "array"
  BY DEF Flat
<1>4. QED
  BY <1>1, <1>2, <1>3 DEF DeclaredBy, DeclaredWith

LEMMA TextStrings ==
  ASSUME NEW s, IsRecord(s), IsText(s), NEW w, Flat(w), w.type = "string"
  PROVE  DeclaredBy(s, "input", w) <=> Admits(s, w)
<1>1. HasType(SchemaType(s), w)
  BY DEF IsText, HasType, SchemaType
<1>2. w # Null
  BY NullIs
<1>3. QED
  BY <1>1, <1>2, TextDeclares DEF IsChoice, Admits

\* What effectiveBodySchema makes of a string, with or without choices.
LEMMA TextEffective ==
  ASSUME NEW s, IsRecord(s), IsText(s)
  PROVE  EffectiveBodySchema(s) = [schema |-> <<Stripped(s)>>, nullable |-> s.nullable \/ "null" \in s.types]
<1>1. s.allOf = <<>> /\ s.oneOf = <<>> /\ s.anyOf = <<>>
  BY Uncomposed DEF IsText, IsRecord
<1>2. s.anyOf \o s.oneOf = <<>>
  BY <1>1
<1>3. NonNull(s) \in Seq(Node) /\ ToSet(NonNull(s)) = {}
  <2>1. ToSet(s.oneOf) = {} /\ ToSet(s.anyOf) = {}
    BY <1>1 DEF ToSet
  <2>2. IsSchema(s)
    BY DEF IsRecord
  <2>3. QED
    BY <2>1, <2>2, NonNullBranches
<1> DEFINE kept == NonNull(s)
<1>4. Len(kept) = 0
  <2>1. kept \in Seq(Node) /\ ToSet(kept) = {}
    BY <1>3
  <2> HIDE DEF kept
  <2>2. kept = <<>>
    BY <2>1, ElementsOf
  <2>3. QED
    BY <2>2
<1>5. Len(s.anyOf \o s.oneOf) = 0
  BY <1>2
<1>6. EffectiveBodySchema(s) = [schema |-> <<Stripped(s)>>, nullable |-> s.nullable \/ "null" \in s.types \/ Len(kept) < Len(s.anyOf \o s.oneOf)]
  BY <1>2, <1>4 DEF EffectiveBodySchema, EffectiveWith, Collapsed, NonNull, Stripped
<1>7. QED
  BY <1>4, <1>5, <1>6

LEMMA StrippedText ==
  ASSUME NEW s, IsRecord(s), IsText(s)
  PROVE  /\ IsRecord(Stripped(s)) /\ IsText(Stripped(s)) /\ Is(Stripped(s), "string")
         /\ Stripped(s).enum = s.enum
<1>1. IsSchema(Stripped(s))
  BY StrippedKeeps DEF IsRecord, IsSchema, Children, Branches, Either
<1>2. QED
  BY <1>1, StrippedKeeps DEF IsRecord, IsText, Composed, Is

LEMMA SomeBranch ==
  ASSUME NEW s, NEW mode, NEW w, DeclaredBy(s, mode, w)
  PROVE  /\ \A n \in ToSet(s.allOf) : Declares(n, mode, w)
         /\ s.oneOf # <<>> => \E n \in ToSet(s.oneOf) : Declares(n, mode, w) /\ (mode = "input" => Owns(s.oneOf, n, w))
         /\ s.anyOf # <<>> => \E n \in ToSet(s.anyOf) : Declares(n, mode, w) /\ (mode = "input" => Owns(s.anyOf, n, w))
<1>1. \A branches \in {s.oneOf, s.anyOf} : branches # <<>> =>
           \E n \in ToSet(branches) : Declares(n, mode, w) /\ (mode = "input" => Owns(branches, n, w))
  BY DEF DeclaredBy, DeclaredWith
<1>2. \A n \in ToSet(s.allOf) : Declares(n, mode, w)
  BY DEF DeclaredBy, DeclaredWith
<1>3. QED
  BY <1>1, <1>2

\* The types and the null that a string declares.
LEMMA TextTypes ==
  ASSUME NEW s, IsRecord(s), IsText(s), NEW w, DeclaredBy(s, "input", w)
  PROVE  w.type \in {"string", "null"} /\ (w = Null => s.nullable \/ "null" \in s.types)
<1>1. HasType(SchemaType(s), w)
  BY DEF DeclaredBy, DeclaredWith
<1>2. s.types # {} /\ s.types \subseteq {"string", "null"}
  BY DEF IsText
<1>3. w.type \in {"string", "null"}
  BY <1>1, <1>2 DEF HasType, SchemaType
<1>4. w = Null => s.nullable \/ "null" \in s.types
  BY <1>1, <1>2, NullIs DEF HasType, SchemaType
<1>5. QED
  BY <1>3, <1>4

\* A string, possibly null beside it, is what effectiveBodySchema says it is.
TextAs(s, e) ==
  /\ e.schema = <<e.schema[1]>> /\ IsRecord(e.schema[1]) /\ IsText(e.schema[1]) /\ Is(e.schema[1], "string")
  /\ \A w : Flat(w) /\ w.type = "string" => (DeclaredBy(s, "input", w) <=> Admits(e.schema[1], w))
  /\ \A w : DeclaredBy(s, "input", w) => w.type \in {"string", "null"}
  /\ DeclaredBy(s, "input", Null) => e.nullable

LEMMA TextIsText ==
  ASSUME NEW s, IsRecord(s), IsText(s)
  PROVE  TextAs(s, EffectiveBodySchema(s))
<1> DEFINE t == Stripped(s)
           e == EffectiveBodySchema(s)
<1>1. e.schema = <<t>> /\ e.nullable = (s.nullable \/ "null" \in s.types)
  BY TextEffective
<1>2. IsRecord(t) /\ IsText(t) /\ Is(t, "string") /\ t.enum = s.enum
  BY StrippedText
<1> HIDE DEF t, e
<1>3. e.schema[1] = t
  BY <1>1
<1>4. \A w : Flat(w) /\ w.type = "string" => (DeclaredBy(s, "input", w) <=> Admits(t, w))
  BY <1>2, TextStrings DEF Admits
<1>5. \A w : DeclaredBy(s, "input", w) => w.type \in {"string", "null"}
  BY TextTypes
<1>6. DeclaredBy(s, "input", Null) => e.nullable
  BY <1>1, TextTypes
<1>7. QED
  BY <1>1, <1>2, <1>3, <1>4, <1>5, <1>6 DEF TextAs, e

LEMMA TextOrNullIsText ==
  ASSUME Meaning, NEW s, IsRecord(s), IsTextOrNull(s)
  PROVE  TextAs(s, EffectiveBodySchema(s))
<1>1. CASE IsText(s)
  BY <1>1, TextIsText
<1>2. CASE ~IsText(s)
  <2> DEFINE b == NonNull(s)[1]
             e == EffectiveBodySchema(s)
             inner == Effective[b]
             t == inner.schema[1]
             branches == s.anyOf \o s.oneOf
  <2>1. /\ s.types = {} /\ s.enum = {} /\ s.allOf = <<>> /\ <<>> \in {s.oneOf, s.anyOf}
        /\ Len(NonNull(s)) = 1 /\ IsText(Graph[b])
    BY <1>2 DEF IsTextOrNull, NonNull
  <2>2. /\ IsSchema(s) /\ b \in Node /\ ToSet(NonNull(s)) = {b}
        /\ b \in ToSet(s.oneOf) \union ToSet(s.anyOf)
    BY <2>1, NonNullBranches, BranchesOf DEF IsRecord
  <2>3. inner = EffectiveBodySchema(Graph[b]) /\ IsRecord(Graph[b])
    BY <2>2, EffectiveIsDefined, NodesAreRecords DEF EffectiveBodySchema
  <2>4. TextAs(Graph[b], inner)
    BY <2>1, <2>3, TextIsText
  <2>5. inner.schema # <<>>
    BY <2>4 DEF TextAs
  <2>6. /\ e.schema = inner.schema
        /\ e.nullable = (s.nullable \/ "null" \in s.types \/ Len(NonNull(s)) < Len(branches) \/ inner.nullable)
    BY <2>1, <2>5 DEF EffectiveBodySchema, EffectiveWith, Collapsed, NonNull
  <2>7. \A n \in ToSet(s.oneOf) \union ToSet(s.anyOf) : n = b \/ Is(Graph[n], "null")
    BY <2>2, NonNullBranches
  <2>8. \A w : Declares(b, "input", w) <=> DeclaredBy(Graph[b], "input", w)
    BY <2>2 DEF Meaning, Mode
  <2>9. s.oneOf # <<>> \/ s.anyOf # <<>>
    BY <2>2, BranchesOf, ElementsOf
  <2>10. ASSUME NEW w, DeclaredBy(s, "input", w)
         PROVE  DeclaredBy(Graph[b], "input", w) \/ \E n \in ToSet(s.oneOf) \union ToSet(s.anyOf) : Is(Graph[n], "null") /\ Declares(n, "input", w)
    BY <2>7, <2>8, <2>9, <2>10, SomeBranch
  <2>11. ASSUME NEW n \in ToSet(s.oneOf) \union ToSet(s.anyOf), Is(Graph[n], "null"), NEW w, Declares(n, "input", w)
         PROVE  w.type = "null" /\ Len(NonNull(s)) < Len(branches)
    <3>1. n \in Node
      BY <2>2, BranchesOf
    <3>2. HasType(SchemaType(Graph[n]), w)
      BY <2>11, <3>1 DEF Meaning, DeclaredBy, DeclaredWith, Mode
    <3>3. w.type = "null"
      BY <2>11, <3>2 DEF HasType, SchemaType, Is
    <3>4. branches \in Seq(Node) /\ n \in ToSet(branches)
      BY <2>2, BranchesOf
    <3> DEFINE kind == {c \in ToSet(branches) : ~Is(Graph[c], "null")}
    <3>5. n \in ToSet(branches) \ kind
      BY <2>11, <3>4
    <3>6. NonNull(s) = Only(branches, kind)
      BY DEF NonNull
    <3> HIDE DEF branches, kind
    <3>7. QED
      BY <3>3, <3>4, <3>5, <3>6, OnlyFacts
  <2> HIDE DEF inner, e, b, branches
  <2>12. ASSUME NEW w, Flat(w), w.type = "string" PROVE DeclaredBy(s, "input", w) <=> Admits(t, w)
    <3>1. DeclaredBy(Graph[b], "input", w) <=> Admits(t, w)
      BY <2>4, <2>12 DEF TextAs
    <3>2. DeclaredBy(s, "input", w) => DeclaredBy(Graph[b], "input", w)
      BY <2>10, <2>11, <2>12
    <3>3. ASSUME DeclaredBy(Graph[b], "input", w) PROVE DeclaredBy(s, "input", w)
      <4>1. HasType(SchemaType(s), w) /\ IsChoice(s.enum, s.nullable, w)
        BY <2>1 DEF HasType, SchemaType, IsChoice
      <4>2. ToSet(s.allOf) = {} /\ ToSet(<<>>) = {}
        BY <2>1 DEF ToSet
      <4>3. ASSUME NEW any \in {s.oneOf, s.anyOf}, any # <<>> PROVE b \in ToSet(any) /\ Owns(any, b, w)
        <5>1. b \in ToSet(any)
          BY <2>1, <2>2, <4>2, <4>3
        <5>2. Owns(any, b, w)
          BY <2>12 DEF Owns, Flat
        <5>3. QED
          BY <5>1, <5>2
      <4>4. w.type # "object" /\ w.type # "array"
        BY <2>12
      <4>5. Declares(b, "input", w)
        BY <2>8, <3>3
      <4>6. \A any \in {s.oneOf, s.anyOf} : any # <<>> =>
               \E n \in ToSet(any) : Declares(n, "input", w) /\ Owns(any, n, w)
        BY <4>3, <4>5
      <4>7. QED
        BY <4>1, <4>2, <4>4, <4>6 DEF DeclaredBy, DeclaredWith
    <3>4. QED
      BY <3>1, <3>2, <3>3
  <2>13. ASSUME NEW w, DeclaredBy(s, "input", w) PROVE w.type \in {"string", "null"}
    BY <2>4, <2>10, <2>11, <2>13 DEF TextAs
  <2>14. DeclaredBy(s, "input", Null) => e.nullable
    BY <2>4, <2>6, <2>10, <2>11 DEF TextAs
  <2>15. QED
    BY <2>4, <2>6, <2>12, <2>13, <2>14 DEF TextAs, e
<1>3. QED
  BY <1>1, <1>2

LEMMA StringIsScalar == \A s : Is(s, "string") => ScalarType(s) = "string"
<1> TAKE s
<1>1. Is(s, "string") => ~Is(s, "boolean") /\ ~Is(s, "integer") /\ ~Is(s, "number")
  BY DEF Is
<1> HIDE DEF Is
<1>2. QED
  BY <1>1 DEF ScalarType

LEMMA SameWidened ==
  ASSUME NEW s
  PROVE  UnionEnumSchema(s, s) = s
BY DEF UnionEnumSchema, WidenEnum

\* Strings widened by strings admit what either does.
LEMMA WidenedAdmits ==
  ASSUME Meaning, NEW a, IsRecord(a), IsTextOrNull(a), NEW b, IsRecord(b), IsTextOrNull(b),
         NEW r, r = UnionEnumSchema(a, b)
  PROVE  /\ IsRecord(r) /\ IsTextOrNull(r)
         /\ \A w : Flat(w) /\ w.type = "string" /\ (DeclaredBy(a, "input", w) \/ DeclaredBy(b, "input", w))
                     => DeclaredBy(r, "input", w)
         /\ DeclaredBy(a, "input", Null) => DeclaredBy(r, "input", Null)
<1> DEFINE old == EffectiveBodySchema(a)
           new == EffectiveBodySchema(b)
           t == old.schema[1]
           u == new.schema[1]
           choices == IF u.enum = {} THEN {} ELSE t.enum \union u.enum
           wide == [t EXCEPT !.id = NoNode, !.enum = choices,
                             !.nullable = @ \/ old.nullable \/ new.nullable]
<1>1. TextAs(a, old) /\ TextAs(b, new)
  BY TextOrNullIsText
<1>2. r = WidenEnum(a, old, new)
  BY DEF UnionEnumSchema
<1> HIDE DEF old, new
<1>3. ScalarOf(old) = "string" /\ ScalarOf(new) = "string"
  <2>1. old.schema # <<>> /\ new.schema # <<>>
    BY <1>1 DEF TextAs
  <2>2. \A e : Is(e.schema[1], "string") /\ e.schema # <<>> => ScalarOf(e) = "string"
    BY StringIsScalar DEF ScalarOf
  <2>3. QED
    BY <1>1, <2>1, <2>2 DEF TextAs
<1>4. r = IF t.enum \in {{}, choices} THEN a ELSE wide
  BY <1>2, <1>3 DEF WidenEnum
<1>5. \A w : Flat(w) /\ w.type = "string" =>
        /\ DeclaredBy(a, "input", w) <=> Admits(t, w)
        /\ DeclaredBy(b, "input", w) <=> Admits(u, w)
  BY <1>1 DEF TextAs
<1>6. CASE t.enum \in {{}, choices}
  <2>1. ASSUME NEW w, Flat(w), w.type = "string", DeclaredBy(a, "input", w) \/ DeclaredBy(b, "input", w)
        PROVE  DeclaredBy(a, "input", w)
    BY <1>5, <1>6, <2>1 DEF Admits
  <2>2. QED
    BY <1>4, <1>6, <2>1
<1>7. CASE t.enum \notin {{}, choices}
  <2>1. IsRecord(t) /\ IsText(t) /\ Is(t, "string") /\ IsRecord(u)
    BY <1>1 DEF TextAs
  <2> HIDE DEF t, u, choices
  <2>2. /\ DOMAIN wide = DOMAIN AnySchema /\ wide.id = NoNode /\ wide.enum = choices
        /\ wide.nullable = (t.nullable \/ old.nullable \/ new.nullable)
        /\ wide.types = t.types /\ wide.props = t.props /\ wide.items = t.items /\ wide.more = t.more
        /\ wide.allOf = t.allOf /\ wide.oneOf = t.oneOf /\ wide.anyOf = t.anyOf
    BY <2>1, FieldsOfSchemas DEF IsRecord
  <2>3. r = wide
    BY <1>4, <1>7
  <2> HIDE DEF wide
  <2>4. choices \subseteq STRING
    BY <2>1 DEF choices, IsRecord, IsSchema
  <2>5. IsRecord(wide)
    BY <2>1, <2>2, <2>4 DEF IsRecord, IsSchema, Children, Branches, Either
  <2>6. IsText(wide)
    BY <2>1, <2>2 DEF IsText, Composed
  <2>7. \A w : Flat(w) /\ w.type = "string" /\ (Admits(t, w) \/ Admits(u, w)) => DeclaredBy(wide, "input", w)
    BY <1>7, <2>2, <2>5, <2>6, TextStrings DEF Admits, choices
  <2>8. ASSUME DeclaredBy(a, "input", Null) PROVE DeclaredBy(wide, "input", Null)
    <3>1. wide.nullable
      BY <1>1, <2>2, <2>8 DEF TextAs
    <3>2. "null" \in SchemaType(wide)
      BY <2>6, <3>1 DEF SchemaType, IsText
    <3>3. Flat(Null)
      BY NullIs DEF Flat, Fields
    <3>4. QED
      BY <2>5, <2>6, <3>1, <3>2, <3>3, NullIs, TextDeclares DEF HasType, IsChoice
  <2>9. QED
    BY <1>5, <2>3, <2>5, <2>6, <2>7, <2>8 DEF IsTextOrNull, t, u
<1>8. QED
  BY <1>6, <1>7

(***************************************************************************)
(* Properties collected one branch after another.                          *)
(***************************************************************************)
LEMMA CollectFacts ==
  ASSUME NEW m, NEW src
  PROVE  /\ DOMAIN Collect(m, src) = {"props", "settled"}
         /\ DOMAIN Collect(m, src).props = DOMAIN m.props \union DOMAIN src.props
         /\ Collect(m, src).settled = m.settled \union (DOMAIN src.props \ DOMAIN m.props)
         /\ \A name \in DOMAIN m.props : Collect(m, src).props[name] = m.props[name]
         /\ \A name \in DOMAIN src.props \ DOMAIN m.props : Collect(m, src).props[name] = src.props[name]
BY DEF Collect, Joined

LEMMA CollectBranchFacts ==
  ASSUME NEW m, DOMAIN m = {"props", "settled"}, NEW src
  PROVE  /\ DOMAIN CollectBranch(m, src) = {"props", "settled"}
         /\ DOMAIN CollectBranch(m, src).props = DOMAIN m.props \union DOMAIN src.props
         /\ CollectBranch(m, src).settled = m.settled
         /\ \A name \in DOMAIN m.props :
              CollectBranch(m, src).props[name] =
                IF name \in DOMAIN src.props \ m.settled THEN UnionEnumSchema(m.props[name], src.props[name])
                ELSE m.props[name]
         /\ \A name \in DOMAIN src.props \ DOMAIN m.props : CollectBranch(m, src).props[name] = src.props[name]
<1> DEFINE Widened(name) == IF name \in DOMAIN src.props \ m.settled THEN UnionEnumSchema(m.props[name], src.props[name])
                            ELSE m.props[name]
           widened == [name \in DOMAIN m.props |-> Widened(name)]
           joined == Joined(widened, src.props)
<1>1. CollectBranch(m, src) = [m EXCEPT !.props = joined]
  BY DEF CollectBranch, WidenedBy
<1>2. DOMAIN widened = DOMAIN m.props /\ \A name \in DOMAIN m.props : widened[name] = Widened(name)
  OBVIOUS
<1> HIDE DEF widened, Widened
<1>3. /\ DOMAIN joined = DOMAIN m.props \union DOMAIN src.props
      /\ \A name \in DOMAIN m.props : joined[name] = Widened(name)
      /\ \A name \in DOMAIN src.props \ DOMAIN m.props : joined[name] = src.props[name]
  BY <1>2 DEF Joined
<1> HIDE DEF joined
<1>4. QED
  BY <1>1, <1>3 DEF Widened

\* The objects collected one after another, when nothing bounds what they hold.
LEMMA CollectAllSteps ==
  ASSUME NEW own, NEW all, Len(all) \in Nat
  PROVE  \E f : /\ f[0] = [props |-> own.props, settled |-> DOMAIN own.props]
                /\ \A i \in 1 .. Len(all) : f[i] = Collect(f[i - 1], all[i])
                /\ CollectAll(own, all) = f[Len(all)]
<1> DEFINE n == Len(all)
           start == [props |-> own.props, settled |-> DOMAIN own.props]
           Solves(f, k) == f = [i \in 0 .. k |-> IF i = 0 THEN start ELSE Collect(f[i - 1], all[i])]
           Reached == {k \in Nat : \E f : Solves(f, k)}
<1> HIDE DEF start
<1>1. 0 \in Reached
  <2>1. Solves([i \in 0 .. 0 |-> start], 0)
    OBVIOUS
  <2> HIDE DEF Solves
  <2>2. QED
    BY <2>1
<1>2. ASSUME NEW k \in Nat, k \in Reached PROVE k + 1 \in Reached
  <2>1. PICK f : Solves(f, k)
    <3> HIDE DEF Solves
    <3>1. QED
      BY <1>2
  <2> DEFINE g == [i \in 0 .. k + 1 |-> IF i <= k THEN f[i] ELSE Collect(f[k], all[k + 1])]
  <2>2. \A i \in 0 .. k : g[i] = f[i] /\ f[i] = IF i = 0 THEN start ELSE Collect(f[i - 1], all[i])
    BY <2>1
  <2>3. g[k + 1] = Collect(f[k], all[k + 1])
    OBVIOUS
  <2>4. DOMAIN g = 0 .. k + 1 /\ g = [i \in 0 .. k + 1 |-> g[i]]
    OBVIOUS
  <2> HIDE DEF g
  <2>5. ASSUME NEW i \in 0 .. k + 1 PROVE g[i] = IF i = 0 THEN start ELSE Collect(g[i - 1], all[i])
    <3>1. CASE i \in 0 .. k
      <4>1. i # 0 => i - 1 \in 0 .. k
        BY <3>1
      <4>2. QED
        BY <2>2, <3>1, <4>1
    <3>2. CASE i = k + 1
      <4>1. k \in 0 .. k /\ i # 0 /\ i - 1 = k
        BY <3>2
      <4>2. QED
        BY <2>2, <2>3, <3>2, <4>1
    <3>3. QED
      BY <3>1, <3>2
  <2>6. Solves(g, k + 1)
    BY <2>4, <2>5
  <2> HIDE DEF Solves
  <2>7. QED
    BY <2>6
<1> HIDE DEF Reached
<1>3. n \in Reached
  BY <1>1, <1>2, SetInduction
<1> DEFINE collected == CHOOSE f : Solves(f, n)
<1>4. Solves(collected, n)
  <2> HIDE DEF Solves
  <2>1. QED
    BY <1>3 DEF Reached
<1>5. CollectAll(own, all) = collected[n]
  BY DEF CollectAll, start
<1> HIDE DEF collected
<1>6. \A i \in 0 .. n : collected[i] = IF i = 0 THEN start ELSE Collect(collected[i - 1], all[i])
  BY <1>4
<1>7. collected[0] = start /\ \A i \in 1 .. n : collected[i] = Collect(collected[i - 1], all[i])
  BY <1>6
<1>8. QED
  BY <1>5, <1>7 DEF start

LEMMA CollectUnionSteps ==
  ASSUME NEW settled, NEW union, Len(union) \in Nat
  PROVE  \E f : /\ f[0] = settled
                /\ \A i \in 1 .. Len(union) : f[i] = CollectBranch(f[i - 1], union[i])
                /\ CollectUnion(settled, union) = f[Len(union)]
<1> DEFINE n == Len(union)
           Solves(f, k) == f = [i \in 0 .. k |-> IF i = 0 THEN settled ELSE CollectBranch(f[i - 1], union[i])]
           Reached == {k \in Nat : \E f : Solves(f, k)}
<1>1. 0 \in Reached
  <2>1. Solves([i \in 0 .. 0 |-> settled], 0)
    OBVIOUS
  <2> HIDE DEF Solves
  <2>2. QED
    BY <2>1
<1>2. ASSUME NEW k \in Nat, k \in Reached PROVE k + 1 \in Reached
  <2>1. PICK f : Solves(f, k)
    <3> HIDE DEF Solves
    <3>1. QED
      BY <1>2
  <2> DEFINE g == [i \in 0 .. k + 1 |-> IF i <= k THEN f[i] ELSE CollectBranch(f[k], union[k + 1])]
  <2>2. \A i \in 0 .. k : g[i] = f[i] /\ f[i] = IF i = 0 THEN settled ELSE CollectBranch(f[i - 1], union[i])
    BY <2>1
  <2>3. g[k + 1] = CollectBranch(f[k], union[k + 1])
    OBVIOUS
  <2>4. DOMAIN g = 0 .. k + 1 /\ g = [i \in 0 .. k + 1 |-> g[i]]
    OBVIOUS
  <2> HIDE DEF g
  <2>5. ASSUME NEW i \in 0 .. k + 1 PROVE g[i] = IF i = 0 THEN settled ELSE CollectBranch(g[i - 1], union[i])
    <3>1. CASE i \in 0 .. k
      <4>1. i # 0 => i - 1 \in 0 .. k
        BY <3>1
      <4>2. QED
        BY <2>2, <3>1, <4>1
    <3>2. CASE i = k + 1
      <4>1. k \in 0 .. k /\ i # 0 /\ i - 1 = k
        BY <3>2
      <4>2. QED
        BY <2>2, <2>3, <3>2, <4>1
    <3>3. QED
      BY <3>1, <3>2
  <2>6. Solves(g, k + 1)
    BY <2>4, <2>5
  <2> HIDE DEF Solves
  <2>7. QED
    BY <2>6
<1> HIDE DEF Reached
<1>3. n \in Reached
  BY <1>1, <1>2, SetInduction
<1> DEFINE collected == CHOOSE f : Solves(f, n)
<1>4. Solves(collected, n)
  <2> HIDE DEF Solves
  <2>1. QED
    BY <1>3 DEF Reached
<1>5. CollectUnion(settled, union) = collected[n]
  BY DEF CollectUnion
<1> HIDE DEF collected
<1>6. \A i \in 0 .. n : collected[i] = IF i = 0 THEN settled ELSE CollectBranch(collected[i - 1], union[i])
  BY <1>4
<1>7. collected[0] = settled /\ \A i \in 1 .. n : collected[i] = CollectBranch(collected[i - 1], union[i])
  BY <1>6
<1>8. QED
  BY <1>5, <1>7

\* The first to have a property settles it.
LEMMA AllSettled ==
  ASSUME NEW own, NEW all, Len(all) \in Nat, NEW m, m = CollectAll(own, all)
  PROVE  /\ DOMAIN m = {"props", "settled"} /\ m.settled = DOMAIN m.props
         /\ DOMAIN m.props = DOMAIN own.props \union UNION {DOMAIN all[j].props : j \in 1 .. Len(all)}
         /\ \A name \in DOMAIN own.props : m.props[name] = own.props[name]
         /\ \A name \in DOMAIN m.props \ DOMAIN own.props :
              \E j \in 1 .. Len(all) : name \in DOMAIN all[j].props /\ m.props[name] = all[j].props[name]
<1>1. PICK f : /\ f[0] = [props |-> own.props, settled |-> DOMAIN own.props]
               /\ \A i \in 1 .. Len(all) : f[i] = Collect(f[i - 1], all[i])
               /\ m = f[Len(all)]
  BY CollectAllSteps
<1> DEFINE Good(i) ==
             /\ DOMAIN f[i] = {"props", "settled"} /\ f[i].settled = DOMAIN f[i].props
             /\ DOMAIN f[i].props = DOMAIN own.props \union UNION {DOMAIN all[j].props : j \in 1 .. i}
             /\ \A name \in DOMAIN own.props : f[i].props[name] = own.props[name]
             /\ \A name \in DOMAIN f[i].props \ DOMAIN own.props :
                  \E j \in 1 .. i : name \in DOMAIN all[j].props /\ f[i].props[name] = all[j].props[name]
           Reached == {i \in Nat : i <= Len(all) => Good(i)}
<1>2. 0 \in Reached
  <2>1. 1 .. 0 = {} /\ UNION {DOMAIN all[j].props : j \in 1 .. 0} = {}
    OBVIOUS
  <2>2. QED
    BY <1>1, <2>1
<1>3. ASSUME NEW i \in Nat, i \in Reached PROVE i + 1 \in Reached
  <2>1. SUFFICES ASSUME i + 1 <= Len(all) PROVE Good(i + 1)
    OBVIOUS
  <2>2. Good(i) /\ f[i + 1] = Collect(f[i], all[i + 1])
    <3>1. i + 1 \in 1 .. Len(all) /\ (i + 1) - 1 = i
      BY <2>1
    <3>2. f[i + 1] = Collect(f[i], all[i + 1])
      BY <1>1, <3>1
    <3>3. QED
      BY <1>3, <2>1, <3>2
  <2> DEFINE m0 == f[i]
             m1 == f[i + 1]
             src == all[i + 1]
  <2>3. /\ DOMAIN m1 = {"props", "settled"}
        /\ DOMAIN m1.props = DOMAIN m0.props \union DOMAIN src.props
        /\ m1.settled = m0.settled \union (DOMAIN src.props \ DOMAIN m0.props)
        /\ \A name \in DOMAIN m0.props : m1.props[name] = m0.props[name]
        /\ \A name \in DOMAIN src.props \ DOMAIN m0.props : m1.props[name] = src.props[name]
    BY <2>2, CollectFacts
  <2>4. m1.settled = DOMAIN m1.props
    BY <2>2, <2>3
  <2>5. UNION {DOMAIN all[j].props : j \in 1 .. i + 1} =
          (UNION {DOMAIN all[j].props : j \in 1 .. i}) \union DOMAIN src.props
    <3>1. 1 .. i + 1 = (1 .. i) \union {i + 1}
      OBVIOUS
    <3>2. QED
      BY <3>1
  <2>6. DOMAIN m1.props = DOMAIN own.props \union UNION {DOMAIN all[j].props : j \in 1 .. i + 1}
    BY <2>2, <2>3, <2>5
  <2>7. \A name \in DOMAIN own.props : m1.props[name] = own.props[name]
    BY <2>2, <2>3
  <2>8. \A name \in DOMAIN m1.props \ DOMAIN own.props :
          \E j \in 1 .. i + 1 : name \in DOMAIN all[j].props /\ m1.props[name] = all[j].props[name]
    <3>1. i + 1 \in 1 .. i + 1 /\ \A j \in 1 .. i : j \in 1 .. i + 1
      OBVIOUS
    <3>2. QED
      BY <2>2, <2>3, <3>1
  <2>9. QED
    BY <2>3, <2>4, <2>6, <2>7, <2>8
<1> HIDE DEF Reached
<1>4. Len(all) \in Reached
  BY <1>2, <1>3, SetInduction
<1>5. QED
  BY <1>1, <1>4 DEF Reached

\* How the object of a union grows: what is settled stays.
Grown(f, settled, union, i) ==
  /\ DOMAIN f[i] = {"props", "settled"} /\ f[i].settled = settled.settled
  /\ DOMAIN f[i].props = DOMAIN settled.props \union (UNION {DOMAIN union[j].props : j \in 1 .. i})
  /\ \A name \in settled.settled \intersect DOMAIN settled.props : f[i].props[name] = settled.props[name]

LEMMA UnionGrows ==
  ASSUME NEW settled, DOMAIN settled = {"props", "settled"}, NEW union, Len(union) \in Nat
  PROVE  \E f : /\ f[0] = settled
                /\ \A i \in 1 .. Len(union) : f[i] = CollectBranch(f[i - 1], union[i])
                /\ CollectUnion(settled, union) = f[Len(union)]
                /\ \A i \in 0 .. Len(union) : Grown(f, settled, union, i)
<1>1. PICK f : /\ f[0] = settled
               /\ \A i \in 1 .. Len(union) : f[i] = CollectBranch(f[i - 1], union[i])
               /\ CollectUnion(settled, union) = f[Len(union)]
  BY CollectUnionSteps
<1> DEFINE Reached == {i \in Nat : i <= Len(union) => Grown(f, settled, union, i)}
<1>2. 0 \in Reached
  <2>1. (UNION {DOMAIN union[j].props : j \in 1 .. 0}) = {}
    OBVIOUS
  <2>2. QED
    BY <1>1, <2>1 DEF Grown
<1>3. ASSUME NEW i \in Nat, i \in Reached PROVE i + 1 \in Reached
  <2>1. SUFFICES ASSUME i + 1 <= Len(union) PROVE Grown(f, settled, union, i + 1)
    OBVIOUS
  <2>2. f[i + 1] = CollectBranch(f[i], union[i + 1])
    <3>1. i + 1 \in 1 .. Len(union) /\ (i + 1) - 1 = i
      BY <2>1
    <3>2. QED
      BY <1>1, <3>1
  <2>3. Grown(f, settled, union, i)
    BY <1>3, <2>1
  <2> DEFINE m0 == f[i]
             m1 == f[i + 1]
             src == union[i + 1]
  <2>4. /\ DOMAIN m1 = {"props", "settled"}
        /\ DOMAIN m1.props = DOMAIN m0.props \union DOMAIN src.props
        /\ m1.settled = m0.settled
        /\ \A name \in DOMAIN m0.props :
             m1.props[name] =
               IF name \in DOMAIN src.props \ m0.settled THEN UnionEnumSchema(m0.props[name], src.props[name])
               ELSE m0.props[name]
    <3>1. DOMAIN m0 = {"props", "settled"} /\ m1 = CollectBranch(m0, src)
      BY <2>2, <2>3 DEF Grown
    <3> HIDE DEF m0, m1, src
    <3>2. QED
      BY <3>1, CollectBranchFacts
  <2>5. (UNION {DOMAIN union[j].props : j \in 1 .. i + 1}) =
          (UNION {DOMAIN union[j].props : j \in 1 .. i}) \union DOMAIN src.props
    <3>1. 1 .. i + 1 = (1 .. i) \union {i + 1}
      OBVIOUS
    <3>2. QED
      BY <3>1
  <2>6. QED
    BY <2>3, <2>4, <2>5 DEF Grown
<1> HIDE DEF Reached
<1>4. Nat \subseteq Reached
  BY <1>2, <1>3, SetInduction
<1>5. \A i \in 0 .. Len(union) : Grown(f, settled, union, i)
  BY <1>4 DEF Reached
<1>6. QED
  BY <1>1, <1>5

LEMMA UnionSettled ==
  ASSUME NEW settled, DOMAIN settled = {"props", "settled"}, NEW union, Len(union) \in Nat,
         NEW m, m = CollectUnion(settled, union)
  PROVE  /\ DOMAIN m.props = DOMAIN settled.props \union (UNION {DOMAIN union[j].props : j \in 1 .. Len(union)})
         /\ \A name \in settled.settled \intersect DOMAIN settled.props : m.props[name] = settled.props[name]
<1>1. PICK f : m = f[Len(union)] /\ \A i \in 0 .. Len(union) : Grown(f, settled, union, i)
  BY UnionGrows
<1>2. Len(union) \in 0 .. Len(union)
  OBVIOUS
<1>3. QED
  BY <1>1, <1>2 DEF Grown

\* The property q that those listed are joined in: the same as each, or a string that
\* admits what each admits, and null if the first does.
TextsJoined(listed, q) ==
  /\ IsRecord(q)
  /\ \A i \in DOMAIN listed : \A w : Flat(w) /\ w.type = "string" /\ DeclaredBy(listed[i], "input", w)
                                  => DeclaredBy(q, "input", w)
  /\ \A i \in DOMAIN listed : (\A k \in DOMAIN listed : i <= k) /\ DeclaredBy(listed[i], "input", Null)
                               => DeclaredBy(q, "input", Null)

AreTexts(listed) == \A i \in DOMAIN listed : IsRecord(listed[i]) /\ IsTextOrNull(listed[i])
AreAll(listed, q) == \A i \in DOMAIN listed : listed[i] = q

LEMMA UnionJoins ==
  ASSUME Meaning,
         NEW settled, DOMAIN settled = {"props", "settled"}, NEW union, Len(union) \in Nat,
         NEW m, m = CollectUnion(settled, union),
         NEW name, name \notin settled.settled, name \notin DOMAIN settled.props,
         NEW listed, DOMAIN listed # {}, DOMAIN listed \subseteq 1 .. Len(union),
         \A j \in 1 .. Len(union) : j \in DOMAIN listed <=> name \in DOMAIN union[j].props,
         \A j \in DOMAIN listed : listed[j] = union[j].props[name]
  PROVE  /\ \A p : AreAll(listed, p) => m.props[name] = p
         /\ AreTexts(listed) => TextsJoined(listed, m.props[name])
<1> DEFINE n == Len(union)
<1>1. PICK f : /\ f[0] = settled
               /\ \A i \in 1 .. n : f[i] = CollectBranch(f[i - 1], union[i])
               /\ m = f[n]
               /\ \A i \in 0 .. n : Grown(f, settled, union, i)
  BY UnionGrows
<1> DEFINE listers == DOMAIN listed
           Was(i) == f[i].props[name]
           Lists(j) == union[j].props[name]
<1>2. \A i \in 0 .. n : name \in DOMAIN f[i].props <=> \E j \in listers : j <= i
  BY <1>1 DEF Grown
<1>3. ASSUME NEW i \in Nat, i + 1 <= n
      PROVE  /\ i + 1 \notin listers => (name \in DOMAIN f[i].props => Was(i + 1) = Was(i))
             /\ i + 1 \in listers /\ name \in DOMAIN f[i].props => Was(i + 1) = UnionEnumSchema(Was(i), Lists(i + 1))
             /\ i + 1 \in listers /\ name \notin DOMAIN f[i].props => Was(i + 1) = Lists(i + 1)
  <2>1. i + 1 \in 1 .. n /\ (i + 1) - 1 = i /\ i \in 0 .. n
    BY <1>3
  <2>2. f[i + 1] = CollectBranch(f[i], union[i + 1]) /\ Grown(f, settled, union, i)
    BY <1>1, <2>1
  <2>3. i + 1 \in listers <=> name \in DOMAIN union[i + 1].props
    BY <2>1
  <2> DEFINE m0 == f[i]
             m1 == f[i + 1]
             src == union[i + 1]
  <2>4. /\ name \in DOMAIN m0.props =>
             m1.props[name] =
               IF name \in DOMAIN src.props \ m0.settled THEN UnionEnumSchema(m0.props[name], src.props[name])
               ELSE m0.props[name]
        /\ name \in DOMAIN src.props \ DOMAIN m0.props => m1.props[name] = src.props[name]
    <3>1. DOMAIN m0 = {"props", "settled"} /\ m1 = CollectBranch(m0, src)
      BY <2>2 DEF Grown
    <3> HIDE DEF m0, m1, src
    <3>2. QED
      BY <3>1, CollectBranchFacts
  <2>5. m0.settled = settled.settled
    BY <2>2 DEF Grown
  <2>6. QED
    BY <2>3, <2>4, <2>5
<1>4. n \in 0 .. n /\ \A j \in listers : j <= n /\ j \in Nat
  OBVIOUS
<1> HIDE DEF Was, Lists
<1>5. ASSUME NEW p, listers # {}, \A j \in listers : Lists(j) = p PROVE Was(n) = p
  <2> DEFINE Reached == {i \in Nat : i <= n /\ name \in DOMAIN f[i].props => Was(i) = p}
  <2>1. 0 \in Reached
    BY <1>2, <1>4
  <2>2. ASSUME NEW i \in Nat, i \in Reached, i + 1 <= n, name \in DOMAIN f[i + 1].props PROVE Was(i + 1) = p
    <3>1. i + 1 \in listers \/ name \in DOMAIN f[i].props
      BY <1>2, <1>4, <2>2
    <3>2. QED
      BY <1>3, <1>5, <2>2, <3>1, SameWidened
  <2>3. \A i \in Nat : i \in Reached => i + 1 \in Reached
    BY <2>2
  <2> HIDE DEF Reached
  <2>4. n \in Reached
    BY <2>1, <2>3, SetInduction
  <2>5. QED
    BY <1>2, <1>4, <1>5, <2>4 DEF Reached
<1>6. ASSUME listers # {}, \A j \in listers : IsRecord(Lists(j)) /\ IsTextOrNull(Lists(j))
      PROVE  /\ IsRecord(Was(n))
             /\ \A j \in listers : \A w : Flat(w) /\ w.type = "string" /\ DeclaredBy(Lists(j), "input", w)
                                         => DeclaredBy(Was(n), "input", w)
             /\ \A j \in listers : (\A k \in listers : j <= k) /\ DeclaredBy(Lists(j), "input", Null)
                                         => DeclaredBy(Was(n), "input", Null)
  <2> DEFINE Good(i) ==
               /\ IsRecord(Was(i)) /\ IsTextOrNull(Was(i))
               /\ \A j \in listers : \A w : j <= i /\ Flat(w) /\ w.type = "string" /\ DeclaredBy(Lists(j), "input", w)
                                          => DeclaredBy(Was(i), "input", w)
               /\ \A j \in listers : (\A k \in listers : j <= k) /\ DeclaredBy(Lists(j), "input", Null)
                                          => DeclaredBy(Was(i), "input", Null)
             Reached == {i \in Nat : i <= n /\ name \in DOMAIN f[i].props => Good(i)}
  <2>1. 0 \in Reached
    BY <1>2, <1>4
  <2>2. ASSUME NEW i \in Nat, i \in Reached, i + 1 <= n, name \in DOMAIN f[i + 1].props PROVE Good(i + 1)
    <3>1. CASE i + 1 \notin listers
      <4>1. name \in DOMAIN f[i].props /\ \A j \in listers : j <= i + 1 => j <= i
        BY <1>2, <1>4, <2>2, <3>1
      <4>2. Was(i + 1) = Was(i) /\ Good(i)
        BY <1>3, <2>2, <3>1, <4>1
      <4>3. QED
        BY <4>1, <4>2
    <3>2. CASE i + 1 \in listers /\ name \in DOMAIN f[i].props
      <4>1. Was(i + 1) = UnionEnumSchema(Was(i), Lists(i + 1)) /\ Good(i)
        BY <1>3, <2>2, <3>2
      <4>2. /\ IsRecord(Was(i + 1)) /\ IsTextOrNull(Was(i + 1))
            /\ \A w : Flat(w) /\ w.type = "string" /\ (DeclaredBy(Was(i), "input", w) \/ DeclaredBy(Lists(i + 1), "input", w))
                        => DeclaredBy(Was(i + 1), "input", w)
            /\ DeclaredBy(Was(i), "input", Null) => DeclaredBy(Was(i + 1), "input", Null)
        BY <1>6, <3>2, <4>1, WidenedAdmits
      <4>3. \A j \in listers : j <= i + 1 => j <= i \/ j = i + 1
        BY <1>4
      <4>4. QED
        BY <4>1, <4>2, <4>3
    <3>3. CASE i + 1 \in listers /\ name \notin DOMAIN f[i].props
      <4>1. Was(i + 1) = Lists(i + 1)
        BY <1>3, <2>2, <3>3
      <4>2. i \in 0 .. n
        BY <2>2
      <4>3. \A j \in listers : i + 1 <= j
        BY <1>2, <1>4, <3>3, <4>2
      <4>4. \A j \in listers : j <= i + 1 => j = i + 1
        BY <1>4, <4>3
      <4>5. \A j \in listers : (\A k \in listers : j <= k) => j = i + 1
        BY <3>3, <4>4
      <4>6. QED
        BY <1>6, <3>3, <4>1, <4>4, <4>5
    <3>4. QED
      BY <3>1, <3>2, <3>3
  <2>3. \A i \in Nat : i \in Reached => i + 1 \in Reached
    <3> HIDE DEF Good
    <3>1. QED
      BY <2>2
  <2> HIDE DEF Reached, Good
  <2>4. n \in Reached
    BY <2>1, <2>3, SetInduction
  <2>5. Good(n)
    BY <1>2, <1>4, <1>6, <2>4 DEF Reached
  <2>6. QED
    BY <1>4, <2>5 DEF Good
<1>7. DOMAIN listed = listers /\ \A j \in listers : listed[j] = Lists(j)
  BY DEF Lists
<1>8. Was(n) = m.props[name]
  BY <1>1 DEF Was
<1>9. ASSUME AreTexts(listed) PROVE TextsJoined(listed, Was(n))
  <2>1. \A j \in listers : IsRecord(Lists(j)) /\ IsTextOrNull(Lists(j))
    BY <1>7, <1>9 DEF AreTexts
  <2>2. /\ IsRecord(Was(n))
        /\ \A j \in listers : \A w : Flat(w) /\ w.type = "string" /\ DeclaredBy(Lists(j), "input", w)
                                   => DeclaredBy(Was(n), "input", w)
        /\ \A j \in listers : (\A k \in listers : j <= k) /\ DeclaredBy(Lists(j), "input", Null)
                                   => DeclaredBy(Was(n), "input", Null)
    BY <1>6, <2>1
  <2>3. QED
    BY <1>7, <2>2 DEF TextsJoined
<1>10. ASSUME NEW p, AreAll(listed, p) PROVE Was(n) = p
  <2>1. \A j \in listers : Lists(j) = p
    BY <1>7, <1>10 DEF AreAll
  <2>2. QED
    BY <1>5, <2>1
<1>11. QED
  BY <1>8, <1>9, <1>10

Own(s) == [types |-> s.types, required |-> s.required,
           props |-> [name \in DOMAIN s.props |-> Graph[s.props[name]]]]

LEMMA MergedIs ==
  ASSUME NEW n \in Node
  PROVE  /\ ~Composed(Graph[n]) => Merged[n] = Own(Graph[n])
         /\ Composed(Graph[n]) =>
              /\ Merged[n].types = {"object"}
              /\ Merged[n].props = CollectUnion(CollectAll(Own(Graph[n]), AllFlat(Graph[n], Merged)), UnionFlat(Graph[n], Merged)).props
              /\ Merged[n].required =
                   UNION {Own(Graph[n]).required, UNION {f.required : f \in ToSet(AllFlat(Graph[n], Merged))},
                          RequiredByAll(UnionFlat(Graph[n], Merged))}
<1>1. Merged[n] = MergeWith(Graph[n], Merged)
  BY MergedIsDefined
<1> DEFINE s == Graph[n]
           all == AllFlat(s, Merged)
           union == UnionFlat(s, Merged)
           props == CollectUnion(CollectAll(Own(s), all), union).props
           required == UNION {Own(s).required, UNION {f.required : f \in ToSet(all)}, RequiredByAll(union)}
<1>2. MergeWith(s, Merged) = IF ~Composed(s) THEN Own(s)
                             ELSE [types |-> {"object"}, props |-> props, required |-> required]
  BY DEF MergeWith, Own, AllFlat, UnionFlat
<1> HIDE DEF props, required
<1>3. QED
  BY <1>1, <1>2 DEF props, required, all, union

\* The branches of the unions that are merged.
LEMMA AlternativeFacts ==
  ASSUME NEW n \in Node
  PROVE  /\ Alternative(n) \in Seq(Node)
         /\ ToSet(Alternative(n)) = {b \in ToSet(Graph[n].oneOf) \union ToSet(Graph[n].anyOf) : ~Is(Merged[b], "null")}
         /\ ToSet(Alternative(n)) \subseteq Branches(Graph[n])
         /\ \A i \in 1 .. Len(Alternative(n)) : Alternative(n)[i] \in ToSet(Alternative(n))
         /\ \A b \in ToSet(Alternative(n)) : \E i \in 1 .. Len(Alternative(n)) : Alternative(n)[i] = b
<1>1. IsSchema(Graph[n])
  BY NodesAreRecords DEF IsRecord
<1>2. /\ Alternative(n) \in Seq(Node)
      /\ ToSet(Alternative(n)) = {b \in ToSet(Graph[n].oneOf) \union ToSet(Graph[n].anyOf) : ~Is(Merged[b], "null")}
  BY <1>1, AlternativesReads DEF Alternative
<1>3. ToSet(Alternative(n)) \subseteq Branches(Graph[n])
  BY <1>1, <1>2, BranchesOf
<1>4. QED
  BY <1>2, <1>3, ElementsOf

\* Where the properties of a merged object come from.
LEMMA MergedProperties ==
  ASSUME NEW n \in Node
  PROVE  /\ DOMAIN Merged[n].props = Settled(n) \union (UNION {DOMAIN Merged[b].props : b \in ToSet(Alternative(n))})
         /\ \A name \in DOMAIN Graph[n].props : Merged[n].props[name] = Graph[Graph[n].props[name]]
         /\ \A name \in Settled(n) \ DOMAIN Graph[n].props :
              \E b \in ToSet(Graph[n].allOf) : name \in DOMAIN Merged[b].props /\ Merged[n].props[name] = Merged[b].props[name]
         /\ \A name \in DOMAIN Merged[n].props \ Settled(n) :
              \E m0, union : /\ DOMAIN m0 = {"props", "settled"} /\ Len(union) = Len(Alternative(n))
                             /\ \A i \in 1 .. Len(union) : union[i] = Merged[Alternative(n)[i]]
                             /\ Merged[n].props = CollectUnion(m0, union).props
                             /\ name \notin m0.settled /\ name \notin DOMAIN m0.props
<1> DEFINE s == Graph[n]
           all == AllFlat(s, Merged)
           union == UnionFlat(s, Merged)
           m0 == CollectAll(Own(s), all)
           m == CollectUnion(m0, union)
<1>1. IsSchema(s) /\ s.allOf \in Seq(Node)
  BY NodesAreRecords, BranchesOf DEF IsRecord
<1>2. Len(s.allOf) \in Nat /\ Len(Alternative(n)) \in Nat
  BY <1>1, AlternativeFacts
<1>3. /\ Len(all) = Len(s.allOf) /\ \A i \in 1 .. Len(s.allOf) : all[i] = Merged[s.allOf[i]]
  <2>1. all = [i \in 1 .. Len(s.allOf) |-> all[i]] /\ \A i \in 1 .. Len(s.allOf) : all[i] = Merged[s.allOf[i]]
    BY DEF AllFlat
  <2> HIDE DEF all
  <2>2. QED
    BY <1>2, <2>1, TablesAreLists
<1>4. /\ Len(union) = Len(Alternative(n)) /\ \A i \in 1 .. Len(union) : union[i] = Merged[Alternative(n)[i]]
  <2>1. /\ union = [i \in 1 .. Len(Alternative(n)) |-> union[i]]
        /\ \A i \in 1 .. Len(Alternative(n)) : union[i] = Merged[Alternative(n)[i]]
    BY DEF UnionFlat, Alternative
  <2> HIDE DEF union
  <2>2. QED
    BY <1>2, <2>1, TablesAreLists
<1>5. /\ DOMAIN Own(s).props = DOMAIN s.props
      /\ \A name \in DOMAIN s.props : Own(s).props[name] = Graph[s.props[name]]
  BY DEF Own
<1>6. CASE ~Composed(s)
  <2>1. Merged[n].props = Own(s).props
    BY <1>6, MergedIs
  <2>2. s.allOf = <<>> /\ s.oneOf = <<>> /\ s.anyOf = <<>>
    BY <1>1, <1>6, Uncomposed
  <2>3. ToSet(s.allOf) = {} /\ ToSet(s.oneOf) = {} /\ ToSet(s.anyOf) = {}
    BY <2>2 DEF ToSet
  <2>4. ToSet(Alternative(n)) = {}
    BY <2>3, AlternativeFacts
  <2>5. (UNION {DOMAIN Merged[b].props : b \in {}}) = {}
    OBVIOUS
  <2>6. Settled(n) = DOMAIN s.props
    BY <2>3, <2>5 DEF Settled
  <2>7. QED
    BY <1>5, <2>1, <2>4, <2>5, <2>6
<1>7. CASE Composed(s)
  <2>1. Merged[n].props = m.props
    BY <1>7, MergedIs
  <2> HIDE DEF all, union
  <2>2. /\ DOMAIN m0 = {"props", "settled"} /\ m0.settled = DOMAIN m0.props
        /\ DOMAIN m0.props = DOMAIN Own(s).props \union UNION {DOMAIN all[j].props : j \in 1 .. Len(all)}
        /\ \A name \in DOMAIN Own(s).props : m0.props[name] = Own(s).props[name]
        /\ \A name \in DOMAIN m0.props \ DOMAIN Own(s).props :
             \E j \in 1 .. Len(all) : name \in DOMAIN all[j].props /\ m0.props[name] = all[j].props[name]
    BY <1>2, <1>3, AllSettled
  <2>3. /\ \A j \in 1 .. Len(all) : s.allOf[j] \in ToSet(s.allOf)
        /\ \A b \in ToSet(s.allOf) : \E j \in 1 .. Len(all) : s.allOf[j] = b
    BY <1>1, <1>3, ElementsOf
  <2>4. {DOMAIN all[j].props : j \in 1 .. Len(all)} = {DOMAIN Merged[b].props : b \in ToSet(s.allOf)}
    BY <1>3, <2>3
  <2>5. DOMAIN m0.props = Settled(n)
    BY <1>5, <2>2, <2>4 DEF Settled
  <2> HIDE DEF m0
  <2>6. /\ DOMAIN m.props = DOMAIN m0.props \union (UNION {DOMAIN union[j].props : j \in 1 .. Len(union)})
        /\ \A name \in m0.settled \intersect DOMAIN m0.props : m.props[name] = m0.props[name]
    <3>1. Len(union) \in Nat /\ m = CollectUnion(m0, union)
      BY <1>2, <1>4
    <3> HIDE DEF m
    <3>2. QED
      BY <2>2, <3>1, UnionSettled
  <2>7. {DOMAIN union[j].props : j \in 1 .. Len(union)} = {DOMAIN Merged[b].props : b \in ToSet(Alternative(n))}
    <3>1. /\ \A j \in 1 .. Len(union) : Alternative(n)[j] \in ToSet(Alternative(n))
          /\ \A b \in ToSet(Alternative(n)) : \E j \in 1 .. Len(union) : Alternative(n)[j] = b
      BY <1>4, AlternativeFacts
    <3>2. QED
      BY <1>4, <3>1
  <2> HIDE DEF m
  <2>8. DOMAIN Merged[n].props = Settled(n) \union (UNION {DOMAIN Merged[b].props : b \in ToSet(Alternative(n))})
    BY <2>1, <2>5, <2>6, <2>7
  <2>9. \A name \in DOMAIN s.props : Merged[n].props[name] = Graph[s.props[name]]
    BY <1>5, <2>1, <2>2, <2>5, <2>6 DEF Settled
  <2>10. ASSUME NEW name \in Settled(n) \ DOMAIN s.props
         PROVE  \E b \in ToSet(s.allOf) : name \in DOMAIN Merged[b].props /\ Merged[n].props[name] = Merged[b].props[name]
    <3>1. PICK j \in 1 .. Len(all) : name \in DOMAIN all[j].props /\ m0.props[name] = all[j].props[name]
      BY <1>5, <2>2, <2>5
    <3>2. Merged[n].props[name] = m0.props[name]
      BY <2>1, <2>2, <2>5, <2>6
    <3>3. all[j] = Merged[s.allOf[j]] /\ s.allOf[j] \in ToSet(s.allOf)
      BY <1>3, <2>3
    <3>4. QED
      BY <3>1, <3>2, <3>3
  <2>11. ASSUME NEW name \in DOMAIN Merged[n].props \ Settled(n)
         PROVE  /\ DOMAIN m0 = {"props", "settled"} /\ Len(union) = Len(Alternative(n))
                /\ \A i \in 1 .. Len(union) : union[i] = Merged[Alternative(n)[i]]
                /\ Merged[n].props = CollectUnion(m0, union).props
                /\ name \notin m0.settled /\ name \notin DOMAIN m0.props
    BY <1>4, <2>1, <2>2, <2>5 DEF m
  <2>12. QED
    BY <2>8, <2>9, <2>10, <2>11
<1>8. QED
  BY <1>6, <1>7

(***************************************************************************)
(* What the merged object takes and requires.                              *)
(***************************************************************************)
Listed(n, name) == [i \in Listers(n, name) |-> Merged[Alternative(n)[i]].props[name]]

BranchesAreRecords(n) ==
  \A b \in Branches(Graph[n]) : \A x \in DOMAIN Merged[b].props : IsRecord(Merged[b].props[x])

\* A property that no one has settled: the same in each branch, or a string.
LEMMA UnsettledProperty ==
  ASSUME Meaning, UnionsAgree, NEW n \in Node, NEW name \in DOMAIN Merged[n].props \ Settled(n),
         BranchesAreRecords(n)
  PROVE  /\ Listers(n, name) # {} /\ IsRecord(Merged[n].props[name])
         /\ \/ AreAll(Listed(n, name), Merged[n].props[name])
            \/ AreTexts(Listed(n, name)) /\ TextsJoined(Listed(n, name), Merged[n].props[name])
<1> DEFINE alt == Alternative(n)
           listers == Listers(n, name)
           listed == Listed(n, name)
           q == Merged[n].props[name]
<1>1. PICK m0, union : /\ DOMAIN m0 = {"props", "settled"} /\ Len(union) = Len(alt)
                       /\ \A i \in 1 .. Len(union) : union[i] = Merged[alt[i]]
                       /\ Merged[n].props = CollectUnion(m0, union).props
                       /\ name \notin m0.settled /\ name \notin DOMAIN m0.props
  BY MergedProperties
<1>2. Len(union) \in Nat
  BY <1>1, AlternativeFacts
<1>3. /\ DOMAIN listed \subseteq 1 .. Len(union)
      /\ \A j \in 1 .. Len(union) : j \in DOMAIN listed <=> name \in DOMAIN union[j].props
  BY <1>1 DEF Listers, Listed
<1>4. DOMAIN listed = listers /\ \A j \in DOMAIN listed : listed[j] = union[j].props[name]
  BY <1>1, <1>3 DEF Listed
<1>5. \E b \in ToSet(alt) : name \in DOMAIN Merged[b].props
  BY MergedProperties
<1>6. listers # {}
  <2>1. PICK b \in ToSet(alt) : name \in DOMAIN Merged[b].props
    BY <1>5
  <2>2. PICK i \in 1 .. Len(alt) : alt[i] = b
    BY <2>1, AlternativeFacts
  <2>3. i \in listers
    BY <2>1, <2>2 DEF Listers
  <2>4. QED
    BY <2>3
<1>7. DOMAIN listed = listers /\ \A i \in listers : IsRecord(listed[i])
  <2>1. \A i \in listers : alt[i] \in Branches(Graph[n]) /\ name \in DOMAIN Merged[alt[i]].props
    BY AlternativeFacts DEF Listers
  <2>2. QED
    BY <2>1 DEF Listed, BranchesAreRecords
<1>8. Listings(n, name) = {listed[i] : i \in listers}
  BY DEF Listings, Listed
<1>9. \/ \A one, other \in Listings(n, name) : one = other
      \/ \A item \in Listings(n, name) : IsTextOrNull(item)
  <2>1. name \in (UNION {DOMAIN Merged[b].props : b \in ToSet(alt)}) \ Settled(n)
    BY <1>5
  <2>2. QED
    BY <2>1 DEF UnionsAgree
<1> DEFINE m == CollectUnion(m0, union)
<1>10. m.props[name] = q
  BY <1>1
<1> HIDE DEF m, alt, listers, listed, q
<1>11. /\ \A p : AreAll(listed, p) => m.props[name] = p
       /\ AreTexts(listed) => TextsJoined(listed, m.props[name])
  <2>1. m = CollectUnion(m0, union)
    BY DEF m
  <2>2. DOMAIN m0 = {"props", "settled"} /\ name \notin m0.settled /\ name \notin DOMAIN m0.props
    BY <1>1
  <2>3. QED
    BY <1>2, <1>3, <1>4, <1>6, <2>1, <2>2, UnionJoins
<1>12. CASE \A one, other \in Listings(n, name) : one = other
  <2>1. PICK i \in listers : TRUE
    BY <1>6
  <2>2. AreAll(listed, listed[i])
    BY <1>7, <1>8, <1>12 DEF AreAll
  <2>3. q = listed[i]
    BY <1>10, <1>11, <2>2
  <2>4. QED
    BY <1>6, <1>7, <2>1, <2>2, <2>3 DEF listers, listed, q
<1>13. CASE \A item \in Listings(n, name) : IsTextOrNull(item)
  <2>1. AreTexts(listed)
    BY <1>7, <1>8, <1>13 DEF AreTexts
  <2>2. TextsJoined(listed, q)
    BY <1>10, <1>11, <2>1
  <2>3. QED
    BY <1>6, <2>1, <2>2 DEF TextsJoined, listers, listed, q
<1>14. QED
  BY <1>9, <1>12, <1>13

LEMMA MergedAreRecords ==
  ASSUME Meaning, UnionsAgree
  PROVE  \A n \in Node : \A name \in DOMAIN Merged[n].props : IsRecord(Merged[n].props[name])
<1> DEFINE T == {n \in Node : \A name \in DOMAIN Merged[n].props : IsRecord(Merged[n].props[name])}
<1>1. ASSUME NEW n \in Node, Branches(Graph[n]) \subseteq T, NEW name \in DOMAIN Merged[n].props
      PROVE  IsRecord(Merged[n].props[name])
  <2>1. IsRecord(Graph[n])
    BY NodesAreRecords
  <2>2. CASE name \in DOMAIN Graph[n].props
    <3>1. Graph[n].props[name] \in Node
      BY <2>1, <2>2, BranchesOf DEF IsRecord
    <3>2. Merged[n].props[name] = Graph[Graph[n].props[name]]
      BY <2>2, MergedProperties
    <3>3. QED
      BY <3>1, <3>2, NodesAreRecords
  <2>3. CASE name \in Settled(n) \ DOMAIN Graph[n].props
    <3>1. PICK b \in ToSet(Graph[n].allOf) : name \in DOMAIN Merged[b].props /\ Merged[n].props[name] = Merged[b].props[name]
      BY <2>3, MergedProperties
    <3>2. b \in Branches(Graph[n])
      BY <2>1, BranchesOf DEF IsRecord
    <3>3. QED
      BY <1>1, <3>1, <3>2
  <2>4. CASE name \notin Settled(n)
    <3>1. BranchesAreRecords(n)
      BY <1>1 DEF BranchesAreRecords
    <3>2. name \in DOMAIN Merged[n].props \ Settled(n)
      BY <1>1, <2>4
    <3> HIDE DEF T
    <3>3. QED
      BY <3>1, <3>2, UnsettledProperty
  <2>5. QED
    BY <2>2, <2>3, <2>4
<1>2. \A n \in Node : Branches(Graph[n]) \subseteq T => n \in T
  BY <1>1
<1> HIDE DEF T
<1>3. Node \subseteq T
  BY <1>2, BranchInduction
<1>4. QED
  BY <1>3 DEF T

\* A branch that declares an object is merged.
LEMMA DeclaringBranchIsMerged ==
  ASSUME Meaning, NEW n \in Node, NEW v, v.type = "object",
         NEW b \in ToSet(Graph[n].oneOf) \union ToSet(Graph[n].anyOf), Declares(b, "input", v)
  PROVE  b \in ToSet(Alternative(n))
<1>1. b \in Node
  BY NodesAreRecords, BranchesOf DEF IsRecord
<1>2. ~Is(Graph[b], "null")
  BY <1>1, OnlyNull
<1>3. Merged[b].types \in {Graph[b].types, {"object"}}
  <2>1. Own(Graph[b]).types = Graph[b].types
    BY DEF Own
  <2>2. QED
    BY <1>1, <2>1, MergedIs
<1>4. ~Is(Merged[b], "null")
  BY <1>2, <1>3 DEF Is
<1>5. QED
  BY <1>4, AlternativeFacts

\* A branch of a union that lists what no one has settled and some body has.
LEMMA DeclaringBranchLists ==
  ASSUME Meaning, NEW n \in Node, NEW v, v.type = "object", Declares(n, "input", v),
         NEW name \in (DOMAIN Merged[n].props \intersect Fields(v)) \ Settled(n)
  PROVE  \E b \in ToSet(Alternative(n)) : Declares(b, "input", v) /\ name \in DOMAIN Merged[b].props
<1> DEFINE s == Graph[n]
<1>1. DeclaredBy(s, "input", v)
  BY DEF Meaning, Mode
<1>2. PICK a \in ToSet(Alternative(n)) : name \in DOMAIN Merged[a].props
  BY MergedProperties
<1>3. a \in ToSet(s.oneOf) \union ToSet(s.anyOf)
  BY <1>2, AlternativeFacts
<1>4. \A branches \in {s.oneOf, s.anyOf} : ToSet(branches) # {} =>
        \E b \in ToSet(branches) : Declares(b, "input", v) /\ Owns(branches, b, v)
  <2>1. ToSet(<<>>) = {}
    BY DEF ToSet
  <2>2. QED
    BY <1>1, <2>1, SomeBranch
<1>5. PICK branches \in {s.oneOf, s.anyOf} : a \in ToSet(branches)
  BY <1>3
<1>6. PICK b \in ToSet(branches) : Declares(b, "input", v) /\ Owns(branches, b, v)
  BY <1>4, <1>5
<1>7. name \in DOMAIN Merged[b].props
  BY <1>2, <1>5, <1>6 DEF Owns
<1>8. b \in ToSet(Alternative(n))
  BY <1>5, <1>6, DeclaringBranchIsMerged
<1>9. QED
  BY <1>6, <1>7, <1>8

\* The merged object takes what is in the fields of a body its schema declares.
LEMMA MergedTakes ==
  ASSUME Meaning, UnionsAgree, NEW v, v.type = "object", IsValue(v)
  PROVE  \A n \in Node : Declares(n, "input", v) =>
           \A name \in DOMAIN Merged[n].props \intersect Fields(v) :
             v.fields[name].type = "string" \/ NullComesFirst =>
               DeclaredBy(Merged[n].props[name], "input", v.fields[name])
<1> DEFINE Fine(n) ==
             \A name \in DOMAIN Merged[n].props \intersect Fields(v) :
               v.fields[name].type = "string" \/ NullComesFirst =>
                 DeclaredBy(Merged[n].props[name], "input", v.fields[name])
           T == {n \in Node : Declares(n, "input", v) => Fine(n)}
<1>1. ASSUME NEW n \in Node, Branches(Graph[n]) \subseteq T, Declares(n, "input", v),
             NEW name \in DOMAIN Merged[n].props \intersect Fields(v),
             NEW w, w = v.fields[name], w.type = "string" \/ NullComesFirst
      PROVE  DeclaredBy(Merged[n].props[name], "input", w)
  <2> DEFINE s == Graph[n]
  <2>1. IsRecord(s) /\ IsSchema(s) /\ DeclaredBy(s, "input", v)
    BY <1>1, NodesAreRecords DEF Meaning, Mode, IsRecord
  <2>2. CASE name \in DOMAIN s.props
    <3>1. Declares(s.props[name], "input", w)
      BY <1>1, <2>1, <2>2 DEF DeclaredBy, DeclaredWith
    <3>2. s.props[name] \in Node
      BY <2>1, <2>2, BranchesOf
    <3>3. DeclaredBy(Graph[s.props[name]], "input", w)
      BY <3>1, <3>2 DEF Meaning, Mode
    <3>4. QED
      BY <2>2, <3>3, MergedProperties
  <2>3. CASE name \in Settled(n) \ DOMAIN s.props
    <3>1. PICK b \in ToSet(s.allOf) : name \in DOMAIN Merged[b].props /\ Merged[n].props[name] = Merged[b].props[name]
      BY <2>3, MergedProperties
    <3>2. Declares(b, "input", v)
      BY <2>1, SomeBranch
    <3>3. b \in T
      BY <1>1, <2>1, BranchesOf
    <3>4. QED
      BY <1>1, <3>1, <3>2, <3>3
  <2>4. CASE name \notin Settled(n)
    <3> DEFINE alt == Alternative(n)
               listers == Listers(n, name)
               q == Merged[n].props[name]
               listed == Listed(n, name)
    <3>1. BranchesAreRecords(n)
      BY <2>1, MergedAreRecords, BranchesOf DEF BranchesAreRecords
    <3>2. /\ listers # {} /\ DOMAIN listed = listers
          /\ AreAll(listed, q) \/ (AreTexts(listed) /\ TextsJoined(listed, q))
      <4>1. name \in DOMAIN Merged[n].props \ Settled(n)
        BY <1>1, <2>4
      <4>2. DOMAIN listed = listers
        BY DEF Listed
      <4>3. QED
        BY <3>1, <4>1, <4>2, UnsettledProperty
    <3>3. PICK b \in ToSet(alt) : Declares(b, "input", v) /\ name \in DOMAIN Merged[b].props
      BY <1>1, <2>4, DeclaringBranchLists
    <3>4. b \in Branches(s) /\ b \in T
      BY <1>1, <2>1, <3>3, AlternativeFacts
    <3>5. PICK j \in listers : alt[j] = b
      BY <3>3, <3>4, AlternativeFacts DEF Listers
    <3>6. DeclaredBy(listed[j], "input", w)
      <4>1. listed[j] = Merged[b].props[name]
        BY <3>5 DEF Listed
      <4>2. QED
        BY <1>1, <3>3, <3>4, <4>1
    <3> HIDE DEF listed, listers, q, alt
    <3>7. CASE AreAll(listed, q)
      BY <3>2, <3>6, <3>7 DEF AreAll, q
    <3>8. CASE AreTexts(listed) /\ TextsJoined(listed, q)
      <4>1. w.type \in {"string", "null"}
        BY <3>2, <3>6, <3>8, TextOrNullIsText DEF TextAs, AreTexts
      <4>2. Flat(w)
        BY <1>1, <4>1 DEF IsValue, Flat
      <4>3. CASE w.type = "string"
        BY <3>2, <3>6, <3>8, <4>2, <4>3 DEF TextsJoined, q
      <4>4. CASE w.type = "null"
        <5>1. w = Null /\ NullComesFirst
          BY <1>1, <4>2, <4>4 DEF Flat
        <5>2. PICK first \in listers : \A k \in listers : first <= k
          <6>1. listers \subseteq Nat
            BY DEF Listers, listers
          <6>2. QED
            BY <3>2, <6>1, LeastExists
        <5>3. name \in (UNION {DOMAIN Merged[c].props : c \in ToSet(alt)}) \ Settled(n)
          BY <2>4, <3>3, <3>4
        <5>4. listed[j] = Merged[Alternative(n)[j]].props[name] /\ listed[first] = Merged[Alternative(n)[first]].props[name]
          BY DEF listed, Listed, listers
        <5>5. DeclaredBy(listed[first], "input", Null)
          BY <3>6, <5>1, <5>2, <5>3, <5>4 DEF NullComesFirst, alt, listers
        <5>6. QED
          BY <3>2, <3>8, <5>1, <5>2, <5>5 DEF TextsJoined, q
      <4>5. QED
        BY <4>1, <4>3, <4>4
    <3>9. QED
      BY <3>2, <3>7, <3>8
  <2>5. QED
    BY <2>2, <2>3, <2>4
<1>2. \A n \in Node : Branches(Graph[n]) \subseteq T => n \in T
  BY <1>1
<1> HIDE DEF T
<1>3. Node \subseteq T
  BY <1>2, BranchInduction
<1>4. QED
  BY <1>3 DEF T

\* The caller may set what is in the fields of a body the schema declares.
LEMMA MergedSends ==
  ASSUME Meaning, DirectionsAgree, NEW v, v.type = "object"
  PROVE  \A n \in Node : Declares(n, "input", v) =>
           \A name \in DOMAIN Merged[n].props \intersect Fields(v) : ~Merged[n].props[name].readOnly
<1> DEFINE T == {n \in Node : Declares(n, "input", v) =>
                   \A name \in DOMAIN Merged[n].props \intersect Fields(v) : ~Merged[n].props[name].readOnly}
<1>1. ASSUME NEW n \in Node, Branches(Graph[n]) \subseteq T, Declares(n, "input", v),
             NEW name \in DOMAIN Merged[n].props \intersect Fields(v)
      PROVE  ~Merged[n].props[name].readOnly
  <2> DEFINE s == Graph[n]
  <2>1. IsSchema(s) /\ DeclaredBy(s, "input", v)
    BY <1>1, NodesAreRecords DEF Meaning, Mode, IsRecord
  <2>2. CASE name \in DOMAIN s.props
    <3>1. KeepProperty(Graph[s.props[name]], "input")
      BY <1>1, <2>1, <2>2 DEF DeclaredBy, DeclaredWith
    <3>2. QED
      BY <2>2, <3>1, MergedProperties DEF KeepProperty
  <2>3. CASE name \in Settled(n) \ DOMAIN s.props
    <3>1. PICK b \in ToSet(s.allOf) : name \in DOMAIN Merged[b].props /\ Merged[n].props[name] = Merged[b].props[name]
      BY <2>3, MergedProperties
    <3>2. Declares(b, "input", v) /\ b \in T
      BY <1>1, <2>1, SomeBranch, BranchesOf
    <3>3. QED
      BY <1>1, <3>1, <3>2
  <2>4. CASE name \notin Settled(n)
    <3>1. PICK b \in ToSet(Alternative(n)) : Declares(b, "input", v) /\ name \in DOMAIN Merged[b].props
      BY <1>1, <2>4, DeclaringBranchLists
    <3>2. b \in Branches(s) /\ b \in Node /\ b \in T
      BY <1>1, <2>1, <3>1, BranchesOf, AlternativeFacts
    <3>3. ~Merged[b].props[name].readOnly
      BY <1>1, <3>1, <3>2
    <3>4. name \in DOMAIN Merged[b].props \intersect DOMAIN Merged[n].props
      BY <1>1, <3>1
    <3>5. QED
      BY <3>2, <3>3, <3>4 DEF DirectionsAgree
  <2>5. QED
    BY <2>2, <2>3, <2>4
<1>2. \A n \in Node : Branches(Graph[n]) \subseteq T => n \in T
  BY <1>1
<1> HIDE DEF T
<1>3. Node \subseteq T
  BY <1>2, BranchInduction
<1>4. QED
  BY <1>3 DEF T

\* A required name is in the body, or for responses only.
Met(v, n, name) ==
  name \in Fields(v) \/ (name \in DOMAIN Merged[n].props /\ Merged[n].props[name].readOnly)

\* What the merged object requires is in a body its schema declares, or is for
\* responses only.
LEMMA MergedRequires ==
  ASSUME Meaning, DirectionsAgree, NEW v, v.type = "object"
  PROVE  \A n \in Node : Declares(n, "input", v) =>
           \A name \in Merged[n].required :
             Met(v, n, name)
<1> DEFINE T == {n \in Node : Declares(n, "input", v) => \A name \in Merged[n].required : Met(v, n, name)}
<1>1. ASSUME NEW n \in Node, Branches(Graph[n]) \subseteq T, Declares(n, "input", v), NEW name \in Merged[n].required
      PROVE  Met(v, n, name)
  <2> DEFINE s == Graph[n]
  <2>1. IsSchema(s) /\ DeclaredBy(s, "input", v)
    BY <1>1, NodesAreRecords DEF Meaning, Mode, IsRecord
  <2>2. ASSUME name \in s.required PROVE Met(v, n, name)
    <3>1. name \in Fields(v) \/ (name \in DOMAIN s.props /\ Graph[s.props[name]].readOnly)
      BY <2>1, <2>2 DEF DeclaredBy, DeclaredWith, KeepProperty
    <3>2. DOMAIN s.props \subseteq DOMAIN Merged[n].props
      BY MergedProperties DEF Settled
    <3>3. QED
      BY <3>1, <3>2, MergedProperties DEF Met
  <2>3. ASSUME NEW b \in ToSet(s.allOf) \union ToSet(Alternative(n)), Declares(b, "input", v), name \in Merged[b].required
        PROVE  Met(v, n, name)
    <3>1. b \in Branches(s) /\ b \in Node /\ b \in T
      BY <1>1, <2>1, BranchesOf, AlternativeFacts
    <3>2. Met(v, b, name)
      BY <2>3, <3>1
    <3>3. DOMAIN Merged[b].props \subseteq DOMAIN Merged[n].props
      BY MergedProperties DEF Settled
    <3>4. CASE name \in DOMAIN Merged[b].props /\ Merged[b].props[name].readOnly
      <4>1. name \in Merged[b].required /\ name \in DOMAIN Merged[b].props \intersect DOMAIN Merged[n].props
        BY <2>3, <3>3, <3>4
      <4>2. QED
        BY <3>1, <3>4, <4>1 DEF DirectionsAgree, Met
    <3>5. CASE name \in Fields(v)
      BY <3>5 DEF Met
    <3>6. QED
      BY <3>2, <3>4, <3>5 DEF Met
  <2>4. CASE ~Composed(s)
    <3>1. Merged[n] = Own(s)
      BY <2>4, MergedIs
    <3>2. Own(s).required = s.required
      BY DEF Own
    <3>3. name \in s.required
      BY <1>1, <3>1, <3>2
    <3>4. QED
      BY <2>2, <3>3
  <2>5. CASE Composed(s)
    <3> DEFINE all == AllFlat(s, Merged)
               union == UnionFlat(s, Merged)
               alt == Alternative(n)
    <3>1. \/ name \in s.required
          \/ \E f \in ToSet(all) : name \in f.required
          \/ name \in RequiredByAll(union)
      <4>1. Own(s).required = s.required
        BY DEF Own
      <4>2. Merged[n].required = UNION {Own(s).required, UNION {f.required : f \in ToSet(all)}, RequiredByAll(union)}
        BY <2>5, MergedIs
      <4> HIDE DEF all, union
      <4>3. QED
        BY <1>1, <4>1, <4>2
    <3>2. ASSUME NEW f \in ToSet(all), name \in f.required PROVE Met(v, n, name)
      <4>1. PICK i \in 1 .. Len(s.allOf) : f = Merged[s.allOf[i]]
        BY DEF AllFlat, ToSet
      <4>2. s.allOf[i] \in ToSet(s.allOf)
        BY <2>1, BranchesOf, ElementsOf
      <4>3. Declares(s.allOf[i], "input", v)
        BY <2>1, <4>2, SomeBranch
      <4>4. QED
        BY <2>3, <3>2, <4>1, <4>2, <4>3
    <3>3. ASSUME name \in RequiredByAll(union) PROVE Met(v, n, name)
      <4>1. ToSet(union) = {Merged[b] : b \in ToSet(alt)}
        <5>1. ToSet(union) = {Merged[alt[i]] : i \in 1 .. Len(alt)}
          BY DEF UnionFlat, Alternative, ToSet
        <5>2. /\ \A i \in 1 .. Len(alt) : alt[i] \in ToSet(alt)
              /\ \A b \in ToSet(alt) : \E i \in 1 .. Len(alt) : alt[i] = b
          BY AlternativeFacts
        <5> HIDE DEF alt, union
        <5>3. QED
          BY <5>1, <5>2
      <4>2. \A b \in ToSet(alt) : name \in Merged[b].required
        BY <3>3, <4>1 DEF RequiredByAll
      <4>3. \E b \in ToSet(alt) : TRUE
        BY <3>3, <4>1 DEF RequiredByAll
      <4>4. s.oneOf # <<>> \/ s.anyOf # <<>>
        <5>1. ToSet(<<>>) = {}
          BY DEF ToSet
        <5>2. QED
          BY <4>3, <5>1, AlternativeFacts
      <4>5. PICK b \in ToSet(s.oneOf) \union ToSet(s.anyOf) : Declares(b, "input", v)
        BY <2>1, <4>4, SomeBranch
      <4>6. b \in ToSet(alt)
        BY <4>5, DeclaringBranchIsMerged
      <4>7. QED
        BY <2>3, <4>2, <4>5, <4>6
    <3>4. QED
      BY <2>2, <3>1, <3>2, <3>3
  <2>6. QED
    BY <2>4, <2>5
<1>2. \A n \in Node : Branches(Graph[n]) \subseteq T => n \in T
  BY <1>1
<1> HIDE DEF T
<1>3. Node \subseteq T
  BY <1>2, BranchInduction
<1>4. QED
  BY <1>3 DEF T

(***************************************************************************)
(* Conversion.                                                             *)
(***************************************************************************)
\* Allowing null takes nothing away.
LEMMA AllowNullAccepts ==
  ASSUME NEW json, DOMAIN json = {"types", "enum", "props", "required", "more", "closed", "items", "anyOf", "allOf"},
         NEW v, AcceptedBy(json, v)
  PROVE  AcceptedBy(AllowNull(json), v)
<1>1. CASE json.types = {}
  BY <1>1 DEF AllowNull
<1>2. CASE json.types # {}
  <2> DEFINE wide == AllowNull(json)
  <2>1. /\ wide.types = json.types \union {"null"} /\ wide.enum = json.enum /\ wide.props = json.props
        /\ wide.required = json.required /\ wide.more = json.more /\ wide.closed = json.closed
        /\ wide.items = json.items /\ wide.anyOf = json.anyOf /\ wide.allOf = json.allOf
    BY <1>2 DEF AllowNull
  <2>2. HasType(json.types, v) => HasType(wide.types, v)
    BY <2>1, <1>2 DEF HasType
  <2> HIDE DEF wide
  <2>3. AcceptedBy(wide, v)
    BY <2>1, <2>2 DEF AcceptedBy, AcceptedWith
  <2>4. QED
    BY <2>3 DEF wide
<1>3. QED
  BY <1>1, <1>2

JsonFields == {"types", "enum", "props", "required", "more", "closed", "items", "anyOf", "allOf"}

LEMMA TruncatedAccepts ==
  ASSUME NEW s, NEW v, HasType(SchemaType(s), v)
  PROVE  AcceptedBy(Truncated(s), v) /\ DOMAIN Truncated(s) = JsonFields
<1> DEFINE t == Truncated(s)
<1>1. /\ t.types = SchemaType(s) /\ t.enum = {} /\ t.props = <<>> /\ t.required = {} /\ t.more = <<>>
      /\ t.closed = FALSE /\ t.items = <<>> /\ t.anyOf = <<>> /\ t.allOf = <<>>
      /\ DOMAIN t = JsonFields
  BY DEF Truncated, JsonFields
<1>2. DOMAIN <<>> = {} /\ ToSet(<<>>) = {}
  BY DEF ToSet
<1> HIDE DEF t
<1>3. AcceptedBy(t, v)
  BY <1>1, <1>2 DEF AcceptedBy, AcceptedWith
<1>4. QED
  BY <1>1, <1>3 DEF t

\* What is converted below a schema takes what is declared there.
Faithful(child, mode) ==
  \A n \in Node : DOMAIN child[n] = JsonFields /\ \A u : Declares(n, mode, u) => Accepts(child[n], u)

LEMMA ConvertAccepts ==
  ASSUME Meaning, NEW s, IsRecord(s), NEW mode \in Mode, NEW child, Faithful(child, mode),
         NEW v, DeclaredBy(s, mode, v)
  PROVE  AcceptedBy(ConvertWith(s, mode, child), v)
<1> DEFINE Below(m) == IF mode = "output" THEN AllowNull(child[m]) ELSE child[m]
           kept == {name \in DOMAIN s.props : KeepProperty(Graph[s.props[name]], mode)}
           json == ConvertWith(s, mode, child)
<1>0. IsSchema(s)
  BY DEF IsRecord
<1>1. /\ json.types = SchemaType(s)
      /\ json.enum = (IF mode = "input" THEN ConstrainEnum(s) ELSE {})
      /\ json.props = [name \in kept |-> Below(s.props[name])]
      /\ json.required = (IF mode = "input" /\ s.props # <<>> THEN RequiredProperties(s, mode) ELSE {})
      /\ json.more = [i \in 1 .. Len(s.more) |-> Below(s.more[i])]
      /\ json.closed = (mode = "input" /\ s.more = <<>> /\ s.moreAllowed = "denied")
      /\ json.items = [i \in 1 .. Len(s.items) |-> Below(s.items[i])]
      /\ json.anyOf = [i \in 1 .. Len(Either(s)) |-> child[Either(s)[i]]]
      /\ json.allOf = [i \in 1 .. Len(s.allOf) |-> child[s.allOf[i]]]
  BY DEF ConvertWith
<1>2. ASSUME NEW m \in Node, NEW u, Declares(m, mode, u) PROVE Accepts(Below(m), u) /\ Accepts(child[m], u)
  <2>1. Accepts(child[m], u) /\ DOMAIN child[m] = JsonFields
    BY <1>2 DEF Faithful
  <2>2. AcceptedBy(AllowNull(child[m]), u)
    BY <2>1, AllowNullAccepts DEF Meaning, JsonFields
  <2>3. QED
    BY <2>1, <2>2 DEF Meaning
<1> HIDE DEF json, Below
<1>3. /\ HasType(SchemaType(s), v) /\ IsChoice(s.enum, s.nullable, v)
      /\ \A n \in ToSet(s.allOf) : Declares(n, mode, v)
      /\ \A branches \in {s.oneOf, s.anyOf} : branches # <<>> => \E n \in ToSet(branches) : Declares(n, mode, v)
  BY DEF DeclaredBy, DeclaredWith
<1>4. json.enum = {} \/ v.text \in json.enum
  BY <1>1, <1>3, NullIs DEF IsChoice, ConstrainEnum
<1>5. ASSUME v.type = "object"
      PROVE  /\ json.required \subseteq Fields(v)
             /\ \A name \in Fields(v) \intersect DOMAIN json.props : Accepts(json.props[name], v.fields[name])
             /\ \A name \in Fields(v) \ DOMAIN json.props :
                  ~json.closed /\ (json.more # <<>> => Accepts(json.more[1], v.fields[name]))
  <2>1. /\ \A name \in s.required :
             (name \in DOMAIN s.props /\ ~KeepProperty(Graph[s.props[name]], mode)) \/ name \in Fields(v)
        /\ \A name \in Fields(v) \intersect DOMAIN s.props :
             KeepProperty(Graph[s.props[name]], mode) /\ Declares(s.props[name], mode, v.fields[name])
        /\ \A name \in Fields(v) \ DOMAIN s.props :
             /\ s.moreAllowed # "denied"
             /\ s.more # <<>> => Declares(s.more[1], mode, v.fields[name])
    BY <1>5 DEF DeclaredBy, DeclaredWith
  <2>2. json.required \subseteq Fields(v)
    BY <1>1, <2>1 DEF RequiredProperties
  <2>3. DOMAIN json.props = kept /\ \A name \in kept : json.props[name] = Below(s.props[name]) /\ s.props[name] \in Node
    BY <1>0, <1>1, BranchesOf
  <2>4. \A name \in Fields(v) \intersect DOMAIN json.props : Accepts(json.props[name], v.fields[name])
    BY <1>2, <2>1, <2>3
  <2>5. ASSUME NEW name \in Fields(v) \ DOMAIN json.props
        PROVE  ~json.closed /\ (json.more # <<>> => Accepts(json.more[1], v.fields[name]))
    <3>1. name \notin DOMAIN s.props
      BY <2>1, <2>3, <2>5
    <3>2. ~json.closed
      BY <1>1, <2>1, <3>1
    <3>3. json.more # <<>> => s.more # <<>> /\ 1 \in 1 .. Len(s.more) /\ s.more[1] \in Node
      <4>1. s.more \in Seq(Node)
        BY <1>0, BranchesOf
      <4>2. s.more = <<>> => 1 .. Len(s.more) = {}
        OBVIOUS
      <4>3. s.more = <<>> => json.more = <<>>
        BY <1>1, <4>2
      <4>4. s.more # <<>> => 1 \in 1 .. Len(s.more)
        BY <4>1
      <4>5. QED
        BY <4>1, <4>3, <4>4
    <3>4. json.more # <<>> => json.more[1] = Below(s.more[1])
      BY <1>1, <3>3
    <3>5. QED
      BY <1>2, <2>1, <3>1, <3>2, <3>3, <3>4
  <2>6. QED
    BY <2>2, <2>4, <2>5
<1>6. ASSUME v.type = "array", json.items # <<>>, NEW i \in 1 .. Len(v.items)
      PROVE  Accepts(json.items[1], v.items[i])
  <2>1. s.items \in Seq(Node)
    BY <1>0, BranchesOf
  <2>2. s.items # <<>>
    <3>1. s.items = <<>> => 1 .. Len(s.items) = {}
      OBVIOUS
    <3>2. QED
      BY <1>1, <1>6, <3>1
  <2>3. 1 \in 1 .. Len(s.items) /\ s.items[1] \in Node
    BY <2>1, <2>2
  <2>4. Declares(s.items[1], mode, v.items[i])
    BY <1>6, <2>2 DEF DeclaredBy, DeclaredWith
  <2>5. json.items[1] = Below(s.items[1])
    BY <1>1, <2>3
  <2>6. QED
    BY <1>2, <2>3, <2>4, <2>5
<1>7. ASSUME json.anyOf # <<>> PROVE \E j \in ToSet(json.anyOf) : Accepts(j, v)
  <2>1. Either(s) \in Seq(Node) /\ s.oneOf \in Seq(Node) /\ s.anyOf \in Seq(Node)
    BY <1>0, BranchesOf
  <2>2. s.oneOf # <<>> \/ s.anyOf # <<>>
    <3>1. Either(s) = <<>> => 1 .. Len(Either(s)) = {}
      OBVIOUS
    <3>2. Either(s) # <<>>
      BY <1>1, <1>7, <3>1
    <3>3. s.oneOf = <<>> /\ s.anyOf = <<>> => Either(s) = <<>>
      BY DEF Either
    <3>4. QED
      BY <3>2, <3>3
  <2>3. PICK n \in ToSet(s.oneOf) \union ToSet(s.anyOf) : Declares(n, mode, v)
    BY <1>3, <2>2
  <2>4. n \in ToSet(Either(s))
    BY <1>0, BranchesOf
  <2>5. PICK i \in 1 .. Len(Either(s)) : Either(s)[i] = n
    BY <2>1, <2>4, ElementsOf
  <2>6. n \in Node
    BY <2>1, <2>4, ElementsOf
  <2>7. json.anyOf[i] = child[n] /\ DOMAIN json.anyOf = 1 .. Len(Either(s))
    BY <1>1, <2>5
  <2>8. child[n] \in ToSet(json.anyOf)
    BY <2>7 DEF ToSet
  <2>9. QED
    BY <1>2, <2>3, <2>6, <2>8
<1>8. \A j \in ToSet(json.allOf) : Accepts(j, v)
  <2>1. SUFFICES ASSUME NEW j \in ToSet(json.allOf) PROVE Accepts(j, v)
    OBVIOUS
  <2>2. PICK i \in 1 .. Len(s.allOf) : j = child[s.allOf[i]]
    BY <1>1 DEF ToSet
  <2>3. s.allOf[i] \in ToSet(s.allOf) /\ s.allOf[i] \in Node
    BY <1>0, BranchesOf, ElementsOf
  <2>4. QED
    BY <1>2, <1>3, <2>2, <2>3
<1>9. AcceptedBy(json, v)
  BY <1>1, <1>3, <1>4, <1>5, <1>6, <1>7, <1>8 DEF AcceptedBy, AcceptedWith
<1>10. QED
  BY <1>9 DEF json

\* One level of conversion over the level below.
Level(mode, left, below) ==
  [visited \in SUBSET Node |->
     [n \in Node |->
        IF left = 0 \/ n \in visited THEN Truncated(Graph[n])
        ELSE ConvertWith(Graph[n], mode, below[visited \union {n}])]]

LEMMA ConvertSteps ==
  ASSUME NEW mode \in Mode
  PROVE  \E f : /\ \A left \in 0 .. MaxDepth[mode] : f[left] = Level(mode, left, f[left - 1])
                /\ Convert(mode) = f[MaxDepth[mode] - 1]
<1> DEFINE n == MaxDepth[mode]
           Solves(f, k) == f = [left \in 0 .. k |-> Level(mode, left, f[left - 1])]
           Reached == {k \in Nat : \E f : Solves(f, k)}
<1>0. n \in Nat
  BY MaxDepthAssumption
<1>1. 0 \in Reached
  <2> DEFINE g == [left \in 0 .. 0 |-> Level(mode, 0, mode)]
  <2>1. \A below, other : Level(mode, 0, below) = Level(mode, 0, other)
    BY DEF Level
  <2>2. g[0] = Level(mode, 0, g[0 - 1])
    <3>1. g[0] = Level(mode, 0, mode)
      OBVIOUS
    <3> HIDE DEF g
    <3>2. QED
      BY <2>1, <3>1
  <2>3. DOMAIN g = 0 .. 0 /\ g = [left \in 0 .. 0 |-> g[left]]
    OBVIOUS
  <2> HIDE DEF g
  <2>4. Solves(g, 0)
    <3>1. \A left \in 0 .. 0 : g[left] = Level(mode, left, g[left - 1])
      BY <2>2
    <3>2. QED
      BY <2>3, <3>1
  <2> HIDE DEF Solves
  <2>5. QED
    BY <2>4
<1>2. ASSUME NEW k \in Nat, k \in Reached PROVE k + 1 \in Reached
  <2>1. PICK f : Solves(f, k)
    <3> HIDE DEF Solves
    <3>1. QED
      BY <1>2
  <2> DEFINE g == [i \in 0 .. k + 1 |-> IF i <= k THEN f[i] ELSE Level(mode, k + 1, f[k])]
  <2>2. \A i \in 0 .. k : g[i] = f[i] /\ f[i] = Level(mode, i, f[i - 1])
    BY <2>1
  <2>3. g[k + 1] = Level(mode, k + 1, f[k])
    OBVIOUS
  <2>4. DOMAIN g = 0 .. k + 1 /\ g = [i \in 0 .. k + 1 |-> g[i]]
    OBVIOUS
  <2> HIDE DEF g
  <2>5. ASSUME NEW i \in 0 .. k + 1 PROVE g[i] = Level(mode, i, g[i - 1])
    <3>1. CASE i = 0
      <4>1. \A below, other : Level(mode, 0, below) = Level(mode, 0, other)
        BY DEF Level
      <4>2. 0 \in 0 .. k
        OBVIOUS
      <4>3. g[0] = Level(mode, 0, f[0 - 1])
        BY <2>2, <4>2
      <4>4. QED
        BY <3>1, <4>1, <4>3
    <3>2. CASE i \in 1 .. k
      <4>1. i - 1 \in 0 .. k /\ i \in 0 .. k
        BY <3>2
      <4>2. QED
        BY <2>2, <4>1
    <3>3. CASE i = k + 1
      <4>1. k \in 0 .. k /\ i - 1 = k
        BY <3>3
      <4>2. QED
        BY <2>2, <2>3, <3>3, <4>1
    <3>4. QED
      BY <3>1, <3>2, <3>3
  <2>6. Solves(g, k + 1)
    BY <2>4, <2>5
  <2> HIDE DEF Solves
  <2>7. QED
    BY <2>6
<1> HIDE DEF Reached
<1>3. n \in Reached
  BY <1>0, <1>1, <1>2, SetInduction
<1> DEFINE converted == CHOOSE f : Solves(f, n)
<1>4. Solves(converted, n)
  <2> HIDE DEF Solves
  <2>1. QED
    BY <1>3 DEF Reached
<1>5. Convert(mode) = converted[n - 1]
  BY DEF Convert, Level
<1> HIDE DEF converted
<1>6. \A left \in 0 .. n : converted[left] = Level(mode, left, converted[left - 1])
  BY <1>4
<1>7. QED
  BY <1>5, <1>6

\* However deep it goes, whatever it has visited, a converted schema accepts what
\* its node declares.
LEMMA ConvertIsFaithful ==
  ASSUME Meaning, NEW mode \in Mode, NEW visited \in SUBSET Node
  PROVE  Faithful(Convert(mode)[visited], mode)
<1>1. PICK f : /\ \A left \in 0 .. MaxDepth[mode] : f[left] = Level(mode, left, f[left - 1])
               /\ Convert(mode) = f[MaxDepth[mode] - 1]
  BY ConvertSteps
<1> DEFINE Fine(left) == \A set \in SUBSET Node : Faithful(f[left][set], mode)
           Reached == {left \in Nat : left <= MaxDepth[mode] => Fine(left)}
<1>0. MaxDepth[mode] \in Nat \ {0}
  BY MaxDepthAssumption
<1>2. ASSUME NEW left \in 0 .. MaxDepth[mode], left # 0 => Fine(left - 1), NEW set \in SUBSET Node, NEW n \in Node
      PROVE  DOMAIN f[left][set][n] = JsonFields /\ \A u : Declares(n, mode, u) => Accepts(f[left][set][n], u)
  <2>1. f[left][set][n] = IF left = 0 \/ n \in set THEN Truncated(Graph[n])
                          ELSE ConvertWith(Graph[n], mode, f[left - 1][set \union {n}])
    <3>1. f[left] = Level(mode, left, f[left - 1])
      BY <1>1
    <3> DEFINE below == f[left - 1]
    <3>2. Level(mode, left, below)[set] =
            [m \in Node |-> IF left = 0 \/ m \in set THEN Truncated(Graph[m])
                            ELSE ConvertWith(Graph[m], mode, below[set \union {m}])]
      BY DEF Level
    <3> HIDE DEF below
    <3>3. f[left][set] =
            [m \in Node |-> IF left = 0 \/ m \in set THEN Truncated(Graph[m])
                            ELSE ConvertWith(Graph[m], mode, below[set \union {m}])]
      BY <3>1, <3>2 DEF below
    <3>4. f[left][set][n] = IF left = 0 \/ n \in set THEN Truncated(Graph[n])
                            ELSE ConvertWith(Graph[n], mode, below[set \union {n}])
      BY <3>3
    <3>5. QED
      BY <3>4 DEF below
  <2>2. \A u : Declares(n, mode, u) => DeclaredBy(Graph[n], mode, u) /\ HasType(SchemaType(Graph[n]), u)
    BY DEF Meaning, DeclaredBy, DeclaredWith
  <2>3. CASE left = 0 \/ n \in set
    <3>1. f[left][set][n] = Truncated(Graph[n])
      BY <2>1, <2>3
    <3>2. DOMAIN Truncated(Graph[n]) = JsonFields
      BY DEF Truncated, JsonFields
    <3>3. QED
      BY <2>2, <3>1, <3>2, TruncatedAccepts DEF Meaning
  <2>4. CASE left # 0 /\ n \notin set
    <3> DEFINE child == f[left - 1][set \union {n}]
    <3>1. f[left][set][n] = ConvertWith(Graph[n], mode, child)
      BY <2>1, <2>4
    <3>2. Faithful(child, mode)
      BY <1>2, <2>4
    <3>3. IsRecord(Graph[n])
      BY NodesAreRecords
    <3> HIDE DEF child
    <3>4. \A u : Declares(n, mode, u) => AcceptedBy(ConvertWith(Graph[n], mode, child), u)
      BY <2>2, <3>2, <3>3, ConvertAccepts
    <3>5. DOMAIN ConvertWith(Graph[n], mode, child) = JsonFields
      BY DEF ConvertWith, JsonFields
    <3>6. QED
      BY <3>1, <3>4, <3>5 DEF Meaning
  <2>5. QED
    BY <2>3, <2>4
<1>3. ASSUME NEW left \in 0 .. MaxDepth[mode], left # 0 => Fine(left - 1) PROVE Fine(left)
  BY <1>2, <1>3 DEF Faithful
<1> HIDE DEF Fine
<1>4. 0 \in Reached
  BY <1>3
<1>5. ASSUME NEW left \in Nat, left \in Reached PROVE left + 1 \in Reached
  <2>1. SUFFICES ASSUME left + 1 <= MaxDepth[mode] PROVE Fine(left + 1)
    OBVIOUS
  <2>2. left + 1 \in 0 .. MaxDepth[mode] /\ (left + 1) - 1 = left /\ Fine(left)
    BY <1>0, <1>5, <2>1
  <2>3. QED
    BY <1>3, <2>2
<1> HIDE DEF Reached
<1>6. Nat \subseteq Reached
  BY <1>4, <1>5, SetInduction
<1>7. MaxDepth[mode] - 1 \in Reached /\ MaxDepth[mode] - 1 <= MaxDepth[mode]
  BY <1>0, <1>6
<1>8. Fine(MaxDepth[mode] - 1)
  BY <1>7 DEF Reached
<1>9. QED
  BY <1>1, <1>8 DEF Fine

\* What a schema declares its conversion accepts, cut off or not.
LEMMA ConversionAccepts ==
  ASSUME Meaning, NEW s, IsRecord(s), NEW mode \in Mode, NEW v, DeclaredBy(s, mode, v)
  PROVE  Accepts(ConvertSchema(s, mode), v)
<1>1. {s.id} \ {NoNode} \in SUBSET Node
  BY DEF IsRecord
<1>2. Faithful(Convert(mode)[{s.id} \ {NoNode}], mode)
  BY <1>1, ConvertIsFaithful
<1>3. AcceptedBy(ConvertSchema(s, mode), v)
  BY <1>2, ConvertAccepts DEF ConvertSchema
<1>4. QED
  BY <1>3 DEF Meaning

LEMMA OutputAccepts ==
  ASSUME Meaning, NEW n \in Node, NEW v, Declares(n, "output", v)
  PROVE  Accepts(McpOutputSchema(n).json, v)
<1> DEFINE json == ConvertSchema(Graph[n], "output")
<1>1. Accepts(json, v) /\ AcceptedBy(json, v)
  BY NodesAreRecords, ConversionAccepts DEF Meaning, Mode
<1>2. DOMAIN json = JsonFields
  BY DEF ConvertSchema, ConvertWith, JsonFields
<1> HIDE DEF json
<1>3. Accepts(AllowNull(json), v)
  BY <1>1, <1>2, AllowNullAccepts DEF Meaning, JsonFields
<1>4. McpOutputSchema(n).json \in {json, AllowNull(json)}
  BY DEF McpOutputSchema, json
<1>5. QED
  BY <1>1, <1>3, <1>4

(***************************************************************************)
(* What the fields and arguments of an operation are taken from.           *)
(***************************************************************************)
MaybeNode == {<<>>} \union {<<n>> : n \in Node}

LEMMA ElementsOfMaybe == \A schema \in MaybeNode : \A n \in ToSet(schema) : n \in Node /\ schema = <<n>>
<1>1. ToSet(<<>>) = {}
  BY DEF ToSet
<1>2. \A n : ToSet(<<n>>) = {n}
  BY DEF ToSet
<1>3. QED
  BY <1>1, <1>2 DEF MaybeNode

LEMMA FirstSchemaIsNode ==
  ASSUME NEW content, IsContent(content)
  PROVE  FirstJSONSchema(content) \in MaybeNode
<1> DEFINE X == ToSet(content)
           wanted == {c \in X : MentionsJson(c.media) /\ c.schema # <<>>}
           json == Only(content, wanted)
<1>1. content \in Seq(X) /\ \A c \in X : c.schema \in MaybeNode
  BY DEF IsContent, MaybeNode
<1> HIDE DEF X, wanted
<1>2. json \in Seq(X)
  BY <1>1, OnlyFacts
<1>3. FirstJSONSchema(content) = IF json = <<>> THEN <<>> ELSE json[1].schema
  BY DEF FirstJSONSchema, X, wanted
<1> HIDE DEF json
<1>4. json # <<>> => json[1] \in X
  BY <1>2
<1>5. QED
  BY <1>1, <1>3, <1>4 DEF MaybeNode

LEMMA ResponseSchemaIsNode ==
  ASSUME NEW op, IsContent(op.responses)
  PROVE  McpResponseSchema(op) \in MaybeNode
<1> DEFINE X == ToSet(op.responses)
           exact == {c \in X : IsSuccess(c)}
           range == {c \in X : c.code = 2}
           both == Only(op.responses, exact) \o Only(op.responses, range)
<1>1. op.responses \in Seq(X) /\ \A c \in X : c.schema = <<>> \/ c.schema \in {<<n>> : n \in Node}
  BY DEF IsContent
<1>2. McpResponseSchema(op) = FirstJSONSchema(both)
  BY DEF McpResponseSchema, Success
<1> HIDE DEF X, exact, range
<1>3. both \in Seq(X)
  BY <1>1, OnlyFacts
<1> HIDE DEF both
<1>4. ToSet(both) \subseteq X /\ both \in Seq(ToSet(both))
  <2>1. ToSet(both) \subseteq X
    BY <1>3 DEF ToSet
  <2>2. Len(both) \in Nat /\ DOMAIN both = 1 .. Len(both) /\ \A i \in 1 .. Len(both) : both[i] \in ToSet(both)
    BY <1>3 DEF ToSet
  <2>3. both = [i \in 1 .. Len(both) |-> both[i]]
    BY <1>3
  <2>4. QED
    BY <2>1, <2>2, <2>3
<1>5. IsContent(both)
  BY <1>1, <1>4 DEF IsContent
<1>6. QED
  BY <1>2, <1>5, FirstSchemaIsNode

LEMMA RequestSchemaIsNode ==
  ASSUME NEW op, IsContent(op.body)
  PROVE  RequestSchema(op) \in MaybeNode
<1> DEFINE X == ToSet(op.body)
           mentions == {c \in X : MentionsJson(c.media)}
           yamls == {c \in X : c.media = "application/yaml"}
           json == Only(op.body, mentions)
           yaml == Only(op.body, yamls)
<1>1. op.body \in Seq(X) /\ \A c \in X : c.schema \in MaybeNode
  BY DEF IsContent, MaybeNode
<1>2. \/ GetRequestInfo(op) = <<>>
      \/ json # <<>> /\ GetRequestInfo(op) = <<json[1]>>
      \/ yaml # <<>> /\ GetRequestInfo(op) = <<yaml[1]>>
      \/ op.body # <<>> /\ GetRequestInfo(op) = <<op.body[1]>>
  BY DEF GetRequestInfo
<1> HIDE DEF X, mentions, yamls
<1>3. json \in Seq(X) /\ yaml \in Seq(X)
  BY <1>1, OnlyFacts
<1> HIDE DEF json, yaml
<1>4. /\ json # <<>> => json[1] \in X
      /\ yaml # <<>> => yaml[1] \in X
      /\ op.body # <<>> => op.body[1] \in X
  BY <1>1, <1>3
<1>5. \A c : <<c>> # <<>> /\ <<c>>[1] = c
  OBVIOUS
<1>6. GetRequestInfo(op) = <<>> \/ GetRequestInfo(op)[1] \in X
  BY <1>2, <1>4, <1>5
<1>7. QED
  BY <1>1, <1>6 DEF RequestSchema, MaybeNode

\* A field's choices are those of the property it is taken from.
FieldOf(f, n) ==
  /\ f.name \in DOMAIN Merged[n].props
  /\ f.enum # {} => f.enum = EnumStrings(EffectiveBodySchema(Merged[n].props[f.name]).schema)

\* The fields of an object body that get an argument.
Sendable(n) == {name \in Nameable(n) : ~Merged[n].props[name].readOnly}

ArgumentOf(r, n) ==
  r.in = "body" => r.name \in Sendable(n) /\ (r.required => r.name \in Merged[n].required)

HasArguments(routes, n) ==
  McpBodyIsObject(n) =>
    /\ \A r \in ToSet(routes) : ArgumentOf(r, n)
    /\ \A name \in Sendable(n) : \E r \in ToSet(routes) : r.in = "body" /\ r.name = name

\* No name of a merged object is missing from the order of names.
LEMMA MergedNamesAreOrdered ==
  \A n \in Node : DOMAIN Merged[n].props \subseteq ToSet(NameOrder)
<1> DEFINE T == {n \in Node : DOMAIN Merged[n].props \subseteq ToSet(NameOrder)}
<1>1. ASSUME NEW n \in Node, Branches(Graph[n]) \subseteq T PROVE n \in T
  <2>1. IsSchema(Graph[n])
    BY NodesAreRecords DEF IsRecord
  <2>2. DOMAIN Graph[n].props \subseteq ToSet(NameOrder)
    BY NameOrderAssumption
  <2>3. \A b \in ToSet(Graph[n].allOf) \union ToSet(Alternative(n)) : DOMAIN Merged[b].props \subseteq ToSet(NameOrder)
    BY <1>1, <2>1, BranchesOf, AlternativeFacts
  <2>4. DOMAIN Merged[n].props = Settled(n) \union (UNION {DOMAIN Merged[b].props : b \in ToSet(Alternative(n))})
    BY MergedProperties
  <2>5. QED
    BY <2>2, <2>3, <2>4 DEF Settled
<1>2. \A n \in Node : Branches(Graph[n]) \subseteq T => n \in T
  BY <1>1
<1> HIDE DEF T
<1>3. Node \subseteq T
  BY <1>2, BranchInduction
<1>4. QED
  BY <1>3 DEF T

LEMMA FieldsOfBody ==
  ASSUME NEW n \in Node
  PROVE  /\ Len(BodyFields(n)) \in Nat /\ DOMAIN BodyFields(n) = 1 .. Len(BodyFields(n))
         /\ \A i \in 1 .. Len(BodyFields(n)) :
              {"name", "enum"} \subseteq DOMAIN BodyFields(n)[i] /\ FieldOf(BodyFields(n)[i], n)
<1> DEFINE merged == Merged[n]
           kept == {name \in DOMAIN merged.props : ~merged.props[name].ignored}
           order == Sorted(kept)
           Field(name) == BodyField(name, merged.props[name], BodyFieldType(merged.props[name]))
           fields == [i \in 1 .. Len(order) |-> Field(order[i])]
<1>1. BodyFields(n) = fields
  BY DEF BodyFields, FlaggedFields
<1>2. \A name : DOMAIN Field(name) = {"name", "flag", "type", "enum"} /\ Field(name).name = name
        /\ Field(name).enum \in {{}, EnumStrings(EffectiveBodySchema(merged.props[name]).schema)}
  BY DEF BodyField
<1> HIDE DEF Field
<1>3. order \in Seq(Name) /\ ToSet(order) \subseteq kept
  <2> HIDE DEF kept
  <2>1. QED
    BY NameOrderAssumption, OnlyFacts DEF Sorted
<1> HIDE DEF order
<1>4. Len(order) \in Nat /\ \A i \in 1 .. Len(order) : order[i] \in DOMAIN merged.props
  <2>1. \A i \in 1 .. Len(order) : order[i] \in ToSet(order)
    BY <1>3 DEF ToSet
  <2>2. QED
    BY <1>3, <2>1
<1>5. \A i \in 1 .. Len(order) : {"name", "enum"} \subseteq DOMAIN Field(order[i]) /\ FieldOf(Field(order[i]), n)
  BY <1>2, <1>4 DEF FieldOf
<1>6. /\ Len(fields) = Len(order) /\ DOMAIN fields = 1 .. Len(order)
      /\ \A i \in 1 .. Len(order) : fields[i] = Field(order[i])
  BY <1>4
<1> HIDE DEF fields
<1>7. QED
  BY <1>1, <1>4, <1>5, <1>6

LEMMA FieldsAreOfSchema ==
  ASSUME NEW op, IsContent(op.body), NEW flags
  PROVE  \A n \in ToSet(RequestSchema(op)) :
           n \in Node /\ \A f \in ToSet(Reflagged(RequestFields(op), flags)) : FieldOf(f, n)
<1>1. SUFFICES ASSUME NEW n \in ToSet(RequestSchema(op))
               PROVE  n \in Node /\ \A f \in ToSet(Reflagged(RequestFields(op), flags)) : FieldOf(f, n)
  OBVIOUS
<1>2. n \in Node /\ RequestSchema(op) = <<n>>
  BY RequestSchemaIsNode, ElementsOfMaybe
<1> DEFINE fields == BodyFields(n)
           moved == Reflagged(fields, flags)
<1>3. RequestFields(op) = fields
  BY <1>2 DEF RequestFields
<1>4. /\ Len(fields) \in Nat /\ DOMAIN fields = 1 .. Len(fields)
      /\ \A i \in 1 .. Len(fields) : {"name", "enum"} \subseteq DOMAIN fields[i] /\ FieldOf(fields[i], n)
  BY <1>2, FieldsOfBody
<1> HIDE DEF fields
<1>5. \A i \in 1 .. Len(fields) : moved[i].name = fields[i].name /\ moved[i].enum = fields[i].enum
  BY <1>4 DEF Reflagged
<1>6. DOMAIN moved = 1 .. Len(fields)
  BY DEF Reflagged
<1> HIDE DEF moved
<1>7. \A f \in ToSet(moved) : FieldOf(f, n)
  BY <1>4, <1>5, <1>6 DEF FieldOf, ToSet
<1>8. QED
  BY <1>2, <1>3, <1>7 DEF moved

LEMMA BodyRoutesAreOfSchema ==
  ASSUME NEW op, IsContent(op.body), NEW n \in ToSet(FirstJSONSchema(op.body))
  PROVE  /\ n \in Node
         /\ McpBodyIsObject(n) =>
              /\ \A i \in 1 .. Len(AddBody(op)) : ArgumentOf(AddBody(op)[i], n)
              /\ \A name \in Sendable(n) : \E i \in 1 .. Len(AddBody(op)) : AddBody(op)[i].name = name
<1>1. n \in Node /\ FirstJSONSchema(op.body) = <<n>>
  BY FirstSchemaIsNode, ElementsOfMaybe
<1>2. SUFFICES ASSUME McpBodyIsObject(n)
               PROVE  /\ \A i \in 1 .. Len(AddBody(op)) : ArgumentOf(AddBody(op)[i], n)
                      /\ \A name \in Sendable(n) : \E i \in 1 .. Len(AddBody(op)) : AddBody(op)[i].name = name
  BY <1>1
<1> DEFINE merged == Merged[n]
           kept == {name \in DOMAIN merged.props : ~merged.props[name].readOnly /\ Slug(name) # <<>>}
           fields == Sorted(kept)
           Made(name) == [BodyRoute EXCEPT !.arg = Slug(name), !.name = name,
                                           !.required = name \in merged.required]
           routes == [i \in 1 .. Len(fields) |-> Made(fields[i])]
<1>3. AddBody(op) = AddProperties(merged)
  BY <1>1, <1>2 DEF AddBody
<1>4. AddProperties(merged) = routes
  BY DEF AddProperties
<1>5. kept = Sendable(n) /\ kept \subseteq ToSet(NameOrder)
  BY <1>1, MergedNamesAreOrdered DEF Sendable, Nameable
<1> HIDE DEF kept
<1>6. fields \in Seq(Name) /\ ToSet(fields) = kept
  <2>1. NameOrder \in Seq(Name) /\ fields = Only(NameOrder, kept)
    BY NameOrderAssumption DEF Sorted
  <2>2. fields \in Seq(Name) /\ ToSet(fields) = ToSet(NameOrder) \intersect kept
    BY <2>1, OnlyFacts
  <2>3. QED
    BY <1>5, <2>2
<1> HIDE DEF fields
<1>7. /\ Len(fields) \in Nat /\ \A i \in 1 .. Len(fields) : fields[i] \in kept
      /\ \A name \in kept : \E i \in 1 .. Len(fields) : fields[i] = name
  BY <1>6 DEF ToSet
<1>8. \A name : Made(name).name = name /\ Made(name).required = (name \in merged.required)
  BY DEF BodyRoute
<1> HIDE DEF Made
<1>9. \A name \in kept : ArgumentOf(Made(name), n)
  BY <1>5, <1>8 DEF ArgumentOf
<1>10. Len(routes) = Len(fields) /\ \A i \in 1 .. Len(fields) : routes[i] = Made(fields[i])
  BY <1>7
<1> HIDE DEF routes, merged
<1>11. \A i \in 1 .. Len(routes) : ArgumentOf(routes[i], n)
  BY <1>7, <1>9, <1>10
<1>12. \A name \in kept : \E i \in 1 .. Len(routes) : routes[i].name = name
  BY <1>7, <1>8, <1>10
<1>13. QED
  BY <1>3, <1>4, <1>5, <1>11, <1>12

LEMMA ParamRoutesAreElsewhere ==
  ASSUME NEW params \in Seq(Param), NEW optional
  PROVE  LET routes == AddParams(params, optional)
         IN  /\ IsList(routes) /\ \A i \in 1 .. Len(routes) : IsRoute(routes[i]) /\ routes[i].in # "body"
<1> DEFINE Added(p) == LET route == ParamRoute(optional, p)
                       IN  p.in # "cookie" /\ (route.required \/ route.flag # <<>>) /\ route.arg # <<>>
           kept == {p \in ToSet(params) : Added(p)}
           added == Only(params, kept)
           routes == AddParams(params, optional)
<1>1. routes = [i \in 1 .. Len(added) |-> ParamRoute(optional, added[i])]
  BY DEF AddParams
<1>2. added \in Seq(Param)
  <2> HIDE DEF kept
  <2>1. QED
    BY OnlyFacts
<1> HIDE DEF added, routes
<1>3. ASSUME NEW p \in Param
      PROVE  IsRoute(ParamRoute(optional, p)) /\ ParamRoute(optional, p).in # "body"
  <2> DEFINE route == ParamRoute(optional, p)
  <2>1. DOMAIN route = RouteFields /\ route.arg = Slug(p.name) /\ route.in = p.in
    BY DEF ParamRoute, RouteFields
  <2> HIDE DEF route
  <2>2. Slug(p.name) \in Derived /\ p.in \in NamePrefixes /\ p.in # "body"
    BY WordsAreDerived DEF Param, Name, Slug, NamePrefixes
  <2>3. QED
    BY <2>1, <2>2 DEF IsRoute, route
<1>4. Len(added) \in Nat /\ \A i \in 1 .. Len(added) : added[i] \in Param
  BY <1>2
<1>5. /\ Len(routes) = Len(added) /\ routes = [i \in 1 .. Len(added) |-> routes[i]]
      /\ \A i \in 1 .. Len(added) : routes[i] = ParamRoute(optional, added[i])
  BY <1>1, <1>4
<1>6. IsList(routes)
  BY <1>4, <1>5, TablesAreLists
<1>7. QED
  BY <1>3, <1>4, <1>5, <1>6 DEF routes

LEMMA ArgumentsAreOfSchema ==
  ASSUME NEW item, item.params \in Seq(Param), NEW op, op.params \in Seq(Param), IsContent(op.body),
         NEW optional, NEW group, NEW leaf
  PROVE  LET tool == BuildMCPTool(item, op, group, leaf, optional)
         IN  \A n \in ToSet(tool.input) : n \in Node /\ HasArguments(tool.routes, n)
<1> DEFINE tool == BuildMCPTool(item, op, group, leaf, optional)
           params == McpParams(item, op)
           front == AddParams(params, optional)
           back == AddBody(op)
           all == front \o back
           claimed == ClaimArguments(all)
<1>1. tool.routes = claimed /\ tool.input = FirstJSONSchema(op.body)
  BY DEF BuildMCPTool
<1> HIDE DEF tool
<1>2. SUFFICES ASSUME NEW n \in ToSet(FirstJSONSchema(op.body))
               PROVE  n \in Node /\ HasArguments(claimed, n)
  BY <1>1 DEF tool
<1>3. params \in Seq(Param)
  <2> DEFINE inherited == {p \in ToSet(item.params) : ~p.ignored /\ Key(p) \notin {Key(q) : q \in ToSet(op.params)}}
             own == {p \in ToSet(op.params) : ~p.ignored}
  <2>1. params = Only(item.params, inherited) \o Only(op.params, own)
    BY DEF McpParams
  <2> HIDE DEF inherited, own
  <2>2. Only(item.params, inherited) \in Seq(Param) /\ Only(op.params, own) \in Seq(Param)
    BY OnlyFacts
  <2>3. QED
    BY <2>1, <2>2
<1> HIDE DEF params
<1>4. n \in Node
  BY <1>2, BodyRoutesAreOfSchema
<1>5. SUFFICES ASSUME McpBodyIsObject(n)
               PROVE  /\ \A r \in ToSet(claimed) : ArgumentOf(r, n)
                      /\ \A name \in Sendable(n) : \E r \in ToSet(claimed) : r.in = "body" /\ r.name = name
  BY <1>4 DEF HasArguments
<1>6. IsList(front) /\ \A i \in 1 .. Len(front) : IsRoute(front[i]) /\ ArgumentOf(front[i], n)
  BY <1>3, ParamRoutesAreElsewhere DEF ArgumentOf
<1>7. /\ IsList(back) /\ DOMAIN back = 1 .. Len(back) /\ Len(back) \in Nat
      /\ \A i \in 1 .. Len(back) : IsRoute(back[i]) /\ back[i].in = "body" /\ ArgumentOf(back[i], n)
      /\ \A name \in Sendable(n) : \E i \in 1 .. Len(back) : back[i].name = name
  BY <1>2, <1>5, BodyRoutesAreRoutes, BodyRoutesAreOfSchema
<1> HIDE DEF front, back
<1>8. /\ Len(all) \in Nat /\ \A i \in 1 .. Len(all) : IsRoute(all[i]) /\ ArgumentOf(all[i], n)
      /\ \A name \in Sendable(n) : \E i \in 1 .. Len(all) : all[i].in = "body" /\ all[i].name = name
  <2> DEFINE X == ToSet(front) \union ToSet(back)
  <2>1. DOMAIN front = 1 .. Len(front) /\ DOMAIN back = 1 .. Len(back)
    BY <1>6, <1>7 DEF IsList
  <2>2. \A r \in X : IsRoute(r) /\ ArgumentOf(r, n)
    BY <1>6, <1>7, <2>1 DEF ToSet
  <2>3. front \in Seq(X) /\ back \in Seq(X)
    BY <1>6, <1>7, SeqMonotonic DEF IsList
  <2> HIDE DEF X
  <2>4. front \o back \in Seq(X) /\ Len(front) \in Nat /\ Len(back) \in Nat
    BY <2>3
  <2>5. /\ Len(front \o back) = Len(front) + Len(back)
        /\ \A i \in 1 .. Len(back) : (front \o back)[Len(front) + i] = back[i]
    BY <2>3, <2>4
  <2>6. \A name \in Sendable(n) : \E i \in 1 .. Len(front \o back) :
          (front \o back)[i].in = "body" /\ (front \o back)[i].name = name
    <3> SUFFICES ASSUME NEW name \in Sendable(n)
                 PROVE  \E i \in 1 .. Len(front \o back) :
                          (front \o back)[i].in = "body" /\ (front \o back)[i].name = name
      OBVIOUS
    <3>1. PICK i \in 1 .. Len(back) : back[i].in = "body" /\ back[i].name = name
      BY <1>7
    <3>2. Len(front) + i \in 1 .. Len(front \o back)
      BY <2>4, <2>5
    <3>3. QED
      BY <2>5, <3>1, <3>2
  <2> HIDE DEF all
  <2>7. all \in Seq(X) /\ all = front \o back
    BY <2>4 DEF all
  <2>8. QED
    BY <2>2, <2>6, <2>7
<1> HIDE DEF all
<1>9. /\ DOMAIN claimed = 1 .. Len(all)
      /\ \A i \in 1 .. Len(all) :
           /\ claimed[i].in = all[i].in /\ claimed[i].name = all[i].name
           /\ claimed[i].required = all[i].required
  <2> DEFINE names == ClaimAll([i \in 1 .. Len(all) |->
                                  [first |-> all[i].arg, prefix |-> all[i].in, name |-> all[i].arg]])
             renamed == [i \in 1 .. Len(all) |-> [all[i] EXCEPT !.arg = names[i]]]
  <2>1. claimed = renamed
    BY DEF ClaimArguments
  <2> HIDE DEF names
  <2>2. ASSUME NEW i \in 1 .. Len(all)
        PROVE  /\ renamed[i].in = all[i].in /\ renamed[i].name = all[i].name
               /\ renamed[i].required = all[i].required
    BY <1>8 DEF IsRoute, RouteFields
  <2>3. DOMAIN renamed = 1 .. Len(all)
    OBVIOUS
  <2> HIDE DEF renamed
  <2>4. QED
    BY <2>1, <2>2, <2>3
<1> HIDE DEF claimed
<1>10. \A r \in ToSet(claimed) : ArgumentOf(r, n)
  BY <1>8, <1>9 DEF ArgumentOf, ToSet
<1>11. \A name \in Sendable(n) : \E r \in ToSet(claimed) : r.in = "body" /\ r.name = name
  <2>1. \A i \in 1 .. Len(all) : claimed[i] \in ToSet(claimed)
    BY <1>9 DEF ToSet
  <2>2. QED
    BY <1>8, <1>9, <2>1
<1>12. QED
  BY <1>10, <1>11

\* The schemas an operation's flags and tool are taken from.
Described(o) ==
  /\ \A n \in ToSet(o.schema) : n \in Node /\ \A f \in ToSet(o.fields) : FieldOf(f, n)
  /\ \A n \in ToSet(o.tool.input) : n \in Node /\ HasArguments(o.tool.routes, n)
  /\ \A n \in ToSet(o.tool.output) : n \in Node

LEMMA OperationIsDescribed ==
  ASSUME NEW item, item.params \in Seq(Param), NEW op, IsOperation(op)
  PROVE  Described(BuildOperation(item, op))
<1> DEFINE fields == RequestFields(op)
           plain == GetOptionalParams(GetParams(item, op))
           flags == ReserveGeneratedFlagNames(FlagsOf(fields), FlagsOf(plain))
           optional == Reflagged(plain, SubSeq(flags, Len(fields) + 1, Len(flags)))
           front == SubSeq(flags, 1, Len(fields))
           o == BuildOperation(item, op)
<1>1. /\ o.schema = RequestSchema(op) /\ o.fields = Reflagged(fields, front)
      /\ \E group, leaf : o.tool = BuildMCPTool(item, op, group, leaf, optional)
  BY DEF BuildOperation, OperationWithFields
<1>2. IsContent(op.body) /\ IsContent(op.responses) /\ op.params \in Seq(Param)
  BY DEF IsOperation
<1> HIDE DEF o, front, optional
<1>3. PICK group, leaf : o.tool = BuildMCPTool(item, op, group, leaf, optional)
  BY <1>1
<1>4. \A n \in ToSet(o.schema) : n \in Node /\ \A f \in ToSet(o.fields) : FieldOf(f, n)
  BY <1>1, <1>2, FieldsAreOfSchema
<1>5. \A n \in ToSet(o.tool.input) : n \in Node /\ HasArguments(o.tool.routes, n)
  BY <1>2, <1>3, ArgumentsAreOfSchema
<1>6. \A n \in ToSet(o.tool.output) : n \in Node
  <2>1. o.tool.output = McpResponseSchema(op)
    BY <1>3 DEF BuildMCPTool
  <2>2. QED
    BY <1>2, <2>1, ResponseSchemaIsNode, ElementsOfMaybe
<1>7. QED
  BY <1>4, <1>5, <1>6 DEF Described, o

\* The choices a field offers for what a schema declares.
LEMMA DescribedChoices ==
  ASSUME Meaning, UnionsAgree, NEW o, Described(o), NEW n \in ToSet(o.schema), NEW f \in ToSet(o.fields),
         NEW v, IsValue(v), Declares(n, "input", v), f.enum # {}, f.name \in Fields(v),
         v.fields[f.name].type = "string"
  PROVE  v.fields[f.name].text \in f.enum
<1> DEFINE schema == Merged[n].props[f.name]
           w == v.fields[f.name]
           effective == EffectiveBodySchema(schema)
<1>1. n \in Node /\ FieldOf(f, n)
  BY DEF Described
<1>2. v.type = "object" /\ w.text # "null"
  BY DEF IsValue
<1>3. DeclaredBy(schema, "input", w)
  BY <1>1, <1>2, MergedTakes DEF FieldOf
<1>4. IsRecord(schema)
  BY <1>1, MergedAreRecords DEF FieldOf
<1> HIDE DEF schema, effective
<1>5. Sound(effective, w)
  <2>1. \A b \in Branches(schema) : Declares(b, "input", w) => Sound(Effective[b], w)
    BY <1>4, ChoicesSound, BranchesOf DEF IsRecord
  <2>2. QED
    BY <1>3, <1>4, <2>1, ChoicesOf DEF effective
<1>6. f.enum = EnumStrings(effective.schema)
  BY <1>1 DEF FieldOf, schema, effective
<1>7. QED
  BY <1>2, <1>5, <1>6 DEF EnumStrings, Sound

\* The arguments a tool takes for what a schema declares: of a field that is sent
\* one, its schema converted, and no other.
InputTaken(o, n, v) ==
  IF McpBodyIsObject(n)
  THEN v.type = "object" /\ Fields(v) \subseteq Nameable(n) => Accepts(InputSchema(o.tool.routes, n), v)
  ELSE Accepts(ConvertSchema(Graph[n], "input"), v)

LEMMA DescribedArguments ==
  ASSUME Meaning, UnionsAgree, NullComesFirst, DirectionsAgree, NEW o, Described(o),
         NEW n \in ToSet(o.tool.input), NEW v, IsValue(v), Declares(n, "input", v)
  PROVE  InputTaken(o, n, v)
<1>1. n \in Node /\ HasArguments(o.tool.routes, n)
  BY DEF Described
<1>2. CASE ~McpBodyIsObject(n)
  <2>1. Accepts(ConvertSchema(Graph[n], "input"), v)
    BY <1>1, NodesAreRecords, ConversionAccepts DEF Meaning, Mode
  <2>2. QED
    BY <1>2, <2>1 DEF InputTaken
<1>3. ASSUME McpBodyIsObject(n), v.type = "object", Fields(v) \subseteq Nameable(n)
      PROVE  Accepts(InputSchema(o.tool.routes, n), v)
  <2> DEFINE sent == {r \in ToSet(o.tool.routes) : r.in = "body"}
             taken == {r.name : r \in sent}
             props == [name \in taken |-> ConvertSchema(Merged[n].props[name], "input")]
             json == InputSchema(o.tool.routes, n)
  <2>1. /\ json.types = {"object"} /\ json.enum = {} /\ json.props = props /\ json.closed
        /\ json.required = {r.name : r \in {q \in sent : q.required}}
        /\ json.anyOf = <<>> /\ json.allOf = <<>>
    BY DEF InputSchema, Truncated
  <2> HIDE DEF json
  <2>2. taken = Sendable(n) /\ \A r \in sent : r.required => r.name \in Merged[n].required
    BY <1>1, <1>3 DEF HasArguments, ArgumentOf
  <2>3. \A name \in Fields(v) : name \in Sendable(n)
    BY <1>1, <1>3, MergedSends DEF Sendable, Nameable
  <2>4. \A name \in Fields(v) : name \in DOMAIN json.props
    BY <2>1, <2>2, <2>3
  <2>5. json.required \subseteq Fields(v)
    <3> SUFFICES ASSUME NEW r \in sent, r.required PROVE r.name \in Fields(v)
      BY <2>1
    <3>1. r.name \in Merged[n].required /\ r.name \in Sendable(n)
      BY <2>2
    <3>2. Met(v, n, r.name)
      BY <1>1, <1>3, <3>1, MergedRequires
    <3>3. QED
      BY <3>1, <3>2 DEF Met, Sendable
  <2>6. \A name \in Fields(v) \intersect DOMAIN json.props : Accepts(json.props[name], v.fields[name])
    <3> SUFFICES ASSUME NEW name \in Fields(v), name \in Sendable(n)
                 PROVE  Accepts(ConvertSchema(Merged[n].props[name], "input"), v.fields[name])
      BY <2>1, <2>2, <2>3
    <3>1. name \in DOMAIN Merged[n].props
      BY DEF Sendable, Nameable
    <3>2. DeclaredBy(Merged[n].props[name], "input", v.fields[name])
      BY <1>1, <1>3, <3>1, MergedTakes
    <3>3. IsRecord(Merged[n].props[name])
      BY <1>1, <3>1, MergedAreRecords
    <3>4. QED
      BY <3>2, <3>3, ConversionAccepts DEF Mode
  <2>7. ToSet(<<>>) = {}
    BY DEF ToSet
  <2>8. AcceptedBy(json, v)
    BY <1>3, <2>1, <2>4, <2>5, <2>6, <2>7 DEF AcceptedBy, AcceptedWith, HasType
  <2>9. QED
    BY <2>8 DEF Meaning, json
<1>4. QED
  BY <1>2, <1>3 DEF InputTaken

\* The result a tool gives for what a schema declares.
LEMMA DescribedResults ==
  ASSUME Meaning, NEW o, Described(o), NEW n \in ToSet(o.tool.output), NEW v, Declares(n, "output", v)
  PROVE  Accepts(McpOutputSchema(n).json, v)
BY OutputAccepts DEF Described

(***************************************************************************)
(* The invariant of the walk: every operation built so far keeps what is   *)
(* promised of it, and attaching waiters does not touch it. What is        *)
(* promised of flags and arguments rests on numerals that differ; what is  *)
(* promised of schemas follows from where fields and arguments come from.  *)
(***************************************************************************)
Keeps(o) ==
  /\ {"fields", "optional", "required", "schema", "tool"} \subseteq DOMAIN o
  /\ Fits(o.tool.name)
  /\ Described(o)
  /\ NumeralsDiffer => DistinctFlags(o.fields, o.optional)
  /\ NumeralsDiffer => ArgumentsReach(o.tool.routes, o.required, o.optional)

BuildInv ==
  /\ NamingInv
  /\ workspace \in Workspaces
  /\ at \in (Nat \ {0}) \X (Nat \ {0})
  /\ phase = "paths" => IsDocument(doc)
  /\ IsList(ops)
  /\ \A o \in ToSet(ops) : Keeps(o)

\* An operation that is built keeps what is promised of it.
LEMMA OperationKeeps ==
  ASSUME NEW item, item.path \in Seq(Segment), item.params \in Seq(Param), NEW op, IsOperation(op),
         \A tag \in DOMAIN doc.tagNames : doc.tagNames[tag] \in Name
  PROVE  Keeps(BuildOperation(item, op))
<1> DEFINE fields == RequestFields(op)
           params == GetParams(item, op)
           plain == GetOptionalParams(params)
           flags == ReserveGeneratedFlagNames(FlagsOf(fields), FlagsOf(plain))
           optional == Reflagged(plain, SubSeq(flags, Len(fields) + 1, Len(flags)))
           named_fields == Reflagged(fields, SubSeq(flags, 1, Len(fields)))
           o == BuildOperation(item, op)
<1>1. /\ {"fields", "optional", "required", "schema", "tool"} \subseteq DOMAIN o
      /\ o.fields = named_fields /\ o.optional = optional
      /\ o.required = GetRequiredParams(params)
      /\ \E group, leaf : o.tool = BuildMCPTool(item, op, group, leaf, optional)
  BY DEF BuildOperation, OperationWithFields
<1>2. Fits(o.tool.name) /\ Described(o)
  BY BaseNameFits, OperationIsDescribed
<1> HIDE DEF o
<1>3. Flagged(fields)
  BY FieldsAreFlagged DEF IsOperation
<1>4. plain \in Seq(Parameter)
  <2> DEFINE unneeded == {p \in ToSet(params) : ~p.required}
  <2>1. params \in Seq(Parameter)
    BY ParametersAreTyped DEF IsOperation
  <2> HIDE DEF params, unneeded
  <2>2. Only(params, unneeded) \in Seq(Parameter)
    BY <2>1, OnlyFacts
  <2>3. QED
    BY <2>2 DEF unneeded, GetOptionalParams
<1> HIDE DEF fields, plain
<1>5. ASSUME NumeralsDiffer
      PROVE  DistinctFlags(named_fields, optional) /\ optional \in Seq(Parameter) /\ IsInjective(FlagsOf(optional))
  BY <1>3, <1>4, <1>5, OperationFlags
<1> HIDE DEF optional, named_fields
<1>6. ASSUME NumeralsDiffer, NEW group, NEW leaf
      PROVE  ArgumentsReach(BuildMCPTool(item, op, group, leaf, optional).routes, GetRequiredParams(params), optional)
  BY <1>5, <1>6, ToolArguments DEF IsOperation
<1> HIDE DEF params
<1>7. QED
  BY <1>1, <1>2, <1>5, <1>6 DEF Keeps, o

\* A waiter leaves flags and arguments alone.
LEMMA WiredKeeps ==
  ASSUME NEW o, Keeps(o), NEW w, NEW selectors
  PROVE  Keeps(Wired(o, w, selectors))
<1>1. /\ DOMAIN Wired(o, w, selectors) = DOMAIN o
      /\ Wired(o, w, selectors).fields = o.fields /\ Wired(o, w, selectors).optional = o.optional
      /\ Wired(o, w, selectors).required = o.required /\ Wired(o, w, selectors).tool = o.tool
      /\ Wired(o, w, selectors).schema = o.schema
  BY DEF Wired, Keeps
<1>2. QED
  BY <1>1 DEF Keeps, Described

\* A step that ends the process that held the document.
LEMMA ForgetKeepsInv ==
  ASSUME BuildInv, Forget, UNCHANGED workspace
  PROVE  BuildInv'
<1>1. NamingInv'
  BY MaxNameAssumption DEF Forget, NamingInv, Fits, Bases
<1>2. QED
  BY <1>1 DEF BuildInv, Forget, IsList, ToSet

\* The names that tools are given start from what their operations ask for.
LEMMA IncludedFit ==
  ASSUME BuildInv
  PROVE  Fitting([i \in 1 .. Len(Included) |-> Included[i].tool.name])
<1> DEFINE X == ToSet(ops)
<1>1. Included \in Seq(X)
  BY OnlyFacts DEF BuildInv, IsList, Included
<1>2. \A o \in X : Fits(o.tool.name)
  BY DEF BuildInv, Keeps
<1> HIDE DEF X
<1> DEFINE list == [i \in 1 .. Len(Included) |-> Included[i].tool.name]
<1>3. Len(Included) \in Nat /\ \A i \in 1 .. Len(Included) : Fits(Included[i].tool.name)
  BY <1>1, <1>2
<1>4. list \in Seq(Seq(Symbol))
  BY <1>3 DEF Fits
<1>5. Len(list) = Len(Included) /\ \A i \in 1 .. Len(Included) : list[i] = Included[i].tool.name
  BY <1>3
<1>6. QED
  BY <1>3, <1>4, <1>5 DEF Fitting

\* Each step of the walk, of the naming and of the wiring.
LEMMA ProcessKeepsInv ==
  ASSUME BuildInv, Process, UNCHANGED workspace
  PROVE  BuildInv'
<1> USE DEF BuildInv, IsList
<1>1. CASE NextPath
  BY <1>1, NamingRests DEF NextPath
<1>2. CASE IgnoreOperation
  BY <1>2, NamingRests DEF IgnoreOperation
<1>3. CASE AddOperation
  <2> DEFINE built == BuildOperation(Item, Current)
             X == ToSet(ops) \union {built}
  <2>1. /\ Item.path \in Seq(Segment) /\ Item.params \in Seq(Param) /\ IsOperation(Current)
        /\ \A tag \in DOMAIN doc.tagNames : doc.tagNames[tag] \in Name
    BY <1>3 DEF AddOperation, AtOperation, AtPath, IsDocument, Item, Current
  <2>2. Keeps(built)
    BY <2>1, OperationKeeps
  <2>3. /\ ops' = Append(ops, built) /\ at' = <<at[1], at[2] + 1>>
        /\ NamingInv' /\ UNCHANGED <<doc, phase>>
    BY <1>3, NamingRests DEF AddOperation
  <2> HIDE DEF built
  <2>4. ops \in Seq(X) /\ built \in X
    BY SeqMonotonic
  <2>5. ToSet(ops') = X
    <3> HIDE DEF X
    <3>1. ToSet(ops') = ToSet(ops) \union {built}
      BY <2>3, <2>4, SetOfAppended
    <3>2. QED
      BY <3>1 DEF X
  <2>6. ops' \in Seq(X)
    <3> HIDE DEF X
    <3>1. QED
      BY <2>3, <2>4
  <2>7. QED
    BY <2>2, <2>3, <2>5, <2>6
<1>4. CASE PanicOnList
  BY <1>4, NamingRests DEF PanicOnList
<1>5. CASE StartNaming
  <2>1. NamingInv'
    BY <1>5, IncludedFit, CollectKeepsInv DEF StartNaming
  <2>2. QED
    BY <1>5, <2>1 DEF StartNaming
<1>6. CASE NameTool
  <2>1. NamingInv'
    BY <1>6, RenumberKeepsInv, TakeKeepsInv DEF NameTool, AssignToolNames
  <2>2. QED
    BY <1>6, <2>1 DEF NameTool
<1>7. CASE AddWaiter
  <2> DEFINE After(i) == IF \E id \in DOMAIN Waiter.after : OperationWith(id) = i
                         THEN Wired(ops[i], Waiter, Waiter.after[ops[i].id])
                         ELSE ops[i]
             after == [i \in 1 .. Len(ops) |-> After(i)]
  <2>1. ops' = after /\ NamingInv' /\ UNCHANGED <<doc, phase, at>>
    BY <1>7, NamingRests DEF AddWaiter
  <2>2. Len(ops) \in Nat /\ \A i \in 1 .. Len(ops) : Keeps(ops[i])
    BY DEF ToSet
  <2>3. \A i \in 1 .. Len(ops) : Keeps(After(i))
    BY <2>2, WiredKeeps
  <2> HIDE DEF After
  <2>4. ToSet(after) = {After(i) : i \in 1 .. Len(ops)}
    BY <2>2 DEF ToSet
  <2>5. after \in Seq({After(i) : i \in 1 .. Len(ops)})
    BY <2>2
  <2> HIDE DEF after
  <2>6. QED
    BY <2>1, <2>3, <2>4, <2>5
<1>8. CASE PanicOnWaiter
  BY <1>8, NamingRests DEF PanicOnWaiter
<1>9. CASE FinishApi
  BY <1>9, NamingRests DEF FinishApi
<1>10. QED
  BY <1>1, <1>2, <1>3, <1>4, <1>5, <1>6, <1>7, <1>8, <1>9 DEF Process

LEMMA BuildInvHolds == GeneratorSpec => []BuildInv
<1>1. GeneratorInit => BuildInv
  BY NoNamesYet DEF GeneratorInit, BuilderInit, BuildInv, IsList, ToSet
<1>2. BuildInv /\ [GeneratorNext]_generatorVars => BuildInv'
  <2> SUFFICES ASSUME BuildInv, [GeneratorNext]_generatorVars PROVE BuildInv'
    OBVIOUS
  <2>1. ASSUME UNCHANGED <<workspace, builderVars>> PROVE BuildInv'
    BY <2>1, NamingRests DEF BuildInv, IsList, builderVars
  <2>2. CASE RunCommand
    BY <2>1, <2>2 DEF RunCommand
  <2>3. CASE LoadSpec
    <3>1. IsDocument(workspace.docs[command.spec])
      BY <2>3, WorkspacesAssumption DEF LoadSpec, BuildInv
    <3>2. Fitting(<<>>) /\ CollectTools(<<>>)
      BY <2>3 DEF Fitting, LoadSpec, Load
    <3>3. NamingInv'
      BY <3>2, CollectKeepsInv DEF BuildInv
    <3>4. QED
      BY <2>3, <3>1, <3>3 DEF LoadSpec, Load, BuildInv, IsList, ToSet
  <2>4. CASE ProcessAPI
    BY <2>4, ProcessKeepsInv DEF ProcessAPI
  <2>5. CASE WriteProject
    BY <2>5, ForgetKeepsInv DEF WriteProject
  <2>6. CASE TakeStep
    BY <2>1, <2>6 DEF TakeStep
  <2>7. CASE FailToProcess
    BY <2>7, ForgetKeepsInv DEF FailToProcess
  <2>8. CASE BreakOff
    BY <2>8, ForgetKeepsInv DEF BreakOff
  <2>9. CASE Edit
    BY <2>1, <2>9 DEF Edit
  <2>10. CASE UNCHANGED generatorVars
    BY <2>1, <2>10 DEF generatorVars
  <2>11. QED
    BY <2>2, <2>3, <2>4, <2>5, <2>6, <2>7, <2>8, <2>9, <2>10 DEF GeneratorNext
<1>3. QED
  BY <1>1, <1>2, PTL DEF GeneratorSpec

\* What is judged by its schemas has been built.
LEMMA ProbedAreBuilt ==
  ASSUME BuildInv
  PROVE  \A o \in ProbedOps : Described(o)
BY DEF ProbedOps, BuildInv, Keeps

AcceptsDeclared(o) ==
  /\ \A n \in ToSet(o.tool.input) : \A v \in Probes[n] : Declares(n, "input", v) => InputTaken(o, n, v)
  /\ \A n \in ToSet(o.tool.output) :
       \A v \in Probes[n] : Declares(n, "output", v) => Accepts(McpOutputSchema(n).json, v)

\* Every flag of a command opens with its own name and none hides a global flag,
\* whatever the names of the fields and parameters are (reserveGeneratedFlagNames).
THEOREM FieldFlagsAlwaysDistinct == NumeralsDiffer /\ GeneratorSpec => []FieldFlagsAreDistinct
<1> SUFFICES ASSUME NumeralsDiffer PROVE GeneratorSpec => []FieldFlagsAreDistinct
  OBVIOUS
<1>1. BuildInv => FieldFlagsAreDistinct
  BY DEF BuildInv, Keeps, DistinctFlags, FieldFlagsAreDistinct
<1>2. QED
  BY <1>1, BuildInvHolds, PTL

\* Whatever parameters share a name, an argument is sent as the one it stands for
\* (mcpInputBuilder).
THEOREM ArgumentsAlwaysReach == NumeralsDiffer /\ GeneratorSpec => []ArgumentsReachParameters
<1> SUFFICES ASSUME NumeralsDiffer PROVE GeneratorSpec => []ArgumentsReachParameters
  OBVIOUS
<1>1. BuildInv => ArgumentsReachParameters
  BY DEF BuildInv, Keeps, ArgumentsReach, Reaches, ArgumentsReachParameters
<1>2. QED
  BY <1>1, BuildInvHolds, PTL

\* So are the names of the tools generated for any specification: its operations
\* ask for words within the limit, whatever they are called, and what they ask
\* for is named as above (buildMCPTool, resolveGroup, assignMCPToolNames).
THEOREM GeneratedToolNamesUnique == GeneratorSpec => []ToolNamesAreUnique
<1>1. BuildInv => ToolNamesAreUnique
  BY DEF BuildInv, NamingInv, ToolNamesAreUnique, Fits
<1>2. QED
  BY <1>1, BuildInvHolds, PTL

\* No union of schemas narrows a flag: it offers every string that a body some
\* branch declares has in its field, however compositions nest (unionEnumSchema,
\* collectUnion, effectiveBodySchema).
THEOREM EnumsNeverNarrowed == Meaning /\ UnionsAgree /\ GeneratorSpec => []EnumsNeverNarrow
<1> SUFFICES ASSUME Meaning, UnionsAgree PROVE GeneratorSpec => []EnumsNeverNarrow
  OBVIOUS
<1>1. BuildInv => EnumsNeverNarrow
  <2> SUFFICES ASSUME BuildInv, NEW o \in ProbedOps, NEW n \in ToSet(o.schema), NEW f \in ToSet(o.fields),
                      NEW v \in Probes[n], Declares(n, "input", v), f.enum # {}, f.name \in Fields(v),
                      v.fields[f.name].type = "string"
               PROVE  v.fields[f.name].text \in f.enum
    BY DEF EnumsNeverNarrow
  <2>1. Described(o) /\ n \in Node
    BY ProbedAreBuilt DEF Described
  <2>2. QED
    BY <2>1, ProbesAssumption, DescribedChoices
<1>2. QED
  BY <1>1, BuildInvHolds, PTL

\* Whatever cycles, compositions and nullable choices its schemas are made of, a
\* tool accepts every argument and every result its operation declares (addBody,
\* convert, mcpOutputSchema).
THEOREM DeclaredAlwaysAccepted ==
  Meaning /\ UnionsAgree /\ NullComesFirst /\ DirectionsAgree /\ GeneratorSpec => []SchemasAcceptDeclared
<1> SUFFICES ASSUME Meaning, UnionsAgree, NullComesFirst, DirectionsAgree
             PROVE  GeneratorSpec => []SchemasAcceptDeclared
  OBVIOUS
<1>1. BuildInv => SchemasAcceptDeclared
  <2> SUFFICES ASSUME BuildInv, NEW o \in ProbedOps PROVE AcceptsDeclared(o)
    BY DEF SchemasAcceptDeclared, AcceptsDeclared, InputTaken
  <2>1. Described(o)
    BY ProbedAreBuilt
  <2>2. \A n \in ToSet(o.tool.input) : \A v \in Probes[n] : Declares(n, "input", v) => InputTaken(o, n, v)
    <3>1. \A n \in ToSet(o.tool.input) : n \in Node
      BY <2>1 DEF Described
    <3>2. QED
      BY <2>1, <3>1, ProbesAssumption, DescribedArguments
  <2>3. \A n \in ToSet(o.tool.output) :
          \A v \in Probes[n] : Declares(n, "output", v) => Accepts(McpOutputSchema(n).json, v)
    BY <2>1, DescribedResults
  <2>4. QED
    BY <2>2, <2>3 DEF AcceptsDeclared
<1>2. QED
  BY <1>1, BuildInvHolds, PTL
=============================================================================
