----------------------------- MODULE ToolNames -----------------------------
(***************************************************************************)
(* assignMCPToolNames (mcpschema.go): the tools of a specification are     *)
(* named in path and method order. A name that is taken is tried again with*)
(* _2, _3, ... after it, cut so that the whole stays within the limit. A   *)
(* name is its words; the limit counts words where the code counts bytes.  *)
(***************************************************************************)
EXTENDS Naturals, Sequences, TLC

CONSTANTS
  MaxName,   \* the length of the longest name
  ToolLists  \* the sequences of base names a specification may call for

Words == Seq(STRING)

ASSUME MaxNameAssumption == MaxName \in Nat \ {0}
ASSUME ToolListsAssumption ==
  \A list \in ToolLists :
    list \in Seq(Words) /\ \A i \in 1 .. Len(list) : Len(list[i]) <= MaxName

VARIABLES
  bases,    \* the base names, in order
  named,    \* the names assigned so far
  seen,     \* the same, as the set the code looks up
  counter,  \* [base -> the numbers tried for it]
  candidate \* the name tried for the next tool

toolNameVars == <<bases, named, seen, counter, candidate>>

ToolNamesInit ==
  /\ bases = <<>>
  /\ named = <<>>
  /\ seen = {}
  /\ counter = <<>>
  /\ candidate = <<>>

Naming == Len(named) < Len(bases)
Base == bases[Len(named) + 1]

\* sanitizeToolName: never empty, never too long.
SanitizeToolName(words) ==
  IF words = <<>> THEN <<"tool">>
  ELSE IF Len(words) > MaxName THEN SubSeq(words, 1, MaxName)
  ELSE words

CollectTools(list) ==
  /\ ~Naming
  /\ bases' = list
  /\ named' = <<>>
  /\ seen' = {}
  /\ counter' = [b \in {list[i] : i \in 1 .. Len(list)} |-> 0]
  /\ candidate' = IF list = <<>> THEN <<>> ELSE list[1]

\* The words after a name that is tried for the n-th time.
Number(n) == <<ToString(n)>>

Cut(base, suffix) ==
  IF Len(base) + Len(suffix) > MaxName THEN SubSeq(base, 1, MaxName - Len(suffix)) ELSE base

Renumber ==
  LET suffix == Number(counter[Base] + 2)
  IN  /\ Naming
      /\ candidate \in seen
      /\ counter' = [counter EXCEPT ![Base] = @ + 1]
      /\ candidate' = Cut(Base, suffix) \o suffix
      /\ UNCHANGED <<bases, named, seen>>

\* Seeded fault: the numbered name is taken without another look.
NumberedIsFree == candidate \notin seen \/ candidate # Base

Free == candidate \notin seen

TakeName ==
  /\ Naming
  /\ Free
  /\ named' = Append(named, candidate)
  /\ seen' = seen \union {candidate}
  /\ candidate' = IF Len(named) + 1 < Len(bases) THEN bases[Len(named) + 2] ELSE <<>>
  /\ UNCHANGED <<bases, counter>>

AssignToolNames == Renumber \/ TakeName

ToolNamesNext == (\E list \in ToolLists : CollectTools(list)) \/ AssignToolNames
ToolNamesSpec == ToolNamesInit /\ [][ToolNamesNext]_toolNameVars

\* No two tools of a server have one name, and no name exceeds the limit: the
\* numbers appended to a cut name must not run into the name of another tool
\* (mcpschema.go assignMCPToolNames).
ToolNamesAreUnique ==
  /\ \A i, j \in 1 .. Len(named) : named[i] = named[j] => i = j
  /\ \A i \in 1 .. Len(named) : Len(named[i]) <= MaxName
=============================================================================
