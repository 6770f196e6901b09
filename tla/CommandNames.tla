---------------------------- MODULE CommandNames ----------------------------
(***************************************************************************)
(* The names the generator derives from a specification (main.go): command *)
(* groups, leaf names within a group, and the flags of a command. A name   *)
(* of the specification is a spelling and the words its slug joins with    *)
(* dashes, so that `filterBy` and `filter_by` are two names of one slug; a *)
(* derived name is its words.                                              *)
(***************************************************************************)
EXTENDS Naturals, SequencesExt

CONSTANTS
  Singulars,     \* [plural word -> its singular], the identity left out
  VersionWords,  \* path segments and words like v2
  WordsInV,      \* words that begin with a v
  ReservedFlags  \* the flags of every generated command

\* No reserved flag looks like a renamed one (cli/flags.go reservedFlagNames).
ASSUME ReservedAssumption ==
  \A words \in ReservedFlags : \A prefix \in {"body", "param"} : words # <<>> => words[1] # prefix

Word == STRING

ASSUME SingularsAssumption == \A plural \in DOMAIN Singulars : Singulars[plural] \in Word

Name == [spelling : STRING, words : Seq(Word)]

\* No name: an extension or an operationId that is not there.
NoName == [spelling |-> "", words |-> <<>>]

\* The elements of a sequence that are in a set, in order.
Only(seq, set) ==
  LET kept[i \in 0 .. Len(seq)] ==
        IF i = 0 THEN <<>>
        ELSE IF seq[i] \in set THEN Append(kept[i - 1], seq[i]) ELSE kept[i - 1]
  IN  kept[Len(seq)]

\* Case, separators and spelling are gone: names that differ in them meet here.
Slug(name) == name.words

\* An exported Go name is the capitalised words run together.
GoName(name) == name.words

Singular(words) ==
  IF words # <<>> /\ Last(words) \in DOMAIN Singulars
  THEN Front(words) \o <<Singulars[Last(words)]>>
  ELSE words

(***************************************************************************)
(* Paths are sequences of segments: a static one, a {parameter}, or one    *)
(* that only begins with a brace, like {id}:cancel.                        *)
(***************************************************************************)
Segment == [kind : {"static", "param", "opens"}, name : Name]

IsVersionToken(segment) ==
  segment.kind = "static" /\ Len(Slug(segment.name)) = 1 /\ Slug(segment.name)[1] \in VersionWords

IsCollectionPath(path) == \A i \in 1 .. Len(path) : path[i].kind # "param"

InferGroupFromPath(path) ==
  LET nouns == Only(path, {s \in ToSet(path) : s.kind = "static" /\ ~IsVersionToken(s)})
  IN  IF nouns = <<>> THEN NoName ELSE nouns[1].name

\* The operationId, or the method and the path when it is missing.
OperationName(method, path, id) ==
  IF id # NoName THEN id
  ELSE [spelling |-> method,
        words |-> <<method>> \o FlattenSeq([i \in 1 .. Len(path) |-> Slug(path[i].name)])]

(***************************************************************************)
(* Groups: x-bartolo-group, else the first tag, else the path. A tag's     *)
(* x-bartolo-name renames the command, x-bartolo-group has the last word.  *)
(***************************************************************************)
GroupName(path, group, tags) ==
  IF group # NoName THEN group
  ELSE IF tags # <<>> THEN Head(tags)
  ELSE InferGroupFromPath(path)

ResolveCommandGroup(path, group, tags, tagNames) ==
  LET name == GroupName(path, group, tags)
      tagged == (group # NoName \/ tags # <<>>) /\ name \in DOMAIN tagNames
  IN  IF group = NoName /\ tagged /\ tagNames[name] # NoName
      THEN Slug(tagNames[name])
      ELSE Slug(name)

(***************************************************************************)
(* Leaf names: the group's noun is trimmed off an operation's name, get-all*)
(* becomes list, and a name that says nothing is replaced by the path's.   *)
(***************************************************************************)
GroupForms(group) == {group, Singular(group)}

Trims(leaf, stem) ==
  (IF IsStrictPrefix(stem, leaf) THEN <<SubSeq(leaf, Len(stem) + 1, Len(leaf))>> ELSE <<>>) \o
  (IF IsStrictSuffix(stem, leaf) THEN <<SubSeq(leaf, 1, Len(leaf) - Len(stem))>> ELSE <<>>)

TrimGroupPrefix(leaf, group) ==
  Head(Trims(leaf, group) \o Trims(leaf, Singular(group)) \o <<leaf>>)

Verbs == {"get", "list", "create", "update", "delete", "upload", "download", "search", "query", "find"}

TrimGroupedNounAfterVerb(leaf, group) ==
  IF Len(leaf) >= 2 /\ leaf[1] \in Verbs /\ <<leaf[2]>> \in GroupForms(group)
  THEN RemoveAt(leaf, 2)
  ELSE leaf

Rest(words, n) == SubSeq(words, n + 1, Len(words))

NormalizeGroupedLeafName(leaf) ==
  LET Starts(w) == IsPrefix(w, leaf)
      versioned(n) == Len(leaf) > n /\ leaf[n] \in VersionWords
  IN  IF Starts(<<"get", "all">>) \/ Starts(<<"list", "all">>) THEN <<"list">> \o Rest(leaf, 2)
      ELSE IF Starts(<<"get", "one">>) \/ Starts(<<"find", "one">>) THEN <<"get">> \o Rest(leaf, 2)
      ELSE IF Starts(<<"find">>) THEN <<"get">> \o Rest(leaf, 1)
      ELSE IF versioned(2) /\ leaf[1] \in {"get", "post", "put", "patch", "delete", "head"}
        THEN Rest(leaf, 2)
      ELSE IF versioned(1) THEN Rest(leaf, 1)
      ELSE leaf

IsUsefulGroupedLeaf(leaf, method) ==
  /\ leaf \notin {<<>>, <<"id">>}
  /\ \A i \in 1 .. Len(leaf) - 1 : leaf[i] \notin {"v1", "v2", "v3"}
  /\ ~(Len(leaf) >= 2 /\ leaf[1] = method /\ leaf[2] \in WordsInV)

ActionSegments ==
  {"query", "search", "invoke", "stream", "upload", "download", "duplicate", "validate",
   "refresh", "invalidate", "cancel", "retry"}

IsActionSegment(words) == Len(words) = 1 /\ words[1] \in ActionSegments

\* The verb of the method, and the nouns and actions below the group's.
LeafBelow(method, path, below) ==
  LET joined == FlattenSeq(below)
      Act(verb) == IF below = <<>> THEN <<verb>>
                   ELSE IF IsActionSegment(Last(below)) THEN joined
                   ELSE <<verb>> \o Singular(joined)
  IN  CASE method \in {"get", "head"} ->
             IF below = <<>> THEN IF IsCollectionPath(path) THEN <<"list">> ELSE <<"get">>
             ELSE IF Last(below) \in {<<"query">>, <<"search">>} THEN Last(below)
             ELSE IF IsCollectionPath(path) THEN joined ELSE <<"get">> \o joined
        [] method = "post" -> Act("create")
        [] method \in {"put", "patch"} -> Act("update")
        [] method = "delete" -> <<"delete">> \o Singular(joined)
        [] OTHER -> joined

InferLeafFromPath(method, path, group) ==
  LET static == Only(path, {s \in ToSet(path) : s.kind # "param" /\ ~IsVersionToken(s)})
      all    == [i \in 1 .. Len(static) |-> Slug(static[i].name)]
      at     == {i \in 1 .. Len(all) : all[i] \in GroupForms(group)}
  IN  LeafBelow(method, path,
                IF at = {} THEN all ELSE Rest(all, CHOOSE i \in at : \A j \in at : i <= j))

InferGroupedLeafName(name, method, path, group, explicit) ==
  LET once == NormalizeGroupedLeafName(TrimGroupPrefix(name, group))
      leaf == TrimGroupedNounAfterVerb(TrimGroupPrefix(once, group), group)
      inferred == InferLeafFromPath(method, path, group)
  IN  IF explicit \/ IsUsefulGroupedLeaf(leaf, method) \/ inferred = <<>> THEN leaf ELSE inferred

\* resolveGroup: an empty leaf falls back to the method.
GroupedLeaf(name, method, path, group, explicit) ==
  LET leaf == InferGroupedLeafName(name, method, path, group, explicit)
  IN  IF leaf = <<>> THEN <<method>> ELSE leaf

(***************************************************************************)
(* Flags: a name that is reserved, or that another source of the command   *)
(* already has, moves to body-<name> or param-<name>, then on to a numbered*)
(* one.                                                                    *)
(***************************************************************************)
ResolveGeneratedFlagName(prefix, name) ==
  IF name \in ReservedFlags THEN <<prefix>> \o name ELSE name

\* The first free of prefix-name, prefix-name-2, prefix-name-3, ...
FirstFree(prefix, name, taken) ==
  LET Numbered(i) == <<prefix>> \o name \o (IF i = 1 THEN <<>> ELSE <<ToString(i)>>)
      free == {i \in 1 .. Cardinality(taken) + 1 : Numbered(i) \notin taken}
  IN  Numbered(CHOOSE i \in free : \A j \in free : i <= j)

\* A name for each source in turn: the one it asks for first, unless it is taken.
\* A request is [first, prefix, name].

\* Seeded fault: the prefixed name is not looked up again.
ClaimOnce(request, taken) ==
  IF request.first \notin taken THEN request.first ELSE <<request.prefix>> \o request.name

Claim(request, taken) ==
  IF request.first \notin taken THEN request.first ELSE FirstFree(request.prefix, request.name, taken)

ClaimAll(requests) ==
  LET claimed[i \in 0 .. Len(requests)] ==
        IF i = 0 THEN <<>>
        ELSE LET before == claimed[i - 1]
             IN  Append(before, Claim(requests[i], ToSet(before)))
  IN  claimed[Len(requests)]

\* Body fields come first, then the optional parameters.
ReserveGeneratedFlagNames(fields, optional) ==
  LET Request(prefix, name) ==
        [first |-> ResolveGeneratedFlagName(prefix, name), prefix |-> prefix, name |-> name]
      all == fields \o optional
  IN  ClaimAll([i \in 1 .. Len(all) |->
                  Request(IF i <= Len(fields) THEN "body" ELSE "param", all[i])])
=============================================================================
