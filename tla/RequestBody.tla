---------------------------- MODULE RequestBody ----------------------------
(***************************************************************************)
(* The request body of a command: a base read from --from-file or standard *)
(* input, the shorthand arguments merged over it, the generated body flags *)
(* merged over both (GetBodyWithFlags). A body is known by what supplied   *)
(* each of its leaves, not by the values.                                  *)
(***************************************************************************)
CONSTANTS
  Fields,    \* the leaves of a body
  Nested,    \* those that lie in one nested object
  Absent     \* no value at a leaf

ASSUME FieldsAssumption == Nested \subseteq Fields

Sources == {"file", "stdin", "args", "flags"}
ASSUME AbsentAssumption == Absent \notin Sources

\* The text of a body: empty, an object, `null`, or anything else (a list, a
\* scalar, malformed text).
Body == [kind : {"empty", "object", "null", "other"}, at : [Fields -> Sources \union {Absent}]]
NoBody == [kind |-> "empty", at |-> [f \in Fields |-> Absent]]

\* What each source was given.
FileInput  == [kind : {"none", "missing", "empty", "object", "null", "other"}, has : SUBSET Fields]
StdinInput == [kind : {"empty", "object", "null", "other"}, has : SUBSET Fields]
ArgsInput  == [kind : {"none", "bad", "object"}, has : SUBSET Fields]
\* "map" is a string-map flag; "blank" a JSON flag given an empty value;
\* renamed, a flag registered as --body-<name> in a program generated earlier.
FlagsInput ==
  [kind : {"none", "bad", "blank", "object", "map"}, has : SUBSET Fields, renamed : BOOLEAN]

Text(source, input) ==
  [kind |-> input.kind,
   at |-> [f \in Fields |-> IF input.kind = "object" /\ f \in input.has THEN source ELSE Absent]]
Supplied(source, input) ==
  [kind |-> "object", at |-> [f \in Fields |-> IF f \in input.has THEN source ELSE Absent]]

\* Seeded fault: the lower layer wins.
DeepAssignUnder(target, source, whole) ==
  [f \in Fields |-> IF target[f] # Absent THEN target[f] ELSE source[f]]

\* An object is merged into the one it meets; whole, it replaces it. A YAML
\* body decodes to map[interface{}]interface{} below the top and a string-map
\* flag is a map[string]string: DeepAssign recurses into neither.
DeepAssign(target, source, whole) ==
  [f \in Fields |->
    IF source[f] # Absent THEN source[f]
    ELSE IF whole /\ f \in Nested /\ \E g \in Nested : source[g] # Absent THEN Absent
    ELSE target[f]]

Accepted(body) == [outcome |-> "ok", body |-> body]
Refused == [outcome |-> "usage", body |-> NoBody]
Panicked == [outcome |-> "panic", body |-> NoBody]

\* `null` decodes into a nil map, which DeepAssign cannot write to.
MergeStructuredBody(media, base, over, whole) ==
  CASE media = "other"       -> Refused
    [] media # "other" /\ base.kind = "empty"  -> Accepted(over)
    [] media # "other" /\ base.kind = "other"  -> Refused
    [] media # "other" /\ base.kind = "null"   -> Panicked
    [] media # "other" /\ base.kind = "object" ->
         Accepted([kind |-> "object",
                   at |-> DeepAssign(base.at, over.at, whole \/ media = "yaml")])

ApplyArgs(media, base, args) ==
  CASE args.kind = "none"   -> Accepted(base)
    [] args.kind = "bad"    -> Refused
    [] args.kind = "object" -> MergeStructuredBody(media, base, Supplied("args", args), FALSE)

\* Only flags given on the command line count, and a blank JSON flag is none.
ApplyBodyFlags(media, body, flags) ==
  CASE flags.kind \in {"none", "blank"}  -> Accepted(body)
    [] flags.kind = "bad"                -> Refused
    [] flags.kind \in {"object", "map"} ->
         MergeStructuredBody(media, body, Supplied("flags", flags), flags.kind = "map")

BuildBody(media, base, args, flags) ==
  LET first == ApplyArgs(media, base, args)
  IN  IF first.outcome = "ok" THEN ApplyBodyFlags(media, first.body, flags) ELSE first

\* Seeded fault: the flags are not consulted.
SuppliedByFileOrArgs(file, args, flags) == args.kind # "none" \/ file.kind # "none"

\* Whether a body comes from elsewhere than standard input. A renamed flag is
\* looked up under the name it no longer has.
BodySuppliedElsewhere(file, args, flags) ==
  \/ args.kind # "none"
  \/ file.kind # "none"
  \/ flags.kind # "none" /\ ~flags.renamed
=============================================================================
