--------------------------- MODULE SchemaPromises ---------------------------
(***************************************************************************)
(* What the generated flags and tools promise of schemas, judged by what   *)
(* the schemas mean, and what that takes: unionEnumSchema joins strings and*)
(* nothing else, so some unions reject what one of their branches allows.  *)
(***************************************************************************)
EXTENDS Generator, SchemaMeaning

CONSTANT
  Probes      \* [node -> the values tried of its schema]

\* Only objects have fields; the text null is the null of enumerations.
IsValue(v) ==
  \A name \in Fields(v) :
    /\ v.type = "object"
    /\ v.fields[name].type # "object" => Fields(v.fields[name]) = {}
    /\ v.fields[name].type = "null" => v.fields[name] = Null
    /\ v.fields[name].type = "string" => v.fields[name].text # "null"

ASSUME ProbesAssumption == \A n \in Node : \A v \in Probes[n] : IsValue(v)

(***************************************************************************)
(* What the branches of a union have to agree in for their merged object to*)
(* take each one's bodies.                                                 *)
(***************************************************************************)
\* A string, with or without choices, that may be null beside them.
IsText(schema) == schema.types \ {"null"} = {"string"} /\ ~Composed(schema)

IsTextOrNull(schema) ==
  \/ IsText(schema)
  \/ /\ schema.types = {} /\ schema.enum = {} /\ schema.allOf = <<>>
     /\ <<>> \in {schema.oneOf, schema.anyOf}
     /\ Len(NonNull(schema)) = 1 /\ IsText(Graph[NonNull(schema)[1]])

Alternative(n) == Alternatives(Graph[n], Merged)
Settled(n) == DOMAIN Graph[n].props \union UNION {DOMAIN Merged[b].props : b \in ToSet(Graph[n].allOf)}
Listers(n, name) == {i \in 1 .. Len(Alternative(n)) : name \in DOMAIN Merged[Alternative(n)[i]].props}
Listings(n, name) == {Merged[Alternative(n)[i]].props[name] : i \in Listers(n, name)}

\* A property that no one has settled and that several branches list is the same
\* in each, or a string: unionEnumSchema joins nothing but strings.
UnionsAgree ==
  \A n \in Node : \A name \in (UNION {DOMAIN Merged[b].props : b \in ToSet(Alternative(n))}) \ Settled(n) :
    \/ \A one, other \in Listings(n, name) : one = other
    \/ \A listed \in Listings(n, name) : IsTextOrNull(listed)

\* It may be null in the first branch that lists it, if it may be in any: choices
\* that need not be widened stay as they were.
NullComesFirst ==
  \A n \in Node : \A name \in (UNION {DOMAIN Merged[b].props : b \in ToSet(Alternative(n))}) \ Settled(n) :
    \A i, j \in Listers(n, name) :
      /\ \A k \in Listers(n, name) : i <= k
      /\ DeclaredBy(Merged[Alternative(n)[j]].props[name], "input", Null)
      => DeclaredBy(Merged[Alternative(n)[i]].props[name], "input", Null)

\* What a branch requires of responses only, so does the composition; and what
\* the composition has for responses only, so has each branch that lists it.
DirectionsAgree ==
  \A n \in Node, b \in Node : b \in Branches(Graph[n]) =>
    \A name \in DOMAIN Merged[b].props \intersect DOMAIN Merged[n].props :
      /\ name \in Merged[b].required /\ Merged[b].props[name].readOnly => Merged[n].props[name].readOnly
      /\ Merged[n].props[name].readOnly => Merged[b].props[name].readOnly

\* The fields of an object body that arguments can be named for. A field that no
\* schema lists has none.
Nameable(n) == {name \in DOMAIN Merged[n].props : Slug(name) # <<>>}

\* They are judged when the last operation is in.
ProbedOps == IF phase = "naming" /\ named = <<>> THEN ToSet(ops) ELSE {}

\* What an operation declares its caller may send and the API may return, its
\* tool accepts as arguments and as result: nullable choices, cut-off cycles,
\* readOnly and writeOnly properties and merged branches included. The arguments
\* are taken together: the input schema is closed, so that each field of a body
\* needs one of its own, and those it requires are in every body
\* (mcpschema.go convert, addBody, build, mcpOutputSchema).
SchemasAcceptDeclared ==
  \A o \in ProbedOps :
    /\ \A n \in ToSet(o.tool.input) : \A v \in Probes[n] : Declares(n, "input", v) =>
         IF McpBodyIsObject(n)
         THEN v.type = "object" /\ Fields(v) \subseteq Nameable(n) => Accepts(InputSchema(o.tool.routes, n), v)
         ELSE Accepts(ConvertSchema(Graph[n], "input"), v)
    /\ \A n \in ToSet(o.tool.output) :
         \A v \in Probes[n] : Declares(n, "output", v) => Accepts(McpOutputSchema(n).json, v)

\* A flag that offers choices offers every string that some accepted body has in
\* that field, whichever branch of a union accepts it (main.go unionEnumSchema).
EnumsNeverNarrow ==
  \A o \in ProbedOps : \A n \in ToSet(o.schema), f \in ToSet(o.fields) :
    \A v \in Probes[n] :
      Declares(n, "input", v) /\ f.enum # {} /\ f.name \in Fields(v) /\ v.fields[f.name].type = "string"
        => v.fields[f.name].text \in f.enum
=============================================================================
