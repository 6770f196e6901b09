------------------------------ MODULE Schemas ------------------------------
(***************************************************************************)
(* What the generator makes of OpenAPI schemas: the flag of a body field   *)
(* and the choices it enforces, compositions merged into one object        *)
(* (main.go), and the JSON Schema of a tool (mcpschema.go). A schema is a  *)
(* node of a graph, as the loader shares one *Schema among its $ref sites: *)
(* properties and items may lead back to it. Descriptions, defaults,       *)
(* examples, formats but date-time, constants and bounds are data no       *)
(* property here reads.                                                    *)
(***************************************************************************)
EXTENDS CommandNames

CONSTANTS
  Graph,     \* [node -> schema record]
  NoNode,    \* the identity of a schema built by the generator
  NameOrder, \* every property name, in byte order
  MaxDepth   \* [input, output]: how deep a converted schema may nest

Node == DOMAIN Graph
Mode == {"input", "output"}

\* A schema that says nothing; the schemas of an instance are made from it.
AnySchema ==
  [id |-> NoNode, types |-> {}, nullable |-> FALSE, dateTime |-> FALSE, enum |-> {},
   props |-> <<>>, required |-> {}, more |-> <<>>, moreAllowed |-> "unset", items |-> <<>>,
   allOf |-> <<>>, oneOf |-> <<>>, anyOf |-> <<>>,
   readOnly |-> FALSE, writeOnly |-> FALSE, ignored |-> FALSE, flag |-> <<>>]

\* The schemas a composition is put together from, and all that a schema leads to.
Either(schema) == schema.oneOf \o schema.anyOf
Branches(schema) == ToSet(schema.allOf) \union ToSet(Either(schema))
Children(schema) == Range(schema.props) \union ToSet(schema.more \o schema.items) \union Branches(schema)

IsSchema(schema) ==
  /\ schema.types \subseteq STRING /\ schema.enum \subseteq STRING
  /\ {schema.allOf, schema.oneOf, schema.anyOf, schema.items, schema.more} \subseteq Seq(Node)
  /\ Children(schema) \subseteq Node

ASSUME GraphAssumption ==
  \A n \in Node : DOMAIN Graph[n] = DOMAIN AnySchema /\ Graph[n].id = n /\ IsSchema(Graph[n])

\* The schemas whose compositions nest less than k deep.
Nested[k \in 0 .. Cardinality(Node)] ==
  IF k = 0 THEN {} ELSE LET below == Nested[k - 1] IN {n \in Node : Branches(Graph[n]) \subseteq below}

\* No composition leads back to itself: flattenBranch would not return.
ASSUME CompositionsEnd == IsFiniteSet(Node) /\ Nested[Cardinality(Node)] = Node

ASSUME MaxDepthAssumption == MaxDepth \in [Mode -> Nat \ {0}]
ASSUME NameOrderAssumption ==
  NameOrder \in Seq(Name) /\ \A n \in Node : DOMAIN Graph[n].props \subseteq ToSet(NameOrder)

Is(schema, type) == schema.types = {type}
Composed(schema) == schema.allOf \o schema.oneOf \o schema.anyOf # <<>>
Sorted(names) == Only(NameOrder, names)

(***************************************************************************)
(* effectiveBodySchema: nullability shapes collapse to the schema of the   *)
(* value and whether it may be null; a union of several branches has none. *)
(***************************************************************************)
\* The branches that are not only null.
NonNull(schema) ==
  Only(schema.anyOf \o schema.oneOf, {b \in ToSet(schema.anyOf \o schema.oneOf) : ~Is(Graph[b], "null")})

Collapsed(schema, nonNull, effective) ==
  LET stripped == [schema EXCEPT !.types = @ \ {"null"}]
      branches == schema.anyOf \o schema.oneOf
      nullable == schema.nullable \/ "null" \in schema.types \/ Len(nonNull) < Len(branches)
      inner    == effective[nonNull[1]]
  IN  IF Len(nonNull) = 1 /\ inner.schema # <<>>
        THEN [schema |-> inner.schema, nullable |-> nullable \/ inner.nullable]
      ELSE IF branches # <<>> /\ stripped.types = {}
        THEN [schema |-> <<>>, nullable |-> nullable]
      ELSE [schema |-> <<stripped>>, nullable |-> nullable]

EffectiveWith(schema, effective) == Collapsed(schema, NonNull(schema), effective)
Effective[n \in Node] == EffectiveWith(Graph[n], Effective)
EffectiveBodySchema(schema) == EffectiveWith(schema, Effective)

ScalarType(schema) ==
  CASE Is(schema, "string")  -> "string"
    [] Is(schema, "boolean") -> "bool"
    [] Is(schema, "integer") -> "int64"
    [] Is(schema, "number")  -> "float64"
    [] OTHER -> ""

ScalarOf(effective) == IF effective.schema = <<>> THEN "" ELSE ScalarType(effective.schema[1])

UnionHasStringBranch(schema) ==
  \E b \in ToSet(schema.anyOf \o schema.oneOf) : ScalarOf(Effective[b]) = "string"

\* The choices a flag or argument offers; null is no string.
EnumStrings(effective) == IF effective = <<>> THEN {} ELSE effective[1].enum \ {"null"}

ValueType(value) ==
  IF value = <<>> \/ value[1].types = {} \/ Is(value[1], "string") THEN "string-map" ELSE "json"

MapType(schema) ==
  IF schema.props # <<>> THEN "json"
  ELSE IF schema.more # <<>> THEN ValueType(Effective[schema.more[1]].schema)
  ELSE IF schema.moreAllowed = "allowed" THEN "string-map" ELSE "json"

\* The type of a body field's flag: json takes what no other flag can express.
FlagType(schema, effective) ==
  LET s    == effective.schema[1]
      base == ScalarType(s)
      item == IF s.items = <<>> THEN "" ELSE ScalarOf(Effective[s.items[1]])
  IN  IF effective.schema = <<>>
        THEN IF UnionHasStringBranch(schema) THEN "json-or-string" ELSE "json"
      ELSE IF Is(s, "array") THEN IF item = "" THEN "json" ELSE item \o "-slice"
      ELSE IF Is(s, "object") THEN MapType(s)
      ELSE IF base = "" THEN "json"
      ELSE IF base = "string" /\ s.enum # {}
        THEN IF effective.nullable THEN "string-nullable" ELSE "enum-string"
      ELSE IF base = "string" /\ (s.dateTime \/ schema.dateTime)
        THEN IF effective.nullable THEN "datetime-nullable" ELSE "datetime"
      ELSE IF effective.nullable THEN base \o "-nullable" ELSE base

BodyFieldType(schema) == FlagType(schema, EffectiveBodySchema(schema))

(***************************************************************************)
(* mergeAllOf: the properties of a composition in one object. A property of*)
(* the host or of an allOf branch is settled; one that several oneOf or    *)
(* anyOf branches have accepts the strings of each.                        *)
(***************************************************************************)
\* Choices are widened by choices, and given up to a branch that has none.
WidenEnum(existing, old, new) ==
  LET both    == ScalarOf(old) = "string" /\ ScalarOf(new) = "string"
      choices == IF new.schema[1].enum = {} THEN {} ELSE old.schema[1].enum \union new.schema[1].enum
  IN  IF ~both \/ old.schema[1].enum \in {{}, choices} THEN existing
      ELSE [old.schema[1] EXCEPT !.id = NoNode, !.enum = choices,
                                 !.nullable = @ \/ old.nullable \/ new.nullable]

\* Seeded fault: the first branch's choices stand.
FirstEnum(existing, incoming) == existing

UnionEnumSchema(existing, incoming) ==
  WidenEnum(existing, EffectiveBodySchema(existing), EffectiveBodySchema(incoming))

\* First wins.
Joined(props, others) ==
  [name \in DOMAIN props \union DOMAIN others |->
     IF name \in DOMAIN props THEN props[name] ELSE others[name]]

\* The first also settles the property.
Collect(m, src) ==
  [props   |-> Joined(m.props, src.props),
   settled |-> m.settled \union (DOMAIN src.props \ DOMAIN m.props)]

\* A property that an earlier branch may have too, unless it is settled.
WidenedBy(src, m, name) ==
  IF name \in DOMAIN src.props \ m.settled THEN UnionEnumSchema(m.props[name], src.props[name])
  ELSE m.props[name]

CollectBranch(m, src) ==
  [m EXCEPT !.props = Joined([name \in DOMAIN m.props |-> WidenedBy(src, m, name)], src.props)]

\* The host and its allOf branches; then the branches of its unions, in order.
CollectAll(own, all) ==
  LET collected[i \in 0 .. Len(all)] ==
        IF i = 0 THEN [props |-> own.props, settled |-> DOMAIN own.props]
        ELSE Collect(collected[i - 1], all[i])
  IN  collected[Len(all)]

CollectUnion(settled, union) ==
  LET collected[i \in 0 .. Len(union)] ==
        IF i = 0 THEN settled ELSE CollectBranch(collected[i - 1], union[i])
  IN  collected[Len(union)]

\* The names that each of several branches requires.
RequiredByAll(union) ==
  {name \in UNION {f.required : f \in ToSet(union)} : \A f \in ToSet(union) : name \in f.required}

\* A branch that is only null has nothing to merge.
Alternatives(schema, flat) ==
  Only(Either(schema), {b \in ToSet(Either(schema)) : ~Is(flat[b], "null")})

MergeWith(schema, flat) ==
  LET own    == [types |-> schema.types, required |-> schema.required,
                 props |-> [name \in DOMAIN schema.props |-> Graph[schema.props[name]]]]
      all    == [i \in 1 .. Len(schema.allOf) |-> flat[schema.allOf[i]]]
      union  == [i \in 1 .. Len(Alternatives(schema, flat)) |-> flat[Alternatives(schema, flat)[i]]]
  IN  IF ~Composed(schema) THEN own
      ELSE [types    |-> {"object"},
            props    |-> CollectUnion(CollectAll(own, all), union).props,
            required |-> UNION {own.required, UNION {f.required : f \in ToSet(all)}, RequiredByAll(union)}]

Merged[n \in Node] == MergeWith(Graph[n], Merged)

\* The fields of a request body that get a flag, in name order.
BodyField(name, schema, type) ==
  [name |-> name,
   flag |-> IF schema.flag # <<>> THEN schema.flag ELSE Slug(name),
   type |-> type,
   enum |-> IF type = "enum-string" THEN EnumStrings(EffectiveBodySchema(schema).schema) ELSE {}]

FlaggedFields(merged) ==
  LET order == Sorted({name \in DOMAIN merged.props : ~merged.props[name].ignored})
      Field(name) == BodyField(name, merged.props[name], BodyFieldType(merged.props[name]))
  IN  [i \in 1 .. Len(order) |-> Field(order[i])]

BodyFields(n) == FlaggedFields(Merged[n])

(***************************************************************************)
(* Conversion to JSON Schema, for arguments and for structured results. A  *)
(* cycle or too deep a nesting is cut off to its type. Results may be null *)
(* anywhere below the top and promise neither choices nor required names.  *)
(***************************************************************************)
SchemaType(schema) ==
  IF schema.nullable /\ schema.types # {} THEN schema.types \union {"null"} ELSE schema.types

AllowNull(json) == IF json.types = {} THEN json ELSE [json EXCEPT !.types = @ \union {"null"}]

Truncated(schema) ==
  [types |-> SchemaType(schema), enum |-> {}, props |-> <<>>, required |-> {}, more |-> <<>>,
   closed |-> FALSE, items |-> <<>>, anyOf |-> <<>>, allOf |-> <<>>]

KeepProperty(schema, mode) == IF mode = "input" THEN ~schema.readOnly ELSE ~schema.writeOnly

RequiredProperties(schema, mode) ==
  {name \in schema.required :
     name \in DOMAIN schema.props => KeepProperty(Graph[schema.props[name]], mode)}

\* Seeded fault: a nullable enumeration does not list null.
DeclaredEnum(schema) == schema.enum

ConstrainEnum(schema) ==
  IF schema.enum # {} /\ schema.nullable THEN schema.enum \union {"null"} ELSE schema.enum

ConvertWith(schema, mode, child) ==
  LET Below(m) == IF mode = "output" THEN AllowNull(child[m]) ELSE child[m]
      kept == {name \in DOMAIN schema.props : KeepProperty(Graph[schema.props[name]], mode)}
  IN  [types    |-> SchemaType(schema),
       enum     |-> IF mode = "input" THEN ConstrainEnum(schema) ELSE {},
       props    |-> [name \in kept |-> Below(schema.props[name])],
       required |-> IF mode = "input" /\ schema.props # <<>> THEN RequiredProperties(schema, mode) ELSE {},
       more     |-> [i \in 1 .. Len(schema.more) |-> Below(schema.more[i])],
       closed   |-> mode = "input" /\ schema.more = <<>> /\ schema.moreAllowed = "denied",
       items    |-> [i \in 1 .. Len(schema.items) |-> Below(schema.items[i])],
       anyOf    |-> [i \in 1 .. Len(Either(schema)) |-> child[Either(schema)[i]]],
       allOf    |-> [i \in 1 .. Len(schema.allOf) |-> child[schema.allOf[i]]]]

\* What the levels left convert a schema to, below those visited on the way to it.
Convert(mode) ==
  LET converted[left \in 0 .. MaxDepth[mode]] ==
        [visited \in SUBSET Node |->
           [n \in Node |->
              IF left = 0 \/ n \in visited THEN Truncated(Graph[n])
              ELSE ConvertWith(Graph[n], mode, converted[left - 1][visited \union {n}])]]
  IN  converted[MaxDepth[mode] - 1]

ConvertSchema(schema, mode) ==
  ConvertWith(schema, mode, Convert(mode)[{schema.id} \ {NoNode}])

\* Whether an object body's properties become arguments of their own.
McpBodyIsObject(n) ==
  Graph[n].props # <<>> \/ (Graph[n].allOf # <<>> /\ Merged[n].props # <<>>)

\* The result schema of a tool, wrapped unless it is an object.
McpOutputSchema(n) ==
  LET json == ConvertSchema(Graph[n], "output")
  IN  IF json.types = {"object"} THEN [json |-> json, wrap |-> FALSE]
      ELSE [json |-> AllowNull(json), wrap |-> TRUE]
=============================================================================
