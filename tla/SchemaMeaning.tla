--------------------------- MODULE SchemaMeaning ---------------------------
(***************************************************************************)
(* What schemas mean: the values an OpenAPI schema declares and those the  *)
(* JSON Schema of a tool accepts. It is the reference the conversions of   *)
(* Schemas are judged by; a oneOf is read as an anyOf, which only declares *)
(* more. A value carries its type, a text for a scalar, its fields and its *)
(* items, so that any two values can be compared.                          *)
(***************************************************************************)
EXTENDS Schemas

\* An instance makes these what DeclaredBy and AcceptedBy say of each part.
CONSTANTS
  Declares(_, _, _),  \* whether a node declares, as argument or result, a value
  Accepts(_, _)       \* whether a JSON Schema accepts a value

Scalar(type, text) == [type |-> type, text |-> text, fields |-> <<>>, items |-> <<>>]
Null == Scalar("null", "null")
Object(fields) == [type |-> "object", text |-> "", fields |-> fields, items |-> <<>>]
Array(items) == [type |-> "array", text |-> "", fields |-> <<>>, items |-> items]

Fields(v) == DOMAIN v.fields

HasType(types, v) ==
  \/ types = {}
  \/ v.type \in types
  \/ v.type = "integer" /\ "number" \in types

\* A nullable schema that lists its choices admits null beside them.
IsChoice(enum, nullable, v) == enum = {} \/ v.text \in enum \/ (nullable /\ v = Null)

\* A body is of one branch of a union: it has no field that only others list.
Owns(branches, n, v) ==
  \A b \in ToSet(branches) : Fields(v) \intersect DOMAIN Merged[b].props \subseteq DOMAIN Merged[n].props

(***************************************************************************)
(* What a schema declares of an argument or of a result. A caller has no   *)
(* readOnly property to send and the API none that is writeOnly to return. *)
(***************************************************************************)
DeclaredWith(s, mode, v, Holds(_, _, _)) ==
  LET Hidden(name) == name \in DOMAIN s.props /\ ~KeepProperty(Graph[s.props[name]], mode)
      known == DOMAIN s.props
  IN  /\ HasType(SchemaType(s), v)
      /\ IsChoice(s.enum, s.nullable, v)
      /\ v.type = "object" =>
           /\ \A name \in s.required : Hidden(name) \/ name \in Fields(v)
           /\ \A name \in Fields(v) \intersect known : ~Hidden(name) /\ Holds(s.props[name], mode, v.fields[name])
           /\ \A name \in Fields(v) \ known :
                /\ s.moreAllowed # "denied"
                /\ s.more # <<>> => Holds(s.more[1], mode, v.fields[name])
      /\ v.type = "array" /\ s.items # <<>> => 
           \A i \in 1 .. Len(v.items) : Holds(s.items[1], mode, v.items[i])
      /\ \A n \in ToSet(s.allOf) : Holds(n, mode, v)
      /\ \A branches \in {s.oneOf, s.anyOf} : branches # <<>> =>
           \E n \in ToSet(branches) :
             Holds(n, mode, v) /\ (mode = "input" => Owns(branches, n, v))

DeclaredBy(s, mode, v) == DeclaredWith(s, mode, v, Declares)

(***************************************************************************)
(* What a converted schema accepts.                                        *)
(***************************************************************************)
AcceptedWith(json, v, Holds(_, _)) ==
  /\ HasType(json.types, v)
  /\ json.enum = {} \/ v.text \in json.enum
  /\ v.type = "object" =>
       /\ json.required \subseteq Fields(v)
       /\ \A name \in Fields(v) \intersect DOMAIN json.props : Holds(json.props[name], v.fields[name])
       /\ \A name \in Fields(v) \ DOMAIN json.props :
            ~json.closed /\ (json.more # <<>> => Holds(json.more[1], v.fields[name]))
  /\ v.type = "array" /\ json.items # <<>> =>
       \A i \in 1 .. Len(v.items) : Holds(json.items[1], v.items[i])
  /\ json.anyOf # <<>> => \E j \in ToSet(json.anyOf) : Holds(j, v)
  /\ \A j \in ToSet(json.allOf) : Holds(j, v)

AcceptedBy(json, v) == AcceptedWith(json, v, Accepts)

(***************************************************************************)
(* That the two constants mean this. Each stands in its own meaning only   *)
(* unnegated, so for every graph there is something that they can be.      *)
(***************************************************************************)
Meaning ==
  /\ \A n \in Node, mode \in Mode : \A v : Declares(n, mode, v) <=> DeclaredBy(Graph[n], mode, v)
  /\ \A json, v : Accepts(json, v) <=> AcceptedBy(json, v)
=============================================================================
