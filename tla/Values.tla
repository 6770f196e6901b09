------------------------------- MODULE Values -------------------------------
(***************************************************************************)
(* What responses are made of, before anything is decided about how they   *)
(* are shown (cli/formatter.go): a value is a record with a kind. The keys *)
(* of an object are sequences of parts, as columns are: `a.b[]` is         *)
(* <<a, b[]>>, and so is a key that is spelled like that.                  *)
(***************************************************************************)

Part(name) == [name |-> name, each |-> FALSE]
Each(name) == [name |-> name, each |-> TRUE]     \* `name[]`
Key(name) == <<Part(name)>>

Null == [kind |-> "null"]
Text(s) == [kind |-> "string", text |-> s]
Number(n) == [kind |-> "number", value |-> n]
Truth(b) == [kind |-> "bool", value |-> b]
List(items) == [kind |-> "list", items |-> items]
\* keys: "string" for map[string], "any" and "odd" for YAML's
\* map[interface{}], whose keys are all strings or not.
Object(keys, at) == [kind |-> "object", keys |-> keys, at |-> at]
Missing == [kind |-> "missing"]
=============================================================================
