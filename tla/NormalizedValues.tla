-------------------------- MODULE NormalizedValues --------------------------
(***************************************************************************)
(* normalizeTableValue (cli/formatter.go), closed: the form of a value is  *)
(* made of the forms of its parts. Recursive, and so kept apart from what  *)
(* is proved of Output: there it is a parameter.                           *)
(***************************************************************************)
EXTENDS Output

RECURSIVE NormalizedValue(_)
NormalizedValue(value) == NormalizedWith(value, NormalizedValue)

\* All objects get string keys, or the value is no table.
RECURSIVE NormalizableValue(_)
NormalizableValue(value) == NormalizableWith(value, NormalizableValue)
=============================================================================
