----------------------------- MODULE CliOutput -----------------------------
(***************************************************************************)
(* The invocations of CliSettings with the formatter of Output: what of a  *)
(* response, or of a command's report, reaches the terminal.               *)
(***************************************************************************)
EXTENDS CliSettings, Output

\* No response has an empty key: the code takes one for the mark of no key.
KeysNamed(value) == value.kind = "object" => NoKey \notin DOMAIN value.at

ASSUME ResponsesAssumption == \A l \in Launches : KeysNamed(l.cmd.data)

\* The arrays of objects among an envelope's members that hold any.
Populated(data) == {k \in DOMAIN data.at : IsRows(data.at[k], FALSE)}

NamedConventionally(k) ==
  \E i \in DOMAIN ConventionalCollectionKeys : k = Key(ConventionalCollectionKeys[i])

\* Two arrays of objects are populated and none has a conventional name.
Ambiguous(data) ==
  /\ \E k1, k2 \in Populated(data) : k1 # k2
  /\ \A k \in Populated(data) : ~NamedConventionally(k)

AsTable(printed) == printed.as \in {"table", "noResults"}
RowsShown(printed) == IF printed.as = "table" THEN printed.rows ELSE <<>>

Arrays(data) == {k \in DOMAIN data.at : data.at[k].kind = "list"}
NothingInThem(data) == \A k \in Arrays(data) : data.at[k].items = <<>>

\* One response, shown one way.
ShowsCollection(response, how) ==
  LET printed == Format(response, how)
      data == Normalized(response)
      rows == RowsShown(printed)
  IN  AsTable(printed) =>
      /\ how.terminal /\ ~how.raw
      /\ IF data.kind = "list" THEN rows = data.items
         ELSE /\ \E k \in Arrays(data) : data.at[k].items = rows
              /\ rows = <<>> => NothingInThem(data) \/ Ambiguous(data)
              /\ printed.as = "table" =>
                   \A k \in DOMAIN data.at :
                     \/ k \in printed.footer.members
                     \/ IsRows(data.at[k], TRUE)
                     \/ IsEnvelopePlumbing(k, data.at[k])

(***************************************************************************)
(* A table is for a terminal, and shows one collection: its rows are the   *)
(* whole of the response or of one of its arrays; an envelope with data in *)
(* an array is reported empty only if it is ambiguous; and beside a table, *)
(* whatever is no array of objects and no paging is below it (renderTable, *)
(* tableRows, tableFooter). It has to leave two things out. Of two         *)
(* populated arrays without a conventional name none wins, and beside an   *)
(* empty `data` the table reports no results, though formatter.go:819 says *)
(* that a populated array always wins. And another array of objects than   *)
(* the rows is shown nowhere, though formatter.go:639 has the footer hold  *)
(* whatever else there is.                                                 *)
(***************************************************************************)
CollectionShown == shown # Nothing => ShowsCollection(shown.data, shown.how)
=============================================================================
