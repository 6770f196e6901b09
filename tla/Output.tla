------------------------------- MODULE Output -------------------------------
(***************************************************************************)
(* What a command shows of a response (cli/formatter.go): whether it is a  *)
(* table, which of the response's arrays becomes the rows, which columns   *)
(* and which of the envelope's other members are shown with them. Cell     *)
(* texts, labels and layout are left out.                                  *)
(***************************************************************************)
EXTENDS Integers, Sequences, FiniteSets, SequencesExt, Values

\* An instance makes these what NormalizedWith and NormalizableWith say of each part.
CONSTANTS
  Normalized(_),    \* a value with all its objects keyed by strings,
  Normalizable(_)   \* and whether it has such a form (NormalizedValues)

-----------------------------------------------------------------------------
(* normalizeTableValue: JSON's objects and YAML's take one form before a   *)
(* table is looked for.                                                    *)

NormalizedWith(value, Inner(_)) ==
  CASE value.kind = "object" -> Object("string", [k \in DOMAIN value.at |-> Inner(value.at[k])])
    [] value.kind = "list"   -> List([i \in DOMAIN value.items |-> Inner(value.items[i])])
    [] OTHER -> value

NormalizableWith(value, Inner(_)) ==
  /\ value.kind = "object" => value.keys # "odd" /\ \A k \in DOMAIN value.at : Inner(value.at[k])
  /\ value.kind = "list" => \A i \in DOMAIN value.items : Inner(value.items[i])

-----------------------------------------------------------------------------
(* Columns.                                                                *)

\* objectField: the exact key, else down the path through objects.
ObjectField(row, column) ==
  LET Down(value, part) ==
        IF value.kind = "object" /\ <<part>> \in DOMAIN value.at THEN value.at[<<part>>] ELSE Missing
  IN  IF column \in DOMAIN row.at THEN row.at[column]
      ELSE IF Len(column) < 2 THEN Missing ELSE FoldLeft(Down, row, column)

\* parseTableProjection: the one part marked [], unless it is the last. 0: none.
ProjectedPart(column) ==
  LET marked == {i \in DOMAIN column : column[i].each}
  IN  IF Cardinality(marked) = 1 /\ Len(column) \notin marked THEN CHOOSE i \in marked : TRUE ELSE 0

Resolved(value, how) == [value |-> value, how |-> how]

\* One array's elements, each at the suffix; a null is there but shows nothing.
Project(items, suffix) ==
  LET children == [i \in DOMAIN items |->
        IF items[i].kind = "object" THEN ObjectField(items[i], suffix) ELSE Missing]
  IN  IF \A i \in DOMAIN children : children[i] = Missing
      THEN Resolved(Null, "unresolved")
      ELSE Resolved(List(SelectSeq(children, LAMBDA c : c.kind \notin {"missing", "null"})), "field")

ProjectArray(value, suffix) ==
  CASE value = Missing -> Resolved(Null, "missing")
    [] value = Null \/ value = List(<<>>) -> Resolved(List(<<>>), "empty")
    [] value.kind = "list" /\ value.items # <<>> -> Project(value.items, suffix)
    [] value.kind \notin {"missing", "null", "list"} -> Resolved(Null, "notArray")

ResolveTableField(row, column) ==
  LET at == ProjectedPart(column)
      prefix == [i \in 1..at |-> Part(column[i].name)]
      plain == ObjectField(row, column)
  IN  IF column \in DOMAIN row.at THEN Resolved(row.at[column], "literal")
      ELSE IF at # 0
      THEN ProjectArray(ObjectField(row, prefix), SubSeq(column, at + 1, Len(column)))
      ELSE IF plain = Missing THEN Resolved(Null, "missing") ELSE Resolved(plain, "field")

\* checkColumns, one column: a field of some row, or of lists that are all empty.
HowResolved(column, rows) == {ResolveTableField(rows[i], column).how : i \in DOMAIN rows}
ColumnFound(how) ==
  how \cap {"field", "literal"} # {} \/ ("empty" \in how /\ "unresolved" \notin how)

CheckColumns(columns, rows) ==
  rows = <<>> \/ \A i \in DOMAIN columns : ColumnFound(HowResolved(columns[i], rows))

Identifiers == <<"id", "key", "name", "display_name", "title", "slug", "type", "status", "state",
  "model", "created", "created_at", "updated", "updated_at">>

\* autoColumns: what is neither null nor an object in some row, identifiers first.
AutoColumns(rows) ==
  LET shown == {k \in UNION {DOMAIN rows[i].at : i \in DOMAIN rows} :
        \E i \in DOMAIN rows : k \in DOMAIN rows[i].at /\ rows[i].at[k].kind \notin {"null", "object"}}
      first == SelectSeq([i \in DOMAIN Identifiers |-> Key(Identifiers[i])], LAMBDA k : k \in shown)
  IN  first \o SetToSeq(shown \ ToSet(first))

\* fitColumns: the first column always, and what follows while it fits.
FitColumns(columns, fitting) ==
  SubSeq(columns, 1, IF fitting < 1 THEN 1 ELSE IF fitting > Len(columns) THEN Len(columns) ELSE fitting)

-----------------------------------------------------------------------------
(* Rows.                                                                   *)

\* objectRowsValue.
IsRows(value, allowEmpty) ==
  /\ value.kind = "list"
  /\ \A i \in DOMAIN value.items : value.items[i].kind = "object"
  /\ allowEmpty \/ value.items # <<>>

HasUnrenderableArray(object) ==
  \E k \in DOMAIN object.at : object.at[k].kind = "list" /\ ~IsRows(object.at[k], TRUE)

\* The code's mark for no key is the empty one.
NoKey == Key("")

SoleObjectArray(arrays) == IF Cardinality(arrays) = 1 THEN CHOOSE k \in arrays : TRUE ELSE NoKey

ConventionalCollectionKeys == <<"items", "data", "results", "records", "entries", "servers">>

\* The conventional names first, in their order, else the only array there is.
Candidate(arrays) ==
  LET Conventional(i) == Key(ConventionalCollectionKeys[i])
      named == {i \in DOMAIN ConventionalCollectionKeys : Conventional(i) \in arrays}
  IN  IF named # {} THEN Conventional(CHOOSE i \in named : \A j \in named : i <= j)
      ELSE SoleObjectArray(arrays)

\* Seeded fault: an empty array is as good as a populated one from the start.
CandidateEvenIfEmpty(object, allowEmpty) ==
  Candidate({k \in DOMAIN object.at : IsRows(object.at[k], TRUE)})

CollectionCandidate(object, allowEmpty) ==
  IF allowEmpty /\ HasUnrenderableArray(object) THEN NoKey
  ELSE Candidate({k \in DOMAIN object.at : IsRows(object.at[k], allowEmpty)})

\* tableRows: the member that holds the rows, populated if any is.
CollectionKey(object) ==
  LET populated == CollectionCandidate(object, FALSE)
  IN  IF populated # NoKey THEN populated ELSE CollectionCandidate(object, TRUE)

NoTable == [rows |-> <<>>, label |-> NoKey, envelope |-> Null, ok |-> FALSE]
RowsOf(rows, label, envelope) == [rows |-> rows, label |-> label, envelope |-> envelope, ok |-> TRUE]

TableRows(data, columns) ==
  IF data.kind = "object"
  THEN LET k == CollectionKey(data)
       IN  IF k = NoKey THEN NoTable ELSE RowsOf(data.at[k].items, k, data)
  ELSE IF IsRows(data, columns # <<>>) THEN RowsOf(data.items, NoKey, Null) ELSE NoTable

-----------------------------------------------------------------------------
(* The line below a table.                                                 *)

PaginationEvidenceKeys == {Key(n) : n \in
  {"has_more", "has_next_page", "next_page_token", "next_page", "next_cursor", "prev_cursor",
   "cursor", "next", "previous", "starting_after", "ending_before",
   "total", "total_count", "total_pages", "count"}}
FooterSuppressedKeys == PaginationEvidenceKeys \union {Key(n) : n \in {"limit", "offset", "page", "per_page"}}

IsEnvelopePlumbing(k, value) ==
  \/ k \in FooterSuppressedKeys
  \/ k \in {Key("object"), Key("kind"), Key("type")} /\ value \in {Text("list"), Text("collection")}

At(object, name) == IF Key(name) \in DOMAIN object.at THEN object.at[Key(name)] ELSE Missing

MoreAvailable(envelope) ==
  \/ \E n \in {"has_more", "has_next_page"} : At(envelope, n) = Truth(TRUE)
  \/ \E n \in {"next_page_token", "next_page", "next_cursor", "cursor", "starting_after"} :
       At(envelope, n).kind = "string" /\ At(envelope, n).text # ""
  \/ At(envelope, "total_pages").kind = "number" /\ At(envelope, "total_pages").value > 1

Total(envelope) ==
  LET given == SelectSeq(<<At(envelope, "total"), At(envelope, "total_count")>>, LAMBDA v : v.kind = "number")
  IN  IF given = <<>> THEN Missing ELSE Head(given)

\* tableFooter: how much there is, and the envelope's other members.
TableFooter(label, envelope) ==
  IF label = NoKey THEN [of |-> Missing, more |-> FALSE, members |-> {}]
  ELSE [of |-> Total(envelope),
        more |-> Total(envelope) = Missing /\ MoreAvailable(envelope),
        members |-> {k \in DOMAIN envelope.at :
                       ~IsRows(envelope.at[k], TRUE) /\ ~IsEnvelopePlumbing(k, envelope.at[k])}]

-----------------------------------------------------------------------------
(* Rendering.                                                              *)

Refusal == [as |-> "error"]
NoResults == [as |-> "noResults"]
NotATable == [as |-> "fallback"]
Table(rows, columns, footer) ==
  [as |-> "table", rows |-> rows, columns |-> columns, footer |-> footer]

RenderRows(found, requested, fitting) ==
  LET columns == IF requested # <<>> THEN requested ELSE AutoColumns(found.rows)
  IN  IF ~CheckColumns(requested, found.rows) THEN Refusal
      ELSE IF columns = <<>> THEN IF found.rows = <<>> THEN NoResults ELSE NotATable
      ELSE Table(found.rows,
                 IF requested # <<>> THEN requested ELSE FitColumns(columns, fitting),
                 TableFooter(found.label, found.envelope))

RenderFound(found, requested, fitting) ==
  IF found.ok THEN RenderRows(found, requested, fitting) ELSE NotATable

RenderTable(data, requested, fitting) ==
  IF Normalizable(data) THEN RenderFound(TableRows(Normalized(data), requested), requested, fitting)
  ELSE NotATable

\* serializationFormat: a table's stand-in is the CLI's configured format.
SerializationFormat(format, configured) == IF format = "table" THEN configured ELSE format

\* --raw prints a string, or a list of scalars line by line.
RawPrintable(data) ==
  \/ data.kind = "string"
  \/ data.kind = "list" /\ \A i \in DOMAIN data.items : data.items[i].kind \notin {"object", "list"}

Serialize(data, how) ==
  [as |-> CASE data = Null -> "json"
            [] data # Null /\ how.raw /\ RawPrintable(data) -> "raw"
            [] OTHER -> SerializationFormat(how.format, how.configured)]

ShouldRenderTable(how) == how.list /\ how.terminal /\ ~how.raw /\ how.format = "table"

OrSerialize(rendered, data, how) == IF rendered = NotATable THEN Serialize(data, how) ELSE rendered

\* format. --columns wins over the operation's own columns, and --jmespath
\* leaves the operation's columns nothing to describe.
Format(data, how) ==
  IF ~ShouldRenderTable(how) THEN Serialize(data, how)
  ELSE IF how.override
  THEN IF how.selected = <<>> THEN Refusal
       ELSE OrSerialize(RenderTable(data, how.selected, how.fitting), data, how)
  ELSE OrSerialize(RenderTable(data, IF how.projected THEN <<>> ELSE how.declared, how.fitting), data, how)
=============================================================================
