----------------------------- MODULE ApiBuilder -----------------------------
(***************************************************************************)
(* ProcessAPI (main.go): a loaded OpenAPI document becomes the commands,   *)
(* client functions, MCP tools and waiters of a project. Paths are taken in*)
(* order and their operations in method order; then the tools are named and*)
(* the waiters attached. What cannot be generated panics.                  *)
(***************************************************************************)
EXTENDS Schemas, ToolNames

CONSTANTS
  Nothing,          \* no document is being processed
  CollectionKeys,   \* ConventionalCollectionKeys
  PaginationKeys    \* PaginationEvidenceKeys

(***************************************************************************)
(* Documents. An extension that is not there is NoName, "unset" or <<>>.   *)
(***************************************************************************)
AnyOperation ==
  [method |-> "get", id |-> NoName, name |-> NoName, group |-> NoName, tags |-> <<>>,
   ignored |-> FALSE, cliIgnored |-> FALSE, mcpIgnored |-> FALSE, deprecated |-> FALSE,
   hidden |-> "unset", list |-> "unset", listFields |-> <<>>, params |-> <<>>,
   body |-> <<>>, bodyRequired |-> FALSE, hasBody |-> FALSE, responses |-> <<>>]

AnyPath ==
  [path |-> <<>>, ignored |-> FALSE, cliIgnored |-> FALSE, hidden |-> "no",
   params |-> <<>>, operations |-> <<>>]

AnyParam == [name |-> NoName, in |-> "query", required |-> FALSE, ignored |-> FALSE, flag |-> <<>>]

\* Content is a sequence of these, in media type order; 2 stands for the 2XX range.
AnyContent == [code |-> 200, media |-> "application/json", schema |-> <<>>, example |-> "none"]

VARIABLES
  doc,     \* the document being processed
  phase,   \* where ProcessAPI is
  at,      \* the path and operation it looks at
  ops,     \* the operations built so far
  waiters  \* the waiters wired so far

builderVars == <<doc, phase, at, ops, waiters, toolNameVars>>

BuilderInit ==
  /\ doc = Nothing
  /\ phase = "idle"
  /\ at = <<1, 1>>
  /\ ops = <<>>
  /\ waiters = 0
  /\ ToolNamesInit

\* The process that held the document ends.
Forget ==
  /\ doc' = Nothing
  /\ phase' = "idle"
  /\ at' = <<1, 1>>
  /\ ops' = <<>>
  /\ waiters' = 0
  /\ bases' = <<>> /\ named' = <<>> /\ seen' = {} /\ counter' = <<>> /\ candidate' = <<>>

(***************************************************************************)
(* Media types and responses.                                              *)
(***************************************************************************)
MentionsJson(media) == media \in {"application/json", "application/hal+json", "application/x-ndjson"}
IsJSONMediaType(media) == media \in {"application/json", "application/hal+json"}
IsEventStream(media) == media = "text/event-stream"
IsUpload(media) == media \in {"multipart/form-data", "application/octet-stream"}

\* An exact 2xx code; only the tool side also counts the 2XX range.
IsSuccess(content) == content.code \in 200 .. 299
IsSuccessCode(content) == IsSuccess(content) \/ content.code = 2

Success(op) == Only(op.responses, {c \in ToSet(op.responses) : IsSuccess(c)})

PropertyNamed(schema, keys) ==
  {schema.props[name] : name \in {n \in DOMAIN schema.props : n.spelling \in keys}}

IsCollectionResponse(op) ==
  \E c \in ToSet(Success(op)) :
    \/ c.example = "array"
    \/ /\ c.schema # <<>>
       /\ \/ Graph[c.schema[1]].items # <<>>
          \/ \E n \in Range(Graph[c.schema[1]].props) : Graph[n].items # <<>>

HoldsObjects(schema) ==
  schema.items # <<>> /\ (Is(Graph[schema.items[1]], "object") \/ Graph[schema.items[1]].props # <<>>)

IsPaginatedCollectionResponse(op) ==
  \E c \in ToSet(Success(op)) :
    /\ IsJSONMediaType(c.media) /\ c.schema # <<>>
    /\ \E n \in PropertyNamed(Graph[c.schema[1]], CollectionKeys) : HoldsObjects(Graph[n])
    /\ PropertyNamed(Graph[c.schema[1]], PaginationKeys) # {}

IsInferredList(path, op) ==
  \/ op.method = "get" /\ (IsCollectionPath(path) \/ IsCollectionResponse(op))
  \/ IsPaginatedCollectionResponse(op)

\* Columns with x-bartolo-list: false contradict each other: generation panics.
ListContradicted(op) == op.list = "no" /\ op.listFields # <<>>

ClassifyList(path, op) ==
  op.list # "no" /\ (op.listFields # <<>> \/ op.list = "yes" \/ IsInferredList(path, op))

OperationReturnType(op) ==
  IF \E c \in ToSet(Success(op)) :
       \/ c.example = "object"
       \/ c.schema # <<>> /\ (Is(Graph[c.schema[1]], "object") \/ Graph[c.schema[1]].props # <<>>)
  THEN "map" ELSE "any"

(***************************************************************************)
(* Parameters and the request body of a command.                           *)
(***************************************************************************)
\* The path's parameters, then the operation's own: one does not replace the other.
GetParams(item, op) ==
  LET Param(p) == [name |-> p.name, in |-> p.in, required |-> p.required \/ p.in = "path",
                   flag |-> IF p.flag # <<>> THEN p.flag ELSE Slug(p.name)]
      all    == item.params \o op.params
      usable == Only(all, {p \in ToSet(all) : ~p.ignored})
  IN  [i \in 1 .. Len(usable) |-> Param(usable[i])]

GetRequiredParams(params) == Only(params, {p \in ToSet(params) : p.required})
GetOptionalParams(params) == Only(params, {p \in ToSet(params) : ~p.required})

\* The body the command sends: JSON, else YAML, else the first media type.
GetRequestInfo(op) ==
  LET json == Only(op.body, {c \in ToSet(op.body) : MentionsJson(c.media)})
      yaml == Only(op.body, {c \in ToSet(op.body) : c.media = "application/yaml"})
  IN  IF op.body = <<>> THEN <<>>
      ELSE IF json # <<>> THEN <<json[1]>>
      ELSE IF yaml # <<>> THEN <<yaml[1]>>
      ELSE <<op.body[1]>>

RequestSchema(op) == IF GetRequestInfo(op) = <<>> THEN <<>> ELSE GetRequestInfo(op)[1].schema
RequestFields(op) == IF RequestSchema(op) = <<>> THEN <<>> ELSE BodyFields(RequestSchema(op)[1])

FlagsOf(sources) == [i \in 1 .. Len(sources) |-> sources[i].flag]
Reflagged(sources, flags) == [i \in 1 .. Len(sources) |-> [sources[i] EXCEPT !.flag = flags[i]]]

\* The number is tried until the Go name is free.
UniqueGoName(name, used) ==
  LET Numbered(n) == GoName(name) \o Number(n)
      free == {n \in 2 .. Cardinality(used) + 2 : Numbered(n) \notin used}
  IN  IF GoName(name) \notin used THEN GoName(name)
      ELSE Numbered(CHOOSE n \in free : \A k \in free : n <= k)

(***************************************************************************)
(* The tool of an operation (mcpschema.go).                                *)
(***************************************************************************)
Key(p) == <<p.in, p.name>>

\* Here an operation's parameter replaces the path's of the same name and place.
McpParams(item, op) ==
  LET own == {Key(p) : p \in ToSet(op.params)}
  IN  Only(item.params, {p \in ToSet(item.params) : ~p.ignored /\ Key(p) \notin own}) \o
      Only(op.params, {p \in ToSet(op.params) : ~p.ignored})

\* Seeded fault: parameters of one name in two places share a flag.
FlagByName(optional, p) ==
  LET same == Only(optional, {o \in ToSet(optional) : o.name = p.name})
  IN  IF same = <<>> THEN <<>> ELSE Last(same).flag

FlagFor(optional, p) ==
  LET same == Only(optional, {o \in ToSet(optional) : Key(o) = Key(p)})
  IN  IF same = <<>> THEN <<>> ELSE Last(same).flag

\* An argument asks for its slug; cookies, and optional parameters that no flag
\* sends, have none.
ParamRoute(optional, p) ==
  LET required == p.required \/ p.in = "path"
  IN  [arg |-> Slug(p.name), name |-> p.name, in |-> p.in, flag |-> FlagFor(optional, p),
       positional |-> required, required |-> required]

AddParams(params, optional) ==
  LET Added(p) == LET route == ParamRoute(optional, p)
                  IN  p.in # "cookie" /\ (route.required \/ route.flag # <<>>) /\ route.arg # <<>>
      added == Only(params, {p \in ToSet(params) : Added(p)})
  IN  [i \in 1 .. Len(added) |-> ParamRoute(optional, added[i])]

FirstJSONSchema(content) ==
  LET json == Only(content, {c \in ToSet(content) : MentionsJson(c.media) /\ c.schema # <<>>})
  IN  IF json = <<>> THEN <<>> ELSE json[1].schema

BodyRoute == [arg |-> <<>>, name |-> NoName, in |-> "body", flag |-> <<>>,
              positional |-> FALSE, required |-> FALSE]

\* An object's properties are arguments of their own, any other body is one.
AddProperties(merged) ==
  LET fields == Sorted({name \in DOMAIN merged.props : ~merged.props[name].readOnly /\ Slug(name) # <<>>})
  IN  [i \in 1 .. Len(fields) |->
         [BodyRoute EXCEPT !.arg = Slug(fields[i]), !.name = fields[i],
                           !.required = fields[i] \in merged.required]]

AddBody(op) ==
  LET schema == FirstJSONSchema(op.body)
  IN  IF schema # <<>> /\ McpBodyIsObject(schema[1]) THEN AddProperties(Merged[schema[1]])
      ELSE IF \E c \in ToSet(op.body) : MentionsJson(c.media)
        THEN <<[BodyRoute EXCEPT !.arg = <<"body">>, !.required = op.bodyRequired]>>
      ELSE <<>>

\* The arguments take their names in order.
ClaimArguments(routes) ==
  LET names == ClaimAll([i \in 1 .. Len(routes) |->
                           [first |-> routes[i].arg, prefix |-> routes[i].in, name |-> routes[i].arg]])
  IN  [i \in 1 .. Len(routes) |-> [routes[i] EXCEPT !.arg = names[i]]]

\* The input schema takes the arguments and nothing else; of a body that is an
\* object, each field whose schema is merged and is told here by its own name.
InputSchema(routes, n) ==
  LET sent == {r \in ToSet(routes) : r.in = "body"}
  IN  [Truncated(AnySchema) EXCEPT
         !.types = {"object"}, !.closed = TRUE,
         !.props = [name \in {r.name : r \in sent} |-> ConvertSchema(Merged[n].props[name], "input")],
         !.required = {r.name : r \in {q \in sent : q.required}}]

McpExcluded(op) ==
  LET success == SelectSeq(op.responses, IsSuccessCode)
  IN  \/ op.mcpIgnored
      \/ success # <<>> /\ \A c \in ToSet(success) : IsEventStream(c.media)
      \/ op.body # <<>> /\ \A c \in ToSet(op.body) : IsUpload(c.media)
      \/ op.deprecated

\* The first success response with a JSON schema, exact codes before the range.
McpResponseSchema(op) ==
  LET ranged == Only(op.responses, {c \in ToSet(op.responses) : c.code = 2})
  IN  FirstJSONSchema(Success(op) \o ranged)

McpToolName(group, leaf) ==
  SanitizeToolName((IF group = <<"mcp">> THEN <<"mcp", "group">> ELSE group) \o leaf)

BuildMCPTool(item, op, group, leaf, optional) ==
  LET output == McpResponseSchema(op)
  IN  [name        |-> McpToolName(group, leaf),
       excluded    |-> McpExcluded(op),
       readOnly    |-> op.method \in {"get", "head"},
       destructive |-> op.method \in {"put", "patch", "delete"},
       idempotent  |-> op.method \in {"get", "head", "put", "delete"},
       routes      |-> ClaimArguments(AddParams(McpParams(item, op), optional) \o AddBody(op)),
       input       |-> FirstJSONSchema(op.body),
       output      |-> output,
       wraps       |-> output # <<>> /\ McpOutputSchema(output[1]).wrap]

(***************************************************************************)
(* The documents a loader returns, as far as names go: they are words, and *)
(* parameters are in a known place.                                        *)
(***************************************************************************)
Param ==
  [name : Name, in : {"path", "query", "header", "cookie"}, required : BOOLEAN,
   ignored : BOOLEAN, flag : Seq(Word)]

IsContent(content) ==
  /\ content \in Seq(ToSet(content))
  /\ \A c \in ToSet(content) : c.schema = <<>> \/ c.schema \in {<<n>> : n \in Node}

IsOperation(op) ==
  /\ op.method \in Word
  /\ IsContent(op.body) /\ IsContent(op.responses)
  /\ {op.id, op.name, op.group} \subseteq Name /\ op.tags \in Seq(Name)
  /\ op.params \in Seq(Param)
  /\ \A field \in ToSet(RequestFields(op)) : field.flag \in Seq(Word)

IsDocument(document) ==
  /\ \A tag \in DOMAIN document.tagNames : document.tagNames[tag] \in Name
  /\ \A i \in 1 .. Len(document.paths) :
       LET item == document.paths[i]
       IN  /\ item.path \in Seq(Segment) /\ item.params \in Seq(Param)
           /\ \A j \in 1 .. Len(item.operations) : IsOperation(item.operations[j])

(***************************************************************************)
(* The walk.                                                               *)
(***************************************************************************)
Load(document) ==
  /\ phase = "idle"
  /\ doc' = document
  /\ phase' = "paths"
  /\ at' = <<1, 1>>
  /\ ops' = <<>>
  /\ waiters' = 0
  /\ CollectTools(<<>>)

AtPath == phase = "paths" /\ at[1] <= Len(doc.paths)
Item == doc.paths[at[1]]
Current == Item.operations[at[2]]
AtOperation == AtPath /\ ~Item.ignored /\ at[2] <= Len(Item.operations)

\* An ignored path contributes nothing; a path that is done makes way.
NextPath ==
  /\ AtPath /\ ~AtOperation
  /\ at' = <<at[1] + 1, 1>>
  /\ UNCHANGED <<doc, phase, ops, waiters, toolNameVars>>

IgnoreOperation ==
  /\ AtOperation /\ Current.ignored
  /\ at' = <<at[1], at[2] + 1>>
  /\ UNCHANGED <<doc, phase, ops, waiters, toolNameVars>>

OperationWithFields(item, op, fields) ==
  LET name     == OperationName(op.method, item.path, op.id)
      explicit == op.name # NoName
      leafName == IF explicit THEN Slug(op.name) ELSE Slug(name)
      group    == ResolveCommandGroup(item.path, op.group, op.tags, doc.tagNames)
      leaf     == IF group = <<>> THEN leafName
                  ELSE GroupedLeaf(leafName, op.method, item.path, group, explicit)
      params   == GetParams(item, op)
      flags    == ReserveGeneratedFlagNames(FlagsOf(fields), FlagsOf(GetOptionalParams(params)))
      optional == Reflagged(GetOptionalParams(params), SubSeq(flags, Len(fields) + 1, Len(flags)))
  IN  [id          |-> op.id,
       goName      |-> UniqueGoName(name, {o.goName : o \in ToSet(ops)}),
       group       |-> group,
       leaf        |-> leaf,
       required    |-> GetRequiredParams(params),
       optional    |-> optional,
       fields      |-> Reflagged(fields, SubSeq(flags, 1, Len(fields))),
       hasBody     |-> op.hasBody,
       schema      |-> RequestSchema(op),
       returns     |-> OperationReturnType(op),
       isList      |-> ClassifyList(item.path, op),
       hidden      |-> IF op.hidden = "unset" THEN item.hidden ELSE op.hidden,
       cliExcluded |-> item.cliIgnored \/ op.cliIgnored,
       tool        |-> BuildMCPTool(item, op, group, leaf, optional),
       waits       |-> <<>>,
       needsResponse |-> FALSE]

BuildOperation(item, op) == OperationWithFields(item, op, RequestFields(op))

AddOperation ==
  /\ AtOperation /\ ~Current.ignored /\ ~ListContradicted(Current)
  /\ ops' = Append(ops, BuildOperation(Item, Current))
  /\ at' = <<at[1], at[2] + 1>>
  /\ UNCHANGED <<doc, phase, waiters, toolNameVars>>

PanicOnList ==
  /\ AtOperation /\ ~Current.ignored /\ ListContradicted(Current)
  /\ phase' = "panicked"
  /\ UNCHANGED <<doc, at, ops, waiters, toolNameVars>>

Included == Only(ops, {o \in ToSet(ops) : ~o.tool.excluded})

\* The operations come in path and method order: the order tools are named in.
StartNaming ==
  /\ phase = "paths" /\ ~AtPath
  /\ CollectTools([i \in 1 .. Len(Included) |-> Included[i].tool.name])
  /\ phase' = "naming"
  /\ UNCHANGED <<doc, at, ops, waiters>>

NameTool ==
  /\ phase = "naming"
  /\ AssignToolNames
  /\ UNCHANGED <<doc, phase, at, ops, waiters>>

(***************************************************************************)
(* Waiters, in name order. A waiter polls an operation, and may run after  *)
(* others whose required parameters its selectors must all supply.         *)
(***************************************************************************)
Waiter == doc.waiters[waiters + 1]
AtWaiter == phase = "naming" /\ ~Naming /\ waiters < Len(doc.waiters)

HasOperation(id) == \E o \in ToSet(ops) : o.id = id
OperationWith(id) == CHOOSE i \in 1 .. Len(ops) : ops[i].id = id /\ \A j \in i + 1 .. Len(ops) : ops[j].id # id

\* A required parameter takes the selector of its name, and a second one of that
\* name finds none; the selectors left are flags.
Remaining(o, selectors) == selectors \ {p.name : p \in ToSet(o.required)}
Optional(o, name) == Only(o.optional, {p \in ToSet(o.optional) : p.name = name})

Selected(o, selectors) ==
  /\ \A p \in ToSet(o.required) : p.name \in selectors
  /\ IsInjective([i \in 1 .. Len(o.required) |-> o.required[i].name])
  /\ \A name \in Remaining(o, selectors) : Optional(o, name) # <<>>

Wirable(w) ==
  /\ HasOperation(w.operation)
  /\ \A id \in DOMAIN w.after : HasOperation(id) /\ Selected(ops[OperationWith(id)], w.after[id])

Wired(o, w, selectors) ==
  [o EXCEPT !.waits = Append(@, [waiter |-> w.name,
                                 args   |-> Len(o.required),
                                 flags  |-> {Optional(o, name)[1].flag : name \in Remaining(o, selectors)}]),
            !.needsResponse = @ \/ o.required # <<>>]

AddWaiter ==
  /\ AtWaiter /\ Wirable(Waiter)
  /\ ops' = [i \in 1 .. Len(ops) |->
               IF \E id \in DOMAIN Waiter.after : OperationWith(id) = i
               THEN Wired(ops[i], Waiter, Waiter.after[ops[i].id])
               ELSE ops[i]]
  /\ waiters' = waiters + 1
  /\ UNCHANGED <<doc, phase, at, toolNameVars>>

PanicOnWaiter ==
  /\ AtWaiter /\ ~Wirable(Waiter)
  /\ phase' = "panicked"
  /\ UNCHANGED <<doc, at, ops, waiters, toolNameVars>>

FinishApi ==
  /\ phase = "naming" /\ ~Naming /\ ~AtWaiter
  /\ phase' = "built"
  /\ UNCHANGED <<doc, at, ops, waiters, toolNameVars>>

Process ==
  \/ NextPath \/ IgnoreOperation \/ AddOperation \/ PanicOnList
  \/ StartNaming \/ NameTool
  \/ AddWaiter \/ PanicOnWaiter \/ FinishApi

(***************************************************************************)
(* What the files of the project are made from.                            *)
(***************************************************************************)
CliVisible == SelectSeq(ops, LAMBDA o : ~o.cliExcluded)
CommandGroups == {o.group : o \in ToSet(CliVisible)} \ {<<>>}

\* The flags of a command's fields and parameters have names of their own, and
\* none hides a global flag: a second one of that name stops the CLI at its
\* start with a panic of pflag (main.go reserveGeneratedFlagNames). It says nothing
\* of the flags of its waiters: those are registered beside them unreserved, so
\* that a parameter `wait-ready` and a waiter `ready` do stop the CLI, though
\* main.go:1741 speaks of every flag on the same command.
FieldFlagsAreDistinct ==
  \A o \in ToSet(ops) :
    LET flags == FlagsOf(o.fields) \o FlagsOf(o.optional)
    IN  IsInjective(flags) /\ ToSet(flags) \intersect ReservedFlags = {}

\* An argument of a tool is sent as the parameter it stands for: its flag is the
\* one the client function reads for that name and place, a positional argument
\* is one the function takes, and no two arguments share a name
\* (mcpschema.go mcpInputBuilder).
ArgumentsReachParameters ==
  \A o \in ToSet(ops) :
    LET routes == o.tool.routes
    IN  /\ IsInjective([i \in 1 .. Len(routes) |-> routes[i].arg])
        /\ \A r \in ToSet(routes) : r.in # "body" =>
             IF r.positional THEN \E p \in ToSet(o.required) : Key(p) = Key(r)
             ELSE {Key(p) : p \in {q \in ToSet(o.optional) : q.flag = r.flag}} = {Key(r)}
=============================================================================
