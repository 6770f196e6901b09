---------------------------- MODULE MCGenerator ----------------------------
(***************************************************************************)
(* Small instances of Generator: specifications that are generated once,   *)
(* each full of one kind of name, schema or mistake, and two small ones    *)
(* over which commands are run, broken off and repeated.                   *)
(***************************************************************************)
EXTENDS SchemaPromises

N(spelling, words) == [spelling |-> spelling, words |-> words]
W(word) == N(word, <<word>>)

MCSingulars == [users |-> "user", pets |-> "pet", events |-> "event"]
MCReserved == {<<"raw">>, <<"server">>, <<"profile">>, <<"from", "file">>}
MCCollectionKeys == {"data", "items"}
MCPaginationKeys == {"has_more", "next", "total"}
MCMaxDepth == [input |-> 3, output |-> 2]

Kind == W("kind")
Label == W("label")
Id == W("id")
Secret == W("secret")
Parent == W("parent")
Data == W("data")
HasMore == N("has_more", <<"has", "more">>)
Raw == W("raw")
BodyRaw == N("body-raw", <<"body", "raw">>)
FilterBy == N("filterBy", <<"filter", "by">>)
Filter_by == N("filter_by", <<"filter", "by">>)
Server == W("server")
Extra == W("extra")

\* Byte order of the spellings.
MCNameOrder == <<BodyRaw, Data, Extra, FilterBy, Filter_by, HasMore, Id, Kind, Label, Parent, Raw, Secret, Server>>

(***************************************************************************)
(* Schemas.                                                                *)
(***************************************************************************)
Typed(types) == [AnySchema EXCEPT !.types = types]
Choice(values) == [Typed({"string"}) EXCEPT !.enum = values]
Obj(props, required) == [Typed({"object"}) EXCEPT !.props = props, !.required = required]

Nodes == [
  String   |-> Typed({"string"}),
  Int      |-> Typed({"integer"}),
  Number   |-> Typed({"number"}),
  Bool     |-> Typed({"boolean"}),
  NullOnly |-> Typed({"null"}),
  MaybeInt |-> [Typed({"integer"}) EXCEPT !.nullable = TRUE],
  Date     |-> [Typed({"string"}) EXCEPT !.dateTime = TRUE],
  Any      |-> AnySchema,
  A        |-> Choice({"a"}),
  B        |-> Choice({"b"}),
  MaybeA   |-> [Choice({"a"}) EXCEPT !.nullable = TRUE],
  AOrNull  |-> [AnySchema EXCEPT !.anyOf = <<"A", "NullOnly">>],
  StringOrInt |-> [AnySchema EXCEPT !.oneOf = <<"String", "Int">>],
  IntOrBool   |-> [AnySchema EXCEPT !.anyOf = <<"Int", "Bool">>],
  Ints     |-> [Typed({"array"}) EXCEPT !.items = <<"Int">>],
  Pets     |-> [Typed({"array"}) EXCEPT !.items = <<"Pet">>],
  Mixed    |-> [Typed({"array"}) EXCEPT !.items = <<"StringOrInt">>],
  Strings  |-> [Typed({"object"}) EXCEPT !.more = <<"String">>],
  Numbers  |-> [Typed({"object"}) EXCEPT !.more = <<"Int">>],
  Open     |-> [Typed({"object"}) EXCEPT !.moreAllowed = "allowed"],
  Closed   |-> [Obj(Label :> "String", {Label}) EXCEPT !.moreAllowed = "denied"],
  ReadOnly |-> [Typed({"string"}) EXCEPT !.readOnly = TRUE],
  WriteOnly |-> [Typed({"string"}) EXCEPT !.writeOnly = TRUE],
  Ignored  |-> [Typed({"string"}) EXCEPT !.ignored = TRUE],
  Renamed  |-> [Typed({"string"}) EXCEPT !.flag = <<"filter", "by">>],
  \* A record that leads back to itself, with properties of one direction only.
  Pet      |-> Obj(Id :> "ReadOnly" @@ Kind :> "MaybeA" @@ Parent :> "Pet" @@ Secret :> "WriteOnly",
                   {Id, Secret}),
  Page     |-> Obj(Data :> "Pets" @@ HasMore :> "Bool", {}),
  \* Branches that each list their own kinds, or leave one open.
  KindA    |-> Obj(Kind :> "A" @@ Label :> "String", {Kind, Label}),
  KindB    |-> Obj(Kind :> "B", {Kind}),
  KindAny  |-> Obj(Kind :> "String", {Kind}),
  KindNull |-> Obj(Kind :> "AOrNull", {}),
  Union    |-> [Obj(Extra :> "Closed", {}) EXCEPT !.oneOf = <<"KindA", "KindB", "NullOnly">>],
  OpenUnion |-> [Obj(Id :> "Int", {}) EXCEPT !.anyOf = <<"KindA", "KindAny">>],
  NullUnion |-> [Obj(Id :> "Int", {}) EXCEPT !.anyOf = <<"KindNull", "KindB">>],
  Whole    |-> [AnySchema EXCEPT !.allOf = <<"KindA", "Pet">>],
  Clashing |-> Obj(Raw :> "String" @@ BodyRaw :> "Int" @@ FilterBy :> "Any" @@ Filter_by :> "Renamed"
                   @@ Server :> "Ignored", {}),
  Fielded  |-> Obj(Kind :> "AOrNull" @@ Data :> "Ints" @@ Parent :> "Mixed" @@ Extra :> "Strings"
                   @@ Label :> "StringOrInt" @@ Id :> "IntOrBool" @@ Raw :> "Open" @@ Secret :> "Date"
                   @@ Server :> "Numbers" @@ HasMore :> "MaybeInt", {})]

MCGraph == [n \in DOMAIN Nodes |-> [Nodes[n] EXCEPT !.id = n]]

(***************************************************************************)
(* Values tried of a schema: choices for each field, one of which may be to*)
(* leave it out.                                                           *)
(***************************************************************************)
NoValue == Scalar("none", "")
Text(t) == Scalar("string", t)
One == Scalar("integer", "1")

Objects(choices) ==
  {Object([f \in {g \in DOMAIN c : c[g] # NoValue} |-> c[f]]) :
     c \in {d \in [DOMAIN choices -> UNION Range(choices)] : \A f \in DOMAIN choices : d[f] \in choices[f]}}

Kinds == {Text("a"), Text("b"), Text("c"), Null, NoValue}
SmallPets ==
  Objects(Id :> {NoValue, Text("x")} @@ Kind :> {NoValue, Text("a"), Null} @@ Secret :> {NoValue, Text("x")})
SomePets ==
  SmallPets \union
  Objects(Id :> {NoValue, Text("x")} @@ Kind :> {Text("a"), Null} @@ Secret :> {NoValue, Text("x")}
          @@ Parent :> SmallPets)
Labels == Objects(Label :> {NoValue, Text("x"), One} @@ Extra :> {NoValue, One})
Unions == Objects(Kind :> Kinds @@ Label :> {NoValue, Text("x"), One} @@ Id :> {NoValue, One}) \union
          Objects(Kind :> Kinds @@ Extra :> Labels)
Lists == {Array(<<>>), Array(<<One>>), Array(<<Text("x"), One>>)}

MCValues(n) ==
  CASE n \in {"Pet"} -> SomePets
    [] n = "Page" -> Objects(Data :> {NoValue, Null, Array(<<Object(<<>>)>>)} \union {Array(<<p>>) : p \in SmallPets})
                     \union {Object(Data :> Array(<<p>>)) : p \in SomePets}
    [] n \in {"Union", "OpenUnion", "NullUnion", "Whole"} -> Unions \union {Null}
    [] n = "Pets" -> {Array(<<p>>) : p \in SmallPets} \union {Null}
    [] n = "Clashing" -> Objects(Raw :> {NoValue, Text("x")} @@ BodyRaw :> {NoValue, One})
    [] n = "Fielded" ->
         Objects(Kind :> {Text("a"), Null} @@ Data :> Lists @@ Extra :> Labels) \union
         Objects(Parent :> Lists @@ Id :> {One, NoValue} @@ HasMore :> {One, Null, NoValue})
    [] OTHER -> Lists \union {Null, One, Text("a"), Text("x"), Object(<<>>)}

\* Meaning goes down to the parts of a value.
RECURSIVE MCDeclares(_, _, _)
RECURSIVE MCAccepts(_, _)
MCDeclares(n, mode, v) == DeclaredWith(Graph[n], mode, v, MCDeclares)
MCAccepts(json, v) == AcceptedWith(json, v, MCAccepts)

ASSUME UnionsAgree /\ NullComesFirst /\ DirectionsAgree

MCProbes == [n \in DOMAIN Nodes |-> MCValues(n)]

(***************************************************************************)
(* Specifications.                                                         *)
(***************************************************************************)
S(word) == [kind |-> "static", name |-> W(word)]
P(word) == [kind |-> "param", name |-> W(word)]
Opens(word) == [kind |-> "opens", name |-> W(word)]

Json(node) == <<[AnyContent EXCEPT !.schema = <<node>>]>>
Media(media) == <<[AnyContent EXCEPT !.media = media]>>

Get == AnyOperation
Post(body) == [AnyOperation EXCEPT !.method = "post", !.hasBody = TRUE, !.body = Json(body), !.bodyRequired = TRUE]
Path(segments, operations) == [AnyPath EXCEPT !.path = segments, !.operations = operations]
PathParam(n) == [AnyParam EXCEPT !.name = n, !.in = "path", !.required = TRUE]
Query(n) == [AnyParam EXCEPT !.name = n]
Header(n) == [AnyParam EXCEPT !.name = n, !.in = "header"]

Doc(paths) == [paths |-> paths, tagNames |-> <<>>, waiters |-> <<>>]

\* Names taken from paths, identifiers, tags and extensions.
NamesDoc ==
  [Doc(<<
     Path(<<S("v1"), S("users")>>,
          <<[Get EXCEPT !.id = N("listUsers", <<"list", "users">>)],
            [Post("Pet") EXCEPT !.id = N("createUser", <<"create", "user">>)]>>),
     [Path(<<S("v1"), S("users"), P("id")>>,
           <<[Get EXCEPT !.id = N("users.find", <<"users", "find">>)],
             [Get EXCEPT !.method = "delete"],
             [Post("Any") EXCEPT !.method = "patch", !.id = N("users_v2", <<"users", "v2", "set">>)]>>)
        EXCEPT !.params = <<PathParam(Id)>>],
     Path(<<S("users"), S("search")>>, <<[Post("Any") EXCEPT !.id = N("getV1", <<"get", "v1">>)]>>),
     Path(<<S("users"), P("id"), S("cancel")>>, <<[Post("Any") EXCEPT !.id = W("id")]>>),
     Path(<<S("events")>>, <<[Get EXCEPT !.tags = <<W("users")>>, !.id = N("get-all", <<"get", "all", "events">>)]>>),
     Path(<<S("events"), Opens("id")>>,
          <<[Get EXCEPT !.group = W("pets"), !.id = N("find-one", <<"find", "one">>)],
            [Get EXCEPT !.method = "put", !.name = W("replace")]>>)>>)
   EXCEPT !.tagNames = W("users") :> W("people")]

\* Tools whose cut and numbered names run into each other; MaxName is 3 words.
Tool(words) == [Get EXCEPT !.name = N("op", words)]
ToolsDoc ==
  Doc(<<Path(<<S("a")>>, <<Tool(<<"b", "c">>), Tool(<<"b", "c", "d">>), Tool(<<"b", "2">>),
                           Tool(<<"b", "c", "e">>), Tool(<<"b", "2">>)>>),
        Path(<<>>, <<Tool(<<"a", "b", "3">>), Tool(<<"mcp">>)>>)>>)

\* Flags that meet reserved ones, each other, and those of other sources.
FlagsDoc ==
  Doc(<<[Path(<<S("pets")>>,
             <<[Post("Clashing") EXCEPT !.params = <<Query(Raw), Header(Raw), Query(Filter_by), Query(Server)>>],
               [Get EXCEPT !.params = <<Query(Server), Header(Server), [Query(Extra) EXCEPT !.flag = <<"server">>],
                                        [Query(Kind) EXCEPT !.ignored = TRUE],
                                        [Query(Secret) EXCEPT !.in = "cookie"]>>]>>)
          EXCEPT !.params = <<Header(Label)>>],
        [Path(<<S("pets"), P("id")>>, <<[Post("Fielded") EXCEPT !.method = "put"]>>)
          EXCEPT !.params = <<PathParam(Id), Query(BodyRaw)>>]>>)

\* Bodies and results of every shape.
SchemaDoc(input, output) ==
  Doc(<<Path(<<S("events")>>, <<[Post(input) EXCEPT !.responses = Json(output)]>>)>>)

\* What is ignored, excluded, streamed, uploaded or hidden.
ExcludedDoc ==
  Doc(<<[Path(<<S("users")>>, <<Get>>) EXCEPT !.ignored = TRUE],
        [Path(<<S("events")>>, <<[Get EXCEPT !.tags = <<W("events")>>]>>) EXCEPT !.cliIgnored = TRUE, !.hidden = "yes"],
        Path(<<S("pets")>>,
             <<[Get EXCEPT !.ignored = TRUE], [Get EXCEPT !.mcpIgnored = TRUE], [Get EXCEPT !.deprecated = TRUE],
               [Get EXCEPT !.cliIgnored = TRUE, !.hidden = "no"], [Get EXCEPT !.list = "yes"],
               [Get EXCEPT !.list = "no", !.responses = Json("Page")],
               [Get EXCEPT !.listFields = <<Id>>, !.responses = <<[AnyContent EXCEPT !.example = "object"]>>],
               [Get EXCEPT !.responses = Media("text/event-stream")],
               [Post("Page") EXCEPT !.body = Media("multipart/form-data")],
               [Post("Page") EXCEPT !.body = Media("application/yaml"), !.responses = Json("Page")],
               [Post("Ints") EXCEPT !.responses = <<[AnyContent EXCEPT !.code = 2, !.schema = <<"Pets">>]>>]>>)>>)

ContradictedDoc == Doc(<<Path(<<S("pets")>>, <<Get, [Get EXCEPT !.list = "no", !.listFields = <<Id>>]>>)>>)

\* Waiters: after an operation whose parameters they supply, or do not.
WaiterDoc(selectors) ==
  [Doc(<<[Path(<<S("pets"), P("id")>>, <<[Get EXCEPT !.id = W("getPet"), !.params = <<Query(Kind)>>]>>)
           EXCEPT !.params = <<PathParam(Id)>>],
         Path(<<S("pets")>>, <<[Post("Pet") EXCEPT !.id = W("createPet")]>>)>>)
   EXCEPT !.waiters = <<[name |-> W("ready"), operation |-> W("getPet"),
                         after |-> W("getPet") :> selectors],
                        [name |-> W("gone"), operation |-> W("getPet"), after |-> <<>>]>>]

\* Parameters of one name in two places, as arguments and as flags.
TwoPlacesDoc(path) ==
  [Doc(<<[Path(<<S("pets"), P("id")>>,
               <<[Get EXCEPT !.id = W("getPet"),
                             !.params = <<[Query(Id) EXCEPT !.required = path], Query(Kind), Header(Kind)>>]>>)
           EXCEPT !.params = <<PathParam(Id)>>]>>)
   EXCEPT !.waiters = <<[name |-> W("ready"), operation |-> W("getPet"), after |-> W("getPet") :> {Id, Kind}]>>]

LostWaiterDoc ==
  [Doc(<<Path(<<S("pets")>>, <<Get>>)>>)
   EXCEPT !.waiters = <<[name |-> W("gone"), operation |-> W("nowhere"), after |-> <<>>]>>]

\* Small ones: a group and a tool; a command of the root and none.
PetsDoc == Doc(<<Path(<<S("pets")>>, <<Get>>)>>)
ShopDoc == Doc(<<Path(<<>>, <<[Get EXCEPT !.deprecated = TRUE]>>),
                 [Path(<<S("users")>>, <<Get>>) EXCEPT !.cliIgnored = TRUE]>>)

(***************************************************************************)
(* Workspaces.                                                             *)
(***************************************************************************)
Pet_s == <<"pets">>
Shop_s == <<"shop">>
MCSpecs == {Pet_s, Shop_s}
MCNoSpec == <<>>

Bodies == {"Pet", "Union", "OpenUnion", "NullUnion", "Whole", "Fielded", "Pets", "Any", "StringOrInt"}
Results == {"Pet", "Page", "Union", "MaybeA", "AOrNull", "Strings"}

OnceDocs ==
  {NamesDoc, ToolsDoc, FlagsDoc, ExcludedDoc, ContradictedDoc, LostWaiterDoc,
   WaiterDoc({Id}), WaiterDoc({Id, Kind}), WaiterDoc({Kind}), WaiterDoc({Id, Secret}),
   TwoPlacesDoc(TRUE), TwoPlacesDoc(FALSE)}
  \union {SchemaDoc(i, o) : i \in Bodies, o \in Results}

Once(document) ==
  [docs |-> Pet_s :> document, commands |-> 1, edits |-> 0, faults |-> FALSE]

Work(commands, edited, faults) ==
  [docs |-> Pet_s :> PetsDoc @@ Shop_s :> ShopDoc, commands |-> commands, edits |-> edited, faults |-> faults]

MCWorkspaces ==
  {Once(d) : d \in OnceDocs} \union {Work(2, 1, TRUE), Work(3, 0, TRUE)}

\* What the two small ones and the tool names give; GeneratorSpec processes its own.
MCApis == {[groups |-> <<<<"pets">>>>, tools |-> TRUE], [groups |-> <<>>, tools |-> TRUE]}
MCToolLists == {<<<<"a", "b", "c">>, <<"a", "b", "2">>>>}
=============================================================================
