----------------------------- MODULE MCMcpServer -----------------------------
(***************************************************************************)
(* Small instances of McpServer: three generated operations and a custom   *)
(* tool under every mix of options and flags, and two concurrent calls     *)
(* under every mode.                                                       *)
(***************************************************************************)
EXTENDS McpServer

CONSTANTS list, get, delete, custom, renamed, search, describe, callRead, call,
          alice, bob, carol, users, models, c1

MCMeta == [search |-> search, describe |-> describe, callRead |-> callRead, call |-> call]

T(op, name, group, readOnly, schema) ==
  [op |-> op, name |-> name, group |-> group, readOnly |-> readOnly, hidden |-> FALSE,
   valid |-> TRUE, schema |-> schema, wraps |-> 0]

MCGenerated ==
  {T("List", list, users, TRUE, TRUE), T("Get", get, models, TRUE, TRUE),
   T("Delete", delete, users, FALSE, TRUE)}

AddList   == <<T("Custom", custom, NoGroup, FALSE, TRUE)>>
AddTwice  == <<T("Custom", custom, NoGroup, TRUE, TRUE), T("Other", custom, NoGroup, FALSE, TRUE)>>
AddMeta   == <<T("Custom", callRead, NoGroup, FALSE, TRUE)>>
AddBroken == <<T("Custom", custom, NoGroup, TRUE, FALSE)>>
AddBadName == <<[T("Custom", custom, NoGroup, TRUE, TRUE) EXCEPT !.valid = FALSE]>>

Patch(from, to, group, readOnly) ==
  [name |-> from, rename |-> to, group |-> group, readOnly |-> readOnly,
   op |-> SameOp, valid |-> TRUE, schema |-> TRUE, anew |-> FALSE]

\* Another handler; no handler; a schema that does not resolve; a tool of its own.
PatchHandler == [Patch(list, list, users, FALSE) EXCEPT !.op = "Custom"]
PatchInvalid == [Patch(list, list, users, TRUE) EXCEPT !.valid = FALSE]
PatchSchema  == [Patch(list, list, users, TRUE) EXCEPT !.schema = FALSE]
PatchAnew    == [Patch(list, renamed, users, TRUE) EXCEPT !.anew = TRUE]

MCOptions ==
  [keep : {{}, {get, delete}}, remove : {{}, {delete}},
   patches : {<<>>,
              <<Patch(list, renamed, models, TRUE)>>,
              <<Patch(list, renamed, users, TRUE), Patch(get, list, models, FALSE)>>,
              <<Patch(get, list, models, TRUE)>>},
   extra : {<<>>, AddList, AddTwice, AddMeta, AddBroken, AddBadName},
   wraps : {2}, discover : BOOLEAN]
  \union
  [keep : {{}, {get, delete}}, remove : {{}},
   patches : {<<PatchHandler>>, <<PatchInvalid>>, <<PatchSchema>>, <<PatchAnew>>},
   extra : {<<>>}, wraps : {2}, discover : BOOLEAN]

MCFilters ==
  {[tools |-> {}, groups |-> {}, readOnly |-> FALSE],
   [tools |-> {}, groups |-> {}, readOnly |-> TRUE],
   [tools |-> {}, groups |-> {users}, readOnly |-> FALSE],
   [tools |-> {list, callRead}, groups |-> {users}, readOnly |-> FALSE]}

\* The target of a call of a tool that is not a meta-tool is never looked at.
ToolRequests ==
  [header : {NoHeader}, tool : Names \ MetaNames, target : {list}, argsOK : BOOLEAN] \union
  [header : {NoHeader}, tool : MetaNames, target : Names \ MetaNames, argsOK : BOOLEAN]

CallRequests ==
  [header : Headers \union {NoHeader}, tool : {list, callRead},
   target : {get}, argsOK : {TRUE}]

\* Every mix of options and flags, one call at a time over stdio.
ToolSetups ==
  [options : MCOptions, filter : MCFilters, mode : {"stdio"}, calls : {{c1}},
   requests : {ToolRequests}]

\* Two concurrent calls under every transport and inbound authentication.
CallSetups ==
  [options : {[keep |-> {list}, remove |-> {}, patches |-> <<>>, extra |-> <<>>,
               wraps |-> 1, discover |-> TRUE]},
   filter : {[tools |-> {}, groups |-> {}, readOnly |-> FALSE]},
   mode : Mode, calls : {Calls}, requests : {CallRequests}]

MCSetups == ToolSetups \union CallSetups
=============================================================================
