------------------------------ MODULE McpTools ------------------------------
(***************************************************************************)
(* The tools an MCP server offers: the generated ones after the options of *)
(* cli/custom (mcpserver/customize.go), the filter flags and the discovery *)
(* meta-tools over what is not listed (mcpserver/discover.go). A tool set  *)
(* is a set of records; a step that reports an error yields Failed.        *)
(***************************************************************************)
EXTENDS Naturals, Sequences

CONSTANTS
  Names,     \* tool names, those of the meta-tools included
  Groups,    \* command groups
  NoGroup,   \* the group of an ungrouped operation and of a meta-tool
  Meta,      \* [search, describe, callRead, call]: the meta-tools' names
  Generated, \* the generated tools
  CustomOps, \* operations of the handlers cli/custom brings
  SameOp,    \* a patch leaves the tool its handler
  Failed     \* an error at startup

\* op is the operation a tool runs, wraps the wrappers around its handler, valid
\* says that its name and handler pass validateTools, and schema that its input
\* schema can be resolved.
Tool(Op) ==
  [op : Op, name : Names, group : Groups \union {NoGroup}, readOnly : BOOLEAN,
   hidden : BOOLEAN, valid : BOOLEAN, schema : BOOLEAN, wraps : Nat]

MetaNames == {Meta.search, Meta.describe, Meta.callRead, Meta.call}

ASSUME MetaAssumption ==
  /\ MetaNames \subseteq Names
  /\ Meta.callRead # Meta.call

\* The generator names its tools apart, and no option has touched them yet.
ASSUME GeneratedAssumption ==
  /\ Generated \subseteq Tool({g.op : g \in Generated})
  /\ \A g \in Generated : g.wraps = 0
  /\ \A g, h \in Generated : g.op = h.op \/ g.name = h.name => g = h

ASSUME PatchesAssumption == SameOp \notin CustomOps

\* What the function of a PatchTool leaves of the tool of a name: anything may
\* change. One that assigns a tool of its own making (anew) loses the mark of
\* KeepTools, which is no field it can set.
Patches ==
  [name : Names, rename : Names, group : Groups \union {NoGroup}, readOnly : BOOLEAN,
   op : CustomOps \union {SameOp}, valid : BOOLEAN, schema : BOOLEAN, anew : BOOLEAN]

HasName(defs, n) == \E d \in defs : d.name = n

KeepTools(defs, keep) ==
  IF keep = {} THEN defs
  ELSE IF \E n \in keep : ~HasName(defs, n) THEN Failed
  ELSE {[d EXCEPT !.hidden = d.name \notin keep] : d \in defs}

RemoveTools(defs, names) == {d \in defs : d.name \notin names}

Patched(d, p) ==
  [d EXCEPT !.name = p.rename, !.group = p.group, !.readOnly = p.readOnly,
            !.op = IF p.op = SameOp THEN @ ELSE p.op,
            !.valid = p.valid, !.schema = p.schema, !.hidden = @ /\ ~p.anew]

\* A patch may rename its tool, but not onto another tool's name.
PatchTool(defs, p) ==
  IF defs = Failed \/ ~HasName(defs, p.name) THEN Failed
  ELSE IF \E d \in defs : d.name = p.rename /\ d.name # p.name THEN Failed
  ELSE {IF d.name = p.name THEN Patched(d, p) ELSE d : d \in defs}

\* In order: a later patch sees the names an earlier one gave.
PatchTools(defs, patches) ==
  LET after[i \in 0 .. Len(patches)] ==
        IF i = 0 THEN defs ELSE PatchTool(after[i - 1], patches[i])
  IN  after[Len(patches)]

\* Seeded fault: a name already in use is added all the same.
AddAnyTools(defs, extra) == defs \union {extra[i] : i \in 1 .. Len(extra)}

AddTools(defs, extra) ==
  IF \/ \E i \in 1 .. Len(extra) : HasName(defs, extra[i].name)
     \/ \E i, j \in 1 .. Len(extra) : i # j /\ extra[i].name = extra[j].name
  THEN Failed
  ELSE defs \union {extra[i] : i \in 1 .. Len(extra)}

WrapTools(defs, n) == {[d EXCEPT !.wraps = @ + n] : d \in defs}

\* applyCustomizations: keep, remove, patch, add, validate, wrap.
ApplyCustomizations(defs, o) ==
  LET kept    == KeepTools(defs, o.keep)
      patched == IF kept = Failed THEN Failed
                 ELSE PatchTools(RemoveTools(kept, o.remove), o.patches)
      added   == IF patched = Failed THEN Failed ELSE AddTools(patched, o.extra)
  IN  IF added = Failed THEN Failed
      ELSE IF \E d \in added : ~d.valid THEN Failed
      ELSE WrapTools(added, o.wraps)

ListedTools(defs) == {d \in defs : ~d.hidden}

\* An empty list of names or groups passes every tool.
FilterTools(defs, tools, groups, readOnly) ==
  {d \in defs : /\ tools = {} \/ d.name \in tools
                /\ groups = {} \/ d.group \in groups
                /\ readOnly => d.readOnly}

DiscoveryTools ==
  {[op |-> n, name |-> n, group |-> NoGroup, readOnly |-> n # Meta.call,
    hidden |-> FALSE, valid |-> TRUE, schema |-> TRUE, wraps |-> 0] : n \in MetaNames}

\* Seeded fault: the catalog of the meta-tools is not filtered.
UnfilteredCatalog(defs, f) == defs

\* What the meta-tools may run: hidden or not, within --groups and --read-only.
Catalog(defs, f) == FilterTools(defs, {}, f.groups, f.readOnly)

(***************************************************************************)
(* prepareTools: the listed tools and the meta-tools' catalog.             *)
(***************************************************************************)
PrepareTools(o, f) ==
  LET defs   == ApplyCustomizations(Generated, o)
      listed == FilterTools(ListedTools(defs), f.tools, f.groups, f.readOnly)
      meta   == FilterTools(DiscoveryTools, f.tools, {}, f.readOnly)
      both   == IF \E m \in meta : HasName(listed, m.name) THEN Failed ELSE listed \union meta
  IN  IF defs = Failed THEN Failed
      ELSE IF ~o.discover THEN [listed |-> listed, catalog |-> {}]
      ELSE IF both = Failed THEN Failed
      ELSE [listed |-> both, catalog |-> Catalog(defs, f)]

\* buildServer registers the listed tools; a hidden one with a schema that does
\* not resolve goes unnoticed until it is called.
RegisterTools(prepared) ==
  IF prepared = Failed THEN Failed
  ELSE IF \E d \in prepared.listed : ~d.schema THEN Failed
  ELSE prepared
=============================================================================
