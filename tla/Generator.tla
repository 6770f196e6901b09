----------------------------- MODULE Generator -----------------------------
(***************************************************************************)
(* The generator: commands on a project's files, and within generate and   *)
(* sync the processing of the spec the command read (main.go, mcpschema.go)*)
(* A command is one process; what ProcessAPI built is gone when it ends.   *)
(***************************************************************************)
EXTENDS ApiBuilder, Project

CONSTANT
  Workspaces  \* what an instance looks at: [docs, commands, edits, faults]

ASSUME WorkspacesAssumption ==
  \A w \in Workspaces :
    /\ DOMAIN w.docs \subseteq Specs /\ \A spec \in DOMAIN w.docs : IsDocument(w.docs[spec])
    /\ w.commands <= MaxCommands /\ w.edits <= MaxEdits

VARIABLE workspace

generatorVars == <<workspace, builderVars, projectVars>>

GeneratorInit ==
  /\ workspace \in Workspaces
  /\ BuilderInit
  /\ ProjectInit

\* What the processed API contributes to the files.
BuiltApi ==
  [groups |-> SetToSeq(CommandGroups), tools |-> Included # <<>>]

RunCommand ==
  /\ ran < workspace.commands
  /\ StartCommand
  /\ command'.spec \in DOMAIN workspace.docs \union {NoSpec}
  /\ UNCHANGED <<workspace, builderVars>>

LoadSpec ==
  /\ Doing("process") /\ command.spec \in DOMAIN workspace.docs
  /\ Load(workspace.docs[command.spec])
  /\ UNCHANGED <<workspace, projectVars>>

ProcessAPI == Process /\ UNCHANGED <<workspace, projectVars>>

WriteProject ==
  /\ phase = "built"
  /\ \E targets \in SUBSET Surface \ {{}} : Processed(BuiltApi, targets)
  /\ Forget
  /\ UNCHANGED workspace

TakeStep == Step /\ UNCHANGED <<workspace, builderVars>>

\* A panic, a spec that cannot be read, or an mcp section that is not valid.
FailToProcess ==
  /\ phase = "panicked" \/ (phase = "idle" /\ workspace.faults) \/ (phase = "built" /\ ~config.mcpOK)
  /\ CannotProcess
  /\ Forget
  /\ UNCHANGED workspace

BreakOff ==
  /\ workspace.faults
  /\ Killed \/ TearFile \/ TearConfig \/ TearPackageFile \/ TearReset
  /\ Forget
  /\ UNCHANGED workspace

Edit ==
  /\ edits < workspace.edits
  /\ EditFile \/ EditConfig
  /\ UNCHANGED <<workspace, builderVars>>

GeneratorNext ==
  \/ RunCommand \/ LoadSpec \/ ProcessAPI \/ WriteProject \/ TakeStep
  \/ FailToProcess \/ BreakOff \/ Edit

GeneratorSpec == GeneratorInit /\ [][GeneratorNext]_generatorVars
=============================================================================
