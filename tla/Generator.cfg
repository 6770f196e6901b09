\* One specification of each kind generated once; two over several commands.
SPECIFICATION GeneratorSpec
CONSTANTS
  Singulars <- MCSingulars
  VersionWords = {"v1", "v2"}
  WordsInV = {"v1", "v2", "validate"}
  ReservedFlags <- MCReserved
  Graph <- MCGraph
  NoNode = "NoNode"
  NameOrder <- MCNameOrder
  MaxDepth <- MCMaxDepth
  MaxName = 3
  ToolLists <- MCToolLists
  Nothing = Nothing
  CollectionKeys <- MCCollectionKeys
  PaginationKeys <- MCPaginationKeys
  Specs <- MCSpecs
  NoSpec <- MCNoSpec
  Apis <- MCApis
  MaxCommands = 3
  MaxEdits = 2
  Workspaces <- MCWorkspaces
  Probes <- MCProbes
  Declares <- MCDeclares
  Accepts <- MCAccepts
INVARIANTS
  ToolNamesAreUnique
  FieldFlagsAreDistinct
  ArgumentsReachParameters
  EnumsNeverNarrow
  SchemasAcceptDeclared
  PackageIsWhole
PROPERTY
  UserFilesKept
\* The developer stops.
CHECK_DEADLOCK FALSE
