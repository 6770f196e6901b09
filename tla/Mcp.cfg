\* Every mix of options and flags under one call, every mode under two.
SPECIFICATION FairSpec
CONSTANTS
  list = list
  get = get
  delete = delete
  custom = custom
  renamed = renamed
  search = search
  describe = describe
  callRead = callRead
  call = call
  alice = alice
  bob = bob
  carol = carol
  users = users
  models = models
  Names = {list, get, delete, custom, renamed, search, describe, callRead, call}
  Groups = {users, models}
  NoGroup = NoGroup
  Meta <- MCMeta
  Generated <- MCGenerated
  CustomOps = {"Custom", "Other"}
  SameOp = SameOp
  Failed = Failed
  Headers = {alice, bob, carol}
  NoHeader = NoHeader
  ServerToken = carol
  Own = Own
  Missing = Missing
  Calls = {c1, c2}
  c1 = c1
  Setups <- MCSetups
INVARIANTS
  TypeOK
  OnlySelectedRun
  ReadOnlyToolsOnlyRead
  WrappedOnceAndValid
  NamesAreUnique
  ActsAsCaller
PROPERTIES
  NothingSentAfterCancel
  CancelAborts
  DrainEnds
\* The server stops.
CHECK_DEADLOCK FALSE
