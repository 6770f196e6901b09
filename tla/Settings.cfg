\* One or two invocations over every config file, surroundings and response.
SPECIFICATION Spec
CONSTANTS
  staging = staging
  bare = bare
  unknown = unknown
  keyS = keyS
  keyB = keyB
  keyE = keyE
  keyD = keyD
  Other = Other
  Unset = Unset
  Blank = Blank
  Unusable = Unusable
  Refused = Refused
  Nothing = Nothing
  Loopback = {"localhost"}
  Profiles <- MCProfiles
  Servers <- MCServers
  Procs = {p1, p2}
  Launches <- MCLaunches
  Concurrent <- MCConcurrent
  Homes <- MCHomes
  Configured = "json"
  Normalized <- NormalizedValue
  Normalizable <- NormalizableValue
SYMMETRY Alike
INVARIANTS OneDeployment CollectionShown
PROPERTY ImplementsServerChoice
