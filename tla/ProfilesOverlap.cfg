\* Invocations overlapping, with unreadable files, failing writes and kills.
SPECIFICATION Spec
CONSTANTS
  work = work
  Names = {default, work}
  Legacy = default
  NoName = NoName
  NotPassed = NotPassed
  key = key
  server = server
  k1 = k1
  k2 = k2
  s1 = s1
  Fields = {key}
  Required = {key}
  Values = {k1}
  NoValue = NoValue
  Absent = Absent
  EnvKey = EnvKey
  Refused = Refused
  Procs = {p1, p2}
  Commands <- OverlapCommands
  InitialStores <- FreshOrLegacy
  Unset = Unset
  Overlap = TRUE
  SystemConfig = FALSE
  ReadFaults = TRUE
INVARIANTS SelectionIsDecided StoredProfilesComplete
