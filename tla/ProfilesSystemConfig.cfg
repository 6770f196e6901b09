\* Invocations one at a time, with a system-wide config file.
SPECIFICATION Spec
CONSTANTS
  work = work
  Names = {default, work}
  Legacy = default
  NoName = NoName
  NotPassed = NotPassed
  key = key
  server = server
  k1 = k1
  k2 = k2
  s1 = s1
  Fields = {key, server}
  Required = {key}
  Values = {k1, k2, s1}
  NoValue = NoValue
  Absent = Absent
  EnvKey = EnvKey
  Refused = Refused
  Procs = {p1, p2}
  Commands <- SerialCommands
  InitialStores <- FreshOrLegacy
  Unset = Unset
  Overlap = FALSE
  SystemConfig = TRUE
  ReadFaults = FALSE
PROPERTIES ClearNeverUndone
