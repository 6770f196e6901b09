\* Processes one at a time; the cache file cannot always be written.
SPECIFICATION Spec
CONSTANTS
  Procs = {p1}
  Profiles = {a}
  NoProfile = NoProfile
  Clients = {c1, c2}
  Confidential = {c2}
  Torn = Torn
  Answers <- SomeAnswers
  MaxIssues = 3
PROPERTIES TokenObtainedIsUsed
