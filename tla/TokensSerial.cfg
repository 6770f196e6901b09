\* Processes one at a time, with failing requests, failing writes and kills.
SPECIFICATION Spec
CONSTANTS
  Procs = {p1}
  Profiles = {a}
  NoProfile = NoProfile
  Clients = {c1, c2}
  Confidential = {c2}
  Torn = Torn
  Answers <- SomeAnswers
  MaxIssues = 3
INVARIANTS TypeOK TokensStayInTheirBucket
PROPERTIES LoginOnlyWhenNeeded
