\* One run of every command line, with two waiters of two attempts each.
SPECIFICATION FairSpec
CONSTANTS
  name = name
  size = size
  tags = tags
  Fields <- MCFields
  Nested <- MCNested
  Absent = Absent
  Nothing = Nothing
  Commands <- MCCommands
  Waiters = {1, 2}
  Matchers <- MCMatchers
  Attempts = 2
INVARIANTS
  TypeOK
  ConsentBeforeSending
  UsageMeansNotSent
  OkMeansDone
  WaitReportsState
  BodyIsLayered
PROPERTIES
  IdlePipeIsSkipped
  WaitEnds
\* The command ends.
CHECK_DEADLOCK FALSE
