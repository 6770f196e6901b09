\* Logins one after another.
SPECIFICATION FairSpec
CONSTANTS
  Logins = {l1, l2}
  Requests = {r1, r2}
  Verifiers = {v1, v2}
  Codes = {c1, c2}
  NoCode = NoCode
  NoVerifier = NoVerifier
  NotIssued = NotIssued
  NoLogin = NoLogin
  NoRequest = NoRequest
  Elsewhere = Elsewhere
  PortTaken = FALSE
  Overlap = FALSE
PROPERTIES EveryLoginEnds
\* The process is idle once every login has ended, or gone.
CHECK_DEADLOCK FALSE
