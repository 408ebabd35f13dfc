SPECIFICATION PollFairSpec
CONSTANTS
  Registers = {1, 2}
  Zoned = {2}
  Rows <- MCRows
  Required <- MCRequired
  p1 = p1
  p2 = p2
  Pollers = {p1, p2}
  w1 = w1
  Writers = {w1}
  BatchSize = 1
  Period = 1
  s1 = s1
  s2 = s2
  Scopes = {s1, s2}
  NoScope = NoScope
  WriteLevel = 1
  AccessLevel = 2
  Environments <- MCEnvironments
INVARIANTS PollTypeOK QuarantineIsCurrent
PROPERTIES WritesAreProven RetiredOnEvidence UserStaysAuthoritative ReactivationResumes ShownWhenHealthy
