SPECIFICATION Spec
CONSTANTS
  NoAccount = NoAccount
  None = None
  Torn = Torn
  NoFile = NoFile
  Requests <- AllRequests
  Commands <- AllCommands
  Profiles <- MCProfiles
  Ids = {a1}
  Approvers = {h1}
  Gates = {g1}
  Ttl = 0
  MaxTime = 1
  Projects = {p1}
  Project = p1
  Lockers = {l1}
  LockOverlap = FALSE
INVARIANTS DenyListHolds
