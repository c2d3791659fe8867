SPECIFICATION LockSpec
CONSTANTS
  NoFile = NoFile
  Torn = Torn
  Projects = {p1, p2}
  Lockers = {l1, l2}
  LockOverlap = TRUE
INVARIANTS HeldLocksInForce
