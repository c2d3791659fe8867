SPECIFICATION Spec
CONSTANTS
  NoAccount = NoAccount
  None = None
  Torn = Torn
  g1 = g1
  g2 = g2
  Requests <- MCRequests
  Ids = {a1, a2}
  Approvers = {h1}
  Gates = {g1}
  Ttl = 1
  MaxTime = 2
  Overlap = FALSE
INVARIANTS SingleUse
PROPERTIES ImplementsLifecycle
