SPECIFICATION Spec
CONSTANTS
  g1 = g1
  g2 = g2
  None = None
  NoAccount = NoAccount
  Torn = Torn
  Requests <- MCFewRequests
  Ids = {a1}
  Approvers = {h1}
  Gates <- MCGates
  Ttl = 1
  MaxTime = 2
  Overlap = TRUE
SYMMETRY GateSymmetry
INVARIANTS TypeOK RejectionHolds SpentStaysClosed
PROPERTIES OnlyAuthorisedGrants FinalStaysFinal
