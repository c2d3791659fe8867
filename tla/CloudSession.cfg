SPECIFICATION Spec
CONSTANTS
  Clients = {c1, c2}
  Users = {"u", "v"}
  Projects = {"p", "guarded", "org"}
  ProtectedProjects = {"guarded"}
  Owned = {"org"}
  Configurations = {"home", "work"}
  SecretNames = {"s"}
  Servers = {"docs", "mail"}
  Tools = {"list", "set"}
  MutationNames = {"set"}
  Requests <- MCRequests
  HandProjects = {"p"}
  Beginnings <- MCBeginnings
  MaxAttempts = 2
  MaxStarts = 2
  MaxFaults = 2
  MaxHands = 1
  None = None
SYMMETRY ClientSymmetry
INVARIANTS
  SessionTypeOK ReportsTruly ValueFileGone AuthAsAsked GatewayReadsOnly SessionsClosed
  GatewayAccounted
PROPERTIES
  ProtectedKept DeletesAsAudited
CHECK_DEADLOCK FALSE
