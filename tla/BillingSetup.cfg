SPECIFICATION Spec
CONSTANTS
  Projects = {"p"}
  BillingAccounts = {"A", "B"}
  CustomNames = {}
  Amounts = {1, 2}
  Thresholds = {"default"}
  Topics = {"t"}
  Channels = {"nobody", "mail"}
  DefaultChannels = "nobody"
  BudgetIds = {1, 2, 3}
  HandIds = {3}
  None = None
  Clients = {c1, c2}
  Users = {"u", "v"}
  Requests <- MCRequests
  HandBudgets <- MCHandBudgets
  Beginnings <- MCBeginnings
  NumRoles = 2
  MaxStarts = 2
  MaxFaults = 1
  MaxHands = 2
INVARIANTS
  SetupTypeOK UnopenedStaysUnused LockedStaysUntouched InitCompletes FailsOnlyByFault
  OneBudgetPerName MutationsPaidFor RoutingConverges
PROPERTIES
  LinkNeedsBudget AlertsStayRouted CommandsEnd
CHECK_DEADLOCK FALSE
