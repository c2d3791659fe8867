---------------------------- MODULE BudgetPolicy ----------------------------
(***************************************************************************)
(* The pure part of the budget commands: what an audit of a billing        *)
(* account's budgets concludes, what budget ensure plans from it, what the *)
(* plan makes of the budget it meets, and the same for the routing of      *)
(* budget alerts to Pub/Sub.  Nothing here has state: BudgetEnsure and     *)
(* InitFlow read the budgets and act on what these operators say.          *)
(*                                                                         *)
(* A budget is found by its display name.  The default name holds the      *)
(* project, so the project stands for it; --display-name gives another.    *)
(***************************************************************************)
EXTENDS Naturals, FiniteSets

CONSTANTS Projects,         \* GCP projects
          BillingAccounts,  \* Cloud Billing accounts
          CustomNames,      \* display names given with --display-name
          Amounts,          \* amounts with their currency
          Thresholds,       \* lists of threshold percents
          Topics,           \* Pub/Sub topics
          Channels,         \* monitoring channels and recipient settings
          DefaultChannels,  \* those of a new budget
          BudgetIds,        \* resource names of budgets
          None

ASSUME PolicyAssumption ==
  /\ None \notin Projects /\ None \notin BillingAccounts
  /\ None \notin BudgetIds /\ None \notin Topics
  /\ CustomNames \cap Projects = {}
  /\ None \notin CustomNames
  /\ DefaultChannels \in Channels

DisplayNames == Projects \cup CustomNames

\* What --display-name may be: a name, or None for the default one.
Policies == [project : Projects, name : CustomNames \cup {None}, amount : Amounts,
             thresholds : Thresholds]

DisplayName(policy) == IF policy.name = None THEN policy.project ELSE policy.name

Schemas == {"1.0", "other", "unset"}

Rules == [topic : Topics \cup {None}, schema : Schemas, channels : Channels]

Budgets ==
  [account : BillingAccounts, name : DisplayNames, project : Projects, amount : Amounts,
   thresholds : Thresholds, rule : Rules]

NoBudget == [account |-> None]

-----------------------------------------------------------------------------

\* auditBillingGuard's risk: whose account is linked, whether its budgets could
\* be listed, and whether there are any.  Any budget of the account will do.
AuditRisk(account, visible, listed) ==
  CASE account = None              -> "billing_disabled"
    [] account # None /\ ~visible  -> "review"
    [] account # None /\ visible /\ listed = {}  -> "missing_budget"
    [] account # None /\ visible /\ listed # {}  -> "configured"

\* Mutant: only an account without budgets is refused.
GuardLenient(risk) == risk # "missing_budget"

GuardPasses(risk) == risk = "configured"

\* getAuditBlockers: billing disabled, no account to be seen, or no budgets to be seen.
AuditBlocks(account, visible) == AuditRisk(account, visible, {}) \in {"billing_disabled", "review"}

\* getBudgetChanges compares the amount and the thresholds, not the filter.
BudgetChanges(budget, policy) ==
  (IF budget.amount = policy.amount THEN {} ELSE {"amount"})
    \cup (IF budget.thresholds = policy.thresholds THEN {} ELSE {"thresholds"})

\* Mutant: a budget list that could not be read is taken for an empty one.
PlanBlind(account, visible, budget, policy) ==
  CASE account = None -> "blocked"
    [] account # None /\ budget = NoBudget -> "create"
    [] account # None /\ budget # NoBudget ->
         IF BudgetChanges(budget, policy) = {} THEN "none" ELSE "update"

\* planBudgetEnsure, for the budget its find returned or NoBudget.
PlanBudgetEnsure(account, visible, budget, policy) ==
  IF AuditBlocks(account, visible) THEN "blocked"
  ELSE IF budget = NoBudget THEN "create"
  ELSE IF BudgetChanges(budget, policy) = {} THEN "none" ELSE "update"

\* verifyBudgetEnsurePostState: a plan made now would have nothing to do.
VerifyPostState(account, visible, budget, policy) ==
  PlanBudgetEnsure(account, visible, budget, policy) = "none"

\* A created budget routes its alerts nowhere.
NoRouting == [topic |-> None, schema |-> "unset", channels |-> DefaultChannels]

\* Mutant: the patch replaces the whole budget.
PatchedWhole(budget, policy) ==
  [account |-> budget.account, name |-> DisplayName(policy), project |-> policy.project,
   amount |-> policy.amount, thresholds |-> policy.thresholds, rule |-> NoRouting]

\* The budget after the patch of planBudgetApiMutation, whose mask names
\* displayName, budgetFilter, amount and thresholdRules.
Patched(budget, policy) ==
  [budget EXCEPT !.name = DisplayName(policy), !.project = policy.project,
                 !.amount = policy.amount, !.thresholds = policy.thresholds]

\* The budget its create request makes.
Created(account, policy) ==
  [account |-> account, name |-> DisplayName(policy), project |-> policy.project,
   amount |-> policy.amount, thresholds |-> policy.thresholds, rule |-> NoRouting]

-----------------------------------------------------------------------------

\* auditPubsubTopic: what describing the topic and reading its policy conclude.
TopicStates == {"missing", "inaccessible", "visible"}

TopicRisk(topicStatus, iamVisible, publisher) ==
  CASE topicStatus = "missing" -> "missing_topic"
    [] topicStatus = "inaccessible" -> "review"
    [] topicStatus = "visible" /\ ~iamVisible -> "review"
    [] topicStatus = "visible" /\ iamVisible /\ ~publisher -> "missing_publisher"
    [] topicStatus = "visible" /\ iamVisible /\ publisher -> "low"

\* Mutant: the rule is made anew, without what it said of other channels.
DesiredRuleFresh(topic, rule) ==
  [topic |-> topic, schema |-> "1.0", channels |-> DefaultChannels]

\* buildDesiredRule: the topic and its schema; the recipients stay as they are.
DesiredRule(topic, rule) ==
  [topic |-> topic, schema |-> "1.0", channels |-> rule.channels]

RoutingChanges(rule, desired) ==
  (IF rule.topic = desired.topic THEN {} ELSE {"topic"})
    \cup (IF rule.schema = desired.schema THEN {} ELSE {"schema"})

\* planBudgetNotificationEnsure, for a topic whose audit says risk.
PlanRouting(account, visible, budget, topic, risk) ==
  IF AuditBlocks(account, visible) \/ risk # "low" \/ budget = NoBudget THEN "blocked"
  ELSE IF RoutingChanges(budget.rule, DesiredRule(topic, budget.rule)) = {}
       THEN "none" ELSE "update"

\* The budget after planBudgetNotificationApiMutation's patch of notificationsRule.
Routed(budget, topic) == [budget EXCEPT !.rule = DesiredRule(topic, budget.rule)]

\* toBudgetNotificationStatus and getPosture
RoutingStatus(rule) ==
  CASE rule.topic = None /\ rule.schema = "unset" -> "none"
    [] rule.topic # None /\ rule.schema = "1.0" -> "configured"
    [] OTHER -> "partial"

Posture(account, visible, budgets, risk) ==
  LET statuses == {RoutingStatus(b.rule) : b \in budgets}
  IN  CASE AuditBlocks(account, visible) \/ risk # "low" -> "blocked"
        [] OTHER -> IF statuses \subseteq {"none"} THEN "none"
                    ELSE IF statuses = {"configured"} THEN "configured" ELSE "partial"

\* planCostLockIngestion, with the topic audited.
IngestionStatus(plan) ==
  CASE plan = "blocked" -> "blocked"
    [] plan = "none"    -> "ready"
    [] plan = "update"  -> "review"
=============================================================================
