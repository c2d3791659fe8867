---------------------------- MODULE BillingSetup ----------------------------
(***************************************************************************)
(* omg init, omg budget ensure and omg budget enable-api, run by several   *)
(* clients over the same projects and the same machine, while people link, *)
(* budget, lock and switch accounts beside them.                           *)
(***************************************************************************)
EXTENDS InitFlow, BudgetEnsure

Step(c) == InitStep(c) \/ EnsureStep(c) \/ Finish(c)

Misfortune(c) == CallFails(c) \/ InitFault(c) \/ EnsureFault(c) \/ Kill(c)

Next ==
  \/ \E c \in Clients, r \in Requests : Start(c, r)
  \/ \E c \in Clients : Step(c) \/ Misfortune(c)
  \/ People

\* The calls of a command return, and the command takes its next step.
Fairness == \A c \in Clients : WF_vars(Step(c))

Spec == Init /\ [][Next]_vars /\ Fairness

-----------------------------------------------------------------------------

InitSteps ==
  {"list", "create", "activate", "status", "lock", "describe", "budgets", "link", "confirm",
   "apis", "account", "bind", "profile", "config"}

EnsureSteps == {"describe", "plan", "approve", "consume", "mutate", "redescribe", "verify"}

Plans ==
  [action : {"none", "create", "update", "blocked"}, id : BudgetIds \cup {None}]

CloudTypeOK ==
  /\ project \in [Projects -> ProjectStates]
  /\ billing \in [Projects -> BillingAccounts \cup {None}]
  /\ apis \in [Projects -> SUBSET {"default", "budget"}]
  /\ bindings \subseteq Projects \X Users \X (1..NumRoles)
  /\ budgets \in [BudgetIds -> Budgets \cup {NoBudget}]

MachineTypeOK ==
  /\ locked \subseteq Projects
  /\ user \in Users
  /\ activeProject \in Projects \cup {None}
  /\ profile \in Projects \cup {None}
  /\ config \in [project : Projects, account : Users \cup {None}] \cup {None}
  /\ asked \subseteq Asks
  /\ granted \subseteq Approvals

ClientTypeOK ==
  /\ pc \in [Clients -> InitSteps \cup EnsureSteps \cup Ends \cup {"enable", "idle"}]
  /\ req \in [Clients -> Requests \cup {NoRequest}]
  /\ seen \in [Clients -> BillingAccounts \cup {None}]
  /\ look \in [Clients -> BillingAccounts \cup {None}]
  /\ plan \in [Clients -> Plans]
  /\ who \in [Clients -> Users \cup {None}]
  /\ bound \in [Clients -> 0..NumRoles]
  /\ using \in [Clients -> Approvals \cup {None}]

\* The steps a command may be at.
AtOwnStep(c) ==
  \/ pc[c] = "idle"
  \/ pc[c] \in Ends /\ req[c] # NoRequest
  \/ pc[c] \in InitSteps /\ req[c].cmd = "init"
  \/ pc[c] \in EnsureSteps /\ req[c].cmd = "ensure"
  \/ pc[c] = "enable" /\ req[c].cmd = "enable-api"

\* Every command is at a step of its own, and what it remembers fits it: roles are
\* bound to an account that was read, a mutation has an account and a plan.
SetupTypeOK ==
  /\ CloudTypeOK /\ MachineTypeOK /\ ClientTypeOK
  /\ \A c \in Clients :
       /\ AtOwnStep(c)
       /\ pc[c] = "bind" => who[c] \in Users /\ bound[c] < NumRoles
       /\ pc[c] = "budgets" => look[c] \in BillingAccounts
       /\ pc[c] \in {"approve", "consume", "mutate"} =>
            /\ look[c] \in BillingAccounts
            /\ plan[c].action \in {"create", "update"}
            /\ plan[c].action = "update" => plan[c].id # None
       /\ pc[c] \in {"consume", "mutate"} => using[c] \in Approvals

\* However commands interleave and calls fail, a project's billing is changed by
\* omg only to an account that has had a budget.
LinkNeedsBudget ==
  [][\A p \in Projects :
       billing'[p] # billing[p] /\ hands' = hands => billing'[p] \in budgeted]_vars

\* An account that no person has linked or budgeted is never used: init waits for a
\* budget, and ensure for a link, so neither opens an account alone.
UnopenedStaysUnused ==
  \A a \in BillingAccounts \ opened :
    Listed(a) = {} /\ \A p \in Projects : billing[p] # a

\* An init that looks for the cost lock while there is one goes no further: it does
\* not link billing, enable APIs, bind roles or write its files.
LockedStaysUntouched ==
  \A c \in Clients :
    held[c] /\ req[c].cmd = "init" /\ Running(c) =>
      pc[c] \in BeforeLock \cup {"blocked", "failed"}

\* An init that reports success has the project, its APIs, and all of its roles
\* bound to one account.  If nobody got in between, billing, gcloud, trust.yaml
\* and config.json also say what was asked for, of that same account.
InitCompletes ==
  \A c \in Clients :
    pc[c] = "done" /\ req[c].cmd = "init" =>
      /\ project[Project(c)] = "active"
      /\ "default" \in apis[Project(c)]
      /\ \A role \in 1..NumRoles : <<Project(c), who[c], role>> \in bindings
      /\ alone[c] =>
           /\ billing[Project(c)] = req[c].account
           /\ activeProject = Project(c) /\ profile = Project(c)
           /\ config.project = Project(c)
           /\ config.account \in (IF faulted[c] THEN {who[c], None} ELSE {who[c]})

\* Whatever earlier runs left behind: a command that nobody disturbs and no call
\* fails does not end in an error, unless its project is not there to be had, or
\* two budgets share the name it looks for.
FailsOnlyByFault ==
  \A c \in Clients :
    pc[c] = "failed" /\ alone[c] /\ ~faulted[c] =>
      \/ project[Project(c)] # "active"
      \/ /\ req[c].cmd = "ensure"
         /\ Cardinality(Named(look[c], DisplayName(req[c].policy))) > 1

\* Commands that create a budget one after the other, lost answers and retries
\* included, create one for each account and name.
OneBudgetPerName ==
  \A i, j \in made :
    /\ i # j
    /\ budgets[i].account = budgets[j].account
    /\ budgets[i].name = budgets[j].name
    => budgets[i].name \in raced

\* A budget is changed under an approval of the very policy, and one approval serves for
\* two changes, an earlier one whose answer was lost included, only if two commands held
\* it at once: the second had loaded it before the first had saved it as consumed.
MutationsPaidFor ==
  \A c \in Clients :
    pc[c] = "mutate" =>
      /\ using[c].of[1] = req[c].policy
      /\ using[c] \in spent => using[c] \in shared

\* A budget that ensure changes keeps its account and where its alerts go.
AlertsStayRouted ==
  [][\A id \in BudgetIds :
       hands' = hands /\ budgets[id] # NoBudget =>
         /\ budgets'[id].account = budgets[id].account
         /\ budgets'[id].rule = budgets[id].rule]_vars

\* Whatever a person routes by the plan of budget notifications ensure needs no
\* further change, keeps its other recipients, and is what lock-ingestion waits for;
\* with every budget routed the audit calls the account configured.
RoutingConverges ==
  \A p \in Projects, t \in Topics :
    LET account == billing[p]
        plans(id) == PlanRouting(account, TRUE, budgets[id], t, TopicRisk("visible", TRUE, TRUE))
        routed(id) == Routed(budgets[id], t)
    IN  /\ \A id \in Listed(account) :
             plans(id) = "update" =>
               /\ IngestionStatus(PlanRouting(account, TRUE, routed(id), t, "low")) = "ready"
               /\ routed(id).rule.channels = budgets[id].rule.channels
        /\ Listed(account) # {} =>
             Posture(account, TRUE, {routed(id) : id \in Listed(account)}, "low") = "configured"

\* Every command ends, whatever its calls answer.
CommandsEnd == \A c \in Clients : Running(c) ~> ~Running(c)
=============================================================================
