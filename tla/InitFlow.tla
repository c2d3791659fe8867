------------------------------ MODULE InitFlow ------------------------------
(***************************************************************************)
(* omg init, step by step: it selects or creates the project, checks the   *)
(* cost lock and the budgets of the billing account, links the account,    *)
(* enables the APIs, grants the default roles to the account gcloud is     *)
(* logged in with, and writes trust.yaml and ~/.omg/config.json.  Nothing  *)
(* is undone when a step fails: the next run starts from the beginning and *)
(* passes over what is there already.                                      *)
(***************************************************************************)
EXTENDS BillingCloud

\* Mutant: the project is created whether it is listed or not.
CreatesAlways(p) == TRUE

\* resolveProjectSelection: create what projects list does not show.
Creates(p) == project[p] # "active"

\* projects list and the selection.
SelectProject(c) ==
  /\ pc[c] = "list"
  /\ Goto(c, IF Creates(Project(c)) THEN "create" ELSE "activate")
  /\ UNCHANGED <<cloud, machine, consent, local, fate, past, counts>>

CreateEffect(c) ==
  /\ project[Project(c)] = "absent"
  /\ project' = [project EXCEPT ![Project(c)] = "active"]
  /\ UNCHANGED <<billing, apis, bindings, budgets, machine>>

CreateProject(c) ==
  /\ pc[c] = "create"
  /\ CreateEffect(c)
  /\ Goto(c, "activate")
  /\ UNCHANGED <<consent, local, fate, past, counts>>

\* PROJECT_EXISTS: its ID is in use, here or elsewhere.
CreateRefused(c) ==
  /\ pc[c] = "create"
  /\ project[Project(c)] # "absent"
  /\ Goto(c, "failed")
  /\ UNCHANGED <<cloud, machine, consent, local, fate, past, counts>>

ActivateEffect(c) ==
  /\ activeProject' = Project(c)
  /\ UNCHANGED <<cloud, locked, user, profile, config>>

ActivateProject(c) ==
  /\ pc[c] = "activate"
  /\ ActivateEffect(c)
  /\ Goto(c, "status")
  /\ UNCHANGED <<consent, local, fate, past, counts>>

\* getBillingStatus
ReadBilling(c) ==
  /\ pc[c] = "status"
  /\ seen' = [seen EXCEPT ![c] = billing[Project(c)]]
  /\ Goto(c, "lock")
  /\ UNCHANGED <<cloud, machine, consent, req, look, plan, who, bound, using, fate, past, counts>>

\* Mutant: a lock is for projects that have no billing yet.
LockStopsUnlinked(p, linked) == p \in locked /\ linked = None

LockStops(p, linked) == p \in locked

\* Mutant: the budgets that count are those of the account the project has.
GuardOwnAccount(linked, account) == IF linked # None THEN "describe" ELSE "budgets"

\* auditInitBudgetGuard: auditBillingGuard, which reads the billing of the project
\* again, where the account is linked already; otherwise auditBillingAccountGuard.
GuardStep(linked, account) == IF linked = account THEN "describe" ELSE "budgets"

ReadLock(c) ==
  /\ pc[c] = "lock"
  /\ IF LockStops(Project(c), seen[c])
     THEN /\ Goto(c, "blocked")
          /\ UNCHANGED look
     ELSE /\ Goto(c, GuardStep(seen[c], req[c].account))
          /\ look' = [look EXCEPT ![c] = req[c].account]
  /\ UNCHANGED <<cloud, machine, consent, req, seen, plan, who, bound, using, fate, past, counts>>

AfterLink(c) == IF req[c].asks THEN "confirm" ELSE "apis"

\* The budgets are listed: any budget will do.  linkBilling is passed over where
\* getBillingStatus has seen the account.
ListBudgets(c) ==
  /\ pc[c] = "budgets"
  /\ Goto(c, IF GuardPasses(AuditRisk(look[c], TRUE, Listed(look[c])))
             THEN IF seen[c] = req[c].account THEN AfterLink(c) ELSE "link"
             ELSE "blocked")
  /\ UNCHANGED <<cloud, machine, consent, local, fate, past, counts>>

\* The list cannot be read: the audit says review and the run goes on from there.
ListBudgetsUnseen(c) ==
  /\ pc[c] = "budgets"
  /\ Fault(c)
  /\ Goto(c, IF GuardPasses(AuditRisk(look[c], FALSE, {}))
             THEN IF seen[c] = req[c].account THEN AfterLink(c) ELSE "link"
             ELSE "blocked")
  /\ UNCHANGED <<cloud, machine, consent, local, alone, held, past, starts, hands>>

LinkEffect(c) ==
  /\ billing' = [billing EXCEPT ![Project(c)] = req[c].account]
  /\ UNCHANGED <<project, apis, bindings, budgets, machine>>

LinkBilling(c) ==
  /\ pc[c] = "link"
  /\ LinkEffect(c)
  /\ Goto(c, AfterLink(c))
  /\ UNCHANGED <<consent, local, fate, past, counts>>

\* The person answers, with the billing linked already.
Confirm(c) ==
  /\ pc[c] = "confirm"
  /\ \E step \in {"apis", "blocked"} : Goto(c, step)
  /\ UNCHANGED <<cloud, machine, consent, local, fate, past, counts>>

ApisEffect(c) ==
  /\ apis' = [apis EXCEPT ![Project(c)] = @ \cup {"default"}]
  /\ UNCHANGED <<project, billing, bindings, budgets, machine>>

EnableApis(c) ==
  /\ pc[c] = "apis"
  /\ ApisEffect(c)
  /\ Goto(c, "account")
  /\ UNCHANGED <<consent, local, fate, past, counts>>

\* proposeDefaultRoles: all roles go to the account of this moment.
ProposeRoles(c) ==
  /\ pc[c] = "account"
  /\ who' = [who EXCEPT ![c] = user]
  /\ Goto(c, "bind")
  /\ UNCHANGED <<cloud, machine, consent, req, seen, look, plan, bound, using, fate, past, counts>>

\* Mutant: the last role is left out.
LastRoleEarly(n) == n >= NumRoles - 1

\* Mutant: the loop runs past the last role.
LastRoleLate(n) == n > NumRoles

LastRole(n) == n >= NumRoles

BindEffect(c) ==
  /\ bindings' = bindings \cup {<<Project(c), who[c], bound[c] + 1>>}
  /\ UNCHANGED <<project, billing, apis, budgets, machine>>

\* applyBindings, one role at a time.
ApplyBinding(c) ==
  /\ pc[c] = "bind"
  /\ BindEffect(c)
  /\ bound' = [bound EXCEPT ![c] = @ + 1]
  /\ Goto(c, IF LastRole(bound[c] + 1) THEN "profile" ELSE "bind")
  /\ UNCHANGED <<consent, req, seen, look, plan, who, using, fate, past, counts>>

SaveProfile(c) ==
  /\ pc[c] = "profile"
  /\ profile' = Project(c)
  /\ Goto(c, "config")
  /\ UNCHANGED <<cloud, locked, user, activeProject, config, consent, local, fate, past, counts>>

\* getActiveAccount and saveConfig.
SaveConfig(c) ==
  /\ pc[c] = "config"
  /\ config' = [project |-> Project(c), account |-> user]
  /\ Goto(c, "done")
  /\ UNCHANGED <<cloud, locked, user, activeProject, profile, consent, local, fate, past, counts>>

\* getActiveAccount takes a failing gcloud for no account.
SaveConfigBlind(c) ==
  /\ pc[c] = "config"
  /\ Fault(c)
  /\ config' = [project |-> Project(c), account |-> None]
  /\ Goto(c, "done")
  /\ UNCHANGED <<cloud, locked, user, activeProject, profile, consent, local, alone, held, past,
                 starts, hands>>

\* The call took effect, and its answer is lost: init ends with an error.
InitCallLost(c) ==
  /\ \/ pc[c] = "create"   /\ CreateEffect(c)
     \/ pc[c] = "activate" /\ ActivateEffect(c)
     \/ pc[c] = "link"     /\ LinkEffect(c)
     \/ pc[c] = "apis"     /\ ApisEffect(c)
     \/ pc[c] = "bind"     /\ BindEffect(c)
  /\ Fault(c)
  /\ Goto(c, "failed")
  /\ UNCHANGED <<consent, local, alone, held, past, starts, hands>>

InitStep(c) ==
  \/ SelectProject(c) \/ CreateProject(c) \/ CreateRefused(c) \/ ActivateProject(c)
  \/ ReadBilling(c) \/ ReadLock(c) \/ ListBudgets(c) \/ LinkBilling(c) \/ Confirm(c)
  \/ EnableApis(c) \/ ProposeRoles(c) \/ ApplyBinding(c) \/ SaveProfile(c) \/ SaveConfig(c)

InitFault(c) == ListBudgetsUnseen(c) \/ SaveConfigBlind(c) \/ InitCallLost(c)
=============================================================================
