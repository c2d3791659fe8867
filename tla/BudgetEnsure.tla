---------------------------- MODULE BudgetEnsure ----------------------------
(***************************************************************************)
(* omg budget ensure and omg budget enable-api.  ensure audits the budgets *)
(* of the project's billing account, plans what is to be done, has it      *)
(* approved, calls the Budget API and audits once more.  The live call     *)
(* goes through an executor the caller injects; without one the command    *)
(* ends at once.                                                           *)
(***************************************************************************)
EXTENDS BillingCloud

\* auditBillingGuard reads the billing of the project first; for ensure as for
\* init, whose run is blocked when there is none.
DescribeBilling(c) ==
  /\ pc[c] \in {"describe", "redescribe"}
  /\ project[Project(c)] = "active"
  /\ look' = [look EXCEPT ![c] = billing[Project(c)]]
  /\ Goto(c, CASE pc[c] = "redescribe" -> "verify"
               [] pc[c] = "describe" /\ req[c].cmd = "ensure" -> "plan"
               [] pc[c] = "describe" /\ req[c].cmd = "init" ->
                    IF billing[Project(c)] = None THEN "blocked" ELSE "budgets")
  /\ UNCHANGED <<cloud, machine, consent, req, seen, plan, who, bound, using, fate, past, counts>>

DescribeNoProject(c) ==
  /\ pc[c] \in {"describe", "redescribe"}
  /\ project[Project(c)] # "active"
  /\ Goto(c, "failed")
  /\ UNCHANGED <<cloud, machine, consent, local, fate, past, counts>>

\* find, over a list that was read or not.
Found(c, visible, id) ==
  LET matches == IF visible THEN Named(look[c], DisplayName(req[c].policy)) ELSE {}
  IN  id \in matches \/ (matches = {} /\ id = None)

TheBudget(id) == IF id = None THEN NoBudget ELSE budgets[id]

\* A run between its plan to create a budget and its call.
MayCreate(c, name) ==
  /\ pc[c] \in {"approve", "consume", "mutate"}
  /\ plan[c].action = "create"
  /\ DisplayName(req[c].policy) = name

\* Mutant: a run whose plan is blocked audits again until it is not.
AfterPlanRetried(c, action) ==
  CASE req[c].how = "dry-run" -> "done"
    [] req[c].how = "live" /\ action = "blocked" -> "describe"
    [] req[c].how = "live" /\ action = "none" -> "redescribe"
    [] req[c].how = "live" /\ action \in {"create", "update"} -> "approve"

\* Where the plan leads: a blocked mutation ends the run, one without anything
\* to do goes on to the verification, the others need an approval.
AfterPlan(c, action) ==
  CASE req[c].how = "dry-run" -> "done"
    [] req[c].how = "live" /\ action = "blocked" -> "blocked"
    [] req[c].how = "live" /\ action = "none" -> "redescribe"
    [] req[c].how = "live" /\ action \in {"create", "update"} -> "approve"

PlanFrom(c, visible) ==
  \E id \in BudgetIds \cup {None} :
    LET policy == req[c].policy
        name   == DisplayName(policy)
        action == PlanBudgetEnsure(look[c], visible, TheBudget(id), policy)
    IN  /\ Found(c, visible, id)
        /\ plan' = [plan EXCEPT ![c] = [action |-> action, id |-> id]]
        /\ Goto(c, AfterPlan(c, action))
        /\ raced' = IF action = "create" /\ \E d \in Clients \ {c} : MayCreate(d, name)
                    THEN raced \cup {name} ELSE raced
        /\ UNCHANGED <<cloud, machine, consent, req, seen, look, who, bound, using, budgeted,
                       opened, made, removed>>

PlanEnsure(c) ==
  /\ pc[c] = "plan"
  /\ PlanFrom(c, TRUE)
  /\ UNCHANGED <<fate, counts>>

\* The budgets cannot be listed.
PlanEnsureUnseen(c) ==
  /\ pc[c] = "plan"
  /\ Fault(c)
  /\ PlanFrom(c, FALSE)
  /\ UNCHANGED <<alone, held, starts, hands>>

\* Another command has loaded the approval and not yet saved it as consumed.
LoadedBeside(c, approval) ==
  \E d \in Clients \ {c} : pc[d] = "consume" /\ using[d] = approval

\* requireBudgetEnsureApproval: checkPermission loads an approval of this policy, by
\* hash, for the account gcloud has now.
LoadApproval(c) ==
  /\ pc[c] = "approve"
  /\ \E approval \in granted :
       /\ approval.of = <<req[c].policy, user>>
       /\ using' = [using EXCEPT ![c] = approval]
       /\ shared' = IF LoadedBeside(c, approval) THEN shared \cup {approval} ELSE shared
  /\ Goto(c, "consume")
  /\ UNCHANGED <<cloud, machine, asked, granted, grants, spent, req, seen, look, plan, who, bound,
                 fate, past, counts>>

\* Mutant: the approval is not saved as consumed.
ConsumeNothing(c) ==
  /\ pc[c] = "consume"
  /\ Goto(c, "mutate")
  /\ UNCHANGED <<cloud, machine, consent, local, fate, past, counts>>

\* It saves the copy it has loaded as consumed, whatever has become of the file.
ConsumeApproval(c) ==
  /\ pc[c] = "consume"
  /\ granted' = granted \ {using[c]}
  /\ Goto(c, "mutate")
  /\ UNCHANGED <<cloud, machine, asked, grants, spent, shared, local, fate, past, counts>>

AskApproval(c) ==
  /\ pc[c] = "approve"
  /\ asked' = asked \cup {<<req[c].policy, user>>}
  /\ Goto(c, "blocked")
  /\ UNCHANGED <<cloud, machine, granted, grants, spent, shared, local, fate, past, counts>>

\* Denied by the profile, or an approval of other arguments or another account.
GateRefuses(c) ==
  /\ pc[c] = "approve"
  /\ Goto(c, "blocked")
  /\ UNCHANGED <<cloud, machine, consent, local, fate, past, counts>>

\* The Budget API does what the plan says; a budget to be patched is still there.
MutateEffect(c) ==
  /\ spent' = spent \cup {using[c]}
  /\ \E id \in BudgetIds :
       \/ /\ plan[c].action = "create"
          /\ NewId(id)
          /\ budgets' = [budgets EXCEPT ![id] = Created(look[c], req[c].policy)]
          /\ made' = made \cup {id}
          /\ budgeted' = budgeted \cup {look[c]}
       \/ /\ plan[c].action = "update"
          /\ id = plan[c].id
          /\ budgets[id] # NoBudget
          /\ budgets' = [budgets EXCEPT ![id] = Patched(budgets[id], req[c].policy)]
          /\ UNCHANGED <<made, budgeted>>
  /\ UNCHANGED <<project, billing, apis, bindings, machine, asked, granted, grants, shared, opened,
                 raced, removed>>

Mutate(c) ==
  /\ pc[c] = "mutate"
  /\ MutateEffect(c)
  /\ Goto(c, "redescribe")
  /\ UNCHANGED <<local, fate, counts>>

\* The call took effect and its answer is lost, or is not a budget: the command
\* reports a failed transport, and that nothing was changed.
MutateLost(c) ==
  /\ pc[c] = "mutate"
  /\ MutateEffect(c)
  /\ Fault(c)
  /\ Goto(c, "failed")
  /\ UNCHANGED <<local, alone, held, starts, hands>>

\* The budget is gone, BUDGET_API_NOT_FOUND.
MutateNotFound(c) ==
  /\ pc[c] = "mutate"
  /\ plan[c].action = "update"
  /\ budgets[plan[c].id] = NoBudget
  /\ Goto(c, "failed")
  /\ UNCHANGED <<cloud, machine, consent, local, fate, past, counts>>

\* BUDGET_ENSURE_POST_VERIFY_FAILED unless the second audit shows the policy.
VerifyEnsure(c) ==
  /\ pc[c] = "verify"
  /\ \E id \in BudgetIds \cup {None} :
       /\ Found(c, TRUE, id)
       /\ Goto(c, IF VerifyPostState(look[c], TRUE, TheBudget(id), req[c].policy)
                  THEN "done" ELSE "failed")
  /\ UNCHANGED <<cloud, machine, consent, local, fate, past, counts>>

\* runBudgetEnableApi
EnableEffect(c) ==
  /\ apis' = [apis EXCEPT ![Project(c)] = @ \cup {"budget"}]
  /\ UNCHANGED <<project, billing, bindings, budgets, machine>>

EnableBudgetApi(c) ==
  /\ pc[c] = "enable"
  /\ EnableEffect(c)
  /\ Goto(c, "done")
  /\ UNCHANGED <<consent, local, fate, past, counts>>

EnableLost(c) ==
  /\ pc[c] = "enable"
  /\ EnableEffect(c)
  /\ Fault(c)
  /\ Goto(c, "failed")
  /\ UNCHANGED <<consent, local, alone, held, past, starts, hands>>

EnsureStep(c) ==
  \/ DescribeBilling(c) \/ DescribeNoProject(c) \/ PlanEnsure(c)
  \/ LoadApproval(c) \/ ConsumeApproval(c) \/ AskApproval(c) \/ GateRefuses(c)
  \/ Mutate(c) \/ MutateNotFound(c) \/ VerifyEnsure(c) \/ EnableBudgetApi(c)

EnsureFault(c) == PlanEnsureUnseen(c) \/ MutateLost(c) \/ EnableLost(c)
=============================================================================
