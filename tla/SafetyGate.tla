----------------------------- MODULE SafetyGate -----------------------------
(***************************************************************************)
(* The gate in front of every live operation: evaluateSafety, as the       *)
(* commands deploy, secret set, project delete and project undelete call   *)
(* it, next to the commands that go their own way (firebase deploy, which  *)
(* checks the cost lock and the budget itself, and secret delete, which    *)
(* asks for --yes only).                                                   *)
(*                                                                         *)
(* A command evaluates one operation: the cost lock, the trust profile, an *)
(* approval when the profile asks for one, the budget guard, and then the  *)
(* approval once more to consume it.  Each of those reads a file or the    *)
(* cloud, and everything else goes on in between: people approve and       *)
(* reject (ApprovalQueue), the cost lock is set and lifted (CostLock), the *)
(* budget posture changes, and processes die.                              *)
(***************************************************************************)
EXTENDS CostLock, TrustPolicy, Naturals

CONSTANTS Requests, NoAccount, Ids, Approvers, Gates, Ttl, MaxTime, None,
          Project,   \* the project of the workspace, which every operation targets
          Profiles,  \* the profiles .omg/trust.yaml may hold
          Commands   \* the commands people run: [name, performs, argsHash, account]

Names == {"deploy", "secret:set", "secret:delete", "firebase:deploy",
          "project:delete", "project:undelete"}

\* The actions a command may perform: a deploy performs one for each target of the
\* plan, any other command its only one.
ActionsOf(name) ==
  CASE name = "deploy"           -> {"deploy.cloud-run", "deploy.firebase-hosting"}
    [] name = "firebase:deploy"  -> {"deploy.firebase-hosting"}
    [] name = "secret:set"       -> {"secret.set"}
    [] name = "secret:delete"    -> {"secret.delete"}
    [] name = "project:delete"   -> {"gcp.project.delete"}
    [] name = "project:undelete" -> {"gcp.project.undelete"}

\* The action a command is gated as: a plan with a backend is the deployment of
\* that backend, whatever else the plan releases.
GatedAction(c) ==
  IF c.name # "deploy" \/ "deploy.cloud-run" \notin c.performs
    THEN CHOOSE a \in c.performs : TRUE
    ELSE "deploy.cloud-run"

RequestOf(c) == [action |-> GatedAction(c), argsHash |-> c.argsHash, account |-> c.account]

ASSUME GateAssumption ==
  /\ Project \in Projects
  /\ \A c \in Commands : /\ c.name \in Names
                         /\ c.performs # {} /\ c.performs \subseteq ActionsOf(c.name)
                         /\ RequestOf(c) \in Requests
  /\ \A p \in Profiles : p.rules \in [{"L0", "L1", "L2", "L3"} -> Rulings]

VARIABLES file, cmd, now, issued, approvedIds, rejectedIds, uses,  \* ApprovalQueue
          profile,  \* what .omg/trust.yaml holds
          budget,   \* does the cloud show a configured budget guard?
          eval      \* eval[g]: the evaluation the command of g is in

queueVars == <<file, cmd, now, issued, approvedIds, rejectedIds, uses>>
vars      == <<queueVars, lockVars, profile, budget, eval>>

Queue == INSTANCE ApprovalQueue WITH Overlap <- TRUE

\* What ApprovalRecords and ApprovalQueue ask of their constants.
ASSUME GateQueueAssumption ==
  /\ \A r \in Requests : r = [action |-> r.action, argsHash |-> r.argsHash, account |-> r.account]
  /\ Ttl \in Nat
  /\ MaxTime \in Nat
  /\ Approvers \cap Gates = {}
  /\ None \notin Queue!Approval /\ Torn \notin Queue!Approval /\ None # Torn

\* An evaluation: where it stands, the command, the approval id it was given,
\* whether confirmation counts as given (--yes, or a command whose output is not
\* JSON), why it was blocked, whether it has consumed the approval, and whether
\* the project has been held locked ever since it began.
NoEval == [phase |-> "none"]

Phases == {"survey", "lock", "policy", "asking", "checking", "audit", "consuming",
           "execute", "blocked"}
Reasons == {"none", "lock", "policy", "approval", "budget", "other"}

Evaluation ==
  [phase : Phases, command : Commands, id : Ids \cup {None}, yes : BOOLEAN,
   why : Reasons, spent : BOOLEAN, barred : BOOLEAN]

Busy(g)     == eval[g].phase # "none"
Name(g)     == eval[g].command.name
Performs(g) == eval[g].command.performs
Request(g)  == RequestOf(eval[g].command)
Action(g)   == Request(g).action
Budgeted(g) == RequiresBudget(Action(g))

\* The profile a command evaluates its operation against.
ProfileOf(name, action) ==
  IF name \in {"project:delete", "project:undelete"} THEN ProjectL3Profile(action)
                                                     ELSE profile

\* firebase deploy and secret delete ask no profile.
Ungoverned(name) == name \in {"firebase:deploy", "secret:delete"}

RulingOf(g) ==
  IF Ungoverned(Name(g)) THEN "auto" ELSE Ruling(ProfileOf(Name(g), Action(g)), Action(g))

Enter(g, phase)  == eval' = [eval EXCEPT ![g].phase = phase]
Block(g, why)    == eval' = [eval EXCEPT ![g] = [@ EXCEPT !.phase = "blocked", !.why = why]]

\* Mutant: the approval is consumed by the first check, before the budget is known.
FirstCheckAtOnce(g) == "consume"

\* Mutant: the approval of an operation without a budget is never consumed.
FirstCheckOnly(g) == "probe"

\* shouldDeferApprovalConsumption: a budgeted operation only probes at first.
FirstCheck(g) == IF Budgeted(g) THEN "probe" ELSE "consume"

\* Mutant: a lock file that does not parse is taken for one without locks.
BlockedByUnlessTorn(project) == LockVerdict(project) = "locked"

\* A lock blocks the operation, and a file that cannot be read fails it.
BlockedBy(project) == LockVerdict(project) # "clear"

-----------------------------------------------------------------------------

Init ==
  /\ Queue!Init
  /\ LockInit
  /\ profile \in Profiles
  /\ budget \in BOOLEAN
  /\ eval = [g \in Gates |-> NoEval]

\* Where a command enters: project commands survey the project first, secret
\* delete goes by --yes, a human may cancel firebase deploy; evaluateSafety wants
\* an adapter that may execute.
FirstPhase(c, yes) ==
  CASE c.name \in {"project:delete", "project:undelete"} -> "survey"
    [] c.name = "secret:delete"   -> IF yes THEN "execute" ELSE "blocked"
    [] c.name = "firebase:deploy" -> IF yes THEN "lock" ELSE "blocked"
    [] ~AdapterEnabled(GatedAction(c)) -> "blocked"
    [] RequiresBudget(GatedAction(c)) -> "lock"
    [] OTHER -> "policy"

\* Project commands have no --yes, the commands without a profile no --approval.
Begin(g, c, id, yes) ==
  /\ ~Busy(g)
  /\ c.name \in {"project:delete", "project:undelete"} => ~yes
  /\ Ungoverned(c.name) => id = None
  /\ eval' = [eval EXCEPT ![g] =
                [phase |-> FirstPhase(c, yes), command |-> c, id |-> id, yes |-> yes,
                 why |-> "none", spent |-> FALSE, barred |-> Project \in held]]
  /\ UNCHANGED <<queueVars, lockVars, profile, budget>>

\* auditProject and the active account let the command on, or turn it away.
Survey(g) ==
  /\ eval[g].phase = "survey"
  /\ Enter(g, "policy") \/ Block(g, "other")
  /\ UNCHANGED <<queueVars, lockVars, profile, budget>>

CheckLock(g) ==
  /\ eval[g].phase = "lock"
  /\ IF BlockedBy(Project) THEN Block(g, "lock")
     ELSE Enter(g, IF Ungoverned(Name(g)) THEN "audit" ELSE "policy")
  /\ UNCHANGED <<queueVars, lockVars, profile, budget>>

\* The profile denies, wants a --yes that is missing, or is satisfied.
ApplyRule(g) ==
  /\ eval[g].phase = "policy"
  /\ RulingOf(g) # "require_approval"
  /\ IF RulingOf(g) = "deny" \/ (RulingOf(g) = "require_confirm" /\ ~eval[g].yes)
       THEN Block(g, "policy")
       ELSE Enter(g, IF Budgeted(g) THEN "audit" ELSE "execute")
  /\ UNCHANGED <<queueVars, lockVars, profile, budget>>

\* Without an approval id the command creates the approval it needs.
AskApproval(g) ==
  /\ eval[g].phase = "policy"
  /\ RulingOf(g) = "require_approval"
  /\ eval[g].id = None
  /\ \E i \in Ids : Queue!StartCreate(g, i, Request(g))
  /\ Enter(g, "asking")
  /\ UNCHANGED <<lockVars, profile, budget>>

CheckApproval(g) ==
  /\ eval[g].phase = "policy"
  /\ RulingOf(g) = "require_approval"
  /\ eval[g].id # None
  /\ Queue!StartCheck(g, FirstCheck(g), eval[g].id, Request(g))
  /\ Enter(g, "checking")
  /\ UNCHANGED <<lockVars, profile, budget>>

\* What checkPermission or createApproval answered.
Answer(g) ==
  /\ eval[g].phase \in {"asking", "checking", "consuming"}
  /\ Queue!Return(g)
  /\ LET granted == cmd[g].step = "done"
         phase   == eval[g].phase
     IN  IF phase = "asking" \/ ~granted
           THEN Block(g, "approval")
           ELSE eval' = [eval EXCEPT ![g] = [@ EXCEPT
                  !.phase = IF phase = "checking" /\ Budgeted(g) THEN "audit" ELSE "execute",
                  !.spent = cmd[g].kind = "consume"]]
  /\ UNCHANGED <<lockVars, profile, budget>>

\* auditBillingGuard blocks, or the operation may go ahead: with an approval in
\* play, only after consuming it.
AuditBlocks(g) ==
  /\ eval[g].phase = "audit"
  /\ ~budget
  /\ Block(g, "budget")
  /\ UNCHANGED <<queueVars, lockVars, profile, budget>>

AuditPasses(g) ==
  /\ eval[g].phase = "audit"
  /\ budget
  /\ RulingOf(g) # "require_approval"
  /\ Enter(g, "execute")
  /\ UNCHANGED <<queueVars, lockVars, profile, budget>>

ConsumeApproval(g) ==
  /\ eval[g].phase = "audit"
  /\ budget
  /\ RulingOf(g) = "require_approval"
  /\ Queue!StartCheck(g, "consume", eval[g].id, Request(g))
  /\ Enter(g, "consuming")
  /\ UNCHANGED <<lockVars, profile, budget>>

\* The operation runs, or the command reports why it does not.
End(g) ==
  /\ eval[g].phase \in {"execute", "blocked"}
  /\ eval' = [eval EXCEPT ![g] = NoEval]
  /\ UNCHANGED <<queueVars, lockVars, profile, budget>>

\* A command dies, while it talks to the approval files or in between.
Die(g) ==
  /\ Busy(g)
  /\ Queue!Crash(g) \/ (~Queue!Running(g) /\ UNCHANGED queueVars)
  /\ eval' = [eval EXCEPT ![g] = NoEval]
  /\ UNCHANGED <<lockVars, profile, budget>>

GateStep(g) ==
  \/ Survey(g) \/ CheckLock(g) \/ ApplyRule(g)
  \/ AskApproval(g) \/ CheckApproval(g) \/ Answer(g)
  \/ AuditBlocks(g) \/ AuditPasses(g) \/ ConsumeApproval(g)
  \/ End(g) \/ Die(g)

\* A step of the approval files, by a person's command or by a gate's.
QueueStep ==
  /\ \/ \E p \in Approvers, kind \in Queue!HumanKinds, i \in Ids : Queue!StartDecision(p, kind, i)
     \/ \E p \in Approvers \cup Gates : Queue!Step(p)
     \/ \E p \in Approvers : Queue!Return(p) \/ Queue!Crash(p)
     \/ Queue!Tick
  /\ UNCHANGED <<lockVars, profile, budget, eval>>

\* A step of the cost lock.  Asking to lift the lock ends the bar on a command.
LockingStep ==
  /\ LockNext
  /\ eval' = [g \in Gates |->
                IF Busy(g) THEN [eval[g] EXCEPT !.barred = @ /\ Project \in held']
                           ELSE eval[g]]
  /\ UNCHANGED <<queueVars, profile, budget>>

\* Someone configures a budget, or removes it.
BudgetChanges ==
  /\ budget' = ~budget
  /\ UNCHANGED <<queueVars, lockVars, profile, eval>>

Next ==
  \/ \E g \in Gates, c \in Commands, id \in Ids \cup {None}, yes \in BOOLEAN :
       Begin(g, c, id, yes)
  \/ \E g \in Gates : GateStep(g)
  \/ QueueStep
  \/ LockingStep
  \/ BudgetChanges

Spec == Init /\ [][Next]_vars

-----------------------------------------------------------------------------

GateTypeOK ==
  /\ Queue!TypeOK
  /\ LockTypeOK
  /\ profile \in Profiles
  /\ budget \in BOOLEAN
  /\ eval \in [Gates -> {NoEval} \cup Evaluation]

Executing(g) == eval[g].phase = "execute"

\* A project that was locked before a command began, and has stayed locked, stops
\* the command ahead of its budget audit: a cost-bearing operation never gets past
\* the cost lock, whatever else is locked or unlocked and whoever dies half-way.
LockedStaysBlocked ==
  \A g \in Gates :
    eval[g].phase \in {"audit", "consuming", "execute"} /\ Budgeted(g) => ~eval[g].barred

\* A command that the cost lock or the budget guard blocks leaves its approval to
\* be used later: it has not consumed it.
BlockedKeepsApproval ==
  \A g \in Gates :
    eval[g].phase = "blocked" /\ eval[g].why \in {"lock", "budget"} => ~eval[g].spent

\* An operation of deploy, secret set, project delete or project undelete that
\* needs an approval runs only after consuming one, which a person had granted
\* for the very action, arguments and account it is gated as.
ConsentedExecution ==
  \A g \in Gates :
    Executing(g) /\ RulingOf(g) = "require_approval" =>
      /\ eval[g].spent
      /\ uses[eval[g].id] > 0
      /\ eval[g].id \in approvedIds
      /\ issued[eval[g].id].request.action = Action(g)
      /\ issued[eval[g].id].request.argsHash = Request(g).argsHash
      /\ issued[eval[g].id].request.account \in {NoAccount, Request(g).account}

\* Of what deploy and secret set perform, .omg/trust.yaml may deny one thing only
\* and see it done: the hosting release of a plan that has a backend as well.
GovernedDenyHolds ==
  \A g \in Gates :
    Executing(g) /\ Name(g) \in {"deploy", "secret:set"} =>
      Performs(g) \cap profile.deny \subseteq
        (IF "deploy.cloud-run" \in Performs(g) THEN {"deploy.firebase-hosting"} ELSE {})

\* What .omg/trust.yaml denies does not run at all.
DenyListHolds == \A g \in Gates : Executing(g) => Performs(g) \cap profile.deny = {}
=============================================================================
