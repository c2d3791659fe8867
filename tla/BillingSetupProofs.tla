------------------------- MODULE BillingSetupProofs -------------------------
(***************************************************************************)
(* Proofs about BillingSetup, for any number of clients, projects, billing *)
(* accounts and budgets: types, that billing is linked only behind a       *)
(* budget, that an account nobody opened stays unused, and that a locked   *)
(* project is not touched.                                                 *)
(***************************************************************************)
EXTENDS BillingSetup, FiniteSetTheorems, TLAPS

AllSteps == InitSteps \cup EnsureSteps \cup Ends \cup {"enable", "idle"}

\* The steps before the roles are bound.
BeforeBind == InitSteps \ {"bind", "profile", "config"}

\* What a client remembers fits the step it is at; its roles are counted from 0.
FitsAt(step, r, l, todo, account, n, u) ==
  /\ \/ step = "idle"
     \/ step \in Ends /\ r # NoRequest
     \/ step \in InitSteps /\ r.cmd = "init"
     \/ step \in EnsureSteps /\ r.cmd = "ensure"
     \/ step = "enable" /\ r.cmd = "enable-api"
  /\ step = "bind" => account \in Users /\ n < NumRoles
  /\ step \in {"budgets", "approve", "consume", "mutate"} => l \in BillingAccounts
  /\ step \in {"approve", "consume", "mutate"} => todo.action \in {"create", "update"}
  /\ step \in {"approve", "consume", "mutate"} /\ todo.action = "update" => todo.id # None
  /\ step \in {"consume", "mutate"} => u \in Approvals
  /\ step \in EnsureSteps /\ r.cmd = "ensure" => r.how \in {"dry-run", "live"}
  /\ step = "idle" \/ (step \in BeforeBind /\ r.cmd = "init") => n = 0

Fits(c) == FitsAt(pc[c], req[c], look[c], plan[c], who[c], bound[c], using[c])

TypeInv ==
  /\ CloudTypeOK /\ MachineTypeOK /\ ClientTypeOK /\ grants \in Nat
  /\ \A c \in Clients : Fits(c)

LEMMA TypeInvImplies == TypeInv => SetupTypeOK
  BY DEF TypeInv, SetupTypeOK, Fits, FitsAt, AtOwnStep

LEMMA TypeInit == Init => TypeInv
<1> SUFFICES ASSUME Init PROVE TypeInv
  OBVIOUS
<1>1. PICK b \in Beginnings :
        /\ project = b.project
        /\ billing = b.billing
        /\ user = b.user
        /\ granted = b.granted
        /\ grants = Cardinality(b.granted)
  BY DEF Init
<1>2. /\ b.project \in [Projects -> ProjectStates]
      /\ b.billing \in [Projects -> BillingAccounts \cup {None}]
      /\ b.user \in Users
      /\ b.granted \in SUBSET Approvals
      /\ IsFiniteSet(b.granted)
  BY <1>1, CloudAssumption DEF CloudAssumption
<1>3. CloudTypeOK
  BY <1>1, <1>2 DEF Init, CloudTypeOK
<1>4. MachineTypeOK
  BY <1>1, <1>2 DEF Init, MachineTypeOK
<1>5. ClientTypeOK
  BY CloudAssumption DEF Init, ClientTypeOK, CloudAssumption, Plans, NoPlan
<1>6. \A c \in Clients : Fits(c)
  BY DEF Init, Fits, FitsAt, Ends, InitSteps, EnsureSteps
<1>7. grants \in Nat
  BY <1>1, <1>2, FS_CardinalityType
<1>8. QED
  BY <1>3, <1>4, <1>5, <1>6, <1>7 DEF TypeInv

-----------------------------------------------------------------------------

(* What the clients remember. *)

\* Client c moves, the others stay where they are.
Moved(c) ==
  /\ pc' = [pc EXCEPT ![c] = pc'[c]] /\ req' = [req EXCEPT ![c] = req'[c]]
  /\ seen' = [seen EXCEPT ![c] = seen'[c]] /\ look' = [look EXCEPT ![c] = look'[c]]
  /\ plan' = [plan EXCEPT ![c] = plan'[c]] /\ who' = [who EXCEPT ![c] = who'[c]]
  /\ bound' = [bound EXCEPT ![c] = bound'[c]] /\ using' = [using EXCEPT ![c] = using'[c]]
  /\ pc'[c] \in AllSteps /\ req'[c] \in Requests \cup {NoRequest}
  /\ seen'[c] \in BillingAccounts \cup {None} /\ look'[c] \in BillingAccounts \cup {None}
  /\ plan'[c] \in Plans /\ who'[c] \in Users \cup {None} /\ bound'[c] \in 0..NumRoles
  /\ using'[c] \in Approvals \cup {None}
  /\ FitsAt(pc'[c], req'[c], look'[c], plan'[c], who'[c], bound'[c], using'[c])

LEMMA MovedFits ==
  ASSUME TypeInv, NEW c \in Clients, Moved(c)
  PROVE  ClientTypeOK' /\ \A d \in Clients : Fits(d)'
<1>1. ClientTypeOK'
  BY DEF TypeInv, ClientTypeOK, Moved, AllSteps
<1>2. ASSUME NEW d \in Clients PROVE Fits(d)'
  <2>1. CASE d = c
    BY <2>1 DEF Moved, Fits
  <2>2. CASE d # c
    <3>1. /\ pc'[d] = pc[d] /\ req'[d] = req[d] /\ look'[d] = look[d]
          /\ plan'[d] = plan[d] /\ who'[d] = who[d] /\ bound'[d] = bound[d]
          /\ using'[d] = using[d]
      BY <2>2 DEF TypeInv, ClientTypeOK, Moved
    <3>2. Fits(d)
      BY DEF TypeInv
    <3>3. QED
      BY <3>1, <3>2 DEF Fits
  <2>3. QED
    BY <2>1, <2>2
<1>3. QED
  BY <1>1, <1>2

\* Most steps change nothing but the step.
LEMMA StepMoves ==
  ASSUME TypeInv, NEW c \in Clients, NEW step \in AllSteps, Goto(c, step), UNCHANGED local,
         FitsAt(step, req[c], look[c], plan[c], who[c], bound[c], using[c])
  PROVE  Moved(c)
<1>1. /\ pc'[c] = step /\ pc' = [pc EXCEPT ![c] = pc'[c]]
  BY DEF Goto, TypeInv, ClientTypeOK
<1>2. /\ req' = [req EXCEPT ![c] = req'[c]] /\ seen' = [seen EXCEPT ![c] = seen'[c]]
      /\ look' = [look EXCEPT ![c] = look'[c]] /\ plan' = [plan EXCEPT ![c] = plan'[c]]
      /\ who' = [who EXCEPT ![c] = who'[c]] /\ bound' = [bound EXCEPT ![c] = bound'[c]]
      /\ using' = [using EXCEPT ![c] = using'[c]]
  BY DEF TypeInv, ClientTypeOK, local
<1>3. /\ req'[c] \in Requests \cup {NoRequest} /\ seen'[c] \in BillingAccounts \cup {None}
      /\ look'[c] \in BillingAccounts \cup {None} /\ plan'[c] \in Plans
      /\ who'[c] \in Users \cup {None} /\ bound'[c] \in 0..NumRoles
      /\ using'[c] \in Approvals \cup {None}
  BY DEF TypeInv, ClientTypeOK, local
<1>4. FitsAt(pc'[c], req'[c], look'[c], plan'[c], who'[c], bound'[c], using'[c])
  BY <1>1 DEF local
<1>5. QED
  BY <1>1, <1>2, <1>3, <1>4 DEF Moved
LEMMA RequestKinds ==
  ASSUME NEW r \in Requests
  PROVE  /\ r.cmd \in {"init", "ensure", "enable-api"} /\ r # NoRequest
         /\ r.project \in Projects
         /\ r.cmd = "init" => r \in InitRequests /\ r.account \in BillingAccounts
         /\ r.cmd = "ensure" => r \in EnsureRequests /\ r.policy \in Policies
         /\ r.cmd = "enable-api" => r \in EnableRequests
  BY CloudAssumption
     DEF CloudAssumption, InitRequests, EnsureRequests, EnableRequests, NoRequest

\* A client that is at a step has a request, of the kind of its step.
LEMMA RequestOf ==
  ASSUME TypeInv, NEW c \in Clients, pc[c] \notin {"idle"} \cup Ends
  PROVE  /\ req[c] \in Requests
         /\ \/ pc[c] \in InitSteps /\ req[c].cmd = "init"
            \/ pc[c] \in EnsureSteps /\ req[c].cmd = "ensure"
            \/ pc[c] = "enable" /\ req[c].cmd = "enable-api"
<1>1. Fits(c) /\ req[c] \in Requests \cup {NoRequest}
  BY DEF TypeInv, ClientTypeOK
<1>2. QED
  BY <1>1 DEF Fits, FitsAt, NoRequest

LEMMA InitMoves ==
  ASSUME TypeInv, NEW c \in Clients, InitStep(c) \/ InitFault(c)
  PROVE  Moved(c)
<1> USE DEF AllSteps, InitSteps, EnsureSteps, Ends, BeforeBind
<1>0. /\ Fits(c) /\ pc[c] \in AllSteps
      /\ pc = [d \in Clients |-> pc[d]] /\ req = [d \in Clients |-> req[d]]
      /\ seen = [d \in Clients |-> seen[d]] /\ look = [d \in Clients |-> look[d]]
      /\ plan = [d \in Clients |-> plan[d]] /\ who = [d \in Clients |-> who[d]]
      /\ bound = [d \in Clients |-> bound[d]] /\ using = [d \in Clients |-> using[d]]
      /\ req[c] \in Requests \cup {NoRequest}
      /\ seen[c] \in BillingAccounts \cup {None} /\ look[c] \in BillingAccounts \cup {None}
      /\ plan[c] \in Plans /\ who[c] \in Users \cup {None} /\ bound[c] \in 0..NumRoles
      /\ using[c] \in Approvals \cup {None}
      /\ NumRoles \in Nat \ {0}
      /\ billing \in [Projects -> BillingAccounts \cup {None}] /\ user \in Users
  BY CloudAssumption DEF TypeInv, ClientTypeOK, CloudTypeOK, MachineTypeOK, CloudAssumption
<1>1. pc[c] \in InitSteps \ EnsureSteps =>
        /\ req[c] \in Requests /\ req[c].cmd = "init" /\ req[c].account \in BillingAccounts
        /\ req[c].project \in Projects
  BY RequestOf, RequestKinds
<1> USE DEF Fits, FitsAt
<1>2. CASE SelectProject(c)
  BY <1>0, <1>1, <1>2, StepMoves DEF SelectProject
<1>3. CASE CreateProject(c)
  BY <1>0, <1>1, <1>3, StepMoves DEF CreateProject
<1>4. CASE CreateRefused(c)
  BY <1>0, <1>1, <1>4, StepMoves, RequestKinds DEF CreateRefused
<1>5. CASE ActivateProject(c)
  BY <1>0, <1>1, <1>5, StepMoves DEF ActivateProject
<1>6. CASE ReadBilling(c)
  BY <1>0, <1>1, <1>6 DEF ReadBilling, Moved, Goto, Project
<1>7. CASE ReadLock(c)
  BY <1>0, <1>1, <1>7, RequestKinds, ZenonT(40) DEF ReadLock, Moved, Goto, GuardStep, local
<1>8. CASE ListBudgets(c)
  BY <1>0, <1>1, <1>8, StepMoves, RequestKinds DEF ListBudgets, AfterLink
<1>9. CASE ListBudgetsUnseen(c)
  BY <1>0, <1>1, <1>9, StepMoves, RequestKinds DEF ListBudgetsUnseen, AfterLink
<1>10. CASE LinkBilling(c)
  BY <1>0, <1>1, <1>10, StepMoves DEF LinkBilling, AfterLink
<1>11. CASE Confirm(c)
  BY <1>0, <1>1, <1>11, StepMoves, RequestKinds DEF Confirm
<1>12. CASE EnableApis(c)
  BY <1>0, <1>1, <1>12, StepMoves DEF EnableApis
<1>13. CASE ProposeRoles(c)
  <2>1. /\ pc' = [pc EXCEPT ![c] = "bind"] /\ who' = [who EXCEPT ![c] = user]
        /\ UNCHANGED <<req, seen, look, plan, bound, using>>
        /\ pc[c] = "account" /\ req[c].cmd = "init" /\ bound[c] = 0
    BY <1>0, <1>1, <1>13 DEF ProposeRoles, Goto
  <2>2. /\ pc'[c] = "bind" /\ who'[c] \in Users /\ bound'[c] = 0 /\ 0 < NumRoles
    BY <1>0, <2>1
  <2>3. FitsAt(pc'[c], req'[c], look'[c], plan'[c], who'[c], bound'[c], using'[c])
    BY <2>1, <2>2
  <2>4. QED
    BY <1>0, <2>1, <2>2, <2>3 DEF Moved
<1>14. CASE ApplyBinding(c)
  <2>1. /\ pc' = [pc EXCEPT ![c] = IF LastRole(bound[c] + 1) THEN "profile" ELSE "bind"]
        /\ bound' = [bound EXCEPT ![c] = bound[c] + 1]
        /\ UNCHANGED <<req, seen, look, plan, who, using>>
        /\ pc[c] = "bind" /\ req[c].cmd = "init" /\ bound[c] < NumRoles /\ who[c] \in Users
    BY <1>0, <1>1, <1>14 DEF ApplyBinding, Goto
  <2>2. /\ bound'[c] = bound[c] + 1 /\ bound'[c] \in 0..NumRoles
        /\ pc'[c] = "profile" \/ (pc'[c] = "bind" /\ bound'[c] < NumRoles)
    BY <1>0, <2>1 DEF LastRole
  <2>3. FitsAt(pc'[c], req'[c], look'[c], plan'[c], who'[c], bound'[c], using'[c])
    BY <2>1, <2>2
  <2>4. QED
    BY <1>0, <2>1, <2>2, <2>3 DEF Moved
<1>15. CASE SaveProfile(c)
  BY <1>0, <1>1, <1>15, StepMoves DEF SaveProfile
<1>16. CASE SaveConfig(c)
  BY <1>0, <1>1, <1>16, StepMoves, RequestKinds DEF SaveConfig
<1>17. CASE SaveConfigBlind(c)
  BY <1>0, <1>1, <1>17, StepMoves, RequestKinds DEF SaveConfigBlind
<1>18. CASE InitCallLost(c)
  BY <1>0, <1>1, <1>18, StepMoves, RequestKinds DEF InitCallLost
<1>19. QED
  BY <1>2, <1>3, <1>4, <1>5, <1>6, <1>7, <1>8, <1>9, <1>10, <1>11, <1>12, <1>13, <1>14, <1>15,
     <1>16, <1>17, <1>18 DEF InitStep, InitFault
LEMMA PlanKinds ==
  ASSUME NEW account \in BillingAccounts \cup {None}, NEW visible \in BOOLEAN,
         NEW id \in BudgetIds \cup {None}, NEW policy
  PROVE  LET action == PlanBudgetEnsure(account, visible, TheBudget(id), policy)
         IN  /\ action \in {"none", "create", "update", "blocked"}
             /\ action \in {"create", "update"} => account \in BillingAccounts
             /\ action = "update" => id # None
  BY PolicyAssumption
     DEF PlanBudgetEnsure, AuditBlocks, AuditRisk, TheBudget, PolicyAssumption

LEMMA EnsureMoves ==
  ASSUME TypeInv, NEW c \in Clients, EnsureStep(c) \/ EnsureFault(c)
  PROVE  Moved(c)
<1> USE DEF AllSteps, InitSteps, EnsureSteps, Ends, BeforeBind
<1>0. /\ Fits(c) /\ pc[c] \in AllSteps
      /\ pc = [d \in Clients |-> pc[d]] /\ req = [d \in Clients |-> req[d]]
      /\ seen = [d \in Clients |-> seen[d]] /\ look = [d \in Clients |-> look[d]]
      /\ plan = [d \in Clients |-> plan[d]] /\ who = [d \in Clients |-> who[d]]
      /\ bound = [d \in Clients |-> bound[d]] /\ using = [d \in Clients |-> using[d]]
      /\ req[c] \in Requests \cup {NoRequest}
      /\ seen[c] \in BillingAccounts \cup {None} /\ look[c] \in BillingAccounts \cup {None}
      /\ plan[c] \in Plans /\ who[c] \in Users \cup {None} /\ bound[c] \in 0..NumRoles
      /\ using[c] \in Approvals \cup {None}
      /\ billing \in [Projects -> BillingAccounts \cup {None}]
  BY CloudAssumption DEF TypeInv, ClientTypeOK, CloudTypeOK, CloudAssumption
<1>1. pc[c] \notin Ends \cup {"idle"} =>
        /\ req[c] \in Requests /\ req[c] # NoRequest /\ req[c].project \in Projects
        /\ pc[c] \in EnsureSteps \ InitSteps => req[c].cmd = "ensure"
        /\ pc[c] = "describe" => req[c].cmd \in {"init", "ensure"}
  BY RequestOf, RequestKinds
<1> USE DEF Fits, FitsAt
<1>2. CASE DescribeBilling(c)
  <2>1. PICK step : /\ look' = [look EXCEPT ![c] = billing[Project(c)]]
                    /\ pc' = [pc EXCEPT ![c] = step]
                    /\ UNCHANGED <<req, seen, plan, who, bound, using>>
                    /\ pc[c] \in {"describe", "redescribe"}
                    /\ step = CASE pc[c] = "redescribe" -> "verify"
                                [] pc[c] = "describe" /\ req[c].cmd = "ensure" -> "plan"
                                [] pc[c] = "describe" /\ req[c].cmd = "init" ->
                                     IF billing[Project(c)] = None THEN "blocked" ELSE "budgets"
    BY <1>2 DEF DescribeBilling, Goto
  <2>2. billing[Project(c)] \in BillingAccounts \cup {None}
    BY <1>0, <1>1, <2>1 DEF Project
  <2>3. pc'[c] = step /\ look'[c] = billing[Project(c)]
    BY <1>0, <2>1
  <2>4. CASE req[c].cmd = "ensure"
    <3>1. step \in {"verify", "plan"}
      BY <2>1, <2>4
    <3>2. FitsAt(pc'[c], req'[c], look'[c], plan'[c], who'[c], bound'[c], using'[c])
      <4>1. req[c].how \in {"dry-run", "live"}
        BY <1>0, <2>1, <2>4
      <4>2. QED
        BY <2>1, <2>3, <2>4, <3>1, <4>1
    <3>3. QED
      BY <1>0, <2>1, <2>2, <2>3, <3>1, <3>2 DEF Moved
  <2>5. CASE req[c].cmd = "init"
    <3>1. pc[c] = "describe" /\ bound[c] = 0
      BY <1>0, <1>1, <2>1, <2>5
    <3>2. step = IF billing[Project(c)] = None THEN "blocked" ELSE "budgets"
      BY <2>1, <2>5, <3>1
    <3>3. FitsAt(pc'[c], req'[c], look'[c], plan'[c], who'[c], bound'[c], using'[c])
      BY <1>1, <2>1, <2>2, <2>3, <2>5, <3>1, <3>2
    <3>4. QED
      BY <1>0, <2>1, <2>2, <2>3, <3>2, <3>3 DEF Moved
  <2>6. QED
    BY <1>1, <2>1, <2>4, <2>5
<1>3. CASE DescribeNoProject(c)
  BY <1>0, <1>1, <1>3, StepMoves DEF DescribeNoProject
<1>4. ASSUME NEW visible \in BOOLEAN, PlanFrom(c, visible), pc[c] = "plan"
      PROVE  Moved(c)
  <2>1. PICK id \in BudgetIds \cup {None} :
          LET action == PlanBudgetEnsure(look[c], visible, TheBudget(id), req[c].policy)
          IN  /\ plan' = [plan EXCEPT ![c] = [action |-> action, id |-> id]]
              /\ Goto(c, AfterPlan(c, action))
              /\ UNCHANGED <<req, seen, look, who, bound, using>>
    BY <1>4 DEF PlanFrom
  <2> DEFINE action == PlanBudgetEnsure(look[c], visible, TheBudget(id), req[c].policy)
  <2>2. /\ action \in {"none", "create", "update", "blocked"}
        /\ action \in {"create", "update"} => look[c] \in BillingAccounts
        /\ action = "update" => id # None
    BY <1>0, PlanKinds
  <2>3. /\ plan' = [plan EXCEPT ![c] = [action |-> action, id |-> id]]
        /\ pc' = [pc EXCEPT ![c] = AfterPlan(c, action)]
        /\ UNCHANGED <<req, seen, look, who, bound, using>>
    BY <2>1 DEF Goto
  <2> HIDE DEF action
  <2>4. req[c] \in EnsureRequests /\ req[c] # NoRequest /\ req[c].cmd = "ensure"
    BY <1>1, <1>4, RequestKinds
  <2>5. req[c].how \in {"dry-run", "live"}
    BY <1>0, <1>1, <1>4
  <2>6. /\ AfterPlan(c, action) \in {"done", "blocked", "redescribe", "approve"}
        /\ AfterPlan(c, action) = "approve" => action \in {"create", "update"}
    BY <2>2, <2>5 DEF AfterPlan
  <2>7. /\ pc'[c] = AfterPlan(c, action)
        /\ plan'[c] = [action |-> action, id |-> id] /\ plan'[c] \in Plans
    BY <1>0, <2>2, <2>3 DEF Plans
  <2>8. FitsAt(pc'[c], req'[c], look'[c], plan'[c], who'[c], bound'[c], using'[c])
    BY <2>2, <2>3, <2>4, <2>5, <2>6, <2>7
  <2>9. QED
    BY <1>0, <2>3, <2>6, <2>7, <2>8 DEF Moved
<1>5. CASE PlanEnsure(c) \/ PlanEnsureUnseen(c)
  BY <1>4, <1>5 DEF PlanEnsure, PlanEnsureUnseen
<1>6. CASE LoadApproval(c)
  <2>1. PICK approval \in granted : using' = [using EXCEPT ![c] = approval]
    BY <1>6 DEF LoadApproval
  <2>2. /\ pc[c] = "approve" /\ pc' = [pc EXCEPT ![c] = "consume"]
        /\ UNCHANGED <<req, seen, look, plan, who, bound>>
    BY <1>6 DEF LoadApproval, Goto
  <2>3. approval \in Approvals
    BY <2>1 DEF TypeInv, MachineTypeOK
  <2>4. pc'[c] = "consume" /\ using'[c] = approval
    BY <1>0, <2>1, <2>2
  <2>5. FitsAt(pc'[c], req'[c], look'[c], plan'[c], who'[c], bound'[c], using'[c])
    BY <1>0, <1>1, <2>2, <2>3, <2>4
  <2> QED
    BY <1>0, <2>1, <2>2, <2>3, <2>4, <2>5 DEF Moved
<1>16. CASE ConsumeApproval(c)
  BY <1>0, <1>1, <1>16, StepMoves DEF ConsumeApproval
<1>7. CASE AskApproval(c)
  BY <1>0, <1>1, <1>7, StepMoves DEF AskApproval
<1>8. CASE GateRefuses(c)
  BY <1>0, <1>1, <1>8, StepMoves DEF GateRefuses
<1>9. CASE Mutate(c)
  BY <1>0, <1>1, <1>9, StepMoves DEF Mutate
<1>10. CASE MutateLost(c)
  BY <1>0, <1>1, <1>10, StepMoves DEF MutateLost
<1>11. CASE MutateNotFound(c)
  BY <1>0, <1>1, <1>11, StepMoves DEF MutateNotFound
<1>12. CASE VerifyEnsure(c)
  BY <1>0, <1>1, <1>12, StepMoves DEF VerifyEnsure
<1>13. CASE EnableBudgetApi(c)
  BY <1>0, <1>13, RequestOf, RequestKinds, StepMoves DEF EnableBudgetApi
<1>14. CASE EnableLost(c)
  BY <1>0, <1>14, RequestOf, RequestKinds, StepMoves DEF EnableLost
<1>15. QED
  BY <1>2, <1>3, <1>5, <1>6, <1>7, <1>8, <1>9, <1>10, <1>11, <1>12, <1>13, <1>14, <1>16
     DEF EnsureStep, EnsureFault

LEMMA FateMoves ==
  ASSUME TypeInv, NEW c \in Clients,
         \/ \E r \in Requests : Start(c, r)
         \/ Finish(c) \/ Kill(c) \/ CallFails(c)
  PROVE  Moved(c)
<1>0. /\ Fits(c) /\ pc[c] \in AllSteps
      /\ pc = [d \in Clients |-> pc[d]] /\ req = [d \in Clients |-> req[d]]
      /\ seen = [d \in Clients |-> seen[d]] /\ look = [d \in Clients |-> look[d]]
      /\ plan = [d \in Clients |-> plan[d]] /\ who = [d \in Clients |-> who[d]]
      /\ bound = [d \in Clients |-> bound[d]] /\ using = [d \in Clients |-> using[d]]
      /\ seen[c] \in BillingAccounts \cup {None} /\ look[c] \in BillingAccounts \cup {None}
      /\ plan[c] \in Plans /\ who[c] \in Users \cup {None} /\ bound[c] \in 0..NumRoles
      /\ using[c] \in Approvals \cup {None}
      /\ NumRoles \in Nat
  BY CloudAssumption DEF TypeInv, ClientTypeOK, CloudAssumption, AllSteps
<1>1. ASSUME NEW r \in Requests, Start(c, r) PROVE Moved(c)
  <2>1. /\ pc[c] = "idle" /\ bound[c] = 0
        /\ pc' = [pc EXCEPT ![c] = FirstStep(r)] /\ req' = [req EXCEPT ![c] = r]
        /\ UNCHANGED <<seen, look, plan, who, bound, using>>
    BY <1>0, <1>1 DEF Start, Goto, Fits, FitsAt
  <2>2. pc'[c] = FirstStep(r) /\ req'[c] = r
    BY <1>0, <2>1
  <2>3. CASE r.cmd = "init"
    <3>1. FirstStep(r) = "list"
      BY <2>3 DEF FirstStep
    <3>2. FitsAt(pc'[c], req'[c], look'[c], plan'[c], who'[c], bound'[c], using'[c])
      BY <2>1, <2>2, <2>3, <3>1 DEF FitsAt, InitSteps, EnsureSteps
    <3>3. pc'[c] \in AllSteps
      BY <2>2, <3>1 DEF AllSteps, InitSteps
    <3>4. QED
      BY <1>0, <2>1, <2>2, <3>2, <3>3 DEF Moved
  <2>4. CASE r.cmd = "ensure"
    <3>1. FirstStep(r) = IF r.how \in {"dry-run", "live"} THEN "describe" ELSE "blocked"
      BY <2>4 DEF FirstStep
    <3>2. FitsAt(pc'[c], req'[c], look'[c], plan'[c], who'[c], bound'[c], using'[c])
      BY <2>1, <2>2, <2>4, <3>1, RequestKinds DEF FitsAt, InitSteps, EnsureSteps, Ends
    <3>3. pc'[c] \in AllSteps
      BY <2>2, <3>1 DEF AllSteps, InitSteps, Ends
    <3>4. QED
      BY <1>0, <2>1, <2>2, <3>2, <3>3 DEF Moved
  <2>5. CASE r.cmd = "enable-api"
    <3>1. FirstStep(r) \in {"enable", "done", "blocked"}
      BY <2>5 DEF FirstStep
    <3>2. FitsAt(pc'[c], req'[c], look'[c], plan'[c], who'[c], bound'[c], using'[c])
      BY <2>1, <2>2, <2>5, <3>1, RequestKinds DEF FitsAt, InitSteps, EnsureSteps, Ends, BeforeBind
    <3>3. pc'[c] \in AllSteps
      BY <2>2, <3>1 DEF AllSteps, Ends
    <3>4. QED
      BY <1>0, <2>1, <2>2, <3>2, <3>3 DEF Moved
  <2>6. QED
    BY <2>3, <2>4, <2>5, RequestKinds
<1>2. CASE Finish(c) \/ Kill(c)
  <2>1. Leave(c)
    BY <1>2 DEF Finish, Kill
  <2>2. /\ pc'[c] = "idle" /\ req'[c] = NoRequest /\ seen'[c] = None /\ look'[c] = None
        /\ plan'[c] = NoPlan /\ who'[c] = None /\ bound'[c] = 0 /\ using'[c] = None
    BY <1>0, <2>1 DEF Leave, Goto
  <2>3. /\ pc' = [pc EXCEPT ![c] = pc'[c]] /\ req' = [req EXCEPT ![c] = req'[c]]
        /\ seen' = [seen EXCEPT ![c] = seen'[c]] /\ look' = [look EXCEPT ![c] = look'[c]]
        /\ plan' = [plan EXCEPT ![c] = plan'[c]] /\ who' = [who EXCEPT ![c] = who'[c]]
        /\ bound' = [bound EXCEPT ![c] = bound'[c]] /\ using' = [using EXCEPT ![c] = using'[c]]
    BY <2>1, <2>2 DEF Leave, Goto
  <2>4. FitsAt(pc'[c], req'[c], look'[c], plan'[c], who'[c], bound'[c], using'[c])
    BY <2>2 DEF FitsAt, InitSteps, EnsureSteps
  <2>5. plan'[c] \in Plans /\ bound'[c] \in 0..NumRoles
    BY <1>0, <2>2 DEF Plans, NoPlan
  <2>6. QED
    BY <2>2, <2>3, <2>4, <2>5 DEF Moved, AllSteps
<1>3. CASE CallFails(c)
  <2>1. req[c] # NoRequest
    BY <1>3, RequestOf, RequestKinds DEF CallFails
  <2>2. FitsAt("failed", req[c], look[c], plan[c], who[c], bound[c], using[c])
    BY <2>1 DEF FitsAt, InitSteps, EnsureSteps, Ends, BeforeBind
  <2>3. "failed" \in AllSteps
    BY DEF AllSteps, Ends
  <2>4. QED
    BY <1>3, <2>2, <2>3, StepMoves DEF CallFails
<1>4. QED
  BY <1>1, <1>2, <1>3

LEMMA ClientsTyped ==
  TypeInv /\ [Next]_vars => ClientTypeOK' /\ \A c \in Clients : Fits(c)'
<1> SUFFICES ASSUME TypeInv, [Next]_vars
             PROVE  ClientTypeOK' /\ \A c \in Clients : Fits(c)'
  OBVIOUS
<1>1. ASSUME NEW c \in Clients, (\E r \in Requests : Start(c, r)) \/ Step(c) \/ Misfortune(c)
      PROVE  Moved(c)
  BY <1>1, InitMoves, EnsureMoves, FateMoves DEF Step, Misfortune
<1>2. CASE \E c \in Clients : (\E r \in Requests : Start(c, r)) \/ Step(c) \/ Misfortune(c)
  BY <1>1, <1>2, MovedFits
<1>3. CASE People
  <2>1. UNCHANGED <<pc, local>>
    BY <1>3 DEF People, HandBudget, RemoveBudget, HandLink, HandRoute, SwitchUser, LockProject,
                UnlockProject, Grant, ByHand
  <2>2. QED
    BY <2>1 DEF local, TypeInv, ClientTypeOK, Fits
<1>4. CASE UNCHANGED vars
  BY <1>4 DEF vars, local, TypeInv, ClientTypeOK, Fits
<1>5. QED
  BY <1>2, <1>3, <1>4 DEF Next

-----------------------------------------------------------------------------

(* Google Cloud and this machine. *)

Shared == CloudTypeOK /\ MachineTypeOK /\ grants \in Nat

LEMMA SharedKept ==
  ASSUME TypeInv, UNCHANGED <<cloud, machine, asked, granted, grants>>
  PROVE  Shared'
  BY DEF TypeInv, Shared, CloudTypeOK, MachineTypeOK, cloud, machine

LEMMA InitShared ==
  ASSUME TypeInv, NEW c \in Clients, InitStep(c) \/ InitFault(c)
  PROVE  Shared'
<1>0. /\ pc[c] \in InitSteps \ EnsureSteps =>
           req[c].project \in Projects /\ req[c].account \in BillingAccounts
      /\ pc[c] = "bind" => who[c] \in Users /\ bound[c] + 1 \in 1..NumRoles
  <2>1. Fits(c) /\ bound[c] \in 0..NumRoles /\ NumRoles \in Nat
    BY CloudAssumption DEF TypeInv, ClientTypeOK, CloudAssumption
  <2>2. pc[c] = "bind" => who[c] \in Users /\ bound[c] + 1 \in 1..NumRoles
    BY <2>1 DEF Fits, FitsAt
  <2>3. QED
    BY <2>2, RequestOf, RequestKinds DEF InitSteps, EnsureSteps, Ends
<1> USE DEF Shared, TypeInv, CloudTypeOK, MachineTypeOK, cloud, machine, consent, InitSteps,
            EnsureSteps, Project
<1>1. CASE CreateEffect(c) /\ pc[c] = "create" /\ UNCHANGED consent
  BY <1>0, <1>1 DEF CreateEffect, ProjectStates
<1>2. CASE ActivateEffect(c) /\ pc[c] = "activate" /\ UNCHANGED consent
  BY <1>0, <1>2 DEF ActivateEffect
<1>3. CASE LinkEffect(c) /\ pc[c] = "link" /\ UNCHANGED consent
  BY <1>0, <1>3 DEF LinkEffect
<1>4. CASE ApisEffect(c) /\ pc[c] = "apis" /\ UNCHANGED consent
  BY <1>0, <1>4 DEF ApisEffect
<1>5. CASE BindEffect(c) /\ pc[c] = "bind" /\ UNCHANGED consent
  BY <1>0, <1>5 DEF BindEffect
<1>6. CASE SaveProfile(c)
  BY <1>0, <1>6 DEF SaveProfile
<1>7. CASE SaveConfig(c) \/ SaveConfigBlind(c)
  BY <1>0, <1>7 DEF SaveConfig, SaveConfigBlind
<1>8. CASE UNCHANGED <<cloud, machine, consent>>
  BY <1>8
<1>9. QED
  BY <1>1, <1>2, <1>3, <1>4, <1>5, <1>6, <1>7, <1>8
     DEF InitStep, InitFault, InitCallLost, SelectProject, CreateProject, CreateRefused,
         ActivateProject, ReadBilling, ReadLock, ListBudgets, ListBudgetsUnseen, LinkBilling,
         Confirm, EnableApis, ProposeRoles, ApplyBinding

LEMMA BudgetKinds ==
  ASSUME NEW policy \in Policies
  PROVE  /\ \A account \in BillingAccounts : Created(account, policy) \in Budgets
         /\ \A b \in Budgets : Patched(b, policy) \in Budgets
<1>1. /\ DisplayName(policy) \in DisplayNames /\ policy.project \in Projects
      /\ policy.amount \in Amounts /\ policy.thresholds \in Thresholds
  BY DEF Policies, DisplayName, DisplayNames
<1>2. NoRouting \in Rules
  BY PolicyAssumption DEF PolicyAssumption, NoRouting, Rules, Schemas
<1>3. \A account \in BillingAccounts : Created(account, policy) \in Budgets
  BY <1>1, <1>2 DEF Created, Budgets
<1>4. ASSUME NEW b \in Budgets PROVE Patched(b, policy) \in Budgets
  BY <1>1 DEF Patched, Budgets
<1>5. QED
  BY <1>3, <1>4

LEMMA RoutedKinds ==
  ASSUME NEW b \in Budgets, NEW t \in Topics
  PROVE  Routed(b, t) \in Budgets
<1>1. DesiredRule(t, b.rule) \in Rules
  BY DEF Budgets, Rules, DesiredRule, Schemas
<1>2. QED
  BY <1>1 DEF Budgets, Routed

LEMMA EnsureShared ==
  ASSUME TypeInv, NEW c \in Clients, EnsureStep(c) \/ EnsureFault(c)
  PROVE  Shared'
<1>0. /\ pc[c] \in {"approve", "consume", "mutate"} =>
           req[c].policy \in Policies /\ look[c] \in BillingAccounts
      /\ pc[c] = "enable" => req[c].project \in Projects
  <2>1. Fits(c)
    BY DEF TypeInv
  <2>2. QED
    BY <2>1, RequestOf, RequestKinds DEF InitSteps, EnsureSteps, Ends, Fits, FitsAt
<1> USE DEF Shared, TypeInv, CloudTypeOK, MachineTypeOK, cloud, machine, consent, Project
<1>1. CASE MutateEffect(c) /\ pc[c] = "mutate"
  <2>1. PICK id \in BudgetIds :
          /\ budgets' = [budgets EXCEPT ![id] = budgets'[id]]
          /\ \/ budgets'[id] = Created(look[c], req[c].policy)
             \/ budgets'[id] = Patched(budgets[id], req[c].policy) /\ budgets[id] # NoBudget
    BY <1>1 DEF MutateEffect
  <2>2. budgets'[id] \in Budgets
    BY <1>0, <1>1, <2>1, BudgetKinds
  <2>3. budgets' \in [BudgetIds -> Budgets \cup {NoBudget}]
    BY <2>1, <2>2
  <2>4. UNCHANGED <<project, billing, apis, bindings, machine, asked, granted, grants>>
    BY <1>1 DEF MutateEffect
  <2>5. QED
    BY <2>3, <2>4
<1>2. CASE EnableEffect(c) /\ pc[c] = "enable" /\ UNCHANGED consent
  BY <1>0, <1>2 DEF EnableEffect
<1>3. CASE LoadApproval(c) \/ ConsumeApproval(c)
  BY <1>3 DEF LoadApproval, ConsumeApproval
<1>4. CASE AskApproval(c)
  BY <1>0, <1>4 DEF AskApproval, Asks
<1>5. CASE UNCHANGED <<cloud, machine, consent>>
  BY <1>5
<1>6. QED
  BY <1>1, <1>2, <1>3, <1>4, <1>5
     DEF EnsureStep, EnsureFault, DescribeBilling, DescribeNoProject, PlanEnsure, PlanEnsureUnseen,
         PlanFrom, GateRefuses, Mutate, MutateLost, MutateNotFound, VerifyEnsure, EnableBudgetApi,
         EnableLost

LEMMA PeopleShared ==
  ASSUME TypeInv, People
  PROVE  Shared'
<1> USE DEF Shared, TypeInv, CloudTypeOK, MachineTypeOK, cloud, machine, consent, ByHand
<1>1. ASSUME NEW id \in HandIds, NEW b \in HandBudgets, HandBudget(id, b) PROVE Shared'
  BY <1>1, CloudAssumption DEF HandBudget, CloudAssumption
<1>2. ASSUME NEW id \in BudgetIds, RemoveBudget(id) PROVE Shared'
  BY <1>2 DEF RemoveBudget
<1>3. ASSUME NEW p \in Projects, NEW a \in BillingAccounts, HandLink(p, a) PROVE Shared'
  BY <1>3 DEF HandLink
<1>4. ASSUME NEW id \in BudgetIds, NEW t \in Topics, HandRoute(id, t) PROVE Shared'
  <2>1. Routed(budgets[id], t) \in Budgets
    BY <1>4, RoutedKinds DEF HandRoute
  <2>2. QED
    BY <1>4, <2>1 DEF HandRoute
<1>5. ASSUME NEW u \in Users, SwitchUser(u) PROVE Shared'
  BY <1>5 DEF SwitchUser
<1>6. ASSUME NEW p \in Projects, LockProject(p) \/ UnlockProject(p) PROVE Shared'
  BY <1>6 DEF LockProject, UnlockProject
<1>7. ASSUME NEW request \in asked, Grant(request) PROVE Shared'
  <2>1. [of |-> request, number |-> grants + 1] \in Approvals
    BY DEF Approvals
  <2>2. granted' \subseteq Approvals /\ asked' \subseteq Asks /\ grants' \in Nat
    BY <1>7, <2>1 DEF Grant
  <2> QED
    BY <1>7, <2>2 DEF Grant
<1>8. QED
  BY <1>1, <1>2, <1>3, <1>4, <1>5, <1>6, <1>7 DEF People

LEMMA TypeNext == TypeInv /\ [Next]_vars => TypeInv'
<1> SUFFICES ASSUME TypeInv, [Next]_vars PROVE TypeInv'
  OBVIOUS
<1>1. Shared'
  <2>1. ASSUME NEW c \in Clients, (\E r \in Requests : Start(c, r)) \/ Finish(c) \/ Kill(c) \/ CallFails(c)
        PROVE  Shared'
    BY <2>1, SharedKept DEF Start, Finish, Kill, Leave, CallFails, consent
  <2>2. CASE UNCHANGED vars
    BY <2>2, SharedKept DEF vars, consent
  <2>3. QED
    BY <2>1, <2>2, InitShared, EnsureShared, PeopleShared DEF Next, Step, Misfortune
<1>2. QED
  BY <1>1, ClientsTyped DEF TypeInv, Shared

\* However commands interleave, fail and are killed, every command is at a step of
\* its own and has what the step needs (init.ts, budget.ts).
THEOREM SetupTyped == Spec => []SetupTypeOK
<1>1. Spec => []TypeInv
  BY TypeInit, TypeNext, PTL DEF Spec
<1>2. QED
  BY <1>1, TypeInvImplies, PTL

-----------------------------------------------------------------------------

(* Accounts: who opened one, and which budget lets billing be linked to it. *)

\* What client c goes on has been found at an account that is open.
OpenAt(c) ==
  /\ pc[c] = "link" => req[c].account \in budgeted
  /\ pc[c] = "plan" => look[c] \in opened \cup {None}
  /\ pc[c] \in {"approve", "consume", "mutate"} => look[c] \in opened
  /\ pc[c] = "budgets" => seen[c] = req[c].account \/ look[c] = req[c].account
  /\ pc[c] = "describe" /\ req[c].cmd = "init" => seen[c] = req[c].account

CloudOpen ==
  /\ budgeted \subseteq opened
  /\ \A p \in Projects : billing[p] \in opened \cup {None}
  /\ \A id \in BudgetIds : budgets[id] # NoBudget => budgets[id].account \in budgeted

OpenInv == CloudOpen /\ \A c \in Clients : OpenAt(c)

LEMMA OpenInit == Init => OpenInv
<1> SUFFICES ASSUME Init PROVE OpenInv
  OBVIOUS
<1>1. PICK b \in Beginnings : billing = b.billing /\ opened = {b.billing[p] : p \in Projects} \ {None}
  BY DEF Init
<1>2. CloudOpen
  BY <1>1 DEF Init, CloudOpen
<1>3. QED
  BY <1>2 DEF Init, OpenInv, OpenAt

\* What is open stays open, for the clients that do not move.
LEMMA OthersOpen ==
  ASSUME TypeInv, OpenInv, NEW c \in Clients, Moved(c),
         budgeted \subseteq budgeted', opened \subseteq opened', OpenAt(c)'
  PROVE  \A d \in Clients : OpenAt(d)'
<1> SUFFICES ASSUME NEW d \in Clients, d # c PROVE OpenAt(d)'
  OBVIOUS
<1>1. /\ pc'[d] = pc[d] /\ req'[d] = req[d] /\ seen'[d] = seen[d] /\ look'[d] = look[d]
  BY DEF TypeInv, ClientTypeOK, Moved
<1>2. OpenAt(d)
  BY DEF OpenInv
<1>3. QED
  BY <1>1, <1>2 DEF OpenAt

\* A step that leads to none of the steps above, and what the cloud holds stays.
QuietSteps == AllSteps \ {"link", "plan", "approve", "consume", "mutate", "budgets", "describe"}

LEMMA QuietOpen ==
  ASSUME TypeInv, OpenInv, NEW c \in Clients, Moved(c), pc'[c] \in QuietSteps,
         UNCHANGED <<billing, budgets, budgeted, opened>>
  PROVE  OpenInv'
<1>1. OpenAt(c)'
  BY DEF QuietSteps, OpenAt
<1>2. CloudOpen'
  BY DEF OpenInv, CloudOpen, NoBudget
<1>3. QED
  BY <1>1, <1>2, OthersOpen DEF OpenInv

LEMMA InitOpen ==
  ASSUME TypeInv, OpenInv, NEW c \in Clients, InitStep(c) \/ InitFault(c)
  PROVE  /\ OpenInv'
         /\ \A p \in Projects : billing'[p] # billing[p] => billing'[p] \in budgeted
<1>1. /\ Moved(c) /\ OpenAt(c) /\ Fits(c) /\ CloudOpen
      /\ pc = [d \in Clients |-> pc[d]] /\ look = [d \in Clients |-> look[d]]
      /\ billing = [p \in Projects |-> billing[p]]
  BY InitMoves DEF TypeInv, ClientTypeOK, CloudTypeOK, OpenInv
<1>2. UNCHANGED <<budgets, budgeted, opened>>
  BY DEF InitStep, InitFault, InitCallLost, SelectProject, CreateProject, CreateRefused,
         ActivateProject, ReadBilling, ReadLock, ListBudgets, ListBudgetsUnseen, LinkBilling,
         Confirm, EnableApis, ProposeRoles, ApplyBinding, SaveProfile, SaveConfig,
         SaveConfigBlind, CreateEffect, ActivateEffect, LinkEffect, ApisEffect, BindEffect,
         cloud, past
<1>3. \/ UNCHANGED billing
      \/ /\ pc[c] = "link" /\ LinkEffect(c)
         /\ pc'[c] \in {"confirm", "apis", "failed"}
  BY <1>1 DEF InitStep, InitFault, InitCallLost, SelectProject, CreateProject, CreateRefused,
         ActivateProject, ReadBilling, ReadLock, ListBudgets, ListBudgetsUnseen, LinkBilling,
         Confirm, EnableApis, ProposeRoles, ApplyBinding, SaveProfile, SaveConfig,
         SaveConfigBlind, CreateEffect, ActivateEffect, ApisEffect, BindEffect, cloud, Goto,
         AfterLink
<1>4. CASE pc[c] = "link" /\ LinkEffect(c) /\ pc'[c] \in {"confirm", "apis", "failed"}
  <2>1. req[c].account \in budgeted /\ budgeted \subseteq opened
    BY <1>1, <1>4 DEF OpenAt, CloudOpen
  <2>2. \A p \in Projects : billing'[p] \in {billing[p], req[c].account}
    BY <1>1, <1>4 DEF LinkEffect
  <2>3. CloudOpen'
    BY <1>1, <1>2, <2>1, <2>2 DEF CloudOpen, NoBudget
  <2>4. OpenAt(c)'
    BY <1>4 DEF OpenAt
  <2>5. OpenInv'
    BY <1>1, <1>2, <2>3, <2>4, OthersOpen DEF OpenInv
  <2>6. QED
    BY <2>1, <2>2, <2>5
<1>5. CASE UNCHANGED billing
  <2>1. CloudOpen'
    BY <1>1, <1>2, <1>5 DEF CloudOpen, NoBudget
  <2>2. OpenAt(c)'
    <3>1. CASE ReadLock(c)
      <4>1. \/ pc'[c] = "blocked"
            \/ pc'[c] = "describe" /\ seen[c] = req[c].account
            \/ pc'[c] = "budgets" /\ look'[c] = req[c].account
        BY <1>1, <3>1 DEF ReadLock, Goto, GuardStep
      <4>2. UNCHANGED <<req, seen>>
        BY <3>1 DEF ReadLock
      <4>3. QED
        BY <4>1, <4>2 DEF OpenAt
    <3>2. CASE ListBudgets(c)
      <4>1. look[c] # None
        BY <1>1, <3>2, PolicyAssumption DEF ListBudgets, Fits, FitsAt, PolicyAssumption
      <4>2. ASSUME GuardPasses(AuditRisk(look[c], TRUE, Listed(look[c]))) PROVE look[c] \in budgeted
        <5>1. Listed(look[c]) # {}
          BY <4>1, <4>2 DEF GuardPasses, AuditRisk
        <5>2. QED
          BY <1>1, <5>1 DEF Listed, Has, CloudOpen
      <4>3. \/ pc'[c] \in {"blocked", "confirm", "apis"}
            \/ pc'[c] = "link" /\ look[c] \in budgeted /\ seen[c] # req[c].account
        BY <1>1, <3>2, <4>2 DEF ListBudgets, Goto, AfterLink
      <4>4. UNCHANGED <<req, seen, look>> /\ pc[c] = "budgets"
        BY <3>2 DEF ListBudgets, local
      <4>5. QED
        BY <1>1, <1>2, <4>3, <4>4 DEF OpenAt
    <3>3. CASE ListBudgetsUnseen(c)
      <4>1. ~GuardPasses(AuditRisk(look[c], FALSE, {}))
        BY DEF GuardPasses, AuditRisk
      <4>2. pc'[c] = "blocked"
        BY <1>1, <3>3, <4>1 DEF ListBudgetsUnseen, Goto
      <4>3. QED
        BY <4>2 DEF OpenAt
    <3>4. CASE ~ReadLock(c) /\ ~ListBudgets(c) /\ ~ListBudgetsUnseen(c)
      <4>1. pc'[c] \notin {"link", "plan", "approve", "consume", "mutate", "budgets", "describe"}
        BY <1>1, <3>4
           DEF InitStep, InitFault, InitCallLost, SelectProject, CreateProject, CreateRefused,
               ActivateProject, ReadBilling, LinkBilling, Confirm, EnableApis, ProposeRoles,
               ApplyBinding, SaveProfile, SaveConfig, SaveConfigBlind, Goto, AfterLink
      <4>2. QED
        BY <4>1 DEF OpenAt
    <3>5. QED
      BY <3>1, <3>2, <3>3, <3>4
  <2>3. QED
    BY <1>1, <1>2, <1>5, <2>1, <2>2, OthersOpen DEF OpenInv
<1>6. QED
  BY <1>3, <1>4, <1>5

LEMMA EnsureOpen ==
  ASSUME TypeInv, OpenInv, NEW c \in Clients, EnsureStep(c) \/ EnsureFault(c)
  PROVE  OpenInv' /\ UNCHANGED billing
<1>1. /\ Moved(c) /\ OpenAt(c) /\ Fits(c) /\ CloudOpen
      /\ pc = [d \in Clients |-> pc[d]] /\ look = [d \in Clients |-> look[d]]
      /\ look[c] \in BillingAccounts \cup {None}
      /\ budgets \in [BudgetIds -> Budgets \cup {NoBudget}]
  BY EnsureMoves DEF TypeInv, ClientTypeOK, CloudTypeOK, OpenInv
<1>2. CASE MutateEffect(c) /\ pc[c] = "mutate" /\ pc'[c] \in {"redescribe", "failed"}
  <2>1. look[c] \in opened
    BY <1>1, <1>2 DEF OpenAt
  <2>2. PICK id \in BudgetIds :
          /\ budgets' = [budgets EXCEPT ![id] = budgets'[id]]
          /\ \/ budgets'[id].account = look[c] /\ budgeted' = budgeted \cup {look[c]}
             \/ /\ budgets[id] # NoBudget /\ budgets'[id].account = budgets[id].account
                /\ budgeted' = budgeted
    <3>1. \A e \in Budgets : Patched(e, req[c].policy).account = e.account
      BY DEF Patched, Budgets
    <3>2. Created(look[c], req[c].policy).account = look[c]
      BY DEF Created
    <3>3. QED
      BY <1>1, <1>2, <3>1, <3>2 DEF MutateEffect
  <2>3. UNCHANGED <<billing, opened>>
    BY <1>2 DEF MutateEffect
  <2>4. /\ budgeted \subseteq budgeted' /\ budgeted' \subseteq opened
        /\ budgets'[id].account \in budgeted'
    BY <1>1, <2>1, <2>2 DEF CloudOpen
  <2>5. \A i \in BudgetIds : budgets'[i] = IF i = id THEN budgets'[id] ELSE budgets[i]
    BY <1>1, <2>2
  <2>6. CloudOpen'
    BY <1>1, <2>3, <2>4, <2>5 DEF CloudOpen, NoBudget
  <2>7. OpenAt(c)'
    BY <1>2 DEF OpenAt
  <2>8. QED
    BY <1>1, <2>3, <2>4, <2>6, <2>7, OthersOpen DEF OpenInv
<1>3. CASE /\ UNCHANGED <<billing, budgets, budgeted, opened>>
           /\ pc'[c] \in {"blocked", "done", "failed", "redescribe", "verify"}
  BY <1>1, <1>3, QuietOpen DEF QuietSteps, AllSteps, Ends, EnsureSteps
<1>4. CASE DescribeBilling(c)
  <2>1. UNCHANGED <<billing, budgets, budgeted, opened, req, seen>>
    BY <1>4 DEF DescribeBilling, cloud, past
  <2>2. /\ look'[c] = billing[Project(c)]
        /\ pc[c] \in {"describe", "redescribe"}
        /\ pc'[c] = CASE pc[c] = "redescribe" -> "verify"
                      [] pc[c] = "describe" /\ req[c].cmd = "ensure" -> "plan"
                      [] pc[c] = "describe" /\ req[c].cmd = "init" ->
                           IF billing[Project(c)] = None THEN "blocked" ELSE "budgets"
    BY <1>1, <1>4 DEF DescribeBilling, Goto
  <2>3. Project(c) \in Projects /\ req[c].cmd \in {"init", "ensure"}
    BY <2>2, RequestOf, RequestKinds DEF Project, Ends, InitSteps, EnsureSteps
  <2>4. look'[c] \in opened \cup {None}
    BY <1>1, <2>2, <2>3 DEF CloudOpen
  <2>5. \/ pc'[c] \in {"verify", "blocked"}
        \/ pc'[c] = "plan"
        \/ pc'[c] = "budgets" /\ pc[c] = "describe" /\ req[c].cmd = "init"
    BY <2>2, <2>3
  <2>6. OpenAt(c)'
    BY <1>1, <2>1, <2>4, <2>5 DEF OpenAt
  <2>7. CloudOpen'
    BY <1>1, <2>1 DEF CloudOpen, NoBudget
  <2>8. QED
    BY <1>1, <2>1, <2>6, <2>7, OthersOpen DEF OpenInv
<1>5. ASSUME NEW visible \in BOOLEAN, PlanFrom(c, visible), pc[c] = "plan"
      PROVE  OpenInv' /\ UNCHANGED billing
  <2>1. PICK id \in BudgetIds \cup {None} :
          pc' = [pc EXCEPT ![c] =
                   AfterPlan(c, PlanBudgetEnsure(look[c], visible, TheBudget(id), req[c].policy))]
    BY <1>5 DEF PlanFrom, Goto
  <2> DEFINE action == PlanBudgetEnsure(look[c], visible, TheBudget(id), req[c].policy)
  <2>2. UNCHANGED <<billing, budgets, budgeted, opened, req, seen, look>>
    BY <1>5 DEF PlanFrom, cloud
  <2>3. /\ action \in {"none", "create", "update", "blocked"}
        /\ action \in {"create", "update"} => look[c] \in BillingAccounts
    BY <1>1, PlanKinds
  <2>4. pc'[c] = AfterPlan(c, action)
    BY <1>1, <2>1
  <2> HIDE DEF action
  <2>5. req[c].how \in {"dry-run", "live"}
    <3>1. req[c].cmd = "ensure"
      BY <1>5, RequestOf DEF Ends, InitSteps, EnsureSteps
    <3>2. QED
      BY <1>1, <1>5, <3>1 DEF Fits, FitsAt, EnsureSteps
  <2>6. /\ pc'[c] \in {"done", "blocked", "redescribe", "approve"}
        /\ pc'[c] = "approve" => action \in {"create", "update"}
    BY <2>3, <2>4, <2>5 DEF AfterPlan
  <2>7. OpenAt(c)'
    BY <1>1, <1>5, <2>2, <2>3, <2>6, PolicyAssumption DEF OpenAt, PolicyAssumption
  <2>8. CloudOpen'
    BY <1>1, <2>2 DEF CloudOpen, NoBudget
  <2>9. QED
    BY <1>1, <2>2, <2>7, <2>8, OthersOpen DEF OpenInv
<1>6. CASE PlanEnsure(c) \/ PlanEnsureUnseen(c)
  BY <1>5, <1>6 DEF PlanEnsure, PlanEnsureUnseen
<1>7. CASE LoadApproval(c) \/ ConsumeApproval(c)
  <2>1. /\ UNCHANGED <<billing, budgets, budgeted, opened, req, seen, look>>
        /\ pc[c] \in {"approve", "consume"} /\ pc'[c] \in {"consume", "mutate"}
    BY <1>1, <1>7 DEF LoadApproval, ConsumeApproval, Goto, cloud, past, local
  <2>2. OpenAt(c)'
    BY <1>1, <2>1 DEF OpenAt
  <2>3. CloudOpen'
    BY <1>1, <2>1 DEF CloudOpen, NoBudget
  <2>4. QED
    BY <1>1, <2>1, <2>2, <2>3, OthersOpen DEF OpenInv
<1>8. QED
  BY <1>1, <1>2, <1>3, <1>4, <1>6, <1>7
     DEF EnsureStep, EnsureFault, DescribeNoProject, AskApproval, GateRefuses, Mutate, MutateLost,
         MutateNotFound, VerifyEnsure, EnableBudgetApi, EnableLost, EnableEffect, Goto, cloud, past

LEMMA FateOpen ==
  ASSUME TypeInv, OpenInv, NEW c \in Clients,
         \/ \E r \in Requests : Start(c, r)
         \/ Finish(c) \/ Kill(c) \/ CallFails(c)
  PROVE  OpenInv' /\ UNCHANGED billing
<1>1. Moved(c) /\ UNCHANGED <<billing, budgets, budgeted, opened>>
  BY FateMoves DEF Start, Finish, Kill, CallFails, Leave, cloud, past
<1>2. ASSUME NEW r \in Requests, Start(c, r) PROVE OpenInv'
  <2>1. pc'[c] = FirstStep(r) /\ req'[c] = r
    BY <1>2 DEF Start, Goto, TypeInv, ClientTypeOK
  <2>2. r.cmd \in {"init", "ensure", "enable-api"}
    BY RequestKinds
  <2>3. /\ FirstStep(r) \in {"list", "describe", "blocked", "enable", "done"}
        /\ FirstStep(r) = "describe" => r.cmd # "init"
    BY <2>2 DEF FirstStep
  <2>4. OpenAt(c)'
    BY <2>1, <2>3 DEF OpenAt
  <2>5. CloudOpen'
    BY <1>1 DEF OpenInv, CloudOpen, NoBudget
  <2>6. QED
    BY <1>1, <2>4, <2>5, OthersOpen DEF OpenInv
<1>3. ASSUME Finish(c) \/ Kill(c) \/ CallFails(c) PROVE pc'[c] \in {"idle", "failed"}
  BY <1>3 DEF Finish, Kill, CallFails, Leave, Goto, TypeInv, ClientTypeOK
<1>4. QED
  BY <1>1, <1>2, <1>3, QuietOpen DEF QuietSteps, AllSteps, Ends

LEMMA PeopleOpen ==
  ASSUME TypeInv, OpenInv, People
  PROVE  /\ OpenInv'
         /\ billing' # billing => hands' = hands + 1
<1>0. /\ budgets = [id \in BudgetIds |-> budgets[id]]
      /\ billing = [p \in Projects |-> billing[p]]
  BY DEF TypeInv, CloudTypeOK
<1>1. CloudOpen
  BY DEF OpenInv
<1>2. ASSUME UNCHANGED <<pc, local>>, budgeted \subseteq budgeted', opened \subseteq opened'
      PROVE  \A c \in Clients : OpenAt(c)'
  BY <1>2 DEF OpenInv, OpenAt, local
<1> USE DEF ByHand, cloud, past, CloudOpen, NoBudget
<1>3. ASSUME NEW id \in HandIds, NEW b \in HandBudgets, HandBudget(id, b) PROVE OpenInv' /\ UNCHANGED billing
  <2>1. id \in BudgetIds
    BY CloudAssumption DEF CloudAssumption
  <2>2. \A i \in BudgetIds : budgets'[i] = IF i = id THEN b ELSE budgets[i]
    BY <1>0, <1>3, <2>1 DEF HandBudget
  <2>3. /\ budgeted' = budgeted \cup {b.account} /\ opened' = opened \cup {b.account}
        /\ UNCHANGED <<pc, local, billing>>
    BY <1>3 DEF HandBudget
  <2>4. CloudOpen'
    BY <1>1, <2>2, <2>3
  <2>5. QED
    BY <1>2, <2>3, <2>4 DEF OpenInv
<1>4. ASSUME NEW id \in BudgetIds, RemoveBudget(id) PROVE OpenInv' /\ UNCHANGED billing
  <2>1. /\ \A i \in BudgetIds : budgets'[i] \in {NoBudget, budgets[i]}
        /\ UNCHANGED <<pc, local, billing, budgeted, opened>>
    BY <1>0, <1>4 DEF RemoveBudget
  <2>2. CloudOpen'
    BY <1>1, <2>1
  <2>3. QED
    BY <1>2, <2>1, <2>2 DEF OpenInv
<1>5. ASSUME NEW p \in Projects, NEW a \in BillingAccounts, HandLink(p, a) PROVE OpenInv'
  <2>1. /\ \A q \in Projects : billing'[q] \in {a, billing[q]}
        /\ opened' = opened \cup {a} /\ UNCHANGED <<pc, local, budgets, budgeted>>
    BY <1>0, <1>5 DEF HandLink
  <2>2. CloudOpen'
    BY <1>1, <2>1
  <2>3. QED
    BY <1>2, <2>1, <2>2 DEF OpenInv
<1>6. ASSUME NEW id \in BudgetIds, NEW t \in Topics, HandRoute(id, t) PROVE OpenInv' /\ UNCHANGED billing
  <2>1. Routed(budgets[id], t).account = budgets[id].account /\ budgets[id] # NoBudget
    BY <1>6 DEF HandRoute, Routed, TypeInv, CloudTypeOK, Budgets
  <2>2. \A i \in BudgetIds : budgets'[i] = IF i = id THEN Routed(budgets[id], t) ELSE budgets[i]
    BY <1>0, <1>6 DEF HandRoute
  <2>3. UNCHANGED <<pc, local, billing, budgeted, opened>>
    BY <1>6 DEF HandRoute
  <2>4. CloudOpen'
    BY <1>1, <2>1, <2>2, <2>3
  <2>5. QED
    BY <1>2, <2>3, <2>4 DEF OpenInv
<1>7. ASSUME UNCHANGED <<cloud, budgeted, opened, pc, local>> PROVE OpenInv' /\ UNCHANGED billing
  BY <1>1, <1>2, <1>7 DEF OpenInv
<1>8. QED
  BY <1>3, <1>4, <1>5, <1>6, <1>7
     DEF People, SwitchUser, LockProject, UnlockProject, Grant, HandLink

LEMMA OpenNext == TypeInv /\ OpenInv /\ [Next]_vars => OpenInv'
<1> SUFFICES ASSUME TypeInv, OpenInv, [Next]_vars PROVE OpenInv'
  OBVIOUS
<1>1. CASE UNCHANGED vars
  BY <1>1 DEF vars, cloud, local, past, OpenInv, OpenAt, CloudOpen, NoBudget
<1>2. QED
  BY <1>1, InitOpen, EnsureOpen, FateOpen, PeopleOpen DEF Next, Step, Misfortune

LEMMA OpenAlways == Spec => [](TypeInv /\ OpenInv)
  BY TypeInit, TypeNext, OpenInit, OpenNext, PTL DEF Spec

\* What people do is counted.
LEMMA HandsCounted == Spec => [](hands \in Nat)
<1>1. Init => hands \in Nat
  BY DEF Init
<1>2. hands \in Nat /\ [Next]_vars => (hands \in Nat)'
  <2> SUFFICES ASSUME hands \in Nat, [Next]_vars PROVE hands' \in {hands, hands + 1}
    OBVIOUS
  <2>1. ASSUME NEW c \in Clients, (\E r \in Requests : Start(c, r)) \/ Finish(c) \/ Kill(c) \/ CallFails(c)
        PROVE  hands' = hands
    BY <2>1 DEF Start, Finish, Kill, CallFails, counts
  <2>2. ASSUME NEW c \in Clients, InitStep(c) \/ InitFault(c) PROVE hands' = hands
    BY <2>2
       DEF InitStep, InitFault, InitCallLost, SelectProject, CreateProject, CreateRefused,
           ActivateProject, ReadBilling, ReadLock, ListBudgets, ListBudgetsUnseen, LinkBilling,
           Confirm, EnableApis, ProposeRoles, ApplyBinding, SaveProfile, SaveConfig,
           SaveConfigBlind, counts
  <2>3. ASSUME NEW c \in Clients, EnsureStep(c) \/ EnsureFault(c) PROVE hands' = hands
    BY <2>3
       DEF EnsureStep, EnsureFault, DescribeBilling, DescribeNoProject, PlanEnsure,
           PlanEnsureUnseen, LoadApproval, ConsumeApproval, AskApproval, GateRefuses, Mutate,
           MutateLost, MutateNotFound, VerifyEnsure, EnableBudgetApi, EnableLost, counts
  <2>4. ASSUME People PROVE hands' \in {hands, hands + 1}
    BY <2>4 DEF People, HandBudget, RemoveBudget, HandLink, HandRoute, SwitchUser, LockProject,
                UnlockProject, Grant, ByHand, counts
  <2>5. QED
    BY <2>1, <2>2, <2>3, <2>4 DEF Next, Step, Misfortune, vars, counts
<1>3. QED
  BY <1>1, <1>2, PTL DEF Spec

\* Billing is linked by omg only to an account that has had a budget, for any number
\* of commands, failures and kills (init.ts: auditInitBudgetGuard before linkBilling).
THEOREM LinkedBehindBudget == Spec => LinkNeedsBudget
<1>1. TypeInv /\ OpenInv /\ hands \in Nat /\ [Next]_vars =>
        [\A p \in Projects :
           billing'[p] # billing[p] /\ hands' = hands => billing'[p] \in budgeted]_vars
  <2> SUFFICES ASSUME TypeInv, OpenInv, hands \in Nat, Next,
                      NEW p \in Projects, billing'[p] # billing[p], hands' = hands
               PROVE  billing'[p] \in budgeted
    OBVIOUS
  <2>1. ~People
    BY PeopleOpen
  <2>2. QED
    BY <2>1, InitOpen, EnsureOpen, FateOpen DEF Next, Step, Misfortune
<1>2. QED
  BY <1>1, OpenAlways, HandsCounted, PTL DEF Spec, LinkNeedsBudget

\* omg alone never uses an account that no person has linked or budgeted.
THEOREM UnopenedUnused == Spec => []UnopenedStaysUnused
<1>1. TypeInv /\ OpenInv => UnopenedStaysUnused
  BY PolicyAssumption
     DEF OpenInv, CloudOpen, UnopenedStaysUnused, Listed, Has, PolicyAssumption
<1>2. QED
  BY <1>1, OpenAlways, PTL

-----------------------------------------------------------------------------

(* The cost lock. *)

\* A client whose lock counts finds it locked when it looks, and has not passed it.
LockAt(c) ==
  held[c] =>
    /\ pc[c] \in BeforeLock => req[c].project \in locked
    /\ req[c].cmd = "init" /\ pc[c] # "idle" => pc[c] \in BeforeLock \cup {"blocked", "failed"}

LockInv == held \in [Clients -> BOOLEAN] /\ \A c \in Clients : LockAt(c)

LEMMA LockInit == Init => LockInv
  BY DEF Init, LockInv, LockAt

LEMMA OthersLocked ==
  ASSUME TypeInv, LockInv, NEW c \in Clients, Moved(c), locked \subseteq locked',
         held' \in [Clients -> BOOLEAN], \A d \in Clients \ {c} : held'[d] = held[d], LockAt(c)'
  PROVE  LockInv'
<1>1. ASSUME NEW d \in Clients, d # c PROVE LockAt(d)'
  <2>1. pc'[d] = pc[d] /\ req'[d] = req[d]
    BY <1>1 DEF TypeInv, ClientTypeOK, Moved
  <2>2. LockAt(d)
    BY DEF LockInv
  <2>3. QED
    BY <1>1, <2>1, <2>2 DEF LockAt
<1>2. QED
  BY <1>1 DEF LockInv

LEMMA InitLocked ==
  ASSUME TypeInv, LockInv, NEW c \in Clients, InitStep(c) \/ InitFault(c)
  PROVE  LockInv'
<1>1. /\ Moved(c) /\ LockAt(c) /\ pc = [d \in Clients |-> pc[d]]
      /\ pc[c] \in InitSteps \ EnsureSteps => req[c].cmd = "init"
      /\ pc[c] \in {"describe", "budgets", "link", "confirm", "apis", "account", "bind", "profile", "config"}
           => pc[c] # "idle" /\ pc[c] \notin BeforeLock \cup {"blocked", "failed"}
  BY InitMoves, RequestOf
     DEF TypeInv, ClientTypeOK, LockInv, InitSteps, EnsureSteps, Ends, BeforeLock
<1>2. UNCHANGED <<held, locked, req>>
  BY DEF InitStep, InitFault, InitCallLost, SelectProject, CreateProject, CreateRefused,
         ActivateProject, ReadBilling, ReadLock, ListBudgets, ListBudgetsUnseen, LinkBilling,
         Confirm, EnableApis, ProposeRoles, ApplyBinding, SaveProfile, SaveConfig,
         SaveConfigBlind, CreateEffect, ActivateEffect, LinkEffect, ApisEffect, BindEffect,
         machine, fate, local
<1>3. CASE ReadLock(c)
  <2>1. /\ pc[c] = "lock"
        /\ req[c].project \in locked => pc'[c] = "blocked"
    BY <1>1, <1>3 DEF ReadLock, Goto, LockStops, Project
  <2>2. held[c] => pc'[c] = "blocked"
    BY <1>1, <2>1 DEF LockAt, BeforeLock
  <2>3. LockAt(c)'
    BY <1>2, <2>2 DEF LockAt, BeforeLock
  <2>4. QED
    BY <1>1, <1>2, <2>3, OthersLocked DEF LockInv
<1>4. CASE pc[c] \in BeforeLock /\ pc'[c] \in BeforeLock \cup {"failed"}
  <2>1. LockAt(c)'
    BY <1>1, <1>2, <1>4 DEF LockAt, BeforeLock
  <2>2. QED
    BY <1>1, <1>2, <2>1, OthersLocked DEF LockInv
<1>5. CASE pc[c] \in {"budgets", "link", "confirm", "apis", "account", "bind", "profile", "config"}
  <2>1. ~held[c]
    BY <1>1, <1>5 DEF LockAt, InitSteps, EnsureSteps
  <2>2. LockAt(c)'
    BY <1>2, <2>1 DEF LockAt
  <2>3. QED
    BY <1>1, <1>2, <2>2, OthersLocked DEF LockInv
<1>6. CASE /\ pc[c] \in {"list", "create", "activate", "status"}
           /\ SelectProject(c) \/ CreateProject(c) \/ CreateRefused(c) \/ ActivateProject(c)
                \/ ReadBilling(c) \/ InitCallLost(c)
  <2>1. pc[c] \in BeforeLock /\ pc'[c] \in BeforeLock \cup {"failed"}
    BY <1>1, <1>6
       DEF BeforeLock, SelectProject, CreateProject, CreateRefused, ActivateProject, ReadBilling,
           InitCallLost, Goto
  <2>2. QED
    BY <1>4, <2>1
<1>7. QED
  BY <1>3, <1>5, <1>6
     DEF InitStep, InitFault, InitCallLost, SelectProject, CreateProject, CreateRefused,
         ActivateProject, ReadBilling, ListBudgets, ListBudgetsUnseen, LinkBilling,
         Confirm, EnableApis, ProposeRoles, ApplyBinding, SaveProfile, SaveConfig, SaveConfigBlind

LEMMA EnsureLocked ==
  ASSUME TypeInv, LockInv, NEW c \in Clients, EnsureStep(c) \/ EnsureFault(c)
  PROVE  LockInv'
<1>1. Moved(c) /\ LockAt(c) /\ pc = [d \in Clients |-> pc[d]]
  BY EnsureMoves DEF TypeInv, ClientTypeOK, LockInv
<1>2. UNCHANGED <<held, locked, req>>
  BY DEF EnsureStep, EnsureFault, DescribeBilling, DescribeNoProject, PlanEnsure, PlanEnsureUnseen,
         PlanFrom, LoadApproval, ConsumeApproval, AskApproval, GateRefuses, Mutate, MutateLost,
         MutateNotFound, VerifyEnsure, EnableBudgetApi, EnableLost, MutateEffect, EnableEffect,
         machine, fate, local
<1>3. pc[c] \in EnsureSteps \cup {"enable"}
  BY DEF EnsureStep, EnsureFault, DescribeBilling, DescribeNoProject, PlanEnsure, PlanEnsureUnseen,
         LoadApproval, ConsumeApproval, AskApproval, GateRefuses, Mutate, MutateLost,
         MutateNotFound, VerifyEnsure, EnableBudgetApi, EnableLost, EnsureSteps
<1>4. ~held[c] \/ req[c].cmd # "init"
  BY <1>1, <1>3 DEF LockAt, EnsureSteps, BeforeLock
<1>5. req[c].cmd # "init" => pc'[c] \notin BeforeLock
  BY <1>1, <1>2 DEF Moved, FitsAt, InitSteps, EnsureSteps, Ends, BeforeLock
<1>6. LockAt(c)'
  BY <1>2, <1>4, <1>5 DEF LockAt
<1>7. QED
  BY <1>1, <1>2, <1>6, OthersLocked DEF LockInv

LEMMA FateLocked ==
  ASSUME TypeInv, LockInv, NEW c \in Clients,
         \/ \E r \in Requests : Start(c, r)
         \/ Finish(c) \/ Kill(c) \/ CallFails(c)
  PROVE  LockInv'
<1>1. /\ Moved(c) /\ UNCHANGED locked /\ LockAt(c) /\ held \in [Clients -> BOOLEAN]
      /\ pc \in [Clients -> AllSteps] /\ req \in [Clients -> Requests \cup {NoRequest}]
  BY FateMoves DEF Start, Finish, Kill, CallFails, Leave, machine, LockInv, TypeInv, ClientTypeOK,
                   AllSteps
<1>2. ASSUME NEW r \in Requests, Start(c, r) PROVE LockInv'
  <2>1. /\ pc'[c] = FirstStep(r) /\ req'[c] = r
        /\ held' = [held EXCEPT ![c] = r.project \in locked]
    BY <1>1, <1>2 DEF Start, Goto
  <2>2. held' \in [Clients -> BOOLEAN] /\ held'[c] = (r.project \in locked)
    BY <1>1, <2>1
  <2>3. r.cmd = "init" => FirstStep(r) = "list"
    BY DEF FirstStep
  <2>4. LockAt(c)'
    BY <1>1, <2>1, <2>2, <2>3 DEF LockAt, BeforeLock
  <2>5. \A d \in Clients \ {c} : held'[d] = held[d]
    BY <1>1, <2>1
  <2>6. QED
    BY <1>1, <2>2, <2>4, <2>5, OthersLocked
<1>3. CASE Finish(c) \/ Kill(c)
  <2>1. held' = [held EXCEPT ![c] = FALSE]
    BY <1>3 DEF Finish, Kill, Leave
  <2>2. LockAt(c)'
    BY <1>1, <2>1 DEF LockAt
  <2>3. QED
    BY <1>1, <2>1, <2>2, OthersLocked
<1>4. CASE CallFails(c)
  <2>1. UNCHANGED <<held, req>> /\ pc'[c] = "failed"
    BY <1>1, <1>4 DEF CallFails, Goto, local
  <2>2. LockAt(c)'
    BY <1>1, <2>1 DEF LockAt, BeforeLock
  <2>3. QED
    BY <1>1, <2>1, <2>2, OthersLocked
<1>5. QED
  BY <1>2, <1>3, <1>4

LEMMA PeopleLocked ==
  ASSUME TypeInv, LockInv, People
  PROVE  LockInv'
<1>1. UNCHANGED <<pc, req>>
  BY DEF People, HandBudget, RemoveBudget, HandLink, HandRoute, SwitchUser, LockProject,
         UnlockProject, Grant, ByHand, local
<1>2. ASSUME NEW p \in Projects, LockProject(p) PROVE LockInv'
  <2>1. /\ locked' = locked \cup {p} /\ p \notin locked
        /\ held' = [c \in Clients |-> held[c] \/ (pc[c] \in BeforeLock /\ req[c].project = p)]
    BY <1>2 DEF LockProject
  <2>2. held' \in [Clients -> BOOLEAN]
    BY <2>1
  <2>3. ASSUME NEW c \in Clients PROVE LockAt(c)'
    <3>1. LockAt(c)
      BY DEF LockInv
    <3>2. held'[c] <=> held[c] \/ (pc[c] \in BeforeLock /\ req[c].project = p)
      BY <2>1
    <3>3. QED
      BY <1>1, <2>1, <3>1, <3>2 DEF LockAt
  <2>4. QED
    BY <2>2, <2>3 DEF LockInv
<1>3. ASSUME NEW p \in Projects, UnlockProject(p) PROVE LockInv'
  <2>1. /\ locked' = locked \ {p}
        /\ held' = [c \in Clients |-> held[c] /\ req[c].project # p]
    BY <1>3 DEF UnlockProject
  <2>2. held' \in [Clients -> BOOLEAN]
    BY <2>1
  <2>3. ASSUME NEW c \in Clients PROVE LockAt(c)'
    <3>1. LockAt(c)
      BY DEF LockInv
    <3>2. held'[c] <=> held[c] /\ req[c].project # p
      BY <2>1
    <3>3. QED
      BY <1>1, <2>1, <3>1, <3>2 DEF LockAt
  <2>4. QED
    BY <2>2, <2>3 DEF LockInv
<1>4. CASE UNCHANGED <<locked, held>>
  BY <1>1, <1>4 DEF LockInv, LockAt
<1>5. QED
  BY <1>2, <1>3, <1>4
     DEF People, HandBudget, RemoveBudget, HandLink, HandRoute, SwitchUser, Grant, machine, fate

\* An init that has yet to look for a cost lock when there is one does not pass it
\* (init.ts: checkCostLock before the budget guard and every mutation).
THEOREM LockedUntouched == Spec => []LockedStaysUntouched
<1>1. TypeInv /\ LockInv /\ [Next]_vars => LockInv'
  <2> SUFFICES ASSUME TypeInv, LockInv, [Next]_vars PROVE LockInv'
    OBVIOUS
  <2>1. CASE UNCHANGED vars
    BY <2>1 DEF vars, machine, local, fate, LockInv, LockAt
  <2>2. QED
    BY <2>1, InitLocked, EnsureLocked, FateLocked, PeopleLocked DEF Next, Step, Misfortune
<1>2. LockInv => LockedStaysUntouched
  BY DEF LockInv, LockAt, LockedStaysUntouched, Running
<1>3. QED
  BY <1>1, <1>2, TypeInit, TypeNext, LockInit, PTL DEF Spec
=============================================================================
