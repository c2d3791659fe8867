---------------------------- MODULE BudgetProofs ----------------------------
(***************************************************************************)
(* Proofs about BillingSetup, for any number of clients: the budgets that  *)
(* omg budget ensure creates and changes (one for each account and name,   *)
(* an approval for each change, alerts that stay where they go), the       *)
(* routing of their alerts, what an init leaves behind, and what makes a   *)
(* command fail that nobody disturbs.                                      *)
(***************************************************************************)
EXTENDS BillingSetupProofs

NameOf(c) == DisplayName(req[c].policy)

Planned(c) == pc[c] \in {"approve", "consume", "mutate"}

\* Between plan and call, nothing has made the budget a client is about to create
\* but a run that raced it, and the budget it is about to patch keeps its name.
NameAt(c) ==
  /\ Planned(c) /\ plan[c].action = "create" =>
       \/ NameOf(c) \in raced
       \/ \A i \in made : ~(budgets[i].account = look[c] /\ budgets[i].name = NameOf(c))
  /\ Planned(c) /\ plan[c].action = "update" =>
       \/ budgets[plan[c].id] = NoBudget /\ plan[c].id \in removed
       \/ budgets[plan[c].id] # NoBudget /\ budgets[plan[c].id].name = NameOf(c)

MadeInv ==
  /\ made \subseteq BudgetIds
  /\ \A i \in made : budgets[i] # NoBudget
  /\ OneBudgetPerName

\* Two clients about to create the same name have raced.
RaceInv ==
  \A c, d \in Clients :
    c # d /\ MayCreate(c, NameOf(c)) /\ MayCreate(d, NameOf(c)) => NameOf(c) \in raced

NameInv == MadeInv /\ RaceInv /\ \A c \in Clients : NameAt(c)

LEMMA NameInit == Init => NameInv
  BY DEF Init, NameInv, MadeInv, RaceInv, NameAt, Planned, MayCreate, OneBudgetPerName

-----------------------------------------------------------------------------

\* A budget stays as it is but for what its name and account do not tell, is new
\* and not made by omg, or is removed.
Keeps(i) ==
  \/ budgets[i] = NoBudget /\ budgets'[i] = NoBudget
  \/ /\ budgets[i] # NoBudget /\ budgets'[i] # NoBudget
     /\ budgets'[i].account = budgets[i].account /\ budgets'[i].name = budgets[i].name
  \/ budgets[i] = NoBudget /\ i \notin removed
  \/ budgets'[i] = NoBudget /\ i \in removed' /\ i \notin made'

AllKept ==
  /\ made' \subseteq made /\ raced \subseteq raced' /\ removed \subseteq removed'
  /\ \A i \in BudgetIds : Keeps(i)

LEMMA SameKept ==
  ASSUME UNCHANGED <<budgets, made, raced, removed>>
  PROVE  AllKept
  BY DEF AllKept, Keeps

LEMMA MadeKept ==
  ASSUME NameInv, AllKept
  PROVE  MadeInv'
<1>1. \A i \in made' : /\ i \in made /\ i \in BudgetIds /\ budgets[i] # NoBudget
                       /\ budgets'[i] # NoBudget
                       /\ budgets'[i].account = budgets[i].account
                       /\ budgets'[i].name = budgets[i].name
  BY DEF NameInv, MadeInv, AllKept, Keeps
<1>2. OneBudgetPerName'
  BY <1>1 DEF NameInv, MadeInv, OneBudgetPerName, AllKept
<1>3. QED
  BY <1>1, <1>2 DEF MadeInv, NoBudget

\* A client that has planned finds the budgets it saw.
LEMMA NameKept ==
  ASSUME TypeInv, NameInv, AllKept, NEW d \in Clients,
         pc'[d] = pc[d] \/ (Planned(d) /\ pc'[d] \in {"consume", "mutate"}),
         req'[d] = req[d], look'[d] = look[d], plan'[d] = plan[d]
  PROVE  NameAt(d)'
<1>1. NameAt(d) /\ (Planned(d)' => Planned(d)) /\ NameOf(d)' = NameOf(d)
  BY DEF NameInv, Planned, NameOf
<1>2. ASSUME Planned(d)', plan'[d].action = "create"
      PROVE  \/ NameOf(d)' \in raced'
             \/ \A i \in made' : ~(budgets'[i].account = look'[d] /\ budgets'[i].name = NameOf(d)')
  <2>1. \A i \in made' : /\ i \in made
                         /\ budgets'[i].account = budgets[i].account
                         /\ budgets'[i].name = budgets[i].name
    BY DEF NameInv, MadeInv, AllKept, Keeps
  <2>2. QED
    BY <1>1, <1>2, <2>1 DEF NameAt, AllKept
<1>3. ASSUME Planned(d)', plan'[d].action = "update"
      PROVE  \/ budgets'[plan'[d].id] = NoBudget /\ plan'[d].id \in removed'
             \/ budgets'[plan'[d].id] # NoBudget /\ budgets'[plan'[d].id].name = NameOf(d)'
  <2>1. plan[d].id \in BudgetIds
    BY <1>1, <1>3 DEF TypeInv, ClientTypeOK, Plans, Fits, FitsAt, Planned
  <2>2. Keeps(plan[d].id) /\ removed \subseteq removed'
    BY <2>1 DEF AllKept
  <2>3. QED
    BY <1>1, <1>3, <2>2 DEF NameAt, Keeps
<1>4. QED
  BY <1>2, <1>3 DEF NameAt, NoBudget

\* A client that does not go on to plan or to call the API.
LEMMA QuietNames ==
  ASSUME TypeInv, NameInv, NEW c \in Clients, Moved(c), AllKept,
         \/ pc'[c] \notin {"approve", "consume", "mutate"}
         \/ Planned(c) /\ pc'[c] \in {"consume", "mutate"} /\ UNCHANGED <<req, look, plan>>
  PROVE  NameInv'
<1>1. ASSUME NEW d \in Clients, d # c
      PROVE  pc'[d] = pc[d] /\ req'[d] = req[d] /\ look'[d] = look[d] /\ plan'[d] = plan[d]
  BY <1>1 DEF TypeInv, ClientTypeOK, Moved
<1>2. \A d \in Clients : NameAt(d)'
  <2>1. ASSUME NEW d \in Clients, d # c PROVE NameAt(d)'
    BY <1>1, <2>1, NameKept
  <2>2. NameAt(c)'
    <3>1. CASE pc'[c] \notin {"approve", "consume", "mutate"}
      BY <3>1 DEF NameAt, Planned
    <3>2. CASE Planned(c) /\ pc'[c] \in {"consume", "mutate"} /\ UNCHANGED <<req, look, plan>>
      BY <3>2, NameKept
    <3>3. QED
      BY <3>1, <3>2
  <2>3. QED
    BY <2>1, <2>2
<1>3. ASSUME NEW d \in Clients, Planned(d)'
      PROVE  Planned(d) /\ req'[d] = req[d] /\ plan'[d] = plan[d]
  BY <1>1, <1>3 DEF Planned
<1>4. RaceInv'
  BY <1>3 DEF RaceInv, NameInv, MayCreate, NameOf, Planned, AllKept
<1>5. QED
  BY <1>2, <1>4, MadeKept DEF NameInv

LEMMA InitNames ==
  ASSUME TypeInv, NameInv, NEW c \in Clients, InitStep(c) \/ InitFault(c)
  PROVE  NameInv'
<1>1. UNCHANGED <<budgets, made, raced, removed>>
  BY DEF InitStep, InitFault, InitCallLost, SelectProject, CreateProject, CreateRefused,
         ActivateProject, ReadBilling, ReadLock, ListBudgets, ListBudgetsUnseen, LinkBilling,
         Confirm, EnableApis, ProposeRoles, ApplyBinding, SaveProfile, SaveConfig,
         SaveConfigBlind, CreateEffect, ActivateEffect, LinkEffect, ApisEffect, BindEffect,
         cloud, past
<1>2. pc \in [Clients -> AllSteps]
  BY DEF TypeInv, ClientTypeOK, AllSteps
<1>3. pc'[c] \notin {"approve", "consume", "mutate"}
  BY <1>2 DEF InitStep, InitFault, InitCallLost, SelectProject, CreateProject, CreateRefused,
         ActivateProject, ReadBilling, ReadLock, ListBudgets, ListBudgetsUnseen, LinkBilling,
         Confirm, EnableApis, ProposeRoles, ApplyBinding, SaveProfile, SaveConfig,
         SaveConfigBlind, Goto, GuardStep, AfterLink
<1>4. QED
  BY <1>1, <1>3, InitMoves, SameKept, QuietNames

LEMMA FateNames ==
  ASSUME TypeInv, NameInv, NEW c \in Clients,
         \/ \E r \in Requests : Start(c, r)
         \/ Finish(c) \/ Kill(c) \/ CallFails(c)
  PROVE  NameInv'
<1>1. UNCHANGED <<budgets, made, raced, removed>>
  BY DEF Start, Finish, Kill, CallFails, Leave, cloud, past
<1>2. pc \in [Clients -> AllSteps]
  BY DEF TypeInv, ClientTypeOK, AllSteps
<1>3. \A r \in Requests : FirstStep(r) \notin {"approve", "consume", "mutate"}
  BY RequestKinds DEF FirstStep
<1>4. pc'[c] \notin {"approve", "consume", "mutate"}
  BY <1>2, <1>3 DEF Start, Finish, Kill, CallFails, Leave, Goto
<1>5. QED
  BY <1>1, <1>4, FateMoves, SameKept, QuietNames

LEMMA PeopleNames ==
  ASSUME TypeInv, NameInv, People
  PROVE  NameInv'
<1>1. UNCHANGED <<pc, local>>
  BY DEF People, HandBudget, RemoveBudget, HandLink, HandRoute, SwitchUser, LockProject,
         UnlockProject, Grant, ByHand
<1>2. budgets = [id \in BudgetIds |-> budgets[id]]
  BY DEF TypeInv, CloudTypeOK
<1>3. AllKept
  <2>1. ASSUME NEW id \in HandIds, NEW b \in HandBudgets, HandBudget(id, b) PROVE AllKept
    <3>1. /\ id \in BudgetIds /\ Fresh(id) /\ UNCHANGED <<made, raced, removed>>
          /\ budgets' = [budgets EXCEPT ![id] = b]
      BY <2>1, CloudAssumption DEF HandBudget, CloudAssumption
    <3>2. \A i \in BudgetIds : i # id => budgets'[i] = budgets[i]
      BY <1>2, <3>1
    <3>3. \A i \in BudgetIds : Keeps(i)
      BY <3>1, <3>2 DEF Keeps, Fresh
    <3>4. QED
      BY <3>1, <3>3 DEF AllKept
  <2>2. ASSUME NEW id \in BudgetIds, RemoveBudget(id) PROVE AllKept
    <3>1. /\ made' = made \ {id} /\ removed' = removed \cup {id} /\ UNCHANGED raced
          /\ budgets' = [budgets EXCEPT ![id] = NoBudget]
      BY <2>2 DEF RemoveBudget
    <3>2. \A i \in BudgetIds : budgets'[i] = IF i = id THEN NoBudget ELSE budgets[i]
      BY <1>2, <3>1
    <3>3. \A i \in BudgetIds : Keeps(i)
      BY <3>1, <3>2 DEF Keeps
    <3>4. QED
      BY <3>1, <3>3 DEF AllKept
  <2>3. ASSUME NEW id \in BudgetIds, NEW t \in Topics, HandRoute(id, t) PROVE AllKept
    <3>1. /\ budgets[id] \in Budgets /\ UNCHANGED <<made, raced, removed>>
          /\ budgets' = [budgets EXCEPT ![id] = Routed(budgets[id], t)]
      BY <2>3 DEF HandRoute, TypeInv, CloudTypeOK, past
    <3>2. /\ Routed(budgets[id], t).account = budgets[id].account
          /\ Routed(budgets[id], t).name = budgets[id].name
          /\ Routed(budgets[id], t) \in Budgets
      BY <2>3, <3>1, RoutedKinds DEF Routed, Budgets
    <3>3. \A i \in BudgetIds : i # id => budgets'[i] = budgets[i]
      BY <1>2, <3>1
    <3>4. NoBudget \notin Budgets
      BY PolicyAssumption DEF PolicyAssumption, NoBudget, Budgets
    <3>5. Keeps(id)
      BY <1>2, <3>1, <3>2, <3>4 DEF Keeps
    <3>6. QED
      BY <3>1, <3>3, <3>5 DEF AllKept, Keeps
  <2>4. CASE UNCHANGED <<budgets, made, raced, removed>>
    BY <2>4, SameKept
  <2>5. QED
    BY <2>1, <2>2, <2>3, <2>4
       DEF People, HandLink, SwitchUser, LockProject, UnlockProject, Grant, cloud, past
<1>4. \A c \in Clients : NameAt(c)'
  BY <1>1, <1>3, NameKept DEF local
<1>5. RaceInv'
  BY <1>1, <1>3 DEF RaceInv, NameInv, MayCreate, NameOf, AllKept, local
<1>6. QED
  BY <1>3, <1>4, <1>5, MadeKept DEF NameInv

-----------------------------------------------------------------------------

\* What a plan says of the budgets it was made from.
LEMMA PlanFinds ==
  ASSUME NEW c, NEW visible \in BOOLEAN, NEW id \in BudgetIds \cup {None}, Found(c, visible, id)
  PROVE  LET action == PlanBudgetEnsure(look[c], visible, TheBudget(id), req[c].policy)
         IN  /\ action = "create" =>
                  \A i \in BudgetIds :
                    budgets[i] # NoBudget =>
                      ~(budgets[i].account = look[c] /\ budgets[i].name = NameOf(c))
             /\ action = "update" =>
                  id # None /\ budgets[id] # NoBudget /\ budgets[id].name = NameOf(c)
<1> DEFINE action == PlanBudgetEnsure(look[c], visible, TheBudget(id), req[c].policy)
<1>1. action = "create" => ~AuditBlocks(look[c], visible) /\ TheBudget(id) = NoBudget
  BY DEF PlanBudgetEnsure
<1>2. action = "update" => ~AuditBlocks(look[c], visible) /\ TheBudget(id) # NoBudget
  BY DEF PlanBudgetEnsure
<1>3. ~AuditBlocks(look[c], visible) => visible = TRUE
  <2>1. AuditRisk(look[c], FALSE, {}) \in {"billing_disabled", "review"}
    BY DEF AuditRisk
  <2>2. QED
    BY <2>1 DEF AuditBlocks
<1>4. visible = TRUE => \/ id \in Named(look[c], NameOf(c))
                        \/ Named(look[c], NameOf(c)) = {} /\ id = None
  BY DEF Found, NameOf
<1>5. id \in Named(look[c], NameOf(c)) =>
        id # None /\ budgets[id] # NoBudget /\ budgets[id].name = NameOf(c)
  BY PolicyAssumption DEF Named, Listed, Has, PolicyAssumption
<1>6. TheBudget(id) = NoBudget => id \notin Named(look[c], NameOf(c))
  BY <1>5 DEF TheBudget
<1>7. TheBudget(id) # NoBudget => id # None
  BY DEF TheBudget
<1>8. Named(look[c], NameOf(c)) = {} =>
        \A i \in BudgetIds :
          budgets[i] # NoBudget => ~(budgets[i].account = look[c] /\ budgets[i].name = NameOf(c))
  BY DEF Named, Listed, Has
<1> HIDE DEF action
<1>9. action = "create" => Named(look[c], NameOf(c)) = {}
  BY <1>1, <1>3, <1>4, <1>6
<1>10. action = "update" => id \in Named(look[c], NameOf(c))
  BY <1>2, <1>3, <1>4, <1>7
<1>11. QED
  BY <1>5, <1>8, <1>9, <1>10 DEF action

LEMMA PlanNames ==
  ASSUME TypeInv, NameInv, NEW c \in Clients, Moved(c), NEW visible \in BOOLEAN,
         PlanFrom(c, visible), pc[c] = "plan"
  PROVE  NameInv'
<1>1. PICK id \in BudgetIds \cup {None} :
        LET action == PlanBudgetEnsure(look[c], visible, TheBudget(id), req[c].policy)
        IN  /\ Found(c, visible, id)
            /\ plan' = [plan EXCEPT ![c] = [action |-> action, id |-> id]]
            /\ raced' = IF action = "create" /\ \E d \in Clients \ {c} : MayCreate(d, DisplayName(req[c].policy))
                        THEN raced \cup {DisplayName(req[c].policy)} ELSE raced
            /\ UNCHANGED <<budgets, req, look, made, removed>>
  BY DEF PlanFrom, cloud
<1> DEFINE action == PlanBudgetEnsure(look[c], visible, TheBudget(id), req[c].policy)
<1>2. /\ action = "create" =>
           \A i \in BudgetIds :
             budgets[i] # NoBudget =>
               ~(budgets[i].account = look[c] /\ budgets[i].name = NameOf(c))
      /\ action = "update" =>
           id # None /\ budgets[id] # NoBudget /\ budgets[id].name = NameOf(c)
  BY <1>1, PlanFinds
<1>3. /\ plan' = [plan EXCEPT ![c] = [action |-> action, id |-> id]]
      /\ raced' = IF action = "create" /\ \E d \in Clients \ {c} : MayCreate(d, NameOf(c))
                  THEN raced \cup {NameOf(c)} ELSE raced
      /\ UNCHANGED <<budgets, req, look, made, removed>>
  BY <1>1 DEF NameOf
<1> HIDE DEF action
<1>4. plan'[c].action = action /\ plan'[c].id = id /\ NameOf(c)' = NameOf(c)
  BY <1>3 DEF TypeInv, ClientTypeOK, NameOf
<1>5. AllKept
  BY <1>3 DEF AllKept, Keeps
<1>6. NameAt(c)'
  BY <1>2, <1>3, <1>4 DEF NameAt, NameInv, MadeInv, NoBudget
<1>7. ASSUME NEW d \in Clients, d # c
      PROVE  /\ pc'[d] = pc[d] /\ req'[d] = req[d] /\ look'[d] = look[d] /\ plan'[d] = plan[d]
             /\ NameOf(d)' = NameOf(d)
  BY <1>7 DEF TypeInv, ClientTypeOK, Moved, NameOf
<1>8. ASSUME NEW d \in Clients, d # c PROVE NameAt(d)'
  BY <1>5, <1>7, <1>8, NameKept
<1>9. RaceInv'
  <2>1. ASSUME NEW d \in Clients, d # c, NEW n
        PROVE  MayCreate(d, n)' <=> MayCreate(d, n)
    BY <1>7, <2>1 DEF MayCreate
  <2>2. ASSUME NEW d \in Clients, NEW e \in Clients, d # c, e # c, d # e,
               MayCreate(d, NameOf(d))', MayCreate(e, NameOf(d))'
        PROVE  NameOf(d)' \in raced'
    BY <1>5, <1>7, <2>1, <2>2 DEF NameInv, RaceInv, AllKept, MayCreate
  <2>3. ASSUME NEW d \in Clients, d # c, MayCreate(c, NameOf(c))', MayCreate(d, NameOf(c))'
        PROVE  NameOf(c)' \in raced'
    <3>1. action = "create" /\ MayCreate(d, NameOf(c))
      BY <1>4, <2>1, <2>3 DEF MayCreate
    <3>2. QED
      BY <1>3, <1>4, <2>3, <3>1
  <2>4. ASSUME NEW d \in Clients, NEW e \in Clients, d # e,
               MayCreate(d, NameOf(d))', MayCreate(e, NameOf(d))'
        PROVE  NameOf(d)' \in raced' /\ NameOf(e)' = NameOf(d)'
    <3>1. NameOf(e)' = NameOf(d)'
      BY <2>4 DEF MayCreate, NameOf
    <3>2. CASE d # c /\ e # c
      BY <2>2, <2>4, <3>1, <3>2
    <3>3. CASE d = c
      BY <2>3, <2>4, <3>1, <3>3
    <3>4. CASE e = c
      BY <2>3, <2>4, <3>1, <3>4
    <3>5. QED
      BY <3>2, <3>3, <3>4
  <2>5. QED
    BY <2>4 DEF RaceInv
<1>10. QED
  BY <1>5, <1>6, <1>8, <1>9, MadeKept DEF NameInv

LEMMA MutateNames ==
  ASSUME TypeInv, NameInv, NEW c \in Clients, Moved(c), MutateEffect(c), pc[c] = "mutate",
         pc'[c] \in {"redescribe", "failed"}
  PROVE  NameInv'
<1>0. /\ budgets \in [BudgetIds -> Budgets \cup {NoBudget}] /\ NoBudget \notin Budgets
      /\ NameAt(c) /\ Planned(c)
  BY PolicyAssumption
     DEF TypeInv, CloudTypeOK, PolicyAssumption, NoBudget, Budgets, NameInv, Planned
<1>1. req[c].policy \in Policies /\ look[c] \in BillingAccounts /\ Fits(c)
  BY RequestOf, RequestKinds DEF TypeInv, Fits, FitsAt, InitSteps, EnsureSteps, Ends
<1>2. ASSUME NEW id \in BudgetIds, plan[c].action = "update", id = plan[c].id, budgets[id] # NoBudget,
             budgets' = [budgets EXCEPT ![id] = Patched(budgets[id], req[c].policy)],
             UNCHANGED <<made, raced, removed>>
      PROVE  NameInv'
  <2>1. /\ Patched(budgets[id], req[c].policy) \in Budgets
        /\ Patched(budgets[id], req[c].policy).account = budgets[id].account
        /\ Patched(budgets[id], req[c].policy).name = NameOf(c)
    BY <1>0, <1>1, <1>2, BudgetKinds DEF Patched, Budgets, NameOf
  <2>2. budgets[id].name = NameOf(c)
    BY <1>0, <1>2 DEF NameAt
  <2>3. \A i \in BudgetIds : i # id => budgets'[i] = budgets[i]
    BY <1>0, <1>2
  <2>4. Keeps(id)
    BY <1>0, <1>2, <2>1, <2>2 DEF Keeps
  <2>5. AllKept
    BY <1>2, <2>3, <2>4 DEF AllKept, Keeps
  <2>6. QED
    BY <2>5, QuietNames
<1>3. ASSUME NEW id \in BudgetIds, plan[c].action = "create", Fresh(id),
             budgets' = [budgets EXCEPT ![id] = Created(look[c], req[c].policy)],
             made' = made \cup {id}, UNCHANGED <<raced, removed>>
      PROVE  NameInv'
  <2>1. /\ budgets'[id] \in Budgets /\ budgets'[id] # NoBudget
        /\ budgets'[id].account = look[c] /\ budgets'[id].name = NameOf(c)
    BY <1>0, <1>1, <1>3, BudgetKinds DEF Created, NameOf
  <2>2. \A i \in BudgetIds : i # id => budgets'[i] = budgets[i]
    BY <1>0, <1>3
  <2>3. id \notin made /\ made \subseteq BudgetIds
    BY <1>3 DEF NameInv, MadeInv, Fresh
  <2>4. NameOf(c) \in raced \/ \A i \in made : ~(budgets[i].account = look[c] /\ budgets[i].name = NameOf(c))
    BY <1>0, <1>3 DEF NameAt
  <2>5. MadeInv'
    <3>1. ASSUME NEW i \in made', NEW j \in made', i # j, budgets'[i].account = budgets'[j].account,
                 budgets'[i].name = budgets'[j].name
          PROVE  budgets'[i].name \in raced'
      <4>1. CASE i # id /\ j # id
        BY <1>3, <2>2, <2>3, <3>1, <4>1 DEF NameInv, MadeInv, OneBudgetPerName
      <4>2. CASE i = id
        BY <1>3, <2>1, <2>2, <2>3, <2>4, <3>1, <4>2
      <4>3. CASE j = id
        BY <1>3, <2>1, <2>2, <2>3, <2>4, <3>1, <4>3
      <4>4. QED
        BY <4>1, <4>2, <4>3
    <3>2. OneBudgetPerName'
      BY <3>1 DEF OneBudgetPerName
    <3>3. \A i \in made' : i \in BudgetIds /\ budgets'[i] # NoBudget
      BY <1>3, <2>1, <2>2, <2>3 DEF NameInv, MadeInv
    <3>4. QED
      BY <3>2, <3>3 DEF MadeInv, NoBudget
  <2>6. ASSUME NEW d \in Clients, d # c
        PROVE  /\ pc'[d] = pc[d] /\ req'[d] = req[d] /\ look'[d] = look[d] /\ plan'[d] = plan[d]
               /\ NameOf(d)' = NameOf(d) /\ NameAt(d)
    BY <2>6 DEF TypeInv, ClientTypeOK, Moved, NameOf, NameInv
  <2>7. ASSUME NEW d \in Clients, d # c PROVE NameAt(d)'
    <3>1. ASSUME Planned(d)', plan'[d].action = "create"
          PROVE  \/ NameOf(d)' \in raced'
                 \/ \A i \in made' : ~(budgets'[i].account = look'[d] /\ budgets'[i].name = NameOf(d)')
      <4>1. Planned(d) /\ plan[d].action = "create"
        BY <2>6, <2>7, <3>1 DEF Planned
      <4>2. CASE NameOf(d) = NameOf(c)
        <5>1. MayCreate(d, NameOf(d)) /\ MayCreate(c, NameOf(d))
          BY <1>0, <1>3, <4>1, <4>2 DEF MayCreate, NameOf, Planned
        <5>2. NameOf(d) \in raced
          BY <2>7, <5>1 DEF NameInv, RaceInv
        <5>3. QED
          BY <1>3, <2>6, <2>7, <5>2
      <4>3. CASE NameOf(d) # NameOf(c)
        <5>1. NameOf(d) \in raced \/ \A i \in made : ~(budgets[i].account = look[d] /\ budgets[i].name = NameOf(d))
          BY <2>6, <2>7, <4>1 DEF NameAt
        <5>2. QED
          BY <1>3, <2>1, <2>2, <2>3, <2>6, <2>7, <4>3, <5>1
      <4>4. QED
        BY <4>2, <4>3
    <3>2. ASSUME Planned(d)', plan'[d].action = "update"
          PROVE  \/ budgets'[plan'[d].id] = NoBudget /\ plan'[d].id \in removed'
                 \/ budgets'[plan'[d].id] # NoBudget /\ budgets'[plan'[d].id].name = NameOf(d)'
      <4>1. Planned(d) /\ plan[d].action = "update"
        BY <2>6, <2>7, <3>2 DEF Planned
      <4>2. plan[d].id \in BudgetIds
        BY <4>1 DEF TypeInv, ClientTypeOK, Plans, Fits, FitsAt, Planned
      <4>3. \/ budgets[plan[d].id] = NoBudget /\ plan[d].id \in removed
            \/ budgets[plan[d].id] # NoBudget /\ budgets[plan[d].id].name = NameOf(d)
        BY <2>6, <2>7, <4>1 DEF NameAt
      <4>4. plan[d].id # id
        BY <1>3, <4>3 DEF Fresh
      <4>5. budgets'[plan[d].id] = budgets[plan[d].id]
        BY <2>2, <4>2, <4>4
      <4>6. QED
        BY <1>3, <2>6, <2>7, <4>3, <4>5
    <3>3. QED
      BY <3>1, <3>2 DEF NameAt, NoBudget
  <2>8. NameAt(c)'
    BY DEF NameAt, Planned
  <2>9. RaceInv'
    <3>1. ASSUME NEW d \in Clients, MayCreate(d, NameOf(d))'
          PROVE  d # c
      BY <3>1 DEF MayCreate
    <3>2. QED
      BY <1>3, <2>6, <3>1 DEF NameInv, RaceInv, MayCreate, NameOf
  <2>10. QED
    BY <2>5, <2>7, <2>8, <2>9 DEF NameInv
<1>4. QED
  BY <1>2, <1>3 DEF MutateEffect, NewId

LEMMA EnsureNames ==
  ASSUME TypeInv, NameInv, NEW c \in Clients, EnsureStep(c) \/ EnsureFault(c)
  PROVE  NameInv'
<1>1. Moved(c) /\ pc = [d \in Clients |-> pc[d]]
  BY EnsureMoves DEF TypeInv, ClientTypeOK
<1>2. CASE PlanEnsure(c) \/ PlanEnsureUnseen(c)
  BY <1>1, <1>2, PlanNames DEF PlanEnsure, PlanEnsureUnseen
<1>3. CASE Mutate(c) \/ MutateLost(c)
  BY <1>1, <1>3, MutateNames DEF Mutate, MutateLost, Goto
<1>4. CASE LoadApproval(c) \/ ConsumeApproval(c)
  <2>1. /\ UNCHANGED <<budgets, made, raced, removed>>
        /\ Planned(c) /\ pc'[c] \in {"consume", "mutate"} /\ UNCHANGED <<req, look, plan>>
    BY <1>1, <1>4 DEF LoadApproval, ConsumeApproval, Goto, Planned, cloud, past, local
  <2>2. QED
    BY <1>1, <2>1, SameKept, QuietNames
<1>5. CASE DescribeBilling(c)
  <2>1. UNCHANGED <<budgets, made, raced, removed>>
    BY <1>5 DEF DescribeBilling, cloud, past
  <2>2. /\ pc[c] \in {"describe", "redescribe"}
        /\ pc'[c] = CASE pc[c] = "redescribe" -> "verify"
                      [] pc[c] = "describe" /\ req[c].cmd = "ensure" -> "plan"
                      [] pc[c] = "describe" /\ req[c].cmd = "init" ->
                           IF billing[Project(c)] = None THEN "blocked" ELSE "budgets"
    BY <1>1, <1>5 DEF DescribeBilling, Goto
  <2>3. req[c].cmd \in {"init", "ensure"}
    BY <2>2, RequestOf DEF Ends, InitSteps, EnsureSteps
  <2>4. pc'[c] \in {"verify", "plan", "blocked", "budgets"}
    BY <2>2, <2>3
  <2>5. QED
    BY <1>1, <2>1, <2>4, SameKept, QuietNames
<1>6. CASE /\ UNCHANGED <<budgets, made, raced, removed>>
           /\ pc'[c] \in {"blocked", "done", "failed", "redescribe"}
  BY <1>1, <1>6, SameKept, QuietNames
<1>7. QED
  BY <1>1, <1>2, <1>3, <1>4, <1>5, <1>6
     DEF EnsureStep, EnsureFault, DescribeNoProject, AskApproval, GateRefuses, MutateNotFound,
         VerifyEnsure, EnableBudgetApi, EnableLost, EnableEffect, Goto, cloud, past

\* Commands create one budget for each account and name, whatever answers are lost and
\* commands repeated, unless two were between plan and call at once (budget.ts: audit
\* before the mutation; budget-policy.ts: findBudgetByDisplayName).
THEOREM OneBudget == Spec => []OneBudgetPerName
<1>1. TypeInv /\ NameInv /\ [Next]_vars => NameInv'
  <2> SUFFICES ASSUME TypeInv, NameInv, [Next]_vars PROVE NameInv'
    OBVIOUS
  <2>1. CASE UNCHANGED vars
    BY <2>1 DEF vars, cloud, local, past, NameInv, MadeInv, RaceInv, NameAt, OneBudgetPerName,
                MayCreate, Planned, NameOf, NoBudget
  <2>2. QED
    BY <2>1, InitNames, EnsureNames, FateNames, PeopleNames DEF Next, Step, Misfortune
<1>2. NameInv => OneBudgetPerName
  BY DEF NameInv, MadeInv
<1>3. QED
  BY <1>1, <1>2, TypeInit, TypeNext, NameInit, PTL DEF Spec

-----------------------------------------------------------------------------

\* Of the commands, only a mutation changes budgets, and it creates or patches one.
LEMMA BudgetsMutated ==
  ASSUME TypeInv, NEW c \in Clients,
         (\E r \in Requests : Start(c, r)) \/ Step(c) \/ Misfortune(c)
  PROVE  UNCHANGED budgets \/ (MutateEffect(c) /\ pc[c] = "mutate")
<1>1. ASSUME (\E r \in Requests : Start(c, r)) \/ Finish(c) \/ Kill(c) \/ CallFails(c)
      PROVE  UNCHANGED budgets
  BY <1>1 DEF Start, Finish, Kill, CallFails, Leave, cloud
<1>2. ASSUME InitStep(c) \/ InitFault(c) PROVE UNCHANGED budgets
  BY <1>2
     DEF InitStep, InitFault, InitCallLost, SelectProject, CreateProject, CreateRefused,
         ActivateProject, ReadBilling, ReadLock, ListBudgets, ListBudgetsUnseen, LinkBilling,
         Confirm, EnableApis, ProposeRoles, ApplyBinding, SaveProfile, SaveConfig,
         SaveConfigBlind, CreateEffect, ActivateEffect, LinkEffect, ApisEffect, BindEffect, cloud
<1>3. ASSUME EnsureStep(c) \/ EnsureFault(c)
      PROVE  UNCHANGED budgets \/ (MutateEffect(c) /\ pc[c] = "mutate")
  BY <1>3
     DEF EnsureStep, EnsureFault, DescribeBilling, DescribeNoProject, PlanEnsure, PlanFrom,
         PlanEnsureUnseen, LoadApproval, ConsumeApproval, AskApproval, GateRefuses, Mutate,
         MutateLost, MutateNotFound, VerifyEnsure, EnableBudgetApi, EnableLost, EnableEffect, cloud
<1>4. QED
  BY <1>1, <1>2, <1>3 DEF Step, Misfortune

\* A budget that a command changes keeps its account and its alert routing
\* (budget-policy.ts: the update mask of planBudgetApiMutation).
THEOREM AlertsRouted == Spec => AlertsStayRouted
<1>1. TypeInv /\ hands \in Nat /\ [Next]_vars =>
        [\A id \in BudgetIds :
           hands' = hands /\ budgets[id] # NoBudget =>
             /\ budgets'[id].account = budgets[id].account
             /\ budgets'[id].rule = budgets[id].rule]_vars
  <2> SUFFICES ASSUME TypeInv, hands \in Nat, Next, NEW id \in BudgetIds,
                      hands' = hands, budgets[id] # NoBudget
               PROVE  /\ budgets'[id].account = budgets[id].account
                      /\ budgets'[id].rule = budgets[id].rule
    OBVIOUS
  <2>1. ASSUME NEW c \in Clients, MutateEffect(c)
        PROVE  /\ budgets'[id].account = budgets[id].account
               /\ budgets'[id].rule = budgets[id].rule
    <3>1. budgets \in [BudgetIds -> Budgets \cup {NoBudget}]
      BY DEF TypeInv, CloudTypeOK
    <3>2. PICK i \in BudgetIds :
            /\ budgets' = [budgets EXCEPT ![i] = budgets'[i]]
            /\ budgets[i] = NoBudget \/ budgets'[i] = Patched(budgets[i], req[c].policy)
      BY <2>1, <3>1 DEF MutateEffect, NewId, Fresh
    <3>3. /\ Patched(budgets[id], req[c].policy).account = budgets[id].account
          /\ Patched(budgets[id], req[c].policy).rule = budgets[id].rule
      BY <3>1 DEF Patched, Budgets
    <3>4. QED
      BY <3>1, <3>2, <3>3
  <2>2. People => UNCHANGED budgets
    BY DEF People, HandBudget, RemoveBudget, HandLink, HandRoute, SwitchUser, LockProject,
           UnlockProject, Grant, ByHand, cloud
  <2>3. QED
    BY <2>1, <2>2, BudgetsMutated DEF Next
<1>2. QED
  BY <1>1, TypeInit, TypeNext, HandsCounted, PTL DEF Spec, AlertsStayRouted

-----------------------------------------------------------------------------

(* Approvals: one that is in the queue has paid for no change, and one that is held   *)
(* by two commands was loaded by both of them before either had saved it as consumed. *)

Holds(c) == pc[c] \in {"consume", "mutate"}

\* The approval a command holds is of its policy; at the call it is consumed.
HeldAt(c) ==
  Holds(c) =>
    /\ using[c].of[1] = req[c].policy
    /\ using[c].number <= grants
    /\ pc[c] = "mutate" => using[c] \notin granted
    /\ using[c] \in spent => using[c] \in shared

SharedAt(c, d) == c # d /\ Holds(c) /\ Holds(d) /\ using[c] = using[d] => using[c] \in shared

PaidInv ==
  /\ grants \in Nat
  /\ \A a \in granted \cup spent : a.number \in Nat /\ a.number <= grants
  /\ granted \cap spent = {}
  /\ \A c \in Clients : HeldAt(c)
  /\ \A c, d \in Clients : SharedAt(c, d)

LEMMA PaidInit == Init => PaidInv
<1> SUFFICES ASSUME Init PROVE PaidInv
  OBVIOUS
<1>1. PICK b \in Beginnings : granted = b.granted /\ grants = Cardinality(b.granted)
  BY DEF Init
<1>2. IsFiniteSet(granted) /\ \A a \in granted : a.number \in Nat /\ a.number <= grants
  <2>1. IsFiniteSet(granted) /\ \A a \in granted : a \in Approvals /\ a.number <= grants
    BY <1>1, CloudAssumption DEF CloudAssumption
  <2>2. QED
    BY <2>1 DEF Approvals
<1>3. grants \in Nat
  BY <1>1, <1>2, FS_CardinalityType
<1>4. QED
  BY <1>2, <1>3 DEF Init, PaidInv, HeldAt, SharedAt, Holds

\* The clients that do not move hold what they held.
LEMMA HeldKept ==
  ASSUME TypeInv, NEW c \in Clients, Moved(c), NEW d \in Clients, d # c
  PROVE  pc'[d] = pc[d] /\ req'[d] = req[d] /\ using'[d] = using[d]
  BY DEF TypeInv, ClientTypeOK, Moved

\* A step that neither gives nor uses an approval.
LEMMA PaidKept ==
  ASSUME TypeInv, PaidInv, NEW c \in Clients, Moved(c),
         UNCHANGED <<grants, granted, spent, shared>>, ~Holds(c)'
  PROVE  PaidInv'
<1>1. \A d \in Clients : HeldAt(d)'
  BY HeldKept DEF PaidInv, HeldAt, Holds
<1>2. \A d, e \in Clients : SharedAt(d, e)'
  BY HeldKept DEF PaidInv, SharedAt, Holds
<1>3. QED
  BY <1>1, <1>2 DEF PaidInv

\* An approval in the queue is held by none that is at its call already; one that
\* another command holds is then held by both.
LEMMA LoadPaid ==
  ASSUME TypeInv, PaidInv, NEW c \in Clients, LoadApproval(c)
  PROVE  PaidInv'
<1>1. PICK approval \in granted :
        /\ approval.of = <<req[c].policy, user>>
        /\ using' = [using EXCEPT ![c] = approval]
        /\ shared' = IF LoadedBeside(c, approval) THEN shared \cup {approval} ELSE shared
  BY DEF LoadApproval
<1>2. /\ Moved(c) /\ pc'[c] = "consume" /\ using'[c] = approval /\ req'[c] = req[c]
      /\ UNCHANGED <<grants, granted, spent>>
  BY <1>1, EnsureMoves DEF LoadApproval, EnsureStep, Goto, TypeInv, ClientTypeOK
<1>3. \A d \in Clients \ {c} : Holds(d) /\ using[d] = approval => approval \in shared'
  BY <1>1 DEF PaidInv, HeldAt, Holds, LoadedBeside
<1>4. HeldAt(c)'
  BY <1>1, <1>2 DEF PaidInv, HeldAt
<1>5. ASSUME NEW d \in Clients, d # c PROVE HeldAt(d)'
  BY <1>1, <1>2, <1>5, HeldKept DEF PaidInv, HeldAt, Holds
<1>6. ASSUME NEW d \in Clients, NEW e \in Clients PROVE SharedAt(d, e)'
  <2>1. CASE d # c /\ e # c
    BY <1>1, <1>2, <2>1, HeldKept DEF PaidInv, SharedAt, Holds
  <2>2. CASE d = c \/ e = c
    BY <1>2, <1>3, <2>2, HeldKept DEF SharedAt, Holds
  <2>3. QED
    BY <2>1, <2>2
<1>7. QED
  BY <1>2, <1>4, <1>5, <1>6 DEF PaidInv

LEMMA ConsumePaid ==
  ASSUME TypeInv, PaidInv, NEW c \in Clients, ConsumeApproval(c)
  PROVE  PaidInv'
<1>1. /\ Moved(c) /\ pc[c] = "consume" /\ pc'[c] = "mutate"
      /\ UNCHANGED <<grants, spent, shared, req, using>> /\ granted' = granted \ {using[c]}
  BY EnsureMoves DEF ConsumeApproval, EnsureStep, Goto, TypeInv, ClientTypeOK, local
<1>2. HeldAt(c)'
  BY <1>1 DEF PaidInv, HeldAt, Holds
<1>3. ASSUME NEW d \in Clients, d # c PROVE HeldAt(d)'
  BY <1>1, <1>3, HeldKept DEF PaidInv, HeldAt, Holds
<1>4. ASSUME NEW d \in Clients PROVE Holds(d)' <=> Holds(d)
  BY <1>1, HeldKept DEF Holds
<1>5. \A d, e \in Clients : SharedAt(d, e)'
  BY <1>1, <1>4 DEF PaidInv, SharedAt
<1>6. QED
  BY <1>1, <1>2, <1>3, <1>5 DEF PaidInv

\* What a call has used is held by another only if both had loaded it.
LEMMA MutatePaid ==
  ASSUME TypeInv, PaidInv, NEW c \in Clients, Mutate(c) \/ MutateLost(c)
  PROVE  PaidInv'
<1>1. /\ Moved(c) /\ pc[c] = "mutate" /\ ~Holds(c)'
      /\ UNCHANGED <<grants, granted, shared>> /\ spent' = spent \cup {using[c]}
  BY EnsureMoves
     DEF Mutate, MutateLost, MutateEffect, EnsureStep, EnsureFault, Goto, TypeInv, ClientTypeOK,
         Holds
<1>2. using[c].number \in Nat /\ using[c].number <= grants /\ using[c] \notin granted
  <2>1. using[c] \in Approvals
    BY <1>1 DEF TypeInv, Fits, FitsAt
  <2>2. QED
    BY <1>1, <2>1 DEF PaidInv, HeldAt, Holds, Approvals
<1>3. ASSUME NEW d \in Clients, d # c PROVE HeldAt(d)'
  <2>1. SharedAt(c, d) /\ HeldAt(d)
    BY DEF PaidInv
  <2>2. QED
    BY <1>1, <1>3, <2>1, HeldKept DEF HeldAt, SharedAt, Holds
<1>4. \A d, e \in Clients : SharedAt(d, e)'
  BY <1>1, HeldKept DEF PaidInv, SharedAt, Holds
<1>5. HeldAt(c)'
  BY <1>1 DEF HeldAt
<1>6. QED
  BY <1>1, <1>2, <1>3, <1>4, <1>5 DEF PaidInv

\* A new approval has a file of its own.
LEMMA GrantPaid ==
  ASSUME TypeInv, PaidInv, NEW request \in asked, Grant(request)
  PROVE  PaidInv'
<1> DEFINE new == [of |-> request, number |-> grants + 1]
<1>1. /\ granted' = granted \cup {new} /\ grants' = grants + 1
      /\ UNCHANGED <<spent, shared, pc, req, using>>
  BY DEF Grant, local
<1>2. grants \in Nat /\ new.number = grants + 1 /\ granted \subseteq Approvals
  BY DEF PaidInv, TypeInv, MachineTypeOK
<1>3. \A a : a.number <= grants => a # new
  BY <1>2
<1> HIDE DEF new
<1>4. \A c \in Clients : HeldAt(c)'
  <2> SUFFICES ASSUME NEW c \in Clients, Holds(c) PROVE HeldAt(c)'
    BY <1>1 DEF HeldAt, Holds
  <2>1. using[c] \in Approvals /\ HeldAt(c)
    BY DEF Holds, PaidInv, TypeInv, Fits, FitsAt
  <2>2. using[c].number \in Nat
    BY <2>1 DEF Approvals
  <2>3. QED
    BY <1>1, <1>2, <1>3, <2>1, <2>2 DEF HeldAt, Holds
<1>5. \A c, d \in Clients : SharedAt(c, d)'
  BY <1>1 DEF PaidInv, SharedAt, Holds
<1>6. granted' \cap spent' = {}
  BY <1>1, <1>3 DEF PaidInv
<1>7. \A a \in granted' \cup spent' : a.number \in Nat /\ a.number <= grants'
  <2> SUFFICES ASSUME NEW a \in granted \cup spent
               PROVE  a.number \in Nat /\ a.number <= grants + 1
    BY <1>1, <1>2
  <2>1. a.number <= grants
    BY DEF PaidInv
  <2>2. a.number \in Nat
    BY DEF PaidInv
  <2>3. QED
    BY <1>2, <2>1, <2>2
<1>8. QED
  BY <1>1, <1>2, <1>4, <1>5, <1>6, <1>7 DEF PaidInv

LEMMA InitPaid ==
  ASSUME TypeInv, PaidInv, NEW c \in Clients,
         \/ InitStep(c) \/ InitFault(c)
         \/ \E r \in Requests : Start(c, r)
         \/ Finish(c) \/ Kill(c) \/ CallFails(c)
  PROVE  PaidInv'
<1>1. UNCHANGED <<grants, granted, spent, shared>> /\ Moved(c) /\ pc \in [Clients -> AllSteps]
  BY InitMoves, FateMoves
     DEF InitStep, InitFault, InitCallLost, SelectProject, CreateProject, CreateRefused,
         ActivateProject, ReadBilling, ReadLock, ListBudgets, ListBudgetsUnseen, LinkBilling,
         Confirm, EnableApis, ProposeRoles, ApplyBinding, SaveProfile, SaveConfig,
         SaveConfigBlind, Start, Finish, Kill, CallFails, Leave, consent, TypeInv, ClientTypeOK,
         AllSteps
<1>2. \A r \in Requests : FirstStep(r) \notin {"consume", "mutate"}
  BY RequestKinds DEF FirstStep
<1>3. ~Holds(c)'
  BY <1>1, <1>2
     DEF InitStep, InitFault, InitCallLost, SelectProject, CreateProject, CreateRefused,
         ActivateProject, ReadBilling, ReadLock, ListBudgets, ListBudgetsUnseen, LinkBilling,
         Confirm, EnableApis, ProposeRoles, ApplyBinding, SaveProfile, SaveConfig,
         SaveConfigBlind, Start, Finish, Kill, CallFails, Leave, Goto, GuardStep, AfterLink, Holds
<1>4. QED
  BY <1>1, <1>3, PaidKept

LEMMA EnsurePaid ==
  ASSUME TypeInv, PaidInv, NEW c \in Clients, EnsureStep(c) \/ EnsureFault(c),
         ~LoadApproval(c), ~ConsumeApproval(c), ~Mutate(c), ~MutateLost(c)
  PROVE  PaidInv'
<1>1. Moved(c) /\ UNCHANGED <<grants, granted, spent, shared>>
  BY EnsureMoves
     DEF EnsureStep, EnsureFault, DescribeBilling, DescribeNoProject, PlanEnsure, PlanFrom,
         PlanEnsureUnseen, AskApproval, GateRefuses, MutateNotFound, VerifyEnsure,
         EnableBudgetApi, EnableLost, consent
<1>2. ~Holds(c)'
  <2>1. pc \in [Clients -> AllSteps]
    BY DEF TypeInv, ClientTypeOK, AllSteps
  <2>2. ASSUME PlanEnsure(c) \/ PlanEnsureUnseen(c) PROVE ~Holds(c)'
    <3>1. PICK visible \in BOOLEAN : PlanFrom(c, visible) /\ pc[c] = "plan"
      BY <2>2 DEF PlanEnsure, PlanEnsureUnseen
    <3>2. PICK id \in BudgetIds \cup {None} :
            pc' = [pc EXCEPT ![c] =
                     AfterPlan(c, PlanBudgetEnsure(look[c], visible, TheBudget(id), req[c].policy))]
      BY <3>1 DEF PlanFrom, Goto
    <3>3. look[c] \in BillingAccounts \cup {None} /\ Fits(c) /\ req[c].cmd = "ensure"
      BY <3>1, RequestOf DEF TypeInv, ClientTypeOK, Ends, InitSteps, EnsureSteps
    <3> DEFINE action == PlanBudgetEnsure(look[c], visible, TheBudget(id), req[c].policy)
    <3>4. action \in {"none", "create", "update", "blocked"}
      BY <3>3, PlanKinds
    <3>5. pc'[c] = AfterPlan(c, action)
      BY <2>1, <3>2
    <3> HIDE DEF action
    <3>6. req[c].how \in {"dry-run", "live"}
      BY <3>1, <3>3 DEF Fits, FitsAt, EnsureSteps
    <3>7. QED
      BY <3>4, <3>5, <3>6 DEF AfterPlan, Holds
  <2>3. ASSUME DescribeBilling(c) PROVE ~Holds(c)'
    <3>1. /\ pc[c] \in {"describe", "redescribe"}
          /\ pc'[c] = CASE pc[c] = "redescribe" -> "verify"
                        [] pc[c] = "describe" /\ req[c].cmd = "ensure" -> "plan"
                        [] pc[c] = "describe" /\ req[c].cmd = "init" ->
                             IF billing[Project(c)] = None THEN "blocked" ELSE "budgets"
      BY <2>1, <2>3 DEF DescribeBilling, Goto
    <3>2. req[c].cmd \in {"init", "ensure"}
      BY <3>1, RequestOf DEF Ends, InitSteps, EnsureSteps
    <3>3. QED
      BY <3>1, <3>2 DEF Holds
  <2>4. QED
    BY <2>1, <2>2, <2>3
       DEF EnsureStep, EnsureFault, DescribeNoProject, AskApproval, GateRefuses, MutateNotFound,
           VerifyEnsure, EnableBudgetApi, EnableLost, Goto, Holds
<1>3. QED
  BY <1>1, <1>2, PaidKept

\* A budget is changed under an approval of the policy that is put into it, and one
\* approval serves for two changes, also one whose answer was lost, only if the second
\* command had loaded it before the first had saved it as consumed (check.ts: load in
\* checkPermission, save in consumeApproval, without a look at the file in between).
THEOREM MutationsPaid == Spec => []MutationsPaidFor
<1>1. TypeInv /\ PaidInv /\ [Next]_vars => PaidInv'
  <2> SUFFICES ASSUME TypeInv, PaidInv, [Next]_vars PROVE PaidInv'
    OBVIOUS
  <2>1. CASE UNCHANGED <<grants, granted, spent, shared, pc, req, using>>
    BY <2>1 DEF PaidInv, HeldAt, SharedAt, Holds
  <2>2. ASSUME People PROVE PaidInv'
    <3>1. CASE \E request \in asked : Grant(request)
      BY <3>1, GrantPaid
    <3>2. CASE ~\E request \in asked : Grant(request)
      BY <2>1, <2>2, <3>2
         DEF People, HandBudget, RemoveBudget, HandLink, HandRoute, SwitchUser, LockProject,
             UnlockProject, ByHand, consent, local
    <3>3. QED
      BY <3>1, <3>2
  <2>3. CASE UNCHANGED vars
    BY <2>1, <2>3 DEF vars, consent, local
  <2>4. QED
    BY <2>2, <2>3, InitPaid, EnsurePaid, LoadPaid, ConsumePaid, MutatePaid
       DEF Next, Step, Misfortune
<1>2. PaidInv => MutationsPaidFor
  BY DEF PaidInv, HeldAt, Holds, MutationsPaidFor
<1>3. QED
  BY <1>1, <1>2, TypeInit, TypeNext, PaidInit, PTL DEF Spec

-----------------------------------------------------------------------------

(* The routing of alerts: what the plan of budget notifications makes of a rule *)
(* needs no further plan.                                                       *)

LEMMA RoutedRule ==
  ASSUME NEW b \in Budgets, NEW t \in Topics
  PROVE  /\ Routed(b, t).rule = [topic |-> t, schema |-> "1.0", channels |-> b.rule.channels]
         /\ Routed(b, t).rule.channels = b.rule.channels
         /\ Routed(b, t) # NoBudget /\ b # NoBudget
         /\ DesiredRule(t, Routed(b, t).rule) = Routed(b, t).rule
         /\ RoutingStatus(Routed(b, t).rule) = "configured"
<1> DEFINE rule == [topic |-> t, schema |-> "1.0", channels |-> b.rule.channels]
<1>1. Routed(b, t).rule = rule
  BY DEF Routed, DesiredRule, Budgets
<1>2. Routed(b, t) \in Budgets
  BY RoutedKinds
<1>3. \A x \in Budgets : x # NoBudget
  BY PolicyAssumption DEF Budgets, NoBudget
<1>4. DesiredRule(t, rule) = rule
  BY DEF DesiredRule
<1>5. RoutingStatus(rule) = "configured"
  <2>1. rule.topic # None /\ rule.topic = t /\ rule.schema = "1.0"
    BY PolicyAssumption
  <2> HIDE DEF rule
  <2>2. QED
    BY <2>1 DEF RoutingStatus
<1>6. rule.channels = b.rule.channels
  OBVIOUS
<1> HIDE DEF rule
<1>7. Routed(b, t).rule.channels = b.rule.channels
  BY <1>1, <1>6
<1>8. QED
  BY <1>1, <1>2, <1>3, <1>4, <1>5, <1>7 DEF rule

\* An account that is visible is not blocked by the audit of its budgets.
LEMMA AuditOfAccount ==
  ASSUME NEW account
  PROVE  AuditBlocks(account, TRUE) <=> account = None
<1>1. CASE account = None
  BY <1>1 DEF AuditBlocks, AuditRisk
<1>2. CASE account # None
  <2>1. AuditRisk(account, TRUE, {}) = "missing_budget"
    BY <1>2 DEF AuditRisk
  <2>2. QED
    BY <1>2, <2>1 DEF AuditBlocks
<1>3. QED
  BY <1>1, <1>2

\* Once a person has routed a budget as planned, the plan needs no change of it, its
\* recipients are those it had, and lock-ingestion is ready; with every budget of the
\* account routed its audit says configured (budget-pubsub.ts: buildDesiredRule;
\* cost-lock-ingestion.ts).
THEOREM RoutingSettles == Spec => []RoutingConverges
<1>1. TypeInv => RoutingConverges
  <2> SUFFICES ASSUME TypeInv, NEW p \in Projects, NEW t \in Topics
               PROVE  LET account == billing[p]
                          plans(id) == PlanRouting(account, TRUE, budgets[id], t,
                                                   TopicRisk("visible", TRUE, TRUE))
                          routed(id) == Routed(budgets[id], t)
                      IN  /\ \A id \in Listed(account) :
                               plans(id) = "update" =>
                                 /\ IngestionStatus(PlanRouting(account, TRUE, routed(id), t, "low"))
                                      = "ready"
                                 /\ routed(id).rule.channels = budgets[id].rule.channels
                          /\ Listed(account) # {} =>
                               Posture(account, TRUE, {routed(id) : id \in Listed(account)}, "low")
                                 = "configured"
    BY DEF RoutingConverges
  <2> DEFINE account == billing[p]
             routed(id) == Routed(budgets[id], t)
  <2>1. \A id \in Listed(account) : budgets[id] \in Budgets /\ account = budgets[id].account
    BY DEF TypeInv, CloudTypeOK, Listed, Has
  <2>2. \A b \in Budgets : b.account # None
    BY PolicyAssumption DEF Budgets
  <2>3. ASSUME NEW id \in Listed(account)
        PROVE  /\ IngestionStatus(PlanRouting(account, TRUE, routed(id), t, "low")) = "ready"
               /\ routed(id).rule.channels = budgets[id].rule.channels
               /\ RoutingStatus(routed(id).rule) = "configured"
               /\ ~AuditBlocks(account, TRUE)
    <3> DEFINE r == routed(id)
    <3>0. PICK b \in Budgets : b = budgets[id]
      BY <2>1
    <3>1. /\ r # NoBudget /\ DesiredRule(t, r.rule) = r.rule
          /\ r.rule.channels = budgets[id].rule.channels
          /\ RoutingStatus(r.rule) = "configured"
      <4>1. r = Routed(b, t)
        BY <3>0
      <4>2. /\ Routed(b, t) # NoBudget
            /\ DesiredRule(t, Routed(b, t).rule) = Routed(b, t).rule
            /\ RoutingStatus(Routed(b, t).rule) = "configured"
        BY RoutedRule
      <4>3. Routed(b, t).rule.channels = b.rule.channels
        BY RoutedRule
      <4>4. QED
        BY <3>0, <4>1, <4>2, <4>3
    <3>2. ~AuditBlocks(account, TRUE)
      BY <2>1, <2>2, AuditOfAccount
    <3> HIDE DEF r
    <3>3. RoutingChanges(r.rule, DesiredRule(t, r.rule)) = {}
      BY <3>1 DEF RoutingChanges
    <3>4. PlanRouting(account, TRUE, r, t, "low") = "none"
      BY <3>1, <3>2, <3>3 DEF PlanRouting
    <3>5. IngestionStatus("none") = "ready"
      BY DEF IngestionStatus
    <3>6. QED
      BY <3>1, <3>2, <3>4, <3>5 DEF r
  <2>4. ASSUME Listed(account) # {}
        PROVE  Posture(account, TRUE, {routed(id) : id \in Listed(account)}, "low") = "configured"
    <3> DEFINE rs == {routed(id) : id \in Listed(account)}
               statuses == {RoutingStatus(b.rule) : b \in rs}
    <3>1. statuses = {"configured"} /\ ~AuditBlocks(account, TRUE)
      BY <2>3, <2>4
    <3>2. statuses # {"none"} /\ ~(statuses \subseteq {"none"})
      BY <3>1
    <3>3. Posture(account, TRUE, rs, "low") =
            CASE AuditBlocks(account, TRUE) \/ "low" # "low" -> "blocked"
              [] OTHER -> IF statuses \subseteq {"none"} THEN "none"
                          ELSE IF statuses = {"configured"} THEN "configured" ELSE "partial"
      BY DEF Posture
    <3> HIDE DEF statuses, rs
    <3>4. Posture(account, TRUE, rs, "low") = "configured"
      BY <3>1, <3>2, <3>3
    <3>5. QED
      BY <3>4 DEF rs
  <2>5. QED
    BY <2>3, <2>4
<1>2. QED
  BY <1>1, TypeInit, TypeNext, PTL DEF Spec

-----------------------------------------------------------------------------

(* What an init leaves behind. *)

\* The steps an init takes once its project is there, its APIs are enabled, and
\* its roles are bound.
WithProject ==
  {"activate", "status", "lock", "describe", "budgets", "link", "confirm", "apis", "account",
   "bind", "profile", "config", "done"}

WithApis == {"account", "bind", "profile", "config", "done"}

WithRoles == {"profile", "config", "done"}

\* What an init has done stays done, whoever else is at work.
InitAt(c) ==
  req[c].cmd = "init" =>
    /\ pc[c] \in WithProject => project[Project(c)] = "active"
    /\ pc[c] \in WithApis => "default" \in apis[Project(c)]
    /\ pc[c] = "bind" => \A role \in 1..bound[c] : <<Project(c), who[c], role>> \in bindings
    /\ pc[c] \in WithRoles => \A role \in 1..NumRoles : <<Project(c), who[c], role>> \in bindings

DoneInv == \A c \in Clients : InitAt(c)

\* Projects stay, and APIs and roles are never taken back.
CloudGrows ==
  /\ \A p \in Projects : project[p] = "active" => project'[p] = "active"
  /\ \A p \in Projects : apis[p] \subseteq apis'[p]
  /\ bindings \subseteq bindings'

LEMMA NextGrows ==
  ASSUME TypeInv, [Next]_vars
  PROVE  CloudGrows
<1> DEFINE Quiet == UNCHANGED <<project, apis, bindings>>
<1>0. project \in [Projects -> ProjectStates] /\ apis \in [Projects -> SUBSET {"default", "budget"}]
  BY DEF TypeInv, CloudTypeOK
<1>1. CASE Quiet
  BY <1>1 DEF CloudGrows
<1>2. CASE \E c \in Clients : CreateEffect(c)
  BY <1>0, <1>2 DEF CloudGrows, CreateEffect
<1>3. CASE \E c \in Clients : ApisEffect(c) \/ EnableEffect(c)
  BY <1>0, <1>3 DEF CloudGrows, ApisEffect, EnableEffect
<1>4. CASE \E c \in Clients : BindEffect(c)
  BY <1>0, <1>4 DEF CloudGrows, BindEffect
<1>5. ASSUME NEW c \in Clients, InitStep(c) \/ InitFault(c)
      PROVE  Quiet \/ CreateEffect(c) \/ ApisEffect(c) \/ BindEffect(c)
  BY <1>5
     DEF InitStep, InitFault, InitCallLost, SelectProject, CreateProject, CreateRefused,
         ActivateProject, ReadBilling, ReadLock, ListBudgets, ListBudgetsUnseen, LinkBilling,
         Confirm, EnableApis, ProposeRoles, ApplyBinding, SaveProfile, SaveConfig,
         SaveConfigBlind, ActivateEffect, LinkEffect, cloud
<1>6. ASSUME NEW c \in Clients, EnsureStep(c) \/ EnsureFault(c)
      PROVE  Quiet \/ EnableEffect(c)
  BY <1>6
     DEF EnsureStep, EnsureFault, DescribeBilling, DescribeNoProject, PlanEnsure, PlanFrom,
         PlanEnsureUnseen, LoadApproval, ConsumeApproval, AskApproval, GateRefuses, Mutate,
         MutateLost, MutateNotFound, VerifyEnsure, EnableBudgetApi, EnableLost, MutateEffect, cloud
<1>7. ASSUME NEW c \in Clients, (\E r \in Requests : Start(c, r)) \/ Finish(c) \/ Kill(c) \/ CallFails(c)
      PROVE  Quiet
  BY <1>7 DEF Start, Finish, Kill, CallFails, Leave, cloud
<1>8. ASSUME People PROVE Quiet
  BY <1>8 DEF People, HandBudget, RemoveBudget, HandLink, HandRoute, SwitchUser, LockProject,
              UnlockProject, Grant, ByHand, cloud
<1>9. QED
  BY <1>1, <1>2, <1>3, <1>4, <1>5, <1>6, <1>7, <1>8 DEF Next, Step, Misfortune, vars, cloud

LEMMA DoneMoved ==
  ASSUME TypeInv, DoneInv, CloudGrows, NEW c \in Clients, Moved(c), InitAt(c)'
  PROVE  DoneInv'
<1>1. ASSUME NEW d \in Clients, d # c PROVE InitAt(d)'
  <2>1. /\ pc'[d] = pc[d] /\ req'[d] = req[d] /\ who'[d] = who[d] /\ bound'[d] = bound[d]
    BY <1>1 DEF TypeInv, ClientTypeOK, Moved
  <2>2. InitAt(d)
    BY DEF DoneInv
  <2>3. req[d].cmd = "init" /\ pc[d] \in WithProject \ {"done"} => req[d].project \in Projects
    BY RequestOf, RequestKinds DEF WithProject, Ends
  <2>4. req[d].cmd = "init" /\ pc[d] = "done" => req[d].project \in Projects
    BY RequestKinds DEF TypeInv, ClientTypeOK, NoRequest
  <2>5. QED
    BY <2>1, <2>2, <2>3, <2>4 DEF InitAt, CloudGrows, Project, WithProject, WithApis, WithRoles
<1>2. QED
  BY <1>1 DEF DoneInv

LEMMA InitDone ==
  ASSUME TypeInv, DoneInv, CloudGrows, NEW c \in Clients, InitStep(c) \/ InitFault(c)
  PROVE  DoneInv'
<1> SUFFICES InitAt(c)'
  BY InitMoves, DoneMoved
<1> USE DEF WithProject, WithApis, WithRoles, Project
<1>1. /\ Moved(c) /\ InitAt(c) /\ pc = [d \in Clients |-> pc[d]]
      /\ pc[c] # "describe" /\ pc[c] \notin {"idle"} \cup Ends
      /\ bound = [d \in Clients |-> bound[d]] /\ who = [d \in Clients |-> who[d]]
  BY InitMoves
     DEF TypeInv, ClientTypeOK, DoneInv, InitStep, InitFault, InitCallLost, SelectProject,
         CreateProject, CreateRefused, ActivateProject, ReadBilling, ReadLock, ListBudgets,
         ListBudgetsUnseen, LinkBilling, Confirm, EnableApis, ProposeRoles, ApplyBinding,
         SaveProfile, SaveConfig, SaveConfigBlind, Ends
<1>2. /\ UNCHANGED req /\ req[c].project \in Projects /\ bound[c] \in 0..NumRoles /\ NumRoles \in Nat
      /\ pc[c] # "account" => UNCHANGED who
      /\ pc[c] # "bind" => UNCHANGED bound
  <2>1. req[c].project \in Projects
    BY <1>1, RequestOf, RequestKinds
  <2>2. QED
    BY <2>1, CloudAssumption
     DEF TypeInv, ClientTypeOK, CloudAssumption, InitStep, InitFault, InitCallLost, SelectProject,
         CreateProject, CreateRefused, ActivateProject, ReadBilling, ReadLock, ListBudgets,
         ListBudgetsUnseen, LinkBilling, Confirm, EnableApis, ProposeRoles, ApplyBinding,
         SaveProfile, SaveConfig, SaveConfigBlind, local
<1>3. ASSUME pc'[c] = "failed" PROVE InitAt(c)'
  BY <1>3 DEF InitAt
<1>4. CASE InitCallLost(c)
  BY <1>1, <1>3, <1>4 DEF InitCallLost, Goto
<1>5. CASE SelectProject(c) \/ CreateProject(c) \/ CreateRefused(c)
  <2>1. pc'[c] = "activate" => project'[req[c].project] = "active"
    BY <1>1, <1>2, <1>5
       DEF SelectProject, CreateProject, CreateRefused, CreateEffect, Creates, Goto, cloud, TypeInv,
           CloudTypeOK
  <2>2. pc'[c] \in {"activate", "create", "failed"}
    BY <1>1, <1>5 DEF SelectProject, CreateProject, CreateRefused, Goto
  <2>3. QED
    BY <1>2, <2>1, <2>2 DEF InitAt
<1>6. CASE \/ ActivateProject(c) \/ ReadBilling(c) \/ ReadLock(c) \/ ListBudgets(c)
           \/ ListBudgetsUnseen(c) \/ LinkBilling(c) \/ Confirm(c)
  <2>1. /\ pc[c] \in WithProject
        /\ pc'[c] \in {"status", "lock", "describe", "budgets", "link", "confirm", "apis", "blocked"}
    BY <1>1, <1>6
       DEF ActivateProject, ReadBilling, ReadLock, ListBudgets, ListBudgetsUnseen, LinkBilling,
           Confirm, Goto, GuardStep, AfterLink
  <2>2. QED
    BY <1>1, <1>2, <2>1 DEF InitAt, CloudGrows
<1>7. CASE EnableApis(c)
  <2>1. /\ pc[c] = "apis" /\ pc'[c] = "account" /\ "default" \in apis'[req[c].project]
    BY <1>1, <1>2, <1>7 DEF EnableApis, ApisEffect, Goto, TypeInv, CloudTypeOK
  <2>2. QED
    BY <1>1, <1>2, <2>1 DEF InitAt, CloudGrows
<1>8. CASE ProposeRoles(c)
  <2>1. /\ pc[c] = "account" /\ pc'[c] = "bind"
    BY <1>1, <1>8 DEF ProposeRoles, Goto
  <2>2. bound[c] = 0 \/ req[c].cmd # "init"
    BY <2>1 DEF TypeInv, Fits, FitsAt, BeforeBind, InitSteps
  <2>3. QED
    BY <1>1, <1>2, <2>1, <2>2 DEF InitAt, CloudGrows
<1>9. CASE ApplyBinding(c)
  <2>1. /\ pc[c] = "bind" /\ bound'[c] = bound[c] + 1 /\ UNCHANGED who
        /\ bindings' = bindings \cup {<<req[c].project, who[c], bound[c] + 1>>}
        /\ pc'[c] = IF bound[c] + 1 >= NumRoles THEN "profile" ELSE "bind"
    BY <1>1, <1>9 DEF ApplyBinding, BindEffect, LastRole, Goto
  <2>2. req[c].cmd = "init" =>
          \A role \in 1..(bound[c] + 1) : <<req[c].project, who[c], role>> \in bindings'
    BY <1>1, <1>2, <2>1 DEF InitAt
  <2>3. bound[c] + 1 >= NumRoles => 1..NumRoles \subseteq 1..(bound[c] + 1)
    BY <1>2
  <2>4. QED
    BY <1>1, <1>2, <2>1, <2>2, <2>3 DEF InitAt, CloudGrows
<1>10. CASE SaveProfile(c) \/ SaveConfig(c) \/ SaveConfigBlind(c)
  <2>1. pc[c] \in {"profile", "config"} /\ pc'[c] \in {"config", "done"}
    BY <1>1, <1>10 DEF SaveProfile, SaveConfig, SaveConfigBlind, Goto
  <2>2. QED
    BY <1>1, <1>2, <2>1 DEF InitAt, CloudGrows
<1>11. QED
  BY <1>1, <1>4, <1>5, <1>6, <1>7, <1>8, <1>9, <1>10 DEF InitStep, InitFault

LEMMA RestDone ==
  ASSUME TypeInv, DoneInv, CloudGrows, NEW c \in Clients,
         \/ EnsureStep(c) \/ EnsureFault(c) \/ \E r \in Requests : Start(c, r)
         \/ Finish(c) \/ Kill(c) \/ CallFails(c)
  PROVE  DoneInv'
<1> USE DEF WithProject, WithApis, WithRoles, Project
<1>1. /\ Moved(c) /\ InitAt(c) /\ pc = [d \in Clients |-> pc[d]] /\ req = [d \in Clients |-> req[d]]
  BY EnsureMoves, FateMoves DEF TypeInv, ClientTypeOK, DoneInv
<1>2. ASSUME pc'[c] \in {"idle", "failed", "blocked", "list"} PROVE InitAt(c)'
  BY <1>2 DEF InitAt
<1>3. CASE Finish(c) \/ Kill(c) \/ CallFails(c)
  BY <1>1, <1>2, <1>3, DoneMoved DEF Finish, Kill, CallFails, Leave, Goto
<1>4. ASSUME NEW r \in Requests, Start(c, r) PROVE DoneInv'
  <2>1. pc'[c] = FirstStep(r) /\ req'[c] = r
    BY <1>1, <1>4 DEF Start, Goto
  <2>2. r.cmd = "init" => FirstStep(r) = "list"
    BY DEF FirstStep
  <2>3. InitAt(c)'
    BY <1>2, <2>1, <2>2 DEF InitAt
  <2>4. QED
    BY <1>1, <2>3, DoneMoved
<1>5. CASE EnsureStep(c) \/ EnsureFault(c)
  <2>1. UNCHANGED <<req, who, bound>>
    BY <1>5
       DEF EnsureStep, EnsureFault, DescribeBilling, DescribeNoProject, PlanEnsure, PlanFrom,
         PlanEnsureUnseen, LoadApproval, ConsumeApproval, AskApproval, GateRefuses, Mutate,
         MutateLost, MutateNotFound, VerifyEnsure, EnableBudgetApi, EnableLost, local
  <2>2. CASE req[c].cmd # "init"
    BY <1>1, <2>1, <2>2, DoneMoved DEF InitAt
  <2>3. CASE req[c].cmd = "init"
    <3>1. pc[c] = "describe" /\ req[c].project \in Projects
      BY <1>5, <2>3, RequestOf, RequestKinds
         DEF EnsureStep, EnsureFault, DescribeBilling, DescribeNoProject, PlanEnsure,
             PlanEnsureUnseen, LoadApproval, ConsumeApproval, AskApproval, GateRefuses, Mutate,
             MutateLost, MutateNotFound, VerifyEnsure, EnableBudgetApi, EnableLost, EnsureSteps,
             InitSteps, Ends
    <3>2. DescribeBilling(c) \/ DescribeNoProject(c)
      BY <1>5, <3>1
         DEF EnsureStep, EnsureFault, PlanEnsure,
             PlanEnsureUnseen, LoadApproval, ConsumeApproval, AskApproval, GateRefuses, Mutate,
             MutateLost, MutateNotFound, VerifyEnsure, EnableBudgetApi, EnableLost
    <3>3. CASE DescribeNoProject(c)
      BY <1>1, <1>2, <3>3, DoneMoved DEF DescribeNoProject, Goto
    <3>4. CASE DescribeBilling(c)
      <4>1. pc'[c] = IF billing[req[c].project] = None THEN "blocked" ELSE "budgets"
        BY <1>1, <2>3, <3>1, <3>4 DEF DescribeBilling, Goto
      <4>2. InitAt(c)'
        BY <1>1, <2>1, <3>1, <4>1 DEF InitAt, CloudGrows
      <4>3. QED
        BY <1>1, <4>2, DoneMoved
    <3>5. QED
      BY <3>2, <3>3, <3>4
  <2>4. QED
    BY <2>2, <2>3
<1>6. QED
  BY <1>3, <1>4, <1>5

LEMMA DoneInit == Init => DoneInv
  BY DEF Init, DoneInv, InitAt, WithProject, WithApis, WithRoles

LEMMA DoneNext == TypeInv /\ DoneInv /\ [Next]_vars => DoneInv'
<1> SUFFICES ASSUME TypeInv, DoneInv, [Next]_vars PROVE DoneInv'
  OBVIOUS
<1>1. CloudGrows
  BY NextGrows
<1>2. CASE UNCHANGED <<project, apis, bindings, pc, req, who, bound>>
  BY <1>2 DEF DoneInv, InitAt, Project
<1>3. People => UNCHANGED <<project, apis, bindings, pc, req, who, bound>>
  BY DEF People, HandBudget, RemoveBudget, HandLink, HandRoute, SwitchUser, LockProject,
         UnlockProject, Grant, ByHand, cloud, local
<1>4. QED
  BY <1>1, <1>2, <1>3, InitDone, RestDone DEF Next, Step, Misfortune, vars, cloud, local

-----------------------------------------------------------------------------

(* What a command that nobody disturbs has read and written. *)

InitAlone(c) ==
  req[c].cmd = "init" =>
    /\ pc[c] = "create" => project[Project(c)] # "active"
    /\ pc[c] \in WithProject \ {"activate"} => activeProject = Project(c)
    /\ pc[c] \in {"lock", "describe", "budgets", "link"} => seen[c] = billing[Project(c)]
    /\ pc[c] = "describe" => seen[c] = req[c].account
    /\ pc[c] \in {"confirm", "apis"} \cup WithApis => billing[Project(c)] = req[c].account
    /\ pc[c] \in {"bind"} \cup WithRoles => who[c] = user
    /\ pc[c] \in {"config", "done"} => profile = Project(c)
    /\ pc[c] = "done" =>
         /\ config.project = Project(c)
         /\ config.account \in (IF faulted[c] THEN {who[c], None} ELSE {who[c]})
    /\ pc[c] = "failed" /\ ~faulted[c] => project[Project(c)] # "active"

\* The budgets that bear the name of the policy c ensures.
NamedFor(c) == Named(look[c], NameOf(c))

Met(c) == \E id \in NamedFor(c) : BudgetChanges(budgets[id], req[c].policy) = {}

\* The budget an ensure found is there, and the one it made or changed is as the
\* policy has it.
EnsureAlone(c) ==
  req[c].cmd = "ensure" =>
    /\ pc[c] \in {"plan", "approve", "consume", "mutate", "redescribe", "verify"} =>
         look[c] = billing[Project(c)]
    /\ Planned(c) /\ plan[c].action = "update" => plan[c].id \in NamedFor(c)
    /\ pc[c] \in {"redescribe", "verify"} /\ ~faulted[c] => Met(c)
    /\ pc[c] = "failed" /\ ~faulted[c] =>
         project[Project(c)] # "active" \/ Cardinality(NamedFor(c)) > 1

Undisturbed(c) ==
  /\ InitAlone(c) /\ EnsureAlone(c)
  /\ req[c].cmd = "enable-api" /\ pc[c] = "failed" => faulted[c]

AloneInv ==
  /\ alone \in [Clients -> BOOLEAN] /\ faulted \in [Clients -> BOOLEAN]
  /\ \A c \in Clients : alone[c] =>
       (\A d \in Clients \ {c} : pc[d] = "idle") /\ Undisturbed(c)

\* What becomes of a command on its way.
Underway(c) ==
  /\ UNCHANGED <<alone, req>>
  /\ faulted' = [faulted EXCEPT ![c] = faulted'[c]] /\ faulted'[c] \in BOOLEAN
  /\ faulted[c] => faulted'[c]

LEMMA StepsUnderway ==
  ASSUME AloneInv, NEW c \in Clients,
         \/ InitStep(c) \/ InitFault(c) \/ EnsureStep(c) \/ EnsureFault(c) \/ CallFails(c)
  PROVE  Underway(c)
<1>1. faulted \in [Clients -> BOOLEAN]
  BY DEF AloneInv
<1>2. CASE InitStep(c) \/ InitFault(c)
  BY <1>1, <1>2
     DEF Underway, InitStep, InitFault, InitCallLost, SelectProject, CreateProject, CreateRefused,
         ActivateProject, ReadBilling, ReadLock, ListBudgets, ListBudgetsUnseen, LinkBilling,
         Confirm, EnableApis, ProposeRoles, ApplyBinding, SaveProfile, SaveConfig,
         SaveConfigBlind, Fault, local, fate
<1>3. CASE EnsureStep(c) \/ EnsureFault(c)
  BY <1>1, <1>3
     DEF Underway, EnsureStep, EnsureFault, DescribeBilling, DescribeNoProject, PlanEnsure,
         PlanFrom, PlanEnsureUnseen, LoadApproval, ConsumeApproval, AskApproval, GateRefuses,
         Mutate, MutateLost, MutateNotFound, VerifyEnsure, EnableBudgetApi, EnableLost, Fault,
         local, fate
<1>4. CASE CallFails(c)
  BY <1>1, <1>4 DEF Underway, CallFails, Fault, local
<1>5. QED
  BY <1>2, <1>3, <1>4

LEMMA AloneMoved ==
  ASSUME TypeInv, AloneInv, NEW c \in Clients, Moved(c), Underway(c), pc[c] # "idle",
         Undisturbed(c) => Undisturbed(c)'
  PROVE  AloneInv'
<1>1. alone' \in [Clients -> BOOLEAN] /\ faulted' \in [Clients -> BOOLEAN]
  BY DEF AloneInv, Underway
<1>2. ASSUME NEW d \in Clients, alone'[d]
      PROVE  (\A e \in Clients \ {d} : pc'[e] = "idle") /\ Undisturbed(d)'
  <2>1. d = c /\ (\A e \in Clients \ {c} : pc[e] = "idle") /\ Undisturbed(c)
    BY <1>2 DEF AloneInv, Underway
  <2>2. \A e \in Clients \ {c} : pc'[e] = pc[e]
    BY DEF TypeInv, ClientTypeOK, Moved
  <2>3. QED
    BY <2>1, <2>2
<1>3. QED
  BY <1>1, <1>2 DEF AloneInv

LEMMA InitUndisturbed ==
  ASSUME TypeInv, AloneInv, NEW c \in Clients, InitStep(c) \/ InitFault(c), Undisturbed(c)
  PROVE  Undisturbed(c)'
<1> USE DEF WithProject, WithApis, WithRoles, Project
<1>1. /\ Underway(c) /\ Moved(c) /\ InitAlone(c)
      /\ pc = [d \in Clients |-> pc[d]] /\ who = [d \in Clients |-> who[d]]
      /\ seen = [d \in Clients |-> seen[d]] /\ faulted = [d \in Clients |-> faulted[d]]
      /\ project \in [Projects -> ProjectStates]
      /\ billing \in [Projects -> BillingAccounts \cup {None}]
  BY StepsUnderway, InitMoves DEF TypeInv, ClientTypeOK, CloudTypeOK, AloneInv, Undisturbed
<1>2. pc[c] \notin {"idle", "describe"} \cup Ends
  BY <1>1 DEF InitStep, InitFault, InitCallLost, SelectProject,
         CreateProject, CreateRefused, ActivateProject, ReadBilling, ReadLock, ListBudgets,
         ListBudgetsUnseen, LinkBilling, Confirm, EnableApis, ProposeRoles, ApplyBinding,
         SaveProfile, SaveConfig, SaveConfigBlind, Ends
<1>3. req' = req /\ req[c].project \in Projects /\ req[c].cmd \in {"init", "ensure", "enable-api"}
  BY <1>1, <1>2, RequestOf, RequestKinds DEF Underway
<1>4. pc[c] \notin EnsureSteps /\ pc[c] # "enable"
  BY <1>2 DEF InitStep, InitFault, InitCallLost, SelectProject,
         CreateProject, CreateRefused, ActivateProject, ReadBilling, ReadLock, ListBudgets,
         ListBudgetsUnseen, LinkBilling, Confirm, EnableApis, ProposeRoles, ApplyBinding,
         SaveProfile, SaveConfig, SaveConfigBlind, EnsureSteps
<1>5. req[c].cmd = "init"
  BY <1>2, <1>4, RequestOf
<1> SUFFICES InitAlone(c)'
  BY <1>3, <1>5 DEF Undisturbed, EnsureAlone
<1>6. CASE SelectProject(c) \/ CreateProject(c) \/ CreateRefused(c) \/ ActivateProject(c)
  BY <1>1, <1>3, <1>5, <1>6
     DEF InitAlone, SelectProject, Creates, CreateProject, CreateRefused, CreateEffect,
         ActivateProject, ActivateEffect, Goto, cloud, machine, local, fate
<1>7. CASE ReadBilling(c) \/ ReadLock(c)
  BY <1>1, <1>3, <1>5, <1>7
     DEF InitAlone, ReadBilling, ReadLock, GuardStep, Goto, cloud, machine, fate
<1>8. CASE ListBudgets(c) \/ ListBudgetsUnseen(c)
  BY <1>1, <1>3, <1>5, <1>8
     DEF InitAlone, ListBudgets, ListBudgetsUnseen, AfterLink, Goto, cloud, machine, local
<1>9. CASE LinkBilling(c) \/ Confirm(c) \/ EnableApis(c)
  BY <1>1, <1>3, <1>5, <1>9
     DEF InitAlone, LinkBilling, LinkEffect, Confirm, EnableApis, ApisEffect, AfterLink, Goto,
         cloud, machine, local
<1>10. CASE ProposeRoles(c) \/ ApplyBinding(c)
  BY <1>1, <1>3, <1>5, <1>10
     DEF InitAlone, ProposeRoles, ApplyBinding, BindEffect, Goto, cloud, machine
<1>11. CASE SaveProfile(c)
  BY <1>1, <1>3, <1>5, <1>11 DEF InitAlone, SaveProfile, Goto, cloud, local
<1>12. CASE SaveConfig(c) \/ SaveConfigBlind(c)
  BY <1>1, <1>3, <1>5, <1>12 DEF InitAlone, SaveConfig, SaveConfigBlind, Fault, Goto, cloud, local
<1>13. CASE InitCallLost(c)
  BY <1>1, <1>3, <1>5, <1>13 DEF InitAlone, InitCallLost, Fault, Goto
<1>14. QED
  BY <1>6, <1>7, <1>8, <1>9, <1>10, <1>11, <1>12, <1>13 DEF InitStep, InitFault

\* There are never more than finitely many budgets.
Existing == {id \in BudgetIds : budgets[id] # NoBudget}

LEMMA ExistingNext ==
  ASSUME TypeInv, [Next]_vars, IsFiniteSet(Existing)
  PROVE  IsFiniteSet(Existing)'
<1>0. budgets = [i \in BudgetIds |-> budgets[i]]
  BY DEF TypeInv, CloudTypeOK
<1>1. ASSUME NEW id \in BudgetIds, NEW b, budgets' = [budgets EXCEPT ![id] = b]
      PROVE  IsFiniteSet(Existing)'
  <2>1. \A i \in BudgetIds : i # id => budgets'[i] = budgets[i]
    BY <1>0, <1>1
  <2>2. Existing' \subseteq Existing \cup {id}
    BY <2>1 DEF Existing, NoBudget
  <2>3. IsFiniteSet(Existing \cup {id})
    BY FS_AddElement
  <2>4. QED
    BY <2>2, <2>3, FS_Subset
<1>2. CASE UNCHANGED budgets
  BY <1>2 DEF Existing, NoBudget
<1>3. ASSUME NEW c \in Clients, MutateEffect(c) PROVE IsFiniteSet(Existing)'
  BY <1>1, <1>3 DEF MutateEffect
<1>4. ASSUME People PROVE IsFiniteSet(Existing)'
  <2>1. \A id \in HandIds : id \in BudgetIds
    BY CloudAssumption DEF CloudAssumption
  <2>2. QED
    BY <1>1, <1>2, <1>4, <2>1
       DEF People, HandBudget, RemoveBudget, HandRoute, HandLink, SwitchUser, LockProject,
           UnlockProject, Grant, cloud
<1>5. QED
  BY <1>2, <1>3, <1>4, BudgetsMutated DEF Next, vars, cloud

LEMMA TwoNamed ==
  ASSUME IsFiniteSet(Existing), NEW c, NEW i \in NamedFor(c), NEW j \in NamedFor(c), i # j
  PROVE  Cardinality(NamedFor(c)) > 1
<1>1. NamedFor(c) \subseteq Existing
  BY DEF NamedFor, Named, Listed, Has, Existing
<1>2. IsFiniteSet(NamedFor(c))
  BY <1>1, FS_Subset
<1>3. {i, j} \subseteq NamedFor(c)
  OBVIOUS
<1>4. Cardinality({i}) = 1 /\ IsFiniteSet({i})
  BY FS_Singleton
<1>5. Cardinality({i} \cup {j}) = 2
  <2>1. j \notin {i}
    OBVIOUS
  <2>2. Cardinality({i} \cup {j}) = Cardinality({i}) + 1
    BY ONLY <1>4, <2>1, FS_AddElement
  <2>3. QED
    BY <1>4, <2>2
<1>6. {i} \cup {j} = {i, j}
  OBVIOUS
<1>7. Cardinality({i, j}) <= Cardinality(NamedFor(c))
  BY <1>2, <1>3, FS_Subset
<1>8. Cardinality(NamedFor(c)) \in Nat
  BY <1>2, FS_CardinalityType
<1>9. QED
  BY <1>5, <1>6, <1>7, <1>8

\* What an audit of visible budgets finds.
LEMMA AuditFinds ==
  ASSUME TypeInv, NEW c, NEW id \in BudgetIds \cup {None}, Found(c, TRUE, id),
         id \in NamedFor(c) \/ NamedFor(c) # {}
  PROVE  /\ id \in NamedFor(c) /\ id # None /\ look[c] # None
         /\ PlanBudgetEnsure(look[c], TRUE, TheBudget(id), req[c].policy) =
              IF BudgetChanges(budgets[id], req[c].policy) = {} THEN "none" ELSE "update"
<1>1. id \in NamedFor(c)
  BY DEF Found, NamedFor, NameOf
<1>2. id \in BudgetIds /\ id # None /\ budgets[id] # NoBudget /\ budgets[id].account = look[c]
  BY <1>1, PolicyAssumption DEF NamedFor, Named, Listed, Has, PolicyAssumption
<1>3. look[c] # None
  BY <1>2, PolicyAssumption DEF TypeInv, CloudTypeOK, Budgets, PolicyAssumption
<1>4. ~AuditBlocks(look[c], TRUE)
  <2>1. AuditRisk(look[c], TRUE, {}) = "missing_budget"
    BY <1>3 DEF AuditRisk
  <2>2. QED
    BY <2>1 DEF AuditBlocks
<1>5. TheBudget(id) = budgets[id]
  BY <1>2 DEF TheBudget
<1>6. QED
  BY <1>1, <1>2, <1>3, <1>4, <1>5 DEF PlanBudgetEnsure

LEMMA SameNamed ==
  ASSUME NEW c, UNCHANGED <<budgets, look, req>>
  PROVE  NamedFor(c)' = NamedFor(c)
  BY DEF NamedFor, Named, Listed, Has, NameOf, NoBudget

LEMMA MutateMeets ==
  ASSUME TypeInv, AloneInv, NEW c \in Clients, pc[c] = "mutate", MutateEffect(c), UNCHANGED local,
         EnsureAlone(c)
  PROVE  Met(c)'
<1>0. /\ budgets = [i \in BudgetIds |-> budgets[i]] /\ NoBudget \notin Budgets
      /\ budgets \in [BudgetIds -> Budgets \cup {NoBudget}]
  BY PolicyAssumption DEF TypeInv, CloudTypeOK, PolicyAssumption, NoBudget, Budgets
<1>1. /\ req[c].cmd = "ensure" /\ req[c].policy \in Policies /\ look[c] \in BillingAccounts
      /\ UNCHANGED <<look, req>>
  BY RequestOf, RequestKinds DEF TypeInv, Fits, FitsAt, InitSteps, EnsureSteps, Ends, local
<1>2. PICK id \in BudgetIds :
        \/ /\ plan[c].action = "create"
           /\ budgets' = [budgets EXCEPT ![id] = Created(look[c], req[c].policy)]
        \/ /\ plan[c].action = "update" /\ id = plan[c].id /\ budgets[id] # NoBudget
           /\ budgets' = [budgets EXCEPT ![id] = Patched(budgets[id], req[c].policy)]
  BY DEF MutateEffect
<1>3. /\ budgets'[id] # NoBudget /\ budgets'[id].account = look[c]
      /\ budgets'[id].name = NameOf(c)
      /\ budgets'[id].amount = req[c].policy.amount
      /\ budgets'[id].thresholds = req[c].policy.thresholds
  <2>1. CASE /\ plan[c].action = "create"
             /\ budgets' = [budgets EXCEPT ![id] = Created(look[c], req[c].policy)]
    BY <1>0, <1>1, <2>1, BudgetKinds DEF Created, NameOf
  <2>2. CASE /\ plan[c].action = "update" /\ id = plan[c].id /\ budgets[id] # NoBudget
             /\ budgets' = [budgets EXCEPT ![id] = Patched(budgets[id], req[c].policy)]
    <3>1. budgets[id] \in Budgets /\ budgets[id].account = look[c]
      BY <1>0, <1>1, <2>2 DEF EnsureAlone, Planned, NamedFor, Named, Listed, Has
    <3>2. /\ Patched(budgets[id], req[c].policy).account = look[c]
          /\ Patched(budgets[id], req[c].policy).name = NameOf(c)
          /\ Patched(budgets[id], req[c].policy).amount = req[c].policy.amount
          /\ Patched(budgets[id], req[c].policy).thresholds = req[c].policy.thresholds
      BY <3>1 DEF Patched, Budgets, NameOf
    <3>3. Patched(budgets[id], req[c].policy) \in Budgets
      BY <1>1, <3>1, BudgetKinds
    <3>4. budgets'[id] = Patched(budgets[id], req[c].policy)
      BY <1>0, <2>2
    <3>5. QED
      BY <1>0, <3>2, <3>3, <3>4
  <2>3. QED
    BY <1>2, <2>1, <2>2
<1>4. id \in NamedFor(c)'
  BY <1>1, <1>2, <1>3 DEF NamedFor, Named, Listed, Has, NameOf, NoBudget
<1>5. BudgetChanges(budgets'[id], req'[c].policy) = {}
  BY <1>1, <1>3 DEF BudgetChanges
<1>6. QED
  BY <1>4, <1>5 DEF Met

\* A step by which an ensure goes on without changing what it relies on.
LEMMA EnsureGoesOn ==
  ASSUME NEW c \in Clients, EnsureAlone(c), Underway(c), req[c].cmd = "ensure",
         UNCHANGED <<billing, budgets, look, plan>>,
         \/ pc'[c] \in {"done", "blocked"}
         \/ pc'[c] = "failed" /\ faulted'[c]
         \/ pc[c] \in {"approve", "consume"} /\ pc'[c] \in {"consume", "mutate"}
  PROVE  EnsureAlone(c)'
<1>1. UNCHANGED <<budgets, look, req, billing, plan>>
  BY DEF Underway
<1>2. NamedFor(c)' = NamedFor(c)
  BY <1>1, SameNamed
<1>3. QED
  BY <1>1, <1>2 DEF EnsureAlone, Planned, Project

LEMMA PlanUndisturbed ==
  ASSUME TypeInv, AloneInv, NEW c \in Clients, PlanEnsure(c) \/ PlanEnsureUnseen(c),
         EnsureAlone(c)
  PROVE  EnsureAlone(c)'
<1>1. /\ Underway(c) /\ Moved(c) /\ pc[c] = "plan" /\ req[c] \in Requests
      /\ req[c].cmd = "ensure" /\ req[c].how \in {"dry-run", "live"}
  <2>1. pc[c] = "plan"
    BY DEF PlanEnsure, PlanEnsureUnseen
  <2>2. req[c] \in Requests /\ req[c].cmd = "ensure"
    BY <2>1, RequestOf DEF EnsureSteps, InitSteps, Ends
  <2>3. Fits(c)
    BY DEF TypeInv
  <2>4. req[c].how \in {"dry-run", "live"}
    BY <2>1, <2>2, <2>3 DEF Fits, FitsAt, EnsureSteps
  <2>5. Underway(c) /\ Moved(c)
    BY StepsUnderway, EnsureMoves DEF EnsureStep, EnsureFault
  <2>6. QED
    BY <2>1, <2>2, <2>4, <2>5
<1>2. PICK visible \in BOOLEAN, id \in BudgetIds \cup {None} :
        LET action == PlanBudgetEnsure(look[c], visible, TheBudget(id), req[c].policy)
        IN  /\ Found(c, visible, id)
            /\ plan' = [plan EXCEPT ![c] = [action |-> action, id |-> id]]
            /\ pc' = [pc EXCEPT ![c] = AfterPlan(c, action)]
            /\ UNCHANGED <<billing, budgets, look>>
  BY DEF PlanEnsure, PlanEnsureUnseen, PlanFrom, Goto, cloud
<1> DEFINE action == PlanBudgetEnsure(look[c], visible, TheBudget(id), req[c].policy)
<1>3. action \in {"blocked", "create", "none", "update"}
  BY DEF PlanBudgetEnsure
<1>4. action \in {"none", "update"} => visible = TRUE /\ NamedFor(c) # {}
  <2>1. AuditRisk(look[c], FALSE, {}) \in {"billing_disabled", "review"}
    BY DEF AuditRisk
  <2>2. AuditBlocks(look[c], FALSE)
    BY <2>1 DEF AuditBlocks
  <2>3. action \in {"none", "update"} => visible = TRUE
    BY <2>2 DEF PlanBudgetEnsure
  <2>4. action \in {"none", "update"} => TheBudget(id) # NoBudget
    BY DEF PlanBudgetEnsure
  <2>5. action \in {"none", "update"} => id # None
    BY <2>4 DEF TheBudget
  <2>6. QED
    BY <1>2, <2>3, <2>5 DEF Found, NamedFor, NameOf
<1>5. action \in {"none", "update"} =>
        /\ id \in NamedFor(c)
        /\ action = IF BudgetChanges(budgets[id], req[c].policy) = {} THEN "none" ELSE "update"
  BY <1>2, <1>4, AuditFinds
<1>6. plan'[c].action = action /\ plan'[c].id = id /\ pc'[c] = AfterPlan(c, action)
  BY <1>2 DEF TypeInv, ClientTypeOK
<1> HIDE DEF action
<1>7. \/ pc'[c] \in {"done", "blocked"}
      \/ action = "none" /\ pc'[c] = "redescribe"
      \/ action \in {"create", "update"} /\ pc'[c] = "approve"
  BY <1>1, <1>3, <1>6 DEF AfterPlan
<1>8. UNCHANGED <<budgets, look, req, billing>>
  BY <1>1, <1>2 DEF Underway
<1>9. NamedFor(c)' = NamedFor(c)
  BY <1>8, SameNamed
<1>10. action = "none" => Met(c)'
  <2>1. action = "none" => BudgetChanges(budgets[id], req[c].policy) = {} /\ id \in NamedFor(c)'
    BY <1>5, <1>9
  <2>2. QED
    BY <1>8, <2>1 DEF Met
<1>11. look'[c] = billing'[Project(c)']
  BY <1>1, <1>8 DEF EnsureAlone, Project
<1>12. QED
  BY <1>5, <1>6, <1>7, <1>9, <1>10, <1>11 DEF EnsureAlone, Planned

LEMMA VerifyUndisturbed ==
  ASSUME TypeInv, AloneInv, IsFiniteSet(Existing), NEW c \in Clients, VerifyEnsure(c), EnsureAlone(c)
  PROVE  EnsureAlone(c)'
<1>1. /\ Underway(c) /\ pc[c] = "verify" /\ req[c].cmd = "ensure"
      /\ UNCHANGED <<budgets, look, req, billing, project, plan, faulted>>
  <2>1. pc[c] = "verify" /\ UNCHANGED <<budgets, look, req, billing, project, plan, faulted>>
    BY DEF VerifyEnsure, cloud, local, fate
  <2>2. req[c].cmd = "ensure"
    BY <2>1, RequestOf DEF EnsureSteps, InitSteps, Ends
  <2>3. QED
    BY <2>1, <2>2, StepsUnderway DEF EnsureStep
<1>2. PICK id \in BudgetIds \cup {None} :
        /\ Found(c, TRUE, id)
        /\ pc' = [pc EXCEPT ![c] = IF VerifyPostState(look[c], TRUE, TheBudget(id), req[c].policy)
                                   THEN "done" ELSE "failed"]
  BY DEF VerifyEnsure, Goto
<1>3. pc'[c] = IF VerifyPostState(look[c], TRUE, TheBudget(id), req[c].policy)
               THEN "done" ELSE "failed"
  BY <1>2 DEF TypeInv, ClientTypeOK
<1>4. NamedFor(c)' = NamedFor(c)
  BY <1>1, SameNamed
<1>5. CASE pc'[c] = "done"
  BY <1>1, <1>5, EnsureGoesOn
<1>6. CASE pc'[c] = "failed" /\ faulted[c]
  BY <1>1, <1>6, EnsureGoesOn
<1>7. CASE pc'[c] = "failed" /\ ~faulted[c]
  <2>1. PICK met \in NamedFor(c) : BudgetChanges(budgets[met], req[c].policy) = {}
    BY <1>1, <1>7 DEF EnsureAlone, Met
  <2>2. /\ id \in NamedFor(c)
        /\ PlanBudgetEnsure(look[c], TRUE, TheBudget(id), req[c].policy) =
              IF BudgetChanges(budgets[id], req[c].policy) = {} THEN "none" ELSE "update"
    BY <1>2, <2>1, AuditFinds
  <2>3. BudgetChanges(budgets[id], req[c].policy) # {}
    BY <1>3, <1>7, <2>2 DEF VerifyPostState
  <2>4. Cardinality(NamedFor(c)) > 1
    BY <2>1, <2>2, <2>3, TwoNamed
  <2>5. QED
    BY <1>1, <1>4, <1>7, <2>4 DEF EnsureAlone, Planned
<1>8. QED
  BY <1>3, <1>5, <1>6, <1>7

\* Both commands describe the billing of the project.
LEMMA DescribeUndisturbed ==
  ASSUME TypeInv, AloneInv, NEW c \in Clients, DescribeBilling(c) \/ DescribeNoProject(c),
         Undisturbed(c)
  PROVE  Undisturbed(c)'
<1>1. /\ Underway(c) /\ UNCHANGED <<budgets, req, billing, project, activeProject, plan, seen, faulted>>
      /\ pc[c] \in {"describe", "redescribe"} /\ pc = [d \in Clients |-> pc[d]]
      /\ look = [d \in Clients |-> look[d]]
  BY StepsUnderway
     DEF EnsureStep, DescribeBilling, DescribeNoProject, cloud, machine, local, fate, TypeInv,
         ClientTypeOK
<1>2. /\ req[c].project \in Projects
      /\ \/ req[c].cmd = "ensure"
         \/ req[c].cmd = "init" /\ pc[c] = "describe"
  BY <1>1, RequestOf, RequestKinds DEF EnsureSteps, InitSteps, Ends
<1>3. CASE DescribeNoProject(c)
  <2>1. pc'[c] = "failed" /\ project'[Project(c)'] # "active"
    BY <1>1, <1>3 DEF DescribeNoProject, Goto, Project
  <2>2. InitAlone(c)'
    BY <2>1 DEF InitAlone, WithProject, WithApis, WithRoles
  <2>3. EnsureAlone(c)'
    BY <2>1 DEF EnsureAlone, Planned
  <2>4. QED
    BY <1>1, <1>2, <2>2, <2>3 DEF Undisturbed
<1>4. CASE DescribeBilling(c) /\ req[c].cmd = "init"
  <2>1. pc'[c] = IF billing[Project(c)] = None THEN "blocked" ELSE "budgets"
    BY <1>1, <1>2, <1>4 DEF DescribeBilling, Goto
  <2>2. InitAlone(c)'
    BY <1>1, <1>2, <1>4, <2>1
       DEF Undisturbed, InitAlone, WithProject, WithApis, WithRoles, Project
  <2>3. QED
    BY <1>1, <1>4, <2>2 DEF Undisturbed, EnsureAlone
<1>5. CASE DescribeBilling(c) /\ req[c].cmd = "ensure"
  <2>1. /\ look'[c] = billing[Project(c)]
        /\ pc'[c] = IF pc[c] = "redescribe" THEN "verify" ELSE "plan"
    BY <1>1, <1>2, <1>5 DEF DescribeBilling, Goto
  <2>2. EnsureAlone(c)'
    <3>1. CASE pc[c] = "describe"
      BY <1>1, <2>1, <3>1 DEF EnsureAlone, Planned, Project
    <3>2. CASE pc[c] = "redescribe"
      <4>1. look[c] = billing[Project(c)] /\ (~faulted[c] => Met(c))
        BY <1>5, <3>2 DEF Undisturbed, EnsureAlone
      <4>2. UNCHANGED <<budgets, look, req>>
        BY <1>1, <1>5, <2>1, <4>1 DEF DescribeBilling
      <4>3. NamedFor(c)' = NamedFor(c)
        BY <4>2, SameNamed
      <4>4. Met(c)' <=> Met(c)
        BY <4>2, <4>3 DEF Met
      <4>5. QED
        BY <1>1, <2>1, <3>2, <4>1, <4>2, <4>4 DEF EnsureAlone, Planned, Project
    <3>3. QED
      BY <1>1, <3>1, <3>2
  <2>3. QED
    BY <1>1, <1>5, <2>2 DEF Undisturbed, InitAlone
<1>6. QED
  BY <1>2, <1>3, <1>4, <1>5

LEMMA EnsureUndisturbed ==
  ASSUME TypeInv, AloneInv, IsFiniteSet(Existing), NEW c \in Clients,
         EnsureStep(c) \/ EnsureFault(c), Undisturbed(c)
  PROVE  Undisturbed(c)'
<1>1. /\ Underway(c) /\ Moved(c) /\ EnsureAlone(c) /\ req' = req
      /\ pc = [d \in Clients |-> pc[d]] /\ faulted = [d \in Clients |-> faulted[d]]
  BY StepsUnderway, EnsureMoves DEF TypeInv, ClientTypeOK, AloneInv, Undisturbed, Underway
<1>2. CASE DescribeBilling(c) \/ DescribeNoProject(c)
  BY <1>2, DescribeUndisturbed
<1>3. CASE EnableBudgetApi(c) \/ EnableLost(c)
  <2>1. req[c].cmd = "enable-api"
    BY <1>3, RequestOf DEF EnableBudgetApi, EnableLost, EnsureSteps, InitSteps, Ends
  <2>2. pc'[c] = "failed" => faulted'[c]
    BY <1>1, <1>3 DEF EnableBudgetApi, EnableLost, Goto, Fault
  <2>3. QED
    BY <1>1, <2>1, <2>2 DEF Undisturbed, InitAlone, EnsureAlone
<1>4. ASSUME pc[c] \in {"plan", "approve", "consume", "mutate", "verify"} PROVE req[c].cmd = "ensure"
  BY <1>4, RequestOf DEF EnsureSteps, InitSteps, Ends
<1>5. ASSUME pc[c] \in {"plan", "approve", "consume", "mutate", "verify"}, EnsureAlone(c)'
      PROVE  Undisturbed(c)'
  BY <1>1, <1>4, <1>5 DEF Undisturbed, InitAlone
<1>6. CASE PlanEnsure(c) \/ PlanEnsureUnseen(c)
  BY <1>1, <1>5, <1>6, PlanUndisturbed DEF PlanEnsure, PlanEnsureUnseen
<1>7. CASE LoadApproval(c) \/ ConsumeApproval(c) \/ AskApproval(c) \/ GateRefuses(c)
  <2>1. /\ pc[c] \in {"approve", "consume"} /\ pc'[c] \in {"consume", "mutate", "blocked"}
        /\ UNCHANGED <<billing, budgets, look, plan>>
    BY <1>1, <1>7 DEF LoadApproval, ConsumeApproval, AskApproval, GateRefuses, Goto, cloud, local
  <2>2. EnsureAlone(c)'
    BY <1>1, <1>4, <2>1, EnsureGoesOn
  <2>3. QED
    BY <1>5, <2>1, <2>2
<1>8. CASE Mutate(c)
  <2>1. /\ pc[c] = "mutate" /\ pc'[c] = "redescribe"
        /\ UNCHANGED <<local, billing>> /\ MutateEffect(c)
    BY <1>1, <1>8 DEF Mutate, MutateEffect, Goto
  <2>2. Met(c)'
    BY <1>1, <2>1, MutateMeets
  <2>3. look'[c] = billing'[Project(c)']
    BY <1>1, <1>4, <2>1 DEF EnsureAlone, Project, local
  <2>4. EnsureAlone(c)'
    BY <2>1, <2>2, <2>3 DEF EnsureAlone, Planned
  <2>5. QED
    BY <1>5, <2>1, <2>4
<1>9. CASE MutateLost(c)
  <2>1. pc[c] = "mutate" /\ pc'[c] = "failed" /\ faulted'[c]
    BY <1>1, <1>9 DEF MutateLost, Fault, Goto
  <2>2. EnsureAlone(c)'
    BY <2>1 DEF EnsureAlone, Planned
  <2>3. QED
    BY <1>5, <2>1, <2>2
<1>10. CASE MutateNotFound(c)
  <2>1. /\ pc[c] = "mutate" /\ plan[c].action = "update" /\ budgets[plan[c].id] = NoBudget
    BY <1>10 DEF MutateNotFound
  <2>2. plan[c].id \in NamedFor(c)
    BY <1>1, <1>4, <2>1 DEF EnsureAlone, Planned
  <2>3. QED
    BY <2>1, <2>2 DEF NamedFor, Named, Listed, Has
<1>11. CASE VerifyEnsure(c)
  BY <1>1, <1>5, <1>11, VerifyUndisturbed DEF VerifyEnsure
<1>12. QED
  BY <1>2, <1>3, <1>6, <1>7, <1>8, <1>9, <1>10, <1>11 DEF EnsureStep, EnsureFault

LEMMA AloneInit == Init => AloneInv
  BY DEF Init, AloneInv

LEMMA StartAlone ==
  ASSUME TypeInv, AloneInv, NEW c \in Clients, NEW r \in Requests, Start(c, r)
  PROVE  AloneInv'
<1>1. /\ pc'[c] = FirstStep(r) /\ req'[c] = r /\ faulted' \in [Clients -> BOOLEAN]
      /\ alone' = [d \in Clients |-> d = c /\ \A e \in Clients \ {c} : pc[e] = "idle"]
      /\ \A e \in Clients \ {c} : pc'[e] = pc[e]
  BY DEF Start, Goto, TypeInv, ClientTypeOK, AloneInv
<1>2. FirstStep(r) \in {"list", "describe", "enable", "done", "blocked"}
      /\ (r.cmd = "init" => FirstStep(r) = "list")
  <2>1. r.cmd = "init" => FirstStep(r) = "list"
    BY DEF FirstStep
  <2>2. r.cmd = "ensure" => FirstStep(r) \in {"describe", "blocked"}
    BY DEF FirstStep
  <2>3. r.cmd = "enable-api" => FirstStep(r) \in {"enable", "done", "blocked"}
    BY DEF FirstStep
  <2>4. QED
    BY <2>1, <2>2, <2>3, RequestKinds
<1>3. Undisturbed(c)'
  BY <1>1, <1>2
     DEF Undisturbed, InitAlone, EnsureAlone, Planned, WithProject, WithApis, WithRoles
<1>4. QED
  BY <1>1, <1>3 DEF AloneInv

LEMMA SameAlone ==
  ASSUME AloneInv,
         UNCHANGED <<project, billing, budgets, user, activeProject, profile, config,
                     pc, req, seen, look, plan, who, faulted, alone>>
  PROVE  AloneInv'
<1>1. ASSUME NEW c \in Clients, Undisturbed(c) PROVE Undisturbed(c)'
  <2>1. NamedFor(c)' = NamedFor(c)
    BY SameNamed
  <2>2. InitAlone(c)'
    BY <1>1 DEF Undisturbed, InitAlone, Project
  <2>3. EnsureAlone(c)'
    BY <1>1, <2>1 DEF Undisturbed, EnsureAlone, Planned, Met, Project
  <2>4. QED
    BY <1>1, <2>2, <2>3 DEF Undisturbed
<1>2. QED
  BY <1>1 DEF AloneInv

LEMMA PeopleAlone ==
  ASSUME TypeInv, AloneInv, People
  PROVE  AloneInv'
<1>1. CASE ByHand
  BY <1>1 DEF ByHand, AloneInv
<1>2. CASE UNCHANGED <<cloud, machine, pc, local, fate>>
  BY <1>2, SameAlone DEF cloud, machine, local, fate
<1>3. QED
  BY <1>1, <1>2 DEF People, HandBudget, RemoveBudget, HandRoute, HandLink, SwitchUser, LockProject,
                    UnlockProject, Grant

LEMMA AloneNext ==
  ASSUME TypeInv, AloneInv, IsFiniteSet(Existing), [Next]_vars
  PROVE  AloneInv'
<1>1. ASSUME NEW c \in Clients, Finish(c) \/ Kill(c) PROVE AloneInv'
  <2>1. /\ alone' = [alone EXCEPT ![c] = FALSE] /\ faulted' = [faulted EXCEPT ![c] = FALSE]
        /\ pc[c] # "idle" /\ alone \in [Clients -> BOOLEAN]
    BY <1>1 DEF Finish, Kill, Leave, Ends, AloneInv
  <2>2. \A d \in Clients : ~alone'[d]
    BY <2>1 DEF AloneInv
  <2>3. QED
    BY <2>1, <2>2 DEF AloneInv
<1>2. ASSUME NEW c \in Clients,
             \/ InitStep(c) \/ InitFault(c) \/ EnsureStep(c) \/ EnsureFault(c) \/ CallFails(c)
      PROVE  AloneInv'
  <2>1. Underway(c) /\ Moved(c)
    BY <1>2, StepsUnderway, InitMoves, EnsureMoves, FateMoves
  <2>2. pc[c] # "idle"
    BY <1>2
       DEF InitStep, InitFault, InitCallLost, SelectProject, CreateProject, CreateRefused,
           ActivateProject, ReadBilling, ReadLock, ListBudgets, ListBudgetsUnseen, LinkBilling,
           Confirm, EnableApis, ProposeRoles, ApplyBinding, SaveProfile, SaveConfig,
           SaveConfigBlind, EnsureStep, EnsureFault, DescribeBilling, DescribeNoProject, PlanEnsure,
           PlanEnsureUnseen, LoadApproval, ConsumeApproval, AskApproval, GateRefuses, Mutate,
           MutateLost, MutateNotFound, VerifyEnsure, EnableBudgetApi, EnableLost, CallFails
  <2>3. CallFails(c) => Undisturbed(c)'
    <3>1. CallFails(c) => pc'[c] = "failed" /\ faulted'[c]
      BY DEF CallFails, Fault, Goto, TypeInv, ClientTypeOK, AloneInv
    <3>2. QED
      BY <3>1 DEF Undisturbed, InitAlone, EnsureAlone, Planned, WithProject, WithApis, WithRoles
  <2>4. Undisturbed(c) => Undisturbed(c)'
    BY <1>2, <2>3, InitUndisturbed, EnsureUndisturbed
  <2>5. QED
    BY <2>1, <2>2, <2>4, AloneMoved
<1>3. CASE UNCHANGED vars
  BY <1>3, SameAlone DEF vars, cloud, machine, local, fate
<1>4. ASSUME NEW c \in Clients, NEW r \in Requests, Start(c, r) PROVE AloneInv'
  BY <1>4, StartAlone
<1>5. CASE People
  BY <1>5, PeopleAlone
<1>6. QED
  BY <1>1, <1>2, <1>3, <1>4, <1>5 DEF Next, Step, Misfortune

LEMMA AloneAlways == Spec => [](TypeInv /\ DoneInv /\ AloneInv)
<1>1. Init => IsFiniteSet(Existing)
  <2>1. Init => Existing = {}
    BY DEF Init, Existing
  <2>2. QED
    BY <2>1, FS_EmptySet
<1>2. QED
  BY <1>1, TypeInit, TypeNext, DoneInit, DoneNext, AloneInit, AloneNext, ExistingNext, PTL DEF Spec

\* An init that reports success has its project, the APIs and every role; undisturbed,
\* the settings and files of this machine agree with it (init.ts: runInit).
THEOREM InitIsComplete == Spec => []InitCompletes
<1>1. DoneInv /\ AloneInv => InitCompletes
  BY DEF DoneInv, InitAt, AloneInv, Undisturbed, InitAlone, InitCompletes, WithProject, WithApis,
         WithRoles
<1>2. QED
  BY <1>1, AloneAlways, PTL

\* Nothing an earlier run has left makes a command fail: undisturbed, and with every
\* call answered, it fails for want of its project or for two budgets of one name
\* (init.ts, budget.ts, budget-policy.ts: verifyBudgetEnsurePostState).
THEOREM FailuresExplained == Spec => []FailsOnlyByFault
<1>1. TypeInv /\ AloneInv => FailsOnlyByFault
  <2> SUFFICES ASSUME TypeInv, AloneInv, NEW c \in Clients, pc[c] = "failed", alone[c], ~faulted[c]
               PROVE  \/ project[Project(c)] # "active"
                      \/ req[c].cmd = "ensure" /\ Cardinality(NamedFor(c)) > 1
    BY DEF FailsOnlyByFault, NamedFor, NameOf
  <2>1. Undisturbed(c) /\ Fits(c) /\ req[c] \in Requests \cup {NoRequest}
    BY DEF TypeInv, ClientTypeOK, AloneInv
  <2>2. req[c] \in Requests
    BY <2>1 DEF Fits, FitsAt, InitSteps, EnsureSteps, Ends
  <2>3. QED
    BY <2>1, <2>2, RequestKinds DEF Undisturbed, InitAlone, EnsureAlone
<1>2. QED
  BY <1>1, AloneAlways, PTL
=============================================================================
