--------------------------- MODULE SafetyGateProofs ---------------------------
(***************************************************************************)
(* Theorems about SafetyGate.  The first part says that the cost lock      *)
(* stops what it should, for any processes, projects, commands and         *)
(* profiles, whatever the approval queue does beside it: that needs only   *)
(* that reported locks stay in force (CostLockProofs), so lock commands    *)
(* run one at a time there.  The second part is about approvals and the    *)
(* trust profile, and holds however lock commands overlap: it needs        *)
(* nothing of the lock but its type, and of the queue what                 *)
(* ApprovalQueueProofs proves of it.                                       *)
(***************************************************************************)
EXTENDS SafetyGate, CostLockProofs

EvalType == eval \in [Gates -> {NoEval} \cup Evaluation]

\* A command is barred for no longer than its project is held.
BarredHeld == \A g \in Gates : Busy(g) /\ eval[g].barred => Project \in held

\* Past the cost lock, a cost-bearing command is not barred.
PastLock ==
  \A g \in Gates :
    Busy(g) /\ eval[g].phase \notin {"lock", "blocked"} /\ Budgeted(g) => ~eval[g].barred

GateInv == LockInv /\ EvalType /\ BarredHeld /\ PastLock

\* Project commands and secret delete do not need a budget.
LEMMA FreeOfBudget ==
  ASSUME NEW c \in Commands, c.name \in {"project:delete", "project:undelete", "secret:delete"}
  PROVE  ~RequiresBudget(GatedAction(c))
<1>1. c.performs \subseteq ActionsOf(c.name) /\ \E a : a \in c.performs
  BY GateAssumption
<1>2. GatedAction(c) \in c.performs
  BY <1>1 DEF GatedAction
<1>3. GatedAction(c) \in {"secret.delete", "gcp.project.delete", "gcp.project.undelete"}
  BY <1>1, <1>2 DEF ActionsOf
<1> QED
  BY <1>3 DEF RequiresBudget, KnownActions, L3Actions

LEMMA GateInitInv == Init => GateInv
<1> SUFFICES ASSUME Init PROVE GateInv
  OBVIOUS
<1>1. LockInv
  BY LockInitInv DEF Init
<1>2. \A g \in Gates : eval[g] = NoEval
  BY DEF Init
<1> QED
  BY <1>1, <1>2 DEF Init, GateInv, EvalType, BarredHeld, PastLock, Busy, NoEval

-----------------------------------------------------------------------------
(***************************************************************************)
(* Steps of one gate.                                                      *)
(***************************************************************************)

\* The conditions GateInv puts on one evaluation.
GoodEval(e) ==
  /\ e \in Evaluation
  /\ e.barred => Project \in held
  /\ e.phase \notin {"lock", "blocked"} /\ RequiresBudget(RequestOf(e.command).action) => ~e.barred

LEMMA BusyIsGood ==
  ASSUME GateInv, NEW g \in Gates, Busy(g)
  PROVE  GoodEval(eval[g])
BY DEF GateInv, EvalType, BarredHeld, PastLock, GoodEval, Busy, NoEval, Budgeted, Action, Request

LEMMA EvalMoves ==
  ASSUME GateInv, NEW g \in Gates, NEW e, eval' = [eval EXCEPT ![g] = e],
         e = NoEval \/ GoodEval(e), UNCHANGED lockVars
  PROVE  GateInv'
<1>1. \A h \in Gates : eval'[h] = IF h = g THEN e ELSE eval[h]
  BY DEF GateInv, EvalType
<1>2. LockInv'
  BY LockNextInv DEF GateInv, lockVars, LockInv, LockTypeOK, OneAtATime, HeldOnFile, HeldInCopy,
                     Underway, LockRunning, Readable, LocksRead
<1>3. EvalType'
  BY DEF GateInv, EvalType, GoodEval
<1>4. held' = held
  BY DEF lockVars
<1>5. BarredHeld'
  BY <1>1, <1>4 DEF GateInv, BarredHeld, GoodEval, Busy, NoEval
<1>6. PastLock'
  BY <1>1 DEF GateInv, PastLock, GoodEval, Busy, NoEval, Budgeted, Action, Request
<1> QED
  BY <1>2, <1>3, <1>5, <1>6 DEF GateInv

\* Once past the lock an evaluation stays good, whatever its next phase.
LEMMA GoesOn ==
  ASSUME GateInv, NEW g \in Gates, eval[g].phase \notin {"none", "lock"},
         NEW phase \in Phases, NEW why \in Reasons, NEW spent \in BOOLEAN, NEW e,
         e = [eval[g] EXCEPT !.phase = phase, !.why = why, !.spent = spent],
         eval[g].phase = "blocked" => phase = "blocked"
  PROVE  GoodEval(e)
<1>1. GoodEval(eval[g])
  BY BusyIsGood DEF Busy
<1>2. /\ e \in Evaluation
      /\ e.barred = eval[g].barred /\ e.command = eval[g].command /\ e.phase = phase
  BY <1>1 DEF GoodEval, Evaluation
<1> QED
  BY <1>1, <1>2 DEF GoodEval

\* The same for a step that gives only the phase, or only the phase and a reason.
LEMMA Enters ==
  ASSUME GateInv, NEW g \in Gates, eval[g].phase \notin {"none", "lock", "blocked"},
         UNCHANGED lockVars,
         \/ \E phase \in Phases : Enter(g, phase)
         \/ \E why \in Reasons : Block(g, why)
         \/ \E phase \in Phases, spent \in BOOLEAN :
              eval' = [eval EXCEPT ![g] = [@ EXCEPT !.phase = phase, !.spent = spent]]
  PROVE  GateInv'
<1>1. GoodEval(eval[g]) /\ eval[g].why \in Reasons /\ eval[g].spent \in BOOLEAN
  BY BusyIsGood DEF Busy, GoodEval, Evaluation
<1>2. PICK phase \in Phases, why \in Reasons, spent \in BOOLEAN :
        eval' = [eval EXCEPT ![g] = [@ EXCEPT !.phase = phase, !.why = why, !.spent = spent]]
  <2> DEFINE e(phase, why, spent) ==
               [eval[g] EXCEPT !.phase = phase, !.why = why, !.spent = spent]
  <2>1. CASE \E phase \in Phases : Enter(g, phase)
    <3>1. PICK phase \in Phases : Enter(g, phase)
      BY <2>1
    <3>2. e(phase, eval[g].why, eval[g].spent) = [eval[g] EXCEPT !.phase = phase]
      BY <1>1 DEF GoodEval, Evaluation
    <3> QED
      BY <1>1, <3>1, <3>2 DEF Enter
  <2>2. CASE \E why \in Reasons : Block(g, why)
    <3>1. PICK why \in Reasons : Block(g, why)
      BY <2>2
    <3>2. e("blocked", why, eval[g].spent) = [eval[g] EXCEPT !.phase = "blocked", !.why = why]
      BY <1>1 DEF GoodEval, Evaluation
    <3> QED
      BY <1>1, <3>1, <3>2 DEF Block, Phases
  <2>3. CASE \E phase \in Phases, spent \in BOOLEAN :
               eval' = [eval EXCEPT ![g] = [@ EXCEPT !.phase = phase, !.spent = spent]]
    <3>1. PICK phase \in Phases, spent \in BOOLEAN :
            eval' = [eval EXCEPT ![g] = [@ EXCEPT !.phase = phase, !.spent = spent]]
      BY <2>3
    <3>2. e(phase, eval[g].why, spent) = [eval[g] EXCEPT !.phase = phase, !.spent = spent]
      BY <1>1 DEF GoodEval, Evaluation
    <3>3. eval' = [eval EXCEPT ![g] = e(phase, eval[g].why, spent)]
      BY <3>1, <3>2
    <3> QED
      BY <1>1, <3>3
  <2> QED
    BY <2>1, <2>2, <2>3
<1> DEFINE e == [eval[g] EXCEPT !.phase = phase, !.why = why, !.spent = spent]
<1>3. GoodEval(e)
  BY GoesOn
<1>4. eval' = [eval EXCEPT ![g] = e]
  BY <1>2
<1> HIDE DEF e
<1> QED
  BY <1>3, <1>4, EvalMoves

LEMMA BeginPreserves ==
  ASSUME GateInv, NEW g \in Gates, NEW c \in Commands, NEW id \in Ids \cup {None},
         NEW yes \in BOOLEAN, Begin(g, c, id, yes)
  PROVE  GateInv'
<1> DEFINE e == [phase |-> FirstPhase(c, yes), command |-> c, id |-> id, yes |-> yes,
                 why |-> "none", spent |-> FALSE, barred |-> Project \in held]
<1>1. FirstPhase(c, yes) \in Phases
  BY DEF FirstPhase, Phases
<1>2. FirstPhase(c, yes) \notin {"lock", "blocked"} => ~RequiresBudget(GatedAction(c))
  <2>1. CASE c.name \in {"project:delete", "project:undelete", "secret:delete"}
    BY <2>1, FreeOfBudget
  <2>2. CASE c.name = "firebase:deploy"
    BY <2>2 DEF FirstPhase
  <2>3. CASE c.name \notin {"project:delete", "project:undelete", "secret:delete",
                           "firebase:deploy"}
    BY <2>3 DEF FirstPhase
  <2> QED
    BY <2>1, <2>2, <2>3
<1>3. GoodEval(e)
  <2>1. e \in Evaluation
    BY <1>1 DEF Evaluation, Reasons
  <2>2. e.phase = FirstPhase(c, yes) /\ e.command = c
    OBVIOUS
  <2>3. e.barred => Project \in held
    OBVIOUS
  <2> HIDE DEF e
  <2> QED
    BY <1>2, <2>1, <2>2, <2>3 DEF GoodEval, RequestOf
<1>4. eval' = [eval EXCEPT ![g] = e] /\ UNCHANGED lockVars
  BY DEF Begin
<1> HIDE DEF e
<1> QED
  BY <1>3, <1>4, EvalMoves

\* A command comes past the lock only if its project is not held.
LEMMA CheckLockPreserves ==
  ASSUME GateInv, NEW g \in Gates, CheckLock(g)
  PROVE  GateInv'
<1>1. GoodEval(eval[g]) /\ UNCHANGED lockVars
  BY BusyIsGood DEF CheckLock, Busy
<1>2. CASE BlockedBy(Project)
  <2> DEFINE e == [eval[g] EXCEPT !.phase = "blocked", !.why = "lock"]
  <2>1. GoodEval(e)
    BY <1>1 DEF GoodEval, Evaluation, Phases, Reasons
  <2>2. eval' = [eval EXCEPT ![g] = e]
    BY <1>2 DEF CheckLock, Block
  <2> HIDE DEF e
  <2> QED
    BY <1>1, <2>1, <2>2, EvalMoves
<1>3. CASE ~BlockedBy(Project)
  <2>1. Project \notin held
    BY <1>3 DEF BlockedBy, LockVerdict, GateInv, LockInv, HeldOnFile
  <2>2. PICK phase \in {"audit", "policy"} : eval' = [eval EXCEPT ![g].phase = phase]
    BY <1>3 DEF CheckLock, Enter
  <2> DEFINE e == [eval[g] EXCEPT !.phase = phase]
  <2>3. GoodEval(e)
    BY <1>1, <2>1 DEF GoodEval, Evaluation, Phases
  <2>4. eval' = [eval EXCEPT ![g] = e]
    BY <2>2
  <2> HIDE DEF e
  <2> QED
    BY <1>1, <2>3, <2>4, EvalMoves
<1> QED
  BY <1>2, <1>3

LEMMA GateStepPreserves ==
  ASSUME GateInv, NEW g \in Gates, GateStep(g)
  PROVE  GateInv'
<1>1. CASE CheckLock(g)
  BY <1>1, CheckLockPreserves
<1>2. CASE Survey(g)
  BY <1>2, Enters DEF Survey, Phases, Reasons
<1>3. CASE ApplyRule(g)
  <2>1. (\E phase \in Phases : Enter(g, phase)) \/ (\E why \in Reasons : Block(g, why))
    BY <1>3 DEF ApplyRule, Phases, Reasons
  <2> QED
    BY <1>3, <2>1, Enters DEF ApplyRule
<1>4. CASE AskApproval(g) \/ CheckApproval(g)
  BY <1>4, Enters DEF AskApproval, CheckApproval, Phases
<1>5. CASE Answer(g)
  <2>1. \/ \E why \in Reasons : Block(g, why)
        \/ \E phase \in Phases, spent \in BOOLEAN :
             eval' = [eval EXCEPT ![g] = [@ EXCEPT !.phase = phase, !.spent = spent]]
    <3>1. \/ Block(g, "approval")
          \/ \E phase \in {"audit", "execute"} :
               eval' = [eval EXCEPT ![g] =
                              [@ EXCEPT !.phase = phase, !.spent = cmd[g].kind = "consume"]]
      BY <1>5 DEF Answer
    <3> QED
      BY <3>1 DEF Phases, Reasons
  <2> QED
    BY <1>5, <2>1, Enters DEF Answer
<1>6. CASE AuditBlocks(g) \/ AuditPasses(g) \/ ConsumeApproval(g)
  BY <1>6, Enters DEF AuditBlocks, AuditPasses, ConsumeApproval, Phases, Reasons
<1>7. CASE End(g) \/ Die(g)
  BY <1>7, EvalMoves DEF End, Die
<1> QED
  BY <1>1, <1>2, <1>3, <1>4, <1>5, <1>6, <1>7 DEF GateStep

-----------------------------------------------------------------------------
(***************************************************************************)
(* Steps of the others, and the theorem.                                   *)
(***************************************************************************)

LEMMA LockingPreserves ==
  ASSUME GateInv, ~LockOverlap, LockingStep
  PROVE  GateInv'
<1>1. LockInv'
  BY LockNextInv DEF GateInv, LockingStep
<1>2. \A g \in Gates : eval'[g] = IF Busy(g)
                                    THEN [eval[g] EXCEPT !.barred = @ /\ Project \in held']
                                    ELSE eval[g]
  BY DEF LockingStep
<1>3. \A g \in Gates : Busy(g) => /\ eval[g] \in Evaluation
                                  /\ eval'[g] \in Evaluation
                                  /\ eval'[g].phase = eval[g].phase
                                  /\ eval'[g].command = eval[g].command
                                  /\ eval'[g].barred => eval[g].barred /\ Project \in held'
  <2> SUFFICES ASSUME NEW g \in Gates, Busy(g)
               PROVE  /\ eval[g] \in Evaluation
                      /\ eval'[g] \in Evaluation
                      /\ eval'[g].phase = eval[g].phase
                      /\ eval'[g].command = eval[g].command
                      /\ eval'[g].barred => eval[g].barred /\ Project \in held'
    OBVIOUS
  <2>1. eval[g] \in Evaluation
    BY BusyIsGood DEF GoodEval
  <2>2. eval'[g] = [eval[g] EXCEPT !.barred = @ /\ Project \in held']
    BY <1>2
  <2> QED
    BY <2>1, <2>2 DEF Evaluation
<1>4. \A g \in Gates : ~Busy(g) => eval'[g] = NoEval
  BY <1>2 DEF GateInv, EvalType, Busy, Evaluation, Phases
<1>5. EvalType'
  <2>1. \A g \in Gates : eval'[g] \in {NoEval} \cup Evaluation
    BY <1>3, <1>4
  <2>2. eval' = [g \in Gates |-> eval'[g]]
    BY DEF LockingStep
  <2> QED
    BY <2>1, <2>2 DEF EvalType
<1>6. BarredHeld'
  BY <1>3, <1>4 DEF BarredHeld, Busy, NoEval
<1>7. PastLock'
  BY <1>3, <1>4 DEF GateInv, PastLock, Busy, NoEval, Budgeted, Action, Request
<1> QED
  BY <1>1, <1>5, <1>6, <1>7 DEF GateInv

LEMMA OthersPreserve ==
  ASSUME GateInv, UNCHANGED <<lockVars, eval>>
  PROVE  GateInv'
BY DEF GateInv, LockInv, LockTypeOK, OneAtATime, HeldOnFile, HeldInCopy, Underway, LockRunning,
       Readable, LocksRead, lockVars, EvalType, BarredHeld, PastLock, Busy, Budgeted, Action,
       Request

LEMMA GateNextInv == ~LockOverlap /\ GateInv /\ [Next]_vars => GateInv'
<1> SUFFICES ASSUME ~LockOverlap, GateInv, [Next]_vars PROVE GateInv'
  OBVIOUS
<1>1. CASE \E g \in Gates, c \in Commands, id \in Ids \cup {None}, yes \in BOOLEAN :
             Begin(g, c, id, yes)
  BY <1>1, BeginPreserves
<1>2. CASE \E g \in Gates : GateStep(g)
  BY <1>2, GateStepPreserves
<1>3. CASE LockingStep
  BY <1>3, LockingPreserves
<1>4. CASE QueueStep \/ BudgetChanges \/ UNCHANGED vars
  BY <1>4, OthersPreserve DEF QueueStep, BudgetChanges, vars
<1> QED
  BY <1>1, <1>2, <1>3, <1>4 DEF Next

\* A project locked before a command began stops it ahead of its budget audit.
THEOREM LockedNeverRuns == ~LockOverlap => (Spec => []LockedStaysBlocked)
<1>1. GateInv => LockedStaysBlocked
  BY DEF GateInv, PastLock, LockedStaysBlocked, Busy
<1>2. ASSUME ~LockOverlap PROVE Spec => []LockedStaysBlocked
  <2>1. GateInv /\ [Next]_vars => GateInv'
    BY <1>2, GateNextInv
  <2> QED
    BY <1>1, <2>1, GateInitInv, PTL DEF Spec
<1> QED
  BY <1>2

-----------------------------------------------------------------------------
(***************************************************************************)
(* The gate and the approvals.  What ApprovalQueueProofs proves of the     *)
(* queue is carried over, for the queue the gate runs on: SafetyGate takes *)
(* its actions from Queue, the lemmas are of QP, which is the same module  *)
(* with its proofs.                                                        *)
(***************************************************************************)

QP == INSTANCE ApprovalQueueProofs WITH Overlap <- TRUE

LEMMA QueueAssumed == QP!RequestsAssumption /\ QP!QueueAssumption
BY GateQueueAssumption
   DEF QP!RequestsAssumption, QP!QueueAssumption, QP!Approval, Queue!Approval, QP!Status,
       Queue!Status

LEMMA SameInit == Queue!Init <=> QP!Init
BY DEF Queue!Init, QP!Init, Queue!Procs, QP!Procs, Queue!Idle, QP!Idle

LEMMA SameType == Queue!TypeOK <=> QP!TypeOK
BY DEF Queue!TypeOK, QP!TypeOK, Queue!Approval, QP!Approval, Queue!Command, QP!Command,
       Queue!Procs, QP!Procs, Queue!Kinds, QP!Kinds, Queue!Idle, QP!Idle, Queue!Status, QP!Status,
       Queue!HumanKinds, QP!HumanKinds, Queue!GateKinds, QP!GateKinds

LEMMA SameStarts ==
  ASSUME NEW p, NEW kind, NEW i, NEW req
  PROVE  /\ Queue!StartDecision(p, kind, i) <=> QP!StartDecision(p, kind, i)
         /\ Queue!StartCheck(p, kind, i, req) <=> QP!StartCheck(p, kind, i, req)
         /\ Queue!StartCreate(p, i, req) <=> QP!StartCreate(p, i, req)
<1>1. Queue!StartDecision(p, kind, i) <=> QP!StartDecision(p, kind, i)
  BY DEF Queue!StartDecision, QP!StartDecision, Queue!MayStart, QP!MayStart, Queue!Running,
         QP!Running, Queue!history, QP!history
<1>2. Queue!StartCheck(p, kind, i, req) <=> QP!StartCheck(p, kind, i, req)
  BY DEF Queue!StartCheck, QP!StartCheck, Queue!MayStart, QP!MayStart, Queue!Running,
         QP!Running, Queue!history, QP!history
<1>3. Queue!StartCreate(p, i, req) <=> QP!StartCreate(p, i, req)
  BY DEF Queue!StartCreate, QP!StartCreate, Queue!MayStart, QP!MayStart, Queue!Running,
         QP!Running, Queue!NewApproval, QP!NewApproval
<1> QED
  BY <1>1, <1>2, <1>3

LEMMA SameEnds ==
  ASSUME NEW p
  PROVE  /\ Queue!Return(p) <=> QP!Return(p)
         /\ Queue!Crash(p) <=> QP!Crash(p)
         /\ Queue!Tick <=> QP!Tick
BY DEF Queue!Return, QP!Return, Queue!Crash, QP!Crash, Queue!Tick, QP!Tick, Queue!Running,
       QP!Running, Queue!history, QP!history, Queue!Idle, QP!Idle

LEMMA SameVerdict == ASSUME NEW c PROVE Queue!Verdict(c) = QP!Verdict(c)
BY DEF Queue!Verdict, QP!Verdict, Queue!HumanVerdict, QP!HumanVerdict, Queue!GateVerdict,
       QP!GateVerdict, Queue!Expired, QP!Expired, Queue!Matches, QP!Matches, Queue!HumanKinds,
       QP!HumanKinds

LEMMA SameStatus == ASSUME NEW kind PROVE Queue!SavedStatus(kind) = QP!SavedStatus(kind)
BY Zenon DEF Queue!SavedStatus, QP!SavedStatus

LEMMA SameSteps ==
  ASSUME NEW p
  PROVE  Queue!Step(p) <=> QP!Step(p)
<1>1. Queue!LoadMissing(p) \/ Queue!Load(p) <=> QP!LoadMissing(p) \/ QP!Load(p)
  BY DEF Queue!LoadMissing, QP!LoadMissing, Queue!Load, QP!Load, Queue!Goto, QP!Goto,
         Queue!history, QP!history
<1>2. Queue!Refuse(p) \/ Queue!Expire(p) \/ Queue!Grant(p) \/ Queue!PassProbe(p)
      <=> QP!Refuse(p) \/ QP!Expire(p) \/ QP!Grant(p) \/ QP!PassProbe(p)
  BY SameVerdict, SameStatus DEF Queue!Refuse, QP!Refuse, Queue!Expire, QP!Expire, Queue!Grant,
                                 QP!Grant, Queue!PassProbe, QP!PassProbe, Queue!Goto, QP!Goto,
                                 Queue!history, QP!history
<1>3. Queue!Truncate(p) \/ Queue!Write(p) <=> QP!Truncate(p) \/ QP!Write(p)
  BY DEF Queue!Truncate, QP!Truncate, Queue!Write, QP!Write, Queue!Goto, QP!Goto,
         Queue!history, QP!history
<1> QED
  BY <1>1, <1>2, <1>3 DEF Queue!Step, QP!Step

-----------------------------------------------------------------------------
(***************************************************************************)
(* The inductive invariant: an evaluation and the queue command of its     *)
(* process go together, what the profile says bounds how far it may come,  *)
(* and an approval it has spent covers its operation for good.             *)
(***************************************************************************)

\* The phases in which the process of a gate is at the approval files.
AtQueue == {"asking", "checking", "consuming"}

RulingFor(e) ==
  LET name   == e.command.name
      action == RequestOf(e.command).action
  IN  IF Ungoverned(name) THEN "auto" ELSE Ruling(ProfileOf(name, action), action)

\* The evaluation e and the queue command c of the same process go together.
Errand(e, c) ==
  /\ e.phase \in AtQueue <=> c.step # "idle"
  /\ e.phase = "asking" => c.kind = "create"
  /\ e.phase = "checking" =>
       c.kind = IF RequiresBudget(RequestOf(e.command).action) THEN "probe" ELSE "consume"
  /\ e.phase = "consuming" => c.kind = "consume"
  /\ e.phase \in {"checking", "consuming"} => c.id = e.id /\ c.req = RequestOf(e.command)

\* What the profile says of an evaluation that has come this far, and whether its
\* approval is spent.
Ruled(e) ==
  /\ e.phase \in AtQueue \cup {"audit", "execute"} => RulingFor(e) # "deny"
  /\ e.phase \in {"checking", "consuming"} => RulingFor(e) = "require_approval"
  /\ e.phase \in {"checking", "audit", "consuming"} /\ RulingFor(e) = "require_approval"
       => e.id \in Ids
  /\ e.phase = "execute" /\ RulingFor(e) = "require_approval" => e.spent
  /\ e.spent => e.phase = "execute"

\* A spent approval was used, and covers the operation.
Consented(e) ==
  e.spent => e.id \in Ids /\ uses[e.id] > 0 /\ QP!Covers(e.id, RequestOf(e.command))

Sound(e, c) ==
  \/ e = NoEval /\ c.step = "idle"
  \/ e \in Evaluation /\ Errand(e, c) /\ Ruled(e) /\ Consented(e)

ConsentInv ==
  /\ QP!CheckInv /\ LockTypeOK /\ profile \in Profiles /\ budget \in BOOLEAN /\ EvalType
  /\ \A g \in Gates : Sound(eval[g], cmd[g])

LEMMA ConsentInit == Init => ConsentInv
<1> SUFFICES ASSUME Init PROVE ConsentInv
  OBVIOUS
<1>1. QP!Init
  BY SameInit DEF Init
<1>2. QP!CheckInv
  BY <1>1, QueueAssumed, QP!CheckInit
<1>3. LockTypeOK
  BY DEF Init, LockInit, LockTypeOK
<1>4. \A g \in Gates : eval[g] = NoEval /\ cmd[g].step = "idle"
  BY <1>1 DEF Init, QP!Init, QP!Procs, QP!Idle
<1> QED
  BY <1>2, <1>3, <1>4 DEF Init, ConsentInv, EvalType, Sound

\* An evaluation that is under way.
LEMMA BusySound ==
  ASSUME ConsentInv, NEW g \in Gates, Busy(g)
  PROVE  /\ eval[g] \in Evaluation /\ Errand(eval[g], cmd[g])
         /\ Ruled(eval[g]) /\ Consented(eval[g])
         /\ Request(g) \in Requests /\ g \in QP!Procs
         /\ RulingOf(g) = RulingFor(eval[g])
         /\ Budgeted(g) <=> RequiresBudget(RequestOf(eval[g].command).action)
<1>1. Sound(eval[g], cmd[g])
  BY DEF ConsentInv
<1>2. /\ eval[g] \in Evaluation /\ Errand(eval[g], cmd[g])
      /\ Ruled(eval[g]) /\ Consented(eval[g])
  BY <1>1 DEF Sound, Busy, NoEval
<1>3. Request(g) \in Requests
  BY <1>2, GateAssumption DEF Evaluation, Request
<1> QED
  BY <1>2, <1>3 DEF RulingOf, RulingFor, Name, Action, Request, Budgeted, QP!Procs

\* Every step of the gate is a step of the queue, or does not touch it.
LEMMA GateMovesQueue ==
  ASSUME ConsentInv, [Next]_vars
  PROVE  [QP!Next]_(QP!vars)
<1>1. ASSUME UNCHANGED queueVars PROVE UNCHANGED QP!vars
  BY <1>1 DEF queueVars, QP!vars
<1>2. ASSUME NEW g \in Gates, GateStep(g) PROVE [QP!Next]_(QP!vars)
  <2>1. CASE AskApproval(g)
    <3>1. PICK i \in Ids : Queue!StartCreate(g, i, Request(g))
      BY <2>1 DEF AskApproval
    <3>2. Request(g) \in Requests
      BY <2>1, BusySound DEF AskApproval, Busy
    <3> QED
      BY <3>1, <3>2, SameStarts DEF QP!Next
  <2>2. CASE CheckApproval(g) \/ ConsumeApproval(g)
    <3>1. PICK kind \in {"probe", "consume"} : Queue!StartCheck(g, kind, eval[g].id, Request(g))
      BY <2>2 DEF CheckApproval, ConsumeApproval, FirstCheck
    <3>2. Request(g) \in Requests /\ eval[g].id \in Ids
      BY <2>2, BusySound DEF CheckApproval, ConsumeApproval, Busy, Ruled, Evaluation
    <3> QED
      BY <3>1, <3>2, SameStarts DEF QP!Next, QP!GateKinds
  <2>3. CASE Answer(g)
    BY <2>3, SameEnds DEF Answer, QP!Next, QP!Procs
  <2>4. CASE Die(g)
    BY <1>1, <2>4, SameEnds DEF Die, QP!Next, QP!Procs
  <2> QED
    BY <1>1, <1>2, <2>1, <2>2, <2>3, <2>4
       DEF GateStep, Survey, CheckLock, ApplyRule, AuditBlocks, AuditPasses, End
<1>3. CASE QueueStep
  <2>1. CASE \E p \in Approvers, kind \in Queue!HumanKinds, i \in Ids :
               Queue!StartDecision(p, kind, i)
    BY <2>1, SameStarts DEF QP!Next, QP!HumanKinds, Queue!HumanKinds
  <2>2. CASE \E p \in Approvers \cup Gates : Queue!Step(p)
    BY <2>2, SameSteps DEF QP!Next, QP!Procs
  <2>3. CASE \E p \in Approvers : Queue!Return(p) \/ Queue!Crash(p)
    BY <2>3, SameEnds DEF QP!Next, QP!Procs
  <2>4. CASE Queue!Tick
    BY <2>4, SameEnds DEF QP!Next
  <2> QED
    BY <1>3, <2>1, <2>2, <2>3, <2>4 DEF QueueStep
<1> QED
  BY <1>1, <1>2, <1>3 DEF Next, Begin, LockingStep, BudgetChanges, vars

\* What held of an evaluation still holds when the queue and its history go on.
LEMMA SoundStays ==
  ASSUME ConsentInv, [QP!Next]_(QP!vars), profile' = profile, NEW e, NEW c, Sound(e, c)
  PROVE  Sound(e, c)'
<1>1. Consented(e) => Consented(e)'
  <2> SUFFICES ASSUME e.spent, e.id \in Ids, uses[e.id] > 0, QP!Covers(e.id, RequestOf(e.command))
               PROVE  uses'[e.id] > 0 /\ QP!Covers(e.id, RequestOf(e.command))'
    BY DEF Consented
  <2>1. QP!IInv
    BY DEF ConsentInv, QP!CheckInv
  <2>2. QP!Covers(e.id, RequestOf(e.command))'
    BY <2>1, QueueAssumed, QP!CoversStays
  <2>3. uses'[e.id] >= uses[e.id] /\ uses[e.id] \in Nat /\ uses'[e.id] \in Nat
    <3>1. QP!IInv'
      BY <2>1, QueueAssumed, QP!NextIInv
    <3> QED
      BY <2>1, <3>1, QueueAssumed, QP!HistoryGrows DEF QP!IInv, QP!TypeOK
  <2> QED
    BY <2>2, <2>3
<1> QED
  BY <1>1 DEF Sound, Errand, Ruled, RulingFor, ProfileOf

\* Only the evaluation that moves has to be looked at.
LEMMA SoundMove ==
  ASSUME ConsentInv, [QP!Next]_(QP!vars), profile' = profile, budget' \in BOOLEAN, LockTypeOK',
         NEW g \in Gates, NEW e, eval' = [eval EXCEPT ![g] = e], Sound(e, cmd[g])',
         \A h \in Gates : h # g => cmd'[h] = cmd[h]
  PROVE  ConsentInv'
<1>1. QP!CheckInv'
  BY QueueAssumed, QP!CheckNext DEF ConsentInv
<1>2. EvalType'
  BY DEF ConsentInv, EvalType, Sound
<1>3. ASSUME NEW h \in Gates PROVE Sound(eval[h], cmd[h])'
  <2>1. CASE h = g
    <3>1. eval'[h] = e
      BY <2>1 DEF ConsentInv, EvalType
    <3> QED
      BY <2>1, <3>1 DEF Sound, Errand, Ruled, RulingFor, Consented, ProfileOf
  <2>2. CASE h # g
    <3>1. PICK d, c : d = eval[h] /\ c = cmd[h]
      OBVIOUS
    <3>2. eval'[h] = d /\ cmd'[h] = c
      BY <2>2, <3>1 DEF ConsentInv, EvalType
    <3>3. Sound(d, c)'
      BY <3>1, SoundStays DEF ConsentInv
    <3> QED
      BY <3>2, <3>3 DEF Sound, Errand, Ruled, RulingFor, Consented, ProfileOf
  <2> QED
    BY <2>1, <2>2
<1> QED
  BY <1>1, <1>2, <1>3 DEF ConsentInv

\* The evaluation d goes on in another phase.
Follows(e, d, phase, spent) ==
  /\ e \in Evaluation /\ e.phase = phase /\ e.spent = spent
  /\ e.command = d.command /\ e.id = d.id

LEMMA Entered ==
  ASSUME ConsentInv, NEW g \in Gates, Busy(g), NEW phase \in Phases, Enter(g, phase)
  PROVE  \E e : eval' = [eval EXCEPT ![g] = e] /\ Follows(e, eval[g], phase, eval[g].spent)
<1> DEFINE e == [eval[g] EXCEPT !.phase = phase]
<1>1. Follows(e, eval[g], phase, eval[g].spent)
  BY BusySound DEF Follows, Evaluation
<1>2. eval' = [eval EXCEPT ![g] = e]
  BY DEF Enter
<1> HIDE DEF e
<1> QED
  BY <1>1, <1>2

LEMMA Blocked ==
  ASSUME ConsentInv, NEW g \in Gates, Busy(g), NEW why \in Reasons, Block(g, why)
  PROVE  \E e : eval' = [eval EXCEPT ![g] = e] /\ Follows(e, eval[g], "blocked", eval[g].spent)
<1> DEFINE e == [eval[g] EXCEPT !.phase = "blocked", !.why = why]
<1>1. Follows(e, eval[g], "blocked", eval[g].spent)
  BY BusySound DEF Follows, Evaluation, Phases
<1>2. eval' = [eval EXCEPT ![g] = e]
  BY DEF Block
<1> HIDE DEF e
<1> QED
  BY <1>1, <1>2

\* A step of the evaluation away from the approval files.
LEMMA AwayFromQueue ==
  ASSUME ConsentInv, UNCHANGED <<queueVars, profile>>, budget' \in BOOLEAN, LockTypeOK',
         NEW g \in Gates, NEW e, eval' = [eval EXCEPT ![g] = e], Sound(e, cmd[g])
  PROVE  ConsentInv'
<1>1. UNCHANGED QP!vars /\ cmd' = cmd
  BY DEF queueVars, QP!vars
<1>2. PICK c : c = cmd[g]
  OBVIOUS
<1>3. Sound(e, c)'
  BY <1>1, <1>2, SoundStays
<1>4. Sound(e, cmd[g])'
  BY <1>1, <1>2, <1>3 DEF Sound, Errand, Ruled, RulingFor, Consented, ProfileOf
<1> QED
  BY <1>1, <1>4, SoundMove

LEMMA BeginSound ==
  ASSUME ConsentInv, NEW g \in Gates, NEW c \in Commands, NEW id \in Ids \cup {None},
         NEW yes \in BOOLEAN, Begin(g, c, id, yes)
  PROVE  ConsentInv'
<1> DEFINE e == [phase |-> FirstPhase(c, yes), command |-> c, id |-> id, yes |-> yes,
                 why |-> "none", spent |-> FALSE, barred |-> Project \in held]
<1>1. FirstPhase(c, yes) \in {"survey", "lock", "policy", "execute", "blocked"}
  BY DEF FirstPhase
<1>2. FirstPhase(c, yes) = "execute" => c.name = "secret:delete"
  <2>1. CASE c.name \in {"project:delete", "project:undelete", "secret:delete"}
    BY <2>1 DEF FirstPhase
  <2>2. CASE c.name \notin {"project:delete", "project:undelete", "secret:delete"}
    BY <2>2 DEF FirstPhase
  <2> QED
    BY <2>1, <2>2
<1>3. /\ e \in Evaluation /\ e.phase = FirstPhase(c, yes) /\ e.command = c /\ ~e.spent
  BY <1>1 DEF Evaluation, Reasons, Phases
<1>4. eval' = [eval EXCEPT ![g] = e]
  BY DEF Begin
<1>5. UNCHANGED <<queueVars, lockVars, profile, budget>> /\ cmd[g].step = "idle"
  BY DEF Begin, ConsentInv, Sound, Busy, Evaluation, Phases
<1> HIDE DEF e
<1>6. Sound(e, cmd[g])
  BY <1>1, <1>2, <1>3, <1>5
     DEF Sound, Errand, Ruled, RulingFor, Ungoverned, Consented, AtQueue
<1>7. LockTypeOK' /\ budget' \in BOOLEAN
  BY <1>5 DEF ConsentInv, LockTypeOK, lockVars
<1> QED
  BY <1>4, <1>5, <1>6, <1>7, AwayFromQueue

\* Steps that look at the lock, the profile or the budget, and the last one.
LEMMA LooksSound ==
  ASSUME ConsentInv, NEW g \in Gates,
         \/ Survey(g) \/ CheckLock(g) \/ ApplyRule(g) \/ AuditBlocks(g) \/ AuditPasses(g)
         \/ End(g)
  PROVE  ConsentInv'
<1>1. /\ UNCHANGED <<queueVars, profile, budget, lockVars>> /\ Busy(g)
      /\ LockTypeOK' /\ budget' \in BOOLEAN
  BY DEF Survey, CheckLock, ApplyRule, AuditBlocks, AuditPasses, End, Busy, ConsentInv,
         LockTypeOK, lockVars
<1>2. /\ eval[g] \in Evaluation /\ Errand(eval[g], cmd[g])
      /\ Ruled(eval[g]) /\ Consented(eval[g])
      /\ RulingOf(g) = RulingFor(eval[g])
  BY <1>1, BusySound
<1>3. CASE End(g)
  <2>1. eval' = [eval EXCEPT ![g] = NoEval]
    BY <1>3 DEF End
  <2>2. Sound(NoEval, cmd[g])
    BY <1>2, <1>3 DEF Sound, End, Errand, AtQueue
  <2> QED
    BY <1>1, <2>1, <2>2, AwayFromQueue
<1>4. ASSUME NEW phase \in {"policy", "audit", "execute", "blocked"},
             \/ Enter(g, phase)
             \/ phase = "blocked" /\ \E why \in Reasons : Block(g, why),
             eval[g].phase \in {"survey", "lock", "policy", "audit"},
             phase \in {"audit", "execute"} =>
               RulingOf(g) \notin {"deny", "require_approval"}
      PROVE  ConsentInv'
  <2>1. PICK e : eval' = [eval EXCEPT ![g] = e] /\ Follows(e, eval[g], phase, eval[g].spent)
    BY <1>1, <1>4, Entered, Blocked DEF Phases
  <2>2. RulingFor(e) = RulingFor(eval[g])
    BY <2>1 DEF Follows, RulingFor
  <2>3. Sound(e, cmd[g])
    BY <1>2, <1>4, <2>1, <2>2 DEF Follows, Sound, Errand, Ruled, Consented, AtQueue
  <2> QED
    BY <1>1, <2>1, <2>3, AwayFromQueue
<1>5. CASE Survey(g)
  BY <1>4, <1>5 DEF Survey, Reasons
<1>6. CASE CheckLock(g)
  <2>1. Ungoverned(Name(g)) => RulingOf(g) = "auto"
    BY DEF RulingOf
  <2>2. CASE BlockedBy(Project)
    BY <1>4, <1>6, <2>2 DEF CheckLock, Reasons
  <2>3. CASE ~BlockedBy(Project) /\ Ungoverned(Name(g))
    BY <1>4, <1>6, <2>1, <2>3 DEF CheckLock
  <2>4. CASE ~BlockedBy(Project) /\ ~Ungoverned(Name(g))
    BY <1>4, <1>6, <2>4 DEF CheckLock
  <2> QED
    BY <2>2, <2>3, <2>4
<1>7. CASE ApplyRule(g)
  <2>1. CASE RulingOf(g) = "deny" \/ (RulingOf(g) = "require_confirm" /\ ~eval[g].yes)
    BY <1>4, <1>7, <2>1 DEF ApplyRule, Reasons
  <2>2. CASE ~(RulingOf(g) = "deny" \/ (RulingOf(g) = "require_confirm" /\ ~eval[g].yes))
    <3>1. PICK phase \in {"audit", "execute"} : Enter(g, phase)
      BY <1>7, <2>2 DEF ApplyRule
    <3>2. eval[g].phase = "policy" /\ RulingOf(g) \notin {"deny", "require_approval"}
      BY <1>7, <2>2 DEF ApplyRule
    <3> QED
      BY <1>4, <3>1, <3>2
  <2> QED
    BY <2>1, <2>2
<1>8. CASE AuditBlocks(g)
  BY <1>4, <1>8 DEF AuditBlocks, Reasons
<1>9. CASE AuditPasses(g)
  <2>1. RulingOf(g) # "deny"
    BY <1>2, <1>9 DEF AuditPasses, Ruled
  <2> QED
    BY <1>4, <1>9, <2>1 DEF AuditPasses
<1> QED
  BY <1>3, <1>5, <1>6, <1>7, <1>8, <1>9

\* Steps in which the gate turns to the approval files, or back from them.
LEMMA TurnsSound ==
  ASSUME ConsentInv, [Next]_vars, NEW g \in Gates,
         AskApproval(g) \/ CheckApproval(g) \/ ConsumeApproval(g)
  PROVE  ConsentInv'
<1>1. /\ UNCHANGED <<profile, budget, lockVars>> /\ Busy(g)
      /\ LockTypeOK' /\ budget' \in BOOLEAN /\ [QP!Next]_(QP!vars)
  BY GateMovesQueue DEF AskApproval, CheckApproval, ConsumeApproval, Busy, ConsentInv,
                        LockTypeOK, lockVars
<1>2. /\ eval[g] \in Evaluation /\ Errand(eval[g], cmd[g])
      /\ Ruled(eval[g]) /\ Consented(eval[g])
      /\ RulingOf(g) = RulingFor(eval[g]) /\ g \in QP!Procs
      /\ Budgeted(g) <=> RequiresBudget(RequestOf(eval[g].command).action)
  BY <1>1, BusySound
<1>3. RulingOf(g) = "require_approval" /\ eval[g].phase \in {"policy", "audit"}
  BY DEF AskApproval, CheckApproval, ConsumeApproval
<1>4. ASSUME NEW phase \in AtQueue, Enter(g, phase), NEW c,
             cmd' = [cmd EXCEPT ![g] = c], c.step # "idle",
             phase = "asking" => c.kind = "create",
             phase = "checking" => c.kind = FirstCheck(g),
             phase = "consuming" => c.kind = "consume",
             phase \in {"checking", "consuming"} =>
               eval[g].id \in Ids /\ c.id = eval[g].id /\ c.req = Request(g)
      PROVE  ConsentInv'
  <2>1. PICK e : eval' = [eval EXCEPT ![g] = e] /\ Follows(e, eval[g], phase, eval[g].spent)
    BY <1>1, <1>4, Entered DEF Phases, AtQueue
  <2>2. RulingFor(e) = RulingFor(eval[g])
    BY <2>1 DEF Follows, RulingFor
  <2>3. cmd'[g] = c /\ \A h \in Gates : h # g => cmd'[h] = cmd[h]
    BY <1>2, <1>4 DEF ConsentInv, QP!CheckInv, QP!IInv, QP!TypeOK, QP!Procs
  <2>4. ~e.spent
    BY <1>2, <1>3, <2>1 DEF Follows, Ruled
  <2>5. Errand(e, c)
    BY <1>2, <1>4, <2>1 DEF Follows, Errand, FirstCheck, Request
  <2>6. Ruled(e)
    BY <1>2, <1>3, <1>4, <2>1, <2>2, <2>4 DEF Follows, Ruled, AtQueue
  <2>7. PICK d : d = c
    OBVIOUS
  <2>8. Sound(e, d)'
    BY <1>1, <2>1, <2>4, <2>5, <2>6, <2>7, SoundStays DEF Sound, Consented, Follows
  <2>9. Sound(e, cmd[g])'
    BY <2>3, <2>7, <2>8 DEF Sound, Errand, Ruled, RulingFor, Consented, ProfileOf
  <2> QED
    BY <1>1, <2>1, <2>3, <2>9, SoundMove
<1>5. CASE AskApproval(g)
  <2>1. PICK i \in Ids : QP!StartCreate(g, i, Request(g))
    BY <1>5, SameStarts DEF AskApproval
  <2> DEFINE c == [step |-> "truncate", kind |-> "create", id |-> i, req |-> None,
                   rec |-> QP!NewApproval(Request(g), now, Ttl)]
  <2>2. cmd' = [cmd EXCEPT ![g] = c]
    BY <2>1 DEF QP!StartCreate
  <2>3. c.step # "idle" /\ c.kind = "create"
    OBVIOUS
  <2>4. Enter(g, "asking") /\ "asking" \in AtQueue
    BY <1>5 DEF AskApproval, AtQueue
  <2> HIDE DEF c
  <2> QED
    BY <1>4, <2>2, <2>3, <2>4
<1>6. ASSUME NEW kind, NEW phase \in {"checking", "consuming"}, Enter(g, phase),
             Queue!StartCheck(g, kind, eval[g].id, Request(g)), eval[g].id \in Ids,
             kind = IF phase = "checking" THEN FirstCheck(g) ELSE "consume"
      PROVE  ConsentInv'
  <2> DEFINE c == [step |-> "load", kind |-> kind, id |-> eval[g].id, req |-> Request(g),
                   rec |-> None]
  <2>1. cmd' = [cmd EXCEPT ![g] = c]
    BY <1>6, SameStarts DEF QP!StartCheck
  <2>2. c.step # "idle" /\ c.kind = kind /\ c.id = eval[g].id /\ c.req = Request(g)
    OBVIOUS
  <2> HIDE DEF c
  <2> QED
    BY <1>4, <1>6, <2>1, <2>2 DEF AtQueue
<1>7. CASE CheckApproval(g)
  <2>1. eval[g].id \in Ids
    BY <1>2, <1>7 DEF CheckApproval, Evaluation
  <2> QED
    BY <1>6, <1>7, <2>1 DEF CheckApproval
<1>8. CASE ConsumeApproval(g)
  <2>1. eval[g].id \in Ids
    BY <1>2, <1>3, <1>8 DEF ConsumeApproval, Ruled
  <2> QED
    BY <1>6, <1>8, <2>1 DEF ConsumeApproval
<1> QED
  BY <1>5, <1>7, <1>8

\* The answer is a use of the approval when the check consumed it.
LEMMA AnswerSound ==
  ASSUME ConsentInv, [Next]_vars, NEW g \in Gates, Answer(g)
  PROVE  ConsentInv'
<1>1. /\ UNCHANGED <<profile, budget, lockVars>> /\ Busy(g) /\ QP!Return(g)
      /\ LockTypeOK' /\ budget' \in BOOLEAN /\ [QP!Next]_(QP!vars)
      /\ eval[g].phase \in AtQueue
  BY GateMovesQueue, SameEnds DEF Answer, Busy, ConsentInv, LockTypeOK, lockVars, AtQueue
<1>2. /\ eval[g] \in Evaluation /\ Errand(eval[g], cmd[g])
      /\ Ruled(eval[g]) /\ Consented(eval[g])
      /\ RulingOf(g) = RulingFor(eval[g]) /\ g \in QP!Procs
      /\ Budgeted(g) <=> RequiresBudget(RequestOf(eval[g].command).action)
  BY <1>1, BusySound
<1>3. /\ cmd'[g].step = "idle" /\ \A h \in Gates : h # g => cmd'[h] = cmd[h]
  BY <1>1, <1>2 DEF QP!Return, QP!Idle, ConsentInv, QP!CheckInv, QP!IInv, QP!TypeOK, QP!Procs
<1>4. CASE eval[g].phase = "asking" \/ cmd[g].step # "done"
  <2>1. Block(g, "approval")
    BY <1>4 DEF Answer
  <2>2. PICK e : eval' = [eval EXCEPT ![g] = e]
                 /\ Follows(e, eval[g], "blocked", eval[g].spent)
    BY <1>1, <2>1, Blocked DEF Reasons
  <2>3. Sound(e, cmd[g])'
    BY <1>1, <1>2, <1>3, <2>2 DEF Follows, Sound, Errand, Ruled, Consented, AtQueue
  <2> QED
    BY <1>1, <1>3, <2>2, <2>3, SoundMove
<1>5. CASE eval[g].phase # "asking" /\ cmd[g].step = "done"
  <2> DEFINE phase == IF eval[g].phase = "checking" /\ Budgeted(g) THEN "audit" ELSE "execute"
             spent == cmd[g].kind = "consume"
             d == [eval[g] EXCEPT !.phase = phase, !.spent = spent]
  <2>1. eval' = [eval EXCEPT ![g] = d]
    BY <1>5 DEF Answer
  <2>2. Follows(d, eval[g], phase, spent)
    BY <1>2 DEF Follows, Evaluation, Phases
  <2>3. phase \in {"audit", "execute"} /\ (spent <=> phase = "execute") /\ spent \in BOOLEAN
    BY <1>1, <1>2, <1>5 DEF Errand, AtQueue
  <2>4. /\ RulingFor(eval[g]) = "require_approval"
        /\ eval[g].id \in Ids /\ eval[g].id = cmd[g].id /\ cmd[g].req = RequestOf(eval[g].command)
    BY <1>1, <1>2, <1>5 DEF Ruled, Errand, AtQueue
  <2>5. spent => uses'[eval[g].id] > 0 /\ QP!Covers(eval[g].id, RequestOf(eval[g].command))
                 /\ approvedIds' = approvedIds /\ issued' = issued
    BY <1>1, <1>2, <1>5, <2>4, QueueAssumed, QP!ReturnedUse DEF ConsentInv
  <2> HIDE DEF d, phase, spent
  <2>6. PICK e : e = d
    OBVIOUS
  <2>7. RulingFor(e) = "require_approval" /\ RulingFor(e)' = RulingFor(e)
    BY <1>1, <2>2, <2>4, <2>6 DEF Follows, RulingFor, ProfileOf
  <2>8. Consented(e)'
    BY <2>2, <2>4, <2>5, <2>6 DEF Follows, Consented, QP!Covers
  <2>9. Sound(e, cmd[g])'
    BY <1>3, <2>2, <2>3, <2>4, <2>6, <2>7, <2>8 DEF Follows, Sound, Errand, Ruled, AtQueue
  <2> QED
    BY <1>1, <1>3, <2>1, <2>6, <2>9, SoundMove
<1> QED
  BY <1>4, <1>5

LEMMA DieSound ==
  ASSUME ConsentInv, [Next]_vars, NEW g \in Gates, Die(g)
  PROVE  ConsentInv'
<1>1. /\ UNCHANGED <<profile, budget, lockVars>> /\ g \in QP!Procs
      /\ LockTypeOK' /\ budget' \in BOOLEAN /\ [QP!Next]_(QP!vars)
      /\ eval' = [eval EXCEPT ![g] = NoEval]
  BY GateMovesQueue DEF Die, Busy, ConsentInv, LockTypeOK, lockVars, QP!Procs
<1>2. /\ cmd'[g].step = "idle" /\ \A h \in Gates : h # g => cmd'[h] = cmd[h]
  <2>1. CASE Queue!Crash(g)
    <3>1. QP!Crash(g)
      BY <2>1, SameEnds
    <3> QED
      BY <1>1, <3>1 DEF QP!Crash, QP!Idle, ConsentInv, QP!CheckInv, QP!IInv, QP!TypeOK, QP!Procs
  <2>2. CASE ~Queue!Running(g) /\ UNCHANGED queueVars
    BY <2>2 DEF Queue!Running, queueVars
  <2> QED
    BY <2>1, <2>2 DEF Die
<1>3. Sound(NoEval, cmd[g])'
  BY <1>2 DEF Sound
<1> QED
  BY <1>1, <1>2, <1>3, SoundMove

\* The people at the queue, and the steps of a gate's own command.
LEMMA QueueSound ==
  ASSUME ConsentInv, [Next]_vars, QueueStep
  PROVE  ConsentInv'
<1>1. /\ UNCHANGED <<profile, budget, lockVars, eval>>
      /\ LockTypeOK' /\ budget' \in BOOLEAN /\ [QP!Next]_(QP!vars)
  BY GateMovesQueue DEF QueueStep, ConsentInv, LockTypeOK, lockVars
<1>2. QP!CheckInv' /\ EvalType' /\ QP!IInv
  BY <1>1, QueueAssumed, QP!CheckNext DEF ConsentInv, EvalType, QP!CheckInv
<1>3. \A g \in Gates :
        \/ cmd'[g] = cmd[g]
        \/ /\ cmd[g].step # "idle" /\ cmd'[g].step # "idle" /\ cmd'[g].kind = cmd[g].kind
           /\ cmd'[g].id = cmd[g].id /\ cmd'[g].req = cmd[g].req
  <2>0. Approvers \cap Gates = {} /\ cmd \in [QP!Procs -> {QP!Idle} \cup QP!Command]
    BY <1>2, GateQueueAssumption DEF QP!IInv, QP!TypeOK
  <2>1. CASE \E p \in Approvers, kind \in Queue!HumanKinds, i \in Ids :
               Queue!StartDecision(p, kind, i)
    <3>1. PICK p \in Approvers, kind \in Queue!HumanKinds, i \in Ids : QP!StartDecision(p, kind, i)
      BY <2>1, SameStarts
    <3> QED
      BY <2>0, <3>1 DEF QP!StartDecision, QP!Procs
  <2>2. CASE \E p \in Approvers \cup Gates : Queue!Step(p)
    <3>1. PICK p \in QP!Procs : QP!Step(p)
      BY <2>2, SameSteps DEF QP!Procs
    <3>2. /\ cmd[p].step # "idle" /\ cmd'[p].step # "idle"
          /\ cmd'[p].id = cmd[p].id /\ cmd'[p].kind = cmd[p].kind /\ cmd'[p].req = cmd[p].req
          /\ \A q \in QP!Procs : q # p => cmd'[q] = cmd[q]
      BY <1>2, <3>1, QueueAssumed, QP!StepKeeps DEF QP!Running
    <3> QED
      BY <3>2 DEF QP!Procs
  <2>3. CASE \E p \in Approvers : Queue!Return(p) \/ Queue!Crash(p)
    <3>1. PICK p \in Approvers : QP!Return(p) \/ QP!Crash(p)
      BY <2>3, SameEnds
    <3> QED
      BY <2>0, <3>1 DEF QP!Return, QP!Crash, QP!Procs
  <2>4. CASE Queue!Tick
    BY <2>4, SameEnds DEF QP!Tick
  <2> QED
    BY <2>1, <2>2, <2>3, <2>4 DEF QueueStep
<1>4. ASSUME NEW g \in Gates PROVE Sound(eval[g], cmd[g])'
  <2>1. PICK e, c : e = eval[g] /\ c = cmd[g]
    OBVIOUS
  <2>2. Sound(e, c)'
    BY <1>1, <2>1, SoundStays DEF ConsentInv
  <2>3. \/ cmd'[g] = c
        \/ /\ c.step # "idle" /\ cmd'[g].step # "idle" /\ cmd'[g].kind = c.kind
           /\ cmd'[g].id = c.id /\ cmd'[g].req = c.req
    BY <1>3, <2>1
  <2> QED
    BY <1>1, <2>1, <2>2, <2>3 DEF Sound, Errand, Ruled, RulingFor, Consented, ProfileOf
<1> QED
  BY <1>1, <1>2, <1>4 DEF ConsentInv

LEMMA LockingSound ==
  ASSUME ConsentInv, LockingStep
  PROVE  ConsentInv'
<1>1. UNCHANGED <<queueVars, profile, budget>> /\ LockTypeOK' /\ budget' \in BOOLEAN
  BY LockTypeNext DEF LockingStep, ConsentInv
<1>2. UNCHANGED QP!vars /\ cmd' = cmd /\ QP!CheckInv'
  <2>1. UNCHANGED QP!vars /\ cmd' = cmd
    BY <1>1 DEF queueVars, QP!vars
  <2> QED
    BY <2>1, QueueAssumed, QP!CheckNext DEF ConsentInv
<1>3. \A g \in Gates : eval'[g] = IF Busy(g)
                                    THEN [eval[g] EXCEPT !.barred = @ /\ Project \in held']
                                    ELSE eval[g]
  BY DEF LockingStep
<1>4. ASSUME NEW g \in Gates PROVE Sound(eval[g], cmd[g])' /\ eval'[g] \in {NoEval} \cup Evaluation
  <2>1. PICK e, c, f : e = eval[g] /\ c = cmd[g] /\ f = eval'[g]
    OBVIOUS
  <2>2. Sound(e, c)'
    BY <1>1, <1>2, <2>1, SoundStays DEF ConsentInv
  <2>3. CASE ~Busy(g)
    <3>1. f = e /\ e \in {NoEval} \cup Evaluation
      BY <1>3, <2>1, <2>3 DEF ConsentInv, EvalType
    <3> QED
      BY <1>2, <2>1, <2>2, <3>1 DEF Sound, Errand, Ruled, RulingFor, Consented, ProfileOf
  <2>4. CASE Busy(g)
    <3>1. e \in Evaluation /\ f = [e EXCEPT !.barred = @ /\ Project \in held']
      BY <1>3, <2>1, <2>4, BusySound
    <3>2. /\ f \in Evaluation /\ f.phase = e.phase /\ f.command = e.command /\ f.id = e.id
          /\ f.spent = e.spent
      BY <3>1 DEF Evaluation
    <3>3. e # NoEval
      BY <2>1, <2>4 DEF Busy, NoEval
    <3>4. Sound(f, c)'
      BY <2>2, <3>2, <3>3 DEF Sound, Errand, Ruled, RulingFor, Consented, ProfileOf
    <3> QED
      BY <1>2, <2>1, <3>2, <3>4 DEF Sound, Errand, Ruled, RulingFor, Consented, ProfileOf
  <2> QED
    BY <2>3, <2>4
<1>5. EvalType'
  <2>1. eval' = [g \in Gates |-> eval'[g]]
    BY DEF LockingStep
  <2> QED
    BY <1>4, <2>1 DEF EvalType
<1> QED
  BY <1>1, <1>2, <1>4, <1>5 DEF ConsentInv

LEMMA ConsentNext == ConsentInv /\ [Next]_vars => ConsentInv'
<1> SUFFICES ASSUME ConsentInv, [Next]_vars PROVE ConsentInv'
  OBVIOUS
<1>1. CASE \E g \in Gates, c \in Commands, id \in Ids \cup {None}, yes \in BOOLEAN :
             Begin(g, c, id, yes)
  BY <1>1, BeginSound
<1>2. CASE \E g \in Gates : GateStep(g)
  BY <1>2, LooksSound, TurnsSound, AnswerSound, DieSound DEF GateStep
<1>3. CASE QueueStep
  BY <1>3, QueueSound
<1>4. CASE LockingStep
  BY <1>4, LockingSound
<1>5. CASE BudgetChanges \/ UNCHANGED vars
  <2>1. UNCHANGED <<queueVars, lockVars, profile, eval>> /\ budget' \in BOOLEAN
    BY <1>5 DEF BudgetChanges, vars, ConsentInv
  <2>2. UNCHANGED QP!vars /\ cmd' = cmd
    BY <2>1 DEF queueVars, QP!vars
  <2>3. QP!CheckInv' /\ EvalType' /\ LockTypeOK'
    BY <2>1, <2>2, QueueAssumed, QP!CheckNext DEF ConsentInv, EvalType, LockTypeOK, lockVars
  <2>4. ASSUME NEW g \in Gates PROVE Sound(eval[g], cmd[g])'
    <3>1. PICK e, c : e = eval[g] /\ c = cmd[g]
      OBVIOUS
    <3>2. Sound(e, c)'
      BY <2>1, <2>2, <3>1, SoundStays DEF ConsentInv
    <3> QED
      BY <2>1, <2>2, <3>1, <3>2 DEF Sound, Errand, Ruled, RulingFor, Consented, ProfileOf
  <2> QED
    BY <2>1, <2>3, <2>4 DEF ConsentInv
<1> QED
  BY <1>1, <1>2, <1>3, <1>4, <1>5 DEF Next

LEMMA ConsentInvariant == Spec => []ConsentInv
BY ConsentInit, ConsentNext, PTL DEF Spec

\* The gate and everything beside it only hold values of their types.
THEOREM GateTypeCorrect == Spec => []GateTypeOK
<1>1. ConsentInv => GateTypeOK
  BY SameType DEF ConsentInv, QP!CheckInv, QP!IInv, GateTypeOK, EvalType
<1> QED
  BY <1>1, ConsentInvariant, PTL

\* A command blocked by the cost lock or the budget guard has not consumed its
\* approval.
THEOREM BlockedUnspent == Spec => []BlockedKeepsApproval
<1>1. ConsentInv => BlockedKeepsApproval
  BY BusySound DEF BlockedKeepsApproval, Ruled, Busy
<1> QED
  BY <1>1, ConsentInvariant, PTL

\* What needs an approval runs only on one that it consumed and that a person
\* granted for that very operation.
THEOREM ExecutionConsented == Spec => []ConsentedExecution
<1>1. ASSUME ConsentInv, NEW g \in Gates, Executing(g), RulingOf(g) = "require_approval"
      PROVE  /\ eval[g].spent
             /\ uses[eval[g].id] > 0
             /\ eval[g].id \in approvedIds
             /\ issued[eval[g].id].request.action = Action(g)
             /\ issued[eval[g].id].request.argsHash = Request(g).argsHash
             /\ issued[eval[g].id].request.account \in {NoAccount, Request(g).account}
  <2>1. /\ Ruled(eval[g]) /\ Consented(eval[g]) /\ RulingOf(g) = RulingFor(eval[g])
    BY <1>1, BusySound DEF Executing, Busy
  <2>2. eval[g].spent
    BY <1>1, <2>1 DEF Executing, Ruled
  <2> QED
    BY <2>1, <2>2 DEF Consented, QP!Covers, QP!Matches, Action, Request
<1>2. ConsentInv => ConsentedExecution
  BY <1>1 DEF ConsentedExecution
<1> QED
  BY <1>2, ConsentInvariant, PTL

\* A command performs the one action it is gated as, or is a deploy with a backend,
\* gated as the deployment of that backend.
LEMMA PerformsGated ==
  ASSUME NEW c \in Commands
  PROVE  \/ c.performs = {GatedAction(c)}
         \/ /\ GatedAction(c) = "deploy.cloud-run"
            /\ "deploy.cloud-run" \in c.performs
            /\ c.performs \subseteq {"deploy.cloud-run", "deploy.firebase-hosting"}
<1>1. c.name \in Names /\ c.performs \subseteq ActionsOf(c.name) /\ c.performs # {}
  BY GateAssumption
<1>2. CASE c.name = "deploy" /\ "deploy.cloud-run" \in c.performs
  BY <1>1, <1>2 DEF ActionsOf, GatedAction
<1>3. CASE c.name # "deploy" \/ "deploy.cloud-run" \notin c.performs
  <2>1. PICK a : c.performs = {a}
    BY <1>1, <1>3 DEF ActionsOf, Names
  <2>2. GatedAction(c) \in c.performs
    BY <1>3, <2>1 DEF GatedAction
  <2> QED
    BY <2>1, <2>2
<1> QED
  BY <1>2, <1>3

\* Of what deploy and secret set perform, the profile of the workspace may deny
\* nothing but the hosting release of a plan with a backend.
THEOREM DeniedNeverRuns == Spec => []GovernedDenyHolds
<1>1. ASSUME ConsentInv, NEW g \in Gates, Executing(g), Name(g) \in {"deploy", "secret:set"}
      PROVE  Performs(g) \cap profile.deny \subseteq
               (IF "deploy.cloud-run" \in Performs(g) THEN {"deploy.firebase-hosting"} ELSE {})
  <2>1. RulingOf(g) # "deny" /\ eval[g].command \in Commands
    BY <1>1, BusySound DEF Executing, Busy, Ruled, Evaluation
  <2>2. Action(g) \notin profile.deny
    BY <1>1, <2>1 DEF RulingOf, Ungoverned, ProfileOf, Ruling
  <2>3. Action(g) = GatedAction(eval[g].command)
    BY DEF Action, Request, RequestOf
  <2> QED
    BY <2>1, <2>2, <2>3, PerformsGated DEF Performs
<1>2. ConsentInv => GovernedDenyHolds
  BY <1>1 DEF GovernedDenyHolds
<1> QED
  BY <1>2, ConsentInvariant, PTL

\* The gate goes by the protocol of the approval files: with what it keeps
\* besides hidden, each of its behaviours is one of the approval queue with
\* overlapping commands.
THEOREM GateFollowsQueue == Spec => Queue!Spec
<1>1. Init => Queue!Init
  BY DEF Init
<1>2. ConsentInv /\ [Next]_vars => [Queue!Next]_(Queue!vars)
  <2> SUFFICES ASSUME ConsentInv, [Next]_vars PROVE [Queue!Next]_(Queue!vars)
    OBVIOUS
  <2>1. [QP!Next]_(QP!vars)
    BY GateMovesQueue
  <2>2. QP!Next => Queue!Next
    BY SameStarts, SameSteps, SameEnds
       DEF QP!Next, Queue!Next, QP!Procs, Queue!Procs, QP!HumanKinds, Queue!HumanKinds,
           QP!GateKinds, Queue!GateKinds
  <2> QED
    BY <2>1, <2>2 DEF QP!vars, Queue!vars
<1> QED
  BY <1>1, <1>2, ConsentInvariant, PTL DEF Spec, Queue!Spec

\* So what is proved of the queue holds behind the gate: no check grants without
\* the approval of a person, for that operation and within its lifetime.
THEOREM GateGrantsAuthorised == Spec => QP!OnlyAuthorisedGrants
<1>1. Init => QP!Init
  BY SameInit DEF Init
<1>2. ConsentInv /\ [Next]_vars => [QP!Next]_(QP!vars)
  BY GateMovesQueue
<1> QED
  BY <1>1, <1>2, ConsentInvariant, QueueAssumed, QP!GrantsAuthorised, PTL DEF Spec, QP!Spec
===============================================================================
