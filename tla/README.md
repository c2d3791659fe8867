# TLA+ models of omg (Oh-My-Google)

`omg` is a command-line tool and MCP server that lets an agent or a person run Google Cloud and
Firebase operations behind a safety gate: trust levels, one-use human approvals, a local cost
lock and a budget guard. This directory holds TLA+ models of that gate, of the deployments it
lets through, of the setup of projects, billing and budgets, and of the commands on secrets,
projects, accounts and downstream MCP servers; the TLC configurations that check them on small
instances; and TLAPS proofs of the results that matter most.

Paths such as `trust/check.ts` are relative to the repository's `src/` directory.

## 1. The system

| Component | State it keeps | Operations | Interacts with |
|---|---|---|---|
| Approvals (`approval/queue.ts`) | `.omg/approvals/<id>.yaml`, one file per approval | create, load, save, list | written by gated commands, approve, reject, `checkPermission` |
| approve / reject (`cli/commands`) | none | load, decide, save | approvals |
| Trust policy (`trust/*`) | `.omg/trust.yaml` (read) | `checkPermission`, levels, rules, deny list | approvals |
| Safety gate (`safety/*`) | none | `evaluateSafety` | trust policy, cost lock, budget audit |
| Cost lock (`cost-lock/state.ts`) | `.omg/cost-lock.json`, one file for all projects | lock, unlock, read | safety gate, firebase deploy, init |
| Deploy (`cli/commands/deploy.ts`, `executor/apply.ts`) | cloud services, `firebase.json` | gate, apply plan, roll back | safety gate, connectors, wiring |
| Secrets (`cli/commands/secret.ts`, `connectors/secret-manager.ts`) | Secret Manager | set, delete, list | safety gate |
| Projects (`cli/commands/project.ts`) | project lifecycle in the cloud | audit, delete, undelete | safety gate, gcloud account |
| Firebase (`cli/commands/firebase.ts`) | hosting releases | deploy, init, emulators | cost lock, budget audit |
| Budget (`connectors/budget-*.ts`) | Cloud Billing budgets | audit, ensure, enable-api, verify, routing plans | approvals, budget audit |
| Init (`cli/commands/init.ts`, `setup/*`) | project, billing link, APIs, IAM, trust profile, `~/.omg/config.json` | set-up flow | cost lock, budget audit, gcloud account |
| Auth and setup (`cli/auth.ts`, `cli/setup.ts`, `auth/*`) | gcloud configurations, ADC, `~/.omg/config.json` | create, switch, list, project, refresh, logout, setup | every gcloud call |
| Downstream MCP (`downstream-mcp/*`) | registry file, one session per call, one per server in an audit | audit, discover, call | gate for read-only tools, decision log |
| MCP server (`mcp/*`) | none | one tool per command | runs the commands above concurrently |
| Harness (`harness/*`) | decision log, handoff file | append, write | every command, read by none |

What is hard here: commands are separate processes, or concurrent requests of the MCP server, and
share files without locking them. Every file is read whole, changed in memory and written back
whole, with `fs.writeFile`, which truncates before it writes. A gated command awaits several
remote calls between reading the lock, the approval and the budget and running its operation. A
process can be killed at each of those points. `PROJECT.json` lists the individual hazards with
their lines.

What makes each component correct:

- *Approvals*: an operation runs only on an approval a person granted for that action, those
  arguments and that account, within its lifetime; a rejection stands; an approval is used once.
- *Cost lock*: a lock that was reported is in force until someone asks to lift it.
- *Safety gate*: lock, profile, approval and budget are each satisfied before the operation it is
  gated as, and a command that is blocked leaves its approval unused.
- *Executor*: success is reported only for what is up; a failed deployment is rolled back.
- *Init and budget*: billing is linked only behind a budget, a cost lock stops init before it links
  billing, enables APIs or binds roles, a retry completes what a failure left and creates nothing
  twice, each change of a budget goes by an approval of its policy that no earlier command
  has used, and every command ends.
- *Secrets*: what is reported is what was done, and the value leaves no file behind.
- *Projects*: nothing protected is deleted, and a deletion is of what the audit saw, under the
  account that was approved.
- *Auth*: the configuration, account and project asked for are those in use afterwards.
- *Downstream*: only reading tools are called, sessions are closed, and what was called, refused or
  failed is on record.

## 2. Modules

| Module | What it models |
|---|---|
| `ApprovalRecords` | an approval record and the decisions taken on a copy of it: `GateVerdict` is `checkPermission`, `HumanVerdict` is `runApprove`/`runReject` |
| `ApprovalQueue` | the files under all commands, one step per file access, with crashes, torn files and a clock |
| `ApprovalLifecycle` | the abstract specification: what the queue promises, one step per transition |
| `CostLock` | the shared lock file under `lockCost`, `unlockCost` and the gate's read |
| `TrustPolicy` | action levels, environment rules, deny list, budget and adapter tables |
| `SafetyGate` | `evaluateSafety` as the commands call it, composed with `ApprovalQueue` (INSTANCE) and `CostLock` (EXTENDS) |
| `DeployExecutor` | `applyPlan` with the Cloud Run and Firebase connectors, `injectRewrite`, the retries of the page check and the rollback, several deployments at once |
| `BudgetPolicy` | the pure part of the budget commands: risk of an audit, the plan of `ensure`, what a patch changes, topic risk and the routing of alerts |
| `BillingCloud` | what `init` and `budget` share: the cloud, this machine, the running commands, failures, and people at work beside them |
| `InitFlow` | `runInit`, call by call |
| `BudgetEnsure` | `budget ensure` through an injected executor, and `budget enable-api` |
| `BillingSetup` | composes the two (EXTENDS), with fairness and the properties |
| `CloudCommands` | what the commands on secrets, projects, accounts and gateways share: the cloud, gcloud's configurations, the downstream servers, running commands, failures and people |
| `SecretCommands` | `secret set`, `list`, `delete` with the Secret Manager connector |
| `ProjectCommands` | `project audit`, `cleanup`, `delete`, `undelete` with the audit connector |
| `AuthCommands` | `omg auth` and `omg setup` over gcloud's configurations, with the retries of `execGcloud` |
| `GatewayCommands` | `mcp gateway audit` and `call`: profile, registry, gate, sessions (an audit has one with each server at once), discovery, call, log |
| `CloudSession` | composes the four (EXTENDS), with the properties |
| `MCApprovalQueue`, `MCSafetyGate`, `MCDeployExecutor`, `MCBillingSetup`, `MCCloudSession` | small instances for TLC |
| `ApprovalQueueProofs`, `ApprovalSerialProofs`, `CostLockProofs`, `SafetyGateProofs`, `DeployExecutorProofs`, `BillingSetupProofs`, `BudgetProofs`, `CloudSessionProofs` | theorems and proofs |

How state and actions correspond to the code:

- `file[i]` is the approval file of id `i`: `None` (absent), `Torn` (truncated) or the record.
  `cmd[p]` is the command process `p` runs: the step it has reached and the copy of the record it
  holds, which is the local variable `approval` of `runApprove`, `runReject` and
  `checkPermission`. `Load`/`LoadMissing` are `loadApproval`, `Truncate` and `Write` the two
  effects of `fs.writeFile` in `saveApproval`. Between them any other process may take a step.
- `issued`, `approvedIds`, `rejectedIds`, `uses` and `held` are history variables; no guard of an
  action that stands for code reads them, except that an id is issued once (`createApprovalId` is
  taken to be unique). `barred` in an evaluation is history too.
- `locks`, `lcmd[p]` and the steps of `CostLock` do the same for `.omg/cost-lock.json`.
- `eval[g]` is where the command of process `g` stands inside `evaluateSafety`. `CheckLock` is the
  cost-lock read, `ApplyRule`, `AskApproval` and `CheckApproval` are `checkPermission` and the
  `createApproval` that follows `APPROVAL_REQUIRED`, `AuditBlocks`/`AuditPasses` the budget audit,
  and `ConsumeApproval` the second `checkPermission` that consumes what the first one only probed
  (`shouldDeferApprovalConsumption`). A command has a set of actions it `performs`, one for each
  target of a deployment, and a single `GatedAction`, which `deploy.ts:115` picks.
- `run[d]` is the deployment process `d` executes: `at` is the call of `applyPlan` it is about to
  make (`loop` is the head of the loop over `deploymentOrder`), `next` the place in that order,
  `undo` says that the rollback is registered, and `copy` is the content about to be written to
  `firebase.json`. `own`, `seen` and `up` (the last revision it made, the one it found ready, the
  targets it completed) and `undone` are history. `latest` and `healthy` stand for Cloud Run, whose
  revisions may or may not come up, and `hosting` for the last release.
- `DeployExecutor` begins where `evaluateSafety` has allowed the deployment; `SafetyGate` ends
  there. They share no state but the decision, so they are checked apart.
- `Crash`, `CrashLock`, `Die` and `Kill` kill a process between any two steps.
- In `BillingSetup` and `CloudSession`, `pc[c]` is the call that the command of client `c` is about
  to make and `req[c]` the command with its arguments. Between two steps any other client, and
  people, may go on. The other variables of a client are what the code holds between its calls: in
  `BillingSetup` `seen` (`getBillingStatus` of init), `look` (the account the guard found), `plan`
  (the plan of ensure), `who` and `bound` (the account that roles are bound to, and how many of
  them are); in `CloudSession` `saw` (`secretExists`), `look` (the audit), `acct` (the active
  account), `ctx` (the gcloud context), `pick` (the chosen project) and `tries` (attempts of
  `execGcloud`). `using` is the approval a gate has loaded. `done`, `blocked` and `failed` are the
  outcomes reported.
- An approval of these two modules is a request, what was asked for, with a number of its own, as
  each has its own file. `LoadApproval` is `checkPermission` from `loadApproval` to the check of the
  status, `ConsumeApproval` its `saveApproval` of the loaded copy, which asks nothing again. In
  between another command may load the same approval, and then both go on: `shared` has the
  approvals loaded by one command while another held them, `spent` those that a call was made under.
- `getGcloudContext` is three reads (`ctx.next` is the one about to be made: the configurations, the
  account, the project) and then the ADC account; a read whose value is not used is left out.
- An audit with discovery has `task[c][s]`, where its session with server `s` stands, and ends with
  the first that fails: the others may then be anywhere. `open` is the set of sessions, `files` that
  of value files of running commands, and `stray` that of files a killed command left behind.
- Every remote call has three endings: it takes effect and is answered, it fails without effect
  (`CallFails`, `...CallFails`, `AttemptFails`), or it takes effect and the answer is lost
  (`InitCallLost`, `MutateLost`, `EnableLost`, `ActLost`, and the one alternative of `WriteFails`
  and `AttemptFails`).
  The `...Effect` operators are what both kinds of success have in common.
- `alone[c]` says that no other command ran and no person changed anything since the command of `c`
  started, `faulted[c]` what failed in it; with `did`, `logged`, `held`, `budgeted`, `opened`,
  `made`, `raced`, `removed`, `grants`, `spent`, `shared` and `stray` they are history. No action
  that stands for code reads history (`grants` numbers the approvals people give, `removed` keeps
  Cloud Billing, in `NewId`, from giving a resource name twice).
- `User` is the account of gcloud's active configuration, which is what every gcloud call acts
  with: a switch by one command, or by hand, changes it for all of them at once.
- `BillingSetup` and `CloudSession` are checked apart from `SafetyGate`: where their commands call
  `evaluateSafety`, the approval is modelled (`LoadApproval`, `ConsumeApproval`, `AskApproval` and
  the refusals), the rules of the profile are a free choice.

## 3. Runs

| Run | Question | Bounds |
|---|---|---|
| `approval_overlap` | Do grants stay authorised, and rejections and finished approvals final, under every interleaving? | 1 approval, 1 person, 2 gates, 2 requests that differ in the account, clock 0..2, lifetime 1 |
| `approval_serial` | Do commands that run one at a time implement `ApprovalLifecycle`? | 2 approvals, 1 person, 1 gate, 4 requests (action, arguments and account each differ once), clock 0..2 |
| `approval_reuse` | Is an approval used once when commands overlap? (no) | as `approval_overlap` |
| `approval_reopened` | Does a rejection stand when two people decide at once? (no) | 2 people, 1 gate |
| `cost_lock_lost_update` | Is a held lock in force when lock commands overlap? (no) | 2 projects, 2 processes |
| `safety_gate` | Does the gate hold with everything moving around it, and is a held lock in force while lock commands run one at a time and die half-way? | 1 gate process, 1 person, 1 approval, 1 lock process, 1 project, 4 commands (a deployment of both targets, one of hosting only, firebase deploy, project delete), 3 profiles, clock 0..1, lifetime 0 |
| `deny_list` | Does the deny list stop every operation? (no) | the same with 5 commands (the two deployments, firebase deploy, secret set and delete) |
| `deploy_executor` | Is what a deployment reports true, is a failure rolled back, does `firebase.json` keep its rewrites, does every deployment end? | 2 processes, 2 deployments in all, 1 service, 5 plans (one edited by hand), 3 contents of `firebase.json` |
| `deploy_routing` | Do requests for the API reach the backend after a success? (no) | 1 deployment, otherwise the same |
| `billing_setup` | Is billing linked only behind a budget, does a lock stop init, do retries complete and create nothing twice, are changes paid for, do commands end? | 2 clients, 1 project, 2 billing accounts, 2 gcloud accounts, 3 budget names (1 of them for budgets made by hand), 2 default roles, 2 commands in all, 1 fault, 2 deeds of people; 602,771 states |
| `cloud_session` | Do reports tell what was done, do protected projects stay, are deletions as audited, do value files go and sessions close, is auth as asked, is a downstream call on record? | 2 interchangeable clients, 2 accounts, 3 projects (one protected, one of an organization), 2 configurations, 1 secret, 2 downstream servers of 2 tools, 2 attempts, 2 commands in all, 2 faults, 1 deed of people; 2,268,811 states |
| `gateway_unlogged` | Does every attempt to call a downstream tool leave an entry in the log? (no) | the same |

Why the bounds are enough: no two approvals share state, so one id shows every interleaving of the
queue, and the second in `approval_serial` shows that a command touches its own only. Two gates and
one person are the smallest instance with every kind of race (gate against gate, gate against
person); a second person gives person against person. The clock passes the expiry with a tick to
spare on either side (in `safety_gate` it passes it once). The instances are complete: TLC explores
all their states, and no queue, counter or history is cut off except the clock (`MaxTime`), the
number of deployments (`MaxDeploys`), and in the two last runs the commands, faults and deeds of
people (`MaxStarts`, `MaxFaults`, `MaxHands`). Two deployments are enough for each race on
`firebase.json` and on the revisions, and for a second deployment over what a first, dead one left
behind. With both done the instance stops, so `deploy_executor` does not check for deadlock;
`DeploymentsEnd` takes its place. `ReleaseIsWired` speaks of a workspace with one service, which is
what `buildPlan` gives it.

Two commands in all, `MaxStarts`, show each of them alone, each pair of them overlapping, and each
followed by a retry or by another; a third would add no pair. One fault in `billing_setup` is a lost
answer or a killed process before a retry; two in `cloud_session` are two failing attempts of one
call (the code makes three: the last attempt behaves alike, whatever their number), or a failing
call and a failing cleanup. Two servers are enough for an audit to fail on one while the session
with the other is open. Two deeds of people in `billing_setup` are enough to link an account and
to budget it, or to lock a project and switch the account. The beginnings of `billing_setup` are a
project to be made, one whose ID is taken, and one in use with two approvals granted. In
`cloud_session` each beginning has a menu, the commands that run in it: commands that look at the
same things share a menu, so they meet, and those that share nothing do not multiply the states.
Both stop when all commands are over, hence no check for deadlock; `CommandsEnd` covers it for the
one. The proofs of section 4 hold for any number of each.

The six runs that end in a violation show where the code departs from what its documents or tests
say; the findings of `PROJECT.json` quote the lines. `DenyListHolds` fails in two ways: `firebase
deploy` does not ask the profile, which is the trace of `deny_list`, and a deployment of both
targets is gated as `deploy.cloud-run` only, which `GovernedDenyHolds` names as its exception.

Fairness: `DeployExecutor!Spec` asks that a deployment that can take a step takes one (weak fairness
of `Step(d)`, for each process; never of `Begin` or `Die`). The code justifies it: the gcloud and
firebase calls are child processes that are waited for and that return, with success or without, and
nothing in `applyPlan` waits for another process. Nothing is assumed of what the calls answer.
`BillingSetup!Spec` asks the same of `Step(c)`, for the same reason; starting a command, failures,
kills and people are never owed. All other runs are about safety and assume no fairness.

## 4. Proofs

Every invariant and every action property that a passing run checks is also a theorem. `Spec` is
that of the module the proofs extend; a hypothesis before it is needed, as said below.

| Theorem | Says |
|---|---|
| `ApprovalQueueProofs!TypeCorrect` | `Spec => []TypeOK` |
| `ApprovalQueueProofs!GrantsAuthorised` | `Spec => OnlyAuthorisedGrants`, with overlap, crashes and any number of processes |
| `ApprovalQueueProofs!RejectionStands` | `OneDecider => (Spec => []RejectionHolds)` |
| `ApprovalQueueProofs!SpentClosed` | `OneDecider => (Spec => []SpentStaysClosed)` |
| `ApprovalQueueProofs!FinalStands` | `OneDecider => (Spec => FinalStaysFinal)` |
| `ApprovalSerialProofs!UsedOnce` | `~Overlap => (Spec => []SingleUse)` |
| `ApprovalSerialProofs!QueueImplementsLifecycle` | `~Overlap => (Spec => ImplementsLifecycle)`, the refinement of `ApprovalLifecycle` |
| `CostLockProofs!LockTypeCorrect` | `LockSpec => []LockTypeOK` |
| `CostLockProofs!HeldLocksStay` | `~LockOverlap => (LockSpec => []HeldLocksInForce)` |
| `SafetyGateProofs!GateTypeCorrect` | `Spec => []GateTypeOK` |
| `SafetyGateProofs!LockedNeverRuns` | `~LockOverlap => (Spec => []LockedStaysBlocked)`, for the composed gate |
| `SafetyGateProofs!BlockedUnspent` | `Spec => []BlockedKeepsApproval` |
| `SafetyGateProofs!ExecutionConsented` | `Spec => []ConsentedExecution` |
| `SafetyGateProofs!DeniedNeverRuns` | `Spec => []GovernedDenyHolds` |
| `SafetyGateProofs!GateFollowsQueue` | `Spec => Queue!Spec`: the composed gate implements the approval queue |
| `SafetyGateProofs!GateGrantsAuthorised` | `Spec => QP!OnlyAuthorisedGrants`: what is proved of the queue holds behind the gate |
| `DeployExecutorProofs!ExecutorTypeCorrect` | `Spec => []ExecutorTypeOK` |
| `DeployExecutorProofs!SuccessIsUp` | `Spec => []SuccessMeansUp` |
| `DeployExecutorProofs!FailureIsRolledBack` | `Spec => []FailureRollsBack` |
| `DeployExecutorProofs!ReleasedWhenReady` | `Spec => []ReleaseAfterReady` |
| `DeployExecutorProofs!ForeignRewritesAreKept` | `OneApiAtFirst => (Spec => []ForeignRewritesKept)` |
| `DeployExecutorProofs!ReleasedWired` | `OneService /\ WiredHaveBackend => (Spec => ReleaseIsWired)` |
| `BillingSetupProofs!SetupTyped` | `Spec => []SetupTypeOK` |
| `BillingSetupProofs!LinkedBehindBudget` | `Spec => LinkNeedsBudget` |
| `BillingSetupProofs!UnopenedUnused` | `Spec => []UnopenedStaysUnused` |
| `BillingSetupProofs!LockedUntouched` | `Spec => []LockedStaysUntouched` |
| `BudgetProofs!OneBudget` | `Spec => []OneBudgetPerName` |
| `BudgetProofs!AlertsRouted` | `Spec => AlertsStayRouted` |
| `BudgetProofs!MutationsPaid` | `Spec => []MutationsPaidFor` |
| `BudgetProofs!RoutingSettles` | `Spec => []RoutingConverges` |
| `BudgetProofs!InitIsComplete` | `Spec => []InitCompletes` |
| `BudgetProofs!FailuresExplained` | `Spec => []FailsOnlyByFault` |
| `CloudSessionProofs!SessionTyped` | `Spec => []SessionTypeOK` |
| `CloudSessionProofs!FileGone` | `Spec => []ValueFileGone` |
| `CloudSessionProofs!ReadsOnly` | `Spec => []GatewayReadsOnly` |
| `CloudSessionProofs!SessionsAreClosed` | `Spec => []SessionsClosed` |
| `CloudSessionProofs!GatewayKeepsAccount` | `Spec => []GatewayAccounted` |
| `CloudSessionProofs!Protected` | `Spec => ProtectedKept` |
| `CloudSessionProofs!DeletesAudited` | `Spec => DeletesAsAudited` |
| `CloudSessionProofs!ReportsAreTrue` | `Spec => []ReportsTruly` |
| `CloudSessionProofs!AuthLeavesAsked` | `Spec => []AuthAsAsked` |

They hold for every value of the constants that satisfies the named assumptions in
`ApprovalRecords`, `ApprovalQueue`, `CostLock`, `SafetyGate`, `DeployExecutor`, `BudgetPolicy`,
`BillingCloud` and `CloudCommands`, which TLC evaluates in the runs. `GateQueueAssumption` repeats
for the queue inside `SafetyGate` what `ApprovalRecords` and `ApprovalQueue` assume of theirs.

The hypotheses before `Spec`:

- `~Overlap` and `~LockOverlap`: commands on approvals, or on the lock file, run one at a time. The
  runs `approval_reuse` and `cost_lock_lost_update` refute `SingleUse` and `HeldLocksInForce`
  without them.
- `OneDecider`: there is at most one approver process, as when one person decides at one terminal.
  `approval_reopened` refutes `RejectionHolds` with two. Gates overlap as they like.
- `OneApiAtFirst`: the `firebase.json` a workspace starts with has at most one rewrite of the API.
  With two the property does not hold of the first state; `updateHosting` leaves one.
- `OneService`: the workspace has one service, as `.omg/project.yaml` names one; a deployment of
  another service would take the rewrite over. `WiredHaveBackend`: a plan is wired only where it has
  a backend, as `buildPlan` makes it.

The arguments, each with its inductive invariant:

- *Grants.* `OnlyAuthorisedGrants` is not inductive: a grant is decided on a copy. `IInv`
  relates every copy, and every file, to the history: it carries the request and expiry it was
  issued with, and if it reads approved or consumed, a person's approval was saved first.
- *Decisions of one person.* What could undo a decision is a stale copy written later.
  `DeciderInv` says whose a record is at each status: its creator's until its file is written (no
  one else knows it), the person's while it is pending (a gate never saves a pending one, so the
  file is what the person has read), the gates' once it is approved (and they only ever save it
  consumed or expired). So a copy of an earlier status is never written over a later one.
- *Single use.* With commands serialised, at most one process holds a copy; a use is recorded only
  after the file was written as consumed, and no later command leaves that status (`SerialInv`).
- *Refinement.* `RefInv` adds that the file is still what the running command has read. Then each
  save is one transition of `ApprovalLifecycle` and every other step a stutter. A torn file is
  mapped to the status that its command found, which the kind of the command tells; a crash in
  between leaves it torn, which the lifecycle calls lost.
- *Cost lock.* TLC checks `HeldLocksInForce` with one project; for several it is the theorem that
  says it. The copy a lock command holds contains every held project but the one it unlocks,
  from its read until its write, because no other lock command runs meanwhile (`LockInv`).
- *Locked operations.* `GateInv` lifts the cost-lock invariant into `SafetyGate`: a command is
  barred only while its project is held, so its lock check finds the lock, or a torn file, and
  blocks.
- *Consent.* `SafetyGateProofs` takes over the lemmas of `ApprovalQueueProofs` by `INSTANCE`
  (`QP`), shows that the queue inside the gate goes by the same actions, and that every step of the
  gate is a step of that queue or leaves it alone (`GateMovesQueue`). `ConsentInv` then ties an
  evaluation to the queue command of its process (`Errand`: the phase tells the kind of the command,
  its id and its request), bounds the phase by what the profile says (`Ruled`), and says that an
  approval marked spent was used, and covers the operation for good (`Consented`). The cover rests
  on the queue's `CheckInv`, and on approvals and uses never being taken back. None of it needs
  lock commands to run one at a time.
- *Deployments.* `DeployInv` says of each deployment that the steps of a target are taken at its
  place in the order, that what comes earlier in the order is up, that a deployed backend has its
  rollback registered, and that a backend that is up was found ready at or after the deployment's
  own last revision. Other deployments only add revisions, so they disturb none of it. It rests on
  `PlansInOrder` (every target has its place, the backend's before the frontend's), which
  `buildPlan` establishes and a plan edited by hand may break.
- *firebase.json.* Deployments overwrite each other's writes here, and it does no harm. `FileInv`:
  every copy that waits to be written has the foreign rewrites of the file at first, in order, and
  one place for the API at most, so it does not matter whose copy comes last. `WiredInv`: with one
  service every such copy also leads there, so nobody's write takes away what another one has wired.
  What the filter of `updateHosting` keeps is a recursive function on the length of the list; its
  lemmas (a sequence of rewrites, unchanged when what is inserted is the API's) are proved by
  contradiction at the least length that fails, with the well-foundedness of `<` on the naturals,
  since the library's induction rules cannot be instantiated.
- *Billing setup.* `Fits` says what a command remembers at each of its steps. `OpenInv` says that
  an init about to link has an account with a budget, that an ensure about to change one has an
  account that was opened before, and that linked and budgeted accounts are open: without the
  commands' part a link or a new budget could open one. `LockInv` says that an init for which a
  lock counts finds the project locked until it has looked, and never passes the check.
- *Budgets.* `NameInv` joins what is in the cloud with the plans of running commands: an ensure
  about to create a budget has raced for its name, or nothing omg made has that name. `PaidInv`
  tells the approvals apart: one that was used up by a command that has gone on, or is over, is no
  longer granted, so no later command can load it; two commands hold the same one only if it is
  `shared`; and what a command holds is of its policy. `CloudSessionProofs` does the same for
  deletions and restorations.
- *Init and retries.* `DoneInv` is about init among others: from the step after each of its
  deeds, the project is active, the APIs are on and the roles bound so far are there, and nobody
  takes them away. `AloneInv` is about a command that nobody disturbs: all others are idle; what
  it has read is still so; the budget an ensure made is as the policy has it; and a command on its
  way to an error has met a fault, or one of the two causes that `FailsOnlyByFault` names.
- *Routing.* `RoutingConverges` is about operators; what has to be invariant is only that budgets
  keep their type and that an account has finitely many, so the proof is by cases on the plan.
- *Sessions.* `FileInv`, `SessionsOpen` and `GatewayInv` say at which steps a file or a session may
  be there, and what has been logged: a session of an audit that is still open has yet to come to
  its close (`task`), or would not close. `AuditInv` says what a deletion has been checked for at
  each step: that the project is neither protected nor owned, at all times; and, as long as the
  command is alone and nothing failed, that what it read is still so. That half rests on a client
  that is alone having only idle ones beside it.
- *Reports.* `ReportInv` says of every step whether the command's deed is still to be done, is done,
  or was not needed (`DeedAt`), and that a command alone and without faults turns to an error only
  before its deed (`QuietAt`).
- *Auth.* `AskedInv` follows an undisturbed auth command or setup over gcloud's configurations: from
  the step that activates or creates it the configuration asked for is the active one; account
  and project are what was asked for from the step that sets them; a project that was picked is one
  the account can see; and what `setup` saves is what it has read.

Only model-checked: `DeploymentsEnd` and `CommandsEnd`. They are liveness under fairness, which the
prover does not reach.

## 5. What is left out

Formatting, logging, the handoff, and the decision log outside of the gateway (no decision reads
them); the reason, the approver's name and the timestamps of approvals and locks; dry runs, which
change nothing, where they do no more than report. The hash of the arguments is a member of a small
set, so hash collisions do not exist. Two writers of one file whose windows overlap leave the later
one's text whole: a mixture of both is not modelled. `.omg/trust.yaml` does not change while a
behaviour of `SafetyGate` runs, but `Init` takes any of the profiles. The workspace has one project.
In `SafetyGate` the account and lifecycle audits of project commands are a free choice, which
`ProjectCommands` replaces by the audit itself.

In `DeployExecutor`: the traffic split that the rollback sets (no step reads it, and the code
ignores the outcome of that call), several hosting sections in one `firebase.json` (each is
rewritten in the same way), and the values of the environment (resolving its secrets and setting
them is one call, which may fail).

In `BillingSetup` and `CloudSession`, the files of approvals are loaded and saved whole: torn ones,
the clock and the decisions of several people are the matter of `ApprovalQueue`. That two commands
may load the same approval before either saves it is in all three; it is the finding of
`approval_reuse`, and `MutationsPaidFor` and `DeletesAsAudited` state that an approval serves twice
in that way only. Two open requests for the same thing are one. `cost lock` and `unlock` are single
steps beside `init`, and the update that two of them can lose is in `CostLock` only. Of a killed
`secret set` the value file stays behind, and nothing removes it (`stray`). The sessions that an
audit has open when it reports its first error go on, in the model until the client turns to another
command. In the run, `MutationNames` is what the pattern of `getMutationSignals` matches, which is
by whole words: names such as `delete_file` or `setValue` are not among them, and such a tool is
called if it is declared for reading and not annotated. `GatewayReadsOnly` speaks of servers that
nobody changes during the call; what is called when the list has changed since it was fetched is not
constrained by the code.

In `BillingSetup` and `CloudSession`, gcloud, Cloud Billing, Secret Manager and the downstream
server are external: they are modelled by what the code expects of a call and by the errors it maps.
The CLI ships `budget ensure` without a live executor (`BUDGET_ENSURE_LIVE_NOT_IMPLEMENTED`); the
model has both, the command without one, which ends at once, and the injected one. The live paths of
`budget notifications ensure` and `lock-ingestion` do not exist, so their plans are operators and a
person carries them out (`HandRoute`). Regions, environments and amounts beyond two values are left
out. Writing `trust.yaml` and `config.json` is one step: no other command of these modules reads
them half-written.

Not modelled: the read-only audits of Firestore, IAM, Cloud SQL, storage and security (each lists,
classifies and prints, with no state and no order that matters); the IAM agent plan (a pure dry-run
plan, no live change exists); the CLI shell, `doctor` and the detection of stacks (parsing and
formatting); logs, functions and emulators of the connectors.

## 6. Plan

Done: the approval queue, cost lock, trust policy and gate; deployments; billing setup; secrets,
projects, auth and gateway; the proofs of every safety property the runs check. Left, in this order:

1. Proofs with weaker hypotheses: `RejectionHolds` for several approvers whose decisions on one
   approval do not overlap, `SingleUse` for commands that overlap on different approvals only.
2. `DeployExecutor`: the traffic split and what the rollback leaves of it.
3. One gate under all commands: `SafetyGate` in place of the free choices of `SecretCommands` and
   `BudgetEnsure`.
