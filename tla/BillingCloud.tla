---------------------------- MODULE BillingCloud ----------------------------
(***************************************************************************)
(* What omg init and omg budget share: projects, their billing, budgets    *)
(* and roles in Google Cloud, the files and the gcloud settings of this    *)
(* machine, the commands that run, and everything that happens beside      *)
(* them.  A command runs as a sequence of gcloud calls; between two of its *)
(* steps other commands and people go on.  InitFlow and BudgetEnsure hold  *)
(* the steps of the commands, BillingSetup puts them together.             *)
(*                                                                         *)
(* A call may fail without its effect (CallFails) or after it (the Lost    *)
(* actions of the commands), and a process may be killed at any step.      *)
(***************************************************************************)
EXTENDS BudgetPolicy

CONSTANTS Clients,      \* processes that run a command
          Users,        \* accounts gcloud may be logged in with
          Requests,     \* commands with their arguments
          HandIds,      \* resource names of budgets that people create
          HandBudgets,  \* those budgets
          Beginnings,   \* projects, links, account and approvals there may be at first
          NumRoles,     \* how many roles DEFAULT_ROLE_REASONS lists
          MaxStarts,    \* bound on the commands of a behaviour
          MaxFaults,    \* bound on failing calls and killed processes
          MaxHands      \* bound on what people do beside omg

\* asks: a person is asked before the APIs, in place of --yes.
InitRequests ==
  [cmd : {"init"}, project : Projects, account : BillingAccounts, asks : BOOLEAN]

\* how: with --dry-run, with --yes, with neither, or with --yes and no executor.
EnsureRequests ==
  [cmd : {"ensure"}, project : Projects, policy : Policies,
   how : {"dry-run", "live", "unconfirmed", "no-executor"}]

EnableRequests ==
  [cmd : {"enable-api"}, project : Projects, how : {"dry-run", "live", "unconfirmed"}]

ProjectStates == {"absent", "active", "taken"}

\* What is asked for, the hashed policy and the account, and an approval of it, which
\* has a file of its own.
Asks      == Policies \X Users
Approvals == [of : Asks, number : Nat]

ASSUME CloudAssumption ==
  /\ Requests \subseteq InitRequests \cup EnsureRequests \cup EnableRequests
  /\ \A r \in Requests : r.cmd = "ensure" => r.policy.project = r.project
  /\ BudgetIds \subseteq Nat /\ HandIds \subseteq BudgetIds
  /\ HandBudgets \subseteq Budgets
  /\ Beginnings \subseteq [project : [Projects -> ProjectStates],
                           billing : [Projects -> BillingAccounts \cup {None}],
                           user : Users, granted : SUBSET Approvals]
  /\ \A b \in Beginnings :
       IsFiniteSet(b.granted) /\ \A a \in b.granted : a.number <= Cardinality(b.granted)
  /\ None \notin Users
  /\ NumRoles \in Nat \ {0}
  /\ MaxStarts \in Nat /\ MaxFaults \in Nat /\ MaxHands \in Nat

NoRequest == [cmd |-> "none", project |-> None]
NoPlan    == [action |-> "none", id |-> None]

VARIABLES
  project, billing, apis, bindings, budgets,  \* Google Cloud
  locked,                                     \* projects with a cost lock here
  user, activeProject,                        \* gcloud's account and project
  profile, config,                            \* trust.yaml and config.json
  asked, granted,                             \* approvals of budget.ensure
  pc, req, seen, look, plan, who, bound, using,  \* the commands that run
  faulted, alone, held,                       \* what befell each of them
  budgeted, opened, made, raced, removed,     \* what has ever been
  grants, spent, shared,                      \* approvals given, used, and loaded twice
  starts, faults, hands                       \* counts for the bounds

cloud    == <<project, billing, apis, bindings, budgets>>
machine  == <<locked, user, activeProject, profile, config>>
consent  == <<asked, granted, grants, spent, shared>>
local    == <<req, seen, look, plan, who, bound, using>>
fate     == <<faulted, alone, held>>
past     == <<budgeted, opened, made, raced, removed>>
counts   == <<starts, faults, hands>>
vars     == <<cloud, machine, consent, pc, local, fate, past, counts>>

Ends == {"done", "blocked", "failed"}

Running(c) == pc[c] # "idle"

Goto(c, step) == pc' = [pc EXCEPT ![c] = step]

Project(c) == req[c].project

Has(account, id) == budgets[id] # NoBudget /\ budgets[id].account = account

Listed(account) == {id \in BudgetIds : Has(account, id)}

\* The budgets find may return; find takes the first in the order of the answer.
Named(account, name) == {id \in Listed(account) : budgets[id].name = name}

\* A resource name is not given twice, also after its budget has been removed.
Fresh(id) == budgets[id] = NoBudget /\ id \notin removed

\* The resource name a created budget gets; numbered in the order of creation.
NewId(id) ==
  /\ id \notin HandIds
  /\ Fresh(id)
  /\ \A i \in BudgetIds \ HandIds : i < id => ~Fresh(i)

FirstStep(r) ==
  CASE r.cmd = "init" -> "list"
    [] r.cmd = "ensure" -> IF r.how \in {"dry-run", "live"} THEN "describe" ELSE "blocked"
    [] r.cmd = "enable-api" ->
         CASE r.how = "live" -> "enable" [] r.how = "dry-run" -> "done" [] OTHER -> "blocked"

Init ==
  /\ \E b \in Beginnings :
       /\ project = b.project
       /\ billing = b.billing
       /\ user = b.user
       /\ granted = b.granted
       /\ grants = Cardinality(b.granted)
       /\ opened = {b.billing[p] : p \in Projects} \ {None}
  /\ apis = [p \in Projects |-> {}]
  /\ bindings = {}
  /\ budgets = [id \in BudgetIds |-> NoBudget]
  /\ locked = {}
  /\ activeProject = None /\ profile = None /\ config = None
  /\ asked = {} /\ spent = {} /\ shared = {}
  /\ pc = [c \in Clients |-> "idle"]
  /\ req = [c \in Clients |-> NoRequest]
  /\ seen = [c \in Clients |-> None]
  /\ look = [c \in Clients |-> None]
  /\ plan = [c \in Clients |-> NoPlan]
  /\ who = [c \in Clients |-> None]
  /\ bound = [c \in Clients |-> 0]
  /\ using = [c \in Clients |-> None]
  /\ faulted = [c \in Clients |-> FALSE]
  /\ alone = [c \in Clients |-> FALSE]
  /\ held = [c \in Clients |-> FALSE]
  /\ budgeted = {} /\ made = {} /\ raced = {} /\ removed = {}
  /\ starts = 0 /\ faults = 0 /\ hands = 0

Start(c, r) ==
  /\ pc[c] = "idle"
  /\ starts < MaxStarts
  /\ starts' = starts + 1
  /\ Goto(c, FirstStep(r))
  /\ req' = [req EXCEPT ![c] = r]
  /\ alone' = [d \in Clients |-> d = c /\ \A e \in Clients \ {c} : pc[e] = "idle"]
  /\ held' = [held EXCEPT ![c] = r.project \in locked]
  /\ faulted' = [faulted EXCEPT ![c] = FALSE]
  /\ UNCHANGED <<cloud, machine, consent, seen, look, plan, who, bound, using, past,
                 faults, hands>>

\* The command is over, or its process is killed.
Leave(c) ==
  /\ Goto(c, "idle")
  /\ req' = [req EXCEPT ![c] = NoRequest]
  /\ seen' = [seen EXCEPT ![c] = None]
  /\ look' = [look EXCEPT ![c] = None]
  /\ plan' = [plan EXCEPT ![c] = NoPlan]
  /\ who' = [who EXCEPT ![c] = None]
  /\ bound' = [bound EXCEPT ![c] = 0]
  /\ using' = [using EXCEPT ![c] = None]
  /\ faulted' = [faulted EXCEPT ![c] = FALSE]
  /\ alone' = [alone EXCEPT ![c] = FALSE]
  /\ held' = [held EXCEPT ![c] = FALSE]
  /\ UNCHANGED <<cloud, machine, consent, past>>

Finish(c) ==
  /\ pc[c] \in Ends
  /\ Leave(c)
  /\ UNCHANGED counts

Fault(c) ==
  /\ faults < MaxFaults
  /\ faults' = faults + 1
  /\ faulted' = [faulted EXCEPT ![c] = TRUE]

Kill(c) ==
  /\ pc[c] \notin {"idle"} \cup Ends
  /\ faults < MaxFaults
  /\ faults' = faults + 1
  /\ Leave(c)
  /\ UNCHANGED <<starts, hands>>

\* A call of gcloud, of the Budget API or of the file system fails; the command
\* reports the error and leaves what it has done.
CallFails(c) ==
  /\ pc[c] \notin {"idle"} \cup Ends
  /\ Fault(c)
  /\ Goto(c, "failed")
  /\ UNCHANGED <<cloud, machine, consent, local, alone, held, past, starts, hands>>

-----------------------------------------------------------------------------

(* What people do beside omg. *)

ByHand ==
  /\ hands < MaxHands
  /\ hands' = hands + 1
  /\ alone' = [c \in Clients |-> FALSE]
  /\ UNCHANGED <<pc, local, faulted, starts, faults>>

HandBudget(id, b) ==
  /\ ByHand
  /\ Fresh(id)
  /\ budgets' = [budgets EXCEPT ![id] = b]
  /\ budgeted' = budgeted \cup {b.account}
  /\ opened' = opened \cup {b.account}
  /\ UNCHANGED <<project, billing, apis, bindings, machine, consent, held, made, raced,
                 removed>>

RemoveBudget(id) ==
  /\ ByHand
  /\ budgets[id] # NoBudget
  /\ budgets' = [budgets EXCEPT ![id] = NoBudget]
  /\ made' = made \ {id}
  /\ removed' = removed \cup {id}
  /\ UNCHANGED <<project, billing, apis, bindings, machine, consent, held, budgeted, opened, raced>>

HandLink(p, a) ==
  /\ ByHand
  /\ project[p] = "active"
  /\ billing[p] # a
  /\ billing' = [billing EXCEPT ![p] = a]
  /\ opened' = opened \cup {a}
  /\ UNCHANGED <<project, apis, bindings, budgets, machine, consent, held, budgeted, made,
                 raced, removed>>

\* A person carries out what budget notifications ensure --dry-run has shown.
HandRoute(id, topic) ==
  /\ ByHand
  /\ budgets[id] # NoBudget
  /\ budgets' = [budgets EXCEPT ![id] = Routed(budgets[id], topic)]
  /\ UNCHANGED <<project, billing, apis, bindings, machine, consent, held, past>>

SwitchUser(u) ==
  /\ ByHand
  /\ u # user
  /\ user' = u
  /\ UNCHANGED <<cloud, locked, activeProject, profile, config, consent, held, past>>

\* omg cost lock, omg cost unlock.  A lock holds for the commands that have yet
\* to look for it.
BeforeLock == {"list", "create", "activate", "status", "lock"}

LockProject(p) ==
  /\ ByHand
  /\ p \notin locked
  /\ locked' = locked \cup {p}
  /\ held' = [c \in Clients |-> held[c] \/ (pc[c] \in BeforeLock /\ req[c].project = p)]
  /\ UNCHANGED <<cloud, user, activeProject, profile, config, consent, past>>

UnlockProject(p) ==
  /\ ByHand
  /\ p \in locked
  /\ locked' = locked \ {p}
  /\ held' = [c \in Clients |-> held[c] /\ req[c].project # p]
  /\ UNCHANGED <<cloud, user, activeProject, profile, config, consent, past>>

\* omg approve; ApprovalQueue has its steps.
Grant(request) ==
  /\ request \in asked
  /\ asked' = asked \ {request}
  /\ grants' = grants + 1
  /\ granted' = granted \cup {[of |-> request, number |-> grants + 1]}
  /\ UNCHANGED <<cloud, machine, spent, shared, pc, local, fate, past, counts>>

People ==
  \/ \E id \in HandIds, b \in HandBudgets : HandBudget(id, b)
  \/ \E id \in BudgetIds : RemoveBudget(id)
  \/ \E p \in Projects, a \in BillingAccounts : HandLink(p, a)
  \/ \E id \in BudgetIds, t \in Topics : HandRoute(id, t)
  \/ \E u \in Users : SwitchUser(u)
  \/ \E p \in Projects : LockProject(p) \/ UnlockProject(p)
  \/ \E request \in asked : Grant(request)
=============================================================================
