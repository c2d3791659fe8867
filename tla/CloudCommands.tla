---------------------------- MODULE CloudCommands ----------------------------
(***************************************************************************)
(* What the secret, project, auth, setup and gateway commands share: the   *)
(* projects and secrets in Google Cloud, the configurations of gcloud, the *)
(* registered downstream MCP servers, the commands that run, and what      *)
(* people do beside them.  SecretCommands, ProjectCommands, AuthCommands   *)
(* and GatewayCommands hold the steps, CloudSession puts them together.    *)
(* The tools of the MCP server run the same commands.                      *)
(*                                                                         *)
(* The account that a gcloud call acts with, and the one that approvals    *)
(* are bound to, is the account of gcloud's active configuration.          *)
(***************************************************************************)
EXTENDS Naturals, FiniteSets

CONSTANTS Clients,            \* processes that run a command
          Users,              \* accounts gcloud may be logged in with
          Projects,
          ProtectedProjects,  \* the built-in ones and OMG_PROTECTED_PROJECTS
          Owned,              \* projects with an organization or a folder as parent
          Configurations,     \* names of gcloud configurations
          SecretNames,
          Servers,            \* downstream MCP servers
          Tools,              \* names of their tools
          MutationNames,      \* those that the pattern of changing names matches
          Requests,           \* commands with their arguments
          Beginnings,         \* what there may be at first, and the commands then run
          HandProjects,       \* projects that people change beside omg
          MaxAttempts,        \* how often execGcloud tries a call
          MaxStarts,          \* bound on the commands of a behaviour
          MaxFaults,          \* bound on failing calls and killed processes
          MaxHands,           \* bound on what people do beside omg
          None

SecretRequests ==
  [cmd : {"secret.set"}, name : SecretNames, source : {"inline", "file"},
   how : {"dry-run", "live"}]
    \cup [cmd : {"secret.delete"}, name : SecretNames, how : {"dry-run", "live", "unconfirmed"}]
    \cup [cmd : {"secret.list"}]

ProjectRequests ==
  [cmd : {"project.audit"}, project : Projects]
    \cup [cmd : {"project.cleanup"}, project : Projects, how : {"dry-run", "live"}]
    \cup [cmd : {"project.delete", "project.undelete"}, project : Projects,
          expect : Users \cup {None}]

AuthRequests ==
  [cmd : {"auth.context", "auth.list", "auth.refresh", "auth.logout"}]
    \cup [cmd : {"auth.switch"}, config : Configurations, align : BOOLEAN]
    \cup [cmd : {"auth.create"}, config : Configurations, account : Users \cup {None},
          project : Projects \cup {None}, login : BOOLEAN, align : BOOLEAN, asks : BOOLEAN]
    \cup [cmd : {"auth.project"}, project : Projects \cup {None}, asks : BOOLEAN]

\* yes, login, align: the options; asks: a person answers what they do not.
SetupRequests ==
  [cmd : {"setup"}, config : Configurations \cup {None}, project : Projects \cup {None},
   yes : BOOLEAN, login : BOOLEAN, align : BOOLEAN, asks : BOOLEAN]

GatewayRequests ==
  [cmd : {"gateway.call"}, server : Servers, tool : Tools, args : {"object", "malformed"}]
    \cup [cmd : {"gateway.audit"}, discover : BOOLEAN]

Configs == [account : Users \cup {None}, project : Projects \cup {None}]
NoConfig == [account |-> None]

\* "*" stands for an account that could not be read.
Accounts == Users \cup {"*"}

LifecycleStates == {"ACTIVE", "DELETE_REQUESTED"}

\* What is asked for: the arguments that are hashed, and the account; billed of an
\* undelete is FALSE.  An approval of it has a file of its own.
Asks ==
  [action : {"delete", "undelete"}, project : Projects, state : LifecycleStates,
   billed : BOOLEAN, account : Accounts]

Approvals == [of : Asks, number : Nat]

\* .omg/mcp.yaml; a file that is not there registers no server.
Downstream ==
  [valid : BOOLEAN, status : [Servers -> {"absent", "disabled", "enabled"}],
   mode : [Servers -> [Tools -> {"none", "read", "write"}]]]

\* What commands do, and the names of the configurations they change, are told apart.
Deeds == {"create", "add", "remove", "delete", "undelete", "call"}

ASSUME SessionAssumption ==
  /\ Requests \subseteq SecretRequests \cup ProjectRequests \cup AuthRequests
                        \cup SetupRequests \cup GatewayRequests
  /\ ProtectedProjects \subseteq Projects /\ Owned \subseteq Projects
  /\ HandProjects \subseteq Projects
  /\ MutationNames \subseteq Tools
  /\ Beginnings \subseteq
       [billed : SUBSET Projects, owners : SUBSET (Projects \X Users),
        configs : [Configurations -> Configs \cup {NoConfig}], active : Configurations,
        registry : Downstream, granted : SUBSET Approvals, menu : SUBSET Requests]
  /\ \A b \in Beginnings :
       /\ b.configs[b.active] # NoConfig
       /\ IsFiniteSet(b.granted) /\ \A a \in b.granted : a.number <= Cardinality(b.granted)
  /\ None \notin Users \cup Projects \cup Configurations \cup {"*"}
  /\ "*" \notin Users /\ Configurations \cap Deeds = {}
  /\ MaxAttempts \in Nat \ {0}
  /\ MaxStarts \in Nat /\ MaxFaults \in Nat /\ MaxHands \in Nat

VARIABLES
  lifecycle, billed, owners, versions,  \* Google Cloud
  configs, active, adc, config,         \* gcloud's configurations, ADC, ~/.omg/config.json
  registry, offered,                    \* .omg/mcp.yaml, and what the servers list
  files, stray,                         \* value files of running commands, and left behind
  open, task,                           \* MCP sessions, and where each of an audit stands
  asked, granted, grants,               \* approvals
  spent, shared,                        \* those used, and those loaded twice
  pc, req, saw, look, acct, ctx, pick, using,  \* the commands that run
  tries, did, logged,                   \* attempts, deeds and log entries of each
  faulted, alone,                       \* what befell each of them
  menu,                                 \* the commands of this behaviour
  starts, faults, hands                 \* counts for the bounds

cloud   == <<lifecycle, billed, owners, versions>>
machine == <<configs, active, adc, config>>
server  == <<registry, offered>>
sessions == <<open, task>>
opened  == <<files, stray, sessions>>
consent == <<asked, granted, grants, spent, shared>>
local   == <<req, saw, look, acct, ctx, pick, using>>
trace   == <<did, logged>>
fate    == <<faulted, alone>>
counts  == <<menu, starts, faults, hands>>
vars    == <<cloud, machine, server, opened, consent, pc, local, tries, trace, fate, counts>>

NoRequest == [cmd |-> "none"]
NoLook    == [state |-> None]
NoContext == [name |-> None, account |-> None, project |-> None, adc |-> None, next |-> "list"]
NoTasks   == [s \in Servers |-> "none"]

Ends == {"done", "blocked", "failed"}

Running(c) == pc[c] # "idle"

\* A new step begins with its first attempt.
Goto(c, step) ==
  /\ pc' = [pc EXCEPT ![c] = step]
  /\ tries' = [tries EXCEPT ![c] = 0]

\* gcloud's account, the one its calls act with; without it they fail.  A new
\* configuration has none.
User == configs[active].account

LoggedIn == User # None

-----------------------------------------------------------------------------

FirstStep(r) ==
  CASE r.cmd = "secret.list" -> "gate"
    [] r.cmd = "secret.set" -> IF r.how = "dry-run" THEN "done" ELSE "gate"
    [] r.cmd = "secret.delete" ->
         CASE r.how = "live" -> "remove" [] r.how = "dry-run" -> "done" [] OTHER -> "blocked"
    [] r.cmd = "project.cleanup" -> IF r.how = "dry-run" THEN "describe" ELSE "failed"
    [] r.cmd \in {"project.audit", "project.delete"} -> "describe"
    [] r.cmd = "project.undelete" -> "lifecycle"
    [] r.cmd \in {"auth.context", "auth.list"} -> "context"
    [] r.cmd = "auth.switch" -> "activate"
    [] r.cmd = "auth.create" -> "create"
    [] r.cmd = "auth.project" -> IF r.project = None THEN "projects" ELSE "set-project"
    [] r.cmd = "auth.refresh" -> "adc"
    [] r.cmd = "auth.logout" -> "logout"
    [] r.cmd = "setup" -> "check"
    [] r.cmd = "gateway.call" -> IF r.args = "malformed" THEN "failed" ELSE "profile"
    [] r.cmd = "gateway.audit" -> "registry"

Init ==
  /\ \E b \in Beginnings :
       /\ billed = b.billed /\ owners = b.owners
       /\ configs = b.configs /\ active = b.active
       /\ registry = b.registry /\ menu = b.menu
       /\ granted = b.granted /\ grants = Cardinality(b.granted)
  /\ lifecycle = [p \in Projects |-> "ACTIVE"]
  /\ versions = [n \in SecretNames |-> 0]
  /\ adc = None /\ config = NoConfig
  /\ offered = [s \in Servers |-> [t \in Tools |-> "safe"]]
  /\ files = {} /\ stray = {}
  /\ open = {} /\ task = [c \in Clients |-> NoTasks]
  /\ asked = {} /\ spent = {} /\ shared = {}
  /\ pc = [c \in Clients |-> "idle"]
  /\ req = [c \in Clients |-> NoRequest]
  /\ saw = [c \in Clients |-> FALSE]
  /\ look = [c \in Clients |-> NoLook]
  /\ acct = [c \in Clients |-> None]
  /\ ctx = [c \in Clients |-> NoContext]
  /\ pick = [c \in Clients |-> None]
  /\ using = [c \in Clients |-> None]
  /\ tries = [c \in Clients |-> 0]
  /\ did = [c \in Clients |-> {}]
  /\ logged = [c \in Clients |-> {}]
  /\ faulted = [c \in Clients |-> {}]
  /\ alone = [c \in Clients |-> FALSE]
  /\ starts = 0 /\ faults = 0 /\ hands = 0

Start(c, r) ==
  /\ pc[c] = "idle"
  /\ starts < MaxStarts /\ r \in menu
  /\ starts' = starts + 1
  /\ Goto(c, FirstStep(r))
  /\ req' = [req EXCEPT ![c] = r]
  /\ alone' = [d \in Clients |-> d = c /\ \A e \in Clients \ {c} : pc[e] = "idle"]
  /\ UNCHANGED <<cloud, machine, server, opened, consent, saw, look, acct, ctx, pick, using,
                 trace, faulted, menu, faults, hands>>

\* The command is over, or its process is killed, and its MCP sessions with it.  A value
\* file that is still there stays, with nobody left to remove it.
Leave(c) ==
  /\ Goto(c, "idle")
  /\ req' = [req EXCEPT ![c] = NoRequest]
  /\ saw' = [saw EXCEPT ![c] = FALSE]
  /\ look' = [look EXCEPT ![c] = NoLook]
  /\ acct' = [acct EXCEPT ![c] = None]
  /\ ctx' = [ctx EXCEPT ![c] = NoContext]
  /\ pick' = [pick EXCEPT ![c] = None]
  /\ using' = [using EXCEPT ![c] = None]
  /\ did' = [did EXCEPT ![c] = {}]
  /\ logged' = [logged EXCEPT ![c] = {}]
  /\ faulted' = [faulted EXCEPT ![c] = {}]
  /\ alone' = [alone EXCEPT ![c] = FALSE]
  /\ files' = files \ {c}
  /\ stray' = stray \cup (files \cap {c})
  /\ open' = open \ ({c} \X Servers)
  /\ task' = [task EXCEPT ![c] = NoTasks]
  /\ UNCHANGED <<cloud, machine, server, consent>>

Finish(c) ==
  /\ pc[c] \in Ends
  /\ Leave(c)
  /\ UNCHANGED counts

Kill(c) ==
  /\ pc[c] \notin {"idle"} \cup Ends
  /\ faults < MaxFaults
  /\ faults' = faults + 1
  /\ Leave(c)
  /\ UNCHANGED <<menu, starts, hands>>

\* A call of the command fails.
FaultAt(c, step) ==
  /\ faults < MaxFaults
  /\ faults' = faults + 1
  /\ faulted' = [faulted EXCEPT ![c] = @ \cup {step}]
  /\ UNCHANGED <<alone, menu, starts, hands>>

Fault(c) == FaultAt(c, pc[c])

Calm == UNCHANGED <<fate, counts>>

-----------------------------------------------------------------------------

(* What people do beside omg. *)

ByHand ==
  /\ hands < MaxHands
  /\ hands' = hands + 1
  /\ alone' = [c \in Clients |-> FALSE]
  /\ UNCHANGED <<opened, consent, pc, local, tries, trace, faulted, menu, starts, faults>>

HandLifecycle(p) ==
  /\ ByHand
  /\ lifecycle' = [lifecycle EXCEPT ![p] =
                     IF lifecycle[p] = "ACTIVE" THEN "DELETE_REQUESTED" ELSE "ACTIVE"]
  /\ UNCHANGED <<billed, owners, versions, machine, server>>

HandBilling(p) ==
  /\ ByHand
  /\ billed' = (billed \ {p}) \cup ({p} \ billed)
  /\ UNCHANGED <<lifecycle, owners, versions, machine, server>>

HandOwner(p, u) ==
  /\ ByHand
  /\ owners' = (owners \ {<<p, u>>}) \cup ({<<p, u>>} \ owners)
  /\ UNCHANGED <<lifecycle, billed, versions, machine, server>>

HandSecret(n) ==
  /\ ByHand
  /\ versions' = [versions EXCEPT ![n] = IF versions[n] = 0 THEN 2 ELSE 0]
  /\ UNCHANGED <<lifecycle, billed, owners, machine, server>>

\* gcloud config set account, in another window.
HandAccount(u) ==
  /\ ByHand
  /\ configs' = [configs EXCEPT ![active].account = u]
  /\ UNCHANGED <<cloud, active, adc, config, server>>

\* A downstream server is updated, its registration edited, or the registry spoiled.
HandTool(s, t, what) ==
  /\ ByHand
  /\ offered' = [offered EXCEPT ![s][t] = what]
  /\ UNCHANGED <<cloud, machine, registry>>

HandRegistry(s, status) ==
  /\ ByHand
  /\ registry' = [registry EXCEPT !.status[s] = status]
  /\ UNCHANGED <<cloud, machine, offered>>

HandSpoil ==
  /\ ByHand
  /\ registry' = [registry EXCEPT !.valid = FALSE]
  /\ UNCHANGED <<cloud, machine, offered>>

\* omg approve; ApprovalQueue has its steps.
Grant(request) ==
  /\ request \in asked
  /\ asked' = asked \ {request}
  /\ grants' = grants + 1
  /\ granted' = granted \cup {[of |-> request, number |-> grants + 1]}
  /\ UNCHANGED <<cloud, machine, server, opened, spent, shared, pc, local, tries, trace, fate,
                 counts>>

Reads(requests) == menu \cap requests # {}

\* People change only what some command of the behaviour looks at.
People ==
  \/ \E p \in HandProjects :
       \/ Reads(ProjectRequests) /\ (HandLifecycle(p) \/ HandBilling(p))
       \/ \E u \in Users : Reads(ProjectRequests \cup AuthRequests) /\ HandOwner(p, u)
  \/ \E n \in SecretNames : Reads(SecretRequests) /\ HandSecret(n)
  \/ \E u \in Users : ~Reads(GatewayRequests) /\ HandAccount(u)
  \/ \E s \in Servers, t \in Tools, what \in {"none", "safe", "destructive"} :
       Reads(GatewayRequests) /\ HandTool(s, t, what)
  \/ \E s \in Servers, status \in {"absent", "disabled", "enabled"} :
       Reads(GatewayRequests) /\ HandRegistry(s, status)
  \/ Reads(GatewayRequests) /\ HandSpoil
  \/ \E request \in asked : Grant(request)
=============================================================================
