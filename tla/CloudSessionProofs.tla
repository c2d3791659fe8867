------------------------- MODULE CloudSessionProofs -------------------------
(***************************************************************************)
(* Proofs about CloudSession, for any number of clients, projects,         *)
(* configurations and tools: types, that protected projects are kept, that *)
(* no value file and no session is left behind, what a downstream tool and *)
(* a project deletion have been checked for, that commands report what     *)
(* they did, and that auth commands leave what they were asked for.        *)
(***************************************************************************)
EXTENDS CloudSession, FiniteSetTheorems, TLAPS

AllSteps == SecretSteps \cup ProjectSteps \cup AuthSteps \cup GatewaySteps \cup Ends \cup {"idle"}

AfterDescribe == {"billing", "account", "roles", "account-again", "approve", "consume", "delete",
                  "undelete"}

InSession == {"tools", "call", "close", "refuse", "abandon"}

\* The commands that get to a step.
FitsRequest(step, r) ==
  /\ step = "idle" => r = NoRequest
  /\ step # "idle" => r \in Requests
  /\ step \in SecretSteps => r \in SecretRequests
  /\ step \in ProjectSteps => r \in ProjectRequests
  /\ step \in AuthSteps => r \in AuthRequests \cup SetupRequests
  /\ step \in GatewaySteps => r \in GatewayRequests
  /\ step = "gate" => r.cmd \in {"secret.set", "secret.list"}
  /\ step \in {"exists", "prepare", "write", "clean", "unwind"} => r.cmd = "secret.set"
  /\ step = "remove" => r.cmd = "secret.delete"
  /\ step \in {"account-again", "approve", "consume"} =>
       r.cmd \in {"project.delete", "project.undelete"}
  /\ step = "delete" => r.cmd = "project.delete"
  /\ step \in {"lifecycle", "undelete"} => r.cmd = "project.undelete"
  /\ step \in {"detect", "detect-adc", "login"} => r.cmd \in {"auth.create", "setup"}
  /\ step \in {"create", "set-account"} => r.cmd = "auth.create"
  /\ step \in {"relogged", "relogged-adc", "realigned", "realigned-adc", "check", "save"} =>
       r.cmd = "setup"
  /\ step \in {"projects", "set-project"} => r.cmd \in {"auth.create", "auth.project"}
  /\ step = "activate" => r.cmd \in {"auth.switch", "setup"} /\ r.config \in Configurations
  /\ step \in {"profile", "read-gate", "connect", "tools", "call", "close", "refuse", "abandon",
              "fail"} => r.cmd = "gateway.call"
  /\ step = "sessions" => r.cmd = "gateway.audit"

\* The calls of execGcloud.
RetriedAt(step, r) ==
  \/ step \in ContextSteps \cup {"projects", "activate", "create", "set-account", "set-project"}
  \/ step = "login" /\ r.cmd = "auth.create"
  \/ step = "adc" /\ r.cmd \notin {"auth.refresh", "setup"}

\* What a client at a step remembers.
FitsMemory(step, r, l, a, x, chosen, u, n) ==
  /\ step \in AfterDescribe => l # NoLook
  /\ step \in {"roles", "approve", "consume", "delete", "undelete"} => a # None
  /\ step \in {"consume", "delete", "undelete"} => u \in Approvals
  /\ step = "set-project" => r.project # None \/ chosen # None \/ x.project # None
  /\ n < MaxAttempts
  /\ n > 0 => RetriedAt(step, r)

Fits(c) ==
  /\ FitsRequest(pc[c], req[c])
  /\ FitsMemory(pc[c], req[c], look[c], acct[c], ctx[c], pick[c], using[c], tries[c])

\* The session a call is at, and those of an audit, are open.
SessionsOpen(c) ==
  /\ pc[c] \in InSession => <<c, Server(c)>> \in open
  /\ \A s \in Servers :
       task[c][s] # "none" =>
         /\ pc[c] \in {"sessions", "failed"} /\ req[c].cmd = "gateway.audit"
         /\ task[c][s] # "connect" => <<c, s>> \in open

ClientTypeOK ==
  /\ pc \in [Clients -> AllSteps] /\ req \in [Clients -> Requests \cup {NoRequest}]
  /\ saw \in [Clients -> BOOLEAN] /\ look \in [Clients -> Looks]
  /\ acct \in [Clients -> Accounts \cup {None}] /\ ctx \in [Clients -> Contexts]
  /\ pick \in [Clients -> Projects \cup {None}] /\ tries \in [Clients -> Nat]
  /\ using \in [Clients -> Approvals \cup {None}]

TypeInv == SharedTypeOK /\ ClientTypeOK /\ \A c \in Clients : Fits(c) /\ SessionsOpen(c)

-----------------------------------------------------------------------------

(* Requests and steps. *)

LEMMA AdcStepNames ==
  /\ AdcSteps = {"detect-adc", "relogged-adc", "realigned-adc", "context-adc"}
  /\ \A step \in ContextSteps : AdcStep(step) \in AdcSteps
  /\ AdcStep("detect") = "detect-adc" /\ AdcStep("relogged") = "relogged-adc"
  /\ AdcStep("realigned") = "realigned-adc" /\ AdcStep("context") = "context-adc"
<1>1. /\ AdcStep("detect") = "detect-adc" /\ AdcStep("relogged") = "relogged-adc"
      /\ AdcStep("realigned") = "realigned-adc" /\ AdcStep("context") = "context-adc"
  BY DEF AdcStep
<1>2. QED
  BY <1>1 DEF AdcSteps, ContextSteps

SecretCmds == {"secret.set", "secret.delete", "secret.list"}
ProjectCmds == {"project.audit", "project.cleanup", "project.delete", "project.undelete"}
AuthCmds ==
  {"auth.context", "auth.list", "auth.refresh", "auth.logout", "auth.switch", "auth.create",
   "auth.project"}
GatewayCmds == {"gateway.call", "gateway.audit"}

LEMMA CmdKinds ==
  ASSUME NEW r
  PROVE  /\ r \in SecretRequests => r.cmd \in SecretCmds
         /\ r \in ProjectRequests => r.cmd \in ProjectCmds /\ r.project \in Projects
         /\ r \in AuthRequests => r.cmd \in AuthCmds
         /\ r \in SetupRequests => r.cmd = "setup"
         /\ r \in GatewayRequests => r.cmd \in GatewayCmds
         /\ r \in Requests => r \in SecretRequests \cup ProjectRequests \cup AuthRequests
                                      \cup SetupRequests \cup GatewayRequests
         /\ r \in Requests => r # NoRequest
<1>1. r \in SecretRequests => r.cmd \in SecretCmds
  BY DEF SecretRequests, SecretCmds
<1>2. r \in ProjectRequests => r.cmd \in ProjectCmds /\ r.project \in Projects
  BY DEF ProjectRequests, ProjectCmds
<1>3. r \in AuthRequests => r.cmd \in AuthCmds
  BY DEF AuthRequests, AuthCmds
<1>4. r \in SetupRequests => r.cmd = "setup"
  BY DEF SetupRequests
<1>5. r \in GatewayRequests => r.cmd \in GatewayCmds
  BY DEF GatewayRequests, GatewayCmds
<1>6. r \in Requests => r \in SecretRequests \cup ProjectRequests \cup AuthRequests
                              \cup SetupRequests \cup GatewayRequests
  BY SessionAssumption DEF SessionAssumption
<1>7. r \in Requests => r # NoRequest
  BY <1>1, <1>2, <1>3, <1>4, <1>5, <1>6
     DEF NoRequest, SecretCmds, ProjectCmds, AuthCmds, GatewayCmds
<1>8. QED
  BY <1>1, <1>2, <1>3, <1>4, <1>5, <1>6, <1>7

LEMMA RequestFields ==
  ASSUME NEW r
  PROVE  /\ r \in SecretRequests /\ r.cmd \in {"secret.set", "secret.delete"} => r.name \in SecretNames
         /\ r \in AuthRequests \cup SetupRequests /\ r.cmd = "auth.create" =>
              /\ r.config \in Configurations /\ r.account \in Users \cup {None}
              /\ r.project \in Projects \cup {None}
         /\ r \in AuthRequests \cup SetupRequests /\ r.cmd = "auth.switch" => r.config \in Configurations
         /\ r \in AuthRequests \cup SetupRequests /\ r.cmd = "auth.project" =>
              r.project \in Projects \cup {None}
         /\ r \in AuthRequests \cup SetupRequests /\ r.cmd = "setup" =>
              r.config \in Configurations \cup {None} /\ r.project \in Projects \cup {None}
         /\ r \in GatewayRequests /\ r.cmd = "gateway.call" => r.server \in Servers /\ r.tool \in Tools
<1>1. r \in SecretRequests /\ r.cmd \in {"secret.set", "secret.delete"} => r.name \in SecretNames
  BY DEF SecretRequests
<1>2. r \in AuthRequests /\ r.cmd = "auth.create" =>
        /\ r.config \in Configurations /\ r.account \in Users \cup {None}
        /\ r.project \in Projects \cup {None}
  BY DEF AuthRequests
<1>3. r \in AuthRequests /\ r.cmd = "auth.switch" => r.config \in Configurations
  BY DEF AuthRequests
<1>4. r \in AuthRequests /\ r.cmd = "auth.project" => r.project \in Projects \cup {None}
  BY DEF AuthRequests
<1>5. r \in SetupRequests => r.config \in Configurations \cup {None} /\ r.project \in Projects \cup {None}
  BY DEF SetupRequests
<1>6. r \in GatewayRequests /\ r.cmd = "gateway.call" => r.server \in Servers /\ r.tool \in Tools
  BY DEF GatewayRequests
<1>7. r \in AuthRequests => r.cmd # "setup"
  BY CmdKinds DEF AuthCmds
<1>8. r \in SetupRequests => r.cmd = "setup"
  BY CmdKinds
<1>9. QED
  BY <1>1, <1>2, <1>3, <1>4, <1>5, <1>6, <1>7, <1>8

-----------------------------------------------------------------------------

(* What the clients remember. *)

\* Client c moves, the others stay where they are.
Moved(c) ==
  /\ pc' = [pc EXCEPT ![c] = pc'[c]] /\ req' = [req EXCEPT ![c] = req'[c]]
  /\ saw' = [saw EXCEPT ![c] = saw'[c]] /\ look' = [look EXCEPT ![c] = look'[c]]
  /\ acct' = [acct EXCEPT ![c] = acct'[c]] /\ ctx' = [ctx EXCEPT ![c] = ctx'[c]]
  /\ pick' = [pick EXCEPT ![c] = pick'[c]] /\ tries' = [tries EXCEPT ![c] = tries'[c]]
  /\ using' = [using EXCEPT ![c] = using'[c]]
  /\ pc'[c] \in AllSteps /\ req'[c] \in Requests \cup {NoRequest}
  /\ saw'[c] \in BOOLEAN /\ look'[c] \in Looks /\ acct'[c] \in Accounts \cup {None}
  /\ ctx'[c] \in Contexts /\ pick'[c] \in Projects \cup {None} /\ tries'[c] \in Nat
  /\ using'[c] \in Approvals \cup {None}
  /\ FitsRequest(pc'[c], req'[c])
  /\ FitsMemory(pc'[c], req'[c], look'[c], acct'[c], ctx'[c], pick'[c], using'[c], tries'[c])

LEMMA MovedFits ==
  ASSUME TypeInv, NEW c \in Clients, Moved(c)
  PROVE  ClientTypeOK' /\ \A d \in Clients : Fits(d)'
<1>1. ClientTypeOK'
  BY DEF TypeInv, ClientTypeOK, Moved
<1>2. ASSUME NEW d \in Clients PROVE Fits(d)'
  <2>1. CASE d = c
    BY <2>1 DEF Moved, Fits
  <2>2. CASE d # c
    <3>1. /\ pc'[d] = pc[d] /\ req'[d] = req[d] /\ look'[d] = look[d] /\ acct'[d] = acct[d]
          /\ ctx'[d] = ctx[d] /\ pick'[d] = pick[d] /\ tries'[d] = tries[d]
          /\ using'[d] = using[d]
      BY <2>2 DEF TypeInv, ClientTypeOK, Moved
    <3>2. Fits(d)
      BY DEF TypeInv
    <3>3. QED
      BY <3>1, <3>2 DEF Fits
  <2>3. QED
    BY <2>1, <2>2
<1>3. QED
  BY <1>1, <1>2

\* What a client remembers is of its type.
Kept(c) ==
  /\ pc = [d \in Clients |-> pc[d]] /\ req = [d \in Clients |-> req[d]]
  /\ saw = [d \in Clients |-> saw[d]] /\ look = [d \in Clients |-> look[d]]
  /\ acct = [d \in Clients |-> acct[d]] /\ ctx = [d \in Clients |-> ctx[d]]
  /\ pick = [d \in Clients |-> pick[d]] /\ tries = [d \in Clients |-> tries[d]]
  /\ using = [d \in Clients |-> using[d]]
  /\ pc[c] \in AllSteps /\ req[c] \in Requests \cup {NoRequest}
  /\ saw[c] \in BOOLEAN /\ look[c] \in Looks /\ acct[c] \in Accounts \cup {None}
  /\ ctx[c] \in Contexts /\ pick[c] \in Projects \cup {None} /\ tries[c] \in Nat
  /\ using[c] \in Approvals \cup {None}

LEMMA KeptTyped ==
  ASSUME TypeInv, NEW c \in Clients
  PROVE  Kept(c)
  BY DEF TypeInv, ClientTypeOK, Kept

\* Most steps change nothing but the step.
LEMMA StepMoves ==
  ASSUME TypeInv, NEW c \in Clients, NEW step \in AllSteps, Goto(c, step), UNCHANGED local,
         FitsRequest(step, req[c]),
         FitsMemory(step, req[c], look[c], acct[c], ctx[c], pick[c], using[c], 0)
  PROVE  Moved(c)
<1>1. Kept(c)
  BY KeptTyped
<1>2. /\ pc'[c] = step /\ pc' = [pc EXCEPT ![c] = pc'[c]]
      /\ tries'[c] = 0 /\ tries' = [tries EXCEPT ![c] = tries'[c]]
  BY <1>1 DEF Goto, Kept
<1>3. /\ req' = [req EXCEPT ![c] = req'[c]] /\ saw' = [saw EXCEPT ![c] = saw'[c]]
      /\ look' = [look EXCEPT ![c] = look'[c]] /\ acct' = [acct EXCEPT ![c] = acct'[c]]
      /\ ctx' = [ctx EXCEPT ![c] = ctx'[c]] /\ pick' = [pick EXCEPT ![c] = pick'[c]]
      /\ using' = [using EXCEPT ![c] = using'[c]]
  BY <1>1 DEF Kept, local
<1>4. /\ req'[c] = req[c] /\ saw'[c] = saw[c] /\ look'[c] = look[c] /\ acct'[c] = acct[c]
      /\ ctx'[c] = ctx[c] /\ pick'[c] = pick[c] /\ using'[c] = using[c]
  BY DEF local
<1>5. /\ FitsRequest(pc'[c], req'[c])
      /\ FitsMemory(pc'[c], req'[c], look'[c], acct'[c], ctx'[c], pick'[c], using'[c], tries'[c])
  BY <1>2, <1>4
<1>6. /\ pc'[c] \in AllSteps /\ req'[c] \in Requests \cup {NoRequest}
      /\ saw'[c] \in BOOLEAN /\ look'[c] \in Looks /\ acct'[c] \in Accounts \cup {None}
      /\ ctx'[c] \in Contexts /\ pick'[c] \in Projects \cup {None} /\ tries'[c] \in Nat
      /\ using'[c] \in Approvals \cup {None}
  BY <1>1, <1>2, <1>4 DEF Kept
<1>7. QED
  BY <1>2, <1>3, <1>5, <1>6 DEF Moved

\* A step of its own, and no second attempt.
LEMMA PlainMemory ==
  ASSUME NEW step, NEW r, NEW l, NEW a, NEW x, NEW chosen, NEW u,
         step \notin AfterDescribe \cup {"roles", "set-project"}
  PROVE  FitsMemory(step, r, l, a, x, chosen, u, 0)
  BY SessionAssumption DEF FitsMemory, AfterDescribe, SessionAssumption

-----------------------------------------------------------------------------

(* The steps of a secret command. *)

LEMMA SecretMoves ==
  ASSUME TypeInv, NEW c \in Clients, SecretStep(c) \/ SecretFault(c)
  PROVE  Moved(c)
<1>1. Kept(c) /\ FitsRequest(pc[c], req[c])
  BY KeptTyped DEF TypeInv, Fits
<1>2. pc[c] \in SecretSteps => req[c] \in SecretRequests /\ req[c] \in Requests
  BY <1>1, SessionAssumption DEF FitsRequest, SessionAssumption, Kept, SecretSteps
<1>3. ASSUME pc[c] \in SecretSteps, NEW step \in SecretSteps \cup Ends,
             Goto(c, step), UNCHANGED local,
             step \in {"exists", "prepare", "write", "clean", "unwind"} => req[c].cmd = "secret.set",
             step = "remove" => req[c].cmd = "secret.delete",
             step # "gate"
      PROVE  Moved(c)
  <2>1. req[c] \in SecretRequests /\ req[c] \in Requests
    BY <1>2, <1>3
  <2>2. FitsRequest(step, req[c])
    BY <1>3, <2>1, CmdKinds, AdcStepNames
       DEF FitsRequest, SecretSteps, ProjectSteps, AuthSteps, GatewaySteps, Ends, ContextSteps
  <2>3. QED
    <3>1. FitsMemory(step, req[c], look[c], acct[c], ctx[c], pick[c], using[c], 0)
      BY <1>3, PlainMemory DEF AfterDescribe, SecretSteps, Ends
    <3>2. step \in AllSteps
      BY <1>3 DEF AllSteps, SecretSteps, Ends
    <3>3. QED
      BY <1>3, <2>2, <3>1, <3>2, StepMoves
<1>4. /\ pc[c] = "gate" => req[c].cmd \in {"secret.set", "secret.list"}
      /\ pc[c] \in {"exists", "prepare", "write", "clean", "unwind"} => req[c].cmd = "secret.set"
  BY <1>1 DEF FitsRequest
<1>5. CASE SecretGate(c)
  BY <1>3, <1>4, <1>5 DEF SecretGate, SecretSteps, Ends
<1>6. CASE SecretExists(c)
  <2>1. /\ pc[c] = "exists" /\ pc' = [pc EXCEPT ![c] = IF req[c].source = "inline" THEN "prepare" ELSE "write"]
        /\ tries' = [tries EXCEPT ![c] = 0]
        /\ saw' = [saw EXCEPT ![c] = versions[req[c].name] > 0]
        /\ UNCHANGED <<req, look, acct, ctx, pick, using>>
    BY <1>6 DEF SecretExists, Goto
  <2>2. PICK step \in {"prepare", "write"} : pc' = [pc EXCEPT ![c] = step]
    BY <2>1
  <2>3. FitsRequest(step, req[c])
    BY <1>2, <1>4, <2>1, CmdKinds, AdcStepNames
       DEF FitsRequest, SecretSteps, ProjectSteps, AuthSteps, GatewaySteps, Ends, ContextSteps
  <2>4. FitsMemory(step, req[c], look[c], acct[c], ctx[c], pick[c], using[c], 0)
    BY PlainMemory DEF AfterDescribe
  <2>5. step \in AllSteps
    BY DEF AllSteps, SecretSteps
  <2>6. /\ pc'[c] = step /\ tries'[c] = 0 /\ saw'[c] \in BOOLEAN
        /\ UNCHANGED <<req, look, acct, ctx, pick, using>>
    BY <1>1, <2>1, <2>2 DEF Kept
  <2>7. /\ pc' = [pc EXCEPT ![c] = pc'[c]] /\ req' = [req EXCEPT ![c] = req'[c]]
        /\ saw' = [saw EXCEPT ![c] = saw'[c]] /\ look' = [look EXCEPT ![c] = look'[c]]
        /\ acct' = [acct EXCEPT ![c] = acct'[c]] /\ ctx' = [ctx EXCEPT ![c] = ctx'[c]]
        /\ pick' = [pick EXCEPT ![c] = pick'[c]] /\ tries' = [tries EXCEPT ![c] = tries'[c]]
        /\ using' = [using EXCEPT ![c] = using'[c]]
    BY <1>1, <2>1, <2>2, <2>6, ZenonT(40) DEF Kept
  <2>8. /\ FitsRequest(pc'[c], req'[c])
        /\ FitsMemory(pc'[c], req'[c], look'[c], acct'[c], ctx'[c], pick'[c], using'[c], tries'[c])
    BY <2>3, <2>4, <2>6
  <2>9. /\ pc'[c] \in AllSteps /\ req'[c] \in Requests \cup {NoRequest}
        /\ saw'[c] \in BOOLEAN /\ look'[c] \in Looks /\ acct'[c] \in Accounts \cup {None}
        /\ ctx'[c] \in Contexts /\ pick'[c] \in Projects \cup {None} /\ tries'[c] \in Nat
        /\ using'[c] \in Approvals \cup {None}
    BY <1>1, <2>5, <2>6 DEF Kept
  <2>10. QED
    BY <2>7, <2>8, <2>9 DEF Moved
<1>7. CASE ListSecrets(c) \/ PrepareDataFile(c) \/ WriteSecret(c) \/ WriteRefused(c) \/ CleanUp(c)
           \/ RemoveSecret(c) \/ RemoveRefused(c) \/ SecretNoLogin(c)
  BY <1>3, <1>4, <1>7
     DEF ListSecrets, PrepareDataFile, WriteSecret, WriteRefused, CleanUp, RemoveSecret,
         RemoveRefused, SecretNoLogin, SecretSteps, Ends, AfterWriteError
<1>8. CASE SecretFault(c)
  BY <1>3, <1>4, <1>8
     DEF SecretFault, PrepareFails, WriteFails, HalfCreated, CleanUpFails, SecretCallFails,
         SecretSteps, Ends, AfterWriteError
<1>9. QED
  BY <1>5, <1>6, <1>7, <1>8 DEF SecretStep

-----------------------------------------------------------------------------

(* The steps of a project command. *)

\* Where a project command may go.
FitsProject(step, r) ==
  /\ step \in ProjectSteps \cup Ends
  /\ step \in {"account-again", "approve", "consume"} =>
       r.cmd \in {"project.delete", "project.undelete"}
  /\ step = "delete" => r.cmd = "project.delete"
  /\ step \in {"lifecycle", "undelete"} => r.cmd = "project.undelete"

LEMMA ProjectFits ==
  ASSUME NEW r \in Requests, r \in ProjectRequests, NEW step, FitsProject(step, r)
  PROVE  FitsRequest(step, r) /\ step \in AllSteps
<1>1. FitsRequest(step, r)
  BY CmdKinds, AdcStepNames
     DEF FitsProject, FitsRequest, SecretSteps, ProjectSteps, AuthSteps, GatewaySteps, Ends,
         ContextSteps
<1>2. QED
  BY <1>1 DEF FitsProject, AllSteps, ProjectSteps, Ends

\* gcloud's account is one of the users.
LEMMA UserTyped ==
  ASSUME SharedTypeOK
  PROVE  configs[active] \in Configs /\ User \in Users \cup {None}
<1>1. configs[active] \in Configs
  BY DEF SharedTypeOK
<1>2. QED
  BY <1>1 DEF User, Configs

LookRecords == [state : LifecycleStates, billed : BOOLEAN, owner : BOOLEAN, visible : BOOLEAN]

LEMMA RealLooks ==
  ASSUME NEW l
  PROVE  l \in LookRecords <=> l \in Looks /\ l # NoLook
<1>1. ASSUME l \in LookRecords PROVE l # NoLook
  <2>1. DOMAIN l = {"state", "billed", "owner", "visible"} /\ DOMAIN NoLook = {"state"}
    BY <1>1 DEF NoLook, LookRecords
  <2>2. QED
    BY <2>1
<1>2. QED
  BY <1>1 DEF Looks, LookRecords

LEMMA OwnerFoundOrNot ==
  ASSUME NEW p, NEW account
  PROVE  OwnerFound(p, account) \in BOOLEAN
<1>1. OwnerFound(p, account) = TRUE \/ OwnerFound(p, account) = FALSE
  BY SMT DEF OwnerFound
<1>2. QED
  BY <1>1

LEMMA ProjectMoves ==
  ASSUME TypeInv, NEW c \in Clients, ProjectStep(c) \/ ProjectFault(c)
  PROVE  Moved(c)
<1>1. Kept(c) /\ FitsRequest(pc[c], req[c])
      /\ FitsMemory(pc[c], req[c], look[c], acct[c], ctx[c], pick[c], using[c], tries[c])
  BY KeptTyped DEF TypeInv, Fits
<1>2. pc[c] \in ProjectSteps => req[c] \in ProjectRequests /\ req[c] \in Requests
  BY <1>1, SessionAssumption DEF FitsRequest, SessionAssumption, Kept, ProjectSteps
<1>3. /\ pc[c] \in {"account-again", "approve", "consume"} =>
           req[c].cmd \in {"project.delete", "project.undelete"}
      /\ pc[c] = "delete" => req[c].cmd = "project.delete"
      /\ pc[c] \in {"lifecycle", "undelete"} => req[c].cmd = "project.undelete"
      /\ pc[c] \in AfterDescribe => look[c] # NoLook
      /\ pc[c] \in {"roles", "approve", "consume", "delete", "undelete"} => acct[c] # None
  BY <1>1 DEF FitsRequest, FitsMemory
<1>4. ASSUME pc[c] \in ProjectSteps, NEW step, FitsProject(step, req[c]), Goto(c, step),
             look' = [look EXCEPT ![c] = look'[c]], look'[c] \in Looks,
             acct' = [acct EXCEPT ![c] = acct'[c]], acct'[c] \in Accounts \cup {None},
             using' = [using EXCEPT ![c] = using'[c]], using'[c] \in Approvals \cup {None},
             UNCHANGED <<req, saw, ctx, pick>>,
             step \in AfterDescribe => look'[c] # NoLook,
             step \in {"roles", "approve", "consume", "delete", "undelete"} => acct'[c] # None,
             step \in {"consume", "delete", "undelete"} => using'[c] \in Approvals
      PROVE  Moved(c)
  <2>1. FitsRequest(step, req[c]) /\ step \in AllSteps
    BY <1>2, <1>4, ProjectFits
  <2>2. FitsMemory(step, req[c], look'[c], acct'[c], ctx[c], pick[c], using'[c], 0)
    BY <1>4, SessionAssumption
       DEF FitsMemory, AfterDescribe, FitsProject, ProjectSteps, Ends, SessionAssumption
  <2>3. /\ pc' = [pc EXCEPT ![c] = step] /\ pc'[c] = step
        /\ tries' = [tries EXCEPT ![c] = 0] /\ tries'[c] = 0
    BY <1>1, <1>4 DEF Goto, Kept
  <2>4. QED
    BY <1>1, <1>4, <2>1, <2>2, <2>3 DEF Moved, Kept
<1>5. ASSUME pc[c] \in ProjectSteps, NEW step, FitsProject(step, req[c]), Goto(c, step),
             look' = [look EXCEPT ![c] = look'[c]], look'[c] \in Looks,
             acct' = [acct EXCEPT ![c] = acct'[c]], acct'[c] \in Accounts \cup {None},
             UNCHANGED <<req, saw, ctx, pick, using>>,
             step \in AfterDescribe => look'[c] # NoLook,
             step \in {"roles", "approve"} => acct'[c] # None,
             step \notin {"consume", "delete", "undelete"}
      PROVE  Moved(c)
  <2>1. using' = [using EXCEPT ![c] = using'[c]] /\ using'[c] \in Approvals \cup {None}
    BY <1>1, <1>5 DEF Kept
  <2>2. QED
    BY <1>4, <1>5, <2>1
<1>6. ASSUME pc[c] \in ProjectSteps, NEW step, FitsProject(step, req[c]), Goto(c, step),
             UNCHANGED local,
             step \in AfterDescribe => look[c] # NoLook,
             step \in {"roles", "approve", "consume", "delete", "undelete"} => acct[c] # None,
             step \in {"consume", "delete", "undelete"} => using[c] \in Approvals
      PROVE  Moved(c)
  <2>1. /\ look' = [look EXCEPT ![c] = look'[c]] /\ acct' = [acct EXCEPT ![c] = acct'[c]]
        /\ look'[c] = look[c] /\ acct'[c] = acct[c]
        /\ look[c] \in Looks /\ acct[c] \in Accounts \cup {None}
        /\ using' = [using EXCEPT ![c] = using'[c]] /\ using'[c] = using[c]
        /\ using[c] \in Approvals \cup {None}
    BY <1>1, <1>6 DEF Kept, local
  <2>2. QED
    BY <1>4, <1>6, <2>1 DEF local
<1> USE DEF FitsProject, ProjectSteps, Ends, AfterDescribe
<1>7. pc[c] \in ProjectSteps => lifecycle[Target(c)] \in LifecycleStates
  BY <1>2, CmdKinds DEF Target, TypeInv, SharedTypeOK
<1>8. CASE Describe(c) \/ ReadLifecycle(c)
  <2>1. /\ pc[c] \in {"describe", "lifecycle"}
        /\ look' = [look EXCEPT ![c] =
                      [state |-> lifecycle[Target(c)], billed |-> FALSE, owner |-> FALSE,
                       visible |-> FALSE]]
        /\ UNCHANGED <<req, saw, acct, ctx, pick, using>>
        /\ \/ pc[c] = "describe" /\ Goto(c, "billing")
           \/ pc[c] = "lifecycle" /\ (Goto(c, "account-again") \/ Goto(c, "failed"))
    BY <1>8 DEF Describe, ReadLifecycle
  <2>2. /\ look' = [look EXCEPT ![c] = look'[c]] /\ look'[c] \in Looks /\ look'[c] # NoLook
        /\ acct' = [acct EXCEPT ![c] = acct'[c]] /\ acct'[c] \in Accounts \cup {None}
    BY <1>1, <1>7, <2>1 DEF Looks, NoLook, Kept
  <2>3. PICK step : /\ Goto(c, step) /\ FitsProject(step, req[c])
                    /\ step \notin {"roles", "approve", "consume", "delete", "undelete"}
    BY <1>3, <2>1
  <2>4. QED
    BY <1>5, <2>1, <2>2, <2>3
<1>9. CASE ReadProjectBilling(c)
  <2> DEFINE on == Target(c) \in billed
  <2>0. on \in BOOLEAN
    OBVIOUS
  <2>1. /\ pc[c] = "billing" /\ UNCHANGED <<req, saw, acct, ctx, pick, using>> /\ Goto(c, "account")
        /\ look' = [look EXCEPT ![c] = [look[c] EXCEPT !.billed = on]]
    BY <1>1, <1>9 DEF ReadProjectBilling, Kept
  <2> HIDE DEF on
  <2>2. look[c] \in LookRecords
    BY <1>1, <1>3, <2>1, RealLooks DEF Kept
  <2>3. /\ look' = [look EXCEPT ![c] = look'[c]]
        /\ look'[c] = [look[c] EXCEPT !.billed = on]
        /\ acct' = [acct EXCEPT ![c] = acct'[c]] /\ acct'[c] \in Accounts \cup {None}
    BY <1>1, <2>1 DEF Kept
  <2>4. look'[c] \in LookRecords
    BY <2>0, <2>2, <2>3 DEF LookRecords
  <2>5. QED
    BY <1>5, <2>1, <2>3, <2>4, RealLooks
<1>10. CASE ReadAccount(c) \/ ReadNoAccount(c)
  <2>1. PICK a \in Accounts :
          /\ acct' = [acct EXCEPT ![c] = a] /\ Goto(c, AfterAccount(c, a))
          /\ pc[c] \in {"account", "account-again"}
          /\ UNCHANGED <<req, saw, look, ctx, pick, using>>
    <3>1. User \in Users \cup {None}
      BY UserTyped DEF TypeInv
    <3>2. CASE ReadAccount(c)
      BY <3>1, <3>2 DEF ReadAccount, Accounts, LoggedIn
    <3>3. CASE ReadNoAccount(c)
      BY <3>3 DEF ReadNoAccount, Accounts
    <3>4. QED
      BY <1>10, <3>2, <3>3
  <2>2. /\ look' = [look EXCEPT ![c] = look'[c]] /\ look'[c] = look[c] /\ look[c] \in Looks
        /\ acct' = [acct EXCEPT ![c] = acct'[c]] /\ acct'[c] \in Accounts /\ acct'[c] # None
    BY <1>1, <2>1, SessionAssumption DEF Kept, Accounts, SessionAssumption
  <2>3. \/ pc[c] = "account" /\ AfterAccount(c, a) = "roles"
        \/ pc[c] = "account-again" /\ AfterAccount(c, a) \in {"approve", "blocked"}
    BY <2>1 DEF AfterAccount
  <2>4. PICK step : /\ Goto(c, step) /\ FitsProject(step, req[c]) /\ look[c] # NoLook
                    /\ step \notin {"consume", "delete", "undelete"}
    BY <1>3, <2>1, <2>3
  <2>5. QED
    BY <1>5, <2>1, <2>2, <2>4
<1>11. ASSUME pc[c] = "roles", NEW l \in Looks, l # NoLook
       PROVE  /\ FitsProject(AfterAudit(c, l), req[c])
              /\ AfterAudit(c, l) \notin {"roles", "approve", "consume", "delete", "undelete"}
  BY <1>11 DEF AfterAudit
<1>12. CASE ReadRoles(c)
  <2> DEFINE found == OwnerFound(Target(c), acct[c])
             l == [look[c] EXCEPT !.visible = TRUE, !.owner = found]
  <2>1. /\ pc[c] = "roles" /\ UNCHANGED <<req, saw, acct, ctx, pick, using>>
        /\ look' = [look EXCEPT ![c] = l] /\ Goto(c, AfterAudit(c, l))
    BY <1>12 DEF ReadRoles
  <2>2. look[c] \in LookRecords
    BY <1>1, <1>3, <2>1, RealLooks DEF Kept
  <2>3. found \in BOOLEAN
    BY OwnerFoundOrNot
  <2> HIDE DEF found
  <2>4. /\ look' = [look EXCEPT ![c] = look'[c]] /\ look'[c] = l
        /\ acct' = [acct EXCEPT ![c] = acct'[c]] /\ acct'[c] \in Accounts \cup {None}
    BY <1>1, <2>1 DEF Kept
  <2>5. l \in LookRecords
    BY <2>2, <2>3 DEF LookRecords
  <2> HIDE DEF l
  <2>6. QED
    BY <1>5, <1>11, <2>1, <2>4, <2>5, RealLooks
<1>13. CASE ReadNoRoles(c)
  BY <1>1, <1>3, <1>6, <1>11, <1>13 DEF ReadNoRoles, Kept
<1>14. CASE AskApproval(c) \/ ApprovalRefused(c)
  BY <1>3, <1>6, <1>14 DEF AskApproval, ApprovalRefused
<1>15. CASE LoadApproval(c)
  <2>1. PICK approval \in Approvals :
          /\ pc[c] = "approve" /\ Goto(c, "consume") /\ using' = [using EXCEPT ![c] = approval]
          /\ UNCHANGED <<req, saw, look, acct, ctx, pick>>
    BY <1>15 DEF LoadApproval, TypeInv, SharedTypeOK
  <2>2. /\ using' = [using EXCEPT ![c] = using'[c]] /\ using'[c] \in Approvals
        /\ look' = [look EXCEPT ![c] = look'[c]] /\ look'[c] = look[c] /\ look[c] \in Looks
        /\ acct' = [acct EXCEPT ![c] = acct'[c]] /\ acct'[c] = acct[c]
        /\ acct[c] \in Accounts \cup {None}
    BY <1>1, <2>1 DEF Kept
  <2>3. FitsProject("consume", req[c]) /\ look[c] # NoLook /\ acct[c] # None
    BY <1>3, <2>1
  <2>4. QED
    BY <1>4, <2>1, <2>2, <2>3
<1>16. CASE ConsumeApproval(c)
  <2>1. /\ pc[c] = "consume" /\ Goto(c, Act(c)) /\ UNCHANGED local
        /\ look[c] # NoLook /\ acct[c] # None /\ using[c] \in Approvals
    BY <1>1, <1>3, <1>16 DEF ConsumeApproval, FitsMemory
  <2>2. FitsProject(Act(c), req[c])
    BY <1>3, <2>1 DEF Act
  <2>3. QED
    BY <1>6, <2>1, <2>2 DEF Act
<1>17. CASE ActOnProject(c) \/ ActRefused(c) \/ DescribeAfter(c) \/ ProjectNoLogin(c)
  BY <1>6, <1>17 DEF ActOnProject, ActEffect, ActRefused, DescribeAfter, ProjectNoLogin
<1>18. CASE ActLost(c) \/ ProjectCallFails(c)
  BY <1>6, <1>18 DEF ActLost, ActEffect, ProjectCallFails
<1>19. QED
  BY <1>8, <1>9, <1>10, <1>12, <1>13, <1>14, <1>15, <1>16, <1>17, <1>18
     DEF ProjectStep, ProjectFault

-----------------------------------------------------------------------------

(* The steps of a gateway command. *)

FitsGateway(step, r) ==
  /\ step \in GatewaySteps \cup Ends
  /\ step \in GatewaySteps \ {"registry", "sessions"} => r.cmd = "gateway.call"
  /\ step = "sessions" => r.cmd = "gateway.audit"

LEMMA GatewayFits ==
  ASSUME NEW r \in Requests, r \in GatewayRequests, NEW step, FitsGateway(step, r)
  PROVE  FitsRequest(step, r) /\ step \in AllSteps
<1>1. FitsRequest(step, r)
  BY CmdKinds, AdcStepNames
     DEF FitsGateway, FitsRequest, SecretSteps, ProjectSteps, AuthSteps, GatewaySteps, Ends,
         ContextSteps
<1>2. QED
  BY <1>1 DEF FitsGateway, AllSteps, GatewaySteps, Ends

\* An audit whose sessions go on may have ended already.
LEMMA AuditTurns ==
  ASSUME TypeInv, NEW c \in Clients, NEW s \in Servers, task[c][s] # "none",
         UNCHANGED <<pc, tries>> \/ Goto(c, "failed"), UNCHANGED local
  PROVE  Moved(c)
<1>1. Kept(c) /\ FitsRequest(pc[c], req[c]) /\ pc[c] \in {"sessions", "failed"}
      /\ FitsMemory(pc[c], req[c], look[c], acct[c], ctx[c], pick[c], using[c], tries[c])
  BY KeptTyped DEF TypeInv, Fits, SessionsOpen
<1>2. req[c] \in Requests
  BY <1>1 DEF FitsRequest
<1>3. CASE UNCHANGED <<pc, tries>>
  BY <1>1, <1>3 DEF Kept, Moved, local
<1>4. CASE Goto(c, "failed")
  <2>1. FitsRequest("failed", req[c])
    BY <1>1, <1>2, CmdKinds, AdcStepNames
       DEF FitsRequest, SecretSteps, ProjectSteps, AuthSteps, GatewaySteps, Ends, ContextSteps
  <2>2. FitsMemory("failed", req[c], look[c], acct[c], ctx[c], pick[c], using[c], 0)
    BY PlainMemory DEF AfterDescribe
  <2>3. QED
    BY <1>4, <2>1, <2>2, StepMoves DEF AllSteps, Ends
<1>5. QED
  BY <1>3, <1>4

LEMMA GatewayMoves ==
  ASSUME TypeInv, NEW c \in Clients, GatewayStep(c) \/ GatewayFault(c)
  PROVE  Moved(c)
<1>1. Kept(c) /\ FitsRequest(pc[c], req[c])
  BY KeptTyped DEF TypeInv, Fits
<1>2. pc[c] \in GatewaySteps => req[c] \in GatewayRequests /\ req[c] \in Requests
  BY <1>1, SessionAssumption DEF FitsRequest, SessionAssumption, Kept, GatewaySteps
<1>3. ASSUME pc[c] \in GatewaySteps, NEW step, FitsGateway(step, req[c]), Goto(c, step),
             UNCHANGED local
      PROVE  Moved(c)
  <2>1. FitsRequest(step, req[c]) /\ step \in AllSteps
    BY <1>2, <1>3, GatewayFits
  <2>2. FitsMemory(step, req[c], look[c], acct[c], ctx[c], pick[c], using[c], 0)
    BY <1>3, PlainMemory DEF FitsGateway, AfterDescribe, GatewaySteps, Ends
  <2>3. QED
    BY <1>3, <2>1, <2>2, StepMoves
<1>4. pc[c] \in GatewaySteps \ {"registry", "sessions"} => req[c].cmd = "gateway.call"
  BY <1>1 DEF FitsRequest, GatewaySteps
<1> USE DEF FitsGateway, GatewaySteps, Ends
<1>5. CASE ReadProfile(c) \/ InvalidRegistry(c) \/ ReadRegistry(c) \/ ReadGate(c) \/ Connect(c)
           \/ ReadRegistryForAudit(c) \/ AuditEnds(c)
  BY <1>3, <1>4, <1>5
     DEF ReadProfile, InvalidRegistry, ReadRegistry, ReadGate, Connect, ReadRegistryForAudit,
         AuditEnds
<1>6. CASE ListTools(c) \/ CallTool(c) \/ Close(c) \/ LogFailure(c)
  BY <1>3, <1>4, <1>6 DEF ListTools, CallTool, Close, LogFailure
<1>7. CASE SessionFails(c) \/ CloseFails(c) \/ GatewayCallFails(c)
  BY <1>3, <1>4, <1>7 DEF SessionFails, AfterSessionError, CloseFails, GatewayCallFails
<1>8. ASSUME NEW s \in Servers,
             \/ SessionConnects(c, s) \/ SessionLists(c, s)
             \/ SessionCloses(c, s) \/ SessionBreaks(c, s)
      PROVE  Moved(c)
  BY <1>8, AuditTurns
     DEF SessionConnects, SessionLists, SessionCloses, SessionBreaks, Turn, Stay
<1>9. QED
  BY <1>5, <1>6, <1>7, <1>8 DEF GatewayStep, GatewayFault

-----------------------------------------------------------------------------

(* The steps of omg auth and omg setup. *)

FitsAuth(step, r) ==
  /\ step \in AuthSteps \cup Ends
  /\ step \in {"detect", "detect-adc", "login"} => r.cmd \in {"auth.create", "setup"}
  /\ step \in {"create", "set-account"} => r.cmd = "auth.create"
  /\ step \in {"relogged", "relogged-adc", "realigned", "realigned-adc", "check", "save"} =>
       r.cmd = "setup"
  /\ step \in {"projects", "set-project"} => r.cmd \in {"auth.create", "auth.project"}
  /\ step = "activate" => r.cmd \in {"auth.switch", "setup"} /\ r.config \in Configurations

AuthStepNames ==
  {"detect", "relogged", "realigned", "context", "detect-adc", "relogged-adc", "realigned-adc",
   "context-adc", "activate", "create", "login", "set-account", "set-project", "projects",
   "adc", "check", "save", "logout"}

LEMMA AuthFits ==
  ASSUME NEW r \in Requests, r \in AuthRequests \cup SetupRequests, NEW step, FitsAuth(step, r)
  PROVE  FitsRequest(step, r) /\ step \in AllSteps /\ step \notin AfterDescribe
<1>1. step \in AuthStepNames \cup Ends
  BY AdcStepNames DEF FitsAuth, AuthSteps, ContextSteps, AuthStepNames
<1>2. FitsRequest(step, r)
  <2>1. step \notin SecretSteps \cup ProjectSteps \cup GatewaySteps \cup {"idle"}
    BY <1>1 DEF AuthStepNames, SecretSteps, ProjectSteps, GatewaySteps, Ends
  <2>2. r # NoRequest
    BY CmdKinds
  <2>3. QED
    BY <2>1, <2>2 DEF FitsAuth, FitsRequest, SecretSteps, ProjectSteps, GatewaySteps
<1>3. QED
  BY <1>1, <1>2 DEF FitsAuth, AllSteps, AfterDescribe, AuthStepNames, Ends

LEMMA AuthMoves ==
  ASSUME TypeInv, NEW c \in Clients, AuthStep(c) \/ AuthFault(c)
  PROVE  Moved(c)
<1>1. Kept(c) /\ FitsRequest(pc[c], req[c])
      /\ FitsMemory(pc[c], req[c], look[c], acct[c], ctx[c], pick[c], using[c], tries[c])
  BY KeptTyped DEF TypeInv, Fits
<1>2. pc[c] \in AuthSteps => req[c] \in AuthRequests \cup SetupRequests /\ req[c] \in Requests
  BY <1>1, SessionAssumption, AdcStepNames
     DEF FitsRequest, SessionAssumption, Kept, AuthSteps, ContextSteps
<1>3. /\ pc[c] \in AuthSteps => FitsAuth(pc[c], req[c])
      /\ pc[c] = "set-project" => req[c].project # None \/ pick[c] # None \/ ctx[c].project # None
  BY <1>1 DEF FitsRequest, FitsMemory, FitsAuth
<1>4. ASSUME pc[c] \in AuthSteps, NEW step, FitsAuth(step, req[c]), Goto(c, step),
             ctx' = [ctx EXCEPT ![c] = ctx'[c]], ctx'[c] \in Contexts,
             pick' = [pick EXCEPT ![c] = pick'[c]], pick'[c] \in Projects \cup {None},
             UNCHANGED <<req, saw, look, acct, using>>,
             step = "set-project" =>
               req[c].project # None \/ pick'[c] # None \/ ctx'[c].project # None
      PROVE  Moved(c)
  <2>1. FitsRequest(step, req[c]) /\ step \in AllSteps /\ step \notin AfterDescribe
    BY <1>2, <1>4, AuthFits
  <2>2. FitsMemory(step, req[c], look[c], acct[c], ctx'[c], pick'[c], using'[c], 0)
    BY <1>4, <2>1, SessionAssumption DEF FitsMemory, AfterDescribe, SessionAssumption
  <2>3. /\ pc' = [pc EXCEPT ![c] = step] /\ pc'[c] = step
        /\ tries' = [tries EXCEPT ![c] = 0] /\ tries'[c] = 0
    BY <1>1, <1>4 DEF Goto, Kept
  <2>4. QED
    BY <1>1, <1>4, <2>1, <2>2, <2>3 DEF Moved, Kept
<1>5. ASSUME pc[c] \in AuthSteps, NEW step, FitsAuth(step, req[c]), Goto(c, step),
             UNCHANGED local,
             step = "set-project" =>
               req[c].project # None \/ pick[c] # None \/ ctx[c].project # None
      PROVE  Moved(c)
  <2>1. /\ ctx' = [ctx EXCEPT ![c] = ctx'[c]] /\ ctx'[c] = ctx[c] /\ ctx[c] \in Contexts
        /\ pick' = [pick EXCEPT ![c] = pick'[c]] /\ pick'[c] = pick[c]
        /\ pick[c] \in Projects \cup {None}
    BY <1>1, <1>5 DEF Kept, local
  <2>2. QED
    BY <1>4, <1>5, <2>1 DEF local
<1>6. /\ User \in Users \cup {None} /\ configs[active].project \in Projects \cup {None}
      /\ active \in Configurations /\ adc \in Users \cup {None}
  BY UserTyped DEF TypeInv, SharedTypeOK, Configs
<1>7. ContextSteps \cup AdcSteps \subseteq AuthSteps /\ AdcSteps \cup AuthStepNames = AuthSteps
  BY AdcStepNames DEF AuthSteps, AuthStepNames, ContextSteps
<1>8. ASSUME pc[c] \in ContextSteps
      PROVE  FitsAuth(AdcStep(pc[c]), req[c]) /\ AdcStep(pc[c]) # "set-project" /\ pc[c] \in AuthSteps
  BY <1>3, <1>7, <1>8, AdcStepNames DEF FitsAuth, ContextSteps, Ends
<1>9. ASSUME NEW x \in Contexts, pc[c] \in ContextSteps, Remember(c, x) PROVE Moved(c)
  <2> DEFINE next == After(x, ctx[c].next)
             y == [x EXCEPT !.next = next]
             step == IF next = "list" THEN AdcStep(pc[c]) ELSE pc[c]
  <2>1. /\ ctx' = [ctx EXCEPT ![c] = y] /\ Goto(c, step)
        /\ UNCHANGED <<req, saw, look, acct, pick, using>>
    BY <1>9 DEF Remember
  <2>2. next \in {"list", "account", "project"}
    BY DEF After
  <2>3. y \in Contexts
    BY <2>2 DEF Contexts
  <2>4. FitsAuth(step, req[c]) /\ step # "set-project" /\ pc[c] \in AuthSteps
    BY <1>3, <1>8, <1>9, <2>2 DEF ContextSteps
  <2> HIDE DEF next, y, step
  <2>5. /\ ctx' = [ctx EXCEPT ![c] = ctx'[c]] /\ ctx'[c] = y
        /\ pick' = [pick EXCEPT ![c] = pick'[c]] /\ pick'[c] \in Projects \cup {None}
    BY <1>1, <2>1 DEF Kept
  <2>6. QED
    BY <1>4, <2>1, <2>3, <2>4, <2>5
<1>22. CASE ReadContext(c) \/ ReadContextBlind(c)
  <2>1. ctx[c] \in Contexts /\ ctx[c].next \in {"list", "account", "project"}
    BY <1>1 DEF Kept, Contexts
  <2>2. configs[active].account \in Users \cup {None}
    BY <1>6 DEF User
  <2>3. CASE ReadContext(c)
    <3> DEFINE now == configs[active]
               x == CASE ctx[c].next = "list" ->
                           [name |-> active, account |-> now.account, project |-> now.project,
                            adc |-> None, next |-> "list"]
                      [] ctx[c].next = "account" -> [ctx[c] EXCEPT !.account = now.account]
                      [] ctx[c].next = "project" -> [ctx[c] EXCEPT !.project = now.project]
    <3>1. pc[c] \in ContextSteps /\ Remember(c, x)
      BY <2>3 DEF ReadContext
    <3>2. x \in Contexts
      <4>1. CASE ctx[c].next = "list"
        BY <1>6, <2>2, <4>1 DEF Contexts
      <4>2. CASE ctx[c].next = "account"
        BY <2>1, <2>2, <4>2 DEF Contexts
      <4>3. CASE ctx[c].next = "project"
        BY <1>6, <2>1, <4>3 DEF Contexts
      <4>4. QED
        BY <2>1, <4>1, <4>2, <4>3
    <3> HIDE DEF x
    <3>3. QED
      BY <1>9, <3>1, <3>2
  <2>4. CASE ReadContextBlind(c)
    <3>1. NoContext \in Contexts
      BY DEF NoContext, Contexts
    <3>2. QED
      BY <1>9, <2>1, <2>4, <3>1 DEF ReadContextBlind
  <2>5. QED
    BY <1>22, <2>3, <2>4
<1>10. ASSUME pc[c] \in AdcSteps, NEW x \in Contexts, x.project = ctx[c].project,
              NEW step \in AfterContext(c, x)
       PROVE  /\ FitsAuth(step, req[c])
              /\ step = "set-project" => req[c].project # None \/ x.project # None
  <2> USE AdcStepNames DEF FitsAuth, Ends, AuthStepNames
  <2>1. CASE pc[c] = "context-adc"
    BY <1>10, <2>1 DEF AfterContext
  <2>2. CASE pc[c] = "detect-adc" /\ req[c].cmd = "auth.create"
    BY <1>7, <1>10, <2>2 DEF AfterContext, ToProject
  <2>3. req[c].cmd = "setup" =>
          /\ \A s \in ToSave(c, x) : s \in {"save", "blocked"}
          /\ \A s \in ToAlign(c, x) : s \in {"adc", "save", "blocked"}
    BY DEF ToSave, ToAlign, Chosen
  <2>4. CASE pc[c] = "detect-adc" /\ req[c].cmd = "setup"
    <3>1. step \in {"adc", "save", "blocked", "login"}
      BY <1>10, <2>3, <2>4 DEF AfterContext, Chosen
    <3>2. QED
      BY <1>7, <2>4, <3>1
  <2>5. CASE pc[c] = "relogged-adc" \/ pc[c] = "realigned-adc"
    <3>1. req[c].cmd = "setup"
      BY <1>3, <1>7, <1>10, <2>5
    <3>2. step \in {"adc", "save", "blocked"}
      BY <1>10, <2>3, <2>5, <3>1 DEF AfterContext
    <3>3. QED
      BY <1>7, <3>1, <3>2
  <2>6. QED
    BY <1>3, <1>7, <1>10, <2>1, <2>2, <2>4, <2>5
<1>11. ASSUME NEW account \in Users \cup {None}, ReadAdcWith(c, account) PROVE Moved(c)
  <2> DEFINE x == [ctx[c] EXCEPT !.adc = account]
  <2>1. PICK step \in AfterContext(c, x) :
          /\ pc[c] \in AdcSteps /\ ctx' = [ctx EXCEPT ![c] = x] /\ Goto(c, step)
          /\ UNCHANGED <<req, saw, look, acct, pick, using>>
    BY <1>11 DEF ReadAdcWith
  <2>2. x \in Contexts /\ x.project = ctx[c].project
    BY <1>1 DEF Kept, Contexts
  <2> HIDE DEF x
  <2>3. /\ ctx' = [ctx EXCEPT ![c] = ctx'[c]] /\ ctx'[c] = x
        /\ pick' = [pick EXCEPT ![c] = pick'[c]] /\ pick'[c] \in Projects \cup {None}
    BY <1>1, <2>1 DEF Kept
  <2>4. QED
    BY <1>4, <1>7, <1>10, <2>1, <2>2, <2>3
<1>12. CASE ReadAdc(c) \/ ReadAdcBlind(c)
  BY <1>6, <1>11, <1>12 DEF ReadAdc, ReadAdcBlind
<1>13. ASSUME AuthEffect(c)
       PROVE  pc[c] \in {"activate", "create", "login", "set-account", "set-project", "adc"}
  BY <1>13 DEF AuthEffect, ActivateEffect, CreateEffect, LoginEffect, SetAccountEffect,
               SetProjectEffect, AdcLoginEffect
<1>14. CASE CallGcloud(c)
  <2>1. PICK step \in AfterEffect(c) :
          /\ AuthEffect(c) /\ Goto(c, step) /\ UNCHANGED local
    BY <1>14 DEF CallGcloud
  <2>2. pc[c] \in AuthSteps /\ pc[c] \in {"activate", "create", "login", "set-account", "set-project", "adc"}
    BY <1>7, <1>13, <2>1 DEF AuthStepNames
  <2>3. /\ FitsAuth(step, req[c])
        /\ step = "set-project" => req[c].project # None \/ ctx[c].project # None
    BY <1>3, <1>7, <2>1, <2>2
       DEF FitsAuth, AfterEffect, ToAdc, ToProject, AuthStepNames, Ends
  <2>4. QED
    BY <1>5, <2>1, <2>2, <2>3
<1>15. CASE ActivateRefused(c) \/ CreateRefused(c) \/ SaveConfig(c) \/ Logout(c) \/ NoCli(c)
            \/ LogoutFails(c)
  BY <1>5, <1>7, <1>15
     DEF ActivateRefused, CreateRefused, SaveConfig, Logout, LogoutFails, NoCli, FitsAuth,
         AuthStepNames, Ends
<1>16. CASE CheckCli(c)
  <2>1. /\ pc[c] = "check" /\ UNCHANGED local
        /\ Goto(c, IF req[c].config # None THEN "activate" ELSE "detect")
    BY <1>16 DEF CheckCli
  <2>2. req[c].cmd = "setup" /\ req[c].config \in Configurations \cup {None}
    BY <1>2, <1>3, <1>7, <2>1, RequestFields DEF FitsAuth, AuthStepNames
  <2>3. PICK step \in {"activate", "detect"} :
          Goto(c, step) /\ (step = "activate" => req[c].config \in Configurations)
    BY <2>1, <2>2
  <2>4. FitsAuth(step, req[c])
    BY <1>7, <2>2, <2>3 DEF FitsAuth, AuthStepNames, Ends
  <2>5. QED
    BY <1>5, <1>7, <2>1, <2>3, <2>4 DEF AuthStepNames
<1>17. ASSUME NEW shown \in SUBSET Projects, pc[c] = "projects", ChooseFrom(c, shown),
              UNCHANGED <<req, saw, look, acct, ctx, using>>
       PROVE  Moved(c)
  <2>1. /\ pc[c] \in AuthSteps /\ req[c].cmd \in {"auth.create", "auth.project"}
        /\ ctx' = [ctx EXCEPT ![c] = ctx'[c]] /\ ctx'[c] = ctx[c] /\ ctx[c] \in Contexts
    BY <1>1, <1>3, <1>7, <1>17 DEF FitsAuth, AuthStepNames, Kept
  <2>2. CASE /\ \E p \in shown : pick' = [pick EXCEPT ![c] = p]
             /\ Goto(c, "set-project")
    <3>1. /\ pick' = [pick EXCEPT ![c] = pick'[c]] /\ pick'[c] \in Projects /\ pick'[c] # None
      BY <1>1, <2>2, SessionAssumption DEF Kept, SessionAssumption
    <3>2. FitsAuth("set-project", req[c])
      BY <1>7, <2>1 DEF FitsAuth, AuthStepNames, Ends
    <3>3. QED
      BY <1>4, <1>17, <2>1, <2>2, <3>1, <3>2
  <2>3. CASE /\ \E step \in (IF req[c].cmd = "auth.create" THEN ToAdc(c) ELSE {"failed"}) :
                  Goto(c, step)
             /\ UNCHANGED pick
    <3>1. PICK step \in {"adc", "context", "failed"} : Goto(c, step)
      BY <2>3 DEF ToAdc
    <3>2. FitsAuth(step, req[c]) /\ step # "set-project"
      BY <1>7 DEF FitsAuth, AuthStepNames, Ends
    <3>3. pick' = [pick EXCEPT ![c] = pick'[c]] /\ pick'[c] \in Projects \cup {None}
      BY <1>1, <2>3 DEF Kept
    <3>4. QED
      BY <1>4, <1>17, <2>1, <3>1, <3>2, <3>3
  <2>4. QED
    BY <1>17, <2>2, <2>3 DEF ChooseFrom
<1>18. CASE ListProjects(c) \/ ListProjectsBlind(c)
  BY <1>17, <1>18 DEF ListProjects, ListProjectsBlind, Visible
<1>19. CASE AttemptFails(c)
  <2>1. /\ tries' = [tries EXCEPT ![c] = tries[c] + 1] /\ tries[c] + 1 < MaxAttempts
        /\ UNCHANGED <<pc, req, saw, look, acct, ctx, pick, using>> /\ Retried(c)
    BY <1>1, <1>19 DEF AttemptFails, Kept, local
  <2>2. /\ pc' = [pc EXCEPT ![c] = pc'[c]] /\ req' = [req EXCEPT ![c] = req'[c]]
        /\ saw' = [saw EXCEPT ![c] = saw'[c]] /\ look' = [look EXCEPT ![c] = look'[c]]
        /\ acct' = [acct EXCEPT ![c] = acct'[c]] /\ ctx' = [ctx EXCEPT ![c] = ctx'[c]]
        /\ pick' = [pick EXCEPT ![c] = pick'[c]] /\ tries' = [tries EXCEPT ![c] = tries'[c]]
        /\ using' = [using EXCEPT ![c] = using'[c]]
        /\ tries'[c] = tries[c] + 1
    BY <1>1, <2>1 DEF Kept
  <2>3. RetriedAt(pc[c], req[c])
    BY <2>1 DEF Retried, RetriedAt
  <2>4. FitsMemory(pc[c], req[c], look[c], acct[c], ctx[c], pick[c], using[c], tries[c] + 1)
    BY <1>1, <2>1, <2>3 DEF FitsMemory
  <2>5. /\ FitsRequest(pc'[c], req'[c])
        /\ FitsMemory(pc'[c], req'[c], look'[c], acct'[c], ctx'[c], pick'[c], using'[c], tries'[c])
    BY <1>1, <2>1, <2>2, <2>4
  <2>6. /\ pc'[c] \in AllSteps /\ req'[c] \in Requests \cup {NoRequest}
        /\ saw'[c] \in BOOLEAN /\ look'[c] \in Looks /\ acct'[c] \in Accounts \cup {None}
        /\ ctx'[c] \in Contexts /\ pick'[c] \in Projects \cup {None} /\ tries'[c] \in Nat
        /\ using'[c] \in Approvals \cup {None}
    BY <1>1, <2>1, <2>2 DEF Kept
  <2>7. QED
    BY <2>2, <2>5, <2>6 DEF Moved
<1>20. CASE AuthCallFails(c)
  BY <1>5, <1>7, <1>20 DEF AuthCallFails, FitsAuth, AuthStepNames, Ends
<1>21. QED
  BY <1>12, <1>14, <1>15, <1>16, <1>18, <1>19, <1>20, <1>22 DEF AuthStep, AuthFault

-----------------------------------------------------------------------------

(* A command begins, ends, or is killed. *)

LEMMA StartMoves ==
  ASSUME TypeInv, NEW c \in Clients, NEW r \in Requests, Start(c, r)
  PROVE  Moved(c)
<1>1. Kept(c)
  BY KeptTyped
<1>2. /\ Goto(c, FirstStep(r)) /\ req' = [req EXCEPT ![c] = r]
      /\ UNCHANGED <<saw, look, acct, ctx, pick, using>>
  BY DEF Start
<1>3. /\ pc' = [pc EXCEPT ![c] = pc'[c]] /\ req' = [req EXCEPT ![c] = req'[c]]
      /\ saw' = [saw EXCEPT ![c] = saw'[c]] /\ look' = [look EXCEPT ![c] = look'[c]]
      /\ acct' = [acct EXCEPT ![c] = acct'[c]] /\ ctx' = [ctx EXCEPT ![c] = ctx'[c]]
      /\ pick' = [pick EXCEPT ![c] = pick'[c]] /\ tries' = [tries EXCEPT ![c] = tries'[c]]
      /\ using' = [using EXCEPT ![c] = using'[c]]
      /\ pc'[c] = FirstStep(r) /\ req'[c] = r /\ tries'[c] = 0
  BY <1>1, <1>2 DEF Goto, Kept
<1>4. /\ FitsRequest(FirstStep(r), r) /\ FirstStep(r) \in AllSteps
      /\ FirstStep(r) \notin AfterDescribe
      /\ FirstStep(r) = "set-project" => r.project # None
  <2>1. CASE r \in SecretRequests
    <3>1. /\ FirstStep(r) \in {"gate", "remove"} \cup Ends
          /\ FirstStep(r) = "gate" => r.cmd \in {"secret.set", "secret.list"}
          /\ FirstStep(r) = "remove" => r.cmd = "secret.delete"
      BY <2>1, CmdKinds DEF FirstStep, SecretCmds, Ends
    <3>2. QED
      BY <2>1, <3>1, CmdKinds, AdcStepNames
         DEF FitsRequest, SecretSteps, ProjectSteps, AuthSteps, GatewaySteps, Ends, ContextSteps,
             AllSteps, AfterDescribe
  <2>2. CASE r \in ProjectRequests
    <3>1. /\ FirstStep(r) \in {"describe", "lifecycle", "failed"}
          /\ FirstStep(r) = "lifecycle" => r.cmd = "project.undelete"
      BY <2>2, CmdKinds DEF FirstStep, ProjectCmds
    <3>2. QED
      BY <2>2, <3>1, ProjectFits DEF FitsProject, ProjectSteps, Ends, AfterDescribe
  <2>3. CASE r \in AuthRequests \cup SetupRequests
    <3>1. /\ FirstStep(r) \in AuthStepNames
          /\ FirstStep(r) \notin {"detect", "detect-adc", "login", "set-account", "relogged", "relogged-adc",
                                  "realigned", "realigned-adc", "save"}
          /\ FirstStep(r) = "create" => r.cmd = "auth.create"
          /\ FirstStep(r) = "check" => r.cmd = "setup"
          /\ FirstStep(r) \in {"projects", "set-project"} => r.cmd = "auth.project"
          /\ FirstStep(r) = "set-project" => r.project # None
          /\ FirstStep(r) = "activate" => r.cmd = "auth.switch"
      BY <2>3, CmdKinds DEF FirstStep, AuthCmds, AuthStepNames
    <3>2. FirstStep(r) \in AuthSteps
      BY <3>1, AdcStepNames DEF AuthSteps, AuthStepNames, ContextSteps
    <3>3. FitsAuth(FirstStep(r), r)
      BY <2>3, <3>1, <3>2, RequestFields DEF FitsAuth
    <3>4. QED
      BY <2>3, <3>1, <3>3, AuthFits
  <2>4. CASE r \in GatewayRequests
    <3>1. /\ FirstStep(r) \in {"registry", "profile", "failed"}
          /\ FirstStep(r) = "profile" => r.cmd = "gateway.call"
      BY <2>4, CmdKinds DEF FirstStep, GatewayCmds
    <3>2. QED
      BY <2>4, <3>1, GatewayFits DEF FitsGateway, GatewaySteps, Ends, AfterDescribe
  <2>5. QED
    BY <2>1, <2>2, <2>3, <2>4, CmdKinds
<1>5. FitsMemory(FirstStep(r), r, look[c], acct[c], ctx[c], pick[c], using[c], 0)
  BY <1>4, SessionAssumption DEF FitsMemory, AfterDescribe, SessionAssumption
<1>6. /\ FitsRequest(pc'[c], req'[c])
      /\ FitsMemory(pc'[c], req'[c], look'[c], acct'[c], ctx'[c], pick'[c], using'[c], tries'[c])
  BY <1>2, <1>3, <1>4, <1>5
<1>7. /\ pc'[c] \in AllSteps /\ req'[c] \in Requests \cup {NoRequest}
      /\ saw'[c] \in BOOLEAN /\ look'[c] \in Looks /\ acct'[c] \in Accounts \cup {None}
      /\ ctx'[c] \in Contexts /\ pick'[c] \in Projects \cup {None} /\ tries'[c] \in Nat
      /\ using'[c] \in Approvals \cup {None}
  BY <1>1, <1>2, <1>3, <1>4 DEF Kept
<1>8. QED
  BY <1>3, <1>6, <1>7 DEF Moved

LEMMA LeaveMoves ==
  ASSUME TypeInv, NEW c \in Clients, Finish(c) \/ Kill(c)
  PROVE  Moved(c)
<1>1. Kept(c)
  BY KeptTyped
<1>2. /\ Goto(c, "idle") /\ req' = [req EXCEPT ![c] = NoRequest]
      /\ saw' = [saw EXCEPT ![c] = FALSE] /\ look' = [look EXCEPT ![c] = NoLook]
      /\ acct' = [acct EXCEPT ![c] = None] /\ ctx' = [ctx EXCEPT ![c] = NoContext]
      /\ pick' = [pick EXCEPT ![c] = None] /\ using' = [using EXCEPT ![c] = None]
  BY DEF Finish, Kill, Leave
<1>3. /\ pc' = [pc EXCEPT ![c] = pc'[c]] /\ req' = [req EXCEPT ![c] = req'[c]]
      /\ saw' = [saw EXCEPT ![c] = saw'[c]] /\ look' = [look EXCEPT ![c] = look'[c]]
      /\ acct' = [acct EXCEPT ![c] = acct'[c]] /\ ctx' = [ctx EXCEPT ![c] = ctx'[c]]
      /\ pick' = [pick EXCEPT ![c] = pick'[c]] /\ tries' = [tries EXCEPT ![c] = tries'[c]]
      /\ using' = [using EXCEPT ![c] = using'[c]]
      /\ pc'[c] = "idle" /\ req'[c] = NoRequest /\ saw'[c] \in BOOLEAN /\ look'[c] = NoLook
      /\ acct'[c] = None /\ ctx'[c] = NoContext /\ pick'[c] = None /\ tries'[c] = 0
      /\ using'[c] = None
  BY <1>1, <1>2 DEF Goto, Kept
<1>4. NoContext \in Contexts /\ NoLook \in Looks
  BY DEF NoContext, Contexts, Looks
<1>5. FitsMemory("idle", NoRequest, NoLook, None, NoContext, None, None, 0)
  BY PlainMemory DEF AfterDescribe
<1>6. FitsRequest("idle", NoRequest)
  BY AdcStepNames
     DEF FitsRequest, SecretSteps, ProjectSteps, AuthSteps, GatewaySteps, ContextSteps
<1>7. /\ FitsRequest(pc'[c], req'[c])
      /\ FitsMemory(pc'[c], req'[c], look'[c], acct'[c], ctx'[c], pick'[c], using'[c], tries'[c])
  BY <1>3, <1>5, <1>6
<1>8. pc'[c] \in AllSteps
  BY <1>3 DEF AllSteps
<1>9. /\ req'[c] \in Requests \cup {NoRequest}
      /\ saw'[c] \in BOOLEAN /\ look'[c] \in Looks /\ acct'[c] \in Accounts \cup {None}
      /\ ctx'[c] \in Contexts /\ pick'[c] \in Projects \cup {None} /\ tries'[c] \in Nat
      /\ using'[c] \in Approvals \cup {None}
  BY <1>3, <1>4
<1>10. QED
  BY <1>3, <1>7, <1>8, <1>9 DEF Moved

-----------------------------------------------------------------------------

(* What befalls the commands. *)

TraceOK ==
  /\ did = [c \in Clients |-> did[c]] /\ logged = [c \in Clients |-> logged[c]]
  /\ faulted = [c \in Clients |-> faulted[c]] /\ alone \in [Clients -> BOOLEAN]
  /\ hands \in Nat /\ faults \in Nat

\* A step of client c: it may add to its deeds, its log entries and its faults.
Traced(c) ==
  /\ did' = did \/ \E x : did' = [did EXCEPT ![c] = did[c] \cup {x}]
  /\ logged' = logged \/ \E x : logged' = [logged EXCEPT ![c] = logged[c] \cup {x}]
  /\ \/ faulted' = faulted /\ faults' = faults
     \/ /\ \E x : /\ faulted' = [faulted EXCEPT ![c] = faulted[c] \cup {x}]
                  /\ x = pc[c] \/ (\E t \in Servers : x = task[c][t] /\ x # "none")
        /\ faults' = faults + 1
  /\ alone' = alone /\ hands' = hands /\ req' = req /\ menu' = menu /\ stray' = stray

LEMMA SecretTraced ==
  ASSUME NEW c \in Clients, SecretStep(c) \/ SecretFault(c)
  PROVE  Traced(c) /\ logged' = logged /\ UNCHANGED <<sessions, machine, server, billed, owners>>
<1>1. /\ did' = did \/ \E x : did' = [did EXCEPT ![c] = did[c] \cup {x}]
      /\ logged' = logged
  BY DEF SecretStep, SecretFault, SecretGate, ListSecrets, SecretExists, PrepareDataFile,
         WriteSecret, WriteEffect, WriteRefused, CleanUp, RemoveSecret, RemoveEffect, RemoveRefused,
         SecretNoLogin, PrepareFails, WriteFails, HalfCreated, CleanUpFails, SecretCallFails, trace
<1>2. /\ \/ faulted' = faulted /\ faults' = faults
         \/ faulted' = [faulted EXCEPT ![c] = faulted[c] \cup {pc[c]}] /\ faults' = faults + 1
      /\ alone' = alone /\ hands' = hands /\ req' = req /\ menu' = menu
  BY DEF SecretStep, SecretFault, SecretGate, ListSecrets, SecretExists, PrepareDataFile,
         WriteSecret, WriteRefused, CleanUp, RemoveSecret, RemoveRefused, SecretNoLogin,
         PrepareFails, WriteFails, HalfCreated, CleanUpFails, SecretCallFails, Calm, Fault, FaultAt,
         fate, counts, local
<1>3. UNCHANGED <<sessions, stray, machine, server, billed, owners>>
  BY DEF SecretStep, SecretFault, SecretGate, ListSecrets, SecretExists, PrepareDataFile,
         WriteSecret, WriteEffect, WriteRefused, CleanUp, RemoveSecret, RemoveEffect, RemoveRefused,
         SecretNoLogin, PrepareFails, WriteFails, HalfCreated, CleanUpFails, SecretCallFails,
         opened, cloud
<1>4. QED
  BY <1>1, <1>2, <1>3 DEF Traced

LEMMA ProjectTraced ==
  ASSUME NEW c \in Clients, ProjectStep(c) \/ ProjectFault(c)
  PROVE  Traced(c) /\ logged' = logged /\ UNCHANGED <<opened, machine, server, billed, owners>>
<1>1. /\ did' = did \/ \E x : did' = [did EXCEPT ![c] = did[c] \cup {x}]
      /\ logged' = logged /\ UNCHANGED <<opened, machine, server, billed, owners>>
  BY DEF ProjectStep, ProjectFault, Describe, ReadProjectBilling, ReadAccount, ReadRoles,
         ReadLifecycle, LoadApproval, ConsumeApproval, AskApproval, ApprovalRefused, ActOnProject,
         ActEffect, ActRefused, DescribeAfter, ProjectNoLogin, ReadNoAccount, ReadNoRoles, ActLost,
         ProjectCallFails, trace, cloud
<1>2. /\ \/ faulted' = faulted /\ faults' = faults
         \/ faulted' = [faulted EXCEPT ![c] = faulted[c] \cup {pc[c]}] /\ faults' = faults + 1
      /\ alone' = alone /\ hands' = hands /\ req' = req /\ menu' = menu
  BY DEF ProjectStep, ProjectFault, Describe, ReadProjectBilling, ReadAccount, ReadRoles,
         ReadLifecycle, LoadApproval, ConsumeApproval, AskApproval, ApprovalRefused, ActOnProject,
         ActRefused, DescribeAfter, ProjectNoLogin, ReadNoAccount, ReadNoRoles, ActLost,
         ProjectCallFails, Calm, Fault, FaultAt, fate, counts, local
<1>3. QED
  BY <1>1, <1>2 DEF Traced, opened

LEMMA AuthTraced ==
  ASSUME NEW c \in Clients, AuthStep(c) \/ AuthFault(c)
  PROVE  Traced(c) /\ logged' = logged /\ UNCHANGED <<opened, cloud, server, consent>>
<1>1. AuthEffect(c) =>
        /\ did' = did \/ \E x : did' = [did EXCEPT ![c] = did[c] \cup {x}]
        /\ logged' = logged
  BY DEF AuthEffect, ActivateEffect, CreateEffect, LoginEffect, SetAccountEffect,
         SetProjectEffect, AdcLoginEffect, Did, trace
<1>2. AuthEffect(c) \/ UNCHANGED trace
  BY DEF AuthStep, AuthFault, ReadContext, Remember, ReadAdc, ReadAdcWith, CallGcloud,
         ActivateRefused, CreateRefused, ListProjects, CheckCli, SaveConfig, Logout,
         ReadContextBlind, ReadAdcBlind, ListProjectsBlind, NoCli, AttemptFails, AuthCallFails,
         LogoutFails
<1>3. UNCHANGED <<opened, cloud, server, consent>>
  BY DEF AuthStep, AuthFault, ReadContext, Remember, ReadAdc, ReadAdcWith, CallGcloud,
         ActivateRefused, CreateRefused, ListProjects, CheckCli, SaveConfig, Logout,
         ReadContextBlind, ReadAdcBlind, ListProjectsBlind, NoCli, AttemptFails, AuthCallFails,
         LogoutFails
<1>4. /\ \/ faulted' = faulted /\ faults' = faults
         \/ faulted' = [faulted EXCEPT ![c] = faulted[c] \cup {pc[c]}] /\ faults' = faults + 1
      /\ alone' = alone /\ hands' = hands /\ req' = req /\ menu' = menu
  BY DEF AuthStep, AuthFault, ReadContext, Remember, ReadAdc, ReadAdcWith, CallGcloud,
         ActivateRefused, CreateRefused, ListProjects, CheckCli, SaveConfig, Logout,
         ReadContextBlind, ReadAdcBlind, ListProjectsBlind, NoCli, AttemptFails, AuthCallFails,
         LogoutFails, Calm, Fault, FaultAt, fate, counts, local
<1>5. QED
  BY <1>1, <1>2, <1>3, <1>4 DEF Traced, trace, opened

LEMMA GatewayTraced ==
  ASSUME NEW c \in Clients, GatewayStep(c) \/ GatewayFault(c)
  PROVE  Traced(c) /\ UNCHANGED <<files, stray, cloud, machine, server, consent>>
<1>1. /\ did' = did \/ \E x : did' = [did EXCEPT ![c] = did[c] \cup {x}]
      /\ logged' = logged \/ \E x : logged' = [logged EXCEPT ![c] = logged[c] \cup {x}]
  BY DEF GatewayStep, GatewayFault, ReadProfile, InvalidRegistry, ReadRegistry,
         ReadRegistryForAudit, ReadGate, Connect, ListTools, CallTool, SessionFails, Close,
         CloseFails, LogFailure, GatewayCallFails, SessionConnects, SessionLists, SessionCloses,
         SessionBreaks, AuditEnds, Turn, Stay,
         Append, Log, trace
<1>2. /\ \/ faulted' = faulted /\ faults' = faults
         \/ /\ \E x : /\ faulted' = [faulted EXCEPT ![c] = faulted[c] \cup {x}]
                      /\ x = pc[c] \/ (\E t \in Servers : x = task[c][t] /\ x # "none")
            /\ faults' = faults + 1
      /\ alone' = alone /\ hands' = hands /\ req' = req /\ menu' = menu
  BY DEF GatewayStep, GatewayFault, ReadProfile, InvalidRegistry, ReadRegistry,
         ReadRegistryForAudit, ReadGate, Connect, ListTools, CallTool, SessionFails, Close,
         CloseFails, LogFailure, GatewayCallFails, SessionConnects, SessionLists, SessionCloses,
         SessionBreaks, AuditEnds, Turn, Stay,
         Append, Calm, Fault, FaultAt, fate, counts, local
<1>3. UNCHANGED <<files, stray, cloud, machine, server, consent>>
  BY DEF GatewayStep, GatewayFault, ReadProfile, InvalidRegistry, ReadRegistry,
         ReadRegistryForAudit, ReadGate, Connect, ListTools, CallTool, SessionFails, Close,
         CloseFails, LogFailure, GatewayCallFails, SessionConnects, SessionLists, SessionCloses,
         SessionBreaks, AuditEnds, Turn, Stay,
         opened
<1>4. QED
  BY <1>1, <1>2, <1>3 DEF Traced

\* What the step of c leaves to the others, and what it adds for c.
LEMMA TracedKept ==
  ASSUME TraceOK, NEW c \in Clients, Traced(c)
  PROVE  /\ TraceOK'
         /\ \A d \in Clients \ {c} :
              did'[d] = did[d] /\ logged'[d] = logged[d] /\ faulted'[d] = faulted[d]
         /\ faulted[c] \subseteq faulted'[c] /\ did[c] \subseteq did'[c]
         /\ logged[c] \subseteq logged'[c]
         /\ faults' \in {faults, faults + 1} /\ (faulted' # faulted => faults' > 0)
<1>1. /\ did' = [d \in Clients |-> did'[d]] /\ did[c] \subseteq did'[c]
      /\ \A d \in Clients \ {c} : did'[d] = did[d]
  BY DEF TraceOK, Traced
<1>2. /\ logged' = [d \in Clients |-> logged'[d]] /\ logged[c] \subseteq logged'[c]
      /\ \A d \in Clients \ {c} : logged'[d] = logged[d]
  BY DEF TraceOK, Traced
<1>3. /\ faulted' = [d \in Clients |-> faulted'[d]] /\ faulted[c] \subseteq faulted'[c]
      /\ \A d \in Clients \ {c} : faulted'[d] = faulted[d]
  <2>1. faulted' = faulted \/ \E x : faulted' = [faulted EXCEPT ![c] = faulted[c] \cup {x}]
    <3>1. ASSUME faulted' # faulted
          PROVE  \E x : faulted' = [faulted EXCEPT ![c] = faulted[c] \cup {x}]
      <4>1. \E x : /\ faulted' = [faulted EXCEPT ![c] = faulted[c] \cup {x}]
                   /\ x = pc[c] \/ (\E t \in Servers : x = task[c][t] /\ x # "none")
        BY <3>1, Zenon DEF Traced
      <4>2. QED
        BY <4>1, Zenon
    <3>2. QED
      BY <3>1
  <2>2. QED
    BY <2>1 DEF TraceOK
<1>4. /\ faults' \in {faults, faults + 1} /\ (faulted' # faulted => faults' > 0)
      /\ faults' \in Nat
  BY DEF TraceOK, Traced
<1>5. QED
  BY <1>1, <1>2, <1>3, <1>4 DEF TraceOK, Traced

LEMMA LeaveTraced ==
  ASSUME TraceOK, NEW c \in Clients, Finish(c) \/ Kill(c)
  PROVE  /\ TraceOK' /\ hands' = hands
         /\ \A d \in Clients \ {c} :
              /\ did'[d] = did[d] /\ logged'[d] = logged[d] /\ faulted'[d] = faulted[d]
              /\ alone'[d] = alone[d]
         /\ did'[c] = {} /\ logged'[c] = {} /\ faulted'[c] = {} /\ alone'[c] = FALSE
         /\ stray' = stray \cup (files \cap {c})
         /\ faults' \in {faults, faults + 1} /\ (Kill(c) => faults' = faults + 1)
         /\ files' = files \ {c} /\ open' = open \ ({c} \X Servers)
         /\ task' = [task EXCEPT ![c] = NoTasks]
         /\ UNCHANGED <<cloud, machine, server, consent>>
<1>1. /\ did' = [did EXCEPT ![c] = {}] /\ logged' = [logged EXCEPT ![c] = {}]
      /\ faulted' = [faulted EXCEPT ![c] = {}] /\ alone' = [alone EXCEPT ![c] = FALSE]
      /\ hands' = hands /\ files' = files \ {c} /\ open' = open \ ({c} \X Servers)
      /\ task' = [task EXCEPT ![c] = NoTasks] /\ stray' = stray \cup (files \cap {c})
      /\ UNCHANGED <<cloud, machine, server, consent>>
  BY DEF Finish, Kill, Leave, counts
<1>2. faults' \in {faults, faults + 1} /\ (Kill(c) => faults' = faults + 1)
  <2>1. Kill(c) => faults' = faults + 1
    BY DEF Kill
  <2>2. Finish(c) => faults' = faults
    BY DEF Finish, counts
  <2>3. QED
    BY <2>1, <2>2
<1>3. faults' \in Nat
  BY <1>2 DEF TraceOK
<1>4. QED
  BY <1>1, <1>2, <1>3 DEF TraceOK

LEMMA StartTraced ==
  ASSUME TraceOK, NEW c \in Clients, NEW r \in Requests, Start(c, r)
  PROVE  /\ TraceOK' /\ \A d \in Clients \ {c} : ~alone'[d]
         /\ UNCHANGED <<did, logged, faulted, opened, cloud, machine, server, consent, hands,
                      faults>>
         /\ alone'[c] => \A d \in Clients \ {c} : pc[d] = "idle"
<1>1. /\ alone' = [d \in Clients |-> d = c /\ \A e \in Clients \ {c} : pc[e] = "idle"]
      /\ UNCHANGED <<did, logged, faulted, opened, cloud, machine, server, consent, hands,
                      faults>>
  BY DEF Start, trace
<1>2. alone' \in [Clients -> BOOLEAN]
  BY <1>1
<1>3. QED
  BY <1>1, <1>2 DEF TraceOK

LEMMA PeopleTraced ==
  ASSUME TraceOK, People
  PROVE  /\ TraceOK' /\ UNCHANGED <<pc, req, did, logged, faulted, opened, faults>>
         /\ \/ hands' = hands + 1 /\ \A d \in Clients : ~alone'[d]
            \/ UNCHANGED <<alone, hands, cloud, machine, server>>
<1>1. CASE ByHand
  <2>1. /\ hands' = hands + 1 /\ alone' = [c \in Clients |-> FALSE]
        /\ UNCHANGED <<pc, req, did, logged, faulted, opened, faults>>
    BY <1>1 DEF ByHand, trace, local
  <2>2. QED
    BY <2>1 DEF TraceOK
<1>2. CASE \E request \in asked : Grant(request)
  BY <1>2 DEF Grant, TraceOK, trace, local, fate, counts
<1>3. QED
  BY <1>1, <1>2 DEF People, HandLifecycle, HandBilling, HandOwner, HandSecret, HandAccount,
                    HandTool, HandRegistry, HandSpoil

LEMMA TraceInit == Init => TraceOK
  BY DEF Init, TraceOK

LEMMA TraceNext == TraceOK /\ [Next]_vars => TraceOK'
<1> SUFFICES ASSUME TraceOK, [Next]_vars PROVE TraceOK'
  OBVIOUS
<1>1. CASE UNCHANGED vars
  BY <1>1 DEF vars, trace, fate, counts, TraceOK
<1>2. QED
  BY <1>1, SecretTraced, ProjectTraced, AuthTraced, GatewayTraced, TracedKept, LeaveTraced,
     StartTraced, PeopleTraced DEF Next, Step, Misfortune

\* Each component acts at its own steps.
LEMMA OwnGuards ==
  ASSUME TypeInv, NEW c \in Clients
  PROVE  /\ SecretStep(c) \/ SecretFault(c) => pc[c] \in SecretSteps
         /\ ProjectStep(c) \/ ProjectFault(c) => pc[c] \in ProjectSteps \ SecretSteps
         /\ AuthStep(c) \/ AuthFault(c) =>
              pc[c] \in AuthSteps \ (SecretSteps \cup ProjectSteps \cup GatewaySteps \cup Ends \cup {"idle"})
         /\ GatewayStep(c) \/ GatewayFault(c) =>
              pc[c] \in (GatewaySteps \ SecretSteps) \cup {"failed"}
<1>1. SecretStep(c) \/ SecretFault(c) => pc[c] \in SecretSteps
  BY DEF SecretStep, SecretFault, SecretGate, ListSecrets, SecretExists, PrepareDataFile,
         WriteSecret, WriteRefused, CleanUp, RemoveSecret, RemoveRefused, SecretNoLogin,
         PrepareFails, WriteFails, HalfCreated, CleanUpFails, SecretCallFails, SecretSteps
<1>2. ProjectStep(c) \/ ProjectFault(c) => pc[c] \in ProjectSteps
  BY DEF ProjectStep, ProjectFault, Describe, ReadProjectBilling, ReadAccount, ReadRoles,
         ReadLifecycle, LoadApproval, ConsumeApproval, AskApproval, ApprovalRefused, ActOnProject,
         ActEffect, ActRefused, DescribeAfter, ProjectNoLogin, ReadNoAccount, ReadNoRoles, ActLost,
         ProjectCallFails, ProjectSteps
<1>3. AuthStep(c) \/ AuthFault(c) => pc[c] \in AuthStepNames
  <2>1. AuthEffect(c) => pc[c] \in AuthStepNames
    BY DEF AuthEffect, ActivateEffect, CreateEffect, LoginEffect, SetAccountEffect,
           SetProjectEffect, AdcLoginEffect, AuthStepNames
  <2>2. QED
    BY <2>1, AdcStepNames
       DEF AuthStep, AuthFault, ReadContext, Remember, ReadAdc, ReadAdcWith, CallGcloud,
           ActivateRefused, CreateRefused, ListProjects, CheckCli, SaveConfig, Logout,
           ReadContextBlind, ReadAdcBlind, ListProjectsBlind, NoCli, AttemptFails, AuthCallFails,
           LogoutFails, Retried, ContextSteps, AuthStepNames
<1>4. GatewayStep(c) \/ GatewayFault(c) => pc[c] \in GatewaySteps \cup {"failed"}
  <2>1. ASSUME NEW s \in Servers,
               \/ SessionConnects(c, s) \/ SessionLists(c, s)
               \/ SessionCloses(c, s) \/ SessionBreaks(c, s)
        PROVE  pc[c] \in {"sessions", "failed"}
    <3>1. task[c][s] # "none"
      BY <2>1 DEF SessionConnects, SessionLists, SessionCloses, SessionBreaks
    <3>2. QED
      BY <3>1 DEF TypeInv, SessionsOpen
  <2>2. QED
    BY <2>1
       DEF GatewayStep, GatewayFault, ReadProfile, InvalidRegistry, ReadRegistry,
           ReadRegistryForAudit, ReadGate, Connect, ListTools, CallTool, SessionFails, Close,
           CloseFails, LogFailure, GatewayCallFails, AuditEnds, GatewaySteps
<1>5. AuthStepNames \subseteq AuthSteps
  BY AdcStepNames DEF AuthStepNames, AuthSteps, ContextSteps
<1>6. QED
  BY <1>1, <1>2, <1>3, <1>4, <1>5
     DEF SecretSteps, ProjectSteps, AuthStepNames, GatewaySteps, Ends

-----------------------------------------------------------------------------

(* What the commands share. *)

LEMMA SecretShared ==
  ASSUME TypeInv, NEW c \in Clients, SecretStep(c) \/ SecretFault(c)
  PROVE  SharedTypeOK'
<1>1. /\ UNCHANGED <<lifecycle, billed, owners, configs, active, adc, config, registry, offered,
                     sessions, asked, granted, grants>>
      /\ versions' = versions \/ \E m \in Nat : versions' = [versions EXCEPT ![req[c].name] = m]
  <2>1. UNCHANGED <<lifecycle, billed, owners, configs, active, adc, config, registry, offered,
                    sessions, asked, granted, grants>>
    BY DEF SecretStep, SecretFault, SecretGate, ListSecrets, SecretExists, PrepareDataFile,
           WriteSecret, WriteEffect, WriteRefused, CleanUp, RemoveSecret, RemoveEffect,
           RemoveRefused, SecretNoLogin, PrepareFails, WriteFails, HalfCreated, CleanUpFails,
           SecretCallFails, cloud, machine, server, opened, consent
  <2>2. ASSUME WriteEffect(c), pc[c] = "write"
        PROVE  \E m \in Nat : versions' = [versions EXCEPT ![req[c].name] = m]
    <3>1. req[c] \in SecretRequests /\ req[c].cmd = "secret.set"
      BY <2>2 DEF TypeInv, Fits, FitsRequest, SecretSteps
    <3>2. versions[req[c].name] \in Nat
      BY <3>1, RequestFields DEF TypeInv, SharedTypeOK
    <3>3. \/ versions' = [versions EXCEPT ![req[c].name] = versions[req[c].name] + 1]
          \/ versions' = [versions EXCEPT ![req[c].name] = 2]
      BY <2>2 DEF WriteEffect
    <3>4. versions[req[c].name] + 1 \in Nat
      BY <3>2
    <3>5. QED
      BY <3>3, <3>4
  <2>3. HalfCreated(c) => versions' = [versions EXCEPT ![req[c].name] = 1]
    BY DEF HalfCreated
  <2>4. QED
    BY <2>1, <2>2, <2>3
       DEF SecretStep, SecretFault, SecretGate, ListSecrets, SecretExists, PrepareDataFile,
           WriteSecret, WriteRefused, CleanUp, RemoveSecret, RemoveEffect,
           RemoveRefused, SecretNoLogin, PrepareFails, WriteFails, CleanUpFails, SecretCallFails,
           cloud
<1>2. QED
  BY <1>1 DEF TypeInv, SharedTypeOK, sessions

LEMMA ProjectShared ==
  ASSUME TypeInv, NEW c \in Clients, ProjectStep(c) \/ ProjectFault(c)
  PROVE  SharedTypeOK'
<1>1. UNCHANGED <<billed, owners, versions, configs, active, adc, config, registry, offered,
                  open, task, grants>>
  BY DEF ProjectStep, ProjectFault, Describe, ReadProjectBilling, ReadAccount, ReadRoles,
         ReadLifecycle, LoadApproval, ConsumeApproval, AskApproval, ApprovalRefused, ActOnProject,
         ActEffect, ActRefused, DescribeAfter, ProjectNoLogin, ReadNoAccount, ReadNoRoles, ActLost,
         ProjectCallFails, cloud, machine, server, opened, sessions, consent
<1>2. \/ lifecycle' = lifecycle
      \/ \E state \in LifecycleStates : lifecycle' = [lifecycle EXCEPT ![Target(c)] = state]
  BY DEF ProjectStep, ProjectFault, Describe, ReadProjectBilling, ReadAccount, ReadRoles,
         ReadLifecycle, LoadApproval, ConsumeApproval, AskApproval, ApprovalRefused, ActOnProject,
         ActEffect, ActRefused, DescribeAfter, ProjectNoLogin, ReadNoAccount, ReadNoRoles, ActLost,
         ProjectCallFails, cloud, LifecycleStates
<1>3. lifecycle' \in [Projects -> LifecycleStates]
  BY <1>2 DEF TypeInv, SharedTypeOK
<1>4. /\ granted' \subseteq granted
      /\ asked' = asked \/ (AskApproval(c) /\ asked' = asked \cup {Request(c)})
  BY DEF ProjectStep, ProjectFault, Describe, ReadProjectBilling, ReadAccount, ReadRoles,
         ReadLifecycle, LoadApproval, ConsumeApproval, AskApproval, ApprovalRefused, ActOnProject,
         ActEffect, ActRefused, DescribeAfter, ProjectNoLogin, ReadNoAccount, ReadNoRoles, ActLost,
         ProjectCallFails, consent
<1>5. ASSUME AskApproval(c) PROVE Request(c) \in Asks
  <2>1. pc[c] = "approve"
    BY <1>5 DEF AskApproval
  <2>2. req[c] \in ProjectRequests /\ look[c] # NoLook /\ acct[c] # None
        /\ look[c] \in Looks /\ acct[c] \in Accounts \cup {None}
    BY <2>1 DEF TypeInv, ClientTypeOK, Fits, FitsRequest, FitsMemory, ProjectSteps, AfterDescribe
  <2>3. look[c] \in LookRecords /\ Target(c) \in Projects
    BY <2>2, RealLooks, CmdKinds DEF Target
  <2>4. look[c].state \in LifecycleStates /\ look[c].billed \in BOOLEAN /\ acct[c] \in Accounts
    BY <2>2, <2>3 DEF LookRecords
  <2>5. QED
    BY <2>3, <2>4 DEF Request, Asks, Act
<1>6. asked' \subseteq Asks /\ granted' \subseteq Approvals
  BY <1>4, <1>5 DEF TypeInv, SharedTypeOK
<1>7. QED
  BY <1>1, <1>3, <1>6 DEF TypeInv, SharedTypeOK

LEMMA GatewayShared ==
  ASSUME TypeInv, NEW c \in Clients, GatewayStep(c) \/ GatewayFault(c)
  PROVE  SharedTypeOK'
<1>1. UNCHANGED <<cloud, machine, server, asked, granted, grants>>
  BY GatewayTraced DEF consent
<1>2. open' \subseteq Clients \X Servers /\ task' \in [Clients -> [Servers -> Tasks]]
  <2>1. /\ open \subseteq Clients \X Servers
        /\ task \in [Clients -> [Servers -> Tasks]]
    BY DEF TypeInv, SharedTypeOK
  <2>2. CASE Connect(c)
    <3>1. req[c] \in GatewayRequests /\ req[c].cmd = "gateway.call"
      BY <2>2 DEF Connect, TypeInv, Fits, FitsRequest, GatewaySteps
    <3>2. Server(c) \in Servers
      BY <3>1, RequestFields DEF Server
    <3>3. QED
      BY <2>1, <2>2, <3>2 DEF Connect
  <2>3. CASE ReadRegistryForAudit(c)
    <3>1. \/ task' = task
          \/ \E f \in [Servers -> Tasks] : task' = [task EXCEPT ![c] = f]
      BY <2>3 DEF ReadRegistryForAudit, Tasks
    <3>2. QED
      BY <2>1, <2>3, <3>1 DEF ReadRegistryForAudit
  <2>4. ASSUME NEW s \in Servers,
               \/ SessionConnects(c, s) \/ SessionLists(c, s)
               \/ SessionCloses(c, s) \/ SessionBreaks(c, s)
        PROVE  /\ open' \subseteq Clients \X Servers
               /\ task' \in [Clients -> [Servers -> Tasks]]
    <3>1. /\ open' \subseteq open \cup {<<c, s>>}
          /\ \E step \in Tasks : task' = [task EXCEPT ![c][s] = step]
      BY <2>4 DEF SessionConnects, SessionLists, SessionCloses, SessionBreaks, Turn,
                  AfterListError, Tasks
    <3>2. QED
      BY <2>1, <3>1
  <2>5. CASE Close(c)
    BY <2>1, <2>5 DEF Close
  <2>6. CASE ~Connect(c) /\ ~ReadRegistryForAudit(c) /\ ~Close(c) /\ UNCHANGED sessions
    BY <2>1, <2>6 DEF sessions
  <2>7. \/ Connect(c) \/ ReadRegistryForAudit(c) \/ Close(c) \/ UNCHANGED sessions
        \/ \E s \in Servers : \/ SessionConnects(c, s) \/ SessionLists(c, s)
                             \/ SessionCloses(c, s) \/ SessionBreaks(c, s)
    BY DEF GatewayStep, GatewayFault, ReadProfile, InvalidRegistry, ReadRegistry, ReadGate,
           ListTools, CallTool, SessionFails, CloseFails, LogFailure, GatewayCallFails, AuditEnds,
           opened
  <2>8. QED
    BY <2>2, <2>3, <2>4, <2>5, <2>6, <2>7
<1>3. QED
  BY <1>1, <1>2 DEF TypeInv, SharedTypeOK, cloud, machine, server

LEMMA RealConfigs == \A x \in Configs : x # NoConfig
<1>1. ASSUME NEW x \in Configs PROVE DOMAIN x = {"account", "project"}
  BY DEF Configs
<1>2. DOMAIN NoConfig = {"account"}
  BY DEF NoConfig
<1>3. QED
  BY <1>1, <1>2

\* What a call of gcloud may change: the accounts and projects of configurations, which
\* one is active, and the ADC account.
LEMMA EffectTyped ==
  ASSUME TypeInv, NEW c \in Clients, AuthEffect(c)
  PROVE  /\ configs' \in [Configurations -> Configs \cup {NoConfig}]
         /\ active' \in Configurations /\ configs'[active'] # NoConfig
         /\ adc' \in Users \cup {None} /\ config' = config
<1>1. /\ configs \in [Configurations -> Configs \cup {NoConfig}]
      /\ active \in Configurations /\ configs[active] # NoConfig
      /\ configs[active] \in Configs
      /\ adc \in Users \cup {None} /\ config' = config
  BY UserTyped DEF TypeInv, SharedTypeOK, AuthEffect
<1>2. Kept(c) /\ Fits(c)
  BY KeptTyped DEF TypeInv
<1>3. \A x \in Configs : x # NoConfig
  BY RealConfigs
<1>4. pc[c] \in AuthStepNames =>
        /\ req[c] \in AuthRequests \cup SetupRequests /\ req[c] \in Requests
        /\ FitsRequest(pc[c], req[c])
  <2>1. AuthStepNames \subseteq AuthSteps
    BY AdcStepNames DEF AuthStepNames, AuthSteps, ContextSteps
  <2>2. FitsRequest(pc[c], req[c])
    BY <1>2 DEF Fits
  <2>3. pc[c] \in AuthStepNames => req[c] \in AuthRequests \cup SetupRequests /\ pc[c] # "idle"
    BY <2>1, <2>2 DEF FitsRequest, AuthStepNames
  <2>4. QED
    BY <2>2, <2>3 DEF FitsRequest
<1>5. ASSUME NEW x \in Configs, configs' = [configs EXCEPT ![active] = x], UNCHANGED <<active, adc>>
      PROVE  /\ configs' \in [Configurations -> Configs \cup {NoConfig}]
             /\ active' \in Configurations /\ configs'[active'] # NoConfig
             /\ adc' \in Users \cup {None}
  BY <1>1, <1>3, <1>5
<1>6. CASE ActivateEffect(c)
  <2>1. req[c].config \in Configurations
    BY <1>4, <1>6 DEF ActivateEffect, AuthStepNames, FitsRequest
  <2>2. QED
    BY <1>1, <1>6, <2>1 DEF ActivateEffect
<1>7. CASE CreateEffect(c)
  <2>1. req[c].config \in Configurations
    BY <1>4, <1>7, RequestFields DEF CreateEffect, AuthStepNames, FitsRequest
  <2>2. [account |-> None, project |-> None] \in Configs
    BY DEF Configs
  <2>3. QED
    BY <1>1, <1>3, <1>7, <2>1, <2>2 DEF CreateEffect
<1>8. CASE LoginEffect(c)
  <2>1. PICK u \in Users : configs' = [configs EXCEPT ![active] = [configs[active] EXCEPT !.account = u]]
    BY <1>1, <1>8 DEF LoginEffect
  <2>2. [configs[active] EXCEPT !.account = u] \in Configs
    BY <1>1 DEF Configs
  <2>3. QED
    BY <1>1, <1>5, <1>8, <2>1, <2>2 DEF LoginEffect
<1>9. CASE SetAccountEffect(c)
  <2> DEFINE u == IF req[c].account # None THEN req[c].account ELSE ctx[c].account
  <2>1. u \in Users \cup {None}
    BY <1>2, <1>4, <1>9, RequestFields
       DEF SetAccountEffect, AuthStepNames, FitsRequest, Kept, Contexts
  <2>2. configs' = [configs EXCEPT ![active] = [configs[active] EXCEPT !.account = u]]
    BY <1>1, <1>9 DEF SetAccountEffect
  <2> HIDE DEF u
  <2>3. [configs[active] EXCEPT !.account = u] \in Configs
    BY <1>1, <2>1 DEF Configs
  <2>4. QED
    BY <1>1, <1>5, <1>9, <2>2, <2>3 DEF SetAccountEffect
<1>10. CASE SetProjectEffect(c)
  <2>1. ChosenProject(c) \in Projects \cup {None}
    BY <1>2, <1>4, <1>10, RequestFields
       DEF SetProjectEffect, AuthStepNames, FitsRequest, Kept, Contexts, ChosenProject
  <2>2. configs' = [configs EXCEPT ![active] = [configs[active] EXCEPT !.project = ChosenProject(c)]]
    BY <1>1, <1>10 DEF SetProjectEffect
  <2>3. [configs[active] EXCEPT !.project = ChosenProject(c)] \in Configs
    BY <1>1, <2>1 DEF Configs
  <2>4. QED
    BY <1>1, <1>5, <1>10, <2>2, <2>3 DEF SetProjectEffect
<1>11. CASE AdcLoginEffect(c)
  BY <1>1, <1>11 DEF AdcLoginEffect
<1>12. QED
  BY <1>1, <1>6, <1>7, <1>8, <1>9, <1>10, <1>11 DEF AuthEffect

LEMMA AuthShared ==
  ASSUME TypeInv, NEW c \in Clients, AuthStep(c) \/ AuthFault(c)
  PROVE  SharedTypeOK'
<1>1. UNCHANGED <<cloud, server, open, task, asked, granted, grants>>
  BY AuthTraced DEF consent, opened, sessions
<1>2. \/ UNCHANGED machine \/ AuthEffect(c)
      \/ (SaveConfig(c) \/ Logout(c)) /\ UNCHANGED <<configs, active, adc>>
  BY DEF AuthStep, AuthFault, ReadContext, Remember, ReadAdc, ReadAdcWith, CallGcloud,
         ActivateRefused, CreateRefused, ListProjects, CheckCli, SaveConfig, Logout,
         ReadContextBlind, ReadAdcBlind, ListProjectsBlind, NoCli, AttemptFails, AuthCallFails,
         LogoutFails
<1>3. ASSUME SaveConfig(c) \/ Logout(c) PROVE config' \in Configs \cup {NoConfig}
  <2>1. CASE Logout(c)
    BY <2>1 DEF Logout
  <2>2. CASE SaveConfig(c)
    <3>1. pc[c] = "save" /\ Kept(c) /\ FitsRequest(pc[c], req[c])
      BY <2>2, KeptTyped DEF SaveConfig, TypeInv, Fits
    <3>2. "save" \in AuthSteps
      BY DEF AuthSteps
    <3>3. req[c] \in AuthRequests \cup SetupRequests /\ req[c].cmd = "setup"
      BY <3>1, <3>2 DEF FitsRequest
    <3>4. /\ ctx[c].account \in Users \cup {None}
          /\ (IF req[c].project # None THEN req[c].project ELSE ctx[c].project)
               \in Projects \cup {None}
      BY <3>1, <3>3, RequestFields DEF Kept, Contexts
    <3>5. QED
      BY <2>2, <3>4 DEF SaveConfig, Configs
  <2>3. QED
    BY <1>3, <2>1, <2>2
<1>4. CASE UNCHANGED machine
  BY <1>1, <1>4 DEF TypeInv, SharedTypeOK, cloud, machine, server
<1>5. CASE AuthEffect(c)
  BY <1>1, <1>5, EffectTyped DEF TypeInv, SharedTypeOK, cloud, server
<1>6. CASE (SaveConfig(c) \/ Logout(c)) /\ UNCHANGED <<configs, active, adc>>
  BY <1>1, <1>3, <1>6 DEF TypeInv, SharedTypeOK, cloud, server
<1>7. QED
  BY <1>2, <1>4, <1>5, <1>6

LEMMA FateShared ==
  ASSUME TypeInv, NEW c \in Clients, Finish(c) \/ Kill(c) \/ \E r \in Requests : Start(c, r)
  PROVE  SharedTypeOK'
<1>1. UNCHANGED <<cloud, machine, server, consent>>
  BY DEF Finish, Kill, Leave, Start
<1>2. /\ open' \subseteq open
      /\ task' = task \/ task' = [task EXCEPT ![c] = NoTasks]
  BY DEF Finish, Kill, Leave, Start, opened, sessions
<1>3. NoTasks \in [Servers -> Tasks]
  BY DEF NoTasks, Tasks
<1>4. open' \subseteq Clients \X Servers /\ task' \in [Clients -> [Servers -> Tasks]]
  BY <1>2, <1>3 DEF TypeInv, SharedTypeOK
<1>5. QED
  BY <1>1, <1>4 DEF TypeInv, SharedTypeOK, cloud, machine, server, consent

\* The sessions of the other commands are where they were.
LEMMA OtherSessions ==
  ASSUME TypeInv, NEW c \in Clients, Moved(c), SessionsOpen(c)',
         \A d \in Clients \ {c} : task'[d] = task[d]
                              /\ \A s \in Servers : <<d, s>> \in open => <<d, s>> \in open'
  PROVE  \A d \in Clients : SessionsOpen(d)'
<1>1. ASSUME NEW d \in Clients, d # c PROVE SessionsOpen(d)'
  <2>1. pc'[d] = pc[d] /\ req'[d] = req[d]
    BY <1>1 DEF Moved, TypeInv, ClientTypeOK
  <2>2. SessionsOpen(d) /\ FitsRequest(pc[d], req[d])
    BY DEF TypeInv, Fits
  <2>3. ASSUME pc[d] \in InSession PROVE Server(d) \in Servers
    <3>1. req[d] \in GatewayRequests /\ req[d].cmd = "gateway.call"
      BY <2>2, <2>3 DEF FitsRequest, InSession, GatewaySteps
    <3>2. QED
      BY <3>1, RequestFields DEF Server
  <2>4. Server(d)' = Server(d)
    BY <2>1 DEF Server
  <2>5. QED
    BY <1>1, <2>1, <2>2, <2>3, <2>4 DEF SessionsOpen
<1>2. QED
  BY <1>1

\* A command that is no gateway command has no session.
LEMMA QuietSessions ==
  ASSUME TypeInv, NEW c \in Clients, Moved(c), Traced(c), UNCHANGED sessions,
         pc[c] \in SecretSteps \cup ProjectSteps \cup AuthSteps
  PROVE  \A d \in Clients : SessionsOpen(d)'
<1>1. /\ FitsRequest(pc[c], req[c]) /\ FitsRequest(pc'[c], req[c]) /\ req'[c] = req[c]
      /\ SessionsOpen(c)
  BY DEF TypeInv, Fits, Moved, Traced
<1>2. req[c].cmd \notin GatewayCmds
  BY <1>1, CmdKinds DEF FitsRequest, SecretCmds, ProjectCmds, AuthCmds, GatewayCmds
<1>3. pc'[c] \notin InSession
  BY <1>1, <1>2, CmdKinds DEF FitsRequest, InSession, GatewaySteps
<1>4. \A s \in Servers : task[c][s] = "none"
  BY <1>1, <1>2 DEF SessionsOpen, GatewayCmds
<1>5. SessionsOpen(c)'
  BY <1>3, <1>4 DEF SessionsOpen, sessions
<1>6. QED
  BY <1>5, OtherSessions DEF sessions

LEMMA GatewaySessions ==
  ASSUME TypeInv, NEW c \in Clients, GatewayStep(c) \/ GatewayFault(c)
  PROVE  \A d \in Clients : SessionsOpen(d)'
<1>1. /\ Moved(c) /\ Kept(c) /\ SessionsOpen(c) /\ req' = req
      /\ open \subseteq Clients \X Servers /\ task \in [Clients -> [Servers -> Tasks]]
      /\ FitsRequest(pc[c], req[c])
  BY GatewayMoves, GatewayTraced, KeptTyped DEF TypeInv, SharedTypeOK, Traced, Fits
<1>2. Server(c)' = Server(c)
  BY <1>1 DEF Server
<1>3. pc[c] \notin {"sessions", "failed"} => \A s \in Servers : task[c][s] = "none"
  BY <1>1 DEF SessionsOpen
<1>4. ASSUME UNCHANGED sessions,
             pc[c] \notin {"sessions", "failed"},
             pc'[c] \in InSession => pc[c] \in InSession
      PROVE  \A d \in Clients : SessionsOpen(d)'
  <2>1. SessionsOpen(c)'
    BY <1>1, <1>2, <1>3, <1>4 DEF SessionsOpen, sessions
  <2>2. QED
    BY <1>1, <1>4, <2>1, OtherSessions DEF sessions
<1>5. CASE ReadProfile(c) \/ InvalidRegistry(c) \/ ReadRegistry(c) \/ ReadGate(c) \/ ListTools(c)
           \/ CallTool(c) \/ LogFailure(c)
  <2>1. /\ UNCHANGED sessions /\ pc[c] \notin {"sessions", "failed"}
        /\ pc'[c] \in InSession => pc[c] \in InSession
    BY <1>1, <1>5 DEF ReadProfile, InvalidRegistry, ReadRegistry, ReadGate, ListTools, CallTool,
                      LogFailure, opened, Goto, Kept, InSession
  <2>2. QED
    BY <1>4, <2>1
<1>6. CASE SessionFails(c) \/ CloseFails(c) \/ GatewayCallFails(c)
  <2>1. /\ UNCHANGED sessions /\ pc[c] \notin {"sessions", "failed"}
        /\ pc'[c] \in InSession => pc[c] \in InSession
    BY <1>1, <1>6 DEF SessionFails, CloseFails, GatewayCallFails, AfterSessionError, opened, Goto,
                      Kept, InSession
  <2>2. QED
    BY <1>4, <2>1
<1>7. CASE Connect(c)
  <2>1. /\ pc[c] = "connect" /\ pc'[c] = "tools" /\ open' = open \cup {<<c, Server(c)>>}
        /\ task' = task
    BY <1>1, <1>7 DEF Connect, Goto, Kept
  <2>2. SessionsOpen(c)'
    BY <1>2, <1>3, <2>1 DEF SessionsOpen
  <2>3. QED
    BY <1>1, <2>1, <2>2, OtherSessions
<1>8. CASE Close(c)
  <2>1. /\ pc[c] \in {"close", "refuse", "abandon"} /\ pc'[c] \in {"done", "blocked", "fail"}
        /\ open' = open \ {<<c, Server(c)>>} /\ task' = task
    BY <1>1, <1>8 DEF Close, Goto, Kept
  <2>2. SessionsOpen(c)'
    BY <1>3, <2>1 DEF SessionsOpen, InSession
  <2>3. QED
    BY <1>1, <2>1, <2>2, OtherSessions
<1>9. CASE ReadRegistryForAudit(c)
  <2>1. /\ pc[c] = "registry" /\ pc'[c] \in {"sessions", "done"} /\ open' = open
        /\ req'[c].cmd = "gateway.audit"
        /\ \/ task' = task
           \/ /\ pc'[c] = "sessions"
              /\ task' = [task EXCEPT ![c] = [s \in Servers |->
                            IF registry.status[s] = "enabled" THEN "connect" ELSE "none"]]
    BY <1>1, <1>9 DEF ReadRegistryForAudit, Goto, Kept
  <2>2. SessionsOpen(c)'
    BY <1>1, <1>3, <2>1 DEF SessionsOpen, InSession
  <2>3. QED
    BY <1>1, <2>1, <2>2, OtherSessions
<1>10. CASE AuditEnds(c)
  <2>1. /\ pc'[c] = "done" /\ UNCHANGED sessions /\ \A s \in Servers : task[c][s] = "none"
    BY <1>1, <1>10 DEF AuditEnds, Goto, Kept, opened, NoTasks
  <2>2. SessionsOpen(c)'
    BY <2>1 DEF SessionsOpen, InSession, sessions
  <2>3. QED
    BY <1>1, <2>1, <2>2, OtherSessions DEF sessions
<1>11. ASSUME NEW s \in Servers, NEW step \in Tasks, task[c][s] # "none",
              task' = [task EXCEPT ![c][s] = step],
              UNCHANGED <<pc, tries>> \/ Goto(c, "failed"),
              \A d \in Clients, t \in Servers :
                <<d, t>> # <<c, s>> /\ <<d, t>> \in open => <<d, t>> \in open',
              step \notin {"none", "connect"} => <<c, s>> \in open'
       PROVE  \A d \in Clients : SessionsOpen(d)'
  <2>1. pc[c] \in {"sessions", "failed"} /\ req[c].cmd = "gateway.audit"
    BY <1>1, <1>11 DEF SessionsOpen
  <2>2. pc'[c] \in {"sessions", "failed"}
    BY <1>1, <1>11, <2>1 DEF Goto, Kept
  <2>3. ASSUME NEW t \in Servers, task'[c][t] # "none", task'[c][t] # "connect"
        PROVE  <<c, t>> \in open'
    <3>1. CASE t = s
      BY <1>1, <1>11, <2>3, <3>1
    <3>2. CASE t # s
      BY <1>1, <1>11, <2>3, <3>2 DEF SessionsOpen
    <3>3. QED
      BY <3>1, <3>2
  <2>4. SessionsOpen(c)'
    BY <1>1, <2>1, <2>2, <2>3 DEF SessionsOpen, InSession
  <2>5. QED
    BY <1>1, <1>11, <2>4, OtherSessions
<1>12. ASSUME NEW s \in Servers, SessionConnects(c, s) PROVE \A d \in Clients : SessionsOpen(d)'
  BY <1>11, <1>12 DEF SessionConnects, Turn, Stay, Tasks
<1>13. ASSUME NEW s \in Servers, SessionLists(c, s) \/ SessionBreaks(c, s)
       PROVE  \A d \in Clients : SessionsOpen(d)'
  <2>1. PICK step \in Tasks :
          /\ task[c][s] # "none" /\ task' = [task EXCEPT ![c][s] = step]
          /\ UNCHANGED <<pc, tries>> \/ Goto(c, "failed")
          /\ open' = open
          /\ step # "none" => task[c][s] = "tools"
    BY <1>13 DEF SessionLists, SessionBreaks, Turn, Stay, Tasks, AfterListError
  <2>2. step # "none" => <<c, s>> \in open
    BY <1>1, <2>1 DEF SessionsOpen
  <2>3. QED
    BY <1>11, <2>1, <2>2
<1>14. ASSUME NEW s \in Servers, SessionCloses(c, s) PROVE \A d \in Clients : SessionsOpen(d)'
  <2>1. /\ task[c][s] # "none" /\ task' = [task EXCEPT ![c][s] = "none"] /\ "none" \in Tasks
        /\ UNCHANGED <<pc, tries>> \/ Goto(c, "failed")
        /\ open' = open \ {<<c, s>>}
    BY <1>14 DEF SessionCloses, Turn, Stay, Tasks
  <2>2. QED
    BY <1>11, <2>1
<1>15. QED
  BY <1>5, <1>6, <1>7, <1>8, <1>9, <1>10, <1>12, <1>13, <1>14 DEF GatewayStep, GatewayFault

LEMMA FateSessions ==
  ASSUME TypeInv, NEW c \in Clients, Finish(c) \/ Kill(c) \/ \E r \in Requests : Start(c, r)
  PROVE  \A d \in Clients : SessionsOpen(d)'
<1>1. SessionsOpen(c) /\ Kept(c) /\ task \in [Clients -> [Servers -> Tasks]]
  BY KeptTyped DEF TypeInv, SharedTypeOK
<1>2. CASE Finish(c) \/ Kill(c)
  <2>1. /\ Moved(c) /\ pc'[c] = "idle" /\ task' = [task EXCEPT ![c] = NoTasks]
        /\ open' = open \ ({c} \X Servers)
    BY <1>1, <1>2, LeaveMoves DEF Finish, Kill, Leave, Goto, Kept
  <2>2. SessionsOpen(c)'
    BY <1>1, <2>1 DEF SessionsOpen, InSession, NoTasks
  <2>3. QED
    BY <1>1, <2>1, <2>2, OtherSessions
<1>3. ASSUME NEW r \in Requests, Start(c, r) PROVE \A d \in Clients : SessionsOpen(d)'
  <2>1. /\ Moved(c) /\ pc[c] = "idle" /\ pc'[c] = FirstStep(r) /\ UNCHANGED sessions
        /\ r.cmd \in SecretCmds \cup ProjectCmds \cup AuthCmds \cup GatewayCmds \cup {"setup"}
    BY <1>1, <1>3, StartMoves, CmdKinds DEF Start, Goto, Kept, opened
  <2>2. FirstStep(r) \notin InSession
    BY <2>1 DEF FirstStep, InSession, SecretCmds, ProjectCmds, AuthCmds, GatewayCmds
  <2>3. SessionsOpen(c)'
    BY <1>1, <2>1, <2>2 DEF SessionsOpen, sessions
  <2>4. QED
    BY <2>1, <2>3, OtherSessions DEF sessions
<1>4. QED
  BY <1>2, <1>3

LEMMA PeopleTyped ==
  ASSUME TypeInv, People
  PROVE  TypeInv'
<1>1. UNCHANGED <<pc, local, tries, opened>>
  BY DEF People, HandLifecycle, HandBilling, HandOwner, HandSecret, HandAccount, HandTool,
         HandRegistry, HandSpoil, ByHand, Grant
<1>2. ClientTypeOK' /\ \A c \in Clients : Fits(c)' /\ SessionsOpen(c)'
  BY <1>1 DEF TypeInv, ClientTypeOK, Fits, SessionsOpen, Server, local, opened, sessions
<1>3. SharedTypeOK'
  <2>1. CASE \E p \in HandProjects : HandLifecycle(p)
    BY <2>1 DEF HandLifecycle, ByHand, TypeInv, SharedTypeOK, LifecycleStates, machine, server,
                consent, opened, sessions
  <2>2. CASE \E p \in HandProjects : HandBilling(p)
    <3>1. billed' \subseteq Projects
      BY <2>2, SessionAssumption DEF HandBilling, SessionAssumption, TypeInv, SharedTypeOK
    <3>2. QED
      BY <2>2, <3>1 DEF HandBilling, ByHand, TypeInv, SharedTypeOK, machine, server, consent,
                        opened, sessions
  <2>3. CASE \E p \in HandProjects, u \in Users : HandOwner(p, u)
    <3>1. owners' \subseteq Projects \X Users
      BY <2>3, SessionAssumption DEF HandOwner, SessionAssumption, TypeInv, SharedTypeOK
    <3>2. QED
      BY <2>3, <3>1 DEF HandOwner, ByHand, TypeInv, SharedTypeOK, machine, server, consent, opened,
                        sessions
  <2>4. CASE \E n \in SecretNames : HandSecret(n)
    BY <2>4 DEF HandSecret, ByHand, TypeInv, SharedTypeOK, machine, server, consent, opened,
                sessions
  <2>5. CASE \E u \in Users : HandAccount(u)
    <3>1. PICK u \in Users : /\ HandAccount(u)
                             /\ configs' = [configs EXCEPT ![active] = [configs[active] EXCEPT !.account = u]]
      BY <2>5 DEF HandAccount, TypeInv, SharedTypeOK
    <3>2. [configs[active] EXCEPT !.account = u] \in Configs
      BY UserTyped DEF Configs, TypeInv
    <3>3. /\ configs' \in [Configurations -> Configs \cup {NoConfig}]
          /\ configs'[active] # NoConfig
      BY <3>1, <3>2, RealConfigs DEF TypeInv, SharedTypeOK
    <3>4. QED
      BY <3>1, <3>3 DEF HandAccount, ByHand, TypeInv, SharedTypeOK, cloud, server, consent, opened,
                        sessions
  <2>6. CASE \E s \in Servers, t \in Tools, what \in {"none", "safe", "destructive"} :
               HandTool(s, t, what)
    BY <2>6 DEF HandTool, ByHand, TypeInv, SharedTypeOK, cloud, machine, consent, opened, sessions
  <2>7. CASE HandSpoil \/ \E s \in Servers, status \in {"absent", "disabled", "enabled"} :
                            HandRegistry(s, status)
    <3>1. registry' \in Downstream
      <4>1. registry \in Downstream
        BY DEF TypeInv, SharedTypeOK
      <4>2. CASE HandSpoil
        BY <4>1, <4>2 DEF HandSpoil, Downstream
      <4>3. CASE \E s \in Servers, status \in {"absent", "disabled", "enabled"} :
                     HandRegistry(s, status)
        BY <4>1, <4>3 DEF HandRegistry, Downstream
      <4>4. QED
        BY <2>7, <4>2, <4>3
    <3>2. QED
      BY <2>7, <3>1 DEF HandRegistry, HandSpoil, ByHand, TypeInv, SharedTypeOK, cloud, machine,
                        consent, opened, sessions
  <2>8. CASE \E request \in asked : Grant(request)
    <3>1. PICK request \in Asks :
            /\ asked' \subseteq asked
            /\ granted' = granted \cup {[of |-> request, number |-> grants + 1]}
            /\ grants' = grants + 1
            /\ UNCHANGED <<cloud, machine, server>>
      BY <2>8 DEF Grant, TypeInv, SharedTypeOK
    <3>2. [of |-> request, number |-> grants + 1] \in Approvals
      BY DEF Approvals, TypeInv, SharedTypeOK
    <3>3. UNCHANGED sessions
      BY <1>1 DEF opened
    <3>4. QED
      BY <3>1, <3>2, <3>3 DEF TypeInv, SharedTypeOK, cloud, machine, server, sessions
  <2>9. QED
    BY <2>1, <2>2, <2>3, <2>4, <2>5, <2>6, <2>7, <2>8 DEF People
<1>4. QED
  BY <1>2, <1>3 DEF TypeInv

-----------------------------------------------------------------------------

LEMMA TypeInit == Init => TypeInv
<1> SUFFICES ASSUME Init PROVE TypeInv
  OBVIOUS
<1>1. PICK b \in Beginnings :
        /\ billed = b.billed /\ owners = b.owners
        /\ configs = b.configs /\ active = b.active
        /\ registry = b.registry /\ granted = b.granted
  BY DEF Init
<1>2. /\ b.billed \subseteq Projects /\ b.owners \subseteq Projects \X Users
      /\ b.configs \in [Configurations -> Configs \cup {NoConfig}]
      /\ b.active \in Configurations /\ b.configs[b.active] # NoConfig
      /\ b.registry \in Downstream /\ b.granted \subseteq Approvals
  BY SessionAssumption DEF SessionAssumption
<1>3. grants \in Nat
  <2>1. \E x \in Beginnings : grants = Cardinality(x.granted)
    BY DEF Init
  <2>2. QED
    BY <2>1, SessionAssumption, FS_CardinalityType DEF SessionAssumption
<1>10. SharedTypeOK
  BY <1>1, <1>2, <1>3 DEF Init, SharedTypeOK, LifecycleStates, NoTasks, Tasks
<1>4. NoContext \in Contexts /\ NoLook \in Looks
  BY DEF NoContext, Contexts, Looks
<1>5. ClientTypeOK
  BY <1>4 DEF Init, ClientTypeOK, AllSteps
<1>6. FitsMemory("idle", NoRequest, NoLook, None, NoContext, None, None, 0)
  BY PlainMemory DEF AfterDescribe
<1>7. FitsRequest("idle", NoRequest)
  BY AdcStepNames
     DEF FitsRequest, SecretSteps, ProjectSteps, AuthSteps, GatewaySteps, ContextSteps
<1>8. ASSUME NEW c \in Clients PROVE Fits(c) /\ SessionsOpen(c)
  <2>1. /\ pc[c] = "idle" /\ req[c] = NoRequest /\ look[c] = NoLook /\ acct[c] = None
        /\ ctx[c] = NoContext /\ pick[c] = None /\ using[c] = None /\ tries[c] = 0
        /\ \A s \in Servers : task[c][s] = "none"
    BY DEF Init, NoTasks
  <2>2. QED
    BY <1>6, <1>7, <2>1 DEF Fits, SessionsOpen, InSession
<1>9. QED
  BY <1>5, <1>8, <1>10 DEF TypeInv

LEMMA TypeNext == TypeInv /\ [Next]_vars => TypeInv'
<1> SUFFICES ASSUME TypeInv, [Next]_vars PROVE TypeInv'
  OBVIOUS
<1>1. ASSUME NEW c \in Clients, Moved(c), SharedTypeOK', \A d \in Clients : SessionsOpen(d)'
      PROVE  TypeInv'
  BY <1>1, MovedFits DEF TypeInv
<1>2. ASSUME NEW c \in Clients, Step(c) \/ Misfortune(c) PROVE TypeInv'
  <2>1. CASE SecretStep(c) \/ SecretFault(c)
    <3>1. Moved(c) /\ Traced(c) /\ UNCHANGED sessions
      BY <2>1, SecretMoves, SecretTraced DEF opened
    <3>2. pc[c] \in SecretSteps \cup ProjectSteps \cup AuthSteps
      BY <2>1, OwnGuards
    <3>3. QED
      BY <1>1, <2>1, <3>1, <3>2, SecretShared, QuietSessions
  <2>2. CASE ProjectStep(c) \/ ProjectFault(c)
    <3>1. Moved(c) /\ Traced(c) /\ UNCHANGED sessions
      BY <2>2, ProjectMoves, ProjectTraced DEF opened
    <3>2. pc[c] \in SecretSteps \cup ProjectSteps \cup AuthSteps
      BY <2>2, OwnGuards
    <3>3. QED
      BY <1>1, <2>2, <3>1, <3>2, ProjectShared, QuietSessions
  <2>3. CASE AuthStep(c) \/ AuthFault(c)
    <3>1. Moved(c) /\ Traced(c) /\ UNCHANGED sessions
      BY <2>3, AuthMoves, AuthTraced DEF opened
    <3>2. pc[c] \in SecretSteps \cup ProjectSteps \cup AuthSteps
      BY <2>3, OwnGuards
    <3>3. QED
      BY <1>1, <2>3, <3>1, <3>2, AuthShared, QuietSessions
  <2>4. CASE GatewayStep(c) \/ GatewayFault(c)
    BY <1>1, <2>4, GatewayMoves, GatewayShared, GatewaySessions
  <2>5. CASE Finish(c) \/ Kill(c)
    BY <1>1, <2>5, LeaveMoves, FateShared, FateSessions
  <2>6. QED
    BY <1>2, <2>1, <2>2, <2>3, <2>4, <2>5 DEF Step, Misfortune
<1>3. ASSUME NEW c \in Clients, NEW r \in Requests, Start(c, r) PROVE TypeInv'
  BY <1>1, <1>3, StartMoves, FateShared, FateSessions
<1>4. CASE UNCHANGED vars
  BY <1>4 DEF vars, cloud, machine, server, opened, consent, local, TypeInv, SharedTypeOK,
              ClientTypeOK, Fits, SessionsOpen, Server, sessions
<1>5. QED
  BY <1>2, <1>3, <1>4, PeopleTyped DEF Next

LEMMA TypeInvImplies == TypeInv => SessionTypeOK
<1> SUFFICES ASSUME TypeInv, NEW c \in Clients
             PROVE  /\ SharedTypeOK
                    /\ IF pc[c] = "idle" THEN req[c] = NoRequest
                       ELSE req[c] \in Requests /\ pc[c] \in OwnSteps(req[c]) \cup Ends
                    /\ saw[c] \in BOOLEAN /\ look[c] \in Looks /\ acct[c] \in Accounts \cup {None}
                    /\ ctx[c] \in Contexts /\ pick[c] \in Projects \cup {None}
                    /\ pc[c] \in {"roles", "approve", "consume", "delete", "undelete"} =>
                         acct[c] # None
                    /\ pc[c] \in {"consume", "delete", "undelete"} => using[c] \in Approvals
                    /\ pc[c] = "set-project" => ChosenProject(c) # None
                    /\ pc[c] \in {"tools", "call", "close", "refuse", "abandon"} =>
                         <<c, Server(c)>> \in open
                    /\ \A s \in Servers :
                         task[c][s] \in {"tools", "close", "abandon"} =>
                           pc[c] \in {"sessions", "failed"} /\ <<c, s>> \in open
                    /\ tries[c] < MaxAttempts /\ (tries[c] > 0 => Retried(c))
  BY DEF SessionTypeOK, TypeInv
<1>1. Kept(c) /\ FitsRequest(pc[c], req[c])
      /\ FitsMemory(pc[c], req[c], look[c], acct[c], ctx[c], pick[c], using[c], tries[c])
      /\ SessionsOpen(c) /\ SharedTypeOK
  BY KeptTyped DEF TypeInv, Fits
<1>2. pc[c] = "idle" => req[c] = NoRequest
  BY <1>1 DEF FitsRequest
<1>3. ASSUME pc[c] # "idle" PROVE req[c] \in Requests /\ pc[c] \in OwnSteps(req[c]) \cup Ends
  <2>1. req[c] \in Requests
    BY <1>1, <1>3 DEF FitsRequest
  <2>2. CASE pc[c] \in SecretSteps
    <3>1. req[c] \in SecretRequests
      BY <1>1, <2>2 DEF FitsRequest
    <3>2. OwnSteps(req[c]) = SecretSteps
      BY <3>1, CmdKinds DEF OwnSteps, SecretCmds, ProjectCmds, AuthCmds, GatewayCmds
    <3>3. QED
      BY <2>1, <2>2, <3>2
  <2>3. CASE pc[c] \in ProjectSteps
    <3>1. req[c] \in ProjectRequests
      BY <1>1, <2>3 DEF FitsRequest
    <3>2. OwnSteps(req[c]) = ProjectSteps
      BY <3>1, CmdKinds DEF OwnSteps, SecretCmds, ProjectCmds, AuthCmds, GatewayCmds
    <3>3. QED
      BY <2>1, <2>3, <3>2
  <2>4. CASE pc[c] \in AuthSteps
    <3>1. req[c] \in AuthRequests \cup SetupRequests
      BY <1>1, <2>4 DEF FitsRequest
    <3>2. OwnSteps(req[c]) = AuthSteps
      BY <3>1, CmdKinds DEF OwnSteps, SecretCmds, ProjectCmds, AuthCmds, GatewayCmds
    <3>3. QED
      BY <2>1, <2>4, <3>2
  <2>5. CASE pc[c] \in GatewaySteps
    <3>1. req[c] \in GatewayRequests
      BY <1>1, <2>5 DEF FitsRequest
    <3>2. OwnSteps(req[c]) = GatewaySteps
      BY <3>1, CmdKinds DEF OwnSteps, SecretCmds, ProjectCmds, AuthCmds, GatewayCmds
    <3>3. QED
      BY <2>1, <2>5, <3>2
  <2>6. QED
    BY <1>1, <1>3, <2>1, <2>2, <2>3, <2>4, <2>5 DEF Kept, AllSteps
<1>4. /\ pc[c] \in {"roles", "approve", "consume", "delete", "undelete"} => acct[c] # None
      /\ pc[c] \in {"consume", "delete", "undelete"} => using[c] \in Approvals
      /\ pc[c] = "set-project" => ChosenProject(c) # None
      /\ tries[c] < MaxAttempts /\ (tries[c] > 0 => Retried(c))
  BY <1>1 DEF FitsMemory, ChosenProject, Retried, RetriedAt
<1>5. QED
  BY <1>1, <1>2, <1>3, <1>4 DEF Kept, SessionsOpen, InSession

\* However commands interleave, fail, are killed and are disturbed by people, each is
\* at a step of its own with what the step needs, and only the calls of execGcloud are
\* at another attempt (secret.ts, project.ts, auth.ts, setup.ts, gateway.ts).
THEOREM SessionTyped == Spec => []SessionTypeOK
<1>1. Spec => []TypeInv
  BY TypeInit, TypeNext, PTL DEF Spec
<1>2. QED
  BY <1>1, TypeInvImplies, PTL

-----------------------------------------------------------------------------

(* Value files. *)

Leaks == {"prepare", "clean", "unwind"}

\* A value file is that of a command that writes or cleans up, or was left by a fault.
FileAt(c) == c \in files /\ pc[c] \notin {"write", "clean", "unwind"} => faulted[c] \cap Leaks # {}

\* Nothing goes wrong without a fault that is counted.
FaultsCounted ==
  /\ \A c \in Clients : faulted[c] # {} => faults > 0
  /\ stray # {} => faults > 0

FileInv == FaultsCounted /\ \A c \in Clients : FileAt(c)

LEMMA FileInit == Init => FileInv
  BY DEF Init, FileInv, FileAt, FaultsCounted

LEMMA SecretFiles ==
  ASSUME TypeInv, TraceOK, NEW c \in Clients, FileAt(c), SecretStep(c) \/ SecretFault(c)
  PROVE  FileAt(c)' /\ \A d \in Clients \ {c} : d \in files' => d \in files
<1>1. /\ Traced(c) /\ faulted[c] \subseteq faulted'[c]
      /\ pc = [d \in Clients |-> pc[d]] /\ faulted = [d \in Clients |-> faulted[d]]
  BY SecretTraced, TracedKept, KeptTyped DEF Kept, TraceOK
<1>2. CASE SecretGate(c) \/ ListSecrets(c) \/ SecretExists(c) \/ PrepareDataFile(c) \/ WriteSecret(c)
           \/ WriteRefused(c)
  <2>1. /\ files' = files \/ (pc[c] = "prepare" /\ files' = files \cup {c} /\ Goto(c, "write"))
        /\ \/ pc[c] \notin {"write", "clean", "unwind"}
           \/ Goto(c, "clean") \/ Goto(c, "unwind")
    BY <1>2 DEF SecretGate, ListSecrets, SecretExists, PrepareDataFile, WriteSecret, WriteRefused,
                AfterWriteError, opened
  <2>2. QED
    BY <1>1, <2>1 DEF FileAt, Goto
<1>3. CASE CleanUp(c) \/ RemoveSecret(c) \/ RemoveRefused(c) \/ SecretNoLogin(c)
  <2>1. /\ files' = files \/ files' = files \ {c}
        /\ c \in files' => pc[c] \notin {"write", "clean", "unwind"}
    BY <1>3 DEF CleanUp, RemoveSecret, RemoveRefused, SecretNoLogin, opened
  <2>2. QED
    BY <1>1, <2>1 DEF FileAt
<1>4. CASE SecretFault(c)
  <2>1. faulted' = [faulted EXCEPT ![c] = faulted[c] \cup {pc[c]}]
    BY <1>4 DEF SecretFault, PrepareFails, WriteFails, CleanUpFails, SecretCallFails, Fault, FaultAt
  <2>2. pc[c] \in faulted'[c]
    BY <1>1, <2>1
  <2>3. CASE PrepareFails(c)
    BY <2>2, <2>3 DEF PrepareFails, FileAt, Leaks
  <2>4. CASE WriteFails(c)
    <3>1. pc'[c] = "unwind" /\ files' = files
      BY <1>1, <2>4 DEF WriteFails, Goto, AfterWriteError, opened
    <3>2. QED
      BY <3>1 DEF FileAt
  <2>5. CASE CleanUpFails(c)
    BY <2>2, <2>5 DEF CleanUpFails, FileAt, Leaks, opened
  <2>6. CASE SecretCallFails(c)
    <3>1. pc[c] \notin {"write", "clean", "unwind"} /\ files' = files
      BY <2>6 DEF SecretCallFails, opened
    <3>2. QED
      BY <1>1, <3>1 DEF FileAt
  <2>7. QED
    BY <1>4, <2>3, <2>4, <2>5, <2>6 DEF SecretFault
<1>5. QED
  BY <1>2, <1>3, <1>4 DEF SecretStep

LEMMA FileNext == TypeInv /\ TraceOK /\ FileInv /\ [Next]_vars => FileInv'
<1> SUFFICES ASSUME TypeInv, TraceOK, FileInv, [Next]_vars PROVE FileInv'
  OBVIOUS
<1>1. ASSUME NEW c \in Clients, Moved(c), FileAt(c)', FaultsCounted',
             \A d \in Clients \ {c} : d \in files' => d \in files,
             \A d \in Clients \ {c} : faulted'[d] = faulted[d]
      PROVE  FileInv'
  <2>1. ASSUME NEW d \in Clients, d # c PROVE FileAt(d)'
    <3>1. pc'[d] = pc[d]
      BY <1>1, <2>1 DEF Moved, TypeInv, ClientTypeOK
    <3>2. QED
      BY <1>1, <2>1, <3>1 DEF FileInv, FileAt
  <2>2. QED
    BY <1>1, <2>1 DEF FileInv
<1>2. ASSUME NEW c \in Clients, Traced(c) PROVE FaultsCounted'
  <2>1. /\ faults' \in {faults, faults + 1} /\ faults' \in Nat /\ stray' = stray
        /\ faulted' # faulted => faults' > 0
    BY <1>2, TracedKept DEF TraceOK, Traced
  <2>2. QED
    BY <2>1 DEF FileInv, FaultsCounted, TraceOK
<1>3. ASSUME NEW c \in Clients, SecretStep(c) \/ SecretFault(c) PROVE FileInv'
  BY <1>1, <1>3, <1>2, SecretMoves, SecretFiles, SecretTraced, TracedKept DEF FileInv
<1>4. ASSUME NEW c \in Clients,
             \/ ProjectStep(c) \/ ProjectFault(c) \/ AuthStep(c) \/ AuthFault(c)
             \/ GatewayStep(c) \/ GatewayFault(c)
      PROVE  FileInv'
  <2>1. Traced(c) /\ files' = files /\ Moved(c)
    BY <1>4, ProjectMoves, AuthMoves, GatewayMoves, ProjectTraced, AuthTraced, GatewayTraced
       DEF opened
  <2>2. pc[c] \notin {"write", "clean", "unwind"}
    BY <1>4, OwnGuards DEF SecretSteps
  <2>3. QED
    BY <1>1, <1>2, <2>1, <2>2, TracedKept DEF FileInv, FileAt
<1>5. ASSUME NEW c \in Clients, Finish(c) \/ Kill(c) PROVE FileInv'
  <2>1. Finish(c) /\ c \in files => faulted[c] # {}
    BY DEF Finish, Ends, Leaks, FileInv, FileAt
  <2>2. /\ stray' = stray \cup (files \cap {c}) /\ faults \in Nat
        /\ faults' \in {faults, faults + 1} /\ (Kill(c) => faults' = faults + 1)
        /\ faulted'[c] = {} /\ \A d \in Clients \ {c} : faulted'[d] = faulted[d]
        /\ files' = files \ {c}
    BY <1>5, LeaveTraced DEF TraceOK
  <2>3. FaultsCounted'
    BY <1>5, <2>1, <2>2 DEF FileInv, FaultsCounted
  <2>4. QED
    BY <1>1, <1>5, <2>2, <2>3, LeaveMoves DEF FileAt
<1>6. ASSUME NEW c \in Clients, NEW r \in Requests, Start(c, r) PROVE FileInv'
  <2>1. pc[c] = "idle"
    BY <1>6 DEF Start
  <2>2. QED
    BY <1>1, <1>6, <2>1, StartMoves, StartTraced DEF FileInv, FileAt, FaultsCounted, opened
<1>7. CASE People
  BY <1>7, PeopleTraced DEF FileInv, FileAt, FaultsCounted, opened
<1>8. CASE UNCHANGED vars
  BY <1>8 DEF vars, trace, fate, counts, opened, FileInv, FileAt, FaultsCounted
<1>9. QED
  BY <1>3, <1>4, <1>5, <1>6, <1>7, <1>8 DEF Next, Step, Misfortune

\* The file with a secret's value is gone when the command ends, for any interleaving,
\* unless it could not be written whole or not be removed; and none stays behind without
\* a failing call or a killed process (secret-manager.ts: the finally clause around gcloud).
THEOREM FileGone == Spec => []ValueFileGone
<1>1. FileInv => ValueFileGone
  BY DEF FileInv, FileAt, FaultsCounted, ValueFileGone, Ends, Leaks
<1>2. QED
  BY <1>1, TypeInit, TypeNext, TraceInit, TraceNext, FileInit, FileNext, PTL DEF Spec

-----------------------------------------------------------------------------

(* Gateway commands: their sessions, their log entries, and the tools they reach. *)

CloseSteps == {"close", "refuse", "abandon"}

\* A session is that of a step in it or of an audit that is at it, or would not close.
SessionLeft(c) ==
  /\ \A s \in Servers :
       <<c, s>> \in open =>
         \/ pc[c] \in InSession /\ s = Server(c)
         \/ task[c][s] \notin {"none", "connect"}
         \/ faulted[c] \cap CloseSteps # {}
  /\ faulted[c] \cap CloseSteps # {} => pc[c] \in {"fail", "failed"}

\* What a call has logged so far.
LogAt(c) ==
  /\ pc[c] = "idle" => did[c] = {} /\ logged[c] = {} /\ faulted[c] = {}
  /\ req[c].cmd = "gateway.call" =>
       /\ pc[c] \in {"profile", "registry", "read-gate", "connect", "tools", "call"} =>
            did[c] = {} /\ logged[c] = {} /\ faulted[c] = {}
       /\ pc[c] \in {"close", "done"} => logged[c] = {"success"} \/ "call" \in faulted[c]
       /\ pc[c] \in {"refuse", "blocked"} =>
            logged[c] = {"blocked"} \/ faulted[c] \cap {"registry", "read-gate", "tools"} # {}
       /\ pc[c] = "failed" =>
            \/ "failure" \in logged[c] \/ "fail" \in faulted[c]
            \/ did[c] = {} /\ logged[c] = {} /\ faulted[c] = {}

\* What has been checked on the way to the tool, if nobody changes the servers.
ToolAt(c) ==
  /\ "call" \in did[c] => req[c].cmd = "gateway.call"
  /\ alone[c] /\ req[c].cmd = "gateway.call" =>
       /\ pc[c] \in {"read-gate", "connect", "tools", "call"} \/ "call" \in did[c] =>
            ~DeclarationBlocks(c)
       /\ pc[c] = "call" \/ "call" \in did[c] => ~DiscoveryBlocks(Server(c), Tool(c))

GatewayAt(c) == SessionLeft(c) /\ LogAt(c) /\ ToolAt(c)

GatewayInv == \A c \in Clients : GatewayAt(c)

LEMMA GatewayInit == Init => GatewayInv
  BY DEF Init, GatewayInv, GatewayAt, SessionLeft, LogAt, ToolAt, NoRequest

\* The conditions of the clients that do not move, while the servers stay as they are.
LEMMA GatewayOthers ==
  ASSUME TypeInv, GatewayInv, NEW c \in Clients, Moved(c), GatewayAt(c)',
         \A d \in Clients \ {c} :
           /\ did'[d] = did[d] /\ logged'[d] = logged[d] /\ faulted'[d] = faulted[d]
           /\ alone'[d] => alone[d]
           /\ task'[d] = task[d] /\ \A s \in Servers : <<d, s>> \in open' => <<d, s>> \in open,
         UNCHANGED server
  PROVE  GatewayInv'
<1>1. ASSUME NEW d \in Clients, d # c PROVE GatewayAt(d)'
  <2>1. pc'[d] = pc[d] /\ req'[d] = req[d]
    BY <1>1 DEF Moved, TypeInv, ClientTypeOK
  <2>2. /\ did'[d] = did[d] /\ logged'[d] = logged[d] /\ faulted'[d] = faulted[d]
        /\ alone'[d] => alone[d]
        /\ task'[d] = task[d] /\ \A s \in Servers : <<d, s>> \in open' => <<d, s>> \in open
        /\ registry' = registry /\ offered' = offered
    BY <1>1 DEF server
  <2>3. SessionLeft(d)'
    BY <2>1, <2>2 DEF GatewayInv, GatewayAt, SessionLeft, Server
  <2>4. LogAt(d)'
    BY <2>1, <2>2 DEF GatewayInv, GatewayAt, LogAt
  <2>5. ToolAt(d)'
    BY <2>1, <2>2
       DEF GatewayInv, GatewayAt, ToolAt, DeclarationBlocks, DiscoveryBlocks, Tool, Server
  <2>6. QED
    BY <2>3, <2>4, <2>5 DEF GatewayAt
<1>2. QED
  BY <1>1 DEF GatewayInv

\* A turn of an audit's session: nothing is done or logged, and its command goes on or fails.
SessionTurn(c, s) ==
  SessionConnects(c, s) \/ SessionLists(c, s) \/ SessionCloses(c, s) \/ SessionBreaks(c, s)

LEMMA SessionTurns ==
  ASSUME TypeInv, NEW c \in Clients, NEW s \in Servers, SessionTurn(c, s)
  PROVE  /\ pc[c] \in {"sessions", "failed"} /\ pc'[c] \in {pc[c], "failed"}
         /\ req[c].cmd = "gateway.audit" /\ req' = req /\ did' = did
         /\ logged' = logged /\ alone' = alone /\ server' = server
<1>1. Kept(c) /\ task[c][s] # "none"
  BY KeptTyped DEF SessionTurn, SessionConnects, SessionLists, SessionCloses, SessionBreaks
<1>2. pc[c] \in {"sessions", "failed"} /\ req[c].cmd = "gateway.audit"
  BY <1>1 DEF TypeInv, SessionsOpen
<1>3. pc'[c] \in {pc[c], "failed"}
  BY <1>1 DEF SessionTurn, SessionConnects, SessionLists, SessionCloses, SessionBreaks, Turn, Stay,
              Goto, Kept
<1>4. /\ req' = req /\ did' = did /\ logged' = logged /\ alone' = alone
      /\ server' = server
  BY DEF SessionTurn, SessionConnects, SessionLists, SessionCloses, SessionBreaks, Turn, local,
         trace, Calm, fate, FaultAt
<1>5. QED
  BY <1>2, <1>3, <1>4

LEMMA SessionKept ==
  ASSUME TypeInv, TraceOK, NEW c \in Clients, SessionLeft(c), GatewayStep(c) \/ GatewayFault(c)
  PROVE  /\ SessionLeft(c)'
         /\ \A d \in Clients \ {c} :
              task'[d] = task[d] /\ \A s \in Servers : <<d, s>> \in open' => <<d, s>> \in open
<1>1. /\ faulted[c] \subseteq faulted'[c] /\ pc = [d \in Clients |-> pc[d]]
      /\ faulted = [d \in Clients |-> faulted[d]] /\ SessionsOpen(c)
      /\ Server(c)' = Server(c) /\ open \subseteq Clients \X Servers
      /\ task \in [Clients -> [Servers -> Tasks]]
  BY GatewayTraced, TracedKept, KeptTyped
     DEF Kept, TraceOK, TypeInv, SharedTypeOK, Traced, Server
<1>2. pc[c] \notin {"sessions", "failed"} => \A s \in Servers : task[c][s] = "none"
  BY <1>1 DEF SessionsOpen
<1>3. ASSUME Fault(c) \/ Calm
      PROVE  faulted'[c] \subseteq faulted[c] \cup {pc[c]}
  BY <1>1, <1>3 DEF Fault, FaultAt, Calm, fate
<1>4. CASE ReadProfile(c) \/ InvalidRegistry(c) \/ ReadRegistry(c) \/ ReadGate(c)
           \/ LogFailure(c) \/ GatewayCallFails(c)
  <2>1. /\ UNCHANGED sessions
        /\ Fault(c) \/ Calm
        /\ pc[c] \in {"profile", "registry", "read-gate", "connect", "fail"}
        /\ pc[c] = "fail" => pc'[c] = "failed"
    BY <1>1, <1>4 DEF ReadProfile, InvalidRegistry, ReadRegistry, ReadGate, LogFailure,
                GatewayCallFails, Append, opened, Goto
  <2>2. faulted'[c] \cap CloseSteps = faulted[c] \cap CloseSteps
    BY <1>1, <1>3, <2>1 DEF CloseSteps
  <2>3. \A s \in Servers : <<c, s>> \in open => faulted[c] \cap CloseSteps # {}
    BY <1>2, <2>1 DEF SessionLeft, InSession
  <2>4. SessionLeft(c)'
    BY <2>1, <2>2, <2>3 DEF SessionLeft, sessions
  <2>5. QED
    BY <2>1, <2>4 DEF sessions
<1>5. CASE Connect(c)
  <2>1. /\ pc[c] = "connect" /\ pc'[c] = "tools" /\ open' = open \cup {<<c, Server(c)>>}
        /\ task' = task /\ faulted' = faulted
    BY <1>1, <1>5 DEF Connect, Goto, Calm, fate
  <2>2. QED
    BY <1>1, <1>2, <2>1 DEF SessionLeft, InSession
<1>6. CASE ListTools(c) \/ CallTool(c) \/ SessionFails(c)
  <2>1. /\ UNCHANGED sessions
        /\ Fault(c) \/ Calm
        /\ pc[c] \in {"tools", "call"} /\ pc'[c] \in InSession
    BY <1>1, <1>6 DEF ListTools, CallTool, SessionFails, Append, Goto, AfterSessionError, opened,
                InSession
  <2>2. faulted'[c] \cap CloseSteps = {}
    BY <1>3, <2>1 DEF SessionLeft, CloseSteps
  <2>3. \A s \in Servers : <<c, s>> \in open => s = Server(c)
    BY <1>2, <2>1, <2>2, <1>1 DEF SessionLeft
  <2>4. SessionLeft(c)'
    BY <1>1, <2>1, <2>2, <2>3 DEF SessionLeft, sessions
  <2>5. QED
    BY <2>1, <2>4 DEF sessions
<1>7. CASE Close(c)
  <2>1. /\ pc[c] \in CloseSteps /\ open' = open \ {<<c, Server(c)>>} /\ task' = task
        /\ faulted' = faulted
    BY <1>7 DEF Close, CloseSteps, Calm, fate
  <2>2. QED
    BY <1>1, <1>2, <2>1 DEF SessionLeft, CloseSteps
<1>8. CASE CloseFails(c)
  <2>1. /\ pc[c] \in CloseSteps /\ faulted'[c] = faulted[c] \cup {pc[c]} /\ UNCHANGED sessions
        /\ pc'[c] = "fail"
    BY <1>1, <1>8 DEF CloseFails, Fault, FaultAt, Goto, CloseSteps, opened
  <2>2. QED
    BY <2>1 DEF SessionLeft, sessions
<1>9. CASE ReadRegistryForAudit(c)
  <2>1. /\ pc[c] = "registry" /\ open' = open /\ faulted' = faulted
        /\ task' = task \/ \E f : task' = [task EXCEPT ![c] = f]
    BY <1>9 DEF ReadRegistryForAudit, Calm, fate
  <2>2. /\ \A s \in Servers : <<c, s>> \notin open
        /\ faulted[c] \cap CloseSteps = {}
    BY <1>2, <2>1 DEF SessionLeft, InSession
  <2>3. QED
    BY <1>1, <2>1, <2>2 DEF SessionLeft
<1>10. CASE AuditEnds(c)
  <2>1. /\ pc[c] = "sessions" /\ UNCHANGED sessions /\ faulted' = faulted
        /\ \A s \in Servers : task[c][s] = "none"
    BY <1>10 DEF AuditEnds, opened, Calm, fate, NoTasks
  <2>2. /\ \A s \in Servers : <<c, s>> \notin open
        /\ faulted[c] \cap CloseSteps = {}
    BY <2>1 DEF SessionLeft, InSession
  <2>3. QED
    BY <2>1, <2>2 DEF SessionLeft, sessions
<1>11. ASSUME NEW s \in Servers, SessionTurn(c, s)
       PROVE  /\ SessionLeft(c)'
              /\ \A d \in Clients \ {c} :
                   task'[d] = task[d] /\ \A t \in Servers : <<d, t>> \in open' => <<d, t>> \in open
  <2>1. pc[c] \in {"sessions", "failed"} /\ pc'[c] \in {pc[c], "failed"}
    BY <1>11, SessionTurns
  <2>2. PICK step \in Tasks :
          /\ task[c][s] # "none" /\ task' = [task EXCEPT ![c][s] = step]
          /\ open' \in {open, open \cup {<<c, s>>}, open \ {<<c, s>>}}
          /\ step = "none" =>
               \/ open' = open \ {<<c, s>>}
               \/ /\ open' = open
                  /\ faulted'[c] = faulted[c] \cup {task[c][s]} /\ pc'[c] = "failed"
                  /\ task[c][s] # "tools"
          /\ step # "connect"
          /\ \/ faulted' = faulted
             \/ faulted'[c] = faulted[c] \cup {task[c][s]}
                /\ (pc'[c] = "failed" \/ task[c][s] = "tools")
    <3>1. CASE SessionConnects(c, s)
      BY <1>1, <1>11, <3>1 DEF SessionConnects, Turn, Calm, fate, Tasks
    <3>2. CASE SessionLists(c, s)
      BY <1>1, <1>11, <3>2 DEF SessionLists, Turn, Calm, fate, Tasks
    <3>3. CASE SessionCloses(c, s)
      BY <1>1, <1>11, <3>3 DEF SessionCloses, Turn, Calm, fate, Tasks
    <3>4. CASE SessionBreaks(c, s)
      BY <1>1, <1>11, <3>4 DEF SessionBreaks, Turn, FaultAt, Tasks, AfterListError, Goto
    <3>5. QED
      BY <1>11, <3>1, <3>2, <3>3, <3>4 DEF SessionTurn
  <2>3. faulted'[c] \cap CloseSteps # {} => pc'[c] \in {"fail", "failed"}
    BY <2>1, <2>2 DEF SessionLeft, CloseSteps
  <2>4. ASSUME NEW t \in Servers, <<c, t>> \in open'
        PROVE  task'[c][t] \notin {"none", "connect"} \/ faulted'[c] \cap CloseSteps # {}
    <3>1. CASE t # s
      BY <1>1, <2>1, <2>2, <2>4, <3>1 DEF SessionLeft, InSession
    <3>2. CASE t = s
      <4>1. task'[c][s] = step
        BY <1>1, <2>2
      <4>2. CASE step # "none"
        BY <2>2, <3>2, <4>1, <4>2
      <4>3. CASE step = "none"
        <5>1. /\ <<c, s>> \in open /\ faulted'[c] = faulted[c] \cup {task[c][s]}
              /\ task[c][s] \in {"connect", "close", "abandon"}
          BY <1>1, <2>2, <2>4, <3>2, <4>3 DEF Tasks
        <5>2. CASE task[c][s] = "connect"
          BY <2>1, <5>1, <5>2 DEF SessionLeft, InSession
        <5>3. CASE task[c][s] # "connect"
          BY <5>1, <5>3 DEF CloseSteps
        <5>4. QED
          BY <5>2, <5>3
      <4>4. QED
        BY <4>2, <4>3
    <3>3. QED
      BY <3>1, <3>2
  <2>5. SessionLeft(c)'
    BY <2>3, <2>4 DEF SessionLeft
  <2>6. QED
    BY <1>1, <2>2, <2>5
<1>12. QED
  BY <1>4, <1>5, <1>6, <1>7, <1>8, <1>9, <1>10, <1>11, <1>1
     DEF GatewayStep, GatewayFault, SessionTurn, sessions

LEMMA LogKept ==
  ASSUME TypeInv, TraceOK, NEW c \in Clients, LogAt(c), GatewayStep(c) \/ GatewayFault(c)
  PROVE  LogAt(c)'
<1>1. /\ pc = [d \in Clients |-> pc[d]] /\ faulted = [d \in Clients |-> faulted[d]]
      /\ logged = [d \in Clients |-> logged[d]] /\ did = [d \in Clients |-> did[d]]
      /\ req' = req
  BY GatewayTraced, KeptTyped DEF Kept, TraceOK, Traced
<1>2. ASSUME NEW status, Append(c, status)
      PROVE  \/ logged'[c] = logged[c] \cup {status} /\ faulted'[c] = faulted[c]
             \/ logged'[c] = logged[c] /\ faulted'[c] = faulted[c] \cup {pc[c]}
  BY <1>1, <1>2 DEF Append, Log, Calm, Fault, FaultAt, fate
<1>3. CASE ReadRegistry(c) \/ ReadGate(c)
  <2>1. /\ logged[c] = {} /\ req[c].cmd = "gateway.call" /\ pc[c] \in {"registry", "read-gate"}
        /\ did[c] = {} /\ did'[c] = did[c] /\ faulted[c] = {}
        /\ \/ /\ pc'[c] \in {"read-gate", "connect"} /\ logged'[c] = logged[c]
              /\ faulted'[c] = faulted[c]
           \/ pc'[c] = "blocked" /\ Append(c, "blocked")
    BY <1>1, <1>3
       DEF LogAt, ReadRegistry, ReadGate, Goto, TypeInv, Fits, FitsRequest, InSession,
           Calm, fate
  <2>2. QED
    BY <1>2, <2>1 DEF LogAt
<1>4. CASE ReadRegistryForAudit(c) \/ AuditEnds(c)
  <2>1. pc'[c] \in {"sessions", "done"} /\ req'[c].cmd = "gateway.audit"
    BY <1>1, <1>4
       DEF ReadRegistryForAudit, AuditEnds, Goto, TypeInv, Fits, FitsRequest
  <2>2. QED
    BY <2>1 DEF LogAt
<1>5. CASE ReadProfile(c) \/ InvalidRegistry(c) \/ Connect(c)
  <2>1. /\ pc[c] \in {"profile", "registry", "connect"}
        /\ pc'[c] \in {"registry", "tools", "failed"} /\ req'[c] = req[c]
        /\ logged'[c] = logged[c] /\ did'[c] = did[c] /\ faulted'[c] = faulted[c]
    BY <1>1, <1>5 DEF ReadProfile, InvalidRegistry, Connect, Goto, trace, Calm, fate
  <2>2. QED
    BY <2>1 DEF LogAt
<1>6. CASE ListTools(c)
  <2>1. /\ pc[c] = "tools" /\ did'[c] = did[c]
        /\ \/ pc'[c] = "call" /\ logged'[c] = logged[c] /\ faulted'[c] = faulted[c]
           \/ pc'[c] = "refuse" /\ Append(c, "blocked")
    BY <1>1, <1>6 DEF ListTools, Goto, Calm, fate
  <2>2. QED
    BY <1>1, <1>2, <2>1 DEF LogAt
<1>7. CASE CallTool(c)
  <2>1. pc[c] = "call" /\ pc'[c] = "close" /\ Append(c, "success")
    BY <1>1, <1>7 DEF CallTool, Goto
  <2>2. QED
    BY <1>1, <1>2, <2>1 DEF LogAt
<1>8. CASE SessionFails(c)
  <2>1. pc'[c] = "abandon"
    BY <1>1, <1>8 DEF SessionFails, Goto, AfterSessionError
  <2>2. QED
    BY <2>1 DEF LogAt
<1>9. CASE Close(c)
  <2>1. /\ logged'[c] = logged[c] /\ faulted'[c] = faulted[c] /\ req'[c] = req[c]
        /\ \/ pc[c] = "close" /\ pc'[c] = "done"
           \/ pc[c] = "refuse" /\ pc'[c] = "blocked"
           \/ pc'[c] = "fail"
    BY <1>1, <1>9 DEF Close, Goto, Calm, fate, trace
  <2>2. QED
    BY <2>1 DEF LogAt
<1>10. CASE CloseFails(c)
  <2>1. pc'[c] = "fail"
    BY <1>1, <1>10 DEF CloseFails, Goto
  <2>2. QED
    BY <2>1 DEF LogAt
<1>11. CASE LogFailure(c)
  <2>1. pc[c] = "fail" /\ pc'[c] = "failed" /\ Append(c, "failure")
    BY <1>1, <1>11 DEF LogFailure, Goto
  <2>2. QED
    BY <1>2, <2>1 DEF LogAt
<1>12. CASE GatewayCallFails(c)
  <2>1. /\ req'[c] = req[c]
        /\ pc'[c] = IF req[c].cmd = "gateway.call" THEN "fail" ELSE "failed"
    BY <1>1, <1>12 DEF GatewayCallFails, Goto
  <2>2. QED
    BY <2>1 DEF LogAt
<1>13. ASSUME NEW s \in Servers, SessionTurn(c, s) PROVE LogAt(c)'
  BY <1>13, SessionTurns DEF LogAt
<1>14. QED
  BY <1>3, <1>4, <1>5, <1>6, <1>7, <1>8, <1>9, <1>10, <1>11, <1>12, <1>13
     DEF GatewayStep, GatewayFault, SessionTurn

LEMMA ToolKept ==
  ASSUME TypeInv, TraceOK, NEW c \in Clients, ToolAt(c), GatewayStep(c) \/ GatewayFault(c)
  PROVE  ToolAt(c)'
<1>1. /\ pc = [d \in Clients |-> pc[d]] /\ did = [d \in Clients |-> did[d]]
      /\ req' = req /\ alone' = alone /\ registry' = registry /\ offered' = offered
  BY GatewayTraced, KeptTyped DEF Kept, TraceOK, Traced, server
<1>2. /\ DeclarationBlocks(c)' = DeclarationBlocks(c)
      /\ DiscoveryBlocks(Server(c), Tool(c))' = DiscoveryBlocks(Server(c), Tool(c))
      /\ req'[c] = req[c] /\ alone'[c] = alone[c]
  BY <1>1 DEF DeclarationBlocks, DiscoveryBlocks, Tool, Server
<1>3. CASE ReadRegistry(c)
  <2>1. did'[c] = did[c] /\ (pc'[c] = "blocked" \/ (pc'[c] = "read-gate" /\ ~DeclarationBlocks(c)))
    BY <1>1, <1>3 DEF ReadRegistry, Goto
  <2>2. QED
    BY <1>2, <2>1 DEF ToolAt
<1>4. CASE ReadGate(c) \/ Connect(c)
  <2>1. did'[c] = did[c] /\ pc[c] \in {"read-gate", "connect"} /\ pc'[c] \in {"connect", "blocked", "tools"}
    BY <1>1, <1>4 DEF ReadGate, Connect, Goto, trace
  <2>2. QED
    BY <1>2, <2>1 DEF ToolAt
<1>5. CASE ListTools(c)
  <2>1. /\ did'[c] = did[c] /\ pc[c] = "tools"
        /\ pc'[c] = "refuse" \/ (pc'[c] = "call" /\ ~DiscoveryBlocks(Server(c), Tool(c)))
    BY <1>1, <1>5 DEF ListTools, Goto
  <2>2. QED
    BY <1>2, <2>1 DEF ToolAt
<1>6. CASE CallTool(c) \/ SessionFails(c)
  <2>1. /\ pc'[c] \in {"close", "abandon"}
        /\ did'[c] = did[c] \/ pc[c] = "call"
    BY <1>1, <1>6 DEF CallTool, SessionFails, Goto, AfterSessionError
  <2>2. pc[c] = "call" => req[c].cmd = "gateway.call"
    BY DEF TypeInv, Fits, FitsRequest, InSession
  <2>3. QED
    BY <1>2, <2>1, <2>2 DEF ToolAt
<1>7. CASE ReadProfile(c) \/ InvalidRegistry(c) \/ ReadRegistryForAudit(c) \/ AuditEnds(c)
  <2>1. did'[c] = did[c] /\ pc'[c] \in {"registry", "failed", "sessions", "done"}
    BY <1>1, <1>7 DEF ReadProfile, InvalidRegistry, ReadRegistryForAudit, AuditEnds, Goto, trace
  <2>2. QED
    BY <1>2, <2>1 DEF ToolAt
<1>8. CASE Close(c) \/ CloseFails(c) \/ LogFailure(c) \/ GatewayCallFails(c)
  <2>1. did'[c] = did[c] /\ pc'[c] \in {"done", "blocked", "fail", "failed"}
    BY <1>1, <1>8 DEF Close, CloseFails, LogFailure, GatewayCallFails, Goto, trace
  <2>2. QED
    BY <1>2, <2>1 DEF ToolAt
<1>9. ASSUME NEW s \in Servers, SessionTurn(c, s) PROVE ToolAt(c)'
  BY <1>9, SessionTurns DEF ToolAt
<1>10. QED
  BY <1>3, <1>4, <1>5, <1>6, <1>7, <1>8, <1>9 DEF GatewayStep, GatewayFault, SessionTurn

\* The deeds of the other commands: a project is deleted or restored only by its own.
LEMMA OtherDeeds ==
  ASSUME TypeInv, NEW c \in Clients
  PROVE  /\ SecretStep(c) \/ SecretFault(c) =>
              \/ did' = did
              \/ \E x \in {"add", "create", "remove"} : did' = [did EXCEPT ![c] = did[c] \cup {x}]
         /\ AuthStep(c) \/ AuthFault(c) =>
              \/ did' = did
              \/ \E x \in Configurations : did' = [did EXCEPT ![c] = did[c] \cup {x}]
         /\ GatewayStep(c) \/ GatewayFault(c) =>
              did' = did \/ did' = [did EXCEPT ![c] = did[c] \cup {"call"}]
<1>1. ASSUME SecretStep(c) \/ SecretFault(c)
      PROVE  \/ did' = did
             \/ \E x \in {"add", "create", "remove"} : did' = [did EXCEPT ![c] = did[c] \cup {x}]
  <2>1. CASE WriteSecret(c) \/ WriteFails(c)
    BY <2>1 DEF WriteSecret, WriteFails, WriteEffect, HalfCreated, trace
  <2>2. CASE RemoveSecret(c) \/ SecretCallFails(c)
    BY <2>2 DEF RemoveSecret, SecretCallFails, RemoveEffect, trace
  <2>3. CASE ~(WriteSecret(c) \/ WriteFails(c) \/ RemoveSecret(c) \/ SecretCallFails(c))
    BY <1>1, <2>3
       DEF SecretStep, SecretFault, SecretGate, ListSecrets, SecretExists, PrepareDataFile,
           WriteRefused, CleanUp, RemoveRefused, SecretNoLogin, PrepareFails, CleanUpFails,
           trace
  <2>4. QED
    BY <2>1, <2>2, <2>3
<1>2. ASSUME AuthStep(c) \/ AuthFault(c)
      PROVE  \/ did' = did
             \/ \E x \in Configurations : did' = [did EXCEPT ![c] = did[c] \cup {x}]
  <2>1. AuthEffect(c) \/ did' = did
    BY <1>2
       DEF AuthStep, AuthFault, ReadContext, Remember, ReadAdc, ReadAdcWith, CallGcloud,
           ActivateRefused, CreateRefused, ListProjects, CheckCli, SaveConfig, Logout,
           ReadContextBlind, ReadAdcBlind, ListProjectsBlind, NoCli, AttemptFails, AuthCallFails,
           LogoutFails, trace
  <2>2. active \in Configurations /\ (pc[c] = "create" => req[c].config \in Configurations)
    <3>1. ASSUME pc[c] = "create" PROVE req[c].config \in Configurations
      <4>1. req[c].cmd = "auth.create" /\ pc[c] \in AuthSteps /\ FitsRequest(pc[c], req[c])
        BY <3>1 DEF TypeInv, Fits, FitsRequest, AuthSteps
      <4>2. QED
        BY <4>1, RequestFields DEF FitsRequest
    <3>2. QED
      BY <3>1 DEF TypeInv, SharedTypeOK
  <2>3. AuthEffect(c) =>
          did' = did \/ \E x \in Configurations : did' = [did EXCEPT ![c] = did[c] \cup {x}]
    BY <2>2 DEF AuthEffect, ActivateEffect, CreateEffect, LoginEffect, SetAccountEffect,
                SetProjectEffect, AdcLoginEffect, Did, trace
  <2>4. QED
    BY <2>1, <2>3
<1>3. ASSUME GatewayStep(c) \/ GatewayFault(c)
      PROVE  did' = did \/ did' = [did EXCEPT ![c] = did[c] \cup {"call"}]
  BY <1>3 DEF GatewayStep, GatewayFault, ReadProfile, InvalidRegistry, ReadRegistry,
         ReadRegistryForAudit, ReadGate, Connect, ListTools, CallTool, SessionFails, Close,
         CloseFails, LogFailure, GatewayCallFails, SessionConnects, SessionLists, SessionCloses,
         SessionBreaks, AuditEnds, Turn, trace
<1>4. QED
  BY <1>1, <1>2, <1>3

\* The other commands are of another kind, and never call a tool.
LEMMA OtherCommands ==
  ASSUME TypeInv, TraceOK, GatewayInv, NEW c \in Clients,
         \/ SecretStep(c) \/ SecretFault(c) \/ ProjectStep(c) \/ ProjectFault(c)
         \/ AuthStep(c) \/ AuthFault(c)
  PROVE  GatewayInv'
<1>1. Moved(c) /\ Traced(c) /\ UNCHANGED <<sessions, server>>
  BY SecretMoves, ProjectMoves, AuthMoves, SecretTraced, ProjectTraced, AuthTraced DEF opened
<1>2. /\ FitsRequest(pc[c], req[c]) /\ pc[c] \in SecretSteps \cup ProjectSteps \cup AuthSteps
      /\ req'[c] = req[c]
  BY <1>1, OwnGuards DEF TypeInv, Fits, Traced
<1>3. /\ req[c].cmd # "gateway.call" /\ req[c] # NoRequest
  BY <1>2, CmdKinds DEF FitsRequest, SecretCmds, ProjectCmds, AuthCmds, NoRequest
<1>4. pc'[c] # "idle"
  BY <1>1, <1>2, <1>3 DEF Moved, FitsRequest
<1>5. "call" \in did'[c] => "call" \in did[c]
  <2>1. CASE SecretStep(c) \/ SecretFault(c)
    BY <2>1, OtherDeeds DEF TraceOK
  <2>2. CASE ProjectStep(c) \/ ProjectFault(c)
    <3>1. \/ did' = did
          \/ pc[c] \in {"delete", "undelete"} /\ did' = [did EXCEPT ![c] = did[c] \cup {pc[c]}]
      BY <2>2
         DEF ProjectStep, ProjectFault, Describe, ReadProjectBilling, ReadAccount, ReadRoles,
             ReadLifecycle, LoadApproval, ConsumeApproval, AskApproval, ApprovalRefused,
             ActOnProject, ActEffect, ActRefused, DescribeAfter, ProjectNoLogin, ReadNoAccount,
             ReadNoRoles, ActLost, ProjectCallFails, trace
    <3>2. QED
      BY <3>1 DEF TraceOK
  <2>3. CASE AuthStep(c) \/ AuthFault(c)
    <3>1. "call" \notin Configurations
      BY SessionAssumption DEF SessionAssumption, Deeds
    <3>2. QED
      BY <2>3, <3>1, OtherDeeds DEF TraceOK
  <2>4. QED
    BY <2>1, <2>2, <2>3
<1>6. /\ pc[c] \notin GatewaySteps \cup {"failed", "idle"}
      /\ \A s \in Servers : task[c][s] = "none"
  <2>1. pc[c] \notin GatewaySteps \cup {"failed", "idle"}
    BY OwnGuards DEF SecretSteps, ProjectSteps, GatewaySteps, Ends
  <2>2. QED
    BY <2>1 DEF TypeInv, SessionsOpen, GatewaySteps
<1>7. SessionLeft(c)'
  <2>1. /\ \A s \in Servers : <<c, s>> \notin open
        /\ faulted[c] \cap CloseSteps = {}
    BY <1>6 DEF GatewayInv, GatewayAt, SessionLeft, InSession, GatewaySteps
  <2>2. faulted'[c] = faulted[c] \/ faulted'[c] = faulted[c] \cup {pc[c]}
    BY <1>1, <1>6 DEF Traced, TraceOK
  <2>3. pc[c] \notin CloseSteps
    BY <1>6 DEF CloseSteps, GatewaySteps
  <2>4. QED
    BY <1>1, <2>1, <2>2, <2>3 DEF SessionLeft, sessions
<1>8. LogAt(c)' /\ ToolAt(c)'
  BY <1>2, <1>3, <1>4, <1>5 DEF GatewayInv, GatewayAt, LogAt, ToolAt
<1>9. /\ alone' = alone
      /\ \A d \in Clients \ {c} :
           did'[d] = did[d] /\ logged'[d] = logged[d] /\ faulted'[d] = faulted[d]
  BY <1>1, TracedKept DEF Traced
<1>10. QED
  BY <1>1, <1>7, <1>8, <1>9, GatewayOthers DEF GatewayAt, sessions

LEMMA GatewayNext == TypeInv /\ TraceOK /\ GatewayInv /\ [Next]_vars => GatewayInv'
<1> SUFFICES ASSUME TypeInv, TraceOK, GatewayInv, [Next]_vars PROVE GatewayInv'
  OBVIOUS
<1>1. ASSUME NEW c \in Clients, GatewayStep(c) \/ GatewayFault(c) PROVE GatewayInv'
  <2>1. /\ Moved(c) /\ Traced(c) /\ server' = server /\ alone' = alone
        /\ \A d \in Clients \ {c} :
             did'[d] = did[d] /\ logged'[d] = logged[d] /\ faulted'[d] = faulted[d]
    BY <1>1, GatewayMoves, GatewayTraced, TracedKept DEF Traced
  <2>2. /\ GatewayAt(c)'
        /\ \A d \in Clients \ {c} :
             task'[d] = task[d] /\ \A s \in Servers : <<d, s>> \in open' => <<d, s>> \in open
    BY <1>1, SessionKept, LogKept, ToolKept DEF GatewayInv, GatewayAt
  <2>3. QED
    BY <2>1, <2>2, GatewayOthers
<1>2. ASSUME NEW c \in Clients, Finish(c) \/ Kill(c) PROVE GatewayInv'
  <2>1. /\ Moved(c) /\ pc'[c] = "idle" /\ req'[c] = NoRequest
    BY <1>2, LeaveMoves, KeptTyped DEF Finish, Kill, Leave, Goto, Kept
  <2>2. /\ did'[c] = {} /\ logged'[c] = {} /\ faulted'[c] = {}
        /\ open' = open \ ({c} \X Servers) /\ task' = [task EXCEPT ![c] = NoTasks]
        /\ task \in [Clients -> [Servers -> Tasks]] /\ server' = server
        /\ \A d \in Clients \ {c} :
             /\ did'[d] = did[d] /\ logged'[d] = logged[d] /\ faulted'[d] = faulted[d]
             /\ alone'[d] = alone[d]
    BY <1>2, LeaveTraced DEF TypeInv, SharedTypeOK
  <2>3. GatewayAt(c)'
    BY <2>1, <2>2 DEF GatewayAt, SessionLeft, LogAt, ToolAt, NoRequest
  <2>4. QED
    BY <2>1, <2>2, <2>3, GatewayOthers
<1>3. ASSUME NEW c \in Clients, NEW r \in Requests, Start(c, r) PROVE GatewayInv'
  <2>1. /\ Moved(c) /\ pc[c] = "idle" /\ pc'[c] = FirstStep(r) /\ req'[c] = r
    BY <1>3, StartMoves, KeptTyped DEF Start, Goto, Kept
  <2>2. /\ did'[c] = {} /\ logged'[c] = {} /\ faulted'[c] = {}
        /\ UNCHANGED sessions /\ server' = server
        /\ \A s \in Servers : <<c, s>> \notin open
    BY <1>3, <2>1, StartTraced
       DEF GatewayInv, GatewayAt, LogAt, SessionLeft, TypeInv, SessionsOpen, InSession, opened
  <2>3. r.cmd = "gateway.call" => FirstStep(r) \in {"profile", "failed"}
    BY DEF FirstStep
  <2>4. pc'[c] # "idle"
    <3>1. FitsRequest(pc'[c], req'[c]) /\ r # NoRequest
      BY <2>1, CmdKinds DEF Moved
    <3>2. QED
      BY <2>1, <3>1 DEF FitsRequest
  <2>5. SessionLeft(c)' /\ LogAt(c)' /\ ToolAt(c)'
    BY <2>1, <2>2, <2>3, <2>4 DEF SessionLeft, LogAt, ToolAt, sessions
  <2>6. QED
    BY <1>3, <2>1, <2>2, <2>5, StartTraced, GatewayOthers DEF GatewayAt, sessions
<1>4. CASE People
  <2>1. ASSUME NEW c \in Clients PROVE GatewayAt(c)'
    <3>1. /\ UNCHANGED <<pc, req, did, logged, faulted, open, task>>
          /\ ~alone'[c] \/ UNCHANGED <<alone, registry, offered>>
      BY <1>4, PeopleTraced DEF server, opened, sessions
    <3>2. SessionLeft(c)' /\ LogAt(c)' /\ ToolAt(c)'
      BY <3>1 DEF GatewayInv, GatewayAt, SessionLeft, LogAt, ToolAt, DeclarationBlocks,
                  DiscoveryBlocks, Tool, Server
    <3>3. QED
      BY <3>2 DEF GatewayAt
  <2>2. QED
    BY <2>1 DEF GatewayInv
<1>5. CASE UNCHANGED vars
  BY <1>5 DEF vars, trace, fate, opened, sessions, server, local, GatewayInv, GatewayAt,
              SessionLeft, LogAt, ToolAt, DeclarationBlocks, DiscoveryBlocks, Tool, Server
<1>6. QED
  BY <1>1, <1>2, <1>3, <1>4, <1>5, OtherCommands DEF Next, Step, Misfortune

LEMMA GatewayAlways == Spec => [](TypeInv /\ TraceOK /\ GatewayInv)
  BY TypeInit, TypeNext, TraceInit, TraceNext, GatewayInit, GatewayNext, PTL DEF Spec

\* A downstream tool that is called while nobody changes the servers is declared for
\* reading, not annotated as destructive, and not named as the pattern of changing names
\* has it, for any number of clients, servers and tools (gateway.ts: getDeclarationBlock,
\* getDiscoveryBlock).
THEOREM ReadsOnly == Spec => []GatewayReadsOnly
<1>1. TypeInv /\ GatewayInv => GatewayReadsOnly
  <2> SUFFICES ASSUME TypeInv, GatewayInv, NEW c \in Clients, alone[c], "call" \in did[c]
               PROVE  /\ registry.status[Server(c)] = "enabled"
                      /\ registry.mode[Server(c)][Tool(c)] = "read"
                      /\ offered[Server(c)][Tool(c)] = "safe" /\ Tool(c) \notin MutationNames
    BY DEF GatewayReadsOnly
  <2>1. /\ req[c].cmd = "gateway.call" /\ ~DeclarationBlocks(c)
        /\ ~DiscoveryBlocks(Server(c), Tool(c))
    BY DEF GatewayInv, GatewayAt, ToolAt
  <2>2. req[c] \in GatewayRequests
    BY <2>1, CmdKinds
       DEF TypeInv, ClientTypeOK, NoRequest, SecretCmds, ProjectCmds, AuthCmds
  <2>3. offered[Server(c)][Tool(c)] \in {"none", "safe", "destructive"}
    BY <2>1, <2>2, RequestFields DEF TypeInv, SharedTypeOK, Tool, Server
  <2>4. QED
    BY <2>1, <2>3 DEF DeclarationBlocks, DiscoveryBlocks
<1>2. QED
  BY <1>1, GatewayAlways, PTL

\* Whatever the servers do and whoever interferes, the decision log has what became of a
\* call that was refused, got an answer or met a failure, unless the append failed; and a
\* call that ends off the record did nothing and met no failure (gateway.ts:
\* tryAppendDecision, and the errors of omg's own that are thrown before it).
THEOREM GatewayKeepsAccount == Spec => []GatewayAccounted
<1>1. GatewayInv => GatewayAccounted
  BY DEF GatewayInv, GatewayAt, LogAt, GatewayAccounted
<1>2. QED
  BY <1>1, GatewayAlways, PTL

\* For any number of servers that an audit has sessions with at once: no session is left
\* by a gateway command that succeeds, and one that ends otherwise leaves those alone that
\* it has yet to close or that would not close (gateway.ts: Promise.all over the servers,
\* and the finally clause of each session).
THEOREM SessionsAreClosed == Spec => []SessionsClosed
<1>1. TypeInv /\ GatewayInv => SessionsClosed
  <2> SUFFICES ASSUME TypeInv, GatewayInv, NEW c \in Clients, NEW s \in Servers,
                      <<c, s>> \in open
               PROVE  /\ pc[c] # "done"
                      /\ pc[c] \in Ends => task[c][s] # "none" \/ faulted[c] \cap CloseSteps # {}
    BY DEF SessionsClosed, CloseSteps
  <2>1. SessionLeft(c) /\ SessionsOpen(c)
    BY DEF TypeInv, GatewayInv, GatewayAt
  <2>2. QED
    BY <2>1 DEF SessionLeft, SessionsOpen, InSession, Ends
<1>2. QED
  BY <1>1, GatewayAlways, PTL

-----------------------------------------------------------------------------

(* What a deletion has been checked for. *)

\* The account that a reading finds, while gcloud answers.
Caller == IF LoggedIn THEN User ELSE "*"

\* The audit has let the deletion through.
Audited(c) ==
  pc[c] \in {"account-again", "approve", "consume", "delete"} /\ req[c].cmd = "project.delete"

\* What was read is still so, if nothing came between.
Fresh(c) ==
  /\ pc[c] \in {"account", "roles"} \/ Audited(c) => (look[c].billed <=> Target(c) \in billed)
  /\ pc[c] = "roles" => acct[c] = Caller
  /\ Audited(c) => ~look[c].billed /\ OwnerFound(Target(c), Caller)
  /\ Audited(c) /\ pc[c] # "account-again" => acct[c] = Caller /\ Expected(c, Caller)

AuditAt(c) ==
  /\ pc[c] \in ProjectSteps \ {"after"} => did[c] = {}
  /\ pc[c] \in {"billing", "account", "roles"} => ~look[c].owner
  /\ Audited(c) => Target(c) \notin ProtectedProjects \cup Owned
  /\ alone[c] => \A d \in Clients \ {c} : pc[d] = "idle"
  /\ alone[c] /\ faulted[c] = {} => Fresh(c)

AuditInv == \A c \in Clients : AuditAt(c)

LEMMA AuditInit == Init => AuditInv
  BY DEF Init, AuditInv, AuditAt, Audited, ProjectSteps

\* When a running client moves, no other is alone.
LEMMA AuditOthers ==
  ASSUME TypeInv, AuditInv, NEW c \in Clients, pc[c] # "idle", Moved(c), AuditAt(c)',
         \A d \in Clients \ {c} : did'[d] = did[d] /\ alone'[d] = alone[d]
  PROVE  AuditInv'
<1>1. ASSUME NEW d \in Clients, d # c PROVE AuditAt(d)'
  <2>1. /\ pc'[d] = pc[d] /\ req'[d] = req[d] /\ look'[d] = look[d] /\ did'[d] = did[d]
        /\ alone'[d] = alone[d]
    BY <1>1 DEF Moved, TypeInv, ClientTypeOK
  <2>2. ~alone[d]
    BY <1>1 DEF AuditInv, AuditAt
  <2>3. AuditAt(d)
    BY DEF AuditInv
  <2>4. QED
    BY <2>1, <2>2, <2>3 DEF AuditAt, Audited, Target
<1>2. QED
  BY <1>1 DEF AuditInv

\* A project step of c that is at once with its own readings.
LEMMA AuditKept ==
  ASSUME TypeInv, TraceOK, NEW c \in Clients, AuditAt(c), ProjectStep(c) \/ ProjectFault(c)
  PROVE  AuditAt(c)'
<1>1. /\ Kept(c) /\ did = [d \in Clients |-> did[d]] /\ faulted = [d \in Clients |-> faulted[d]]
      /\ req' = req /\ alone' = alone /\ faulted[c] \subseteq faulted'[c]
      /\ UNCHANGED <<billed, owners, machine>> /\ Moved(c)
  BY KeptTyped, ProjectTraced, TracedKept, ProjectMoves DEF TraceOK, Traced
<1>2. /\ Caller' = Caller /\ Target(c)' = Target(c) /\ req'[c] = req[c] /\ alone'[c] = alone[c]
      /\ faulted'[c] = {} => faulted[c] = {}
      /\ \A p, a : OwnerFound(p, a)' = OwnerFound(p, a)
      /\ \A a : Expected(c, a)' = Expected(c, a)
  BY <1>1 DEF Caller, User, LoggedIn, Target, OwnerFound, Expected, machine
<1>3. alone'[c] => \A d \in Clients \ {c} : pc'[d] = "idle"
  BY <1>1, <1>2 DEF Moved, AuditAt, Kept
<1>4. pc[c] \in ProjectSteps
  BY OwnGuards
<1>5. pc[c] = "delete" => req[c].cmd = "project.delete"
  BY DEF TypeInv, Fits, FitsRequest
<1>6. ASSUME pc'[c] \in Ends \cup {"after"} PROVE AuditAt(c)'
  BY <1>2, <1>3, <1>6 DEF AuditAt, Fresh, Audited, ProjectSteps, Ends
<1>7. CASE Describe(c)
  <2>1. /\ pc[c] = "describe" /\ pc'[c] = "billing" /\ did' = did /\ ~look'[c].owner
    BY <1>1, <1>7 DEF Describe, Goto, Kept, trace
  <2>2. QED
    BY <1>2, <1>3, <2>1 DEF AuditAt, Fresh, Audited, ProjectSteps
<1>8. CASE ReadProjectBilling(c)
  <2>1. /\ pc[c] = "billing" /\ pc'[c] = "account" /\ did' = did
        /\ look'[c] = [look[c] EXCEPT !.billed = Target(c) \in billed]
    BY <1>1, <1>8 DEF ReadProjectBilling, Goto, Kept, trace
  <2>2. look[c] \in LookRecords
    BY <2>1, RealLooks DEF TypeInv, ClientTypeOK, Fits, FitsMemory, AfterDescribe
  <2>3. look'[c].owner = look[c].owner /\ look'[c].billed = (Target(c) \in billed)
    BY <2>1, <2>2 DEF LookRecords
  <2>4. QED
    BY <1>1, <1>2, <1>3, <2>1, <2>3 DEF AuditAt, Fresh, Audited, ProjectSteps
<1>9. CASE ReadAccount(c)
  <2>1. /\ pc[c] \in {"account", "account-again"} /\ pc'[c] = AfterAccount(c, Caller)
        /\ did' = did /\ look' = look /\ acct'[c] = Caller
    BY <1>1, <1>9 DEF ReadAccount, Caller, Goto, Kept, trace
  <2>2. CASE pc[c] = "account"
    <3>1. pc'[c] = "roles"
      BY <2>1, <2>2 DEF AfterAccount
    <3>2. QED
      BY <1>1, <1>2, <1>3, <2>1, <2>2, <3>1 DEF AuditAt, Fresh, Audited, ProjectSteps
  <2>3. CASE pc[c] = "account-again" /\ Expected(c, Caller)
    <3>1. pc'[c] = "approve"
      BY <2>1, <2>3 DEF AfterAccount
    <3>2. QED
      BY <1>1, <1>2, <1>3, <2>1, <2>3, <3>1 DEF AuditAt, Fresh, Audited, ProjectSteps
  <2>4. CASE pc[c] = "account-again" /\ ~Expected(c, Caller)
    BY <1>6, <2>1, <2>4 DEF AfterAccount, Ends
  <2>5. QED
    BY <2>1, <2>2, <2>3, <2>4
<1>10. CASE ReadNoAccount(c)
  <2>1. /\ pc[c] \in {"account", "account-again"} /\ pc'[c] = AfterAccount(c, "*")
        /\ did' = did /\ look' = look /\ faulted'[c] # {}
    BY <1>1, <1>10 DEF ReadNoAccount, Fault, FaultAt, Goto, Kept, trace
  <2>2. pc[c] = "account" => pc'[c] = "roles"
    BY <2>1 DEF AfterAccount
  <2>3. pc[c] = "account-again" => pc'[c] \in {"approve", "blocked"}
    BY <2>1 DEF AfterAccount
  <2>4. QED
    BY <1>2, <1>3, <2>1, <2>2, <2>3 DEF AuditAt, Audited, ProjectSteps
<1>11. CASE ReadRoles(c)
  <2> DEFINE found == OwnerFound(Target(c), acct[c])
  <2>1. /\ pc[c] = "roles" /\ pc'[c] = AfterAudit(c, look'[c]) /\ did' = did /\ acct' = acct
        /\ look'[c] = [look[c] EXCEPT !.visible = TRUE, !.owner = found]
    BY <1>1, <1>11 DEF ReadRoles, Goto, Kept, trace
  <2>2. look[c] \in LookRecords
    BY <2>1, RealLooks DEF TypeInv, ClientTypeOK, Fits, FitsMemory, AfterDescribe
  <2> HIDE DEF found
  <2>3. look'[c].owner = found /\ look'[c].billed = look[c].billed
    BY <2>1, <2>2 DEF LookRecords
  <2>4. ASSUME pc'[c] \notin Ends
        PROVE  /\ pc'[c] = "account-again" /\ ~DeleteBlocked(Target(c), look'[c])
               /\ req[c].cmd = "project.delete"
    BY <2>1, <2>4 DEF AfterAudit, Ends
  <2>5. ASSUME pc'[c] \notin Ends PROVE AuditAt(c)'
    <3>1. Target(c) \notin ProtectedProjects \cup Owned /\ found /\ ~look'[c].billed
      BY <2>3, <2>4, <2>5 DEF DeleteBlocked, AuditRisk
    <3>2. alone[c] /\ faulted[c] = {} => OwnerFound(Target(c), Caller)
      BY <2>1, <3>1 DEF found, AuditAt, Fresh
    <3>3. alone[c] /\ faulted[c] = {} => (look'[c].billed <=> Target(c) \in billed)
      BY <2>1, <2>3 DEF AuditAt, Fresh
    <3>4. alone'[c] /\ faulted'[c] = {} => Fresh(c)'
      BY <1>1, <1>2, <2>4, <2>5, <3>1, <3>2, <3>3 DEF Fresh, Audited
    <3>5. did'[c] = {}
      BY <2>1 DEF AuditAt, ProjectSteps
    <3>6. QED
      BY <1>2, <1>3, <2>4, <2>5, <3>1, <3>4, <3>5 DEF AuditAt, Audited
  <2>6. QED
    BY <1>6, <2>5
<1>12. CASE ReadNoRoles(c)
  <2>1. /\ pc[c] = "roles" /\ pc'[c] = AfterAudit(c, look[c])
    BY <1>1, <1>12 DEF ReadNoRoles, Goto, Kept
  <2>2. DeleteBlocked(Target(c), look[c])
    BY <2>1 DEF AuditAt, DeleteBlocked
  <2>3. QED
    BY <1>6, <2>1, <2>2 DEF AfterAudit, Ends
<1>13. CASE ReadLifecycle(c)
  <2>1. /\ pc[c] = "lifecycle" /\ pc'[c] \in {"account-again", "failed"} /\ did' = did
    BY <1>1, <1>13 DEF ReadLifecycle, Goto, Kept, trace
  <2>2. req[c].cmd = "project.undelete"
    BY <2>1 DEF TypeInv, Fits, FitsRequest
  <2>3. QED
    BY <1>2, <1>3, <2>1, <2>2 DEF AuditAt, Fresh, Audited, ProjectSteps
<1>14. CASE LoadApproval(c) \/ ConsumeApproval(c)
  <2>1. /\ \/ pc[c] = "approve" /\ pc'[c] = "consume"
           \/ pc[c] = "consume" /\ pc'[c] = Act(c)
        /\ did' = did /\ look' = look /\ acct' = acct
    BY <1>1, <1>14 DEF LoadApproval, ConsumeApproval, Goto, Kept, trace, local
  <2>2. Act(c) = IF req[c].cmd = "project.delete" THEN "delete" ELSE "undelete"
    BY DEF Act
  <2>3. QED
    BY <1>1, <1>2, <1>3, <2>1, <2>2 DEF AuditAt, Fresh, Audited, ProjectSteps
<1>15. CASE AskApproval(c) \/ ApprovalRefused(c) \/ ActOnProject(c) \/ ActRefused(c) \/ DescribeAfter(c)
            \/ ProjectNoLogin(c) \/ ActLost(c) \/ ProjectCallFails(c)
  <2>1. pc'[c] \in Ends \cup {"after"}
    BY <1>1, <1>15 DEF AskApproval, ApprovalRefused, ActOnProject, ActRefused, DescribeAfter,
                       ProjectNoLogin, ActLost, ProjectCallFails, Goto, Kept, Ends
  <2>2. QED
    BY <1>6, <2>1
<1>16. QED
  BY <1>7, <1>8, <1>9, <1>10, <1>11, <1>12, <1>13, <1>14, <1>15 DEF ProjectStep, ProjectFault

\* Nobody has read anything yet who is not at a project step.
LEMMA ElsewhereAudited ==
  ASSUME NEW c \in Clients, pc'[c] \notin ProjectSteps,
         alone'[c] => \A d \in Clients \ {c} : pc'[d] = "idle"
  PROVE  AuditAt(c)'
  BY DEF AuditAt, Fresh, Audited, ProjectSteps

\* Of the commands that have failed, only an audit goes on.
LEMMA AuditTurnsOn ==
  ASSUME TypeInv, NEW c \in Clients, GatewayStep(c) \/ GatewayFault(c), pc[c] = "failed"
  PROVE  req[c].cmd = "gateway.audit"
<1>1. PICK s \in Servers : SessionTurn(c, s)
  BY DEF GatewayStep, GatewayFault, ReadProfile, InvalidRegistry, ReadRegistry,
         ReadRegistryForAudit, ReadGate, Connect, ListTools, CallTool, SessionFails, Close,
         CloseFails, LogFailure, GatewayCallFails, AuditEnds, SessionTurn
<1>2. QED
  BY <1>1, SessionTurns

\* A step of the other commands, an audit's sessions after its end included.
LEMMA OtherMoves ==
  ASSUME TypeInv, NEW c \in Clients,
         \/ SecretStep(c) \/ SecretFault(c) \/ AuthStep(c) \/ AuthFault(c)
         \/ GatewayStep(c) \/ GatewayFault(c)
  PROVE  /\ Moved(c) /\ Traced(c)
         /\ pc[c] # "idle" /\ req[c].cmd \notin ProjectCmds /\ pc'[c] \notin ProjectSteps
<1>1. Moved(c) /\ Traced(c)
  BY SecretMoves, AuthMoves, GatewayMoves, SecretTraced, AuthTraced, GatewayTraced
<1>2. FitsRequest(pc[c], req[c]) /\ req'[c] = req[c]
  BY <1>1 DEF TypeInv, Fits, Traced
<1>3. pc[c] \in SecretSteps \cup AuthSteps \cup GatewaySteps \/ pc[c] = "failed"
  BY OwnGuards
<1>4. pc[c] \in SecretSteps \cup AuthSteps \cup GatewaySteps => req[c].cmd \notin ProjectCmds
  BY <1>2, CmdKinds DEF FitsRequest, SecretCmds, ProjectCmds, AuthCmds, GatewayCmds
<1>5. pc[c] = "failed" => req[c].cmd = "gateway.audit"
  BY OwnGuards, AuditTurnsOn DEF SecretSteps, AuthSteps, Ends
<1>6. req[c].cmd \notin ProjectCmds
  BY <1>3, <1>4, <1>5 DEF ProjectCmds
<1>7. pc[c] # "idle"
  BY <1>3, AdcStepNames DEF SecretSteps, AuthSteps, GatewaySteps, ContextSteps
<1>8. pc'[c] \notin ProjectSteps
  BY <1>1, <1>2, <1>6, CmdKinds DEF Moved, FitsRequest
<1>9. QED
  BY <1>1, <1>6, <1>7, <1>8

\* A step outside of the project commands, of a client that was at one.
LEMMA OtherAudited ==
  ASSUME TypeInv, TraceOK, AuditInv, NEW c \in Clients,
         \/ SecretStep(c) \/ SecretFault(c) \/ AuthStep(c) \/ AuthFault(c)
         \/ GatewayStep(c) \/ GatewayFault(c)
  PROVE  AuditInv'
<1>1. Moved(c) /\ Traced(c) /\ pc[c] # "idle" /\ pc'[c] \notin ProjectSteps
  BY OtherMoves
<1>2. alone' = alone
  BY <1>1 DEF Traced
<1>5. alone'[c] => \A d \in Clients \ {c} : pc'[d] = "idle"
  BY <1>1, <1>2 DEF Moved, AuditInv, AuditAt, TypeInv, ClientTypeOK
<1>6. AuditAt(c)'
  BY <1>1, <1>5, ElsewhereAudited
<1>7. \A d \in Clients \ {c} : did'[d] = did[d] /\ alone'[d] = alone[d]
  BY <1>1, <1>2, TracedKept
<1>8. QED
  BY <1>1, <1>6, <1>7, AuditOthers

LEMMA AuditNext ==
  TypeInv /\ TraceOK /\ GatewayInv /\ AuditInv /\ [Next]_vars => AuditInv'
<1> SUFFICES ASSUME TypeInv, TraceOK, GatewayInv, AuditInv, [Next]_vars PROVE AuditInv'
  OBVIOUS
<1>1. ASSUME NEW c \in Clients, ProjectStep(c) \/ ProjectFault(c) PROVE AuditInv'
  <2>1. AuditAt(c)'
    BY <1>1, AuditKept DEF AuditInv
  <2>2. /\ Moved(c) /\ pc[c] # "idle"
        /\ \A d \in Clients \ {c} : did'[d] = did[d] /\ alone'[d] = alone[d]
    BY <1>1, ProjectMoves, ProjectTraced, TracedKept, OwnGuards DEF Traced, ProjectSteps
  <2>3. QED
    BY <2>1, <2>2, AuditOthers
<1>2. ASSUME NEW c \in Clients, Finish(c) \/ Kill(c) PROVE AuditInv'
  <2>1. Moved(c) /\ pc'[c] = "idle" /\ pc[c] # "idle"
    BY <1>2, LeaveMoves, KeptTyped DEF Finish, Kill, Leave, Goto, Kept, Ends
  <2>2. AuditAt(c)'
    BY <1>2, <2>1, LeaveTraced, ElsewhereAudited DEF ProjectSteps
  <2>3. QED
    BY <1>2, <2>1, <2>2, LeaveTraced, AuditOthers
<1>3. ASSUME NEW c \in Clients, NEW r \in Requests, Start(c, r) PROVE AuditInv'
  <2>1. /\ Moved(c) /\ pc[c] = "idle" /\ pc'[c] = FirstStep(r)
        /\ pc'[c] \in ProjectSteps => pc'[c] \in {"describe", "lifecycle"}
    <3>1. Moved(c) /\ pc[c] = "idle" /\ pc'[c] = FirstStep(r)
      BY <1>3, StartMoves, KeptTyped DEF Start, Goto, Kept
    <3>2. FirstStep(r) \in ProjectSteps => FirstStep(r) \in {"describe", "lifecycle"}
      <4>1. r.cmd \in SecretCmds \cup ProjectCmds \cup AuthCmds \cup GatewayCmds \cup {"setup"}
        BY CmdKinds
      <4>2. QED
        BY <4>1 DEF FirstStep, ProjectSteps, SecretCmds, ProjectCmds, AuthCmds, GatewayCmds
    <3>3. QED
      BY <3>1, <3>2
  <2>2. did' = did /\ did[c] = {}
    BY <1>3, <2>1, StartTraced DEF GatewayInv, GatewayAt, LogAt
  <2>3. AuditAt(c)'
    <3>1. alone'[c] => \A d \in Clients \ {c} : pc'[d] = "idle"
      BY <1>3, <2>1, StartTraced DEF Moved, TypeInv, ClientTypeOK
    <3>2. QED
      BY <2>1, <2>2, <3>1 DEF AuditAt, Fresh, Audited, ProjectSteps
  <2>4. ASSUME NEW d \in Clients, d # c PROVE AuditAt(d)'
    <3>1. pc'[d] = pc[d] /\ req'[d] = req[d] /\ look'[d] = look[d] /\ ~alone'[d]
      BY <1>3, <2>1, <2>4, StartTraced DEF Moved, TypeInv, ClientTypeOK
    <3>2. AuditAt(d)
      BY DEF AuditInv
    <3>3. QED
      BY <2>2, <3>1, <3>2 DEF AuditAt, Audited, Target
  <2>5. QED
    BY <2>3, <2>4 DEF AuditInv
<1>4. CASE People
  <2>1. ASSUME NEW c \in Clients PROVE AuditAt(c)'
    <3>1. UNCHANGED <<pc, req, did, faulted, look, acct>>
      BY <1>4, PeopleTraced
         DEF People, HandLifecycle, HandBilling, HandOwner, HandSecret, HandAccount, HandTool,
             HandRegistry, HandSpoil, ByHand, Grant, local
    <3>2. ~alone'[c] \/ UNCHANGED <<alone, billed, owners, configs, active>>
      BY <1>4, PeopleTraced DEF cloud, machine
    <3>3. AuditAt(c)
      BY DEF AuditInv
    <3>4. CASE ~alone'[c]
      BY <3>1, <3>3, <3>4 DEF AuditAt, Audited, Target
    <3>5. CASE UNCHANGED <<alone, billed, owners, configs, active>>
      BY <3>1, <3>3, <3>5
         DEF AuditAt, Audited, Target, Fresh, Caller, User, LoggedIn, OwnerFound, Expected
    <3>6. QED
      BY <3>2, <3>4, <3>5
  <2>2. QED
    BY <2>1 DEF AuditInv
<1>5. CASE UNCHANGED vars
  BY <1>5 DEF vars, cloud, machine, trace, fate, local, AuditInv, AuditAt, Audited, Target, Fresh,
              Caller, User, LoggedIn, OwnerFound, Expected
<1>6. QED
  BY <1>1, <1>2, <1>3, <1>4, <1>5, OtherAudited DEF Next, Step, Misfortune

LEMMA AuditAlways == Spec => [](TypeInv /\ TraceOK /\ AuditInv)
  BY TypeInit, TypeNext, TraceInit, TraceNext, GatewayInit, GatewayNext, AuditInit, AuditNext,
     PTL DEF Spec

\* A project stops being active by a deletion of omg's or by somebody's hand.
LEMMA Deletions ==
  ASSUME TypeInv, TraceOK, NEW p \in Projects, [Next]_vars,
         lifecycle[p] = "ACTIVE", lifecycle'[p] # "ACTIVE"
  PROVE  \/ hands' # hands
         \/ \E c \in Clients : /\ ProjectStep(c) \/ ProjectFault(c)
                               /\ ActEffect(c) /\ pc[c] = "delete" /\ Target(c) = p
<1>1. ASSUME NEW c \in Clients, ProjectStep(c) \/ ProjectFault(c)
      PROVE  ActEffect(c) /\ pc[c] = "delete" /\ Target(c) = p
  <2>1. ActEffect(c) \/ UNCHANGED lifecycle
    BY <1>1
       DEF ProjectStep, ProjectFault, Describe, ReadProjectBilling, ReadAccount, ReadRoles,
           ReadLifecycle, LoadApproval, ConsumeApproval, AskApproval, ApprovalRefused, ActOnProject,
           ActRefused, DescribeAfter, ProjectNoLogin, ReadNoAccount, ReadNoRoles, ActLost,
           ProjectCallFails, cloud
  <2>2. ActEffect(c)
    BY <2>1
  <2>3. lifecycle \in [Projects -> LifecycleStates]
    BY DEF TypeInv, SharedTypeOK
  <2>4. QED
    BY <2>2, <2>3 DEF ActEffect
<1>2. ASSUME NEW c \in Clients,
             \/ SecretStep(c) \/ SecretFault(c) \/ AuthStep(c) \/ AuthFault(c)
             \/ GatewayStep(c) \/ GatewayFault(c)
      PROVE  lifecycle' = lifecycle
  <2>1. SecretStep(c) \/ SecretFault(c) => lifecycle' = lifecycle
    BY DEF SecretStep, SecretFault, SecretGate, ListSecrets, SecretExists, PrepareDataFile,
           WriteSecret, WriteEffect, WriteRefused, CleanUp, RemoveSecret, RemoveEffect,
           RemoveRefused, SecretNoLogin, PrepareFails, WriteFails, HalfCreated, CleanUpFails,
           SecretCallFails, cloud
  <2>2. QED
    BY <1>2, <2>1, AuthTraced, GatewayTraced DEF cloud
<1>3. ASSUME NEW c \in Clients, NEW r \in Requests, Start(c, r) PROVE lifecycle' = lifecycle
  BY <1>3 DEF Start, cloud
<1>4. ASSUME NEW c \in Clients, Finish(c) \/ Kill(c) PROVE lifecycle' = lifecycle
  BY <1>4, LeaveTraced DEF cloud
<1>5. ASSUME People, hands' = hands PROVE lifecycle' = lifecycle
  BY <1>5, PeopleTraced DEF TraceOK, cloud
<1>6. CASE UNCHANGED vars
  BY <1>6 DEF vars, cloud
<1>7. QED
  BY <1>1, <1>2, <1>3, <1>4, <1>5, <1>6 DEF Next, Step, Misfortune

\* No protected project, and none of an organization or a folder, is deleted by omg, for
\* any number of clients, approvals and accounts (project.ts: getDeleteBlockReason; the
\* audit runs anew with the command that deletes).
THEOREM Protected == Spec => ProtectedKept
<1>1. TypeInv /\ TraceOK /\ AuditInv /\ [Next]_vars =>
        [\A p \in ProtectedProjects \cup Owned :
           lifecycle[p] = "ACTIVE" /\ lifecycle'[p] # "ACTIVE" => hands' # hands]_vars
  <2> SUFFICES ASSUME TypeInv, TraceOK, AuditInv, [Next]_vars,
                      NEW p \in ProtectedProjects \cup Owned,
                      lifecycle[p] = "ACTIVE", lifecycle'[p] # "ACTIVE", hands' = hands
               PROVE  FALSE
    OBVIOUS
  <2>1. p \in Projects
    BY SessionAssumption DEF SessionAssumption
  <2>2. PICK c \in Clients : pc[c] = "delete" /\ Target(c) = p
    BY <2>1, Deletions
  <2>3. req[c].cmd = "project.delete"
    BY <2>2 DEF TypeInv, Fits, FitsRequest
  <2>4. QED
    BY <2>2, <2>3 DEF AuditInv, AuditAt, Audited
<1>2. QED
  BY <1>1, AuditAlways, PTL DEF Spec, ProtectedKept
-----------------------------------------------------------------------------

(* An approval that a deletion or a restoration uses is of what its command has found, *)
(* and one used by two was loaded by both before either had saved it as consumed.      *)

Holds(c) == pc[c] \in {"consume", "delete", "undelete"}

\* The approval a command holds is of its request; at the call it is consumed.
HeldAt(c) ==
  Holds(c) =>
    /\ using[c].of = Request(c)
    /\ using[c].number <= grants
    /\ pc[c] # "consume" => using[c] \notin granted
    /\ using[c] \in spent => using[c] \in shared

SharedAt(c, d) == c # d /\ Holds(c) /\ Holds(d) /\ using[c] = using[d] => using[c] \in shared

PaidInv ==
  /\ \A a \in granted \cup spent : a.number \in Nat /\ a.number <= grants
  /\ granted \cap spent = {}
  /\ \A c \in Clients : HeldAt(c)
  /\ \A c, d \in Clients : SharedAt(c, d)

LEMMA PaidInit == Init => PaidInv
<1> SUFFICES ASSUME Init PROVE PaidInv
  OBVIOUS
<1>1. PICK b \in Beginnings : granted = b.granted /\ grants = Cardinality(b.granted)
  BY DEF Init
<1>2. \A a \in granted : a.number \in Nat /\ a.number <= grants
  <2>1. \A a \in granted : a \in Approvals /\ a.number <= grants
    BY <1>1, SessionAssumption DEF SessionAssumption
  <2>2. QED
    BY <2>1 DEF Approvals
<1>3. QED
  BY <1>2 DEF Init, PaidInv, HeldAt, SharedAt, Holds

\* The clients that do not move hold what they held.
LEMMA HeldKept ==
  ASSUME TypeInv, NEW c \in Clients, Moved(c), NEW d \in Clients, d # c
  PROVE  /\ pc'[d] = pc[d] /\ using'[d] = using[d] /\ Holds(d)' = Holds(d)
         /\ Request(d)' = Request(d)
<1>1. /\ pc'[d] = pc[d] /\ req'[d] = req[d] /\ using'[d] = using[d] /\ look'[d] = look[d]
      /\ acct'[d] = acct[d]
  BY DEF TypeInv, ClientTypeOK, Moved
<1>2. QED
  BY <1>1 DEF Holds, Request, Act, Target

\* A step that neither gives nor uses an approval.
LEMMA PaidKept ==
  ASSUME TypeInv, PaidInv, NEW c \in Clients, Moved(c),
         UNCHANGED <<grants, granted, spent, shared>>, ~Holds(c)'
  PROVE  PaidInv'
<1>1. \A d \in Clients : HeldAt(d)'
  BY HeldKept DEF PaidInv, HeldAt
<1>2. \A d, e \in Clients : SharedAt(d, e)'
  BY HeldKept DEF PaidInv, SharedAt
<1>3. QED
  BY <1>1, <1>2 DEF PaidInv

\* An approval in the queue is held by none that is at its call already; one that
\* another command holds is then held by both.
LEMMA LoadPaid ==
  ASSUME TypeInv, PaidInv, NEW c \in Clients, LoadApproval(c)
  PROVE  PaidInv'
<1>1. PICK approval \in granted :
        /\ approval.of = Request(c)
        /\ using' = [using EXCEPT ![c] = approval]
        /\ shared' = IF LoadedBeside(c, approval) THEN shared \cup {approval} ELSE shared
  BY DEF LoadApproval
<1>2. /\ Moved(c) /\ pc'[c] = "consume" /\ using'[c] = approval /\ Request(c)' = Request(c)
      /\ UNCHANGED <<grants, granted, spent>>
  BY <1>1, ProjectMoves
     DEF LoadApproval, ProjectStep, Goto, TypeInv, ClientTypeOK, Request, Act, Target
<1>3. \A d \in Clients \ {c} : Holds(d) /\ using[d] = approval => approval \in shared'
  BY <1>1 DEF PaidInv, HeldAt, Holds, LoadedBeside
<1>4. HeldAt(c)'
  BY <1>1, <1>2 DEF PaidInv, HeldAt
<1>5. ASSUME NEW d \in Clients, d # c PROVE HeldAt(d)'
  BY <1>1, <1>2, <1>5, HeldKept DEF PaidInv, HeldAt
<1>6. ASSUME NEW d \in Clients, NEW e \in Clients PROVE SharedAt(d, e)'
  <2>1. CASE d # c /\ e # c
    BY <1>1, <1>2, <2>1, HeldKept DEF PaidInv, SharedAt
  <2>2. CASE d = c \/ e = c
    BY <1>2, <1>3, <2>2, HeldKept DEF SharedAt
  <2>3. QED
    BY <2>1, <2>2
<1>7. QED
  BY <1>2, <1>4, <1>5, <1>6 DEF PaidInv

LEMMA ConsumePaid ==
  ASSUME TypeInv, PaidInv, NEW c \in Clients, ConsumeApproval(c)
  PROVE  PaidInv'
<1>1. /\ Moved(c) /\ pc[c] = "consume" /\ pc'[c] \in {"delete", "undelete"}
      /\ UNCHANGED <<grants, spent, shared, using>> /\ granted' = granted \ {using[c]}
      /\ Request(c)' = Request(c)
  BY ProjectMoves
     DEF ConsumeApproval, ProjectStep, Goto, TypeInv, ClientTypeOK, local, Request, Act, Target
<1>2. HeldAt(c)'
  BY <1>1 DEF PaidInv, HeldAt, Holds
<1>3. ASSUME NEW d \in Clients, d # c PROVE HeldAt(d)'
  BY <1>1, <1>3, HeldKept DEF PaidInv, HeldAt
<1>4. ASSUME NEW d \in Clients PROVE Holds(d)' <=> Holds(d)
  BY <1>1, HeldKept DEF Holds
<1>5. \A d, e \in Clients : SharedAt(d, e)'
  BY <1>1, <1>4 DEF PaidInv, SharedAt
<1>6. QED
  BY <1>1, <1>2, <1>3, <1>5 DEF PaidInv

\* What a call has used is held by another only if both had loaded it.
LEMMA ActPaid ==
  ASSUME TypeInv, PaidInv, NEW c \in Clients, ActOnProject(c) \/ ActLost(c)
  PROVE  PaidInv'
<1>1. /\ Moved(c) /\ pc[c] \in {"delete", "undelete"} /\ ~Holds(c)'
      /\ UNCHANGED <<grants, granted, shared>> /\ spent' = spent \cup {using[c]}
  BY ProjectMoves
     DEF ActOnProject, ActLost, ActEffect, ProjectStep, ProjectFault, Goto, TypeInv, ClientTypeOK,
         Holds
<1>2. using[c].number \in Nat /\ using[c].number <= grants /\ using[c] \notin granted
  <2>1. using[c] \in Approvals
    BY <1>1 DEF TypeInv, Fits, FitsMemory
  <2>2. QED
    BY <1>1, <2>1 DEF PaidInv, HeldAt, Holds, Approvals
<1>3. ASSUME NEW d \in Clients, d # c PROVE HeldAt(d)'
  <2>1. SharedAt(c, d) /\ HeldAt(d) /\ Holds(c)
    BY <1>1 DEF PaidInv, Holds
  <2>2. QED
    BY <1>1, <1>3, <2>1, HeldKept DEF HeldAt, SharedAt
<1>4. \A d, e \in Clients : SharedAt(d, e)'
  BY <1>1, HeldKept DEF PaidInv, SharedAt
<1>5. HeldAt(c)'
  BY <1>1 DEF HeldAt
<1>6. QED
  BY <1>1, <1>2, <1>3, <1>4, <1>5 DEF PaidInv

\* A new approval has a file of its own.
LEMMA GrantPaid ==
  ASSUME TypeInv, PaidInv, NEW request \in asked, Grant(request)
  PROVE  PaidInv'
<1> DEFINE new == [of |-> request, number |-> grants + 1]
<1>1. /\ granted' = granted \cup {new} /\ grants' = grants + 1
      /\ UNCHANGED <<spent, shared, using>>
      /\ \A c \in Clients : Holds(c)' = Holds(c) /\ Request(c)' = Request(c) /\ pc'[c] = pc[c]
  BY DEF Grant, local, Holds, Request, Act, Target
<1>2. grants \in Nat /\ new.number = grants + 1 /\ granted \subseteq Approvals
  BY DEF TypeInv, SharedTypeOK
<1>3. \A a : a.number <= grants => a # new
  BY <1>2
<1> HIDE DEF new
<1>4. \A c \in Clients : HeldAt(c)'
  <2> SUFFICES ASSUME NEW c \in Clients, Holds(c) PROVE HeldAt(c)'
    BY <1>1 DEF HeldAt
  <2>1. using[c] \in Approvals /\ HeldAt(c)
    BY DEF Holds, PaidInv, TypeInv, Fits, FitsMemory
  <2>2. using[c].number \in Nat
    BY <2>1 DEF Approvals
  <2>3. QED
    BY <1>1, <1>2, <1>3, <2>1, <2>2 DEF HeldAt
<1>5. \A c, d \in Clients : SharedAt(c, d)'
  BY <1>1 DEF PaidInv, SharedAt
<1>6. granted' \cap spent' = {}
  BY <1>1, <1>3 DEF PaidInv
<1>7. \A a \in granted' \cup spent' : a.number \in Nat /\ a.number <= grants'
  <2> SUFFICES ASSUME NEW a \in granted \cup spent
               PROVE  a.number \in Nat /\ a.number <= grants + 1
    BY <1>1, <1>2
  <2>1. a.number <= grants
    BY DEF PaidInv
  <2>2. a.number \in Nat
    BY DEF PaidInv
  <2>3. QED
    BY <1>2, <2>1, <2>2
<1>8. QED
  BY <1>4, <1>5, <1>6, <1>7 DEF PaidInv

LEMMA ProjectPaid ==
  ASSUME TypeInv, PaidInv, NEW c \in Clients, ProjectStep(c) \/ ProjectFault(c),
         ~LoadApproval(c), ~ConsumeApproval(c), ~ActOnProject(c), ~ActLost(c)
  PROVE  PaidInv'
<1>1. Moved(c) /\ UNCHANGED <<grants, granted, spent, shared>>
  BY ProjectMoves
     DEF ProjectStep, ProjectFault, Describe, ReadProjectBilling, ReadAccount, ReadRoles,
         ReadLifecycle, AskApproval, ApprovalRefused, ActRefused, DescribeAfter, ProjectNoLogin,
         ReadNoAccount, ReadNoRoles, ProjectCallFails, consent
<1>2. \A account : pc[c] \in {"account", "account-again"} =>
        AfterAccount(c, account) \notin {"consume", "delete", "undelete"}
  BY DEF AfterAccount
<1>3. \A l : AfterAudit(c, l) \notin {"consume", "delete", "undelete"}
  BY DEF AfterAudit
<1>4. pc \in [Clients -> AllSteps]
  BY DEF TypeInv, ClientTypeOK
<1>5. ~Holds(c)'
  BY <1>2, <1>3, <1>4
     DEF ProjectStep, ProjectFault, Describe, ReadProjectBilling, ReadAccount, ReadRoles,
         ReadLifecycle, AskApproval, ApprovalRefused, ActRefused, DescribeAfter, ProjectNoLogin,
         ReadNoAccount, ReadNoRoles, ProjectCallFails, Goto, Holds
<1>6. QED
  BY <1>1, <1>5, PaidKept

\* A step of the other commands.
LEMMA OtherPaid ==
  ASSUME TypeInv, TraceOK, PaidInv, NEW c \in Clients,
         \/ SecretStep(c) \/ SecretFault(c) \/ AuthStep(c) \/ AuthFault(c)
         \/ GatewayStep(c) \/ GatewayFault(c)
  PROVE  PaidInv'
<1>1. Moved(c) /\ pc'[c] \notin ProjectSteps
  BY OtherMoves
<1>2. UNCHANGED <<grants, granted, spent, shared>>
  BY AuthTraced, GatewayTraced
     DEF SecretStep, SecretFault, SecretGate, ListSecrets, SecretExists, PrepareDataFile,
         WriteSecret, WriteRefused, CleanUp, RemoveSecret, RemoveRefused, SecretNoLogin,
         PrepareFails, WriteFails, HalfCreated, CleanUpFails, SecretCallFails, consent
<1>3. QED
  BY <1>1, <1>2, PaidKept DEF ProjectSteps, Holds

LEMMA PaidNext ==
  TypeInv /\ TraceOK /\ PaidInv /\ [Next]_vars => PaidInv'
<1> SUFFICES ASSUME TypeInv, TraceOK, PaidInv, [Next]_vars PROVE PaidInv'
  OBVIOUS
<1>1. ASSUME NEW c \in Clients, NEW r \in Requests, Start(c, r) PROVE PaidInv'
  <2>1. Moved(c) /\ pc'[c] = FirstStep(r) /\ UNCHANGED <<grants, granted, spent, shared>>
    BY <1>1, StartMoves, StartTraced, KeptTyped DEF Start, Goto, Kept, consent
  <2>2. r.cmd \in SecretCmds \cup ProjectCmds \cup AuthCmds \cup GatewayCmds \cup {"setup"}
    BY CmdKinds
  <2>3. pc'[c] \notin {"consume", "delete", "undelete"}
    BY <2>1, <2>2 DEF FirstStep, SecretCmds, ProjectCmds, AuthCmds, GatewayCmds
  <2>4. QED
    BY <2>1, <2>3, PaidKept DEF Holds
<1>2. ASSUME NEW c \in Clients, Finish(c) \/ Kill(c) PROVE PaidInv'
  <2>1. Moved(c) /\ pc'[c] = "idle" /\ UNCHANGED <<grants, granted, spent, shared>>
    BY <1>2, LeaveMoves, LeaveTraced, KeptTyped DEF Finish, Kill, Leave, Goto, Kept, consent
  <2>2. QED
    BY <2>1, PaidKept DEF Holds
<1>3. CASE UNCHANGED <<consent, pc, local>>
  BY <1>3 DEF consent, local, PaidInv, HeldAt, SharedAt, Holds, Request, Act, Target
<1>4. CASE People
  <2>1. CASE \E request \in asked : Grant(request)
    BY <2>1, GrantPaid
  <2>2. CASE ~\E request \in asked : Grant(request)
    <3>1. UNCHANGED <<consent, pc, local>>
      BY <1>4, <2>2
         DEF People, HandLifecycle, HandBilling, HandOwner, HandSecret, HandAccount, HandTool,
             HandRegistry, HandSpoil, ByHand
    <3>2. QED
      BY <1>3, <3>1
  <2>3. QED
    BY <2>1, <2>2
<1>5. CASE UNCHANGED vars
  BY <1>3, <1>5 DEF vars
<1>6. QED
  BY <1>1, <1>2, <1>4, <1>5, LoadPaid, ConsumePaid, ActPaid, ProjectPaid, OtherPaid
     DEF Next, Step, Misfortune

\* A client that has deleted or restored a project has just called for it.
LEMMA Acts ==
  ASSUME TypeInv, TraceOK, GatewayInv, [Next]_vars, NEW c \in Clients, pc'[c] # "idle",
         did'[c] \cap {"delete", "undelete"} # did[c] \cap {"delete", "undelete"}
  PROVE  ActEffect(c) /\ pc[c] \in {"delete", "undelete"}
<1> DEFINE deeds == {"delete", "undelete"}
<1>1. ASSUME NEW d \in Clients, ProjectStep(d) \/ ProjectFault(d)
      PROVE  ActEffect(c) /\ pc[c] \in deeds
  <2>1. ActEffect(d) \/ did' = did
    BY <1>1
       DEF ProjectStep, ProjectFault, Describe, ReadProjectBilling, ReadAccount, ReadRoles,
           ReadLifecycle, LoadApproval, ConsumeApproval, AskApproval, ApprovalRefused,
           ActOnProject, ActRefused, DescribeAfter, ProjectNoLogin, ReadNoAccount, ReadNoRoles,
           ActLost, ProjectCallFails, trace
  <2>2. ActEffect(d) => did'[c] = did[c] \/ d = c
    BY <1>1, ProjectTraced, TracedKept
  <2>3. QED
    BY <2>1, <2>2 DEF ActEffect
<1>2. ASSUME NEW d \in Clients,
             \/ SecretStep(d) \/ SecretFault(d) \/ AuthStep(d) \/ AuthFault(d)
             \/ GatewayStep(d) \/ GatewayFault(d)
      PROVE  FALSE
  <2>1. \A x \in Configurations : x \notin deeds
    BY SessionAssumption DEF SessionAssumption, Deeds
  <2>2. did' = did \/ \E x : x \notin deeds /\ did' = [did EXCEPT ![d] = did[d] \cup {x}]
    BY <1>2, <2>1, OtherDeeds
  <2>3. QED
    BY <2>2 DEF TraceOK
<1>3. ASSUME NEW d \in Clients, \/ \E r \in Requests : Start(d, r)
                                \/ Finish(d) \/ Kill(d)
      PROVE  FALSE
  <2>1. CASE \E r \in Requests : Start(d, r)
    BY <2>1 DEF Start, trace
  <2>2. CASE Finish(d) \/ Kill(d)
    <3>1. d = c => pc'[c] = "idle"
      BY <2>2, KeptTyped DEF Finish, Kill, Leave, Goto, Kept
    <3>2. d # c => did'[c] = did[c]
      BY <2>2, LeaveTraced
    <3>3. QED
      BY <3>1, <3>2
  <2>3. QED
    BY <1>3, <2>1, <2>2
<1>4. CASE People
  BY <1>4, PeopleTraced
<1>5. CASE UNCHANGED vars
  BY <1>5 DEF vars, trace
<1>6. QED
  BY <1>1, <1>2, <1>3, <1>4, <1>5 DEF Next, Step, Misfortune

\* What omg deletes or restores was approved as the command found it, and no approval
\* serves for two but one that both had loaded before either saved it as consumed; and a
\* deletion that nobody and no failure came between is of a project without billing, of an
\* owner who is the approved account (project.ts: runProjectDelete; check.ts).
THEOREM DeletesAudited == Spec => DeletesAsAudited
<1>1. TypeInv /\ TraceOK /\ AuditInv /\ [Next]_vars =>
        \A p \in Projects :
          lifecycle[p] = "ACTIVE" /\ lifecycle'[p] # "ACTIVE" /\ hands' = hands =>
            \E c \in Clients :
              /\ pc[c] = "delete" /\ req[c].project = p /\ did'[c] # did[c]
              /\ alone[c] /\ faulted[c] = {} =>
                   /\ p \notin billed /\ <<p, User>> \in owners
                   /\ acct[c] = User /\ req[c].expect \in {None, User}
  <2> SUFFICES ASSUME TypeInv, TraceOK, AuditInv, [Next]_vars, NEW p \in Projects,
                      lifecycle[p] = "ACTIVE", lifecycle'[p] # "ACTIVE", hands' = hands
               PROVE  \E c \in Clients :
                        /\ pc[c] = "delete" /\ req[c].project = p /\ did'[c] # did[c]
                        /\ alone[c] /\ faulted[c] = {} =>
                             /\ p \notin billed /\ <<p, User>> \in owners
                             /\ acct[c] = User /\ req[c].expect \in {None, User}
    OBVIOUS
  <2>1. PICK c \in Clients : ActEffect(c) /\ pc[c] = "delete" /\ Target(c) = p
    BY Deletions
  <2>2. req[c].cmd = "project.delete" /\ req[c].project = p /\ LoggedIn
    BY <2>1 DEF TypeInv, Fits, FitsRequest, ActEffect, Target
  <2>3. AuditAt(c) /\ did[c] = {}
    BY <2>1 DEF AuditInv, AuditAt, ProjectSteps
  <2>4. did'[c] # did[c]
    BY <2>1, <2>3 DEF ActEffect, TraceOK
  <2>5. Caller = User /\ User # "*"
    BY <2>2, UserTyped, SessionAssumption DEF Caller, LoggedIn, TypeInv, SessionAssumption
  <2>6. ASSUME alone[c], faulted[c] = {}
        PROVE  /\ p \notin billed /\ <<p, User>> \in owners
               /\ acct[c] = User /\ req[c].expect \in {None, User}
    <3>1. Fresh(c) /\ Audited(c)
      BY <2>1, <2>2, <2>3, <2>6 DEF AuditAt, Audited
    <3>2. acct[c] = User /\ Expected(c, User) /\ p \notin billed /\ OwnerFound(p, User)
      BY <2>1, <2>5, <3>1 DEF Fresh
    <3>3. QED
      BY <2>5, <3>2 DEF Expected, OwnerFound
  <2>7. QED
    BY <2>1, <2>2, <2>4, <2>6
<1>2. TypeInv /\ TraceOK /\ GatewayInv /\ PaidInv /\ [Next]_vars =>
        \A c \in Clients :
          did'[c] \cap {"delete", "undelete"} # did[c] \cap {"delete", "undelete"} /\ Running(c)' =>
            /\ using[c].of = Request(c)
            /\ using[c] \in spent => using[c] \in shared
  BY Acts DEF Running, PaidInv, HeldAt, Holds
<1>3. TypeInv /\ TraceOK /\ AuditInv /\ GatewayInv /\ PaidInv /\ [Next]_vars =>
        [/\ \A c \in Clients :
              did'[c] \cap {"delete", "undelete"} # did[c] \cap {"delete", "undelete"} /\ Running(c)' =>
                /\ using[c].of = Request(c)
                /\ using[c] \in spent => using[c] \in shared
         /\ \A p \in Projects :
              lifecycle[p] = "ACTIVE" /\ lifecycle'[p] # "ACTIVE" /\ hands' = hands =>
                \E c \in Clients :
                  /\ pc[c] = "delete" /\ req[c].project = p /\ did'[c] # did[c]
                  /\ alone[c] /\ faulted[c] = {} =>
                       /\ p \notin billed /\ <<p, User>> \in owners
                       /\ acct[c] = User /\ req[c].expect \in {None, User}]_vars
  BY <1>1, <1>2
<1>4. Spec => []PaidInv
  BY TypeInit, TypeNext, TraceInit, TraceNext, PaidInit, PaidNext, PTL DEF Spec
<1>5. QED
  BY <1>3, <1>4, AuditAlways, GatewayAlways, PTL DEF Spec, DeletesAsAudited

-----------------------------------------------------------------------------

(* What a command reports. *)

\* Steps before the deed of a command.
Unbegun ==
  {"idle", "gate", "listing", "exists", "prepare", "write", "remove"}
    \cup (ProjectSteps \ {"after"})
    \cup {"profile", "registry", "read-gate", "connect", "tools", "call", "refuse", "sessions"}

\* Steps that a command gets to by its deed, or with nothing to do.
Completed == {"clean", "after", "close", "done"}

\* Steps on the way to an error.
Failing == {"unwind", "abandon", "fail", "failed", "create"}

DeedAt(c) ==
  /\ pc[c] \in Unbegun => did[c] = {}
  /\ pc[c] \in Completed => did[c] \ Configurations = Deed(c)
  /\ pc[c] \in AuthSteps => did[c] \subseteq Configurations
  /\ pc[c] = "blocked" /\ req[c].cmd # "setup" => did[c] = {}
  /\ pc[c] \in {"check", "activate", "projects"} /\ req[c].cmd # "auth.create" => did[c] = {}
  /\ pc[c] \in SecretSteps /\ req[c].cmd # "secret.list" => req[c].how = "live"
  /\ pc[c] = "listing" => req[c].cmd = "secret.list"
  /\ pc[c] \in {"describe", "billing", "account", "roles"} => req[c].cmd # "project.undelete"

\* If nothing comes between.
QuietAt(c) ==
  alone[c] =>
    /\ faulted[c] = {} /\ pc[c] \in Failing => did[c] = {}
    /\ pc[c] = "after" => LoggedIn

ReportAt(c) == DeedAt(c) /\ QuietAt(c)

ReportInv == \A c \in Clients : ReportAt(c)

\* The deed that each command is for.
LEMMA DeedOf ==
  ASSUME NEW c
  PROVE  /\ req[c].cmd = "secret.set" /\ req[c].how = "live" =>
              Deed(c) = {IF saw[c] THEN "add" ELSE "create"}
         /\ req[c].cmd = "secret.delete" /\ req[c].how = "live" => Deed(c) = {"remove"}
         /\ req[c].cmd \in {"secret.set", "secret.delete"} /\ req[c].how # "live" => Deed(c) = {}
         /\ req[c].cmd = "project.delete" => Deed(c) = {"delete"}
         /\ req[c].cmd = "project.undelete" => Deed(c) = {"undelete"}
         /\ req[c].cmd = "gateway.call" => Deed(c) = {"call"}
         /\ req[c].cmd \in AuthCmds \cup {"setup", "secret.list", "project.audit", "project.cleanup",
                                          "gateway.audit"} => Deed(c) = {}
  BY DEF Deed, AuthCmds

\* Deeds are no names of configurations.
LEMMA DeedsApart ==
  /\ {} \ Configurations = {}
  /\ \A x \in Deeds : {x} \ Configurations = {x}
  BY SessionAssumption DEF SessionAssumption

LEMMA SecretReports ==
  ASSUME TypeInv, TraceOK, NEW c \in Clients, ReportAt(c), SecretStep(c) \/ SecretFault(c)
  PROVE  ReportAt(c)'
<1>1. /\ Kept(c) /\ did = [d \in Clients |-> did[d]] /\ faulted = [d \in Clients |-> faulted[d]]
      /\ req'[c] = req[c] /\ alone'[c] = alone[c]
      /\ faulted'[c] = {} => faulted[c] = {} /\ faulted' = faulted
      /\ FitsRequest(pc[c], req[c]) /\ pc[c] \in SecretSteps
  <2>1. Traced(c) /\ Kept(c) /\ Fits(c) /\ pc[c] \in SecretSteps
    BY SecretTraced, KeptTyped, OwnGuards DEF TypeInv
  <2>2. faulted'[c] = {} => faulted[c] = {} /\ faulted' = faulted
    BY <2>1 DEF Traced, TraceOK
  <2>3. QED
    BY <2>1, <2>2 DEF TraceOK, Traced, Fits
<1>2. /\ pc[c] = "gate" => req[c].cmd \in {"secret.set", "secret.list"}
      /\ pc[c] = "listing" => req[c].cmd = "secret.list"
      /\ pc[c] \in {"exists", "prepare", "write", "clean", "unwind"} => req[c].cmd = "secret.set"
      /\ pc[c] = "remove" => req[c].cmd = "secret.delete"
      /\ req[c].cmd # "secret.list" => req[c].how = "live"
  BY <1>1 DEF FitsRequest, ReportAt, DeedAt
<1>3. pc[c] \in {"gate", "listing", "exists", "prepare", "write", "remove"} => did[c] = {}
  BY DEF ReportAt, DeedAt, Unbegun
<1>4. ASSUME did'[c] = {},
             pc'[c] \in {"listing", "exists", "prepare", "write", "unwind", "failed", "blocked"},
             pc'[c] = "listing" => req[c].cmd = "secret.list"
      PROVE  ReportAt(c)'
  BY <1>1, <1>2, <1>4, AdcStepNames
     DEF ReportAt, DeedAt, QuietAt, Completed, Failing, Unbegun, ProjectSteps, AuthSteps,
         ContextSteps, SecretSteps
<1>5. ASSUME did'[c] \ Configurations = Deed(c), saw'[c] = saw[c], pc'[c] \in {"clean", "done"}
      PROVE  ReportAt(c)'
  <2>1. Deed(c)' = Deed(c)
    BY <1>1, <1>5 DEF Deed
  <2>2. QED
    BY <1>1, <1>2, <1>5, <2>1, AdcStepNames
       DEF ReportAt, DeedAt, QuietAt, Completed, Failing, Unbegun, ProjectSteps, AuthSteps,
           ContextSteps, SecretSteps
<1>6. ASSUME faulted'[c] # {}, pc'[c] \in {"unwind", "failed"}
      PROVE  ReportAt(c)'
  BY <1>1, <1>2, <1>6, AdcStepNames
     DEF ReportAt, DeedAt, QuietAt, Completed, Failing, Unbegun, ProjectSteps, AuthSteps,
         ContextSteps, SecretSteps
<1>7. CASE SecretGate(c)
  <2>1. /\ pc[c] = "gate" /\ did' = did
        /\ pc'[c] \in {"blocked", "failed",
                      IF req[c].cmd = "secret.list" THEN "listing" ELSE "exists"}
    BY <1>1, <1>7 DEF SecretGate, Goto, Kept, trace
  <2>2. QED
    BY <1>3, <1>4, <2>1
<1>8. CASE ListSecrets(c)
  <2>1. pc[c] = "listing" /\ did' = did /\ pc'[c] = "done" /\ saw' = saw
    BY <1>1, <1>8 DEF ListSecrets, Goto, Kept, trace, local
  <2>2. QED
    BY <1>2, <1>3, <1>5, <2>1, DeedOf, DeedsApart
<1>9. CASE SecretExists(c) \/ PrepareDataFile(c)
  <2>1. pc[c] \in {"exists", "prepare"} /\ did' = did /\ pc'[c] \in {"prepare", "write"}
    BY <1>1, <1>9 DEF SecretExists, PrepareDataFile, Goto, Kept, trace
  <2>2. QED
    BY <1>3, <1>4, <2>1
<1>10. CASE WriteSecret(c)
  <2>1. /\ pc[c] = "write" /\ pc'[c] = "clean" /\ saw'[c] = saw[c]
        /\ did' = [did EXCEPT ![c] = did[c] \cup {IF saw[c] THEN "add" ELSE "create"}]
    BY <1>1, <1>10 DEF WriteSecret, WriteEffect, Goto, Kept, local
  <2>2. did'[c] = {IF saw[c] THEN "add" ELSE "create"} /\ did'[c] = Deed(c)
    BY <1>1, <1>2, <1>3, <2>1, DeedOf
  <2>3. QED
    BY <1>5, <2>1, <2>2, DeedsApart DEF Deeds
<1>11. CASE WriteRefused(c) \/ RemoveRefused(c) \/ SecretNoLogin(c)
  <2>1. /\ pc[c] \in {"write", "remove", "listing", "exists"} /\ did' = did
        /\ pc'[c] \in {"unwind", "failed"}
    BY <1>1, <1>11 DEF WriteRefused, RemoveRefused, SecretNoLogin, AfterWriteError, Goto, Kept,
                       trace
  <2>2. QED
    BY <1>3, <1>4, <2>1
<1>12. CASE CleanUp(c)
  <2>1. /\ did' = did /\ saw' = saw
        /\ \/ pc[c] = "clean" /\ pc'[c] = "done"
           \/ pc[c] = "unwind" /\ pc'[c] = "failed"
    BY <1>1, <1>12 DEF CleanUp, Goto, Kept, trace, local
  <2>2. CASE pc[c] = "clean" /\ pc'[c] = "done"
    <3>1. did[c] \ Configurations = Deed(c)
      BY <2>2 DEF ReportAt, DeedAt, Completed
    <3>2. QED
      BY <1>5, <2>1, <2>2, <3>1
  <2>3. CASE pc[c] = "unwind" /\ pc'[c] = "failed"
    BY <1>1, <1>2, <2>1, <2>3, AdcStepNames
       DEF ReportAt, DeedAt, QuietAt, Completed, Failing, Unbegun, ProjectSteps, AuthSteps,
           ContextSteps, SecretSteps
  <2>4. QED
    BY <2>1, <2>2, <2>3
<1>13. CASE RemoveSecret(c)
  <2>1. /\ pc[c] = "remove" /\ pc'[c] = "done" /\ saw'[c] = saw[c]
        /\ did' = [did EXCEPT ![c] = did[c] \cup {"remove"}]
    BY <1>1, <1>13 DEF RemoveSecret, RemoveEffect, Goto, Kept, local
  <2>2. did'[c] = {"remove"} /\ did'[c] = Deed(c)
    BY <1>1, <1>2, <1>3, <2>1, DeedOf
  <2>3. QED
    BY <1>5, <2>1, <2>2, DeedsApart DEF Deeds
<1>14. CASE SecretFault(c)
  <2>1. /\ faulted' = [faulted EXCEPT ![c] = faulted[c] \cup {pc[c]}]
        /\ pc'[c] \in {"unwind", "failed"}
    BY <1>1, <1>14 DEF SecretFault, PrepareFails, WriteFails, HalfCreated, CleanUpFails,
                       SecretCallFails, Fault, FaultAt, AfterWriteError, Goto, Kept
  <2>2. pc[c] \in faulted'[c]
    BY <1>1, <2>1
  <2>3. QED
    BY <1>6, <2>1, <2>2
<1>15. QED
  BY <1>7, <1>8, <1>9, <1>10, <1>11, <1>12, <1>13, <1>14 DEF SecretStep

LEMMA ProjectReports ==
  ASSUME TypeInv, TraceOK, NEW c \in Clients, ReportAt(c), ProjectStep(c) \/ ProjectFault(c)
  PROVE  ReportAt(c)'
<1>1. /\ Kept(c) /\ did = [d \in Clients |-> did[d]] /\ faulted = [d \in Clients |-> faulted[d]]
      /\ req'[c] = req[c] /\ alone'[c] = alone[c] /\ saw'[c] = saw[c] /\ LoggedIn' = LoggedIn
      /\ FitsRequest(pc[c], req[c]) /\ pc[c] \in ProjectSteps
  <2>1. /\ Traced(c) /\ Kept(c) /\ Fits(c) /\ pc[c] \in ProjectSteps /\ UNCHANGED machine
    BY ProjectTraced, KeptTyped, OwnGuards DEF TypeInv
  <2>2. saw' = saw
    BY DEF ProjectStep, ProjectFault, Describe, ReadProjectBilling, ReadAccount, ReadRoles,
           ReadLifecycle, LoadApproval, ConsumeApproval, AskApproval, ApprovalRefused, ActOnProject,
           ActRefused, DescribeAfter, ProjectNoLogin, ReadNoAccount, ReadNoRoles, ActLost,
           ProjectCallFails, local
  <2>3. QED
    BY <2>1, <2>2 DEF TraceOK, Traced, Fits, machine, LoggedIn, User
<1>2. /\ req[c].cmd \in ProjectCmds
      /\ pc[c] \in {"account-again", "approve"} => req[c].cmd \in {"project.delete", "project.undelete"}
      /\ pc[c] = "delete" => req[c].cmd = "project.delete"
      /\ pc[c] \in {"lifecycle", "undelete"} => req[c].cmd = "project.undelete"
      /\ pc[c] \in {"describe", "billing", "account", "roles"} => req[c].cmd # "project.undelete"
  BY <1>1, CmdKinds DEF FitsRequest, ReportAt, DeedAt
<1>3. pc[c] # "after" => did[c] = {}
  BY <1>1 DEF ReportAt, DeedAt, Unbegun
<1> USE AdcStepNames
    DEF ReportAt, DeedAt, QuietAt, Completed, Failing, Unbegun, ProjectSteps, AuthSteps,
        ContextSteps, SecretSteps
<1>4. ASSUME did'[c] = {}, pc'[c] \in (ProjectSteps \ {"after"}) \cup {"failed", "blocked"},
             pc'[c] \in {"describe", "billing", "account", "roles"} => req[c].cmd # "project.undelete"
      PROVE  ReportAt(c)'
  BY <1>1, <1>2, <1>4
<1>5. ASSUME did'[c] \ Configurations = Deed(c), pc'[c] \in {"after", "done"},
             pc'[c] = "after" => LoggedIn
      PROVE  ReportAt(c)'
  <2>1. Deed(c)' = Deed(c)
    BY <1>1, <1>5 DEF Deed
  <2>2. QED
    BY <1>1, <1>2, <1>5, <2>1
<1>6. CASE Describe(c) \/ ReadProjectBilling(c) \/ ReadAccount(c) \/ ReadNoAccount(c)
  <2>1. /\ did' = did /\ pc[c] # "after"
        /\ \/ pc[c] = "describe" /\ pc'[c] = "billing"
           \/ pc[c] = "billing" /\ pc'[c] = "account"
           \/ pc[c] \in {"account", "account-again"} /\ \E a : pc'[c] = AfterAccount(c, a)
    BY <1>1, <1>6 DEF Describe, ReadProjectBilling, ReadAccount, ReadNoAccount, Goto, Kept, trace
  <2>2. \A a : /\ pc[c] = "account" => AfterAccount(c, a) = "roles"
               /\ pc[c] = "account-again" => AfterAccount(c, a) \in {"approve", "blocked"}
    BY DEF AfterAccount
  <2>3. QED
    BY <1>2, <1>3, <1>4, <2>1, <2>2
<1>7. CASE ReadRoles(c) \/ ReadNoRoles(c)
  <2>1. /\ pc[c] = "roles" /\ did' = did /\ \E l : pc'[c] = AfterAudit(c, l)
    BY <1>1, <1>7 DEF ReadRoles, ReadNoRoles, Goto, Kept, trace
  <2>2. CASE req[c].cmd = "project.delete"
    <3>1. pc'[c] \in {"blocked", "account-again"}
      BY <2>1, <2>2 DEF AfterAudit
    <3>2. QED
      BY <1>3, <1>4, <2>1, <3>1
  <2>3. CASE req[c].cmd # "project.delete"
    <3>1. pc'[c] = "done" /\ req[c].cmd \in {"project.audit", "project.cleanup"}
      BY <1>2, <2>1, <2>3 DEF AfterAudit, ProjectCmds
    <3>2. Deed(c) = {} /\ did'[c] = {}
      BY <1>3, <2>1, <3>1, DeedOf
    <3>3. QED
      BY <1>5, <3>1, <3>2, DeedsApart
  <2>4. QED
    BY <2>2, <2>3
<1>8. CASE ReadLifecycle(c) \/ AskApproval(c) \/ ApprovalRefused(c) \/ ActRefused(c)
  <2>1. /\ pc[c] # "after" /\ did' = did /\ pc'[c] \in {"account-again", "failed", "blocked"}
    BY <1>1, <1>8 DEF ReadLifecycle, AskApproval, ApprovalRefused, ActRefused, Goto, Kept, trace
  <2>2. QED
    BY <1>3, <1>4, <2>1
<1>9. CASE LoadApproval(c) \/ ConsumeApproval(c)
  <2>1. pc[c] # "after" /\ did' = did /\ pc'[c] \in {"consume", "delete", "undelete"}
    BY <1>1, <1>9 DEF LoadApproval, ConsumeApproval, Act, Goto, Kept, trace
  <2>2. QED
    BY <1>3, <1>4, <2>1
<1>10. CASE ActOnProject(c)
  <2>1. /\ pc[c] \in {"delete", "undelete"} /\ pc'[c] = "after" /\ LoggedIn
        /\ did' = [did EXCEPT ![c] = did[c] \cup {pc[c]}]
    BY <1>1, <1>10 DEF ActOnProject, ActEffect, Goto, Kept
  <2>2. did'[c] = {pc[c]}
    BY <1>1, <1>3, <2>1
  <2>3. Deed(c) = {pc[c]} /\ pc[c] \in Deeds
    BY <1>2, <2>1, DeedOf DEF Deeds
  <2>4. QED
    BY <1>5, <2>1, <2>2, <2>3, DeedsApart
<1>11. CASE DescribeAfter(c)
  <2>1. pc[c] = "after" /\ pc'[c] = "done" /\ did' = did
    BY <1>1, <1>11 DEF DescribeAfter, Goto, Kept, trace
  <2>2. did[c] \ Configurations = Deed(c)
    BY <2>1
  <2>3. QED
    BY <1>5, <2>1, <2>2
<1>12. CASE ProjectNoLogin(c)
  <2>1. /\ ~LoggedIn /\ pc'[c] = "failed" /\ did' = did
    BY <1>1, <1>12 DEF ProjectNoLogin, Goto, Kept, trace
  <2>2. CASE pc[c] = "after"
    <3>1. ~alone[c]
      BY <2>1, <2>2
    <3>2. QED
      BY <1>1, <1>2, <2>1, <3>1
  <2>3. CASE pc[c] # "after"
    BY <1>3, <1>4, <2>1, <2>3
  <2>4. QED
    BY <2>2, <2>3
<1>13. CASE ActLost(c) \/ ProjectCallFails(c)
  <2>1. /\ faulted' = [faulted EXCEPT ![c] = faulted[c] \cup {pc[c]}] /\ pc'[c] = "failed"
    BY <1>1, <1>13 DEF ActLost, ProjectCallFails, Fault, FaultAt, Goto, Kept
  <2>2. faulted'[c] # {}
    BY <1>1, <2>1
  <2>3. QED
    BY <1>1, <1>2, <2>1, <2>2
<1>14. QED
  BY <1>6, <1>7, <1>8, <1>9, <1>10, <1>11, <1>12, <1>13 DEF ProjectStep, ProjectFault

LEMMA GatewayReports ==
  ASSUME TypeInv, TraceOK, NEW c \in Clients, ReportAt(c), GatewayStep(c) \/ GatewayFault(c)
  PROVE  ReportAt(c)'
<1>1. /\ Kept(c) /\ did = [d \in Clients |-> did[d]] /\ faulted = [d \in Clients |-> faulted[d]]
      /\ req'[c] = req[c] /\ alone'[c] = alone[c] /\ saw'[c] = saw[c]
      /\ faulted'[c] = {} => faulted[c] = {}
      /\ FitsRequest(pc[c], req[c])
  <2>1. Traced(c) /\ Kept(c) /\ Fits(c)
    BY GatewayTraced, KeptTyped DEF TypeInv
  <2>2. saw' = saw
    BY DEF GatewayStep, GatewayFault, ReadProfile, InvalidRegistry, ReadRegistry,
           ReadRegistryForAudit, ReadGate, Connect, ListTools, CallTool, SessionFails, Close,
           CloseFails, LogFailure, GatewayCallFails, SessionConnects, SessionLists, SessionCloses,
           SessionBreaks, AuditEnds, Turn, Stay, local
  <2>3. faulted[c] \subseteq faulted'[c]
    BY <2>1, TracedKept
  <2>4. QED
    BY <2>1, <2>2, <2>3 DEF TraceOK, Traced, Fits
<1>2. pc[c] \in {"profile", "registry", "read-gate", "connect", "tools", "call", "refuse",
                 "sessions"} => did[c] = {}
  BY <1>1 DEF ReportAt, DeedAt, Unbegun
<1> USE AdcStepNames
    DEF ReportAt, DeedAt, QuietAt, Completed, Failing, Unbegun, ProjectSteps, AuthSteps,
        ContextSteps, SecretSteps, GatewaySteps
<1>3. ASSUME NEW s \in Servers, SessionTurn(c, s) PROVE ReportAt(c)'
  <2>1. /\ pc[c] \in {"sessions", "failed"} /\ pc'[c] \in {pc[c], "failed"} /\ did' = did
    BY <1>3, SessionTurns
  <2>2. QED
    BY <1>1, <1>2, <2>1
<1>4. ASSUME did'[c] = {},
             pc'[c] \in {"registry", "read-gate", "connect", "tools", "call", "refuse", "sessions",
                        "fail", "failed", "blocked"}
      PROVE  ReportAt(c)'
  BY <1>1, <1>4
<1>5. ASSUME did'[c] \ Configurations = Deed(c), pc'[c] \in {"close", "done"}
      PROVE  ReportAt(c)'
  <2>1. Deed(c)' = Deed(c)
    BY <1>1, <1>5 DEF Deed
  <2>2. QED
    BY <1>1, <1>5, <2>1
<1>6. ASSUME faulted'[c] # {}, pc'[c] \in {"abandon", "fail", "failed"} PROVE ReportAt(c)'
  BY <1>1, <1>6
<1>7. CASE ReadProfile(c) \/ InvalidRegistry(c) \/ ReadRegistry(c) \/ ReadGate(c) \/ Connect(c)
  <2>1. /\ pc[c] \in {"profile", "registry", "read-gate", "connect"} /\ did' = did
        /\ pc'[c] \in {"registry", "read-gate", "blocked", "connect", "tools", "failed"}
    BY <1>1, <1>7 DEF ReadProfile, InvalidRegistry, ReadRegistry, ReadGate, Connect, Goto, Kept,
                      trace
  <2>2. QED
    BY <1>2, <1>4, <2>1
<1>8. CASE ReadRegistryForAudit(c) \/ AuditEnds(c)
  <2>1. /\ pc[c] \in {"registry", "sessions"} /\ did' = did /\ pc'[c] \in {"sessions", "done"}
        /\ req[c].cmd = "gateway.audit"
    BY <1>1, <1>8 DEF ReadRegistryForAudit, AuditEnds, Goto, Kept, trace, FitsRequest
  <2>2. Deed(c) = {}
    BY <2>1, DeedOf
  <2>3. QED
    BY <1>2, <1>4, <1>5, <2>1, <2>2, DeedsApart
<1>9. CASE ListTools(c)
  <2>1. pc[c] = "tools" /\ did' = did /\ pc'[c] \in {"call", "refuse"}
    BY <1>1, <1>9 DEF ListTools, Goto, Kept
  <2>2. QED
    BY <1>2, <1>4, <2>1
<1>10. CASE CallTool(c)
  <2>1. /\ pc[c] = "call" /\ pc'[c] = "close" /\ did' = [did EXCEPT ![c] = did[c] \cup {"call"}]
        /\ req[c].cmd = "gateway.call"
    BY <1>1, <1>10 DEF CallTool, Goto, Kept, FitsRequest
  <2>2. did'[c] = {"call"} /\ Deed(c) = {"call"} /\ "call" \in Deeds
    BY <1>1, <1>2, <2>1, DeedOf DEF Deeds
  <2>3. QED
    BY <1>5, <2>1, <2>2, DeedsApart
<1>11. CASE SessionFails(c) \/ CloseFails(c) \/ GatewayCallFails(c)
  <2>1. /\ faulted' = [faulted EXCEPT ![c] = faulted[c] \cup {pc[c]}]
        /\ pc'[c] \in {"abandon", "fail", "failed"}
    BY <1>1, <1>11 DEF SessionFails, CloseFails, GatewayCallFails, Fault, FaultAt,
                       AfterSessionError, Goto, Kept
  <2>2. faulted'[c] # {}
    BY <1>1, <2>1
  <2>3. QED
    BY <1>6, <2>1, <2>2
<1>12. CASE Close(c)
  <2>1. /\ did' = did
        /\ \/ pc[c] = "close" /\ pc'[c] = "done"
           \/ pc[c] = "refuse" /\ pc'[c] = "blocked"
           \/ pc[c] = "abandon" /\ pc'[c] = "fail"
    BY <1>1, <1>12 DEF Close, Goto, Kept, trace
  <2>2. CASE pc[c] = "close" /\ pc'[c] = "done"
    <3>1. did[c] \ Configurations = Deed(c)
      BY <2>2
    <3>2. QED
      BY <1>5, <2>1, <2>2, <3>1
  <2>3. CASE pc[c] = "refuse" /\ pc'[c] = "blocked"
    BY <1>2, <1>4, <2>1, <2>3
  <2>4. CASE pc[c] = "abandon" /\ pc'[c] = "fail"
    BY <1>1, <2>1, <2>4
  <2>5. QED
    BY <2>1, <2>2, <2>3, <2>4
<1>13. CASE LogFailure(c)
  <2>1. pc[c] = "fail" /\ pc'[c] = "failed" /\ did' = did
    BY <1>1, <1>13 DEF LogFailure, Goto, Kept
  <2>2. QED
    BY <1>1, <2>1
<1>14. QED
  BY <1>3, <1>7, <1>8, <1>9, <1>10, <1>11, <1>12, <1>13
     DEF GatewayStep, GatewayFault, SessionTurn

\* Where an auth command or setup may go from what it has read.
LEMMA AfterContextSteps ==
  ASSUME NEW c, NEW x, pc[c] \in AdcSteps, FitsAuth(pc[c], req[c]), NEW step \in AfterContext(c, x)
  PROVE  \/ pc[c] = "context-adc" /\ step = "done"
         \/ /\ pc[c] = "detect-adc" /\ req[c].cmd = "auth.create"
            /\ IF req[c].account # None \/ x.account # None THEN step = "set-account"
               ELSE step \in {"set-project", "projects"}
            /\ step = "projects" => req[c].project = None
         \/ /\ req[c].cmd = "setup" /\ pc[c] # "context-adc"
            /\ step \in {"adc", "save", "login", "blocked"}
            /\ step = "save" => req[c].project # None \/ x.project # None
            /\ step = "adc" => pc[c] # "realigned-adc"
            /\ step = "login" => pc[c] = "detect-adc"
<1>1. pc[c] \in {"detect-adc", "relogged-adc", "realigned-adc", "context-adc"}
  BY AdcStepNames
<1>2. /\ pc[c] = "detect-adc" => req[c].cmd \in {"auth.create", "setup"}
      /\ pc[c] \in {"relogged-adc", "realigned-adc"} => req[c].cmd = "setup"
  BY DEF FitsAuth
<1>3. CASE pc[c] = "context-adc"
  BY <1>3 DEF AfterContext
<1>4. CASE pc[c] = "detect-adc" /\ req[c].cmd = "auth.create"
  <2>1. step \in IF req[c].account # None \/ x.account # None THEN {"set-account"} ELSE ToProject(c)
    BY <1>4 DEF AfterContext
  <2>2. QED
    BY <1>4, <2>1 DEF ToProject
<1>5. \A s \in ToSave(c, x) :
        s \in {"save", "blocked"} /\ (s = "save" => req[c].project # None \/ x.project # None)
  BY DEF ToSave
<1>6. \A s \in ToAlign(c, x) : s = "adc" \/ s \in ToSave(c, x)
  BY DEF ToAlign, Chosen
<1>7. CASE pc[c] = "detect-adc" /\ req[c].cmd = "setup"
  <2>1. step \in ToAlign(c, x) \/ step \in Chosen(c, req[c].login, "login", {"blocked"})
    BY <1>7 DEF AfterContext
  <2>2. step \in ToAlign(c, x) \/ step \in {"login", "blocked"}
    BY <2>1 DEF Chosen
  <2>3. QED
    BY <1>5, <1>6, <1>7, <2>2
<1>8. CASE pc[c] = "relogged-adc"
  BY <1>2, <1>5, <1>6, <1>8 DEF AfterContext
<1>9. CASE pc[c] = "realigned-adc"
  BY <1>2, <1>5, <1>9 DEF AfterContext
<1>10. QED
  BY <1>1, <1>2, <1>3, <1>4, <1>7, <1>8, <1>9

\* Where it may go from a call of gcloud.
LEMMA AfterEffectSteps ==
  ASSUME NEW c, FitsAuth(pc[c], req[c]), NEW step \in AfterEffect(c),
         pc[c] \in {"activate", "create", "login", "set-account", "set-project", "adc"}
  PROVE  /\ pc[c] = "activate" =>
              IF req[c].cmd = "setup" THEN step = "detect"
              ELSE req[c].cmd = "auth.switch" /\ step \in {"adc", "context"}
         /\ pc[c] = "create" => step \in {"login", "detect"}
         /\ pc[c] = "login" => IF req[c].cmd = "setup" THEN step = "relogged" ELSE step = "detect"
         /\ pc[c] = "set-account" =>
              /\ step \in {"set-project", "projects"}
              /\ step = "projects" => req[c].project = None
         /\ pc[c] = "set-project" =>
              IF req[c].cmd = "auth.create" THEN step \in {"adc", "context"} ELSE step = "context"
         /\ pc[c] = "adc" =>
              /\ step \in {"done", "realigned", "context"}
              /\ step = "done" => req[c].cmd = "auth.refresh"
              /\ step = "realigned" => req[c].cmd = "setup"
              /\ step = "context" => req[c].cmd # "setup"
<1>1. ASSUME pc[c] = "activate"
      PROVE  IF req[c].cmd = "setup" THEN step = "detect"
             ELSE req[c].cmd = "auth.switch" /\ step \in {"adc", "context"}
  <2>1. step \in IF req[c].cmd = "setup" THEN {"detect"} ELSE ToAdc(c)
    BY <1>1 DEF AfterEffect
  <2>2. QED
    BY <1>1, <2>1 DEF ToAdc, FitsAuth
<1>2. pc[c] = "create" => step \in {"login", "detect"}
  BY DEF AfterEffect
<1>3. pc[c] = "login" => IF req[c].cmd = "setup" THEN step = "relogged" ELSE step = "detect"
  BY DEF AfterEffect
<1>4. ASSUME pc[c] = "set-account"
      PROVE  step \in {"set-project", "projects"} /\ (step = "projects" => req[c].project = None)
  <2>1. step \in ToProject(c)
    BY <1>4 DEF AfterEffect
  <2>2. QED
    BY <2>1 DEF ToProject
<1>5. ASSUME pc[c] = "set-project"
      PROVE  IF req[c].cmd = "auth.create" THEN step \in {"adc", "context"} ELSE step = "context"
  <2>1. step \in IF req[c].cmd = "auth.create" THEN ToAdc(c) ELSE {"context"}
    BY <1>5 DEF AfterEffect
  <2>2. QED
    BY <2>1 DEF ToAdc
<1>6. ASSUME pc[c] = "adc"
      PROVE  /\ step \in {"done", "realigned", "context"}
             /\ step = "done" => req[c].cmd = "auth.refresh"
             /\ step = "realigned" => req[c].cmd = "setup"
             /\ step = "context" => req[c].cmd # "setup"
  BY <1>6 DEF AfterEffect
<1>7. QED
  BY <1>1, <1>2, <1>3, <1>4, <1>5, <1>6

\* What a call of gcloud adds to the deeds of its command.
LEMMA EffectDeeds ==
  ASSUME TypeInv, TraceOK, NEW c \in Clients, AuthEffect(c)
  PROVE  /\ pc[c] \in {"activate", "adc"} => did' = did
         /\ pc[c] = "create" =>
              req[c].config \in Configurations /\ did'[c] = did[c] \cup {req[c].config}
         /\ pc[c] \in {"login", "set-account", "set-project"} => did'[c] = did[c] \cup {active}
         /\ pc[c] \in {"activate", "create", "login", "set-account", "set-project", "adc"}
         /\ active \in Configurations
<1>1. /\ pc[c] \in {"activate", "adc"} => did' = did
      /\ pc[c] = "create" => did' = [did EXCEPT ![c] = did[c] \cup {req[c].config}]
      /\ pc[c] \in {"login", "set-account", "set-project"} =>
           did' = [did EXCEPT ![c] = did[c] \cup {active}]
      /\ pc[c] \in {"activate", "create", "login", "set-account", "set-project", "adc"}
  BY DEF AuthEffect, ActivateEffect, CreateEffect, LoginEffect, SetAccountEffect, SetProjectEffect,
         AdcLoginEffect, Did, trace
<1>2. ASSUME pc[c] = "create" PROVE req[c].config \in Configurations
  <2>1. FitsRequest(pc[c], req[c])
    BY DEF TypeInv, Fits
  <2>2. req[c].cmd = "auth.create" /\ req[c] \in AuthRequests \cup SetupRequests
    BY <1>2, <2>1 DEF FitsRequest, AuthSteps
  <2>3. QED
    BY <2>2, RequestFields
<1>3. QED
  BY <1>1, <1>2 DEF TraceOK, TypeInv, SharedTypeOK

LEMMA AuthReports ==
  ASSUME TypeInv, TraceOK, NEW c \in Clients, ReportAt(c), AuthStep(c) \/ AuthFault(c)
  PROVE  ReportAt(c)'
<1>1. /\ Kept(c) /\ did = [d \in Clients |-> did[d]] /\ faulted = [d \in Clients |-> faulted[d]]
      /\ req'[c] = req[c] /\ alone'[c] = alone[c]
      /\ faulted'[c] = {} => faulted[c] = {}
      /\ FitsAuth(pc[c], req[c]) /\ pc[c] \in AuthStepNames
      /\ req[c].cmd \in AuthCmds \cup {"setup"}
  <2>1. /\ Traced(c) /\ Kept(c) /\ Fits(c) /\ pc[c] \in AuthSteps /\ Moved(c)
    BY AuthTraced, KeptTyped, OwnGuards, AuthMoves DEF TypeInv
  <2>2. pc[c] \in AuthStepNames
    BY <2>1, AdcStepNames DEF AuthSteps, AuthStepNames, ContextSteps
  <2>3. FitsAuth(pc[c], req[c])
    BY <2>1 DEF Fits, FitsRequest, FitsAuth
  <2>4. req[c].cmd \in AuthCmds \cup {"setup"}
    BY <2>1, CmdKinds DEF Fits, FitsRequest
  <2>5. QED
    BY <2>1, <2>2, <2>3, <2>4 DEF TraceOK, Traced
<1>2. /\ did[c] \subseteq Configurations
      /\ pc[c] \in {"check", "activate", "projects"} /\ req[c].cmd # "auth.create" => did[c] = {}
      /\ alone[c] /\ faulted[c] = {} /\ pc[c] = "create" => did[c] = {}
      /\ pc[c] = "activate" => req[c].cmd # "auth.create"
      /\ pc[c] = "check" => req[c].cmd = "setup"
      /\ pc[c] = "set-account" => req[c].cmd = "auth.create"
  BY <1>1, AdcStepNames
     DEF ReportAt, DeedAt, QuietAt, Failing, FitsAuth, AuthSteps, AuthStepNames, ContextSteps
<1>3. Deed(c)' = {}
  BY <1>1 DEF Deed, AuthCmds
<1>4. ASSUME NEW step \in AuthStepNames \cup Ends, pc'[c] = step,
             did'[c] \subseteq Configurations,
             step = "blocked" => req[c].cmd = "setup",
             step \in {"check", "activate", "projects"} => req[c].cmd = "auth.create" \/ did'[c] = {},
             step \in {"create", "failed"} /\ alone[c] /\ faulted'[c] = {} => did'[c] = {}
      PROVE  ReportAt(c)'
  <2>1. did'[c] \ Configurations = {}
    BY <1>4
  <2>2. DeedAt(c)'
    BY <1>1, <1>3, <1>4, <2>1
       DEF DeedAt, Completed, Unbegun, ProjectSteps, SecretSteps, AuthStepNames, Ends
  <2>3. QuietAt(c)'
    BY <1>1, <1>4 DEF QuietAt, Failing, AuthStepNames, Ends
  <2>4. QED
    BY <2>2, <2>3 DEF ReportAt
<1>5. ASSUME pc[c] \in AdcSteps, NEW x, NEW step \in AfterContext(c, x), Goto(c, step), did' = did
      PROVE  ReportAt(c)'
  <2>1. pc'[c] = step
    BY <1>1, <1>5 DEF Goto, Kept
  <2>2. /\ step \in {"done", "set-account", "set-project", "projects", "adc", "save", "login", "blocked"}
        /\ step = "blocked" => req[c].cmd = "setup"
        /\ step = "projects" => req[c].cmd = "auth.create"
    BY <1>1, <1>5, AfterContextSteps
  <2>3. QED
    BY <1>2, <1>4, <1>5, <2>1, <2>2 DEF AuthStepNames, Ends
<1>6. CASE ReadContext(c) \/ ReadContextBlind(c)
  <2>1. did' = did /\ pc[c] \in ContextSteps /\ pc'[c] \in {pc[c], AdcStep(pc[c])}
    BY <1>1, <1>6 DEF ReadContext, ReadContextBlind, Remember, Goto, Kept, trace
  <2>2. pc'[c] \in {"detect", "relogged", "realigned", "context",
                   "detect-adc", "relogged-adc", "realigned-adc", "context-adc"}
    BY <2>1, AdcStepNames DEF ContextSteps
  <2>3. QED
    BY <1>2, <1>4, <2>1, <2>2 DEF AuthStepNames, Ends
<1>7. CASE ReadAdc(c) \/ ReadAdcBlind(c)
  <2>1. PICK account : ReadAdcWith(c, account)
    BY <1>7 DEF ReadAdc, ReadAdcBlind
  <2>2. PICK x : pc[c] \in AdcSteps /\ (\E step \in AfterContext(c, x) : Goto(c, step)) /\ did' = did
    BY <2>1 DEF ReadAdcWith, trace
  <2>3. QED
    BY <1>5, <2>2
<1>8. CASE CallGcloud(c)
  <2>1. PICK step \in AfterEffect(c) : AuthEffect(c) /\ Goto(c, step)
    BY <1>8 DEF CallGcloud
  <2>2. /\ pc[c] \in {"activate", "create", "login", "set-account", "set-project", "adc"}
        /\ did'[c] \subseteq Configurations
    BY <1>2, <2>1, EffectDeeds
  <2>3. /\ step \in {"detect", "adc", "context", "login", "relogged", "set-project", "projects",
                      "done", "realigned"}
        /\ step = "projects" => pc[c] = "set-account"
    BY <1>1, <2>1, <2>2, AfterEffectSteps
  <2>4. pc'[c] = step
    BY <1>1, <2>1 DEF Goto, Kept
  <2>5. QED
    BY <1>2, <1>4, <2>2, <2>3, <2>4 DEF AuthStepNames, Ends
<1>9. CASE ActivateRefused(c) \/ CreateRefused(c)
  <2>1. pc[c] \in {"activate", "create"} /\ pc'[c] = "failed" /\ did' = did /\ faulted' = faulted
    BY <1>1, <1>9 DEF ActivateRefused, CreateRefused, Goto, Kept, trace, Calm, fate
  <2>2. QED
    BY <1>2, <1>4, <2>1 DEF AuthStepNames, Ends
<1>10. CASE ListProjects(c) \/ ListProjectsBlind(c)
  <2>1. /\ pc[c] = "projects" /\ did' = did
        /\ \E shown : ChooseFrom(c, shown)
    BY <1>10 DEF ListProjects, ListProjectsBlind, trace
  <2>2. PICK shown : ChooseFrom(c, shown)
    BY <2>1
  <2>3. /\ pc'[c] \in {"set-project", "adc", "context", "failed"}
        /\ pc'[c] = "failed" => req[c].cmd # "auth.create"
    BY <1>1, <2>2 DEF ChooseFrom, ToAdc, Goto, Kept
  <2>4. QED
    BY <1>2, <1>4, <2>1, <2>3 DEF AuthStepNames, Ends
<1>11. CASE CheckCli(c) \/ NoCli(c)
  <2>1. pc[c] = "check" /\ did' = did /\ pc'[c] \in {"activate", "detect", "blocked"}
    BY <1>1, <1>11 DEF CheckCli, NoCli, Goto, Kept, trace
  <2>2. QED
    BY <1>2, <1>4, <2>1 DEF AuthStepNames, Ends
<1>12. CASE SaveConfig(c) \/ Logout(c) \/ LogoutFails(c)
  <2>1. did' = did /\ pc'[c] = "done"
    BY <1>1, <1>12 DEF SaveConfig, Logout, LogoutFails, Goto, Kept, trace
  <2>2. QED
    BY <1>2, <1>4, <2>1 DEF AuthStepNames, Ends
<1>13. CASE AttemptFails(c) \/ AuthCallFails(c)
  <2>1. /\ faulted' = [faulted EXCEPT ![c] = faulted[c] \cup {pc[c]}]
        /\ pc'[c] \in {pc[c], "failed"}
        /\ AuthEffect(c) \/ did' = did
    BY <1>1, <1>13 DEF AttemptFails, AuthCallFails, Fault, FaultAt, Goto, Kept, trace
  <2>2. faulted'[c] # {}
    BY <1>1, <2>1
  <2>3. did'[c] \subseteq Configurations
    BY <1>2, <2>1, EffectDeeds
  <2>4. pc[c] \in {"check", "activate", "projects"} => did'[c] = did[c]
    BY <2>1, EffectDeeds
  <2>5. QED
    BY <1>1, <1>2, <1>4, <2>1, <2>2, <2>3, <2>4 DEF AuthStepNames, Ends
<1>14. QED
  BY <1>6, <1>7, <1>8, <1>9, <1>10, <1>11, <1>12, <1>13 DEF AuthStep, AuthFault

\* The first steps, by the kind of the command.
LEMMA FirstSteps ==
  ASSUME NEW r \in Requests
  PROVE  /\ FirstStep(r) \in
              {"gate", "done", "remove", "blocked", "describe", "failed", "lifecycle", "context",
               "activate", "create", "projects", "set-project", "adc", "logout", "check",
               "profile", "registry"}
         /\ FirstStep(r) = "gate" =>
              r.cmd = "secret.list" \/ (r.cmd = "secret.set" /\ r.how = "live")
         /\ FirstStep(r) = "remove" => r.cmd = "secret.delete" /\ r.how = "live"
         /\ FirstStep(r) = "done" => r.cmd \in {"secret.set", "secret.delete"} /\ r.how # "live"
         /\ FirstStep(r) = "describe" => r.cmd # "project.undelete"
         /\ FirstStep(r) = "activate" => r.cmd = "auth.switch"
         /\ FirstStep(r) = "create" => r.cmd = "auth.create"
         /\ FirstStep(r) = "projects" => r.cmd = "auth.project" /\ r.project = None
         /\ FirstStep(r) = "set-project" => r.cmd = "auth.project" /\ r.project # None
         /\ FirstStep(r) = "logout" => r.cmd = "auth.logout"
         /\ FirstStep(r) = "context" => r.cmd \in {"auth.context", "auth.list"}
         /\ FirstStep(r) = "adc" => r.cmd = "auth.refresh"
         /\ FirstStep(r) = "check" => r.cmd = "setup"
<1>1. \/ r.cmd \in {"secret.list", "project.audit", "project.cleanup", "project.delete",
                    "project.undelete", "setup"} \cup (AuthCmds \ {"auth.project"}) \cup GatewayCmds
      \/ r.cmd = "secret.set" /\ r.how \in {"dry-run", "live"}
      \/ r.cmd = "secret.delete" /\ r.how \in {"dry-run", "live", "unconfirmed"}
      \/ r.cmd = "auth.project"
  <2>1. r \in SecretRequests =>
          \/ r.cmd = "secret.list"
          \/ r.cmd = "secret.set" /\ r.how \in {"dry-run", "live"}
          \/ r.cmd = "secret.delete" /\ r.how \in {"dry-run", "live", "unconfirmed"}
    BY DEF SecretRequests
  <2>2. QED
    BY <2>1, CmdKinds DEF ProjectCmds, AuthCmds, GatewayCmds
<1>2. CASE r.cmd \in {"secret.list", "project.audit", "project.cleanup", "project.delete",
                      "project.undelete", "setup"} \cup (AuthCmds \ {"auth.project"}) \cup GatewayCmds
  BY <1>2 DEF FirstStep, AuthCmds, GatewayCmds
<1>3. CASE r.cmd = "secret.set" /\ r.how \in {"dry-run", "live"}
  BY <1>3 DEF FirstStep
<1>4. CASE r.cmd = "secret.delete" /\ r.how \in {"dry-run", "live", "unconfirmed"}
  BY <1>4 DEF FirstStep
<1>5. CASE r.cmd = "auth.project"
  BY <1>5 DEF FirstStep
<1>6. QED
  BY <1>1, <1>2, <1>3, <1>4, <1>5

LEMMA StartReports ==
  ASSUME TypeInv, TraceOK, NEW c \in Clients, NEW r \in Requests, ReportAt(c), Start(c, r)
  PROVE  ReportAt(c)'
<1>1. /\ Kept(c) /\ pc[c] = "idle" /\ pc'[c] = FirstStep(r) /\ req'[c] = r
  BY KeptTyped DEF Start, Goto, Kept
<1>2. did'[c] = {}
  BY <1>1, StartTraced DEF ReportAt, DeedAt, Unbegun
<1>3. pc'[c] = "done" => Deed(c)' = {}
  BY <1>1, FirstSteps DEF Deed
<1>4. DeedAt(c)'
  <2>1. /\ pc'[c] \notin {"clean", "after", "close", "listing", "billing", "account", "roles"}
        /\ pc'[c] \in SecretSteps => pc'[c] \in {"gate", "remove"}
    BY <1>1, FirstSteps DEF SecretSteps
  <2>2. QED
    BY <1>1, <1>2, <1>3, <2>1, FirstSteps, DeedsApart DEF DeedAt, Completed
<1>5. QuietAt(c)'
  BY <1>1, <1>2, FirstSteps DEF QuietAt, Failing
<1>6. QED
  BY <1>4, <1>5 DEF ReportAt

LEMMA ReportInit == Init => ReportInv
  BY AdcStepNames
     DEF Init, ReportInv, ReportAt, DeedAt, QuietAt, Completed, Failing, AuthSteps, SecretSteps,
         ContextSteps

\* When one client moves, what the others report stays true.
LEMMA ReportOthers ==
  ASSUME TypeInv, ReportInv, NEW c \in Clients, Moved(c), ReportAt(c)',
         \A d \in Clients \ {c} :
           did'[d] = did[d] /\ faulted'[d] = faulted[d] /\ (alone'[d] => alone[d] /\ LoggedIn' = LoggedIn)
  PROVE  ReportInv'
<1>1. ASSUME NEW d \in Clients, d # c PROVE ReportAt(d)'
  <2>1. pc'[d] = pc[d] /\ req'[d] = req[d] /\ saw'[d] = saw[d] /\ ReportAt(d)
    BY <1>1 DEF Moved, TypeInv, ClientTypeOK, ReportInv
  <2>2. Deed(d)' = Deed(d)
    BY <2>1 DEF Deed
  <2>3. DeedAt(d)'
    BY <1>1, <2>1, <2>2 DEF ReportAt, DeedAt
  <2>4. QuietAt(d)'
    BY <1>1, <2>1 DEF ReportAt, QuietAt
  <2>5. QED
    BY <2>3, <2>4 DEF ReportAt
<1>2. QED
  BY <1>1 DEF ReportInv

LEMMA ReportNext ==
  TypeInv /\ TraceOK /\ AuditInv /\ ReportInv /\ [Next]_vars => ReportInv'
<1> SUFFICES ASSUME TypeInv, TraceOK, AuditInv, ReportInv, [Next]_vars PROVE ReportInv'
  OBVIOUS
<1>1. ASSUME NEW c \in Clients,
             \/ SecretStep(c) \/ SecretFault(c) \/ ProjectStep(c) \/ ProjectFault(c)
             \/ AuthStep(c) \/ AuthFault(c) \/ GatewayStep(c) \/ GatewayFault(c)
      PROVE  ReportInv'
  <2>1. Moved(c) /\ Traced(c) /\ pc[c] # "idle"
    BY <1>1, SecretMoves, ProjectMoves, AuthMoves, GatewayMoves, SecretTraced, ProjectTraced,
       AuthTraced, GatewayTraced, OwnGuards DEF SecretSteps, ProjectSteps, GatewaySteps
  <2>2. ReportAt(c)'
    BY <1>1, SecretReports, ProjectReports, AuthReports, GatewayReports DEF ReportInv
  <2>3. \A d \in Clients \ {c} : did'[d] = did[d] /\ faulted'[d] = faulted[d] /\ ~alone'[d]
    BY <2>1, TracedKept DEF Traced, AuditInv, AuditAt
  <2>4. QED
    BY <2>1, <2>2, <2>3, ReportOthers
<1>2. ASSUME NEW c \in Clients, Finish(c) \/ Kill(c) PROVE ReportInv'
  <2>1. Moved(c) /\ pc'[c] = "idle" /\ pc[c] # "idle"
    BY <1>2, LeaveMoves, KeptTyped DEF Finish, Kill, Leave, Goto, Kept, Ends
  <2>2. ReportAt(c)'
    BY <1>2, <2>1, LeaveTraced, AdcStepNames
       DEF ReportAt, DeedAt, QuietAt, Completed, Failing, AuthSteps, SecretSteps, ContextSteps
  <2>3. \A d \in Clients \ {c} : did'[d] = did[d] /\ faulted'[d] = faulted[d] /\ ~alone'[d]
    BY <1>2, <2>1, LeaveTraced DEF AuditInv, AuditAt
  <2>4. QED
    BY <2>1, <2>2, <2>3, ReportOthers
<1>3. ASSUME NEW c \in Clients, NEW r \in Requests, Start(c, r) PROVE ReportInv'
  <2>1. Moved(c) /\ ReportAt(c)'
    BY <1>3, StartMoves, StartReports DEF ReportInv
  <2>2. \A d \in Clients \ {c} : did'[d] = did[d] /\ faulted'[d] = faulted[d] /\ ~alone'[d]
    BY <1>3, StartTraced
  <2>3. QED
    BY <2>1, <2>2, ReportOthers
<1>4. CASE People
  <2>1. UNCHANGED <<pc, req, did, faulted, saw>>
    BY <1>4, PeopleTraced
       DEF People, HandLifecycle, HandBilling, HandOwner, HandSecret, HandAccount, HandTool,
           HandRegistry, HandSpoil, ByHand, Grant, local
  <2>2. ASSUME NEW c \in Clients PROVE ReportAt(c)'
    <3>1. ~alone'[c] \/ UNCHANGED <<alone, configs, active>>
      BY <1>4, PeopleTraced DEF machine
    <3>2. Deed(c)' = Deed(c)
      BY <2>1 DEF Deed
    <3>3. ReportAt(c)
      BY DEF ReportInv
    <3>4. DeedAt(c)'
      BY <2>1, <3>2, <3>3 DEF ReportAt, DeedAt
    <3>5. QuietAt(c)'
      BY <2>1, <3>1, <3>3 DEF ReportAt, QuietAt, LoggedIn, User
    <3>6. QED
      BY <3>4, <3>5 DEF ReportAt
  <2>3. QED
    BY <2>2 DEF ReportInv
<1>5. CASE UNCHANGED vars
  <2>1. UNCHANGED <<pc, req, did, faulted, saw, alone, configs, active>>
    BY <1>5 DEF vars, machine, trace, fate, local
  <2>2. ASSUME NEW c \in Clients PROVE Deed(c)' = Deed(c)
    BY <2>1 DEF Deed
  <2>3. QED
    BY <2>1, <2>2 DEF ReportInv, ReportAt, DeedAt, QuietAt, LoggedIn, User
<1>6. QED
  BY <1>1, <1>2, <1>3, <1>4, <1>5 DEF Next, Step, Misfortune

LEMMA ReportAlways == Spec => [](TypeInv /\ TraceOK /\ AuditInv /\ ReportInv)
  BY AuditAlways, ReportInit, ReportNext, PTL DEF Spec

\* What a command reports is what it did, for any number of clients: its deed with
\* success, nothing when it was blocked, and nothing when it ends in an error, unless a
\* call failed or somebody got in the way (secret.ts, project.ts, auth.ts, gateway.ts:
\* the result that each command prints).
THEOREM ReportsAreTrue == Spec => []ReportsTruly
<1>1. ReportInv => ReportsTruly
  BY DEF ReportInv, ReportAt, DeedAt, QuietAt, ReportsTruly, Completed, Failing
<1>2. QED
  BY <1>1, ReportAlways, PTL

-----------------------------------------------------------------------------

(* What auth commands and setup leave. *)

\* The configuration that an auth command or setup works on.
OwnConfig(c) ==
  LET r == req[c]
  IN  /\ r.cmd \in {"auth.switch", "auth.create"} /\ pc[c] \notin {"activate", "create"} =>
           active = r.config
      /\ r.cmd \in {"auth.switch", "auth.create"} => ctx[c].name \in {r.config, None}
      /\ r.cmd = "setup" /\ r.config # None /\ pc[c] \notin {"check", "activate"} =>
           active = r.config

\* auth create sets the account, then the project, and nothing elsewhere.
CreateAt(c) ==
  LET r == req[c]
      now == configs[active]
  IN  r.cmd = "auth.create" =>
        /\ did[c] \subseteq {r.config}
        /\ r.account # None
             /\ pc[c] \in {"set-project", "projects", "adc", "context", "context-adc", "done"} =>
             now.account = r.account
        /\ r.project # None /\ pc[c] \in {"adc", "context", "context-adc", "done"} =>
             now.project = r.project
        /\ pc[c] = "projects" => r.project = None

\* auth project sets what was asked for or can be seen.
Offered(c) == IF req[c].project = None THEN Visible ELSE {req[c].project}

ProjectAt(c) ==
  req[c].cmd = "auth.project" =>
    /\ pc[c] = "projects" => did[c] = {} /\ req[c].project = None
    /\ pc[c] = "set-project" => did[c] \subseteq {active} /\ ChosenProject(c) \in Offered(c)
    /\ pc[c] \in {"context", "context-adc", "done"} =>
         did[c] = {active} /\ configs[active].project \in Offered(c)

\* setup writes down what it has read.
SetupAt(c) ==
  LET r == req[c]
      now == configs[active]
  IN  r.cmd = "setup" =>
        /\ ctx[c].project \in {None, now.project}
        /\ pc[c] \in {"check", "activate"} => ctx[c].project = None
        /\ pc[c] = "save" => r.project # None \/ ctx[c].project # None
        /\ pc[c] \in {"detect-adc", "relogged-adc", "adc", "realigned", "realigned-adc", "save"} =>
             ctx[c].account = now.account \/ faulted[c] # {}
        /\ pc[c] \in ContextSteps /\ ctx[c].next # "list" =>
             ctx[c].account = now.account \/ faulted[c] # {}
        /\ pc[c] = "done" =>
             /\ config.project = IF r.project # None THEN r.project ELSE now.project
             /\ config.account = now.account \/ faulted[c] # {}

\* The steps that are of some auth commands only.
StepAt(c) ==
  /\ pc[c] = "idle" => ctx[c] = NoContext
  /\ pc[c] = "logout" => req[c].cmd = "auth.logout"
  /\ pc[c] \in {"context", "context-adc"} => req[c].cmd # "setup"
  /\ pc[c] = "adc" => req[c].cmd # "auth.project"
  /\ pc[c] \in AuthStepNames \ ContextSteps => ctx[c].next = "list"

\* At the steps of auth commands that are alone, and when they are done.
AskedAt(c) ==
  /\ StepAt(c)
  /\ alone[c] /\ pc[c] \in AuthSteps \cup {"done"} =>
       OwnConfig(c) /\ CreateAt(c) /\ ProjectAt(c) /\ SetupAt(c)

AskedInv == \A c \in Clients : AskedAt(c)
\* What a call of gcloud does to the configuration that is active.
LEMMA EffectConfigs ==
  ASSUME TypeInv, NEW c \in Clients, AuthEffect(c)
  PROVE  /\ config' = config
         /\ pc[c] \in {"activate", "create"} => active' = req[c].config
         /\ pc[c] \notin {"activate", "create"} => active' = active
         /\ pc[c] \in {"activate", "adc"} => configs' = configs
         /\ pc[c] \in {"login", "set-account"} => configs'[active].project = configs[active].project
         /\ pc[c] = "set-account" =>
              configs'[active].account =
                IF req[c].account # None THEN req[c].account ELSE ctx[c].account
         /\ pc[c] = "set-project" =>
              /\ configs'[active].project = ChosenProject(c)
              /\ configs'[active].account = configs[active].account
<1>1. configs \in [Configurations -> Configs \cup {NoConfig}] /\ active \in Configurations
      /\ configs[active] \in Configs
  BY UserTyped DEF TypeInv, SharedTypeOK
<1>2. \A x : [configs[active] EXCEPT !.account = x].project = configs[active].project
             /\ [configs[active] EXCEPT !.account = x].account = x
             /\ [configs[active] EXCEPT !.project = x].project = x
             /\ [configs[active] EXCEPT !.project = x].account = configs[active].account
  BY <1>1 DEF Configs
<1>3. /\ config' = config
      /\ pc[c] \in {"activate", "create"} => active' = req[c].config
      /\ pc[c] \notin {"activate", "create"} => active' = active
      /\ pc[c] \in {"activate", "adc"} => configs' = configs
  BY DEF AuthEffect, ActivateEffect, CreateEffect, LoginEffect, SetAccountEffect, SetProjectEffect,
         AdcLoginEffect
<1>4. pc[c] = "login" => \E u : configs' = [configs EXCEPT ![active] = [configs[active] EXCEPT !.account = u]]
  BY <1>1 DEF AuthEffect, ActivateEffect, CreateEffect, LoginEffect, SetAccountEffect,
              SetProjectEffect, AdcLoginEffect
<1>5. pc[c] = "set-account" =>
        configs' = [configs EXCEPT ![active] =
                      [configs[active] EXCEPT !.account =
                         IF req[c].account # None THEN req[c].account ELSE ctx[c].account]]
  BY <1>1 DEF AuthEffect, ActivateEffect, CreateEffect, LoginEffect, SetAccountEffect,
              SetProjectEffect, AdcLoginEffect
<1>6. pc[c] = "set-project" =>
        configs' = [configs EXCEPT ![active] = [configs[active] EXCEPT !.project = ChosenProject(c)]]
  BY <1>1 DEF AuthEffect, ActivateEffect, CreateEffect, LoginEffect, SetAccountEffect,
              SetProjectEffect, AdcLoginEffect
<1>7. \A x : [configs EXCEPT ![active] = x][active] = x
  BY <1>1
<1>8. ASSUME pc[c] = "login" PROVE configs'[active].project = configs[active].project
  <2>1. PICK u : configs' = [configs EXCEPT ![active] = [configs[active] EXCEPT !.account = u]]
    BY <1>4, <1>8
  <2>2. PICK x : x = [configs[active] EXCEPT !.account = u]
    OBVIOUS
  <2>3. configs'[active] = x
    BY <1>7, <2>1, <2>2
  <2>4. QED
    BY <1>2, <2>2, <2>3
<1>9. ASSUME pc[c] = "set-account"
      PROVE  /\ configs'[active].project = configs[active].project
             /\ configs'[active].account =
                  IF req[c].account # None THEN req[c].account ELSE ctx[c].account
  <2>1. PICK u : u = IF req[c].account # None THEN req[c].account ELSE ctx[c].account
    OBVIOUS
  <2>2. PICK x : x = [configs[active] EXCEPT !.account = u]
    OBVIOUS
  <2>3. configs'[active] = x
    BY <1>5, <1>7, <1>9, <2>1, <2>2
  <2>4. QED
    BY <1>2, <2>1, <2>2, <2>3
<1>10. ASSUME pc[c] = "set-project"
       PROVE  /\ configs'[active].project = ChosenProject(c)
              /\ configs'[active].account = configs[active].account
  <2>1. PICK u : u = ChosenProject(c)
    OBVIOUS
  <2>2. PICK x : x = [configs[active] EXCEPT !.project = u]
    OBVIOUS
  <2>3. configs'[active] = x
    BY <1>6, <1>7, <1>10, <2>1, <2>2
  <2>4. QED
    BY <1>2, <2>1, <2>2, <2>3
<1>11. QED
  BY <1>3, <1>8, <1>9, <1>10

(* What a step of an auth command comes to. *)

SameMemory(c) == ctx'[c] = ctx[c] /\ pick'[c] = pick[c]

\* The list is read first, then what it has not told.
ContextRead(c) ==
  /\ pc[c] \in ContextSteps
  /\ pc'[c] = IF ctx'[c].next = "list" THEN AdcStep(pc[c]) ELSE pc[c]
  /\ UNCHANGED machine /\ did' = did /\ pick'[c] = pick[c]
  /\ ctx'[c].name \in {active, None} \/ ctx'[c].name = ctx[c].name
  /\ ctx'[c].project \in {None, configs[active].project, ctx[c].project}
  /\ \/ ctx'[c].account = configs[active].account \/ faulted'[c] # {}
     \/ ctx[c].next # "list" /\ ctx'[c].account = ctx[c].account

AdcRead(c) ==
  /\ pc[c] \in AdcSteps /\ pc'[c] \in AfterContext(c, ctx'[c])
  /\ UNCHANGED machine /\ did' = did /\ pick'[c] = pick[c]
  /\ ctx'[c].name = ctx[c].name /\ ctx'[c].account = ctx[c].account
  /\ ctx'[c].project = ctx[c].project /\ ctx'[c].next = ctx[c].next

Called(c) ==
  /\ AuthEffect(c) /\ SameMemory(c)
  /\ pc'[c] \in AfterEffect(c) \/ (pc'[c] = pc[c] /\ faulted'[c] # {})

TriedAgain(c) == pc'[c] = pc[c] /\ UNCHANGED machine /\ did' = did /\ SameMemory(c)

ProjectChosen(c) ==
  /\ pc[c] = "projects" /\ UNCHANGED machine /\ did' = did /\ ctx'[c] = ctx[c]
  /\ \/ pc'[c] = "set-project" /\ pick'[c] \in Visible
     \/ pc'[c] \in {"adc", "context"} /\ req[c].cmd = "auth.create"

CliChecked(c) ==
  /\ pc[c] = "check" /\ UNCHANGED machine /\ did' = did /\ SameMemory(c)
  /\ pc'[c] = IF req[c].config # None THEN "activate" ELSE "detect"

ConfigSaved(c) ==
  /\ pc[c] = "save" /\ pc'[c] = "done" /\ UNCHANGED <<configs, active>> /\ did' = did
  /\ SameMemory(c)
  /\ config'.account = ctx[c].account
  /\ config'.project = IF req[c].project # None THEN req[c].project ELSE ctx[c].project

LoggedOut(c) ==
  pc[c] = "logout" /\ pc'[c] = "done" /\ UNCHANGED <<configs, active>> /\ did' = did /\ SameMemory(c)

LEMMA AuthOutcomes ==
  ASSUME TypeInv, TraceOK, NEW c \in Clients, AuthStep(c) \/ AuthFault(c)
  PROVE  /\ req'[c] = req[c] /\ alone'[c] = alone[c] /\ faulted[c] \subseteq faulted'[c]
         /\ UNCHANGED <<lifecycle, owners>>
         /\ FitsAuth(pc[c], req[c]) /\ pc[c] \in AuthStepNames
         /\ req[c] \in AuthRequests \cup SetupRequests /\ req[c].cmd \in AuthCmds \cup {"setup"}
         /\ \/ pc'[c] \in {"failed", "blocked"}
            \/ ContextRead(c) \/ AdcRead(c) \/ Called(c) \/ TriedAgain(c) \/ ProjectChosen(c)
            \/ CliChecked(c) \/ ConfigSaved(c) \/ LoggedOut(c)
<1>1. /\ Traced(c) /\ Kept(c) /\ Fits(c) /\ pc[c] \in AuthSteps
      /\ UNCHANGED <<lifecycle, owners>>
      /\ faulted = [d \in Clients |-> faulted[d]] /\ did = [d \in Clients |-> did[d]]
  BY AuthTraced, KeptTyped, OwnGuards DEF TypeInv, TraceOK, cloud
<1>2. /\ req'[c] = req[c] /\ alone'[c] = alone[c] /\ faulted[c] \subseteq faulted'[c]
      /\ FitsAuth(pc[c], req[c]) /\ pc[c] \in AuthStepNames
      /\ req[c] \in AuthRequests \cup SetupRequests /\ req[c].cmd \in AuthCmds \cup {"setup"}
  <2>1. pc[c] \in AuthStepNames
    BY <1>1, AdcStepNames DEF AuthSteps, AuthStepNames, ContextSteps
  <2>2. FitsAuth(pc[c], req[c])
    BY <1>1 DEF Fits, FitsRequest, FitsAuth
  <2>3. req[c] \in AuthRequests \cup SetupRequests
    BY <1>1 DEF Fits, FitsRequest
  <2>4. QED
    BY <1>1, <2>1, <2>2, <2>3, CmdKinds, TracedKept DEF Traced
<1>14. ASSUME NEW x \in Contexts, pc[c] \in ContextSteps, Remember(c, x)
       PROVE  /\ ctx'[c].name = x.name /\ ctx'[c].account = x.account
              /\ ctx'[c].project = x.project
              /\ pc'[c] = IF ctx'[c].next = "list" THEN AdcStep(pc[c]) ELSE pc[c]
              /\ UNCHANGED machine /\ did' = did /\ pick'[c] = pick[c]
  <2> DEFINE next == After(x, ctx[c].next)
             y == [x EXCEPT !.next = next]
  <2>1. y.name = x.name /\ y.account = x.account /\ y.project = x.project /\ y.next = next
    BY DEF Contexts
  <2>2. /\ ctx' = [ctx EXCEPT ![c] = y]
        /\ Goto(c, IF next = "list" THEN AdcStep(pc[c]) ELSE pc[c])
        /\ UNCHANGED machine /\ did' = did /\ pick' = pick
    BY <1>14 DEF Remember, trace
  <2> HIDE DEF next, y
  <2>3. ctx'[c] = y /\ pc'[c] = IF next = "list" THEN AdcStep(pc[c]) ELSE pc[c]
    BY <1>1, <2>2 DEF Goto, Kept
  <2>4. QED
    BY <2>1, <2>2, <2>3
<1>15. /\ ctx[c] \in Contexts /\ ctx[c].next \in {"list", "account", "project"}
       /\ active \in Configurations /\ configs[active] \in Configs
  BY <1>1, UserTyped DEF Kept, Contexts, TypeInv, SharedTypeOK
<1>16. configs[active].account \in Users \cup {None} /\ configs[active].project \in Projects \cup {None}
  BY <1>15 DEF Configs
<1>3. CASE ReadContext(c)
  <2> DEFINE now == configs[active]
             list == [name |-> active, account |-> now.account, project |-> now.project,
                      adc |-> None, next |-> "list"]
             told == [ctx[c] EXCEPT !.account = now.account]
             held == [ctx[c] EXCEPT !.project = now.project]
  <2>1. /\ list \in Contexts /\ list.name = active /\ list.account = now.account
        /\ list.project = now.project
    BY <1>15, <1>16 DEF Contexts
  <2>2. /\ told \in Contexts /\ told.name = ctx[c].name /\ told.account = now.account
        /\ told.project = ctx[c].project
    BY <1>15, <1>16 DEF Contexts
  <2>3. /\ held \in Contexts /\ held.name = ctx[c].name /\ held.account = ctx[c].account
        /\ held.project = now.project
    BY <1>15, <1>16 DEF Contexts
  <2>4. /\ pc[c] \in ContextSteps
        /\ \/ Remember(c, list)
           \/ Remember(c, told)
           \/ ctx[c].next = "project" /\ Remember(c, held)
    BY <1>3, <1>15 DEF ReadContext
  <2> HIDE DEF list, told, held
  <2>5. ContextRead(c)
    <3>1. CASE Remember(c, list)
      BY <1>14, <2>1, <2>4, <3>1 DEF ContextRead
    <3>2. CASE Remember(c, told)
      BY <1>14, <2>2, <2>4, <3>2 DEF ContextRead
    <3>3. CASE ctx[c].next = "project" /\ Remember(c, held)
      BY <1>14, <2>3, <2>4, <3>3 DEF ContextRead
    <3>4. QED
      BY <2>4, <3>1, <3>2, <3>3
  <2>6. QED
    BY <1>1, <1>2, <2>5
<1>4. CASE ReadContextBlind(c)
  <2>1. /\ NoContext \in Contexts /\ NoContext.name = None /\ NoContext.project = None
    BY DEF NoContext, Contexts
  <2>2. pc[c] \in ContextSteps /\ (Remember(c, NoContext) \/ Remember(c, ctx[c]))
    BY <1>4 DEF ReadContextBlind
  <2>3. faulted'[c] # {}
    BY <1>1, <1>4 DEF ReadContextBlind, Fault, FaultAt
  <2>4. ContextRead(c)
    BY <1>14, <1>15, <2>1, <2>2, <2>3 DEF ContextRead
  <2>5. QED
    BY <1>1, <1>2, <2>4
<1>5. CASE ReadAdc(c) \/ ReadAdcBlind(c)
  <2>1. PICK account : ReadAdcWith(c, account)
    BY <1>5 DEF ReadAdc, ReadAdcBlind
  <2> DEFINE x == [ctx[c] EXCEPT !.adc = account]
  <2>2. /\ x.name = ctx[c].name /\ x.account = ctx[c].account /\ x.project = ctx[c].project
        /\ x.next = ctx[c].next
    BY <1>1 DEF Kept, Contexts
  <2>3. /\ pc[c] \in AdcSteps /\ ctx' = [ctx EXCEPT ![c] = x] /\ UNCHANGED machine /\ did' = did
        /\ pick' = pick /\ \E step \in AfterContext(c, x) : Goto(c, step)
    BY <2>1 DEF ReadAdcWith, trace
  <2> HIDE DEF x
  <2>4. ctx'[c] = x /\ pc'[c] \in AfterContext(c, x)
    BY <1>1, <2>3 DEF Goto, Kept
  <2>5. AdcRead(c)
    BY <2>2, <2>3, <2>4 DEF AdcRead
  <2>6. QED
    BY <1>1, <1>2, <2>5
<1>6. CASE CallGcloud(c)
  <2>1. PICK step \in AfterEffect(c) : AuthEffect(c) /\ Goto(c, step) /\ UNCHANGED local
    BY <1>6 DEF CallGcloud
  <2>2. Called(c)
    BY <1>1, <2>1 DEF Called, SameMemory, Goto, Kept, local
  <2>3. QED
    BY <1>1, <1>2, <2>2
<1>7. CASE ActivateRefused(c) \/ CreateRefused(c) \/ NoCli(c) \/ AuthCallFails(c)
  <2>1. pc'[c] \in {"failed", "blocked"}
    BY <1>1, <1>7 DEF ActivateRefused, CreateRefused, NoCli, AuthCallFails, Goto, Kept
  <2>2. QED
    BY <1>1, <1>2, <2>1
<1>8. CASE ListProjects(c) \/ ListProjectsBlind(c)
  <2>1. PICK shown \in {Visible, {}} : ChooseFrom(c, shown)
    BY <1>8 DEF ListProjects, ListProjectsBlind
  <2>2. /\ \/ pc'[c] = "set-project" /\ pick'[c] \in shown
           \/ pc'[c] \in {"adc", "context"} /\ req[c].cmd = "auth.create"
           \/ pc'[c] = "failed"
    BY <1>1, <2>1 DEF ChooseFrom, ToAdc, Goto, Kept
  <2>3. pc[c] = "projects" /\ UNCHANGED machine /\ did' = did /\ ctx'[c] = ctx[c]
    BY <1>8 DEF ListProjects, ListProjectsBlind, trace
  <2>4. ProjectChosen(c) \/ pc'[c] = "failed"
    BY <2>2, <2>3 DEF ProjectChosen
  <2>5. QED
    BY <1>1, <1>2, <2>4
<1>9. CASE CheckCli(c)
  <2>1. CliChecked(c)
    BY <1>1, <1>9 DEF CheckCli, CliChecked, SameMemory, Goto, Kept, trace, local
  <2>2. QED
    BY <1>1, <1>2, <2>1
<1>10. CASE SaveConfig(c)
  <2>1. ConfigSaved(c)
    BY <1>1, <1>10 DEF SaveConfig, ConfigSaved, SameMemory, Goto, Kept, trace, local
  <2>2. QED
    BY <1>1, <1>2, <2>1
<1>11. CASE Logout(c) \/ LogoutFails(c)
  <2>1. LoggedOut(c)
    BY <1>1, <1>11 DEF Logout, LogoutFails, LoggedOut, SameMemory, Goto, Kept, trace, local, machine
  <2>2. QED
    BY <1>1, <1>2, <2>1
<1>12. CASE AttemptFails(c)
  <2>1. /\ faulted' = [faulted EXCEPT ![c] = faulted[c] \cup {pc[c]}]
        /\ UNCHANGED <<pc, local>>
        /\ AuthEffect(c) \/ UNCHANGED <<machine, trace>>
    BY <1>12 DEF AttemptFails, Fault, FaultAt
  <2>2. faulted'[c] # {}
    BY <1>1, <2>1
  <2>3. Called(c) \/ TriedAgain(c)
    BY <2>1, <2>2 DEF Called, TriedAgain, SameMemory, trace, local
  <2>4. QED
    BY <1>1, <1>2, <2>3
<1>13. QED
  BY <1>3, <1>4, <1>5, <1>6, <1>7, <1>8, <1>9, <1>10, <1>11, <1>12 DEF AuthStep, AuthFault

\* A step of an auth command keeps what is known of the steps.
LEMMA StepKept ==
  ASSUME TypeInv, TraceOK, NEW c \in Clients, StepAt(c), AuthStep(c) \/ AuthFault(c)
  PROVE  StepAt(c)'
<1>1. /\ req'[c] = req[c] /\ FitsAuth(pc[c], req[c]) /\ pc[c] \in AuthStepNames
      /\ \/ pc'[c] \in {"failed", "blocked"}
         \/ ContextRead(c) \/ AdcRead(c) \/ Called(c) \/ TriedAgain(c) \/ ProjectChosen(c)
         \/ CliChecked(c) \/ ConfigSaved(c) \/ LoggedOut(c)
  BY AuthOutcomes
<1>2. CASE pc'[c] \in {"failed", "blocked"}
  BY <1>1, <1>2 DEF StepAt, AuthStepNames
<1>3. CASE ContextRead(c)
  <2>1. \/ pc'[c] = pc[c] /\ pc[c] \in ContextSteps
        \/ /\ ctx'[c].next = "list"
           /\ \/ pc[c] = "context" /\ pc'[c] = "context-adc"
              \/ pc'[c] \in {"detect-adc", "relogged-adc", "realigned-adc"}
    BY <1>3, AdcStepNames DEF ContextRead, ContextSteps
  <2>2. QED
    BY <1>1, <2>1 DEF StepAt, ContextSteps
<1>4. CASE AdcRead(c)
  <2>3. ctx'[c].next = ctx[c].next /\ pc[c] \in AuthStepNames \ ContextSteps
    BY <1>1, <1>4, AdcStepNames DEF AdcRead, ContextSteps
  <2>1. /\ pc'[c] \in {"done", "set-account", "set-project", "projects", "adc", "save", "login", "blocked"}
        /\ pc'[c] = "adc" => req[c].cmd = "setup"
    BY <1>1, <1>4, AfterContextSteps DEF AdcRead
  <2>2. QED
    BY <1>1, <2>1, <2>3 DEF StepAt
<1>5. CASE Called(c)
  <2>1. pc[c] \in {"activate", "create", "login", "set-account", "set-project", "adc"}
    BY <1>5 DEF Called, AuthEffect, ActivateEffect, CreateEffect, LoginEffect, SetAccountEffect,
                SetProjectEffect, AdcLoginEffect
  <2>5. ctx'[c] = ctx[c] /\ ctx[c].next = "list"
    BY <1>5, <2>1 DEF Called, SameMemory, StepAt, AuthStepNames, ContextSteps
  <2>2. CASE pc'[c] = pc[c]
    BY <1>1, <2>1, <2>2, <2>5 DEF StepAt
  <2>3. CASE pc'[c] \in AfterEffect(c)
    BY <1>1, <2>1, <2>3, <2>5, AfterEffectSteps DEF StepAt, FitsAuth
  <2>4. QED
    BY <1>5, <2>2, <2>3 DEF Called
<1>6. CASE TriedAgain(c)
  BY <1>1, <1>6 DEF TriedAgain, StepAt, SameMemory
<1>7. CASE ProjectChosen(c) \/ CliChecked(c) \/ ConfigSaved(c) \/ LoggedOut(c)
  BY <1>1, <1>7
     DEF ProjectChosen, CliChecked, ConfigSaved, LoggedOut, StepAt, SameMemory, AuthStepNames,
         ContextSteps
<1>8. QED
  BY <1>1, <1>2, <1>3, <1>4, <1>5, <1>6, <1>7

\* The configuration that it works on stays active.
LEMMA OwnConfigKept ==
  ASSUME TypeInv, TraceOK, NEW c \in Clients, OwnConfig(c), AuthStep(c) \/ AuthFault(c),
         pc'[c] \notin {"failed", "blocked"}
  PROVE  OwnConfig(c)'
<1>1. /\ req'[c] = req[c] /\ FitsAuth(pc[c], req[c]) /\ pc[c] \in AuthStepNames
      /\ \/ ContextRead(c) \/ AdcRead(c) \/ Called(c) \/ TriedAgain(c) \/ ProjectChosen(c)
         \/ CliChecked(c) \/ ConfigSaved(c) \/ LoggedOut(c)
  BY AuthOutcomes
<1>2. CASE Called(c)
  <2>1. /\ pc[c] \in {"activate", "create"} => active' = req[c].config
        /\ pc[c] \notin {"activate", "create"} => active' = active
        /\ ctx'[c] = ctx[c]
    BY <1>2, EffectConfigs DEF Called, SameMemory
  <2>2. pc[c] \notin {"check"}
    BY <1>2 DEF Called, AuthEffect, ActivateEffect, CreateEffect, LoginEffect, SetAccountEffect,
                SetProjectEffect, AdcLoginEffect
  <2>3. QED
    BY <1>1, <2>1, <2>2 DEF OwnConfig
<1>3. CASE ContextRead(c)
  <2>1. /\ active' = active /\ (ctx'[c].name \in {active, None} \/ ctx'[c].name = ctx[c].name)
        /\ pc[c] \notin {"activate", "create", "check"}
    BY <1>3 DEF ContextRead, ContextSteps, machine
  <2>2. QED
    BY <1>1, <2>1 DEF OwnConfig
<1>4. CASE AdcRead(c)
  <2>1. /\ active' = active /\ ctx'[c].name = ctx[c].name
        /\ pc[c] \notin {"activate", "create", "check"}
    BY <1>4, AdcStepNames DEF AdcRead, machine
  <2>2. QED
    BY <1>1, <2>1 DEF OwnConfig
<1>5. CASE TriedAgain(c)
  BY <1>1, <1>5 DEF TriedAgain, SameMemory, OwnConfig, machine
<1>6. CASE CliChecked(c)
  <2>1. /\ active' = active /\ ctx'[c] = ctx[c] /\ req[c].cmd = "setup"
        /\ pc'[c] = IF req[c].config # None THEN "activate" ELSE "detect"
    BY <1>1, <1>6 DEF CliChecked, SameMemory, machine, FitsAuth
  <2>2. QED
    BY <1>1, <2>1 DEF OwnConfig
<1>7. CASE ProjectChosen(c) \/ ConfigSaved(c) \/ LoggedOut(c)
  <2>1. /\ active' = active /\ ctx'[c] = ctx[c]
        /\ pc[c] \notin {"activate", "create", "check"}
    BY <1>7 DEF ProjectChosen, ConfigSaved, LoggedOut, SameMemory, machine
  <2>2. QED
    BY <1>1, <2>1 DEF OwnConfig
<1>8. QED
  BY <1>1, <1>2, <1>3, <1>4, <1>5, <1>6, <1>7

\* auth create: its account is set before the project is, and both are kept.
LEMMA CreateKept ==
  ASSUME TypeInv, TraceOK, NEW c \in Clients, OwnConfig(c), CreateAt(c), StepAt(c),
         AuthStep(c) \/ AuthFault(c), pc'[c] \notin {"failed", "blocked"}
  PROVE  CreateAt(c)'
<1> SUFFICES ASSUME req[c].cmd = "auth.create" PROVE CreateAt(c)'
  BY AuthOutcomes DEF CreateAt
<1>1. /\ req'[c] = req[c] /\ FitsAuth(pc[c], req[c]) /\ pc[c] \in AuthStepNames
      /\ \/ ContextRead(c) \/ AdcRead(c) \/ Called(c) \/ TriedAgain(c) \/ ProjectChosen(c)
         \/ CliChecked(c) \/ ConfigSaved(c) \/ LoggedOut(c)
  BY AuthOutcomes
<1>2. pc[c] # "create" => active = req[c].config
  BY <1>1 DEF OwnConfig, FitsAuth
<1>3. CASE Called(c)
  <2>1. AuthEffect(c)
    BY <1>3 DEF Called
  <2>2. /\ pc[c] \in {"create", "login", "set-account", "set-project", "adc"}
        /\ did'[c] \subseteq {req[c].config}
    BY <1>1, <1>2, <2>1, EffectDeeds DEF CreateAt, FitsAuth
  <2>3. \/ pc'[c] = pc[c]
        \/ pc[c] \in {"create", "login"} /\ pc'[c] \in {"login", "detect"}
        \/ pc[c] = "set-account" /\ pc'[c] = "set-project"
        \/ pc[c] = "set-account" /\ pc'[c] = "projects" /\ req[c].project = None
        \/ pc[c] = "set-project" /\ pc'[c] \in {"adc", "context"}
        \/ pc[c] = "adc" /\ pc'[c] = "context"
    BY <1>1, <1>3, <2>2, AfterEffectSteps DEF Called
  <2>4. CASE pc[c] \in {"create", "login"}
    BY <1>1, <2>2, <2>3, <2>4 DEF CreateAt
  <2>5. CASE pc[c] = "set-account"
    <3>1. active' = active /\ (req[c].account # None => configs'[active'].account = req[c].account)
      BY <2>1, <2>5, EffectConfigs
    <3>2. QED
      BY <1>1, <2>2, <2>3, <2>5, <3>1 DEF CreateAt
  <2>6. CASE pc[c] = "set-project"
    <3>1. /\ configs'[active'].account = configs[active].account
          /\ req[c].project # None => configs'[active'].project = req[c].project
      BY <2>1, <2>6, EffectConfigs DEF ChosenProject
    <3>2. QED
      BY <1>1, <2>2, <2>3, <2>6, <3>1 DEF CreateAt
  <2>7. CASE pc[c] = "adc"
    <3>1. configs' = configs /\ active' = active
      BY <2>1, <2>7, EffectConfigs
    <3>2. QED
      BY <1>1, <2>2, <2>3, <2>7, <3>1 DEF CreateAt
  <2>8. QED
    BY <2>2, <2>4, <2>5, <2>6, <2>7
<1>4. CASE ContextRead(c)
  <2>1. /\ UNCHANGED <<configs, active>> /\ did' = did
        /\ \/ pc[c] \in ContextSteps /\ pc'[c] = pc[c]
           \/ pc[c] = "context" /\ pc'[c] = "context-adc"
           \/ pc'[c] \in {"detect-adc", "relogged-adc", "realigned-adc"}
    BY <1>4, AdcStepNames DEF ContextRead, ContextSteps, machine
  <2>2. QED
    BY <1>1, <2>1 DEF CreateAt
<1>5. CASE AdcRead(c)
  <2>1. UNCHANGED <<configs, active>> /\ did' = did
    BY <1>5 DEF AdcRead, machine
  <2>2. \/ pc[c] = "context-adc" /\ pc'[c] = "done"
        \/ /\ pc'[c] \in {"set-account", "set-project", "projects"}
           /\ pc'[c] # "set-account" => req[c].account = None
           /\ pc'[c] = "projects" => req[c].project = None
    BY <1>1, <1>5, AfterContextSteps DEF AdcRead
  <2>3. QED
    BY <1>1, <2>1, <2>2 DEF CreateAt
<1>6. CASE TriedAgain(c)
  BY <1>1, <1>6 DEF TriedAgain, CreateAt, machine
<1>7. CASE ProjectChosen(c)
  BY <1>1, <1>7 DEF ProjectChosen, CreateAt, machine
<1>8. CASE CliChecked(c) \/ ConfigSaved(c) \/ LoggedOut(c)
  BY <1>1, <1>8 DEF CliChecked, ConfigSaved, LoggedOut, FitsAuth, StepAt
<1>9. QED
  BY <1>1, <1>3, <1>4, <1>5, <1>6, <1>7, <1>8

\* auth project: what it sets was given or could be seen.
LEMMA ProjectKept ==
  ASSUME TypeInv, TraceOK, NEW c \in Clients, ProjectAt(c), StepAt(c),
         AuthStep(c) \/ AuthFault(c), pc'[c] \notin {"failed", "blocked"}
  PROVE  ProjectAt(c)'
<1> SUFFICES ASSUME req[c].cmd = "auth.project" PROVE ProjectAt(c)'
  BY AuthOutcomes DEF ProjectAt
<1>1. /\ req'[c] = req[c] /\ FitsAuth(pc[c], req[c]) /\ pc[c] \in AuthStepNames
      /\ UNCHANGED <<lifecycle, owners>>
      /\ \/ ContextRead(c) \/ AdcRead(c) \/ Called(c) \/ TriedAgain(c) \/ ProjectChosen(c)
         \/ CliChecked(c) \/ ConfigSaved(c) \/ LoggedOut(c)
  BY AuthOutcomes
<1>2. ASSUME active' = active, configs'[active].account = configs[active].account
      PROVE  Offered(c)' = Offered(c) /\ Visible' = Visible
  BY <1>1, <1>2 DEF Offered, Visible, User
<1>3. CASE Called(c)
  <2>1. AuthEffect(c) /\ SameMemory(c)
    BY <1>3 DEF Called
  <2>2. pc[c] = "set-project"
    BY <1>1, <2>1, EffectDeeds DEF FitsAuth, StepAt
  <2>3. /\ active' = active /\ configs'[active].account = configs[active].account
        /\ configs'[active'].project = ChosenProject(c)
        /\ did'[c] = did[c] \cup {active}
    BY <2>1, <2>2, EffectConfigs, EffectDeeds
  <2>4. pc'[c] \in {"set-project", "context"}
    BY <1>1, <1>3, <2>2, AfterEffectSteps DEF Called
  <2>5. did[c] \subseteq {active} /\ ChosenProject(c) \in Offered(c)
    BY <2>2 DEF ProjectAt
  <2>6. ChosenProject(c)' = ChosenProject(c) /\ Offered(c)' = Offered(c)
    BY <1>1, <1>2, <2>1, <2>3 DEF ChosenProject, SameMemory
  <2>7. did'[c] = {active'}
    BY <2>3, <2>5
  <2>8. QED
    BY <2>3, <2>4, <2>5, <2>6, <2>7 DEF ProjectAt
<1>4. CASE ContextRead(c) \/ AdcRead(c)
  <2>1. UNCHANGED <<configs, active>> /\ did' = did
    BY <1>4 DEF ContextRead, AdcRead, machine
  <2>2. ContextRead(c) => pc[c] = "context" /\ pc'[c] \in {"context", "context-adc"}
    BY <1>1, AdcStepNames DEF ContextRead, ContextSteps, FitsAuth
  <2>3. AdcRead(c) => pc[c] = "context-adc" /\ pc'[c] = "done"
    BY <1>1, AfterContextSteps DEF AdcRead
  <2>4. Offered(c)' = Offered(c)
    BY <1>2, <2>1
  <2>5. QED
    BY <1>4, <2>1, <2>2, <2>3, <2>4 DEF ProjectAt
<1>5. CASE TriedAgain(c)
  <2>1. UNCHANGED <<configs, active>> /\ did' = did /\ SameMemory(c) /\ pc'[c] = pc[c]
    BY <1>5 DEF TriedAgain, machine
  <2>2. ChosenProject(c)' = ChosenProject(c) /\ Offered(c)' = Offered(c)
    BY <1>1, <1>2, <2>1 DEF ChosenProject, SameMemory
  <2>3. QED
    BY <1>1, <2>1, <2>2 DEF ProjectAt
<1>6. CASE ProjectChosen(c)
  <2>1. /\ UNCHANGED <<configs, active>> /\ did' = did /\ pc[c] = "projects"
        /\ pc'[c] = "set-project" /\ pick'[c] \in Visible
    BY <1>1, <1>6 DEF ProjectChosen, machine
  <2>2. did[c] = {} /\ req[c].project = None
    BY <2>1 DEF ProjectAt
  <2>3. pick'[c] # None
    BY <2>1, SessionAssumption DEF Visible, SessionAssumption
  <2>4. ChosenProject(c)' = pick'[c] /\ Offered(c)' = Visible
    BY <1>1, <1>2, <2>1, <2>2, <2>3 DEF ChosenProject, Offered
  <2>5. QED
    BY <2>1, <2>2, <2>4 DEF ProjectAt
<1>7. CASE CliChecked(c) \/ ConfigSaved(c) \/ LoggedOut(c)
  BY <1>1, <1>7 DEF CliChecked, ConfigSaved, LoggedOut, FitsAuth, StepAt
<1>8. QED
  BY <1>1, <1>3, <1>4, <1>5, <1>6, <1>7

\* setup: what it has read is still so when it is written down.
LEMMA SetupKept ==
  ASSUME TypeInv, TraceOK, NEW c \in Clients, SetupAt(c), StepAt(c),
         AuthStep(c) \/ AuthFault(c), pc'[c] \notin {"failed", "blocked"}
  PROVE  SetupAt(c)'
<1> SUFFICES ASSUME req[c].cmd = "setup" PROVE SetupAt(c)'
  BY AuthOutcomes DEF SetupAt
<1>1. /\ req'[c] = req[c] /\ FitsAuth(pc[c], req[c]) /\ pc[c] \in AuthStepNames
      /\ faulted[c] \subseteq faulted'[c]
      /\ \/ ContextRead(c) \/ AdcRead(c) \/ Called(c) \/ TriedAgain(c) \/ ProjectChosen(c)
         \/ CliChecked(c) \/ ConfigSaved(c) \/ LoggedOut(c)
  BY AuthOutcomes
<1>2. CASE Called(c)
  <2>1. AuthEffect(c) /\ ctx'[c] = ctx[c]
    BY <1>2 DEF Called, SameMemory
  <2>2. pc[c] \in {"activate", "login", "adc"}
    BY <1>1, <2>1, EffectDeeds DEF FitsAuth
  <2>7. ctx[c].next = "list"
    BY <2>2 DEF StepAt, AuthStepNames, ContextSteps
  <2>3. CASE pc[c] = "activate"
    <3>1. ctx[c].project = None /\ pc'[c] \in {"activate", "detect"}
      BY <1>1, <1>2, <2>3, AfterEffectSteps DEF SetupAt, Called
    <3>2. QED
      BY <1>1, <2>1, <2>7, <3>1 DEF SetupAt
  <2>4. CASE pc[c] = "login"
    <3>1. pc'[c] \in {"login", "relogged"}
      BY <1>1, <1>2, <2>4, AfterEffectSteps DEF Called
    <3>2. configs'[active'].project = configs[active].project
      BY <2>1, <2>4, EffectConfigs
    <3>3. QED
      BY <1>1, <2>1, <2>4, <2>7, <3>1, <3>2 DEF SetupAt
  <2>5. CASE pc[c] = "adc"
    <3>1. pc'[c] \in {"adc", "realigned"}
      BY <1>1, <1>2, <2>5, AfterEffectSteps DEF Called
    <3>2. configs' = configs /\ active' = active
      BY <2>1, <2>5, EffectConfigs
    <3>3. QED
      BY <1>1, <2>1, <2>5, <2>7, <3>1, <3>2 DEF SetupAt
  <2>6. QED
    BY <2>2, <2>3, <2>4, <2>5
<1>3. CASE ContextRead(c)
  <2>1. /\ UNCHANGED <<configs, active>> /\ pc[c] \in ContextSteps
        /\ \/ pc'[c] = pc[c]
           \/ pc'[c] \in {"detect-adc", "relogged-adc", "realigned-adc"}
    BY <1>3, AdcStepNames DEF ContextRead, ContextSteps, machine, StepAt
  <2>2. ctx'[c].project \in {None, configs[active].project}
    BY <1>3 DEF ContextRead, SetupAt
  <2>3. ctx'[c].account = configs[active].account \/ faulted'[c] # {}
    BY <1>1, <1>3, <2>1 DEF ContextRead, SetupAt
  <2>4. QED
    BY <1>1, <2>1, <2>2, <2>3 DEF SetupAt, ContextSteps
<1>4. CASE AdcRead(c)
  <2>1. /\ UNCHANGED <<configs, active>> /\ ctx'[c].account = ctx[c].account
        /\ ctx'[c].project = ctx[c].project
    BY <1>4 DEF AdcRead, machine
  <2>2. pc[c] \in {"detect-adc", "relogged-adc", "realigned-adc"}
    BY <1>1, <1>4, AdcStepNames DEF AdcRead, StepAt
  <2>3. /\ pc'[c] \in {"adc", "save", "login"}
        /\ pc'[c] = "save" => req[c].project # None \/ ctx'[c].project # None
    BY <1>1, <1>4, <2>2, AfterContextSteps DEF AdcRead
  <2>4. QED
    BY <1>1, <2>1, <2>2, <2>3 DEF SetupAt, ContextSteps
<1>5. CASE TriedAgain(c)
  <2>1. UNCHANGED <<configs, active>> /\ pc'[c] = pc[c] /\ ctx'[c] = ctx[c] /\ pc[c] # "done"
    BY <1>1, <1>5 DEF TriedAgain, SameMemory, machine, AuthStepNames
  <2>2. QED
    BY <1>1, <2>1 DEF SetupAt
<1>6. CASE CliChecked(c)
  <2>1. /\ UNCHANGED <<configs, active>> /\ pc'[c] \in {"activate", "detect"}
        /\ ctx'[c] = ctx[c] /\ pc[c] = "check" /\ ctx[c].next = "list"
    BY <1>6 DEF CliChecked, SameMemory, machine, StepAt, AuthStepNames, ContextSteps
  <2>2. QED
    BY <1>1, <2>1 DEF SetupAt
<1>7. CASE ConfigSaved(c)
  <2>1. /\ UNCHANGED <<configs, active>> /\ pc'[c] = "done" /\ ctx'[c] = ctx[c] /\ pc[c] = "save"
        /\ config'.account = ctx[c].account
        /\ config'.project = IF req[c].project # None THEN req[c].project ELSE ctx[c].project
    BY <1>7 DEF ConfigSaved, SameMemory
  <2>2. QED
    BY <1>1, <2>1 DEF SetupAt, ContextSteps
<1>8. CASE ProjectChosen(c) \/ LoggedOut(c)
  BY <1>1, <1>8 DEF ProjectChosen, LoggedOut, FitsAuth, StepAt
<1>9. QED
  BY <1>1, <1>2, <1>3, <1>4, <1>5, <1>6, <1>7, <1>8

LEMMA AuthAsked ==
  ASSUME TypeInv, TraceOK, NEW c \in Clients, AskedAt(c), AuthStep(c) \/ AuthFault(c)
  PROVE  AskedAt(c)'
<1>1. StepAt(c)'
  BY StepKept DEF AskedAt
<1>2. ASSUME alone'[c], pc'[c] \in AuthSteps \cup {"done"}
      PROVE  (OwnConfig(c) /\ CreateAt(c) /\ ProjectAt(c) /\ SetupAt(c))'
  <2>1. pc'[c] \notin {"failed", "blocked"}
    BY <1>2, AdcStepNames DEF AuthSteps, ContextSteps
  <2>2. OwnConfig(c) /\ CreateAt(c) /\ ProjectAt(c) /\ SetupAt(c) /\ StepAt(c)
    BY <1>2, AuthOutcomes, OwnGuards DEF AskedAt
  <2>3. QED
    BY <2>1, <2>2, OwnConfigKept, CreateKept, ProjectKept, SetupKept
<1>3. QED
  BY <1>1, <1>2 DEF AskedAt

\* The other commands are not asked to set anything.
LEMMA OtherAsked ==
  ASSUME TypeInv, TraceOK, NEW c \in Clients,
         \/ SecretStep(c) \/ SecretFault(c) \/ ProjectStep(c) \/ ProjectFault(c)
         \/ GatewayStep(c) \/ GatewayFault(c)
  PROVE  AskedAt(c)'
<1>1. Moved(c) /\ Traced(c)
  BY SecretMoves, ProjectMoves, GatewayMoves, SecretTraced, ProjectTraced, GatewayTraced
<1>2. /\ FitsRequest(pc[c], req[c]) /\ FitsRequest(pc'[c], req[c]) /\ req'[c] = req[c]
      /\ pc[c] \in SecretSteps \cup ProjectSteps \cup GatewaySteps \/ req[c].cmd = "gateway.audit"
  BY <1>1, OwnGuards, AuditTurnsOn DEF TypeInv, Fits, Moved, Traced, SecretSteps, ProjectSteps
<1>3. req[c].cmd \in SecretCmds \cup ProjectCmds \cup GatewayCmds /\ req[c] # NoRequest
  BY <1>2, CmdKinds
     DEF FitsRequest, NoRequest, SecretCmds, ProjectCmds, GatewayCmds, SecretSteps, ProjectSteps,
         GatewaySteps
<1>4. pc'[c] # "idle" /\ pc'[c] \notin AuthSteps
  <2>1. req[c] \notin AuthRequests \cup SetupRequests
    BY <1>3, CmdKinds DEF SecretCmds, ProjectCmds, GatewayCmds, AuthCmds
  <2>2. QED
    BY <1>2, <1>3, <2>1 DEF FitsRequest
<1>5. StepAt(c)'
  BY <1>2, <1>4, AdcStepNames DEF StepAt, AuthSteps, AuthStepNames, ContextSteps
<1>6. (OwnConfig(c) /\ CreateAt(c) /\ ProjectAt(c) /\ SetupAt(c))'
  BY <1>2, <1>3 DEF OwnConfig, CreateAt, ProjectAt, SetupAt, SecretCmds, ProjectCmds, GatewayCmds
<1>7. QED
  BY <1>5, <1>6 DEF AskedAt

LEMMA StartAsked ==
  ASSUME TypeInv, TraceOK, NEW c \in Clients, NEW r \in Requests, AskedAt(c), ReportAt(c),
         Start(c, r)
  PROVE  AskedAt(c)'
<1>1. /\ Kept(c) /\ pc[c] = "idle" /\ pc'[c] = FirstStep(r) /\ req'[c] = r /\ ctx'[c] = ctx[c]
      /\ pc'[c] # "idle"
  BY KeptTyped, FirstSteps DEF Start, Goto, Kept
<1>2. /\ did'[c] = {} /\ ctx'[c] = NoContext
      /\ ctx'[c].name = None /\ ctx'[c].project = None
  BY <1>1, StartTraced DEF ReportAt, DeedAt, Unbegun, AskedAt, StepAt, NoContext
<1>8. ctx'[c].next = "list"
  BY <1>2 DEF NoContext
<1>3. /\ r.cmd = "auth.switch" => pc'[c] = "activate"
      /\ r.cmd = "auth.create" => pc'[c] = "create"
      /\ r.cmd = "setup" => pc'[c] = "check"
      /\ r.cmd = "auth.project" => pc'[c] = IF r.project = None THEN "projects" ELSE "set-project"
  BY <1>1 DEF FirstStep
<1>4. StepAt(c)'
  BY <1>1, <1>8, FirstSteps DEF StepAt
<1>5. OwnConfig(c)' /\ CreateAt(c)' /\ SetupAt(c)'
  BY <1>1, <1>2, <1>3, <1>8 DEF OwnConfig, CreateAt, SetupAt
<1>6. ProjectAt(c)'
  BY <1>1, <1>2, <1>3 DEF ProjectAt, ChosenProject, Offered
<1>7. QED
  BY <1>4, <1>5, <1>6 DEF AskedAt

\* What AskedAt depends on.
LEMMA AskedSame ==
  ASSUME NEW c, AskedAt(c), pc'[c] = pc[c], req'[c] = req[c], ctx'[c] = ctx[c],
         ~alone'[c] \/ (/\ alone'[c] = alone[c] /\ pick'[c] = pick[c]
                        /\ did'[c] = did[c] /\ faulted'[c] = faulted[c]
                        /\ UNCHANGED <<configs, active, config, lifecycle, owners>>)
  PROVE  AskedAt(c)'
<1>1. StepAt(c)'
  BY DEF AskedAt, StepAt
<1>2. CASE ~alone'[c]
  BY <1>1, <1>2 DEF AskedAt
<1>3. CASE /\ alone'[c] = alone[c] /\ pick'[c] = pick[c]
           /\ did'[c] = did[c] /\ faulted'[c] = faulted[c]
           /\ UNCHANGED <<configs, active, config, lifecycle, owners>>
  <2>1. Offered(c)' = Offered(c) /\ ChosenProject(c)' = ChosenProject(c)
    BY <1>3 DEF Offered, Visible, User, ChosenProject
  <2>2. ASSUME alone'[c], pc'[c] \in AuthSteps \cup {"done"}
        PROVE  (OwnConfig(c) /\ CreateAt(c) /\ ProjectAt(c) /\ SetupAt(c))'
    <3>1. OwnConfig(c) /\ CreateAt(c) /\ ProjectAt(c) /\ SetupAt(c)
      BY <1>3, <2>2 DEF AskedAt
    <3>2. OwnConfig(c)' /\ CreateAt(c)'
      BY <1>3, <3>1 DEF OwnConfig, CreateAt
    <3>3. ProjectAt(c)'
      BY <1>3, <2>1, <3>1 DEF ProjectAt
    <3>4. SetupAt(c)'
      BY <1>3, <3>1 DEF SetupAt
    <3>5. QED
      BY <3>2, <3>3, <3>4
  <2>3. QED
    BY <1>1, <2>2 DEF AskedAt
<1>4. QED
  BY <1>2, <1>3

LEMMA AskedInit == Init => AskedInv
  BY AdcStepNames DEF Init, AskedInv, AskedAt, StepAt, AuthSteps, AuthStepNames, ContextSteps, Ends

\* When one client moves, no other one is alone.
LEMMA AskedOthers ==
  ASSUME TypeInv, AskedInv, NEW c \in Clients, Moved(c), AskedAt(c)',
         \A d \in Clients \ {c} : ~alone'[d]
  PROVE  AskedInv'
<1>1. ASSUME NEW d \in Clients, d # c PROVE AskedAt(d)'
  <2>1. pc'[d] = pc[d] /\ req'[d] = req[d] /\ ctx'[d] = ctx[d] /\ AskedAt(d)
    BY <1>1 DEF Moved, TypeInv, ClientTypeOK, AskedInv
  <2>2. QED
    BY <1>1, <2>1, AskedSame
<1>2. QED
  BY <1>1 DEF AskedInv

LEMMA AskedNext ==
  TypeInv /\ TraceOK /\ AuditInv /\ ReportInv /\ AskedInv /\ [Next]_vars => AskedInv'
<1> SUFFICES ASSUME TypeInv, TraceOK, AuditInv, ReportInv, AskedInv, [Next]_vars PROVE AskedInv'
  OBVIOUS
<1>1. ASSUME NEW c \in Clients,
             \/ SecretStep(c) \/ SecretFault(c) \/ ProjectStep(c) \/ ProjectFault(c)
             \/ AuthStep(c) \/ AuthFault(c) \/ GatewayStep(c) \/ GatewayFault(c)
      PROVE  AskedInv'
  <2>1. Moved(c) /\ Traced(c) /\ pc[c] # "idle"
    BY <1>1, SecretMoves, ProjectMoves, AuthMoves, GatewayMoves, SecretTraced, ProjectTraced,
       AuthTraced, GatewayTraced, OwnGuards DEF SecretSteps, ProjectSteps, GatewaySteps
  <2>2. AskedAt(c)'
    BY <1>1, AuthAsked, OtherAsked DEF AskedInv
  <2>3. \A d \in Clients \ {c} : ~alone'[d]
    BY <2>1 DEF Traced, AuditInv, AuditAt
  <2>4. QED
    BY <2>1, <2>2, <2>3, AskedOthers
<1>2. ASSUME NEW c \in Clients, Finish(c) \/ Kill(c) PROVE AskedInv'
  <2>1. Moved(c) /\ pc'[c] = "idle" /\ pc[c] # "idle" /\ ctx'[c] = NoContext
    BY <1>2, LeaveMoves, KeptTyped DEF Finish, Kill, Leave, Goto, Kept, Ends
  <2>2. AskedAt(c)' /\ \A d \in Clients \ {c} : ~alone'[d]
    BY <1>2, <2>1, LeaveTraced, AdcStepNames
       DEF AskedAt, StepAt, AuditInv, AuditAt, AuthSteps, AuthStepNames, ContextSteps
  <2>3. QED
    BY <2>1, <2>2, AskedOthers
<1>3. ASSUME NEW c \in Clients, NEW r \in Requests, Start(c, r) PROVE AskedInv'
  <2>1. Moved(c) /\ AskedAt(c)' /\ \A d \in Clients \ {c} : ~alone'[d]
    BY <1>3, StartMoves, StartAsked, StartTraced DEF ReportInv, AskedInv
  <2>2. QED
    BY <2>1, AskedOthers
<1>4. CASE People
  <2>1. UNCHANGED <<pc, req, did, faulted, ctx, pick>>
    BY <1>4, PeopleTraced
       DEF People, HandLifecycle, HandBilling, HandOwner, HandSecret, HandAccount, HandTool,
           HandRegistry, HandSpoil, ByHand, Grant, local
  <2>2. ASSUME NEW c \in Clients
        PROVE  ~alone'[c] \/ UNCHANGED <<alone, configs, active, config, lifecycle, owners>>
    BY <1>4, PeopleTraced DEF machine, cloud
  <2>3. QED
    BY <2>1, <2>2, AskedSame DEF AskedInv
<1>5. CASE UNCHANGED vars
  <2>1. UNCHANGED <<pc, req, did, faulted, ctx, pick, alone, configs, active, config, lifecycle, owners>>
    BY <1>5 DEF vars, machine, cloud, trace, fate, local
  <2>2. QED
    BY <2>1, AskedSame DEF AskedInv
<1>6. QED
  BY <1>1, <1>2, <1>3, <1>4, <1>5 DEF Next, Step, Misfortune

\* An auth command or setup that nobody gets in the way of leaves what was asked for, for
\* any number of configurations, accounts and projects, whatever attempts fail on the way
\* (auth.ts, setup.ts: the configuration, account and project that they set).
THEOREM AuthLeavesAsked == Spec => []AuthAsAsked
<1>1. AskedInv => AuthAsAsked
  BY DEF AskedInv, AskedAt, OwnConfig, CreateAt, ProjectAt, SetupAt, Offered, AuthAsAsked
<1>2. QED
  BY <1>1, ReportAlways, AskedInit, AskedNext, PTL DEF Spec

=============================================================================
