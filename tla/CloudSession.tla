---------------------------- MODULE CloudSession ----------------------------
(***************************************************************************)
(* The secret, project, auth, setup and gateway commands, run by several   *)
(* clients on one machine, while people work beside them.                  *)
(***************************************************************************)
EXTENDS SecretCommands, ProjectCommands, AuthCommands, GatewayCommands

Step(c) == SecretStep(c) \/ ProjectStep(c) \/ AuthStep(c) \/ GatewayStep(c) \/ Finish(c)

Misfortune(c) ==
  SecretFault(c) \/ ProjectFault(c) \/ AuthFault(c) \/ GatewayFault(c) \/ Kill(c)

Next ==
  \/ \E c \in Clients, r \in Requests : Start(c, r)
  \/ \E c \in Clients : Step(c) \/ Misfortune(c)
  \/ People

Spec == Init /\ [][Next]_vars

-----------------------------------------------------------------------------

SecretSteps == {"gate", "listing", "exists", "prepare", "write", "clean", "unwind", "remove"}

ProjectSteps ==
  {"describe", "billing", "account", "roles", "lifecycle", "account-again", "approve",
   "consume", "delete", "undelete", "after"}

AuthSteps ==
  ContextSteps \cup AdcSteps
    \cup {"activate", "create", "login", "set-account", "set-project", "projects", "adc",
          "check", "save", "logout"}

GatewaySteps ==
  {"profile", "registry", "read-gate", "connect", "tools", "call", "close", "refuse", "abandon",
   "fail", "sessions"}

Tasks == {"none", "connect", "tools", "close", "abandon"}

OwnSteps(r) ==
  CASE r \in SecretRequests -> SecretSteps
    [] r \in ProjectRequests -> ProjectSteps
    [] r \in AuthRequests \cup SetupRequests -> AuthSteps
    [] r \in GatewayRequests -> GatewaySteps

Looks ==
  [state : LifecycleStates, billed : BOOLEAN, owner : BOOLEAN, visible : BOOLEAN] \cup {NoLook}

Contexts ==
  [name : Configurations \cup {None}, account : Users \cup {None},
   project : Projects \cup {None}, adc : Users \cup {None},
   next : {"list", "account", "project"}]

SharedTypeOK ==
  /\ lifecycle \in [Projects -> LifecycleStates]
  /\ billed \subseteq Projects /\ owners \subseteq Projects \X Users
  /\ versions \in [SecretNames -> Nat]
  /\ configs \in [Configurations -> Configs \cup {NoConfig}]
  /\ active \in Configurations /\ configs[active] # NoConfig
  /\ adc \in Users \cup {None} /\ config \in Configs \cup {NoConfig}
  /\ registry \in Downstream
  /\ offered \in [Servers -> [Tools -> {"none", "safe", "destructive"}]]
  /\ open \subseteq Clients \X Servers /\ task \in [Clients -> [Servers -> Tasks]]
  /\ asked \subseteq Asks /\ granted \subseteq Approvals /\ grants \in Nat

\* Every command is at a step of its own, an approval is asked for an account that
\* was read and used once it is loaded, sessions are those of the step, and only the
\* calls of execGcloud are at a second attempt.
SessionTypeOK ==
  /\ SharedTypeOK
  /\ \A c \in Clients :
       /\ IF pc[c] = "idle" THEN req[c] = NoRequest
          ELSE req[c] \in Requests /\ pc[c] \in OwnSteps(req[c]) \cup Ends
       /\ saw[c] \in BOOLEAN /\ look[c] \in Looks /\ acct[c] \in Accounts \cup {None}
       /\ ctx[c] \in Contexts /\ pick[c] \in Projects \cup {None}
       /\ pc[c] \in {"roles", "approve", "consume", "delete", "undelete"} => acct[c] # None
       /\ pc[c] \in {"consume", "delete", "undelete"} => using[c] \in Approvals
       /\ pc[c] = "set-project" => ChosenProject(c) # None
       /\ pc[c] \in {"tools", "call", "close", "refuse", "abandon"} => <<c, Server(c)>> \in open
       /\ \A s \in Servers :
            task[c][s] \in {"tools", "close", "abandon"} =>
              pc[c] \in {"sessions", "failed"} /\ <<c, s>> \in open
       /\ tries[c] < MaxAttempts /\ (tries[c] > 0 => Retried(c))

-----------------------------------------------------------------------------

\* No project that is protected, or that belongs to an organization or a folder, is
\* ever deleted by omg, whatever was approved and whoever is logged in.
ProtectedKept ==
  [][\A p \in ProtectedProjects \cup Owned :
       lifecycle[p] = "ACTIVE" /\ lifecycle'[p] # "ACTIVE" => hands' # hands]_vars

\* A deletion or restoration is made under an approval of what the command has found,
\* and one approval serves for two only if two commands held it at once; and a deletion
\* that nobody gets in the way of is of a project without billing, by an owner, with the
\* account the approval names and --expect-account asks for.
DeletesAsAudited ==
  [][/\ \A c \in Clients :
          did'[c] \cap {"delete", "undelete"} # did[c] \cap {"delete", "undelete"} /\ Running(c)' =>
            /\ using[c].of = Request(c)
            /\ using[c] \in spent => using[c] \in shared
     /\ \A p \in Projects :
          lifecycle[p] = "ACTIVE" /\ lifecycle'[p] # "ACTIVE" /\ hands' = hands =>
            \E c \in Clients :
              /\ pc[c] = "delete" /\ req[c].project = p /\ did'[c] # did[c]
              /\ alone[c] /\ faulted[c] = {} =>
                   /\ p \notin billed /\ <<p, User>> \in owners
                   /\ acct[c] = User /\ req[c].expect \in {None, User}]_vars

Deed(c) ==
  CASE req[c].cmd = "secret.set" /\ req[c].how = "live" -> {IF saw[c] THEN "add" ELSE "create"}
    [] req[c].cmd = "secret.delete" /\ req[c].how = "live" -> {"remove"}
    [] req[c].cmd = "project.delete" -> {"delete"}
    [] req[c].cmd = "project.undelete" -> {"undelete"}
    [] req[c].cmd = "gateway.call" -> {"call"}
    [] OTHER -> {}

\* What a command reports is what it did: with success exactly its deed, created or
\* added as it says; nothing when it was blocked; and nothing when it ends in an error,
\* unless a call failed or somebody got in the way.
ReportsTruly ==
  \A c \in Clients :
    /\ pc[c] = "done" => did[c] \ Configurations = Deed(c)
    /\ pc[c] = "blocked" /\ req[c].cmd # "setup" => did[c] = {}
    /\ pc[c] = "failed" /\ alone[c] /\ faulted[c] = {} => did[c] = {}

\* The file with a secret's value is gone when the command ends, unless it could not
\* be written whole or not be removed; and no file stays behind unless a call failed or
\* a process was killed.
ValueFileGone ==
  /\ \A c \in Clients :
       pc[c] \in Ends /\ c \in files => faulted[c] \cap {"prepare", "clean", "unwind"} # {}
  /\ stray # {} => faults > 0

\* An auth command or setup that nobody gets in the way of leaves what was asked for:
\* the configuration active, its account and project as given, no other configuration
\* changed, and config.json in step with gcloud.
AuthAsAsked ==
  \A c \in Clients :
    LET r == req[c]
        now == configs[active]
    IN  pc[c] = "done" /\ alone[c] =>
          /\ r.cmd \in {"auth.switch", "auth.create"} =>
               active = r.config /\ ctx[c].name \in {r.config, None}
          /\ r.cmd = "auth.create" =>
               /\ did[c] \subseteq {r.config}
               /\ r.account # None => now.account = r.account
               /\ r.project # None => now.project = r.project
          /\ r.cmd = "auth.project" =>
               did[c] = {active} /\ now.project \in (IF r.project = None THEN Visible
                                                     ELSE {r.project})
          /\ r.cmd = "setup" =>
               /\ r.config # None => active = r.config
               /\ config.project = IF r.project # None THEN r.project ELSE now.project
               /\ config.account = now.account \/ faulted[c] # {}

\* A tool that is called while nobody changes the servers is declared for reading on an
\* enabled server, is not annotated as destructive, and has no name that the pattern of
\* changing names matches.
GatewayReadsOnly ==
  \A c \in Clients :
    alone[c] /\ "call" \in did[c] =>
      /\ registry.status[Server(c)] = "enabled" /\ registry.mode[Server(c)][Tool(c)] = "read"
      /\ offered[Server(c)][Tool(c)] = "safe" /\ Tool(c) \notin MutationNames

\* A gateway command that succeeds has no session left.  One that does not has only those
\* that its audit has yet to close, or that would not close.
SessionsClosed ==
  \A c \in Clients, s \in Servers :
    <<c, s>> \in open =>
      /\ pc[c] # "done"
      /\ pc[c] \in Ends =>
           task[c][s] # "none" \/ faulted[c] \cap {"close", "refuse", "abandon"} # {}

\* The decision log has what became of a call that reached its server, was refused, or
\* met a failure, unless the append itself failed.  What ends in an error off the record
\* has called nothing, and nothing has failed.
GatewayAccounted ==
  \A c \in Clients :
    req[c].cmd = "gateway.call" =>
      /\ pc[c] = "done" => logged[c] = {"success"} \/ "call" \in faulted[c]
      /\ pc[c] = "blocked" =>
           logged[c] = {"blocked"} \/ faulted[c] \cap {"registry", "read-gate", "tools"} # {}
      /\ pc[c] = "failed" =>
           \/ "failure" \in logged[c] \/ "fail" \in faulted[c]
           \/ did[c] = {} /\ logged[c] = {} /\ faulted[c] = {}

\* ARCHITECTURE.md: every downstream tool call attempt writes to the decision log.  Here,
\* one with arguments that parse, and without a failing call.
EveryAttemptLogged ==
  \A c \in Clients :
    req[c].cmd = "gateway.call" /\ pc[c] \in Ends /\ req[c].args = "object" /\ faulted[c] = {} =>
      logged[c] # {}
=============================================================================
