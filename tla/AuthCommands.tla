---------------------------- MODULE AuthCommands ----------------------------
(***************************************************************************)
(* omg auth and omg setup: they create and activate gcloud configurations, *)
(* log in, set the account and the project, and read back what gcloud then *)
(* uses.  gcloud config set acts on the configuration that is active at    *)
(* that moment.  execGcloud tries a failing call up to MaxAttempts times,  *)
(* whether the one before took effect or not.                              *)
(***************************************************************************)
EXTENDS CloudCommands

\* getGcloudContext: it is read to see what is there, after a login, after an ADC
\* login, and for the answer.  The ADC account comes last.
ContextSteps == {"detect", "relogged", "realigned", "context"}

AdcStep(step) ==
  CASE step = "detect" -> "detect-adc" [] step = "relogged" -> "relogged-adc"
    [] step = "realigned" -> "realigned-adc" [] step = "context" -> "context-adc"

AdcSteps == {AdcStep(step) : step \in ContextSteps}

\* The read after this one: what the active configuration has not told is asked of
\* gcloud once more; a value that is there makes its own read void.
After(x, read) ==
  IF x.account = None /\ read = "list" THEN "account"
  ELSE IF x.project = None /\ read # "project" THEN "project"
  ELSE "list"

Remember(c, x) ==
  LET next == After(x, ctx[c].next)
  IN  /\ ctx' = [ctx EXCEPT ![c] = [x EXCEPT !.next = next]]
      /\ Goto(c, IF next = "list" THEN AdcStep(pc[c]) ELSE pc[c])
      /\ UNCHANGED <<cloud, machine, server, opened, consent, req, saw, look, acct, pick, using,
                     trace>>

\* configurations list, then get-value account and get-value project.
ReadContext(c) ==
  LET now == configs[active]
  IN  /\ pc[c] \in ContextSteps
      /\ Remember(c, CASE ctx[c].next = "list" ->
                           [name |-> active, account |-> now.account, project |-> now.project,
                            adc |-> None, next |-> "list"]
                       [] ctx[c].next = "account" -> [ctx[c] EXCEPT !.account = now.account]
                       [] ctx[c].next = "project" -> [ctx[c] EXCEPT !.project = now.project])
      /\ Calm

\* A read that fails to the last attempt tells nothing: a list, not even a name.
ReadContextBlind(c) ==
  /\ pc[c] \in ContextSteps
  /\ tries[c] + 1 = MaxAttempts
  /\ Fault(c)
  /\ Remember(c, IF ctx[c].next = "list" THEN NoContext ELSE ctx[c])

\* getAccountContext
ContextOk(x) == x.account # None /\ x.account = x.adc

\* Mutant: the project is set whether there is one or not.
ToProjectAlways(c) == {"set-project"}

\* resolveProjectIdAfterLogin: the project given or detected, else the list.
ToProject(c) ==
  {IF req[c].project # None \/ ctx[c].project # None THEN "set-project" ELSE "projects"}

ToAdc(c) == {IF req[c].align THEN "adc" ELSE "context"}

\* setup needs a project for config.json.
ToSave(c, x) == {IF req[c].project # None \/ x.project # None THEN "save" ELSE "blocked"}

\* shouldRunInteractiveStep: an option, or a person who may say no.
Chosen(c, option, step, others) ==
  IF option \/ req[c].yes THEN {step}
  ELSE IF req[c].asks THEN {step} \cup others ELSE others

\* setup: log in to ADC where the two accounts differ, if that is wanted.
ToAlign(c, x) ==
  IF ContextOk(x) THEN ToSave(c, x) ELSE Chosen(c, req[c].align, "adc", ToSave(c, x))

AfterContext(c, x) ==
  CASE pc[c] = "context-adc" -> {"done"}
    [] pc[c] = "detect-adc" /\ req[c].cmd = "auth.create" ->
         IF req[c].account # None \/ x.account # None THEN {"set-account"} ELSE ToProject(c)
    [] pc[c] = "detect-adc" /\ req[c].cmd = "setup" ->
         IF x.account # None THEN ToAlign(c, x)
         ELSE Chosen(c, req[c].login, "login", {"blocked"})
    [] pc[c] = "relogged-adc" -> ToAlign(c, x)
    [] pc[c] = "realigned-adc" -> ToSave(c, x)

\* readAdcAccount asks once, and any failure is no account.
ReadAdcWith(c, account) ==
  LET x == [ctx[c] EXCEPT !.adc = account]
  IN  /\ pc[c] \in AdcSteps
      /\ ctx' = [ctx EXCEPT ![c] = x]
      /\ \E step \in AfterContext(c, x) : Goto(c, step)
      /\ UNCHANGED <<cloud, machine, server, opened, consent, req, saw, look, acct, pick, using,
                     trace>>

ReadAdc(c) == ReadAdcWith(c, adc) /\ Calm

ReadAdcBlind(c) == Fault(c) /\ ReadAdcWith(c, None)

-----------------------------------------------------------------------------

Did(c, deed) == did' = [did EXCEPT ![c] = @ \cup {deed}]

\* configurations activate
ActivateEffect(c) ==
  /\ pc[c] = "activate"
  /\ configs[req[c].config] # NoConfig
  /\ active' = req[c].config
  /\ UNCHANGED <<configs, adc, trace>>

ActivateRefused(c) ==
  /\ pc[c] = "activate"
  /\ configs[req[c].config] = NoConfig
  /\ Goto(c, "failed")
  /\ UNCHANGED <<cloud, machine, server, opened, consent, local, trace>>
  /\ Calm

\* Mutant: the new configuration is not activated.
CreateInactive(c) ==
  /\ pc[c] = "create"
  /\ configs[req[c].config] = NoConfig
  /\ configs' = [configs EXCEPT ![req[c].config] = [account |-> None, project |-> None]]
  /\ Did(c, req[c].config)
  /\ UNCHANGED <<active, adc, logged>>

\* configurations create activates what it creates.
CreateEffect(c) ==
  /\ pc[c] = "create"
  /\ configs[req[c].config] = NoConfig
  /\ configs' = [configs EXCEPT ![req[c].config] = [account |-> None, project |-> None]]
  /\ active' = req[c].config
  /\ Did(c, req[c].config)
  /\ UNCHANGED <<adc, logged>>

\* It exists: also when an earlier attempt has created it.
CreateRefused(c) ==
  /\ pc[c] = "create"
  /\ configs[req[c].config] # NoConfig
  /\ Goto(c, "failed")
  /\ UNCHANGED <<cloud, machine, server, opened, consent, local, trace>>
  /\ Calm

\* auth login, of the account given or of one the person chooses.
LoginEffect(c) ==
  /\ pc[c] = "login"
  /\ \E u \in Users :
       /\ req[c].cmd = "auth.create" => req[c].account \in {None, u}
       /\ configs' = [configs EXCEPT ![active].account = u]
  /\ Did(c, active)
  /\ UNCHANGED <<active, adc, logged>>

\* config set account
SetAccountEffect(c) ==
  /\ pc[c] = "set-account"
  /\ configs' = [configs EXCEPT ![active].account =
                   IF req[c].account # None THEN req[c].account ELSE ctx[c].account]
  /\ Did(c, active)
  /\ UNCHANGED <<active, adc, logged>>

ChosenProject(c) ==
  IF req[c].project # None THEN req[c].project
  ELSE IF pick[c] # None THEN pick[c] ELSE ctx[c].project

\* config set project
SetProjectEffect(c) ==
  /\ pc[c] = "set-project"
  /\ configs' = [configs EXCEPT ![active].project = ChosenProject(c)]
  /\ Did(c, active)
  /\ UNCHANGED <<active, adc, logged>>

\* auth application-default login, of whichever account the person chooses.
AdcLoginEffect(c) ==
  /\ pc[c] = "adc"
  /\ adc' \in Users
  /\ UNCHANGED <<configs, active, trace>>

AuthEffect(c) ==
  /\ \/ ActivateEffect(c) \/ CreateEffect(c) \/ LoginEffect(c) \/ SetAccountEffect(c)
     \/ SetProjectEffect(c) \/ AdcLoginEffect(c)
  /\ UNCHANGED config

\* Where each of them goes on.
AfterEffect(c) ==
  CASE pc[c] = "activate" -> IF req[c].cmd = "setup" THEN {"detect"} ELSE ToAdc(c)
    [] pc[c] = "create" -> {IF req[c].login THEN "login" ELSE "detect"}
    [] pc[c] = "login" -> {IF req[c].cmd = "setup" THEN "relogged" ELSE "detect"}
    [] pc[c] = "set-account" -> ToProject(c)
    [] pc[c] = "set-project" -> IF req[c].cmd = "auth.create" THEN ToAdc(c) ELSE {"context"}
    [] pc[c] = "adc" ->
         {CASE req[c].cmd = "auth.refresh" -> "done" [] req[c].cmd = "setup" -> "realigned"
            [] OTHER -> "context"}

CallGcloud(c) ==
  /\ AuthEffect(c)
  /\ \E step \in AfterEffect(c) : Goto(c, step)
  /\ UNCHANGED <<cloud, server, opened, consent, local>>
  /\ Calm

-----------------------------------------------------------------------------

\* projects list: the active projects the account may see.
Visible == {p \in Projects : lifecycle[p] = "ACTIVE" /\ <<p, User>> \in owners}

\* The only one, or the one a person selects; auth create goes on without.
ChooseFrom(c, shown) ==
  \/ /\ Cardinality(shown) = 1 \/ (req[c].asks /\ shown # {})
     /\ \E p \in shown : pick' = [pick EXCEPT ![c] = p]
     /\ Goto(c, "set-project")
  \/ /\ ~(Cardinality(shown) = 1 \/ (req[c].asks /\ shown # {}))
     /\ \E step \in (IF req[c].cmd = "auth.create" THEN ToAdc(c) ELSE {"failed"}) : Goto(c, step)
     /\ UNCHANGED pick

ListProjects(c) ==
  /\ pc[c] = "projects"
  /\ ChooseFrom(c, Visible)
  /\ UNCHANGED <<cloud, machine, server, opened, consent, req, saw, look, acct, ctx, using, trace>>
  /\ Calm

\* A list that fails to the last attempt is an empty one.
ListProjectsBlind(c) ==
  /\ pc[c] = "projects"
  /\ tries[c] + 1 = MaxAttempts
  /\ Fault(c)
  /\ ChooseFrom(c, {})
  /\ UNCHANGED <<cloud, machine, server, opened, consent, req, saw, look, acct, ctx, using, trace>>

\* setup: gcloud --version.
CheckCli(c) ==
  /\ pc[c] = "check"
  /\ Goto(c, IF req[c].config # None THEN "activate" ELSE "detect")
  /\ UNCHANGED <<cloud, machine, server, opened, consent, local, trace>>
  /\ Calm

NoCli(c) ==
  /\ pc[c] = "check"
  /\ Fault(c)
  /\ Goto(c, "blocked")
  /\ UNCHANGED <<cloud, machine, server, opened, consent, local, trace>>

\* AuthManager.saveConfig of setup, with the account of the context it read.
SaveConfig(c) ==
  /\ pc[c] = "save"
  /\ config' = [account |-> ctx[c].account,
                project |-> IF req[c].project # None THEN req[c].project ELSE ctx[c].project]
  /\ Goto(c, "done")
  /\ UNCHANGED <<cloud, configs, active, adc, server, opened, consent, local, trace>>
  /\ Calm

\* auth logout removes config.json, if there is one.
Logout(c) ==
  /\ pc[c] = "logout"
  /\ config' = NoConfig
  /\ Goto(c, "done")
  /\ UNCHANGED <<cloud, configs, active, adc, server, opened, consent, local, trace>>
  /\ Calm

\* Whatever keeps the file from being removed, the report is success.
LogoutFails(c) ==
  /\ pc[c] = "logout"
  /\ Fault(c)
  /\ Goto(c, "done")
  /\ UNCHANGED <<cloud, machine, server, opened, consent, local, trace>>

-----------------------------------------------------------------------------

\* Calls made through execGcloud; setup's logins and that of auth refresh are not.
Retried(c) ==
  \/ pc[c] \in ContextSteps \cup {"projects", "activate", "create", "set-account", "set-project"}
  \/ pc[c] = "login" /\ req[c].cmd = "auth.create"
  \/ pc[c] = "adc" /\ req[c].cmd \notin {"auth.refresh", "setup"}

\* An attempt fails, after its effect or without it, and the next one begins.
AttemptFails(c) ==
  /\ Retried(c)
  /\ tries[c] + 1 < MaxAttempts
  /\ Fault(c)
  /\ tries' = [tries EXCEPT ![c] = @ + 1]
  /\ AuthEffect(c) \/ UNCHANGED <<machine, trace>>
  /\ UNCHANGED <<cloud, server, opened, consent, pc, local>>

\* The last attempt, or the only one.
AuthCallFails(c) ==
  /\ pc[c] \in {"activate", "create", "login", "set-account", "set-project", "adc", "save"}
  /\ Retried(c) => tries[c] + 1 = MaxAttempts
  /\ Fault(c)
  /\ AuthEffect(c) \/ UNCHANGED <<machine, trace>>
  /\ Goto(c, "failed")
  /\ UNCHANGED <<cloud, server, opened, consent, local>>

AuthStep(c) ==
  \/ ReadContext(c) \/ ReadAdc(c) \/ CallGcloud(c) \/ ActivateRefused(c) \/ CreateRefused(c)
  \/ ListProjects(c) \/ CheckCli(c) \/ SaveConfig(c) \/ Logout(c)

AuthFault(c) ==
  \/ ReadContextBlind(c) \/ ReadAdcBlind(c) \/ ListProjectsBlind(c) \/ NoCli(c)
  \/ AttemptFails(c) \/ AuthCallFails(c) \/ LogoutFails(c)
=============================================================================
