---------------------------- MODULE MCSafetyGate ----------------------------
(***************************************************************************)
(* Small instances of SafetyGate: a few commands of each kind, against the *)
(* default profiles and some that deny deployments.                        *)
(***************************************************************************)
EXTENDS SafetyGate

Command(name, performs, account) ==
  [name |-> name, performs |-> performs, argsHash |-> "h", account |-> account]

DeployBoth    == Command("deploy", {"deploy.cloud-run", "deploy.firebase-hosting"}, NoAccount)
DeployHosting == Command("deploy", {"deploy.firebase-hosting"}, NoAccount)
Hosting       == Command("firebase:deploy", {"deploy.firebase-hosting"}, NoAccount)
SetSecret     == Command("secret:set", {"secret.set"}, NoAccount)
DropSecret    == Command("secret:delete", {"secret.delete"}, NoAccount)
DeleteProject == Command("project:delete", {"gcp.project.delete"}, "alice")

MCCommands  == {DeployBoth, DeployHosting, DeleteProject, Hosting}
AllCommands == {DeployBoth, DeployHosting, Hosting, SetSecret, DropSecret}

MCRequests  == {RequestOf(c) : c \in MCCommands}
AllRequests == {RequestOf(c) : c \in AllCommands}

Deny(environment, actions) == [DefaultProfile(environment) EXCEPT !.deny = @ \cup actions]

MCProfiles ==
  {DefaultProfile("staging"), Deny("prod", {"deploy.firebase-hosting"}),
   Deny("staging", {"deploy.cloud-run", "deploy.firebase-hosting"})}
=============================================================================
