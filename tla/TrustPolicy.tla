----------------------------- MODULE TrustPolicy -----------------------------
(***************************************************************************)
(* What the trust profile says of an operation: the level of its action    *)
(* id, the rule of that level in the workspace's environment, the deny     *)
(* list, and whether the action needs budget evidence and has an adapter   *)
(* that may execute it.                                                    *)
(***************************************************************************)

\* ACTION_LEVELS; an id that is not listed is L2.
L0Actions ==
  {"gcp.projects.list", "gcp.auth.status", "planner.detect", "doctor.run",
   "downstream.mcp.discover", "downstream.mcp.read", "project.audit",
   "project.cleanup.plan", "billing.audit", "budget.notifications.audit",
   "pubsub.topic.audit", "budget.notifications.lock-ingestion", "cost.status",
   "firestore.audit", "iam.audit", "iam.plan", "security.audit", "secret.list",
   "sql.audit", "storage.audit"}

L1Actions ==
  {"deploy.cloud-run", "deploy.firebase-hosting", "apis.enable", "budget.enable-api",
   "firebase.rewrites.update", "cost.lock"}

L2Actions ==
  {"iam.role.grant", "iam.bootstrap", "billing.link", "deploy.prod", "secret.set",
   "budget.ensure", "budget.notifications.ensure", "cost.unlock"}

L3Actions ==
  {"secret.delete", "gcp.project.delete", "gcp.project.undelete", "firestore.data.delete"}

KnownActions == L0Actions \cup L1Actions \cup L2Actions \cup L3Actions

Level(action) ==
  CASE action \in L0Actions -> "L0"
    [] action \in L1Actions -> "L1"
    [] action \in L3Actions -> "L3"
    [] OTHER                -> "L2"

\* OPERATION_DEFAULTS: an action it does not list counts as cost-bearing, and
\* goes to the adapter "unknown", the only one a listed action has that may not execute.
RequiresBudget(action) ==
  \/ action \in {"deploy.cloud-run", "deploy.firebase-hosting", "deploy.prod",
                 "apis.enable", "billing.link", "secret.set"}
  \/ action \notin KnownActions

AdapterEnabled(action) ==
  action \in KnownActions \ {"planner.detect", "firestore.data.delete"}

Rulings == {"auto", "require_confirm", "require_approval", "deny"}

Environments == {"local", "dev", "staging", "prod"}

\* getRulesForEnvironment
Rules(environment) ==
  [L0 |-> "auto",
   L1 |-> CASE environment = "staging" -> "require_confirm"
            [] environment = "prod"    -> "require_approval"
            [] OTHER                   -> "auto",
   L2 |-> IF environment \in {"staging", "prod"} THEN "require_approval"
                                                 ELSE "require_confirm",
   L3 |-> "deny"]

\* A profile: the rules, and the action ids its deny patterns match.  The
\* default patterns are matched against whole ids, and match this one.
DefaultDeny == {"firestore.data.delete"}

DefaultProfile(environment) == [deny |-> DefaultDeny, rules |-> Rules(environment)]

\* getProjectL3ApprovalTrustProfile: project delete and undelete bring their own
\* profile, in which L3 asks for an approval; .omg/trust.yaml is not read.
ProjectL3Profile(action) ==
  [DefaultProfile("prod") EXCEPT !.deny = @ \ {action}, !.rules.L3 = "require_approval"]

\* Mutant: the level decides before the deny list is looked at.
RulingByLevel(profile, action) == profile.rules[Level(action)]

\* checkPermission up to the approval: the deny list first, then the level.
Ruling(profile, action) ==
  IF action \in profile.deny THEN "deny" ELSE profile.rules[Level(action)]
==============================================================================
