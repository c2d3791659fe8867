--------------------------- MODULE DeployExecutor ---------------------------
(***************************************************************************)
(* applyPlan: what omg deploy does once the safety gate has let it through. *)
(* It walks the targets of the plan in order.  For the backend it deploys  *)
(* to Cloud Run, sets the environment and waits for a ready revision; for  *)
(* the frontend it wires the backend into the rewrites of firebase.json,   *)
(* releases to Firebase Hosting and asks for the page.  Whatever fails,    *)
(* the backend that was deployed is rolled back and the error reported.    *)
(*                                                                         *)
(* Several deployments may run at once, in CLI processes and in requests   *)
(* of the MCP server, over the same services and the same firebase.json.   *)
(* Each gcloud or firebase call may fail, with its effect or without, and  *)
(* a process may die after any step.  Traffic splits are not modelled: no  *)
(* step reads them, and the outcome of the rollback's gcloud call, which   *)
(* sets them, is ignored by the code.                                      *)
(***************************************************************************)
EXTENDS Naturals, Sequences, FiniteSets

CONSTANTS Deployers,   \* processes that run deploy
          Services,    \* Cloud Run services
          Plans,       \* the plans .omg/project.yaml may hold
          Configs,     \* what firebase.json may hold at first
          NoFile,      \* firebase.json does not exist
          Torn,        \* firebase.json was truncated and not written yet
          MaxDeploys   \* bound on the deployments of a behaviour

\* A rewrite of firebase.json: its source pattern and where it leads.
Api == "/api/**"
Any == "**"
Index == "index.html"
Sources == {Api, Any, "/docs/**"}
Rewrites == [source : Sources, to : Services \cup {Index}]

\* buildPlan: the targets of a stack, their order and whether they are wired.
\* env is the environment .omg/project.yaml gives the backend, if any.
BuildPlan(stack, service, env) ==
  LET backend  == stack \in {"api-only", "spa-plus-api"}
      frontend == stack \in {"static", "spa-plus-api"}
  IN  [targets |-> {t \in {"backend", "frontend"} : IF t = "backend" THEN backend ELSE frontend},
       order   |-> CASE backend /\ frontend -> <<"backend", "frontend">>
                     [] backend             -> <<"backend">>
                     [] frontend            -> <<"frontend">>
                     [] OTHER               -> <<>>,
       wired   |-> backend /\ frontend,
       service |-> service,
       env     |-> env]

ASSUME ExecutorAssumption ==
  /\ MaxDeploys \in Nat
  /\ \A p \in Plans :
       /\ p.targets \subseteq {"backend", "frontend"}
       /\ p.order \in Seq({"backend", "frontend"})
       /\ p.service \in Services
       /\ p.env \in BOOLEAN /\ p.wired \in BOOLEAN
  /\ \A c \in Configs : c = NoFile \/ c \in Seq(Rewrites)
  /\ NoFile # Torn /\ NoFile \notin Seq(Rewrites)

\* As buildPlan orders them: every target has its place, the backend comes first.
\* (A plan edited by hand may break this; its deployment then does as well.)
ASSUME PlansInOrder ==
  \A p \in Plans :
    /\ \A t \in p.targets : \E i \in 1..Len(p.order) : p.order[i] = t
    /\ \A i, j \in 1..Len(p.order) :
         p.order[i] = "frontend" /\ p.order[j] = "backend" => j < i

VARIABLES config,   \* firebase.json: NoFile, Torn or its rewrites
          foreign,  \* the rewrites of other sources it held at first
          latest,   \* latest[s]: number of revisions of service s
          healthy,  \* healthy[s]: the revisions of s that came up
          hosting,  \* the rewrites of the last hosting release
          run,      \* run[d]: the deployment d executes
          deploys   \* how many deployments were begun

vars == <<config, foreign, latest, healthy, hosting, run, deploys>>

cloud == <<latest, healthy, hosting>>

Idle == [at |-> "idle"]

Running(d) == run[d].at # "idle"

Readable == config \notin {NoFile, Torn}

\* kept[n]: what the filter of updateHosting keeps of the first n rewrites.
Kept(rewrites) ==
  LET kept[n \in 0..Len(rewrites)] ==
        IF n = 0 THEN <<>>
        ELSE IF rewrites[n].source = Api THEN kept[n - 1]
        ELSE Append(kept[n - 1], rewrites[n])
  IN  kept

Others(rewrites) == Kept(rewrites)[Len(rewrites)]

\* Mutant: a rewrite that is there already is left in place beside the new one.
RewiredTwice(rewrites, service) == Append(rewrites, [source |-> Api, to |-> service])

\* Mutant: the rewrite names its source only.
RewiredBare(rewrites, service) == Append(Others(rewrites), [source |-> Api])

\* Mutant: the rewrite is set only where the file has one to replace.
RewiredInPlace(rewrites, service) ==
  [i \in DOMAIN rewrites |->
     IF rewrites[i].source = Api THEN [source |-> Api, to |-> service] ELSE rewrites[i]]

\* updateHosting: the rewrite of the pattern is replaced, and goes last.
Rewired(rewrites, service) ==
  Append(Others(rewrites), [source |-> Api, to |-> service])

\* Mutant: the environment is set after the revision was found ready.
FollowingEnvLast(step, plan) ==
  CASE step = "backend"  -> "describe"
    [] step = "describe" -> IF plan.env THEN "env" ELSE "loop"
    [] step = "env"      -> "loop"
    [] step = "verify"   -> "loop"

\* The step after one that succeeded; "loop" completes the target.
Following(step, plan) ==
  CASE step = "backend"  -> IF plan.env THEN "env" ELSE "describe"
    [] step = "env"      -> "describe"
    [] step = "describe" -> "loop"
    [] step = "verify"   -> "loop"

\* Mutant: the rollback is registered when the backend has been found ready.
UndoFromDescribe(step) == step = "describe"

\* The step whose success registers the rollback of the backend.
UndoFrom(step) == step = "backend"

\* Mutant: the last target is skipped.
MoreButOne(r) == r.next < Len(r.plan.order)

More(r) == r.next <= Len(r.plan.order)

Attempts == 3

\* Mutant: the count of attempts starts over before it reaches its end.
NextTryWrapped(n) == (n + 1) % Attempts

NextTry(n) == n + 1

\* The deployment r after its current step succeeded, and after it failed.
Advanced(r) ==
  LET at == Following(r.at, r.plan)
  IN  [r EXCEPT !.at = at, !.next = IF at = "loop" THEN @ + 1 ELSE @,
                !.undo = @ \/ UndoFrom(r.at)]

Failed(r) == [r EXCEPT !.at = IF r.undo THEN "rollback" ELSE "failed"]

Set(d, r) == run' = [run EXCEPT ![d] = r]

-----------------------------------------------------------------------------

Init ==
  /\ config \in Configs
  /\ foreign = IF config = NoFile THEN <<>> ELSE Others(config)
  /\ latest = [s \in Services |-> 0]
  /\ healthy = [s \in Services |-> {}]
  /\ hosting = NoFile
  /\ run = [d \in Deployers |-> Idle]
  /\ deploys = 0

Begin(d, plan) ==
  /\ ~Running(d)
  /\ deploys < MaxDeploys
  /\ deploys' = deploys + 1
  /\ Set(d, [at |-> "loop", plan |-> plan, next |-> 1, undo |-> FALSE, undone |-> FALSE,
             own |-> 0, seen |-> 0, up |-> {}, tries |-> 0, copy |-> <<>>])
  /\ UNCHANGED <<config, foreign, cloud>>

Target(r) == r.plan.order[r.next]

\* A target of the order that the plan does not have is skipped.
SkipTarget(d) ==
  /\ run[d].at = "loop"
  /\ More(run[d])
  /\ Target(run[d]) \notin run[d].plan.targets
  /\ Set(d, [run[d] EXCEPT !.next = @ + 1])
  /\ UNCHANGED <<config, foreign, cloud, deploys>>

\* The frontend is wired only where the plan says so and has a backend.
NextTarget(d) ==
  /\ run[d].at = "loop"
  /\ More(run[d])
  /\ Target(run[d]) \in run[d].plan.targets
  /\ Set(d, [run[d] EXCEPT !.at =
                IF Target(run[d]) = "backend" THEN "backend"
                ELSE IF run[d].plan.wired /\ "backend" \in run[d].plan.targets THEN "inject"
                ELSE "release"])
  /\ UNCHANGED <<config, foreign, cloud, deploys>>

AllDone(d) ==
  /\ run[d].at = "loop"
  /\ ~More(run[d])
  /\ Set(d, [run[d] EXCEPT !.at = "succeeded"])
  /\ UNCHANGED <<config, foreign, cloud, deploys>>

\* A gcloud call makes a new revision of the service, which comes up or does not.
NewRevision(s) ==
  /\ latest' = [latest EXCEPT ![s] = @ + 1]
  /\ \E n \in {{}, {latest[s] + 1}} : healthy' = [healthy EXCEPT ![s] = @ \cup n]
  /\ UNCHANGED hosting

\* cloudRunConnector deploy, and updateCloudRunEnv: both make a revision.
MakeRevision(d) ==
  /\ run[d].at \in {"backend", "env"}
  /\ NewRevision(run[d].plan.service)
  /\ Set(d, [Advanced(run[d]) EXCEPT !.own = latest'[run[d].plan.service]])
  /\ UNCHANGED <<config, foreign, deploys>>

\* The call fails, before or after the revision was made, or a secret of the
\* environment cannot be read.
RevisionFails(d) ==
  /\ run[d].at \in {"backend", "env"}
  /\ NewRevision(run[d].plan.service) \/ UNCHANGED cloud
  /\ Set(d, Failed(run[d]))
  /\ UNCHANGED <<config, foreign, deploys>>

\* describe reads the state of the service, whose revision it is.
FindReady(d) ==
  /\ run[d].at = "describe"
  /\ LET s == run[d].plan.service
     IN  /\ latest[s] \in healthy[s]
         /\ Set(d, [Advanced(run[d]) EXCEPT !.seen = latest[s], !.up = @ \cup {"backend"}])
  /\ UNCHANGED <<config, foreign, cloud, deploys>>

\* Not ready, or the describe call fails.
FindNotReady(d) ==
  /\ run[d].at = "describe"
  /\ Set(d, Failed(run[d]))
  /\ UNCHANGED <<config, foreign, cloud, deploys>>

\* injectRewrite: read, change and write back firebase.json; a torn file does
\* not parse.
ReadConfig(d) ==
  /\ run[d].at = "inject"
  /\ config # Torn
  /\ LET read == IF config = NoFile THEN <<>> ELSE config
     IN  Set(d, [run[d] EXCEPT !.at = "truncate", !.copy = Rewired(read, run[d].plan.service)])
  /\ UNCHANGED <<config, foreign, cloud, deploys>>

ReadTornConfig(d) ==
  /\ run[d].at = "inject"
  /\ config = Torn
  /\ Set(d, Failed(run[d]))
  /\ UNCHANGED <<config, foreign, cloud, deploys>>

TruncateConfig(d) ==
  /\ run[d].at = "truncate"
  /\ config' = Torn
  /\ Set(d, [run[d] EXCEPT !.at = "write"])
  /\ UNCHANGED <<foreign, cloud, deploys>>

WriteConfig(d) ==
  /\ run[d].at = "write"
  /\ config' = run[d].copy
  /\ Set(d, [run[d] EXCEPT !.at = "release", !.copy = <<>>])
  /\ UNCHANGED <<foreign, cloud, deploys>>

\* firebase deploy reads firebase.json once more, and releases what it says.
Release(d) ==
  /\ run[d].at = "release"
  /\ Readable
  /\ hosting' = config
  /\ Set(d, [run[d] EXCEPT !.at = "verify", !.tries = 0])
  /\ UNCHANGED <<config, foreign, latest, healthy, deploys>>

ReleaseFails(d) ==
  /\ run[d].at = "release"
  /\ hosting' = hosting \/ (Readable /\ hosting' = config)
  /\ Set(d, Failed(run[d]))
  /\ UNCHANGED <<config, foreign, latest, healthy, deploys>>

\* verifyUrlReachable
Reach(d) ==
  /\ run[d].at = "verify"
  /\ Set(d, [Advanced(run[d]) EXCEPT !.up = @ \cup {"frontend"}])
  /\ UNCHANGED <<config, foreign, cloud, deploys>>

MissReach(d) ==
  /\ run[d].at = "verify"
  /\ LET n == NextTry(run[d].tries)
     IN  Set(d, IF n < Attempts THEN [run[d] EXCEPT !.tries = n] ELSE Failed(run[d]))
  /\ UNCHANGED <<config, foreign, cloud, deploys>>

\* The rollback's gcloud call, whose outcome nobody looks at.
RollBack(d) ==
  /\ run[d].at = "rollback"
  /\ Set(d, [run[d] EXCEPT !.at = "failed", !.undone = TRUE])
  /\ UNCHANGED <<config, foreign, cloud, deploys>>

Report(d) ==
  /\ run[d].at \in {"succeeded", "failed"}
  /\ Set(d, Idle)
  /\ UNCHANGED <<config, foreign, cloud, deploys>>

Die(d) ==
  /\ Running(d)
  /\ Set(d, Idle)
  /\ UNCHANGED <<config, foreign, cloud, deploys>>

Step(d) ==
  \/ SkipTarget(d) \/ NextTarget(d) \/ AllDone(d)
  \/ MakeRevision(d) \/ RevisionFails(d) \/ FindReady(d) \/ FindNotReady(d)
  \/ ReadConfig(d) \/ ReadTornConfig(d) \/ TruncateConfig(d) \/ WriteConfig(d)
  \/ Release(d) \/ ReleaseFails(d) \/ Reach(d) \/ MissReach(d)
  \/ RollBack(d) \/ Report(d)

Next ==
  \/ \E d \in Deployers, plan \in Plans : Begin(d, plan)
  \/ \E d \in Deployers : Step(d) \/ Die(d)

\* The commands a deployment calls return, and applyPlan takes its next step.
Fairness == \A d \in Deployers : WF_vars(Step(d))

Spec == Init /\ [][Next]_vars /\ Fairness

-----------------------------------------------------------------------------

Steps ==
  {"loop", "backend", "env", "describe", "inject", "truncate", "write", "release", "verify",
   "rollback", "succeeded", "failed"}

Deployment ==
  [at : Steps, plan : Plans, next : Nat, undo : BOOLEAN, undone : BOOLEAN, own : Nat, seen : Nat,
   up : SUBSET {"backend", "frontend"}, tries : 0..(Attempts - 1), copy : Seq(Rewrites)]

ExecutorTypeOK ==
  /\ config \in {NoFile, Torn} \cup Seq(Rewrites)
  /\ latest \in [Services -> Nat]
  /\ \A s \in Services : healthy[s] \subseteq 1..latest[s]
  /\ hosting \in {NoFile} \cup Seq(Rewrites)
  /\ run \in [Deployers -> {Idle} \cup Deployment]
  /\ deploys \in 0..MaxDeploys

\* A deployment that has a backend releases its frontend only after it found a
\* ready revision that is its own last one, environment included, or a later one.
ReleaseAfterReady ==
  \A d \in Deployers :
    /\ run[d].at \in {"inject", "truncate", "write", "release", "verify"}
    /\ "backend" \in run[d].plan.targets
    => run[d].own > 0 /\ run[d].seen >= run[d].own

\* A deployment that reports success has brought every target of its plan up.
SuccessMeansUp ==
  \A d \in Deployers : run[d].at = "succeeded" => run[d].plan.targets \subseteq run[d].up

\* A deployment that reports failure after it had deployed a backend has called
\* the backend's rollback.
FailureRollsBack ==
  \A d \in Deployers : run[d].at = "failed" /\ run[d].own > 0 => run[d].undone

\* However often and however concurrently a workspace is deployed, firebase.json,
\* whenever it can be read, keeps the rewrites of other sources in their order and
\* has one rewrite of the API at most.
ForeignRewritesKept ==
  Readable =>
    /\ Others(config) = foreign
    /\ Cardinality({i \in DOMAIN config : config[i].source = Api}) <= 1

\* While the workspace has one service, a deployment that wires it releases a
\* frontend that has a rewrite to it, whoever else rewrites firebase.json.
ReleaseIsWired ==
  [][\A d \in Deployers :
       run[d].at = "release" /\ run'[d].at = "verify" /\ run[d].plan.wired =>
         \E i \in DOMAIN hosting' : hosting'[i] = [source |-> Api, to |-> run[d].plan.service]]_vars

\* Every deployment ends, whatever its calls answer.
DeploymentsEnd == \A d \in Deployers : Running(d) ~> ~Running(d)

\* Firebase Hosting serves a request by the first rewrite that matches it.
ApiLeadsTo(rewrites) ==
  LET matching == {i \in DOMAIN rewrites : rewrites[i].source \in {Api, Any}}
      first    == CHOOSE i \in matching : \A j \in matching : i <= j
  IN  IF matching = {} THEN Index ELSE rewrites[first].to

\* After a deployment of frontend and backend that succeeded, requests for the API
\* reach the backend.
ApiReachesBackend ==
  \A d \in Deployers :
    run[d].at = "succeeded" /\ run[d].plan.wired /\ "frontend" \in run[d].plan.targets =>
      ApiLeadsTo(hosting) = run[d].plan.service
=============================================================================
