------------------------ MODULE DeployExecutorProofs ------------------------
(***************************************************************************)
(* Proofs about DeployExecutor: success is reported only for what is up, a *)
(* failure after a backend was deployed is rolled back, and a frontend is  *)
(* released only over a backend that was found ready.  They hold for any   *)
(* number of deployments, services and plans in order, however the calls   *)
(* fail and wherever the processes die.                                    *)
(*                                                                         *)
(* Four inductive invariants.  DeployInv speaks of each deployment alone,  *)
(* and of the number of revisions of its service, which others only raise. *)
(* TypeInv is the type invariant.  FileInv and WiredInv add what every     *)
(* copy of firebase.json that waits to be written has in common with the   *)
(* file.                                                                   *)
(***************************************************************************)
EXTENDS DeployExecutor, FiniteSetTheorems, WellFoundedInduction, TLAPS

BackendSteps == {"backend", "env", "describe"}

FrontendSteps == {"inject", "truncate", "write", "release", "verify"}

\* A running deployment has the fields of the record (its copy may hold anything).
Shape(r) ==
  /\ r = [at |-> r.at, plan |-> r.plan, next |-> r.next, undo |-> r.undo, undone |-> r.undone,
          own |-> r.own, seen |-> r.seen, up |-> r.up, tries |-> r.tries, copy |-> r.copy]
  /\ r.at \in Steps
  /\ r.plan \in Plans
  /\ r.next \in Nat \ {0}
  /\ r.undo \in BOOLEAN
  /\ r.own \in Nat /\ r.seen \in Nat

\* The steps of a target are taken at its place in the order.
InPlace(r) ==
  /\ r.at \in BackendSteps \cup FrontendSteps => r.next \in 1..Len(r.plan.order)
  /\ r.at \in BackendSteps => r.plan.order[r.next] = "backend"
  /\ r.at \in FrontendSteps => r.plan.order[r.next] = "frontend"

\* What comes before in the order is up.
Progress(r) ==
  /\ \A i \in 1..Len(r.plan.order) :
       i < r.next /\ r.plan.order[i] \in r.plan.targets => r.plan.order[i] \in r.up
  /\ r.at = "succeeded" => r.plan.targets \subseteq r.up

\* A deployed backend has its rollback registered.
Undoable(r) ==
  /\ r.own > 0 => r.undo
  /\ r.at \in {"env", "describe"} => r.own > 0
  /\ r.at = "failed" /\ r.own > 0 => r.undone

\* A backend that is up was found ready in its last revision or a later one, of
\* the l revisions of its service.
Ready(r, l) ==
  /\ r.own <= l
  /\ "backend" \in r.up /\ r.at \notin BackendSteps \cup {"rollback", "failed"} =>
       r.own > 0 /\ r.seen >= r.own

Sound(r, l) == Shape(r) /\ InPlace(r) /\ Progress(r) /\ Undoable(r) /\ Ready(r, l)

DeployInv ==
  /\ latest \in [Services -> Nat]
  /\ run = [d \in Deployers |-> run[d]]
  /\ \A d \in Deployers : Running(d) => Sound(run[d], latest[run[d].plan.service])

-----------------------------------------------------------------------------

LEMMA InitDeployInv == Init => DeployInv
  BY DEF Init, DeployInv, Running, Idle

\* A step of one deployment that leaves it sound, or ended, disturbs no other.
LEMMA OthersStaySound ==
  ASSUME DeployInv, NEW d \in Deployers, NEW r, Set(d, r),
         latest' \in [Services -> Nat],
         \A s \in Services : latest[s] <= latest'[s],
         r = Idle \/ Sound(r, latest'[r.plan.service])
  PROVE  DeployInv'
<1>1. run' = [e \in Deployers |-> IF e = d THEN r ELSE run[e]]
  BY DEF Set, DeployInv
<1>2. ASSUME NEW e \in Deployers, run'[e].at # "idle"
      PROVE  Sound(run'[e], latest'[run'[e].plan.service])
  <2>1. CASE e = d
    BY <1>1, <1>2, <2>1 DEF Idle
  <2>2. CASE e # d
    <3>1. run'[e] = run[e] /\ Sound(run[e], latest[run[e].plan.service])
      BY <1>1, <1>2, <2>2 DEF DeployInv, Running
    <3>2. run[e].plan.service \in Services /\ run[e].own \in Nat
      BY <3>1, ExecutorAssumption DEF Sound, Shape
    <3>3. latest[run[e].plan.service] \in Nat /\ latest'[run[e].plan.service] \in Nat
          /\ latest[run[e].plan.service] <= latest'[run[e].plan.service]
      BY <3>2 DEF DeployInv
    <3> QED
      BY <3>1, <3>2, <3>3 DEF Sound, Ready
  <2> QED
    BY <2>1, <2>2
<1>3. run' = [e \in Deployers |-> run'[e]]
  BY <1>1
<1> QED
  BY <1>2, <1>3 DEF DeployInv, Running

\* The deployment that takes a step, before it.
LEMMA StepsAreSound ==
  ASSUME DeployInv, NEW d \in Deployers, run[d].at \in Steps
  PROVE  /\ Sound(run[d], latest[run[d].plan.service])
         /\ run[d].plan \in Plans /\ run[d].plan.service \in Services
         /\ latest[run[d].plan.service] \in Nat
         /\ Len(run[d].plan.order) \in Nat
<1>1. Sound(run[d], latest[run[d].plan.service])
  BY DEF DeployInv, Running, Steps
<1> QED
  BY <1>1, ExecutorAssumption DEF Sound, Shape, DeployInv

\* A step that leaves the cloud alone.
LEMMA QuietStep ==
  ASSUME DeployInv, NEW d \in Deployers, NEW r, Set(d, r), latest' = latest,
         r.plan = run[d].plan, r = Idle \/ Sound(r, latest[run[d].plan.service])
  PROVE  DeployInv'
<1>1. \A s \in Services : latest[s] \in Nat
  BY DEF DeployInv
<1>2. latest' \in [Services -> Nat] /\ \A s \in Services : latest[s] <= latest'[s]
  BY <1>1 DEF DeployInv
<1>3. r = Idle \/ Sound(r, latest'[r.plan.service])
  OBVIOUS
<1> QED
  BY <1>2, <1>3, OthersStaySound

\* A deployment that fails stays sound, whether it has something to roll back or not.
LEMMA FailedSound ==
  ASSUME NEW r, NEW l \in Nat, Sound(r, l), r.at \notin {"failed", "rollback"}
  PROVE  Sound(Failed(r), l) /\ Failed(r).plan = r.plan
<1>1. /\ Failed(r).at \in {"rollback", "failed"}
      /\ Failed(r).at = "failed" => ~r.undo
      /\ Failed(r).plan = r.plan /\ Failed(r).next = r.next /\ Failed(r).undo = r.undo
      /\ Failed(r).own = r.own /\ Failed(r).seen = r.seen /\ Failed(r).up = r.up
  BY DEF Sound, Shape, Failed
<1>2. Shape(Failed(r))
  BY <1>1 DEF Sound, Shape, Failed, Steps
<1> QED
  BY <1>1, <1>2 DEF Sound, InPlace, Progress, Undoable, Ready, BackendSteps, FrontendSteps

LEMMA BeginInv ==
  ASSUME DeployInv, NEW d \in Deployers, NEW plan \in Plans, Begin(d, plan)
  PROVE  DeployInv'
<1> DEFINE r == [at |-> "loop", plan |-> plan, next |-> 1, undo |-> FALSE, undone |-> FALSE,
                 own |-> 0, seen |-> 0, up |-> {}, tries |-> 0, copy |-> <<>>]
<1>1. Set(d, r) /\ latest' = latest
  BY DEF Begin, cloud
<1>2. latest \in [Services -> Nat] /\ plan.service \in Services /\ Len(plan.order) \in Nat
  BY ExecutorAssumption DEF DeployInv
<1>3. Shape(r)
  BY DEF Shape, Steps
<1>4. Sound(r, latest[plan.service])
  BY <1>2, <1>3 DEF Sound, InPlace, Progress, Undoable, Ready, BackendSteps, FrontendSteps
<1> QED
  BY <1>1, <1>2, <1>4, OthersStaySound

LEMMA NextTargetInv ==
  ASSUME DeployInv, NEW d \in Deployers, SkipTarget(d) \/ NextTarget(d) \/ AllDone(d)
  PROVE  DeployInv'
<1> DEFINE r == run[d]  l == latest[r.plan.service]
<1>1. r.at = "loop" /\ latest' = latest
  BY DEF SkipTarget, NextTarget, AllDone, cloud
<1>2. Sound(r, l) /\ r.plan \in Plans /\ l \in Nat /\ Len(r.plan.order) \in Nat
  BY <1>1, StepsAreSound DEF Steps
<1>3. r.next \in Nat \ {0} /\ r.plan.order \in Seq({"backend", "frontend"})
  BY <1>2, ExecutorAssumption DEF Sound, Shape
<1>4. CASE SkipTarget(d)
  <2> DEFINE q == [r EXCEPT !.next = @ + 1]
  <2>1. Set(d, q) /\ r.plan.order[r.next] \notin r.plan.targets
    BY <1>4 DEF SkipTarget, Target
  <2>2. Shape(q) /\ q.plan = r.plan
    BY <1>2, <1>3 DEF Sound, Shape
  <2>3. Sound(q, l)
    BY <1>1, <1>2, <1>3, <2>1, <2>2
       DEF Sound, Shape, InPlace, Progress, Undoable, Ready, BackendSteps, FrontendSteps
  <2> QED
    BY <1>1, <2>1, <2>2, <2>3, QuietStep
<1>5. CASE NextTarget(d)
  <2>1. r.next \in 1..Len(r.plan.order) /\ r.plan.order[r.next] \in {"backend", "frontend"}
    BY <1>2, <1>3, <1>5 DEF NextTarget, More
  <2>2. PICK at \in {"backend", "inject", "release"} :
          /\ Set(d, [r EXCEPT !.at = at])
          /\ r.plan.order[r.next] = IF at = "backend" THEN "backend" ELSE "frontend"
    BY <1>5, <2>1 DEF NextTarget, Target
  <2> DEFINE q == [r EXCEPT !.at = at]
  <2>3. Shape(q) /\ q.plan = r.plan /\ q.at = at
    BY <1>2 DEF Sound, Shape, Steps
  <2>4. Sound(q, l)
    BY <1>1, <1>2, <1>3, <2>1, <2>2, <2>3
       DEF Sound, Shape, InPlace, Progress, Undoable, Ready, BackendSteps, FrontendSteps
  <2> QED
    BY <1>1, <2>2, <2>3, <2>4, QuietStep
<1>6. CASE AllDone(d)
  <2> DEFINE q == [r EXCEPT !.at = "succeeded"]
  <2>1. Set(d, q) /\ r.next > Len(r.plan.order)
    BY <1>2, <1>3, <1>6 DEF AllDone, More
  <2>2. Shape(q) /\ q.plan = r.plan /\ q.at = "succeeded" /\ q.up = r.up
    BY <1>2 DEF Sound, Shape, Steps
  <2>3. r.plan.targets \subseteq r.up
    BY <1>2, <1>3, <2>1, PlansInOrder, SMTT(30) DEF Sound, Progress
  <2>4. Sound(q, l)
    BY <1>1, <1>2, <1>3, <2>2, <2>3
       DEF Sound, Shape, InPlace, Progress, Undoable, Ready, BackendSteps, FrontendSteps
  <2> QED
    BY <1>1, <2>1, <2>2, <2>4, QuietStep
<1> QED
  BY <1>4, <1>5, <1>6

\* Two deployments with the same plan and the same fields, those named aside.
SameBut(fields, q, r) ==
  /\ q.plan = r.plan
  /\ "at" \notin fields => q.at = r.at
  /\ "next" \notin fields => q.next = r.next
  /\ "undo" \notin fields => q.undo = r.undo
  /\ "up" \notin fields => q.up = r.up
  /\ q.own = r.own
  /\ "seen" \notin fields => q.seen = r.seen

\* A successful step of the backend or of the verification, field by field.
LEMMA AdvancedShape ==
  ASSUME NEW r, Shape(r), r.at \in BackendSteps \cup {"verify"}
  PROVE  /\ Shape(Advanced(r))
         /\ Advanced(r).plan = r.plan /\ Advanced(r).up = r.up
         /\ Advanced(r).own = r.own /\ Advanced(r).seen = r.seen
         /\ Advanced(r).at = Following(r.at, r.plan)
         /\ Advanced(r).next = IF Following(r.at, r.plan) = "loop" THEN r.next + 1 ELSE r.next
         /\ Advanced(r).undo = (r.undo \/ r.at = "backend")
<1>1. r.plan.env \in BOOLEAN
  BY ExecutorAssumption DEF Shape
<1>2. Following(r.at, r.plan) \in {"env", "describe", "loop"}
  BY <1>1 DEF Following, BackendSteps
<1> DEFINE at == Following(r.at, r.plan)
<1> HIDE DEF at
<1>3. at \in Steps
  BY <1>2 DEF at, Steps
<1> DEFINE next == IF at = "loop" THEN r.next + 1 ELSE r.next
           undo == r.undo \/ r.at = "backend"
           r1 == [r EXCEPT !.at = at]
           r2 == [r1 EXCEPT !.next = next]
           r3 == [r2 EXCEPT !.undo = undo]
<1>4. Advanced(r) = r3
  BY DEF Advanced, UndoFrom, at
<1>5. next \in Nat \ {0} /\ undo \in BOOLEAN
  BY DEF Shape
<1> HIDE DEF next, undo
<1>6. Shape(r1) /\ SameBut({"at"}, r1, r) /\ r1.at = at
  BY <1>3 DEF Shape, SameBut
<1> HIDE DEF r1
<1>7. Shape(r2) /\ SameBut({"next"}, r2, r1) /\ r2.next = next
  BY <1>5, <1>6 DEF Shape, SameBut
<1> HIDE DEF r2
<1>8. Shape(r3) /\ SameBut({"undo"}, r3, r2) /\ r3.undo = undo
  BY <1>5, <1>7 DEF Shape, SameBut
<1> HIDE DEF r3
<1> QED
  BY <1>4, <1>6, <1>7, <1>8 DEF at, next, undo, SameBut

LEMMA MakeRevisionInv ==
  ASSUME DeployInv, NEW d \in Deployers, MakeRevision(d)
  PROVE  DeployInv'
<1> DEFINE r == run[d]  s == r.plan.service  a == Advanced(r)  l == latest'[s]
           q == [a EXCEPT !.own = l]
<1>1. r.at \in {"backend", "env"} /\ NewRevision(s) /\ Set(d, q)
  BY DEF MakeRevision
<1>2. Sound(r, latest[s]) /\ r.plan \in Plans /\ s \in Services /\ latest[s] \in Nat
      /\ Len(r.plan.order) \in Nat
  BY <1>1, StepsAreSound DEF Steps
<1>3. /\ latest' \in [Services -> Nat] /\ l = latest[s] + 1
      /\ \A t \in Services : latest[t] <= latest'[t]
  BY <1>1, <1>2 DEF NewRevision, DeployInv
<1>4. /\ Shape(a) /\ a.plan = r.plan /\ a.up = r.up /\ a.next = r.next /\ a.undo = TRUE
      /\ a.at \in {"env", "describe"}
  <2>1. r.at = "env" => r.undo
    BY <1>2 DEF Sound, Shape, Undoable
  <2>2. Following(r.at, r.plan) \in {"env", "describe"}
    BY <1>1, <1>2, ExecutorAssumption DEF Following
  <2>3. r.at \in BackendSteps \cup {"verify"} /\ Shape(r)
    BY <1>1, <1>2 DEF BackendSteps, Sound
  <2> QED
    BY <1>1, <2>1, <2>2, <2>3, AdvancedShape
<1> HIDE DEF a
<1>5. /\ Shape(q) /\ q.plan = r.plan /\ q.up = r.up /\ q.next = r.next /\ q.undo = TRUE
      /\ q.at \in {"env", "describe"} /\ q.own = l
  BY <1>2, <1>3, <1>4 DEF Shape
<1> HIDE DEF q
<1>6. Sound(q, l)
  BY <1>1, <1>2, <1>3, <1>5
     DEF Sound, InPlace, Progress, Undoable, Ready, BackendSteps, FrontendSteps
<1> QED
  BY <1>1, <1>3, <1>5, <1>6, OthersStaySound

LEMMA RevisionFailsInv ==
  ASSUME DeployInv, NEW d \in Deployers, RevisionFails(d)
  PROVE  DeployInv'
<1> DEFINE r == run[d]  s == r.plan.service
<1>1. r.at \in {"backend", "env"} /\ Set(d, Failed(r)) /\ (NewRevision(s) \/ latest' = latest)
  BY DEF RevisionFails, cloud
<1>2. Sound(r, latest[s]) /\ r.plan \in Plans /\ s \in Services /\ latest[s] \in Nat
  BY <1>1, StepsAreSound DEF Steps
<1>3. /\ latest' \in [Services -> Nat]
      /\ \A t \in Services : latest[t] <= latest'[t]
  BY <1>1, <1>2 DEF NewRevision, DeployInv
<1>4. Sound(r, latest'[s])
  BY <1>2, <1>3 DEF Sound, Shape, Ready
<1>5. Sound(Failed(r), latest'[s]) /\ Failed(r).plan = r.plan
  BY <1>1, <1>2, <1>3, <1>4, FailedSound
<1> QED
  BY <1>1, <1>3, <1>5, OthersStaySound

LEMMA FindReadyInv ==
  ASSUME DeployInv, NEW d \in Deployers, FindReady(d)
  PROVE  DeployInv'
<1> DEFINE r == run[d]  l == latest[r.plan.service]  a == Advanced(r)
           q == [a EXCEPT !.seen = l, !.up = @ \cup {"backend"}]
<1>1. r.at = "describe" /\ Set(d, q) /\ latest' = latest
  BY DEF FindReady, cloud
<1>2. Sound(r, l) /\ l \in Nat /\ Len(r.plan.order) \in Nat
  BY <1>1, StepsAreSound DEF Steps
<1>3. /\ Shape(a) /\ a.plan = r.plan /\ a.up = r.up /\ a.own = r.own /\ a.at = "loop"
      /\ a.next = r.next + 1 /\ a.undo = r.undo
  <2>1. r.at \in BackendSteps \cup {"verify"} /\ Shape(r)
    BY <1>1, <1>2 DEF BackendSteps, Sound
  <2>2. Following(r.at, r.plan) = "loop"
    BY <1>1 DEF Following
  <2> QED
    BY <1>1, <2>1, <2>2, AdvancedShape DEF Shape
<1> HIDE DEF a
<1>4. /\ Shape(q) /\ q.plan = r.plan /\ q.up = r.up \cup {"backend"} /\ q.own = r.own
      /\ q.at = "loop" /\ q.next = r.next + 1 /\ q.undo = r.undo /\ q.seen = l
  <2> DEFINE b == [a EXCEPT !.seen = l]  c == [b EXCEPT !.up = a.up \cup {"backend"}]
  <2>1. q = c
    OBVIOUS
  <2>2. Shape(b) /\ SameBut({"seen"}, b, a) /\ b.seen = l
    BY <1>2, <1>3 DEF Shape, SameBut
  <2> HIDE DEF b
  <2>3. Shape(c) /\ SameBut({"up"}, c, b) /\ c.up = a.up \cup {"backend"}
    BY <2>2 DEF Shape, SameBut
  <2> HIDE DEF c, q
  <2> QED
    BY <1>3, <2>1, <2>2, <2>3 DEF SameBut
<1> HIDE DEF q
<1>5. Sound(q, l)
  <2>1. r.next \in Nat /\ r.own \in Nat /\ r.plan.order[r.next] = "backend"
    BY <1>1, <1>2 DEF Sound, Shape, InPlace, BackendSteps
  <2>2. Progress(q)
    BY <1>2, <1>4, <2>1 DEF Sound, Progress
  <2> QED
    BY <1>1, <1>2, <1>4, <2>1, <2>2 DEF Sound, InPlace, Undoable, Ready, BackendSteps, FrontendSteps
<1> QED
  BY <1>1, <1>4, <1>5, QuietStep

LEMMA ReachInv ==
  ASSUME DeployInv, NEW d \in Deployers, Reach(d)
  PROVE  DeployInv'
<1> DEFINE r == run[d]  l == latest[r.plan.service]  a == Advanced(r)
           q == [a EXCEPT !.up = @ \cup {"frontend"}]
<1>1. r.at = "verify" /\ Set(d, q) /\ latest' = latest
  BY DEF Reach, cloud
<1>2. Sound(r, l) /\ l \in Nat /\ Len(r.plan.order) \in Nat
  BY <1>1, StepsAreSound DEF Steps
<1>3. /\ Shape(a) /\ a.plan = r.plan /\ a.up = r.up /\ a.own = r.own /\ a.at = "loop"
      /\ a.next = r.next + 1 /\ a.undo = r.undo /\ a.seen = r.seen
  <2>1. r.at \in BackendSteps \cup {"verify"} /\ Shape(r)
    BY <1>1, <1>2 DEF Sound
  <2>2. Following(r.at, r.plan) = "loop"
    BY <1>1 DEF Following
  <2> QED
    BY <1>1, <2>1, <2>2, AdvancedShape DEF Shape
<1> HIDE DEF a
<1>4. /\ Shape(q) /\ q.plan = r.plan /\ q.up = r.up \cup {"frontend"} /\ q.own = r.own
      /\ q.at = "loop" /\ q.next = r.next + 1 /\ q.undo = r.undo /\ q.seen = r.seen
  <2> DEFINE up == a.up \cup {"frontend"}  b == [a EXCEPT !.up = up]
  <2>1. q = b
    OBVIOUS
  <2> HIDE DEF up, q
  <2>2. Shape(b) /\ SameBut({"up"}, b, a) /\ b.up = up
    BY <1>3 DEF Shape, SameBut
  <2> HIDE DEF b
  <2> QED
    BY <1>3, <2>1, <2>2 DEF SameBut, up
<1> HIDE DEF q
<1>5. Sound(q, l)
  <2>1. r.next \in Nat /\ r.own \in Nat /\ r.plan.order[r.next] = "frontend"
    BY <1>1, <1>2 DEF Sound, Shape, InPlace, FrontendSteps
  <2>2. Progress(q)
    BY <1>2, <1>4, <2>1 DEF Sound, Progress
  <2> QED
    BY <1>1, <1>2, <1>4, <2>1, <2>2 DEF Sound, InPlace, Undoable, Ready, BackendSteps, FrontendSteps
<1> QED
  BY <1>1, <1>4, <1>5, QuietStep

\* A step that ends in Failed.
LEMMA FailingInv ==
  ASSUME DeployInv, NEW d \in Deployers, Set(d, Failed(run[d])), latest' = latest,
         run[d].at \in {"describe", "inject", "release", "verify"}
  PROVE  DeployInv'
<1>1. Sound(run[d], latest[run[d].plan.service]) /\ latest[run[d].plan.service] \in Nat
  BY StepsAreSound DEF Steps
<1>2. /\ Sound(Failed(run[d]), latest[run[d].plan.service])
      /\ Failed(run[d]).plan = run[d].plan
  BY <1>1, FailedSound
<1> QED
  BY <1>2, QuietStep

\* The steps that only move on inside the frontend, or count an attempt.
LEMMA FrontendInv ==
  ASSUME DeployInv, NEW d \in Deployers, run[d].at \in FrontendSteps, latest' = latest,
         NEW q, Set(d, q), Shape(q), SameBut({"at"}, q, run[d]), q.at \in FrontendSteps
  PROVE  DeployInv'
<1> DEFINE r == run[d]  l == latest[r.plan.service]
<1>1. Sound(r, l)
  BY StepsAreSound DEF Steps, FrontendSteps
<1>2. Sound(q, l)
  BY <1>1 DEF Sound, InPlace, Progress, Undoable, Ready, BackendSteps, FrontendSteps, SameBut
<1> QED
  BY <1>2, QuietStep DEF SameBut

LEMMA ConfigInv ==
  ASSUME DeployInv, NEW d \in Deployers,
         ReadConfig(d) \/ TruncateConfig(d) \/ WriteConfig(d)
  PROVE  DeployInv'
<1> DEFINE r == run[d]
<1>1. latest' = latest /\ r.at \in FrontendSteps
  BY DEF ReadConfig, TruncateConfig, WriteConfig, FrontendSteps, cloud
<1>2. Shape(r)
  BY <1>1, StepsAreSound DEF Steps, FrontendSteps, Sound
<1>3. ASSUME NEW at \in FrontendSteps, NEW copy, Set(d, [r EXCEPT !.at = at, !.copy = copy])
      PROVE  DeployInv'
  <2> DEFINE r1 == [r EXCEPT !.at = at]  q == [r1 EXCEPT !.copy = copy]
  <2>1. Set(d, q)
    BY <1>3
  <2>2. Shape(r1) /\ SameBut({"at"}, r1, r) /\ r1.at = at
    BY <1>2 DEF Shape, SameBut, Steps, FrontendSteps
  <2> HIDE DEF r1
  <2>3. Shape(q) /\ SameBut({}, q, r1)
    BY <2>2 DEF Shape, SameBut
  <2> HIDE DEF q
  <2>4. SameBut({"at"}, q, r) /\ q.at = at
    BY <2>2, <2>3 DEF SameBut
  <2> QED
    BY <1>1, <2>1, <2>3, <2>4, FrontendInv
<1>4. CASE ReadConfig(d)
  <2> DEFINE copy == Rewired(IF config = NoFile THEN <<>> ELSE config, r.plan.service)
  <2>1. Set(d, [r EXCEPT !.at = "truncate", !.copy = copy])
    BY <1>4 DEF ReadConfig
  <2> HIDE DEF copy
  <2> QED
    BY <1>3, <2>1 DEF FrontendSteps
<1>5. CASE TruncateConfig(d)
  <2> DEFINE q == [r EXCEPT !.at = "write"]
  <2>1. Set(d, q)
    BY <1>5 DEF TruncateConfig
  <2>2. Shape(q) /\ SameBut({"at"}, q, r) /\ q.at = "write"
    BY <1>2 DEF Shape, SameBut, Steps
  <2> HIDE DEF q
  <2> QED
    BY <1>1, <2>1, <2>2, FrontendInv DEF FrontendSteps
<1>6. CASE WriteConfig(d)
  <2>1. Set(d, [r EXCEPT !.at = "release", !.copy = <<>>])
    BY <1>6 DEF WriteConfig
  <2> QED
    BY <1>3, <2>1 DEF FrontendSteps
<1> QED
  BY <1>4, <1>5, <1>6

LEMMA ReleaseInv ==
  ASSUME DeployInv, NEW d \in Deployers, Release(d) \/ MissReach(d)
  PROVE  DeployInv'
<1> DEFINE r == run[d]
<1>1. latest' = latest /\ r.at \in {"release", "verify"}
  BY DEF Release, MissReach, cloud
<1>2. Shape(r)
  BY <1>1, StepsAreSound DEF Steps, Sound
<1>3. CASE Release(d)
  <2> DEFINE r1 == [r EXCEPT !.at = "verify"]  q == [r1 EXCEPT !.tries = 0]
  <2>1. Set(d, q)
    BY <1>3 DEF Release
  <2>2. Shape(r1) /\ SameBut({"at"}, r1, r) /\ r1.at = "verify"
    BY <1>2 DEF Shape, SameBut, Steps
  <2> HIDE DEF r1
  <2>3. Shape(q) /\ SameBut({}, q, r1)
    BY <2>2 DEF Shape, SameBut
  <2> HIDE DEF q
  <2>4. SameBut({"at"}, q, r) /\ q.at = "verify"
    BY <2>2, <2>3 DEF SameBut
  <2> QED
    BY <1>1, <2>1, <2>3, <2>4, FrontendInv DEF FrontendSteps
<1>4. CASE MissReach(d)
  <2> DEFINE q == [r EXCEPT !.tries = NextTry(r.tries)]
  <2>1. r.at = "verify" /\ (Set(d, q) \/ Set(d, Failed(r)))
    BY <1>4 DEF MissReach
  <2>2. Shape(q) /\ SameBut({"at"}, q, r) /\ q.at = r.at
    BY <1>2 DEF Shape, SameBut
  <2> HIDE DEF q
  <2> QED
    BY <1>1, <2>1, <2>2, FrontendInv, FailingInv DEF FrontendSteps
<1> QED
  BY <1>3, <1>4

LEMMA RollBackInv ==
  ASSUME DeployInv, NEW d \in Deployers, RollBack(d)
  PROVE  DeployInv'
<1> DEFINE r == run[d]  l == latest[r.plan.service]
           r1 == [r EXCEPT !.at = "failed"]  q == [r1 EXCEPT !.undone = TRUE]
<1>1. Set(d, q) /\ latest' = latest /\ r.at = "rollback"
  BY DEF RollBack, cloud
<1>2. Sound(r, l)
  BY <1>1, StepsAreSound DEF Steps
<1>3. Shape(r1) /\ SameBut({"at"}, r1, r) /\ r1.at = "failed"
  BY <1>2 DEF Sound, Shape, SameBut, Steps
<1> HIDE DEF r1
<1>4. Shape(q) /\ SameBut({}, q, r1) /\ q.undone = TRUE
  <2>1. ASSUME NEW undone
        PROVE  LET c == [r1 EXCEPT !.undone = undone]
               IN  Shape(c) /\ SameBut({}, c, r1) /\ c.undone = undone
    BY <1>3 DEF Shape, SameBut
  <2> QED
    BY <2>1
<1> HIDE DEF q
<1>5. Sound(q, l) /\ q.plan = r.plan
  BY <1>2, <1>3, <1>4
     DEF Sound, InPlace, Progress, Undoable, Ready, BackendSteps, FrontendSteps, SameBut
<1> QED
  BY <1>1, <1>5, QuietStep

LEMMA EndInv ==
  ASSUME DeployInv, NEW d \in Deployers, Report(d) \/ Die(d)
  PROVE  DeployInv'
<1>1. Set(d, Idle) /\ latest' = latest
  BY DEF Report, Die, cloud
<1>2. latest' \in [Services -> Nat] /\ \A s \in Services : latest[s] <= latest'[s]
  BY <1>1 DEF DeployInv
<1> QED
  BY <1>1, <1>2, OthersStaySound

LEMMA StepInv ==
  ASSUME DeployInv, NEW d \in Deployers, Step(d)
  PROVE  DeployInv'
<1>1. CASE SkipTarget(d) \/ NextTarget(d) \/ AllDone(d)
  BY <1>1, NextTargetInv
<1>2. CASE MakeRevision(d) \/ RevisionFails(d) \/ FindReady(d)
  BY <1>2, MakeRevisionInv, RevisionFailsInv, FindReadyInv
<1>3. CASE FindNotReady(d) \/ ReadTornConfig(d) \/ ReleaseFails(d)
  <2>1. /\ Set(d, Failed(run[d])) /\ latest' = latest
        /\ run[d].at \in {"describe", "inject", "release", "verify"}
    BY <1>3 DEF FindNotReady, ReadTornConfig, ReleaseFails, cloud
  <2> QED
    BY <2>1, FailingInv
<1>4. CASE ReadConfig(d) \/ TruncateConfig(d) \/ WriteConfig(d)
  BY <1>4, ConfigInv
<1>5. CASE Release(d) \/ MissReach(d) \/ Reach(d)
  BY <1>5, ReleaseInv, ReachInv
<1>6. CASE RollBack(d) \/ Report(d)
  BY <1>6, RollBackInv, EndInv
<1> QED
  BY <1>1, <1>2, <1>3, <1>4, <1>5, <1>6 DEF Step

LEMMA NextDeployInv == DeployInv /\ [Next]_vars => DeployInv'
<1> SUFFICES ASSUME DeployInv, [Next]_vars PROVE DeployInv'
  OBVIOUS
<1>1. CASE \E d \in Deployers, plan \in Plans : Begin(d, plan)
  BY <1>1, BeginInv
<1>2. CASE \E d \in Deployers : Step(d) \/ Die(d)
  BY <1>2, StepInv, EndInv
<1>3. CASE UNCHANGED vars
  BY <1>3 DEF vars, DeployInv, Running
<1> QED
  BY <1>1, <1>2, <1>3 DEF Next

\* What runDeploy reports as a success has every target of the plan up.
THEOREM SuccessIsUp == Spec => []SuccessMeansUp
<1>1. DeployInv => SuccessMeansUp
  BY DEF DeployInv, SuccessMeansUp, Running, Sound, Progress
<1> QED
  BY <1>1, InitDeployInv, NextDeployInv, PTL DEF Spec

\* What it reports as a failure, after it had deployed a backend, was rolled back.
THEOREM FailureIsRolledBack == Spec => []FailureRollsBack
<1>1. DeployInv => FailureRollsBack
  BY DEF DeployInv, FailureRollsBack, Running, Sound, Undoable
<1> QED
  BY <1>1, InitDeployInv, NextDeployInv, PTL DEF Spec

\* No frontend is wired or released over a backend not found ready since its last
\* change: the backend comes first in the order, and whatever comes before is up.
THEOREM ReleasedWhenReady == Spec => []ReleaseAfterReady
<1>1. DeployInv => ReleaseAfterReady
  <2> SUFFICES ASSUME DeployInv, NEW d \in Deployers, run[d].at \in FrontendSteps,
                      "backend" \in run[d].plan.targets
               PROVE  run[d].own > 0 /\ run[d].seen >= run[d].own
    BY DEF ReleaseAfterReady, FrontendSteps
  <2> DEFINE r == run[d]
  <2>1. Sound(r, latest[r.plan.service]) /\ r.plan \in Plans
    BY StepsAreSound DEF Steps, FrontendSteps
  <2>2. r.next \in 1..Len(r.plan.order) /\ r.plan.order[r.next] = "frontend"
    BY <2>1 DEF Sound, InPlace, FrontendSteps
  <2>3. PICK i \in 1..Len(r.plan.order) : r.plan.order[i] = "backend"
    BY <2>1, PlansInOrder
  <2>4. i < r.next
    BY <2>1, <2>2, <2>3, PlansInOrder
  <2>5. "backend" \in r.up
    BY <2>1, <2>3, <2>4 DEF Sound, Progress
  <2> QED
    BY <2>1, <2>5 DEF Sound, Ready, BackendSteps, FrontendSteps
<1> QED
  BY <1>1, InitDeployInv, NextDeployInv, PTL DEF Spec

-----------------------------------------------------------------------------
(***************************************************************************)
(* What the filter of updateHosting does to a list of rewrites, of any     *)
(* length.  The induction over its length is a least counterexample.       *)
(***************************************************************************)

\* A set of numbers has a least one.
LEMMA Least ==
  ASSUME NEW T, T \subseteq Nat, T # {}
  PROVE  \E n \in T : \A k \in T : n <= k
<1>1. IsWellFoundedOn(OpToRel(<, Nat), Nat)
  BY NatLessThanWellFounded
<1>2. PICK n \in T : \A k \in T : <<k, n>> \notin OpToRel(<, Nat)
  BY <1>1, WFMin
<1>3. \A k \in T : ~(k < n)
  BY <1>2 DEF OpToRel
<1> QED
  BY <1>3

\* What holds of nothing, and of one more whenever it holds, holds up to m.
LEMMA Upwards ==
  ASSUME NEW m \in Nat, NEW T, 0 \in T,
         \A n \in 0..m : n < m /\ n \in T => n + 1 \in T
  PROVE  \A n \in 0..m : n \in T
<1> DEFINE Missing == {n \in 0..m : n \notin T}
<1> SUFFICES ASSUME Missing # {} PROVE FALSE
  OBVIOUS
<1>1. Missing \subseteq Nat
  OBVIOUS
<1>2. PICK n \in Missing : \A k \in Missing : n <= k
  <2> HIDE DEF Missing
  <2> QED
    BY <1>1, Least
<1>3. n # 0 /\ n - 1 \in 0..m /\ n - 1 \notin Missing
  BY <1>2
<1> QED
  BY <1>3

\* f is the filter's account of the first m rewrites.
Keeps(f, rewrites, m) ==
  f = [n \in 0..m |->
         IF n = 0 THEN <<>>
         ELSE IF rewrites[n].source = Api THEN f[n - 1]
         ELSE Append(f[n - 1], rewrites[n])]

LEMMA KeepsExists ==
  ASSUME NEW rewrites, NEW m \in Nat
  PROVE  \E f : Keeps(f, rewrites, m)
<1> DEFINE T == {n \in 0..m : \E f : Keeps(f, rewrites, n)}
<1>1. 0 \in T
  <2>1. Keeps([n \in 0..0 |-> <<>>], rewrites, 0)
    BY DEF Keeps
  <2> QED
    BY <2>1
<1>2. ASSUME NEW n \in 0..m, n < m, n \in T PROVE n + 1 \in T
  <2>1. PICK f : Keeps(f, rewrites, n)
    BY <1>2
  <2> DEFINE last == IF rewrites[n + 1].source = Api THEN f[n] ELSE Append(f[n], rewrites[n + 1])
             g == [k \in 0..(n + 1) |-> IF k = n + 1 THEN last ELSE f[k]]
  <2>2. ASSUME NEW k \in 0..(n + 1)
        PROVE  g[k] = IF k = 0 THEN <<>>
                      ELSE IF rewrites[k].source = Api THEN g[k - 1]
                      ELSE Append(g[k - 1], rewrites[k])
    <3>1. CASE k = n + 1
      BY <3>1
    <3>2. CASE k # n + 1
      <4>1. k \in 0..n /\ g[k] = f[k]
        BY <1>2, <3>2
      <4>2. k # 0 => k - 1 \in 0..(n + 1) /\ k - 1 # n + 1 /\ g[k - 1] = f[k - 1]
        BY <1>2, <4>1
      <4>3. f[k] = IF k = 0 THEN <<>>
                   ELSE IF rewrites[k].source = Api THEN f[k - 1]
                   ELSE Append(f[k - 1], rewrites[k])
        BY <2>1, <4>1 DEF Keeps
      <4> HIDE DEF g
      <4> QED
        BY <4>1, <4>2, <4>3
    <3> QED
      BY <3>1, <3>2
  <2>3. g = [k \in 0..(n + 1) |-> g[k]]
    OBVIOUS
  <2> HIDE DEF g
  <2>4. Keeps(g, rewrites, n + 1)
    BY <2>2, <2>3 DEF Keeps
  <2> QED
    BY <1>2, <2>4
<1> HIDE DEF T
<1>3. \A n \in 0..m : n \in T
  BY <1>1, <1>2, Upwards
<1> QED
  BY <1>3 DEF T

LEMMA KeptIs ==
  ASSUME NEW rewrites \in Seq(Rewrites)
  PROVE  /\ Kept(rewrites)[0] = <<>>
         /\ \A n \in 1..Len(rewrites) :
              Kept(rewrites)[n] = IF rewrites[n].source = Api THEN Kept(rewrites)[n - 1]
                                  ELSE Append(Kept(rewrites)[n - 1], rewrites[n])
<1>1. \E f : Keeps(f, rewrites, Len(rewrites))
  BY KeepsExists
<1>2. Keeps(Kept(rewrites), rewrites, Len(rewrites))
  BY <1>1 DEF Kept, Keeps
<1>3. 0 \in 0..Len(rewrites) /\ \A n \in 1..Len(rewrites) : n \in 0..Len(rewrites) /\ n # 0
  OBVIOUS
<1> QED
  BY <1>2, <1>3 DEF Keeps

\* Rewrites none of which is of the API.
Foreign(rewrites) ==
  rewrites \in Seq(Rewrites) /\ \A i \in 1..Len(rewrites) : rewrites[i].source # Api

\* The filter keeps rewrites of other sources only.
LEMMA OthersForeign ==
  ASSUME NEW rewrites \in Seq(Rewrites)
  PROVE  Foreign(Others(rewrites))
<1> DEFINE T == {n \in 0..Len(rewrites) : Foreign(Kept(rewrites)[n])}
<1>1. 0 \in T
  <2>1. Foreign(<<>>)
    BY DEF Foreign
  <2>2. Kept(rewrites)[0] = <<>> /\ 0 \in 0..Len(rewrites)
    BY KeptIs
  <2> QED
    BY <2>1, <2>2
<1>2. ASSUME NEW n \in 0..Len(rewrites), n < Len(rewrites), n \in T
      PROVE  n + 1 \in T
  <2> DEFINE kept == Kept(rewrites)[n]
  <2>1. n + 1 \in 1..Len(rewrites) /\ rewrites[n + 1] \in Rewrites
    BY <1>2
  <2>2. Kept(rewrites)[n + 1] = IF rewrites[n + 1].source = Api THEN kept
                                ELSE Append(kept, rewrites[n + 1])
    BY <2>1, KeptIs
  <2>3. Foreign(kept)
    BY <1>2
  <2> HIDE DEF kept
  <2>4. Foreign(Kept(rewrites)[n + 1])
    BY <2>1, <2>2, <2>3 DEF Foreign
  <2> QED
    BY <2>1, <2>4
<1> HIDE DEF T
<1>3. \A n \in 0..Len(rewrites) : n \in T
  BY <1>1, <1>2, Upwards
<1> QED
  BY <1>3 DEF T, Others

\* It keeps all of a file without a rewrite of the API.
LEMMA OthersOfForeign ==
  ASSUME NEW rewrites, Foreign(rewrites)
  PROVE  Others(rewrites) = rewrites
<1> DEFINE T == {n \in 0..Len(rewrites) :
                   /\ Kept(rewrites)[n] \in Seq(Rewrites)
                   /\ Len(Kept(rewrites)[n]) = n
                   /\ \A i \in 1..n : Kept(rewrites)[n][i] = rewrites[i]}
<1>0. /\ rewrites \in Seq(Rewrites) /\ Len(rewrites) \in Nat
      /\ \A i \in 1..Len(rewrites) : rewrites[i].source # Api
  BY DEF Foreign
<1>1. 0 \in T
  <2>1. /\ Kept(rewrites)[0] = <<>> /\ 0 \in 0..Len(rewrites)
        /\ <<>> \in Seq(Rewrites) /\ Len(<<>>) = 0 /\ 1..0 = {}
    BY <1>0, KeptIs
  <2> QED
    BY <2>1
<1>2. ASSUME NEW n \in 0..Len(rewrites), n < Len(rewrites), n \in T
      PROVE  n + 1 \in T
  <2> DEFINE kept == Kept(rewrites)[n]  next == Kept(rewrites)[n + 1]
  <2>1. /\ n + 1 \in 1..Len(rewrites) /\ rewrites[n + 1] \in Rewrites
        /\ rewrites[n + 1].source # Api /\ (n + 1) - 1 = n
    BY <1>0, <1>2
  <2>2. next = Append(kept, rewrites[n + 1])
    BY <1>0, <2>1, KeptIs
  <2>3. kept \in Seq(Rewrites) /\ Len(kept) = n /\ \A i \in 1..n : kept[i] = rewrites[i]
    BY <1>2
  <2> HIDE DEF kept, next
  <2>4. next \in Seq(Rewrites) /\ Len(next) = n + 1 /\ \A i \in 1..(n + 1) : next[i] = rewrites[i]
    BY <2>1, <2>2, <2>3
  <2> QED
    BY <2>1, <2>4 DEF next
<1> HIDE DEF T
<1>3. \A n \in 0..Len(rewrites) : n \in T
  BY <1>0, <1>1, <1>2, Upwards
<1>4. Len(rewrites) \in T
  BY <1>0, <1>3
<1>5. /\ Others(rewrites) \in Seq(Rewrites) /\ Len(Others(rewrites)) = Len(rewrites)
      /\ \A i \in 1..Len(rewrites) : Others(rewrites)[i] = rewrites[i]
  BY <1>4 DEF T, Others
<1> QED
  BY <1>0, <1>5

\* A rewrite of the API at the end is dropped.
LEMMA OthersOfAppend ==
  ASSUME NEW rewrites \in Seq(Rewrites), NEW r \in Rewrites, r.source = Api
  PROVE  Others(Append(rewrites, r)) = Others(rewrites)
<1> DEFINE more == Append(rewrites, r)
           T == {n \in 0..Len(rewrites) : Kept(more)[n] = Kept(rewrites)[n]}
<1>1. /\ more \in Seq(Rewrites) /\ Len(more) = Len(rewrites) + 1
      /\ \A i \in 1..Len(rewrites) : more[i] = rewrites[i]
      /\ more[Len(more)] = r
  OBVIOUS
<1> HIDE DEF more
<1>2. 0 \in T
  BY <1>1, KeptIs
<1>3. ASSUME NEW n \in 0..Len(rewrites), n < Len(rewrites), n \in T
      PROVE  n + 1 \in T
  <2>1. n + 1 \in 1..Len(rewrites) /\ n + 1 \in 1..Len(more) /\ more[n + 1] = rewrites[n + 1]
    BY <1>1, <1>3
  <2> QED
    BY <1>1, <1>3, <2>1, KeptIs
<1> HIDE DEF T
<1>4. \A n \in 0..Len(rewrites) : n \in T
  BY <1>2, <1>3, Upwards
<1>5. Kept(more)[Len(rewrites)] = Kept(rewrites)[Len(rewrites)]
  BY <1>4 DEF T
<1>6. Kept(more)[Len(more)] = Kept(more)[Len(rewrites)]
  BY <1>1, KeptIs
<1> QED
  BY <1>5, <1>6 DEF Others, more

\* updateHosting keeps the rewrites of other sources and leaves one of the API, the last.
LEMMA RewiredKeeps ==
  ASSUME NEW rewrites \in Seq(Rewrites), NEW service \in Services
  PROVE  /\ Rewired(rewrites, service) \in Seq(Rewrites)
         /\ Others(Rewired(rewrites, service)) = Others(rewrites)
         /\ \A i \in DOMAIN Rewired(rewrites, service) :
              Rewired(rewrites, service)[i].source = Api => i = Len(Others(rewrites)) + 1
         /\ \E i \in DOMAIN Rewired(rewrites, service) :
              Rewired(rewrites, service)[i] = [source |-> Api, to |-> service]
<1> DEFINE kept == Others(rewrites)  r == [source |-> Api, to |-> service]
           new == Append(kept, r)
<1>1. Foreign(kept)
  BY OthersForeign
<1>2. r \in Rewrites /\ r.source = Api
  BY DEF Rewrites, Sources
<1>3. Others(kept) = kept
  BY <1>1, OthersOfForeign
<1> HIDE DEF kept, r
<1>4. Others(new) = kept
  BY <1>1, <1>2, <1>3, OthersOfAppend DEF Foreign
<1>5. /\ new \in Seq(Rewrites) /\ DOMAIN new = 1..(Len(kept) + 1)
      /\ new[Len(kept) + 1] = r
      /\ \A i \in 1..Len(kept) : new[i] = kept[i]
  BY <1>1, <1>2 DEF Foreign
<1>6. \A i \in DOMAIN new : new[i].source = Api => i = Len(kept) + 1
  BY <1>1, <1>5 DEF Foreign
<1>7. \E i \in DOMAIN new : new[i] = r
  BY <1>1, <1>5 DEF Foreign
<1>8. Rewired(rewrites, service) = new
  BY DEF Rewired, new, kept, r
<1> HIDE DEF new
<1> QED
  BY <1>4, <1>5, <1>6, <1>7, <1>8 DEF kept, r

-----------------------------------------------------------------------------
(***************************************************************************)
(* Types.  A deployment is changed one field at a time.                    *)
(***************************************************************************)

TypeInv == ExecutorTypeOK /\ healthy = [s \in Services |-> healthy[s]]

LEMMA PutAt ==
  ASSUME NEW r \in Deployment, NEW at \in Steps
  PROVE  [r EXCEPT !.at = at] \in Deployment
  BY DEF Deployment

LEMMA PutNext ==
  ASSUME NEW r \in Deployment, NEW next \in Nat
  PROVE  [r EXCEPT !.next = next] \in Deployment
  BY DEF Deployment

LEMMA PutUndo ==
  ASSUME NEW r \in Deployment, NEW undo \in BOOLEAN
  PROVE  [r EXCEPT !.undo = undo] \in Deployment
  BY DEF Deployment

LEMMA PutUndone ==
  ASSUME NEW r \in Deployment, NEW undone \in BOOLEAN
  PROVE  [r EXCEPT !.undone = undone] \in Deployment
  BY DEF Deployment

LEMMA PutOwn ==
  ASSUME NEW r \in Deployment, NEW own \in Nat
  PROVE  [r EXCEPT !.own = own] \in Deployment
  BY DEF Deployment

LEMMA PutSeen ==
  ASSUME NEW r \in Deployment, NEW seen \in Nat
  PROVE  [r EXCEPT !.seen = seen] \in Deployment
  BY DEF Deployment

LEMMA PutUp ==
  ASSUME NEW r \in Deployment, NEW up \in SUBSET {"backend", "frontend"}
  PROVE  [r EXCEPT !.up = up] \in Deployment
  BY DEF Deployment

LEMMA PutTries ==
  ASSUME NEW r \in Deployment, NEW tries \in 0..(Attempts - 1)
  PROVE  [r EXCEPT !.tries = tries] \in Deployment
  BY DEF Deployment

LEMMA PutCopy ==
  ASSUME NEW r \in Deployment, NEW copy \in Seq(Rewrites)
  PROVE  [r EXCEPT !.copy = copy] \in Deployment
  BY DEF Deployment

LEMMA Fields ==
  ASSUME NEW r \in Deployment
  PROVE  /\ r.at \in Steps /\ r.plan \in Plans /\ r.next \in Nat
         /\ r.undo \in BOOLEAN /\ r.own \in Nat /\ r.seen \in Nat
         /\ r.up \in SUBSET {"backend", "frontend"} /\ r.tries \in 0..(Attempts - 1)
         /\ r.copy \in Seq(Rewrites)
         /\ r.plan.service \in Services /\ r.plan.env \in BOOLEAN
  BY ExecutorAssumption DEF Deployment

LEMMA FailedTyped ==
  ASSUME NEW r \in Deployment
  PROVE  Failed(r) \in Deployment
<1> DEFINE at == IF r.undo THEN "rollback" ELSE "failed"
<1>1. at \in Steps
  BY DEF Steps
<1> HIDE DEF at
<1>2. [r EXCEPT !.at = at] \in Deployment
  BY <1>1, PutAt
<1> QED
  BY <1>2 DEF Failed, at

LEMMA AdvancedTyped ==
  ASSUME NEW r \in Deployment, r.at \in BackendSteps \cup {"verify"}
  PROVE  Advanced(r) \in Deployment /\ Advanced(r).up \in SUBSET {"backend", "frontend"}
<1> DEFINE at == Following(r.at, r.plan)
<1>1. at \in Steps
  <2>1. r.plan.env \in BOOLEAN
    BY Fields
  <2>2. at \in {"env", "describe", "loop"}
    BY <2>1 DEF Following, BackendSteps
  <2> QED
    BY <2>2 DEF Steps
<1> HIDE DEF at
<1> DEFINE next == IF at = "loop" THEN r.next + 1 ELSE r.next
           undo == r.undo \/ UndoFrom(r.at)
           r1 == [r EXCEPT !.at = at]
           r2 == [r1 EXCEPT !.next = next]
           r3 == [r2 EXCEPT !.undo = undo]
<1>2. next \in Nat /\ undo \in BOOLEAN
  BY Fields
<1>3. Advanced(r) = r3
  BY DEF Advanced, at
<1> HIDE DEF next, undo
<1>4. r1 \in Deployment
  BY <1>1, PutAt
<1> HIDE DEF r1
<1>5. r2 \in Deployment
  BY <1>2, <1>4, PutNext
<1> HIDE DEF r2
<1>6. r3 \in Deployment
  BY <1>2, <1>5, PutUndo
<1> HIDE DEF r3
<1> QED
  BY <1>3, <1>6, Fields

\* The deployment that takes a step has its fields.
LEMMA StepsAreTyped ==
  ASSUME TypeInv, NEW d \in Deployers, run[d].at # "idle"
  PROVE  run[d] \in Deployment
  BY DEF TypeInv, ExecutorTypeOK, Idle

\* A step of one deployment keeps the types when its record has one.
LEMMA SetTyped ==
  ASSUME TypeInv, NEW d \in Deployers, NEW r \in {Idle} \cup Deployment, Set(d, r)
  PROVE  run' \in [Deployers -> {Idle} \cup Deployment]
  BY DEF TypeInv, ExecutorTypeOK, Set

\* What a step changes beside its deployment and firebase.json.
LEMMA TypedStep ==
  ASSUME TypeInv, NEW d \in Deployers, NEW r \in {Idle} \cup Deployment, Set(d, r),
         config' \in {NoFile, Torn} \cup Seq(Rewrites),
         hosting' \in {NoFile} \cup Seq(Rewrites),
         UNCHANGED <<latest, healthy>>, deploys' \in 0..MaxDeploys
  PROVE  TypeInv'
<1>1. run' \in [Deployers -> {Idle} \cup Deployment]
  BY SetTyped
<1> QED
  BY <1>1 DEF TypeInv, ExecutorTypeOK

LEMMA InitTypeInv == Init => TypeInv
<1> SUFFICES ASSUME Init PROVE TypeInv
  OBVIOUS
<1>1. /\ config \in {NoFile, Torn} \cup Seq(Rewrites)
      /\ latest \in [Services -> Nat] /\ healthy = [s \in Services |-> healthy[s]]
      /\ run \in [Deployers -> {Idle} \cup Deployment]
      /\ hosting = NoFile /\ deploys \in 0..MaxDeploys
  BY ExecutorAssumption DEF Init
<1>2. \A s \in Services : healthy[s] = {}
  BY DEF Init
<1> QED
  BY <1>1, <1>2 DEF TypeInv, ExecutorTypeOK

LEMMA NewRevisionTyped ==
  ASSUME TypeInv, NEW d \in Deployers, NEW s \in Services, NewRevision(s),
         NEW r \in Deployment, Set(d, r), UNCHANGED <<config, deploys>>
  PROVE  TypeInv'
<1>1. run' \in [Deployers -> {Idle} \cup Deployment]
  BY SetTyped
<1>2. /\ latest \in [Services -> Nat] /\ healthy = [t \in Services |-> healthy[t]]
      /\ \A t \in Services : healthy[t] \subseteq 1..latest[t]
  BY DEF TypeInv, ExecutorTypeOK
<1>3. PICK n \in {{}, {latest[s] + 1}} : healthy' = [healthy EXCEPT ![s] = @ \cup n]
  BY DEF NewRevision
<1>4. /\ latest' \in [Services -> Nat] /\ healthy' = [t \in Services |-> healthy'[t]]
      /\ latest'[s] = latest[s] + 1 /\ healthy'[s] = healthy[s] \cup n
      /\ \A t \in Services : t # s => latest'[t] = latest[t] /\ healthy'[t] = healthy[t]
  <2>1. latest' = [latest EXCEPT ![s] = @ + 1]
    BY DEF NewRevision
  <2>2. /\ latest' \in [Services -> Nat] /\ latest'[s] = latest[s] + 1
        /\ \A t \in Services : t # s => latest'[t] = latest[t]
    BY <1>2, <2>1
  <2>3. healthy' = [t \in Services |-> IF t = s THEN healthy[s] \cup n ELSE healthy[t]]
    BY <1>2, <1>3
  <2> QED
    BY <2>2, <2>3
<1>5. healthy'[s] \subseteq 1..latest'[s]
  BY <1>2, <1>3, <1>4
<1>6. \A t \in Services : healthy'[t] \subseteq 1..latest'[t]
  BY <1>2, <1>4, <1>5
<1>7. hosting' = hosting
  BY DEF NewRevision
<1> QED
  BY <1>1, <1>4, <1>6, <1>7 DEF TypeInv, ExecutorTypeOK

LEMMA LoopTyped ==
  ASSUME TypeInv, NEW d \in Deployers, SkipTarget(d) \/ NextTarget(d) \/ AllDone(d)
  PROVE  TypeInv'
<1> DEFINE r == run[d]
<1>1. r \in Deployment
  BY StepsAreTyped DEF SkipTarget, NextTarget, AllDone
<1>2. UNCHANGED <<config, latest, healthy, hosting, deploys>>
  BY DEF SkipTarget, NextTarget, AllDone, cloud
<1>3. r.next + 1 \in Nat
  BY <1>1, Fields
<1>4. CASE SkipTarget(d)
  <2>1. [r EXCEPT !.next = r.next + 1] \in Deployment
    BY <1>1, <1>3, PutNext
  <2>2. Set(d, [r EXCEPT !.next = r.next + 1])
    BY <1>4 DEF SkipTarget
  <2> QED
    BY <1>2, <2>1, <2>2, TypedStep DEF TypeInv, ExecutorTypeOK
<1>5. ASSUME NEW at \in Steps, Set(d, [r EXCEPT !.at = at])
      PROVE  TypeInv'
  <2>1. [r EXCEPT !.at = at] \in Deployment
    BY <1>1, PutAt
  <2> QED
    BY <1>2, <1>5, <2>1, TypedStep DEF TypeInv, ExecutorTypeOK
<1>6. CASE NextTarget(d)
  <2>1. \E at \in {"backend", "inject", "release"} : Set(d, [r EXCEPT !.at = at])
    BY <1>6 DEF NextTarget
  <2> QED
    BY <1>5, <2>1 DEF Steps
<1>7. CASE AllDone(d)
  <2>1. Set(d, [r EXCEPT !.at = "succeeded"])
    BY <1>7 DEF AllDone
  <2> QED
    BY <1>5, <2>1 DEF Steps
<1> QED
  BY <1>4, <1>6, <1>7

LEMMA BackendTyped ==
  ASSUME TypeInv, NEW d \in Deployers, MakeRevision(d) \/ RevisionFails(d) \/ FindReady(d)
  PROVE  TypeInv'
<1> DEFINE r == run[d]  s == r.plan.service  a == Advanced(r)
<1>1. r \in Deployment
  BY StepsAreTyped DEF MakeRevision, RevisionFails, FindReady
<1>2. s \in Services
  BY <1>1, Fields
<1>3. a \in Deployment /\ a.up \in SUBSET {"backend", "frontend"}
  <2>1. r.at \in BackendSteps \cup {"verify"} \/ RevisionFails(d)
    BY DEF MakeRevision, FindReady, BackendSteps
  <2>2. r.at \in BackendSteps \cup {"verify"}
    BY <2>1 DEF RevisionFails, BackendSteps
  <2> QED
    BY <1>1, <2>2, AdvancedTyped
<1> HIDE DEF a
<1>4. CASE MakeRevision(d)
  <2> DEFINE l == latest'[s]  q == [a EXCEPT !.own = l]
  <2>1. NewRevision(s) /\ Set(d, q) /\ UNCHANGED <<config, deploys>>
    BY <1>4 DEF MakeRevision, a
  <2>2. l \in Nat
    BY <1>2, <2>1 DEF NewRevision, TypeInv, ExecutorTypeOK
  <2> HIDE DEF l
  <2>3. q \in Deployment
    BY <1>3, <2>2, PutOwn
  <2> HIDE DEF q
  <2> QED
    BY <1>2, <2>1, <2>3, NewRevisionTyped
<1>5. CASE RevisionFails(d)
  <2>1. Failed(r) \in Deployment
    BY <1>1, FailedTyped
  <2>2. Set(d, Failed(r)) /\ UNCHANGED <<config, deploys>> /\ (NewRevision(s) \/ UNCHANGED cloud)
    BY <1>5 DEF RevisionFails
  <2>3. CASE NewRevision(s)
    BY <1>2, <2>1, <2>2, <2>3, NewRevisionTyped
  <2>4. CASE UNCHANGED cloud
    BY <2>1, <2>2, <2>4, TypedStep DEF TypeInv, ExecutorTypeOK, cloud
  <2> QED
    BY <2>2, <2>3, <2>4
<1>6. CASE FindReady(d)
  <2> DEFINE l == latest[s]  b == [a EXCEPT !.seen = l]
             c == [b EXCEPT !.up = a.up \cup {"backend"}]
  <2>1. Set(d, [a EXCEPT !.seen = l, !.up = @ \cup {"backend"}])
    BY <1>6 DEF FindReady, a
  <2>2. Set(d, c)
    BY <2>1
  <2>3. l \in Nat
    BY <1>2 DEF TypeInv, ExecutorTypeOK
  <2> HIDE DEF l
  <2>4. b \in Deployment
    BY <1>3, <2>3, PutSeen
  <2> HIDE DEF b
  <2>5. c \in Deployment
    BY <1>3, <2>4, PutUp
  <2>6. UNCHANGED <<config, latest, healthy, hosting, deploys>>
    BY <1>6 DEF FindReady, cloud
  <2> HIDE DEF c
  <2> QED
    BY <2>2, <2>5, <2>6, TypedStep DEF TypeInv, ExecutorTypeOK
<1> QED
  BY <1>4, <1>5, <1>6

LEMMA ConfigTyped ==
  ASSUME TypeInv, NEW d \in Deployers,
         ReadConfig(d) \/ TruncateConfig(d) \/ WriteConfig(d)
  PROVE  TypeInv'
<1> DEFINE r == run[d]
<1>1. r \in Deployment
  BY StepsAreTyped DEF ReadConfig, TruncateConfig, WriteConfig
<1>2. UNCHANGED <<latest, healthy, hosting, deploys>>
  BY DEF ReadConfig, TruncateConfig, WriteConfig, cloud
<1>3. r.plan.service \in Services /\ r.copy \in Seq(Rewrites)
  BY <1>1, Fields
<1>4. ASSUME NEW at \in Steps, NEW copy \in Seq(Rewrites),
             Set(d, [r EXCEPT !.at = at, !.copy = copy]),
             config' \in {NoFile, Torn} \cup Seq(Rewrites)
      PROVE  TypeInv'
  <2> DEFINE q == [r EXCEPT !.at = at]
  <2>1. q \in Deployment
    BY <1>1, PutAt
  <2>2. Set(d, [q EXCEPT !.copy = copy])
    BY <1>4
  <2> HIDE DEF q
  <2>3. [q EXCEPT !.copy = copy] \in Deployment
    BY <2>1, PutCopy
  <2> QED
    BY <1>2, <1>4, <2>2, <2>3, TypedStep DEF TypeInv, ExecutorTypeOK
<1>5. CASE ReadConfig(d)
  <2> DEFINE read == IF config = NoFile THEN <<>> ELSE config
             copy == Rewired(read, r.plan.service)
  <2>1. read \in Seq(Rewrites)
    BY <1>5 DEF ReadConfig, TypeInv, ExecutorTypeOK
  <2> HIDE DEF read
  <2>2. copy \in Seq(Rewrites)
    BY <1>3, <2>1, RewiredKeeps
  <2>3. Set(d, [r EXCEPT !.at = "truncate", !.copy = copy]) /\ config' = config
    BY <1>5 DEF ReadConfig, read
  <2> HIDE DEF copy
  <2> QED
    BY <1>4, <2>2, <2>3 DEF Steps, TypeInv, ExecutorTypeOK
<1>6. CASE TruncateConfig(d)
  <2>1. Set(d, [r EXCEPT !.at = "write"]) /\ config' = Torn
    BY <1>6 DEF TruncateConfig
  <2>2. [r EXCEPT !.at = "write"] \in Deployment
    BY <1>1, PutAt DEF Steps
  <2> QED
    BY <1>2, <2>1, <2>2, TypedStep DEF TypeInv, ExecutorTypeOK
<1>7. CASE WriteConfig(d)
  <2>1. Set(d, [r EXCEPT !.at = "release", !.copy = <<>>]) /\ config' = r.copy
    BY <1>7 DEF WriteConfig
  <2>2. <<>> \in Seq(Rewrites)
    OBVIOUS
  <2> QED
    BY <1>3, <1>4, <2>1, <2>2 DEF Steps
<1> QED
  BY <1>5, <1>6, <1>7

LEMMA HostingTyped ==
  ASSUME TypeInv, NEW d \in Deployers, Release(d) \/ Reach(d) \/ MissReach(d)
  PROVE  TypeInv'
<1> DEFINE r == run[d]
<1>1. r \in Deployment
  BY StepsAreTyped DEF Release, Reach, MissReach
<1>2. /\ UNCHANGED <<config, latest, healthy, deploys>>
      /\ hosting' \in {NoFile} \cup Seq(Rewrites)
  BY DEF Release, Reach, MissReach, cloud, Readable, TypeInv, ExecutorTypeOK
<1>3. ASSUME NEW q \in Deployment, Set(d, q)
      PROVE  TypeInv'
  BY <1>2, <1>3, TypedStep DEF TypeInv, ExecutorTypeOK
<1>4. CASE Release(d)
  <2> DEFINE a == [r EXCEPT !.at = "verify"]
  <2>1. a \in Deployment
    BY <1>1, PutAt DEF Steps
  <2>2. Set(d, [a EXCEPT !.tries = 0])
    BY <1>4 DEF Release
  <2> HIDE DEF a
  <2>3. 0 \in 0..(Attempts - 1)
    BY DEF Attempts
  <2>4. [a EXCEPT !.tries = 0] \in Deployment
    BY <2>1, <2>3, PutTries
  <2> QED
    BY <1>3, <2>2, <2>4
<1>5. CASE Reach(d)
  <2> DEFINE a == Advanced(r)  up == a.up \cup {"frontend"}
  <2>1. r.at \in BackendSteps \cup {"verify"}
    BY <1>5 DEF Reach
  <2>2. a \in Deployment /\ up \in SUBSET {"backend", "frontend"}
    BY <1>1, <2>1, AdvancedTyped
  <2>3. Set(d, [a EXCEPT !.up = up])
    BY <1>5 DEF Reach
  <2> HIDE DEF a, up
  <2>4. [a EXCEPT !.up = up] \in Deployment
    BY <2>2, PutUp
  <2> QED
    BY <1>3, <2>3, <2>4
<1>6. CASE MissReach(d)
  <2> DEFINE n == NextTry(r.tries)
  <2>1. (n < Attempts /\ Set(d, [r EXCEPT !.tries = n])) \/ Set(d, Failed(r))
    BY <1>6 DEF MissReach
  <2>2. n < Attempts => n \in 0..(Attempts - 1)
    BY <1>1, Fields DEF NextTry, Attempts
  <2> HIDE DEF n
  <2>3. n < Attempts => [r EXCEPT !.tries = n] \in Deployment
    BY <1>1, <2>2, PutTries
  <2>4. Failed(r) \in Deployment
    BY <1>1, FailedTyped
  <2> QED
    BY <1>3, <2>1, <2>3, <2>4
<1> QED
  BY <1>4, <1>5, <1>6

LEMMA FailingTyped ==
  ASSUME TypeInv, NEW d \in Deployers,
         FindNotReady(d) \/ ReadTornConfig(d) \/ ReleaseFails(d)
  PROVE  TypeInv'
<1>1. run[d] \in Deployment
  BY StepsAreTyped DEF FindNotReady, ReadTornConfig, ReleaseFails
<1>2. /\ Set(d, Failed(run[d])) /\ UNCHANGED <<config, latest, healthy, deploys>>
      /\ hosting' \in {NoFile} \cup Seq(Rewrites)
  BY DEF FindNotReady, ReadTornConfig, ReleaseFails, cloud, Readable, TypeInv, ExecutorTypeOK
<1>3. Failed(run[d]) \in Deployment
  BY <1>1, FailedTyped
<1> QED
  BY <1>2, <1>3, TypedStep DEF TypeInv, ExecutorTypeOK

LEMMA EndTyped ==
  ASSUME TypeInv, NEW d \in Deployers, RollBack(d) \/ Report(d) \/ Die(d)
  PROVE  TypeInv'
<1>1. UNCHANGED <<config, latest, healthy, hosting, deploys>>
  BY DEF RollBack, Report, Die, cloud
<1>2. CASE RollBack(d)
  <2> DEFINE a == [run[d] EXCEPT !.at = "failed"]
  <2>1. run[d] \in Deployment
    BY <1>2, StepsAreTyped DEF RollBack
  <2>2. a \in Deployment
    BY <2>1, PutAt DEF Steps
  <2>3. Set(d, [a EXCEPT !.undone = TRUE])
    BY <1>2 DEF RollBack
  <2> HIDE DEF a
  <2>4. [a EXCEPT !.undone = TRUE] \in Deployment
    BY <2>2, PutUndone
  <2> QED
    BY <1>1, <2>3, <2>4, TypedStep DEF TypeInv, ExecutorTypeOK
<1>3. CASE Report(d) \/ Die(d)
  <2>1. Set(d, Idle)
    BY <1>3 DEF Report, Die
  <2> QED
    BY <1>1, <2>1, TypedStep DEF TypeInv, ExecutorTypeOK
<1> QED
  BY <1>2, <1>3

LEMMA BeginTyped ==
  ASSUME TypeInv, NEW d \in Deployers, NEW plan \in Plans, Begin(d, plan)
  PROVE  TypeInv'
<1> DEFINE r == [at |-> "loop", plan |-> plan, next |-> 1, undo |-> FALSE, undone |-> FALSE,
                 own |-> 0, seen |-> 0, up |-> {}, tries |-> 0, copy |-> <<>>]
<1>1. Set(d, r) /\ UNCHANGED <<config, latest, healthy, hosting>>
  BY DEF Begin, cloud
<1>2. deploys' \in 0..MaxDeploys
  BY ExecutorAssumption DEF Begin, TypeInv, ExecutorTypeOK
<1>3. r \in Deployment
  BY DEF Deployment, Steps, Attempts
<1> HIDE DEF r
<1> QED
  BY <1>1, <1>2, <1>3, TypedStep DEF TypeInv, ExecutorTypeOK

LEMMA NextTypeInv == TypeInv /\ [Next]_vars => TypeInv'
<1> SUFFICES ASSUME TypeInv, [Next]_vars PROVE TypeInv'
  OBVIOUS
<1>1. ASSUME NEW d \in Deployers, Step(d) PROVE TypeInv'
  BY <1>1, LoopTyped, BackendTyped, ConfigTyped, HostingTyped, FailingTyped, EndTyped DEF Step
<1>2. CASE UNCHANGED vars
  BY <1>2 DEF vars, TypeInv, ExecutorTypeOK
<1> QED
  BY <1>1, <1>2, BeginTyped, EndTyped DEF Next

\* The state of a deployment, of firebase.json and of the cloud is what applyPlan
\* can make it, whatever the calls answer and wherever the processes die.
THEOREM ExecutorTypeCorrect == Spec => []ExecutorTypeOK
<1>1. TypeInv => ExecutorTypeOK
  BY DEF TypeInv
<1> QED
  BY <1>1, InitTypeInv, NextTypeInv, PTL DEF Spec

-----------------------------------------------------------------------------
(***************************************************************************)
(* firebase.json.  Whoever writes it writes what it held when it was read, *)
(* but for the rewrite of the API: a copy that waits to be written keeps   *)
(* the foreign rewrites as the file does, so it does not matter whose copy *)
(* comes last.                                                             *)
(***************************************************************************)

\* Rewrites that keep the foreign ones and lead the API to one place at most.
KeepForeign(rewrites, others) ==
  /\ rewrites \in Seq(Rewrites)
  /\ Others(rewrites) = others
  /\ \A i, j \in DOMAIN rewrites : rewrites[i].source = Api /\ rewrites[j].source = Api => i = j

\* The file a workspace starts with leads the API to one place at most.
OneApiAtFirst ==
  \A c \in Configs \ {NoFile} :
    \A i, j \in DOMAIN c : c[i].source = Api /\ c[j].source = Api => i = j

Writing(d) == run[d].at \in {"truncate", "write"}

FileInv ==
  /\ TypeInv
  /\ config = NoFile => foreign = <<>>
  /\ Readable => KeepForeign(config, foreign)
  /\ \A d \in Deployers : Writing(d) => KeepForeign(run[d].copy, foreign)

LEMMA InitFileInv == OneApiAtFirst => (Init => FileInv)
<1> SUFFICES ASSUME OneApiAtFirst, Init PROVE FileInv
  OBVIOUS
<1>1. TypeInv
  BY InitTypeInv
<1>2. config = NoFile => foreign = <<>>
  BY DEF Init
<1>3. Readable => KeepForeign(config, foreign)
  BY ExecutorAssumption DEF Init, Readable, KeepForeign, OneApiAtFirst
<1>4. \A d \in Deployers : ~Writing(d)
  BY DEF Init, Writing, Idle
<1> QED
  BY <1>1, <1>2, <1>3, <1>4 DEF FileInv

\* A step of a deployment that is not about to write leaves the other copies alone.
LEMMA OthersKeepForeign ==
  ASSUME FileInv, NEW d \in Deployers, NEW r, Set(d, r), foreign' = foreign,
         r.at \in {"truncate", "write"} => KeepForeign(r.copy, foreign)
  PROVE  \A e \in Deployers : Writing(e)' => KeepForeign(run'[e].copy, foreign')
<1>1. run' = [e \in Deployers |-> IF e = d THEN r ELSE run[e]]
  BY DEF Set, FileInv, TypeInv, ExecutorTypeOK
<1> SUFFICES ASSUME NEW e \in Deployers, Writing(e)'
             PROVE  KeepForeign(run'[e].copy, foreign')
  OBVIOUS
<1>2. CASE e = d
  <2>1. run'[e] = r
    BY <1>1, <1>2
  <2>2. KeepForeign(r.copy, foreign)
    BY <2>1 DEF Writing
  <2> QED
    BY <2>1, <2>2
<1>3. CASE e # d
  <2>1. run'[e] = run[e]
    BY <1>1, <1>3
  <2>2. KeepForeign(run[e].copy, foreign)
    BY <2>1 DEF Writing, FileInv
  <2> QED
    BY <2>1, <2>2
<1> QED
  BY <1>2, <1>3

\* A step that leaves firebase.json alone and does not go to write it.
LEMMA FileQuiet ==
  ASSUME FileInv, TypeInv', NEW d \in Deployers, NEW r, Set(d, r), UNCHANGED <<config, foreign>>,
         r.at \notin {"truncate", "write"}
  PROVE  FileInv'
<1>1. \A e \in Deployers : Writing(e)' => KeepForeign(run'[e].copy, foreign')
  BY OthersKeepForeign
<1>2. /\ config' = NoFile => foreign' = <<>>
      /\ Readable' => KeepForeign(config', foreign')
  BY DEF FileInv, Readable
<1> QED
  BY <1>1, <1>2 DEF FileInv

LEMMA ReadConfigFile ==
  ASSUME FileInv, TypeInv', NEW d \in Deployers, ReadConfig(d)
  PROVE  FileInv'
<1> DEFINE r == run[d]  read == IF config = NoFile THEN <<>> ELSE config
           copy == Rewired(read, r.plan.service)
           q == [r EXCEPT !.at = "truncate", !.copy = copy]
<1>1. Set(d, q) /\ UNCHANGED <<config, foreign>>
  BY DEF ReadConfig
<1>2. r \in Deployment /\ r.plan.service \in Services
  <2>1. r \in Deployment
    BY StepsAreTyped DEF ReadConfig, FileInv
  <2> QED
    BY <2>1, Fields
<1>3. read \in Seq(Rewrites) /\ Others(read) = foreign
  <2>1. CASE config = NoFile
    <3>1. Foreign(<<>>) /\ read = <<>> /\ foreign = <<>>
      BY <2>1 DEF Foreign, FileInv
    <3> HIDE DEF read
    <3> QED
      BY <3>1, OthersOfForeign DEF Foreign
  <2>2. CASE config # NoFile
    BY <2>2 DEF ReadConfig, Readable, FileInv, KeepForeign
  <2> QED
    BY <2>1, <2>2
<1> HIDE DEF read
<1>4. KeepForeign(copy, foreign)
  BY <1>2, <1>3, RewiredKeeps DEF KeepForeign
<1> HIDE DEF copy
<1>5. q.copy = copy
  BY <1>2 DEF Deployment
<1> HIDE DEF q
<1>6. \A e \in Deployers : Writing(e)' => KeepForeign(run'[e].copy, foreign')
  BY <1>1, <1>4, <1>5, OthersKeepForeign
<1>7. /\ config' = NoFile => foreign' = <<>>
      /\ Readable' => KeepForeign(config', foreign')
  BY <1>1 DEF FileInv, Readable
<1> QED
  BY <1>6, <1>7 DEF FileInv

LEMMA TruncateConfigFile ==
  ASSUME FileInv, TypeInv', NEW d \in Deployers, TruncateConfig(d)
  PROVE  FileInv'
<1> DEFINE r == run[d]  q == [r EXCEPT !.at = "write"]
<1>1. Set(d, q) /\ config' = Torn /\ foreign' = foreign /\ r.at = "truncate"
  BY DEF TruncateConfig
<1>2. r \in Deployment
  BY <1>1, StepsAreTyped DEF FileInv
<1>3. q.copy = r.copy
  BY <1>2 DEF Deployment
<1>4. KeepForeign(r.copy, foreign)
  BY <1>1 DEF FileInv, Writing
<1> HIDE DEF q
<1>5. KeepForeign(q.copy, foreign)
  BY <1>3, <1>4
<1>6. \A e \in Deployers : Writing(e)' => KeepForeign(run'[e].copy, foreign')
  BY <1>1, <1>5, OthersKeepForeign
<1>7. config' # NoFile /\ ~Readable'
  BY <1>1, ExecutorAssumption DEF Readable
<1> QED
  BY <1>6, <1>7 DEF FileInv

LEMMA WriteConfigFile ==
  ASSUME FileInv, TypeInv', NEW d \in Deployers, WriteConfig(d)
  PROVE  FileInv'
<1> DEFINE r == run[d]  q == [r EXCEPT !.at = "release", !.copy = <<>>]
<1>1. Set(d, q) /\ config' = r.copy /\ foreign' = foreign /\ r.at = "write"
  BY DEF WriteConfig
<1>2. r \in Deployment
  BY <1>1, StepsAreTyped DEF FileInv
<1>3. q.at = "release"
  BY <1>2 DEF Deployment
<1>4. KeepForeign(r.copy, foreign) /\ r.copy \in Seq(Rewrites)
  BY <1>1 DEF FileInv, Writing, KeepForeign
<1> HIDE DEF q
<1>5. \A e \in Deployers : Writing(e)' => KeepForeign(run'[e].copy, foreign')
  BY <1>1, <1>3, OthersKeepForeign
<1>6. config' # NoFile
  BY <1>1, <1>4, ExecutorAssumption
<1>7. KeepForeign(config', foreign')
  BY <1>1, <1>4
<1> QED
  BY <1>5, <1>6, <1>7 DEF FileInv

\* A deployment that is not writing firebase.json, and that releases without having
\* written it only where its plan does not wire a backend.
Away(q) ==
  /\ q.at \notin {"truncate", "write"}
  /\ q.at = "release" => ~(q.plan.wired /\ "backend" \in q.plan.targets)

\* The steps that leave firebase.json alone and do not go to write it.
LEMMA FileAlone ==
  ASSUME TypeInv, NEW d \in Deployers, Step(d) \/ Die(d),
         ~ReadConfig(d), ~TruncateConfig(d), ~WriteConfig(d)
  PROVE  /\ UNCHANGED <<config, foreign>>
         /\ \E q : Set(d, q) /\ Away(q)
<1> DEFINE r == run[d]
<1>1. UNCHANGED <<config, foreign>>
  BY DEF Step, SkipTarget, NextTarget, AllDone, MakeRevision, RevisionFails, FindReady,
         FindNotReady, ReadTornConfig, Release, ReleaseFails, Reach, MissReach, RollBack, Report,
         Die
<1> SUFFICES \E q : Set(d, q) /\ Away(q)
  BY <1>1
<1>2. r.at # "idle" => r \in Deployment
  BY StepsAreTyped
<1>3. ASSUME NEW q, Set(d, q), q.at \notin {"truncate", "write", "release"}
      PROVE  \E p : Set(d, p) /\ Away(p)
  BY <1>3 DEF Away
<1>4. CASE SkipTarget(d)
  <2> DEFINE q == [r EXCEPT !.next = r.next + 1]
  <2>1. Set(d, q) /\ q.at = "loop"
    BY <1>2, <1>4 DEF SkipTarget, Deployment
  <2> HIDE DEF q
  <2> QED
    BY <1>3, <2>1
<1>5. CASE NextTarget(d) \/ AllDone(d)
  <2>1. PICK at \in {"backend", "inject", "release", "succeeded"} :
          /\ Set(d, [r EXCEPT !.at = at])
          /\ at = "release" => ~(r.plan.wired /\ "backend" \in r.plan.targets)
    BY <1>5 DEF NextTarget, AllDone
  <2> DEFINE q == [r EXCEPT !.at = at]
  <2>2. q.at = at /\ q.plan = r.plan
    BY <1>2, <1>5 DEF NextTarget, AllDone, Deployment
  <2>3. Set(d, q)
    BY <2>1
  <2> HIDE DEF q
  <2> QED
    BY <2>1, <2>2, <2>3 DEF Away
<1>6. ASSUME Set(d, Failed(r)), r.at # "idle"
      PROVE  \E q : Set(d, q) /\ Away(q)
  <2>1. Failed(r).at \in {"rollback", "failed"}
    BY <1>2, <1>6 DEF Failed, Deployment
  <2> QED
    BY <1>3, <1>6, <2>1
<1>7. CASE RevisionFails(d) \/ FindNotReady(d) \/ ReadTornConfig(d) \/ ReleaseFails(d)
  BY <1>6, <1>7 DEF RevisionFails, FindNotReady, ReadTornConfig, ReleaseFails
<1>8. CASE MakeRevision(d) \/ FindReady(d) \/ Reach(d)
  <2> DEFINE a == Advanced(r)  at == Following(r.at, r.plan)
  <2>1. r \in Deployment /\ r.at \in BackendSteps \cup {"verify"}
    BY <1>2, <1>8 DEF MakeRevision, FindReady, Reach, BackendSteps
  <2>2. at \in {"env", "describe", "loop"}
    BY <2>1, Fields DEF Following, BackendSteps
  <2>3. a \in Deployment
    BY <2>1, AdvancedTyped
  <2>4. a.at = at
    <3> HIDE DEF at
    <3> QED
      BY <2>1 DEF Advanced, Deployment, at
  <2> HIDE DEF a, at
  <2>5. PICK own, seen, up :
          \/ Set(d, [a EXCEPT !.own = own])
          \/ Set(d, [a EXCEPT !.seen = seen, !.up = up])
          \/ Set(d, [a EXCEPT !.up = up])
    BY <1>8 DEF MakeRevision, FindReady, Reach, a
  <2> DEFINE q1 == [a EXCEPT !.own = own]  q2 == [a EXCEPT !.seen = seen, !.up = up]
             q3 == [a EXCEPT !.up = up]
  <2>6. q1.at = a.at /\ q2.at = a.at /\ q3.at = a.at
    BY <2>3 DEF Deployment
  <2> HIDE DEF q1, q2, q3
  <2>7. Set(d, q1) \/ Set(d, q2) \/ Set(d, q3)
    BY <2>5 DEF q1, q2, q3
  <2> QED
    BY <1>3, <2>2, <2>4, <2>6, <2>7
<1>9. CASE Release(d)
  <2> DEFINE q == [r EXCEPT !.at = "verify", !.tries = 0]
  <2>1. Set(d, q) /\ q.at = "verify"
    BY <1>2, <1>9 DEF Release, Deployment
  <2> HIDE DEF q
  <2> QED
    BY <1>3, <2>1
<1>10. CASE MissReach(d)
  <2> DEFINE q == [r EXCEPT !.tries = NextTry(r.tries)]
  <2>1. r.at = "verify" /\ (Set(d, q) \/ Set(d, Failed(r)))
    BY <1>10 DEF MissReach
  <2>2. q.at = "verify"
    BY <1>2, <2>1 DEF Deployment
  <2> HIDE DEF q
  <2> QED
    BY <1>3, <1>6, <2>1, <2>2
<1>11. CASE RollBack(d)
  <2> DEFINE q == [r EXCEPT !.at = "failed", !.undone = TRUE]
  <2>1. Set(d, q) /\ r \in Deployment
    BY <1>2, <1>11 DEF RollBack
  <2>2. ASSUME NEW undone PROVE [r EXCEPT !.at = "failed", !.undone = undone].at = "failed"
    BY <2>1 DEF Deployment
  <2>3. q.at = "failed"
    BY <2>2
  <2> HIDE DEF q
  <2> QED
    BY <1>3, <2>1, <2>3
<1>12. CASE Report(d) \/ Die(d)
  <2>1. Set(d, Idle) /\ Idle.at = "idle"
    BY <1>12 DEF Report, Die, Idle
  <2> QED
    BY <1>3, <2>1
<1> QED
  BY <1>4, <1>5, <1>7, <1>8, <1>9, <1>10, <1>11, <1>12 DEF Step

LEMMA NextFileInv == FileInv /\ [Next]_vars => FileInv'
<1> SUFFICES ASSUME FileInv, [Next]_vars PROVE FileInv'
  OBVIOUS
<1>1. TypeInv'
  BY NextTypeInv DEF FileInv
<1>2. ASSUME NEW d \in Deployers, Step(d) \/ Die(d)
      PROVE  FileInv'
  <2>1. CASE ReadConfig(d) \/ TruncateConfig(d) \/ WriteConfig(d)
    BY <1>1, <2>1, ReadConfigFile, TruncateConfigFile, WriteConfigFile
  <2>2. CASE ~ReadConfig(d) /\ ~TruncateConfig(d) /\ ~WriteConfig(d)
    BY <1>1, <1>2, <2>2, FileAlone, FileQuiet DEF Away, FileInv
  <2> QED
    BY <2>1, <2>2
<1>3. ASSUME NEW d \in Deployers, NEW plan \in Plans, Begin(d, plan)
      PROVE  FileInv'
  <2>1. UNCHANGED <<config, foreign>> /\ \E r : Set(d, r) /\ r.at = "loop"
    BY <1>3 DEF Begin
  <2> QED
    BY <1>1, <2>1, FileQuiet
<1>4. CASE UNCHANGED vars
  BY <1>1, <1>4 DEF vars, FileInv, Readable, Writing
<1> QED
  BY <1>2, <1>3, <1>4 DEF Next

\* However many deployments rewrite firebase.json at once, and wherever they fail
\* or die, the file, whenever it can be read, keeps the rewrites of other sources
\* in their order and leads the API to one place at most.
THEOREM ForeignRewritesAreKept == OneApiAtFirst => (Spec => []ForeignRewritesKept)
<1>1. FileInv => ForeignRewritesKept
  <2> SUFFICES ASSUME FileInv, Readable
               PROVE  /\ Others(config) = foreign
                      /\ Cardinality({i \in DOMAIN config : config[i].source = Api}) <= 1
    BY DEF ForeignRewritesKept
  <2> DEFINE Places == {i \in DOMAIN config : config[i].source = Api}
  <2>1. KeepForeign(config, foreign)
    BY DEF FileInv
  <2>2. \A i, j \in Places : i = j
    BY <2>1 DEF KeepForeign
  <2> HIDE DEF Places
  <2>3. CASE Places = {}
    <3>1. Cardinality(Places) = 0
      BY <2>3, FS_EmptySet
    <3> QED
      BY <2>1, <3>1 DEF KeepForeign, Places
  <2>4. CASE Places # {}
    <3>1. PICK i : Places = {i}
      BY <2>2, <2>4
    <3>2. Cardinality(Places) = 1
      BY <3>1, FS_Singleton
    <3> QED
      BY <2>1, <3>2 DEF KeepForeign, Places
  <2> QED
    BY <2>3, <2>4
<1> QED
  BY <1>1, InitFileInv, NextFileInv, PTL DEF Spec

-----------------------------------------------------------------------------
(***************************************************************************)
(* The release.  Once a deployment has written the rewrite to the service, *)
(* whatever another one writes over it leads there as well.                *)
(***************************************************************************)

\* The workspace has one service, as .omg/project.yaml names one.
OneService == \A s, t \in Services : s = t

\* buildPlan wires a plan only where it has a backend.
WiredHaveBackend == \A p \in Plans : p.wired => "backend" \in p.targets

LeadToService(rewrites) ==
  \A s \in Services : \E i \in DOMAIN rewrites : rewrites[i] = [source |-> Api, to |-> s]

WiredInv ==
  /\ TypeInv
  /\ \A d \in Deployers : Writing(d) => LeadToService(run[d].copy)
  /\ \A d \in Deployers :
       run[d].at = "release" /\ run[d].plan.wired => config = Torn \/ LeadToService(config)

LEMMA InitWiredInv == Init => WiredInv
<1> SUFFICES ASSUME Init PROVE WiredInv
  OBVIOUS
<1>1. \A d \in Deployers : run[d].at = "idle"
  BY DEF Init, Idle
<1> QED
  BY <1>1, InitTypeInv DEF WiredInv, Writing

\* A step keeps the invariant when the file it leaves is the old one, is torn or
\* leads to the service, and so does the copy of the deployment that takes it.
LEMMA WiredStep ==
  ASSUME WiredInv, TypeInv', NEW d \in Deployers, NEW r, Set(d, r),
         config' = config \/ config' = Torn \/ LeadToService(config'),
         r.at \in {"truncate", "write"} => LeadToService(r.copy),
         r.at = "release" /\ r.plan.wired => config' = Torn \/ LeadToService(config')
  PROVE  WiredInv'
<1>1. run' = [e \in Deployers |-> IF e = d THEN r ELSE run[e]]
  BY DEF Set, WiredInv, TypeInv, ExecutorTypeOK
<1>2. ASSUME NEW e \in Deployers
      PROVE  /\ Writing(e)' => LeadToService(run'[e].copy)
             /\ run'[e].at = "release" /\ run'[e].plan.wired =>
                  config' = Torn \/ LeadToService(config')
  <2>1. CASE e = d
    <3>1. run'[e] = r
      BY <1>1, <2>1
    <3> QED
      BY <3>1 DEF Writing
  <2>2. CASE e # d
    <3>1. run'[e] = run[e]
      BY <1>1, <2>2
    <3>2. /\ Writing(e) => LeadToService(run[e].copy)
          /\ run[e].at = "release" /\ run[e].plan.wired =>
               config = Torn \/ LeadToService(config)
      BY DEF WiredInv
    <3> QED
      BY <3>1, <3>2 DEF Writing
  <2> QED
    BY <2>1, <2>2
<1>3. \A rewrites : LeadToService(rewrites)' = LeadToService(rewrites)
  BY DEF LeadToService
<1> QED
  BY <1>2, <1>3 DEF WiredInv

LEMMA ConfigWired ==
  ASSUME OneService, WiredInv, TypeInv', NEW d \in Deployers,
         ReadConfig(d) \/ TruncateConfig(d) \/ WriteConfig(d)
  PROVE  WiredInv'
<1> DEFINE r == run[d]
<1>1. r \in Deployment /\ r.plan.service \in Services
  <2>1. r \in Deployment
    BY StepsAreTyped DEF ReadConfig, TruncateConfig, WriteConfig, WiredInv
  <2> QED
    BY <2>1, Fields
<1>2. CASE ReadConfig(d)
  <2> DEFINE read == IF config = NoFile THEN <<>> ELSE config
             copy == Rewired(read, r.plan.service)
             q == [r EXCEPT !.at = "truncate", !.copy = copy]
  <2>1. Set(d, q) /\ config' = config
    BY <1>2 DEF ReadConfig
  <2>2. read \in Seq(Rewrites)
    BY <1>2 DEF ReadConfig, WiredInv, TypeInv, ExecutorTypeOK
  <2> HIDE DEF read
  <2>3. \E i \in DOMAIN copy : copy[i] = [source |-> Api, to |-> r.plan.service]
    BY <1>1, <2>2, RewiredKeeps
  <2> HIDE DEF copy
  <2>4. LeadToService(copy)
    BY <1>1, <2>3 DEF OneService, LeadToService
  <2>5. q.at = "truncate" /\ q.copy = copy
    BY <1>1 DEF Deployment
  <2> HIDE DEF q
  <2> QED
    BY <2>1, <2>4, <2>5, WiredStep
<1>3. CASE TruncateConfig(d)
  <2> DEFINE q == [r EXCEPT !.at = "write"]
  <2>1. Set(d, q) /\ config' = Torn /\ r.at = "truncate"
    BY <1>3 DEF TruncateConfig
  <2>2. q.at = "write" /\ q.copy = r.copy
    BY <1>1 DEF Deployment
  <2>3. LeadToService(r.copy)
    BY <2>1 DEF WiredInv, Writing
  <2> HIDE DEF q
  <2>4. q.at \in {"truncate", "write"} => LeadToService(q.copy)
    BY <2>2, <2>3
  <2> QED
    BY <2>1, <2>2, <2>4, WiredStep
<1>4. CASE WriteConfig(d)
  <2> DEFINE q == [r EXCEPT !.at = "release", !.copy = <<>>]
  <2>1. Set(d, q) /\ config' = r.copy /\ r.at = "write"
    BY <1>4 DEF WriteConfig
  <2>2. q.at = "release"
    BY <1>1 DEF Deployment
  <2>3. LeadToService(r.copy)
    BY <2>1 DEF WiredInv, Writing
  <2> HIDE DEF q
  <2>4. LeadToService(config')
    BY <2>1, <2>3
  <2> QED
    BY <2>1, <2>2, <2>4, WiredStep
<1> QED
  BY <1>2, <1>3, <1>4

LEMMA NextWiredInv ==
  OneService /\ WiredHaveBackend => (WiredInv /\ [Next]_vars => WiredInv')
<1> SUFFICES ASSUME OneService, WiredHaveBackend, WiredInv, [Next]_vars PROVE WiredInv'
  OBVIOUS
<1>1. TypeInv'
  BY NextTypeInv DEF WiredInv
<1>2. ASSUME NEW d \in Deployers, Step(d) \/ Die(d)
      PROVE  WiredInv'
  <2>1. CASE ReadConfig(d) \/ TruncateConfig(d) \/ WriteConfig(d)
    BY <1>1, <2>1, ConfigWired
  <2>2. CASE ~ReadConfig(d) /\ ~TruncateConfig(d) /\ ~WriteConfig(d)
    <3>1. PICK q : Set(d, q) /\ Away(q)
      BY <1>2, <2>2, FileAlone DEF WiredInv
    <3>2. config' = config
      BY <1>2, <2>2, FileAlone DEF WiredInv
    <3>3. q = run'[d] /\ run'[d] \in {Idle} \cup Deployment
      BY <1>1, <3>1 DEF Set, WiredInv, TypeInv, ExecutorTypeOK
    <3>4. q.at = "release" => q.plan \in Plans
      BY <3>3 DEF Idle, Deployment
    <3> QED
      BY <1>1, <3>1, <3>2, <3>4, WiredStep DEF Away, WiredHaveBackend
  <2> QED
    BY <2>1, <2>2
<1>3. ASSUME NEW d \in Deployers, NEW plan \in Plans, Begin(d, plan)
      PROVE  WiredInv'
  <2>1. config' = config /\ \E r : Set(d, r) /\ r.at = "loop"
    BY <1>3 DEF Begin
  <2> QED
    BY <1>1, <2>1, WiredStep
<1>4. CASE UNCHANGED vars
  BY <1>1, <1>4 DEF vars, WiredInv, Writing, LeadToService
<1> QED
  BY <1>2, <1>3, <1>4 DEF Next

\* A deployment goes from its release to the verification by releasing.
LEMMA ReleaseMoves ==
  ASSUME TypeInv, [Next]_vars, NEW d \in Deployers,
         run[d].at = "release", run'[d].at = "verify"
  PROVE  Release(d)
<1>1. run = [e \in Deployers |-> run[e]]
  BY DEF TypeInv, ExecutorTypeOK
<1>2. ASSUME NEW q, Set(d, q) PROVE run'[d] = q
  BY <1>1, <1>2 DEF Set
<1>3. ASSUME NEW e \in Deployers, NEW q, Set(e, q) PROVE e = d
  BY <1>1, <1>3 DEF Set
<1>4. run[d] \in Deployment
  BY StepsAreTyped
<1>5. ~Die(d) /\ ~ReleaseFails(d)
  <2>1. Failed(run[d]).at # "verify" /\ Idle.at # "verify"
    BY <1>4 DEF Failed, Deployment, Idle
  <2> QED
    BY <1>2, <2>1 DEF Die, ReleaseFails
<1>6. ASSUME Step(d) PROVE Release(d)
  BY <1>5, <1>6 DEF Step, SkipTarget, NextTarget, AllDone, MakeRevision, RevisionFails, FindReady,
     FindNotReady, ReadConfig, ReadTornConfig, TruncateConfig, WriteConfig, Reach, MissReach,
     RollBack, Report
<1>7. ASSUME NEW e \in Deployers, Step(e) \/ Die(e) PROVE e = d
  <2>1. \E q : Set(e, q)
    BY <1>7 DEF Step, Die, SkipTarget, NextTarget, AllDone, MakeRevision, RevisionFails, FindReady,
       FindNotReady, ReadConfig, ReadTornConfig, TruncateConfig, WriteConfig, Release,
       ReleaseFails, Reach, MissReach, RollBack, Report
  <2> QED
    BY <1>3, <2>1
<1>8. ASSUME NEW e \in Deployers, NEW plan \in Plans, Begin(e, plan) PROVE FALSE
  <2>1. e = d
    BY <1>3, <1>8 DEF Begin
  <2> QED
    BY <1>8, <2>1 DEF Begin, Running
<1>9. run' # run
  OBVIOUS
<1> QED
  BY <1>5, <1>6, <1>7, <1>8, <1>9 DEF Next, vars

\* While the workspace has one service, a deployment that wires it releases a
\* frontend that has a rewrite to it, whoever else rewrites firebase.json between
\* its own write and the release.
THEOREM ReleasedWired == OneService /\ WiredHaveBackend => (Spec => ReleaseIsWired)
<1> SUFFICES ASSUME OneService, WiredHaveBackend PROVE Spec => ReleaseIsWired
  OBVIOUS
<1> DEFINE P == \A d \in Deployers :
                  run[d].at = "release" /\ run'[d].at = "verify" /\ run[d].plan.wired =>
                    \E i \in DOMAIN hosting' :
                      hosting'[i] = [source |-> Api, to |-> run[d].plan.service]
<1>1. ASSUME WiredInv, [Next]_vars, NEW d \in Deployers,
             run[d].at = "release", run'[d].at = "verify", run[d].plan.wired
      PROVE  \E i \in DOMAIN hosting' :
               hosting'[i] = [source |-> Api, to |-> run[d].plan.service]
  <2>1. run[d] \in Deployment
    BY <1>1, StepsAreTyped DEF WiredInv
  <2>2. run[d].plan.service \in Services
    BY <2>1, Fields
  <2>3. Release(d)
    BY <1>1, <2>1, ReleaseMoves DEF WiredInv
  <2>4. LeadToService(config)
    BY <1>1, <2>3 DEF WiredInv, Release, Readable
  <2> QED
    BY <2>2, <2>3, <2>4 DEF LeadToService, Release
<1>2. WiredInv /\ [Next]_vars => [P]_vars
  BY <1>1
<1>3. WiredInv /\ [Next]_vars => WiredInv'
  BY NextWiredInv
<1> QED
  BY <1>2, <1>3, InitWiredInv, PTL DEF Spec, ReleaseIsWired
=============================================================================
