------------------------ MODULE ApprovalQueueProofs ------------------------
(***************************************************************************)
(* Theorems about ApprovalQueue, for every set of processes, ids and       *)
(* requests, every lifetime and every interleaving.                        *)
(***************************************************************************)
EXTENDS ApprovalQueue, TLAPS

-----------------------------------------------------------------------------
(***************************************************************************)
(* The inductive invariant.  Decisions are taken on copies: what makes     *)
(* them sound is that every copy, in a process or in the file, still has   *)
(* the request and the expiry its approval was created with, and that no   *)
(* record reads as approved unless an approve command saved it.            *)
(***************************************************************************)

Copying == {"decide", "truncate", "write"}

\* A command that has loaded a record, or made one, holds it; a check knows
\* the operation it is for; only commands with a decision to take load.
Shape ==
  \A p \in Procs :
    /\ cmd[p].step \in Copying => cmd[p].rec \in Approval
    /\ cmd[p].step \in {"load", "decide"} => cmd[p].kind # "create"
    /\ Running(p) /\ cmd[p].kind \in GateKinds => cmd[p].req \in Requests

\* The record is the one i was created with, but for its status.
Backed(rec, i) ==
  /\ issued[i] \in Approval
  /\ rec.request = issued[i].request
  /\ rec.expiresAt = issued[i].expiresAt

FileBacked ==
  \A i \in Ids : file[i] \in Approval =>
    /\ Backed(file[i], i)
    /\ file[i].status = "approved" => i \in approvedIds

CopyBacked ==
  \A p \in Procs :
    /\ cmd[p].step \in Copying => Backed(cmd[p].rec, cmd[p].id)
    /\ cmd[p].step = "decide" /\ cmd[p].rec.status = "approved"
         => cmd[p].id \in approvedIds

IInv == TypeOK /\ Shape /\ FileBacked /\ CopyBacked

\* What a new approval looks like.
LEMMA NewApprovalType ==
  ASSUME NEW req \in Requests, NEW t \in Nat
  PROVE  NewApproval(req, t, Ttl) \in Approval
BY QueueAssumption DEF NewApproval, Approval, Status

\* A record whose status is replaced stays a record, with the same request and expiry.
LEMMA WithStatus ==
  ASSUME NEW rec \in Approval, NEW s \in Status
  PROVE  LET new == [rec EXCEPT !.status = s]
         IN  /\ new \in Approval
             /\ new.request = rec.request
             /\ new.expiresAt = rec.expiresAt
             /\ new.status = s
BY DEF Approval

\* A granted command writes a status there is.
LEMMA SavedStatusType ==
  ASSUME NEW kind \in Kinds, kind # "create", kind # "probe"
  PROVE  SavedStatus(kind) \in Status
BY DEF SavedStatus, Kinds, HumanKinds, GateKinds, Status

\* The gate grants only on an approved record that matches and has not expired.
LEMMA GateGrants ==
  ASSUME NEW rec \in Approval, NEW req \in Requests, NEW t \in Nat,
         GateVerdict(rec, req, t) = "grant"
  PROVE  /\ rec.status = "approved"
         /\ Matches(rec.request, req)
         /\ t <= rec.expiresAt
BY DEF GateVerdict, Expired, Approval

LEMMA InitIInv == Init => IInv
BY QueueAssumption
   DEF Init, IInv, TypeOK, Shape, FileBacked, CopyBacked, Idle, Copying, Running

-----------------------------------------------------------------------------
(***************************************************************************)
(* Every step preserves the invariant.  A command that only changes its    *)
(* own state is covered by one lemma: the file and the history stay, so    *)
(* only the new state of that command needs to be looked at.               *)
(***************************************************************************)

\* The conditions IInv puts on one command.
GoodCommand(c) ==
  /\ c \in Command
  /\ c.step \in Copying => c.rec \in Approval /\ Backed(c.rec, c.id)
  /\ c.step \in {"load", "decide"} => c.kind # "create"
  /\ c.kind \in GateKinds => c.req \in Requests
  /\ c.step = "decide" /\ c.rec.status = "approved" => c.id \in approvedIds

LEMMA RunningIsGood ==
  ASSUME IInv, NEW p \in Procs, Running(p)
  PROVE  GoodCommand(cmd[p])
BY DEF IInv, TypeOK, Shape, CopyBacked, GoodCommand, Running, Idle

LEMMA OneCommandMoves ==
  ASSUME IInv, NEW p \in Procs, NEW c,
         cmd' = [cmd EXCEPT ![p] = c],
         c = Idle \/ GoodCommand(c),
         UNCHANGED <<file, now, history>>
  PROVE  IInv'
<1>1. TypeOK'
  BY DEF IInv, TypeOK, GoodCommand, history
<1>2. \A q \in Procs : cmd'[q] = IF q = p THEN c ELSE cmd[q]
  BY DEF IInv, TypeOK
<1>3. Shape'
  BY <1>2 DEF IInv, Shape, GoodCommand, Running, Idle, Copying
<1>4. FileBacked'
  BY DEF IInv, FileBacked, Backed, history
<1>5. CopyBacked'
  BY <1>2 DEF IInv, CopyBacked, GoodCommand, Backed, Idle, Copying, history
<1> QED
  BY <1>1, <1>3, <1>4, <1>5 DEF IInv

LEMMA StartPreserves ==
  ASSUME IInv, NEW p \in Procs, NEW i \in Ids,
         \/ \E kind \in HumanKinds : StartDecision(p, kind, i)
         \/ \E kind \in GateKinds, req \in Requests : StartCheck(p, kind, i, req)
  PROVE  IInv'
<1>1. CASE \E kind \in HumanKinds : StartDecision(p, kind, i)
  <2>1. PICK kind \in HumanKinds : StartDecision(p, kind, i)
    BY <1>1
  <2> DEFINE c == [step |-> "load", kind |-> kind, id |-> i, req |-> None, rec |-> None]
  <2>2. GoodCommand(c)
    BY DEF GoodCommand, Command, Kinds, HumanKinds, GateKinds, Copying
  <2> QED
    BY <2>1, <2>2, OneCommandMoves DEF StartDecision
<1>2. CASE \E kind \in GateKinds, req \in Requests : StartCheck(p, kind, i, req)
  <2>1. PICK kind \in GateKinds, req \in Requests : StartCheck(p, kind, i, req)
    BY <1>2
  <2> DEFINE c == [step |-> "load", kind |-> kind, id |-> i, req |-> req, rec |-> None]
  <2>2. GoodCommand(c)
    BY DEF GoodCommand, Command, Kinds, HumanKinds, GateKinds, Copying
  <2> QED
    BY <2>1, <2>2, OneCommandMoves DEF StartCheck
<1> QED
  BY <1>1, <1>2

LEMMA CreatePreserves ==
  ASSUME IInv, NEW p \in Procs, NEW i \in Ids, NEW req \in Requests, StartCreate(p, i, req)
  PROVE  IInv'
<1> DEFINE new == NewApproval(req, now, Ttl)
           c   == [step |-> "truncate", kind |-> "create", id |-> i, req |-> None, rec |-> new]
<1>1. new \in Approval /\ c \in Command
  BY NewApprovalType DEF IInv, TypeOK, Command, Kinds
<1>2. TypeOK'
  BY <1>1 DEF IInv, TypeOK, StartCreate
<1>3. \A q \in Procs : cmd'[q] = IF q = p THEN c ELSE cmd[q]
  BY DEF IInv, TypeOK, StartCreate
<1>4. Shape'
  BY <1>1, <1>3 DEF IInv, Shape, Running, Copying, GateKinds
<1>5. issued[i] \notin Approval /\ issued'[i] = new
      /\ \A j \in Ids : j # i => issued'[j] = issued[j]
  BY QueueAssumption DEF IInv, TypeOK, StartCreate
<1>6. FileBacked'
  BY <1>5 DEF IInv, FileBacked, Backed, StartCreate
<1>7. CopyBacked'
  <2> SUFFICES ASSUME NEW q \in Procs
               PROVE  /\ cmd'[q].step \in Copying => Backed(cmd[q].rec, cmd[q].id)'
                      /\ cmd'[q].step = "decide" /\ cmd'[q].rec.status = "approved"
                           => cmd'[q].id \in approvedIds'
    BY DEF CopyBacked
  <2>1. CASE q = p
    BY <2>1, <1>1, <1>3, <1>5 DEF Backed, Copying
  <2>2. CASE q # p
    <3>1. cmd'[q] = cmd[q] /\ approvedIds' = approvedIds
      BY <2>2, <1>3 DEF StartCreate
    <3>2. cmd[q].step \in Copying => cmd[q].id \in Ids /\ Backed(cmd[q].rec, cmd[q].id)
      BY DEF IInv, TypeOK, CopyBacked, Command, Idle, Copying
    <3>3. cmd[q].step \in Copying => cmd[q].id # i
      BY <3>2, <1>5 DEF Backed
    <3> QED
      BY <3>1, <3>2, <3>3, <1>5 DEF IInv, CopyBacked, Backed
  <2> QED
    BY <2>1, <2>2
<1> QED
  BY <1>2, <1>4, <1>6, <1>7 DEF IInv

\* The command of p goes on with another step and record, still a good one.
LEMMA GotoPreserves ==
  ASSUME IInv, NEW p \in Procs, Running(p), NEW step, NEW rec,
         Goto(p, step, rec), UNCHANGED <<file, now, history>>,
         step \in {"decide", "truncate", "write", "done", "refused"},
         \/ rec = None /\ step \in {"done", "refused"}
         \/ /\ rec \in Approval
            /\ Backed(rec, cmd[p].id)
            /\ step = "decide" => cmd[p].kind # "create"
            /\ step = "decide" /\ rec.status = "approved" => cmd[p].id \in approvedIds
  PROVE  IInv'
<1> DEFINE c == [cmd[p] EXCEPT !.step = step, !.rec = rec]
<1>1. GoodCommand(cmd[p])
  BY RunningIsGood
<1>2. /\ c \in Command /\ c.step = step /\ c.rec = rec
      /\ c.id = cmd[p].id /\ c.kind = cmd[p].kind /\ c.req = cmd[p].req
  BY <1>1 DEF GoodCommand, Command
<1>3. GoodCommand(c)
  BY <1>1, <1>2 DEF GoodCommand, Copying
<1>4. cmd' = [cmd EXCEPT ![p] = c]
  BY DEF Goto
<1> HIDE DEF c
<1> QED
  BY <1>3, <1>4, OneCommandMoves

\* The record a command decides on, and the request of the command.
LEMMA Deciding ==
  ASSUME IInv, NEW p \in Procs, cmd[p].step \in Copying
  PROVE  /\ Running(p)
         /\ cmd[p] \in Command
         /\ cmd[p].id \in Ids
         /\ cmd[p].rec \in Approval
         /\ Backed(cmd[p].rec, cmd[p].id)
         /\ cmd[p].step = "decide" => cmd[p].kind \in Kinds \ {"create"}
BY DEF IInv, TypeOK, Shape, CopyBacked, Running, Idle, Copying, Command

LEMMA LoadPreserves ==
  ASSUME IInv, NEW p \in Procs, LoadMissing(p) \/ Load(p)
  PROVE  IInv'
<1>1. Running(p) /\ GoodCommand(cmd[p])
  BY RunningIsGood DEF LoadMissing, Load, Running
<1>2. CASE LoadMissing(p)
  BY <1>1, <1>2, GotoPreserves DEF LoadMissing
<1>3. CASE Load(p)
  <2>1. file[cmd[p].id] \in Approval /\ cmd[p].id \in Ids
    BY <1>1, <1>3 DEF Load, IInv, TypeOK, GoodCommand, Command
  <2>2. /\ Backed(file[cmd[p].id], cmd[p].id)
        /\ file[cmd[p].id].status = "approved" => cmd[p].id \in approvedIds
    BY <2>1 DEF IInv, FileBacked
  <2>3. cmd[p].kind # "create"
    BY <1>1, <1>3 DEF Load, GoodCommand
  <2> QED
    BY <1>1, <1>3, <2>1, <2>2, <2>3, GotoPreserves DEF Load
<1> QED
  BY <1>2, <1>3

LEMMA DecidePreserves ==
  ASSUME IInv, NEW p \in Procs, Refuse(p) \/ Expire(p) \/ Grant(p) \/ PassProbe(p)
  PROVE  IInv'
<1>1. cmd[p].step = "decide"
  BY DEF Refuse, Expire, Grant, PassProbe
<1>2. Running(p) /\ cmd[p].rec \in Approval /\ Backed(cmd[p].rec, cmd[p].id)
      /\ cmd[p].kind \in Kinds \ {"create"}
  BY <1>1, Deciding DEF Copying
<1>3. CASE Refuse(p)
  BY <1>2, <1>3, GotoPreserves DEF Refuse
<1>4. CASE PassProbe(p)
  BY <1>2, <1>4, GotoPreserves DEF PassProbe
<1>5. ASSUME NEW s \in Status, Goto(p, "truncate", [cmd[p].rec EXCEPT !.status = s]),
             UNCHANGED <<file, now, history>>
      PROVE  IInv'
  <2> DEFINE new == [cmd[p].rec EXCEPT !.status = s]
  <2>1. new \in Approval /\ Backed(new, cmd[p].id)
    BY <1>2, WithStatus DEF Backed
  <2> HIDE DEF new
  <2> QED
    BY <1>2, <1>5, <2>1, GotoPreserves DEF new
<1>6. CASE Expire(p)
  BY <1>5, <1>6 DEF Expire, Status
<1>7. CASE Grant(p)
  <2>1. SavedStatus(cmd[p].kind) \in Status
    BY <1>2, <1>7, SavedStatusType DEF Grant
  <2> QED
    BY <1>5, <1>7, <2>1 DEF Grant
<1> QED
  BY <1>3, <1>4, <1>6, <1>7

LEMMA TruncatePreserves ==
  ASSUME IInv, NEW p \in Procs, Truncate(p)
  PROVE  IInv'
<1> DEFINE c == [cmd[p] EXCEPT !.step = "write", !.rec = cmd[p].rec]
<1>1. /\ cmd[p] \in Command /\ cmd[p].id \in Ids /\ cmd[p].rec \in Approval
      /\ Backed(cmd[p].rec, cmd[p].id) /\ Running(p)
  BY Deciding DEF Truncate, Copying
<1>2. /\ c \in Command /\ c.step = "write" /\ c.rec = cmd[p].rec
      /\ c.id = cmd[p].id /\ c.kind = cmd[p].kind /\ c.req = cmd[p].req
  BY <1>1 DEF Command
<1> HIDE DEF c
<1>3. \A q \in Procs : cmd'[q] = IF q = p THEN c ELSE cmd[q]
  BY DEF IInv, TypeOK, Truncate, Goto, c
<1>4. TypeOK'
  <2>1. cmd' = [cmd EXCEPT ![p] = c]
    BY DEF Truncate, Goto, c
  <2> QED
    BY <1>1, <1>2, <2>1 DEF IInv, TypeOK, Truncate, history
<1>5. Shape'
  BY <1>1, <1>2, <1>3 DEF IInv, Shape, Running
<1>6. FileBacked'
  BY QueueAssumption DEF IInv, TypeOK, FileBacked, Backed, Truncate, history
<1>7. CopyBacked'
  BY <1>1, <1>2, <1>3 DEF IInv, CopyBacked, Backed, Truncate, history
<1> QED
  BY <1>4, <1>5, <1>6, <1>7 DEF IInv

LEMMA WritePreserves ==
  ASSUME IInv, NEW p \in Procs, Write(p)
  PROVE  IInv'
<1> DEFINE step == IF cmd[p].rec.status = "expired" THEN "refused" ELSE "done"
           c    == [cmd[p] EXCEPT !.step = step, !.rec = None]
<1>1. /\ cmd[p] \in Command /\ cmd[p].id \in Ids /\ cmd[p].rec \in Approval
      /\ Backed(cmd[p].rec, cmd[p].id) /\ Running(p)
  BY Deciding DEF Write, Copying
<1>2. /\ c \in Command /\ c.step \in {"done", "refused"}
      /\ c.id = cmd[p].id /\ c.kind = cmd[p].kind /\ c.req = cmd[p].req
  BY <1>1 DEF Command
<1>3. cmd' = [cmd EXCEPT ![p] = c]
  BY DEF Write, Goto
<1> HIDE DEF c
<1>4. \A q \in Procs : cmd'[q] = IF q = p THEN c ELSE cmd[q]
  BY <1>3 DEF IInv, TypeOK
<1>5. TypeOK'
  BY <1>1, <1>2, <1>3 DEF IInv, TypeOK, Write
<1>6. Shape'
  BY <1>2, <1>1, <1>4 DEF IInv, Shape, Running, Copying
<1>7. FileBacked'
  BY <1>1 DEF IInv, TypeOK, FileBacked, Backed, Write
<1>8. CopyBacked'
  BY <1>2, <1>4 DEF IInv, CopyBacked, Backed, Copying, Write
<1> QED
  BY <1>5, <1>6, <1>7, <1>8 DEF IInv

LEMMA EndPreserves ==
  ASSUME IInv, NEW p \in Procs, Return(p) \/ Crash(p)
  PROVE  IInv'
<1>1. \A q \in Procs : cmd'[q] = IF q = p THEN Idle ELSE cmd[q]
  BY DEF IInv, TypeOK, Return, Crash
<1>2. UNCHANGED <<file, now, issued, approvedIds>>
  BY DEF Return, Crash, history
<1>3. rejectedIds' \subseteq Ids
  <2>1. CASE Return(p)
    <3>1. cmd[p].id \in Ids
      BY <2>1 DEF IInv, TypeOK, Return, Command, Idle
    <3> QED
      BY <2>1, <3>1 DEF IInv, TypeOK, Return
  <2>2. CASE Crash(p)
    BY <2>2 DEF IInv, TypeOK, Crash, history
  <2> QED
    BY <2>1, <2>2
<1>4. uses' \in [Ids -> Nat]
  BY DEF IInv, TypeOK, Return, Crash, history
<1>5. TypeOK'
  <2>1. cmd' = [cmd EXCEPT ![p] = Idle]
    BY DEF Return, Crash
  <2> QED
    BY <2>1, <1>2, <1>3, <1>4 DEF IInv, TypeOK
<1>6. Shape' /\ CopyBacked'
  BY <1>1, <1>2 DEF IInv, Shape, CopyBacked, Backed, Running, Idle, Copying
<1>7. FileBacked'
  BY <1>2 DEF IInv, FileBacked, Backed
<1> QED
  BY <1>5, <1>6, <1>7 DEF IInv

LEMMA ClockPreserves ==
  ASSUME IInv, Tick \/ UNCHANGED vars
  PROVE  IInv'
<1>1. UNCHANGED <<file, cmd, history>> /\ now' \in Nat
  BY DEF Tick, vars, history, IInv, TypeOK
<1> QED
  BY <1>1 DEF IInv, TypeOK, Shape, FileBacked, CopyBacked, Backed, Running, history

LEMMA NextIInv == IInv /\ [Next]_vars => IInv'
<1> SUFFICES ASSUME IInv, [Next]_vars PROVE IInv'
  OBVIOUS
<1>1. CASE \E p \in Approvers, kind \in HumanKinds, i \in Ids : StartDecision(p, kind, i)
  BY <1>1, StartPreserves DEF Procs
<1>2. CASE \E p \in Gates, kind \in GateKinds, i \in Ids, req \in Requests :
             StartCheck(p, kind, i, req)
  BY <1>2, StartPreserves DEF Procs
<1>3. CASE \E p \in Gates, i \in Ids, req \in Requests : StartCreate(p, i, req)
  BY <1>3, CreatePreserves DEF Procs
<1>4. CASE \E p \in Procs : Step(p)
  BY <1>4, LoadPreserves, DecidePreserves, TruncatePreserves, WritePreserves DEF Step
<1>5. CASE (\E p \in Procs : Return(p)) \/ (\E p \in Procs : Crash(p))
  BY <1>5, EndPreserves
<1>6. CASE Tick \/ UNCHANGED vars
  BY <1>6, ClockPreserves
<1> QED
  BY <1>1, <1>2, <1>3, <1>4, <1>5, <1>6 DEF Next

\* The queue only ever holds values of the types it is meant to hold.
THEOREM TypeCorrect == Spec => []TypeOK
<1>1. IInv => TypeOK
  BY DEF IInv
<1> QED
  BY <1>1, InitIInv, NextIInv, PTL DEF Spec

-----------------------------------------------------------------------------
(***************************************************************************)
(* What the gate grants.                                                   *)
(***************************************************************************)

\* A gate that lets an operation through was deciding on an approved record.
LEMMA GrantingDecides ==
  ASSUME IInv, NEW p \in Gates, Granting(p), [Next]_vars
  PROVE  /\ cmd[p].rec.status = "approved"
         /\ Matches(cmd[p].rec.request, cmd[p].req)
         /\ now <= cmd[p].rec.expiresAt
<1> USE DEF Granting
<1>1. /\ Running(p) /\ cmd[p] \in Command /\ cmd[p].rec \in Approval
      /\ cmd[p].kind \in GateKinds /\ cmd[p].step = "decide" /\ p \in Procs
  BY Deciding DEF Copying, Procs
<1>2. cmd[p].req \in Requests /\ now \in Nat
  BY <1>1 DEF IInv, TypeOK, Shape
<1>3. cmd'[p] # cmd[p] /\ cmd'[p].step \in {"done", "truncate"}
  OBVIOUS
<1>5. ~\E q \in Approvers, kind \in HumanKinds, i \in Ids : StartDecision(q, kind, i)
  BY <1>1, <1>3 DEF StartDecision, MayStart, IInv, TypeOK
<1>6. ~\E q \in Gates, kind \in GateKinds, i \in Ids, req \in Requests :
         StartCheck(q, kind, i, req)
  BY <1>1, <1>3 DEF StartCheck, MayStart, IInv, TypeOK
<1>7. ~\E q \in Gates, i \in Ids, req \in Requests : StartCreate(q, i, req)
  BY <1>1, <1>3 DEF StartCreate, MayStart, IInv, TypeOK
<1>4. \A c : \A q \in Procs : cmd' = [cmd EXCEPT ![q] = c] => q = p /\ cmd'[p] = c
  BY <1>1, <1>3 DEF IInv, TypeOK
<1>8. ~\E q \in Procs : Return(q) \/ Crash(q)
  <2> SUFFICES ASSUME NEW q \in Procs, Return(q) \/ Crash(q) PROVE FALSE
    OBVIOUS
  <2>1. cmd'[p] = Idle
    BY <1>4 DEF Return, Crash
  <2> QED
    BY <2>1, <1>3 DEF Idle
<1>9. ~Tick /\ ~UNCHANGED vars
  BY <1>3 DEF Tick, vars
<1>10. PICK q \in Procs : Step(q)
  BY <1>5, <1>6, <1>7, <1>8, <1>9 DEF Next
<1>11. q = p
  <2>1. \E step, rec : Goto(q, step, rec)
    <3>1. CASE LoadMissing(q) \/ Load(q)
      BY <3>1, Zenon DEF LoadMissing, Load
    <3>2. CASE Refuse(q) \/ Expire(q)
      BY <3>2, Zenon DEF Refuse, Expire
    <3>3. CASE Grant(q) \/ PassProbe(q)
      BY <3>3, Zenon DEF Grant, PassProbe
    <3>4. CASE Truncate(q) \/ Write(q)
      BY <3>4, Zenon DEF Truncate, Write
    <3> QED
      BY <1>10, <3>1, <3>2, <3>3, <3>4 DEF Step
  <2>2. PICK step, rec : Goto(q, step, rec)
    BY <2>1
  <2> DEFINE c == [cmd[q] EXCEPT !.step = step, !.rec = rec]
  <2>3. cmd' = [cmd EXCEPT ![q] = c]
    BY <2>2 DEF Goto
  <2> QED
    BY <2>3, <1>4
<1>12. ~Refuse(p)
  <2> SUFFICES ASSUME Refuse(p) PROVE FALSE
    OBVIOUS
  <2> DEFINE c == [cmd[p] EXCEPT !.step = "refused", !.rec = None]
  <2>1. c.step = "refused"
    BY <1>1 DEF Command
  <2>2. cmd' = [cmd EXCEPT ![p] = c]
    BY DEF Refuse, Goto
  <2> QED
    BY <1>1, <1>3, <1>4, <2>1, <2>2
<1>13. ~Expire(p)
  <2> SUFFICES ASSUME Expire(p) PROVE FALSE
    OBVIOUS
  <2> DEFINE new == [cmd[p].rec EXCEPT !.status = "expired"]
             c   == [cmd[p] EXCEPT !.step = "truncate", !.rec = new]
  <2>1. new.status = "expired"
    BY <1>1, WithStatus DEF Status
  <2>2. c.step = "truncate" /\ c.rec = new
    BY <1>1 DEF Command
  <2>3. cmd' = [cmd EXCEPT ![p] = c]
    BY DEF Expire, Goto
  <2> HIDE DEF new, c
  <2> QED
    BY <1>1, <1>4, <2>1, <2>2, <2>3
<1>14. Grant(p) \/ PassProbe(p)
  BY <1>1, <1>10, <1>11, <1>12, <1>13 DEF Step, LoadMissing, Load, Truncate, Write
<1>15. GateVerdict(cmd[p].rec, cmd[p].req, now) = "grant"
  BY <1>1, <1>14 DEF Grant, PassProbe, Verdict, GateKinds, HumanKinds
<1> QED
  BY <1>1, <1>2, <1>15, GateGrants

\* Every grant of the gate is authorised, whatever runs beside it and dies.
THEOREM GrantsAuthorised == Spec => OnlyAuthorisedGrants
<1> DEFINE Authorised ==
      \A p \in Gates : Granting(p) =>
        /\ cmd[p].id \in approvedIds
        /\ issued[cmd[p].id].request.action = cmd[p].req.action
        /\ issued[cmd[p].id].request.argsHash = cmd[p].req.argsHash
        /\ issued[cmd[p].id].request.account \in {NoAccount, cmd[p].req.account}
        /\ now <= issued[cmd[p].id].expiresAt
<1>1. IInv /\ [Next]_vars => Authorised
  <2> SUFFICES ASSUME IInv, [Next]_vars, NEW p \in Gates, Granting(p)
               PROVE  /\ cmd[p].id \in approvedIds
                      /\ issued[cmd[p].id].request.action = cmd[p].req.action
                      /\ issued[cmd[p].id].request.argsHash = cmd[p].req.argsHash
                      /\ issued[cmd[p].id].request.account \in {NoAccount, cmd[p].req.account}
                      /\ now <= issued[cmd[p].id].expiresAt
    OBVIOUS
  <2>1. /\ cmd[p].rec.status = "approved"
        /\ Matches(cmd[p].rec.request, cmd[p].req)
        /\ now <= cmd[p].rec.expiresAt
    BY GrantingDecides
  <2>2. cmd[p].step = "decide" /\ p \in Procs
    BY DEF Granting, Procs
  <2>3. Backed(cmd[p].rec, cmd[p].id) /\ cmd[p].id \in approvedIds
    BY <2>1, <2>2 DEF IInv, CopyBacked, Copying
  <2> QED
    BY <2>1, <2>3 DEF Backed, Matches
<1> QED
  BY <1>1, InitIInv, NextIInv, PTL DEF Spec, OnlyAuthorisedGrants

-----------------------------------------------------------------------------
(***************************************************************************)
(* One person deciding at a time.  Approvals are then decided once: a      *)
(* pending record belongs to the person who holds a copy of it, an         *)
(* approved one to the gates, and a new one to the process creating it, so *)
(* no copy of an earlier status is ever written over a later one.          *)
(***************************************************************************)

OneDecider == \A p, q \in Approvers : p = q

Saving(p) == cmd[p].step \in {"truncate", "write"}

Pending(rec) == rec \in Approval /\ rec.status = "pending"

\* The rejection of i is saved, and reported or about to be.
Turned(i) ==
  \/ i \in rejectedIds
  \/ \E p \in Procs : cmd[p].step = "done" /\ cmd[p].kind = "reject" /\ cmd[p].id = i

Roles == \A p \in Procs : Running(p) /\ cmd[p].kind \in HumanKinds => p \in Approvers

Known == \A i \in Ids : i \in approvedIds \/ Turned(i) => issued[i] # None

\* Until its file is written nobody but its creator knows a new approval.
CreatorAlone ==
  \A p \in Procs : Saving(p) /\ cmd[p].kind = "create" =>
    /\ cmd[p].rec.status = "pending"
    /\ file[cmd[p].id] \in {None, Torn}
    /\ cmd[p].id \notin approvedIds /\ ~Turned(cmd[p].id)
    /\ \A q \in Procs : q # p /\ cmd[q].step \in Copying => cmd[q].id # cmd[p].id

\* Gates write to approvals that were approved, and only to close them.
GateCloses ==
  \A p \in Procs :
    /\ Saving(p) /\ cmd[p].kind \in GateKinds
         => cmd[p].rec.status \in {"consumed", "expired"} /\ cmd[p].id \in approvedIds
    /\ cmd[p].step = "done" /\ cmd[p].kind = "consume"
         => cmd[p].id \in approvedIds /\ ~Open(file[cmd[p].id])

\* A person decides on what still is pending.
HumanDecides ==
  \A p \in Procs :
    /\ Saving(p) /\ cmd[p].kind \in HumanKinds
         => cmd[p].rec.status \in {SavedStatus(cmd[p].kind), "expired"}
    /\ cmd[p].kind \in HumanKinds
         /\ (Saving(p) \/ (cmd[p].step = "decide" /\ cmd[p].rec.status = "pending"))
         => /\ cmd[p].id \notin approvedIds /\ ~Turned(cmd[p].id)
            /\ cmd[p].step = "write" => file[cmd[p].id] = Torn
            /\ cmd[p].step # "write" => Pending(file[cmd[p].id])

Undecided == \A i \in Ids : Pending(file[i]) => i \notin approvedIds /\ ~Turned(i)

DecidedOnce == \A i \in Ids : Turned(i) => i \notin approvedIds

UsedClosed == \A i \in Ids : uses[i] > 0 => i \in approvedIds /\ ~Open(file[i])

DecidingInv ==
  /\ Roles /\ Known /\ CreatorAlone /\ GateCloses /\ HumanDecides
  /\ Undecided /\ DecidedOnce /\ UsedClosed

DeciderInv == IInv /\ DecidingInv

LEMMA DeciderInit == Init => DeciderInv
<1> SUFFICES ASSUME Init PROVE DeciderInv
  OBVIOUS
<1>1. /\ \A p \in Procs : cmd[p].step = "idle"
      /\ \A i \in Ids : ~Turned(i) /\ file[i] = None /\ uses[i] = 0
      /\ approvedIds = {}
  BY DEF Init, Idle, Turned
<1>2. \A i \in Ids : ~Pending(file[i])
  BY <1>1, QueueAssumption DEF Pending
<1> QED
  BY <1>1, <1>2, InitIInv
     DEF DeciderInv, DecidingInv, Roles, Known, CreatorAlone, GateCloses, HumanDecides, Undecided,
         DecidedOnce, UsedClosed, Running, Saving

\* The conditions on a command p comes to without touching a file.
GoodMove(p, c) ==
  /\ c.step # "idle" /\ c.kind \in HumanKinds => p \in Approvers
  /\ c.step # "write"
  /\ c.step = "done" => c.kind = "probe"
  /\ c.step \in Copying => \A q \in Procs : q # p /\ Saving(q) /\ cmd[q].kind = "create"
                                              => cmd[q].id # c.id
  /\ c.step = "truncate" /\ c.kind = "create" =>
       /\ c.rec.status = "pending"
       /\ file[c.id] \in {None, Torn}
       /\ c.id \notin approvedIds /\ ~Turned(c.id)
       /\ \A q \in Procs : q # p /\ cmd[q].step \in Copying => cmd[q].id # c.id
  /\ c.step = "truncate" /\ c.kind \in GateKinds
       => c.rec.status \in {"consumed", "expired"} /\ c.id \in approvedIds
  /\ c.step = "truncate" /\ c.kind \in HumanKinds
       => c.rec.status \in {SavedStatus(c.kind), "expired"}
  /\ c.kind \in HumanKinds
       /\ (c.step = "truncate" \/ (c.step = "decide" /\ c.rec.status = "pending"))
       => c.id \notin approvedIds /\ ~Turned(c.id) /\ Pending(file[c.id])

LEMMA DeciderMove ==
  ASSUME DeciderInv, IInv', NEW p \in Procs, NEW c,
         \A q \in Procs : cmd'[q] = IF q = p THEN c ELSE cmd[q],
         UNCHANGED <<file, approvedIds, rejectedIds, uses>>,
         \A i \in Ids : issued[i] # None => issued'[i] # None,
         GoodMove(p, c)
  PROVE  DeciderInv'
<1>1. \A i : Turned(i)' => Turned(i)
  BY DEF Turned, GoodMove
<1>2. Roles'
  BY DEF DeciderInv, DecidingInv, Roles, Running, GoodMove
<1>3. Known' /\ Undecided' /\ DecidedOnce' /\ UsedClosed'
  BY <1>1 DEF DeciderInv, DecidingInv, Known, Undecided, DecidedOnce, UsedClosed, Pending, Open
<1>4. CreatorAlone'
  <2> SUFFICES ASSUME NEW q \in Procs, Saving(q)', cmd'[q].kind = "create"
               PROVE  /\ cmd'[q].rec.status = "pending"
                      /\ file[cmd'[q].id] \in {None, Torn}
                      /\ cmd'[q].id \notin approvedIds /\ ~Turned(cmd'[q].id)
                      /\ \A r \in Procs : r # q /\ cmd'[r].step \in Copying
                                            => cmd'[r].id # cmd'[q].id
    BY <1>1 DEF CreatorAlone, Turned
  <2>1. CASE q = p
    BY <2>1 DEF GoodMove, Saving
  <2>2. CASE q # p
    BY <2>2 DEF GoodMove, Saving, DeciderInv, DecidingInv, CreatorAlone
  <2> QED
    BY <2>1, <2>2
<1>5. GateCloses'
  BY DEF DeciderInv, DecidingInv, GateCloses, GoodMove, Saving, Open
<1>6. HumanDecides'
  <2> SUFFICES ASSUME NEW q \in Procs, cmd'[q].kind \in HumanKinds
               PROVE  /\ Saving(q)' => cmd'[q].rec.status \in {SavedStatus(cmd'[q].kind), "expired"}
                      /\ Saving(q)' \/ (cmd'[q].step = "decide" /\ cmd'[q].rec.status = "pending")
                           => /\ cmd'[q].id \notin approvedIds /\ ~Turned(cmd'[q].id)
                              /\ cmd'[q].step = "write" => file[cmd'[q].id] = Torn
                              /\ cmd'[q].step # "write" => Pending(file[cmd'[q].id])
    BY <1>1, ZenonT(40) DEF HumanDecides, SavedStatus, Pending, Turned
  <2>1. CASE q = p
    BY <2>1 DEF GoodMove, Saving
  <2>2. CASE q # p
    BY <2>2 DEF Saving, DeciderInv, DecidingInv, HumanDecides
  <2> QED
    BY <2>1, <2>2
<1> QED
  BY <1>2, <1>3, <1>4, <1>5, <1>6 DEF DeciderInv, DecidingInv

\* A running command goes to another step with another record.
LEMMA GotoStep ==
  ASSUME IInv, NEW p \in Procs, Running(p), NEW step, NEW rec, Goto(p, step, rec)
  PROVE  /\ \A q \in Procs : cmd'[q] = IF q = p THEN cmd'[p] ELSE cmd[q]
         /\ cmd'[p].step = step /\ cmd'[p].rec = rec
         /\ cmd'[p].id = cmd[p].id /\ cmd'[p].kind = cmd[p].kind /\ cmd'[p].req = cmd[p].req
<1>1. cmd[p] \in Command
  BY DEF IInv, TypeOK, Running, Idle
<1>2. cmd'[p] = [cmd[p] EXCEPT !.step = step, !.rec = rec]
      /\ \A q \in Procs : q # p => cmd'[q] = cmd[q]
  BY DEF Goto, IInv, TypeOK
<1> QED
  BY <1>1, <1>2 DEF Command

LEMMA DeciderStarts ==
  ASSUME DeciderInv,
         \/ \E p \in Approvers, kind \in HumanKinds, i \in Ids : StartDecision(p, kind, i)
         \/ \E p \in Gates, kind \in GateKinds, i \in Ids, req \in Requests :
              StartCheck(p, kind, i, req)
  PROVE  DeciderInv'
<1>1. IInv'
  BY NextIInv DEF Next, DeciderInv
<1>2. ASSUME NEW p \in Procs, NEW c, cmd' = [cmd EXCEPT ![p] = c], c.step = "load",
             c.kind \in HumanKinds => p \in Approvers, UNCHANGED <<file, now, history>>
      PROVE  DeciderInv'
  <2>1. GoodMove(p, c)
    BY <1>2 DEF GoodMove, Copying
  <2>2. \A q \in Procs : cmd'[q] = IF q = p THEN c ELSE cmd[q]
    BY <1>2 DEF DeciderInv, IInv, TypeOK
  <2> QED
    BY <1>1, <1>2, <2>1, <2>2, DeciderMove DEF history
<1>3. ASSUME NEW p \in Approvers, NEW kind \in HumanKinds, NEW i \in Ids,
             StartDecision(p, kind, i)
      PROVE  DeciderInv'
  BY <1>2, <1>3 DEF StartDecision, Procs
<1>4. ASSUME NEW p \in Gates, NEW kind \in GateKinds, NEW i \in Ids, NEW req \in Requests,
             StartCheck(p, kind, i, req)
      PROVE  DeciderInv'
  BY <1>2, <1>4 DEF StartCheck, Procs, HumanKinds, GateKinds
<1> QED
  BY <1>3, <1>4

LEMMA DeciderCreates ==
  ASSUME DeciderInv, NEW p \in Gates, NEW i \in Ids, NEW req \in Requests, StartCreate(p, i, req)
  PROVE  DeciderInv'
<1> DEFINE c == [step |-> "truncate", kind |-> "create", id |-> i, req |-> None,
                 rec |-> NewApproval(req, now, Ttl)]
<1>1. IInv'
  BY NextIInv DEF Next, DeciderInv
<1>2. p \in Procs /\ \A q \in Procs : cmd'[q] = IF q = p THEN c ELSE cmd[q]
  BY DEF StartCreate, DeciderInv, IInv, TypeOK, Procs
<1>3. /\ file[i] \in {None, Torn}
      /\ i \notin approvedIds /\ ~Turned(i)
      /\ \A q \in Procs : cmd[q].step \in Copying => cmd[q].id # i
  BY QueueAssumption
     DEF StartCreate, DeciderInv, DecidingInv, Known, IInv, TypeOK, FileBacked, CopyBacked, Backed
<1>4. c.rec.status = "pending"
  BY DEF NewApproval
<1>5. GoodMove(p, c)
  BY <1>3, <1>4 DEF GoodMove, HumanKinds, GateKinds, Copying, Saving
<1>6. \A j \in Ids : issued[j] # None => issued'[j] # None
  BY DEF StartCreate, DeciderInv, IInv, TypeOK
<1> HIDE DEF c
<1> QED
  BY <1>1, <1>2, <1>5, <1>6, DeciderMove DEF StartCreate

LEMMA DeciderLoads ==
  ASSUME DeciderInv, NEW p \in Procs, LoadMissing(p) \/ Load(p)
  PROVE  DeciderInv'
<1>1. /\ Running(p) /\ UNCHANGED <<file, issued, approvedIds, rejectedIds, uses>>
      /\ cmd[p].step = "load" /\ cmd[p].id \in Ids /\ cmd[p].kind # "create"
  BY DEF LoadMissing, Load, Running, history, DeciderInv, IInv, TypeOK, Shape, Idle, Command
<1>2. IInv'
  BY NextIInv DEF Next, Step, DeciderInv
<1>3. cmd[p].kind \in HumanKinds => p \in Approvers
  BY <1>1 DEF DeciderInv, DecidingInv, Roles
<1>4. CASE LoadMissing(p)
  <2>1. Goto(p, "refused", None)
    BY <1>4 DEF LoadMissing
  <2>2. GoodMove(p, cmd'[p])
    BY <1>1, <1>3, <2>1, GotoStep DEF GoodMove, Copying, DeciderInv
  <2> QED
    BY <1>1, <1>2, <2>1, <2>2, GotoStep, DeciderMove DEF DeciderInv
<1>5. CASE Load(p)
  <2>1. Goto(p, "decide", file[cmd[p].id]) /\ file[cmd[p].id] \in Approval
    BY <1>1, <1>5 DEF Load, DeciderInv, IInv, TypeOK
  <2>2. \A q \in Procs : Saving(q) /\ cmd[q].kind = "create" => cmd[q].id # cmd[p].id
    BY <1>5 DEF Load, DeciderInv, DecidingInv, CreatorAlone
  <2>3. file[cmd[p].id].status = "pending"
          => cmd[p].id \notin approvedIds /\ ~Turned(cmd[p].id) /\ Pending(file[cmd[p].id])
    BY <1>1, <2>1 DEF Pending, DeciderInv, DecidingInv, Undecided
  <2>4. GoodMove(p, cmd'[p])
    BY <1>1, <1>3, <2>1, <2>2, <2>3, GotoStep DEF GoodMove, Copying, DeciderInv
  <2> QED
    BY <1>1, <1>2, <2>1, <2>4, GotoStep, DeciderMove DEF DeciderInv
<1> QED
  BY <1>4, <1>5

LEMMA DeciderDecides ==
  ASSUME DeciderInv, NEW p \in Procs, Refuse(p) \/ Expire(p) \/ Grant(p) \/ PassProbe(p)
  PROVE  DeciderInv'
<1>1. /\ Running(p) /\ UNCHANGED <<file, issued, approvedIds, rejectedIds, uses>>
      /\ cmd[p].step = "decide"
  BY DEF Refuse, Expire, Grant, PassProbe, Running, history
<1>2. IInv'
  BY NextIInv DEF Next, Step, DeciderInv
<1>3. /\ cmd[p].rec \in Approval /\ cmd[p].kind \in Kinds \ {"create"}
      /\ cmd[p].rec.status = "approved" => cmd[p].id \in approvedIds
      /\ cmd[p].kind \in HumanKinds => p \in Approvers
  BY <1>1, Deciding DEF DeciderInv, DecidingInv, Roles, Copying, IInv, CopyBacked
<1>4. \A q \in Procs : q # p /\ Saving(q) /\ cmd[q].kind = "create" => cmd[q].id # cmd[p].id
  BY <1>1 DEF DeciderInv, DecidingInv, CreatorAlone, Copying
<1>5. CASE Refuse(p)
  <2>1. Goto(p, "refused", None)
    BY <1>5 DEF Refuse
  <2>2. GoodMove(p, cmd'[p])
    BY <1>1, <1>3, <2>1, GotoStep DEF GoodMove, Copying, DeciderInv
  <2> QED
    BY <1>1, <1>2, <2>1, <2>2, GotoStep, DeciderMove DEF DeciderInv
<1>6. CASE PassProbe(p)
  <2>1. Goto(p, "done", None) /\ cmd[p].kind = "probe"
    BY <1>6 DEF PassProbe
  <2>2. GoodMove(p, cmd'[p])
    BY <1>1, <1>3, <2>1, GotoStep DEF GoodMove, Copying, DeciderInv
  <2> QED
    BY <1>1, <1>2, <2>1, <2>2, GotoStep, DeciderMove DEF DeciderInv
<1>7. ASSUME NEW s \in Status, Goto(p, "truncate", [cmd[p].rec EXCEPT !.status = s]),
             s = "expired" \/ (s = SavedStatus(cmd[p].kind) /\ cmd[p].kind # "probe"),
             Verdict(cmd[p]) # "refuse"
      PROVE  DeciderInv'
  <2> DEFINE new == [cmd[p].rec EXCEPT !.status = s]
  <2>1. new.status = s
    BY <1>3, WithStatus
  <2>2. cmd[p].kind \in HumanKinds =>
          /\ cmd[p].rec.status = "pending"
          /\ cmd[p].id \notin approvedIds /\ ~Turned(cmd[p].id) /\ Pending(file[cmd[p].id])
    <3>1. cmd[p].kind \in HumanKinds => cmd[p].rec.status = "pending"
      BY <1>7 DEF Verdict, HumanVerdict
    <3> QED
      BY <1>1, <3>1 DEF DeciderInv, DecidingInv, HumanDecides
  <2>3. cmd[p].kind \in GateKinds =>
          s \in {"consumed", "expired"} /\ cmd[p].id \in approvedIds
    <3>1. cmd[p].kind \in GateKinds => cmd[p].rec.status = "approved"
      BY <1>7 DEF Verdict, GateVerdict, HumanKinds, GateKinds
    <3>2. cmd[p].kind = "consume" => SavedStatus(cmd[p].kind) = "consumed"
      BY DEF SavedStatus
    <3> QED
      BY <1>3, <1>7, <3>1, <3>2 DEF GateKinds
  <2>4. cmd[p].kind \in HumanKinds \cup GateKinds
    BY <1>3 DEF Kinds
  <2> HIDE DEF new
  <2>5. GoodMove(p, cmd'[p])
    <3>1. /\ cmd'[p].step = "truncate" /\ cmd'[p].rec.status = s
          /\ cmd'[p].id = cmd[p].id /\ cmd'[p].kind = cmd[p].kind
      <4>1. Goto(p, "truncate", new)
        BY <1>7 DEF new
      <4>2. /\ cmd'[p].step = "truncate" /\ cmd'[p].rec = new
            /\ cmd'[p].id = cmd[p].id /\ cmd'[p].kind = cmd[p].kind
        BY <1>1, <4>1, GotoStep DEF DeciderInv
      <4> QED
        BY <2>1, <4>2
    <3>2. cmd[p].kind # "create"
      BY <1>3
    <3> QED
      BY <1>3, <1>4, <1>7, <2>2, <2>3, <3>1, <3>2 DEF GoodMove, Copying
  <2> QED
    BY <1>1, <1>2, <1>7, <2>5, GotoStep, DeciderMove DEF DeciderInv
<1>8. CASE Expire(p)
  BY <1>7, <1>8 DEF Expire, Status
<1>9. CASE Grant(p)
  <2>1. SavedStatus(cmd[p].kind) \in Status
    BY <1>3, <1>9, SavedStatusType DEF Grant
  <2> QED
    BY <1>7, <1>9, <2>1 DEF Grant
<1> QED
  BY <1>5, <1>6, <1>8, <1>9

LEMMA DeciderTruncates ==
  ASSUME DeciderInv, OneDecider, NEW p \in Procs, Truncate(p)
  PROVE  DeciderInv'
<1>1. /\ Running(p) /\ UNCHANGED <<issued, approvedIds, rejectedIds, uses>>
      /\ cmd[p].step = "truncate" /\ cmd[p].id \in Ids
      /\ Goto(p, "write", cmd[p].rec)
      /\ \A j \in Ids : file'[j] = IF j = cmd[p].id THEN Torn ELSE file[j]
  BY DEF Truncate, Running, history, DeciderInv, IInv, TypeOK, Idle, Command
<1>2. IInv'
  BY NextIInv DEF Next, Step, DeciderInv
<1>3. /\ \A q \in Procs : cmd'[q] = IF q = p THEN cmd'[p] ELSE cmd[q]
      /\ cmd'[p].step = "write" /\ cmd'[p].rec = cmd[p].rec
      /\ cmd'[p].id = cmd[p].id /\ cmd'[p].kind = cmd[p].kind
  BY <1>1, GotoStep DEF DeciderInv
<1>4. \A i : Turned(i)' <=> Turned(i)
  BY <1>1, <1>3 DEF Turned
<1>5. \A rec : rec = Torn => ~Pending(rec) /\ ~Open(rec)
  BY QueueAssumption DEF Pending, Open
<1>6. Roles' /\ Known'
  BY <1>1, <1>3, <1>4 DEF DeciderInv, DecidingInv, Roles, Running, Known
<1>7. Undecided' /\ DecidedOnce' /\ UsedClosed'
  BY <1>1, <1>4, <1>5
     DEF DeciderInv, DecidingInv, Undecided, DecidedOnce, UsedClosed, Open, Pending
<1>8. \A q \in Procs : cmd[q].step # "idle" => cmd[q].id \in Ids
  BY DEF DeciderInv, IInv, TypeOK, Idle, Command
<1>9. CreatorAlone'
  <2> SUFFICES ASSUME NEW q \in Procs, Saving(q)', cmd'[q].kind = "create"
               PROVE  /\ cmd'[q].rec.status = "pending"
                      /\ file'[cmd'[q].id] \in {None, Torn}
                      /\ cmd'[q].id \notin approvedIds' /\ ~Turned(cmd'[q].id)
                      /\ \A r \in Procs : r # q /\ cmd'[r].step \in Copying
                                            => cmd'[r].id # cmd'[q].id
    BY <1>4 DEF CreatorAlone, Turned
  <2>1. cmd'[q].id \in Ids /\ Saving(q) /\ cmd[q].kind = "create" /\ cmd'[q].id = cmd[q].id
        /\ cmd'[q].rec = cmd[q].rec
    BY <1>1, <1>3, <1>8 DEF Saving
  <2>2. \A r \in Procs : cmd'[r].step \in Copying => cmd[r].step \in Copying /\ cmd'[r].id = cmd[r].id
    BY <1>1, <1>3 DEF Copying
  <2> QED
    BY <1>1, <2>1, <2>2 DEF DeciderInv, DecidingInv, CreatorAlone
<1>10. GateCloses'
  <2> SUFFICES ASSUME NEW q \in Procs
               PROVE  /\ Saving(q)' /\ cmd'[q].kind \in GateKinds
                           => cmd'[q].rec.status \in {"consumed", "expired"}
                              /\ cmd'[q].id \in approvedIds'
                      /\ cmd'[q].step = "done" /\ cmd'[q].kind = "consume"
                           => cmd'[q].id \in approvedIds' /\ ~Open(file'[cmd'[q].id])
    BY DEF GateCloses, Open
  <2>1. CASE q = p
    BY <2>1, <1>1, <1>3 DEF DeciderInv, DecidingInv, GateCloses, Saving
  <2>2. CASE q # p
    BY <2>2, <1>1, <1>3, <1>5, <1>8 DEF DeciderInv, DecidingInv, GateCloses, Saving
  <2> QED
    BY <2>1, <2>2
<1>11. HumanDecides'
  <2> SUFFICES ASSUME NEW q \in Procs, cmd'[q].kind \in HumanKinds
               PROVE  /\ Saving(q)' => cmd'[q].rec.status \in {SavedStatus(cmd[q].kind)', "expired"}
                      /\ Saving(q)' \/ (cmd'[q].step = "decide" /\ cmd'[q].rec.status = "pending")
                           => /\ cmd'[q].id \notin approvedIds' /\ ~Turned(cmd[q].id)'
                              /\ cmd'[q].step = "write" => file'[cmd'[q].id] = Torn
                              /\ cmd'[q].step # "write" => Pending(file[cmd[q].id])'
    BY DEF HumanDecides
  <2> USE <1>4 DEF Turned
  <2>1. CASE q = p
    BY <2>1, <1>1, <1>3 DEF DeciderInv, DecidingInv, HumanDecides, Saving
  <2>2. CASE q # p
    <3>1. cmd'[q] = cmd[q]
      BY <2>2, <1>3
    <3>2. Saving(q) \/ (cmd[q].step = "decide" /\ cmd[q].rec.status = "pending")
            => cmd[p].id # cmd[q].id
      <4>1. CASE cmd[p].kind = "create"
        BY <2>2, <4>1, <1>1 DEF DeciderInv, DecidingInv, CreatorAlone, Saving, Copying
      <4>2. CASE cmd[p].kind \in GateKinds
        BY <3>1, <4>2, <1>1 DEF DeciderInv, DecidingInv, GateCloses, HumanDecides, Saving
      <4>3. CASE cmd[p].kind \in HumanKinds
        BY <2>2, <3>1, <4>3, <1>1 DEF DeciderInv, DecidingInv, Roles, OneDecider, Running, Saving
      <4> QED
        BY <1>1, <4>1, <4>2, <4>3, Deciding DEF Copying, DeciderInv, Command, Kinds
    <3> QED
      BY <3>1, <3>2, <1>1, <1>8 DEF DeciderInv, DecidingInv, HumanDecides, Saving
  <2> QED
    BY <2>1, <2>2
<1> QED
  BY <1>2, <1>6, <1>7, <1>9, <1>10, <1>11 DEF DeciderInv, DecidingInv

\* Commands that hold a copy of the same record: never a creator and another,
\* never a person and a gate with something to save.
LEMMA Rivals ==
  ASSUME DeciderInv, OneDecider, NEW p \in Procs, NEW q \in Procs, p # q,
         cmd[p].step = "write", cmd[q].id = cmd[p].id
  PROVE  /\ cmd[q].step \in Copying => cmd[q].kind # "create" /\ cmd[p].kind # "create"
         /\ Saving(q) \/ (cmd[q].step = "decide" /\ cmd[q].rec.status = "pending")
              => cmd[q].kind \notin HumanKinds
<1>1. cmd[q].step \in Copying => cmd[q].kind # "create" /\ cmd[p].kind # "create"
  BY DEF DeciderInv, DecidingInv, CreatorAlone, Saving, Copying, IInv, Shape
<1>2. ASSUME Saving(q) \/ (cmd[q].step = "decide" /\ cmd[q].rec.status = "pending"),
             cmd[q].kind \in HumanKinds
      PROVE  FALSE
  <2>1. cmd[p].kind # "create"
    BY <1>1, <1>2 DEF Saving, Copying
  <2>2. CASE cmd[p].kind \in GateKinds
    BY <1>2, <2>2 DEF DeciderInv, DecidingInv, GateCloses, HumanDecides, Saving
  <2>3. CASE cmd[p].kind \in HumanKinds
    BY <1>2, <2>3 DEF DeciderInv, DecidingInv, Roles, OneDecider, Running, Saving
  <2> QED
    BY <2>1, <2>2, <2>3, Deciding DEF Copying, DeciderInv, Command, Kinds
<1> QED
  BY <1>1, <1>2

LEMMA DeciderWrites ==
  ASSUME DeciderInv, OneDecider, NEW p \in Procs, Write(p)
  PROVE  DeciderInv'
<1> DEFINE i   == cmd[p].id
           rec == cmd[p].rec
<1>1. /\ Running(p) /\ UNCHANGED <<issued, rejectedIds, uses>>
      /\ cmd[p].step = "write" /\ i \in Ids /\ rec \in Approval /\ cmd[p].kind \in Kinds
      /\ Backed(rec, i)
      /\ \A j \in Ids : file'[j] = IF j = i THEN rec ELSE file[j]
      /\ approvedIds' = IF rec.status = "approved" THEN approvedIds \cup {i} ELSE approvedIds
  BY Deciding DEF Write, Running, Copying, DeciderInv, IInv, TypeOK, Command
<1>2. IInv'
  BY NextIInv DEF Next, Step, DeciderInv
<1>3. /\ \A q \in Procs : cmd'[q] = IF q = p THEN cmd'[p] ELSE cmd[q]
      /\ cmd'[p].step \in {"done", "refused"}
      /\ cmd'[p].step = "done" => rec.status # "expired"
      /\ cmd'[p].id = i /\ cmd'[p].kind = cmd[p].kind
  <2>1. Goto(p, "done", None) \/ Goto(p, "refused", None)
    BY DEF Write
  <2>2. rec.status = "expired" => Goto(p, "refused", None)
    BY DEF Write
  <2> QED
    BY <1>1, <2>1, <2>2, GotoStep DEF DeciderInv
<1>4. \A q \in Procs : cmd[q].step # "idle" => cmd[q].id \in Ids
  BY DEF DeciderInv, IInv, TypeOK, Idle, Command
<1>5. issued[i] # None /\ rec # None /\ rec # Torn
  BY <1>1, QueueAssumption DEF Backed
\* Who may be writing what.
<1>6. cmd[p].kind = "create" =>
        /\ rec.status = "pending" /\ i \notin approvedIds /\ ~Turned(i)
        /\ \A q \in Procs : q # p /\ cmd[q].step \in Copying => cmd[q].id # i
  BY <1>1 DEF DeciderInv, DecidingInv, CreatorAlone, Saving
<1>7. cmd[p].kind \in GateKinds => rec.status \in {"consumed", "expired"} /\ i \in approvedIds
  BY <1>1 DEF DeciderInv, DecidingInv, GateCloses, Saving
<1>8. cmd[p].kind \in HumanKinds =>
        rec.status \in {SavedStatus(cmd[p].kind), "expired"} /\ i \notin approvedIds /\ ~Turned(i)
  BY <1>1 DEF DeciderInv, DecidingInv, HumanDecides, Saving
<1>9. SavedStatus("approve") = "approved" /\ SavedStatus("reject") = "rejected"
  BY DEF SavedStatus
<1>10. \/ cmd[p].kind = "create" \/ cmd[p].kind \in GateKinds
       \/ cmd[p].kind \in {"approve", "reject"} /\ cmd[p].kind \in HumanKinds
  BY <1>1 DEF Kinds, HumanKinds, GateKinds
<1>11. \A j : Turned(j)' => Turned(j) \/ (j = i /\ cmd[p].kind = "reject")
  BY <1>1, <1>3 DEF Turned
<1> HIDE DEF i, rec
<1>12. Roles'
  BY <1>1, <1>3 DEF DeciderInv, DecidingInv, Roles, Running
<1>13. Known'
  BY <1>1, <1>5, <1>11 DEF DeciderInv, DecidingInv, Known
<1>14. Undecided'
  <2> SUFFICES ASSUME NEW j \in Ids, Pending(file[j])'
               PROVE  j \notin approvedIds' /\ ~Turned(j)'
    BY DEF Undecided
  <2>1. CASE j = i
    <3>1. rec.status = "pending"
      BY <1>1, <2>1 DEF Pending
    <3>2. cmd[p].kind = "create"
      BY <1>7, <1>8, <1>9, <1>10, <3>1
    <3> QED
      BY <1>1, <1>6, <1>11, <2>1, <3>1, <3>2
  <2>2. CASE j # i
    BY <1>1, <1>11, <2>2 DEF DeciderInv, DecidingInv, Undecided, Pending
  <2> QED
    BY <2>1, <2>2
<1>15. DecidedOnce'
  <2> SUFFICES ASSUME NEW j \in Ids, Turned(j)' PROVE j \notin approvedIds'
    BY DEF DecidedOnce
  <2>1. CASE j = i
    <3>1. CASE cmd[p].kind = "reject"
      BY <1>1, <1>8, <1>9, <2>1, <3>1 DEF HumanKinds
    <3>2. CASE cmd[p].kind # "reject"
      <4>1. Turned(i) /\ i \notin approvedIds
        BY <1>1, <1>11, <2>1, <3>2 DEF DeciderInv, DecidingInv, DecidedOnce
      <4> QED
        BY <1>1, <1>6, <1>7, <1>8, <1>10, <2>1, <4>1
    <3> QED
      BY <3>1, <3>2
  <2>2. CASE j # i
    BY <1>1, <1>11, <2>2 DEF DeciderInv, DecidingInv, DecidedOnce
  <2> QED
    BY <2>1, <2>2
<1>16. UsedClosed'
  <2> SUFFICES ASSUME NEW j \in Ids, uses[j] > 0
               PROVE  j \in approvedIds' /\ ~Open(file'[j])
    BY <1>1 DEF UsedClosed, Open
  <2>1. j \in approvedIds /\ ~Open(file[j])
    BY DEF DeciderInv, DecidingInv, UsedClosed
  <2>2. CASE j = i
    BY <1>1, <1>6, <1>7, <1>8, <1>10, <2>1, <2>2 DEF Open
  <2>3. CASE j # i
    BY <1>1, <2>1, <2>3
  <2> QED
    BY <2>2, <2>3
<1>17. CreatorAlone'
  <2> SUFFICES ASSUME NEW q \in Procs, Saving(q)', cmd'[q].kind = "create"
               PROVE  /\ cmd'[q].rec.status = "pending"
                      /\ file'[cmd'[q].id] \in {None, Torn}
                      /\ cmd'[q].id \notin approvedIds' /\ ~Turned(cmd[q].id)'
                      /\ \A r \in Procs : r # q /\ cmd'[r].step \in Copying
                                            => cmd'[r].id # cmd'[q].id
    BY DEF CreatorAlone
  <2>1. q # p /\ cmd'[q] = cmd[q] /\ Saving(q)
    BY <1>3 DEF Saving
  <2>2. /\ cmd[q].rec.status = "pending" /\ file[cmd[q].id] \in {None, Torn}
        /\ cmd[q].id \notin approvedIds /\ ~Turned(cmd[q].id)
        /\ \A r \in Procs : r # q /\ cmd[r].step \in Copying => cmd[r].id # cmd[q].id
    BY <2>1 DEF DeciderInv, DecidingInv, CreatorAlone
  <2>3. cmd[q].id # i
    BY <1>1, <2>1, <2>2 DEF Copying, i
  <2>4. \A r \in Procs : cmd'[r].step \in Copying => r # p /\ cmd'[r] = cmd[r]
    BY <1>3 DEF Copying
  <2>5. cmd[q].id \in Ids /\ ~Turned(cmd[q].id)'
    BY <1>4, <1>11, <2>1, <2>2, <2>3 DEF Saving
  <2> QED
    BY <1>1, <2>1, <2>2, <2>3, <2>4, <2>5
<1>18. GateCloses'
  <2> SUFFICES ASSUME NEW q \in Procs
               PROVE  /\ Saving(q)' /\ cmd'[q].kind \in GateKinds
                           => cmd'[q].rec.status \in {"consumed", "expired"}
                              /\ cmd'[q].id \in approvedIds'
                      /\ cmd'[q].step = "done" /\ cmd'[q].kind = "consume"
                           => cmd'[q].id \in approvedIds' /\ ~Open(file'[cmd'[q].id])
    BY DEF GateCloses, Open
  <2>1. CASE q = p
    BY <2>1, <1>1, <1>3, <1>7 DEF Saving, Open, GateKinds
  <2>2. CASE q # p
    <3>1. cmd'[q] = cmd[q]
      BY <2>2, <1>3
    <3>2. ASSUME cmd[q].step = "done", cmd[q].kind = "consume"
          PROVE  cmd[q].id \in approvedIds' /\ ~Open(file'[cmd[q].id])
      <4>1. cmd[q].id \in approvedIds /\ ~Open(file[cmd[q].id]) /\ cmd[q].id \in Ids
        BY <1>4, <3>2 DEF DeciderInv, DecidingInv, GateCloses
      <4>2. CASE cmd[q].id = i
        BY <1>1, <1>6, <1>7, <1>8, <1>10, <4>1, <4>2 DEF Open
      <4>3. CASE cmd[q].id # i
        BY <1>1, <4>1, <4>3
      <4> QED
        BY <4>2, <4>3
    <3>3. Saving(q) /\ cmd[q].kind \in GateKinds
            => cmd[q].rec.status \in {"consumed", "expired"} /\ cmd[q].id \in approvedIds'
      BY <1>1 DEF DeciderInv, DecidingInv, GateCloses
    <3> QED
      BY <3>1, <3>2, <3>3 DEF Saving
  <2> QED
    BY <2>1, <2>2
<1>19. HumanDecides'
  <2> SUFFICES ASSUME NEW q \in Procs, cmd'[q].kind \in HumanKinds
               PROVE  /\ Saving(q)' => cmd'[q].rec.status \in {SavedStatus(cmd[q].kind)', "expired"}
                      /\ Saving(q)' \/ (cmd'[q].step = "decide" /\ cmd'[q].rec.status = "pending")
                           => /\ cmd'[q].id \notin approvedIds' /\ ~Turned(cmd[q].id)'
                              /\ cmd'[q].step = "write" => file'[cmd'[q].id] = Torn
                              /\ cmd'[q].step # "write" => Pending(file[cmd[q].id])'
    BY DEF HumanDecides
  <2>1. CASE q = p
    BY <2>1, <1>3 DEF Saving
  <2>2. CASE q # p
    <3>1. cmd'[q] = cmd[q]
      BY <2>2, <1>3
    <3>2. SavedStatus(cmd[q].kind)' = SavedStatus(cmd[q].kind)
      BY <3>1, Zenon DEF SavedStatus
    <3>3. Saving(q) => cmd[q].rec.status \in {SavedStatus(cmd[q].kind), "expired"}
      BY <3>1 DEF DeciderInv, DecidingInv, HumanDecides
    <3>4. ASSUME Saving(q) \/ (cmd[q].step = "decide" /\ cmd[q].rec.status = "pending")
          PROVE  /\ cmd[q].id \notin approvedIds' /\ ~Turned(cmd[q].id)'
                 /\ cmd[q].step = "write" => file'[cmd[q].id] = Torn
                 /\ cmd[q].step # "write" => Pending(file'[cmd[q].id])
      <4>1. cmd[q].id # i /\ cmd[q].id \in Ids
        BY <1>1, <1>4, <2>2, <3>1, <3>4, Rivals DEF i, Saving
      <4>2. /\ cmd[q].id \notin approvedIds /\ ~Turned(cmd[q].id)
            /\ cmd[q].step = "write" => file[cmd[q].id] = Torn
            /\ cmd[q].step # "write" => Pending(file[cmd[q].id])
        BY <3>1, <3>4 DEF DeciderInv, DecidingInv, HumanDecides
      <4>3. ~Turned(cmd[q].id)'
        BY <1>11, <3>1, <4>1, <4>2
      <4> QED
        BY <1>1, <4>1, <4>2, <4>3
    <3>5. Pending(file[cmd[q].id])' = Pending(file'[cmd[q].id])
      BY <3>1 DEF Pending
    <3> QED
      BY <3>1, <3>2, <3>3, <3>4, <3>5 DEF Saving
  <2> QED
    BY <2>1, <2>2
<1> QED
  BY <1>2, <1>12, <1>13, <1>14, <1>15, <1>16, <1>17, <1>18, <1>19 DEF DeciderInv, DecidingInv

LEMMA DeciderEnds ==
  ASSUME DeciderInv, NEW p \in Procs, Return(p) \/ Crash(p)
  PROVE  DeciderInv'
<1>1. /\ \A q \in Procs : cmd'[q] = IF q = p THEN Idle ELSE cmd[q]
      /\ UNCHANGED <<file, issued, approvedIds>>
  BY DEF Return, Crash, history, DeciderInv, IInv, TypeOK
<1>2. IInv'
  BY NextIInv DEF Next, DeciderInv
<1>3. \A i : Turned(i)' => Turned(i)
  BY <1>1 DEF Turned, Return, Crash, history, Idle
<1>4. \A i \in Ids : uses'[i] > 0 => uses[i] > 0 \/ (i \in approvedIds /\ ~Open(file[i]))
  BY DEF Return, Crash, history, DeciderInv, DecidingInv, GateCloses, IInv, TypeOK
<1>5. /\ Roles' /\ Known' /\ Undecided' /\ DecidedOnce' /\ UsedClosed'
  BY <1>1, <1>3, <1>4 DEF DeciderInv, DecidingInv, Roles, Known, Undecided, DecidedOnce,
                          UsedClosed, Running, Idle, Pending, Open
<1>6. CreatorAlone' /\ GateCloses'
  BY <1>1, <1>3 DEF DeciderInv, DecidingInv, CreatorAlone, GateCloses, Saving, Idle, Open, Copying
<1>7. HumanDecides'
  <2> SUFFICES ASSUME NEW q \in Procs, cmd'[q].kind \in HumanKinds
               PROVE  /\ Saving(q)' => cmd'[q].rec.status \in {SavedStatus(cmd[q].kind)', "expired"}
                      /\ Saving(q)' \/ (cmd'[q].step = "decide" /\ cmd'[q].rec.status = "pending")
                           => /\ cmd'[q].id \notin approvedIds' /\ ~Turned(cmd[q].id)'
                              /\ cmd'[q].step = "write" => file'[cmd'[q].id] = Torn
                              /\ cmd'[q].step # "write" => Pending(file[cmd[q].id])'
    BY DEF HumanDecides
  <2>1. CASE q = p
    BY <2>1, <1>1 DEF Saving, Idle
  <2>2. CASE q # p
    <3>1. cmd'[q] = cmd[q]
      BY <2>2, <1>1
    <3>2. SavedStatus(cmd[q].kind)' = SavedStatus(cmd[q].kind)
      BY <3>1, Zenon DEF SavedStatus
    <3> QED
      BY <1>1, <1>3, <3>1, <3>2 DEF Saving, Pending, DeciderInv, DecidingInv, HumanDecides
  <2> QED
    BY <2>1, <2>2
<1> QED
  BY <1>2, <1>5, <1>6, <1>7 DEF DeciderInv, DecidingInv

LEMMA DeciderNext == OneDecider /\ DeciderInv /\ [Next]_vars => DeciderInv'
<1> SUFFICES ASSUME OneDecider, DeciderInv, [Next]_vars PROVE DeciderInv'
  OBVIOUS
<1>1. CASE \E p \in Gates, i \in Ids, req \in Requests : StartCreate(p, i, req)
  BY <1>1, DeciderCreates
<1>2. CASE \E p \in Procs : Step(p)
  BY <1>2, DeciderLoads, DeciderDecides, DeciderTruncates, DeciderWrites DEF Step
<1>3. CASE (\E p \in Procs : Return(p)) \/ (\E p \in Procs : Crash(p))
  BY <1>3, DeciderEnds
<1>4. CASE Tick \/ UNCHANGED vars
  <2>1. IInv'
    BY NextIInv DEF DeciderInv
  <2>2. UNCHANGED <<file, cmd, history>>
    BY <1>4 DEF Tick, vars, history
  <2> QED
    BY <2>1, <2>2 DEF DeciderInv, DecidingInv, Roles, Known, CreatorAlone, GateCloses,
         HumanDecides, Undecided, DecidedOnce, UsedClosed, Running, Saving, Turned, Pending, Open,
         history
<1> QED
  BY <1>1, <1>2, <1>3, <1>4, DeciderStarts DEF Next

LEMMA DeciderInvariant == OneDecider => (Spec => []DeciderInv)
<1> SUFFICES ASSUME OneDecider PROVE Spec => []DeciderInv
  OBVIOUS
<1>1. DeciderInv /\ [Next]_vars => DeciderInv'
  BY DeciderNext
<1> QED
  BY <1>1, DeciderInit, PTL DEF Spec

\* A rejection that was reported stands, with one person deciding at a time.
THEOREM RejectionStands == OneDecider => (Spec => []RejectionHolds)
<1> SUFFICES ASSUME OneDecider PROVE Spec => []RejectionHolds
  OBVIOUS
<1>1. DeciderInv => RejectionHolds
  BY DEF DeciderInv, DecidingInv, IInv, TypeOK, DecidedOnce, UsedClosed, Turned, RejectionHolds
<1> QED
  BY <1>1, DeciderInvariant, PTL

\* With one person deciding at a time an approval that was used never reads as
\* open again.
THEOREM SpentClosed == OneDecider => (Spec => []SpentStaysClosed)
<1> SUFFICES ASSUME OneDecider PROVE Spec => []SpentStaysClosed
  OBVIOUS
<1>1. DeciderInv => SpentStaysClosed
  BY DEF DeciderInv, DecidingInv, UsedClosed, SpentStaysClosed
<1> QED
  BY <1>1, DeciderInvariant, PTL

\* Over a finished record no command sets out to save an open one.
LEMMA NobodyReopens ==
  DeciderInv => \A i \in Ids, p \in Procs : Final(file[i]) => ~Reopening(p, i)
<1> SUFFICES ASSUME DeciderInv, NEW i \in Ids, NEW p \in Procs, Final(file[i]), Reopening(p, i)
             PROVE  FALSE
  OBVIOUS
<1>1. Saving(p) /\ cmd[p].id = i /\ cmd[p].kind \in Kinds
  BY Deciding DEF Reopening, Saving, DeciderInv, Copying, Command
<1>2. CASE cmd[p].kind = "create"
  BY <1>1, <1>2 DEF DeciderInv, DecidingInv, CreatorAlone, Final
<1>3. CASE cmd[p].kind \in GateKinds
  BY <1>1, <1>3 DEF DeciderInv, DecidingInv, GateCloses, Reopening, Open
<1>4. CASE cmd[p].kind \in HumanKinds
  BY <1>1, <1>4 DEF DeciderInv, DecidingInv, HumanDecides, Final, Pending
<1> QED
  BY <1>1, <1>2, <1>3, <1>4 DEF Kinds

\* A step leaves a finished record finished, or truncates its file.
LEMMA FinalStep ==
  ASSUME DeciderInv, [Next]_vars, NEW i \in Ids, Final(file[i])
  PROVE  \/ Final(file'[i])
         \/ file'[i] = Torn /\ \E q \in Procs : Truncate(q)
<1>1. CASE UNCHANGED file
  BY <1>1 DEF Final
<1>2. ASSUME NEW q \in Procs, Truncate(q)
      PROVE  Final(file'[i]) \/ file'[i] = Torn
  BY <1>2 DEF Truncate, DeciderInv, IInv, TypeOK, Final
<1>3. ASSUME NEW q \in Procs, Write(q)
      PROVE  Final(file'[i])
  <2>1. cmd[q].step = "write" /\ cmd[q].rec \in Approval /\ cmd[q].kind \in Kinds
        /\ file'[i] = IF cmd[q].id = i THEN cmd[q].rec ELSE file[i]
    BY <1>3, Deciding DEF Write, Copying, DeciderInv, IInv, TypeOK, Command
  <2>2. CASE cmd[q].id # i
    BY <2>1, <2>2
  <2>3. CASE cmd[q].id = i
    <3>1. cmd[q].rec.status \in Status /\ cmd[q].rec \notin {None, Torn}
      BY <2>1, QueueAssumption DEF Approval
    <3>2. ~Reopening(q, i)
      BY NobodyReopens
    <3> QED
      BY <2>1, <2>3, <3>1, <3>2 DEF Reopening, Open, Final, Status
  <2> QED
    BY <2>2, <2>3
<1>4. UNCHANGED file \/ \E q \in Procs : Truncate(q) \/ Write(q)
  BY DEF Next, Step, vars, StartDecision, StartCheck, StartCreate, LoadMissing, Load, Refuse,
         Expire, Grant, PassProbe, Return, Crash, Tick
<1> QED
  BY <1>1, <1>2, <1>3, <1>4

\* A truncation starts no save.
LEMMA TruncateReopensNothing ==
  ASSUME DeciderInv, NEW q \in Procs, Truncate(q), NEW p \in Procs, NEW i \in Ids,
         ~Reopening(p, i)
  PROVE  ~Reopening(p, i)'
<1>1. Running(q) /\ Goto(q, "write", cmd[q].rec) /\ cmd[q].step = "truncate"
  BY DEF Truncate, Running
<1>2. cmd'[p] = cmd[p] \/ (p = q /\ cmd'[p].id = cmd[q].id /\ cmd'[p].rec = cmd[q].rec)
  BY <1>1, GotoStep DEF DeciderInv
<1> QED
  BY <1>1, <1>2 DEF Reopening, Open

\* With one person deciding at a time no stale copy reopens a finished approval.
THEOREM FinalStands == OneDecider => (Spec => FinalStaysFinal)
<1> SUFFICES ASSUME OneDecider PROVE Spec => FinalStaysFinal
  OBVIOUS
<1> DEFINE Stays ==
      \A i \in Ids : Final(file[i]) =>
        ~Open(file'[i]) /\ \A p \in Procs : ~Reopening(p, i)'
           Shut == \A i \in Ids, p \in Procs : Final(file[i]) => ~Reopening(p, i)
<1>1. DeciderInv => Shut
  BY NobodyReopens
<1>2. DeciderInv /\ Shut /\ Shut' /\ [Next]_vars => Stays
  <2> SUFFICES ASSUME DeciderInv, Shut, Shut', [Next]_vars,
                      NEW i \in Ids, Final(file[i])
               PROVE  ~Open(file'[i]) /\ \A p \in Procs : ~Reopening(p, i)'
    OBVIOUS
  <2>1. CASE Final(file'[i])
    <3>1. ~Open(file'[i])
      BY <2>1 DEF Final, Open
    <3>2. Final(file[i])'
      BY <2>1 DEF Final
    <3> QED
      BY <3>1, <3>2
  <2>2. CASE file'[i] = Torn /\ \E q \in Procs : Truncate(q)
    <3>1. ~Open(file'[i])
      BY <2>2 DEF Open
    <3>2. \A p \in Procs : ~Reopening(p, i)'
      BY <2>2, TruncateReopensNothing
    <3> QED
      BY <3>1, <3>2
  <2> QED
    BY <2>1, <2>2, FinalStep
<1>3. Spec => [][Stays]_vars
  <2> HIDE DEF Stays, Shut
  <2> QED
    BY <1>1, <1>2, DeciderInvariant, PTL DEF Spec
<1> QED
  BY <1>3 DEF FinalStaysFinal

-----------------------------------------------------------------------------
(***************************************************************************)
(* What a gate knows when its check of an approval returns.  The history   *)
(* only grows, so that whoever asked for the check (SafetyGate) may rely   *)
(* on it afterwards, whatever happens to the file.                         *)
(***************************************************************************)

\* A person has approved i, which was asked for the operation req.
Covers(i, req) ==
  i \in approvedIds /\ issued[i] \in Approval /\ Matches(issued[i].request, req)

\* A check that consumes holds a record to save as consumed, or as expired; it
\* consumes, and is done, for an operation that the approval covers.
Spends(c) ==
  c.kind = "consume" =>
    /\ c.step \in {"truncate", "write"} => c.rec.status \in {"consumed", "expired"}
    /\ c.step \in {"truncate", "write"} /\ c.rec.status = "consumed" => Covers(c.id, c.req)
    /\ c.step = "done" => Covers(c.id, c.req)

Spending == \A p \in Procs : Spends(cmd[p])

CheckInv == IInv /\ Spending

LEMMA HistoryGrows ==
  ASSUME IInv, [Next]_vars, NEW i \in Ids
  PROVE  /\ uses'[i] >= uses[i]
         /\ i \in approvedIds => i \in approvedIds'
         /\ issued[i] \in Approval => issued'[i] = issued[i]
<1>1. CASE \E p \in Gates, j \in Ids, req \in Requests : StartCreate(p, j, req)
  BY <1>1, QueueAssumption DEF StartCreate, IInv, TypeOK
<1>2. CASE \E p \in Procs : Write(p)
  BY <1>2 DEF Write, IInv, TypeOK
<1>3. CASE \E p \in Procs : Return(p)
  BY <1>3 DEF Return, IInv, TypeOK
<1>4. CASE UNCHANGED history
  BY <1>4 DEF history, IInv, TypeOK
<1> QED
  BY <1>1, <1>2, <1>3, <1>4
     DEF Next, Step, StartDecision, StartCheck, LoadMissing, Load, Refuse, Expire, Grant,
         PassProbe, Truncate, Crash, Tick, vars, history

LEMMA CoversStays ==
  ASSUME IInv, [Next]_vars, NEW i \in Ids, NEW req, Covers(i, req)
  PROVE  Covers(i, req)'
BY HistoryGrows DEF Covers

LEMMA CheckInit == Init => CheckInv
<1> SUFFICES ASSUME Init PROVE CheckInv
  OBVIOUS
<1>1. \A p \in Procs : cmd[p].step = "idle"
  BY DEF Init, Idle
<1> QED
  BY <1>1, InitIInv DEF CheckInv, Spending, Spends

\* Only the command that moves has to be looked at.
LEMMA SpendingMove ==
  ASSUME CheckInv, [Next]_vars, NEW p \in Procs, Spends(cmd[p])',
         \A q \in Procs : q # p => cmd'[q] = cmd[q]
  PROVE  CheckInv'
<1>1. ASSUME NEW q \in Procs, q # p PROVE Spends(cmd[q])'
  <2>1. cmd'[q] = cmd[q] /\ Spends(cmd[q])
    BY <1>1 DEF CheckInv, Spending
  <2>2. ASSUME cmd[q].step \in {"truncate", "write", "done"}, Covers(cmd[q].id, cmd[q].req)
        PROVE  Covers(cmd[q].id, cmd[q].req)'
    <3>1. cmd[q].id \in Ids
      BY <2>2 DEF CheckInv, IInv, TypeOK, Idle, Command
    <3>2. PICK i, req : i \in Ids /\ i = cmd[q].id /\ req = cmd[q].req
      BY <3>1
    <3>3. Covers(i, req)'
      BY <2>2, <3>2, CoversStays DEF CheckInv
    <3> QED
      BY <2>1, <3>2, <3>3 DEF Covers
  <2> QED
    BY <2>1, <2>2 DEF Spends
<1>2. Spending'
  BY <1>1 DEF Spending
<1> QED
  BY <1>2, NextIInv DEF CheckInv

\* What the gate is about to do with a record that it grants on.
LEMMA GrantCovers ==
  ASSUME IInv, NEW p \in Procs, cmd[p].step = "decide", cmd[p].kind = "consume",
         Verdict(cmd[p]) = "grant"
  PROVE  Covers(cmd[p].id, cmd[p].req)
<1>1. /\ cmd[p].rec \in Approval /\ Backed(cmd[p].rec, cmd[p].id) /\ cmd[p].req \in Requests
      /\ Running(p) /\ now \in Nat
  BY Deciding DEF Copying, IInv, TypeOK, Shape, GateKinds
<1>2. GateVerdict(cmd[p].rec, cmd[p].req, now) = "grant"
  BY DEF Verdict, HumanKinds
<1>3. cmd[p].rec.status = "approved" /\ Matches(cmd[p].rec.request, cmd[p].req)
  BY <1>1, <1>2, GateGrants
<1> QED
  BY <1>1, <1>3 DEF IInv, CopyBacked, Covers, Backed

LEMMA SpendingSteps ==
  ASSUME CheckInv, [Next]_vars, NEW p \in Procs, Step(p)
  PROVE  CheckInv'
<1>1. /\ Running(p) /\ cmd[p] \in Command /\ IInv
      /\ Spends(cmd[p])
      /\ \A i \in Ids : \A req : Covers(i, req) => Covers(i, req)'
  <2>1. Running(p)
    BY DEF Step, LoadMissing, Load, Refuse, Expire, Grant, PassProbe, Truncate, Write, Running
  <2> QED
    BY <2>1, CoversStays DEF CheckInv, Spending, IInv, TypeOK, Running, Idle
<1>2. ASSUME NEW step, NEW rec, Goto(p, step, rec),
             cmd[p].kind = "consume" =>
               \/ step \in {"refused", "decide"}
               \/ step \in {"truncate", "write"} /\ rec.status = "expired"
               \/ /\ step \in {"truncate", "write"} /\ rec.status = "consumed"
                  /\ Covers(cmd[p].id, cmd[p].req)
               \/ step = "done" /\ Covers(cmd[p].id, cmd[p].req)
      PROVE  CheckInv'
  <2>1. /\ \A q \in Procs : q # p => cmd'[q] = cmd[q]
        /\ cmd'[p].step = step /\ cmd'[p].rec = rec
        /\ cmd'[p].id = cmd[p].id /\ cmd'[p].kind = cmd[p].kind /\ cmd'[p].req = cmd[p].req
    BY <1>1, <1>2, GotoStep
  <2>2. PICK i, req : i \in Ids /\ i = cmd[p].id /\ req = cmd[p].req
    BY <1>1 DEF Command
  <2>3. Covers(cmd[p].id, cmd[p].req) => Covers(i, req)'
    BY <1>1, <2>2
  <2>4. Covers(i, req)' => Covers(cmd[p].id, cmd[p].req)'
    BY <2>1, <2>2 DEF Covers
  <2>5. Spends(cmd[p])'
    BY <1>2, <2>1, <2>3, <2>4 DEF Spends
  <2> QED
    BY <2>1, <2>5, SpendingMove
<1>3. CASE LoadMissing(p) \/ Load(p) \/ Refuse(p)
  BY <1>2, <1>3 DEF LoadMissing, Load, Refuse
<1>4. CASE Expire(p)
  <2>1. [cmd[p].rec EXCEPT !.status = "expired"].status = "expired"
    BY <1>1, <1>4, Deciding DEF Expire, Copying, Approval
  <2> QED
    BY <1>2, <1>4, <2>1 DEF Expire
<1>5. CASE Grant(p)
  <2>1. cmd[p].kind = "consume" =>
          /\ [cmd[p].rec EXCEPT !.status = SavedStatus(cmd[p].kind)].status = "consumed"
          /\ Covers(cmd[p].id, cmd[p].req)
    <3>1. SavedStatus("consume") = "consumed"
      BY DEF SavedStatus
    <3> QED
      BY <1>1, <1>5, <3>1, Deciding, GrantCovers DEF Grant, Copying, Approval
  <2> QED
    BY <1>2, <1>5, <2>1 DEF Grant
<1>6. CASE PassProbe(p)
  BY <1>2, <1>6 DEF PassProbe
<1>7. CASE Truncate(p) \/ Write(p)
  BY <1>1, <1>2, <1>7 DEF Truncate, Write, Spends
<1> QED
  BY <1>3, <1>4, <1>5, <1>6, <1>7 DEF Step

LEMMA CheckNext == CheckInv /\ [Next]_vars => CheckInv'
<1> SUFFICES ASSUME CheckInv, [Next]_vars PROVE CheckInv'
  OBVIOUS
<1>1. ASSUME NEW p \in Procs, NEW c, cmd' = [cmd EXCEPT ![p] = c],
             c.step \in {"idle", "load"} \/ c.kind = "create"
      PROVE  CheckInv'
  <2>1. cmd'[p] = c /\ \A q \in Procs : q # p => cmd'[q] = cmd[q]
    BY <1>1 DEF CheckInv, IInv, TypeOK
  <2>2. Spends(cmd[p])'
    BY <1>1, <2>1 DEF Spends
  <2> QED
    BY <2>1, <2>2, SpendingMove
<1>2. CASE \E p \in Approvers, kind \in HumanKinds, i \in Ids : StartDecision(p, kind, i)
  BY <1>1, <1>2 DEF StartDecision, Procs
<1>3. CASE \E p \in Gates, kind \in GateKinds, i \in Ids, req \in Requests :
             StartCheck(p, kind, i, req)
  BY <1>1, <1>3 DEF StartCheck, Procs
<1>4. CASE \E p \in Gates, i \in Ids, req \in Requests : StartCreate(p, i, req)
  BY <1>1, <1>4 DEF StartCreate, Procs
<1>5. CASE \E p \in Procs : Step(p)
  BY <1>5, SpendingSteps
<1>6. CASE (\E p \in Procs : Return(p)) \/ (\E p \in Procs : Crash(p))
  BY <1>1, <1>6 DEF Return, Crash, Idle
<1>7. CASE Tick \/ UNCHANGED vars
  <2>1. UNCHANGED <<cmd, issued, approvedIds>>
    BY <1>7 DEF Tick, vars, history
  <2> QED
    BY <2>1, NextIInv DEF CheckInv, Spending, Spends, Covers
<1> QED
  BY <1>2, <1>3, <1>4, <1>5, <1>6, <1>7 DEF Next

\* A step of a command is a step of its process alone, on the same errand.
LEMMA StepKeeps ==
  ASSUME IInv, NEW p \in Procs, Step(p)
  PROVE  /\ Running(p) /\ cmd'[p].step # "idle"
         /\ cmd'[p].id = cmd[p].id /\ cmd'[p].kind = cmd[p].kind /\ cmd'[p].req = cmd[p].req
         /\ \A q \in Procs : q # p => cmd'[q] = cmd[q]
<1>1. Running(p)
  BY DEF Step, LoadMissing, Load, Refuse, Expire, Grant, PassProbe, Truncate, Write, Running
<1>2. \E step, rec : Goto(p, step, rec) /\ step # "idle"
  <2>1. CASE LoadMissing(p) \/ Load(p)
    BY <2>1 DEF LoadMissing, Load
  <2>2. CASE Refuse(p) \/ Expire(p) \/ Grant(p) \/ PassProbe(p)
    BY <2>2 DEF Refuse, Expire, Grant, PassProbe
  <2>3. CASE Truncate(p)
    BY <2>3 DEF Truncate
  <2>4. CASE Write(p)
    <3>1. Goto(p, "refused", None) \/ Goto(p, "done", None)
      BY <2>4 DEF Write
    <3> QED
      BY <3>1
  <2> QED
    BY <2>1, <2>2, <2>3, <2>4 DEF Step
<1> QED
  BY <1>1, <1>2, GotoStep

\* A check that consumed for an operation was covered, and counts as a use.
LEMMA ReturnedUse ==
  ASSUME CheckInv, NEW p \in Procs, Return(p), cmd[p].step = "done", cmd[p].kind = "consume"
  PROVE  /\ cmd[p].id \in Ids /\ uses'[cmd[p].id] > 0
         /\ approvedIds' = approvedIds /\ issued' = issued
         /\ Covers(cmd[p].id, cmd[p].req)
<1>1. cmd[p].id \in Ids /\ Covers(cmd[p].id, cmd[p].req)
  BY DEF CheckInv, Spending, Spends, IInv, TypeOK, Idle, Command
<1>2. uses' = [i \in Ids |-> IF i \in {j \in {cmd[p].id} : TRUE} THEN uses[i] + 1 ELSE uses[i]]
  BY DEF Return
<1>3. uses'[cmd[p].id] = uses[cmd[p].id] + 1
  BY <1>1, <1>2
<1> QED
  BY <1>1, <1>3 DEF Return, CheckInv, IInv, TypeOK
=============================================================================
