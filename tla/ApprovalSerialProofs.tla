------------------------ MODULE ApprovalSerialProofs ------------------------
(***************************************************************************)
(* While commands do not overlap, an approval lets at most one operation   *)
(* through: for any number of approvals, commands, crashes and any clock.  *)
(* ~Overlap is what two gates that read the file before either of them     *)
(* writes it would contradict.                                             *)
(***************************************************************************)
EXTENDS ApprovalQueueProofs

OneCommand == \A p, q \in Procs : Running(p) /\ Running(q) => p = q

\* A used approval was issued, and its file never reads as open again.
SpentOnce ==
  \A i \in Ids :
    /\ uses[i] \in {0, 1}
    /\ uses[i] = 1 => ~Open(file[i]) /\ issued[i] # None

\* What a running command holds: an open copy is of an approval not used yet, and
\* a consume that is done has left the file closed.
InFlight ==
  \A p \in Procs :
    /\ cmd[p].step = "decide" /\ cmd[p].rec.status \in {"pending", "approved"}
         => uses[cmd[p].id] = 0
    /\ cmd[p].step \in {"truncate", "write"} /\ cmd[p].rec.status # "expired"
         => uses[cmd[p].id] = 0
    /\ cmd[p].step \in {"truncate", "write"} /\ cmd[p].kind = "consume"
         => cmd[p].rec.status \in {"consumed", "expired"}
    /\ cmd[p].step = "done" /\ cmd[p].kind = "consume"
         => uses[cmd[p].id] = 0 /\ ~Open(file[cmd[p].id]) /\ issued[cmd[p].id] # None

SerialInv == IInv /\ OneCommand /\ SpentOnce /\ InFlight

LEMMA SerialInit == Init => SerialInv
<1> SUFFICES ASSUME Init PROVE SerialInv
  OBVIOUS
<1>1. \A p \in Procs : cmd[p] = Idle
  BY DEF Init
<1>2. \A i \in Ids : uses[i] = 0
  BY DEF Init
<1> QED
  BY <1>1, <1>2, InitIInv DEF SerialInv, OneCommand, SpentOnce, InFlight, Running, Idle

\* While one command runs, the others are idle.
LEMMA OthersIdle ==
  ASSUME SerialInv, NEW p \in Procs, Running(p)
  PROVE  \A q \in Procs : q # p => cmd[q] = Idle
<1>1. \A q \in Procs : ~Running(q) => cmd[q] = Idle
  BY DEF SerialInv, IInv, TypeOK, Running, Command
<1> QED
  BY <1>1 DEF SerialInv, OneCommand

\* So the new state of the one that moves is all there is to look at.
LEMMA SerialMove ==
  ASSUME SerialInv, IInv', SpentOnce', NEW p \in Procs, NEW c,
         \A q \in Procs : cmd'[q] = IF q = p THEN c ELSE Idle,
         c.step = "decide" /\ c.rec.status \in {"pending", "approved"} => uses'[c.id] = 0,
         c.step \in {"truncate", "write"} /\ c.rec.status # "expired" => uses'[c.id] = 0,
         c.step \in {"truncate", "write"} /\ c.kind = "consume"
           => c.rec.status \in {"consumed", "expired"},
         c.step = "done" /\ c.kind = "consume"
           => uses'[c.id] = 0 /\ ~Open(file'[c.id]) /\ issued'[c.id] # None
  PROVE  SerialInv'
<1>1. OneCommand'
  BY DEF OneCommand, Running, Idle
<1>2. InFlight'
  <2> SUFFICES ASSUME NEW q \in Procs
               PROVE  /\ cmd'[q].step = "decide"
                           /\ cmd'[q].rec.status \in {"pending", "approved"}
                           => uses'[cmd'[q].id] = 0
                      /\ cmd'[q].step \in {"truncate", "write"} /\ cmd'[q].rec.status # "expired"
                           => uses'[cmd'[q].id] = 0
                      /\ cmd'[q].step \in {"truncate", "write"} /\ cmd'[q].kind = "consume"
                           => cmd'[q].rec.status \in {"consumed", "expired"}
                      /\ cmd'[q].step = "done" /\ cmd'[q].kind = "consume"
                           => /\ uses'[cmd'[q].id] = 0
                              /\ ~Open(file'[cmd'[q].id]) /\ issued'[cmd'[q].id] # None
    BY DEF InFlight, Open
  <2>1. CASE q = p
    BY <2>1
  <2>2. CASE q # p
    BY <2>2 DEF Idle
  <2> QED
    BY <2>1, <2>2
<1> QED
  BY <1>1, <1>2 DEF SerialInv

\* A running command goes to another step with another record.
LEMMA SerialGoto ==
  ASSUME SerialInv, NEW p \in Procs, Running(p), NEW step, NEW rec, Goto(p, step, rec)
  PROVE  /\ \A q \in Procs : q # p => cmd'[q] = Idle
         /\ cmd'[p].step = step /\ cmd'[p].rec = rec
         /\ cmd'[p].id = cmd[p].id /\ cmd'[p].kind = cmd[p].kind
<1>1. cmd[p] \in Command
  BY DEF SerialInv, IInv, TypeOK, Running, Idle
<1>2. cmd'[p] = [cmd[p] EXCEPT !.step = step, !.rec = rec]
      /\ \A q \in Procs : q # p => cmd'[q] = cmd[q]
  BY DEF Goto, SerialInv, IInv, TypeOK
<1> QED
  BY <1>1, <1>2, OthersIdle DEF Command

LEMMA SerialStart ==
  ASSUME SerialInv, ~Overlap, IInv', NEW p \in Procs, MayStart(p),
         NEW i \in Ids, NEW c, cmd' = [cmd EXCEPT ![p] = c],
         UNCHANGED <<file, uses>>,
         \A j \in Ids : issued[j] # None => issued'[j] # None,
         c.step = "load" \/ (c.step = "truncate" /\ c.kind = "create" /\ uses[c.id] = 0)
  PROVE  SerialInv'
<1>1. \A q \in Procs : cmd[q] = Idle
  BY DEF MayStart, SerialInv, IInv, TypeOK, Running, Command
<1>2. \A q \in Procs : cmd'[q] = IF q = p THEN c ELSE Idle
  BY <1>1 DEF SerialInv, IInv, TypeOK
<1>3. SpentOnce'
  BY DEF SerialInv, SpentOnce, Open
<1> QED
  BY <1>2, <1>3, SerialMove

LEMMA SerialStarts ==
  ASSUME SerialInv, ~Overlap,
         \/ \E p \in Approvers, kind \in HumanKinds, i \in Ids : StartDecision(p, kind, i)
         \/ \E p \in Gates, kind \in GateKinds, i \in Ids, req \in Requests :
              StartCheck(p, kind, i, req)
         \/ \E p \in Gates, i \in Ids, req \in Requests : StartCreate(p, i, req)
  PROVE  SerialInv'
<1>1. IInv'
  BY NextIInv DEF Next, SerialInv
<1>2. ASSUME NEW p \in Approvers, NEW kind \in HumanKinds, NEW i \in Ids,
             StartDecision(p, kind, i)
      PROVE  SerialInv'
  <2> DEFINE c == [step |-> "load", kind |-> kind, id |-> i, req |-> None, rec |-> None]
  <2>1. c.step = "load" /\ cmd' = [cmd EXCEPT ![p] = c] /\ p \in Procs
    BY <1>2 DEF StartDecision, Procs
  <2> HIDE DEF c
  <2> QED
    BY <1>1, <1>2, <2>1, SerialStart DEF StartDecision, history
<1>3. ASSUME NEW p \in Gates, NEW kind \in GateKinds, NEW i \in Ids, NEW req \in Requests,
             StartCheck(p, kind, i, req)
      PROVE  SerialInv'
  <2> DEFINE c == [step |-> "load", kind |-> kind, id |-> i, req |-> req, rec |-> None]
  <2>1. c.step = "load" /\ cmd' = [cmd EXCEPT ![p] = c] /\ p \in Procs
    BY <1>3 DEF StartCheck, Procs
  <2> HIDE DEF c
  <2> QED
    BY <1>1, <1>3, <2>1, SerialStart DEF StartCheck, history
<1>4. ASSUME NEW p \in Gates, NEW i \in Ids, NEW req \in Requests, StartCreate(p, i, req)
      PROVE  SerialInv'
  <2> DEFINE c == [step |-> "truncate", kind |-> "create", id |-> i, req |-> None,
                   rec |-> NewApproval(req, now, Ttl)]
  <2>1. c.step = "truncate" /\ c.kind = "create" /\ c.id = i
        /\ cmd' = [cmd EXCEPT ![p] = c] /\ p \in Procs
    BY <1>4 DEF StartCreate, Procs
  <2>2. uses[i] = 0
    BY <1>4 DEF StartCreate, SerialInv, SpentOnce
  <2>3. \A j \in Ids : issued[j] # None => issued'[j] # None
    BY <1>4 DEF StartCreate, SerialInv, IInv, TypeOK
  <2> HIDE DEF c
  <2> QED
    BY <1>1, <1>4, <2>1, <2>2, <2>3, SerialStart, ZenonT(40) DEF StartCreate
<1> QED
  BY <1>2, <1>3, <1>4

\* A step of a command that leaves the files alone.
LEMMA SerialDecides ==
  ASSUME SerialInv, NEW p \in Procs,
         LoadMissing(p) \/ Load(p) \/ Refuse(p) \/ Expire(p) \/ Grant(p) \/ PassProbe(p)
  PROVE  SerialInv'
<1>1. /\ Running(p) /\ UNCHANGED <<file, now, history>> /\ p \in Procs
      /\ cmd[p] \in Command /\ cmd[p].id \in Ids
  BY DEF LoadMissing, Load, Refuse, Expire, Grant, PassProbe, Running, SerialInv, IInv, TypeOK,
         Idle, Command
<1>2. IInv'
  BY NextIInv DEF Next, Step, SerialInv
<1>3. SpentOnce'
  BY <1>1 DEF SerialInv, SpentOnce, Open, history
<1>4. uses' = uses /\ file' = file /\ issued' = issued
  BY <1>1 DEF history
<1>5. CASE LoadMissing(p) \/ Refuse(p)
  <2>1. Goto(p, "refused", None)
    BY <1>5 DEF LoadMissing, Refuse
  <2>2. /\ \A q \in Procs : cmd'[q] = IF q = p THEN cmd'[p] ELSE Idle
        /\ cmd'[p].step = "refused"
    BY <1>1, <2>1, SerialGoto
  <2> QED
    BY <1>2, <1>3, <2>2, SerialMove
<1>6. CASE PassProbe(p)
  <2>1. /\ \A q \in Procs : cmd'[q] = IF q = p THEN cmd'[p] ELSE Idle
        /\ cmd'[p].step = "done" /\ cmd'[p].kind = "probe"
    BY <1>1, <1>6, SerialGoto DEF PassProbe
  <2> QED
    BY <1>2, <1>3, <2>1, SerialMove
<1>7. CASE Load(p)
  <2>1. /\ \A q \in Procs : cmd'[q] = IF q = p THEN cmd'[p] ELSE Idle
        /\ cmd'[p].step = "decide" /\ cmd'[p].rec = file[cmd[p].id]
        /\ cmd'[p].id = cmd[p].id
    BY <1>1, <1>7, SerialGoto DEF Load
  <2>2. cmd'[p].rec.status \in {"pending", "approved"} => uses[cmd[p].id] = 0
    BY <1>1, <1>7, <2>1 DEF Load, SerialInv, SpentOnce, Open
  <2> QED
    BY <1>2, <1>3, <1>4, <2>1, <2>2, SerialMove
<1>8. CASE Expire(p)
  <2> DEFINE new == [cmd[p].rec EXCEPT !.status = "expired"]
  <2>1. new.status = "expired"
    BY <1>8, WithStatus, Deciding DEF Expire, Copying, Status, SerialInv
  <2> HIDE DEF new
  <2>2. /\ \A q \in Procs : cmd'[q] = IF q = p THEN cmd'[p] ELSE Idle
        /\ cmd'[p].step = "truncate" /\ cmd'[p].rec = new
    BY <1>1, <1>8, SerialGoto DEF Expire, new
  <2> QED
    BY <1>2, <1>3, <2>1, <2>2, SerialMove
<1>9. CASE Grant(p)
  <2> DEFINE new == [cmd[p].rec EXCEPT !.status = SavedStatus(cmd[p].kind)]
  <2>1. cmd[p].rec \in Approval /\ cmd[p].kind \in Kinds \ {"create", "probe"}
    BY <1>9, Deciding DEF Grant, Copying, SerialInv
  <2>2. new.status = SavedStatus(cmd[p].kind)
    BY <2>1, WithStatus, SavedStatusType
  <2>3. cmd[p].kind = "consume" => SavedStatus(cmd[p].kind) = "consumed"
    BY DEF SavedStatus
  <2>4. cmd[p].rec.status \in {"pending", "approved"}
    BY <1>9 DEF Grant, Verdict, HumanVerdict, GateVerdict
  <2>5. uses[cmd[p].id] = 0
    BY <1>9, <2>4 DEF Grant, SerialInv, InFlight
  <2> HIDE DEF new
  <2>6. /\ \A q \in Procs : cmd'[q] = IF q = p THEN cmd'[p] ELSE Idle
        /\ cmd'[p].step = "truncate" /\ cmd'[p].rec = new
        /\ cmd'[p].id = cmd[p].id /\ cmd'[p].kind = cmd[p].kind
    BY <1>1, <1>9, SerialGoto DEF Grant, new
  <2> QED
    BY <1>2, <1>3, <1>4, <2>2, <2>3, <2>5, <2>6, SerialMove
<1> QED
  BY <1>5, <1>6, <1>7, <1>8, <1>9

LEMMA SerialSaves ==
  ASSUME SerialInv, NEW p \in Procs, Truncate(p) \/ Write(p)
  PROVE  SerialInv'
<1>1. /\ Running(p) /\ cmd[p].step \in {"truncate", "write"} /\ uses' = uses /\ issued' = issued
      /\ cmd[p].id \in Ids /\ cmd[p].rec \in Approval /\ issued[cmd[p].id] # None
  BY Deciding, QueueAssumption
     DEF Truncate, Write, Running, Copying, history, SerialInv, Backed
<1>2. IInv'
  BY NextIInv DEF Next, Step, SerialInv
<1>3. /\ cmd[p].rec.status # "expired" => uses[cmd[p].id] = 0
      /\ cmd[p].kind = "consume" => cmd[p].rec.status \in {"consumed", "expired"}
  BY <1>1 DEF SerialInv, InFlight
<1>4. CASE Truncate(p)
  <2>1. /\ \A q \in Procs : cmd'[q] = IF q = p THEN cmd'[p] ELSE Idle
        /\ cmd'[p].step = "write" /\ cmd'[p].rec = cmd[p].rec
        /\ cmd'[p].id = cmd[p].id /\ cmd'[p].kind = cmd[p].kind
    BY <1>1, <1>4, SerialGoto DEF Truncate
  <2>2. \A j \in Ids : file'[j] = file[j] \/ file'[j] = Torn
    BY <1>4 DEF Truncate, SerialInv, IInv, TypeOK
  <2>3. SpentOnce'
    BY <1>1, <2>2 DEF SerialInv, SpentOnce, Open
  <2> QED
    BY <1>1, <1>2, <1>3, <2>1, <2>3, SerialMove
<1>5. CASE Write(p)
  <2> DEFINE step == IF cmd[p].rec.status = "expired" THEN "refused" ELSE "done"
  <2>1. Goto(p, step, None)
    BY <1>5 DEF Write
  <2>2. step \in {"refused", "done"} /\ (step = "done" => cmd[p].rec.status # "expired")
    OBVIOUS
  <2> HIDE DEF step
  <2>3. /\ \A q \in Procs : cmd'[q] = IF q = p THEN cmd'[p] ELSE Idle
        /\ cmd'[p].step = step
        /\ cmd'[p].id = cmd[p].id /\ cmd'[p].kind = cmd[p].kind
    BY <1>1, <2>1, SerialGoto
  <2>4. \A j \in Ids : file'[j] = IF j = cmd[p].id THEN cmd[p].rec ELSE file[j]
    BY <1>1, <1>5 DEF Write, SerialInv, IInv, TypeOK
  <2>5. cmd[p].kind = "consume" => ~Open(file'[cmd[p].id])
    BY <1>1, <1>3, <2>4 DEF Open
  <2>6. SpentOnce'
    BY <1>1, <1>3, <2>4 DEF SerialInv, SpentOnce, Open
  <2> QED
    BY <1>1, <1>2, <1>3, <2>2, <2>3, <2>5, <2>6, SerialMove
<1> QED
  BY <1>4, <1>5

LEMMA SerialEnds ==
  ASSUME SerialInv, NEW p \in Procs, Return(p) \/ Crash(p)
  PROVE  SerialInv'
<1>1. /\ Running(p) /\ file' = file /\ issued' = issued
      /\ cmd' = [cmd EXCEPT ![p] = Idle]
  BY DEF Return, Crash, Running, history
<1>2. IInv'
  BY NextIInv DEF Next, SerialInv
<1>3. \A q \in Procs : cmd'[q] = IF q = p THEN Idle ELSE Idle
  BY <1>1, OthersIdle DEF SerialInv, IInv, TypeOK
<1>4. SpentOnce'
  <2>1. CASE Crash(p)
    BY <2>1, <1>1 DEF Crash, history, SerialInv, SpentOnce, Open
  <2>2. CASE Return(p)
    <3>1. \A j \in Ids : uses'[j] = uses[j]
            \/ /\ j = cmd[p].id /\ uses'[j] = uses[j] + 1
               /\ cmd[p].step = "done" /\ cmd[p].kind = "consume"
      BY <2>2 DEF Return
    <3>2. \A j \in Ids : uses'[j] = uses[j]
            \/ (uses'[j] = 1 /\ ~Open(file[j]) /\ issued[j] # None)
      BY <3>1 DEF SerialInv, InFlight
    <3> QED
      BY <1>1, <3>2 DEF SerialInv, SpentOnce, Open
  <2> QED
    BY <2>1, <2>2
<1> QED
  BY <1>2, <1>3, <1>4, SerialMove DEF Idle

LEMMA SerialClock ==
  ASSUME SerialInv, Tick \/ UNCHANGED vars
  PROVE  SerialInv'
<1>1. IInv'
  BY NextIInv DEF Next, SerialInv
<1>2. UNCHANGED <<file, cmd, issued, uses>>
  BY DEF Tick, vars, history
<1> QED
  BY <1>1, <1>2 DEF SerialInv, OneCommand, SpentOnce, InFlight, Running, Open

LEMMA SerialNext == ~Overlap /\ SerialInv /\ [Next]_vars => SerialInv'
<1> SUFFICES ASSUME ~Overlap, SerialInv, [Next]_vars PROVE SerialInv'
  OBVIOUS
<1>1. CASE \E p \in Procs : Step(p)
  BY <1>1, SerialDecides, SerialSaves DEF Step
<1>2. CASE (\E p \in Procs : Return(p)) \/ (\E p \in Procs : Crash(p))
  BY <1>2, SerialEnds
<1>3. CASE Tick \/ UNCHANGED vars
  BY <1>3, SerialClock
<1> QED
  BY <1>1, <1>2, <1>3, SerialStarts DEF Next

\* Without overlap an approval lets at most one operation through.
THEOREM UsedOnce == ~Overlap => (Spec => []SingleUse)
<1>1. SerialInv => SingleUse
  BY DEF SerialInv, SpentOnce, SingleUse
<1>2. ASSUME ~Overlap PROVE Spec => []SingleUse
  <2>1. SerialInv /\ [Next]_vars => SerialInv'
    BY <1>2, SerialNext
  <2> QED
    BY <1>1, <2>1, SerialInit, PTL DEF Spec
<1> QED
  BY <1>2

-----------------------------------------------------------------------------
(***************************************************************************)
(* The refinement.  A command that runs alone decides on what the file     *)
(* still holds, so each of its saves is one transition of the lifecycle;   *)
(* while the file is torn the mapping takes the status the command found,  *)
(* which it can tell from the kind of the command.                         *)
(***************************************************************************)

\* The statuses a command of this kind may leave behind.
MayLeave(kind, s) ==
  \/ kind = "create" /\ s = "pending"
  \/ kind = "approve" /\ s \in {"approved", "expired"}
  \/ kind = "reject" /\ s \in {"rejected", "expired"}
  \/ kind = "consume" /\ s \in {"consumed", "expired"}
  \/ kind = "probe" /\ s = "expired"

\* A running command and the file it works on.
FollowsFile ==
  \A p \in Procs :
    /\ cmd[p].step = "decide" => file[cmd[p].id] = cmd[p].rec
    /\ cmd[p].step = "truncate" /\ cmd[p].kind = "create" => file[cmd[p].id] = None
    /\ cmd[p].step = "truncate" /\ cmd[p].kind # "create" =>
         file[cmd[p].id] \in Approval /\ file[cmd[p].id].status = StatusBefore(cmd[p].kind)
    /\ cmd[p].step = "write" => file[cmd[p].id] = Torn
    /\ cmd[p].step \in {"truncate", "write"} => MayLeave(cmd[p].kind, cmd[p].rec.status)
    /\ cmd[p].step = "done" /\ cmd[p].kind = "consume" =>
         file[cmd[p].id] \in Approval /\ file[cmd[p].id].status = "consumed"

Unissued == \A i \in Ids : issued[i] = None => file[i] = None

RefInv == SerialInv /\ FollowsFile /\ Unissued

\* What StatusBefore says of each kind.
LEMMA StatusBeforeIs ==
  /\ StatusBefore("create") = "absent"
  /\ StatusBefore("approve") = "pending" /\ StatusBefore("reject") = "pending"
  /\ StatusBefore("consume") = "approved" /\ StatusBefore("probe") = "approved"
<1>1. "approve" \in HumanKinds /\ "reject" \in HumanKinds
      /\ "create" \notin HumanKinds /\ "consume" \notin HumanKinds /\ "probe" \notin HumanKinds
  BY DEF HumanKinds
<1> QED
  BY <1>1 DEF StatusBefore

LEMMA RefInit == Init => RefInv
<1> SUFFICES ASSUME Init PROVE RefInv
  OBVIOUS
<1>1. \A p \in Procs : cmd[p].step = "idle"
  BY DEF Init, Idle
<1> QED
  BY <1>1, SerialInit DEF Init, RefInv, FollowsFile, Unissued

\* Only the command that moves has to be looked at.
LEMMA RefMove ==
  ASSUME SerialInv', Unissued', NEW p \in Procs, NEW c,
         \A q \in Procs : cmd'[q] = IF q = p THEN c ELSE Idle,
         c.step = "decide" => file'[c.id] = c.rec,
         c.step = "truncate" /\ c.kind = "create" => file'[c.id] = None,
         c.step = "truncate" /\ c.kind # "create" =>
           file'[c.id] \in Approval /\ file'[c.id].status = StatusBefore(c.kind),
         c.step = "write" => file'[c.id] = Torn,
         c.step \in {"truncate", "write"} => MayLeave(c.kind, c.rec.status),
         c.step = "done" /\ c.kind = "consume" =>
           file'[c.id] \in Approval /\ file'[c.id].status = "consumed"
  PROVE  RefInv'
<1>1. FollowsFile'
  <2> SUFFICES ASSUME NEW q \in Procs
               PROVE  /\ cmd'[q].step = "decide" => file'[cmd'[q].id] = cmd'[q].rec
                      /\ cmd'[q].step = "truncate" /\ cmd'[q].kind = "create"
                           => file'[cmd'[q].id] = None
                      /\ cmd'[q].step = "truncate" /\ cmd'[q].kind # "create" =>
                           /\ file'[cmd'[q].id] \in Approval
                           /\ file'[cmd'[q].id].status = StatusBefore(cmd[q].kind)'
                      /\ cmd'[q].step = "write" => file'[cmd'[q].id] = Torn
                      /\ cmd'[q].step \in {"truncate", "write"}
                           => MayLeave(cmd[q].kind, cmd[q].rec.status)'
                      /\ cmd'[q].step = "done" /\ cmd'[q].kind = "consume" =>
                           file'[cmd'[q].id] \in Approval /\ file'[cmd'[q].id].status = "consumed"
    BY DEF FollowsFile
  <2>1. CASE q = p
    <3>1. cmd'[q] = c
      BY <2>1
    <3>2. StatusBefore(cmd[q].kind)' = StatusBefore(c.kind)
      BY <3>1, Zenon DEF StatusBefore
    <3>3. MayLeave(cmd[q].kind, cmd[q].rec.status)' <=> MayLeave(c.kind, c.rec.status)
      BY <3>1 DEF MayLeave
    <3> QED
      BY <3>1, <3>2, <3>3
  <2>2. CASE q # p
    BY <2>2 DEF Idle
  <2> QED
    BY <2>1, <2>2
<1> QED
  BY <1>1 DEF RefInv

LEMMA RefStart ==
  ASSUME RefInv, ~Overlap, SerialInv', NEW p \in Procs, MayStart(p), NEW c,
         cmd' = [cmd EXCEPT ![p] = c], file' = file,
         \A j \in Ids : issued'[j] = None => issued[j] = None,
         \/ c.step = "load"
         \/ /\ c.step = "truncate" /\ c.kind = "create"
            /\ file[c.id] = None /\ c.rec.status = "pending"
  PROVE  RefInv'
<1>1. \A q \in Procs : cmd[q] = Idle
  BY DEF MayStart, RefInv, SerialInv, IInv, TypeOK, Running, Command
<1>2. \A q \in Procs : cmd'[q] = IF q = p THEN c ELSE Idle
  BY <1>1 DEF RefInv, SerialInv, IInv, TypeOK
<1>3. Unissued'
  BY DEF RefInv, Unissued
<1>4. c.kind = "create" /\ c.rec.status = "pending" => MayLeave(c.kind, c.rec.status)
  BY DEF MayLeave
<1> QED
  BY <1>2, <1>3, <1>4, RefMove

LEMMA RefStarts ==
  ASSUME RefInv, ~Overlap, SerialInv',
         \/ \E p \in Approvers, kind \in HumanKinds, i \in Ids : StartDecision(p, kind, i)
         \/ \E p \in Gates, kind \in GateKinds, i \in Ids, req \in Requests :
              StartCheck(p, kind, i, req)
         \/ \E p \in Gates, i \in Ids, req \in Requests : StartCreate(p, i, req)
  PROVE  RefInv'
<1>1. ASSUME NEW p \in Approvers, NEW kind \in HumanKinds, NEW i \in Ids,
             StartDecision(p, kind, i)
      PROVE  RefInv'
  <2> DEFINE c == [step |-> "load", kind |-> kind, id |-> i, req |-> None, rec |-> None]
  <2>1. c.step = "load" /\ cmd' = [cmd EXCEPT ![p] = c] /\ p \in Procs
    BY <1>1 DEF StartDecision, Procs
  <2> HIDE DEF c
  <2> QED
    BY <1>1, <2>1, RefStart DEF StartDecision, history
<1>2. ASSUME NEW p \in Gates, NEW kind \in GateKinds, NEW i \in Ids, NEW req \in Requests,
             StartCheck(p, kind, i, req)
      PROVE  RefInv'
  <2> DEFINE c == [step |-> "load", kind |-> kind, id |-> i, req |-> req, rec |-> None]
  <2>1. c.step = "load" /\ cmd' = [cmd EXCEPT ![p] = c] /\ p \in Procs
    BY <1>2 DEF StartCheck, Procs
  <2> HIDE DEF c
  <2> QED
    BY <1>2, <2>1, RefStart DEF StartCheck, history
<1>3. ASSUME NEW p \in Gates, NEW i \in Ids, NEW req \in Requests, StartCreate(p, i, req)
      PROVE  RefInv'
  <2> DEFINE c == [step |-> "truncate", kind |-> "create", id |-> i, req |-> None,
                   rec |-> NewApproval(req, now, Ttl)]
  <2>1. /\ c.step = "truncate" /\ c.kind = "create" /\ c.id = i /\ c.rec.status = "pending"
        /\ cmd' = [cmd EXCEPT ![p] = c] /\ p \in Procs
    BY <1>3 DEF StartCreate, Procs, NewApproval
  <2>2. file[i] = None
    BY <1>3 DEF StartCreate, RefInv, Unissued
  <2>3. \A j \in Ids : issued'[j] = None => issued[j] = None
    BY <1>3 DEF StartCreate, RefInv, SerialInv, IInv, TypeOK
  <2> HIDE DEF c
  <2> QED
    BY <1>3, <2>1, <2>2, <2>3, RefStart DEF StartCreate
<1> QED
  BY <1>1, <1>2, <1>3

\* The status a decision finds, and the one it leaves.
LEMMA DecidedStatus ==
  ASSUME NEW rec \in Approval, NEW c \in Command, c.kind # "create", c.rec = rec,
         Verdict(c) # "refuse"
  PROVE  rec.status = StatusBefore(c.kind)
<1>1. CASE c.kind \in HumanKinds
  BY <1>1, StatusBeforeIs DEF Verdict, HumanVerdict, HumanKinds
<1>2. CASE c.kind \notin HumanKinds
  BY <1>2, StatusBeforeIs DEF Verdict, GateVerdict, Command, Kinds, GateKinds
<1> QED
  BY <1>1, <1>2

LEMMA RefDecides ==
  ASSUME RefInv, SerialInv', NEW p \in Procs,
         LoadMissing(p) \/ Load(p) \/ Refuse(p) \/ Expire(p) \/ Grant(p) \/ PassProbe(p)
  PROVE  RefInv'
<1>1. /\ Running(p) /\ UNCHANGED <<file, issued, approvedIds, rejectedIds, uses>>
      /\ cmd[p] \in Command /\ cmd[p].id \in Ids
  BY DEF LoadMissing, Load, Refuse, Expire, Grant, PassProbe, Running, history, RefInv,
         SerialInv, IInv, TypeOK, Idle, Command
<1>2. Unissued'
  BY <1>1 DEF RefInv, Unissued
<1>3. CASE LoadMissing(p) \/ Refuse(p)
  <2>1. Goto(p, "refused", None)
    BY <1>3 DEF LoadMissing, Refuse
  <2>2. /\ \A q \in Procs : cmd'[q] = IF q = p THEN cmd'[p] ELSE Idle
        /\ cmd'[p].step = "refused"
    BY <1>1, <2>1, SerialGoto DEF RefInv
  <2> QED
    BY <1>2, <2>2, RefMove
<1>4. CASE PassProbe(p)
  <2>1. /\ \A q \in Procs : cmd'[q] = IF q = p THEN cmd'[p] ELSE Idle
        /\ cmd'[p].step = "done" /\ cmd'[p].kind = "probe"
    BY <1>1, <1>4, SerialGoto DEF PassProbe, RefInv
  <2> QED
    BY <1>2, <2>1, RefMove
<1>5. CASE Load(p)
  <2>1. /\ \A q \in Procs : cmd'[q] = IF q = p THEN cmd'[p] ELSE Idle
        /\ cmd'[p].step = "decide" /\ cmd'[p].rec = file[cmd[p].id]
        /\ cmd'[p].id = cmd[p].id
    BY <1>1, <1>5, SerialGoto DEF Load, RefInv
  <2> QED
    BY <1>1, <1>2, <2>1, RefMove
<1>6. ASSUME NEW s \in Status, Goto(p, "truncate", [cmd[p].rec EXCEPT !.status = s]),
             cmd[p].step = "decide", Verdict(cmd[p]) # "refuse",
             s = "expired" \/ (s = SavedStatus(cmd[p].kind) /\ cmd[p].kind # "probe")
      PROVE  RefInv'
  <2>1. cmd[p].rec \in Approval /\ cmd[p].kind \in Kinds \ {"create"}
    BY <1>6, Deciding DEF Copying, RefInv, SerialInv
  <2> DEFINE new == [cmd[p].rec EXCEPT !.status = s]
  <2>2. new.status = s
    BY <2>1, WithStatus
  <2>3. file[cmd[p].id] \in Approval /\ file[cmd[p].id].status = StatusBefore(cmd[p].kind)
    BY <1>1, <1>6, <2>1, DecidedStatus DEF RefInv, FollowsFile
  <2>4. MayLeave(cmd[p].kind, s)
    <3>1. /\ SavedStatus("approve") = "approved" /\ SavedStatus("reject") = "rejected"
          /\ SavedStatus("consume") = "consumed"
      BY DEF SavedStatus
    <3> QED
      BY <1>6, <2>1, <3>1 DEF MayLeave, Kinds, HumanKinds, GateKinds
  <2> HIDE DEF new
  <2>5. /\ \A q \in Procs : cmd'[q] = IF q = p THEN cmd'[p] ELSE Idle
        /\ cmd'[p].step = "truncate" /\ cmd'[p].rec = new
        /\ cmd'[p].id = cmd[p].id /\ cmd'[p].kind = cmd[p].kind
    BY <1>1, <1>6, SerialGoto DEF new, RefInv
  <2> QED
    BY <1>1, <1>2, <2>1, <2>2, <2>3, <2>4, <2>5, RefMove
<1>7. CASE Expire(p)
  BY <1>6, <1>7 DEF Expire, Status
<1>8. CASE Grant(p)
  <2>1. cmd[p].kind \in Kinds \ {"create", "probe"}
    BY <1>8, Deciding DEF Grant, Copying, RefInv, SerialInv
  <2>2. SavedStatus(cmd[p].kind) \in Status
    BY <2>1, SavedStatusType
  <2> QED
    BY <1>6, <1>8, <2>1, <2>2 DEF Grant
<1> QED
  BY <1>3, <1>4, <1>5, <1>7, <1>8

LEMMA RefSaves ==
  ASSUME RefInv, SerialInv', NEW p \in Procs, Truncate(p) \/ Write(p)
  PROVE  RefInv'
<1>1. /\ Running(p) /\ issued' = issued /\ cmd[p].step \in {"truncate", "write"}
      /\ cmd[p].id \in Ids /\ cmd[p].rec \in Approval /\ issued[cmd[p].id] # None
      /\ MayLeave(cmd[p].kind, cmd[p].rec.status)
  BY Deciding, QueueAssumption
     DEF Truncate, Write, Running, Copying, history, RefInv, SerialInv, Backed, FollowsFile
<1>2. CASE Truncate(p)
  <2>1. /\ \A q \in Procs : cmd'[q] = IF q = p THEN cmd'[p] ELSE Idle
        /\ cmd'[p].step = "write" /\ cmd'[p].rec = cmd[p].rec
        /\ cmd'[p].id = cmd[p].id /\ cmd'[p].kind = cmd[p].kind
    BY <1>1, <1>2, SerialGoto DEF Truncate, RefInv
  <2>2. \A j \in Ids : file'[j] = IF j = cmd[p].id THEN Torn ELSE file[j]
    BY <1>2 DEF Truncate, RefInv, SerialInv, IInv, TypeOK
  <2>3. Unissued'
    BY <1>1, <2>2 DEF RefInv, Unissued
  <2> QED
    BY <1>1, <2>1, <2>2, <2>3, RefMove
<1>3. CASE Write(p)
  <2>1. PICK step \in {"done", "refused"} :
          Goto(p, step, None) /\ (step = "done" => cmd[p].rec.status # "expired")
    BY <1>3, Zenon DEF Write
  <2>2. /\ \A q \in Procs : cmd'[q] = IF q = p THEN cmd'[p] ELSE Idle
        /\ cmd'[p].step = step
        /\ cmd'[p].id = cmd[p].id /\ cmd'[p].kind = cmd[p].kind
    BY <1>1, <2>1, SerialGoto DEF RefInv
  <2>3. \A j \in Ids : file'[j] = IF j = cmd[p].id THEN cmd[p].rec ELSE file[j]
    BY <1>3 DEF Write, RefInv, SerialInv, IInv, TypeOK
  <2>4. Unissued'
    BY <1>1, <2>3 DEF RefInv, Unissued
  <2>5. step = "done" /\ cmd[p].kind = "consume" => cmd[p].rec.status = "consumed"
    BY <1>1, <2>1 DEF MayLeave
  <2> QED
    BY <1>1, <2>1, <2>2, <2>3, <2>4, <2>5, RefMove
<1> QED
  BY <1>2, <1>3

LEMMA RefNext == ~Overlap /\ RefInv /\ [Next]_vars => RefInv'
<1> SUFFICES ASSUME ~Overlap, RefInv, [Next]_vars PROVE RefInv'
  OBVIOUS
<1>1. SerialInv'
  BY SerialNext DEF RefInv
<1>2. CASE \E p \in Procs : Step(p)
  BY <1>1, <1>2, RefDecides, RefSaves DEF Step
<1>3. CASE (\E p \in Procs : Return(p)) \/ (\E p \in Procs : Crash(p))
  <2>1. PICK p \in Procs : Return(p) \/ Crash(p)
    BY <1>3
  <2>2. Running(p) /\ UNCHANGED <<file, issued>> /\ cmd' = [cmd EXCEPT ![p] = Idle]
    BY <2>1 DEF Return, Crash, Running, history
  <2>3. \A q \in Procs : cmd'[q] = IF q = p THEN Idle ELSE Idle
    BY <2>2, OthersIdle DEF RefInv, SerialInv, IInv, TypeOK
  <2>4. Unissued'
    BY <2>2 DEF RefInv, Unissued
  <2> QED
    BY <1>1, <2>3, <2>4, RefMove DEF Idle
<1>4. CASE Tick \/ UNCHANGED vars
  <2>1. UNCHANGED <<file, cmd, issued>>
    BY <1>4 DEF Tick, vars, history
  <2> QED
    BY <1>1, <2>1 DEF RefInv, FollowsFile, Unissued, StatusBefore, MayLeave
<1> QED
  BY <1>1, <1>2, <1>3, <1>4, RefStarts DEF Next

\* What the mapping shows of an approval: the status on file, or the status the
\* command that is rewriting the file has found there.
ShowsFile ==
  \A i \in Ids :
    /\ file[i] = None => AbstractStatus(i) = "absent"
    /\ file[i] \in Approval => AbstractStatus(i) = file[i].status
    /\ file[i] = Torn /\ (\A p \in Procs : ~Writing(p, i)) => AbstractStatus(i) = "lost"
    /\ file[i] = Torn => \A p \in Procs :
         Writing(p, i) => AbstractStatus(i) = StatusBefore(cmd[p].kind)

LEMMA Shows == OneCommand => ShowsFile
<1> SUFFICES ASSUME OneCommand, NEW i \in Ids
             PROVE  /\ file[i] = None => AbstractStatus(i) = "absent"
                    /\ file[i] \in Approval => AbstractStatus(i) = file[i].status
                    /\ file[i] = Torn /\ (\A p \in Procs : ~Writing(p, i))
                         => AbstractStatus(i) = "lost"
                    /\ file[i] = Torn => \A p \in Procs :
                         Writing(p, i) => AbstractStatus(i) = StatusBefore(cmd[p].kind)
  BY DEF ShowsFile
<1>1. None \notin Approval /\ Torn \notin Approval /\ None # Torn
  BY QueueAssumption
<1>2. file[i] = None => AbstractStatus(i) = "absent"
  BY <1>1, Zenon DEF AbstractStatus
<1>3. file[i] \in Approval => AbstractStatus(i) = file[i].status
  <2> SUFFICES ASSUME file[i] \in Approval PROVE AbstractStatus(i) = file[i].status
    OBVIOUS
  <2>1. file[i] # None /\ file[i] # Torn
    BY <1>1
  <2> QED
    BY <2>1, Zenon DEF AbstractStatus
<1>4. file[i] = Torn /\ (\A p \in Procs : ~Writing(p, i)) => AbstractStatus(i) = "lost"
  BY <1>1, Zenon DEF AbstractStatus
<1>5. ASSUME file[i] = Torn, NEW p \in Procs, Writing(p, i)
      PROVE  AbstractStatus(i) = StatusBefore(cmd[p].kind)
  <2>1. \A q \in Procs : Writing(q, i) => q = p
    BY <1>5 DEF OneCommand, Writing, Running
  <2>2. (CHOOSE q \in Procs : Writing(q, i)) = p
    BY <1>5, <2>1
  <2>3. AbstractStatus(i) = StatusBefore(cmd[CHOOSE q \in Procs : Writing(q, i)].kind)
    BY <1>1, <1>5, Zenon DEF AbstractStatus
  <2> QED
    BY <2>2, <2>3
<1> QED
  BY <1>2, <1>3, <1>4, <1>5

\* The same of the state a step leads to.
LEMMA ShowsNext == OneCommand' => ShowsFile'
BY Shows, PTL

\* One approval moves.
LEMMA MoveOne ==
  ASSUME NEW i \in Ids, NEW from, NEW to,
         AbstractStatus(i) \in from, AbstractStatus(i)' = to, uses' = uses,
         \A j \in Ids : j # i => AbstractStatus(j)' = AbstractStatus(j)
  PROVE  Lifecycle!Move(i, from, to)
<1>1. [j \in Ids |-> AbstractStatus(j)][i] \in from
  OBVIOUS
<1>2. [j \in Ids |-> AbstractStatus(j)']
        = [[j \in Ids |-> AbstractStatus(j)] EXCEPT ![i] = to]
  OBVIOUS
<1> QED
  BY <1>1, <1>2 DEF Lifecycle!Move

\* An approval whose file does not change and is not being written stays put.
LEMMA StaysPut ==
  ASSUME RefInv, RefInv', NEW j \in Ids, file'[j] = file[j],
         \A q \in Procs : ~Writing(q, j) /\ ~Writing(q, j)'
  PROVE  AbstractStatus(j)' = AbstractStatus(j)
<1>1. file[j] \in Approval \/ file[j] = None \/ file[j] = Torn
  BY DEF RefInv, SerialInv, IInv, TypeOK
<1> QED
  BY <1>1, Shows, ShowsNext DEF RefInv, SerialInv, ShowsFile

\* No file changes and none is being written: no approval moves.
LEMMA NoneMoves ==
  ASSUME RefInv, RefInv', file' = file, uses' = uses,
         \A p \in Procs : cmd[p].step # "write" /\ cmd'[p].step # "write"
  PROVE  UNCHANGED Lifecycle!vars
<1>1. \A i \in Ids : AbstractStatus(i)' = AbstractStatus(i)
  BY StaysPut DEF Writing
<1> QED
  BY <1>1 DEF Lifecycle!vars

\* A truncation starts a save and moves no approval.
LEMMA TruncateMovesNone ==
  ASSUME RefInv, RefInv', NEW p \in Procs, Truncate(p)
  PROVE  UNCHANGED Lifecycle!vars
<1>0. PICK i \in Ids : cmd[p].id = i
  BY DEF Truncate, RefInv, SerialInv, IInv, TypeOK, Idle, Command
<1>1. /\ Running(p) /\ cmd[p].step = "truncate" /\ cmd[p].kind \in Kinds
      /\ uses' = uses
      /\ \A j \in Ids : file'[j] = IF j = i THEN Torn ELSE file[j]
  BY <1>0, Deciding
     DEF Truncate, Running, Copying, history, RefInv, SerialInv, IInv, TypeOK, Command
<1>2. /\ \A q \in Procs : cmd'[q] = IF q = p THEN cmd'[p] ELSE Idle
      /\ \A q \in Procs : q # p => cmd[q] = Idle
      /\ cmd'[p].step = "write" /\ cmd'[p].id = i /\ cmd'[p].kind = cmd[p].kind
  BY <1>0, <1>1, SerialGoto, OthersIdle DEF Truncate, RefInv
<1>3. \A j \in Ids, q \in Procs : ~Writing(q, j) /\ (Writing(q, j)' <=> q = p /\ j = i)
  BY <1>1, <1>2 DEF Writing, Idle
<1>4. AbstractStatus(i) = StatusBefore(cmd[p].kind)
  BY <1>0, <1>1, Shows, StatusBeforeIs DEF RefInv, SerialInv, ShowsFile, FollowsFile
<1>5. AbstractStatus(i)' = StatusBefore(cmd[p].kind)
  <2>1. AbstractStatus(i)' = StatusBefore(cmd[p].kind)'
    BY <1>1, <1>3, ShowsNext DEF RefInv, SerialInv, ShowsFile
  <2>2. StatusBefore(cmd[p].kind)' = StatusBefore(cmd[p].kind)
    BY <1>2, Zenon DEF StatusBefore
  <2> QED
    BY <2>1, <2>2
<1>6. \A j \in Ids : j # i => AbstractStatus(j)' = AbstractStatus(j)
  BY <1>1, <1>3, StaysPut
<1> QED
  BY <1>1, <1>4, <1>5, <1>6 DEF Lifecycle!vars

\* What a command of each kind does to an approval when it saves.
LEMMA SavedMove ==
  ASSUME NEW i \in Ids, NEW kind \in Kinds, NEW s, MayLeave(kind, s),
         AbstractStatus(i) = StatusBefore(kind), AbstractStatus(i)' = s, uses' = uses,
         \A j \in Ids : j # i => AbstractStatus(j)' = AbstractStatus(j)
  PROVE  Lifecycle!Next
<1>1. CASE kind = "create"
  BY <1>1, StatusBeforeIs, MoveOne DEF MayLeave, Lifecycle!Next, Lifecycle!Request
<1>2. CASE kind # "create" /\ s = "expired"
  <2>1. Lifecycle!Move(i, {"pending", "approved"}, "expired")
    BY <1>2, StatusBeforeIs, MoveOne DEF Kinds, HumanKinds, GateKinds
  <2> QED
    BY <2>1 DEF Lifecycle!Next, Lifecycle!Lapse
<1>3. CASE kind = "approve" /\ s = "approved"
  BY <1>3, StatusBeforeIs, MoveOne DEF Lifecycle!Next, Lifecycle!Approve
<1>4. CASE kind = "reject" /\ s = "rejected"
  BY <1>4, StatusBeforeIs, MoveOne DEF Lifecycle!Next, Lifecycle!Reject
<1>5. CASE kind = "consume" /\ s = "consumed"
  BY <1>5, StatusBeforeIs, MoveOne DEF Lifecycle!Next, Lifecycle!Consume
<1> QED
  BY <1>1, <1>2, <1>3, <1>4, <1>5 DEF MayLeave

LEMMA WriteMoves ==
  ASSUME RefInv, RefInv', NEW p \in Procs, Write(p)
  PROVE  Lifecycle!Next
<1>0. PICK i \in Ids : cmd[p].id = i
  BY DEF Write, RefInv, SerialInv, IInv, TypeOK, Idle, Command
<1>1. /\ Running(p) /\ cmd[p].step = "write" /\ cmd[p].kind \in Kinds
      /\ uses' = uses /\ file[i] = Torn
      /\ cmd[p].rec \in Approval /\ MayLeave(cmd[p].kind, cmd[p].rec.status)
      /\ \A j \in Ids : file'[j] = IF j = i THEN cmd[p].rec ELSE file[j]
  BY <1>0, Deciding
     DEF Write, Running, Copying, RefInv, SerialInv, IInv, TypeOK, Command, FollowsFile
<1>2. /\ \A q \in Procs : q # p => cmd[q] = Idle /\ cmd'[q] = Idle
      /\ cmd'[p].step \in {"done", "refused"}
  <2>1. Goto(p, "done", None) \/ Goto(p, "refused", None)
    BY DEF Write
  <2> QED
    BY <1>1, <2>1, SerialGoto, OthersIdle DEF RefInv
<1>3. \A j \in Ids, q \in Procs : ~Writing(q, j)' /\ (Writing(q, j) <=> q = p /\ j = i)
  BY <1>0, <1>1, <1>2 DEF Writing, Idle
<1>4. AbstractStatus(i) = StatusBefore(cmd[p].kind)
  BY <1>1, <1>3, Shows DEF RefInv, SerialInv, ShowsFile
<1>5. AbstractStatus(i)' = cmd[p].rec.status
  BY <1>1, ShowsNext DEF RefInv, SerialInv, ShowsFile
<1>6. \A j \in Ids : j # i => AbstractStatus(j)' = AbstractStatus(j)
  BY <1>1, <1>3, StaysPut
<1> QED
  BY <1>1, <1>4, <1>5, <1>6, SavedMove

LEMMA CrashMoves ==
  ASSUME RefInv, RefInv', NEW p \in Procs, Crash(p)
  PROVE  Lifecycle!Next \/ UNCHANGED Lifecycle!vars
<1>1. /\ Running(p) /\ file' = file /\ uses' = uses
      /\ \A q \in Procs : cmd'[q] = Idle /\ (q # p => cmd[q] = Idle)
  BY OthersIdle DEF Crash, history, RefInv, SerialInv, IInv, TypeOK
<1>2. CASE cmd[p].step # "write"
  BY <1>1, <1>2, NoneMoves DEF Idle
<1>3. CASE cmd[p].step = "write"
  <2>1. PICK i \in Ids : cmd[p].id = i
    BY <1>3 DEF RefInv, SerialInv, IInv, TypeOK, Idle, Command
  <2>2. file[i] = Torn /\ cmd[p].kind \in Kinds
    BY <1>3, <2>1, Deciding DEF RefInv, FollowsFile, SerialInv, Copying, Command
  <2>3. \A j \in Ids, q \in Procs : ~Writing(q, j)' /\ (Writing(q, j) <=> q = p /\ j = i)
    BY <1>1, <1>3, <2>1 DEF Writing, Idle
  <2>4. AbstractStatus(i) = StatusBefore(cmd[p].kind) /\ AbstractStatus(i)' = "lost"
    BY <1>1, <2>2, <2>3, Shows, ShowsNext DEF RefInv, SerialInv, ShowsFile
  <2>5. AbstractStatus(i) \in {"absent", "pending", "approved"}
    BY <2>2, <2>4, StatusBeforeIs DEF Kinds, HumanKinds, GateKinds
  <2>6. \A j \in Ids : j # i => AbstractStatus(j)' = AbstractStatus(j)
    BY <1>1, <2>3, StaysPut
  <2>7. Lifecycle!Move(i, {"absent", "pending", "approved"}, "lost")
    BY <1>1, <2>4, <2>5, <2>6, MoveOne
  <2> QED
    BY <2>7 DEF Lifecycle!Next, Lifecycle!Lose
<1> QED
  BY <1>2, <1>3

LEMMA ReturnMoves ==
  ASSUME RefInv, RefInv', NEW p \in Procs, Return(p)
  PROVE  Lifecycle!Next \/ UNCHANGED Lifecycle!vars
<1>1. /\ Running(p) /\ file' = file /\ cmd[p].step \in {"done", "refused"}
      /\ \A q \in Procs : cmd'[q] = Idle /\ (q # p => cmd[q] = Idle)
      /\ cmd[p] \in Command
  BY OthersIdle DEF Return, Running, RefInv, SerialInv, IInv, TypeOK, Idle
<1>2. CASE ~(cmd[p].step = "done" /\ cmd[p].kind = "consume")
  <2>1. uses' = uses
    BY <1>2 DEF Return, RefInv, SerialInv, IInv, TypeOK
  <2> QED
    BY <1>1, <2>1, NoneMoves DEF Idle
<1>3. CASE cmd[p].step = "done" /\ cmd[p].kind = "consume"
  <2>1. PICK i \in Ids : cmd[p].id = i
    BY <1>1 DEF Command
  <2>2. file[i] \in Approval /\ file[i].status = "consumed" /\ uses[i] = 0
    BY <1>3, <2>1 DEF RefInv, FollowsFile, SerialInv, InFlight
  <2>3. uses' = [uses EXCEPT ![i] = 1]
    <3>1. uses' = [j \in Ids |-> IF j \in {k \in {i} : TRUE} THEN uses[j] + 1 ELSE uses[j]]
      BY <1>3, <2>1 DEF Return
    <3>2. uses' = [j \in Ids |-> IF j = i THEN 1 ELSE uses[j]]
      BY <2>2, <3>1
    <3> QED
      BY <3>2 DEF RefInv, SerialInv, IInv, TypeOK
  <2>4. \A j \in Ids : AbstractStatus(j)' = AbstractStatus(j)
    BY <1>1, StaysPut DEF Writing, Idle
  <2>5. AbstractStatus(i) = "consumed"
    BY <2>2, Shows DEF RefInv, SerialInv, ShowsFile
  <2>6. /\ [j \in Ids |-> AbstractStatus(j)][i] = "consumed"
        /\ [j \in Ids |-> AbstractStatus(j)'] = [j \in Ids |-> AbstractStatus(j)]
    BY <2>4, <2>5
  <2>7. Lifecycle!Use(i)
    BY <2>2, <2>3, <2>6 DEF Lifecycle!Use
  <2> QED
    BY <2>7 DEF Lifecycle!Next
<1> QED
  BY <1>2, <1>3

LEMMA OtherStepsMoveNone ==
  ASSUME RefInv, RefInv', ~Overlap,
         \/ \E p \in Approvers, kind \in HumanKinds, i \in Ids : StartDecision(p, kind, i)
         \/ \E p \in Gates, kind \in GateKinds, i \in Ids, req \in Requests :
              StartCheck(p, kind, i, req)
         \/ \E p \in Gates, i \in Ids, req \in Requests : StartCreate(p, i, req)
         \/ \E p \in Procs : \/ LoadMissing(p) \/ Load(p)
                             \/ Refuse(p) \/ Expire(p) \/ Grant(p) \/ PassProbe(p)
  PROVE  UNCHANGED Lifecycle!vars
<1>1. ASSUME NEW p \in Procs, MayStart(p), NEW c, cmd' = [cmd EXCEPT ![p] = c],
             c.step # "write", file' = file, uses' = uses
      PROVE  UNCHANGED Lifecycle!vars
  <2>1. \A q \in Procs : cmd[q].step # "write" /\ cmd'[q].step # "write"
    BY <1>1 DEF MayStart, Running, RefInv, SerialInv, IInv, TypeOK
  <2> QED
    BY <1>1, <2>1, NoneMoves
<1>2. ASSUME NEW p \in Approvers, NEW kind \in HumanKinds, NEW i \in Ids,
             StartDecision(p, kind, i)
      PROVE  UNCHANGED Lifecycle!vars
  <2> DEFINE c == [step |-> "load", kind |-> kind, id |-> i, req |-> None, rec |-> None]
  <2>1. c.step # "write" /\ p \in Procs
    BY DEF Procs
  <2>2. /\ MayStart(p) /\ cmd' = [cmd EXCEPT ![p] = c]
        /\ file' = file /\ uses' = uses
    BY <1>2 DEF StartDecision, history
  <2> HIDE DEF c
  <2> QED
    BY <1>1, <2>1, <2>2
<1>3. ASSUME NEW p \in Gates, NEW kind \in GateKinds, NEW i \in Ids, NEW req \in Requests,
             StartCheck(p, kind, i, req)
      PROVE  UNCHANGED Lifecycle!vars
  <2> DEFINE c == [step |-> "load", kind |-> kind, id |-> i, req |-> req, rec |-> None]
  <2>1. c.step # "write" /\ p \in Procs
    BY DEF Procs
  <2>2. /\ MayStart(p) /\ cmd' = [cmd EXCEPT ![p] = c]
        /\ file' = file /\ uses' = uses
    BY <1>3 DEF StartCheck, history
  <2> HIDE DEF c
  <2> QED
    BY <1>1, <2>1, <2>2
<1>4. ASSUME NEW p \in Gates, NEW i \in Ids, NEW req \in Requests, StartCreate(p, i, req)
      PROVE  UNCHANGED Lifecycle!vars
  <2> DEFINE c == [step |-> "truncate", kind |-> "create", id |-> i, req |-> None,
                   rec |-> NewApproval(req, now, Ttl)]
  <2>1. c.step # "write" /\ p \in Procs
    BY DEF Procs
  <2>2. /\ MayStart(p) /\ cmd' = [cmd EXCEPT ![p] = c]
        /\ file' = file /\ uses' = uses
    BY <1>4 DEF StartCreate
  <2> HIDE DEF c
  <2> QED
    BY <1>1, <2>1, <2>2
<1>5. ASSUME NEW p \in Procs, NEW step, NEW rec, Goto(p, step, rec),
             cmd[p].step \in {"load", "decide"}, step # "write", file' = file, uses' = uses
      PROVE  UNCHANGED Lifecycle!vars
  <2>1. Running(p)
    BY <1>5 DEF Running
  <2>2. \A q \in Procs : cmd[q].step # "write" /\ cmd'[q].step # "write"
    BY <1>5, <2>1, SerialGoto, OthersIdle DEF RefInv, Idle
  <2> QED
    BY <1>5, <2>2, NoneMoves
<1>6. ASSUME NEW p \in Procs, LoadMissing(p) \/ Load(p) PROVE UNCHANGED Lifecycle!vars
  BY <1>5, <1>6 DEF LoadMissing, Load, history
<1>7. ASSUME NEW p \in Procs, Refuse(p) \/ Expire(p) PROVE UNCHANGED Lifecycle!vars
  BY <1>5, <1>7 DEF Refuse, Expire, history
<1>8. ASSUME NEW p \in Procs, Grant(p) \/ PassProbe(p) PROVE UNCHANGED Lifecycle!vars
  BY <1>5, <1>8 DEF Grant, PassProbe, history
<1> QED
  BY <1>2, <1>3, <1>4, <1>6, <1>7, <1>8

LEMMA StepRefines ==
  ~Overlap /\ RefInv /\ RefInv' /\ [Next]_vars => [Lifecycle!Next]_Lifecycle!vars
<1> SUFFICES ASSUME ~Overlap, RefInv, RefInv', [Next]_vars
             PROVE  Lifecycle!Next \/ UNCHANGED Lifecycle!vars
  OBVIOUS
<1>1. CASE \E p \in Procs : Truncate(p) \/ Write(p)
  BY <1>1, TruncateMovesNone, WriteMoves
<1>2. CASE \E p \in Procs : Return(p) \/ Crash(p)
  BY <1>2, ReturnMoves, CrashMoves
<1>3. CASE Tick \/ UNCHANGED vars
  <2>1. UNCHANGED <<file, cmd, uses>>
    BY <1>3 DEF Tick, vars, history
  <2>2. ASSUME NEW j \in Ids PROVE AbstractStatus(j)' = AbstractStatus(j)
    <3>1. \A p \in Procs : Writing(p, j)' <=> Writing(p, j)
      BY <2>1 DEF Writing
    <3>2. CASE \A p \in Procs : ~Writing(p, j)
      BY <2>1, <3>1, <3>2, StaysPut
    <3>3. ASSUME NEW p \in Procs, Writing(p, j) PROVE AbstractStatus(j)' = AbstractStatus(j)
      <4>1. file[j] = Torn
        BY <3>3 DEF RefInv, FollowsFile, Writing
      <4>2. AbstractStatus(j) = StatusBefore(cmd[p].kind)
        BY <3>3, <4>1, Shows DEF RefInv, SerialInv, ShowsFile
      <4>3. AbstractStatus(j)' = StatusBefore(cmd[p].kind)'
        BY <2>1, <3>1, <3>3, <4>1, ShowsNext DEF RefInv, SerialInv, ShowsFile
      <4>4. StatusBefore(cmd[p].kind)' = StatusBefore(cmd[p].kind)
        BY <2>1, Zenon DEF StatusBefore
      <4> QED
        BY <4>2, <4>3, <4>4
    <3> QED
      BY <3>2, <3>3
  <2> QED
    BY <2>1, <2>2 DEF Lifecycle!vars
<1> QED
  BY <1>1, <1>2, <1>3, OtherStepsMoveNone DEF Next, Step

\* While commands do not overlap, the queue of files implements the lifecycle.
THEOREM QueueImplementsLifecycle == ~Overlap => (Spec => ImplementsLifecycle)
<1> SUFFICES ASSUME ~Overlap PROVE Spec => ImplementsLifecycle
  OBVIOUS
<1>1. RefInv /\ [Next]_vars => RefInv'
  BY RefNext
<1>2. Init => Lifecycle!Init
  <2> SUFFICES ASSUME Init PROVE Lifecycle!Init
    OBVIOUS
  <2>1. \A i \in Ids : AbstractStatus(i) = "absent"
    BY RefInit, Shows DEF Init, RefInv, SerialInv, ShowsFile
  <2> QED
    BY <2>1 DEF Init, Lifecycle!Init
<1>3. RefInv /\ RefInv' /\ [Next]_vars => [Lifecycle!Next]_Lifecycle!vars
  BY StepRefines
<1> QED
  BY <1>1, <1>2, <1>3, RefInit, PTL DEF Spec, ImplementsLifecycle, Lifecycle!Spec
=============================================================================
