--------------------------- MODULE ApprovalQueue ---------------------------
(***************************************************************************)
(* The approval file queue under every command that touches it: a gated    *)
(* command asks for an approval (createApproval), a person approves or     *)
(* rejects it (runApprove, runReject), and the gate of a later command     *)
(* checks it and consumes it (checkPermission).                            *)
(*                                                                         *)
(* Each command runs in a process of its own, the CLI or a request of the  *)
(* MCP server, and takes no lock.  It reads the whole file, decides on its *)
(* copy and the clock, and writes the whole copy back: fs.writeFile opens  *)
(* the file truncated and then fills it, so a reader may find it empty.    *)
(* Other processes run between any two of those steps, and a process may   *)
(* die after any of them.  Two writers whose windows overlap leave the     *)
(* record of the later one (a mixture of the two texts, which the parser   *)
(* would refuse, is not modelled).                                         *)
(***************************************************************************)
EXTENDS ApprovalRecords

CONSTANTS Ids,        \* approval ids, each used by one createApproval
          Approvers,  \* processes that run approve and reject
          Gates,      \* processes of the gated commands
          Ttl,        \* lifetime of an approval, in ticks (60 minutes)
          MaxTime,    \* bound on the clock
          Overlap,    \* may commands overlap, or does each run alone?
          None,       \* no record, no file, no request
          Torn        \* a file that was truncated and not written yet

ASSUME QueueAssumption ==
  /\ Ttl \in Nat
  /\ MaxTime \in Nat
  /\ Overlap \in BOOLEAN
  /\ Approvers \cap Gates = {}
  /\ None \notin Approval /\ Torn \notin Approval /\ None # Torn

Procs == Approvers \cup Gates

VARIABLES file,         \* file[i]: None, Torn or the record
          cmd,          \* cmd[p]: the command p runs, with its copy of the record
          now,          \* the clock
          issued,       \* issued[i]: the record i was created with, or None
          approvedIds,  \* approvals an approve command has saved
          rejectedIds,  \* approvals whose rejection has been reported
          uses          \* uses[i]: operations let through on approval i

vars == <<file, cmd, now, issued, approvedIds, rejectedIds, uses>>

history == <<issued, approvedIds, rejectedIds, uses>>

HumanKinds == {"approve", "reject"}
GateKinds  == {"probe", "consume"}
Kinds      == HumanKinds \cup GateKinds \cup {"create"}

Idle == [step |-> "idle"]

Command ==
  [step : {"load", "decide", "truncate", "write", "done", "refused"},
   kind : Kinds, id : Ids, req : Requests \cup {None}, rec : Approval \cup {None}]

Running(p) == cmd[p].step # "idle"

\* Mutant: the kind of the command is saved in place of the status it leads to.
SavedKind(kind) == kind

\* Mutant: the check passes and the approval stays approved.
SavedUnspent(kind) ==
  CASE kind = "approve" -> "approved"
    [] kind = "reject"  -> "rejected"
    [] kind = "consume" -> "approved"

\* The status a granted command writes.
SavedStatus(kind) ==
  CASE kind = "approve" -> "approved"
    [] kind = "reject"  -> "rejected"
    [] kind = "consume" -> "consumed"

Verdict(c) ==
  IF c.kind \in HumanKinds THEN HumanVerdict(c.rec, now)
                           ELSE GateVerdict(c.rec, c.req, now)

Goto(p, step, rec) == cmd' = [cmd EXCEPT ![p] = [@ EXCEPT !.step = step, !.rec = rec]]

-----------------------------------------------------------------------------

Init ==
  /\ file = [i \in Ids |-> None]
  /\ cmd = [p \in Procs |-> Idle]
  /\ now = 0
  /\ issued = [i \in Ids |-> None]
  /\ approvedIds = {}
  /\ rejectedIds = {}
  /\ uses = [i \in Ids |-> 0]

\* A process may start a command: any time, or only while no other one runs.
MayStart(p) ==
  /\ ~Running(p)
  /\ Overlap \/ \A q \in Procs : ~Running(q)

\* approve and reject load the approval named on the command line, the gate
\* the one given with --approval.  probe is checkPermission told not to consume.
StartDecision(p, kind, i) ==
  /\ MayStart(p)
  /\ cmd' = [cmd EXCEPT ![p] =
               [step |-> "load", kind |-> kind, id |-> i, req |-> None, rec |-> None]]
  /\ UNCHANGED <<file, now, history>>

StartCheck(p, kind, i, req) ==
  /\ MayStart(p)
  /\ cmd' = [cmd EXCEPT ![p] =
               [step |-> "load", kind |-> kind, id |-> i, req |-> req, rec |-> None]]
  /\ UNCHANGED <<file, now, history>>

\* createApproval: a fresh id and an expiry computed from the clock.
StartCreate(p, i, req) ==
  /\ MayStart(p)
  /\ issued[i] = None
  /\ issued' = [issued EXCEPT ![i] = NewApproval(req, now, Ttl)]
  /\ cmd' = [cmd EXCEPT ![p] =
               [step |-> "truncate", kind |-> "create", id |-> i, req |-> None,
                rec |-> NewApproval(req, now, Ttl)]]
  /\ UNCHANGED <<file, now, approvedIds, rejectedIds, uses>>

\* loadApproval: a missing file and an empty one both load as null.
LoadMissing(p) ==
  /\ cmd[p].step = "load"
  /\ file[cmd[p].id] \in {None, Torn}
  /\ Goto(p, "refused", None)
  /\ UNCHANGED <<file, now, history>>

Load(p) ==
  /\ cmd[p].step = "load"
  /\ file[cmd[p].id] \notin {None, Torn}
  /\ Goto(p, "decide", file[cmd[p].id])
  /\ UNCHANGED <<file, now, history>>

Refuse(p) ==
  /\ cmd[p].step = "decide"
  /\ Verdict(cmd[p]) = "refuse"
  /\ Goto(p, "refused", None)
  /\ UNCHANGED <<file, now, history>>

\* Past its expiry the copy is marked expired, saved, and the command refused.
Expire(p) ==
  /\ cmd[p].step = "decide"
  /\ Verdict(cmd[p]) = "expire"
  /\ Goto(p, "truncate", [cmd[p].rec EXCEPT !.status = "expired"])
  /\ UNCHANGED <<file, now, history>>

\* A granted command saves its copy with the new status; a probe saves nothing.
Grant(p) ==
  /\ cmd[p].step = "decide"
  /\ cmd[p].kind # "probe"
  /\ Verdict(cmd[p]) = "grant"
  /\ Goto(p, "truncate", [cmd[p].rec EXCEPT !.status = SavedStatus(cmd[p].kind)])
  /\ UNCHANGED <<file, now, history>>

PassProbe(p) ==
  /\ cmd[p].step = "decide"
  /\ cmd[p].kind = "probe"
  /\ Verdict(cmd[p]) = "grant"
  /\ Goto(p, "done", None)
  /\ UNCHANGED <<file, now, history>>

\* saveApproval: writeFile truncates the file, then writes the whole record.
Truncate(p) ==
  /\ cmd[p].step = "truncate"
  /\ file' = [file EXCEPT ![cmd[p].id] = Torn]
  /\ Goto(p, "write", cmd[p].rec)
  /\ UNCHANGED <<now, history>>

Write(p) ==
  /\ cmd[p].step = "write"
  /\ file' = [file EXCEPT ![cmd[p].id] = cmd[p].rec]
  /\ approvedIds' = approvedIds \cup
                      {i \in {cmd[p].id} : cmd[p].rec.status = "approved"}
  /\ Goto(p, IF cmd[p].rec.status = "expired" THEN "refused" ELSE "done", None)
  /\ UNCHANGED <<now, issued, rejectedIds, uses>>

\* The command reports its outcome; a consumed approval lets its operation run.
Return(p) ==
  /\ cmd[p].step \in {"done", "refused"}
  /\ LET ok(kind) == {i \in {cmd[p].id} : cmd[p].step = "done" /\ cmd[p].kind = kind}
     IN  /\ rejectedIds' = rejectedIds \cup ok("reject")
         /\ uses' = [i \in Ids |-> IF i \in ok("consume") THEN uses[i] + 1 ELSE uses[i]]
  /\ cmd' = [cmd EXCEPT ![p] = Idle]
  /\ UNCHANGED <<file, now, issued, approvedIds>>

\* The process dies; what it had not written is lost.
Crash(p) ==
  /\ Running(p)
  /\ cmd' = [cmd EXCEPT ![p] = Idle]
  /\ UNCHANGED <<file, now, history>>

Tick ==
  /\ now < MaxTime
  /\ now' = now + 1
  /\ UNCHANGED <<file, cmd, history>>

\* The steps of a command that is running.
Step(p) ==
  \/ LoadMissing(p) \/ Load(p)
  \/ Refuse(p) \/ Expire(p) \/ Grant(p) \/ PassProbe(p)
  \/ Truncate(p) \/ Write(p)

Next ==
  \/ \E p \in Approvers, kind \in HumanKinds, i \in Ids : StartDecision(p, kind, i)
  \/ \E p \in Gates, kind \in GateKinds, i \in Ids, req \in Requests :
       StartCheck(p, kind, i, req)
  \/ \E p \in Gates, i \in Ids, req \in Requests : StartCreate(p, i, req)
  \/ \E p \in Procs : Step(p)
  \/ \E p \in Procs : Return(p)
  \/ \E p \in Procs : Crash(p)
  \/ Tick

Spec == Init /\ [][Next]_vars

-----------------------------------------------------------------------------

\* The values the queue's variables take.
TypeOK ==
  /\ file \in [Ids -> Approval \cup {None, Torn}]
  /\ cmd \in [Procs -> {Idle} \cup Command]
  /\ now \in Nat
  /\ issued \in [Ids -> Approval \cup {None}]
  /\ approvedIds \subseteq Ids
  /\ rejectedIds \subseteq Ids
  /\ uses \in [Ids -> Nat]

\* The step in which the gate p lets an operation through, or consumes for it.
Granting(p) ==
  /\ cmd[p].step = "decide"
  /\ cmd[p].kind \in GateKinds
  /\ \/ cmd'[p].step = "done"
     \/ cmd'[p].step = "truncate" /\ cmd'[p].rec.status = "consumed"

\* Whatever the interleaving, the crashes and the copies of the record that go
\* back and forth, checkPermission grants an operation only on an approval that
\* a person has approved, that was asked for that action, arguments and account,
\* and whose lifetime, counted from its creation, has not run out.
OnlyAuthorisedGrants ==
  [][\A p \in Gates : Granting(p) =>
       /\ cmd[p].id \in approvedIds
       /\ issued[cmd[p].id].request.action = cmd[p].req.action
       /\ issued[cmd[p].id].request.argsHash = cmd[p].req.argsHash
       /\ issued[cmd[p].id].request.account \in {NoAccount, cmd[p].req.account}
       /\ now <= issued[cmd[p].id].expiresAt]_vars

Final(rec) == rec \notin {None, Torn} /\ rec.status \in {"rejected", "consumed", "expired"}
Open(rec)  == rec \notin {None, Torn} /\ rec.status \in {"pending", "approved"}

\* With one person deciding at a time, a rejection that was reported stands: no
\* gate, however it overlaps the rejection, ever lets the operation through.
RejectionHolds == \A i \in rejectedIds : uses[i] = 0

\* With one person deciding at a time, an approval that was used is closed for
\* good: whatever copies of its record are still under way, its file never again
\* reads as approved or pending, so only a check that has already loaded it can
\* use it a second time.
SpentStaysClosed == \A i \in Ids : uses[i] > 0 => ~Open(file[i])

\* A command about to save, over the file of i, a record that can still be used.
Reopening(p, i) ==
  cmd[p].step \in {"truncate", "write"} /\ cmd[p].id = i /\ Open(cmd[p].rec)

\* With one person deciding at a time, no stale copy of the record reopens an
\* approval that was rejected, consumed or expired: the file does not turn open,
\* and no command sets out to save a record over it that is.
FinalStaysFinal ==
  [][\A i \in Ids : Final(file[i]) =>
       ~Open(file'[i]) /\ \A p \in Procs : ~Reopening(p, i)']_vars

\* An approval lets at most one operation through.
SingleUse == \A i \in Ids : uses[i] <= 1

-----------------------------------------------------------------------------

\* The command that has truncated the file of i and not written it yet.
Writing(p, i) == cmd[p].step = "write" /\ cmd[p].id = i

\* The status that command found, which still stands until it writes.
StatusBefore(kind) ==
  CASE kind = "create"         -> "absent"
    [] kind \in HumanKinds     -> "pending"
    [] kind = "consume"        -> "approved"
    [] kind = "probe"          -> "approved"

\* The status of an approval as ApprovalLifecycle sees it.
AbstractStatus(i) ==
  CASE file[i] = None -> "absent"
    [] file[i] = Torn -> IF \E p \in Procs : Writing(p, i)
                           THEN StatusBefore(cmd[CHOOSE p \in Procs : Writing(p, i)].kind)
                           ELSE "lost"
    [] OTHER -> file[i].status

Lifecycle == INSTANCE ApprovalLifecycle WITH
  status <- [i \in Ids |-> AbstractStatus(i)]

\* While commands do not overlap, the queue of files, with its clock, its copies
\* and its crashes, implements the lifecycle an approval is meant to have.
ImplementsLifecycle == Lifecycle!Spec
=============================================================================
