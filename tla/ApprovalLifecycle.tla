------------------------- MODULE ApprovalLifecycle -------------------------
(***************************************************************************)
(* What the approval queue promises: each approval is asked for once, is   *)
(* decided at most once, and after being approved is either consumed, for  *)
(* one operation at most, or lapses.  A transition is a single step here;  *)
(* ApprovalQueue takes several file accesses for it, and implements this   *)
(* specification while commands do not overlap.                            *)
(***************************************************************************)
EXTENDS Naturals

CONSTANT Ids

VARIABLES status,  \* status[i]: where approval i stands
          uses     \* uses[i]: operations let through on approval i

vars == <<status, uses>>

Init ==
  /\ status = [i \in Ids |-> "absent"]
  /\ uses = [i \in Ids |-> 0]

Move(i, from, to) ==
  /\ status[i] \in from
  /\ status' = [status EXCEPT ![i] = to]
  /\ UNCHANGED uses

Request(i) == Move(i, {"absent"}, "pending")
Approve(i) == Move(i, {"pending"}, "approved")
Reject(i)  == Move(i, {"pending"}, "rejected")
Lapse(i)   == Move(i, {"pending", "approved"}, "expired")
Consume(i) == Move(i, {"approved"}, "consumed")

\* A process that dies while it rewrites the file leaves nothing behind.
Lose(i) == Move(i, {"absent", "pending", "approved"}, "lost")

\* The operation runs after its approval was consumed, once at most.
Use(i) ==
  /\ status[i] = "consumed"
  /\ uses[i] = 0
  /\ uses' = [uses EXCEPT ![i] = 1]
  /\ UNCHANGED status

Next ==
  \E i \in Ids :
    \/ Request(i) \/ Approve(i) \/ Reject(i) \/ Lapse(i) \/ Consume(i)
    \/ Lose(i) \/ Use(i)

Spec == Init /\ [][Next]_vars
=============================================================================
