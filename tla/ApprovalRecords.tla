-------------------------- MODULE ApprovalRecords --------------------------
(***************************************************************************)
(* The approval record that `omg` keeps in .omg/approvals/<id>.yaml, and   *)
(* the decisions the commands take on a record they have read.             *)
(*                                                                         *)
(* A request stands for what an approval is bound to: the operation's      *)
(* action id, the hash of its arguments and the gcloud account it was      *)
(* asked for (NoAccount when none was recorded).  Every caller that gives  *)
(* checkPermission an approval id also gives it an args hash, so the hash  *)
(* is always compared.  The approver's name, the reason, the project and   *)
(* the environment are carried in the file, and no decision reads them.    *)
(***************************************************************************)
EXTENDS Naturals

CONSTANTS Requests,    \* the requests callers make
          NoAccount    \* the account of a request that records none

ASSUME RequestsAssumption ==
  \A r \in Requests : r = [action |-> r.action, argsHash |-> r.argsHash, account |-> r.account]

Status == {"pending", "approved", "rejected", "consumed", "expired"}

Approval == [request : Requests, status : Status, expiresAt : Nat]

\* What createApproval writes: valid for ttl from the moment of the request.
NewApproval(req, t, ttl) ==
  [request |-> req, status |-> "pending", expiresAt |-> t + ttl]

\* An approval is still good at the very instant it expires.
Expired(rec, t) == t > rec.expiresAt

\* Mutants: a comparison forgotten when an approval is matched to its use.
MatchesIgnoringAccount(asked, req) ==
  asked.action = req.action /\ asked.argsHash = req.argsHash

\* The use an approval was asked for, against the use at hand.
Matches(asked, req) ==
  /\ asked.action = req.action
  /\ asked.argsHash = req.argsHash
  /\ asked.account # NoAccount => asked.account = req.account

\* Mutant: only a consumed approval is turned away.
GateVerdictUnlessConsumed(rec, req, t) ==
  IF rec.status = "consumed" \/ ~Matches(rec.request, req) THEN "refuse"
  ELSE IF Expired(rec, t) THEN "expire" ELSE "grant"

\* checkPermission on the record it loaded for the operation req.
GateVerdict(rec, req, t) ==
  IF rec.status # "approved" \/ ~Matches(rec.request, req) THEN "refuse"
  ELSE IF Expired(rec, t) THEN "expire" ELSE "grant"

\* Mutant: the approver overrules a decision already taken.
HumanVerdictAnyStatus(rec, t) ==
  IF Expired(rec, t) THEN "expire" ELSE "grant"

\* runApprove and runReject on the record they loaded.
HumanVerdict(rec, t) ==
  IF rec.status # "pending" THEN "refuse"
  ELSE IF Expired(rec, t) THEN "expire" ELSE "grant"
=============================================================================
