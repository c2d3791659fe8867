--------------------------- MODULE ProjectCommands ---------------------------
(***************************************************************************)
(* omg project audit, cleanup, delete and undelete.  The audit of a        *)
(* project is a row of reads.  delete refuses by it, reads gcloud's        *)
(* account again, has the deletion approved for that account, and calls    *)
(* gcloud, which acts as whoever is logged in then.                        *)
(***************************************************************************)
EXTENDS CloudCommands

Target(c) == req[c].project

\* projects describe, of the audit and of undelete.
Describe(c) ==
  /\ pc[c] = "describe" /\ LoggedIn
  /\ look' = [look EXCEPT ![c] =
                [state |-> lifecycle[Target(c)], billed |-> FALSE, owner |-> FALSE,
                 visible |-> FALSE]]
  /\ Goto(c, "billing")
  /\ UNCHANGED <<cloud, machine, server, opened, consent, req, saw, acct, ctx, pick, using, trace>>
  /\ Calm

ReadProjectBilling(c) ==
  /\ pc[c] = "billing" /\ LoggedIn
  /\ look' = [look EXCEPT ![c].billed = Target(c) \in billed]
  /\ Goto(c, "account")
  /\ UNCHANGED <<cloud, machine, server, opened, consent, req, saw, acct, ctx, pick, using, trace>>
  /\ Calm

\* After the audit's account its roles are read; after delete's and undelete's own
\* reading, --expect-account is compared.
Expected(c, account) == req[c].expect \in {None, account}

AfterAccount(c, account) ==
  CASE pc[c] = "account" -> "roles"
    [] pc[c] = "account-again" -> IF Expected(c, account) THEN "approve" ELSE "blocked"

\* readActiveGcloudAccount
ReadAccount(c) ==
  LET account == IF LoggedIn THEN User ELSE "*"
  IN  /\ pc[c] \in {"account", "account-again"}
      /\ acct' = [acct EXCEPT ![c] = account]
      /\ Goto(c, AfterAccount(c, account))
      /\ UNCHANGED <<cloud, machine, server, opened, consent, req, saw, look, ctx, pick, using,
                     trace>>
      /\ Calm

\* A failing gcloud is taken for no account.
ReadNoAccount(c) ==
  /\ pc[c] \in {"account", "account-again"}
  /\ Fault(c)
  /\ acct' = [acct EXCEPT ![c] = "*"]
  /\ Goto(c, AfterAccount(c, "*"))
  /\ UNCHANGED <<cloud, machine, server, opened, consent, req, saw, look, ctx, pick, using,
                     trace>>

\* The filter user:* finds the owners of every account.
OwnerFound(p, account) ==
  IF account = "*" THEN \E u \in Users : <<p, u>> \in owners ELSE <<p, account>> \in owners

\* classifyAudit
AuditRisk(p, l) ==
  IF p \in Owned \/ ~l.visible \/ (l.billed /\ ~l.owner) THEN "do_not_touch"
  ELSE IF l.billed THEN "review" ELSE "low"

\* Mutant: a billed project counts only if its caller is no owner.
DeleteBlockedByRisk(p, l) ==
  p \in ProtectedProjects \/ AuditRisk(p, l) = "do_not_touch" \/ ~l.owner

\* Mutant: the lists of protected projects are left out.
DeleteBlockedByAudit(p, l) ==
  AuditRisk(p, l) = "do_not_touch" \/ ~l.owner \/ l.billed

\* getDeleteBlockReason
DeleteBlocked(p, l) ==
  p \in ProtectedProjects \/ AuditRisk(p, l) = "do_not_touch" \/ ~l.owner \/ l.billed

AfterAudit(c, l) ==
  IF req[c].cmd # "project.delete" THEN "done"
  ELSE IF DeleteBlocked(Target(c), l) THEN "blocked" ELSE "account-again"

\* get-iam-policy; the enabled services and the service accounts are only reported.
ReadRoles(c) ==
  LET l == [look[c] EXCEPT !.visible = TRUE, !.owner = OwnerFound(Target(c), acct[c])]
  IN  /\ pc[c] = "roles" /\ LoggedIn
      /\ look' = [look EXCEPT ![c] = l]
      /\ Goto(c, AfterAudit(c, l))
      /\ UNCHANGED <<cloud, machine, server, opened, consent, req, saw, acct, ctx, pick, using,
                     trace>>
      /\ Calm

\* The policy cannot be read: inaccessible, and so do_not_touch.
ReadNoRoles(c) ==
  /\ pc[c] = "roles"
  /\ (~LoggedIn /\ Calm) \/ Fault(c)
  /\ Goto(c, AfterAudit(c, look[c]))
  /\ UNCHANGED <<cloud, machine, server, opened, consent, local, trace>>

\* undelete: only a project whose deletion was requested.
ReadLifecycle(c) ==
  /\ pc[c] = "lifecycle" /\ LoggedIn
  /\ look' = [look EXCEPT ![c] =
                [state |-> lifecycle[Target(c)], billed |-> FALSE, owner |-> FALSE,
                 visible |-> FALSE]]
  /\ Goto(c, IF lifecycle[Target(c)] = "DELETE_REQUESTED" THEN "account-again" ELSE "failed")
  /\ UNCHANGED <<cloud, machine, server, opened, consent, req, saw, acct, ctx, pick, using, trace>>
  /\ Calm

-----------------------------------------------------------------------------

Act(c) == IF req[c].cmd = "project.delete" THEN "delete" ELSE "undelete"

Request(c) ==
  [action |-> Act(c), project |-> Target(c), state |-> look[c].state,
   billed |-> look[c].billed, account |-> acct[c]]

\* Another command has loaded the approval and not yet saved it as consumed.
LoadedBeside(c, approval) ==
  \E d \in Clients \ {c} : pc[d] = "consume" /\ using[d] = approval

\* The gate: checkPermission loads an approval of these arguments by this account.
LoadApproval(c) ==
  /\ pc[c] = "approve"
  /\ \E approval \in granted :
       /\ approval.of = Request(c)
       /\ using' = [using EXCEPT ![c] = approval]
       /\ shared' = IF LoadedBeside(c, approval) THEN shared \cup {approval} ELSE shared
  /\ Goto(c, "consume")
  /\ UNCHANGED <<cloud, machine, server, opened, asked, granted, grants, spent, req, saw, look,
                 acct, ctx, pick, trace>>
  /\ Calm

\* It saves the copy it has loaded as consumed, whatever has become of the file.
ConsumeApproval(c) ==
  /\ pc[c] = "consume"
  /\ granted' = granted \ {using[c]}
  /\ Goto(c, Act(c))
  /\ UNCHANGED <<cloud, machine, server, opened, asked, grants, spent, shared, local, trace>>
  /\ Calm

AskApproval(c) ==
  /\ pc[c] = "approve"
  /\ asked' = asked \cup {Request(c)}
  /\ Goto(c, "blocked")
  /\ UNCHANGED <<cloud, machine, server, opened, granted, grants, spent, shared, local, trace>>
  /\ Calm

\* The approval given does not fit, is spent, or is not granted.
ApprovalRefused(c) ==
  /\ pc[c] = "approve"
  /\ Goto(c, "blocked")
  /\ UNCHANGED <<cloud, machine, server, opened, consent, local, trace>>
  /\ Calm

\* projects delete and projects undelete change the state they are for.
ActEffect(c) ==
  /\ pc[c] \in {"delete", "undelete"} /\ LoggedIn
  /\ lifecycle[Target(c)] = IF pc[c] = "delete" THEN "ACTIVE" ELSE "DELETE_REQUESTED"
  /\ lifecycle' = [lifecycle EXCEPT ![Target(c)] =
                     IF pc[c] = "delete" THEN "DELETE_REQUESTED" ELSE "ACTIVE"]
  /\ did' = [did EXCEPT ![c] = @ \cup {pc[c]}]
  /\ spent' = spent \cup {using[c]}
  /\ UNCHANGED <<billed, owners, versions, asked, granted, grants, shared, logged>>

ActOnProject(c) ==
  /\ ActEffect(c)
  /\ Goto(c, "after")
  /\ UNCHANGED <<machine, server, opened, local>>
  /\ Calm

\* Already in that state, or the account of this moment, if any, may not.
ActRefused(c) ==
  /\ pc[c] \in {"delete", "undelete"}
  /\ \/ lifecycle[Target(c)] # IF pc[c] = "delete" THEN "ACTIVE" ELSE "DELETE_REQUESTED"
     \/ <<Target(c), User>> \notin owners
  /\ Goto(c, "failed")
  /\ UNCHANGED <<cloud, machine, server, opened, consent, local, trace>>
  /\ Calm

ActLost(c) ==
  /\ ActEffect(c)
  /\ Fault(c)
  /\ Goto(c, "failed")
  /\ UNCHANGED <<machine, server, opened, local>>

\* The state is read once more for the answer.
DescribeAfter(c) ==
  /\ pc[c] = "after" /\ LoggedIn
  /\ Goto(c, "done")
  /\ UNCHANGED <<cloud, machine, server, opened, consent, local, trace>>
  /\ Calm

\* Nobody is logged in: also after the deletion, which is then reported as an error.
ProjectNoLogin(c) ==
  /\ pc[c] \in {"describe", "billing", "lifecycle", "after"} /\ ~LoggedIn
  /\ Goto(c, "failed")
  /\ UNCHANGED <<cloud, machine, server, opened, consent, local, trace>>
  /\ Calm

ProjectCallFails(c) ==
  /\ pc[c] \in {"describe", "billing", "lifecycle", "approve", "consume", "delete", "undelete",
               "after"}
  /\ Fault(c)
  /\ Goto(c, "failed")
  /\ UNCHANGED <<cloud, machine, server, opened, consent, local, trace>>

ProjectStep(c) ==
  \/ Describe(c) \/ ReadProjectBilling(c) \/ ReadAccount(c) \/ ReadRoles(c) \/ ReadLifecycle(c)
  \/ LoadApproval(c) \/ ConsumeApproval(c) \/ AskApproval(c) \/ ApprovalRefused(c)
  \/ ActOnProject(c) \/ ActRefused(c) \/ DescribeAfter(c)
  \/ ProjectNoLogin(c)

ProjectFault(c) == ReadNoAccount(c) \/ ReadNoRoles(c) \/ ActLost(c) \/ ProjectCallFails(c)
=============================================================================
