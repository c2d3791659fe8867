--------------------------- MODULE SecretCommands ---------------------------
(***************************************************************************)
(* omg secret set, list and delete.  set asks Secret Manager whether the   *)
(* secret is there, puts an inline value into a temporary file, and then   *)
(* creates the secret or adds a version to it.  Whether the trust profile  *)
(* allows it is left to SafetyGate: here the gate lets through or not.     *)
(***************************************************************************)
EXTENDS CloudCommands

\* evaluateSafety; a run that is told to ask for approval ends as well, and one without
\* a trust profile, or with a cost lock that cannot be read, ends in an error.
SecretGate(c) ==
  /\ pc[c] = "gate"
  /\ \E step \in {"blocked", "failed", IF req[c].cmd = "secret.list" THEN "listing" ELSE "exists"} :
       Goto(c, step)
  /\ UNCHANGED <<cloud, machine, server, opened, consent, local, trace>>
  /\ Calm

ListSecrets(c) ==
  /\ pc[c] = "listing" /\ LoggedIn
  /\ Goto(c, "done")
  /\ UNCHANGED <<cloud, machine, server, opened, consent, local, trace>>
  /\ Calm

\* secretExists
SecretExists(c) ==
  /\ pc[c] = "exists" /\ LoggedIn
  /\ saw' = [saw EXCEPT ![c] = versions[req[c].name] > 0]
  /\ Goto(c, IF req[c].source = "inline" THEN "prepare" ELSE "write")
  /\ UNCHANGED <<cloud, machine, server, opened, consent, req, look, acct, ctx, pick, using,
                 trace>>
  /\ Calm

\* prepareDataFile
PrepareDataFile(c) ==
  /\ pc[c] = "prepare"
  /\ files' = files \cup {c}
  /\ Goto(c, "write")
  /\ UNCHANGED <<cloud, machine, server, stray, sessions, consent, local, trace>>
  /\ Calm

\* The directory is made and the value not, or not wholly, written: no cleanup yet.
PrepareFails(c) ==
  /\ pc[c] = "prepare"
  /\ Fault(c)
  /\ files' = files \cup {c}
  /\ Goto(c, "failed")
  /\ UNCHANGED <<cloud, machine, server, stray, sessions, consent, local, trace>>

\* versions add for a secret that was there, create for one that was not; versions[n] is
\* 0 without a secret n, and otherwise one more than it has versions.
Accepted(c) == LoggedIn /\ (saw[c] <=> versions[req[c].name] > 0)

WriteEffect(c) ==
  /\ Accepted(c)
  /\ versions' = [versions EXCEPT ![req[c].name] = IF saw[c] THEN @ + 1 ELSE 2]
  /\ did' = [did EXCEPT ![c] = @ \cup {IF saw[c] THEN "add" ELSE "create"}]
  /\ UNCHANGED <<lifecycle, billed, owners, logged>>

WriteSecret(c) ==
  /\ pc[c] = "write"
  /\ WriteEffect(c)
  /\ Goto(c, "clean")
  /\ UNCHANGED <<machine, server, opened, consent, local>>
  /\ Calm

\* Mutant: the temporary file goes only when the value was written.
AfterWriteErrorDirect == "failed"

\* The finally clause runs whether gcloud succeeded or not.
AfterWriteError == "unwind"

\* Mutant: a secret that is there after all gets a version instead.
WriteUpserts(c) ==
  /\ pc[c] = "write" /\ LoggedIn
  /\ ~Accepted(c)
  /\ versions' = [versions EXCEPT ![req[c].name] = @ + 1]
  /\ did' = [did EXCEPT ![c] = @ \cup {IF saw[c] THEN "create" ELSE "add"}]
  /\ Goto(c, "clean")
  /\ UNCHANGED <<lifecycle, billed, owners, logged, machine, server, opened, consent, local>>
  /\ Calm

\* ALREADY_EXISTS of create, NOT_FOUND of versions add, or nobody is logged in.
WriteRefused(c) ==
  /\ pc[c] = "write"
  /\ ~Accepted(c)
  /\ Goto(c, AfterWriteError)
  /\ UNCHANGED <<cloud, machine, server, opened, consent, local, trace>>
  /\ Calm

\* create makes the secret and then its version: the first call may be all there is.
HalfCreated(c) ==
  /\ Accepted(c) /\ ~saw[c]
  /\ versions' = [versions EXCEPT ![req[c].name] = 1]
  /\ UNCHANGED <<lifecycle, billed, owners, trace>>

\* gcloud fails, with the value written or not.
WriteFails(c) ==
  /\ pc[c] = "write"
  /\ Fault(c)
  /\ WriteEffect(c) \/ HalfCreated(c) \/ UNCHANGED <<cloud, trace>>
  /\ Goto(c, AfterWriteError)
  /\ UNCHANGED <<machine, server, opened, consent, local>>

\* The finally clause; a value file of the caller's own stays.
CleanUp(c) ==
  /\ pc[c] \in {"clean", "unwind"}
  /\ files' = files \ {c}
  /\ Goto(c, IF pc[c] = "clean" THEN "done" ELSE "failed")
  /\ UNCHANGED <<cloud, machine, server, stray, sessions, consent, local, trace>>
  /\ Calm

\* Its error replaces the outcome.
CleanUpFails(c) ==
  /\ pc[c] \in {"clean", "unwind"}
  /\ c \in files
  /\ Fault(c)
  /\ Goto(c, "failed")
  /\ UNCHANGED <<cloud, machine, server, opened, consent, local, trace>>

\* deleteSecret: --yes is all it takes.
RemoveEffect(c) ==
  /\ LoggedIn /\ versions[req[c].name] > 0
  /\ versions' = [versions EXCEPT ![req[c].name] = 0]
  /\ did' = [did EXCEPT ![c] = @ \cup {"remove"}]
  /\ UNCHANGED <<lifecycle, billed, owners, logged>>

RemoveSecret(c) ==
  /\ pc[c] = "remove"
  /\ RemoveEffect(c)
  /\ Goto(c, "done")
  /\ UNCHANGED <<machine, server, opened, consent, local>>
  /\ Calm

RemoveRefused(c) ==
  /\ pc[c] = "remove"
  /\ ~LoggedIn \/ versions[req[c].name] = 0
  /\ Goto(c, "failed")
  /\ UNCHANGED <<cloud, machine, server, opened, consent, local, trace>>
  /\ Calm

SecretNoLogin(c) ==
  /\ pc[c] \in {"listing", "exists"} /\ ~LoggedIn
  /\ Goto(c, "failed")
  /\ UNCHANGED <<cloud, machine, server, opened, consent, local, trace>>
  /\ Calm

\* gcloud fails at a step that is outside any try of its own.
SecretCallFails(c) ==
  /\ \/ pc[c] \in {"listing", "exists"} /\ UNCHANGED <<cloud, trace>>
     \/ pc[c] = "remove" /\ (RemoveEffect(c) \/ UNCHANGED <<cloud, trace>>)
  /\ Fault(c)
  /\ Goto(c, "failed")
  /\ UNCHANGED <<machine, server, opened, consent, local>>

SecretStep(c) ==
  \/ SecretGate(c) \/ ListSecrets(c) \/ SecretExists(c) \/ PrepareDataFile(c)
  \/ WriteSecret(c) \/ WriteRefused(c) \/ CleanUp(c) \/ RemoveSecret(c) \/ RemoveRefused(c)
  \/ SecretNoLogin(c)

SecretFault(c) == PrepareFails(c) \/ WriteFails(c) \/ CleanUpFails(c) \/ SecretCallFails(c)
=============================================================================
