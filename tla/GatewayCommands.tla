--------------------------- MODULE GatewayCommands ---------------------------
(***************************************************************************)
(* omg mcp gateway audit and call.  A call reads the trust profile and     *)
(* .omg/mcp.yaml, connects to a registered server, lists its tools, and    *)
(* calls the tool only if it is declared for reading and does not look     *)
(* like one that changes something.  The session is closed in a finally    *)
(* clause, and what became of the call goes to the decision log; an append *)
(* that fails is ignored.  An audit with discovery has a session with each *)
(* enabled server at once, and ends with the first that fails.             *)
(***************************************************************************)
EXTENDS CloudCommands

Server(c) == req[c].server
Tool(c)   == req[c].tool

\* findServer, enabled, getDeclarationBlock
DeclarationBlocks(c) ==
  registry.status[Server(c)] # "enabled" \/ registry.mode[Server(c)][Tool(c)] # "read"

Log(c, status) == logged' = [logged EXCEPT ![c] = @ \cup {status}]

\* tryAppendDecision
Append(c, status) ==
  \/ Log(c, status) /\ Calm
  \/ UNCHANGED logged /\ Fault(c)

\* resolveProfile: without a trust profile, or with one that is not valid, the call ends.
ReadProfile(c) ==
  /\ pc[c] = "profile"
  /\ \E step \in {"registry", "failed"} : Goto(c, step)
  /\ UNCHANGED <<cloud, machine, server, opened, consent, local, trace>>
  /\ Calm

\* loadDownstreamMcpRegistry: a registry that is not valid is an error of omg's own.
InvalidRegistry(c) ==
  /\ pc[c] = "registry" /\ ~registry.valid
  /\ Goto(c, "failed")
  /\ UNCHANGED <<cloud, machine, server, opened, consent, local, trace>>
  /\ Calm

\* The registry is read and decides; a refusal is logged.
ReadRegistry(c) ==
  /\ pc[c] = "registry" /\ registry.valid
  /\ req[c].cmd = "gateway.call"
  /\ \/ ~DeclarationBlocks(c) /\ Goto(c, "read-gate") /\ UNCHANGED logged /\ Calm
     \/ DeclarationBlocks(c) /\ Goto(c, "blocked") /\ Append(c, "blocked")
  /\ UNCHANGED <<cloud, machine, server, opened, consent, local, did>>

\* evaluateSafety of downstream.mcp.read
ReadGate(c) ==
  /\ pc[c] = "read-gate"
  /\ \/ Goto(c, "connect") /\ UNCHANGED logged /\ Calm
     \/ Goto(c, "blocked") /\ Append(c, "blocked")
  /\ UNCHANGED <<cloud, machine, server, opened, consent, local, did>>

Connect(c) ==
  /\ pc[c] = "connect"
  /\ open' = open \cup {<<c, Server(c)>>}
  /\ Goto(c, "tools")
  /\ UNCHANGED <<cloud, machine, server, files, stray, task, consent, local, trace>>
  /\ Calm

\* Mutant: the annotations of the server count for nothing.
DiscoveryBlocksByName(s, t) == offered[s][t] = "none" \/ t \in MutationNames

\* getDiscoveryBlock: not listed, or with signs that it changes something.
DiscoveryBlocks(s, t) == offered[s][t] \in {"none", "destructive"} \/ t \in MutationNames

\* listTools
ListTools(c) ==
  /\ pc[c] = "tools"
  /\ LET blocks == DiscoveryBlocks(Server(c), Tool(c))
     IN  \/ ~blocks /\ Goto(c, "call") /\ UNCHANGED logged /\ Calm
         \/ blocks /\ Goto(c, "refuse") /\ Append(c, "blocked")
  /\ UNCHANGED <<cloud, machine, server, opened, consent, local, did>>

\* callTool, and the entry of its success.
CallTool(c) ==
  /\ pc[c] = "call"
  /\ did' = [did EXCEPT ![c] = @ \cup {"call"}]
  /\ Goto(c, "close")
  /\ Append(c, "success")
  /\ UNCHANGED <<cloud, machine, server, opened, consent, local>>

\* Mutant: an error of the session ends the command, past the close and the log.
AfterSessionErrorDirect == "failed"

\* listTools or callTool throws: the session is closed first.
AfterSessionError == "abandon"

SessionFails(c) ==
  /\ pc[c] \in {"tools", "call"}
  /\ \/ pc[c] = "call" /\ did' = [did EXCEPT ![c] = @ \cup {"call"}]
     \/ UNCHANGED did
  /\ Fault(c)
  /\ Goto(c, AfterSessionError)
  /\ UNCHANGED <<cloud, machine, server, opened, consent, local, logged>>

\* client.close
Close(c) ==
  /\ pc[c] \in {"close", "refuse", "abandon"}
  /\ open' = open \ {<<c, Server(c)>>}
  /\ Goto(c, CASE pc[c] = "close" -> "done" [] pc[c] = "refuse" -> "blocked"
               [] pc[c] = "abandon" -> "fail")
  /\ UNCHANGED <<cloud, machine, server, files, stray, task, consent, local, trace>>
  /\ Calm

\* Its error takes the place of the outcome, of success too.
CloseFails(c) ==
  /\ pc[c] \in {"close", "refuse", "abandon"}
  /\ Fault(c)
  /\ Goto(c, "fail")
  /\ UNCHANGED <<cloud, machine, server, opened, consent, local, trace>>

\* Errors that are not omg's own are logged.
LogFailure(c) ==
  /\ pc[c] = "fail"
  /\ Append(c, "failure")
  /\ Goto(c, "failed")
  /\ UNCHANGED <<cloud, machine, server, opened, consent, local, did>>

\* A file cannot be read, or the server does not start.
GatewayCallFails(c) ==
  /\ pc[c] \in {"profile", "registry", "connect"}
  /\ Fault(c)
  /\ Goto(c, IF req[c].cmd = "gateway.call" THEN "fail" ELSE "failed")
  /\ UNCHANGED <<cloud, machine, server, opened, consent, local, trace>>

-----------------------------------------------------------------------------

(* An audit.  Promise.all has every session of it under way at once; after the first *)
(* error the command reports it, while the others go on as long as the process does. *)

\* Only an enabled server is connected to, and only to discover.
ReadRegistryForAudit(c) ==
  /\ pc[c] = "registry" /\ registry.valid
  /\ req[c].cmd = "gateway.audit"
  /\ \/ /\ req[c].discover
        /\ Goto(c, "sessions")
        /\ task' = [task EXCEPT ![c] = [s \in Servers |->
                      IF registry.status[s] = "enabled" THEN "connect" ELSE "none"]]
     \/ /\ ~req[c].discover
        /\ Goto(c, "done")
        /\ UNCHANGED task
  /\ UNCHANGED <<cloud, machine, server, files, stray, open, consent, local, trace>>
  /\ Calm

\* What becomes of a session changes that, and the outcome of an audit that has none yet.
Turn(c, s, step) ==
  /\ task' = [task EXCEPT ![c][s] = step]
  /\ UNCHANGED <<cloud, machine, server, files, stray, consent, local, trace>>

Stay == UNCHANGED <<pc, tries>>

SessionConnects(c, s) ==
  /\ task[c][s] = "connect"
  /\ open' = open \cup {<<c, s>>}
  /\ Turn(c, s, "tools") /\ Stay /\ Calm

SessionLists(c, s) ==
  /\ task[c][s] = "tools"
  /\ Turn(c, s, "close") /\ Stay /\ Calm
  /\ UNCHANGED open

\* The finally clause; after an error of listTools the session rejects.
SessionCloses(c, s) ==
  /\ task[c][s] \in {"close", "abandon"}
  /\ open' = open \ {<<c, s>>}
  /\ Turn(c, s, "none") /\ Calm
  /\ IF task[c][s] = "abandon" THEN Goto(c, "failed") ELSE Stay

\* Mutant: the audit goes by its registry when listTools fails, with the session open.
AfterListErrorSkipped == "none"

AfterListError == "abandon"

\* The server does not start, its tools cannot be listed, or the session not be closed.
SessionBreaks(c, s) ==
  /\ task[c][s] # "none"
  /\ FaultAt(c, task[c][s])
  /\ \/ task[c][s] = "tools" /\ Turn(c, s, AfterListError) /\ Stay
     \/ task[c][s] # "tools" /\ Turn(c, s, "none") /\ Goto(c, "failed")
  /\ UNCHANGED open

AuditEnds(c) ==
  /\ pc[c] = "sessions" /\ task[c] = NoTasks
  /\ Goto(c, "done")
  /\ UNCHANGED <<cloud, machine, server, opened, consent, local, trace>>
  /\ Calm

GatewayStep(c) ==
  \/ ReadProfile(c) \/ InvalidRegistry(c) \/ ReadRegistry(c) \/ ReadGate(c) \/ Connect(c)
  \/ ListTools(c) \/ CallTool(c) \/ Close(c) \/ LogFailure(c)
  \/ ReadRegistryForAudit(c) \/ AuditEnds(c)
  \/ \E s \in Servers : SessionConnects(c, s) \/ SessionLists(c, s) \/ SessionCloses(c, s)

GatewayFault(c) ==
  \/ SessionFails(c) \/ CloseFails(c) \/ GatewayCallFails(c)
  \/ \E s \in Servers : SessionBreaks(c, s)
=============================================================================
