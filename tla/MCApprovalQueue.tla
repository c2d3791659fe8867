-------------------------- MODULE MCApprovalQueue --------------------------
(***************************************************************************)
(* Small instances of ApprovalQueue.  Three requests: a deployment, the    *)
(* same deployment with other arguments, and two project deletions that    *)
(* differ only in the account.                                             *)
(***************************************************************************)
EXTENDS ApprovalQueue, TLC

CONSTANTS g1, g2

Deploy  == [action |-> "deploy", argsHash |-> "h1", account |-> NoAccount]
Deploy2 == [action |-> "deploy", argsHash |-> "h2", account |-> NoAccount]
DeleteA == [action |-> "delete", argsHash |-> "h1", account |-> "alice"]
DeleteB == [action |-> "delete", argsHash |-> "h1", account |-> "bob"]

MCRequests == {Deploy, Deploy2, DeleteA, DeleteB}

MCFewRequests == {DeleteA, DeleteB}

MCGates == {g1, g2}

GateSymmetry == Permutations(MCGates)
=============================================================================
