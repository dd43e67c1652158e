---------------------------- MODULE MCDeployment ----------------------------
(***************************************************************************)
(* Two deployments, of one commit and of the next.                          *)
(***************************************************************************)
EXTENDS Deployment

CONSTANTS bot, webapp

MCCommit == [d \in Deployments |-> d]
=============================================================================
