---------------------------- MODULE MCDeployment ----------------------------
(***************************************************************************)
(* Constants for model-checking Deployment.                                *)
(***************************************************************************)
EXTENDS Deployment

MCEdited == {Key("features", TRUE, "swiping")}
=============================================================================
