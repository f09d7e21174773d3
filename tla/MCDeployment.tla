---------------------------- MODULE MCDeployment ----------------------------
(***************************************************************************)
(* Two instances; a release and another one on the same databases.         *)
(***************************************************************************)
EXTENDS Deployment

CONSTANTS i1, i2

=============================================================================
