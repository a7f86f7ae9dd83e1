---------------------------- MODULE MCDeployment ----------------------------
(***************************************************************************)
(* Deployment for TLC: the backend and the frontend, a store that one      *)
(* process migrates as often as it likes.                                  *)
(***************************************************************************)
EXTENDS Deployment
=============================================================================
