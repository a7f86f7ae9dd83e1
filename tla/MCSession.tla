----------------------------- MODULE MCSession -----------------------------
(***************************************************************************)
(* Session for TLC.  One instance may be the one whose clock is ahead or   *)
(* whose credentials are new; no symmetry, for a property is temporal.     *)
(***************************************************************************)
EXTENDS Session
=============================================================================
