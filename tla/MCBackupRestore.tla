-------------------------- MODULE MCBackupRestore --------------------------
(***************************************************************************)
(* BackupRestore for TLC: one lead that may be contacted, two restorers.   *)
(***************************************************************************)
EXTENDS BackupRestore, TLC

MCForms ==
    [email : Email, siren : {None}, place : Place, sourced : {TRUE}, qualified : {TRUE}]

MCSymmetry == Permutations(Restorer)
=============================================================================
