-------------------------- MODULE MCBrowserClient --------------------------
(***************************************************************************)
(* BrowserClient for TLC: one company, forms that differ in the address.   *)
(* A save that changes the address leaves the lead unqualified.            *)
(***************************************************************************)
EXTENDS BrowserClient, TLC

MCForms ==
    [email : Email, siren : {None}, place : Place,
     sourced : {TRUE}, qualified : {TRUE}]
=============================================================================
