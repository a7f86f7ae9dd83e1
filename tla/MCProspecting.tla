--------------------------- MODULE MCProspecting ---------------------------
(***************************************************************************)
(* Instances of Prospecting for TLC.  MCKeys: forms that differ in the     *)
(* keys (address, SIREN, company and city).  MCForms: one company, forms   *)
(* that differ in the address and in what makes a lead ready.              *)
(***************************************************************************)
EXTENDS Prospecting, TLC

MCKeys ==
    [email : Email \cup {None}, siren : Siren \cup {None}, place : Place,
     sourced : {TRUE}, qualified : {TRUE}]

MCForms ==
    {f \in [email : Email \cup {None}, siren : {None}, place : Place,
            sourced : BOOLEAN, qualified : BOOLEAN] : f.qualified => f.sourced}

MCSymmetry ==
    Permutations(LeadId) \cup Permutations(Email) \cup Permutations(Place)
      \cup Permutations(CampaignId)
=============================================================================
