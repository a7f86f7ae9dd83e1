---------------------------- MODULE MCLegacyStore --------------------------
(* A small instance of LegacyStore for TLC.                                *)
EXTENDS LegacyStore, TLC

\* One agent whose preferred provider is the first of the chain, one that
\* prefers the second, one the third.
MCAgents == {"base", "icp_scoring", "reply_drafter"}
MCTokens == {1}

Symmetry == Permutations(Run) \cup Permutations(Process) \cup Permutations(Tenant)
=============================================================================
