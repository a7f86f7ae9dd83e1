-------------------------- MODULE MCLoginRateLimit -------------------------
(* Two tracked sources of three, small limits and a window of a few ticks. *)
EXTENDS LoginRateLimit, TLC

MCSymmetry == Permutations(Source)
=============================================================================
