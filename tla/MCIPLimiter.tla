----------------------------- MODULE MCIPLimiter -----------------------------
(* Instances of IPLimiter for TLC.                                         *)
EXTENDS IPLimiter, TLC

Addresses == Permutations(IP)
=============================================================================
