----------------------------- MODULE MCTotpReplay -----------------------------
(* Instances of TotpReplay for TLC.  The clock counts half minutes, so that *)
(* the proportions of Period, Retention and Stall are those of the code.    *)
EXTENDS TotpReplay, TLC

Symmetry == Permutations(Requests)
=============================================================================
