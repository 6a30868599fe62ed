---------------------------- MODULE MCAttemptLimits ----------------------------
(* Instances of AttemptLimits for TLC.  Keys and threads are alike. *)
EXTENDS AttemptLimits, TLC

Symmetry == Permutations(Keys) \cup Permutations(Requests)
=============================================================================
