----------------------------- MODULE MCUserAdmin -----------------------------
(* Instances of UserAdmin for TLC.  Users, logins and requests are model     *)
(* values that the specification treats alike.                               *)
EXTENDS UserAdmin, TLC

Symmetry == Permutations(Users) \cup Permutations(Logins) \cup Permutations(Requests)
=============================================================================
