---------------------------- MODULE MCInvitations ----------------------------
(* Instances of Invitations for TLC.  Every invitation carries both roles,   *)
(* so that two completions compete for the same catalogue rows.              *)
EXTENDS Invitations, TLC

MCRolesOf == [i \in Invitations |-> Roles]

Symmetry == Permutations(Invitations) \cup Permutations(Secrets) \cup Permutations(Users)
            \cup Permutations(Requests)
=============================================================================
