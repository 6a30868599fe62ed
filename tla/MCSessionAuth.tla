---------------------------- MODULE MCSessionAuth ----------------------------
(* Instances of SessionAuth for TLC.  The constants are sets of model values; *)
(* values of one set are interchangeable, so safety runs reduce by symmetry.  *)
EXTENDS SessionAuth, TLC

Symmetry == Permutations(Plain) \cup Permutations(Passwords \ Plain) \cup Permutations(Secrets)
            \cup Permutations(Tokens) \cup Permutations(Requests)
            \cup Permutations(Users)

\* The last form of the bound is followed up only where no secret has come up:
\* passwords change and return without a second factor, and two forms are left
\* for behaviours with one.
FormsExplored == edits = EditLimit => used \cap Secrets = {}
=============================================================================
