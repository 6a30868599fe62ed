---------------------------- MODULE MCInstallation ----------------------------
(* Instances of Installation for TLC. *)
EXTENDS Installation, TLC

CONSTANTS site, sub, r1, r2, a, b, c, d

MCParent == site :> None @@ sub :> site

\* Namings overlap with each other and with one for invitations.
MCNamings == {<<a, b>>, <<b, c>>, <<c, d>>}
MCInvNamings == {<<d, a>>}

\* Each way to succeed, to be patched, to fail and to be left alone.
MCLegacies == {<<"managed", "stock", "old">>, <<"managed", "altered", "plain">>,
               <<"managed", "stock", "opaque">>, <<"managed", "lacking", "edited">>,
               <<"unnamed", "stock", "old">>, <<"retired", "stock", "plain">>}

NoLegacies == {}

Symmetry == Permutations(Requests)

\* The last change of the bound is followed up only where Zope has not stopped:
\* a behaviour with a stop has one change fewer.
ChangesExplored == work = MaxWork => stops = 0
=============================================================================
