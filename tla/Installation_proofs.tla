-------------------------- MODULE Installation_proofs --------------------------
(***************************************************************************)
(* Installation and startup upgrade for any folders, tables and requests.  *)
(* A request knows of each table it is to record that it is its folder's,  *)
(* was taken over in a race, or is yet to be created; the walk at startup  *)
(* keeps, in the folders it has not committed, all that a manager may have *)
(* recorded or edited.                                                     *)
(***************************************************************************)
EXTENDS Installation, TLAPS

\* What holds of a folder by itself.
Whole(folder) ==
    /\ folder.helper <=> Recorded(folder) /\ folder.manifest.revision = 2
    /\ folder.error => ~folder.login /\ ~folder.helper
    /\ Recorded(folder) /\ folder.manifest.revision = 2 => folder.manifest.mode = "managed"
    /\ ~Recorded(folder) => folder.sql # "altered"

\* What no request and no upgrade takes from a folder.
Kept(old, new) ==
    /\ Recorded(new) <=> Recorded(old)
    /\ Recorded(old) => /\ new.manifest.naming = old.manifest.naming
                        /\ new.manifest.invitations = old.manifest.invitations
    /\ new.sql = old.sql /\ new.invsql = old.invsql
    /\ old.form \in Customized =>
         new.form = old.form \/ (old.form = "plain" /\ new.form = "guarded")

\* The old runtime does not authenticate.
Off(folder) ==
    Recorded(folder) /\ folder.login =>
        folder.manifest.mode = "retired" \/ folder.manifest.revision = 2

StartInv ==
    /\ start.pc # "up" => \A r \in Requests : req[r].pc = "idle"
    /\ start.pc = "walk" =>
         /\ \A f \in Folders : Whole(start.new[f]) /\ Kept(folders[f], start.new[f])
         /\ \A f \in Folders : Reached(f) => f \in start.seen \cup start.todo
         /\ \A f \in start.seen \cap Selected : Off(start.new[f])
    /\ start.pc = "up" /\ start.committed =>
         /\ \A f \in Folders : Reached(f) => f \in start.seen
         /\ \A f \in start.seen \cap Selected : Off(folders[f])

\* Table t has been created for folder f, or taken over in a race.
Taken(f, t, tab, rac) == tab[t] = f \/ <<f, t>> \in rac

Pending(q, t, tab) == t \in Range(q.todo) /\ (tab[t] = None \/ t \in q.appeared)

InstallInv(q, tab, rac) ==
    /\ q.naming \in Namings
    /\ Recorded(q.view) => q.view.manifest.naming = q.naming
    /\ q.view.sql # "altered"
    /\ \A t \in Range(q.naming) : Taken(q.folder, t, tab, rac) \/ Pending(q, t, tab)

EnableInv(q, tab) ==
    /\ q.naming \in InvNamings
    /\ Recorded(q.view)
    /\ q.view.invsql # "altered"
    /\ RecordedInvitations(q.view) \in {None, q.naming}
    /\ \A t \in Range(q.naming) : tab[t] = q.folder \/ t \in Range(q.todo)

ReqInv(q, tab, rac) ==
    q.pc = "ddl" =>
        /\ q.folder \in Folders
        /\ q.kind = "install" => InstallInv(q, tab, rac)
        /\ q.kind = "enable" => EnableInv(q, tab)

Inv ==
    /\ TypeOK
    /\ \A f \in Folders : Whole(folders[f])
    /\ StartInv
    /\ \A r \in Requests : ReqInv(req[r], tables, raced)
    /\ TablesOwn
    /\ InvitationTablesOwn

-----------------------------------------------------------------------------
(* Sequences.                                                              *)

LEMMA HeadTail ==
    ASSUME NEW S, NEW s \in Seq(S), s # <<>>
    PROVE  /\ Head(s) \in S /\ Tail(s) \in Seq(S)
           /\ \A t \in Range(s) : t = Head(s) \/ t \in Range(Tail(s))
<1>1. Head(s) \in S /\ Tail(s) \in Seq(S) /\ Len(s) \in Nat /\ Len(s) >= 1
  OBVIOUS
<1>2. ASSUME NEW i \in DOMAIN s, i # 1
      PROVE  s[i] \in Range(Tail(s))
  <2>1. i - 1 \in DOMAIN Tail(s) /\ Tail(s)[i - 1] = s[i]
    BY <1>2
  <2>2. QED
    BY <2>1 DEF Range
<1>3. QED
  BY <1>1, <1>2 DEF Range

LEMMA EmptyRange == Range(<<>>) = {}
BY DEF Range

-----------------------------------------------------------------------------
(* Folders.                                                                *)

LEMMA FreshType == Fresh \in Folder
BY DEF Fresh, Folder, Maybe, SqlStates, Forms

LEMMA IdleType == Idle \in Request /\ Idle.pc = "idle" /\ <<>> \in Seq(Tables)
BY FreshType DEF Idle, Request, Maybe

LEMMA InstalledFacts ==
    ASSUME NEW view \in Folder, NEW naming \in Namings
    PROVE  LET new == Installed(view, naming)
           IN  /\ new \in Folder
               /\ Recorded(new)
               /\ new.manifest.mode = "managed" /\ new.manifest.revision = 2
               /\ new.manifest.naming = naming
               /\ new.manifest.invitations = RecordedInvitations(view)
               /\ new.helper /\ ~new.error /\ new.sql = "stock"
               /\ new.form = LoginTemplate(view.form)
               /\ new.invsql = view.invsql
<1>1. RecordedInvitations(view) \in Maybe(InvNamings)
  BY DEF RecordedInvitations, Recorded, Folder, Manifest, Maybe
<1>2. NewManifest(view, naming) \in Manifest
  BY <1>1 DEF NewManifest, Manifest, Modes
<1>3. LoginTemplate(view.form) \in Forms
  BY DEF LoginTemplate, Forms, Folder
<1>4. Installed(view, naming) \in Folder
  BY <1>2, <1>3 DEF Installed, Folder, Maybe, SqlStates
<1>5. Installed(view, naming).manifest = NewManifest(view, naming)
  BY DEF Installed, Folder
<1>6. Recorded(Installed(view, naming))
  BY <1>2, <1>5, NoneAssumption DEF Recorded
<1>7. QED
  BY <1>4, <1>5, <1>6 DEF Installed, NewManifest, Folder

\* What the commit of an installation makes of a folder.
AfterInstall(view, naming, now, new) ==
    /\ new \in Folder
    /\ Recorded(new)
    /\ new.manifest.mode = "managed" /\ new.manifest.revision = 2
    /\ new.manifest.naming = naming
    /\ new.manifest.invitations = RecordedInvitations(view)
    /\ new.helper /\ ~new.error /\ new.sql = "stock"
    /\ new.form = IF view.form \in Customized THEN now.form ELSE "generated"
    /\ new.invsql = now.invsql

LEMMA MergedInstall ==
    ASSUME NEW view \in Folder, NEW now \in Folder, NEW naming \in Namings
    PROVE  AfterInstall(view, naming, now, Merged("install", view, naming, now))
<1> DEFINE base == Installed(view, naming)
           new == Merged("install", view, naming, now)
<1>1. base \in Folder /\ base.form = LoginTemplate(view.form)
  BY InstalledFacts
<1>2. new = [base EXCEPT !.invsql = now.invsql,
                         !.form = IF view.form \in Customized THEN now.form ELSE @]
  BY DEF Merged
<1> HIDE DEF base, new
<1>3. now.invsql \in SqlStates /\ now.form \in Forms
  BY DEF Folder
<1>4. /\ new \in Folder
      /\ new.manifest = base.manifest /\ new.sql = base.sql /\ new.helper = base.helper
      /\ new.error = base.error /\ new.invsql = now.invsql
      /\ new.form = IF view.form \in Customized THEN now.form ELSE base.form
  BY <1>1, <1>2, <1>3 DEF Folder
<1>5. new.form = IF view.form \in Customized THEN now.form ELSE "generated"
  BY <1>1, <1>4 DEF LoginTemplate
<1>6. QED
  BY <1>4, <1>5, InstalledFacts DEF AfterInstall, base, new, Recorded

\* What the commit of an enabling makes of a folder.
AfterEnable(view, naming, now, new) ==
    /\ new \in Folder
    /\ Recorded(new)
    /\ new.manifest.mode = view.manifest.mode
    /\ new.manifest.revision = view.manifest.revision
    /\ new.manifest.naming = view.manifest.naming
    /\ new.manifest.invitations = naming
    /\ new.helper = now.helper /\ new.error = now.error /\ new.login = now.login
    /\ new.sql = now.sql /\ new.form = now.form /\ new.invsql = "stock"

LEMMA MergedEnable ==
    ASSUME NEW view \in Folder, NEW now \in Folder, NEW naming \in InvNamings, Recorded(view)
    PROVE  AfterEnable(view, naming, now, Merged("enable", view, naming, now))
<1> DEFINE manifest == [view.manifest EXCEPT !.invitations = naming]
           new == Merged("enable", view, naming, now)
<1>1. view.manifest \in Manifest
  BY DEF Recorded, Folder, Maybe
<1>2. /\ manifest \in Manifest
      /\ manifest.mode = view.manifest.mode /\ manifest.revision = view.manifest.revision
      /\ manifest.naming = view.manifest.naming /\ manifest.invitations = naming
  BY <1>1 DEF Manifest, Maybe
<1>3. new = [now EXCEPT !.manifest = manifest, !.invsql = "stock"]
  BY DEF Merged
<1> HIDE DEF manifest, new
<1>4. /\ new \in Folder /\ new.manifest = manifest /\ new.invsql = "stock"
      /\ new.helper = now.helper /\ new.error = now.error /\ new.login = now.login
      /\ new.sql = now.sql /\ new.form = now.form
  BY <1>2, <1>3 DEF Folder, Maybe, SqlStates
<1>5. manifest # None
  BY <1>2, NoneAssumption
<1>6. QED
  BY <1>2, <1>4, <1>5 DEF AfterEnable, new, Recorded

LEMMA EditedFacts ==
    ASSUME NEW old \in Folder, Whole(old), Outdated(old), Extent(old) = 6
    PROVE  LET new == Edited(old, 6)
           IN  new \in Folder /\ Whole(new) /\ Kept(old, new) /\ Off(new)
<1> DEFINE new == Edited(old, 6)
           manifest == [old.manifest EXCEPT !.revision = 2]
           form == IF old.form = "plain" THEN "guarded" ELSE LoginTemplate(old.form)
<1>1. old.manifest \in Manifest /\ old.manifest # None /\ old.manifest.mode = "managed"
  BY DEF Outdated, Recorded, Folder, Maybe, Extent
<1>2. /\ manifest \in Manifest
      /\ manifest.mode = "managed" /\ manifest.revision = 2
      /\ manifest.naming = old.manifest.naming
      /\ manifest.invitations = old.manifest.invitations
  BY <1>1 DEF Manifest
<1>3. form \in Forms
  BY DEF LoginTemplate, Forms, Folder, Customized
<1>4. /\ (6 >= 1 \/ old.login) = TRUE /\ (6 >= 2 \/ old.helper) = TRUE
      /\ (6 < 6 /\ old.error) = FALSE
      /\ 6 >= 3 /\ 6 >= 4 /\ 6 >= 5
  OBVIOUS
<1>5. /\ new \in Folder /\ new.login /\ new.helper /\ ~new.error
      /\ new.form = form /\ new.manifest = manifest
      /\ new.sql = old.sql /\ new.invsql = old.invsql
  <2>1. new = [old EXCEPT !.login = TRUE, !.helper = TRUE, !.form = form,
                          !.manifest = manifest, !.error = FALSE]
    BY <1>4, Zenon DEF Edited
  <2> HIDE DEF new, manifest, form
  <2>2. QED
    BY <1>2, <1>3, <2>1 DEF Folder, Maybe
<1> HIDE DEF new, manifest
<1>6. Recorded(new) /\ Recorded(old)
  BY <1>1, <1>2, <1>5, NoneAssumption DEF Recorded
<1>7. old.form \in Customized => form = old.form \/ (old.form = "plain" /\ form = "guarded")
  BY DEF LoginTemplate
<1>8. QED
  BY <1>2, <1>5, <1>6, <1>7 DEF Whole, Kept, Off, new

LEMMA BlockedFacts ==
    ASSUME NEW old \in Folder, NEW partly, Whole(old), Outdated(old)
    PROVE  LET new == Blocked(old, partly)
           IN  new \in Folder /\ Whole(new) /\ Kept(old, new) /\ Off(new)
<1> DEFINE new == Blocked(old, partly)
<1>1. /\ new \in Folder /\ ~new.login /\ new.helper = old.helper
      /\ new.form = old.form /\ new.manifest = old.manifest
      /\ new.sql = old.sql /\ new.invsql = old.invsql
  BY DEF Blocked, Folder
<1>2. ~(old.manifest.revision = 2) /\ Recorded(old)
  <2>1. Recorded(old)
    BY DEF Outdated
  <2>2. old.manifest.mode = "unnamed" => old.manifest.revision # 2
    BY <2>1 DEF Whole
  <2>3. QED
    BY <2>1, <2>2 DEF Outdated
<1>3. ~old.helper
  BY <1>2 DEF Whole
<1> HIDE DEF new
<1>4. QED
  BY <1>1, <1>2, <1>3 DEF Whole, Kept, Off, Recorded, new

\* Whatever upgrade_tree makes of a folder.
LEMMA OutcomeFacts ==
    ASSUME NEW old \in Folder, Whole(old), NEW new \in Outcomes(old)
    PROVE  new \in Folder /\ Whole(new) /\ Kept(old, new) /\ Off(new)
<1>1. CASE ~Outdated(old)
  <2>1. new = old
    BY <1>1 DEF Outcomes
  <2>2. Off(old)
    <3> SUFFICES ASSUME Recorded(old), old.manifest.mode # "retired"
                 PROVE  old.manifest.revision = 2
      BY DEF Off
    <3>1. old.manifest \in Manifest
      BY DEF Recorded, Folder, Maybe
    <3>2. old.manifest.mode = "managed" /\ old.manifest.revision \in {1, 2}
      BY <1>1, <3>1 DEF Outdated, Manifest, Modes
    <3>3. QED
      BY <1>1, <3>2 DEF Outdated
  <2>3. QED
    BY <2>1, <2>2 DEF Kept
<1>2. CASE Outdated(old)
  <2>1. CASE \E n \in 0..Extent(old) : new = Blocked(old, Edited(old, n))
    BY <1>2, <2>1, BlockedFacts
  <2>2. CASE Extent(old) = 6 /\ new = Edited(old, 6)
    BY <1>2, <2>2, EditedFacts
  <2>3. QED
    BY <1>2, <2>1, <2>2 DEF Outcomes
<1>3. QED
  BY <1>1, <1>2

LEMMA KeptTransitive ==
    ASSUME NEW x \in Folder, NEW y \in Folder, NEW z \in Folder, Kept(x, y), Kept(y, z)
    PROVE  Kept(x, z)
BY DEF Kept, Customized

LEMMA KeptReflexive == ASSUME NEW x PROVE Kept(x, x)
BY DEF Kept

-----------------------------------------------------------------------------
(* Initial states and Zope's own steps.                                    *)

LEMMA UnreadType == Down \in Start
BY FreshType DEF Unread, Down, Start

LEMMA LegacyFacts ==
    ASSUME NEW kind \in Legacies, NEW naming \in Namings
    PROVE  Legacy(kind, naming) \in Folder /\ Whole(Legacy(kind, naming))
<1> DEFINE manifest == [mode |-> kind[1], revision |-> 1, naming |-> naming, invitations |-> None]
<1>1. /\ kind[1] \in Modes /\ kind[2] \in {"stock", "altered", "lacking"}
      /\ kind[3] \in {"old", "edited", "plain", "opaque"}
  BY FoldersAssumption
<1>2. manifest \in Manifest
  BY <1>1 DEF Manifest, Maybe
<1>3. manifest # None
  BY <1>2, NoneAssumption
<1>4. Legacy(kind, naming) = [manifest |-> manifest, sql |-> kind[2], invsql |-> "none",
                              form |-> kind[3], helper |-> FALSE, login |-> TRUE, error |-> FALSE]
  BY DEF Legacy
<1>5. Legacy(kind, naming) \in Folder
  BY <1>1, <1>2, <1>4 DEF Folder, Maybe, SqlStates, Forms, Customized
<1>6. QED
  BY <1>3, <1>4, <1>5 DEF Whole, Recorded

LEMMA FreshWhole == Whole(Fresh) /\ ~Recorded(Fresh)
BY DEF Whole, Recorded, Fresh

LEMMA InitInv == Init => Inv
<1> SUFFICES ASSUME Init PROVE Inv
  OBVIOUS
<1>1. \A f \in Folders : folders[f] \in Folder /\ Whole(folders[f])
  BY FreshType, FreshWhole, LegacyFacts DEF Init
<1>2. \A f \in Folders : InvitationTables(folders[f]) = {}
  <2> TAKE f \in Folders
  <2>1. CASE folders[f] = Fresh
    BY <2>1, FreshWhole DEF InvitationTables, RecordedInvitations
  <2>2. CASE \E kind \in Legacies, naming \in Namings : folders[f] = Legacy(kind, naming)
    BY <2>2 DEF InvitationTables, RecordedInvitations, Legacy
  <2>3. QED
    BY <2>1, <2>2 DEF Init
<1>3. \A f \in Folders : \A t \in RecordedTables(folders[f]) : t \in Tables
  <2> TAKE f \in Folders
  <2>1. CASE folders[f] = Fresh
    BY <2>1, FreshWhole DEF RecordedTables
  <2>2. CASE \E kind \in Legacies, naming \in Namings : folders[f] = Legacy(kind, naming)
    <3>1. PICK kind \in Legacies, naming \in Namings : folders[f] = Legacy(kind, naming)
      BY <2>2
    <3>2. folders[f].manifest.naming = naming
      BY <3>1 DEF Legacy
    <3>3. naming \in Seq(Tables)
      BY FoldersAssumption
    <3>4. \A t \in Range(naming) : t \in Tables
      BY <3>3 DEF Range
    <3>5. QED
      BY <3>2, <3>4 DEF RecordedTables
  <2>3. QED
    BY <2>1, <2>2 DEF Init
<1>4. TablesOwn
  <2> SUFFICES ASSUME NEW f \in Folders, NEW t \in RecordedTables(folders[f])
               PROVE  tables[t] = f
    BY DEF TablesOwn
  <2> DEFINE owner == CHOOSE g \in Folders : t \in RecordedTables(folders[g])
  <2>1. owner \in Folders /\ t \in RecordedTables(folders[owner])
    OBVIOUS
  <2>2. owner = f
    BY <2>1 DEF Init
  <2>3. tables[t] = owner
    BY <1>3 DEF Init
  <2>4. QED
    BY <2>2, <2>3
<1>5. tables \in [Tables -> Folders \cup {"other", None}]
  BY DEF Init
<1>6. folders \in [Folders -> Folder]
  BY <1>1 DEF Init
<1>7. TypeOK
  BY <1>5, <1>6, IdleType, UnreadType, FoldersAssumption DEF Init, TypeOK
<1>8. StartInv
  BY IdleType DEF Init, StartInv, Down
<1>9. \A r \in Requests : ReqInv(req[r], tables, raced)
  BY IdleType DEF Init, ReqInv
<1>10. InvitationTablesOwn
  BY <1>2 DEF InvitationTablesOwn
<1>11. QED
  BY <1>1, <1>4, <1>7, <1>8, <1>9, <1>10 DEF Inv

LEMMA BootInv == ASSUME Inv, Boot PROVE Inv'
<1> USE DEF Inv
<1>1. start' = [pc |-> "walk", todo |-> {f \in Folders : Parent[f] = None}, seen |-> {},
                closed |-> {}, new |-> folders, committed |-> FALSE]
  BY DEF Boot, Down
<1>2. start' \in Start
  BY <1>1 DEF TypeOK, Start
<1>3. TypeOK'
  BY <1>2 DEF Boot, TypeOK
<1>4. /\ start'.pc = "walk" /\ start'.new = folders /\ start'.seen = {}
      /\ start'.todo = {f \in Folders : Parent[f] = None}
  BY <1>1
<1>5. \A f \in Folders : Whole(start'.new[f]) /\ Kept(folders[f], start'.new[f])
  BY <1>4, KeptReflexive
<1>6. \A f \in Folders : Reached(f)' => f \in start'.seen \cup start'.todo
  BY <1>4 DEF Reached
<1>7. StartInv'
  BY <1>4, <1>5, <1>6 DEF Boot, StartInv
<1>8. QED
  BY <1>3, <1>7 DEF Boot, TablesOwn, InvitationTablesOwn

LEMMA VisitInv == ASSUME Inv, NEW f \in Folders, Visit(f) PROVE Inv'
<1> USE DEF Inv
<1>1. PICK listed \in BOOLEAN,
           new \in (IF f \in Selected THEN Outcomes(start.new[f]) ELSE {start.new[f]}) :
        start' = [start EXCEPT
            !.todo = (@ \ {f}) \cup (IF listed THEN Children(f) \ start.seen ELSE {}),
            !.seen = @ \cup {f},
            !.closed = IF listed THEN @ ELSE @ \cup {f},
            !.new[f] = new]
  BY DEF Visit
<1>2. /\ start.pc = "walk" /\ start.new \in [Folders -> Folder]
      /\ start.new[f] \in Folder /\ Whole(start.new[f]) /\ Kept(folders[f], start.new[f])
      /\ folders[f] \in Folder
  BY DEF Visit, StartInv, TypeOK, Start
<1>3. /\ new \in Folder /\ Whole(new) /\ Kept(folders[f], new)
      /\ f \in Selected => Off(new)
  <2>1. CASE f \in Selected
    BY <1>1, <1>2, <2>1, OutcomeFacts, KeptTransitive
  <2>2. CASE f \notin Selected
    BY <1>1, <1>2, <2>2
  <2>3. QED
    BY <2>1, <2>2
<1>4. /\ start'.pc = "walk"
      /\ start'.todo = (start.todo \ {f}) \cup (IF listed THEN Children(f) \ start.seen ELSE {})
      /\ start'.seen = start.seen \cup {f}
      /\ start'.closed = IF listed THEN start.closed ELSE start.closed \cup {f}
      /\ start'.new = [start.new EXCEPT ![f] = new]
      /\ start'.committed = start.committed
  BY <1>1, <1>2 DEF TypeOK, Start
<1>5. start' \in Start
  <2>1. start'.new \in [Folders -> Folder]
    BY <1>2, <1>3, <1>4
  <2>2. Children(f) \subseteq Folders
    BY DEF Children
  <2>3. QED
    BY <1>1, <2>1, <2>2, <1>4 DEF TypeOK, Start
<1>6. TypeOK'
  BY <1>5 DEF TypeOK, Visit
<1>7. \A g \in Folders : Whole(start'.new[g]) /\ Kept(folders[g], start'.new[g])
  BY <1>2, <1>3, <1>4 DEF StartInv
<1>8. ASSUME NEW g \in Folders, Reached(g)'
      PROVE  g \in start'.seen \cup start'.todo
  <2>1. CASE Parent[g] = f /\ Parent[g] # None
    <3>1. listed
      BY <1>4, <1>8, <2>1 DEF Reached
    <3>2. g \in Children(f)
      BY <2>1 DEF Children
    <3>3. QED
      BY <1>4, <3>1, <3>2
  <2>2. CASE Parent[g] = None \/ Parent[g] # f
    <3>1. Reached(g)
      BY <1>4, <1>8, <2>2 DEF Reached
    <3>2. QED
      BY <1>2, <1>4, <3>1 DEF StartInv
  <2>3. QED
    BY <2>1, <2>2
<1>9. ASSUME NEW g \in start'.seen \cap Selected
      PROVE  Off(start'.new[g])
  <2>1. g \in Folders
    BY <1>5, <1>9 DEF Start
  <2>2. CASE g = f
    BY <1>2, <1>3, <1>4, <1>9, <2>2
  <2>3. CASE g # f
    BY <1>2, <1>4, <1>9, <2>1, <2>3 DEF StartInv
  <2>4. QED
    BY <2>2, <2>3
<1>10. StartInv'
  BY <1>4, <1>7, <1>8, <1>9 DEF Visit, StartInv
<1>11. QED
  BY <1>6, <1>10 DEF Visit, TablesOwn, InvitationTablesOwn

LEMMA KeptTables ==
    ASSUME NEW old, NEW new, Kept(old, new)
    PROVE  /\ RecordedTables(new) = RecordedTables(old)
           /\ InvitationTables(new) = InvitationTables(old)
BY DEF Kept, RecordedTables, InvitationTables, RecordedInvitations

LEMMA CommitUpgradeInv == ASSUME Inv, CommitUpgrade PROVE Inv'
<1> USE DEF Inv
<1>1. /\ start.pc = "walk" /\ start.todo = {} /\ folders' = start.new
      /\ UNCHANGED <<tables, req, stops, work, raced>>
  BY DEF CommitUpgrade
<1>2. /\ start'.pc = "up" /\ start'.seen = start.seen /\ start'.closed = start.closed
      /\ start' \in Start
  BY UnreadType DEF CommitUpgrade, TypeOK, Start, Down
<1>3. TypeOK'
  BY <1>1, <1>2 DEF TypeOK, Start
<1>4. \A f \in Folders : Whole(folders'[f]) /\ Kept(folders[f], folders'[f])
  BY <1>1 DEF StartInv
<1>5. StartInv'
  BY <1>1, <1>2 DEF StartInv, Reached
<1>6. TablesOwn' /\ InvitationTablesOwn'
  BY <1>1, <1>4, KeptTables DEF TablesOwn, InvitationTablesOwn
<1>7. QED
  BY <1>1, <1>3, <1>4, <1>5, <1>6

LEMMA LoseUpgradeInv == ASSUME Inv, LoseUpgrade PROVE Inv'
<1> USE DEF Inv
<1>1. /\ start' \in Start /\ start'.pc = "up" /\ ~start'.committed
  BY UnreadType DEF LoseUpgrade, Down, Start
<1>2. TypeOK' /\ StartInv'
  BY <1>1 DEF LoseUpgrade, TypeOK, StartInv
<1>3. QED
  BY <1>2 DEF LoseUpgrade, TablesOwn, InvitationTablesOwn

LEMMA StopInv == ASSUME Inv, Stop PROVE Inv'
<1> USE DEF Inv
<1>1. /\ start' \in Start /\ start'.pc = "down"
      /\ req' = [r \in Requests |-> Idle]
      /\ UNCHANGED <<tables, folders, work, raced>>
  BY UnreadType DEF Stop, Down
<1>2. stops' \in 0..MaxStops
  BY FoldersAssumption DEF Stop, TypeOK
<1>3. TypeOK'
  BY <1>1, <1>2, IdleType DEF TypeOK
<1>4. StartInv' /\ \A r \in Requests : ReqInv(req'[r], tables', raced')
  BY <1>1, IdleType DEF StartInv, ReqInv
<1>5. QED
  BY <1>1, <1>3, <1>4 DEF TablesOwn, InvitationTablesOwn

-----------------------------------------------------------------------------
(* What the steps of a request do to its own state, and those of others.   *)

SameRequest(q, new) ==
    /\ new.pc = q.pc /\ new.kind = q.kind /\ new.folder = q.folder
    /\ new.view = q.view /\ new.naming = q.naming

LEMMA OthersTable ==
    ASSUME NEW tab \in [Tables -> Folders \cup {"other", None}], NEW rac,
           NEW q \in Request, q.pc = "ddl", ReqInv(q, tab, rac),
           NEW t \in Tables, tab[t] = None,
           NEW later, \A s \in Tables : s # t => later[s] = tab[s],
           NEW new, SameRequest(q, new), new.todo = q.todo, new.appeared = q.appeared \cup {t}
    PROVE  ReqInv(new, later, rac)
<1>1. /\ new.pc = q.pc /\ new.kind = q.kind /\ new.folder = q.folder
      /\ new.view = q.view /\ new.naming = q.naming /\ new.todo = q.todo
      /\ new.appeared = q.appeared \cup {t}
  BY DEF SameRequest
<1>2. \A s \in Tables : s # t => later[s] = tab[s]
  OBVIOUS
<1>3. q.folder \in Folders /\ q.folder # None
  BY FoldersAssumption DEF ReqInv
<1>4. \A s : s \in Range(q.naming) => s \in Tables
  BY <1>3, FoldersAssumption DEF ReqInv, InstallInv, EnableInv, Request, Range
<1>5. ASSUME q.kind = "install"
      PROVE  InstallInv(new, later, rac)
  <2>1. ASSUME NEW s \in Range(q.naming)
        PROVE  Taken(q.folder, s, later, rac) \/ Pending(new, s, later)
    <3>1. s \in Tables /\ (Taken(q.folder, s, tab, rac) \/ Pending(q, s, tab))
      BY <1>4, <1>5, <2>1 DEF ReqInv, InstallInv
    <3>2. CASE s = t
      BY <1>1, <1>3, <3>1, <3>2 DEF Taken, Pending
    <3>3. CASE s # t
      BY <1>1, <1>2, <3>1, <3>3 DEF Taken, Pending
    <3>4. QED
      BY <3>2, <3>3
  <2>2. QED
    BY <1>1, <1>5, <2>1 DEF ReqInv, InstallInv
<1>6. ASSUME q.kind = "enable"
      PROVE  EnableInv(new, later)
  <2>1. ASSUME NEW s \in Range(q.naming)
        PROVE  later[s] = q.folder \/ s \in Range(q.todo)
    BY <1>2, <1>3, <1>4, <1>6, <2>1 DEF ReqInv, EnableInv
  <2>2. QED
    BY <1>1, <1>6, <2>1 DEF ReqInv, EnableInv
<1>7. QED
  BY <1>1, <1>3, <1>5, <1>6 DEF ReqInv

LEMMA OwnTable ==
    ASSUME NEW tab \in [Tables -> Folders \cup {"other", None}], NEW rac,
           NEW q \in Request, q.pc = "ddl", ReqInv(q, tab, rac), q.todo # <<>>,
           NEW t, t = Head(q.todo), tab[t] = None,
           NEW later, (\A s \in Tables : s # t => later[s] = tab[s]) /\ later[t] = q.folder,
           NEW new, SameRequest(q, new), new.todo = Tail(q.todo), new.appeared = q.appeared
    PROVE  ReqInv(new, later, rac)
<1>1. q.todo \in Seq(Tables)
  BY DEF Request
<1>2. /\ t \in Tables /\ Tail(q.todo) \in Seq(Tables)
      /\ \A s \in Range(q.todo) : s = t \/ s \in Range(Tail(q.todo))
  BY <1>1, HeadTail
<1>3. /\ new.pc = q.pc /\ new.kind = q.kind /\ new.folder = q.folder
      /\ new.view = q.view /\ new.naming = q.naming /\ new.todo = Tail(q.todo)
      /\ new.appeared = q.appeared
  BY DEF SameRequest
<1>4. (\A s \in Tables : s # t => later[s] = tab[s]) /\ later[t] = q.folder
  OBVIOUS
<1>5. q.folder \in Folders /\ q.folder # None
  BY FoldersAssumption DEF ReqInv
<1>6. \A s : s \in Range(q.naming) => s \in Tables
  BY <1>5, FoldersAssumption DEF ReqInv, InstallInv, EnableInv, Request, Range
<1>7. ASSUME q.kind = "install"
      PROVE  InstallInv(new, later, rac)
  <2>1. ASSUME NEW s \in Range(q.naming)
        PROVE  Taken(q.folder, s, later, rac) \/ Pending(new, s, later)
    <3>1. s \in Tables /\ (Taken(q.folder, s, tab, rac) \/ Pending(q, s, tab))
      BY <1>6, <1>7, <2>1 DEF ReqInv, InstallInv
    <3>2. CASE s = t
      BY <1>4, <3>2 DEF Taken
    <3>3. CASE s # t
      BY <1>2, <1>3, <1>4, <3>1, <3>3 DEF Taken, Pending
    <3>4. QED
      BY <3>2, <3>3
  <2>2. QED
    BY <1>3, <1>7, <2>1 DEF ReqInv, InstallInv
<1>8. ASSUME q.kind = "enable"
      PROVE  EnableInv(new, later)
  <2>1. ASSUME NEW s \in Range(q.naming)
        PROVE  later[s] = q.folder \/ s \in Range(new.todo)
    BY <1>2, <1>3, <1>4, <1>6, <1>8, <2>1 DEF ReqInv, EnableInv
  <2>2. QED
    BY <1>3, <1>8, <2>1 DEF ReqInv, EnableInv
<1>9. QED
  BY <1>3, <1>5, <1>7, <1>8 DEF ReqInv

LEMMA FoundTable ==
    ASSUME NEW tab, NEW rac,
           NEW q \in Request, q.pc = "ddl", ReqInv(q, tab, rac), q.todo # <<>>,
           q.kind = "install", NEW t, t = Head(q.todo), tab[t] # None,
           NEW rac2, rac \subseteq rac2, t \in q.appeared => <<q.folder, t>> \in rac2,
           NEW new, SameRequest(q, new), new.todo = Tail(q.todo), new.appeared = q.appeared
    PROVE  ReqInv(new, tab, rac2)
<1>1. q.todo \in Seq(Tables)
  BY DEF Request
<1>2. /\ t \in Tables /\ Tail(q.todo) \in Seq(Tables)
      /\ \A s \in Range(q.todo) : s = t \/ s \in Range(Tail(q.todo))
  BY <1>1, HeadTail
<1>3. /\ new.pc = q.pc /\ new.kind = q.kind /\ new.folder = q.folder
      /\ new.view = q.view /\ new.naming = q.naming /\ new.todo = Tail(q.todo)
      /\ new.appeared = q.appeared
  BY DEF SameRequest
<1>4. tab[t] # None /\ (t \in q.appeared => <<q.folder, t>> \in rac2)
  OBVIOUS
<1>5. ASSUME NEW s \in Range(q.naming)
      PROVE  Taken(q.folder, s, tab, rac2) \/ Pending(new, s, tab)
  <2>1. Taken(q.folder, s, tab, rac) \/ Pending(q, s, tab)
    BY <1>5 DEF ReqInv, InstallInv
  <2>2. QED
    BY <1>2, <1>3, <1>4, <2>1 DEF Taken, Pending
<1>6. QED
  BY <1>3, <1>5 DEF ReqInv, InstallInv

LEMMA TodoShrinks ==
    ASSUME NEW q \in Request, q.todo # <<>>, NEW new, new = [q EXCEPT !.todo = Tail(@)]
    PROVE  /\ new \in Request /\ SameRequest(q, new)
           /\ new.todo = Tail(q.todo) /\ new.appeared = q.appeared
<1>1. q.todo \in Seq(Tables)
  BY DEF Request
<1>2. Tail(q.todo) \in Seq(Tables)
  BY <1>1, HeadTail
<1>3. QED
  BY <1>2 DEF Request, SameRequest

LEMMA MoreRaced ==
    ASSUME NEW tab, NEW rac, NEW q, ReqInv(q, tab, rac), NEW rac2, rac \subseteq rac2
    PROVE  ReqInv(q, tab, rac2)
BY DEF ReqInv, InstallInv, Taken

-----------------------------------------------------------------------------
(* The steps of requests and of others.                                    *)

LEMMA Serving ==
    ASSUME Inv, NEW r \in Requests, req[r].pc = "ddl"
    PROVE  start.pc = "up"
BY DEF Inv, StartInv

LEMMA StartUndisturbed ==
    ASSUME Inv, start.pc = "up", UNCHANGED <<folders, start>>
    PROVE  StartInv'
BY DEF Inv, StartInv, Reached

LEMMA BeginInv ==
    ASSUME Inv, NEW r \in Requests, BeginInstall(r) \/ BeginEnable(r)
    PROVE  Inv'
<1> USE DEF Inv
<1>1. PICK kind \in {"install", "enable"}, f \in Folders, naming \in Namings \cup InvNamings,
           todo \in Seq(Tables) :
        /\ Begin(r, kind, f, naming, todo)
        /\ kind = "install" => /\ naming \in Namings /\ todo = naming
                               /\ CheckInstallation(folders[f], naming)
        /\ kind = "enable" =>
             /\ naming \in InvNamings /\ CheckInvitations(folders[f], naming)
             /\ todo = IF RecordedInvitations(folders[f]) = None THEN naming ELSE <<>>
  <2>1. ASSUME BeginInstall(r)
        PROVE  \E f \in Folders, naming \in Namings :
                  /\ naming \in Seq(Tables)
                  /\ CheckInstallation(folders[f], naming)
                  /\ Begin(r, "install", f, naming, naming)
    BY <2>1, FoldersAssumption DEF BeginInstall
  <2>2. ASSUME BeginEnable(r)
        PROVE  \E f \in Folders, naming \in InvNamings, todo \in Seq(Tables) :
                  /\ CheckInvitations(folders[f], naming)
                  /\ todo = IF RecordedInvitations(folders[f]) = None THEN naming ELSE <<>>
                  /\ Begin(r, "enable", f, naming, todo)
    BY <2>2, FoldersAssumption, IdleType DEF BeginEnable
  <2>3. QED
    BY <2>1, <2>2
<1> DEFINE q == [pc |-> "ddl", kind |-> kind, folder |-> f, view |-> folders[f],
                 naming |-> naming, todo |-> todo, appeared |-> {}]
<1>2. /\ start.pc = "up" /\ work < MaxWork /\ work' = work + 1
      /\ req' = [req EXCEPT ![r] = q]
      /\ UNCHANGED <<tables, folders, start, stops, raced>>
  BY <1>1 DEF Begin
<1>3. folders[f] \in Folder
  BY DEF TypeOK
<1>4. q \in Request
  BY <1>1, <1>3 DEF Request, Maybe
<1>5. work' \in 0..MaxWork
  BY <1>2, FoldersAssumption DEF TypeOK
<1>6. req' \in [Requests -> Request]
  BY <1>2, <1>4 DEF TypeOK
<1>7. TypeOK'
  BY <1>2, <1>5, <1>6 DEF TypeOK
<1>8. \A t \in Tables : t \notin Existing => tables[t] = None
  BY DEF Existing
<1>9. \A t \in Range(naming) : t \in Tables
  BY <1>1, FoldersAssumption DEF Range
<1>10. ASSUME kind = "install"
       PROVE  InstallInv(q, tables, raced)
  <2>1. naming \in Namings /\ todo = naming /\ CheckInstallation(folders[f], naming)
    BY <1>1, <1>10
  <2>2. Recorded(folders[f]) => folders[f].manifest.naming = naming
    BY <2>1 DEF CheckInstallation
  <2>3. folders[f].sql # "altered"
    BY <2>1 DEF CheckInstallation, Whole
  <2>4. ASSUME NEW t \in Range(naming)
        PROVE  Taken(f, t, tables, raced) \/ Pending(q, t, tables)
    <3>1. CASE Recorded(folders[f])
      BY <2>2, <2>4, <3>1 DEF RecordedTables, TablesOwn, Taken
    <3>2. CASE ~Recorded(folders[f])
      BY <1>8, <1>9, <2>1, <2>4, <3>2 DEF CheckInstallation, Pending
    <3>3. QED
      BY <3>1, <3>2
  <2>5. QED
    BY <2>1, <2>2, <2>3, <2>4 DEF InstallInv
<1>11. ASSUME kind = "enable"
       PROVE  EnableInv(q, tables)
  <2>1. /\ naming \in InvNamings /\ CheckInvitations(folders[f], naming)
        /\ todo = IF RecordedInvitations(folders[f]) = None THEN naming ELSE <<>>
    BY <1>1, <1>11
  <2>2. /\ Recorded(folders[f]) /\ folders[f].invsql # "altered"
        /\ RecordedInvitations(folders[f]) \in {None, naming}
    BY <2>1 DEF CheckInvitations
  <2>3. ASSUME NEW t \in Range(naming)
        PROVE  tables[t] = f \/ t \in Range(todo)
    <3>1. CASE RecordedInvitations(folders[f]) = None
      BY <2>1, <3>1
    <3>2. CASE RecordedInvitations(folders[f]) # None
      <4>1. t \in InvitationTables(folders[f])
        BY <2>2, <3>2 DEF InvitationTables
      <4>2. QED
        BY <4>1 DEF InvitationTablesOwn
    <3>3. QED
      BY <3>1, <3>2
  <2>4. QED
    BY <2>1, <2>2, <2>3 DEF EnableInv
<1>12. ReqInv(q, tables, raced)
  BY <1>10, <1>11 DEF ReqInv
<1> HIDE DEF q
<1>13. ASSUME NEW x \in Requests
       PROVE  ReqInv(req'[x], tables', raced')
  <2>1. CASE x = r
    BY <1>2, <1>12, <2>1 DEF TypeOK
  <2>2. CASE x # r
    BY <1>2, <2>2 DEF TypeOK
  <2>3. QED
    BY <2>1, <2>2
<1>14. QED
  BY <1>2, <1>7, <1>13, StartUndisturbed DEF TablesOwn, InvitationTablesOwn

\* Table t appears, created by request r or by another application.
LEMMA AppearsInv ==
    ASSUME Inv, NEW t \in Tables, tables[t] = None, NEW owner, NEW r, start.pc = "up",
           Appears(t, owner, r), owner \in Folders \cup {"other"},
           r \in Requests => /\ req[r].pc = "ddl" /\ req[r].todo # <<>>
                             /\ t = Head(req[r].todo) /\ owner = req[r].folder,
           UNCHANGED <<folders, start, stops, raced>>, work' \in 0..MaxWork
    PROVE  Inv'
<1> USE DEF Inv
<1>1. /\ tables' = [tables EXCEPT ![t] = owner]
      /\ tables \in [Tables -> Folders \cup {"other", None}]
      /\ tables' \in [Tables -> Folders \cup {"other", None}]
      /\ (\A s \in Tables : s # t => tables'[s] = tables[s]) /\ tables'[t] = owner
  BY DEF Appears, TypeOK
<1>2. ASSUME NEW x \in Requests
      PROVE  /\ req'[x] \in Request
             /\ ReqInv(req'[x], tables', raced')
             /\ x # r /\ req[x].pc # "ddl" => req'[x] = req[x]
  <2>1. req[x] \in Request /\ ReqInv(req[x], tables, raced)
    BY DEF TypeOK
  <2>2. CASE x = r
    <3>1. req'[x] = [req[x] EXCEPT !.todo = Tail(@)]
      BY <2>2 DEF Appears
    <3>2. /\ req'[x] \in Request /\ SameRequest(req[x], req'[x])
          /\ req'[x].todo = Tail(req[x].todo) /\ req'[x].appeared = req[x].appeared
      BY <2>1, <2>2, <3>1, TodoShrinks
    <3>3. ReqInv(req'[x], tables', raced)
      BY <1>1, <2>1, <2>2, <3>2, OwnTable
    <3>4. QED
      BY <2>2, <3>2, <3>3
  <2>3. CASE x # r /\ req[x].pc = "ddl"
    <3>1. req'[x] = [req[x] EXCEPT !.appeared = @ \cup {t}]
      BY <2>3 DEF Appears
    <3>2. /\ req'[x] \in Request /\ SameRequest(req[x], req'[x])
          /\ req'[x].todo = req[x].todo /\ req'[x].appeared = req[x].appeared \cup {t}
      BY <2>1, <3>1 DEF Request, SameRequest
    <3>3. ReqInv(req'[x], tables', raced)
      BY <1>1, <2>1, <2>3, <3>2, OthersTable
    <3>4. QED
      BY <2>3, <3>2, <3>3
  <2>4. CASE x # r /\ req[x].pc # "ddl"
    BY <2>1, <2>4 DEF Appears, ReqInv
  <2>5. QED
    BY <2>2, <2>3, <2>4
<1>3. req' \in [Requests -> Request]
  BY <1>2 DEF Appears
<1>4. TypeOK'
  BY <1>1, <1>3 DEF TypeOK
<1>5. \A f \in Folders : f # None
  BY FoldersAssumption
<1>6. TablesOwn'
  <2> SUFFICES ASSUME NEW f \in Folders, NEW s \in RecordedTables(folders[f])
               PROVE  tables'[s] = f \/ <<f, s>> \in raced
    BY DEF TablesOwn
  <2>1. tables[s] = f \/ <<f, s>> \in raced
    BY DEF TablesOwn
  <2>2. QED
    BY <1>1, <1>5, <2>1
<1>7. InvitationTablesOwn'
  <2> SUFFICES ASSUME NEW f \in Folders, NEW s \in InvitationTables(folders[f])
               PROVE  tables'[s] = f
    BY DEF InvitationTablesOwn
  <2>1. tables[s] = f
    BY DEF InvitationTablesOwn
  <2>2. QED
    BY <1>1, <1>5, <2>1
<1>8. QED
  BY <1>2, <1>4, <1>6, <1>7, StartUndisturbed

LEMMA CreateTableInv ==
    ASSUME Inv, NEW r \in Requests, CreateTable(r)
    PROVE  Inv'
<1>1. /\ req[r].pc = "ddl" /\ req[r].todo # <<>> /\ tables[Head(req[r].todo)] = None
      /\ Appears(Head(req[r].todo), req[r].folder, r)
      /\ UNCHANGED <<folders, start, stops, work, raced>>
  BY DEF CreateTable
<1>2. req[r] \in Request /\ ReqInv(req[r], tables, raced) /\ work \in 0..MaxWork
  BY DEF Inv, TypeOK
<1>3. req[r].todo \in Seq(Tables)
  BY <1>2 DEF Request
<1>4. Head(req[r].todo) \in Tables
  BY <1>1, <1>3, HeadTail
<1>5. req[r].folder \in Folders
  BY <1>1, <1>2 DEF ReqInv
<1>6. QED
  BY <1>1, <1>2, <1>4, <1>5, AppearsInv, Serving

LEMMA OtherTableInv ==
    ASSUME Inv, NEW t \in Tables, OtherTable(t)
    PROVE  Inv'
<1>1. /\ start.pc = "up" /\ work < MaxWork /\ tables[t] = None
      /\ Appears(t, "other", None) /\ work' = work + 1
      /\ UNCHANGED <<folders, start, stops, raced>>
  BY DEF OtherTable
<1>2. work' \in 0..MaxWork
  BY <1>1, FoldersAssumption DEF Inv, TypeOK
<1>3. QED
  BY <1>1, <1>2, AppearsInv, FoldersAssumption

LEMMA FindsTableInv ==
    ASSUME Inv, NEW r \in Requests, FindsTable(r)
    PROVE  Inv'
<1> USE DEF Inv
<1> DEFINE t == Head(req[r].todo)
<1>1. /\ req[r].pc = "ddl" /\ req[r].todo # <<>>
      /\ req[r].kind = "install" /\ tables[t] # None
      /\ req' = [req EXCEPT ![r].todo = Tail(@)]
      /\ raced' = IF t \in req[r].appeared THEN raced \cup {<<req[r].folder, t>>} ELSE raced
      /\ UNCHANGED <<tables, folders, start, stops, work>>
  BY DEF FindsTable
<1>2. req[r] \in Request /\ ReqInv(req[r], tables, raced) /\ start.pc = "up"
  BY <1>1, Serving DEF TypeOK
<1>3. raced \subseteq raced' /\ (t \in req[r].appeared => <<req[r].folder, t>> \in raced')
  BY <1>1
<1>4. req'[r] = [req[r] EXCEPT !.todo = Tail(@)]
  BY <1>1 DEF TypeOK
<1>5. req'[r] \in Request /\ ReqInv(req'[r], tables, raced')
  <2>1. /\ req'[r] \in Request /\ SameRequest(req[r], req'[r])
        /\ req'[r].todo = Tail(req[r].todo) /\ req'[r].appeared = req[r].appeared
    BY <1>1, <1>2, <1>4, TodoShrinks
  <2> HIDE DEF t
  <2>2. ReqInv(req'[r], tables, raced')
    BY <1>1, <1>2, <1>3, <2>1, FoundTable DEF t
  <2>3. QED
    BY <2>1, <2>2
<1>6. t \in Tables /\ req[r].folder \in Folders
  <2>1. req[r].todo \in Seq(Tables)
    BY <1>2 DEF Request
  <2>2. QED
    BY <1>1, <1>2, <2>1, HeadTail DEF ReqInv
<1>7. raced' \subseteq Folders \X Tables
  BY <1>1, <1>6 DEF TypeOK
<1>8. req' \in [Requests -> Request]
  BY <1>1, <1>4, <1>5 DEF TypeOK
<1>9. TypeOK'
  BY <1>1, <1>7, <1>8 DEF TypeOK
<1> HIDE DEF t
<1>10. ASSUME NEW x \in Requests
       PROVE  ReqInv(req'[x], tables', raced')
  <2>1. CASE x = r
    BY <1>1, <1>5, <2>1
  <2>2. CASE x # r
    <3>1. req'[x] = req[x]
      BY <1>1, <2>2 DEF TypeOK
    <3>2. QED
      BY <1>1, <1>3, <3>1, MoreRaced
  <2>3. QED
    BY <2>1, <2>2
<1>11. TablesOwn' /\ InvitationTablesOwn'
  BY <1>1, <1>3 DEF TablesOwn, InvitationTablesOwn
<1>12. QED
  BY <1>1, <1>2, <1>9, <1>10, <1>11, StartUndisturbed

LEMMA FailInv ==
    ASSUME Inv, NEW r \in Requests, Fail(r)
    PROVE  Inv'
<1> USE DEF Inv
<1>1. /\ req[r].pc = "ddl" /\ req' = [req EXCEPT ![r] = Idle]
      /\ UNCHANGED <<tables, folders, start, stops, work, raced>>
  BY DEF Fail
<1>2. start.pc = "up"
  BY <1>1, Serving
<1>3. TypeOK'
  BY <1>1, IdleType DEF TypeOK
<1>4. ASSUME NEW x \in Requests
      PROVE  ReqInv(req'[x], tables', raced')
  <2>1. CASE x = r
    BY <1>1, <2>1, IdleType DEF TypeOK, ReqInv
  <2>2. CASE x # r
    BY <1>1, <2>2 DEF TypeOK
  <2>3. QED
    BY <2>1, <2>2
<1>5. QED
  BY <1>1, <1>2, <1>3, <1>4, StartUndisturbed DEF TablesOwn, InvitationTablesOwn

\* What a request or an upgrade leaves of a folder.
Preserved(old, new) ==
    /\ old.sql = "altered" => new.sql = "altered"
    /\ old.invsql = "altered" => new.invsql = "altered"
    /\ old.form \in Customized =>
         new.form = old.form \/ (old.form = "plain" /\ new.form = "guarded")
    /\ Recorded(old) =>
         /\ Recorded(new)
         /\ new.manifest.naming = old.manifest.naming
         /\ RecordedInvitations(old) # None =>
              RecordedInvitations(new) = RecordedInvitations(old)

\* A commit goes through only where what it writes is as it was seen, so that
\* what the request has checked still holds.
LEMMA CommitFacts ==
    ASSUME Inv, NEW r \in Requests, Commit(r)
    PROVE  LET f == req[r].folder
               new == folders'[f]
           IN  /\ f \in Folders /\ new \in Folder
               /\ folders' = [folders EXCEPT ![f] = new]
               /\ Whole(new) /\ (Off(folders[f]) => Off(new)) /\ Preserved(folders[f], new)
               /\ \A t \in RecordedTables(new) : tables[t] = f \/ <<f, t>> \in raced
               /\ \A t \in InvitationTables(new) : tables[t] = f
<1> DEFINE q == req[r]
           f == q.folder
           now == folders[f]
           new == Merged(q.kind, q.view, q.naming, now)
<1>1. /\ q.pc = "ddl" /\ q.todo = <<>> /\ NoConflict(q.kind, q.view, now)
      /\ folders' = [folders EXCEPT ![f] = new]
  BY DEF Commit
<1>2. /\ q \in Request /\ ReqInv(q, tables, raced) /\ folders \in [Folders -> Folder]
      /\ TablesOwn /\ InvitationTablesOwn /\ (\A g \in Folders : Whole(folders[g]))
  BY DEF Inv, TypeOK
<1>3. f \in Folders /\ q.view \in Folder /\ q.kind \in {"install", "enable"}
  BY <1>1, <1>2 DEF ReqInv, Request
<1>4. now \in Folder /\ Whole(now) /\ folders'[f] = new
  BY <1>1, <1>2, <1>3
<1>5. \A t : t \notin Range(q.todo)
  BY <1>1, EmptyRange
<1>6. /\ \A t \in RecordedTables(now) : tables[t] = f \/ <<f, t>> \in raced
      /\ \A t \in InvitationTables(now) : tables[t] = f
  BY <1>2, <1>3 DEF TablesOwn, InvitationTablesOwn
<1> SUFFICES /\ new \in Folder
             /\ Whole(new) /\ (Off(now) => Off(new)) /\ Preserved(now, new)
             /\ \A t \in RecordedTables(new) : tables[t] = f \/ <<f, t>> \in raced
             /\ \A t \in InvitationTables(new) : tables[t] = f
  BY <1>1, <1>3, <1>4
<1> HIDE DEF q, f, now, new
<1>7. CASE q.kind = "install"
  <2>1. InstallInv(q, tables, raced)
    BY <1>1, <1>2, <1>7 DEF ReqInv, f
  <2>2. /\ q.naming \in Namings /\ q.view.sql # "altered"
        /\ Recorded(q.view) => q.view.manifest.naming = q.naming
        /\ \A t \in Range(q.naming) : tables[t] = f \/ <<f, t>> \in raced
    BY <1>5, <2>1 DEF InstallInv, Taken, Pending, f
  <2>3. new = Merged("install", q.view, q.naming, now)
    BY <1>7 DEF new
  <2>4. /\ new \in Folder /\ Recorded(new)
        /\ new.manifest.mode = "managed" /\ new.manifest.revision = 2
        /\ new.manifest.naming = q.naming
        /\ new.manifest.invitations = RecordedInvitations(q.view)
        /\ new.helper /\ ~new.error /\ new.sql = "stock"
        /\ new.form = IF q.view.form \in Customized THEN now.form ELSE "generated"
        /\ new.invsql = now.invsql
    <3>1. AfterInstall(q.view, q.naming, now, new)
      BY <1>3, <1>4, <2>2, <2>3, MergedInstall
    <3>2. QED
      BY <3>1 DEF AfterInstall
  <2>5. /\ now.manifest = q.view.manifest /\ now.sql = q.view.sql
        /\ q.view.form \in Customized \/ now.form = q.view.form
    BY <1>1, <1>7 DEF NoConflict
  <2>6. RecordedInvitations(new) = RecordedInvitations(now)
    BY <2>4, <2>5 DEF RecordedInvitations, Recorded
  <2>7. Whole(new) /\ Off(new)
    BY <2>4 DEF Whole, Off
  <2>8. Preserved(now, new)
    BY <2>2, <2>4, <2>5, <2>6 DEF Preserved, Recorded
  <2>9. RecordedTables(new) = Range(q.naming) /\ InvitationTables(new) = InvitationTables(now)
    BY <2>4, <2>6 DEF RecordedTables, InvitationTables
  <2>10. QED
    BY <1>6, <2>2, <2>4, <2>7, <2>8, <2>9
<1>8. CASE q.kind = "enable"
  <2>1. EnableInv(q, tables)
    BY <1>1, <1>2, <1>8 DEF ReqInv, f
  <2>2. /\ q.naming \in InvNamings /\ Recorded(q.view) /\ q.view.invsql # "altered"
        /\ RecordedInvitations(q.view) \in {None, q.naming}
        /\ \A t \in Range(q.naming) : tables[t] = f
    BY <1>5, <2>1 DEF EnableInv, f
  <2>3. new = Merged("enable", q.view, q.naming, now)
    BY <1>8 DEF new
  <2>4. /\ new \in Folder /\ Recorded(new)
        /\ new.manifest.mode = q.view.manifest.mode
        /\ new.manifest.revision = q.view.manifest.revision
        /\ new.manifest.naming = q.view.manifest.naming
        /\ new.manifest.invitations = q.naming
        /\ new.helper = now.helper /\ new.error = now.error /\ new.login = now.login
        /\ new.sql = now.sql /\ new.form = now.form /\ new.invsql = "stock"
    <3>1. AfterEnable(q.view, q.naming, now, new)
      BY <1>3, <1>4, <2>2, <2>3, MergedEnable
    <3>2. QED
      BY <3>1 DEF AfterEnable
  <2>5. now.manifest = q.view.manifest /\ now.invsql = q.view.invsql /\ Recorded(now)
    BY <1>1, <1>8, <2>2 DEF NoConflict, Recorded
  <2>6. RecordedInvitations(new) = q.naming /\ q.naming # None
    BY <2>2, <2>4, FoldersAssumption DEF RecordedInvitations
  <2>7. RecordedInvitations(now) \in {None, q.naming}
    BY <2>2, <2>5 DEF RecordedInvitations, Recorded
  <2>8. Whole(new) /\ (Off(now) => Off(new))
    BY <1>4, <2>4, <2>5 DEF Whole, Off
  <2>9. Preserved(now, new)
    BY <2>2, <2>4, <2>5, <2>6, <2>7 DEF Preserved
  <2>10. RecordedTables(new) = RecordedTables(now) /\ InvitationTables(new) = Range(q.naming)
    BY <2>4, <2>5, <2>6 DEF RecordedTables, InvitationTables
  <2>11. QED
    BY <1>6, <2>2, <2>4, <2>8, <2>9, <2>10
<1>9. QED
  BY <1>3, <1>7, <1>8 DEF q

\* One folder changes while Zope serves requests.
LEMMA FolderChangeInv ==
    ASSUME Inv, NEW f \in Folders, NEW new \in Folder, start.pc = "up",
           folders' = [folders EXCEPT ![f] = new], UNCHANGED <<tables, start, stops, raced>>,
           Whole(new), Off(folders[f]) => Off(new),
           \A t \in RecordedTables(new) : tables[t] = f \/ <<f, t>> \in raced,
           \A t \in InvitationTables(new) : tables[t] = f,
           req' \in [Requests -> Request], work' \in 0..MaxWork,
           \A r \in Requests : ReqInv(req'[r], tables, raced)
    PROVE  Inv'
<1> USE DEF Inv
<1>1. folders \in [Folders -> Folder] /\ start.seen \subseteq Folders
  BY DEF TypeOK, Start
<1>2. folders' \in [Folders -> Folder] /\ folders'[f] = new
      /\ \A g \in Folders : g # f => folders'[g] = folders[g]
  BY <1>1
<1>3. TypeOK'
  BY <1>2 DEF TypeOK
<1>4. \A g \in Folders : Whole(folders'[g]) /\ (Off(folders[g]) => Off(folders'[g]))
  BY <1>2
<1>5. StartInv'
  BY <1>1, <1>4 DEF StartInv, Reached
<1>6. TablesOwn'
  BY <1>2 DEF TablesOwn
<1>7. InvitationTablesOwn'
  BY <1>2 DEF InvitationTablesOwn
<1>8. QED
  BY <1>3, <1>4, <1>5, <1>6, <1>7

LEMMA CommitInv ==
    ASSUME Inv, NEW r \in Requests, Commit(r)
    PROVE  Inv'
<1>1. /\ req[r].pc = "ddl" /\ req' = [req EXCEPT ![r] = Idle]
      /\ UNCHANGED <<tables, start, stops, work, raced>>
  BY DEF Commit
<1>2. /\ req \in [Requests -> Request] /\ work \in 0..MaxWork
      /\ \A x \in Requests : ReqInv(req[x], tables, raced)
  BY DEF Inv, TypeOK
<1>3. ASSUME NEW x \in Requests
      PROVE  ReqInv(req'[x], tables, raced)
  <2>1. CASE x = r
    BY <1>1, <1>2, <2>1, IdleType DEF ReqInv
  <2>2. CASE x # r
    BY <1>1, <1>2, <2>2
  <2>3. QED
    BY <2>1, <2>2
<1>4. req' \in [Requests -> Request] /\ work' \in 0..MaxWork
  BY <1>1, <1>2, IdleType
<1>5. start.pc = "up"
  BY <1>1, Serving
<1>6. QED
  BY <1>1, <1>3, <1>4, <1>5, CommitFacts, FolderChangeInv

LEMMA EditByHandInv ==
    ASSUME Inv, NEW f \in Folders, EditByHand(f)
    PROVE  Inv'
<1> DEFINE old == folders[f]
           new == folders'[f]
<1>1. /\ start.pc = "up" /\ work < MaxWork /\ work' = work + 1 /\ Recorded(old)
      /\ UNCHANGED <<tables, req, start, stops, raced>>
  BY DEF EditByHand
<1>2. /\ folders \in [Folders -> Folder] /\ req \in [Requests -> Request]
      /\ work' \in 0..MaxWork
      /\ \A r \in Requests : ReqInv(req[r], tables, raced)
      /\ Whole(old) /\ TablesOwn /\ InvitationTablesOwn
  BY <1>1, FoldersAssumption DEF Inv, TypeOK
<1>3. /\ folders' = [folders EXCEPT ![f] = new]
      /\ new \in Folder /\ new.manifest = old.manifest /\ new.helper = old.helper
      /\ new.login = old.login /\ new.error = old.error
  <2> HIDE DEF new
  <2>1. old \in Folder
    BY <1>2
  <2>2. CASE \E sql \in {"stock", "altered"} : folders' = [folders EXCEPT ![f].sql = sql]
    BY <1>2, <2>1, <2>2 DEF Folder, SqlStates, new
  <2>3. CASE folders' = [folders EXCEPT ![f].invsql = "altered"]
    BY <1>2, <2>1, <2>3 DEF Folder, SqlStates, new
  <2>4. CASE \E form \in Customized \cup {"edited"} :
                folders' = [folders EXCEPT ![f].form = form]
    BY <1>2, <2>1, <2>4 DEF Folder, Forms, new
  <2>5. QED
    BY <2>2, <2>3, <2>4 DEF EditByHand
<1> HIDE DEF old, new
<1>4. Whole(new) /\ (Off(old) => Off(new))
  BY <1>1, <1>2, <1>3 DEF Whole, Off, Recorded
<1>5. /\ RecordedTables(new) = RecordedTables(old)
      /\ InvitationTables(new) = InvitationTables(old)
  BY <1>3 DEF RecordedTables, InvitationTables, RecordedInvitations, Recorded
<1>6. /\ \A t \in RecordedTables(new) : tables[t] = f \/ <<f, t>> \in raced
      /\ \A t \in InvitationTables(new) : tables[t] = f
  BY <1>2, <1>5 DEF TablesOwn, InvitationTablesOwn, old
<1>7. QED
  BY <1>1, <1>2, <1>3, <1>4, <1>6, FolderChangeInv DEF old

LEMMA NextInv == Inv /\ [Next]_vars => Inv'
<1> SUFFICES ASSUME Inv, [Next]_vars PROVE Inv'
  OBVIOUS
<1>1. CASE UNCHANGED vars
  BY <1>1 DEF vars, Inv, TypeOK, StartInv, Reached, TablesOwn, InvitationTablesOwn
<1>2. ASSUME NEW r \in Requests, BeginInstall(r) \/ BeginEnable(r)
      PROVE  Inv'
  BY <1>2, BeginInv
<1>3. ASSUME NEW r \in Requests, CreateTable(r)
      PROVE  Inv'
  BY <1>3, CreateTableInv
<1>4. ASSUME NEW r \in Requests, FindsTable(r)
      PROVE  Inv'
  BY <1>4, FindsTableInv
<1>5. ASSUME NEW r \in Requests, Commit(r)
      PROVE  Inv'
  BY <1>5, CommitInv
<1>6. ASSUME NEW r \in Requests, Fail(r)
      PROVE  Inv'
  BY <1>6, FailInv
<1>7. ASSUME NEW f \in Folders, EditByHand(f) \/ Visit(f)
      PROVE  Inv'
  BY <1>7, EditByHandInv, VisitInv
<1>8. ASSUME NEW t \in Tables, OtherTable(t)
      PROVE  Inv'
  BY <1>8, OtherTableInv
<1>9. CASE Boot
  BY <1>9, BootInv
<1>10. CASE CommitUpgrade
  BY <1>10, CommitUpgradeInv
<1>11. CASE LoseUpgrade
  BY <1>11, LoseUpgradeInv
<1>12. CASE Stop
  BY <1>12, StopInv
<1>13. QED
  BY <1>1, <1>2, <1>3, <1>4, <1>5, <1>6, <1>7, <1>8, <1>9, <1>10, <1>11, <1>12 DEF Next

-----------------------------------------------------------------------------
(* The theorems.                                                           *)

THEOREM Invariance == Spec => []Inv
<1>1. Init => Inv
  BY InitInv
<1>2. Inv /\ [Next]_vars => Inv'
  BY NextInv
<1>3. QED
  BY <1>1, <1>2, PTL DEF Spec

\* Every variable keeps its type.
THEOREM TypeSafety == Spec => []TypeOK
<1>1. Inv => TypeOK
  BY DEF Inv
<1>2. QED
  BY <1>1, Invariance, PTL

\* However an upgrade or a request ends, a folder has the new runtime with its
\* manifest or neither, and a folder marked as needing attention has no SQL
\* login (upgrade.py upgrade_tree, installer.py install).
THEOREM WholeSafety == Spec => []RuntimeWhole
<1>1. Inv => RuntimeWhole
  BY DEF Inv, Whole, RuntimeWhole
<1>2. QED
  BY <1>1, Invariance, PTL

\* After a committed upgrade no selected folder the walk could reach
\* authenticates with the old runtime (upgrade.py upgrade_tree).
THEOREM OldLoginSafety == Spec => []OldLoginOff
<1>1. Inv => OldLoginOff
  <2> SUFFICES ASSUME Inv, start.pc = "up", start.committed,
                      NEW f \in Selected, Reached(f), Recorded(folders[f]), folders[f].login
               PROVE  folders[f].manifest.mode = "retired" \/ folders[f].manifest.revision = 2
    BY DEF OldLoginOff
  <2>1. f \in start.seen
    BY FoldersAssumption DEF Inv, StartInv
  <2>2. Off(folders[f])
    BY <2>1 DEF Inv, StartInv
  <2>3. QED
    BY <2>2 DEF Off
<1>2. QED
  BY <1>1, Invariance, PTL

\* The identity tables of a folder were created for it, unless they appeared
\* after its check: those of others that were there when the manager asked are
\* never taken over (schema.py check_installation).
THEOREM TablesSafety == Spec => []TablesOwn
<1>1. Inv => TablesOwn
  BY DEF Inv
<1>2. QED
  BY <1>1, Invariance, PTL

\* The tables of invitations were created for their folder
\* (invitation_install.py enable_invitation_storage).
THEOREM InvitationTablesSafety == Spec => []InvitationTablesOwn
<1>1. Inv => InvitationTablesOwn
  BY DEF Inv
<1>2. QED
  BY <1>1, Invariance, PTL

\* The objects of a folder change by hand, with an upgrade, or when a request
\* for that folder commits.
LEMMA FolderSteps ==
    ASSUME Inv, [Next]_vars, NEW f \in Folders
    PROVE  \/ EditByHand(f) \/ CommitUpgrade \/ folders'[f] = folders[f]
           \/ \E r \in Requests : Commit(r) /\ req[r].folder = f
<1>1. folders \in [Folders -> Folder]
  BY DEF Inv, TypeOK
<1>2. ASSUME NEW r \in Requests, Commit(r), req[r].folder # f
      PROVE  folders'[f] = folders[f]
  BY <1>1, <1>2 DEF Commit
<1>3. ASSUME NEW g \in Folders, EditByHand(g), g # f
      PROVE  folders'[f] = folders[f]
  BY <1>1, <1>3 DEF EditByHand
<1>4. ASSUME NEW r \in Requests,
             BeginInstall(r) \/ BeginEnable(r) \/ CreateTable(r) \/ FindsTable(r) \/ Fail(r)
      PROVE  folders' = folders
  BY <1>4 DEF BeginInstall, BeginEnable, Begin, CreateTable, FindsTable, Fail
<1>5. ASSUME NEW g \in Folders, Visit(g)
      PROVE  folders' = folders
  BY <1>5 DEF Visit
<1>6. ASSUME NEW t \in Tables, OtherTable(t)
      PROVE  folders' = folders
  BY <1>6 DEF OtherTable
<1>7. ASSUME Boot \/ LoseUpgrade \/ Stop \/ UNCHANGED vars
      PROVE  folders' = folders
  BY <1>7 DEF Boot, LoseUpgrade, Stop, vars
<1>8. QED
  BY <1>2, <1>3, <1>4, <1>5, <1>6, <1>7 DEF Next

\* Whatever a step does to a folder, but for an edit by hand, it preserves.
LEMMA StepPreserves ==
    ASSUME Inv, [Next]_vars, NEW f \in Folders
    PROVE  EditByHand(f) \/ Preserved(folders[f], folders'[f])
<1>1. CASE folders'[f] = folders[f]
  BY <1>1 DEF Preserved
<1>2. CASE \E r \in Requests : Commit(r) /\ req[r].folder = f
  BY <1>2, CommitFacts
<1>3. CASE CommitUpgrade
  <2>1. Kept(folders[f], folders'[f])
    BY <1>3 DEF CommitUpgrade, Inv, StartInv
  <2>2. QED
    BY <2>1 DEF Kept, Preserved, RecordedInvitations
<1>4. QED
  BY <1>1, <1>2, <1>3, FolderSteps

\* A request that overwrites an edited page has seen the edit.
LEMMA CommitHasSeen ==
    ASSUME Inv, NEW r \in Requests, Commit(r), folders[req[r].folder].form = "edited"
    PROVE  folders'[req[r].folder].form = "edited" \/ req[r].view.form = "edited"
<1> DEFINE q == req[r]
           f == q.folder
           now == folders[f]
<1>1. /\ f \in Folders /\ now \in Folder /\ q.view \in Folder
      /\ q.kind \in {"install", "enable"} /\ (q.kind = "install" => q.naming \in Namings)
      /\ folders'[f] = Merged(q.kind, q.view, q.naming, now)
  <2>1. q \in Request /\ f \in Folders /\ (q.kind = "install" => q.naming \in Namings)
    BY DEF Commit, Inv, TypeOK, ReqInv, InstallInv
  <2>2. QED
    BY <2>1 DEF Commit, Inv, TypeOK, Request
<1>2. NoConflict(q.kind, q.view, now)
  BY DEF Commit
<1> HIDE DEF q, f, now
<1>3. CASE q.kind = "enable"
  <2>1. folders'[f].form = now.form
    BY <1>1, <1>3 DEF Merged, Folder
  <2>2. QED
    BY <2>1 DEF q, f, now
<1>4. CASE q.kind = "install"
  <2>1. q.view.form \in Customized \/ now.form = q.view.form
    BY <1>2, <1>4 DEF NoConflict
  <2>2. CASE q.view.form \in Customized
    <3>1. AfterInstall(q.view, q.naming, now, folders'[f])
      BY <1>1, <1>4, MergedInstall
    <3>2. QED
      BY <2>2, <3>1 DEF AfterInstall, q, f, now
  <2>3. QED
    BY <2>1, <2>2 DEF q, f, now
<1>5. QED
  BY <1>1, <1>3, <1>4

\* SQL edited by hand and pages that have lost their marker survive repair,
\* upgrade and enabling invitations; an edited page with its marker falls only
\* to an upgrade or a repair that has seen it (schema.py _check_repair_sql,
\* installer.py _ensure_managed_dtml_method, upgrade.py
\* _patch_custom_login_form).
THEOREM CustomSafety == Spec => CustomKept
<1>1. Inv /\ [Next]_vars =>
        [\A f \in Folders :
            \/ EditByHand(f)
            \/ /\ folders[f].sql = "altered" => folders'[f].sql = "altered"
               /\ folders[f].invsql = "altered" => folders'[f].invsql = "altered"
               /\ folders[f].form \in Customized =>
                    \/ folders'[f].form = folders[f].form
                    \/ folders[f].form = "plain" /\ folders'[f].form = "guarded"
               /\ folders[f].form = "edited" =>
                    \/ folders'[f].form = "edited"
                    \/ CommitUpgrade
                    \/ \E r \in Requests :
                          Commit(r) /\ req[r].folder = f /\ req[r].view.form = "edited"]_vars
  <2> SUFFICES ASSUME Inv, [Next]_vars, NEW f \in Folders, ~ EditByHand(f)
               PROVE  /\ Preserved(folders[f], folders'[f])
                      /\ folders[f].form = "edited" =>
                           \/ folders'[f].form = "edited"
                           \/ CommitUpgrade
                           \/ \E r \in Requests :
                                 Commit(r) /\ req[r].folder = f /\ req[r].view.form = "edited"
    BY DEF Preserved
  <2>1. Preserved(folders[f], folders'[f])
    BY StepPreserves
  <2>2. QED
    BY <2>1, FolderSteps, CommitHasSeen
<1>2. QED
  BY <1>1, Invariance, PTL DEF Spec, CustomKept

\* The tables a manifest records stay recorded (installer.py _ensure_manifest).
THEOREM RecordSafety == Spec => RecordKept
<1>1. Inv /\ [Next]_vars =>
        [\A f \in Folders : Recorded(folders[f]) =>
            /\ Recorded(folders'[f])
            /\ folders'[f].manifest.naming = folders[f].manifest.naming
            /\ RecordedInvitations(folders[f]) # None =>
                 RecordedInvitations(folders'[f]) = RecordedInvitations(folders[f])]_vars
  <2> SUFFICES ASSUME Inv, [Next]_vars, NEW f \in Folders, Recorded(folders[f])
               PROVE  /\ Recorded(folders'[f])
                      /\ folders'[f].manifest.naming = folders[f].manifest.naming
                      /\ RecordedInvitations(folders[f]) # None =>
                           RecordedInvitations(folders'[f]) = RecordedInvitations(folders[f])
    OBVIOUS
  <2>1. CASE Preserved(folders[f], folders'[f])
    BY <2>1 DEF Preserved
  <2>2. CASE EditByHand(f)
    <3>1. folders[f] \in Folder /\ folders \in [Folders -> Folder]
      BY DEF Inv, TypeOK
    <3>2. folders'[f].manifest = folders[f].manifest
      BY <2>2, <3>1 DEF EditByHand, Folder
    <3>3. QED
      BY <3>2 DEF Recorded, RecordedInvitations
  <2>3. QED
    BY <2>1, <2>2, StepPreserves
<1>2. QED
  BY <1>1, Invariance, PTL DEF Spec, RecordKept
-----------------------------------------------------------------------------
(* The ledger of setups.                                                   *)

\* What an upgrade may do to a folder.
Forward(x, y) ==
    \/ PhaseOf(y) = PhaseOf(x)
    \/ PhaseOf(x) \in {"old", "blocked"} /\ PhaseOf(y) \in {"blocked", "new"}

\* The walk has only moved folders forward, a table taken over exists, and a
\* request has found its folder managed, or empty.
SetupInv ==
    /\ start.pc = "walk" => \A f \in Folders : Forward(folders[f], start.new[f])
    /\ \A p \in raced : tables[p[2]] # None
    /\ \A r \in Requests : req[r].pc = "ddl" /\ Recorded(req[r].view) =>
           req[r].view.manifest.mode = "managed"

LEMMA ForwardTransitive ==
    ASSUME NEW x, NEW y, NEW z, Forward(x, y), Forward(y, z)
    PROVE  Forward(x, z)
BY DEF Forward

LEMMA OutcomeForward ==
    ASSUME NEW old \in Folder, Whole(old), NEW new \in Outcomes(old)
    PROVE  Forward(old, new)
<1>1. CASE ~ Outdated(old)
  BY <1>1 DEF Outcomes, Forward
<1>2. CASE Outdated(old)
  <2>1. /\ Recorded(old) /\ old.manifest \in Manifest
        /\ old.manifest.mode # "retired" /\ old.manifest.revision # 2
    BY <1>2 DEF Outdated, Recorded, Whole, Folder, Maybe
  <2>2. PhaseOf(old) \in {"old", "blocked"}
    BY <2>1 DEF PhaseOf
  <2>3. CASE \E n \in 0..Extent(old) : new = Blocked(old, Edited(old, n))
    <3>1. new.manifest = old.manifest /\ ~ new.login
      BY <2>3 DEF Blocked, Folder
    <3>2. PhaseOf(new) = "blocked"
      BY <2>1, <3>1 DEF PhaseOf, Recorded
    <3>3. QED
      BY <2>2, <3>2 DEF Forward
  <2>4. CASE Extent(old) = 6 /\ new = Edited(old, 6)
    <3>1. /\ new.manifest = [old.manifest EXCEPT !.revision = 2]
          /\ old.manifest.mode = "managed"
      BY <1>2, <2>1, <2>4 DEF Edited, Folder, Extent, Outdated
    <3>2. /\ new.manifest \in Manifest /\ new.manifest.mode = "managed"
          /\ new.manifest.revision = 2
      BY <2>1, <3>1 DEF Manifest
    <3>3. PhaseOf(new) = "new"
      BY <3>2, NoneAssumption DEF PhaseOf, Recorded
    <3>4. QED
      BY <2>2, <3>3 DEF Forward
  <2>5. QED
    BY <1>2, <2>3, <2>4 DEF Outcomes
<1>3. QED
  BY <1>1, <1>2

LEMMA VisitForward ==
    ASSUME Inv, SetupInv, NEW f \in Folders, Visit(f)
    PROVE  \A g \in Folders : Forward(folders[g], start'.new[g])
<1>1. PICK new \in (IF f \in Selected THEN Outcomes(start.new[f]) ELSE {start.new[f]}) :
          start'.new = [start.new EXCEPT ![f] = new]
  BY DEF Visit, Inv, TypeOK, Start
<1>2. /\ start.pc = "walk" /\ start.new \in [Folders -> Folder]
      /\ start.new[f] \in Folder /\ Whole(start.new[f])
      /\ \A g \in Folders : Forward(folders[g], start.new[g])
  BY DEF Visit, Inv, StartInv, TypeOK, Start, SetupInv
<1>3. Forward(start.new[f], new)
  BY <1>1, <1>2, OutcomeForward DEF Forward
<1>4. QED
  BY <1>1, <1>2, <1>3, ForwardTransitive

\* A step that begins no request and takes over no table.
LEMMA SetupFrame ==
    ASSUME SetupInv,
           start'.pc = "walk" => \A f \in Folders : Forward(folders'[f], start'.new[f]),
           \A t \in Tables : tables[t] # None => tables'[t] # None,
           raced' = raced, raced \subseteq Folders \X Tables,
           \A r \in Requests : req'[r].pc = "ddl" =>
               req[r].pc = "ddl" /\ req'[r].view = req[r].view
    PROVE  SetupInv'
<1>1. \A p \in raced' : tables'[p[2]] # None
  BY DEF SetupInv
<1>2. QED
  BY <1>1 DEF SetupInv

LEMMA SetupInvNext == Inv /\ SetupInv /\ [Next]_vars => SetupInv'
<1> SUFFICES ASSUME Inv, SetupInv, [Next]_vars PROVE SetupInv'
  OBVIOUS
<1>1. /\ req \in [Requests -> Request] /\ raced \subseteq Folders \X Tables
      /\ tables \in [Tables -> Folders \cup {"other", None}]
      /\ \A r \in Requests : req[r].pc = "ddl" => start.pc = "up"
  BY Serving DEF Inv, TypeOK
<1>2. ASSUME NEW r \in Requests, BeginInstall(r) \/ BeginEnable(r)
      PROVE  SetupInv'
  <2>1. PICK kind \in {"install", "enable"}, f \in Folders, naming \in Namings \cup InvNamings,
             todo \in Seq(Tables) :
            /\ Begin(r, kind, f, naming, todo)
            /\ Recorded(folders[f]) => folders[f].manifest.mode = "managed"
    <3>1. <<>> \in Seq(Tables) /\ Namings \subseteq Seq(Tables) /\ InvNamings \subseteq Seq(Tables)
      BY FoldersAssumption
    <3>2. QED
      BY <1>2, <3>1, Zenon DEF BeginInstall, BeginEnable, CheckInvitations, CheckInstallation
  <2>2. /\ start.pc = "up" /\ UNCHANGED <<tables, folders, start, raced>>
        /\ req'[r].view = folders[f] /\ \A x \in Requests \ {r} : req'[x] = req[x]
    BY <1>1, <2>1 DEF Begin
  <2>3. QED
    BY <2>1, <2>2 DEF SetupInv
<1>3. ASSUME NEW r \in Requests, FindsTable(r)
      PROVE  SetupInv'
  <2> DEFINE t == Head(req[r].todo)
  <2>1. /\ req[r].pc = "ddl" /\ tables[t] # None /\ UNCHANGED <<tables, folders, start>>
        /\ req' = [req EXCEPT ![r].todo = Tail(@)]
        /\ raced' \subseteq raced \cup {<<req[r].folder, t>>}
    BY <1>3 DEF FindsTable
  <2>2. \A x \in Requests : req'[x].pc = req[x].pc /\ req'[x].view = req[x].view
    BY <1>1, <2>1 DEF Request
  <2>3. start'.pc # "walk"
    BY <1>1, <2>1
  <2>4. \A p \in raced' : tables'[p[2]] # None
    BY <2>1 DEF SetupInv
  <2>5. QED
    BY <2>2, <2>3, <2>4 DEF SetupInv
<1>4. ASSUME NEW t, NEW owner, NEW r, Appears(t, owner, r), owner # None,
             start.pc = "up", UNCHANGED <<folders, start, raced>>
      PROVE  SetupInv'
  <2>1. \A x \in Requests : req'[x].pc = req[x].pc /\ req'[x].view = req[x].view
    BY <1>1, <1>4 DEF Appears, Request
  <2>2. \A s \in Tables : tables[s] # None => tables'[s] # None
    BY <1>1, <1>4 DEF Appears
  <2>3. QED
    BY <1>1, <1>4, <2>1, <2>2, SetupFrame
<1>5. ASSUME NEW r \in Requests, CreateTable(r)
      PROVE  SetupInv'
  <2>1. /\ Appears(Head(req[r].todo), req[r].folder, r) /\ start.pc = "up"
        /\ UNCHANGED <<folders, start, raced>>
    BY <1>1, <1>5 DEF CreateTable
  <2>2. req[r].folder \in Folders
    BY <1>5 DEF CreateTable, Inv, ReqInv
  <2>3. QED
    BY <1>4, <2>1, <2>2, FoldersAssumption
<1>6. ASSUME NEW t \in Tables, OtherTable(t)
      PROVE  SetupInv'
  <2>1. Appears(t, "other", None) /\ start.pc = "up" /\ UNCHANGED <<folders, start, raced>>
    BY <1>6 DEF OtherTable
  <2>2. QED
    BY <1>4, <2>1, FoldersAssumption
<1>7. ASSUME NEW r \in Requests, Commit(r) \/ Fail(r)
      PROVE  SetupInv'
  <2>1. req' = [req EXCEPT ![r] = Idle] /\ UNCHANGED <<tables, start, raced>> /\ start.pc = "up"
    BY <1>1, <1>7 DEF Commit, Fail
  <2>2. QED
    BY <1>1, <2>1, IdleType, SetupFrame
<1>8. ASSUME NEW f \in Folders, EditByHand(f)
      PROVE  SetupInv'
  BY <1>1, <1>8, SetupFrame DEF EditByHand
<1>9. ASSUME NEW f \in Folders, Visit(f)
      PROVE  SetupInv'
  <2>1. UNCHANGED <<tables, folders, req, raced>>
    BY <1>9 DEF Visit
  <2>2. QED
    BY <1>1, <1>9, <2>1, VisitForward, SetupFrame
<1>10. CASE Boot
  <2>1. start'.new = folders /\ UNCHANGED <<tables, folders, req, raced>>
    BY <1>10 DEF Boot, Down
  <2>2. QED
    BY <1>1, <2>1, SetupFrame DEF Forward
<1>11. CASE CommitUpgrade \/ LoseUpgrade \/ Stop
  <2>1. start'.pc # "walk"
    <3>1. CASE CommitUpgrade
      BY <3>1 DEF CommitUpgrade, Inv, TypeOK, Start
    <3>2. CASE LoseUpgrade \/ Stop
      BY <3>2 DEF LoseUpgrade, Stop, Down
    <3>3. QED
      BY <1>11, <3>1, <3>2
  <2>2. /\ UNCHANGED <<tables, raced>>
        /\ req' = req \/ req' = [r \in Requests |-> Idle]
    BY <1>11 DEF CommitUpgrade, LoseUpgrade, Stop
  <2>3. QED
    BY <1>1, <2>1, <2>2, IdleType, SetupFrame
<1>12. CASE UNCHANGED vars
  BY <1>12 DEF vars, SetupInv
<1>13. QED
  BY <1>2, <1>3, <1>5, <1>6, <1>7, <1>8, <1>9, <1>10, <1>11, <1>12 DEF Next

LEMMA SetupInvAlways == Spec => [](Inv /\ SetupInv)
<1>1. Init => SetupInv
  BY IdleType DEF Init, SetupInv, Down
<1>2. QED
  BY <1>1, SetupInvNext, Invariance, PTL DEF Spec

\* The variables of the ledger.
Phases == [f \in Folders |-> PhaseOf(folders[f])]
Records == [f \in Folders |-> IF Recorded(folders[f]) THEN folders[f].manifest.naming ELSE None]
InvitationRecords == [f \in Folders |-> RecordedInvitations(folders[f])]

LEMMA LedgerRange == ASSUME NEW names PROVE Ledger!Range(names) = Range(names)
BY DEF Ledger!Range, Range

LEMMA SetupInit == Init => Ledger!Init
<1> SUFFICES ASSUME Init, Inv
             PROVE  Ledger!Init
  BY InitInv
<1>1. ASSUME NEW f \in Folders
      PROVE  /\ PhaseOf(folders[f]) \in {"absent", "retired", "old"}
             /\ PhaseOf(folders[f]) = "absent" <=> ~ Recorded(folders[f])
             /\ Recorded(folders[f]) => folders[f].manifest.naming # None
             /\ RecordedInvitations(folders[f]) = None
  <2>1. CASE folders[f] = Fresh
    BY <2>1, FreshWhole DEF PhaseOf, RecordedInvitations
  <2>2. CASE \E kind \in Legacies, naming \in Namings : folders[f] = Legacy(kind, naming)
    BY <2>2, FoldersAssumption DEF PhaseOf, Legacy, RecordedInvitations
  <2>3. QED
    BY <2>1, <2>2 DEF Init
<1>2. ASSUME NEW f \in Folders, NEW t \in RecordedTables(folders[f])
      PROVE  tables[t] = f
  BY DEF Inv, TablesOwn, Init
<1>3. InvitationRecords = [f \in Folders |-> None]
  BY <1>1 DEF InvitationRecords
<1>4. ASSUME NEW f \in Folders
      PROVE  /\ Phases[f] \in {"absent", "retired", "old"}
             /\ Phases[f] = "absent" <=> Records[f] = None
             /\ Records[f] # None => \A t \in Ledger!Range(Records[f]) : tables[t] = f
  <2>1. Phases[f] = PhaseOf(folders[f])
    BY DEF Phases
  <2>2. Records[f] = IF Recorded(folders[f]) THEN folders[f].manifest.naming ELSE None
    BY DEF Records
  <2>3. Records[f] # None => \A t \in Range(Records[f]) : tables[t] = f
    BY <1>2, <2>2 DEF RecordedTables
  <2>4. Records[f] # None => \A t \in Ledger!Range(Records[f]) : tables[t] = f
    BY <2>3, LedgerRange
  <2>5. QED
    BY <1>1, <2>1, <2>2, <2>4
<1>5. QED
  BY <1>3, <1>4 DEF Ledger!Init, Phases, Records, InvitationRecords

\* A step that leaves the tables and what is recorded of the folders.
LEMMA SetupStutter ==
    ASSUME UNCHANGED <<tables, folders>>
    PROVE  UNCHANGED Ledger!setup
BY DEF Ledger!setup

LEMMA SetupCreate ==
    ASSUME Inv, NEW t \in Tables, tables[t] = None,
           NEW owner \in Folders \cup {"other"}, tables' = [tables EXCEPT ![t] = owner],
           folders' = folders
    PROVE  Ledger!Create(t)
BY DEF Ledger!Create

LEMMA SetupEdit ==
    ASSUME Inv, NEW f \in Folders, EditByHand(f)
    PROVE  UNCHANGED Ledger!setup
<1>1. folders \in [Folders -> Folder] /\ tables' = tables
  BY DEF Inv, TypeOK, EditByHand
<1>2. \A g \in Folders : /\ folders'[g].manifest = folders[g].manifest
                         /\ folders'[g].login = folders[g].login
  BY <1>1 DEF EditByHand, Folder
<1>3. Phases' = Phases /\ Records' = Records /\ InvitationRecords' = InvitationRecords
  BY <1>2 DEF Phases, Records, InvitationRecords, PhaseOf, Recorded, RecordedInvitations
<1>4. QED
  BY <1>1, <1>3 DEF Ledger!setup, Phases, Records, InvitationRecords

LEMMA SetupUpgrade ==
    ASSUME Inv, SetupInv, CommitUpgrade
    PROVE  Ledger!Upgrade
<1>1. /\ start.pc = "walk" /\ folders' = start.new /\ tables' = tables
      /\ \A f \in Folders : /\ Kept(folders[f], folders'[f])
                            /\ Forward(folders[f], folders'[f])
  BY DEF CommitUpgrade, Inv, StartInv, SetupInv
<1>2. Records' = Records /\ InvitationRecords' = InvitationRecords
  BY <1>1 DEF Records, InvitationRecords, RecordedInvitations, Kept
<1> DEFINE moved == {f \in Folders : Phases'[f] # Phases[f]}
           to == [f \in moved |-> Phases'[f]]
<1>3. \A f \in moved : Phases[f] \in {"old", "blocked"} /\ Phases'[f] \in {"blocked", "new"}
  BY <1>1 DEF Forward, Phases
<1>4. moved \in SUBSET {f \in Folders : Phases[f] \in {"old", "blocked"}}
  BY <1>3
<1>5. to \in [moved -> {"blocked", "new"}]
  BY <1>3
<1>6. Phases' = [f \in Folders |-> IF f \in moved THEN to[f] ELSE Phases[f]]
  BY DEF Phases
<1> HIDE DEF moved, to
<1>7. QED
  BY <1>1, <1>2, <1>4, <1>5, <1>6 DEF Ledger!Upgrade, Phases, Records, InvitationRecords

\* What a commit does to the ledger, besides what CommitFacts says.
LEMMA CommitPhase ==
    ASSUME Inv, SetupInv, NEW r \in Requests, Commit(r), NEW f, f = req[r].folder
    PROVE  /\ f \in Folders /\ PhaseOf(folders[f]) # "retired"
           /\ req[r].kind = "install" =>
                /\ PhaseOf(folders'[f]) = "new"
                /\ Recorded(folders'[f]) /\ folders'[f].manifest.naming \in Namings
                /\ RecordedInvitations(folders'[f]) = RecordedInvitations(folders[f])
           /\ req[r].kind = "enable" =>
                /\ PhaseOf(folders'[f]) = PhaseOf(folders[f])
                /\ Recorded(folders[f]) /\ Recorded(folders'[f])
                /\ folders'[f].manifest.naming = folders[f].manifest.naming
                /\ RecordedInvitations(folders'[f]) \in InvNamings
                /\ RecordedInvitations(folders[f]) # None =>
                     RecordedInvitations(folders'[f]) = RecordedInvitations(folders[f])
<1> DEFINE q == req[r]
           now == folders[f]
           new == Merged(q.kind, q.view, q.naming, now)
<1>1. /\ q.pc = "ddl" /\ NoConflict(q.kind, q.view, now) /\ q \in Request
      /\ ReqInv(q, tables, raced) /\ folders \in [Folders -> Folder]
      /\ folders' = [folders EXCEPT ![f] = new]
      /\ Recorded(q.view) => q.view.manifest.mode = "managed"
  BY DEF Commit, Inv, TypeOK, SetupInv
<1>2. f \in Folders /\ q.view \in Folder /\ now \in Folder /\ folders'[f] = new
  BY <1>1 DEF ReqInv, Request
<1>3. now.manifest = q.view.manifest
  BY <1>1 DEF NoConflict
<1>4. PhaseOf(now) # "retired"
  BY <1>1, <1>3 DEF PhaseOf, Recorded
<1> HIDE DEF q, now, new
<1>5. CASE q.kind = "install"
  <2>1. q.naming \in Namings /\ new = Merged("install", q.view, q.naming, now)
    BY <1>1, <1>5 DEF ReqInv, InstallInv, new
  <2>2. /\ Recorded(new) /\ new.manifest.mode = "managed" /\ new.manifest.revision = 2
        /\ new.manifest.naming = q.naming
        /\ new.manifest.invitations = RecordedInvitations(q.view)
    <3>1. AfterInstall(q.view, q.naming, now, new)
      BY <1>2, <2>1, MergedInstall
    <3>2. QED
      BY <3>1 DEF AfterInstall
  <2>3. PhaseOf(new) = "new" /\ RecordedInvitations(new) = RecordedInvitations(now)
    BY <1>3, <2>2 DEF PhaseOf, RecordedInvitations, Recorded
  <2>4. QED
    BY <1>2, <1>4, <1>5, <2>1, <2>2, <2>3 DEF q, now
<1>6. CASE q.kind = "enable"
  <2>1. /\ q.naming \in InvNamings /\ Recorded(q.view)
        /\ RecordedInvitations(q.view) \in {None, q.naming}
        /\ new = Merged("enable", q.view, q.naming, now)
    BY <1>1, <1>6 DEF ReqInv, EnableInv, new
  <2>2. /\ Recorded(new) /\ new.login = now.login
        /\ new.manifest.mode = now.manifest.mode
        /\ new.manifest.revision = now.manifest.revision
        /\ new.manifest.naming = now.manifest.naming
        /\ new.manifest.invitations = q.naming
    <3>1. AfterEnable(q.view, q.naming, now, new)
      BY <1>2, <2>1, MergedEnable
    <3>2. QED
      BY <1>3, <3>1 DEF AfterEnable
  <2>3. Recorded(now) /\ RecordedInvitations(now) \in {None, q.naming}
    BY <1>3, <2>1 DEF Recorded, RecordedInvitations
  <2>4. PhaseOf(new) = PhaseOf(now) /\ RecordedInvitations(new) = q.naming
    BY <2>2, <2>3 DEF PhaseOf, RecordedInvitations
  <2>5. QED
    BY <1>2, <1>4, <1>6, <2>1, <2>2, <2>3, <2>4 DEF q, now
<1>7. QED
  BY <1>1, <1>5, <1>6 DEF Request, q

LEMMA SetupCommit ==
    ASSUME Inv, SetupInv, NEW r \in Requests, Commit(r), NEW f \in Folders, f = req[r].folder
    PROVE  Ledger!SetUp(f) \/ Ledger!Enable(f) \/ UNCHANGED Ledger!setup
<1> DEFINE new == folders'[f]
<1>1. /\ folders' = [folders EXCEPT ![f] = new] /\ new \in Folder
      /\ \A t \in RecordedTables(new) : tables[t] = f \/ <<f, t>> \in raced
      /\ \A t \in InvitationTables(new) : tables[t] = f
      /\ Preserved(folders[f], new)
  BY CommitFacts
<1>2. /\ tables' = tables /\ folders \in [Folders -> Folder]
      /\ req[r].kind \in {"install", "enable"}
      /\ None \notin Folders /\ None \notin Namings /\ None \notin InvNamings
  BY FoldersAssumption DEF Commit, Inv, TypeOK, Request
<1>3. \A g \in Folders \ {f} : folders'[g] = folders[g]
  BY <1>1, <1>2
<1>4. /\ Phases[f] = PhaseOf(folders[f])
      /\ Phases' = [Phases EXCEPT ![f] = PhaseOf(new)]
      /\ Records' = [Records EXCEPT ![f] = IF Recorded(new) THEN new.manifest.naming ELSE None]
      /\ InvitationRecords' = [InvitationRecords EXCEPT ![f] = RecordedInvitations(new)]
  BY <1>2, <1>3 DEF Phases, Records, InvitationRecords
<1>5. PhaseOf(folders[f]) # "retired"
  BY CommitPhase
<1>6. CASE req[r].kind = "install"
  <2>1. /\ PhaseOf(new) = "new" /\ Recorded(new) /\ new.manifest.naming \in Namings
        /\ RecordedInvitations(new) = RecordedInvitations(folders[f])
    BY <1>6, CommitPhase
  <2>2. InvitationRecords' = InvitationRecords
    BY <1>4, <2>1 DEF InvitationRecords
  <2>3. Phases' = [Phases EXCEPT ![f] = "new"] /\ Phases[f] # "retired"
    BY <1>4, <1>5, <2>1
  <2>4. CASE Recorded(folders[f])
    <3>1. new.manifest.naming = folders[f].manifest.naming
      BY <1>1, <2>4 DEF Preserved
    <3>2. Records' = Records
      BY <1>4, <2>1, <2>4, <3>1 DEF Records
    <3>3. folders[f].manifest.naming \in Namings
      BY <2>1, <3>1
    <3>4. Records[f] # None
      BY <1>2, <2>4, <3>3 DEF Records
    <3>5. QED
      BY <1>2, <2>2, <2>3, <3>2, <3>4 DEF Ledger!SetUp, Phases, Records, InvitationRecords
  <2>5. CASE ~ Recorded(folders[f])
    <3>1. Records[f] = None
      BY <2>5 DEF Records
    <3>2. Records' = [Records EXCEPT ![f] = new.manifest.naming]
      BY <1>4, <2>1
    <3>3. \A t \in RecordedTables(new) : tables[t] # None
      <4> SUFFICES ASSUME NEW t \in RecordedTables(new) PROVE tables[t] # None
        OBVIOUS
      <4>1. CASE tables[t] = f
        BY <1>2, <4>1
      <4>2. CASE <<f, t>> \in raced
        <5>1. PICK p \in raced : p = <<f, t>>
          BY <4>2
        <5>2. tables[p[2]] # None
          BY DEF SetupInv
        <5>3. QED
          BY <5>1, <5>2
      <4>3. QED
        BY <1>1, <4>1, <4>2
    <3>4. PICK naming \in Namings : naming = new.manifest.naming
      BY <2>1
    <3>5. \A t \in Ledger!Range(naming) : tables[t] # None
      BY <2>1, <3>3, <3>4, LedgerRange DEF RecordedTables
    <3>6. QED
      BY <1>2, <2>2, <2>3, <3>1, <3>2, <3>4, <3>5
      DEF Ledger!SetUp, Phases, Records, InvitationRecords
  <2>6. QED
    BY <2>4, <2>5
<1>7. CASE req[r].kind = "enable"
  <2>1. /\ PhaseOf(new) = PhaseOf(folders[f])
        /\ Recorded(folders[f]) /\ Recorded(new)
        /\ new.manifest.naming = folders[f].manifest.naming
        /\ RecordedInvitations(new) \in InvNamings
        /\ RecordedInvitations(folders[f]) # None =>
             RecordedInvitations(new) = RecordedInvitations(folders[f])
    BY <1>7, CommitPhase
  <2>2. Phases' = Phases /\ Records' = Records
    BY <1>4, <2>1 DEF Phases, Records
  <2>3. Phases[f] \notin {"absent", "retired"}
    BY <1>4, <1>5, <2>1 DEF PhaseOf
  <2>4. CASE RecordedInvitations(folders[f]) # None
    <3>1. InvitationRecords' = InvitationRecords
      BY <1>4, <2>1, <2>4 DEF InvitationRecords
    <3>2. QED
      BY <1>2, <2>2, <3>1 DEF Ledger!setup, Phases, Records, InvitationRecords
  <2>5. CASE RecordedInvitations(folders[f]) = None
    <3>1. InvitationRecords[f] = None
      BY <2>5 DEF InvitationRecords
    <3>2. PICK naming \in InvNamings : naming = RecordedInvitations(new)
      BY <2>1
    <3>3. \A t \in Ledger!Range(naming) : tables[t] = f
      BY <1>1, <1>2, <3>2, LedgerRange DEF InvitationTables
    <3>4. InvitationRecords' = [InvitationRecords EXCEPT ![f] = naming]
      BY <1>4, <3>2
    <3>5. QED
      BY <1>2, <2>2, <2>3, <3>1, <3>3, <3>4
      DEF Ledger!Enable, Phases, Records, InvitationRecords
  <2>6. QED
    BY <2>4, <2>5
<1>8. QED
  BY <1>2, <1>6, <1>7

LEMMA SetupNext == Inv /\ SetupInv /\ [Next]_vars => [Ledger!Next]_(Ledger!setup)
<1> SUFFICES ASSUME Inv, SetupInv, [Next]_vars
             PROVE  Ledger!Next \/ UNCHANGED Ledger!setup
  OBVIOUS
<1>1. CASE UNCHANGED <<tables, folders>>
  BY <1>1, SetupStutter
<1>2. ASSUME NEW r \in Requests, CreateTable(r)
      PROVE  Ledger!Next
  <2>1. /\ req[r] \in Request /\ req[r].pc = "ddl" /\ req[r].todo # <<>>
        /\ tables[Head(req[r].todo)] = None /\ folders' = folders
        /\ tables' = [tables EXCEPT ![Head(req[r].todo)] = req[r].folder]
        /\ ReqInv(req[r], tables, raced)
    BY <1>2 DEF CreateTable, Appears, Inv, TypeOK
  <2>2. Head(req[r].todo) \in Tables /\ req[r].folder \in Folders
    BY <2>1, HeadTail DEF Request, ReqInv
  <2>3. PICK t \in Tables, owner \in Folders : t = Head(req[r].todo) /\ owner = req[r].folder
    BY <2>2
  <2>4. Ledger!Create(t)
    BY <2>1, <2>3, SetupCreate
  <2>5. QED
    BY <2>4 DEF Ledger!Next
<1>3. ASSUME NEW t \in Tables, OtherTable(t)
      PROVE  Ledger!Next
  <2>1. tables[t] = None /\ tables' = [tables EXCEPT ![t] = "other"] /\ folders' = folders
    BY <1>3 DEF OtherTable, Appears
  <2>2. Ledger!Create(t)
    BY <2>1, SetupCreate
  <2>3. QED
    BY <2>2 DEF Ledger!Next
<1>4. ASSUME NEW r \in Requests, Commit(r)
      PROVE  Ledger!Next \/ UNCHANGED Ledger!setup
  <2>1. PICK f \in Folders : f = req[r].folder
    BY <1>4, CommitFacts
  <2>2. Ledger!SetUp(f) \/ Ledger!Enable(f) \/ UNCHANGED Ledger!setup
    BY <1>4, <2>1, SetupCommit
  <2>3. QED
    BY <2>2 DEF Ledger!Next
<1>5. ASSUME NEW f \in Folders, EditByHand(f)
      PROVE  UNCHANGED Ledger!setup
  BY <1>5, SetupEdit
<1>6. CASE CommitUpgrade
  BY <1>6, SetupUpgrade DEF Ledger!Next
<1>7. ASSUME NEW r \in Requests, BeginInstall(r) \/ BeginEnable(r) \/ FindsTable(r) \/ Fail(r)
      PROVE  UNCHANGED <<tables, folders>>
  BY <1>7, Zenon DEF BeginInstall, BeginEnable, Begin, FindsTable, Fail
<1>8. ASSUME NEW f \in Folders, Visit(f)
      PROVE  UNCHANGED <<tables, folders>>
  BY <1>8 DEF Visit
<1>9. CASE Boot \/ LoseUpgrade \/ Stop \/ UNCHANGED vars
  BY <1>1, <1>9 DEF Boot, LoseUpgrade, Stop, vars
<1>10. QED
  BY <1>1, <1>2, <1>3, <1>4, <1>5, <1>6, <1>7, <1>8, <1>9 DEF Next

\* Installation, repair and upgrade implement the ledger of setups, for any
\* folders, tables and requests, and wherever they fail or Zope stops
\* (installer.py install; upgrade.py upgrade_tree).
THEOREM ImplementsSetups == Spec => SetupSpec
<1>1. Inv /\ SetupInv /\ [Next]_vars => [Ledger!Next]_(Ledger!setup)
  BY SetupNext
<1>2. QED
  BY <1>1, SetupInit, SetupInvAlways, PTL DEF Spec, SetupSpec, Ledger!Spec

\* A folder whose SQL login an upgrade has switched off gets it back only with
\* the new runtime, whatever is lost, retried or repaired afterwards (upgrade.py
\* upgrade_tree; installer.py install).
THEOREM NeverSwitchedBack ==
    Spec => [][\A f \in Folders : PhaseOf(folders[f]) = "blocked" =>
                   PhaseOf(folders'[f]) \in {"blocked", "new"}]_folders
<1> DEFINE Stays == \A f \in Folders : PhaseOf(folders[f]) = "blocked" =>
                        PhaseOf(folders'[f]) \in {"blocked", "new"}
<1>1. ASSUME [Ledger!Next]_(Ledger!setup)
      PROVE  Stays
  <2> SUFFICES ASSUME NEW f \in Folders, Phases[f] = "blocked"
               PROVE  Phases'[f] \in {"blocked", "new"}
    BY DEF Phases
  <2>1. ASSUME NEW t \in Tables, Ledger!Create(t)
        PROVE  Phases' = Phases
    BY <2>1 DEF Ledger!Create, Phases
  <2>2. ASSUME NEW g \in Folders, Ledger!SetUp(g)
        PROVE  Phases' = [Phases EXCEPT ![g] = "new"]
    BY <2>2 DEF Ledger!SetUp, Phases
  <2>3. ASSUME NEW g \in Folders, Ledger!Enable(g)
        PROVE  Phases' = Phases
    BY <2>3 DEF Ledger!Enable, Phases
  <2>4. ASSUME Ledger!Upgrade
        PROVE  Phases'[f] \in {"blocked", "new"}
    <3>1. PICK moved \in SUBSET {g \in Folders : Phases[g] \in {"old", "blocked"}} :
             \E to \in [moved -> {"blocked", "new"}] :
                Phases' = [g \in Folders |-> IF g \in moved THEN to[g] ELSE Phases[g]]
      BY <2>4 DEF Ledger!Upgrade, Phases
    <3>2. QED
      BY <3>1
  <2>5. ASSUME UNCHANGED Ledger!setup
        PROVE  Phases' = Phases
    BY <2>5 DEF Ledger!setup, Phases
  <2>6. QED
    BY <1>1, <2>1, <2>2, <2>3, <2>4, <2>5 DEF Ledger!Next, Phases
<1>2. [Ledger!Next]_(Ledger!setup) => [Stays]_folders
  BY <1>1
<1>3. QED
  BY <1>2, ImplementsSetups, PTL DEF SetupSpec, Ledger!Spec
=============================================================================
