----------------------------- MODULE Installation -----------------------------
(***************************************************************************)
(* Installing, repairing and extending SQL-backed folders (installer.py,   *)
(* schema.py, invitation_install.py) and the upgrade of the folders of an  *)
(* older release when Zope starts (upgrade.py).  The installed objects are *)
(* in ZODB and committed with their request; a table is created, for good, *)
(* by the statement that creates it.                                       *)
(***************************************************************************)
EXTENDS Naturals, Sequences, FiniteSets, Functions

CONSTANTS
    Folders,
    Parent,     \* the folder a folder is in, or None
    Selected,   \* folders that SQLUSERWIZARD_UPGRADE_PATHS does not exclude
    Tables,     \* table names
    Namings,    \* choices of names for the tables of users, profiles, roles...
    InvNamings, \* choices of names for the tables of invitations
    Legacies,   \* what folders of older releases may hold: <<mode, sql, form>>
    Requests,   \* managers' requests
    MaxStops,   \* bound: how often Zope is stopped in one behaviour
    MaxWork,    \* bound: requests begun and changes made by others
    None        \* no manifest, no folder, no tables, no owner

\* Setups on an existing database are retired; the earliest manifests name no mode.
Modes == {"managed", "retired", "unnamed"}

ASSUME FoldersAssumption ==
    /\ Parent \in [Folders -> Folders \cup {None}]
    /\ Selected \subseteq Folders
    /\ Namings \subseteq Seq(Tables) /\ InvNamings \subseteq Seq(Tables)
    /\ Legacies \subseteq Modes \X {"stock", "altered", "lacking"}
                          \X {"old", "edited", "plain", "opaque"}
    /\ MaxStops \in Nat /\ MaxWork \in Nat
    /\ None \notin Folders \cup Requests \cup Namings \cup InvNamings \cup {"other"}

VARIABLES
    tables,  \* who created each table: a folder's request, another application, or nobody
    folders, \* the installed objects of each folder, as committed
    req,     \* local state of each request
    start,   \* Zope and its startup handler
    stops, work, \* bounds: stops of Zope, requests and changes so far
    raced    \* history: tables that appeared between a folder's check and its CREATE

vars == <<tables, folders, req, start, stops, work, raced>>

Maybe(S) == S \cup {None}

-----------------------------------------------------------------------------
(* What a folder holds.                                                    *)

Manifest == [mode: Modes, revision: {1, 2}, naming: Namings,
             invitations: Maybe(InvNamings)]

\* Z SQL Methods: none, as generated, older or edited, or without one of those
\* that the upgrade requires.
SqlStates == {"none", "stock", "altered", "lacking"}

\* The login page: generated (by this release or an older one, without a
\* token) and perhaps edited, for as long as the marker of the generated text is
\* still in it; or customised: without a marker, with its token, with a form that
\* can be patched, or with none that can be recognised.
Customized == {"guarded", "plain", "opaque"}
Forms == {"none", "old", "generated", "edited"} \cup Customized

Folder == [manifest: Maybe(Manifest), sql: SqlStates, invsql: SqlStates, form: Forms,
           helper: BOOLEAN, \* the cookie helper is the session helper
           login: BOOLEAN,  \* the SQL plugin is active for authentication
           error: BOOLEAN]  \* _sqluw_upgrade_error

Fresh == [manifest |-> None, sql |-> "none", invsql |-> "none", form |-> "none",
          helper |-> FALSE, login |-> FALSE, error |-> FALSE]

Legacy(kind, naming) ==
    [manifest |-> [mode |-> kind[1], revision |-> 1, naming |-> naming, invitations |-> None],
     sql |-> kind[2], invsql |-> "none", form |-> kind[3],
     helper |-> FALSE, login |-> TRUE, error |-> FALSE]

Recorded(folder) == folder.manifest # None

RecordedTables(folder) == IF Recorded(folder) THEN Range(folder.manifest.naming) ELSE {}

RecordedInvitations(folder) == IF Recorded(folder) THEN folder.manifest.invitations ELSE None

InvitationTables(folder) ==
    IF RecordedInvitations(folder) = None THEN {} ELSE Range(RecordedInvitations(folder))

-----------------------------------------------------------------------------
Request == [pc: {"idle", "ddl"}, kind: {"install", "enable"}, folder: Maybe(Folders),
            view: Folder, naming: Maybe(Namings \cup InvNamings), todo: Seq(Tables),
            appeared: SUBSET Tables] \* history: tables created since its check

Idle == [pc |-> "idle", kind |-> "install", folder |-> None, view |-> Fresh, naming |-> None,
         todo |-> <<>>, appeared |-> {}]

Start == [pc: {"down", "walk", "up"}, todo: SUBSET Folders, seen: SUBSET Folders,
          closed: SUBSET Folders, \* folders whose contents could not be listed
          new: [Folders -> Folder], committed: BOOLEAN]

\* None is told apart from the manifests it stands in for.
ASSUME NoneAssumption == None \notin Manifest

TypeOK ==
    /\ tables \in [Tables -> Folders \cup {"other", None}]
    /\ folders \in [Folders -> Folder]
    /\ req \in [Requests -> Request]
    /\ start \in Start
    /\ stops \in 0..MaxStops /\ work \in 0..MaxWork
    /\ raced \subseteq Folders \X Tables

Unread == [f \in Folders |-> Fresh]

Down == [pc |-> "down", todo |-> {}, seen |-> {}, closed |-> {}, new |-> Unread,
         committed |-> FALSE]

Init ==
    /\ folders \in [Folders -> {Fresh} \cup {Legacy(kind, naming) :
                                kind \in Legacies, naming \in Namings}]
    /\ \A f, g \in Folders : f # g => RecordedTables(folders[f]) \cap RecordedTables(folders[g]) = {}
    /\ tables = [t \in Tables |-> IF \E f \in Folders : t \in RecordedTables(folders[f])
                                  THEN CHOOSE f \in Folders : t \in RecordedTables(folders[f])
                                  ELSE None]
    /\ req = [r \in Requests |-> Idle]
    /\ start = Down
    /\ stops = 0 /\ work = 0
    /\ raced = {}

-----------------------------------------------------------------------------
(* Install, repair and enabling invitations.                               *)

Existing == {t \in Tables : tables[t] # None}

\* Mutant: names of existing tables are accepted for a new installation.
CheckWithoutCatalog(view, naming) ==
    Recorded(view) =>
        /\ view.manifest.mode = "managed"
        /\ view.manifest.naming = naming
        /\ view.sql \in {"stock", "lacking"}

\* Repair keeps the recorded tables and refuses SQL it did not generate; a new
\* installation wants unused names.
CheckInstallation(view, naming) ==
    IF Recorded(view)
    THEN /\ view.manifest.mode = "managed"
         /\ view.manifest.naming = naming
         /\ view.sql \in {"stock", "lacking"}
    ELSE Range(naming) \cap Existing = {}

CheckInvitations(view, naming) ==
    /\ Recorded(view)
    /\ CheckInstallation(view, view.manifest.naming)
    /\ Range(naming) \cap RecordedTables(view) = {}
    /\ IF RecordedInvitations(view) # None
       THEN naming = RecordedInvitations(view) /\ view.invsql # "altered"
       ELSE Range(naming) \cap Existing = {} /\ view.invsql = "none"

\* A page with a marker is generated anew, edited or not; one without is kept.
LoginTemplate(form) == IF form \in Customized THEN form ELSE "generated"

\* Mutant: the manifest is written from scratch.
ManifestFromScratch(view, naming) ==
    [mode |-> "managed", revision |-> 2, naming |-> naming, invitations |-> None]

\* Mutant: a repair leaves the revision to the next upgrade.
ManifestKeepsRevision(view, naming) ==
    [mode |-> "managed", revision |-> IF Recorded(view) THEN view.manifest.revision ELSE 2,
     naming |-> naming, invitations |-> RecordedInvitations(view)]

NewManifest(view, naming) ==
    [mode |-> "managed", revision |-> 2, naming |-> naming,
     invitations |-> RecordedInvitations(view)]

\* What installation makes of a folder.
Installed(view, naming) ==
    [view EXCEPT !.manifest = NewManifest(view, naming), !.form = LoginTemplate(@),
                 !.sql = "stock", !.helper = TRUE, !.login = TRUE, !.error = FALSE]

Begin(r, kind, f, naming, todo) ==
    /\ start.pc = "up" /\ work < MaxWork
    /\ req[r].pc = "idle"
    /\ req' = [req EXCEPT ![r] = [pc |-> "ddl", kind |-> kind, folder |-> f, view |-> folders[f],
                                  naming |-> naming, todo |-> todo, appeared |-> {}]]
    /\ work' = work + 1
    /\ UNCHANGED <<tables, folders, start, stops, raced>>

BeginInstall(r) ==
    \E f \in Folders, naming \in Namings :
        /\ CheckInstallation(folders[f], naming)
        /\ Begin(r, "install", f, naming, naming)

\* Recorded tables are not created again.
BeginEnable(r) ==
    \E f \in Folders, naming \in InvNamings :
        /\ CheckInvitations(folders[f], naming)
        /\ Begin(r, "enable", f, naming,
                 IF RecordedInvitations(folders[f]) = None THEN naming ELSE <<>>)

\* Table t appears, to the surprise of the requests other than r.
Appears(t, owner, r) ==
    /\ tables' = [tables EXCEPT ![t] = owner]
    /\ req' = [x \in Requests |->
                 IF x = r THEN [req[x] EXCEPT !.todo = Tail(@)]
                 ELSE IF req[x].pc = "ddl" THEN [req[x] EXCEPT !.appeared = @ \cup {t}]
                 ELSE req[x]]

CreateTable(r) ==
    /\ req[r].pc = "ddl" /\ req[r].todo # <<>>
    /\ tables[Head(req[r].todo)] = None
    /\ Appears(Head(req[r].todo), req[r].folder, r)
    /\ UNCHANGED <<folders, start, stops, work, raced>>

\* Mutant: the tables of invitations are created "if not exists", too.
FindsTableEverywhere(r) ==
    LET t == Head(req[r].todo)
    IN  /\ req[r].pc = "ddl" /\ req[r].todo # <<>>
        /\ tables[t] # None
        /\ req' = [req EXCEPT ![r].todo = Tail(@)]
        /\ raced' = IF t \in req[r].appeared THEN raced \cup {<<req[r].folder, t>>} ELSE raced
        /\ UNCHANGED <<tables, folders, start, stops, work>>

\* "create table if not exists" takes what it finds.  The tables of invitations
\* are created without it, and an existing one fails the request.
FindsTable(r) ==
    LET t == Head(req[r].todo)
    IN  /\ req[r].pc = "ddl" /\ req[r].todo # <<>>
        /\ req[r].kind = "install" /\ tables[t] # None
        /\ req' = [req EXCEPT ![r].todo = Tail(@)]
        /\ raced' = IF t \in req[r].appeared THEN raced \cup {<<req[r].folder, t>>} ELSE raced
        /\ UNCHANGED <<tables, folders, start, stops, work>>

\* Mutant: objects somebody else has written since are overwritten.
NoConflictEver(kind, view, now) == TRUE

\* The objects a request writes are as it has seen them.
NoConflict(kind, view, now) ==
    /\ now.manifest = view.manifest
    /\ IF kind = "enable" THEN now.invsql = view.invsql
       ELSE /\ now.sql = view.sql /\ now.helper = view.helper
            /\ now.login = view.login /\ now.error = view.error
            /\ view.form \in Customized \/ now.form = view.form

\* Mutant: the tables of invitations are recorded as those of users.
MergedWrongKey(kind, view, naming, now) ==
    IF kind = "enable"
    THEN [now EXCEPT !.manifest = [view.manifest EXCEPT !.naming = naming], !.invsql = "stock"]
    ELSE [Installed(view, naming) EXCEPT !.invsql = now.invsql,
              !.form = IF view.form \in Customized THEN now.form ELSE @]

\* The objects a request has not written stay as they are.
Merged(kind, view, naming, now) ==
    IF kind = "enable"
    THEN [now EXCEPT !.manifest = [view.manifest EXCEPT !.invitations = naming], !.invsql = "stock"]
    ELSE [Installed(view, naming) EXCEPT !.invsql = now.invsql,
              !.form = IF view.form \in Customized THEN now.form ELSE @]

Commit(r) ==
    /\ req[r].pc = "ddl" /\ req[r].todo = <<>>
    /\ NoConflict(req[r].kind, req[r].view, folders[req[r].folder])
    /\ folders' = [folders EXCEPT ![req[r].folder] =
                     Merged(req[r].kind, req[r].view, req[r].naming, @)]
    /\ req' = [req EXCEPT ![r] = Idle]
    /\ UNCHANGED <<tables, start, stops, work, raced>>

\* An error, a conflict or an abort: the tables created so far stay.
Fail(r) ==
    /\ req[r].pc = "ddl"
    /\ req' = [req EXCEPT ![r] = Idle]
    /\ UNCHANGED <<tables, folders, start, stops, work, raced>>

-----------------------------------------------------------------------------
(* Others.                                                                 *)

\* A manager edits SQL or the login page by hand, or reviews and restores them.
\* A marker of the generated page goes with the edit or stays.
EditByHand(f) ==
    /\ start.pc = "up" /\ work < MaxWork
    /\ Recorded(folders[f])
    /\ \/ \E sql \in {"stock", "altered"} :
            folders' = [folders EXCEPT ![f].sql = sql]
       \/ /\ folders[f].invsql # "none"
          /\ folders' = [folders EXCEPT ![f].invsql = "altered"]
       \/ \E form \in Customized \cup {"edited"} :
            folders' = [folders EXCEPT ![f].form = form]
    /\ work' = work + 1
    /\ UNCHANGED <<tables, req, start, stops, raced>>

\* Another application of the database creates a table.
OtherTable(t) ==
    /\ start.pc = "up" /\ work < MaxWork
    /\ tables[t] = None
    /\ Appears(t, "other", None)
    /\ work' = work + 1
    /\ UNCHANGED <<folders, start, stops, raced>>

-----------------------------------------------------------------------------
(* The upgrade when Zope starts.  It has the database to itself.           *)

Outdated(old) ==
    /\ Recorded(old)
    /\ \/ old.manifest.mode = "unnamed"
       \/ old.manifest.mode = "managed" /\ old.manifest.revision < 2

\* The folder after the first n edits of upgrade_folder.
Edited(old, n) ==
    [old EXCEPT
        !.login = n >= 1 \/ old.login,
        !.helper = n >= 2 \/ old.helper,
        !.form = IF n >= 4 /\ old.form = "plain" THEN "guarded"
                 ELSE IF n >= 3 THEN LoginTemplate(old.form) ELSE old.form,
        !.manifest = IF n >= 5 THEN [old.manifest EXCEPT !.revision = 2] ELSE old.manifest,
        !.error = n < 6 /\ old.error]

\* How far upgrade_folder can get.
Extent(old) ==
    IF old.manifest.mode = "unnamed" \/ old.sql \in {"none", "lacking"} THEN 0
    ELSE IF old.form = "opaque" THEN 3
    ELSE 6

\* Mutant: the edits made before the error stay.
NotRolledBack(before, partly) == [partly EXCEPT !.error = TRUE, !.login = FALSE]

\* Mutant: the old authentication is left active.
NotDeactivated(before, partly) == [before EXCEPT !.error = TRUE]

\* After an error the savepoint is rolled back and SQL login switched off.
Blocked(before, partly) == [before EXCEPT !.error = TRUE, !.login = FALSE]

Outcomes(old) ==
    IF Outdated(old)
    THEN {Blocked(old, Edited(old, n)) : n \in 0..Extent(old)}
         \cup (IF Extent(old) = 6 THEN {Edited(old, 6)} ELSE {})
    ELSE {old}

Boot ==
    /\ start.pc = "down"
    /\ start' = [Down EXCEPT !.pc = "walk", !.new = folders, !.todo = {f \in Folders : Parent[f] = None}]
    /\ UNCHANGED <<tables, folders, req, stops, work, raced>>

Children(f) == {g \in Folders : Parent[g] = f}

\* Listing the contents of a folder may fail.
Visit(f) ==
    /\ start.pc = "walk" /\ f \in start.todo
    /\ \E listed \in BOOLEAN,
          new \in (IF f \in Selected THEN Outcomes(start.new[f]) ELSE {start.new[f]}) :
        start' = [start EXCEPT
            !.todo = (@ \ {f}) \cup (IF listed THEN Children(f) \ start.seen ELSE {}),
            !.seen = @ \cup {f},
            !.closed = IF listed THEN @ ELSE @ \cup {f},
            !.new[f] = new]
    /\ UNCHANGED <<tables, folders, req, stops, work, raced>>

CommitUpgrade ==
    /\ start.pc = "walk" /\ start.todo = {}
    /\ folders' = start.new
    /\ start' = [start EXCEPT !.pc = "up", !.committed = TRUE, !.new = Unread]
    /\ UNCHANGED <<tables, req, stops, work, raced>>

\* An error outside a folder's upgrade, or in the commit: Zope serves the
\* folders as they were.
LoseUpgrade ==
    /\ start.pc = "walk"
    /\ start' = [Down EXCEPT !.pc = "up"]
    /\ UNCHANGED <<tables, folders, req, stops, work, raced>>

\* Zope stops or crashes, and the requests with it.
Stop ==
    /\ start.pc # "down" /\ stops < MaxStops
    /\ start' = Down
    /\ req' = [r \in Requests |-> Idle]
    /\ stops' = stops + 1
    /\ UNCHANGED <<tables, folders, work, raced>>

Next ==
    \/ \E r \in Requests : BeginInstall(r) \/ BeginEnable(r) \/ CreateTable(r) \/ FindsTable(r)
                           \/ Commit(r) \/ Fail(r)
    \/ \E f \in Folders : EditByHand(f) \/ Visit(f)
    \/ \E t \in Tables : OtherTable(t)
    \/ Boot \/ CommitUpgrade \/ LoseUpgrade \/ Stop

Spec == Init /\ [][Next]_vars

-----------------------------------------------------------------------------
(* Properties.                                                             *)

\* A folder has the new runtime and its manifest, or neither; a folder marked
\* as needing attention has the old one, switched off.  However an upgrade or a
\* request ends, nothing half-made is committed (upgrade.py upgrade_tree,
\* installer.py install).
RuntimeWhole ==
    \A f \in Folders :
        /\ folders[f].helper <=> Recorded(folders[f]) /\ folders[f].manifest.revision = 2
        /\ folders[f].error => ~folders[f].login /\ ~folders[f].helper

\* The walk could reach f.
Reached(f) ==
    Parent[f] = None \/ (Parent[f] \in start.seen /\ Parent[f] \notin start.closed)

\* Once Zope serves requests after a committed upgrade, no selected folder that
\* the walk could reach authenticates with the old runtime, though any other
\* folder has failed; retired setups are left to their managers (upgrade.py
\* upgrade_tree).
OldLoginOff ==
    start.pc = "up" /\ start.committed =>
        \A f \in Selected : Reached(f) /\ Recorded(folders[f]) /\ folders[f].login =>
            folders[f].manifest.mode = "retired" \/ folders[f].manifest.revision = 2

\* The identity tables of a folder were created for it, but for those that
\* appeared between its check and its CREATE: a table that another folder or
\* another application had made by the time the manager asked is never taken
\* over.  Leftovers of the folder's own failed attempts are refused, too, but as
\* its own they do not show here (schema.py check_installation, installer.py
\* _ensure_database_schema).
TablesOwn ==
    \A f \in Folders : \A t \in RecordedTables(folders[f]) :
        tables[t] = f \/ <<f, t>> \in raced

\* docs/upgrade.md:109: "The wizard does not adopt tables merely because their
\* columns resemble its schema."
NoTakeover ==
    \A f \in Folders : \A t \in RecordedTables(folders[f]) : tables[t] = f

\* The invitation tables of a folder were created for it, without exception,
\* and no two folders share one (invitation_install.py
\* enable_invitation_storage).
InvitationTablesOwn ==
    \A f \in Folders : \A t \in InvitationTables(folders[f]) : tables[t] = f

\* SQL edited by hand, and login pages from which the edit took the marker,
\* survive repair, upgrade and enabling invitations, whenever the edit comes; a
\* patch for the token is all such a page gets.  An edit that leaves the marker
\* is overwritten, but only by the upgrade or a repair that has seen it, never
\* by one that was under way (schema.py _check_repair_sql, installer.py
\* _ensure_managed_dtml_method, upgrade.py _patch_custom_login_form).
CustomKept ==
    [][\A f \in Folders :
        \/ EditByHand(f)
        \/ /\ folders[f].sql = "altered" => folders'[f].sql = "altered"
           /\ folders[f].invsql = "altered" => folders'[f].invsql = "altered"
           /\ folders[f].form \in Customized =>
                \/ folders'[f].form = folders[f].form
                \/ folders[f].form = "plain" /\ folders'[f].form = "guarded"
           /\ folders[f].form = "edited" =>
                \/ folders'[f].form = "edited"
                \/ CommitUpgrade
                \/ \E r \in Requests :
                      Commit(r) /\ req[r].folder = f /\ req[r].view.form = "edited"]_vars

\* The tables a manifest records, for users and for invitations, stay recorded
\* (installer.py _ensure_manifest, schema.py check_installation).
RecordKept ==
    [][\A f \in Folders : Recorded(folders[f]) =>
        /\ Recorded(folders'[f])
        /\ folders'[f].manifest.naming = folders[f].manifest.naming
        /\ RecordedInvitations(folders[f]) # None =>
             RecordedInvitations(folders'[f]) = RecordedInvitations(folders[f])]_vars

\* How far a folder has got: its runtime, and whether SQL login is switched off.
PhaseOf(folder) ==
    IF ~ Recorded(folder) THEN "absent"
    ELSE IF folder.manifest.mode = "retired" THEN "retired"
    ELSE IF folder.manifest.revision = 2 THEN "new"
    ELSE IF folder.login THEN "old" ELSE "blocked"

\* Installation, repair and upgrade implement the ledger of setups: whatever
\* fails, conflicts or stops half-way, a folder that has been switched off never
\* gets its old login back, none moves back to an older runtime, the folders of
\* an upgrade move together, and every recorded table exists (installer.py
\* install; upgrade.py upgrade_tree; invitation_install.py
\* enable_invitation_storage).
Ledger == INSTANCE SetupLedger WITH
    creator <- tables,
    phase <- [f \in Folders |-> PhaseOf(folders[f])],
    record <- [f \in Folders |-> IF Recorded(folders[f]) THEN folders[f].manifest.naming ELSE None],
    invitations <- [f \in Folders |-> RecordedInvitations(folders[f])]

SetupSpec == Ledger!Spec
=============================================================================
