------------------------------- MODULE UserAdmin -------------------------------
(***************************************************************************)
(* Administration of SQL users (admin.py, sqladmin.py) with the fields an  *)
(* application adds to profiles (profile_fields.py), beside the users' own *)
(* profile page, repair (installer.py) and completed invitations.  A row   *)
(* of each of the four tables belongs to a user or a role; a save writes   *)
(* them one statement at a time and keeps what it has done when it fails.  *)
(***************************************************************************)
EXTENDS Naturals, FiniteSets

CONSTANTS
    Users, Logins, Roles,
    StandardRoles,  \* the roles that installation and repair seed
    Fields, Values, \* application-specific profile fields and what they may hold
    OnAnyKey,       \* MySQL: an upsert also fires on the unique user name
    Requests,       \* requests in progress at a time
    MaxWork,        \* bound: requests, role forms, field edits and invitations
    None, Empty     \* no row or no value; the empty string

ASSUME UserAdminAssumption ==
    /\ StandardRoles \subseteq Roles
    /\ OnAnyKey \in BOOLEAN /\ MaxWork \in Nat
    /\ Empty \notin Values /\ None \notin Values \cup {Empty}
    /\ None \notin Users \cup Logins

VARIABLES
    rows,        \* users table: the login of each user
    profiles,    \* profiles table: the JSON column of each profile
    assigned,    \* user_roles table
    catalogue,   \* roles table
    definitions, \* profile_fields of the administration object (ZODB)
    req,         \* local state of each request
    work,        \* bound: what has been begun so far
    tangled,     \* history: users on whom requests have met, see below
    granted,     \* history: the roles asked for since a user's roles were last cleared
    whole        \* history: users whose latest save or deletion ran alone to its end

tables == <<rows, profiles, assigned, catalogue, definitions>>
vars == <<rows, profiles, assigned, catalogue, definitions, req, work, tangled, granted, whole>>

Maybe(S) == S \cup {None}

-----------------------------------------------------------------------------
(* Profile fields (profile_fields.py).                                     *)

\* A valid definition.  A select has choices; the other types take any value.
Definition == [active: BOOLEAN, required: BOOLEAN, choices: (SUBSET Values) \ {{}}]

Configured(view) == {f \in Fields : view[f] # None}

Active(view) == {f \in Configured(view) : view[f].active}

\* The JSON column: a missing key is None, no column or no JSON is Blank.
Data == [Fields -> Values \cup {Empty, None}]
Blank == [f \in Fields |-> None]

\* What a form may send: a form has the fields that were active when it was
\* rendered, and a request without a field reads as an empty one.
Entries(view) == {e \in [Fields -> Values \cup {Empty}] :
                     \A f \in Fields \ Active(view) : e[f] = Empty}

\* collect_values raises unless every active field is filled in as it asks.
Acceptable(view, entered) ==
    \A f \in Active(view) : IF entered[f] = Empty THEN ~view[f].required
                                                   ELSE entered[f] \in view[f].choices

\* Mutant: only the active fields are kept.
CollectedActiveOnly(view, entered, existing) ==
    [f \in Fields |-> IF f \in Active(view) THEN entered[f] ELSE None]

\* Active fields are taken from the request, disabled ones keep their values,
\* and keys without a definition are dropped.
Collected(view, entered, existing) ==
    [f \in Fields |-> CASE f \in Active(view) -> entered[f]
                        [] f \in Configured(view) \ Active(view) -> existing[f]
                        [] OTHER -> None]

-----------------------------------------------------------------------------
(* Requests.  A save is opened as a form, and executes from "update" or    *)
(* "insert" on one statement per step.                                     *)

Writing == {"update", "insert", "clear", "roles", "assign", "profile", "data", "write",
            "unassign", "unprofile", "unuser"}

Request == [pc: {"idle", "form", "seed"} \cup Writing,
            kind: {"save", "own", "delete", "repair"}, user: Maybe(Users), login: Maybe(Logins),
            roles: SUBSET Roles,  \* still to be saved and assigned
            seeds: SUBSET Roles,  \* still to be seeded
            entered: [Fields -> Values \cup {Empty}],
            view: [Fields -> Maybe(Definition)], \* its profile_fields
            data: Data,
            alone: BOOLEAN,       \* history: nobody else has written its user meanwhile
            stale: SUBSET Roles]  \* history: disabled since it was opened

NoEntry == [f \in Fields |-> Empty]
NoFields == [f \in Fields |-> None]

Idle == [pc |-> "idle", kind |-> "save", user |-> None, login |-> None, roles |-> {},
         seeds |-> {}, entered |-> NoEntry, view |-> NoFields, data |-> Blank,
         alone |-> FALSE, stale |-> {}]

\* None is told apart from the definitions it stands in for.
ASSUME NoneAssumption == None \notin Definition

TypeOK ==
    /\ rows \in [Users -> Maybe(Logins)]
    /\ profiles \in [Users -> Maybe(Data)]
    /\ assigned \subseteq Users \X Roles
    /\ catalogue \in [Roles -> {"absent", "enabled", "disabled"}]
    /\ definitions \in [Fields -> Maybe(Definition)]
    /\ req \in [Requests -> Request]
    /\ work \in 0..MaxWork
    /\ tangled \subseteq Users /\ whole \subseteq Users
    /\ granted \in [Users -> SUBSET Roles]

\* The rows of user_roles that belong to a user.
Assigned(u) == {r \in Roles : <<u, r>> \in assigned}

\* An installation in use: standard roles seeded, any fields, and a user with any
\* roles and some values filled in.
Init ==
    /\ \E u \in Users, l \in Logins, have \in SUBSET Roles, stored \in [Fields -> Maybe(Values)] :
          /\ rows = [v \in Users |-> IF v = u THEN l ELSE None]
          /\ profiles = [v \in Users |-> IF v = u THEN stored ELSE None]
          /\ assigned = {u} \X have
          /\ granted = [v \in Users |-> IF v = u THEN have ELSE {}]
          /\ catalogue = [r \in Roles |-> IF r \in have \cup StandardRoles
                                          THEN "enabled" ELSE "absent"]
    /\ definitions \in [Fields -> Maybe(Definition)]
    /\ req = [q \in Requests |-> Idle]
    /\ work = 0
    /\ tangled = {} /\ whole = Users

-----------------------------------------------------------------------------
(* History.  Requests meet if they write the same user at the same time.   *)

Meets(q, u) == {p \in Requests \ {q} : req[p].pc \in Writing /\ req[p].user = u}

\* Request q goes on as new, and from now on writes user u.
Enters(q, u, new) ==
    /\ req' = [p \in Requests |->
                 IF p = q THEN [new EXCEPT !.alone = Meets(q, u) = {}]
                 ELSE IF p \in Meets(q, u) THEN [req[p] EXCEPT !.alone = FALSE] ELSE req[p]]
    /\ tangled' = IF Meets(q, u) = {} THEN tangled ELSE tangled \cup {u}

\* Request q has done all it had to do.  The page of a user's own settles nothing.
Finish(q) ==
    LET settles == req[q].alone /\ req[q].kind # "own"
    IN  /\ req' = [req EXCEPT ![q] = Idle]
        /\ whole' = IF settles THEN whole \cup {req[q].user} ELSE whole
        /\ tangled' = IF settles THEN tangled \ {req[q].user} ELSE tangled

GoOn(q, new) ==
    /\ req' = [req EXCEPT ![q] = new]
    /\ UNCHANGED <<tangled, whole>>

\* The roles others still have to assign to u, having cleared it before.
Underway(q, u) == UNION {req[p].roles : p \in {p \in Requests \ {q} :
                            req[p].pc \in {"roles", "assign"} /\ req[p].user = u}}

At(q, pc) == req[q].pc = pc

Begun == work < MaxWork /\ work' = work + 1

-----------------------------------------------------------------------------
(* Forms.  A form shows the catalogue and the fields of the moment it is   *)
(* rendered; it may be sent at any time after.                             *)

\* Mutant: the form offers every role of the catalogue.
OfferedAll == {r \in Roles : catalogue[r] # "absent"}

Offered == {r \in Roles : catalogue[r] = "enabled"}

\* manage_main: the form of a new or an existing user.
OpenUserForm(q) ==
    /\ At(q, "idle") /\ Begun
    /\ \E u \in Users, l \in Logins, chosen \in SUBSET Offered, entered \in Entries(definitions) :
          GoOn(q, [Idle EXCEPT !.pc = "form", !.kind = "save", !.user = u, !.login = l,
                               !.roles = chosen, !.entered = entered])
    /\ UNCHANGED <<tables, granted>>

\* my_profile: the form of whoever is logged in.
OpenProfileForm(q) ==
    /\ At(q, "idle") /\ Begun
    /\ \E u \in Users, entered \in Entries(definitions) :
          GoOn(q, [Idle EXCEPT !.pc = "form", !.kind = "own", !.user = u, !.entered = entered])
    /\ UNCHANGED <<tables, granted>>

\* save_sql_user asks whether the user exists, and decides between two statements.
SubmitUser(q) ==
    /\ At(q, "form") /\ req[q].kind \in {"save", "repair"}
    /\ Enters(q, req[q].user,
              [req[q] EXCEPT !.pc = IF rows[req[q].user] = None THEN "insert" ELSE "update",
                             !.view = definitions])
    /\ UNCHANGED <<tables, work, granted, whole>>

\* _save_profile_from_request asks for no row: a user of the fallback store gets
\* a profile as well, under an id that has none in the users table.
SubmitProfile(q) ==
    LET u == req[q].user
    IN  /\ At(q, "form") /\ req[q].kind = "own"
        /\ req' = [p \in Requests |->
                     IF p = q THEN [req[q] EXCEPT !.pc = "profile", !.view = definitions,
                                                  !.alone = Meets(q, u) = {}]
                     ELSE IF p \in Meets(q, u) THEN [req[p] EXCEPT !.alone = FALSE] ELSE req[p]]
        /\ tangled' = IF Meets(q, u) = {} /\ rows[u] # None THEN tangled ELSE tangled \cup {u}
        /\ UNCHANGED <<tables, work, granted, whole>>

-----------------------------------------------------------------------------
(* save_sql_user and _save_profile_from_request.                           *)

LoginFree(u, l) == \A v \in Users \ {u} : rows[v] # l

\* zsql_pas_update_user: no row, no effect; a taken login is an error (Fail).
AfterRow(q) == IF req[q].kind = "repair" THEN "profile" ELSE "clear"

UpdateUser(q) ==
    LET u == req[q].user
    IN  /\ At(q, "update")
        /\ rows[u] = None \/ LoginFree(u, req[q].login)
        /\ rows' = IF rows[u] = None THEN rows ELSE [rows EXCEPT ![u] = req[q].login]
        /\ GoOn(q, [req[q] EXCEPT !.pc = AfterRow(q), !.login = None])
        /\ UNCHANGED <<profiles, assigned, catalogue, definitions, work, granted>>

\* zsql_pas_upsert_user: inserts the row or rewrites the one that is there.
UpsertUser(q) ==
    LET u == req[q].user
    IN  /\ At(q, "insert") /\ LoginFree(u, req[q].login)
        /\ rows' = [rows EXCEPT ![u] = req[q].login]
        /\ GoOn(q, [req[q] EXCEPT !.pc = AfterRow(q), !.login = None])
        /\ UNCHANGED <<profiles, assigned, catalogue, definitions, work, granted>>

\* On MySQL a login that is taken leads to the row of another user: that one
\* gets the password and settings, and the new user no row.
UpsertOther(q) ==
    LET u == req[q].user
    IN  /\ At(q, "insert") /\ OnAnyKey /\ rows[u] = None /\ ~LoginFree(u, req[q].login)
        /\ req' = [req EXCEPT ![q].pc = AfterRow(q), ![q].login = None, ![q].alone = FALSE]
        /\ tangled' = tangled \cup {u}
        /\ UNCHANGED <<tables, work, granted, whole>>

\* Mutant: the old roles stay.
ClearRolesNever(q) ==
    LET u == req[q].user
    IN  /\ At(q, "clear")
        /\ req' = [req EXCEPT ![q].pc = "roles"]
        /\ granted' = [granted EXCEPT ![u] = req[q].roles \cup Underway(q, u)]
        /\ whole' = whole \ {u}
        /\ UNCHANGED <<tables, work, tangled>>

\* zsql_pas_clear_roles
ClearRoles(q) ==
    LET u == req[q].user
    IN  /\ At(q, "clear")
        /\ assigned' = assigned \ ({u} \X Roles)
        /\ req' = [req EXCEPT ![q].pc = "roles"]
        /\ granted' = [granted EXCEPT ![u] = req[q].roles \cup Underway(q, u)]
        /\ whole' = whole \ {u}
        /\ UNCHANGED <<rows, profiles, catalogue, definitions, work, tangled>>

\* save_sql_role: each of the roles is saved as enabled before it is assigned.
\* The order is that of the form; any order will do here.
SaveRole(q, r) ==
    /\ At(q, "roles") /\ r \in req[q].roles
    /\ catalogue' = [catalogue EXCEPT ![r] = "enabled"]
    /\ GoOn(q, [req[q] EXCEPT !.pc = "assign", !.seeds = {r}])
    /\ UNCHANGED <<rows, profiles, assigned, definitions, work, granted>>

\* zsql_pas_assign_role
AssignRole(q, r) ==
    /\ At(q, "assign") /\ req[q].seeds = {r}
    /\ assigned' = assigned \cup {<<req[q].user, r>>}
    /\ GoOn(q, [req[q] EXCEPT !.pc = "roles", !.roles = @ \ {r}, !.seeds = {}])
    /\ UNCHANGED <<rows, profiles, catalogue, definitions, work, granted>>

\* A save from the page goes on with the profile; that of the first user is done.
RolesDone(q) ==
    /\ At(q, "roles") /\ req[q].roles = {}
    /\ IF req[q].kind = "repair" THEN Finish(q)
       ELSE GoOn(q, [req[q] EXCEPT !.pc = "profile"])
    /\ UNCHANGED <<tables, work, granted>>

\* The upsert of the built-in profile leaves the JSON of an old row alone.
SaveProfile(q) ==
    LET u == req[q].user
    IN  /\ At(q, "profile")
        /\ profiles' = IF profiles[u] = None THEN [profiles EXCEPT ![u] = Blank] ELSE profiles
        /\ GoOn(q, [req[q] EXCEPT !.pc = IF req[q].kind = "repair" THEN "clear" ELSE "data"])
        /\ UNCHANGED <<rows, assigned, catalogue, definitions, work, granted>>

\* _profile_extra_values and collect_values
CollectData(q) ==
    LET u == req[q].user
        existing == IF profiles[u] = None THEN Blank ELSE profiles[u]
    IN  /\ At(q, "data") /\ Acceptable(req[q].view, req[q].entered)
        /\ GoOn(q, [req[q] EXCEPT !.pc = "write",
                                  !.data = Collected(req[q].view, req[q].entered, existing)])
        /\ UNCHANGED <<tables, work, granted>>

\* collect_values raises: all that was saved before stays saved.
RefuseData(q) ==
    /\ At(q, "data") /\ ~Acceptable(req[q].view, req[q].entered)
    /\ GoOn(q, Idle)
    /\ UNCHANGED <<tables, work, granted>>

\* sql_user_profile_data_save: an update of the row, if there is one.
WriteData(q) ==
    LET u == req[q].user
    IN  /\ At(q, "write")
        /\ profiles' = IF profiles[u] = None THEN profiles
                       ELSE [profiles EXCEPT ![u] = req[q].data]
        /\ Finish(q)
        /\ UNCHANGED <<rows, assigned, catalogue, definitions, work, granted>>

-----------------------------------------------------------------------------
(* delete_sql_user                                                         *)

BeginDelete(q) ==
    /\ At(q, "idle") /\ Begun
    /\ \E u \in Users :
          Enters(q, u, [Idle EXCEPT !.pc = "unassign", !.kind = "delete", !.user = u])
    /\ UNCHANGED <<tables, granted, whole>>

DeleteRoles(q) ==
    LET u == req[q].user
    IN  /\ At(q, "unassign")
        /\ assigned' = assigned \ ({u} \X Roles)
        /\ req' = [req EXCEPT ![q].pc = "unprofile"]
        /\ granted' = [granted EXCEPT ![u] = Underway(q, u)]
        /\ whole' = whole \ {u}
        /\ UNCHANGED <<rows, profiles, catalogue, definitions, work, tangled>>

\* Mutant: the profile stays.
DeleteProfileNever(q) ==
    /\ At(q, "unprofile")
    /\ GoOn(q, [req[q] EXCEPT !.pc = "unuser"])
    /\ UNCHANGED <<tables, work, granted>>

DeleteProfile(q) ==
    /\ At(q, "unprofile")
    /\ profiles' = [profiles EXCEPT ![req[q].user] = None]
    /\ GoOn(q, [req[q] EXCEPT !.pc = "unuser"])
    /\ UNCHANGED <<rows, assigned, catalogue, definitions, work, granted>>

DeleteUser(q) ==
    /\ At(q, "unuser")
    /\ rows' = [rows EXCEPT ![req[q].user] = None]
    /\ Finish(q)
    /\ UNCHANGED <<profiles, assigned, catalogue, definitions, work, granted>>

-----------------------------------------------------------------------------
(* Others.                                                                 *)

\* Repair seeds the standard roles, unless told not to, and saves the first
\* user of the wizard's form if there is none of that id.
BeginRepair(q) ==
    /\ At(q, "idle") /\ Begun
    /\ \E u \in Users, l \in Logins, chosen \in SUBSET Roles, seeds \in {{}, StandardRoles} :
          GoOn(q, [Idle EXCEPT !.pc = "seed", !.kind = "repair", !.user = u, !.login = l,
                               !.roles = chosen, !.seeds = seeds])
    /\ UNCHANGED <<tables, granted>>

SeedRole(q, r) ==
    /\ At(q, "seed") /\ r \in req[q].seeds
    /\ catalogue' = [catalogue EXCEPT ![r] = "enabled"]
    /\ GoOn(q, [req[q] EXCEPT !.seeds = @ \ {r}])
    /\ UNCHANGED <<rows, profiles, assigned, definitions, work, granted>>

\* _ensure_initial_sql_user: an existing user is kept as it is.
CheckInitial(q) ==
    /\ At(q, "seed") /\ req[q].seeds = {}
    /\ GoOn(q, IF rows[req[q].user] = None THEN [req[q] EXCEPT !.pc = "form"] ELSE Idle)
    /\ UNCHANGED <<tables, work, granted>>

\* A statement fails, the request is aborted or Zope stops: manage_main catches
\* the error, and what the request has written stays.
Fail(q) ==
    /\ ~At(q, "idle")
    /\ GoOn(q, Idle)
    /\ UNCHANGED <<tables, work, granted>>

\* The role form.  Forms opened before still offer a role that it disables.
SaveRoleForm(r, state) ==
    /\ Begun
    /\ catalogue' = [catalogue EXCEPT ![r] = state]
    /\ req' = IF state = "enabled" THEN req
              ELSE [q \in Requests |-> [req[q] EXCEPT !.stale = @ \cup ({r} \cap req[q].roles)]]
    /\ UNCHANGED <<rows, profiles, assigned, definitions, tangled, granted, whole>>

\* Mutant: a select without choices is accepted.
EditFieldNoChoices(f, definition) ==
    /\ Begun
    /\ definitions' = [definitions EXCEPT ![f] =
                          IF definition = None THEN None ELSE [definition EXCEPT !.choices = {}]]
    /\ UNCHANGED <<rows, profiles, assigned, catalogue, req, tangled, granted, whole>>

\* manage_profile_fields: one field is defined, replaced or removed.
EditField(f, definition) ==
    /\ Begun
    /\ definitions' = [definitions EXCEPT ![f] = definition]
    /\ UNCHANGED <<rows, profiles, assigned, catalogue, req, tangled, granted, whole>>

\* A completed invitation, whose transaction (Invitations) makes a user that did
\* not exist, with the roles of the invitation: all of it at once.
Complete(u, l, chosen, entered) ==
    LET others == {p \in Requests : req[p].pc \in Writing /\ req[p].user = u}
        old == IF profiles[u] = None THEN Blank ELSE profiles[u]
    IN  /\ Begun
        /\ rows[u] = None /\ LoginFree(u, l) /\ Acceptable(definitions, entered)
        /\ rows' = [rows EXCEPT ![u] = l]
        /\ profiles' = [profiles EXCEPT ![u] =
                           IF Configured(definitions) = {} THEN old
                           ELSE Collected(definitions, entered, Blank)]
        /\ assigned' = (assigned \ ({u} \X Roles)) \cup ({u} \X chosen)
        /\ catalogue' = [r \in Roles |-> IF r \in chosen THEN "enabled" ELSE catalogue[r]]
        /\ granted' = [granted EXCEPT ![u] = chosen \cup
                          UNION {req[p].roles : p \in {p \in others : req[p].pc \in {"roles", "assign"}}}]
        /\ req' = [p \in Requests |-> IF p \in others THEN [req[p] EXCEPT !.alone = FALSE] ELSE req[p]]
        /\ tangled' = IF others = {} THEN tangled \ {u} ELSE tangled \cup {u}
        /\ whole' = IF others = {} THEN whole \cup {u} ELSE whole \ {u}
        /\ UNCHANGED definitions

-----------------------------------------------------------------------------
Next ==
    \/ \E q \in Requests :
          \/ OpenUserForm(q) \/ OpenProfileForm(q) \/ SubmitUser(q) \/ SubmitProfile(q)
          \/ UpdateUser(q) \/ UpsertUser(q) \/ UpsertOther(q) \/ ClearRoles(q) \/ RolesDone(q)
          \/ SaveProfile(q) \/ CollectData(q) \/ RefuseData(q) \/ WriteData(q)
          \/ BeginDelete(q) \/ DeleteRoles(q) \/ DeleteProfile(q) \/ DeleteUser(q)
          \/ BeginRepair(q) \/ CheckInitial(q) \/ Fail(q)
          \/ \E r \in Roles : SaveRole(q, r) \/ AssignRole(q, r) \/ SeedRole(q, r)
    \/ \E r \in Roles, state \in {"enabled", "disabled"} : SaveRoleForm(r, state)
    \/ \E f \in Fields, definition \in Maybe(Definition) : EditField(f, definition)
    \/ \E u \in Users, l \in Logins, chosen \in SUBSET Roles, entered \in Entries(definitions) :
          Complete(u, l, chosen, entered)

Spec == Init /\ [][Next]_vars

-----------------------------------------------------------------------------
(* Properties.                                                             *)

\* Whatever step a save or a deletion fails at, and in whatever order requests
\* for different users go on, an id without a row in the users table has neither
\* roles nor a profile that the next user of that id would inherit (sqladmin.py
\* writes the row first and deletes it last).  Left out are the ids on which
\* requests have met, or that have a profile without a user.
NoOrphans ==
    \A u \in Users \ tangled :
        rows[u] = None => Assigned(u) = {} /\ profiles[u] = None

\* A user holds no role but those asked for since the roles were last cleared:
\* by the request that cleared them and by those that were still assigning
\* theirs.  Unless such a request failed or met another one, the user holds all
\* of them (save_sql_user, delete_sql_user).
RolesFromForms ==
    \A u \in Users :
        /\ Assigned(u) \subseteq granted[u]
        /\ u \in whole => Assigned(u) = granted[u]

\* A role that was disabled is enabled again only through the role form, by a
\* repair, by an invitation, or by a user form rendered before the role was
\* disabled: save_sql_role enables what a form sends, and a form rendered later
\* does not offer the role (_render_role_choices).
RoleStaysDisabled ==
    [][\A r \in Roles :
          catalogue[r] = "disabled" /\ catalogue'[r] = "enabled" =>
              \/ \E q \in Requests : /\ req[q].pc \in {"roles", "seed"}
                                     /\ r \in req[q].stale \/ req[q].kind = "repair"
              \/ work' = work + 1]_vars

\* A value stored in a user's profile changes only to what was entered in a form
\* for a field that was active, or disappears because nobody has defined the
\* field; deactivating a field or saving an unrelated one loses nothing.  This
\* holds for saves that meet no other one of the same user (collect_values).
KeptUnlessEntered ==
    [][\A u \in Users, f \in Fields :
          /\ rows[u] # None /\ profiles[u] # None /\ profiles'[u] # None
          /\ profiles'[u][f] # profiles[u][f]
          => \E q \in Requests :
                /\ At(q, "write") /\ req[q].user = u
                /\ \/ ~req[q].alone
                   \/ f \in Active(req[q].view) /\ profiles'[u][f] = req[q].entered[f]
                   \/ req[q].view[f] = None /\ profiles'[u][f] = None]_vars

=============================================================================
