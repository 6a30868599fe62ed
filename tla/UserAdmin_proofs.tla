--------------------------- MODULE UserAdmin_proofs ---------------------------
(***************************************************************************)
(* What the run of UserAdmin checks, for any users, logins, roles, fields, *)
(* values and requests.  The invariant (AdminInv) says which requests may  *)
(* still count on what they have written: those that nobody has met on     *)
(* their user (Apart, Counts).  Such a request knows its user's row, roles *)
(* and profile (RowsOK, RolesOK, DataOK), and so hands an id on clean when *)
(* it ends or fails (OrphanOK, HoldsOK).                                   *)
(***************************************************************************)
EXTENDS UserAdmin, TLAPS

-----------------------------------------------------------------------------
(* Types.                                                                  *)

LEMMA IdleTyped == Idle \in Request
BY DEF Idle, Request, Writing, Maybe, NoEntry, NoFields, Data, Blank

LEMMA EntriesTyped ==
    ASSUME NEW view, NEW e \in Entries(view)
    PROVE  e \in [Fields -> Values \cup {Empty}]
BY DEF Entries

LEMMA CollectedTyped ==
    ASSUME NEW view, NEW entered \in [Fields -> Values \cup {Empty}], NEW existing \in Data
    PROVE  Collected(view, entered, existing) \in Data
BY DEF Collected, Data

LEMMA BlankTyped == Blank \in Data
BY DEF Blank, Data

\* A request that becomes another one leaves the rest of them as they are.
LEMMA GoOnTyped ==
    ASSUME req \in [Requests -> Request], NEW q \in Requests, NEW new \in Request, GoOn(q, new)
    PROVE  /\ req' \in [Requests -> Request]
           /\ tangled' = tangled /\ whole' = whole
BY DEF GoOn

LEMMA EntersTyped ==
    ASSUME TypeOK, NEW q \in Requests, NEW u \in Users, NEW new \in Request, Enters(q, u, new)
    PROVE  /\ req' \in [Requests -> Request]
           /\ tangled' \subseteq Users
<1>1. [new EXCEPT !.alone = Meets(q, u) = {}] \in Request
  BY DEF Request
<1>2. \A p \in Requests : [req[p] EXCEPT !.alone = FALSE] \in Request /\ req[p] \in Request
  BY DEF TypeOK, Request
<1>3. req' \in [Requests -> Request]
  BY <1>1, <1>2 DEF Enters
<1> QED BY <1>3 DEF Enters, TypeOK

LEMMA FinishTyped ==
    ASSUME TypeOK, NEW q \in Requests, req[q].user \in Users, Finish(q)
    PROVE  /\ req' \in [Requests -> Request]
           /\ tangled' \subseteq Users /\ whole' \subseteq Users
BY IdleTyped DEF Finish, TypeOK

\* What the place of a request says of its kind, user and roles.
Placed(r) ==
    /\ r.pc # "idle" => r.user \in Users
    /\ r.pc = "idle" \/ r.kind \in {"own", "delete"} => r.roles = {}
    /\ r.pc = "form" => r.kind # "delete" /\ (r.kind # "own" => r.login \in Logins)
    /\ r.pc \in {"update", "insert"} => r.login \in Logins
    /\ r.pc = "seed" => r.kind = "repair" /\ r.login \in Logins
    /\ r.pc \in {"update", "insert", "clear", "roles", "assign"} => r.kind \in {"save", "repair"}
    /\ r.pc = "profile" => r.kind # "delete"
    /\ r.pc \in {"data", "write"} => r.kind \in {"save", "own"}
    /\ r.pc \in {"unassign", "unprofile", "unuser"} => r.kind = "delete"
    /\ r.pc = "assign" => r.seeds \subseteq r.roles

Typed == TypeOK /\ \A q \in Requests : Placed(req[q])

LEMMA IdlePlaced == Placed(Idle)
BY DEF Placed, Idle

LEMMA InitTyped == Init => Typed
<1> SUFFICES ASSUME Init PROVE Typed
  OBVIOUS
<1>1. PICK u \in Users, l \in Logins, have \in SUBSET Roles, stored \in [Fields -> Maybe(Values)] :
        /\ rows = [v \in Users |-> IF v = u THEN l ELSE None]
        /\ profiles = [v \in Users |-> IF v = u THEN stored ELSE None]
        /\ assigned = {u} \X have
        /\ granted = [v \in Users |-> IF v = u THEN have ELSE {}]
        /\ catalogue = [r \in Roles |-> IF r \in have \cup StandardRoles
                                        THEN "enabled" ELSE "absent"]
  BY DEF Init
<1>2. stored \in Data
  BY DEF Data, Maybe
<1>3. TypeOK
  BY <1>1, <1>2, IdleTyped, UserAdminAssumption DEF Init, TypeOK, Maybe
<1>4. \A q \in Requests : Placed(req[q])
  BY IdlePlaced DEF Init
<1> QED BY <1>3, <1>4 DEF Typed

\* The tables and the history keep their types.
TablesTyped ==
    /\ rows \in [Users -> Maybe(Logins)]
    /\ profiles \in [Users -> Maybe(Data)]
    /\ assigned \subseteq Users \X Roles
    /\ catalogue \in [Roles -> {"absent", "enabled", "disabled"}]
    /\ definitions \in [Fields -> Maybe(Definition)]
    /\ work \in 0..MaxWork
    /\ granted \in [Users -> SUBSET Roles]

LEMMA TypedParts ==
    TypeOK <=> /\ TablesTyped
               /\ req \in [Requests -> Request]
               /\ tangled \subseteq Users /\ whole \subseteq Users
BY DEF TypeOK, TablesTyped

LEMMA TablesStay ==
    ASSUME TablesTyped, UNCHANGED <<tables, granted>>, work' \in 0..MaxWork
    PROVE  TablesTyped'
BY DEF TablesTyped, tables

LEMMA BegunTyped ==
    ASSUME TypeOK, Begun
    PROVE  work' \in 0..MaxWork
BY UserAdminAssumption DEF TypeOK, Begun

LEMMA GoOnKeeps ==
    ASSUME Typed, NEW q \in Requests, NEW new \in Request, GoOn(q, new), Placed(new), TablesTyped'
    PROVE  Typed'
<1>1. req' = [req EXCEPT ![q] = new] /\ tangled' = tangled /\ whole' = whole
  BY DEF GoOn
<1>2. req' \in [Requests -> Request]
  BY <1>1 DEF Typed, TypeOK
<1>3. \A p \in Requests : Placed(req'[p])
  <2> TAKE p \in Requests
  <2>1. req'[p] = IF p = q THEN new ELSE req[p]
    BY <1>1 DEF Typed, TypeOK
  <2> QED BY <2>1 DEF Typed
<1> QED BY <1>1, <1>2, <1>3 DEF Typed, TypeOK, TablesTyped

LEMMA FinishKeeps ==
    ASSUME Typed, NEW q \in Requests, Finish(q), TablesTyped', ~At(q, "idle")
    PROVE  Typed'
<1>1. req' = [req EXCEPT ![q] = Idle]
  BY DEF Finish
<1>2. req[q].user \in Users
  BY DEF Typed, Placed, At
<1>3. \A p \in Requests : Placed(req'[p])
  <2> TAKE p \in Requests
  <2>1. req'[p] = IF p = q THEN Idle ELSE req[p]
    BY <1>1 DEF Typed, TypeOK
  <2> QED BY <2>1, IdlePlaced DEF Typed
<1> QED BY <1>2, <1>3, FinishTyped DEF Typed, TypeOK, TablesTyped

\* Losing the mark of being alone says nothing of the place.
LEMMA PlacedAnyway ==
    ASSUME NEW r \in Request, NEW b \in BOOLEAN, Placed(r)
    PROVE  /\ [r EXCEPT !.alone = b] \in Request
           /\ Placed([r EXCEPT !.alone = b])
BY DEF Placed, Request

LEMMA EntersKeeps ==
    ASSUME Typed, NEW q \in Requests, NEW u \in Users, NEW new \in Request, Enters(q, u, new),
           Placed(new), TablesTyped', whole' = whole
    PROVE  Typed'
<1>1. req' \in [Requests -> Request] /\ tangled' \subseteq Users
  BY EntersTyped DEF Typed
<1>2. ASSUME NEW p \in Requests PROVE Placed(req'[p])
  <2>1. req[p] \in Request /\ Placed(req[p])
    BY DEF Typed, TypeOK
  <2>2. /\ Placed([new EXCEPT !.alone = Meets(q, u) = {}])
        /\ Placed([req[p] EXCEPT !.alone = FALSE])
    BY <2>1, PlacedAnyway, (Meets(q, u) = {}) \in BOOLEAN
  <2>3. CASE p = q
    BY <2>2, <2>3 DEF Enters
  <2>4. CASE p # q
    BY <2>1, <2>2, <2>4 DEF Enters
  <2> QED BY <2>3, <2>4
<1> QED BY <1>1, <1>2 DEF Typed, TypeOK, TablesTyped

LEMMA FormsTyped ==
    ASSUME Typed, NEW q \in Requests,
           \/ OpenUserForm(q) \/ OpenProfileForm(q) \/ BeginRepair(q) \/ BeginDelete(q)
    PROVE  Typed'
<1> USE DEF Idle, Request, Writing, Maybe
<1>0. TypeOK /\ TablesTyped /\ Idle \in Request
  BY TypedParts, IdleTyped DEF Typed
<1>1. CASE OpenUserForm(q)
  <2>1. Begun /\ UNCHANGED <<tables, granted>>
    BY <1>1 DEF OpenUserForm
  <2>2. PICK u \in Users, l \in Logins, chosen \in SUBSET Offered, entered \in Entries(definitions) :
          GoOn(q, [Idle EXCEPT !.pc = "form", !.kind = "save", !.user = u, !.login = l,
                               !.roles = chosen, !.entered = entered])
    BY <1>1 DEF OpenUserForm
  <2> DEFINE new == [Idle EXCEPT !.pc = "form", !.kind = "save", !.user = u, !.login = l,
                                 !.roles = chosen, !.entered = entered]
  <2>3. entered \in [Fields -> Values \cup {Empty}] /\ chosen \subseteq Roles
    BY EntriesTyped DEF Offered
  <2>4. new \in Request /\ Placed(new)
    BY <1>0, <2>3 DEF Placed
  <2>5. TablesTyped'
    BY <1>0, <2>1, TablesStay, BegunTyped
  <2> HIDE DEF new
  <2> QED BY <2>2, <2>4, <2>5, GoOnKeeps DEF new
<1>2. CASE OpenProfileForm(q)
  <2>1. Begun /\ UNCHANGED <<tables, granted>>
    BY <1>2 DEF OpenProfileForm
  <2>2. PICK u \in Users, entered \in Entries(definitions) :
          GoOn(q, [Idle EXCEPT !.pc = "form", !.kind = "own", !.user = u, !.entered = entered])
    BY <1>2 DEF OpenProfileForm
  <2> DEFINE new == [Idle EXCEPT !.pc = "form", !.kind = "own", !.user = u, !.entered = entered]
  <2>3. entered \in [Fields -> Values \cup {Empty}]
    BY EntriesTyped
  <2>4. new \in Request /\ Placed(new)
    BY <1>0, <2>3 DEF Placed
  <2>5. TablesTyped'
    BY <1>0, <2>1, TablesStay, BegunTyped
  <2> HIDE DEF new
  <2> QED BY <2>2, <2>4, <2>5, GoOnKeeps DEF new
<1>3. CASE BeginRepair(q)
  <2>1. Begun /\ UNCHANGED <<tables, granted>>
    BY <1>3 DEF BeginRepair
  <2>2. PICK u \in Users, l \in Logins, chosen \in SUBSET Roles, seeds \in {{}, StandardRoles} :
          GoOn(q, [Idle EXCEPT !.pc = "seed", !.kind = "repair", !.user = u, !.login = l,
                               !.roles = chosen, !.seeds = seeds])
    BY <1>3 DEF BeginRepair
  <2> DEFINE new == [Idle EXCEPT !.pc = "seed", !.kind = "repair", !.user = u, !.login = l,
                                 !.roles = chosen, !.seeds = seeds]
  <2>3. seeds \subseteq Roles
    BY UserAdminAssumption
  <2>4. new \in Request /\ Placed(new)
    BY <1>0, <2>3 DEF Placed
  <2>5. TablesTyped'
    BY <1>0, <2>1, TablesStay, BegunTyped
  <2> HIDE DEF new
  <2> QED BY <2>2, <2>4, <2>5, GoOnKeeps DEF new
<1>4. CASE BeginDelete(q)
  <2>1. Begun /\ UNCHANGED <<tables, granted, whole>>
    BY <1>4 DEF BeginDelete
  <2>2. PICK u \in Users :
          Enters(q, u, [Idle EXCEPT !.pc = "unassign", !.kind = "delete", !.user = u])
    BY <1>4 DEF BeginDelete
  <2> DEFINE new == [Idle EXCEPT !.pc = "unassign", !.kind = "delete", !.user = u]
  <2>4. new \in Request /\ Placed(new)
    BY <1>0 DEF Placed
  <2>5. TablesTyped'
    BY <1>0, <2>1, TablesStay, BegunTyped
  <2> HIDE DEF new
  <2> QED BY <2>1, <2>2, <2>4, <2>5, EntersKeeps DEF new
<1> QED BY <1>1, <1>2, <1>3, <1>4

LEMMA SubmitTyped ==
    ASSUME Typed, NEW q \in Requests, SubmitUser(q) \/ SubmitProfile(q)
    PROVE  Typed'
<1>0. TypeOK /\ TablesTyped /\ req[q] \in Request /\ Placed(req[q]) /\ req[q].pc = "form"
  BY TypedParts DEF Typed, TypeOK, SubmitUser, SubmitProfile, At
<1>1. req[q].user \in Users
  BY <1>0 DEF Placed
<1>2. UNCHANGED <<tables, granted>> /\ work' = work /\ whole' = whole
  BY DEF SubmitUser, SubmitProfile
<1>3. TablesTyped'
  BY <1>0, <1>2, TablesStay DEF TypeOK
<1>4. CASE SubmitUser(q)
  <2> DEFINE pc == IF rows[req[q].user] = None THEN "insert" ELSE "update"
             new == [req[q] EXCEPT !.pc = pc, !.view = definitions]
  <2>1. pc \in {"insert", "update"}
    OBVIOUS
  <2>2. Enters(q, req[q].user, new) /\ req[q].kind \in {"save", "repair"}
    BY <1>4 DEF SubmitUser
  <2> HIDE DEF pc
  <2>3. new \in Request /\ Placed(new)
    BY <1>0, <2>1, <2>2 DEF TypeOK, Request, Placed, Writing
  <2> HIDE DEF new
  <2> QED BY <1>1, <1>2, <1>3, <2>2, <2>3, EntersKeeps
<1>5. CASE SubmitProfile(q)
  <2> DEFINE u == req[q].user
             b == (Meets(q, u) = {})
             new == [req[q] EXCEPT !.pc = "profile", !.view = definitions, !.alone = b]
  <2>1. /\ req' = [p \in Requests |-> IF p = q THEN new
                     ELSE IF p \in Meets(q, u) THEN [req[p] EXCEPT !.alone = FALSE] ELSE req[p]]
        /\ tangled' = IF b /\ rows[u] # None THEN tangled ELSE tangled \cup {u}
        /\ req[q].kind = "own"
    BY <1>5 DEF SubmitProfile
  <2>2. b \in BOOLEAN
    OBVIOUS
  <2> HIDE DEF b
  <2>3. new \in Request /\ Placed(new)
    BY <1>0, <2>1, <2>2 DEF TypeOK, Request, Placed, Writing
  <2> HIDE DEF new
  <2>4. ASSUME NEW p \in Requests PROVE req'[p] \in Request /\ Placed(req'[p])
    <3>1. req[p] \in Request /\ Placed(req[p])
      BY DEF Typed, TypeOK
    <3>2. [req[p] EXCEPT !.alone = FALSE] \in Request /\ Placed([req[p] EXCEPT !.alone = FALSE])
      BY <3>1, PlacedAnyway, FALSE \in BOOLEAN
    <3> QED BY <2>1, <2>3, <3>1, <3>2
  <2>5. req' \in [Requests -> Request]
    BY <2>1, <2>4
  <2>6. tangled' \subseteq Users
    BY <1>1, <2>1 DEF Typed, TypeOK
  <2> QED BY <1>2, <1>3, <2>4, <2>5, <2>6 DEF Typed, TypeOK, TablesTyped
<1> QED BY <1>4, <1>5

LEMMA UserRowTyped ==
    ASSUME Typed, NEW q \in Requests,
           \/ UpdateUser(q) \/ UpsertUser(q) \/ UpsertOther(q)
    PROVE  Typed'
<1>0. TypeOK /\ TablesTyped /\ req[q] \in Request /\ Placed(req[q])
  BY TypedParts DEF Typed, TypeOK
<1>1. req[q].pc \in {"update", "insert"}
  BY DEF UpdateUser, UpsertUser, UpsertOther, At
<1>2. req[q].user \in Users /\ req[q].login \in Logins /\ req[q].kind \in {"save", "repair"}
  BY <1>0, <1>1 DEF Placed
<1> DEFINE pc == AfterRow(q)
           new == [req[q] EXCEPT !.pc = pc, !.login = None]
<1>3. pc \in {"profile", "clear"}
  BY DEF AfterRow
<1>4. new \in Request /\ Placed(new)
  <2> HIDE DEF pc
  <2> QED BY <1>0, <1>2, <1>3 DEF Request, Placed, Writing, Maybe
<1>5. TablesTyped'
  <2>1. rows' \in [Users -> Maybe(Logins)]
    BY <1>0, <1>2 DEF TablesTyped, Maybe, UpdateUser, UpsertUser, UpsertOther, tables
  <2> QED BY <1>0, <2>1 DEF TablesTyped, UpdateUser, UpsertUser, UpsertOther, tables
<1>6. CASE UpdateUser(q) \/ UpsertUser(q)
  <2>1. GoOn(q, new)
    BY <1>6 DEF UpdateUser, UpsertUser
  <2> HIDE DEF new
  <2> QED BY <1>4, <1>5, <2>1, GoOnKeeps
<1>7. CASE UpsertOther(q)
  <2> DEFINE other == [new EXCEPT !.alone = FALSE]
  <2>1. req' = [req EXCEPT ![q].pc = pc, ![q].login = None, ![q].alone = FALSE]
    BY <1>7 DEF UpsertOther
  <2>2. req' = [req EXCEPT ![q] = other]
    <3> HIDE DEF pc
    <3> QED BY <1>0, <2>1 DEF TypeOK, Request
  <2> HIDE DEF new
  <2>3. other \in Request /\ Placed(other)
    BY <1>4, PlacedAnyway, FALSE \in BOOLEAN
  <2> HIDE DEF other
  <2>4. req' \in [Requests -> Request] /\ \A p \in Requests : Placed(req'[p])
    BY <1>0, <2>2, <2>3 DEF Typed, TypeOK
  <2>5. tangled' \subseteq Users /\ whole' = whole
    BY <1>0, <1>2, <1>7 DEF TypeOK, UpsertOther
  <2> QED BY <1>0, <1>5, <2>4, <2>5 DEF Typed, TypeOK, TablesTyped
<1> QED BY <1>6, <1>7

LEMMA ClearTyped ==
    ASSUME Typed, NEW q \in Requests, ClearRoles(q) \/ DeleteRoles(q)
    PROVE  Typed'
<1>0. TypeOK /\ TablesTyped /\ req[q] \in Request /\ Placed(req[q])
  BY TypedParts DEF Typed, TypeOK
<1>1. req[q].pc \in {"clear", "unassign"} /\ req[q].user \in Users
  BY <1>0 DEF ClearRoles, DeleteRoles, At, Placed
<1> DEFINE pc == IF req[q].pc = "clear" THEN "roles" ELSE "unprofile"
           new == [req[q] EXCEPT !.pc = pc]
<1>2. new \in Request /\ Placed(new)
  BY <1>0, <1>1 DEF Request, Placed, Writing
<1>3. req' = [req EXCEPT ![q] = new]
  BY <1>0, <1>1 DEF ClearRoles, DeleteRoles, At, TypeOK, Request
<1> HIDE DEF new
<1>4. req' \in [Requests -> Request] /\ \A p \in Requests : Placed(req'[p])
  BY <1>0, <1>2, <1>3 DEF Typed, TypeOK
<1>5. Underway(q, req[q].user) \subseteq Roles
  BY DEF Typed, TypeOK, Request, Underway
<1>6. req[q].roles \subseteq Roles
  BY <1>0 DEF Request
<1>7. granted' \in [Users -> SUBSET Roles]
  BY <1>0, <1>1, <1>5, <1>6 DEF ClearRoles, DeleteRoles, TypeOK
<1>8. TablesTyped'
  BY <1>0, <1>7 DEF TablesTyped, ClearRoles, DeleteRoles
<1>9. tangled' \subseteq Users /\ whole' \subseteq Users
  BY <1>0 DEF TypeOK, ClearRoles, DeleteRoles
<1> QED BY <1>4, <1>8, <1>9 DEF Typed, TypeOK, TablesTyped

LEMMA RolesTyped ==
    ASSUME Typed, NEW q \in Requests, NEW r \in Roles,
           SaveRole(q, r) \/ AssignRole(q, r) \/ SeedRole(q, r)
    PROVE  Typed'
<1>0. TypeOK /\ TablesTyped /\ req[q] \in Request /\ Placed(req[q])
  BY TypedParts DEF Typed, TypeOK
<1>1. CASE SaveRole(q, r)
  <2> DEFINE new == [req[q] EXCEPT !.pc = "assign", !.seeds = {r}]
  <2>1. GoOn(q, new) /\ req[q].pc = "roles" /\ r \in req[q].roles
    BY <1>1 DEF SaveRole, At
  <2>2. new \in Request /\ Placed(new)
    BY <1>0, <2>1 DEF Request, Placed, Writing
  <2>3. TablesTyped'
    BY <1>0, <1>1 DEF TablesTyped, SaveRole
  <2> HIDE DEF new
  <2> QED BY <2>1, <2>2, <2>3, GoOnKeeps
<1>2. CASE AssignRole(q, r)
  <2> DEFINE new == [req[q] EXCEPT !.pc = "roles", !.roles = @ \ {r}, !.seeds = {}]
  <2>1. GoOn(q, new) /\ req[q].pc = "assign"
    BY <1>2 DEF AssignRole, At
  <2>2. new \in Request /\ Placed(new)
    BY <1>0, <2>1 DEF Request, Placed, Writing
  <2>3. req[q].user \in Users
    BY <1>0, <2>1 DEF Placed
  <2>4. TablesTyped'
    BY <1>0, <1>2, <2>3 DEF TablesTyped, AssignRole
  <2> HIDE DEF new
  <2> QED BY <2>1, <2>2, <2>4, GoOnKeeps
<1>3. CASE SeedRole(q, r)
  <2> DEFINE new == [req[q] EXCEPT !.seeds = @ \ {r}]
  <2>1. GoOn(q, new) /\ req[q].pc = "seed"
    BY <1>3 DEF SeedRole, At
  <2>2. new \in Request /\ Placed(new)
    BY <1>0, <2>1 DEF Request, Placed
  <2>3. TablesTyped'
    BY <1>0, <1>3 DEF TablesTyped, SeedRole
  <2> HIDE DEF new
  <2> QED BY <2>1, <2>2, <2>3, GoOnKeeps
<1> QED BY <1>1, <1>2, <1>3

LEMMA DoneTyped ==
    ASSUME Typed, NEW q \in Requests, RolesDone(q)
    PROVE  Typed'
<1>0. TypeOK /\ TablesTyped /\ req[q] \in Request /\ Placed(req[q]) /\ req[q].pc = "roles"
  BY TypedParts DEF Typed, TypeOK, RolesDone, At
<1>1. TablesTyped'
  BY <1>0, TablesStay DEF RolesDone, TypeOK
<1>2. CASE req[q].kind = "repair"
  BY <1>0, <1>1, <1>2, FinishKeeps DEF RolesDone, At
<1>3. CASE req[q].kind # "repair"
  <2> DEFINE new == [req[q] EXCEPT !.pc = "profile"]
  <2>1. GoOn(q, new)
    BY <1>3 DEF RolesDone
  <2>2. new \in Request /\ Placed(new)
    BY <1>0 DEF Request, Placed, Writing
  <2> HIDE DEF new
  <2> QED BY <1>1, <2>1, <2>2, GoOnKeeps
<1> QED BY <1>2, <1>3

LEMMA ProfileTyped ==
    ASSUME Typed, NEW q \in Requests,
           \/ SaveProfile(q) \/ CollectData(q) \/ RefuseData(q) \/ WriteData(q)
           \/ DeleteProfile(q) \/ DeleteUser(q)
    PROVE  Typed'
<1>0. TypeOK /\ TablesTyped /\ req[q] \in Request /\ Placed(req[q])
  BY TypedParts DEF Typed, TypeOK
<1>1. req[q].pc \in {"profile", "data", "write", "unprofile", "unuser"}
  BY DEF SaveProfile, CollectData, RefuseData, WriteData, DeleteProfile, DeleteUser, At
<1>2. req[q].user \in Users
  BY <1>0, <1>1 DEF Placed
<1>3. CASE SaveProfile(q)
  <2> DEFINE new == [req[q] EXCEPT !.pc = IF req[q].kind = "repair" THEN "clear" ELSE "data"]
  <2>1. GoOn(q, new) /\ req[q].pc = "profile"
    BY <1>3 DEF SaveProfile, At
  <2>2. new \in Request /\ Placed(new)
    BY <1>0, <2>1 DEF Request, Placed, Writing
  <2>3. TablesTyped'
    BY <1>0, <1>2, <1>3, BlankTyped DEF TablesTyped, SaveProfile, Maybe
  <2> HIDE DEF new
  <2> QED BY <2>1, <2>2, <2>3, GoOnKeeps
<1>4. CASE CollectData(q)
  <2> DEFINE existing == IF profiles[req[q].user] = None THEN Blank ELSE profiles[req[q].user]
             data == Collected(req[q].view, req[q].entered, existing)
             new == [req[q] EXCEPT !.pc = "write", !.data = data]
  <2>1. GoOn(q, new) /\ req[q].pc = "data"
    BY <1>4 DEF CollectData, At
  <2>2. existing \in Data
    BY <1>0, <1>2, BlankTyped DEF TypeOK, Maybe
  <2>3. req[q].entered \in [Fields -> Values \cup {Empty}]
    BY <1>0 DEF Request
  <2>4. data \in Data
    <3> HIDE DEF existing
    <3> QED BY <2>2, <2>3, CollectedTyped
  <2> HIDE DEF data
  <2>5. new \in Request /\ Placed(new)
    BY <1>0, <2>1, <2>4 DEF Request, Placed, Writing
  <2>6. TablesTyped'
    BY <1>0, <1>4, TablesStay DEF CollectData, TypeOK
  <2> HIDE DEF new
  <2> QED BY <2>1, <2>5, <2>6, GoOnKeeps
<1>5. CASE RefuseData(q)
  BY <1>0, <1>5, TablesStay, GoOnKeeps, IdleTyped, IdlePlaced DEF RefuseData, TypeOK
<1>6. CASE WriteData(q)
  <2>1. req[q].data \in Data
    BY <1>0 DEF Request
  <2>2. TablesTyped'
    BY <1>0, <1>2, <1>6, <2>1 DEF TablesTyped, WriteData, Maybe
  <2> QED BY <1>6, <2>2, FinishKeeps DEF WriteData, At
<1>7. CASE DeleteProfile(q)
  <2> DEFINE new == [req[q] EXCEPT !.pc = "unuser"]
  <2>1. GoOn(q, new) /\ req[q].pc = "unprofile"
    BY <1>7 DEF DeleteProfile, At
  <2>2. new \in Request /\ Placed(new)
    BY <1>0, <2>1 DEF Request, Placed, Writing
  <2>3. TablesTyped'
    BY <1>0, <1>2, <1>7 DEF TablesTyped, DeleteProfile, Maybe
  <2> HIDE DEF new
  <2> QED BY <2>1, <2>2, <2>3, GoOnKeeps
<1>8. CASE DeleteUser(q)
  <2>1. TablesTyped'
    BY <1>0, <1>2, <1>8 DEF TablesTyped, DeleteUser, Maybe
  <2> QED BY <1>8, <2>1, FinishKeeps DEF DeleteUser, At
<1> QED BY <1>3, <1>4, <1>5, <1>6, <1>7, <1>8

LEMMA EndsTyped ==
    ASSUME Typed, NEW q \in Requests, CheckInitial(q) \/ Fail(q)
    PROVE  Typed'
<1>0. TypeOK /\ TablesTyped /\ req[q] \in Request /\ Placed(req[q])
  BY TypedParts DEF Typed, TypeOK
<1>1. TablesTyped'
  BY <1>0, TablesStay DEF CheckInitial, Fail, TypeOK
<1>2. CASE GoOn(q, Idle)
  BY <1>1, <1>2, GoOnKeeps, IdleTyped, IdlePlaced
<1>3. CASE CheckInitial(q) /\ rows[req[q].user] = None
  <2> DEFINE new == [req[q] EXCEPT !.pc = "form"]
  <2>1. GoOn(q, new) /\ req[q].pc = "seed"
    BY <1>3 DEF CheckInitial, At
  <2>2. new \in Request /\ Placed(new)
    BY <1>0, <2>1 DEF Request, Placed
  <2> HIDE DEF new
  <2> QED BY <1>1, <2>1, <2>2, GoOnKeeps
<1> QED BY <1>2, <1>3 DEF CheckInitial, Fail

\* A change of the fields that say nothing of the place.
LEMMA StaleTyped ==
    ASSUME NEW x \in Request, Placed(x), NEW R \in SUBSET Roles
    PROVE  [x EXCEPT !.stale = R] \in Request /\ Placed([x EXCEPT !.stale = R])
BY DEF Request, Placed

LEMMA OthersTyped ==
    ASSUME Typed,
           \/ \E r \in Roles, state \in {"enabled", "disabled"} : SaveRoleForm(r, state)
           \/ \E f \in Fields, definition \in Maybe(Definition) : EditField(f, definition)
           \/ \E u \in Users, l \in Logins, chosen \in SUBSET Roles, entered \in Entries(definitions) :
                 Complete(u, l, chosen, entered)
    PROVE  Typed'
<1>0. TypeOK /\ TablesTyped
  BY TypedParts DEF Typed
<1>1. ASSUME NEW q \in Requests PROVE req[q] \in Request /\ Placed(req[q])
  BY DEF Typed, TypeOK
<1>2. ASSUME NEW r \in Roles, NEW state \in {"enabled", "disabled"}, SaveRoleForm(r, state)
      PROVE  Typed'
  <2>1. ASSUME NEW q \in Requests PROVE req'[q] \in Request /\ Placed(req'[q])
    <3> DEFINE R == req[q].stale \cup ({r} \cap req[q].roles)
    <3>1. R \subseteq Roles
      BY <1>1 DEF Request
    <3>2. req'[q] = req[q] \/ req'[q] = [req[q] EXCEPT !.stale = R]
      BY <1>2 DEF SaveRoleForm
    <3> HIDE DEF R
    <3> QED BY <1>1, <3>1, <3>2, StaleTyped
  <2>2. req' \in [Requests -> Request]
    BY <1>0, <1>2, <2>1 DEF SaveRoleForm, TypeOK
  <2>3. TablesTyped'
    BY <1>0, <1>2, BegunTyped DEF TablesTyped, SaveRoleForm
  <2> QED BY <1>0, <1>2, <2>1, <2>2, <2>3 DEF Typed, TypeOK, TablesTyped, SaveRoleForm
<1>3. ASSUME NEW f \in Fields, NEW definition \in Maybe(Definition), EditField(f, definition)
      PROVE  Typed'
  <2>1. TablesTyped'
    BY <1>0, <1>3, BegunTyped DEF TablesTyped, EditField
  <2> QED BY <1>0, <1>3, <2>1 DEF Typed, TypeOK, TablesTyped, EditField
<1>4. ASSUME NEW u \in Users, NEW l \in Logins, NEW chosen \in SUBSET Roles,
             NEW entered \in Entries(definitions), Complete(u, l, chosen, entered)
      PROVE  Typed'
  <2> DEFINE others == {p \in Requests : req[p].pc \in Writing /\ req[p].user = u}
             old == IF profiles[u] = None THEN Blank ELSE profiles[u]
             data == IF Configured(definitions) = {} THEN old
                     ELSE Collected(definitions, entered, Blank)
             late == UNION {req[p].roles : p \in {p \in others : req[p].pc \in {"roles", "assign"}}}
  <2>1. ASSUME NEW p \in Requests PROVE req'[p] \in Request /\ Placed(req'[p])
    <3>1. req'[p] = req[p] \/ req'[p] = [req[p] EXCEPT !.alone = FALSE]
      BY <1>4 DEF Complete
    <3> QED BY <1>1, <3>1, PlacedAnyway, FALSE \in BOOLEAN
  <2>2. req' \in [Requests -> Request]
    <3>1. req' = [p \in Requests |-> req'[p]]
      BY <1>4 DEF Complete
    <3> QED BY <2>1, <3>1
  <2>3. data \in Data
    BY <1>0, BlankTyped, EntriesTyped, CollectedTyped DEF TypeOK, Maybe
  <2>4. late \subseteq Roles
    BY <1>1 DEF Request
  <2>5. /\ rows' = [rows EXCEPT ![u] = l]
        /\ profiles' = [profiles EXCEPT ![u] = data]
        /\ assigned' = (assigned \ ({u} \X Roles)) \cup ({u} \X chosen)
        /\ catalogue' = [r \in Roles |-> IF r \in chosen THEN "enabled" ELSE catalogue[r]]
        /\ granted' = [granted EXCEPT ![u] = chosen \cup late]
        /\ definitions' = definitions
    BY <1>4 DEF Complete
  <2>6. work' \in 0..MaxWork
    BY <1>0, <1>4, BegunTyped DEF Complete
  <2>7. TablesTyped'
    <3> HIDE DEF data, late
    <3>1. granted' \in [Users -> SUBSET Roles]
      BY <1>0, <2>4, <2>5 DEF TablesTyped
    <3>2. profiles' \in [Users -> Maybe(Data)] /\ rows' \in [Users -> Maybe(Logins)]
      BY <1>0, <2>3, <2>5 DEF TablesTyped, Maybe
    <3>3. assigned' \subseteq Users \X Roles
      BY <1>0, <2>5 DEF TablesTyped
    <3>4. catalogue' \in [Roles -> {"absent", "enabled", "disabled"}]
      BY <1>0, <2>5 DEF TablesTyped
    <3> QED BY <1>0, <2>5, <2>6, <3>1, <3>2, <3>3, <3>4 DEF TablesTyped
  <2>8. tangled' \subseteq Users /\ whole' \subseteq Users
    BY <1>0, <1>4 DEF TypeOK, Complete
  <2> QED BY <2>1, <2>2, <2>7, <2>8 DEF Typed, TypeOK, TablesTyped
<1> QED BY <1>2, <1>3, <1>4

\* The steps in the order of the proofs.
LEMMA Steps ==
    ASSUME Next
    PROVE  \/ \E q \in Requests :
                 \/ OpenUserForm(q) \/ OpenProfileForm(q) \/ BeginRepair(q) \/ BeginDelete(q)
                 \/ SubmitUser(q) \/ SubmitProfile(q)
                 \/ UpdateUser(q) \/ UpsertUser(q) \/ UpsertOther(q)
                 \/ ClearRoles(q) \/ DeleteRoles(q) \/ RolesDone(q)
                 \/ \E r \in Roles : SaveRole(q, r) \/ AssignRole(q, r) \/ SeedRole(q, r)
                 \/ SaveProfile(q) \/ CollectData(q) \/ RefuseData(q) \/ WriteData(q)
                 \/ DeleteProfile(q) \/ DeleteUser(q) \/ CheckInitial(q) \/ Fail(q)
           \/ \E r \in Roles, state \in {"enabled", "disabled"} : SaveRoleForm(r, state)
           \/ \E f \in Fields, definition \in Maybe(Definition) : EditField(f, definition)
           \/ \E u \in Users, l \in Logins, chosen \in SUBSET Roles, entered \in Entries(definitions) :
                 Complete(u, l, chosen, entered)
BY DEF Next

LEMMA NextTyped == Typed /\ [Next]_vars => Typed'
<1> SUFFICES ASSUME Typed, [Next]_vars PROVE Typed'
  OBVIOUS
<1>1. CASE Next
  BY <1>1, Steps, FormsTyped, SubmitTyped, UserRowTyped, ClearTyped, DoneTyped, RolesTyped,
     ProfileTyped, EndsTyped, OthersTyped
<1>2. CASE UNCHANGED vars
  BY <1>2 DEF Typed, TypeOK, vars
<1> QED BY <1>1, <1>2

THEOREM TypeCorrect == Spec => []Typed
BY InitTyped, NextTyped, PTL DEF Spec

\* Every reachable state has the declared types, for any users, logins, roles,
\* fields, values and requests.
THEOREM TypeSafety == Spec => []TypeOK
<1>1. Typed => TypeOK
  BY DEF Typed
<1> QED BY <1>1, TypeCorrect, PTL

-----------------------------------------------------------------------------
(* Disabled roles.  A request that still has to save a disabled role is a   *)
(* repair or has been opened before the role was disabled.                  *)

StaleOK(r) ==
    \A role \in r.roles : catalogue[role] = "disabled" => role \in r.stale \/ r.kind = "repair"

StaleInv == \A q \in Requests : StaleOK(req[q])

\* What a request may turn into without new reason to enable a role.
Milder(new, old) ==
    \/ new.roles = {} \/ new.roles \subseteq Offered \/ new.kind = "repair"
    \/ new.roles \subseteq old.roles /\ new.stale = old.stale /\ new.kind = old.kind

LEMMA MilderSame == ASSUME NEW x PROVE Milder(x, x)
BY DEF Milder

LEMMA IdleMilder == ASSUME NEW x PROVE Milder(Idle, x)
BY DEF Milder, Idle

LEMMA MilderStale ==
    ASSUME Typed, StaleInv,
           \A q \in Requests : Milder(req'[q], req[q]),
           \A r \in Roles : catalogue'[r] = "disabled" => catalogue[r] = "disabled",
           req' \in [Requests -> Request]
    PROVE  StaleInv'
<1> SUFFICES ASSUME NEW q \in Requests, NEW r \in req'[q].roles, catalogue'[r] = "disabled",
                    req'[q].kind # "repair"
             PROVE  r \in req'[q].stale
  BY DEF StaleInv, StaleOK
<1>1. r \in Roles
  BY DEF Request
<1>2. catalogue[r] = "disabled"
  BY <1>1
<1>3. r \notin Offered
  BY <1>2 DEF Offered
<1>4. r \in req[q].roles /\ req'[q].stale = req[q].stale /\ req'[q].kind = req[q].kind
  BY <1>3 DEF Milder
<1> QED BY <1>2, <1>4 DEF StaleInv, StaleOK

LEMMA GoOnMilder ==
    ASSUME Typed, NEW q \in Requests, NEW new, GoOn(q, new), Milder(new, req[q])
    PROVE  \A p \in Requests : Milder(req'[p], req[p])
BY MilderSame DEF GoOn, Typed, TypeOK

LEMMA EntersMilder ==
    ASSUME Typed, NEW q \in Requests, NEW u, NEW new \in Request, Enters(q, u, new),
           Milder(new, req[q])
    PROVE  \A p \in Requests : Milder(req'[p], req[p])
<1> TAKE p \in Requests
<1> DEFINE b == (Meets(q, u) = {})
<1>1. req[p] \in Request
  BY DEF Typed, TypeOK
<1>2. Milder([new EXCEPT !.alone = b], req[q])
  <2> HIDE DEF b
  <2> QED BY DEF Milder, Request
<1>3. Milder([req[p] EXCEPT !.alone = FALSE], req[p])
  BY <1>1 DEF Milder, Request
<1>4. CASE p = q
  BY <1>2, <1>4 DEF Enters
<1>5. CASE p # q
  BY <1>3, <1>5, MilderSame DEF Enters
<1> QED BY <1>4, <1>5

LEMMA FinishMilder ==
    ASSUME Typed, NEW q \in Requests, Finish(q)
    PROVE  \A p \in Requests : Milder(req'[p], req[p])
BY MilderSame, IdleMilder DEF Finish, Typed, TypeOK

LEMMA RequestStepMilder ==
    ASSUME Typed, NEW q \in Requests,
           \/ OpenUserForm(q) \/ OpenProfileForm(q) \/ BeginRepair(q) \/ BeginDelete(q)
           \/ SubmitUser(q) \/ SubmitProfile(q)
           \/ UpdateUser(q) \/ UpsertUser(q) \/ UpsertOther(q)
           \/ ClearRoles(q) \/ DeleteRoles(q) \/ RolesDone(q)
           \/ \E r \in Roles : SaveRole(q, r) \/ AssignRole(q, r) \/ SeedRole(q, r)
           \/ SaveProfile(q) \/ CollectData(q) \/ RefuseData(q) \/ WriteData(q)
           \/ DeleteProfile(q) \/ DeleteUser(q) \/ CheckInitial(q) \/ Fail(q)
    PROVE  \A p \in Requests : Milder(req'[p], req[p])
<1>0. req[q] \in Request /\ Placed(req[q]) /\ req \in [Requests -> Request] /\ Idle \in Request
  BY IdleTyped DEF Typed, TypeOK
<1>1. CASE OpenUserForm(q)
  <2>1. PICK u \in Users, l \in Logins, chosen \in SUBSET Offered, entered \in Entries(definitions) :
          GoOn(q, [Idle EXCEPT !.pc = "form", !.kind = "save", !.user = u, !.login = l,
                               !.roles = chosen, !.entered = entered])
    BY <1>1 DEF OpenUserForm
  <2> DEFINE new == [Idle EXCEPT !.pc = "form", !.kind = "save", !.user = u, !.login = l,
                                 !.roles = chosen, !.entered = entered]
  <2>2. Milder(new, req[q])
    BY DEF Milder, Idle
  <2> HIDE DEF new
  <2> QED BY <2>1, <2>2, GoOnMilder DEF new
<1>2. CASE OpenProfileForm(q)
  <2>1. PICK u \in Users, entered \in Entries(definitions) :
          GoOn(q, [Idle EXCEPT !.pc = "form", !.kind = "own", !.user = u, !.entered = entered])
    BY <1>2 DEF OpenProfileForm
  <2> DEFINE new == [Idle EXCEPT !.pc = "form", !.kind = "own", !.user = u, !.entered = entered]
  <2>2. Milder(new, req[q])
    BY DEF Milder, Idle
  <2> HIDE DEF new
  <2> QED BY <2>1, <2>2, GoOnMilder DEF new
<1>3. CASE BeginRepair(q)
  <2>1. PICK u \in Users, l \in Logins, chosen \in SUBSET Roles, seeds \in {{}, StandardRoles} :
          GoOn(q, [Idle EXCEPT !.pc = "seed", !.kind = "repair", !.user = u, !.login = l,
                               !.roles = chosen, !.seeds = seeds])
    BY <1>3 DEF BeginRepair
  <2> DEFINE new == [Idle EXCEPT !.pc = "seed", !.kind = "repair", !.user = u, !.login = l,
                                 !.roles = chosen, !.seeds = seeds]
  <2>2. Milder(new, req[q])
    BY DEF Milder, Idle
  <2> HIDE DEF new
  <2> QED BY <2>1, <2>2, GoOnMilder DEF new
<1>4. CASE BeginDelete(q)
  <2>1. PICK u \in Users :
          Enters(q, u, [Idle EXCEPT !.pc = "unassign", !.kind = "delete", !.user = u])
    BY <1>4 DEF BeginDelete
  <2> DEFINE new == [Idle EXCEPT !.pc = "unassign", !.kind = "delete", !.user = u]
  <2>2. Milder(new, req[q]) /\ new \in Request
    BY <1>0 DEF Milder, Idle, Request, Writing, Maybe
  <2> HIDE DEF new
  <2> QED BY <2>1, <2>2, EntersMilder DEF new
<1>5. CASE SubmitUser(q)
  <2> DEFINE pc == IF rows[req[q].user] = None THEN "insert" ELSE "update"
             new == [req[q] EXCEPT !.pc = pc, !.view = definitions]
  <2>1. Enters(q, req[q].user, new)
    BY <1>5 DEF SubmitUser
  <2>2. pc \in {"insert", "update"} /\ definitions \in [Fields -> Maybe(Definition)]
    BY DEF Typed, TypeOK
  <2> HIDE DEF pc
  <2>3. new \in Request /\ Milder(new, req[q])
    BY <1>0, <2>2 DEF Milder, Request, Writing
  <2> HIDE DEF new
  <2> QED BY <2>1, <2>3, EntersMilder
<1>6. CASE SubmitProfile(q)
  <2> TAKE p \in Requests
  <2>1. req[p] \in Request
    BY <1>0
  <2>2. req[q].kind = "own" /\ req[q].roles = {}
    BY <1>0, <1>6 DEF SubmitProfile, Placed
  <2>3. p = q => req'[p].roles = req[q].roles
    BY <1>0, <1>6 DEF SubmitProfile, Request
  <2>4. p # q => req'[p] = req[p] \/ req'[p] = [req[p] EXCEPT !.alone = FALSE]
    BY <1>6 DEF SubmitProfile
  <2> QED BY <2>1, <2>2, <2>3, <2>4 DEF Milder, Request
<1>7. CASE UpdateUser(q) \/ UpsertUser(q)
  <2> DEFINE new == [req[q] EXCEPT !.pc = AfterRow(q), !.login = None]
  <2>1. GoOn(q, new)
    BY <1>7 DEF UpdateUser, UpsertUser
  <2>2. Milder(new, req[q])
    BY <1>0 DEF Milder, Request
  <2> HIDE DEF new
  <2> QED BY <2>1, <2>2, GoOnMilder
<1>8. CASE UpsertOther(q) \/ ClearRoles(q) \/ DeleteRoles(q)
  <2> TAKE p \in Requests
  <2>1. req[p] \in Request
    BY <1>0
  <2>2. ASSUME NEW x \in Request, NEW pc
        PROVE  /\ Milder([x EXCEPT !.pc = pc], x)
               /\ Milder([x EXCEPT !.pc = pc, !.login = None, !.alone = FALSE], x)
    BY DEF Milder, Request
  <2>3. p # q => req'[p] = req[p]
    BY <1>0, <1>8 DEF UpsertOther, ClearRoles, DeleteRoles
  <2>4. UpsertOther(q) =>
          req'[q] = [req[q] EXCEPT !.pc = AfterRow(q), !.login = None, !.alone = FALSE]
    BY <1>0 DEF UpsertOther, Request
  <2>5. /\ ClearRoles(q) => req'[q] = [req[q] EXCEPT !.pc = "roles"]
        /\ DeleteRoles(q) => req'[q] = [req[q] EXCEPT !.pc = "unprofile"]
    BY <1>0 DEF ClearRoles, DeleteRoles
  <2>6. CASE p = q
    <3>1. /\ Milder([req[q] EXCEPT !.pc = "roles"], req[q])
          /\ Milder([req[q] EXCEPT !.pc = "unprofile"], req[q])
          /\ Milder([req[q] EXCEPT !.pc = AfterRow(q), !.login = None, !.alone = FALSE], req[q])
      BY <1>0, <2>2
    <3> QED BY <1>8, <2>4, <2>5, <2>6, <3>1
  <2>7. CASE p # q
    BY <2>3, <2>7, MilderSame
  <2> QED BY <2>6, <2>7
<1>9. ASSUME NEW r \in Roles, SaveRole(q, r) \/ AssignRole(q, r) \/ SeedRole(q, r)
      PROVE  \A p \in Requests : Milder(req'[p], req[p])
  <2>1. CASE SaveRole(q, r)
    <3>1. Milder([req[q] EXCEPT !.pc = "assign", !.seeds = {r}], req[q])
      BY <1>0 DEF Milder, Request
    <3> QED BY <2>1, <3>1, GoOnMilder DEF SaveRole
  <2>2. CASE AssignRole(q, r)
    <3>1. Milder([req[q] EXCEPT !.pc = "roles", !.roles = @ \ {r}, !.seeds = {}], req[q])
      BY <1>0 DEF Milder, Request
    <3> QED BY <2>2, <3>1, GoOnMilder DEF AssignRole
  <2>3. CASE SeedRole(q, r)
    <3>1. Milder([req[q] EXCEPT !.seeds = @ \ {r}], req[q])
      BY <1>0 DEF Milder, Request
    <3> QED BY <2>3, <3>1, GoOnMilder DEF SeedRole
  <2> QED BY <1>9, <2>1, <2>2, <2>3
<1>10. CASE RolesDone(q) \/ SaveProfile(q) \/ DeleteProfile(q) \/ CheckInitial(q)
  <2>1. ASSUME NEW pc, GoOn(q, [req[q] EXCEPT !.pc = pc])
        PROVE  \A p \in Requests : Milder(req'[p], req[p])
    <3>1. Milder([req[q] EXCEPT !.pc = pc], req[q])
      BY <1>0 DEF Milder, Request
    <3> QED BY <2>1, <3>1, GoOnMilder
  <2>2. CASE RolesDone(q)
    BY <2>1, <2>2, FinishMilder DEF RolesDone
  <2>3. CASE SaveProfile(q)
    BY <2>1, <2>3 DEF SaveProfile
  <2>4. CASE DeleteProfile(q)
    BY <2>1, <2>4 DEF DeleteProfile
  <2>5. CASE CheckInitial(q)
    BY <2>1, <2>5, IdleMilder, GoOnMilder DEF CheckInitial
  <2> QED BY <1>10, <2>2, <2>3, <2>4, <2>5
<1>11. CASE CollectData(q)
  <2> DEFINE existing == IF profiles[req[q].user] = None THEN Blank ELSE profiles[req[q].user]
             data == Collected(req[q].view, req[q].entered, existing)
             new == [req[q] EXCEPT !.pc = "write", !.data = data]
  <2>1. GoOn(q, new)
    BY <1>11 DEF CollectData
  <2> HIDE DEF data
  <2>2. Milder(new, req[q])
    BY <1>0 DEF Milder, Request
  <2> HIDE DEF new
  <2> QED BY <2>1, <2>2, GoOnMilder
<1>12. CASE RefuseData(q) \/ Fail(q)
  BY <1>12, IdleMilder, GoOnMilder DEF RefuseData, Fail
<1>13. CASE WriteData(q) \/ DeleteUser(q)
  BY <1>13, FinishMilder DEF WriteData, DeleteUser
<1> QED BY <1>1, <1>2, <1>3, <1>4, <1>5, <1>6, <1>7, <1>8, <1>9, <1>10, <1>11, <1>12, <1>13

\* Only two kinds of statement of a request write the catalogue.
LEMMA RequestStepCatalogue ==
    ASSUME NEW q \in Requests,
           \/ OpenUserForm(q) \/ OpenProfileForm(q) \/ BeginRepair(q) \/ BeginDelete(q)
           \/ SubmitUser(q) \/ SubmitProfile(q)
           \/ UpdateUser(q) \/ UpsertUser(q) \/ UpsertOther(q)
           \/ ClearRoles(q) \/ DeleteRoles(q) \/ RolesDone(q)
           \/ \E r \in Roles : SaveRole(q, r) \/ AssignRole(q, r) \/ SeedRole(q, r)
           \/ SaveProfile(q) \/ CollectData(q) \/ RefuseData(q) \/ WriteData(q)
           \/ DeleteProfile(q) \/ DeleteUser(q) \/ CheckInitial(q) \/ Fail(q)
    PROVE  \/ catalogue' = catalogue
           \/ \E r \in Roles : /\ SaveRole(q, r) \/ SeedRole(q, r)
                               /\ catalogue' = [catalogue EXCEPT ![r] = "enabled"]
BY DEF OpenUserForm, OpenProfileForm, BeginRepair, BeginDelete, SubmitUser, SubmitProfile,
       UpdateUser, UpsertUser, UpsertOther, ClearRoles, DeleteRoles, RolesDone, SaveRole,
       AssignRole, SeedRole, SaveProfile, CollectData, RefuseData, WriteData, DeleteProfile,
       DeleteUser, CheckInitial, Fail, tables

LEMMA NextStale == Typed /\ StaleInv /\ [Next]_vars => StaleInv'
<1> SUFFICES ASSUME Typed, StaleInv, [Next]_vars PROVE StaleInv'
  OBVIOUS
<1>0. Typed'
  BY NextTyped
<1>t. /\ req \in [Requests -> Request] /\ req' \in [Requests -> Request]
      /\ catalogue \in [Roles -> {"absent", "enabled", "disabled"}]
  BY <1>0 DEF Typed, TypeOK
<1>1. CASE \E q \in Requests :
             \/ OpenUserForm(q) \/ OpenProfileForm(q) \/ BeginRepair(q) \/ BeginDelete(q)
             \/ SubmitUser(q) \/ SubmitProfile(q)
             \/ UpdateUser(q) \/ UpsertUser(q) \/ UpsertOther(q)
             \/ ClearRoles(q) \/ DeleteRoles(q) \/ RolesDone(q)
             \/ \E r \in Roles : SaveRole(q, r) \/ AssignRole(q, r) \/ SeedRole(q, r)
             \/ SaveProfile(q) \/ CollectData(q) \/ RefuseData(q) \/ WriteData(q)
             \/ DeleteProfile(q) \/ DeleteUser(q) \/ CheckInitial(q) \/ Fail(q)
  <2>1. \A p \in Requests : Milder(req'[p], req[p])
    BY <1>1, RequestStepMilder
  <2>2. catalogue' = catalogue \/ \E r \in Roles : catalogue' = [catalogue EXCEPT ![r] = "enabled"]
    BY <1>1, RequestStepCatalogue
  <2>3. \A r \in Roles : catalogue'[r] = "disabled" => catalogue[r] = "disabled"
    BY <1>t, <2>2
  <2> QED BY <1>t, <2>1, <2>3, MilderStale
<1>2. ASSUME NEW r \in Roles, NEW state \in {"enabled", "disabled"}, SaveRoleForm(r, state)
      PROVE  StaleInv'
  <2> SUFFICES ASSUME NEW q \in Requests, NEW role \in req'[q].roles,
                      catalogue'[role] = "disabled", req'[q].kind # "repair"
               PROVE  role \in req'[q].stale
    BY DEF StaleInv, StaleOK
  <2>1. req[q] \in Request /\ role \in Roles
    BY <1>t DEF Request
  <2>2. /\ req'[q].roles = req[q].roles /\ req'[q].kind = req[q].kind
        /\ req[q].stale \subseteq req'[q].stale
        /\ state = "disabled" => {r} \cap req[q].roles \subseteq req'[q].stale
    BY <1>2, <2>1 DEF SaveRoleForm, Request
  <2>3. catalogue' = [catalogue EXCEPT ![r] = state]
    BY <1>2 DEF SaveRoleForm
  <2>4. CASE role = r
    BY <1>t, <2>2, <2>3, <2>4
  <2>5. CASE role # r
    <3>1. catalogue[role] = "disabled"
      BY <1>t, <2>1, <2>3, <2>5
    <3> QED BY <2>2, <3>1 DEF StaleInv, StaleOK
  <2> QED BY <2>4, <2>5
<1>3. ASSUME NEW f \in Fields, NEW definition \in Maybe(Definition), EditField(f, definition)
      PROVE  StaleInv'
  BY <1>3 DEF EditField, StaleInv, StaleOK
<1>4. ASSUME NEW u \in Users, NEW l \in Logins, NEW chosen \in SUBSET Roles,
             NEW entered \in Entries(definitions), Complete(u, l, chosen, entered)
      PROVE  StaleInv'
  <2>1. ASSUME NEW p \in Requests PROVE Milder(req'[p], req[p])
    <3>1. req[p] \in Request
      BY <1>t
    <3>2. req'[p] = req[p] \/ req'[p] = [req[p] EXCEPT !.alone = FALSE]
      BY <1>4 DEF Complete
    <3>3. Milder([req[p] EXCEPT !.alone = FALSE], req[p])
      BY <3>1 DEF Milder, Request
    <3> QED BY <3>2, <3>3, MilderSame
  <2>2. \A r \in Roles : catalogue'[r] = "disabled" => catalogue[r] = "disabled"
    BY <1>4 DEF Complete
  <2> QED BY <1>t, <2>1, <2>2, MilderStale
<1>5. CASE UNCHANGED vars
  BY <1>5 DEF vars, StaleInv, StaleOK
<1> QED BY <1>1, <1>2, <1>3, <1>4, <1>5, Steps

LEMMA InitStale == Init => StaleInv
BY DEF Init, StaleInv, StaleOK, Idle

LEMMA DisabledStep ==
    ASSUME Typed, StaleInv, Next, NEW r \in Roles,
           catalogue[r] = "disabled", catalogue'[r] = "enabled"
    PROVE  \/ \E q \in Requests : /\ req[q].pc \in {"roles", "seed"}
                                  /\ r \in req[q].stale \/ req[q].kind = "repair"
           \/ work' = work + 1
<1>t. catalogue \in [Roles -> {"absent", "enabled", "disabled"}]
  BY DEF Typed, TypeOK
<1>1. CASE \E q \in Requests :
             \/ OpenUserForm(q) \/ OpenProfileForm(q) \/ BeginRepair(q) \/ BeginDelete(q)
             \/ SubmitUser(q) \/ SubmitProfile(q)
             \/ UpdateUser(q) \/ UpsertUser(q) \/ UpsertOther(q)
             \/ ClearRoles(q) \/ DeleteRoles(q) \/ RolesDone(q)
             \/ \E role \in Roles : SaveRole(q, role) \/ AssignRole(q, role) \/ SeedRole(q, role)
             \/ SaveProfile(q) \/ CollectData(q) \/ RefuseData(q) \/ WriteData(q)
             \/ DeleteProfile(q) \/ DeleteUser(q) \/ CheckInitial(q) \/ Fail(q)
  <2>1. PICK q \in Requests, role \in Roles :
          /\ SaveRole(q, role) \/ SeedRole(q, role)
          /\ catalogue' = [catalogue EXCEPT ![role] = "enabled"]
    BY <1>1, RequestStepCatalogue
  <2>2. role = r
    BY <1>t, <2>1
  <2>3. CASE SaveRole(q, role)
    <3>1. req[q].pc = "roles" /\ r \in req[q].roles
      BY <2>2, <2>3 DEF SaveRole, At
    <3>2. r \in req[q].stale \/ req[q].kind = "repair"
      BY <3>1 DEF StaleInv, StaleOK
    <3> QED BY <3>1, <3>2
  <2>4. CASE SeedRole(q, role)
    <3>1. req[q].pc = "seed" /\ req[q].kind = "repair"
      BY <2>4 DEF SeedRole, At, Typed, Placed
    <3> QED BY <3>1
  <2> QED BY <2>1, <2>3, <2>4
<1>2. CASE \/ \E role \in Roles, state \in {"enabled", "disabled"} : SaveRoleForm(role, state)
           \/ \E f \in Fields, definition \in Maybe(Definition) : EditField(f, definition)
           \/ \E u \in Users, l \in Logins, chosen \in SUBSET Roles, entered \in Entries(definitions) :
                 Complete(u, l, chosen, entered)
  BY <1>2 DEF SaveRoleForm, EditField, Complete, Begun
<1> QED BY <1>1, <1>2, Steps

\* A disabled role is enabled again only through the role form, by a repair, by an
\* invitation or by a form rendered before it was disabled.
THEOREM DisabledSafety == Spec => RoleStaysDisabled
<1>1. Typed /\ StaleInv /\ [Next]_vars =>
        [\A r \in Roles :
            catalogue[r] = "disabled" /\ catalogue'[r] = "enabled" =>
                \/ \E q \in Requests : /\ req[q].pc \in {"roles", "seed"}
                                       /\ r \in req[q].stale \/ req[q].kind = "repair"
                \/ work' = work + 1]_vars
  BY DisabledStep
<1>2. Spec => [](Typed /\ StaleInv)
  BY InitTyped, InitStale, NextTyped, NextStale, PTL DEF Spec
<1> QED BY <1>1, <1>2, PTL DEF Spec, RoleStaysDisabled

-----------------------------------------------------------------------------
(* Rows, roles and stored values.  A request that is alone with its user    *)
(* may count on what it has done so far; what the others do to the user is  *)
(* only bounded by the history.                                             *)

Writes(q) == req[q].pc \in Writing

\* A request that is not alone has tangled its user, and whoever shares a user
\* with another is not alone.
Apart ==
    /\ \A q \in Requests : Writes(q) /\ ~req[q].alone => req[q].user \in tangled
    /\ \A p, q \in Requests :
          p # q /\ Writes(p) /\ Writes(q) /\ req[p].user = req[q].user => ~req[p].alone

Saving == {"update", "clear", "roles", "assign", "profile", "data", "write"}

\* A request that may count on what it has done to its user.
Counts(q) ==
    Writes(q) /\ req[q].alone /\ (req[q].kind = "own" => req[q].user \notin tangled)

RowsOK(q) ==
    Counts(q) =>
        /\ req[q].pc \in Saving => rows[req[q].user] # None
        /\ req[q].pc \in {"unprofile", "unuser"} => Assigned(req[q].user) = {}
        /\ req[q].pc = "unuser" => profiles[req[q].user] = None

RolesOK(q) ==
    /\ req[q].pc \in {"roles", "assign"} =>
          req[q].roles \subseteq granted[req[q].user] /\ req[q].user \notin whole
    /\ Counts(q) /\ req[q].kind # "own" =>
          /\ req[q].pc \in {"roles", "assign"} =>
                granted[req[q].user] \subseteq Assigned(req[q].user) \cup req[q].roles
          /\ req[q].kind = "save" /\ req[q].pc \in {"profile", "data", "write"} =>
                granted[req[q].user] \subseteq Assigned(req[q].user)
          /\ req[q].pc \in {"unprofile", "unuser"} => granted[req[q].user] = {}

DataOK(q) ==
    req[q].pc = "write" /\ req[q].alone /\ profiles[req[q].user] # None =>
        req[q].data = Collected(req[q].view, req[q].entered, profiles[req[q].user])

OrphanOK(u) ==
    u \notin tangled /\ rows[u] = None => Assigned(u) = {} /\ profiles[u] = None

HoldsOK(u) ==
    /\ Assigned(u) \subseteq granted[u]
    /\ u \in whole => granted[u] \subseteq Assigned(u)

AdminInv ==
    /\ Apart
    /\ \A q \in Requests : RowsOK(q) /\ RolesOK(q) /\ DataOK(q)
    /\ \A u \in Users : OrphanOK(u) /\ HoldsOK(u)

LEMMA InitAdmin == Init => AdminInv
<1> SUFFICES ASSUME Init PROVE AdminInv
  OBVIOUS
<1>1. \A q \in Requests : req[q] = Idle
  BY DEF Init
<1>2. \A q \in Requests : req[q].pc = "idle"
  BY <1>1 DEF Idle
<1>3. Apart /\ \A q \in Requests : RowsOK(q) /\ RolesOK(q) /\ DataOK(q)
  BY <1>2 DEF Apart, Writes, Writing, RowsOK, RolesOK, DataOK, Counts
<1>4. PICK u \in Users, l \in Logins, have \in SUBSET Roles, stored \in [Fields -> Maybe(Values)] :
        /\ rows = [v \in Users |-> IF v = u THEN l ELSE None]
        /\ profiles = [v \in Users |-> IF v = u THEN stored ELSE None]
        /\ assigned = {u} \X have
        /\ granted = [v \in Users |-> IF v = u THEN have ELSE {}]
  BY DEF Init
<1>5. ASSUME NEW v \in Users PROVE OrphanOK(v) /\ HoldsOK(v)
  <2>1. Assigned(v) = granted[v]
    BY <1>4 DEF Assigned
  <2>2. rows[v] = None => v # u
    BY <1>4, UserAdminAssumption
  <2>3. v # u => granted[v] = {} /\ profiles[v] = None
    BY <1>4
  <2> QED BY <2>1, <2>2, <2>3 DEF OrphanOK, HoldsOK
<1> QED BY <1>3, <1>5 DEF AdminInv

\* A step that leaves the rows and the history alone and begins no writing.
LEMMA QuietKeeps ==
    ASSUME AdminInv,
           UNCHANGED <<rows, profiles, assigned, granted, tangled, whole>>,
           \A p \in Requests :
              \/ req'[p].pc \notin Writing
              \/ /\ req'[p].pc = req[p].pc /\ req'[p].kind = req[p].kind
                 /\ req'[p].user = req[p].user /\ req'[p].roles = req[p].roles
                 /\ req'[p].entered = req[p].entered /\ req'[p].view = req[p].view
                 /\ req'[p].data = req[p].data /\ req'[p].alone = req[p].alone
    PROVE  AdminInv'
<1>1. Apart'
  BY DEF AdminInv, Apart, Writes
<1>2. ASSUME NEW p \in Requests PROVE RowsOK(p)' /\ RolesOK(p)' /\ DataOK(p)'
  <2>1. CASE req'[p].pc \notin Writing
    BY <2>1 DEF RowsOK, RolesOK, DataOK, Counts, Writes, Writing
  <2>2. CASE /\ req'[p].pc = req[p].pc /\ req'[p].kind = req[p].kind
             /\ req'[p].user = req[p].user /\ req'[p].roles = req[p].roles
             /\ req'[p].entered = req[p].entered /\ req'[p].view = req[p].view
             /\ req'[p].data = req[p].data /\ req'[p].alone = req[p].alone
    <3>1. RowsOK(p) /\ RolesOK(p) /\ DataOK(p)
      BY DEF AdminInv
    <3>2. \A u : Assigned(u)' = Assigned(u)
      BY DEF Assigned
    <3>3. RowsOK(p)'
      BY <2>2, <3>1, <3>2 DEF RowsOK, Counts, Writes
    <3>4. RolesOK(p)'
      BY <2>2, <3>1, <3>2 DEF RolesOK, Counts, Writes
    <3>5. DataOK(p)'
      BY <2>2, <3>1 DEF DataOK, Collected, Active, Configured
    <3> QED BY <3>3, <3>4, <3>5
  <2> QED BY <2>1, <2>2
<1>3. ASSUME NEW u \in Users PROVE OrphanOK(u)' /\ HoldsOK(u)'
  BY DEF AdminInv, OrphanOK, HoldsOK, Assigned
<1> QED BY <1>1, <1>2, <1>3 DEF AdminInv

\* What a step does not touch of a user.
Untouched(v) ==
    /\ rows'[v] = rows[v] /\ profiles'[v] = profiles[v] /\ Assigned(v)' = Assigned(v)
    /\ granted'[v] = granted[v]
    /\ v \in tangled' <=> v \in tangled
    /\ v \in whole' <=> v \in whole

\* The invariant of one request depends on itself and on the rows of its user.
LEMMA SameKeeps ==
    ASSUME AdminInv, NEW p \in Requests, req'[p] = req[p], Writes(p) => Untouched(req[p].user)
    PROVE  RowsOK(p)' /\ RolesOK(p)' /\ DataOK(p)'
<1>1. RowsOK(p) /\ RolesOK(p) /\ DataOK(p)
  BY DEF AdminInv
<1>2. CASE ~Writes(p)
  BY <1>2 DEF RowsOK, RolesOK, DataOK, Counts, Writes, Writing
<1>3. CASE Writes(p)
  <2>1. RowsOK(p)'
    BY <1>1, <1>3 DEF RowsOK, Counts, Writes, Untouched
  <2>2. RolesOK(p)'
    BY <1>1, <1>3 DEF RolesOK, Counts, Writes, Untouched
  <2>3. DataOK(p)'
    BY <1>1, <1>3 DEF DataOK, Untouched
  <2> QED BY <2>1, <2>2, <2>3
<1> QED BY <1>2, <1>3

LEMMA UntouchedKeeps ==
    ASSUME AdminInv, NEW v \in Users, Untouched(v)
    PROVE  OrphanOK(v)' /\ HoldsOK(v)'
BY DEF AdminInv, Untouched, OrphanOK, HoldsOK

\* A request that is not alone answers for little.
LEMMA NotAloneKeeps ==
    ASSUME NEW p \in Requests, ~req'[p].alone,
           req'[p].pc \in {"roles", "assign"} =>
              req'[p].roles \subseteq granted'[req'[p].user] /\ req'[p].user \notin whole'
    PROVE  RowsOK(p)' /\ RolesOK(p)' /\ DataOK(p)'
BY DEF RowsOK, RolesOK, DataOK, Counts

\* A statement of request q on the rows of its user u.
LEMMA StatementKeeps ==
    ASSUME Typed, AdminInv, NEW q \in Requests, NEW u \in Users, Writes(q), req[q].user = u,
           \A p \in Requests \ {q} : req'[p] = req[p],
           req'[q].pc \in Writing =>
              /\ req'[q].user = u
              /\ req'[q].alone => req[q].alone
              /\ ~req'[q].alone => ~req[q].alone \/ u \in tangled',
           \A v \in Users \ {u} : Untouched(v),
           u \in tangled /\ u \notin tangled' => req[q].alone,
           u \in whole' /\ u \notin whole => req[q].alone,
           \A p \in Requests \ {q} : req[p].pc \in {"roles", "assign"} /\ req[p].user = u =>
              req[p].roles \subseteq granted'[u],
           RowsOK(q)' /\ RolesOK(q)' /\ DataOK(q)', OrphanOK(u)' /\ HoldsOK(u)'
    PROVE  AdminInv'
<1>1. ASSUME NEW p \in Requests, p # q, Writes(p), req[p].user = u
      PROVE  ~req[p].alone /\ ~req[q].alone /\ u \in tangled'
  <2>1. ~req[p].alone /\ ~req[q].alone /\ u \in tangled
    BY <1>1 DEF AdminInv, Apart
  <2> QED BY <2>1
<1>2. ASSUME NEW p \in Requests, Writes(p) PROVE req[p].user \in Users
  BY <1>2 DEF Typed, Placed, Writes, Writing
<1>3. ASSUME NEW p \in Requests, p # q PROVE RowsOK(p)' /\ RolesOK(p)' /\ DataOK(p)'
  <2>0. req'[p] = req[p]
    BY <1>3
  <2>1. CASE Writes(p) /\ req[p].user = u
    <3>1. ~req'[p].alone
      BY <1>1, <1>3, <2>0, <2>1
    <3>2. req[p].pc \in {"roles", "assign"} => u \notin whole
      BY <2>1 DEF AdminInv, RolesOK
    <3>3. req[p].pc \in {"roles", "assign"} => u \notin whole'
      BY <1>1, <1>3, <2>1, <3>2
    <3> QED BY <1>3, <2>0, <2>1, <3>1, <3>3, NotAloneKeeps
  <2>2. CASE ~(Writes(p) /\ req[p].user = u)
    BY <1>2, <2>0, <2>2, SameKeeps
  <2> QED BY <2>1, <2>2
<1>4. Apart'
  <2>1. ASSUME NEW p \in Requests, req'[p].pc \in Writing, ~req'[p].alone
        PROVE  req'[p].user \in tangled'
    <3>1. CASE p = q
      <4>1. ~req[q].alone => u \in tangled
        BY DEF AdminInv, Apart
      <4> QED BY <2>1, <3>1, <4>1
    <3>2. CASE p # q
      <4>1. req'[p] = req[p] /\ Writes(p) /\ req[p].user \in tangled
        BY <2>1, <3>2 DEF AdminInv, Apart, Writes
      <4>2. CASE req[p].user = u
        BY <1>1, <3>2, <4>1, <4>2
      <4>3. CASE req[p].user # u
        BY <1>2, <4>1, <4>3 DEF Untouched
      <4> QED BY <4>2, <4>3
    <3> QED BY <3>1, <3>2
  <2>2. ASSUME NEW p \in Requests, NEW r \in Requests, p # r,
               req'[p].pc \in Writing, req'[r].pc \in Writing, req'[p].user = req'[r].user
        PROVE  ~req'[p].alone
    <3>1. Writes(p) /\ Writes(r) /\ req[p].user = req[r].user
      BY <2>2 DEF Writes
    <3>2. ~req[p].alone
      BY <2>2, <3>1 DEF AdminInv, Apart
    <3> QED BY <2>2, <3>2
  <2> QED BY <2>1, <2>2 DEF Apart, Writes
<1>5. \A v \in Users : OrphanOK(v)' /\ HoldsOK(v)'
  BY UntouchedKeeps
<1> QED BY <1>3, <1>4, <1>5 DEF AdminInv

\* Request q begins to write user u.
LEMMA EnteringKeeps ==
    ASSUME Typed, AdminInv, NEW q \in Requests, NEW u \in Users, ~Writes(q),
           UNCHANGED <<rows, profiles, assigned, granted, whole>>,
           \A p \in Requests \ {q} :
              req'[p] = IF p \in Meets(q, u) THEN [req[p] EXCEPT !.alone = FALSE] ELSE req[p],
           tangled' \in {tangled, tangled \cup {u}},
           Meets(q, u) # {} => u \in tangled',
           req'[q].pc \in {"update", "insert", "profile", "unassign"},
           req'[q].user = u, req'[q].alone <=> Meets(q, u) = {},
           req'[q].pc = "profile" => req'[q].kind = "own",
           req'[q].pc = "update" => rows[u] # None,
           req'[q].pc = "profile" => rows[u] # None \/ u \in tangled'
    PROVE  AdminInv'
<1>0. ASSUME NEW p \in Requests PROVE req[p] \in Request /\ (Writes(p) => req[p].user \in Users)
  BY DEF Typed, TypeOK, Placed, Writes, Writing
<1>1. ASSUME NEW p \in Requests, p # q
      PROVE  /\ req'[p].pc = req[p].pc /\ req'[p].user = req[p].user /\ req'[p].roles = req[p].roles
             /\ ~req[p].alone => ~req'[p].alone
             /\ Writes(p) /\ req[p].user = u => ~req'[p].alone
             /\ Writes(p) /\ req[p].user # u => req'[p] = req[p]
  <2>1. CASE p \in Meets(q, u)
    <3>1. req'[p] = [req[p] EXCEPT !.alone = FALSE]
      BY <1>1, <2>1
    <3>2. req[p].user = u
      BY <2>1 DEF Meets
    <3> QED BY <1>0, <3>1, <3>2 DEF Request
  <2>2. CASE p \notin Meets(q, u)
    BY <1>1, <2>2 DEF Meets, Writes
  <2> QED BY <2>1, <2>2
<1>2. \A v : Assigned(v)' = Assigned(v)
  BY DEF Assigned
<1>3. ASSUME NEW p \in Requests PROVE RowsOK(p)' /\ RolesOK(p)' /\ DataOK(p)'
  <2>1. CASE p = q
    <3>1. RowsOK(q)'
      BY DEF RowsOK, Counts, Saving
    <3>2. RolesOK(q)'
      BY DEF RolesOK
    <3>3. DataOK(q)'
      BY DEF DataOK
    <3> QED BY <2>1, <3>1, <3>2, <3>3
  <2>2. CASE p # q /\ Writes(p) /\ req[p].user = u
    <3>1. req[p].pc \in {"roles", "assign"} =>
             req[p].roles \subseteq granted[u] /\ u \notin whole
      BY <2>2 DEF AdminInv, RolesOK
    <3> QED BY <1>1, <2>2, <3>1, NotAloneKeeps
  <2>3. CASE p # q /\ Writes(p) /\ req[p].user # u
    BY <1>0, <1>1, <1>2, <2>3, SameKeeps DEF Untouched
  <2>4. CASE p # q /\ ~Writes(p)
    <3>1. req'[p].pc \notin Writing
      BY <1>1, <2>4 DEF Writes
    <3> QED BY <3>1 DEF RowsOK, RolesOK, DataOK, Counts, Writes, Writing
  <2> QED BY <2>1, <2>2, <2>3, <2>4
<1>4. Apart'
  <2>1. ASSUME NEW p \in Requests, req'[p].pc \in Writing, ~req'[p].alone
        PROVE  req'[p].user \in tangled'
    <3>1. CASE p = q
      BY <2>1, <3>1
    <3>2. CASE p # q /\ req[p].user = u
      <4>1. Writes(p)
        BY <1>1, <2>1, <3>2 DEF Writes
      <4>2. p \in Meets(q, u)
        BY <3>2, <4>1 DEF Meets, Writes
      <4> QED BY <1>1, <3>2, <4>2
    <3>3. CASE p # q /\ req[p].user # u
      <4>1. Writes(p) /\ req'[p] = req[p]
        BY <1>1, <2>1, <3>3 DEF Writes
      <4> QED BY <2>1, <4>1 DEF AdminInv, Apart
    <3> QED BY <3>1, <3>2, <3>3
  <2>2. ASSUME NEW p \in Requests, NEW r \in Requests, p # r,
               req'[p].pc \in Writing, req'[r].pc \in Writing, req'[p].user = req'[r].user
        PROVE  ~req'[p].alone
    <3>1. CASE p = q
      <4>1. r \in Meets(q, u)
        BY <1>1, <2>2, <3>1 DEF Meets
      <4> QED BY <3>1, <4>1
    <3>2. CASE r = q
      BY <1>1, <2>2, <3>2 DEF Writes
    <3>3. CASE p # q /\ r # q
      <4>1. Writes(p) /\ Writes(r) /\ req[p].user = req[r].user
        BY <1>1, <2>2, <3>3 DEF Writes
      <4>2. ~req[p].alone
        BY <2>2, <4>1 DEF AdminInv, Apart
      <4> QED BY <1>1, <3>3, <4>2
    <3> QED BY <3>1, <3>2, <3>3
  <2> QED BY <2>1, <2>2 DEF Apart, Writes
<1>5. ASSUME NEW v \in Users PROVE OrphanOK(v)' /\ HoldsOK(v)'
  <2>1. OrphanOK(v) /\ HoldsOK(v)
    BY DEF AdminInv
  <2> QED BY <1>2, <2>1 DEF OrphanOK, HoldsOK
<1> QED BY <1>3, <1>4, <1>5 DEF AdminInv

LEMMA EntersAdmin ==
    ASSUME Typed, AdminInv, NEW q \in Requests,
           SubmitUser(q) \/ SubmitProfile(q) \/ BeginDelete(q)
    PROVE  AdminInv'
<1>0. /\ req \in [Requests -> Request] /\ req[q] \in Request /\ Placed(req[q])
      /\ Idle \in Request
  BY IdleTyped DEF Typed, TypeOK
<1>1. ~Writes(q)
  BY DEF SubmitUser, SubmitProfile, BeginDelete, At, Writes, Writing
<1>2. UNCHANGED <<rows, profiles, assigned, granted, whole>>
  BY DEF SubmitUser, SubmitProfile, BeginDelete, tables
<1>3. ASSUME NEW u \in Users, NEW new \in Request, Enters(q, u, new), new.user = u,
             new.pc \in {"update", "insert", "unassign"},
             new.pc = "update" => rows[u] # None
      PROVE  AdminInv'
  <2> DEFINE b == (Meets(q, u) = {})
  <2>1. req'[q] = [new EXCEPT !.alone = b]
    BY <1>3 DEF Enters
  <2>2. /\ req'[q].pc = new.pc /\ req'[q].user = u /\ (req'[q].alone <=> b)
    <3> HIDE DEF b
    <3> QED BY <1>3, <2>1 DEF Request
  <2>3. \A p \in Requests \ {q} :
          req'[p] = IF p \in Meets(q, u) THEN [req[p] EXCEPT !.alone = FALSE] ELSE req[p]
    BY <1>3 DEF Enters
  <2>4. tangled' = IF b THEN tangled ELSE tangled \cup {u}
    BY <1>3 DEF Enters
  <2> QED BY <1>1, <1>2, <1>3, <2>2, <2>3, <2>4, EnteringKeeps
<1>4. CASE SubmitUser(q)
  <2> DEFINE pc == IF rows[req[q].user] = None THEN "insert" ELSE "update"
             new == [req[q] EXCEPT !.pc = pc, !.view = definitions]
  <2>1. Enters(q, req[q].user, new) /\ req[q].user \in Users
    BY <1>0, <1>4 DEF SubmitUser, At, Placed
  <2>2. /\ pc \in {"insert", "update"} /\ definitions \in [Fields -> Maybe(Definition)]
        /\ pc = "update" => rows[req[q].user] # None
    BY DEF Typed, TypeOK
  <2> HIDE DEF pc
  <2>3. new \in Request /\ new.user = req[q].user /\ new.pc = pc
    BY <1>0, <2>2 DEF Request, Writing
  <2> HIDE DEF new
  <2> QED BY <1>3, <2>1, <2>2, <2>3
<1>5. CASE BeginDelete(q)
  <2>1. PICK u \in Users :
          Enters(q, u, [Idle EXCEPT !.pc = "unassign", !.kind = "delete", !.user = u])
    BY <1>5 DEF BeginDelete
  <2> DEFINE new == [Idle EXCEPT !.pc = "unassign", !.kind = "delete", !.user = u]
  <2>2. new \in Request /\ new.user = u /\ new.pc = "unassign"
    BY <1>0 DEF Idle, Request, Writing, Maybe
  <2>3. Enters(q, u, new)
    BY <2>1
  <2> HIDE DEF new
  <2> QED BY <1>3, <2>2, <2>3
<1>6. CASE SubmitProfile(q)
  <2> DEFINE u == req[q].user
             b == (Meets(q, u) = {})
  <2>1. u \in Users /\ req[q].kind = "own"
    BY <1>0, <1>6 DEF SubmitProfile, At, Placed
  <2>2. req'[q] = [req[q] EXCEPT !.pc = "profile", !.view = definitions, !.alone = b]
    BY <1>6 DEF SubmitProfile
  <2>3. /\ req'[q].pc = "profile" /\ req'[q].user = u /\ (req'[q].alone <=> b)
        /\ req'[q].kind = "own"
    <3> HIDE DEF b
    <3> QED BY <1>0, <2>1, <2>2 DEF Request
  <2>4. \A p \in Requests \ {q} :
          req'[p] = IF p \in Meets(q, u) THEN [req[p] EXCEPT !.alone = FALSE] ELSE req[p]
    BY <1>6 DEF SubmitProfile
  <2>5. tangled' = IF b /\ rows[u] # None THEN tangled ELSE tangled \cup {u}
    BY <1>6 DEF SubmitProfile
  <2> HIDE DEF u
  <2> QED BY <1>1, <1>2, <2>1, <2>3, <2>4, <2>5, EnteringKeeps
<1> QED BY <1>4, <1>5, <1>6

\* What the invariant says of a request at one of its statements.
LEMMA Writer ==
    ASSUME Typed, AdminInv, NEW q \in Requests, Writes(q)
    PROVE  /\ req \in [Requests -> Request] /\ req[q] \in Request /\ Placed(req[q])
           /\ req[q].user \in Users
           /\ RowsOK(q) /\ RolesOK(q) /\ DataOK(q)
           /\ OrphanOK(req[q].user) /\ HoldsOK(req[q].user)
           /\ req[q].user \notin tangled => req[q].alone
           /\ req[q].alone => Meets(q, req[q].user) = {}
<1>1. /\ req \in [Requests -> Request] /\ req[q] \in Request /\ Placed(req[q])
      /\ req[q].user \in Users
  BY DEF Typed, TypeOK, Placed, Writes, Writing
<1>2. RowsOK(q) /\ RolesOK(q) /\ DataOK(q) /\ OrphanOK(req[q].user) /\ HoldsOK(req[q].user)
  BY <1>1 DEF AdminInv
<1>3. req[q].user \notin tangled => req[q].alone
  BY DEF AdminInv, Apart
<1>4. req[q].alone => Meets(q, req[q].user) = {}
  BY DEF AdminInv, Apart, Meets, Writes
<1> QED BY <1>1, <1>2, <1>3, <1>4

\* A statement that only changes the request and its user's rows.
LEMMA GoOnAdmin ==
    ASSUME Typed, AdminInv, NEW q \in Requests, NEW u \in Users, Writes(q), req[q].user = u,
           NEW new \in Request, GoOn(q, new),
           new.user = u, new.alone = req[q].alone,
           granted' = granted,
           \A v \in Users \ {u} :
              rows'[v] = rows[v] /\ profiles'[v] = profiles[v] /\ Assigned(v)' = Assigned(v),
           RowsOK(q)' /\ RolesOK(q)' /\ DataOK(q)', OrphanOK(u)' /\ HoldsOK(u)'
    PROVE  AdminInv'
<1>1. /\ req'[q] = new /\ tangled' = tangled /\ whole' = whole
      /\ \A p \in Requests \ {q} : req'[p] = req[p]
  BY DEF GoOn, Typed, TypeOK
<1>2. \A v \in Users \ {u} : Untouched(v)
  BY <1>1 DEF Untouched
<1>3. ASSUME NEW p \in Requests \ {q}, req[p].pc \in {"roles", "assign"}, req[p].user = u
      PROVE  req[p].roles \subseteq granted'[u]
  BY <1>3 DEF AdminInv, RolesOK
<1>4. ~req'[q].alone => ~req[q].alone
  BY <1>1
<1> QED BY <1>1, <1>2, <1>3, <1>4, StatementKeeps

LEMMA UserRowAdmin ==
    ASSUME Typed, AdminInv, NEW q \in Requests, NEW u \in Users, req[q].user = u,
           UpdateUser(q) \/ UpsertUser(q)
    PROVE  AdminInv'
<1> DEFINE pc == AfterRow(q)
           new == [req[q] EXCEPT !.pc = pc, !.login = None]
<1>1. Writes(q) /\ req[q].pc \in {"update", "insert"}
  BY DEF UpdateUser, UpsertUser, At, Writes, Writing
<1>2. /\ req \in [Requests -> Request] /\ req[q] \in Request /\ Placed(req[q])
      /\ RowsOK(q) /\ OrphanOK(u) /\ HoldsOK(u)
  BY <1>1, Writer
<1>3. req[q].login \in Logins /\ req[q].login # None
  BY <1>1, <1>2, UserAdminAssumption DEF Placed
<1>4. /\ pc \in {"profile", "clear"}
      /\ pc = "profile" => req[q].kind = "repair"
  BY DEF AfterRow
<1>5. GoOn(q, new)
  BY DEF UpdateUser, UpsertUser
<1>6. /\ new \in Request /\ new.pc = pc /\ new.user = u /\ new.alone = req[q].alone
      /\ new.kind = req[q].kind
  <2> HIDE DEF pc
  <2> QED BY <1>2, <1>4 DEF Request, Writing, Maybe
<1>7. req'[q] = new /\ tangled' = tangled
  BY <1>2, <1>5 DEF GoOn
<1> HIDE DEF new, pc
<1>8. /\ profiles' = profiles /\ granted' = granted /\ whole' = whole
      /\ \A v : Assigned(v)' = Assigned(v)
  BY <1>5 DEF UpdateUser, UpsertUser, Assigned, GoOn
<1>9. /\ rows[u] # None => rows'[u] # None
      /\ req[q].pc = "insert" => rows'[u] # None
      /\ rows'[u] = None => rows[u] = None
      /\ \A v \in Users \ {u} : rows'[v] = rows[v]
  BY <1>1, <1>2, <1>3 DEF UpdateUser, UpsertUser, At, Typed, TypeOK
<1>10. RowsOK(q)'
  <2>1. Counts(q)' => Counts(q)
    BY <1>1, <1>6, <1>7 DEF Counts
  <2> QED BY <1>1, <1>2, <1>4, <1>6, <1>7, <1>9, <2>1 DEF RowsOK, Saving
<1>11. RolesOK(q)' /\ DataOK(q)'
  BY <1>4, <1>6, <1>7 DEF RolesOK, DataOK
<1>12. OrphanOK(u)' /\ HoldsOK(u)'
  BY <1>2, <1>7, <1>8, <1>9 DEF OrphanOK, HoldsOK
<1> QED BY <1>1, <1>5, <1>6, <1>8, <1>9, <1>10, <1>11, <1>12, GoOnAdmin

\* What a request at one of its statements may count on, at its user u.
LEMMA Counted ==
    ASSUME Typed, AdminInv, NEW q \in Requests, NEW u \in Users, req[q].user = u, Writes(q)
    PROVE  /\ req \in [Requests -> Request] /\ req[q] \in Request /\ Placed(req[q])
           /\ RowsOK(q) /\ RolesOK(q) /\ DataOK(q) /\ OrphanOK(u) /\ HoldsOK(u)
           /\ u \notin tangled => Counts(q)
           /\ u \notin tangled /\ req[q].pc \in Saving => rows[u] # None
           /\ req[q].alone => Meets(q, u) = {}
BY Writer DEF Counts, RowsOK

LEMMA SaveRoleAdmin ==
    ASSUME Typed, AdminInv, NEW q \in Requests, NEW u \in Users, req[q].user = u,
           NEW r \in Roles, SaveRole(q, r)
    PROVE  AdminInv'
<1> DEFINE new == [req[q] EXCEPT !.pc = "assign", !.seeds = {r}]
<1>1. Writes(q) /\ req[q].pc = "roles"
  BY DEF SaveRole, At, Writes, Writing
<1>2. /\ req \in [Requests -> Request] /\ req[q] \in Request
      /\ RowsOK(q) /\ RolesOK(q) /\ OrphanOK(u) /\ HoldsOK(u)
  BY <1>1, Counted
<1>3. GoOn(q, new)
  BY DEF SaveRole
<1>4. /\ new \in Request /\ new.pc = "assign" /\ new.user = u /\ new.alone = req[q].alone
      /\ new.kind = req[q].kind /\ new.roles = req[q].roles
  BY <1>2 DEF Request, Writing
<1>5. req'[q] = new /\ tangled' = tangled /\ whole' = whole
  BY <1>2, <1>3 DEF GoOn
<1> HIDE DEF new
<1>6. /\ rows' = rows /\ profiles' = profiles /\ granted' = granted
      /\ \A v : Assigned(v)' = Assigned(v)
  BY DEF SaveRole, Assigned
<1>7. Counts(q)' => Counts(q)
  BY <1>1, <1>4, <1>5 DEF Counts
<1>8. RowsOK(q)'
  BY <1>1, <1>2, <1>4, <1>5, <1>6, <1>7 DEF RowsOK, Saving
<1>9. RolesOK(q)'
  BY <1>1, <1>2, <1>4, <1>5, <1>6, <1>7 DEF RolesOK
<1>10. DataOK(q)'
  BY <1>4, <1>5 DEF DataOK
<1>11. OrphanOK(u)' /\ HoldsOK(u)'
  BY <1>2, <1>5, <1>6 DEF OrphanOK, HoldsOK
<1> QED BY <1>1, <1>3, <1>4, <1>6, <1>8, <1>9, <1>10, <1>11, GoOnAdmin

LEMMA AssignRoleAdmin ==
    ASSUME Typed, AdminInv, NEW q \in Requests, NEW u \in Users, req[q].user = u,
           NEW r \in Roles, AssignRole(q, r)
    PROVE  AdminInv'
<1> DEFINE new == [req[q] EXCEPT !.pc = "roles", !.roles = req[q].roles \ {r}, !.seeds = {}]
<1>1. Writes(q) /\ req[q].pc = "assign"
  BY DEF AssignRole, At, Writes, Writing
<1>2. /\ req \in [Requests -> Request] /\ req[q] \in Request /\ Placed(req[q])
      /\ RowsOK(q) /\ RolesOK(q) /\ OrphanOK(u) /\ HoldsOK(u)
      /\ u \notin tangled /\ req[q].pc \in Saving => rows[u] # None
  BY <1>1, Counted
<1>3. r \in req[q].roles
  BY <1>1, <1>2 DEF AssignRole, Placed
<1>4. GoOn(q, new)
  BY DEF AssignRole
<1>5. /\ new \in Request /\ new.pc = "roles" /\ new.user = u /\ new.alone = req[q].alone
      /\ new.kind = req[q].kind /\ new.roles = req[q].roles \ {r}
  BY <1>2 DEF Request, Writing
<1>6. req'[q] = new /\ tangled' = tangled /\ whole' = whole
  BY <1>2, <1>4 DEF GoOn
<1> HIDE DEF new
<1>7. /\ rows' = rows /\ profiles' = profiles /\ granted' = granted
      /\ Assigned(u)' = Assigned(u) \cup {r}
      /\ \A v \in Users \ {u} : Assigned(v)' = Assigned(v)
  BY DEF AssignRole, Assigned
<1>8. Counts(q)' => Counts(q)
  BY <1>1, <1>5, <1>6 DEF Counts
<1>9. RowsOK(q)'
  BY <1>1, <1>2, <1>5, <1>6, <1>7, <1>8 DEF RowsOK, Saving
<1>10. RolesOK(q)'
  BY <1>1, <1>2, <1>5, <1>6, <1>7, <1>8 DEF RolesOK
<1>11. DataOK(q)'
  BY <1>5, <1>6 DEF DataOK
<1>12. OrphanOK(u)'
  BY <1>1, <1>2, <1>6, <1>7 DEF OrphanOK, Saving
<1>13. HoldsOK(u)'
  BY <1>1, <1>2, <1>3, <1>6, <1>7 DEF HoldsOK, RolesOK
<1> QED BY <1>1, <1>4, <1>5, <1>7, <1>9, <1>10, <1>11, <1>12, <1>13, GoOnAdmin

\* Request q has done all it had to do for user u.
LEMMA FinishAdmin ==
    ASSUME Typed, AdminInv, NEW q \in Requests, NEW u \in Users, req[q].user = u, Writes(q),
           Finish(q), granted' = granted,
           \A v \in Users \ {u} :
              rows'[v] = rows[v] /\ profiles'[v] = profiles[v] /\ Assigned(v)' = Assigned(v),
           OrphanOK(u)' /\ HoldsOK(u)'
    PROVE  AdminInv'
<1>1. /\ req'[q].pc = "idle" /\ \A p \in Requests \ {q} : req'[p] = req[p]
      /\ req'[q].pc \notin Writing
  BY Counted DEF Finish, Idle, Writing
<1>2. \A v \in Users \ {u} : Untouched(v)
  BY DEF Finish, Untouched
<1>3. RowsOK(q)' /\ RolesOK(q)' /\ DataOK(q)'
  BY <1>1 DEF RowsOK, RolesOK, DataOK, Counts, Writes
<1>4. ASSUME NEW p \in Requests \ {q}, req[p].pc \in {"roles", "assign"}, req[p].user = u
      PROVE  req[p].roles \subseteq granted'[u]
  BY <1>4 DEF AdminInv, RolesOK
<1>5. /\ u \in tangled /\ u \notin tangled' => req[q].alone
      /\ u \in whole' /\ u \notin whole => req[q].alone
  BY DEF Finish
<1> QED BY <1>1, <1>2, <1>3, <1>4, <1>5, StatementKeeps

\* The history of the user that a request finishes with.
LEMMA Settled ==
    ASSUME NEW q \in Requests, NEW u \in Users, req[q].user = u, Writes(q), Finish(q)
    PROVE  \/ tangled' = tangled /\ whole' = whole
           \/ Counts(q) /\ req[q].kind # "own"
BY DEF Finish, Counts

LEMMA RolesDoneAdmin ==
    ASSUME Typed, AdminInv, NEW q \in Requests, NEW u \in Users, req[q].user = u, RolesDone(q)
    PROVE  AdminInv'
<1>1. Writes(q) /\ req[q].pc = "roles" /\ req[q].roles = {}
  BY DEF RolesDone, At, Writes, Writing
<1>2. /\ req \in [Requests -> Request] /\ req[q] \in Request /\ Placed(req[q])
      /\ RowsOK(q) /\ RolesOK(q) /\ OrphanOK(u) /\ HoldsOK(u)
  BY <1>1, Counted
<1>3. /\ rows' = rows /\ profiles' = profiles /\ granted' = granted
      /\ \A v : Assigned(v)' = Assigned(v)
  BY DEF RolesDone, tables, Assigned
<1>4. CASE req[q].kind = "repair"
  <2>1. Finish(q)
    BY <1>4 DEF RolesDone
  <2>2. CASE tangled' = tangled /\ whole' = whole
    <3>1. OrphanOK(u)' /\ HoldsOK(u)'
      BY <1>2, <1>3, <2>2 DEF OrphanOK, HoldsOK
    <3> QED BY <1>1, <1>3, <2>1, <3>1, FinishAdmin
  <2>3. CASE Counts(q) /\ req[q].kind # "own"
    <3>1. rows[u] # None /\ granted[u] \subseteq Assigned(u)
      BY <1>1, <1>2, <2>3 DEF RowsOK, RolesOK, Saving
    <3>2. OrphanOK(u)' /\ HoldsOK(u)'
      BY <1>2, <1>3, <3>1 DEF OrphanOK, HoldsOK
    <3> QED BY <1>1, <1>3, <2>1, <3>2, FinishAdmin
  <2> QED BY <1>1, <2>1, <2>2, <2>3, Settled
<1>5. CASE req[q].kind # "repair"
  <2> DEFINE new == [req[q] EXCEPT !.pc = "profile"]
  <2>1. GoOn(q, new)
    BY <1>5 DEF RolesDone
  <2>2. /\ new \in Request /\ new.pc = "profile" /\ new.user = u /\ new.alone = req[q].alone
        /\ new.kind = req[q].kind
    BY <1>2 DEF Request, Writing
  <2>3. req'[q] = new /\ tangled' = tangled /\ whole' = whole
    BY <1>2, <2>1 DEF GoOn
  <2> HIDE DEF new
  <2>4. Counts(q)' => Counts(q)
    BY <1>1, <2>2, <2>3 DEF Counts
  <2>5. RowsOK(q)'
    BY <1>1, <1>2, <1>3, <2>2, <2>3, <2>4 DEF RowsOK, Saving
  <2>6. RolesOK(q)'
    BY <1>1, <1>2, <1>3, <2>2, <2>3, <2>4 DEF RolesOK
  <2>7. DataOK(q)'
    BY <2>2, <2>3 DEF DataOK
  <2>8. OrphanOK(u)' /\ HoldsOK(u)'
    BY <1>2, <1>3, <2>3 DEF OrphanOK, HoldsOK
  <2> QED BY <1>1, <1>3, <2>1, <2>2, <2>5, <2>6, <2>7, <2>8, GoOnAdmin
<1> QED BY <1>4, <1>5

LEMMA SaveProfileAdmin ==
    ASSUME Typed, AdminInv, NEW q \in Requests, NEW u \in Users, req[q].user = u, SaveProfile(q)
    PROVE  AdminInv'
<1> DEFINE pc == IF req[q].kind = "repair" THEN "clear" ELSE "data"
           new == [req[q] EXCEPT !.pc = pc]
<1>1. Writes(q) /\ req[q].pc = "profile"
  BY DEF SaveProfile, At, Writes, Writing
<1>2. /\ req \in [Requests -> Request] /\ req[q] \in Request /\ Placed(req[q])
      /\ RowsOK(q) /\ RolesOK(q) /\ OrphanOK(u) /\ HoldsOK(u)
      /\ u \notin tangled /\ req[q].pc \in Saving => rows[u] # None
  BY <1>1, Counted
<1>3. pc \in {"clear", "data"}
  OBVIOUS
<1>4. GoOn(q, new)
  BY DEF SaveProfile
<1>5. /\ new \in Request /\ new.pc = pc /\ new.user = u /\ new.alone = req[q].alone
      /\ new.kind = req[q].kind
  <2> HIDE DEF pc
  <2> QED BY <1>2, <1>3 DEF Request, Writing
<1>6. req'[q] = new /\ tangled' = tangled /\ whole' = whole
  BY <1>2, <1>4 DEF GoOn
<1> HIDE DEF new, pc
<1>7. /\ rows' = rows /\ granted' = granted /\ \A v : Assigned(v)' = Assigned(v)
      /\ \A v \in Users \ {u} : profiles'[v] = profiles[v]
  BY DEF SaveProfile, Assigned, Typed, TypeOK
<1>8. Counts(q)' => Counts(q)
  BY <1>1, <1>5, <1>6 DEF Counts
<1>9. RowsOK(q)'
  BY <1>1, <1>2, <1>3, <1>5, <1>6, <1>7, <1>8 DEF RowsOK, Saving
<1>10. RolesOK(q)'
  BY <1>1, <1>2, <1>3, <1>5, <1>6, <1>7, <1>8 DEF RolesOK
<1>11. DataOK(q)'
  BY <1>3, <1>5, <1>6 DEF DataOK
<1>12. OrphanOK(u)'
  BY <1>1, <1>2, <1>6, <1>7 DEF OrphanOK, Saving
<1>13. HoldsOK(u)'
  BY <1>2, <1>6, <1>7 DEF HoldsOK
<1> QED BY <1>1, <1>4, <1>5, <1>7, <1>9, <1>10, <1>11, <1>12, <1>13, GoOnAdmin

LEMMA CollectDataAdmin ==
    ASSUME Typed, AdminInv, NEW q \in Requests, NEW u \in Users, req[q].user = u, CollectData(q)
    PROVE  AdminInv'
<1> DEFINE existing == IF profiles[u] = None THEN Blank ELSE profiles[u]
           data == Collected(req[q].view, req[q].entered, existing)
           new == [req[q] EXCEPT !.pc = "write", !.data = data]
<1>1. Writes(q) /\ req[q].pc = "data"
  BY DEF CollectData, At, Writes, Writing
<1>2. /\ req \in [Requests -> Request] /\ req[q] \in Request /\ Placed(req[q])
      /\ RowsOK(q) /\ RolesOK(q) /\ OrphanOK(u) /\ HoldsOK(u)
  BY <1>1, Counted
<1>3. data \in Data
  <2>1. existing \in Data
    BY BlankTyped DEF Typed, TypeOK, Maybe
  <2> HIDE DEF existing
  <2>2. req[q].view \in [Fields -> Maybe(Definition)] /\ req[q].entered \in [Fields -> Values \cup {Empty}]
    BY <1>2 DEF Request
  <2> QED BY <2>1, <2>2, CollectedTyped
<1>4. GoOn(q, new)
  BY DEF CollectData
<1>5. profiles[u] # None => data = Collected(req[q].view, req[q].entered, profiles[u])
  OBVIOUS
<1> HIDE DEF data
<1>6. /\ new \in Request /\ new.pc = "write" /\ new.user = u /\ new.alone = req[q].alone
      /\ new.kind = req[q].kind /\ new.data = data
      /\ new.view = req[q].view /\ new.entered = req[q].entered
  BY <1>2, <1>3 DEF Request, Writing
<1>7. req'[q] = new /\ tangled' = tangled /\ whole' = whole
  BY <1>2, <1>4 DEF GoOn
<1> HIDE DEF new, existing
<1>8. /\ rows' = rows /\ profiles' = profiles /\ granted' = granted
      /\ \A v : Assigned(v)' = Assigned(v)
  BY DEF CollectData, tables, Assigned
<1>9. Counts(q)' => Counts(q)
  BY <1>1, <1>6, <1>7 DEF Counts
<1>10. RowsOK(q)'
  BY <1>1, <1>2, <1>6, <1>7, <1>8, <1>9 DEF RowsOK, Saving
<1>11. RolesOK(q)'
  BY <1>1, <1>2, <1>6, <1>7, <1>8, <1>9 DEF RolesOK
<1>12. DataOK(q)'
  BY <1>5, <1>6, <1>7, <1>8 DEF DataOK, Collected, Active, Configured
<1>13. OrphanOK(u)' /\ HoldsOK(u)'
  BY <1>2, <1>7, <1>8 DEF OrphanOK, HoldsOK
<1> QED BY <1>1, <1>4, <1>6, <1>8, <1>10, <1>11, <1>12, <1>13, GoOnAdmin

LEMMA WriteDataAdmin ==
    ASSUME Typed, AdminInv, NEW q \in Requests, NEW u \in Users, req[q].user = u, WriteData(q)
    PROVE  AdminInv'
<1>1. Writes(q) /\ req[q].pc = "write" /\ Finish(q)
  BY DEF WriteData, At, Writes, Writing
<1>2. /\ req[q] \in Request /\ Placed(req[q])
      /\ RowsOK(q) /\ RolesOK(q) /\ OrphanOK(u) /\ HoldsOK(u)
  BY <1>1, Counted
<1>3. /\ rows' = rows /\ granted' = granted /\ \A v : Assigned(v)' = Assigned(v)
      /\ \A v \in Users \ {u} : profiles'[v] = profiles[v]
      /\ profiles[u] = None => profiles'[u] = None
  BY DEF WriteData, Assigned, Typed, TypeOK
<1>4. CASE tangled' = tangled /\ whole' = whole
  <2>1. OrphanOK(u)' /\ HoldsOK(u)'
    BY <1>2, <1>3, <1>4 DEF OrphanOK, HoldsOK
  <2> QED BY <1>1, <1>3, <2>1, FinishAdmin
<1>5. CASE Counts(q) /\ req[q].kind # "own"
  <2>1. rows[u] # None
    BY <1>1, <1>2, <1>5 DEF RowsOK, Saving
  <2>2. granted[u] \subseteq Assigned(u)
    BY <1>1, <1>2, <1>5 DEF RolesOK, Placed
  <2>3. OrphanOK(u)' /\ HoldsOK(u)'
    BY <1>2, <1>3, <2>1, <2>2 DEF OrphanOK, HoldsOK
  <2> QED BY <1>1, <1>3, <2>3, FinishAdmin
<1> QED BY <1>1, <1>4, <1>5, Settled

LEMMA DeleteProfileAdmin ==
    ASSUME Typed, AdminInv, NEW q \in Requests, NEW u \in Users, req[q].user = u, DeleteProfile(q)
    PROVE  AdminInv'
<1> DEFINE new == [req[q] EXCEPT !.pc = "unuser"]
<1>1. Writes(q) /\ req[q].pc = "unprofile"
  BY DEF DeleteProfile, At, Writes, Writing
<1>2. /\ req \in [Requests -> Request] /\ req[q] \in Request
      /\ RowsOK(q) /\ RolesOK(q) /\ OrphanOK(u) /\ HoldsOK(u)
  BY <1>1, Counted
<1>3. GoOn(q, new)
  BY DEF DeleteProfile
<1>4. /\ new \in Request /\ new.pc = "unuser" /\ new.user = u /\ new.alone = req[q].alone
      /\ new.kind = req[q].kind
  BY <1>2 DEF Request, Writing
<1>5. req'[q] = new /\ tangled' = tangled /\ whole' = whole
  BY <1>2, <1>3 DEF GoOn
<1> HIDE DEF new
<1>6. /\ rows' = rows /\ granted' = granted /\ \A v : Assigned(v)' = Assigned(v)
      /\ \A v \in Users \ {u} : profiles'[v] = profiles[v]
      /\ profiles'[u] = None
  BY DEF DeleteProfile, Assigned, Typed, TypeOK
<1>7. Counts(q)' => Counts(q)
  BY <1>1, <1>4, <1>5 DEF Counts
<1>8. RowsOK(q)'
  BY <1>1, <1>2, <1>4, <1>5, <1>6, <1>7 DEF RowsOK, Saving
<1>9. RolesOK(q)'
  BY <1>1, <1>2, <1>4, <1>5, <1>6, <1>7 DEF RolesOK
<1>10. DataOK(q)'
  BY <1>4, <1>5 DEF DataOK
<1>11. OrphanOK(u)' /\ HoldsOK(u)'
  BY <1>2, <1>5, <1>6 DEF OrphanOK, HoldsOK
<1> QED BY <1>1, <1>3, <1>4, <1>6, <1>8, <1>9, <1>10, <1>11, GoOnAdmin

LEMMA DeleteUserAdmin ==
    ASSUME Typed, AdminInv, NEW q \in Requests, NEW u \in Users, req[q].user = u, DeleteUser(q)
    PROVE  AdminInv'
<1>1. Writes(q) /\ req[q].pc = "unuser" /\ Finish(q)
  BY DEF DeleteUser, At, Writes, Writing
<1>2. /\ req[q] \in Request /\ Placed(req[q])
      /\ RowsOK(q) /\ RolesOK(q) /\ OrphanOK(u) /\ HoldsOK(u)
      /\ u \notin tangled => Counts(q)
  BY <1>1, Counted
<1>3. /\ profiles' = profiles /\ granted' = granted /\ \A v : Assigned(v)' = Assigned(v)
      /\ \A v \in Users \ {u} : rows'[v] = rows[v]
  BY DEF DeleteUser, Assigned, Typed, TypeOK
<1>4. Counts(q) => Assigned(u) = {} /\ profiles[u] = None
  BY <1>1, <1>2 DEF RowsOK
<1>5. CASE tangled' = tangled /\ whole' = whole
  <2>1. OrphanOK(u)' /\ HoldsOK(u)'
    BY <1>2, <1>3, <1>4, <1>5 DEF OrphanOK, HoldsOK
  <2> QED BY <1>1, <1>3, <2>1, FinishAdmin
<1>6. CASE Counts(q) /\ req[q].kind # "own"
  <2>1. granted[u] = {}
    BY <1>1, <1>2, <1>6 DEF RolesOK
  <2>2. OrphanOK(u)' /\ HoldsOK(u)'
    BY <1>2, <1>3, <1>4, <1>6, <2>1 DEF OrphanOK, HoldsOK
  <2> QED BY <1>1, <1>3, <2>2, FinishAdmin
<1> QED BY <1>1, <1>5, <1>6, Settled

LEMMA ClearAdmin ==
    ASSUME Typed, AdminInv, NEW q \in Requests, NEW u \in Users, req[q].user = u,
           ClearRoles(q) \/ DeleteRoles(q)
    PROVE  AdminInv'
<1>1. Writes(q) /\ req[q].pc \in {"clear", "unassign"}
  BY DEF ClearRoles, DeleteRoles, At, Writes, Writing
<1>2. /\ req \in [Requests -> Request] /\ req[q] \in Request
      /\ RowsOK(q) /\ OrphanOK(u)
      /\ req[q].alone => Meets(q, u) = {}
  BY <1>1, Counted
<1>3. /\ req'[q].pc = IF req[q].pc = "clear" THEN "roles" ELSE "unprofile"
      /\ req'[q].user = u /\ req'[q].alone = req[q].alone /\ req'[q].kind = req[q].kind
      /\ req'[q].roles = req[q].roles
      /\ \A p \in Requests \ {q} : req'[p] = req[p]
  BY <1>1, <1>2 DEF ClearRoles, DeleteRoles, At, Request
<1>4. /\ rows' = rows /\ profiles' = profiles /\ tangled' = tangled /\ u \notin whole'
      /\ Assigned(u)' = {}
      /\ \A v \in Users \ {u} : Assigned(v)' = Assigned(v) /\ (v \in whole' <=> v \in whole)
  BY DEF ClearRoles, DeleteRoles, Assigned
<1>5. /\ granted'[u] = Underway(q, u) \cup (IF req[q].pc = "clear" THEN req[q].roles ELSE {})
      /\ \A v \in Users \ {u} : granted'[v] = granted[v]
  BY <1>1 DEF ClearRoles, DeleteRoles, At, Typed, TypeOK
<1>6. req[q].alone => Underway(q, u) = {}
  BY <1>2 DEF Underway, Meets, Writing
<1>7. ASSUME NEW p \in Requests \ {q}, req[p].pc \in {"roles", "assign"}, req[p].user = u
      PROVE  req[p].roles \subseteq granted'[u]
  BY <1>5, <1>7 DEF Underway
<1>8. \A v \in Users \ {u} : Untouched(v)
  BY <1>4, <1>5 DEF Untouched
<1>9. Counts(q)' => Counts(q)
  BY <1>1, <1>3, <1>4 DEF Counts
<1>10. RowsOK(q)'
  BY <1>1, <1>2, <1>3, <1>4, <1>9 DEF RowsOK, Saving
<1>11. RolesOK(q)'
  <2>1. Counts(q)' => req[q].alone
    BY <1>9 DEF Counts
  <2>2. req[q].pc = "clear" => req'[q].pc = "roles" /\ req[q].roles \subseteq granted'[u]
    BY <1>3, <1>5
  <2>3. req[q].pc # "clear" => req'[q].pc = "unprofile"
    BY <1>3
  <2>4. Counts(q)' => granted'[u] = IF req[q].pc = "clear" THEN req[q].roles ELSE {}
    BY <1>5, <1>6, <2>1
  <2> HIDE DEF Counts
  <2> QED BY <1>3, <1>4, <2>2, <2>3, <2>4 DEF RolesOK
<1>12. DataOK(q)'
  BY <1>3 DEF DataOK
<1>13. OrphanOK(u)' /\ HoldsOK(u)'
  BY <1>2, <1>4 DEF OrphanOK, HoldsOK
<1> QED BY <1>1, <1>3, <1>4, <1>7, <1>8, <1>10, <1>11, <1>12, <1>13, StatementKeeps

LEMMA UpsertOtherAdmin ==
    ASSUME Typed, AdminInv, NEW q \in Requests, NEW u \in Users, req[q].user = u, UpsertOther(q)
    PROVE  AdminInv'
<1> DEFINE pc == AfterRow(q)
<1>1. Writes(q)
  BY DEF UpsertOther, At, Writes, Writing
<1>2. /\ req \in [Requests -> Request] /\ req[q] \in Request /\ HoldsOK(u)
  BY <1>1, Counted
<1>3. pc \in {"profile", "clear"}
  BY DEF AfterRow
<1>4. req' = [req EXCEPT ![q].pc = pc, ![q].login = None, ![q].alone = FALSE]
  BY DEF UpsertOther
<1> HIDE DEF pc
<1>5. /\ req'[q].pc = pc /\ req'[q].user = u /\ ~req'[q].alone
      /\ \A p \in Requests \ {q} : req'[p] = req[p]
  BY <1>2, <1>4 DEF Request
<1>6. /\ UNCHANGED <<rows, profiles, granted, whole>> /\ \A v : Assigned(v)' = Assigned(v)
      /\ tangled' = tangled \cup {u}
  BY DEF UpsertOther, tables, Assigned
<1>7. \A v \in Users \ {u} : Untouched(v)
  BY <1>6 DEF Untouched
<1>8. RowsOK(q)' /\ RolesOK(q)' /\ DataOK(q)'
  BY <1>3, <1>5, NotAloneKeeps
<1>9. OrphanOK(u)' /\ HoldsOK(u)'
  BY <1>2, <1>6 DEF OrphanOK, HoldsOK
<1>10. ASSUME NEW p \in Requests \ {q}, req[p].pc \in {"roles", "assign"}, req[p].user = u
       PROVE  req[p].roles \subseteq granted'[u]
  BY <1>6, <1>10 DEF AdminInv, RolesOK
<1> QED BY <1>1, <1>5, <1>6, <1>7, <1>8, <1>9, <1>10, StatementKeeps

\* Steps that write no user.
LEMMA QuietAdmin ==
    ASSUME Typed, AdminInv, NEW q \in Requests,
           \/ OpenUserForm(q) \/ OpenProfileForm(q) \/ BeginRepair(q) \/ CheckInitial(q)
           \/ RefuseData(q) \/ Fail(q) \/ \E r \in Roles : SeedRole(q, r)
    PROVE  AdminInv'
<1>0. /\ req \in [Requests -> Request] /\ req[q] \in Request /\ Idle \in Request
      /\ Idle.pc = "idle"
  BY IdleTyped DEF Typed, TypeOK, Idle
<1>1. UNCHANGED <<rows, profiles, assigned, granted>>
  <2>1. UNCHANGED <<tables, granted>> \/ \E r \in Roles : SeedRole(q, r)
    <3>1. CASE OpenUserForm(q)
      <4>1. OpenUserForm(q) => UNCHANGED <<tables, granted>>
        BY Zenon DEF OpenUserForm
      <4> QED BY <3>1, <4>1
    <3>2. CASE OpenProfileForm(q)
      <4>1. OpenProfileForm(q) => UNCHANGED <<tables, granted>>
        BY Zenon DEF OpenProfileForm
      <4> QED BY <3>2, <4>1
    <3>3. CASE BeginRepair(q)
      <4>1. BeginRepair(q) => UNCHANGED <<tables, granted>>
        BY Zenon DEF BeginRepair
      <4> QED BY <3>3, <4>1
    <3>4. CASE CheckInitial(q) \/ RefuseData(q) \/ Fail(q)
      BY <3>4 DEF CheckInitial, RefuseData, Fail
    <3>5. CASE \E r \in Roles : SeedRole(q, r)
      BY <3>5
    <3> QED BY <3>1, <3>2, <3>3, <3>4, <3>5
  <2> QED BY <2>1 DEF SeedRole, tables
<1>2. ASSUME NEW new, GoOn(q, new), new.pc \notin Writing PROVE AdminInv'
  <2>1. /\ UNCHANGED <<tangled, whole>>
        /\ \A p \in Requests : req'[p].pc \notin Writing \/ req'[p] = req[p]
    BY <1>0, <1>2 DEF GoOn
  <2> QED BY <1>1, <2>1, QuietKeeps
<1>3. CASE RefuseData(q) \/ Fail(q)
  BY <1>0, <1>2, <1>3 DEF RefuseData, Fail, Writing
<1>4. CASE CheckInitial(q)
  <2>1. [req[q] EXCEPT !.pc = "form"].pc = "form"
    BY <1>0 DEF Request
  <2> QED BY <1>0, <1>2, <1>4, <2>1 DEF CheckInitial, Writing
<1>5. CASE OpenUserForm(q)
  <2>1. PICK u \in Users, l \in Logins, chosen \in SUBSET Offered, entered \in Entries(definitions) :
          GoOn(q, [Idle EXCEPT !.pc = "form", !.kind = "save", !.user = u, !.login = l,
                               !.roles = chosen, !.entered = entered])
    BY <1>5 DEF OpenUserForm
  <2>2. [Idle EXCEPT !.pc = "form", !.kind = "save", !.user = u, !.login = l,
                     !.roles = chosen, !.entered = entered].pc = "form"
    BY DEF Idle
  <2> QED BY <1>2, <2>1, <2>2 DEF Writing
<1>6. CASE OpenProfileForm(q)
  <2>1. PICK u \in Users, entered \in Entries(definitions) :
          GoOn(q, [Idle EXCEPT !.pc = "form", !.kind = "own", !.user = u, !.entered = entered])
    BY <1>6 DEF OpenProfileForm
  <2>2. [Idle EXCEPT !.pc = "form", !.kind = "own", !.user = u, !.entered = entered].pc = "form"
    BY DEF Idle
  <2> QED BY <1>2, <2>1, <2>2 DEF Writing
<1>7. CASE BeginRepair(q)
  <2>1. PICK u \in Users, l \in Logins, chosen \in SUBSET Roles, seeds \in {{}, StandardRoles} :
          GoOn(q, [Idle EXCEPT !.pc = "seed", !.kind = "repair", !.user = u, !.login = l,
                               !.roles = chosen, !.seeds = seeds])
    BY <1>7 DEF BeginRepair
  <2> DEFINE new == [Idle EXCEPT !.pc = "seed", !.kind = "repair", !.user = u, !.login = l,
                                 !.roles = chosen, !.seeds = seeds]
  <2>2. GoOn(q, new)
    BY <2>1
  <2>3. new.pc \notin Writing
    BY DEF Idle, Writing
  <2> HIDE DEF new
  <2> QED BY <1>2, <2>2, <2>3
<1>8. ASSUME NEW r \in Roles, SeedRole(q, r) PROVE AdminInv'
  <2> DEFINE new == [req[q] EXCEPT !.seeds = req[q].seeds \ {r}]
  <2>1. GoOn(q, new) /\ req[q].pc = "seed"
    BY <1>8 DEF SeedRole, At
  <2>2. new.pc = "seed"
    BY <1>0, <2>1 DEF Request
  <2>3. new.pc \notin Writing
    BY <2>2 DEF Writing
  <2>4. GoOn(q, new)
    BY <2>1
  <2> HIDE DEF new
  <2> QED BY <1>2, <2>3, <2>4
<1> QED BY <1>3, <1>4, <1>5, <1>6, <1>7, <1>8

LEMMA FormsAdmin ==
    ASSUME Typed, AdminInv,
           \/ \E r \in Roles, state \in {"enabled", "disabled"} : SaveRoleForm(r, state)
           \/ \E f \in Fields, definition \in Maybe(Definition) : EditField(f, definition)
    PROVE  AdminInv'
<1>1. ASSUME NEW f \in Fields, NEW definition \in Maybe(Definition), EditField(f, definition)
      PROVE  AdminInv'
  <2>1. UNCHANGED <<rows, profiles, assigned, granted, tangled, whole, req>>
    BY <1>1 DEF EditField
  <2> QED BY <2>1, QuietKeeps
<1>2. ASSUME NEW r \in Roles, NEW state \in {"enabled", "disabled"}, SaveRoleForm(r, state)
      PROVE  AdminInv'
  <2>1. UNCHANGED <<rows, profiles, assigned, granted, tangled, whole>>
    BY <1>2 DEF SaveRoleForm
  <2>2. ASSUME NEW p \in Requests
        PROVE  /\ req'[p].pc = req[p].pc /\ req'[p].kind = req[p].kind
               /\ req'[p].user = req[p].user /\ req'[p].roles = req[p].roles
               /\ req'[p].entered = req[p].entered /\ req'[p].view = req[p].view
               /\ req'[p].data = req[p].data /\ req'[p].alone = req[p].alone
    <3>1. req[p] \in Request
      BY DEF Typed, TypeOK
    <3>2. req'[p] = req[p] \/ req'[p] = [req[p] EXCEPT !.stale = req[p].stale \cup ({r} \cap req[p].roles)]
      BY <1>2 DEF SaveRoleForm
    <3> QED BY <3>1, <3>2 DEF Request
  <2> QED BY <2>1, <2>2, QuietKeeps
<1> QED BY <1>1, <1>2

\* A completed invitation tangles its user with those who are writing it.
LEMMA CompleteAdmin ==
    ASSUME Typed, AdminInv, NEW u \in Users, NEW l \in Logins, NEW chosen \in SUBSET Roles,
           NEW entered \in Entries(definitions), Complete(u, l, chosen, entered)
    PROVE  AdminInv'
<1> DEFINE others == {p \in Requests : Writes(p) /\ req[p].user = u}
           b == (others = {})
<1>1. /\ rows' = [rows EXCEPT ![u] = l]
      /\ \A v \in Users \ {u} : profiles'[v] = profiles[v]
      /\ assigned' = (assigned \ ({u} \X Roles)) \cup ({u} \X chosen)
      /\ granted' = [granted EXCEPT ![u] = chosen \cup
                        UNION {req[p].roles : p \in {p \in others : req[p].pc \in {"roles", "assign"}}}]
      /\ req' = [p \in Requests |-> IF p \in others THEN [req[p] EXCEPT !.alone = FALSE] ELSE req[p]]
      /\ tangled' = IF b THEN tangled \ {u} ELSE tangled \cup {u}
      /\ whole' = IF b THEN whole \cup {u} ELSE whole \ {u}
  BY DEF Complete, Writes, Typed, TypeOK
<1>2. ASSUME NEW p \in Requests
      PROVE  /\ p \in others => /\ ~req'[p].alone /\ req'[p].pc = req[p].pc /\ req'[p].user = u
                                /\ req'[p].roles = req[p].roles
             /\ p \notin others => req'[p] = req[p]
  <2>1. req[p] \in Request
    BY DEF Typed, TypeOK
  <2> QED BY <1>1, <2>1 DEF Request
<1>3. ASSUME NEW p \in Requests, Writes(p) PROVE req[p].user \in Users
  BY <1>3 DEF Typed, Placed, Writes, Writing
<1>4. ASSUME NEW p \in others PROVE ~b
  OBVIOUS
<1> HIDE DEF b
<1>5. ASSUME NEW v \in Users \ {u} PROVE Untouched(v)
  BY <1>1 DEF Untouched, Assigned, Typed, TypeOK
<1>6. Assigned(u)' = chosen /\ rows'[u] # None /\ chosen \subseteq granted'[u]
  BY <1>1, UserAdminAssumption DEF Assigned, Typed, TypeOK
<1>7. b => granted'[u] = chosen
  BY <1>1, <1>4 DEF Typed, TypeOK
<1>8. ASSUME NEW p \in Requests PROVE RowsOK(p)' /\ RolesOK(p)' /\ DataOK(p)'
  <2>1. CASE p \in others
    <3>1. req[p].pc \in {"roles", "assign"} => req[p].roles \subseteq granted'[u]
      BY <1>1, <2>1 DEF Typed, TypeOK
    <3>2. u \notin whole'
      BY <1>1, <1>4, <2>1
    <3> HIDE DEF others
    <3> QED BY <1>2, <2>1, <3>1, <3>2, NotAloneKeeps
  <2>2. CASE p \notin others
    <3>1. Writes(p) => Untouched(req[p].user)
      BY <1>3, <1>5, <2>2
    <3> QED BY <1>2, <2>2, <3>1, SameKeeps
  <2> QED BY <2>1, <2>2
<1>9. Apart'
  <2>1. ASSUME NEW p \in Requests, req'[p].pc \in Writing, ~req'[p].alone
        PROVE  req'[p].user \in tangled'
    <3>1. CASE p \in others
      BY <1>1, <1>2, <1>4, <3>1
    <3>2. CASE p \notin others
      <4>1. req'[p] = req[p] /\ Writes(p) /\ req[p].user \in tangled
        BY <1>2, <2>1, <3>2 DEF AdminInv, Apart, Writes
      <4>2. req[p].user # u
        BY <3>2, <4>1
      <4> QED BY <1>3, <1>5, <4>1, <4>2 DEF Untouched
    <3> QED BY <3>1, <3>2
  <2>2. ASSUME NEW p \in Requests, NEW r \in Requests, p # r,
               req'[p].pc \in Writing, req'[r].pc \in Writing, req'[p].user = req'[r].user
        PROVE  ~req'[p].alone
    <3>1. /\ req'[p].pc = req[p].pc /\ req'[p].user = req[p].user
          /\ req'[r].pc = req[r].pc /\ req'[r].user = req[r].user
          /\ req'[p].alone => req[p].alone
      <4> HIDE DEF others
      <4>1. ASSUME NEW s \in others PROVE req[s].user = u
        BY DEF others
      <4> QED BY <1>2, <4>1
    <3>2. ~req[p].alone
      BY <2>2, <3>1 DEF AdminInv, Apart, Writes
    <3> QED BY <3>1, <3>2
  <2> QED BY <2>1, <2>2 DEF Apart, Writes
<1>10. OrphanOK(u)' /\ HoldsOK(u)'
  <2>1. u \in whole' => b
    BY <1>1
  <2> QED BY <1>6, <1>7, <2>1 DEF OrphanOK, HoldsOK
<1>11. ASSUME NEW v \in Users PROVE OrphanOK(v)' /\ HoldsOK(v)'
  <2>1. CASE v = u
    BY <1>10, <2>1
  <2>2. CASE v # u
    BY <1>5, <2>2, UntouchedKeeps
  <2> QED BY <2>1, <2>2
<1> QED BY <1>8, <1>9, <1>11 DEF AdminInv

LEMMA NextAdmin == Typed /\ AdminInv /\ [Next]_vars => AdminInv'
<1> SUFFICES ASSUME Typed, AdminInv, [Next]_vars PROVE AdminInv'
  OBVIOUS
<1>1. ASSUME NEW q \in Requests,
             \/ UpdateUser(q) \/ UpsertUser(q) \/ UpsertOther(q)
             \/ ClearRoles(q) \/ DeleteRoles(q) \/ RolesDone(q)
             \/ \E r \in Roles : SaveRole(q, r) \/ AssignRole(q, r)
             \/ SaveProfile(q) \/ CollectData(q) \/ WriteData(q)
             \/ DeleteProfile(q) \/ DeleteUser(q)
      PROVE  AdminInv'
  <2>1. Writes(q)
    <3>1. ASSUME NEW pc \in Writing, At(q, pc) PROVE Writes(q)
      BY <3>1 DEF At, Writes
    <3>2. /\ UpdateUser(q) => At(q, "update")
          /\ UpsertUser(q) \/ UpsertOther(q) => At(q, "insert")
          /\ ClearRoles(q) => At(q, "clear")
          /\ DeleteRoles(q) => At(q, "unassign")
          /\ RolesDone(q) \/ (\E r \in Roles : SaveRole(q, r)) => At(q, "roles")
          /\ (\E r \in Roles : AssignRole(q, r)) => At(q, "assign")
          /\ SaveProfile(q) => At(q, "profile")
          /\ CollectData(q) => At(q, "data")
          /\ WriteData(q) => At(q, "write")
          /\ DeleteProfile(q) => At(q, "unprofile")
          /\ DeleteUser(q) => At(q, "unuser")
      BY Zenon DEF UpdateUser, UpsertUser, UpsertOther, ClearRoles, DeleteRoles, RolesDone, SaveRole,
         AssignRole, SaveProfile, CollectData, WriteData, DeleteProfile, DeleteUser
    <3> QED BY <1>1, <3>1, <3>2 DEF Writing
  <2>2. PICK u \in Users : req[q].user = u
    BY <2>1, Writer
  <2> QED BY <1>1, <2>2, UserRowAdmin, UpsertOtherAdmin, ClearAdmin, RolesDoneAdmin, SaveRoleAdmin,
          AssignRoleAdmin, SaveProfileAdmin, CollectDataAdmin, WriteDataAdmin, DeleteProfileAdmin,
          DeleteUserAdmin
<1>2. CASE Next
  BY <1>1, <1>2, Steps, QuietAdmin, FormsAdmin, EntersAdmin, CompleteAdmin
<1>3. CASE UNCHANGED vars
  BY <1>3, QuietKeeps DEF vars, tables
<1> QED BY <1>2, <1>3

THEOREM AdminCorrect == Spec => []AdminInv
<1>1. Typed /\ AdminInv /\ [Next]_vars => (Typed /\ AdminInv)'
  BY NextTyped, NextAdmin
<1>2. Init => Typed /\ AdminInv
  BY InitTyped, InitAdmin
<1> QED BY <1>1, <1>2, PTL DEF Spec

\* No id without a row in the users table has roles or a profile, for any users,
\* roles, fields and number of requests, failures of single statements included.
THEOREM OrphansSafety == Spec => []NoOrphans
<1>1. AdminInv => NoOrphans
  BY DEF AdminInv, OrphanOK, NoOrphans
<1> QED BY <1>1, AdminCorrect, PTL

\* A user holds no role but those asked for, and all of them after a save that
\* ran alone to its end.
THEOREM RolesSafety == Spec => []RolesFromForms
<1>1. AdminInv => RolesFromForms
  BY DEF AdminInv, HoldsOK, RolesFromForms
<1> QED BY <1>1, AdminCorrect, PTL

\* Only these steps change the JSON column.
LEMMA ProfileSteps ==
    ASSUME Next, profiles' # profiles
    PROVE  \/ \E q \in Requests : SaveProfile(q) \/ WriteData(q) \/ DeleteProfile(q)
           \/ \E u \in Users, l \in Logins, chosen \in SUBSET Roles, entered \in Entries(definitions) :
                 Complete(u, l, chosen, entered)
<1>1. ASSUME NEW q \in Requests,
             OpenUserForm(q) \/ OpenProfileForm(q) \/ BeginRepair(q) \/ BeginDelete(q)
      PROVE  UNCHANGED tables
  BY <1>1, Zenon DEF OpenUserForm, OpenProfileForm, BeginRepair, BeginDelete
<1>2. ASSUME NEW q \in Requests,
             \/ SubmitUser(q) \/ SubmitProfile(q) \/ UpdateUser(q) \/ UpsertUser(q) \/ UpsertOther(q)
             \/ ClearRoles(q) \/ DeleteRoles(q) \/ RolesDone(q) \/ CollectData(q) \/ RefuseData(q)
             \/ DeleteUser(q) \/ CheckInitial(q) \/ Fail(q)
      PROVE  profiles' = profiles
  <2>1. (\/ SubmitUser(q) \/ SubmitProfile(q) \/ UpsertOther(q) \/ RolesDone(q)
         \/ CollectData(q) \/ RefuseData(q) \/ CheckInitial(q) \/ Fail(q)) => UNCHANGED tables
    BY Zenon DEF SubmitUser, SubmitProfile, UpsertOther, RolesDone, CollectData, RefuseData,
       CheckInitial, Fail
  <2>2. (UpdateUser(q) \/ UpsertUser(q) \/ ClearRoles(q) \/ DeleteRoles(q) \/ DeleteUser(q))
        => profiles' = profiles
    BY Zenon DEF UpdateUser, UpsertUser, ClearRoles, DeleteRoles, DeleteUser
  <2>3. UNCHANGED tables => profiles' = profiles
    BY DEF tables
  <2> QED BY <1>2, <2>1, <2>2, <2>3
<1>3. ASSUME NEW q \in Requests, NEW r \in Roles, SaveRole(q, r) \/ AssignRole(q, r) \/ SeedRole(q, r)
      PROVE  profiles' = profiles
  BY <1>3 DEF SaveRole, AssignRole, SeedRole
<1>4. ASSUME NEW r \in Roles, NEW state \in {"enabled", "disabled"}, SaveRoleForm(r, state)
      PROVE  profiles' = profiles
  BY <1>4 DEF SaveRoleForm
<1>5. ASSUME NEW f \in Fields, NEW definition \in Maybe(Definition), EditField(f, definition)
      PROVE  profiles' = profiles
  BY <1>5 DEF EditField
<1>6. UNCHANGED tables => profiles' = profiles
  BY DEF tables
<1> QED BY <1>1, <1>2, <1>3, <1>4, <1>5, <1>6, Steps

\* The value that a write stores is one entered, kept, or dropped.
LEMMA CollectedParts ==
    ASSUME NEW view, NEW entered, NEW existing, NEW f \in Fields
    PROVE  \/ f \in Active(view) /\ Collected(view, entered, existing)[f] = entered[f]
           \/ Collected(view, entered, existing)[f] = existing[f]
           \/ view[f] = None /\ Collected(view, entered, existing)[f] = None
BY DEF Collected, Active, Configured

LEMMA KeptStep ==
    ASSUME Typed, AdminInv, [Next]_vars, NEW u \in Users, NEW f \in Fields,
           rows[u] # None, profiles[u] # None, profiles'[u] # None,
           profiles'[u][f] # profiles[u][f]
    PROVE  \E q \in Requests :
              /\ At(q, "write") /\ req[q].user = u
              /\ \/ ~req[q].alone
                 \/ f \in Active(req[q].view) /\ profiles'[u][f] = req[q].entered[f]
                 \/ req[q].view[f] = None /\ profiles'[u][f] = None
<1>0. profiles \in [Users -> Maybe(Data)]
  BY DEF Typed, TypeOK
<1>1. Next
  BY DEF vars
<1>2. ASSUME NEW q \in Requests, SaveProfile(q) PROVE FALSE
  BY <1>0, <1>2 DEF SaveProfile
<1>3. ASSUME NEW q \in Requests, DeleteProfile(q) PROVE FALSE
  BY <1>0, <1>3 DEF DeleteProfile
<1>4. ASSUME NEW v \in Users, NEW l \in Logins, NEW chosen \in SUBSET Roles,
             NEW entered \in Entries(definitions), Complete(v, l, chosen, entered)
      PROVE  FALSE
  <2>1. v # u
    BY <1>4 DEF Complete
  <2>2. \A w \in Users \ {v} : profiles'[w] = profiles[w]
    BY <1>0, <1>4 DEF Complete
  <2> QED BY <2>1, <2>2
<1>5. PICK q \in Requests : WriteData(q)
  BY <1>1, <1>2, <1>3, <1>4, ProfileSteps
<1>6. At(q, "write") /\ req[q].user = u /\ profiles'[u] = req[q].data
  BY <1>0, <1>5 DEF WriteData, At
<1>7. CASE req[q].alone
  <2>1. req[q].data = Collected(req[q].view, req[q].entered, profiles[u])
    BY <1>6, <1>7 DEF AdminInv, DataOK, At
  <2> QED BY <1>6, <2>1, CollectedParts
<1> QED BY <1>6, <1>7

\* A stored value changes only to what was entered for an active field, or goes
\* with the definition of its field, for saves that meet no other of their user.
THEOREM KeptSafety == Spec => KeptUnlessEntered
<1>1. Typed /\ AdminInv /\ [Next]_vars =>
        [\A u \in Users, f \in Fields :
            /\ rows[u] # None /\ profiles[u] # None /\ profiles'[u] # None
            /\ profiles'[u][f] # profiles[u][f]
            => \E q \in Requests :
                  /\ At(q, "write") /\ req[q].user = u
                  /\ \/ ~req[q].alone
                     \/ f \in Active(req[q].view) /\ profiles'[u][f] = req[q].entered[f]
                     \/ req[q].view[f] = None /\ profiles'[u][f] = None]_vars
  BY KeptStep
<1> QED BY <1>1, TypeCorrect, AdminCorrect, PTL DEF Spec, KeptUnlessEntered

=============================================================================
