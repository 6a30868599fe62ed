------------------------------ MODULE Invitations ------------------------------
(***************************************************************************)
(* The invitation API (provisioning.py) on its SQL contract                *)
(* (invitation_sql.py): creation, completion, rotation and revocation by   *)
(* concurrent requests, beside an administrator's edits of the users       *)
(* table.                                                                  *)
(*                                                                         *)
(* inv and users are the committed tables.  Completion runs in one         *)
(* transaction, whose uncommitted writes are kept in the request: the      *)
(* invitation row it has updated, the account it has inserted and the      *)
(* roles it has saved are locked until it commits or rolls back.  A        *)
(* statement that meets such a lock waits, and evaluates its WHERE clause  *)
(* on the row that it then finds (READ COMMITTED).                         *)
(***************************************************************************)
EXTENDS Naturals, FiniteSets

CONSTANTS
    Invitations,  \* invitation ids
    Secrets,      \* hashes of tokens
    Users,        \* user_id values
    Logins,       \* login names
    Roles,        \* role ids, named by their rank in sorted order
    RolesOf,      \* roles of each invitation
    Requests,     \* requests of the API; each is served once
    Lifetime,     \* expires_in
    MaxTime,      \* bound: the clock of one behaviour
    None          \* SQL null

ASSUME InvitationsAssumption ==
    /\ Roles \subseteq Nat /\ IsFiniteSet(Roles)
    /\ RolesOf \in [Invitations -> SUBSET Roles]
    /\ Lifetime \in Nat \ {0} /\ MaxTime \in Nat
    /\ None \notin Nat \cup Secrets \cup Users \cup Logins \cup Requests \cup Invitations

VARIABLES
    clock,
    autocommit,  \* whether a statement outside explicit transactions commits at once
    inv,         \* pas_invitations: row of each id, or None
    users,       \* users table: username of each user_id, or None
    drawn,       \* history: token hashes drawn so far
    req          \* local state of each request

vars == <<clock, autocommit, inv, users, drawn, req>>

Maybe(S) == S \cup {None}
Times == 0..MaxTime

\* claim is claim_nonce, named by the request that drew it.
Row == {row \in [secret: Secrets, expires: 0..(MaxTime + Lifetime), accepted: Maybe(Times),
                 revoked: BOOLEAN, result: Maybe(Users), claim: Maybe(Requests)] :
           row.accepted = None <=> row.result = None}

Answers == {"completed", "rotated", "revoked", "not_revoked", "refused"}

\* None is told apart from the values it stands in for.
ASSUME NoneAssumption == None \notin Row /\ None \notin Answers

\* The statement or commit a request executes next.
Steps == {"new", "identify", "claim", "insert", "roles", "commit",
          "update", "held", "read", "done"}

Request == [pc: Steps, op: {"complete", "rotate", "revoke"}, inv: Maybe(Invitations),
            secret: Maybe(Secrets), user: Maybe(Users), login: Maybe(Logins),
            now: Times, saved: SUBSET Roles, answer: Maybe(Answers)]

New == [pc |-> "new", op |-> "complete", inv |-> None, secret |-> None, user |-> None,
        login |-> None, now |-> 0, saved |-> {}, answer |-> None]

TypeOK ==
    /\ clock \in Times
    /\ autocommit \in BOOLEAN
    /\ inv \in [Invitations -> Maybe(Row)]
    /\ users \in [Users -> Maybe(Logins)]
    /\ drawn \subseteq Secrets
    /\ req \in [Requests -> Request]

Init ==
    /\ clock = 0
    /\ autocommit \in BOOLEAN
    /\ inv = [i \in Invitations |-> None]
    /\ users = [u \in Users |-> None]
    /\ drawn = {}
    /\ req = [r \in Requests |-> New]

-----------------------------------------------------------------------------
(* WHERE clauses and locks.                                                *)

Created == {i \in Invitations : inv[i] # None}

\* The "pending" fragment, and _pending in Python.
Pending(row, now) == row.accepted = None /\ ~ row.revoked /\ row.expires > now

\* Mutant: the claim is made on the invitation, whatever its secret has become.
ClaimWhereAnySecret(row, secret, now) == Pending(row, now) /\ row.claim = None

ClaimWhere(row, secret, now) ==
    row.secret = secret /\ Pending(row, now) /\ row.claim = None

\* Mutant: the expiry checked by the claim is good enough for the acceptance.
ConsumeWhereOpen(row, now) == row.accepted = None /\ ~ row.revoked

\* The nonce is the request's own: it has updated this row and holds its lock.
ConsumeWhere(row, now) == Pending(row, now)

RotateWhere(row, now) == Pending(row, now) /\ row.claim = None

\* Mutant: revocation only asks whether it has been done already.
RevokeWhereOnce(row) == ~ row.revoked

RevokeWhere(row) == row.accepted = None /\ ~ row.revoked /\ row.claim = None

\* A request that has updated its invitation row and not yet committed.
HoldsRow(r) == req[r].pc \in {"insert", "roles", "commit", "held"}

RowFree(i, r) == \A q \in Requests \ {r} : HoldsRow(q) => req[q].inv # i

\* A request whose inserted account is not yet committed.
HoldsAccount(r) == req[r].pc \in {"roles", "commit"}

\* The unique keys of the users table: user_id and username.
AccountFree(u, l, r) ==
    \A q \in Requests \ {r} : HoldsAccount(q) => req[q].user # u /\ req[q].login # l

RoleFree(role, r) == \A q \in Requests \ {r} : role \notin req[q].saved

LoginTaken(l, u) == \E v \in Users \ {u} : users[v] = l

End(r, answer) ==
    req' = [req EXCEPT ![r].pc = "done", ![r].saved = {}, ![r].answer = answer]

Refuse(r) == End(r, "refused")

-----------------------------------------------------------------------------
(* create_invitation: the row and its roles in one transaction, so all of  *)
(* it or nothing; the new id is known to nobody before the commit.         *)

CreateInvitation(i) ==
    /\ inv[i] = None
    /\ \E s \in Secrets \ drawn :
        /\ drawn' = drawn \cup {s}
        /\ inv' = [inv EXCEPT ![i] =
              [secret |-> s, expires |-> clock + Lifetime, accepted |-> None,
               revoked |-> FALSE, result |-> None, claim |-> None]]
    /\ UNCHANGED <<clock, autocommit, users, req>>

-----------------------------------------------------------------------------
(* complete_invitation.                                                    *)

\* The lookup by hash; one that finds no pending row changes nothing.  An
\* identity proposed in the invitation only restricts the choice made here.
Lookup(r) ==
    /\ req[r].pc = "new"
    /\ \E i \in Created, u \in Users, l \in Logins :
        /\ Pending(inv[i], clock) /\ inv[i].claim = None
        /\ req' = [req EXCEPT ![r] = [New EXCEPT !.pc = "identify", !.inv = i,
                      !.secret = inv[i].secret, !.user = u, !.login = l]]
    /\ UNCHANGED <<clock, autocommit, inv, users, drawn>>

\* PAS knows neither the user id nor the login; the time of the claim is taken.
Identify(r) ==
    /\ req[r].pc = "identify"
    /\ IF users[req[r].user] # None \/ LoginTaken(req[r].login, req[r].user)
       THEN Refuse(r)
       ELSE req' = [req EXCEPT ![r].pc = "claim", ![r].now = clock]
    /\ UNCHANGED <<clock, autocommit, inv, users, drawn>>

\* The claim, and the row read back to see whose nonce it carries.
Claim(r) ==
    /\ req[r].pc = "claim"
    /\ RowFree(req[r].inv, r)
    /\ IF ClaimWhere(inv[req[r].inv], req[r].secret, req[r].now)
       THEN req' = [req EXCEPT ![r].pc = "insert"]
       ELSE Refuse(r)
    /\ UNCHANGED <<clock, autocommit, inv, users, drawn>>

\* Mutant: the account is saved as an administrator's form saves it.
DuplicateNever(u, l) == FALSE

Duplicate(u, l) == users[u] # None \/ LoginTaken(l, u)

\* A plain insert; the profile and 2FA columns that follow belong to the same,
\* still invisible account.
InsertUser(r) ==
    /\ req[r].pc = "insert"
    /\ AccountFree(req[r].user, req[r].login, r)
    /\ IF Duplicate(req[r].user, req[r].login)
       THEN Refuse(r)
       ELSE req' = [req EXCEPT ![r].pc = "roles"]
    /\ UNCHANGED <<clock, autocommit, inv, users, drawn>>

\* Mutant: roles are saved in whatever order they were listed.
NextRolesListed(roles) == roles

\* ordinary_roles sorts.
NextRoles(roles) == {x \in roles : \A y \in roles : x <= y}

Unsaved(r) == RolesOf[req[r].inv] \ req[r].saved

\* save_sql_role locks a row of the role catalogue that other users share.
SaveRole(r) ==
    /\ req[r].pc = "roles"
    /\ \E x \in NextRoles(Unsaved(r)) :
        /\ RoleFree(x, r)
        /\ req' = [req EXCEPT ![r].saved = @ \cup {x}]
    /\ UNCHANGED <<clock, autocommit, inv, users, drawn>>

\* The acceptance, and the row read back to see that it took place.
Consume(r) ==
    /\ req[r].pc = "roles"
    /\ Unsaved(r) = {}
    /\ IF ConsumeWhere(inv[req[r].inv], clock)
       THEN req' = [req EXCEPT ![r].pc = "commit", ![r].now = clock]
       ELSE Refuse(r)
    /\ UNCHANGED <<clock, autocommit, inv, users, drawn>>

\* Mutant: the acceptance does not record whose account it made.
AcceptedAnonymous(row, q, r) == [row EXCEPT !.accepted = q.now, !.claim = r]

Accepted(row, q, r) ==
    [row EXCEPT !.accepted = q.now, !.result = q.user, !.claim = r]

\* The publisher commits at the end of the request.
Commit(r) ==
    /\ req[r].pc = "commit"
    /\ inv' = [inv EXCEPT ![req[r].inv] = Accepted(@, req[r], r)]
    /\ users' = [users EXCEPT ![req[r].user] = req[r].login]
    /\ End(r, "completed")
    /\ UNCHANGED <<clock, autocommit, drawn>>

-----------------------------------------------------------------------------
(* rotate_invitation_secret and revoke_invitation: one update, then the row *)
(* is read back for the answer.  With a connector that joins the Zope      *)
(* transaction the update is committed at the end of the request.          *)

StartRotate(r) ==
    /\ req[r].pc = "new"
    /\ \E i \in Created, s \in Secrets \ drawn :
        /\ drawn' = drawn \cup {s}
        /\ req' = [req EXCEPT ![r] = [New EXCEPT !.pc = "update", !.op = "rotate",
                      !.inv = i, !.secret = s, !.now = clock]]
    /\ UNCHANGED <<clock, autocommit, inv, users>>

StartRevoke(r) ==
    /\ req[r].pc = "new"
    /\ \E i \in Created :
        req' = [req EXCEPT ![r] = [New EXCEPT !.pc = "update", !.op = "revoke", !.inv = i]]
    /\ UNCHANGED <<clock, autocommit, inv, users, drawn>>

Matches(r) ==
    LET row == inv[req[r].inv]
    IN  IF req[r].op = "rotate" THEN RotateWhere(row, req[r].now) ELSE RevokeWhere(row)

Updated(r) ==
    IF req[r].op = "rotate" THEN [inv[req[r].inv] EXCEPT !.secret = req[r].secret]
    ELSE [inv[req[r].inv] EXCEPT !.revoked = TRUE]

Update(r) ==
    /\ req[r].pc = "update"
    /\ RowFree(req[r].inv, r)
    /\ inv' = IF Matches(r) /\ autocommit
              THEN [inv EXCEPT ![req[r].inv] = Updated(r)] ELSE inv
    /\ req' = [req EXCEPT ![r].pc = IF Matches(r) /\ ~ autocommit THEN "held" ELSE "read"]
    /\ UNCHANGED <<clock, autocommit, users, drawn>>

ReadBack(r) ==
    /\ req[r].pc = "read"
    /\ LET row == inv[req[r].inv]
       IN  IF req[r].op = "rotate"
           THEN End(r, IF row.secret = req[r].secret THEN "rotated" ELSE "refused")
           ELSE End(r, IF row.revoked THEN "revoked" ELSE "not_revoked")
    /\ UNCHANGED <<clock, autocommit, inv, users, drawn>>

\* The transaction reads its own update back, and commits.
CommitHeld(r) ==
    /\ req[r].pc = "held"
    /\ inv' = [inv EXCEPT ![req[r].inv] = Updated(r)]
    /\ End(r, IF req[r].op = "rotate" THEN "rotated" ELSE "revoked")
    /\ UNCHANGED <<clock, autocommit, users, drawn>>

-----------------------------------------------------------------------------
\* Any failure rolls the transaction back and dooms it, also after commit has
\* been requested.
Abort(r) ==
    /\ req[r].pc \notin {"new", "done"}
    /\ Refuse(r)
    /\ UNCHANGED <<clock, autocommit, inv, users, drawn>>

\* save_sql_user and delete_sql_user, as the users table sees them.
AdminSave(u, l) ==
    /\ AccountFree(u, l, None)
    /\ ~ LoginTaken(l, u)
    /\ users' = [users EXCEPT ![u] = l]
    /\ UNCHANGED <<clock, autocommit, inv, drawn, req>>

AdminDelete(u) ==
    /\ users[u] # None
    /\ users' = [users EXCEPT ![u] = None]
    /\ UNCHANGED <<clock, autocommit, inv, drawn, req>>

Tick ==
    /\ clock < MaxTime
    /\ clock' = clock + 1
    /\ UNCHANGED <<autocommit, inv, users, drawn, req>>

Start(r) == Lookup(r) \/ StartRotate(r) \/ StartRevoke(r)

Progress(r) ==
    \/ Identify(r) \/ Claim(r) \/ InsertUser(r) \/ SaveRole(r) \/ Consume(r) \/ Commit(r)
    \/ Update(r) \/ ReadBack(r) \/ CommitHeld(r)

Next ==
    \/ \E i \in Invitations : CreateInvitation(i)
    \/ \E r \in Requests : Start(r) \/ Progress(r) \/ Abort(r)
    \/ \E u \in Users : AdminDelete(u) \/ \E l \in Logins : AdminSave(u, l)
    \/ Tick

Spec == Init /\ [][Next]_vars

\* A thread that serves a request goes on with it, and the database grants a
\* lock that stays free.
FairSpec == Spec /\ \A r \in Requests : WF_vars(Progress(r))

-----------------------------------------------------------------------------
(* Properties.                                                             *)

StatusOf(row) ==
    IF row = None THEN "none"
    ELSE IF row.accepted # None THEN "accepted"
    ELSE IF row.revoked THEN "revoked" ELSE "open"

\* The committed tables implement the ledger: an invitation is accepted or
\* revoked once, and its acceptance and a new account appear together, however
\* completions, rotations and revocations overlap or fail (provisioning.py
\* complete_invitation, _write_transaction; invitation_sql.py).
Ledger == INSTANCE InvitationLedger WITH
    status <- [i \in Invitations |-> StatusOf(inv[i])],
    account <- [i \in Invitations |-> IF inv[i] = None THEN None ELSE inv[i].result],
    accounts <- {u \in Users : users[u] # None}

LedgerSpec == Ledger!Spec

Ended(answer) == {r \in Requests : req[r].answer = answer}

\* Whoever completes an invitation has presented the secret it still has: one
\* replaced by a rotation that finished earlier, or in the meantime, gets no
\* account (invitation_sql.py claim, rotate_secret).
CompletedWithCurrentSecret ==
    \A r \in Ended("completed") :
        LET row == inv[req[r].inv]
        IN  row.secret = req[r].secret /\ row.claim = r /\ row.result = req[r].user

\* The answer of revoke_invitation is final: after "revoked" the invitation is
\* never accepted, and any other answer means that it had been (provisioning.py
\* revoke_invitation).
RevocationAnswer ==
    /\ \A r \in Ended("revoked") :
        inv[req[r].inv].revoked /\ inv[req[r].inv].accepted = None
    /\ \A r \in Ended("not_revoked") : inv[req[r].inv].accepted # None

\* The claim may compare a time taken long before it got the row's lock; an
\* invitation is accepted before it expires all the same (provisioning.py
\* complete_invitation; invitation_sql.py consume).
AcceptedInTime ==
    \A i \in Created : inv[i].accepted # None => inv[i].accepted < inv[i].expires

\* The lock that request r's next statement needs is held by q.
Blocks(q, r) ==
    \/ req[r].pc \in {"claim", "update"} /\ HoldsRow(q) /\ req[q].inv = req[r].inv
    \/ req[r].pc = "insert" /\ HoldsAccount(q)
          /\ (req[q].user = req[r].user \/ req[q].login = req[r].login)
    \/ req[r].pc = "roles" /\ NextRoles(Unsaved(r)) \cap req[q].saved # {}

WaitsFor(r) == {q \in Requests \ {r} : Blocks(q, r)}

\* No requests wait in a circle for each other's invitation, account and role
\* rows: in any set of them, one waits for nobody of the set (provisioning.py
\* ordinary_roles and complete_invitation; sqladmin.py save_sql_user).
NoCircularWait ==
    \A S \in (SUBSET Requests) \ {{}} : \E r \in S : WaitsFor(r) \cap S = {}

\* So every request that starts also ends.
EveryRequestEnds ==
    \A r \in Requests : req[r].pc # "new" ~> req[r].pc = "done"
=============================================================================
