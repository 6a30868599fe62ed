----------------------------- MODULE SessionAuth -----------------------------
(***************************************************************************)
(* Browser sessions of a managed installation: the login and enrollment    *)
(* controller (login.py), the session helper kept in ZODB (sessions.py),   *)
(* the self-service 2FA page (admin.py, my_2fa) and the administrator's    *)
(* edits of the users table (sqladmin.py, save_sql_user).                  *)
(*                                                                         *)
(* Two stores with different isolation meet here.  Every Z SQL Method call *)
(* is one statement; these pages open no SQL transaction, so a connector   *)
(* such as OpenODBCDA makes it visible to all at once and does not undo it *)
(* when the request fails.  Each statement is an action of its own.  The   *)
(* session BTree is ZODB data: a request reads it as of its start and its  *)
(* changes appear in one commit at its end, or never.                      *)
(***************************************************************************)
EXTENDS Naturals

CONSTANTS
    Users,      \* user_id values of the users table
    Logins,     \* login names
    Fallbacks,  \* user_id values of the ZODB fallback store
    Passwords,  \* stored password values
    Plain,      \* those of them that are passwords as entered, and may be stored again
    Secrets,    \* TOTP secrets
    Tokens,     \* session tokens
    Requests,   \* publisher threads serving requests that may issue a session
    EditLimit,  \* bound: administrator forms submitted in one behaviour
    None        \* no row, no cookie, no code ...

ASSUME SessionAuthAssumption ==
    /\ Passwords \cap Secrets = {}
    /\ Plain \subseteq Passwords
    /\ EditLimit \in Nat
    /\ None \notin Users \cup Logins \cup Fallbacks \cup Passwords \cup Secrets \cup Tokens
                    \cup Requests

VARIABLES
    rows,       \* users table: row of each user_id, or None
    fallback,   \* ZODB fallback store: entry of each user_id, or None
    sessions,   \* SQLSessionHelper._sessions: record of each token, or None
    expired,    \* tokens whose "expires" has passed
    req,        \* local state of each request in flight
    admin,      \* local state of the administrator's save_sql_user
    edits,      \* bound: forms the administrator has submitted
    used,       \* history: passwords and secrets stored so far
    history,    \* history: what the holder of each issued token has proved
    overlapped  \* history: requests whose user row another actor has written

sqlVars == <<rows, used>>
zodbVars == <<fallback, sessions, expired, history>>
adminVars == <<admin, edits>>
vars == <<rows, fallback, sessions, expired, req, admin, edits, used, history, overlapped>>

Maybe(S) == S \cup {None}

Row == [login: Logins, password: Passwords, enabled: BOOLEAN,
        totpRequired: BOOLEAN, totpEnabled: BOOLEAN, totpSecret: Maybe(Secrets)]

\* An entry of the fallback store.
Entry == [login: Logins, password: Passwords]

\* The security fields a session is bound to; the digest is collision-free.
Stamp == [user: Users, login: Logins, password: Passwords, enabled: BOOLEAN,
          totpRequired: BOOLEAN, totpEnabled: BOOLEAN, totpSecret: Maybe(Secrets)]

\* Mutant: the password is left out of the fingerprint.
FingerprintWithoutPassword(u, row) ==
    [user |-> u, login |-> row.login, password |-> None,
     enabled |-> row.enabled, totpRequired |-> row.totpRequired,
     totpEnabled |-> row.totpEnabled, totpSecret |-> row.totpSecret]

Fingerprint(u, row) ==
    [user |-> u, login |-> row.login, password |-> row.password,
     enabled |-> row.enabled, totpRequired |-> row.totpRequired,
     totpEnabled |-> row.totpEnabled, totpSecret |-> row.totpSecret]

SqlSession == [kind: {"sql"}, user: Users, login: Logins, stamp: Stamp,
               scope: {"full", "enroll"}]
FallbackSession == [kind: {"fallback"}, user: Fallbacks, login: Logins,
                    stamp: Passwords, scope: {"full"}]
Session == SqlSession \cup FallbackSession

Proof == [password: Maybe(Passwords), secret: Maybe(Secrets), overlapped: BOOLEAN,
          parent: Maybe(Tokens)]

TwoFactorOps == {"reset", "confirm", "disable"}

\* Where a request stands: the statement or commit it executes next.
Steps == {"idle", "require", "enroll_read", "enroll_write",
          "read", "policy", "write", "refetch", "issue"}

Request == [pc: Steps, op: {"login", "enroll"} \cup TwoFactorOps,
            cookie: Maybe(Tokens),
            login: Maybe(Logins), user: Maybe(Users), fallback: Maybe(Fallbacks),
            password: Maybe(Passwords),
            code: Maybe(Secrets), row: Maybe(Row),
            scope: {"full", "enroll"}]

Idle == [pc |-> "idle", op |-> "login", cookie |-> None,
         login |-> None, user |-> None, fallback |-> None, password |-> None, code |-> None,
         row |-> None, scope |-> "full"]

\* None is told apart from the values it stands in for.
ASSUME NoneAssumption ==
    None \notin Row /\ None \notin Entry /\ None \notin Session /\ None \notin Proof

TypeOK ==
    /\ rows \in [Users -> Maybe(Row)]
    /\ fallback \in [Fallbacks -> Maybe(Entry)]
    /\ sessions \in [Tokens -> Maybe(Session)]
    /\ expired \subseteq Tokens
    /\ req \in [Requests -> Request]
    /\ admin \in [pc: {"idle", "password", "two_factor"}, user: Maybe(Users)]
    /\ edits \in 0..EditLimit
    /\ used \subseteq Passwords \cup Secrets
    /\ history \in [Tokens -> Maybe(Proof)]
    /\ overlapped \subseteq Requests

Init ==
    /\ rows = [u \in Users |-> None]
    /\ fallback = [f \in Fallbacks |-> None]
    /\ sessions = [t \in Tokens |-> None]
    /\ expired = {}
    /\ req = [r \in Requests |-> Idle]
    /\ admin = [pc |-> "idle", user |-> None]
    /\ edits = 0
    /\ used = {}
    /\ history = [t \in Tokens |-> None]
    /\ overlapped = {}

-----------------------------------------------------------------------------
(* Statements and helpers.                                                 *)

Issued == {t \in Tokens : history[t] # None}

\* The tokens a request can present and find; any other cookie is as none.
Found == {t \in Tokens : sessions[t] # None}

FetchUser(l) == {u \in Users : rows[u] # None /\ rows[u].login = l /\ rows[u].enabled}

LoginTaken(l, u) == \E v \in Users \ {u} : rows[v] # None /\ rows[v].login = l

\* An update of a user_id that is gone touches no row.
UpdateTwoFactor(u, required, enabled, secret) ==
    rows' = [rows EXCEPT ![u] =
        IF @ = None THEN None
        ELSE [@ EXCEPT !.totpRequired = required, !.totpEnabled = enabled,
                       !.totpSecret = secret]]

UpdatePassword(u, p) ==
    rows' = [rows EXCEPT ![u] = IF @ = None THEN None ELSE [@ EXCEPT !.password = p]]

\* Steps between a request's first reading of the row and its last.
Relying == {"require", "enroll_read", "enroll_write", "read", "policy", "write", "refetch"}

Overlap(u, writer) ==
    overlapped' = overlapped \cup
        {r \in Requests \ {writer} : req[r].pc \in Relying /\ req[r].user = u}

\* A code is named by the secret that produced it; an empty secret has none.
VerifyCode(secret, code) == code # None /\ code = secret

\* Mutant: a session is accepted for any enabled row of its user.
RecordValidByIdentity(record) ==
    record.kind = "sql" => record.user \in FetchUser(record.login)

\* SQLSessionHelper._record after the token lookup: the record against the
\* row, or the fallback entry, of now.
RecordValid(record) ==
    IF record.kind = "sql"
    THEN /\ record.user \in FetchUser(record.login)
         /\ Fingerprint(record.user, rows[record.user]) = record.stamp
         /\ record.scope = "full" =>
                ~ (rows[record.user].totpRequired /\ ~ rows[record.user].totpEnabled)
    ELSE /\ fallback[record.user] # None
         /\ fallback[record.user] = [login |-> record.login, password |-> record.stamp]

\* The cookie that PAS accepts as a principal.
Authenticates(t) ==
    /\ sessions[t] # None
    /\ t \notin expired
    /\ sessions[t].scope = "full"
    /\ RecordValid(sessions[t])

Goto(r, step) == req' = [req EXCEPT ![r].pc = step]

\* The request ends, with its ZODB changes discarded.
Finish(r) ==
    /\ req' = [req EXCEPT ![r] = Idle]
    /\ overlapped' = overlapped \ {r}

-----------------------------------------------------------------------------
(* Login: index_html.  A request's ZODB view and its first statement are    *)
(* taken in one step: a view that is older still only loses its commit.    *)

\* Mutant: a request without a code skips the second factor.
CredentialStatusCodeOptional(row, password, code) ==
    IF row.password # password THEN "credentials"
    ELSE IF row.totpEnabled /\ code # None
         THEN IF VerifyCode(row.totpSecret, code) THEN "ok" ELSE "otp"
         ELSE IF row.totpRequired /\ ~ row.totpEnabled THEN "enroll" ELSE "ok"

\* What _check_credentials answers for the fetched row.
CredentialStatus(row, password, code) ==
    IF row.password # password THEN "credentials"
    ELSE IF row.totpEnabled
         THEN IF VerifyCode(row.totpSecret, code) THEN "ok" ELSE "otp"
         ELSE IF row.totpRequired THEN "enroll" ELSE "ok"

LoginRequest(c, l, p) == [Idle EXCEPT !.cookie = c, !.login = l, !.password = p]

\* The request after _check_credentials has accepted the row of u.
SqlLogin(c, l, p, code, u) ==
    LET enroll == CredentialStatus(rows[u], p, code) = "enroll"
    IN  [LoginRequest(c, l, p) EXCEPT
            !.pc = IF enroll /\ rows[u].totpSecret = None THEN "require" ELSE "issue",
            !.user = u, !.row = rows[u],
            !.code = IF rows[u].totpEnabled THEN code ELSE None,
            !.scope = IF enroll THEN "enroll" ELSE "full"]

\* Wrong credentials end the request with a redirect and no session.
LoginSql(r) ==
    /\ req[r].pc = "idle"
    /\ \E c \in Maybe(Found), l \in Logins, p \in used \cap Passwords,
          code \in Maybe(used \cap Secrets), u \in Users :
        /\ u \in FetchUser(l)
        /\ CredentialStatus(rows[u], p, code) \in {"ok", "enroll"}
        /\ req' = [req EXCEPT ![r] = SqlLogin(c, l, p, code, u)]
    /\ UNCHANGED <<sqlVars, zodbVars, adminVars, overlapped>>

\* The request after the fallback store has accepted password p of login l.
FallbackLogin(c, f, l, p) ==
    [LoginRequest(c, l, p) EXCEPT !.pc = "issue", !.fallback = f]

\* Mutant: an unknown fallback login matches an unset password.
LoginFallbackUnknown(r) ==
    /\ req[r].pc = "idle"
    /\ \E c \in Maybe(Found), f \in Fallbacks, l \in Logins :
        req' = [req EXCEPT ![r] = FallbackLogin(c, f, l,
                    IF fallback[f] = None THEN None ELSE fallback[f].password)]
    /\ UNCHANGED <<sqlVars, zodbVars, adminVars, overlapped>>

\* No enabled row has the login, or the query failed: either way only the
\* fallback store can accept the password.
LoginFallback(r) ==
    /\ req[r].pc = "idle"
    /\ \E c \in Maybe(Found), f \in Fallbacks :
        /\ fallback[f] # None
        /\ req' = [req EXCEPT ![r] =
              FallbackLogin(c, f, fallback[f].login, fallback[f].password)]
    /\ UNCHANGED <<sqlVars, zodbVars, adminVars, overlapped>>

\* A user who must enroll and has no secret yet is given one.
LoginRequire(r) ==
    /\ req[r].pc = "require"
    /\ \E s \in Secrets \ used :
        /\ UpdateTwoFactor(req[r].user, TRUE, FALSE, s)
        /\ used' = used \cup {s}
    /\ Overlap(req[r].user, r)
    /\ Goto(r, "refetch")
    /\ UNCHANGED <<zodbVars, adminVars>>

-----------------------------------------------------------------------------
(* Requests that present a session: enroll and my_2fa.                     *)

SessionRequest(t, op, code) ==
    [Idle EXCEPT !.pc = IF op = "enroll" THEN "enroll_read" ELSE "read",
                 !.op = op, !.cookie = t, !.login = sessions[t].login,
                 !.user = sessions[t].user, !.password = history[t].password,
                 !.code = code]

\* _record accepts the cookie: with scope "enroll" for the enrollment page, as
\* a PAS principal for my_2fa, which refuses principals of the fallback store.
BeginWithSession(r) ==
    /\ req[r].pc = "idle"
    /\ \E t \in Found \ expired, op \in {"enroll"} \cup TwoFactorOps,
          code \in Maybe(used \cap Secrets) :
        /\ sessions[t].kind = "sql"
        /\ sessions[t].scope = IF op = "enroll" THEN "enroll" ELSE "full"
        /\ RecordValid(sessions[t])
        /\ req' = [req EXCEPT ![r] = SessionRequest(t, op, code)]
        /\ overlapped' = IF history[t].overlapped THEN overlapped \cup {r} ELSE overlapped
    /\ UNCHANGED <<sqlVars, zodbVars, adminVars>>

EnrollRead(r) ==
    /\ req[r].pc = "enroll_read"
    /\ IF /\ req[r].user \in FetchUser(req[r].login)
          /\ VerifyCode(rows[req[r].user].totpSecret, req[r].code)
       THEN /\ req' = [req EXCEPT ![r].pc = "enroll_write", ![r].row = rows[req[r].user]]
            /\ UNCHANGED overlapped
       ELSE Finish(r)
    /\ UNCHANGED <<sqlVars, zodbVars, adminVars>>

\* Mutant: confirming a code clears the requirement it satisfied.
EnrollWriteClears(r) ==
    /\ req[r].pc = "enroll_write"
    /\ UpdateTwoFactor(req[r].user, FALSE, TRUE, req[r].row.totpSecret)
    /\ Overlap(req[r].user, r)
    /\ Goto(r, "refetch")
    /\ UNCHANGED <<used, zodbVars, adminVars>>

EnrollWrite(r) ==
    /\ req[r].pc = "enroll_write"
    /\ UpdateTwoFactor(req[r].user, req[r].row.totpRequired, TRUE, req[r].row.totpSecret)
    /\ Overlap(req[r].user, r)
    /\ Goto(r, "refetch")
    /\ UNCHANGED <<used, zodbVars, adminVars>>

\* my_2fa: a current code while 2FA is on, none of it optional when required.
TwoFactorAllowed(op, row, code) ==
    /\ row.totpEnabled \/ op = "confirm" => VerifyCode(row.totpSecret, code)
    /\ op = "disable" => ~ row.totpRequired

TwoFactorRead(r) ==
    /\ req[r].pc = "read"
    /\ LET row == rows[req[r].user]
       IN  IF row # None /\ TwoFactorAllowed(req[r].op, row, req[r].code)
           THEN /\ req' = [req EXCEPT
                       ![r].pc = "policy", ![r].row = row,
                       ![r].code = IF VerifyCode(row.totpSecret, @) THEN @ ELSE None]
                /\ UNCHANGED overlapped
           ELSE Finish(r)
    /\ UNCHANGED <<sqlVars, zodbVars, adminVars>>

\* _update_user_totp reads totp_required again just before it writes it back.
TwoFactorPolicy(r) ==
    /\ req[r].pc = "policy"
    /\ req' = [req EXCEPT ![r].pc = "write",
                          ![r].row.totpRequired = rows[req[r].user] # None
                                                  /\ rows[req[r].user].totpRequired]
    /\ UNCHANGED <<sqlVars, zodbVars, adminVars, overlapped>>

TwoFactorWrite(r) ==
    /\ req[r].pc = "write"
    /\ \E s \in IF req[r].op = "reset" THEN Secrets \ used ELSE {req[r].row.totpSecret} :
        /\ UpdateTwoFactor(req[r].user, req[r].row.totpRequired, req[r].op = "confirm", s)
        /\ used' = used \cup ({s} \ {None})
    /\ Overlap(req[r].user, r)
    /\ Goto(r, "refetch")
    /\ UNCHANGED <<zodbVars, adminVars>>

-----------------------------------------------------------------------------
(* Reading the row back and issuing the session.                           *)

\* login and enroll ask for the login they started from; _refresh_session for
\* whatever login the user_id has by then.
RefetchLogin(r) ==
    IF req[r].op \in TwoFactorOps /\ rows[req[r].user] # None
    THEN rows[req[r].user].login ELSE req[r].login

Refetch(r) ==
    /\ req[r].pc = "refetch"
    /\ IF req[r].user \in FetchUser(RefetchLogin(r))
       THEN /\ req' = [req EXCEPT
                   ![r].pc = "issue", ![r].row = rows[req[r].user],
                   ![r].login = RefetchLogin(r),
                   ![r].scope = IF req[r].op = "reset" THEN "enroll" ELSE @]
            /\ UNCHANGED overlapped
       ELSE Finish(r)
    /\ UNCHANGED <<sqlVars, zodbVars, adminVars>>

NewSession(q) ==
    IF q.row = None
    THEN [kind |-> "fallback", user |-> q.fallback, login |-> q.login,
          stamp |-> q.password, scope |-> "full"]
    ELSE [kind |-> "sql", user |-> q.user, login |-> q.login,
          stamp |-> Fingerprint(q.user, q.row), scope |-> q.scope]

\* Deleted records leave no trace but the token they were exchanged for.
Spent(t) == [history[t] EXCEPT !.password = None, !.secret = None, !.overlapped = FALSE]

\* Mutant: the presented session is left in place.
RevokedNothing(r) == {}

Revoked(r) == {req[r].cookie} \cap Found

ProofOf(r) == [password |-> req[r].password, secret |-> req[r].code,
               overlapped |-> r \in overlapped,
               parent |-> IF req[r].op = "login" THEN None ELSE req[r].cookie]

\* _issue: expired records purged, the presented session revoked, the new one
\* added.  ZODB refuses a commit that deletes a key deleted since it was read.
Issue(r) ==
    /\ req[r].pc = "issue"
    /\ req[r].cookie # None => req[r].cookie \in Found
    /\ \E t \in Tokens \ Issued :
        LET gone == expired \cup Revoked(r)
        IN  /\ sessions' = [x \in Tokens |-> IF x = t THEN NewSession(req[r])
                                             ELSE IF x \in gone THEN None
                                             ELSE sessions[x]]
            /\ history' = [x \in Tokens |-> IF x = t THEN ProofOf(r)
                                            ELSE IF x \in gone THEN Spent(x)
                                            ELSE history[x]]
    /\ expired' = {}
    /\ Finish(r)
    /\ UNCHANGED <<sqlVars, fallback, adminVars>>

\* A conflict error, a full session store, a failed statement, a crash: the
\* request's ZODB changes are lost, its SQL statements stay.
Abort(r) ==
    /\ req[r].pc # "idle"
    /\ Finish(r)
    /\ UNCHANGED <<sqlVars, zodbVars, adminVars>>

Logout(t) ==
    /\ t \in Found
    /\ sessions' = [sessions EXCEPT ![t] = None]
    /\ history' = [history EXCEPT ![t] = Spent(t)]
    /\ expired' = expired \ {t}
    /\ UNCHANGED <<sqlVars, fallback, req, adminVars, overlapped>>

Expire(t) ==
    /\ t \in Found \ expired
    /\ expired' = expired \cup {t}
    /\ UNCHANGED <<sqlVars, fallback, sessions, req, adminVars, history, overlapped>>

-----------------------------------------------------------------------------
(* Administration: save_sql_user, one action per statement, delete, and    *)
(* the fallback store.                                                     *)

SubmitForm ==
    /\ edits < EditLimit
    /\ edits' = edits + 1

\* encode_password: a salted encoding is new, a plain one may be an earlier one.
Encodings == (Passwords \ used) \cup Plain

AdminCreate(u) ==
    /\ admin.pc = "idle"
    /\ SubmitForm
    /\ rows[u] = None
    /\ \E l \in Logins, p \in Encodings, e \in BOOLEAN :
        /\ ~ LoginTaken(l, u)
        /\ rows' = [rows EXCEPT ![u] =
              [login |-> l, password |-> p, enabled |-> e,
               totpRequired |-> FALSE, totpEnabled |-> FALSE, totpSecret |-> None]]
        /\ used' = used \cup {p}
    /\ admin' = [pc |-> "two_factor", user |-> u]
    /\ Overlap(u, None)
    /\ UNCHANGED <<zodbVars, req>>

AdminUpdate(u) ==
    /\ admin.pc = "idle"
    /\ SubmitForm
    /\ rows[u] # None
    /\ \E l \in Logins, e \in BOOLEAN :
        /\ ~ LoginTaken(l, u)
        /\ rows' = [rows EXCEPT ![u].login = l, ![u].enabled = e]
    /\ admin' = [pc |-> "password", user |-> u]
    /\ Overlap(u, None)
    /\ UNCHANGED <<used, zodbVars, req>>

\* The password field may be left empty.
AdminPassword ==
    /\ admin.pc = "password"
    /\ admin' = [admin EXCEPT !.pc = "two_factor"]
    /\ \/ UNCHANGED <<sqlVars, overlapped>>
       \/ \E p \in Encodings :
            /\ UpdatePassword(admin.user, p)
            /\ used' = used \cup {p}
            /\ Overlap(admin.user, None)
    /\ UNCHANGED <<zodbVars, req, edits>>

AdminTwoFactor ==
    /\ admin.pc = "two_factor"
    /\ \E required, enabled \in BOOLEAN, s \in Maybe(Secrets) :
        /\ UpdateTwoFactor(admin.user, required, enabled, s)
        /\ used' = used \cup ({s} \ {None})
    /\ admin' = [pc |-> "idle", user |-> None]
    /\ Overlap(admin.user, None)
    /\ UNCHANGED <<zodbVars, req, edits>>

\* manage_main shows an exception and lets the finished statements stand.
AdminFail ==
    /\ admin.pc # "idle"
    /\ admin' = [pc |-> "idle", user |-> None]
    /\ UNCHANGED <<sqlVars, zodbVars, req, overlapped, edits>>

AdminDelete(u) ==
    /\ admin.pc = "idle"
    /\ SubmitForm
    /\ rows[u] # None
    /\ rows' = [rows EXCEPT ![u] = None]
    /\ Overlap(u, None)
    /\ UNCHANGED <<used, zodbVars, req, admin>>

FallbackTaken(l, f) == \E g \in Fallbacks \ {f} : fallback[g] # None /\ fallback[g].login = l

\* A password and a login set by hand, or those of a parent folder's user that
\* repair imports: it copies the stored value as it is, also one that has been
\* here before, and keeps the login where another user has the new one.
FallbackPassword(f) ==
    /\ SubmitForm
    /\ \E l \in Logins, p \in Passwords :
        /\ ~ FallbackTaken(l, f)
        /\ fallback' = [fallback EXCEPT ![f] = [login |-> l, password |-> p]]
        /\ used' = used \cup {p}
    /\ UNCHANGED <<rows, sessions, expired, req, admin, history, overlapped>>

-----------------------------------------------------------------------------
RequestStep(r) ==
    \/ LoginSql(r) \/ LoginFallback(r) \/ LoginRequire(r)
    \/ BeginWithSession(r) \/ EnrollRead(r) \/ EnrollWrite(r)
    \/ TwoFactorRead(r) \/ TwoFactorPolicy(r) \/ TwoFactorWrite(r)
    \/ Refetch(r) \/ Issue(r) \/ Abort(r)

AdminStep ==
    \/ \E u \in Users : AdminCreate(u) \/ AdminUpdate(u) \/ AdminDelete(u)
    \/ AdminPassword \/ AdminTwoFactor \/ AdminFail

Next ==
    \/ \E r \in Requests : RequestStep(r)
    \/ \E t \in Tokens : Logout(t) \/ Expire(t)
    \/ AdminStep
    \/ \E f \in Fallbacks : FallbackPassword(f)

Spec == Init /\ [][Next]_vars

-----------------------------------------------------------------------------
(* Properties.                                                             *)

\* The stored password a session answers to, None when its row is gone.
CurrentPassword(t) ==
    LET user  == sessions[t].user
        store == IF sessions[t].kind = "fallback" THEN fallback ELSE rows
    IN  IF store[user] = None THEN None ELSE store[user].password

\* A cookie that PAS accepts was obtained by someone who presented the
\* password now stored, directly or through a chain of enrollment and 2FA
\* requests, unless another actor wrote the user's row in the middle of one
\* of those requests (login.py index_html, enroll; sessions.py _record).
AuthenticatedKnowsPassword ==
    \A t \in Tokens :
        Authenticates(t) /\ ~ history[t].overlapped
            => history[t].password = CurrentPassword(t)

\* A SQL cookie that PAS accepts for a row with 2FA enabled or required was
\* obtained with a code of the secret the row holds now, unless another actor
\* wrote the row in the middle of a request of the chain (login.py
\* _check_credentials, enroll; admin.py my_2fa).
AuthenticatedHasSecondFactor ==
    \A t \in Tokens :
        Authenticates(t) /\ sessions[t].kind = "sql" /\ ~ history[t].overlapped =>
            LET row == rows[sessions[t].user]
            IN  row.totpEnabled \/ row.totpRequired =>
                    row.totpSecret # None /\ history[t].secret = row.totpSecret

\* A session is exchanged for a newer one at most once, however many requests
\* present its cookie at the same time (sessions.py _issue, _revoke).
ExchangedOnce ==
    \A s, t \in Issued :
        history[s].parent # None /\ history[s].parent = history[t].parent => s = t

\* No session outlives a change of the password it answers to, and a password
\* that has not been stored before lets none in, whatever rows were deleted and
\* created and whichever requests were under way.  Only one that returns, being
\* plain or imported, can: sessions are bound to values (sessions.py
\* fingerprint, _record; password.py encode_password).
PasswordChangeRevokes ==
    [][\A t \in Tokens :
        sessions[t] # None /\ sessions'[t] # None
        /\ CurrentPassword(t)' # CurrentPassword(t) /\ Authenticates(t)'
            => ~ Authenticates(t) /\ CurrentPassword(t)' \in used]_vars

\* Only the administrator lifts "Require 2FA": the user's own requests write
\* totp_required back unchanged unless another actor wrote the row since they
\* read it (login.py enroll; admin.py _update_user_totp).
RequirementKept ==
    [][\A u \in Users :
        rows[u] # None /\ rows'[u] # None
        /\ rows[u].totpRequired /\ ~ rows'[u].totpRequired =>
            \/ admin' # admin
            \/ \E r \in overlapped :
                req[r].user = u /\ req[r].pc \in {"enroll_write", "write"}]_vars

\* docs/upgrade.md: "Password, enabled-state and 2FA changes invalidate SQL
\* sessions": a session those changes have invalidated is never accepted again
\* (sessions.py _record).
InvalidatedStaysInvalid ==
    [][\A t \in Tokens :
        sessions[t] # None /\ ~ Authenticates(t) => ~ Authenticates(t)']_vars

\* docs/upgrade.md, the same sentence: no session accepted after a password
\* change stems from the old password (login.py enroll).
NoSessionFromOldPassword ==
    \A t \in Tokens : Authenticates(t) => history[t].password = CurrentPassword(t)

=============================================================================
