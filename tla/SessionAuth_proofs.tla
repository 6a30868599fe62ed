-------------------------- MODULE SessionAuth_proofs --------------------------
(***************************************************************************)
(* Safety of SessionAuth for every number of users, tokens and requests.   *)
(* The argument follows a credential on its way into a session: what a     *)
(* request in flight has proved agrees with the row it is about to stamp   *)
(* (Relied), so what the holder of a token has proved agrees with the      *)
(* stamp (Proved), and _record accepts a token only while the stamp agrees *)
(* with the row.  Requests that another actor interrupts are set aside by  *)
(* the history variable overlapped.  The last three parts show that a      *)
(* token is exchanged once, that only the administrator lifts the          *)
(* requirement of a second factor, and that a password change revokes.     *)
(***************************************************************************)
EXTENDS SessionAuth, TLAPS

\* A request has the fields its next statement reads.
RequestOK ==
    \A r \in Requests :
        /\ req[r].pc # "idle" => req[r].login \in Logins /\ req[r].password \in Passwords
        /\ req[r].pc \in Relying \/ req[r].row # None => req[r].user \in Users
        /\ req[r].pc \in {"enroll_write", "policy", "write"} => req[r].row # None
        /\ req[r].pc = "issue" /\ req[r].row = None => req[r].fallback \in Fallbacks

AdminOK == admin.pc # "idle" => admin.user \in Users

\* The history of a stored session is there, with the password it answers to.
SessionOK ==
    /\ expired \subseteq Found
    /\ \A t \in Tokens : sessions[t] # None =>
           history[t] \in Proof /\ history[t].password \in Passwords

Typed == TypeOK /\ RequestOK /\ AdminOK /\ SessionOK

\* The stored password a session was stamped with.
StampPassword(s) == IF s.kind = "sql" THEN s.stamp.password ELSE s.stamp

\* Nobody else wrote the row of a request that is not in overlapped, so the
\* password it proved is the stored one until it has read the row back, and
\* the one read back after that.
PasswordRelied ==
    \A r \in Requests \ overlapped :
        /\ req[r].pc \in Relying =>
               /\ rows[req[r].user] # None
               /\ rows[req[r].user].password = req[r].password
        /\ req[r].pc = "issue" /\ req[r].row # None => req[r].row.password = req[r].password

PasswordProved ==
    \A t \in Tokens :
        sessions[t] # None /\ ~ history[t].overlapped =>
            history[t].password = StampPassword(sessions[t])

PasswordInv == PasswordRelied /\ PasswordProved

\* The second factor a row asks for is the secret whose code was presented.
CodeMatches(row, code) ==
    row.totpEnabled => row.totpSecret # None /\ code = row.totpSecret

\* The same for the code: a request that is about to enable 2FA holds a code
\* of the secret it writes.
CodeRelied ==
    \A r \in Requests :
        /\ (\/ req[r].pc = "enroll_write"
            \/ req[r].pc \in {"policy", "write"} /\ req[r].op = "confirm") =>
               req[r].row.totpSecret # None /\ req[r].code = req[r].row.totpSecret
        /\ r \notin overlapped =>
               /\ req[r].pc = "refetch" => CodeMatches(rows[req[r].user], req[r].code)
               /\ req[r].pc = "issue" /\ req[r].row # None /\ req[r].scope = "full" =>
                      CodeMatches(req[r].row, req[r].code)

CodeProved ==
    \A t \in Tokens :
        sessions[t] # None /\ ~ history[t].overlapped
        /\ sessions[t].kind = "sql" /\ sessions[t].scope = "full" =>
            CodeMatches(sessions[t].stamp, history[t].secret)

CodeInv == CodeRelied /\ CodeProved

-----------------------------------------------------------------------------
(* What the statements do to the users table.                              *)

LEMMA TwoFactorWritten ==
    ASSUME TypeOK, NEW u \in Users, NEW required \in BOOLEAN, NEW enabled \in BOOLEAN,
           NEW s \in Maybe(Secrets), UpdateTwoFactor(u, required, enabled, s)
    PROVE  /\ rows' \in [Users -> Maybe(Row)]
           /\ \A v \in Users : rows'[v] = None <=> rows[v] = None
           /\ \A v \in Users \ {u} : rows'[v] = rows[v]
           /\ \A v \in Users : rows[v] # None => rows'[v].password = rows[v].password
           /\ rows[u] # None => /\ rows'[u].totpRequired = required
                               /\ rows'[u].totpEnabled = enabled
                               /\ rows'[u].totpSecret = s
<1> DEFINE written == [rows[u] EXCEPT !.totpRequired = required, !.totpEnabled = enabled,
                                   !.totpSecret = s]
<1>1. CASE rows[u] = None
  BY <1>1 DEF TypeOK, UpdateTwoFactor, Maybe
<1>2. CASE rows[u] # None
  <2>1. rows[u] \in Row
    BY <1>2 DEF TypeOK, Maybe
  <2>2. /\ written \in Row /\ written.password = rows[u].password
        /\ written.totpRequired = required /\ written.totpEnabled = enabled
        /\ written.totpSecret = s
    BY <2>1 DEF Row
  <2>3. rows' = [rows EXCEPT ![u] = written]
    BY <1>2 DEF UpdateTwoFactor
  <2> HIDE DEF written
  <2>4. QED
    BY <1>2, <2>2, <2>3, NoneAssumption DEF TypeOK, Maybe
<1>3. QED
  BY <1>1, <1>2

LEMMA PasswordWritten ==
    ASSUME TypeOK, NEW u \in Users, NEW p \in Passwords, UpdatePassword(u, p)
    PROVE  /\ rows' \in [Users -> Maybe(Row)]
           /\ \A v \in Users : rows'[v] = None <=> rows[v] = None
           /\ \A v \in Users \ {u} : rows'[v] = rows[v]
           /\ rows[u] # None => rows'[u].password = p
BY NoneAssumption DEF TypeOK, UpdatePassword, Maybe, Row

\* A fetched user has a row, enabled and of the login asked for.
LEMMA FetchedUser ==
    ASSUME TypeOK, NEW l, NEW u \in FetchUser(l)
    PROVE  u \in Users /\ rows[u] \in Row /\ rows[u].login = l /\ rows[u].enabled
BY DEF TypeOK, FetchUser, Maybe

-----------------------------------------------------------------------------
(* Type correctness.                                                       *)

LEMMA InitTyped == Init => Typed
BY SessionAuthAssumption
DEF Init, Typed, TypeOK, RequestOK, AdminOK, SessionOK, Maybe, Request, Idle, Steps,
    Relying, Found

\* A request that ends leaves the others as they are.
LEMMA FinishTyped ==
    ASSUME Typed, NEW r \in Requests, Finish(r)
    PROVE  req' \in [Requests -> Request] /\ overlapped' \subseteq Requests /\ RequestOK'
BY DEF Typed, TypeOK, RequestOK, Finish, Idle, Request, Steps, Maybe, Relying

\* Requests and administrators do not touch the fallback store and, but for
\* Issue, not the sessions either.
LEMMA ZodbUntouched ==
    ASSUME Typed, UNCHANGED zodbVars
    PROVE  SessionOK' /\ fallback' \in [Fallbacks -> Maybe(Entry)]
           /\ sessions' \in [Tokens -> Maybe(Session)] /\ expired' \subseteq Tokens
           /\ history' \in [Tokens -> Maybe(Proof)]
BY DEF Typed, TypeOK, SessionOK, Found, zodbVars

\* One request moves on: its new local state is all that has to be checked.
LEMMA RequestMoves ==
    ASSUME Typed, NEW r \in Requests, NEW q \in Request, req' = [req EXCEPT ![r] = q],
           q.pc # "idle" => q.login \in Logins /\ q.password \in Passwords,
           q.pc \in Relying \/ q.row # None => q.user \in Users,
           q.pc \in {"enroll_write", "policy", "write"} => q.row # None,
           q.pc = "issue" /\ q.row = None => q.fallback \in Fallbacks
    PROVE  req' \in [Requests -> Request] /\ RequestOK'
BY DEF Typed, TypeOK, RequestOK

LEMMA LoginSqlTyped ==
    ASSUME Typed, NEW r \in Requests, LoginSql(r)
    PROVE  Typed'
<1> USE DEF Typed
<1>1. PICK c \in Maybe(Found), l \in Logins, p \in used \cap Passwords,
           code \in Maybe(used \cap Secrets), u \in Users :
        u \in FetchUser(l) /\ req' = [req EXCEPT ![r] = SqlLogin(c, l, p, code, u)]
  BY DEF LoginSql
<1> DEFINE q == SqlLogin(c, l, p, code, u)
<1>2. rows[u] \in Row /\ c \in Maybe(Tokens) /\ code \in Maybe(Secrets) /\ p \in Passwords
  BY <1>1, FetchedUser DEF Maybe, Found
<1>3. /\ q \in Request
      /\ q.pc \in {"require", "issue"}
      /\ q.login = l /\ q.password = p /\ q.user = u /\ q.row = rows[u]
  BY <1>2 DEF SqlLogin, LoginRequest, Idle, Request, Maybe, Steps
<1> HIDE DEF q
<1>4. req' \in [Requests -> Request] /\ RequestOK'
  BY <1>1, <1>2, <1>3, NoneAssumption, RequestMoves DEF q
<1>5. QED
  BY <1>4, ZodbUntouched DEF LoginSql, TypeOK, AdminOK, sqlVars, adminVars

LEMMA LoginFallbackTyped ==
    ASSUME Typed, NEW r \in Requests, LoginFallback(r)
    PROVE  Typed'
<1> USE DEF Typed
<1>1. PICK c \in Maybe(Found), f \in Fallbacks :
        /\ fallback[f] # None
        /\ req' = [req EXCEPT ![r] =
              FallbackLogin(c, f, fallback[f].login, fallback[f].password)]
  BY DEF LoginFallback
<1> DEFINE q == FallbackLogin(c, f, fallback[f].login, fallback[f].password)
<1>2. /\ fallback[f].login \in Logins /\ fallback[f].password \in Passwords
      /\ c \in Maybe(Tokens)
  BY <1>1 DEF TypeOK, Maybe, Found, Entry
<1>3. /\ q \in Request
      /\ q.pc = "issue" /\ q.row = None /\ q.fallback = f
      /\ q.login = fallback[f].login /\ q.password = fallback[f].password
  BY <1>2 DEF FallbackLogin, LoginRequest, Idle, Request, Maybe, Steps
<1> HIDE DEF q
<1>4. req' \in [Requests -> Request] /\ RequestOK'
  BY <1>1, <1>2, <1>3, RequestMoves DEF q, Relying
<1>5. QED
  BY <1>4, ZodbUntouched DEF LoginFallback, TypeOK, AdminOK, sqlVars, adminVars

LEMMA BeginWithSessionTyped ==
    ASSUME Typed, NEW r \in Requests, BeginWithSession(r)
    PROVE  Typed'
<1> USE DEF Typed
<1>1. PICK t \in Found \ expired, op \in {"enroll"} \cup TwoFactorOps,
           code \in Maybe(used \cap Secrets) :
        /\ sessions[t].kind = "sql"
        /\ req' = [req EXCEPT ![r] = SessionRequest(t, op, code)]
        /\ overlapped' = IF history[t].overlapped THEN overlapped \cup {r} ELSE overlapped
  BY DEF BeginWithSession
<1> DEFINE q == SessionRequest(t, op, code)
<1>2. /\ sessions[t] \in SqlSession /\ t \in Tokens /\ code \in Maybe(Secrets)
      /\ history[t].password \in Passwords
  BY <1>1 DEF TypeOK, SessionOK, Maybe, Found, Session, FallbackSession
<1>3. /\ q \in Request
      /\ q.pc \in {"enroll_read", "read"} /\ q.row = None
      /\ q.login \in Logins /\ q.password \in Passwords /\ q.user \in Users
  BY <1>2 DEF SessionRequest, SqlSession, Idle, Request, Maybe, Steps
<1> HIDE DEF q
<1>4. req' \in [Requests -> Request] /\ RequestOK'
  BY <1>1, <1>2, <1>3, RequestMoves DEF q
<1>5. QED
  BY <1>1, <1>4, ZodbUntouched DEF BeginWithSession, TypeOK, AdminOK, sqlVars, adminVars

\* The reading steps end the request or move it on with a row it has read.
LEMMA ReadingTyped ==
    ASSUME Typed, NEW r \in Requests,
           EnrollRead(r) \/ TwoFactorRead(r) \/ TwoFactorPolicy(r) \/ Refetch(r)
    PROVE  Typed'
<1> USE DEF Typed
<1>1. /\ req[r] \in Request /\ req[r].login \in Logins /\ req[r].password \in Passwords
      /\ req[r].user \in Users
  BY DEF TypeOK, RequestOK, EnrollRead, TwoFactorRead, TwoFactorPolicy, Refetch, Relying
<1>2. rows[req[r].user] \in Maybe(Row)
  BY <1>1 DEF TypeOK
<1>3. CASE Finish(r)
  BY <1>3, FinishTyped, ZodbUntouched
  DEF EnrollRead, TwoFactorRead, TwoFactorPolicy, Refetch, TypeOK, AdminOK, sqlVars, adminVars
<1>4. CASE ~ Finish(r)
  <2>1. req' \in [Requests -> Request] /\ RequestOK'
    <3>1. CASE EnrollRead(r)
      <4> DEFINE q == [req[r] EXCEPT !.pc = "enroll_write", !.row = rows[req[r].user]]
      <4>1. rows[req[r].user] \in Row /\ rows[req[r].user] # None
        BY <1>2, <1>4, <3>1 DEF EnrollRead, FetchUser, Maybe
      <4>2. /\ q \in Request /\ q.row # None
            /\ q.login \in Logins /\ q.password \in Passwords /\ q.user \in Users
        BY <1>1, <4>1 DEF Request, Steps, Maybe
      <4>3. req' = [req EXCEPT ![r] = q]
        BY <1>4, <3>1 DEF EnrollRead, TypeOK
      <4> HIDE DEF q
      <4>4. QED
        BY <4>2, <4>3, RequestMoves
    <3>2. CASE TwoFactorRead(r)
      <4> DEFINE row == rows[req[r].user]
                 q == [req[r] EXCEPT !.pc = "policy", !.row = row,
                          !.code = IF VerifyCode(row.totpSecret, @) THEN @ ELSE None]
      <4>1. row \in Row /\ row # None
        BY <1>2, <1>4, <3>2 DEF TwoFactorRead, Maybe
      <4>2. /\ q \in Request /\ q.row # None
            /\ q.login \in Logins /\ q.password \in Passwords /\ q.user \in Users
        BY <1>1, <4>1 DEF Request, Steps, Maybe
      <4>3. req' = [req EXCEPT ![r] = q]
        BY <1>4, <3>2 DEF TwoFactorRead, TypeOK
      <4> HIDE DEF q
      <4>4. QED
        BY <4>2, <4>3, RequestMoves
    <3>3. CASE TwoFactorPolicy(r)
      <4> DEFINE required == rows[req[r].user] # None /\ rows[req[r].user].totpRequired
                 row == [req[r].row EXCEPT !.totpRequired = required]
                 q == [req[r] EXCEPT !.pc = "write", !.row.totpRequired = required]
      <4>1. req[r].row \in Row /\ required \in BOOLEAN
        BY <1>1, <3>3 DEF TwoFactorPolicy, RequestOK, Request, Maybe
      <4>2. /\ q \in Request /\ q.row # None
            /\ q.login \in Logins /\ q.password \in Passwords /\ q.user \in Users
        <5>1. row \in Row
          BY <4>1 DEF Row
        <5>2. q = [req[r] EXCEPT !.pc = "write", !.row = row]
          BY <1>1 DEF Request
        <5> HIDE DEF q, row
        <5>3. QED
          BY <1>1, <5>1, <5>2, NoneAssumption DEF Request, Steps, Maybe
      <4>3. req' = [req EXCEPT ![r] = q]
        BY <3>3 DEF TwoFactorPolicy, TypeOK
      <4> HIDE DEF q
      <4>4. QED
        BY <4>2, <4>3, RequestMoves
    <3>4. CASE Refetch(r)
      <4> DEFINE q == [req[r] EXCEPT !.pc = "issue", !.row = rows[req[r].user],
                          !.login = RefetchLogin(r),
                          !.scope = IF req[r].op = "reset" THEN "enroll" ELSE @]
      <4>1. rows[req[r].user] \in Row /\ RefetchLogin(r) \in Logins
        BY <1>1, <1>2, <1>4, <3>4 DEF Refetch, RefetchLogin, FetchUser, Maybe, Row
      <4>2. q \in Request
        <5> DEFINE row == rows[req[r].user]
                   login == RefetchLogin(r)
                   scope == IF req[r].op = "reset" THEN "enroll" ELSE req[r].scope
        <5>1. /\ row \in Maybe(Row) /\ login \in Maybe(Logins) /\ scope \in {"full", "enroll"}
              /\ "issue" \in Steps
          BY <1>1, <4>1 DEF Maybe, Steps, Request
        <5>2. q = [req[r] EXCEPT !.pc = "issue", !.row = row, !.login = login, !.scope = scope]
          BY <1>1 DEF Request
        <5> HIDE DEF q, row, login, scope
        <5>3. QED
          BY <1>1, <5>1, <5>2 DEF Request
      <4>3. /\ q.pc = "issue" /\ q.row = rows[req[r].user]
            /\ q.login \in Logins /\ q.password \in Passwords /\ q.user \in Users
        BY <1>1, <4>1 DEF Request
      <4>4. req' = [req EXCEPT ![r] = q]
        BY <1>4, <3>4 DEF Refetch, TypeOK
      <4> HIDE DEF q
      <4>5. QED
        BY <4>1, <4>2, <4>3, <4>4, NoneAssumption, RequestMoves
    <3>5. QED
      BY <3>1, <3>2, <3>3, <3>4
  <2>2. QED
    BY <1>4, <2>1, ZodbUntouched
    DEF EnrollRead, TwoFactorRead, TwoFactorPolicy, Refetch, TypeOK, AdminOK, sqlVars, adminVars
<1>5. QED
  BY <1>3, <1>4

LEMMA OverlapTyped ==
    ASSUME Typed, NEW u, NEW writer, Overlap(u, writer)
    PROVE  overlapped' \subseteq Requests
BY DEF Typed, TypeOK, Overlap

\* The writing steps of a request end in reading the row back.
LEMMA WritingTyped ==
    ASSUME Typed, NEW r \in Requests, LoginRequire(r) \/ EnrollWrite(r) \/ TwoFactorWrite(r)
    PROVE  Typed'
<1> USE DEF Typed
<1> DEFINE q == [req[r] EXCEPT !.pc = "refetch"]
<1>1. /\ req[r] \in Request /\ req[r].login \in Logins /\ req[r].password \in Passwords
      /\ req[r].user \in Users
  BY DEF TypeOK, RequestOK, LoginRequire, EnrollWrite, TwoFactorWrite, Relying
<1>2. rows' \in [Users -> Maybe(Row)] /\ used' \subseteq Passwords \cup Secrets
  <2>1. CASE LoginRequire(r)
    BY <1>1, <2>1, TwoFactorWritten DEF LoginRequire, TypeOK, Maybe
  <2>2. CASE EnrollWrite(r)
    <3>1. req[r].row \in Row
      BY <1>1, <2>2 DEF EnrollWrite, RequestOK, Request, Maybe
    <3>2. QED
      BY <1>1, <2>2, <3>1, TwoFactorWritten DEF EnrollWrite, TypeOK, Row
  <2>3. CASE TwoFactorWrite(r)
    <3>1. req[r].row \in Row
      BY <1>1, <2>3 DEF TwoFactorWrite, RequestOK, Request, Maybe
    <3>2. PICK s \in Maybe(Secrets) :
            /\ UpdateTwoFactor(req[r].user, req[r].row.totpRequired, req[r].op = "confirm", s)
            /\ used' = used \cup ({s} \ {None})
      BY <2>3, <3>1 DEF TwoFactorWrite, Row, Maybe
    <3>3. req[r].row.totpRequired \in BOOLEAN /\ (req[r].op = "confirm") \in BOOLEAN
      BY <3>1 DEF Row
    <3>4. rows' \in [Users -> Maybe(Row)]
      BY <1>1, <3>2, <3>3, TwoFactorWritten
    <3>5. used' \subseteq Passwords \cup Secrets
      BY <3>2 DEF TypeOK, Maybe
    <3>6. QED
      BY <3>4, <3>5
  <2>4. QED
    BY <2>1, <2>2, <2>3
<1>3. q \in Request /\ q.login \in Logins /\ q.password \in Passwords /\ q.user \in Users
  BY <1>1 DEF Request, Steps
<1>4. req' = [req EXCEPT ![r] = q] /\ q.pc = "refetch"
  BY <1>1 DEF LoginRequire, EnrollWrite, TwoFactorWrite, Goto, TypeOK, Request
<1> HIDE DEF q
<1>5. req' \in [Requests -> Request] /\ RequestOK'
  BY <1>3, <1>4, RequestMoves
<1>6. overlapped' \subseteq Requests
  BY OverlapTyped DEF LoginRequire, EnrollWrite, TwoFactorWrite
<1>7. QED
  BY <1>2, <1>5, <1>6, ZodbUntouched
  DEF LoginRequire, EnrollWrite, TwoFactorWrite, TypeOK, AdminOK, adminVars

LEMMA SpentProof ==
    ASSUME NEW t, history[t] \in Proof
    PROVE  Spent(t) \in Proof
BY DEF Spent, Proof, Maybe

LEMMA IssueTyped ==
    ASSUME Typed, NEW r \in Requests, Issue(r)
    PROVE  Typed'
<1> USE DEF Typed
<1>1. PICK t \in Tokens \ Issued :
        LET gone == expired \cup Revoked(r)
        IN  /\ sessions' = [x \in Tokens |-> IF x = t THEN NewSession(req[r])
                                             ELSE IF x \in gone THEN None
                                             ELSE sessions[x]]
            /\ history' = [x \in Tokens |-> IF x = t THEN ProofOf(r)
                                            ELSE IF x \in gone THEN Spent(x)
                                            ELSE history[x]]
  BY DEF Issue
<1>2. /\ req[r] \in Request /\ req[r].login \in Logins /\ req[r].password \in Passwords
      /\ req[r].row # None => req[r].row \in Row /\ req[r].user \in Users
      /\ req[r].row = None => req[r].fallback \in Fallbacks
  BY DEF Issue, TypeOK, RequestOK, Request, Maybe
<1>3. NewSession(req[r]) \in Session
  BY <1>2 DEF NewSession, Session, SqlSession, FallbackSession, Fingerprint, Stamp, Row, Request
<1>4. ProofOf(r) \in Proof /\ ProofOf(r).password \in Passwords
  BY <1>2 DEF ProofOf, Proof, Request, Maybe
<1>5. \A x \in expired \cup Revoked(r) : Spent(x) \in Proof
  <2>1. \A x \in expired \cup Revoked(r) : history[x] \in Proof
    BY DEF SessionOK, Found, Revoked
  <2>2. QED
    BY <2>1, SpentProof
<1>6. sessions' \in [Tokens -> Maybe(Session)] /\ history' \in [Tokens -> Maybe(Proof)]
  BY <1>1, <1>3, <1>4, <1>5 DEF TypeOK, Maybe
<1>7. SessionOK'
  BY <1>1, <1>4 DEF Issue, SessionOK, TypeOK, Found
<1>8. req' \in [Requests -> Request] /\ overlapped' \subseteq Requests /\ RequestOK'
  BY FinishTyped DEF Issue
<1>9. QED
  BY <1>6, <1>7, <1>8 DEF Issue, TypeOK, AdminOK, sqlVars, adminVars

LEMMA RequestStepTyped ==
    ASSUME Typed, NEW r \in Requests, RequestStep(r)
    PROVE  Typed'
<1>1. CASE Abort(r)
  BY <1>1, FinishTyped, ZodbUntouched DEF Abort, Typed, TypeOK, AdminOK, sqlVars, adminVars
<1>2. QED
  BY <1>1, LoginSqlTyped, LoginFallbackTyped, BeginWithSessionTyped, ReadingTyped,
     WritingTyped, IssueTyped DEF RequestStep

\* Logging out and expiring touch one session.
LEMMA TokenStepTyped ==
    ASSUME Typed, NEW t \in Tokens, Logout(t) \/ Expire(t)
    PROVE  Typed'
<1> USE DEF Typed
<1>1. CASE Logout(t)
  <2>1. Spent(t) \in Proof
    BY <1>1, SpentProof DEF Logout, Found, SessionOK
  <2>2. QED
    BY <1>1, <2>1 DEF Logout, TypeOK, RequestOK, AdminOK, SessionOK, Found, Maybe,
                      sqlVars, adminVars
<1>2. CASE Expire(t)
  BY <1>2 DEF Expire, TypeOK, RequestOK, AdminOK, SessionOK, Found, sqlVars, adminVars
<1>3. QED
  BY <1>1, <1>2

\* The administrator changes rows, never a request's own state.
LEMMA AdminStepTyped ==
    ASSUME Typed, AdminStep
    PROVE  Typed'
<1> USE DEF Typed
<1>1. RequestOK' /\ req' \in [Requests -> Request] /\ SessionOK'
      /\ sessions' \in [Tokens -> Maybe(Session)] /\ history' \in [Tokens -> Maybe(Proof)]
      /\ expired' \subseteq Tokens /\ fallback' \in [Fallbacks -> Maybe(Entry)]
  BY ZodbUntouched DEF AdminStep, AdminCreate, AdminUpdate, AdminDelete, AdminPassword,
     AdminTwoFactor, AdminFail, TypeOK, RequestOK, Relying
<1>2. overlapped' \subseteq Requests
  BY OverlapTyped DEF AdminStep, AdminCreate, AdminUpdate, AdminDelete, AdminPassword,
     AdminTwoFactor, AdminFail, TypeOK
<1>3. edits' \in 0..EditLimit
  BY SessionAuthAssumption
  DEF AdminStep, AdminCreate, AdminUpdate, AdminDelete, AdminPassword,
      AdminTwoFactor, AdminFail, SubmitForm, TypeOK
<1>4. /\ rows' \in [Users -> Maybe(Row)] /\ used' \subseteq Passwords \cup Secrets
      /\ admin' \in [pc: {"idle", "password", "two_factor"}, user: Maybe(Users)]
      /\ AdminOK'
  <2>1. ASSUME NEW u \in Users, AdminCreate(u)
        PROVE  <1>4
    <3>1. PICK l \in Logins, p \in Passwords, e \in BOOLEAN :
            /\ rows' = [rows EXCEPT ![u] =
                  [login |-> l, password |-> p, enabled |-> e,
                   totpRequired |-> FALSE, totpEnabled |-> FALSE, totpSecret |-> None]]
            /\ used' = used \cup {p}
      BY <2>1, SessionAuthAssumption DEF AdminCreate, Encodings
    <3>2. QED
      BY <2>1, <3>1 DEF AdminCreate, TypeOK, AdminOK, Row, Maybe
  <2>2. ASSUME NEW u \in Users, AdminUpdate(u)
        PROVE  <1>4
    <3>1. PICK l \in Logins, e \in BOOLEAN :
            rows' = [rows EXCEPT ![u].login = l, ![u].enabled = e]
      BY <2>2 DEF AdminUpdate
    <3>2. [rows[u] EXCEPT !.login = l, !.enabled = e] \in Row
      <4>1. rows[u] \in Row
        BY <2>2 DEF AdminUpdate, TypeOK, Maybe
      <4>2. QED
        BY <4>1 DEF Row
    <3>3. rows' = [rows EXCEPT ![u] = [rows[u] EXCEPT !.login = l, !.enabled = e]]
      BY <3>1 DEF TypeOK
    <3>4. QED
      BY <2>2, <3>2, <3>3 DEF AdminUpdate, TypeOK, AdminOK, Maybe
  <2>3. ASSUME NEW u \in Users, AdminDelete(u)
        PROVE  <1>4
    BY <2>3 DEF AdminDelete, TypeOK, AdminOK, Maybe
  <2>4. CASE AdminPassword
    BY <2>4, PasswordWritten, SessionAuthAssumption
    DEF AdminPassword, Encodings, TypeOK, AdminOK, Maybe, sqlVars
  <2>5. CASE AdminTwoFactor
    BY <2>5, TwoFactorWritten DEF AdminTwoFactor, TypeOK, AdminOK, Maybe
  <2>6. CASE AdminFail
    BY <2>6 DEF AdminFail, TypeOK, AdminOK, Maybe, sqlVars
  <2>7. QED
    BY <2>1, <2>2, <2>3, <2>4, <2>5, <2>6 DEF AdminStep
<1>5. QED
  BY <1>1, <1>2, <1>3, <1>4 DEF TypeOK

LEMMA NextTyped == Typed /\ [Next]_vars => Typed'
<1> SUFFICES ASSUME Typed, [Next]_vars PROVE Typed'
  OBVIOUS
<1>1. ASSUME NEW f \in Fallbacks, FallbackPassword(f)
      PROVE  Typed'
  BY <1>1, SessionAuthAssumption
  DEF FallbackPassword, SubmitForm, Typed, TypeOK, RequestOK, AdminOK, SessionOK, Found, Maybe, Entry
<1>2. CASE UNCHANGED vars
  BY <1>2 DEF vars, Typed, TypeOK, RequestOK, AdminOK, SessionOK, Found
<1>3. QED
  BY <1>1, <1>2, RequestStepTyped, TokenStepTyped, AdminStepTyped DEF Next

\* Every variable keeps its type, and every request has the fields its next
\* statement reads (login.py, admin.py, sessions.py, sqladmin.py).
THEOREM TypeCorrect == Spec => []Typed
BY InitTyped, NextTyped, PTL DEF Spec

\* The type invariant alone.
THEOREM TypeSafety == Spec => []TypeOK
BY TypeCorrect, PTL DEF Typed

-----------------------------------------------------------------------------
(* The password behind a session.                                          *)

\* Only the row of u is written, and everyone who relies on it is marked.
RowOnly(u, writer) ==
    /\ \A v \in Users \ {u} : rows'[v] = rows[v]
    /\ Overlap(u, writer)

\* A request that another actor's write does not mark still relies rightly.
PasswordReliedBy(r) ==
    /\ req[r].pc \in Relying =>
           /\ rows[req[r].user] # None
           /\ rows[req[r].user].password = req[r].password
    /\ req[r].pc = "issue" /\ req[r].row # None => req[r].row.password = req[r].password

LEMMA OthersRelyOnPassword ==
    ASSUME Typed, PasswordRelied, NEW u, NEW writer, RowOnly(u, writer),
           NEW r \in Requests \ overlapped', r # writer, req'[r] = req[r]
    PROVE  PasswordReliedBy(r)'
BY DEF Typed, TypeOK, RequestOK, PasswordRelied, PasswordReliedBy, RowOnly, Overlap

LEMMA PasswordInitially == Init => PasswordInv
BY DEF Init, PasswordInv, PasswordRelied, PasswordProved, Idle, Relying

LEMMA BeginKeepsPassword ==
    ASSUME Typed, PasswordInv, NEW r \in Requests,
           LoginSql(r) \/ LoginFallback(r) \/ BeginWithSession(r)
    PROVE  PasswordInv'
<1> USE DEF PasswordInv
<1>1. PasswordProved'
  BY DEF PasswordProved, LoginSql, LoginFallback, BeginWithSession, zodbVars
<1>2. ASSUME NEW o \in Requests \ overlapped', o # r
      PROVE  PasswordReliedBy(o)'
  BY <1>2 DEF PasswordRelied, PasswordReliedBy, Typed, TypeOK, LoginSql, LoginFallback,
              BeginWithSession, sqlVars
<1>3. ASSUME r \notin overlapped'
      PROVE  PasswordReliedBy(r)'
  <2>1. CASE LoginSql(r)
    <3>1. PICK c \in Maybe(Found), l \in Logins, p \in used \cap Passwords,
               code \in Maybe(used \cap Secrets), u \in Users :
            /\ u \in FetchUser(l)
            /\ CredentialStatus(rows[u], p, code) \in {"ok", "enroll"}
            /\ req' = [req EXCEPT ![r] = SqlLogin(c, l, p, code, u)]
      BY <2>1 DEF LoginSql
    <3>2. rows[u] # None /\ rows[u].password = p
      BY <3>1 DEF FetchUser, CredentialStatus
    <3>3. req'[r] = SqlLogin(c, l, p, code, u) /\ rows' = rows
      BY <2>1, <3>1 DEF LoginSql, Typed, TypeOK, sqlVars
    <3>4. rows' = rows /\ req'[r].user = u /\ req'[r].password = p /\ req'[r].row = rows[u]
      BY <3>3 DEF SqlLogin, LoginRequest, Idle
    <3>5. QED
      BY <3>2, <3>4 DEF PasswordReliedBy
  <2>2. CASE LoginFallback(r)
    <3>1. PICK c \in Maybe(Found), f \in Fallbacks :
            req' = [req EXCEPT ![r] =
                FallbackLogin(c, f, fallback[f].login, fallback[f].password)]
      BY <2>2 DEF LoginFallback
    <3>2. req'[r].pc = "issue" /\ req'[r].row = None
      BY <3>1 DEF FallbackLogin, LoginRequest, Idle, Typed, TypeOK
    <3>3. QED
      BY <3>2 DEF PasswordReliedBy, Relying
  <2>3. CASE BeginWithSession(r)
    <3>1. PICK t \in Found \ expired, op \in {"enroll"} \cup TwoFactorOps,
               code \in Maybe(used \cap Secrets) :
            /\ sessions[t].kind = "sql"
            /\ RecordValid(sessions[t])
            /\ req' = [req EXCEPT ![r] = SessionRequest(t, op, code)]
            /\ overlapped' = IF history[t].overlapped THEN overlapped \cup {r} ELSE overlapped
      BY <2>3 DEF BeginWithSession
    <3>2. history[t].password = sessions[t].stamp.password
      BY <1>3, <3>1 DEF PasswordProved, StampPassword, Found
    <3>3. rows[sessions[t].user] # None
          /\ rows[sessions[t].user].password = sessions[t].stamp.password
      BY <3>1 DEF RecordValid, FetchUser, Fingerprint
    <3>4. req'[r] = SessionRequest(t, op, code) /\ rows' = rows
      BY <2>3, <3>1 DEF BeginWithSession, Typed, TypeOK, sqlVars
    <3>5. /\ req'[r].user = sessions[t].user /\ req'[r].password = history[t].password
          /\ req'[r].row = None
      BY <3>4 DEF SessionRequest, Idle
    <3>6. QED
      BY <3>2, <3>3, <3>4, <3>5 DEF PasswordReliedBy
  <2>4. QED
    BY <2>1, <2>2, <2>3
<1>4. QED
  BY <1>1, <1>2, <1>3 DEF PasswordRelied, PasswordReliedBy

\* A request that ends has nothing more to rely on.
LEMMA FinishKeepsPassword ==
    ASSUME Typed, PasswordRelied, NEW r \in Requests, Finish(r), rows' = rows
    PROVE  PasswordRelied'
BY DEF Typed, TypeOK, PasswordRelied, Finish, Idle, Relying

LEMMA ReadingKeepsPassword ==
    ASSUME Typed, PasswordInv, NEW r \in Requests,
           EnrollRead(r) \/ TwoFactorRead(r) \/ TwoFactorPolicy(r) \/ Refetch(r)
    PROVE  PasswordInv'
<1> USE DEF PasswordInv
<1>1. PasswordProved' /\ rows' = rows
  BY DEF PasswordProved, EnrollRead, TwoFactorRead, TwoFactorPolicy, Refetch, zodbVars, sqlVars
<1>2. CASE Finish(r)
  BY <1>1, <1>2, FinishKeepsPassword
<1>3. CASE ~ Finish(r)
  <2>1. overlapped' = overlapped /\ \A o \in Requests \ {r} : req'[o] = req[o]
    BY <1>3 DEF EnrollRead, TwoFactorRead, TwoFactorPolicy, Refetch, Typed, TypeOK
  <2>2. req[r] \in Request /\ req[r].pc \in Relying
    BY DEF EnrollRead, TwoFactorRead, TwoFactorPolicy, Refetch, Typed, TypeOK, Relying
  <2>3. /\ req'[r].user = req[r].user /\ req'[r].password = req[r].password
        /\ req'[r].pc = "issue" => req'[r].row = rows[req[r].user]
    BY <1>3, <2>2 DEF EnrollRead, TwoFactorRead, TwoFactorPolicy, Refetch, Request, Typed, TypeOK
  <2>4. QED
    BY <1>1, <2>1, <2>2, <2>3 DEF PasswordRelied
<1>4. QED
  BY <1>2, <1>3

LEMMA WritingKeepsPassword ==
    ASSUME Typed, PasswordInv, NEW r \in Requests,
           LoginRequire(r) \/ EnrollWrite(r) \/ TwoFactorWrite(r)
    PROVE  PasswordInv'
<1> USE DEF PasswordInv
<1> DEFINE u == req[r].user
<1>1. PasswordProved'
  BY DEF PasswordProved, LoginRequire, EnrollWrite, TwoFactorWrite, zodbVars
<1>2. /\ u \in Users /\ req[r].pc \in Relying
      /\ req[r].pc \in {"enroll_write", "write"} => req[r].row \in Row
  BY DEF LoginRequire, EnrollWrite, TwoFactorWrite, Relying, Typed, TypeOK, RequestOK, Request, Maybe
<1>3. PICK required \in BOOLEAN, enabled \in BOOLEAN, s \in Maybe(Secrets) :
        UpdateTwoFactor(u, required, enabled, s)
  BY <1>2 DEF LoginRequire, EnrollWrite, TwoFactorWrite, Row, Maybe
<1>4. /\ \A v \in Users : rows'[v] = None <=> rows[v] = None
      /\ \A v \in Users \ {u} : rows'[v] = rows[v]
      /\ \A v \in Users : rows[v] # None => rows'[v].password = rows[v].password
  BY <1>2, <1>3, TwoFactorWritten DEF Typed
<1>5. /\ Overlap(u, r) /\ req' = [req EXCEPT ![r].pc = "refetch"]
  BY DEF LoginRequire, EnrollWrite, TwoFactorWrite, Goto
<1>6. ASSUME NEW o \in Requests \ overlapped', o # r
      PROVE  PasswordReliedBy(o)'
  <2>1. req'[o] = req[o]
    BY <1>5, <1>6 DEF Typed, TypeOK
  <2>2. RowOnly(u, r)
    BY <1>4, <1>5 DEF RowOnly
  <2>3. QED
    BY <1>6, <2>1, <2>2, OthersRelyOnPassword
<1>7. ASSUME r \notin overlapped'
      PROVE  PasswordReliedBy(r)'
  <2>1. rows[u] # None /\ rows[u].password = req[r].password
    BY <1>2, <1>5, <1>7 DEF PasswordRelied, Overlap
  <2>2. req'[r].user = u /\ req'[r].password = req[r].password /\ req'[r].pc = "refetch"
    BY <1>5 DEF Typed, TypeOK, Request
  <2>3. QED
    BY <1>2, <1>4, <2>1, <2>2 DEF PasswordReliedBy
<1>8. QED
  BY <1>1, <1>6, <1>7 DEF PasswordRelied, PasswordReliedBy

\* The new session answers to the password its holder has proved.
LEMMA IssueKeepsPassword ==
    ASSUME Typed, PasswordInv, NEW r \in Requests, Issue(r)
    PROVE  PasswordInv'
<1> USE DEF PasswordInv
<1>1. PasswordRelied'
  BY FinishKeepsPassword DEF Issue, sqlVars
<1>2. PICK t \in Tokens \ Issued :
        LET gone == expired \cup Revoked(r)
        IN  /\ sessions' = [x \in Tokens |-> IF x = t THEN NewSession(req[r])
                                             ELSE IF x \in gone THEN None
                                             ELSE sessions[x]]
            /\ history' = [x \in Tokens |-> IF x = t THEN ProofOf(r)
                                            ELSE IF x \in gone THEN Spent(x)
                                            ELSE history[x]]
  BY DEF Issue
<1>3. ProofOf(r).password = req[r].password /\ ProofOf(r).overlapped = (r \in overlapped)
  BY DEF ProofOf
<1>4. r \notin overlapped => StampPassword(NewSession(req[r])) = req[r].password
  BY DEF Issue, PasswordRelied, StampPassword, NewSession, Fingerprint
<1>5. QED
  BY <1>1, <1>2, <1>3, <1>4 DEF PasswordProved

\* A statement of the administrator's writes one row, or none.
LEMMA AdminWritesOneRow ==
    ASSUME Typed, AdminStep
    PROVE  \/ rows' = rows /\ overlapped' = overlapped
           \/ \E u : RowOnly(u, None)
<1>1. ASSUME NEW u \in Users, AdminCreate(u) \/ AdminUpdate(u) \/ AdminDelete(u)
      PROVE  RowOnly(u, None)
  BY <1>1 DEF AdminCreate, AdminUpdate, AdminDelete, RowOnly, Typed, TypeOK
<1>2. CASE AdminPassword
  BY <1>2, PasswordWritten, SessionAuthAssumption
  DEF AdminPassword, Encodings, RowOnly, sqlVars, Typed, TypeOK, AdminOK
<1>3. CASE AdminTwoFactor
  BY <1>3, TwoFactorWritten DEF AdminTwoFactor, RowOnly, Typed, TypeOK, AdminOK
<1>4. QED
  BY <1>1, <1>2, <1>3 DEF AdminStep, AdminFail, sqlVars

LEMMA AdminKeepsPassword ==
    ASSUME Typed, PasswordInv, AdminStep
    PROVE  PasswordInv'
<1> USE DEF PasswordInv
<1>1. PasswordProved' /\ req' = req
  BY DEF PasswordProved, zodbVars, AdminStep, AdminCreate, AdminUpdate, AdminDelete,
         AdminPassword, AdminTwoFactor, AdminFail
<1>2. CASE rows' = rows /\ overlapped' = overlapped
  BY <1>1, <1>2 DEF PasswordRelied
<1>3. CASE \E u : RowOnly(u, None)
  <2>1. None \notin Requests
    BY SessionAuthAssumption
  <2>2. \A r \in Requests \ overlapped' : PasswordReliedBy(r)'
    BY <1>1, <1>3, <2>1, OthersRelyOnPassword
  <2>3. QED
    BY <1>1, <2>2 DEF PasswordRelied, PasswordReliedBy
<1>4. QED
  BY <1>2, <1>3, AdminWritesOneRow

LEMMA NextKeepsPassword == Typed /\ PasswordInv /\ [Next]_vars => PasswordInv'
<1> SUFFICES ASSUME Typed, PasswordInv, [Next]_vars PROVE PasswordInv'
  OBVIOUS
<1>1. ASSUME NEW r \in Requests, Abort(r)
      PROVE  PasswordInv'
  BY <1>1, FinishKeepsPassword DEF Abort, PasswordInv, PasswordProved, zodbVars, sqlVars
<1>2. ASSUME NEW t \in Tokens, Logout(t) \/ Expire(t)
      PROVE  PasswordInv'
  BY <1>2 DEF Logout, Expire, PasswordInv, PasswordRelied, PasswordProved, sqlVars, Typed, TypeOK
<1>3. ASSUME NEW f \in Fallbacks, FallbackPassword(f)
      PROVE  PasswordInv'
  BY <1>3 DEF FallbackPassword, PasswordInv, PasswordRelied, PasswordProved
<1>4. CASE UNCHANGED vars
  BY <1>4 DEF vars, PasswordInv, PasswordRelied, PasswordProved
<1>5. QED
  BY <1>1, <1>2, <1>3, <1>4, BeginKeepsPassword, ReadingKeepsPassword, WritingKeepsPassword,
     IssueKeepsPassword, AdminKeepsPassword DEF Next, RequestStep

\* A session that _record accepts carries the stored password.
LEMMA AcceptedStamp ==
    ASSUME Typed, NEW t \in Tokens, Authenticates(t)
    PROVE  StampPassword(sessions[t]) = CurrentPassword(t)
BY DEF Authenticates, RecordValid, StampPassword, CurrentPassword, Fingerprint, FetchUser,
       Typed, TypeOK, Maybe, Session, SqlSession, FallbackSession

\* A cookie that PAS accepts was obtained with the password stored now, unless
\* another actor wrote the row in the middle (sessions.py _record, _issue;
\* login.py index_html, enroll; admin.py my_2fa).
THEOREM KnowsPassword == Spec => []AuthenticatedKnowsPassword
<1>1. Typed /\ PasswordInv => AuthenticatedKnowsPassword
  BY AcceptedStamp DEF PasswordInv, PasswordProved, AuthenticatedKnowsPassword, Authenticates
<1>2. QED
  BY <1>1, TypeCorrect, PasswordInitially, NextKeepsPassword, PTL DEF Spec

-----------------------------------------------------------------------------
(* The second factor behind a session.                                     *)

CodeReliedBy(r) ==
    /\ (\/ req[r].pc = "enroll_write"
        \/ req[r].pc \in {"policy", "write"} /\ req[r].op = "confirm") =>
           req[r].row.totpSecret # None /\ req[r].code = req[r].row.totpSecret
    /\ r \notin overlapped =>
           /\ req[r].pc = "refetch" => CodeMatches(rows[req[r].user], req[r].code)
           /\ req[r].pc = "issue" /\ req[r].row # None /\ req[r].scope = "full" =>
                  CodeMatches(req[r].row, req[r].code)

LEMMA OthersRelyOnCode ==
    ASSUME Typed, CodeRelied, NEW u, NEW writer, RowOnly(u, writer),
           NEW r \in Requests, r # writer, req'[r] = req[r]
    PROVE  CodeReliedBy(r)'
BY DEF Typed, TypeOK, RequestOK, CodeRelied, CodeReliedBy, RowOnly, Overlap, Relying, CodeMatches

LEMMA CodeInitially == Init => CodeInv
BY DEF Init, CodeInv, CodeRelied, CodeProved, Idle

LEMMA FinishKeepsCode ==
    ASSUME Typed, CodeRelied, NEW r \in Requests, Finish(r), rows' = rows
    PROVE  CodeRelied'
BY DEF Typed, TypeOK, CodeRelied, CodeMatches, Finish, Idle

LEMMA BeginKeepsCode ==
    ASSUME Typed, CodeInv, NEW r \in Requests,
           LoginSql(r) \/ LoginFallback(r) \/ BeginWithSession(r)
    PROVE  CodeInv'
<1> USE DEF CodeInv
<1>1. CodeProved' /\ rows' = rows /\ overlapped' \ {r} = overlapped \ {r}
  BY DEF CodeProved, CodeMatches, LoginSql, LoginFallback, BeginWithSession, zodbVars, sqlVars
<1>2. ASSUME NEW o \in Requests, o # r
      PROVE  CodeReliedBy(o)'
  <2>1. req'[o] = req[o]
    BY <1>2 DEF LoginSql, LoginFallback, BeginWithSession, Typed, TypeOK
  <2>2. QED
    BY <1>1, <1>2, <2>1 DEF CodeRelied, CodeReliedBy, CodeMatches
<1>3. CodeReliedBy(r)'
  <2>1. CASE LoginSql(r)
    <3>1. PICK c \in Maybe(Found), l \in Logins, p \in used \cap Passwords,
               code \in Maybe(used \cap Secrets), u \in Users :
            req' = [req EXCEPT ![r] = SqlLogin(c, l, p, code, u)]
            /\ CredentialStatus(rows[u], p, code) \in {"ok", "enroll"}
      BY <2>1 DEF LoginSql
    <3>2. req'[r] = SqlLogin(c, l, p, code, u)
      BY <3>1 DEF Typed, TypeOK
    <3>3. req'[r].pc \in {"require", "issue"} /\ req'[r].row = rows[u]
      BY <3>2 DEF SqlLogin, LoginRequest, Idle
    <3>4. req'[r].scope = "full" => CredentialStatus(rows[u], p, code) = "ok"
      <4>1. req'[r].scope = IF CredentialStatus(rows[u], p, code) = "enroll"
                            THEN "enroll" ELSE "full"
        BY <3>2 DEF SqlLogin, LoginRequest, Idle
      <4>2. QED
        BY <3>1, <4>1
    <3>5. req'[r].code = IF rows[u].totpEnabled THEN code ELSE None
      BY <3>2 DEF SqlLogin, LoginRequest, Idle
    <3>6. CredentialStatus(rows[u], p, code) = "ok" => CodeMatches(rows[u], code)
      BY DEF CredentialStatus, VerifyCode, CodeMatches
    <3>7. QED
      BY <3>3, <3>4, <3>5, <3>6 DEF CodeReliedBy, CodeMatches
  <2>2. CASE LoginFallback(r)
    <3>1. PICK c \in Maybe(Found), f \in Fallbacks :
            req' = [req EXCEPT ![r] =
                FallbackLogin(c, f, fallback[f].login, fallback[f].password)]
      BY <2>2 DEF LoginFallback
    <3>2. req'[r].pc = "issue" /\ req'[r].row = None
      BY <3>1 DEF FallbackLogin, LoginRequest, Idle, Typed, TypeOK
    <3>3. QED
      BY <3>2 DEF CodeReliedBy
  <2>3. CASE BeginWithSession(r)
    <3>1. PICK t \in Found \ expired, op \in {"enroll"} \cup TwoFactorOps,
               code \in Maybe(used \cap Secrets) :
            req' = [req EXCEPT ![r] = SessionRequest(t, op, code)]
      BY <2>3 DEF BeginWithSession
    <3>2. req'[r] = SessionRequest(t, op, code)
      BY <3>1 DEF Typed, TypeOK
    <3>3. req'[r].pc \in {"enroll_read", "read"}
      BY <3>2 DEF SessionRequest, Idle
    <3>4. QED
      BY <3>3 DEF CodeReliedBy
  <2>4. QED
    BY <2>1, <2>2, <2>3
<1>4. QED
  BY <1>1, <1>2, <1>3 DEF CodeRelied, CodeReliedBy

LEMMA ReadingKeepsCode ==
    ASSUME Typed, CodeInv, NEW r \in Requests,
           EnrollRead(r) \/ TwoFactorRead(r) \/ TwoFactorPolicy(r) \/ Refetch(r)
    PROVE  CodeInv'
<1> USE DEF CodeInv
<1>1. CodeProved' /\ rows' = rows
  BY DEF CodeProved, CodeMatches, EnrollRead, TwoFactorRead, TwoFactorPolicy, Refetch,
         zodbVars, sqlVars
<1>2. CASE Finish(r)
  BY <1>1, <1>2, FinishKeepsCode
<1>3. CASE ~ Finish(r)
  <2>1. overlapped' = overlapped /\ \A o \in Requests \ {r} : req'[o] = req[o]
    BY <1>3 DEF EnrollRead, TwoFactorRead, TwoFactorPolicy, Refetch, Typed, TypeOK
  <2>2. ASSUME NEW o \in Requests, o # r
        PROVE  CodeReliedBy(o)'
    BY <1>1, <2>1, <2>2 DEF CodeRelied, CodeReliedBy, CodeMatches
  <2>3. CodeReliedBy(r)'
    <3>1. req[r] \in Request
      BY DEF Typed, TypeOK
    <3>2. CASE EnrollRead(r)
      <4>1. /\ req'[r].pc = "enroll_write" /\ req'[r].row = rows[req[r].user]
            /\ req'[r].code = req[r].code
            /\ VerifyCode(rows[req[r].user].totpSecret, req[r].code)
        BY <1>3, <3>1, <3>2 DEF EnrollRead, Typed, TypeOK, Request
      <4>2. QED
        BY <4>1 DEF CodeReliedBy, VerifyCode
    <3>3. CASE TwoFactorRead(r)
      <4> DEFINE row == rows[req[r].user]
      <4>1. /\ req'[r].pc = "policy" /\ req'[r].row = row /\ req'[r].op = req[r].op
            /\ req'[r].code = IF VerifyCode(row.totpSecret, req[r].code) THEN req[r].code ELSE None
            /\ TwoFactorAllowed(req[r].op, row, req[r].code)
        BY <1>3, <3>1, <3>3 DEF TwoFactorRead, Typed, TypeOK, Request
      <4>2. QED
        BY <4>1 DEF CodeReliedBy, TwoFactorAllowed, VerifyCode
    <3>4. CASE TwoFactorPolicy(r)
      <4>1. req[r].pc = "policy" /\ req[r].row \in Row
        BY <3>1, <3>4 DEF TwoFactorPolicy, Typed, RequestOK, Request, Maybe
      <4>2. /\ req'[r].pc = "write" /\ req'[r].op = req[r].op /\ req'[r].code = req[r].code
            /\ req'[r].row.totpSecret = req[r].row.totpSecret
        BY <3>1, <3>4, <4>1 DEF TwoFactorPolicy, Typed, TypeOK, Request, Row
      <4>3. QED
        BY <4>1, <4>2 DEF CodeRelied, CodeReliedBy
    <3>5. CASE Refetch(r)
      <4>1. /\ req'[r].pc = "issue" /\ req'[r].row = rows[req[r].user]
            /\ req'[r].code = req[r].code /\ req[r].pc = "refetch"
        BY <1>3, <3>1, <3>5 DEF Refetch, Typed, TypeOK, Request
      <4>2. QED
        BY <2>1, <4>1 DEF CodeRelied, CodeReliedBy, CodeMatches
    <3>6. QED
      BY <3>2, <3>3, <3>4, <3>5
  <2>4. QED
    BY <1>1, <2>2, <2>3 DEF CodeRelied, CodeReliedBy
<1>4. QED
  BY <1>2, <1>3

\* A request writes the secret whose code it holds, or switches 2FA off.
LEMMA WritingKeepsCode ==
    ASSUME Typed, PasswordInv, CodeInv, NEW r \in Requests,
           LoginRequire(r) \/ EnrollWrite(r) \/ TwoFactorWrite(r)
    PROVE  CodeInv'
<1> USE DEF CodeInv
<1> DEFINE u == req[r].user
<1>1. CodeProved'
  BY DEF CodeProved, CodeMatches, LoginRequire, EnrollWrite, TwoFactorWrite, zodbVars
<1>2. /\ u \in Users /\ req[r] \in Request /\ req[r].pc \in Relying
      /\ req[r].pc \in {"enroll_write", "write"} => req[r].row \in Row
  BY DEF LoginRequire, EnrollWrite, TwoFactorWrite, Relying, Typed, TypeOK, RequestOK, Request, Maybe
<1>3. PICK required \in BOOLEAN, enabled \in BOOLEAN, s \in Maybe(Secrets) :
        /\ UpdateTwoFactor(u, required, enabled, s)
        /\ enabled => s # None /\ req[r].code = s
  <2>1. CASE LoginRequire(r)
    BY <2>1 DEF LoginRequire, Maybe
  <2>2. CASE EnrollWrite(r)
    BY <1>2, <2>2 DEF EnrollWrite, CodeRelied, Row
  <2>3. CASE TwoFactorWrite(r)
    BY <1>2, <2>3 DEF TwoFactorWrite, CodeRelied, Row, Maybe
  <2>4. QED
    BY <2>1, <2>2, <2>3
<1>4. /\ \A v \in Users \ {u} : rows'[v] = rows[v]
      /\ rows[u] # None => rows'[u].totpEnabled = enabled /\ rows'[u].totpSecret = s
  BY <1>2, <1>3, TwoFactorWritten DEF Typed
<1>5. /\ Overlap(u, r) /\ req' = [req EXCEPT ![r].pc = "refetch"]
  BY DEF LoginRequire, EnrollWrite, TwoFactorWrite, Goto
<1>6. ASSUME NEW o \in Requests, o # r
      PROVE  CodeReliedBy(o)'
  <2>1. req'[o] = req[o]
    BY <1>5, <1>6 DEF Typed, TypeOK
  <2>2. RowOnly(u, r)
    BY <1>4, <1>5 DEF RowOnly
  <2>3. QED
    BY <1>6, <2>1, <2>2, OthersRelyOnCode
<1>7. CodeReliedBy(r)'
  <2>1. /\ req'[r].user = u /\ req'[r].code = req[r].code /\ req'[r].pc = "refetch"
    BY <1>2, <1>5 DEF Typed, TypeOK, Request
  <2>2. r \notin overlapped' => rows[u] # None
    BY <1>2, <1>5 DEF PasswordInv, PasswordRelied, Overlap
  <2>3. QED
    BY <1>3, <1>4, <2>1, <2>2 DEF CodeReliedBy, CodeMatches
<1>8. QED
  BY <1>1, <1>6, <1>7 DEF CodeRelied, CodeReliedBy

LEMMA IssueKeepsCode ==
    ASSUME Typed, CodeInv, NEW r \in Requests, Issue(r)
    PROVE  CodeInv'
<1> USE DEF CodeInv
<1>1. CodeRelied'
  BY FinishKeepsCode DEF Issue, sqlVars
<1>2. PICK t \in Tokens \ Issued :
        LET gone == expired \cup Revoked(r)
        IN  /\ sessions' = [x \in Tokens |-> IF x = t THEN NewSession(req[r])
                                             ELSE IF x \in gone THEN None
                                             ELSE sessions[x]]
            /\ history' = [x \in Tokens |-> IF x = t THEN ProofOf(r)
                                            ELSE IF x \in gone THEN Spent(x)
                                            ELSE history[x]]
  BY DEF Issue
<1>3. ProofOf(r).secret = req[r].code /\ ProofOf(r).overlapped = (r \in overlapped)
  BY DEF ProofOf
<1>4. LET s == NewSession(req[r])
      IN  r \notin overlapped /\ s.kind = "sql" /\ s.scope = "full" =>
              CodeMatches(s.stamp, req[r].code)
  BY DEF Issue, CodeRelied, CodeMatches, NewSession, Fingerprint
<1>5. QED
  BY <1>1, <1>2, <1>3, <1>4 DEF CodeProved, CodeMatches

LEMMA AdminKeepsCode ==
    ASSUME Typed, CodeInv, AdminStep
    PROVE  CodeInv'
<1> USE DEF CodeInv
<1>1. CodeProved' /\ req' = req
  BY DEF CodeProved, CodeMatches, zodbVars, AdminStep, AdminCreate, AdminUpdate, AdminDelete,
         AdminPassword, AdminTwoFactor, AdminFail
<1>2. CASE rows' = rows /\ overlapped' = overlapped
  BY <1>1, <1>2 DEF CodeRelied, CodeMatches
<1>3. CASE \E u : RowOnly(u, None)
  <2>1. \A r \in Requests : CodeReliedBy(r)'
    BY <1>1, <1>3, SessionAuthAssumption, OthersRelyOnCode
  <2>2. QED
    BY <1>1, <2>1 DEF CodeRelied, CodeReliedBy
<1>4. QED
  BY <1>2, <1>3, AdminWritesOneRow

LEMMA NextKeepsCode == Typed /\ PasswordInv /\ CodeInv /\ [Next]_vars => CodeInv'
<1> SUFFICES ASSUME Typed, PasswordInv, CodeInv, [Next]_vars PROVE CodeInv'
  OBVIOUS
<1>1. ASSUME NEW r \in Requests, Abort(r)
      PROVE  CodeInv'
  BY <1>1, FinishKeepsCode DEF Abort, CodeInv, CodeProved, CodeMatches, zodbVars, sqlVars
<1>2. ASSUME NEW t \in Tokens, Logout(t) \/ Expire(t)
      PROVE  CodeInv'
  BY <1>2 DEF Logout, Expire, CodeInv, CodeRelied, CodeProved, CodeMatches, sqlVars, Typed, TypeOK
<1>3. ASSUME NEW f \in Fallbacks, FallbackPassword(f)
      PROVE  CodeInv'
  BY <1>3 DEF FallbackPassword, CodeInv, CodeRelied, CodeProved, CodeMatches
<1>4. CASE UNCHANGED vars
  BY <1>4 DEF vars, CodeInv, CodeRelied, CodeProved, CodeMatches
<1>5. QED
  BY <1>1, <1>2, <1>3, <1>4, BeginKeepsCode, ReadingKeepsCode, WritingKeepsCode,
     IssueKeepsCode, AdminKeepsCode DEF Next, RequestStep

\* A SQL cookie that PAS accepts for a row with 2FA enabled or required was
\* obtained with a code of the secret the row holds now, unless another actor
\* wrote the row in the middle (login.py _check_credentials, enroll; admin.py
\* my_2fa; sessions.py _record).
THEOREM HasSecondFactor == Spec => []AuthenticatedHasSecondFactor
<1>1. Typed /\ CodeInv => AuthenticatedHasSecondFactor
  BY DEF CodeInv, CodeProved, CodeMatches, AuthenticatedHasSecondFactor, Authenticates,
         RecordValid, Fingerprint, Typed, TypeOK, Maybe, Session, SqlSession, FallbackSession
<1>2. QED
  BY <1>1, TypeCorrect, PasswordInitially, NextKeepsPassword, CodeInitially, NextKeepsCode,
     PTL DEF Spec
-----------------------------------------------------------------------------
(* Tokens are exchanged once.                                              *)

\* Whatever was exchanged for a newer token is gone, and stays so.
ExchangedInv ==
    /\ ExchangedOnce
    /\ \A s \in Issued : history[s].parent # None =>
           history[s].parent \in Issued /\ sessions[history[s].parent] = None

LEMMA InitExchanged == Init => ExchangedInv
BY DEF Init, ExchangedInv, ExchangedOnce, Issued

\* The sessions change with their history, or not at all.
LEMMA SessionsSteps ==
    ASSUME Next
    PROVE  \/ sessions' = sessions /\ history' = history
           \/ \E r \in Requests : Issue(r)
           \/ \E t \in Tokens : Logout(t)
<1>1. ASSUME NEW r \in Requests, RequestStep(r), ~ Issue(r)
      PROVE  sessions' = sessions /\ history' = history
  <2>1. UNCHANGED zodbVars
    BY <1>1, Zenon DEF RequestStep, LoginSql, LoginFallback, LoginRequire, BeginWithSession,
       EnrollRead, EnrollWrite, TwoFactorRead, TwoFactorPolicy, TwoFactorWrite, Refetch, Abort
  <2>2. QED
    BY <2>1 DEF zodbVars
<1>2. ASSUME AdminStep
      PROVE  sessions' = sessions /\ history' = history
  <2>1. UNCHANGED zodbVars
    BY <1>2, Zenon DEF AdminStep, AdminCreate, AdminUpdate, AdminDelete, AdminPassword,
       AdminTwoFactor, AdminFail
  <2>2. QED
    BY <2>1 DEF zodbVars
<1>3. ASSUME NEW t \in Tokens, Expire(t)
      PROVE  sessions' = sessions /\ history' = history
  BY <1>3 DEF Expire
<1>4. ASSUME NEW f \in Fallbacks, FallbackPassword(f)
      PROVE  sessions' = sessions /\ history' = history
  BY <1>4 DEF FallbackPassword
<1>5. QED
  BY <1>1, <1>2, <1>3, <1>4 DEF Next

LEMMA NextExchanged == Typed /\ ExchangedInv /\ [Next]_vars => ExchangedInv'
<1> SUFFICES ASSUME Typed, ExchangedInv, [Next]_vars PROVE ExchangedInv'
  OBVIOUS
<1>1. CASE sessions' = sessions /\ history' = history
  BY <1>1 DEF ExchangedInv, ExchangedOnce, Issued
<1>2. ASSUME NEW t \in Tokens, Logout(t)
      PROVE  ExchangedInv'
  <2>1. history[t] \in Proof
    BY <1>2 DEF Logout, Found, Typed, SessionOK
  <2>2. Spent(t) \in Proof /\ Spent(t).parent = history[t].parent
    BY <2>1, SpentProof DEF Spent, Proof
  <2>3. /\ \A x \in Tokens \ {t} : history'[x] = history[x] /\ sessions'[x] = sessions[x]
        /\ history'[t] = Spent(t) /\ sessions'[t] = None
    BY <1>2 DEF Logout, Typed, TypeOK
  <2>4. Issued' = Issued /\ \A x \in Issued : history'[x].parent = history[x].parent
    BY <2>1, <2>2, <2>3, NoneAssumption DEF Issued
  <2>5. QED
    BY <2>3, <2>4 DEF ExchangedInv, ExchangedOnce, Issued
<1>3. ASSUME NEW r \in Requests, Issue(r)
      PROVE  ExchangedInv'
  <2>1. PICK t \in Tokens \ Issued :
          LET gone == expired \cup Revoked(r)
          IN  /\ sessions' = [x \in Tokens |-> IF x = t THEN NewSession(req[r])
                                               ELSE IF x \in gone THEN None
                                               ELSE sessions[x]]
              /\ history' = [x \in Tokens |-> IF x = t THEN ProofOf(r)
                                              ELSE IF x \in gone THEN Spent(x)
                                              ELSE history[x]]
    BY <1>3 DEF Issue
  <2> DEFINE gone == expired \cup Revoked(r)
  <2>2. gone \subseteq Found /\ Found \subseteq Issued
    BY NoneAssumption DEF Revoked, Found, Issued, Typed, SessionOK
  <2>3. ASSUME NEW x \in gone
        PROVE  Spent(x) # None /\ Spent(x).parent = history[x].parent
    <3>1. history[x] \in Proof
      BY <2>2 DEF Found, Typed, SessionOK
    <3>2. Spent(x) \in Proof
      BY <3>1, SpentProof
    <3>3. Spent(x).parent = history[x].parent
      BY <3>1 DEF Spent, Proof
    <3>4. QED
      BY <3>2, <3>3, NoneAssumption
  <2>4. ProofOf(r) # None /\ ProofOf(r).parent \in {None, req[r].cookie}
    <3>1. req[r] \in Request /\ req[r].password \in Passwords
      BY <1>3 DEF Issue, Typed, TypeOK, RequestOK
    <3>2. ProofOf(r) \in Proof
      BY <3>1 DEF ProofOf, Proof, Request, Maybe
    <3>3. QED
      BY <3>2, NoneAssumption DEF ProofOf
  <2>5. req[r].cookie # None => req[r].cookie \in Found /\ req[r].cookie \in gone
    BY <1>3 DEF Issue, Revoked
  <2>6. \A x \in Tokens : /\ x = t => history'[x] = ProofOf(r)
                          /\ x # t /\ x \in gone => history'[x] = Spent(x) /\ sessions'[x] = None
                          /\ x # t /\ x \notin gone => history'[x] = history[x] /\ sessions'[x] = sessions[x]
    BY <2>1
  <2> HIDE DEF gone
  <2>7. Issued' = Issued \cup {t}
    BY <2>2, <2>3, <2>4, <2>6 DEF Issued
  <2>8. \A x \in Issued : x # t /\ history'[x].parent = history[x].parent
    BY <2>3, <2>6 DEF Issued
  <2>9. \A x \in Issued : sessions[x] = None => sessions'[x] = None
    BY <2>6, <2>8 DEF Issued
  <2>10. history'[t].parent # None =>
           /\ history'[t].parent \in Issued /\ sessions'[history'[t].parent] = None
           /\ sessions[history'[t].parent] # None
    <3>1. history'[t].parent = ProofOf(r).parent
      BY <2>6
    <3>2. req[r].cookie # None => sessions'[req[r].cookie] = None
      BY <2>2, <2>5, <2>6 DEF Found, Issued
    <3>3. QED
      BY <2>2, <2>4, <2>5, <3>1, <3>2 DEF Found
  <2>11. \A s \in Issued : history[s].parent # None =>
           history[s].parent \in Issued /\ sessions[history[s].parent] = None
    BY DEF ExchangedInv
  <2>12. ExchangedOnce'
    BY <2>7, <2>8, <2>10, <2>11 DEF ExchangedInv, ExchangedOnce
  <2>13. QED
    BY <2>7, <2>8, <2>9, <2>10, <2>11, <2>12 DEF ExchangedInv
<1>4. CASE UNCHANGED vars
  BY <1>1, <1>4 DEF vars
<1>5. QED
  BY <1>1, <1>2, <1>3, <1>4, SessionsSteps

\* A session is exchanged for a newer one at most once (sessions.py _issue).
THEOREM OneSuccessor == Spec => []ExchangedOnce
<1>1. Typed /\ ExchangedInv /\ [Next]_vars => (Typed /\ ExchangedInv)'
  BY NextTyped, NextExchanged
<1>2. Init => Typed /\ ExchangedInv
  BY InitTyped, InitExchanged
<1>3. ExchangedInv => ExchangedOnce
  BY DEF ExchangedInv
<1>4. QED
  BY <1>1, <1>2, <1>3, PTL DEF Spec

-----------------------------------------------------------------------------
(* Who lifts the requirement.                                              *)

\* A request that is about to write totp_required writes what is there.
RequiredBy(r) ==
    req[r].pc \in {"enroll_write", "write"} /\ rows[req[r].user] # None =>
        req[r].row.totpRequired = rows[req[r].user].totpRequired

RequiredInv == \A r \in Requests \ overlapped : RequiredBy(r)

LEMMA OthersKeepRequired ==
    ASSUME Typed, RequiredInv, NEW u, NEW writer, RowOnly(u, writer),
           NEW r \in Requests \ overlapped', r # writer, req'[r] = req[r]
    PROVE  RequiredBy(r)'
BY DEF Typed, TypeOK, RequestOK, RequiredInv, RequiredBy, RowOnly, Overlap, Relying

\* Requests that do not write the table: of the others nothing changes.
LEMMA ReadingKeepsRequired ==
    ASSUME Typed, RequiredInv, NEW r \in Requests,
           \/ LoginSql(r) \/ LoginFallback(r) \/ BeginWithSession(r) \/ EnrollRead(r)
           \/ TwoFactorRead(r) \/ TwoFactorPolicy(r) \/ Refetch(r) \/ Issue(r) \/ Abort(r)
    PROVE  RequiredInv'
<1>1. rows' = rows /\ \A o \in Requests \ {r} : req'[o] = req[o]
  BY DEF LoginSql, LoginFallback, BeginWithSession, EnrollRead, TwoFactorRead, TwoFactorPolicy,
     Refetch, Issue, Abort, Finish, sqlVars, Typed, TypeOK
<1>2. \A o \in Requests \ {r} : o \notin overlapped' => o \notin overlapped
  BY DEF LoginSql, LoginFallback, BeginWithSession, EnrollRead, TwoFactorRead, TwoFactorPolicy,
     Refetch, Issue, Abort, Finish
<1>3. RequiredBy(r)'
  <2>1. CASE LoginSql(r) \/ LoginFallback(r) \/ BeginWithSession(r)
    <3> DEFINE begun == {"require", "enroll_read", "read", "issue"}
    <3>1. ASSUME LoginSql(r) PROVE req'[r].pc \in begun
      <4>1. \A c, l, p, code, u : SqlLogin(c, l, p, code, u).pc \in begun
        BY DEF SqlLogin, LoginRequest, Idle
      <4> HIDE DEF begun
      <4>2. QED
        BY <3>1, <4>1 DEF LoginSql, Typed, TypeOK
    <3>2. ASSUME LoginFallback(r) PROVE req'[r].pc \in begun
      <4>1. \A c, f, l, p : FallbackLogin(c, f, l, p).pc \in begun
        BY DEF FallbackLogin, LoginRequest, Idle
      <4> HIDE DEF begun
      <4>2. QED
        BY <3>2, <4>1 DEF LoginFallback, Typed, TypeOK
    <3>3. ASSUME BeginWithSession(r) PROVE req'[r].pc \in begun
      <4>1. \A t, op, code : SessionRequest(t, op, code).pc \in begun
        BY DEF SessionRequest, Idle
      <4> HIDE DEF begun
      <4>2. QED
        BY <3>3, <4>1 DEF BeginWithSession, Typed, TypeOK
    <3>4. req'[r].pc \in begun
      BY <2>1, <3>1, <3>2, <3>3
    <3>5. QED
      BY <3>4 DEF RequiredBy
  <2>2. CASE Finish(r)
    BY <2>2 DEF Finish, Idle, RequiredBy, Typed, TypeOK
  <2>3. CASE EnrollRead(r) /\ ~ Finish(r)
    <3>1. /\ req'[r].row = rows[req[r].user] /\ req'[r].user = req[r].user
      BY <2>3 DEF EnrollRead, Typed, TypeOK, Request
    <3>2. QED
      BY <1>1, <3>1 DEF RequiredBy
  <2>4. CASE TwoFactorPolicy(r)
    <3>1. req[r] \in Request /\ req[r].row \in Row
      BY <2>4 DEF TwoFactorPolicy, Typed, TypeOK, RequestOK, Request, Maybe
    <3>2. /\ req'[r].user = req[r].user
          /\ req'[r].row.totpRequired =
                (rows[req[r].user] # None /\ rows[req[r].user].totpRequired)
      BY <2>4, <3>1 DEF TwoFactorPolicy, Typed, TypeOK, Request, Row
    <3>3. rows[req[r].user] # None => rows[req[r].user].totpRequired \in BOOLEAN
      BY <2>4 DEF TwoFactorPolicy, Relying, Typed, TypeOK, RequestOK, Row, Maybe
    <3>4. QED
      BY <1>1, <3>2, <3>3 DEF RequiredBy
  <2>5. CASE (TwoFactorRead(r) \/ Refetch(r)) /\ ~ Finish(r)
    <3>1. req'[r].pc \in {"policy", "issue"}
      BY <2>5 DEF TwoFactorRead, Refetch, Typed, TypeOK, Request
    <3>2. QED
      BY <3>1 DEF RequiredBy
  <2>6. QED
    BY <2>1, <2>2, <2>3, <2>4, <2>5 DEF Issue, Abort
<1>4. QED
  BY <1>1, <1>2, <1>3 DEF RequiredInv, RequiredBy

LEMMA NextRequired == Typed /\ RequiredInv /\ [Next]_vars => RequiredInv'
<1> SUFFICES ASSUME Typed, RequiredInv, [Next]_vars PROVE RequiredInv'
  OBVIOUS
<1>1. ASSUME NEW r \in Requests, LoginRequire(r) \/ EnrollWrite(r) \/ TwoFactorWrite(r)
      PROVE  RequiredInv'
  <2> DEFINE u == req[r].user
  <2>1. /\ u \in Users /\ req[r].pc \in Relying
        /\ req[r].pc \in {"enroll_write", "write"} => req[r].row \in Row
    BY <1>1 DEF LoginRequire, EnrollWrite, TwoFactorWrite, Relying, Typed, TypeOK, RequestOK, Request,
       Maybe
  <2>2. PICK required \in BOOLEAN, enabled \in BOOLEAN, s \in Maybe(Secrets) :
          UpdateTwoFactor(u, required, enabled, s)
    BY <1>1, <2>1 DEF LoginRequire, EnrollWrite, TwoFactorWrite, Row, Maybe
  <2>3. \A v \in Users \ {u} : rows'[v] = rows[v]
    BY <2>1, <2>2, TwoFactorWritten DEF Typed
  <2>4. Overlap(u, r) /\ req' = [req EXCEPT ![r].pc = "refetch"]
    BY <1>1 DEF LoginRequire, EnrollWrite, TwoFactorWrite, Goto
  <2>5. req'[r].pc = "refetch" /\ \A o \in Requests \ {r} : req'[o] = req[o]
    BY <2>4 DEF Typed, TypeOK, Request
  <2>6. RowOnly(u, r)
    BY <2>3, <2>4 DEF RowOnly
  <2>7. \A o \in Requests \ overlapped' : o # r => RequiredBy(o)'
    BY <2>5, <2>6, OthersKeepRequired
  <2>8. RequiredBy(r)'
    BY <2>5 DEF RequiredBy
  <2>9. QED
    BY <2>7, <2>8 DEF RequiredInv
<1>2. CASE AdminStep
  <2>1. req' = req
    BY <1>2 DEF AdminStep, AdminCreate, AdminUpdate, AdminDelete, AdminPassword, AdminTwoFactor,
       AdminFail
  <2>2. CASE rows' = rows /\ overlapped' = overlapped
    BY <2>1, <2>2 DEF RequiredInv, RequiredBy
  <2>3. CASE \E u : RowOnly(u, None)
    <3>1. None \notin Requests
      BY SessionAuthAssumption
    <3>2. \A r \in Requests \ overlapped' : RequiredBy(r)'
      BY <2>1, <2>3, <3>1, OthersKeepRequired
    <3>3. QED
      BY <3>2 DEF RequiredInv
  <2>4. QED
    BY <1>2, <2>2, <2>3, AdminWritesOneRow
<1>3. ASSUME NEW t \in Tokens, Logout(t) \/ Expire(t)
      PROVE  RequiredInv'
  BY <1>3 DEF Logout, Expire, RequiredInv, RequiredBy, sqlVars
<1>4. ASSUME NEW f \in Fallbacks, FallbackPassword(f)
      PROVE  RequiredInv'
  BY <1>4 DEF FallbackPassword, RequiredInv, RequiredBy
<1>5. CASE UNCHANGED vars
  BY <1>5 DEF vars, RequiredInv, RequiredBy
<1>6. QED
  BY <1>1, <1>2, <1>3, <1>4, <1>5, ReadingKeepsRequired DEF Next, RequestStep

\* Only these statements write totp_required.
LEMMA RequiredStep ==
    ASSUME Typed, RequiredInv, [Next]_vars, NEW u \in Users,
           rows[u] # None, rows'[u] # None, rows[u].totpRequired, ~ rows'[u].totpRequired
    PROVE  \/ admin' # admin
           \/ \E r \in overlapped : req[r].user = u /\ req[r].pc \in {"enroll_write", "write"}
<1>0. rows \in [Users -> Maybe(Row)] /\ rows' # rows /\ rows'[u] # rows[u]
  BY DEF Typed, TypeOK
<1>1. ASSUME NEW r \in Requests, LoginRequire(r)
      PROVE  FALSE
  <2>1. PICK s \in Secrets : UpdateTwoFactor(req[r].user, TRUE, FALSE, s)
    BY <1>1 DEF LoginRequire
  <2>2. QED
    BY <1>0, <2>1 DEF UpdateTwoFactor, Maybe, Row
<1>2. ASSUME NEW r \in Requests, EnrollWrite(r) \/ TwoFactorWrite(r)
      PROVE  \E q \in overlapped : req[q].user = u /\ req[q].pc \in {"enroll_write", "write"}
  <2>1. req[r].pc \in {"enroll_write", "write"} /\ req[r].user \in Users /\ req[r].row \in Row
    BY <1>2 DEF EnrollWrite, TwoFactorWrite, Relying, Typed, TypeOK, RequestOK, Request, Maybe
  <2>2. PICK enabled, s : UpdateTwoFactor(req[r].user, req[r].row.totpRequired, enabled, s)
    BY <1>2 DEF EnrollWrite, TwoFactorWrite
  <2>3. req[r].user = u /\ rows'[u].totpRequired = req[r].row.totpRequired
    BY <1>0, <2>1, <2>2 DEF UpdateTwoFactor, Maybe, Row
  <2>4. r \in overlapped
    BY <2>1, <2>3 DEF RequiredInv, RequiredBy
  <2>5. QED
    BY <2>1, <2>3, <2>4
<1>3. CASE AdminStep
  <2>1. ASSUME NEW v \in Users, AdminCreate(v) \/ AdminUpdate(v) \/ AdminDelete(v)
        PROVE  FALSE
    BY <1>0, <2>1 DEF AdminCreate, AdminUpdate, AdminDelete, Maybe, Row
  <2>2. CASE AdminPassword
    <3>1. PICK p \in Passwords : UpdatePassword(admin.user, p)
      BY <1>0, <2>2, SessionAuthAssumption DEF AdminPassword, Encodings, sqlVars
    <3>2. rows[u] \in Row
      BY <1>0 DEF Maybe
    <3>3. rows'[u] = [rows[u] EXCEPT !.password = p]
      BY <1>0, <3>1 DEF UpdatePassword
    <3>4. rows'[u].totpRequired = rows[u].totpRequired
      BY <3>2, <3>3 DEF Row
    <3>5. QED
      BY <3>4
  <2>3. CASE AdminTwoFactor
    <3>1. admin' # admin
      BY <2>3 DEF AdminTwoFactor
    <3>2. QED
      BY <3>1
  <2>4. CASE AdminFail
    BY <1>0, <2>4 DEF AdminFail, sqlVars
  <2>5. QED
    BY <1>3, <2>1, <2>2, <2>3, <2>4 DEF AdminStep
<1>4. ASSUME NEW r \in Requests,
             \/ LoginSql(r) \/ LoginFallback(r) \/ BeginWithSession(r) \/ EnrollRead(r)
             \/ TwoFactorRead(r) \/ TwoFactorPolicy(r) \/ Refetch(r) \/ Issue(r) \/ Abort(r)
      PROVE  FALSE
  <2>1. UNCHANGED sqlVars
    BY <1>4, Zenon DEF LoginSql, LoginFallback, BeginWithSession, EnrollRead, TwoFactorRead,
       TwoFactorPolicy, Refetch, Issue, Abort
  <2>2. QED
    BY <1>0, <2>1 DEF sqlVars
<1>5. ASSUME NEW t \in Tokens, Logout(t) \/ Expire(t)
      PROVE  FALSE
  BY <1>0, <1>5 DEF Logout, Expire, sqlVars
<1>6. ASSUME NEW f \in Fallbacks, FallbackPassword(f)
      PROVE  FALSE
  BY <1>0, <1>6 DEF FallbackPassword
<1>7. QED
  BY <1>0, <1>1, <1>2, <1>3, <1>4, <1>5, <1>6 DEF Next, RequestStep, vars

\* Only the administrator lifts the requirement of a second factor, unless a
\* request of the user's own has been overtaken by another writer (login.py
\* enroll; admin.py _update_user_totp).
THEOREM RequirementSafety == Spec => RequirementKept
<1>1. Typed /\ RequiredInv /\ [Next]_vars =>
        [\A u \in Users :
            rows[u] # None /\ rows'[u] # None
            /\ rows[u].totpRequired /\ ~ rows'[u].totpRequired =>
                \/ admin' # admin
                \/ \E r \in overlapped :
                    req[r].user = u /\ req[r].pc \in {"enroll_write", "write"}]_vars
  BY RequiredStep
<1>2. Init => RequiredInv
  BY DEF Init, RequiredInv, RequiredBy, Idle
<1>3. QED
  BY <1>1, <1>2, TypeCorrect, NextRequired, PTL DEF Spec, RequirementKept

-----------------------------------------------------------------------------
(* A password change revokes.                                              *)

\* Whatever a session may be stamped with has been stored, so a password that
\* has not been is none of it.
RequestUsed(r) ==
    /\ req[r].row # None => req[r].row.password \in used
    /\ req[r].password # None => req[r].password \in used

SessionUsed(t) ==
    sessions[t] # None => StampPassword(sessions[t]) \in used /\ history[t].password \in used

UsedInv ==
    /\ \A u \in Users : rows[u] # None => rows[u].password \in used
    /\ \A f \in Fallbacks : fallback[f] # None => fallback[f].password \in used
    /\ \A r \in Requests : RequestUsed(r)
    /\ \A t \in Tokens : SessionUsed(t)

LEMMA InitUsed == Init => UsedInv
BY DEF Init, UsedInv, RequestUsed, SessionUsed, Idle

\* A row or an entry of the fallback store keeps its password or gets one that
\* is on record from then on.
StoredKeeps ==
    /\ used \subseteq used'
    /\ \A u \in Users : rows'[u] # None =>
           \/ rows[u] # None /\ rows'[u].password = rows[u].password
           \/ rows'[u].password \in used'
    /\ \A f \in Fallbacks :
           fallback'[f] = fallback[f] \/ fallback'[f].password \in used'

LEMMA NextStored == Typed /\ [Next]_vars => StoredKeeps
<1> SUFFICES ASSUME Typed, [Next]_vars PROVE StoredKeeps
  OBVIOUS
<1>1. CASE UNCHANGED sqlVars /\ UNCHANGED fallback
  BY <1>1 DEF StoredKeeps, sqlVars
<1>2. ASSUME NEW u \in Users, NEW required \in BOOLEAN, NEW enabled \in BOOLEAN,
             NEW s \in Maybe(Secrets), UpdateTwoFactor(u, required, enabled, s),
             used \subseteq used', UNCHANGED fallback
      PROVE  StoredKeeps
  BY <1>2, TwoFactorWritten DEF StoredKeeps, Typed
<1>3. ASSUME NEW r \in Requests, LoginRequire(r) \/ EnrollWrite(r) \/ TwoFactorWrite(r)
      PROVE  StoredKeeps
  <2>1. /\ req[r].user \in Users
        /\ req[r].pc \in {"enroll_write", "write"} => req[r].row \in Row
    BY <1>3 DEF LoginRequire, EnrollWrite, TwoFactorWrite, Relying, Typed, TypeOK, RequestOK, Request,
       Maybe
  <2>2. used \subseteq used' /\ UNCHANGED fallback
    BY <1>3 DEF LoginRequire, EnrollWrite, TwoFactorWrite, zodbVars
  <2>3. \E required \in BOOLEAN, enabled \in BOOLEAN, s \in Maybe(Secrets) :
          UpdateTwoFactor(req[r].user, required, enabled, s)
    BY <1>3, <2>1 DEF LoginRequire, EnrollWrite, TwoFactorWrite, Row, Maybe
  <2>4. QED
    BY <1>2, <2>1, <2>2, <2>3
<1>4. ASSUME NEW r \in Requests, RequestStep(r),
             ~ (LoginRequire(r) \/ EnrollWrite(r) \/ TwoFactorWrite(r))
      PROVE  UNCHANGED sqlVars /\ UNCHANGED fallback
  <2>1. UNCHANGED sqlVars /\ (UNCHANGED zodbVars \/ UNCHANGED fallback)
    BY <1>4, Zenon DEF RequestStep, LoginSql, LoginFallback, BeginWithSession, EnrollRead,
       TwoFactorRead, TwoFactorPolicy, Refetch, Issue, Abort
  <2>2. QED
    BY <2>1 DEF zodbVars
<1>5. CASE AdminStep
  <2>1. UNCHANGED fallback
    <3>1. UNCHANGED zodbVars
      BY <1>5, Zenon DEF AdminStep, AdminCreate, AdminUpdate, AdminDelete, AdminPassword,
         AdminTwoFactor, AdminFail
    <3>2. QED
      BY <3>1 DEF zodbVars
  <2>2. ASSUME NEW u \in Users, AdminCreate(u)
        PROVE  StoredKeeps
    BY <2>1, <2>2 DEF AdminCreate, StoredKeeps, Typed, TypeOK
  <2>3. ASSUME NEW u \in Users, AdminUpdate(u)
        PROVE  StoredKeeps
    <3>1. rows[u] \in Row
      BY <2>3 DEF AdminUpdate, Typed, TypeOK, Maybe
    <3>2. PICK l \in Logins, e \in BOOLEAN : rows' = [rows EXCEPT ![u].login = l, ![u].enabled = e]
      BY <2>3 DEF AdminUpdate
    <3>3. rows'[u].password = rows[u].password /\ \A v \in Users \ {u} : rows'[v] = rows[v]
      BY <3>1, <3>2 DEF Typed, TypeOK, Row
    <3>4. rows[u] # None /\ used' = used
      BY <2>3 DEF AdminUpdate
    <3>5. QED
      BY <2>1, <3>3, <3>4 DEF StoredKeeps
  <2>4. ASSUME NEW u \in Users, AdminDelete(u)
        PROVE  StoredKeeps
    BY <2>1, <2>4 DEF AdminDelete, StoredKeeps, Typed, TypeOK
  <2>5. CASE AdminPassword
    <3>1. CASE UNCHANGED sqlVars
      BY <1>1, <2>1, <3>1
    <3>2. CASE \E p \in Passwords : UpdatePassword(admin.user, p) /\ used' = used \cup {p}
      <4>1. PICK p \in Passwords : UpdatePassword(admin.user, p) /\ used' = used \cup {p}
        BY <3>2
      <4>2. admin.user \in Users
        BY <2>5 DEF AdminPassword, Typed, AdminOK
      <4>3. /\ \A v \in Users : rows'[v] = None <=> rows[v] = None
            /\ \A v \in Users \ {admin.user} : rows'[v] = rows[v]
            /\ rows[admin.user] # None => rows'[admin.user].password = p
        BY <4>1, <4>2, PasswordWritten DEF Typed
      <4>4. QED
        BY <2>1, <4>1, <4>3 DEF StoredKeeps
    <3>3. QED
      BY <2>5, <3>1, <3>2, SessionAuthAssumption DEF AdminPassword, Encodings
  <2>6. CASE AdminTwoFactor
    <3>1. admin.user \in Users /\ used \subseteq used'
      BY <2>6 DEF AdminTwoFactor, Typed, AdminOK
    <3>2. \E required \in BOOLEAN, enabled \in BOOLEAN, s \in Maybe(Secrets) :
            UpdateTwoFactor(admin.user, required, enabled, s)
      BY <2>6 DEF AdminTwoFactor
    <3>3. QED
      BY <1>2, <2>1, <3>1, <3>2
  <2>7. CASE AdminFail
    BY <1>1, <2>1, <2>7 DEF AdminFail
  <2>8. QED
    BY <1>5, <2>2, <2>3, <2>4, <2>5, <2>6, <2>7 DEF AdminStep
<1>6. ASSUME NEW f \in Fallbacks, FallbackPassword(f)
      PROVE  StoredKeeps
  BY <1>6 DEF FallbackPassword, StoredKeeps, Typed, TypeOK, Entry
<1>7. ASSUME NEW t \in Tokens, Logout(t) \/ Expire(t)
      PROVE  UNCHANGED sqlVars /\ UNCHANGED fallback
  BY <1>7 DEF Logout, Expire
<1>8. UNCHANGED vars => UNCHANGED sqlVars /\ UNCHANGED fallback
  BY DEF vars, sqlVars
<1>9. QED
  BY <1>1, <1>3, <1>4, <1>5, <1>6, <1>7, <1>8 DEF Next

\* A request works with passwords that are or were stored.
LEMMA RequestsUsed ==
    ASSUME Typed, UsedInv, Next, used \subseteq used', NEW o \in Requests
    PROVE  RequestUsed(o)'
<1>0. RequestUsed(o) /\ req[o] \in Request
  BY DEF UsedInv, Typed, TypeOK
<1>1. CASE req'[o] = req[o] \/ req'[o] = Idle
  BY <1>0, <1>1 DEF RequestUsed, Idle
<1>2. CASE /\ req'[o].password = req[o].password
           /\ \/ req'[o].row = req[o].row
              \/ req'[o].row # None =>
                    \E u \in Users : rows[u] # None /\ req'[o].row.password = rows[u].password
  BY <1>0, <1>2 DEF RequestUsed, UsedInv
<1>3. ASSUME NEW r \in Requests, RequestStep(r), r # o
      PROVE  req'[o] = req[o]
  BY <1>3 DEF RequestStep, LoginSql, LoginFallback, LoginRequire, BeginWithSession, EnrollRead,
     EnrollWrite, TwoFactorRead, TwoFactorPolicy, TwoFactorWrite, Refetch, Issue, Abort, Goto, Finish,
     Typed, TypeOK
<1>4. ASSUME LoginSql(o)
      PROVE  RequestUsed(o)'
  <2>1. PICK c \in Maybe(Found), l \in Logins, p \in used \cap Passwords,
             code \in Maybe(used \cap Secrets), u \in Users :
          /\ u \in FetchUser(l)
          /\ req' = [req EXCEPT ![o] = SqlLogin(c, l, p, code, u)]
    BY <1>4 DEF LoginSql
  <2>2. req'[o].password = p /\ req'[o].row = rows[u]
    <3>1. req'[o] = SqlLogin(c, l, p, code, u)
      BY <2>1 DEF Typed, TypeOK
    <3>2. QED
      BY <3>1 DEF SqlLogin, LoginRequest, Idle
  <2>3. QED
    BY <2>1, <2>2 DEF RequestUsed, UsedInv, FetchUser
<1>5. ASSUME LoginFallback(o)
      PROVE  RequestUsed(o)'
  <2>1. PICK c \in Maybe(Found), f \in Fallbacks :
          /\ fallback[f] # None
          /\ req' = [req EXCEPT ![o] =
                FallbackLogin(c, f, fallback[f].login, fallback[f].password)]
    BY <1>5 DEF LoginFallback
  <2>2. req'[o].password = fallback[f].password /\ req'[o].row = None
    <3>1. req'[o] = FallbackLogin(c, f, fallback[f].login, fallback[f].password)
      BY <2>1 DEF Typed, TypeOK
    <3>2. QED
      BY <3>1 DEF FallbackLogin, LoginRequest, Idle
  <2>3. QED
    BY <2>1, <2>2 DEF RequestUsed, UsedInv
<1>6. ASSUME BeginWithSession(o)
      PROVE  RequestUsed(o)'
  <2>1. PICK t \in Found, op \in {"enroll"} \cup TwoFactorOps, code \in Maybe(used \cap Secrets) :
          req' = [req EXCEPT ![o] = SessionRequest(t, op, code)]
    BY <1>6 DEF BeginWithSession
  <2>2. req'[o].password = history[t].password /\ req'[o].row = None
    <3>1. req'[o] = SessionRequest(t, op, code)
      BY <2>1 DEF Typed, TypeOK
    <3>2. QED
      BY <3>1 DEF SessionRequest, Idle
  <2>3. QED
    BY <2>1, <2>2 DEF RequestUsed, UsedInv, SessionUsed, Found
<1>7. ASSUME LoginRequire(o) \/ EnrollWrite(o) \/ TwoFactorWrite(o)
      PROVE  RequestUsed(o)'
  <2>1. req' = [req EXCEPT ![o].pc = "refetch"]
    BY <1>7 DEF LoginRequire, EnrollWrite, TwoFactorWrite, Goto
  <2>2. req'[o].password = req[o].password /\ req'[o].row = req[o].row
    BY <1>0, <2>1 DEF Typed, TypeOK, Request
  <2>3. QED
    BY <1>2, <2>2
<1>8. ASSUME Finish(o)
      PROVE  RequestUsed(o)'
  <2>1. req'[o] = Idle
    BY <1>8 DEF Finish, Typed, TypeOK
  <2>2. QED
    BY <1>1, <2>1
<1>9. ASSUME EnrollRead(o) \/ TwoFactorRead(o) \/ Refetch(o), ~ Finish(o)
      PROVE  RequestUsed(o)'
  <2>1. req[o].user \in Users
    BY <1>9 DEF EnrollRead, TwoFactorRead, Refetch, Relying, Typed, RequestOK
  <2>2. /\ req'[o].password = req[o].password /\ req'[o].row = rows[req[o].user]
    BY <1>0, <1>9 DEF EnrollRead, TwoFactorRead, Refetch, Typed, TypeOK, Request
  <2>3. QED
    BY <1>2, <2>1, <2>2
<1>10. ASSUME TwoFactorPolicy(o)
       PROVE  RequestUsed(o)'
  <2>1. req[o].row \in Row
    BY <1>0, <1>10 DEF TwoFactorPolicy, Typed, RequestOK, Request, Maybe
  <2>2. req'[o].password = req[o].password /\ req'[o].row.password = req[o].row.password
    BY <1>0, <1>10, <2>1 DEF TwoFactorPolicy, Typed, TypeOK, Request, Row
  <2>3. req[o].row # None
    BY <2>1, NoneAssumption
  <2>4. QED
    BY <1>0, <2>2, <2>3 DEF RequestUsed
<1>11. ASSUME RequestStep(o)
       PROVE  RequestUsed(o)'
  BY <1>4, <1>5, <1>6, <1>7, <1>8, <1>9, <1>10, <1>11 DEF RequestStep, Issue, Abort
<1>12. ASSUME AdminStep \/ (\E t \in Tokens : Logout(t) \/ Expire(t))
                \/ (\E f \in Fallbacks : FallbackPassword(f))
       PROVE  req' = req
  BY <1>12 DEF AdminStep, AdminCreate, AdminUpdate, AdminDelete, AdminPassword, AdminTwoFactor,
     AdminFail, Logout, Expire, FallbackPassword
<1>13. QED
  BY <1>1, <1>3, <1>11, <1>12 DEF Next

\* A session keeps its record for as long as it is there.
LEMMA SessionKeeps ==
    ASSUME Typed, [Next]_vars, NEW t \in Tokens, sessions[t] # None, sessions'[t] # None
    PROVE  sessions'[t] = sessions[t] /\ history'[t] = history[t]
<1>1. t \in Issued
  BY NoneAssumption DEF Issued, Typed, SessionOK
<1>2. ASSUME NEW r \in Requests, Issue(r)
      PROVE  sessions'[t] = sessions[t] /\ history'[t] = history[t]
  BY <1>1, <1>2 DEF Issue
<1>3. ASSUME NEW x \in Tokens, Logout(x)
      PROVE  sessions'[t] = sessions[t] /\ history'[t] = history[t]
  BY <1>3 DEF Logout, Typed, TypeOK
<1>4. QED
  BY <1>2, <1>3, SessionsSteps DEF vars

LEMMA NextUsed == Typed /\ UsedInv /\ [Next]_vars => UsedInv'
<1> SUFFICES ASSUME Typed, UsedInv, [Next]_vars PROVE UsedInv'
  OBVIOUS
<1>1. CASE UNCHANGED vars
  BY <1>1 DEF vars, UsedInv, RequestUsed, SessionUsed, StampPassword
<1>2. CASE Next
  <2>1. StoredKeeps
    BY NextStored
  <2>2. \A u \in Users : rows'[u] # None => rows'[u].password \in used'
    BY <2>1 DEF StoredKeeps, UsedInv
  <2>3. \A f \in Fallbacks : fallback'[f] # None => fallback'[f].password \in used'
    BY <2>1 DEF StoredKeeps, UsedInv
  <2>4. \A o \in Requests : RequestUsed(o)'
    BY <1>2, <2>1, RequestsUsed DEF StoredKeeps
  <2>5. ASSUME NEW t \in Tokens, sessions'[t] # None
        PROVE  StampPassword(sessions'[t]) \in used' /\ history'[t].password \in used'
    <3>1. CASE sessions[t] # None
      <4>1. sessions'[t] = sessions[t] /\ history'[t] = history[t]
        BY <2>5, <3>1, SessionKeeps
      <4>2. QED
        BY <2>1, <3>1, <4>1 DEF StoredKeeps, UsedInv, SessionUsed, StampPassword
    <3>2. CASE sessions[t] = None
      <4>1. PICK r \in Requests : Issue(r)
        BY <1>2, <2>5, <3>2, SessionsSteps DEF Logout, Typed, TypeOK
      <4>2. sessions'[t] = NewSession(req[r]) /\ history'[t] = ProofOf(r)
        BY <2>5, <3>2, <4>1 DEF Issue
      <4>3. RequestUsed(r) /\ req[r].password \in Passwords
        BY <4>1 DEF UsedInv, Issue, Typed, RequestOK
      <4>4. StampPassword(NewSession(req[r])) = IF req[r].row = None THEN req[r].password
                                                                   ELSE req[r].row.password
        BY DEF StampPassword, NewSession, Fingerprint
      <4>5. req[r].password # None /\ ProofOf(r).password = req[r].password
        BY <4>3, SessionAuthAssumption DEF ProofOf
      <4>6. QED
        BY <2>1, <4>2, <4>3, <4>4, <4>5 DEF RequestUsed, StoredKeeps, StampPassword
    <3>3. QED
      BY <3>1, <3>2
  <2>6. QED
    BY <2>2, <2>3, <2>4, <2>5 DEF UsedInv, SessionUsed, StampPassword
<1>3. QED
  BY <1>1, <1>2

LEMMA ChangedStep ==
    ASSUME Typed, Typed', UsedInv, [Next]_vars, NEW t \in Tokens,
           sessions[t] # None, sessions'[t] # None, CurrentPassword(t)' # CurrentPassword(t),
           Authenticates(t)'
    PROVE  ~ Authenticates(t) /\ CurrentPassword(t)' \in used
<1>1. sessions'[t] = sessions[t] /\ StampPassword(sessions[t]) \in used
  BY SessionKeeps DEF UsedInv, SessionUsed
<1>2. StampPassword(sessions[t]) = CurrentPassword(t)'
  BY <1>1 DEF Authenticates, RecordValid, StampPassword, CurrentPassword, Fingerprint, FetchUser,
     Typed, TypeOK, Maybe, Session, SqlSession, FallbackSession
<1>3. Authenticates(t) => StampPassword(sessions[t]) = CurrentPassword(t)
  BY AcceptedStamp
<1>4. QED
  BY <1>1, <1>2, <1>3

\* The step that changes the password behind a session ends it, whatever rows
\* came and went; a session it lets in was stamped with the password that
\* returns, which has been stored before (sessions.py fingerprint, _record).
THEOREM ChangeRevokes == Spec => PasswordChangeRevokes
<1>1. Typed /\ Typed' /\ UsedInv /\ [Next]_vars =>
        [\A t \in Tokens :
            sessions[t] # None /\ sessions'[t] # None
            /\ CurrentPassword(t)' # CurrentPassword(t) /\ Authenticates(t)'
                => ~ Authenticates(t) /\ CurrentPassword(t)' \in used]_vars
  BY ChangedStep
<1>2. QED
  BY <1>1, InitUsed, TypeCorrect, NextUsed, PTL DEF Spec, PasswordChangeRevokes

=============================================================================
