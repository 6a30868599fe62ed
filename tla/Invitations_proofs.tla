-------------------------- MODULE Invitations_proofs --------------------------
(***************************************************************************)
(* Invitations implements its ledger, for every number of invitations,     *)
(* accounts and requests.  The argument is about locks: at most one        *)
(* request has updated an invitation row, or holds a key of the users      *)
(* table, without having committed (ExclusiveWith); so the row it relies   *)
(* on stays open and the account it inserts stays absent (LockedBy), and   *)
(* its commit is a step of the ledger.                                     *)
(***************************************************************************)
EXTENDS Invitations, TLAPS

Completing == {"identify", "claim", "insert", "roles", "commit"}
Updating == {"update", "held", "read"}

\* A request has the fields its next statement reads, and an existing row.
RequestOK(r) ==
    /\ req[r].pc # "new" => req[r].inv \in Created
    /\ req[r].pc \in Completing =>
           req[r].op = "complete" /\ req[r].user \in Users /\ req[r].login \in Logins
    /\ req[r].pc \in Updating =>
           /\ req[r].op \in {"rotate", "revoke"}
           /\ req[r].op = "rotate" => req[r].secret \in Secrets
    /\ req[r].answer # None => req[r].pc = "done"

\* Only an accepted invitation is claimed, and none is accepted and revoked.
RowsOK ==
    \A i \in Created :
        /\ inv[i].claim = None <=> inv[i].accepted = None
        /\ inv[i].accepted # None => ~ inv[i].revoked

ExclusiveWith(r, q) ==
    /\ HoldsRow(r) /\ HoldsRow(q) => req[r].inv # req[q].inv
    /\ HoldsAccount(r) /\ HoldsAccount(q) =>
           req[r].user # req[q].user /\ req[r].login # req[q].login

\* What a request has seen of the rows it has locked is still so, and what a
\* revocation found or left behind is final.
LockedBy(r) ==
    /\ HoldsRow(r) =>
           /\ StatusOf(inv[req[r].inv]) = "open"
           /\ req[r].pc # "held" => inv[req[r].inv].secret = req[r].secret
    /\ HoldsAccount(r) => ~ Duplicate(req[r].user, req[r].login)
    /\ req[r].pc = "commit" => req[r].now < inv[req[r].inv].expires
    /\ req[r].pc = "read" /\ req[r].op = "revoke" => StatusOf(inv[req[r].inv]) # "open"

\* The two answer properties, for one request.
AnsweredTo(r) ==
    LET row == inv[req[r].inv]
    IN  /\ req[r].answer = "completed" =>
               row.secret = req[r].secret /\ row.claim = r /\ row.result = req[r].user
        /\ req[r].answer = "revoked" => row.revoked /\ row.accepted = None
        /\ req[r].answer = "not_revoked" => row.accepted # None

ServedWell(r) == RequestOK(r) /\ LockedBy(r) /\ AnsweredTo(r)

InvitationInv ==
    /\ TypeOK /\ RowsOK /\ AcceptedInTime
    /\ \A r \in Requests : ServedWell(r)
    /\ \A r, q \in Requests : r # q => ExclusiveWith(r, q)

-----------------------------------------------------------------------------
(* Rows and locks.                                                         *)

LEMMA RowFields ==
    ASSUME NEW row \in Row
    PROVE  /\ row # None
           /\ row.secret \in Secrets /\ row.expires \in Nat /\ row.revoked \in BOOLEAN
           /\ row.accepted \in Maybe(Times) /\ row.result \in Maybe(Users)
           /\ row.claim \in Maybe(Requests)
           /\ row.accepted = None <=> row.result = None
BY NoneAssumption, InvitationsAssumption DEF Row

LEMMA Statuses ==
    ASSUME NEW row \in Maybe(Row)
    PROVE  /\ StatusOf(row) = "open" <=> row # None /\ row.accepted = None /\ ~ row.revoked
           /\ StatusOf(row) = "none" <=> row = None
           /\ StatusOf(row) = "accepted" <=> row # None /\ row.accepted # None
           /\ StatusOf(row) = "revoked" <=> row # None /\ row.accepted = None /\ row.revoked
BY DEF StatusOf

\* A step that changes only open rows nobody in S has locked, and leaves the
\* accounts that requests in S have inserted absent, does not disturb S.
Kept(S) ==
    /\ \A q \in S : req'[q] = req[q]
    /\ \A i \in Created :
        /\ i \in Created'
        /\ inv'[i] # inv[i] => /\ StatusOf(inv[i]) = "open"
                               /\ \A q \in S : HoldsRow(q) => req[q].inv # i
    /\ \A q \in S : HoldsAccount(q) => ~ Duplicate(req[q].user, req[q].login)'

LEMMA Frame ==
    ASSUME InvitationInv, NEW S \in SUBSET Requests, Kept(S)
    PROVE  /\ \A r \in S : ServedWell(r)'
           /\ \A r, q \in S : r # q => ExclusiveWith(r, q)'
<1>1. ASSUME NEW r \in S
      PROVE  RequestOK(r)' /\ LockedBy(r)' /\ AnsweredTo(r)'
  <2>1. req'[r] = req[r] /\ r \in Requests /\ ServedWell(r)
    BY DEF Kept, InvitationInv
  <2>2. HoldsRow(r)' = HoldsRow(r) /\ HoldsAccount(r)' = HoldsAccount(r)
    BY <2>1 DEF HoldsRow, HoldsAccount
  <2>3. RequestOK(r)'
    BY <2>1 DEF RequestOK, ServedWell, Kept
  <2>4. req[r].inv \in Created /\ inv'[req[r].inv] # inv[req[r].inv]
            => StatusOf(inv[req[r].inv]) = "open" /\ ~ HoldsRow(r)
    BY DEF Kept
  <2>5. req[r].pc # "new" => req[r].inv \in Created /\ inv[req[r].inv] \in Row
    BY <2>1 DEF ServedWell, RequestOK, Created, InvitationInv, TypeOK, Maybe
  <2>6. LockedBy(r)'
    BY <2>1, <2>2, <2>4, <2>5 DEF LockedBy, ServedWell, Kept, HoldsRow
  <2>7. AnsweredTo(r)'
    <3>1. CASE req[r].answer \in {"completed", "revoked", "not_revoked"}
      <4>1. req[r].answer # None /\ req[r].pc = "done" /\ req[r].inv \in Created
        BY <2>1, <3>1, NoneAssumption DEF ServedWell, RequestOK, Answers
      <4>2. StatusOf(inv[req[r].inv]) # "open"
        BY <2>1, <2>5, <3>1, <4>1, Statuses, RowFields, InvitationsAssumption
        DEF ServedWell, AnsweredTo, InvitationInv, RowsOK, Maybe
      <4>3. inv'[req[r].inv] = inv[req[r].inv]
        BY <2>4, <4>1, <4>2
      <4>4. QED
        BY <2>1, <4>3 DEF ServedWell, AnsweredTo
    <3>2. CASE req[r].answer \notin {"completed", "revoked", "not_revoked"}
      BY <2>1, <3>2 DEF AnsweredTo
    <3>3. QED
      BY <3>1, <3>2
  <2>8. QED
    BY <2>3, <2>6, <2>7
<1>2. ASSUME NEW r \in S, NEW q \in S, r # q
      PROVE  ExclusiveWith(r, q)'
  <2>1. req'[r] = req[r] /\ req'[q] = req[q] /\ ExclusiveWith(r, q)
    BY <1>2 DEF Kept, InvitationInv
  <2>2. QED
    BY <2>1 DEF ExclusiveWith, HoldsRow, HoldsAccount
<1>3. QED
  BY <1>1, <1>2 DEF ServedWell

\* The invariant after a step of one request, from what holds of that request.
LEMMA OneRequest ==
    ASSUME InvitationInv, NEW r \in Requests, Kept(Requests \ {r}),
           TypeOK', RowsOK', AcceptedInTime', ServedWell(r)',
           \A q \in Requests \ {r} : ExclusiveWith(r, q)'
    PROVE  InvitationInv'
<1>1. /\ \A q \in Requests \ {r} : ServedWell(q)'
      /\ \A p, q \in Requests \ {r} : p # q => ExclusiveWith(p, q)'
  BY Frame
<1>2. \A p, q \in Requests : ExclusiveWith(p, q)' => ExclusiveWith(q, p)'
  BY DEF ExclusiveWith
<1>3. QED
  BY <1>1, <1>2 DEF InvitationInv

LEMMA InitInv == Init => InvitationInv
<1> SUFFICES ASSUME Init
             PROVE  InvitationInv
  OBVIOUS
<1>1. New \in Request /\ None \notin Answers /\ New.answer = None
  BY InvitationsAssumption, NoneAssumption DEF New, Request, Steps, Times, Maybe
<1>2. TypeOK
  BY <1>1, InvitationsAssumption DEF Init, TypeOK, Times, Maybe
<1>3. RowsOK /\ AcceptedInTime
  BY DEF Init, RowsOK, AcceptedInTime, Created
<1>4. ASSUME NEW r \in Requests
      PROVE  ServedWell(r) /\ ~ HoldsRow(r) /\ ~ HoldsAccount(r)
  BY <1>1 DEF Init, New, ServedWell, RequestOK, LockedBy, AnsweredTo, HoldsRow, HoldsAccount,
     Completing, Updating, Answers
<1>5. QED
  BY <1>2, <1>3, <1>4 DEF InvitationInv, ExclusiveWith

-----------------------------------------------------------------------------
(* Steps that commit nothing.                                              *)

\* What such a step leaves, and what remains to be shown of the request.
LEMMA LocalFrame ==
    ASSUME InvitationInv, NEW r \in Requests, UNCHANGED <<clock, autocommit, inv, users>>,
           drawn' \subseteq Secrets, NEW q \in Request, req' = [req EXCEPT ![r] = q]
    PROVE  /\ Kept(Requests \ {r}) /\ TypeOK' /\ RowsOK' /\ AcceptedInTime' /\ req'[r] = q
           /\ \A o \in Requests \ {r} : req'[o] = req[o]
           /\ Created' = Created
<1>1. TypeOK'
  BY DEF InvitationInv, TypeOK
<1>2. /\ req'[r] = q
      /\ \A o \in Requests \ {r} : req'[o] = req[o]
      /\ Created' = Created
  BY DEF InvitationInv, TypeOK, Created
<1>3. RowsOK' /\ AcceptedInTime'
  BY <1>2 DEF InvitationInv, RowsOK, AcceptedInTime
<1>4. \A o \in Requests : Duplicate(req[o].user, req[o].login)' =>
          req'[o] # req[o] \/ Duplicate(req[o].user, req[o].login)
  BY DEF Duplicate, LoginTaken
<1>5. Kept(Requests \ {r})
  BY <1>2, <1>4 DEF Kept, InvitationInv, ServedWell, LockedBy, Duplicate, LoginTaken
<1>6. QED
  BY <1>1, <1>2, <1>3, <1>5

\* A refused request has nothing left to hold or to promise.
LEMMA RefuseInv ==
    ASSUME InvitationInv, NEW r \in Requests, Refuse(r), req[r].pc # "new",
           UNCHANGED <<clock, autocommit, inv, users, drawn>>
    PROVE  InvitationInv'
<1> DEFINE q == [req[r] EXCEPT !.pc = "done", !.saved = {}, !.answer = "refused"]
<1>1. req[r] \in Request /\ drawn \subseteq Secrets
  BY DEF InvitationInv, TypeOK
<1>2. q \in Request /\ q.pc = "done" /\ q.answer = "refused" /\ q.inv = req[r].inv
      /\ q.op = req[r].op /\ q.secret = req[r].secret
  BY <1>1 DEF Request, Steps, Answers, Maybe
<1>3. req' = [req EXCEPT ![r] = q]
  BY <1>1 DEF Refuse, End, InvitationInv, TypeOK
<1> HIDE DEF q
<1>4. /\ Kept(Requests \ {r}) /\ TypeOK' /\ RowsOK' /\ AcceptedInTime' /\ req'[r] = q
      /\ Created' = Created
  BY <1>1, <1>2, <1>3, LocalFrame
<1>5. ServedWell(r)'
  BY <1>2, <1>4 DEF InvitationInv, ServedWell, RequestOK, LockedBy, AnsweredTo, HoldsRow,
     HoldsAccount, Completing, Updating
<1>6. \A o \in Requests \ {r} : ExclusiveWith(r, o)'
  BY <1>2, <1>4 DEF ExclusiveWith, HoldsRow, HoldsAccount
<1>7. QED
  BY <1>4, <1>5, <1>6, OneRequest

LEMMA StartInv ==
    ASSUME InvitationInv, NEW r \in Requests, Start(r)
    PROVE  InvitationInv'
<1>1. /\ req[r] \in Request /\ drawn \subseteq Secrets /\ clock \in Times
      /\ \A i \in Created : i \in Invitations /\ inv[i] \in Row
  BY DEF InvitationInv, TypeOK, Created, Maybe
<1>2. New \in Request
  BY InvitationsAssumption DEF New, Request, Steps, Times, Maybe
<1>3. ASSUME NEW q \in Request, q.inv \in Created, q.answer = None,
             \/ /\ q.pc = "identify" /\ q.op = "complete"
                /\ q.user \in Users /\ q.login \in Logins
             \/ /\ q.pc = "update" /\ q.op \in {"rotate", "revoke"}
                /\ q.op = "rotate" => q.secret \in Secrets,
             req' = [req EXCEPT ![r] = q], drawn' \subseteq Secrets,
             UNCHANGED <<clock, autocommit, inv, users>>
      PROVE  InvitationInv'
  <2>1. /\ Kept(Requests \ {r}) /\ TypeOK' /\ RowsOK' /\ AcceptedInTime' /\ req'[r] = q
        /\ Created' = Created
    BY <1>3, LocalFrame
  <2>2. ServedWell(r)'
    BY <1>3, <2>1, NoneAssumption DEF ServedWell, RequestOK, LockedBy, AnsweredTo, HoldsRow,
       HoldsAccount, Completing, Updating, Answers
  <2>3. \A o \in Requests \ {r} : ExclusiveWith(r, o)'
    BY <1>3, <2>1 DEF ExclusiveWith, HoldsRow, HoldsAccount
  <2>4. QED
    BY <2>1, <2>2, <2>3, OneRequest
<1>4. CASE Lookup(r)
  <2>1. PICK i \in Created, u \in Users, l \in Logins :
            req' = [req EXCEPT ![r] = [New EXCEPT !.pc = "identify", !.inv = i,
                      !.secret = inv[i].secret, !.user = u, !.login = l]]
    BY <1>4 DEF Lookup
  <2> DEFINE q == [New EXCEPT !.pc = "identify", !.inv = i,
                      !.secret = inv[i].secret, !.user = u, !.login = l]
  <2>2. q \in Request /\ q.inv = i /\ q.answer = None /\ q.pc = "identify"
        /\ q.op = "complete" /\ q.user = u /\ q.login = l
    BY <1>1, <1>2, RowFields DEF New, Request, Steps, Maybe
  <2> HIDE DEF q
  <2>3. QED
    BY <1>1, <1>3, <1>4, <2>1, <2>2 DEF Lookup, q
<1>5. CASE StartRotate(r)
  <2>1. PICK i \in Created, s \in Secrets :
            /\ req' = [req EXCEPT ![r] = [New EXCEPT !.pc = "update", !.op = "rotate",
                          !.inv = i, !.secret = s, !.now = clock]]
            /\ drawn' = drawn \cup {s}
    BY <1>5 DEF StartRotate
  <2> DEFINE q == [New EXCEPT !.pc = "update", !.op = "rotate",
                          !.inv = i, !.secret = s, !.now = clock]
  <2>2. q \in Request /\ q.inv = i /\ q.answer = None /\ q.pc = "update"
        /\ q.op = "rotate" /\ q.secret = s
    BY <1>1, <1>2 DEF New, Request, Steps, Maybe
  <2> HIDE DEF q
  <2>3. QED
    BY <1>1, <1>3, <1>5, <2>1, <2>2 DEF StartRotate, q
<1>6. CASE StartRevoke(r)
  <2>1. PICK i \in Created :
            req' = [req EXCEPT ![r] = [New EXCEPT !.pc = "update", !.op = "revoke", !.inv = i]]
    BY <1>6 DEF StartRevoke
  <2> DEFINE q == [New EXCEPT !.pc = "update", !.op = "revoke", !.inv = i]
  <2>2. q \in Request /\ q.inv = i /\ q.answer = None /\ q.pc = "update" /\ q.op = "revoke"
    BY <1>1, <1>2 DEF New, Request, Steps, Maybe
  <2> HIDE DEF q
  <2>3. QED
    BY <1>1, <1>3, <1>6, <2>1, <2>2 DEF StartRevoke, q
<1>7. QED
  BY <1>4, <1>5, <1>6 DEF Start

\* A completion advances within its transaction; it may take a lock.
LEMMA AdvanceInv ==
    ASSUME InvitationInv, NEW r \in Requests, NEW q \in Request,
           req' = [req EXCEPT ![r] = q],
           UNCHANGED <<clock, autocommit, inv, users, drawn>>,
           req[r].pc \in Completing, q.pc \in Completing, q.answer = req[r].answer,
           q.inv = req[r].inv, q.op = req[r].op, q.secret = req[r].secret,
           q.user = req[r].user, q.login = req[r].login,
           q.pc \in {"insert", "roles", "commit"} =>
               /\ RowFree(q.inv, r)
               /\ StatusOf(inv[q.inv]) = "open" /\ inv[q.inv].secret = q.secret,
           q.pc \in {"roles", "commit"} =>
               AccountFree(q.user, q.login, r) /\ ~ Duplicate(q.user, q.login),
           q.pc = "commit" => q.now < inv[q.inv].expires
    PROVE  InvitationInv'
<1>1. drawn' \subseteq Secrets
  BY DEF InvitationInv, TypeOK
<1>2. /\ Kept(Requests \ {r}) /\ TypeOK' /\ RowsOK' /\ AcceptedInTime' /\ req'[r] = q
      /\ Created' = Created /\ \A o \in Requests \ {r} : req'[o] = req[o]
  BY <1>1, LocalFrame
<1>3. ServedWell(r)'
  <2>1. q.answer = None
    BY DEF InvitationInv, ServedWell, RequestOK, Completing
  <2>2. RequestOK(r)'
    BY <1>2, <2>1 DEF InvitationInv, ServedWell, RequestOK, Completing, Updating
  <2>3. LockedBy(r)'
    BY <1>2 DEF LockedBy, HoldsRow, HoldsAccount, Completing, Duplicate, LoginTaken
  <2>4. AnsweredTo(r)'
    BY <1>2, <2>1, NoneAssumption DEF AnsweredTo, Answers
  <2>5. QED
    BY <2>2, <2>3, <2>4 DEF ServedWell
<1>4. \A o \in Requests \ {r} : ExclusiveWith(r, o)'
  BY <1>2 DEF ExclusiveWith, HoldsRow, HoldsAccount, RowFree, AccountFree, Completing
<1>5. QED
  BY <1>2, <1>3, <1>4, OneRequest

LEMMA Untouched ==
    ASSUME InvitationInv, NEW r \in Requests, req[r].pc # "new"
    PROVE  /\ req[r] \in Request /\ req[r].inv \in Created /\ inv[req[r].inv] \in Row
           /\ HoldsRow(r) => RowFree(req[r].inv, r)
           /\ HoldsAccount(r) => AccountFree(req[r].user, req[r].login, r)
BY DEF InvitationInv, ServedWell, RequestOK, TypeOK, Created, Maybe, ExclusiveWith, RowFree,
   AccountFree

LEMMA CompletionInv ==
    ASSUME InvitationInv, NEW r \in Requests,
           Identify(r) \/ Claim(r) \/ InsertUser(r) \/ SaveRole(r) \/ Consume(r)
    PROVE  InvitationInv'
<1>1. /\ req[r].pc \in {"identify", "claim", "insert", "roles"} /\ req[r].pc \in Completing
      /\ UNCHANGED <<clock, autocommit, inv, users, drawn>>
  BY DEF Identify, Claim, InsertUser, SaveRole, Consume, Completing
<1>2. /\ req[r] \in Request /\ inv[req[r].inv] \in Row /\ clock \in Times
      /\ req \in [Requests -> Request]
      /\ HoldsRow(r) => RowFree(req[r].inv, r)
      /\ HoldsAccount(r) => AccountFree(req[r].user, req[r].login, r)
  BY <1>1, Untouched DEF InvitationInv, TypeOK
<1>3. LockedBy(r)
  BY DEF InvitationInv, ServedWell
<1>4. CASE Refuse(r)
  BY <1>1, <1>4, RefuseInv
<1>5. CASE Identify(r) /\ ~ Refuse(r)
  <2> DEFINE q == [req[r] EXCEPT !.pc = "claim", !.now = clock]
  <2>1. q \in Request /\ q.pc = "claim" /\ q.answer = req[r].answer /\ q.inv = req[r].inv
        /\ q.op = req[r].op /\ q.secret = req[r].secret /\ q.user = req[r].user
        /\ q.login = req[r].login
    BY <1>2 DEF Request, Steps
  <2>2. req' = [req EXCEPT ![r] = q]
    BY <1>2, <1>5 DEF Identify
  <2> HIDE DEF q
  <2>3. QED
    BY <1>1, <2>1, <2>2, AdvanceInv DEF Completing
<1>6. CASE Claim(r) /\ ~ Refuse(r)
  <2> DEFINE q == [req[r] EXCEPT !.pc = "insert"]
  <2>1. q \in Request /\ q.pc = "insert" /\ q.answer = req[r].answer /\ q.inv = req[r].inv
        /\ q.op = req[r].op /\ q.secret = req[r].secret /\ q.user = req[r].user
        /\ q.login = req[r].login
    BY <1>2 DEF Request, Steps
  <2>2. req' = [req EXCEPT ![r] = q]
    BY <1>2, <1>6 DEF Claim
  <2>3. /\ RowFree(req[r].inv, r) /\ StatusOf(inv[req[r].inv]) = "open"
        /\ inv[req[r].inv].secret = req[r].secret
    BY <1>2, <1>6, Statuses, RowFields DEF Claim, ClaimWhere, Pending, Maybe
  <2> HIDE DEF q
  <2>4. QED
    BY <1>1, <2>1, <2>2, <2>3, AdvanceInv DEF Completing
<1>7. CASE InsertUser(r) /\ ~ Refuse(r)
  <2> DEFINE q == [req[r] EXCEPT !.pc = "roles"]
  <2>1. q \in Request /\ q.pc = "roles" /\ q.answer = req[r].answer /\ q.inv = req[r].inv
        /\ q.op = req[r].op /\ q.secret = req[r].secret /\ q.user = req[r].user
        /\ q.login = req[r].login
    BY <1>2 DEF Request, Steps
  <2>2. req' = [req EXCEPT ![r] = q]
    BY <1>2, <1>7 DEF InsertUser
  <2>3. /\ RowFree(req[r].inv, r) /\ StatusOf(inv[req[r].inv]) = "open"
        /\ inv[req[r].inv].secret = req[r].secret
        /\ AccountFree(req[r].user, req[r].login, r) /\ ~ Duplicate(req[r].user, req[r].login)
    BY <1>2, <1>3, <1>7 DEF InsertUser, LockedBy, HoldsRow
  <2> HIDE DEF q
  <2>4. QED
    BY <1>1, <2>1, <2>2, <2>3, AdvanceInv DEF Completing
<1>8. CASE SaveRole(r)
  <2>1. PICK x \in Unsaved(r) : req' = [req EXCEPT ![r].saved = @ \cup {x}]
    BY <1>8 DEF SaveRole, NextRoles
  <2> DEFINE q == [req[r] EXCEPT !.saved = @ \cup {x}]
  <2>2. x \in Roles
    BY <1>2, <1>1, Untouched, InvitationsAssumption DEF Unsaved, Completing, Created
  <2>3. q \in Request /\ q.pc = req[r].pc /\ q.answer = req[r].answer /\ q.inv = req[r].inv
        /\ q.op = req[r].op /\ q.secret = req[r].secret /\ q.user = req[r].user
        /\ q.login = req[r].login
    BY <1>2, <2>2 DEF Request
  <2>4. req' = [req EXCEPT ![r] = q]
    BY <1>2, <2>1
  <2>5. /\ RowFree(req[r].inv, r) /\ StatusOf(inv[req[r].inv]) = "open" /\ req[r].pc = "roles"
        /\ inv[req[r].inv].secret = req[r].secret
        /\ AccountFree(req[r].user, req[r].login, r) /\ ~ Duplicate(req[r].user, req[r].login)
    BY <1>2, <1>3, <1>8 DEF SaveRole, LockedBy, HoldsRow, HoldsAccount
  <2> HIDE DEF q
  <2>6. QED
    BY <1>1, <2>3, <2>4, <2>5, AdvanceInv DEF Completing
<1>9. CASE Consume(r) /\ ~ Refuse(r)
  <2> DEFINE q == [req[r] EXCEPT !.pc = "commit", !.now = clock]
  <2>1. q \in Request /\ q.pc = "commit" /\ q.answer = req[r].answer /\ q.inv = req[r].inv
        /\ q.op = req[r].op /\ q.secret = req[r].secret /\ q.user = req[r].user
        /\ q.login = req[r].login /\ q.now = clock
    BY <1>2 DEF Request, Steps
  <2>2. req' = [req EXCEPT ![r] = q]
    BY <1>2, <1>9 DEF Consume
  <2>3. /\ RowFree(req[r].inv, r) /\ StatusOf(inv[req[r].inv]) = "open"
        /\ inv[req[r].inv].secret = req[r].secret
        /\ AccountFree(req[r].user, req[r].login, r) /\ ~ Duplicate(req[r].user, req[r].login)
    BY <1>2, <1>3, <1>9 DEF Consume, LockedBy, HoldsRow, HoldsAccount
  <2>4. clock < inv[req[r].inv].expires
    BY <1>2, <1>9, RowFields, InvitationsAssumption
    DEF Consume, ConsumeWhere, Pending, Times
  <2> HIDE DEF q
  <2>5. QED
    BY <1>1, <2>1, <2>2, <2>3, <2>4, AdvanceInv DEF Completing
<1>10. QED
  BY <1>4, <1>5, <1>6, <1>7, <1>8, <1>9

LEMMA ReadBackInv ==
    ASSUME InvitationInv, NEW r \in Requests, ReadBack(r)
    PROVE  InvitationInv'
<1>1. /\ req[r].pc = "read" /\ req[r].op \in {"rotate", "revoke"}
      /\ req[r] \in Request /\ req[r].inv \in Created /\ inv[req[r].inv] \in Row
      /\ drawn' \subseteq Secrets /\ UNCHANGED <<clock, autocommit, inv, users>>
  BY Untouched DEF ReadBack, InvitationInv, ServedWell, RequestOK, Updating, TypeOK
<1>2. PICK answer \in {"rotated", "refused", "revoked", "not_revoked"} :
          /\ End(r, answer)
          /\ answer = "revoked" => req[r].op = "revoke" /\ inv[req[r].inv].revoked
          /\ answer = "not_revoked" => req[r].op = "revoke" /\ ~ inv[req[r].inv].revoked
  BY <1>1 DEF ReadBack
<1> DEFINE q == [req[r] EXCEPT !.pc = "done", !.saved = {}, !.answer = answer]
<1>3. q \in Request /\ q.pc = "done" /\ q.answer = answer /\ q.inv = req[r].inv
      /\ q.op = req[r].op /\ q.secret = req[r].secret
  BY <1>1 DEF Request, Steps, Answers, Maybe
<1>4. req' = [req EXCEPT ![r] = q]
  BY <1>1, <1>2 DEF End, InvitationInv, TypeOK
<1> HIDE DEF q
<1>5. /\ Kept(Requests \ {r}) /\ TypeOK' /\ RowsOK' /\ AcceptedInTime' /\ req'[r] = q
      /\ Created' = Created
  BY <1>1, <1>3, <1>4, LocalFrame
<1>6. req[r].op = "revoke" => StatusOf(inv[req[r].inv]) # "open"
  BY <1>1 DEF InvitationInv, ServedWell, LockedBy
<1>7. AnsweredTo(r)'
  <2>1. answer = "revoked" => inv[req[r].inv].accepted = None
    BY <1>1, <1>2 DEF InvitationInv, RowsOK
  <2>2. answer = "not_revoked" => inv[req[r].inv].accepted # None
    BY <1>1, <1>2, <1>6, Statuses, RowFields DEF Maybe
  <2>3. QED
    BY <1>1, <1>2, <1>3, <1>5, <2>1, <2>2 DEF AnsweredTo
<1>8. ServedWell(r)'
  BY <1>1, <1>3, <1>5, <1>7 DEF InvitationInv, ServedWell, RequestOK, LockedBy, HoldsRow,
     HoldsAccount, Completing, Updating
<1>9. \A o \in Requests \ {r} : ExclusiveWith(r, o)'
  BY <1>3, <1>5 DEF ExclusiveWith, HoldsRow, HoldsAccount
<1>10. QED
  BY <1>5, <1>8, <1>9, OneRequest

-----------------------------------------------------------------------------
(* Steps that commit.                                                      *)

\* The request's own invitation row takes a new value while nobody else has it
\* locked; then the rows are as before but for that one.
LEMMA RowFrame ==
    ASSUME InvitationInv, NEW r \in Requests, req[r].pc # "new", RowFree(req[r].inv, r),
           StatusOf(inv[req[r].inv]) = "open", NEW row \in Row,
           row.claim = None <=> row.accepted = None,
           row.accepted # None => ~ row.revoked /\ row.accepted < row.expires,
           inv' = [inv EXCEPT ![req[r].inv] = row]
    PROVE  /\ Created' = Created /\ inv'[req[r].inv] = row
           /\ inv' \in [Invitations -> Maybe(Row)]
           /\ RowsOK' /\ AcceptedInTime'
           /\ \A i \in Created : inv'[i] # inv[i] =>
                  /\ StatusOf(inv[i]) = "open"
                  /\ \A q \in Requests \ {r} : HoldsRow(q) => req[q].inv # i
<1>1. /\ inv \in [Invitations -> Maybe(Row)] /\ req[r].inv \in Created
      /\ req[r].inv \in Invitations
  BY Untouched DEF InvitationInv, TypeOK, Created
<1>2. /\ Created' = Created /\ inv'[req[r].inv] = row
      /\ inv' \in [Invitations -> Maybe(Row)]
      /\ \A i \in Invitations : i # req[r].inv => inv'[i] = inv[i]
  BY <1>1, RowFields DEF Created, Maybe
<1>3. RowsOK' /\ AcceptedInTime'
  BY <1>1, <1>2 DEF InvitationInv, RowsOK, AcceptedInTime, Created
<1>4. QED
  BY <1>1, <1>2, <1>3 DEF RowFree, Created

LEMMA UpdatedRow ==
    ASSUME InvitationInv, NEW r \in Requests, req[r].pc \in {"update", "held"},
           StatusOf(inv[req[r].inv]) = "open"
    PROVE  /\ Updated(r) \in Row
           /\ Updated(r).claim = None /\ Updated(r).accepted = None
           /\ req[r].op = "revoke" => Updated(r).revoked /\ StatusOf(Updated(r)) = "revoked"
           /\ req[r].op = "rotate" => StatusOf(Updated(r)) = "open"
           /\ Updated(r).result = inv[req[r].inv].result
<1>1. /\ req[r].inv \in Created /\ inv[req[r].inv] \in Row
      /\ req[r].op \in {"rotate", "revoke"} /\ req[r].op = "rotate" => req[r].secret \in Secrets
  BY Untouched DEF InvitationInv, ServedWell, RequestOK, Updating
<1>2. inv[req[r].inv].accepted = None /\ inv[req[r].inv].claim = None
      /\ ~ inv[req[r].inv].revoked
  BY <1>1, Statuses DEF InvitationInv, RowsOK, Maybe
<1>3. Updated(r) \in Row
  BY <1>1 DEF Updated, Row
<1>4. /\ Updated(r).claim = None /\ Updated(r).accepted = None
      /\ Updated(r).result = inv[req[r].inv].result
      /\ req[r].op = "revoke" => Updated(r).revoked
      /\ req[r].op = "rotate" => ~ Updated(r).revoked
  BY <1>1, <1>2 DEF Updated, Row
<1>5. QED
  BY <1>3, <1>4, Statuses, RowFields DEF Maybe

LEMMA OpenRow ==
    ASSUME InvitationInv, NEW r \in Requests, req[r].pc = "update", Matches(r)
    PROVE  StatusOf(inv[req[r].inv]) = "open"
<1>1. inv[req[r].inv] \in Row
  BY Untouched
<1>2. QED
  BY <1>1, Statuses, RowFields DEF Matches, RotateWhere, RevokeWhere, Pending, Maybe

LEMMA UpdateInv ==
    ASSUME InvitationInv, NEW r \in Requests, Update(r)
    PROVE  InvitationInv'
<1>1. /\ req[r].pc = "update" /\ req[r].op \in {"rotate", "revoke"} /\ RowFree(req[r].inv, r)
      /\ req[r] \in Request /\ req[r].inv \in Created /\ inv[req[r].inv] \in Row
      /\ req[r].op = "rotate" => req[r].secret \in Secrets
      /\ req[r].answer = None
      /\ drawn' \subseteq Secrets /\ UNCHANGED <<clock, autocommit, users, drawn>>
      /\ req \in [Requests -> Request] /\ autocommit \in BOOLEAN
  BY Untouched DEF Update, InvitationInv, ServedWell, RequestOK, Updating, TypeOK
<1> DEFINE pc == IF Matches(r) /\ ~ autocommit THEN "held" ELSE "read"
           q == [req[r] EXCEPT !.pc = pc]
<1>2. /\ q \in Request /\ q.pc = pc /\ q.inv = req[r].inv /\ q.op = req[r].op
      /\ q.secret = req[r].secret /\ q.answer = None
  BY <1>1 DEF Request, Steps
<1>3. req' = [req EXCEPT ![r] = q] /\ req'[r] = q /\ \A o \in Requests \ {r} : req'[o] = req[o]
  BY <1>1 DEF Update
<1>4. CASE Matches(r) /\ autocommit
  <2>1. inv' = [inv EXCEPT ![req[r].inv] = Updated(r)] /\ pc = "read"
    BY <1>4 DEF Update
  <2>2. StatusOf(inv[req[r].inv]) = "open"
    BY <1>1, <1>4, OpenRow
  <2> HIDE DEF q, pc
  <2>3. /\ Updated(r) \in Row
        /\ Updated(r).claim = None /\ Updated(r).accepted = None
        /\ req[r].op = "revoke" => StatusOf(Updated(r)) = "revoked"
    BY <1>1, <2>2, UpdatedRow
  <2>4. /\ Created' = Created /\ inv'[req[r].inv] = Updated(r)
        /\ inv' \in [Invitations -> Maybe(Row)]
        /\ RowsOK' /\ AcceptedInTime'
        /\ \A i \in Created : inv'[i] # inv[i] =>
               /\ StatusOf(inv[i]) = "open"
               /\ \A o \in Requests \ {r} : HoldsRow(o) => req[o].inv # i
    BY <1>1, <2>1, <2>2, <2>3, RowFrame
  <2>5. Kept(Requests \ {r})
    BY <1>1, <1>3, <2>4 DEF Kept, InvitationInv, ServedWell, LockedBy, Duplicate, LoginTaken
  <2>6. TypeOK'
    BY <1>1, <1>2, <1>3, <2>4 DEF InvitationInv, TypeOK
  <2>7. ServedWell(r)'
    BY <1>1, <1>2, <1>3, <2>1, <2>3, <2>4, NoneAssumption
    DEF ServedWell, RequestOK, LockedBy, AnsweredTo, HoldsRow,
        HoldsAccount, Completing, Updating, Answers
  <2>8. \A o \in Requests \ {r} : ExclusiveWith(r, o)'
    BY <1>2, <1>3, <2>1 DEF ExclusiveWith, HoldsRow, HoldsAccount
  <2>9. QED
    BY <2>4, <2>5, <2>6, <2>7, <2>8, OneRequest
<1>5. CASE ~ (Matches(r) /\ autocommit)
  <2>1. inv' = inv
    BY <1>5 DEF Update
  <2>2. /\ pc \in {"held", "read"}
        /\ pc = "held" => StatusOf(inv[req[r].inv]) = "open"
        /\ pc = "read" /\ req[r].op = "revoke" => StatusOf(inv[req[r].inv]) # "open"
    <3>1. Matches(r) => StatusOf(inv[req[r].inv]) = "open"
      BY <1>1, OpenRow
    <3>2. req[r].op = "revoke" /\ ~ Matches(r) => StatusOf(inv[req[r].inv]) # "open"
      BY <1>1, Statuses DEF Matches, RevokeWhere, Maybe, InvitationInv, RowsOK
    <3>3. QED
      BY <1>1, <1>5, <3>1, <3>2
  <2> HIDE DEF q, pc
  <2>3. /\ Kept(Requests \ {r}) /\ TypeOK' /\ RowsOK' /\ AcceptedInTime' /\ Created' = Created
    BY <1>1, <1>2, <1>3, <2>1, LocalFrame
  <2>4. ServedWell(r)'
    BY <1>1, <1>2, <1>3, <2>1, <2>2, <2>3, NoneAssumption
    DEF ServedWell, RequestOK, LockedBy, AnsweredTo, HoldsRow,
        HoldsAccount, Completing, Updating, Answers
  <2>5. \A o \in Requests \ {r} : ExclusiveWith(r, o)'
    BY <1>1, <1>2, <1>3, <2>2 DEF ExclusiveWith, HoldsRow, HoldsAccount, RowFree
  <2>6. QED
    BY <2>3, <2>4, <2>5, OneRequest
<1>6. QED
  BY <1>4, <1>5

\* A request that has ended with its row written.
LEMMA CommittedInv ==
    ASSUME InvitationInv, NEW r \in Requests, NEW answer \in Answers, End(r, answer),
           req[r].pc # "new", RowFree(req[r].inv, r),
           StatusOf(inv[req[r].inv]) = "open", NEW row \in Row,
           row.claim = None <=> row.accepted = None,
           row.accepted # None => ~ row.revoked /\ row.accepted < row.expires,
           req[r].op = "rotate" => req[r].secret \in Secrets,
           answer = "completed" =>
               row.secret = req[r].secret /\ row.claim = r /\ row.result = req[r].user,
           answer = "revoked" => row.revoked,
           answer # "not_revoked",
           inv' = [inv EXCEPT ![req[r].inv] = row],
           users' \in [Users -> Maybe(Logins)],
           \A o \in Requests \ {r} :
               HoldsAccount(o) => ~ Duplicate(req[o].user, req[o].login)',
           UNCHANGED <<clock, autocommit, drawn>>
    PROVE  InvitationInv'
<1>1. req \in [Requests -> Request] /\ req[r] \in Request /\ req[r].inv \in Created
  BY Untouched DEF InvitationInv, TypeOK
<1> DEFINE q == [req[r] EXCEPT !.pc = "done", !.saved = {}, !.answer = answer]
<1>2. /\ q \in Request /\ q.pc = "done" /\ q.answer = answer /\ q.inv = req[r].inv
      /\ q.op = req[r].op /\ q.secret = req[r].secret /\ q.user = req[r].user
  BY <1>1 DEF Request, Steps, Maybe
<1>3. req' = [req EXCEPT ![r] = q]
  BY <1>1 DEF End
<1>4. req'[r] = q /\ \A o \in Requests \ {r} : req'[o] = req[o]
  BY <1>1, <1>3
<1> HIDE DEF q
<1>5. /\ Created' = Created /\ inv'[req[r].inv] = row
      /\ inv' \in [Invitations -> Maybe(Row)]
      /\ RowsOK' /\ AcceptedInTime'
      /\ \A i \in Created : inv'[i] # inv[i] =>
             /\ StatusOf(inv[i]) = "open"
             /\ \A o \in Requests \ {r} : HoldsRow(o) => req[o].inv # i
  BY RowFrame
<1>6. Kept(Requests \ {r})
  BY <1>4, <1>5 DEF Kept
<1>7. TypeOK'
  BY <1>1, <1>2, <1>3, <1>5 DEF InvitationInv, TypeOK
<1>8. AnsweredTo(r)'
  BY <1>2, <1>4, <1>5, RowFields DEF AnsweredTo, RowsOK
<1>9. ServedWell(r)'
  BY <1>1, <1>2, <1>4, <1>5, <1>8 DEF ServedWell, RequestOK, LockedBy, HoldsRow,
     HoldsAccount, Completing, Updating
<1>10. \A o \in Requests \ {r} : ExclusiveWith(r, o)'
  BY <1>2, <1>4 DEF ExclusiveWith, HoldsRow, HoldsAccount
<1>11. QED
  BY <1>5, <1>6, <1>7, <1>9, <1>10, OneRequest

\* The facts a completion commits on.
LEMMA CommitFacts ==
    ASSUME InvitationInv, NEW r \in Requests, Commit(r)
    PROVE  /\ req[r].pc = "commit" /\ req[r].inv \in Created /\ inv[req[r].inv] \in Row
           /\ req[r].op = "complete" /\ req[r].user \in Users /\ req[r].login \in Logins
           /\ req[r].now \in Times /\ req[r].now < inv[req[r].inv].expires
           /\ RowFree(req[r].inv, r) /\ AccountFree(req[r].user, req[r].login, r)
           /\ StatusOf(inv[req[r].inv]) = "open"
           /\ inv[req[r].inv].secret = req[r].secret
           /\ ~ Duplicate(req[r].user, req[r].login)
BY Untouched DEF Commit, InvitationInv, ServedWell, RequestOK, LockedBy, Completing, HoldsRow,
   HoldsAccount, Request

LEMMA CommitInv ==
    ASSUME InvitationInv, NEW r \in Requests, Commit(r)
    PROVE  InvitationInv'
<1> DEFINE row == Accepted(inv[req[r].inv], req[r], r)
<1>1. /\ req[r].pc = "commit" /\ req[r].inv \in Created /\ inv[req[r].inv] \in Row
      /\ req[r].op = "complete" /\ req[r].user \in Users /\ req[r].login \in Logins
      /\ req[r].now \in Times /\ req[r].now < inv[req[r].inv].expires
      /\ RowFree(req[r].inv, r) /\ AccountFree(req[r].user, req[r].login, r)
      /\ StatusOf(inv[req[r].inv]) = "open"
      /\ inv[req[r].inv].secret = req[r].secret
      /\ ~ Duplicate(req[r].user, req[r].login)
  BY CommitFacts
<1>2. None \notin Times /\ None \notin Users /\ None \notin Requests
  BY InvitationsAssumption DEF Times
<1>3. ~ inv[req[r].inv].revoked
  BY <1>1, Statuses DEF Maybe
<1>4. /\ row \in Row /\ row.accepted = req[r].now /\ row.claim = r /\ row.result = req[r].user
      /\ row.secret = req[r].secret /\ ~ row.revoked /\ row.expires = inv[req[r].inv].expires
  BY <1>1, <1>2, <1>3 DEF Accepted, Row, Maybe
<1>5. inv' = [inv EXCEPT ![req[r].inv] = row] /\ End(r, "completed")
      /\ users' = [users EXCEPT ![req[r].user] = req[r].login]
      /\ UNCHANGED <<clock, autocommit, drawn>>
  BY <1>1 DEF Commit, InvitationInv, TypeOK, Created
<1>6. users' \in [Users -> Maybe(Logins)]
  BY <1>1, <1>5 DEF InvitationInv, TypeOK, Maybe
<1>7. ASSUME NEW o \in Requests \ {r}, HoldsAccount(o)
      PROVE  ~ Duplicate(req[o].user, req[o].login)'
  <2>1. /\ req[o].user # req[r].user /\ req[o].login # req[r].login
        /\ ~ Duplicate(req[o].user, req[o].login)
        /\ req'[o] = req[o]
    BY <1>1, <1>5, <1>7 DEF AccountFree, InvitationInv, ServedWell, LockedBy, End, TypeOK
  <2>2. /\ \A v \in Users : v # req[r].user => users'[v] = users[v]
        /\ users'[req[r].user] = req[r].login
    BY <1>1, <1>5 DEF InvitationInv, TypeOK
  <2>3. req[o].user \in Users
    BY <1>7 DEF HoldsAccount, InvitationInv, ServedWell, RequestOK, Completing
  <2>4. QED
    BY <2>1, <2>2, <2>3 DEF Duplicate, LoginTaken
<1> HIDE DEF row
<1>8. \A o \in Requests \ {r} : HoldsAccount(o) => ~ Duplicate(req[o].user, req[o].login)'
  BY <1>7
<1>9. "completed" \in Answers /\ req[r].pc # "new" /\ row.claim # None /\ row.accepted # None
  BY <1>1, <1>2, <1>4 DEF Answers
<1>10. QED
  BY <1>1, <1>4, <1>5, <1>6, <1>8, <1>9, CommittedInv

LEMMA CommitHeldInv ==
    ASSUME InvitationInv, NEW r \in Requests, CommitHeld(r)
    PROVE  InvitationInv'
<1>1. /\ req[r].pc = "held" /\ req[r].op \in {"rotate", "revoke"} /\ RowFree(req[r].inv, r)
      /\ StatusOf(inv[req[r].inv]) = "open" /\ req[r].inv \in Created
      /\ req[r].op = "rotate" => req[r].secret \in Secrets
  BY Untouched DEF CommitHeld, InvitationInv, ServedWell, RequestOK, LockedBy, Updating,
     HoldsRow
<1>2. /\ Updated(r) \in Row
      /\ Updated(r).claim = None /\ Updated(r).accepted = None
      /\ req[r].op = "revoke" => Updated(r).revoked
  BY <1>1, UpdatedRow
<1> DEFINE answer == IF req[r].op = "rotate" THEN "rotated" ELSE "revoked"
<1>3. /\ answer \in Answers /\ answer # "completed" /\ answer # "not_revoked"
      /\ answer = "revoked" => req[r].op = "revoke"
  BY <1>1 DEF Answers
<1>4. /\ inv' = [inv EXCEPT ![req[r].inv] = Updated(r)] /\ End(r, answer)
      /\ users' \in [Users -> Maybe(Logins)] /\ UNCHANGED <<clock, autocommit, users, drawn>>
  BY DEF CommitHeld, InvitationInv, TypeOK
<1>5. \A o \in Requests \ {r} : HoldsAccount(o) => ~ Duplicate(req[o].user, req[o].login)'
  BY <1>4 DEF End, InvitationInv, ServedWell, LockedBy, Duplicate, LoginTaken, TypeOK
<1> HIDE DEF answer
<1>6. QED
  BY <1>1, <1>2, <1>3, <1>4, <1>5, CommittedInv

-----------------------------------------------------------------------------
(* Steps of no request.                                                    *)

LEMMA CreateInv ==
    ASSUME InvitationInv, NEW i \in Invitations, CreateInvitation(i)
    PROVE  InvitationInv'
<1>1. PICK s \in Secrets \ drawn :
          /\ drawn' = drawn \cup {s}
          /\ inv' = [inv EXCEPT ![i] =
                [secret |-> s, expires |-> clock + Lifetime, accepted |-> None,
                 revoked |-> FALSE, result |-> None, claim |-> None]]
  BY DEF CreateInvitation
<1>2. /\ inv[i] = None /\ UNCHANGED <<clock, autocommit, users, req>>
      /\ clock \in Times /\ clock + Lifetime \in 0..(MaxTime + Lifetime)
  BY InvitationsAssumption DEF CreateInvitation, InvitationInv, TypeOK, Times
<1> DEFINE row == [secret |-> s, expires |-> clock + Lifetime, accepted |-> None,
                   revoked |-> FALSE, result |-> None, claim |-> None]
<1>3. row \in Row /\ row.accepted = None /\ row.claim = None
  BY <1>2 DEF Row, Maybe
<1> HIDE DEF row
<1>4. /\ inv' \in [Invitations -> Maybe(Row)] /\ inv'[i] = row
      /\ \A j \in Invitations : j # i => inv'[j] = inv[j]
  BY <1>1, <1>3 DEF InvitationInv, TypeOK, Maybe, row
<1>5. \A j \in Created : j \in Created' /\ inv'[j] = inv[j]
  BY <1>2, <1>4 DEF Created
<1>6. TypeOK'
  BY <1>1, <1>2, <1>4 DEF InvitationInv, TypeOK
<1>7. RowsOK' /\ AcceptedInTime'
  BY <1>3, <1>4, <1>5 DEF InvitationInv, RowsOK, AcceptedInTime, Created
<1>8. Kept(Requests)
  BY <1>2, <1>5 DEF Kept, InvitationInv, ServedWell, LockedBy, Duplicate, LoginTaken
<1>9. QED
  BY <1>6, <1>7, <1>8, Frame DEF InvitationInv

LEMMA AdminInv ==
    ASSUME InvitationInv, NEW u \in Users,
           AdminDelete(u) \/ \E l \in Logins : AdminSave(u, l)
    PROVE  InvitationInv'
<1>1. UNCHANGED <<clock, autocommit, inv, drawn, req>>
  BY DEF AdminDelete, AdminSave
<1>2. users' \in [Users -> Maybe(Logins)]
  BY DEF AdminDelete, AdminSave, InvitationInv, TypeOK, Maybe
<1>3. ASSUME NEW q \in Requests, HoldsAccount(q)
      PROVE  ~ Duplicate(req[q].user, req[q].login)'
  <2>1. /\ ~ Duplicate(req[q].user, req[q].login)
        /\ req[q].user \in Users /\ req[q].login \in Logins /\ None \notin Logins
    BY <1>3, InvitationsAssumption DEF InvitationInv, ServedWell, LockedBy, RequestOK,
       HoldsAccount, Completing
  <2>2. CASE AdminDelete(u)
    BY <1>1, <2>1, <2>2 DEF AdminDelete, InvitationInv, TypeOK, Duplicate, LoginTaken
  <2>3. CASE \E l \in Logins : AdminSave(u, l)
    <3>1. None \notin Requests
      BY InvitationsAssumption
    <3>2. PICK l \in Logins : AdminSave(u, l)
      BY <2>3
    <3>3. req[q].user # u /\ req[q].login # l
      BY <1>3, <3>1, <3>2 DEF AdminSave, AccountFree
    <3>4. QED
      BY <1>1, <2>1, <3>2, <3>3 DEF AdminSave, InvitationInv, TypeOK, Duplicate, LoginTaken
  <2>4. QED
    BY <2>2, <2>3
<1>4. TypeOK' /\ RowsOK' /\ AcceptedInTime'
  BY <1>1, <1>2 DEF InvitationInv, TypeOK, RowsOK, AcceptedInTime, Created
<1>5. Kept(Requests)
  BY <1>1, <1>3 DEF Kept, Created
<1>6. QED
  BY <1>4, <1>5, Frame DEF InvitationInv

LEMMA IdleInv ==
    ASSUME InvitationInv, Tick \/ UNCHANGED vars
    PROVE  InvitationInv'
<1>1. UNCHANGED <<autocommit, inv, users, drawn, req>>
  BY DEF Tick, vars
<1>2. TypeOK' /\ RowsOK' /\ AcceptedInTime'
  BY <1>1, InvitationsAssumption
  DEF Tick, vars, InvitationInv, TypeOK, RowsOK, AcceptedInTime, Created, Times
<1>3. Kept(Requests)
  BY <1>1 DEF Kept, Created, InvitationInv, ServedWell, LockedBy, Duplicate, LoginTaken
<1>4. QED
  BY <1>2, <1>3, Frame DEF InvitationInv

LEMMA NextInv == InvitationInv /\ [Next]_vars => InvitationInv'
<1> SUFFICES ASSUME InvitationInv, [Next]_vars
             PROVE  InvitationInv'
  OBVIOUS
<1>1. ASSUME NEW i \in Invitations, CreateInvitation(i)
      PROVE  InvitationInv'
  BY <1>1, CreateInv
<1>2. ASSUME NEW r \in Requests, Start(r) \/ Progress(r) \/ Abort(r)
      PROVE  InvitationInv'
  <2>1. CASE Start(r)
    BY <2>1, StartInv
  <2>2. CASE Identify(r) \/ Claim(r) \/ InsertUser(r) \/ SaveRole(r) \/ Consume(r)
    BY <2>2, CompletionInv
  <2>3. CASE Commit(r)
    BY <2>3, CommitInv
  <2>4. CASE Update(r)
    BY <2>4, UpdateInv
  <2>5. CASE ReadBack(r)
    BY <2>5, ReadBackInv
  <2>6. CASE CommitHeld(r)
    BY <2>6, CommitHeldInv
  <2>7. CASE Abort(r)
    BY <2>7, RefuseInv DEF Abort
  <2>8. QED
    BY <1>2, <2>1, <2>2, <2>3, <2>4, <2>5, <2>6, <2>7 DEF Progress
<1>3. ASSUME NEW u \in Users, AdminDelete(u) \/ \E l \in Logins : AdminSave(u, l)
      PROVE  InvitationInv'
  BY <1>3, AdminInv
<1>4. CASE Tick \/ UNCHANGED vars
  BY <1>4, IdleInv
<1>5. QED
  BY <1>1, <1>2, <1>3, <1>4 DEF Next

LEMMA AlwaysInv == Spec => []InvitationInv
BY InitInv, NextInv, PTL DEF Spec

-----------------------------------------------------------------------------
(* The theorems.                                                           *)

\* Every reachable state has the declared types, for any invitations, users and
\* requests.
THEOREM TypeSafety == Spec => []TypeOK
<1>1. InvitationInv => TypeOK
  BY DEF InvitationInv
<1>2. QED
  BY <1>1, AlwaysInv, PTL

\* Whoever completes an invitation has presented the secret it still has.
THEOREM CurrentSecret == Spec => []CompletedWithCurrentSecret
<1>1. InvitationInv => CompletedWithCurrentSecret
  BY DEF InvitationInv, ServedWell, AnsweredTo, CompletedWithCurrentSecret, Ended
<1>2. QED
  BY <1>1, AlwaysInv, PTL

\* The answer of revoke_invitation is final.
THEOREM RevocationFinal == Spec => []RevocationAnswer
<1>1. InvitationInv => RevocationAnswer
  BY DEF InvitationInv, ServedWell, AnsweredTo, RevocationAnswer, Ended
<1>2. QED
  BY <1>1, AlwaysInv, PTL

\* No invitation is accepted at or after its expiry, although the claim may
\* compare an old time.
THEOREM NeverTooLate == Spec => []AcceptedInTime
<1>1. InvitationInv => AcceptedInTime
  BY DEF InvitationInv
<1>2. QED
  BY <1>1, AlwaysInv, PTL

-----------------------------------------------------------------------------
(* The refinement.                                                         *)

Status == [i \in Invitations |-> StatusOf(inv[i])]
Account == [i \in Invitations |-> IF inv[i] = None THEN None ELSE inv[i].result]
Accounts == {u \in Users : users[u] # None}

LEMMA LedgerInit == Init => Ledger!Init
BY DEF Init, Ledger!Init, StatusOf

\* A step that leaves both tables alone is a stutter.
LEMMA LedgerStutter ==
    ASSUME UNCHANGED <<inv, users>>
    PROVE  UNCHANGED Ledger!ledger
BY DEF Ledger!ledger

LEMMA LedgerCreate ==
    ASSUME InvitationInv, NEW i \in Invitations, CreateInvitation(i)
    PROVE  Ledger!Issue(i)
<1>1. PICK s \in Secrets \ drawn :
          inv' = [inv EXCEPT ![i] =
              [secret |-> s, expires |-> clock + Lifetime, accepted |-> None,
               revoked |-> FALSE, result |-> None, claim |-> None]]
  BY DEF CreateInvitation
<1> DEFINE row == [secret |-> s, expires |-> clock + Lifetime, accepted |-> None,
                   revoked |-> FALSE, result |-> None, claim |-> None]
<1>2. row \in Row
  BY InvitationsAssumption DEF Row, Maybe, CreateInvitation, InvitationInv, TypeOK, Times
<1>3. row # None /\ StatusOf(row) = "open" /\ row.result = None
  BY <1>2, RowFields DEF StatusOf
<1> HIDE DEF row
<1>4. inv[i] = None /\ inv' = [inv EXCEPT ![i] = row] /\ users' = users
  BY <1>1 DEF CreateInvitation, row
<1>5. /\ Status[i] = "none" /\ Status' = [Status EXCEPT ![i] = "open"]
      /\ Account' = Account /\ Accounts' = Accounts
  BY <1>3, <1>4 DEF InvitationInv, TypeOK, Status, Account, Accounts, StatusOf
<1>6. QED
  BY <1>5 DEF Ledger!Issue, Status, Account, Accounts

\* An update that reaches the table revokes an open invitation, or rotates the
\* secret, which the ledger does not see.
LEMMA LedgerUpdated ==
    ASSUME InvitationInv, NEW r \in Requests, req[r].pc \in {"update", "held"},
           StatusOf(inv[req[r].inv]) = "open",
           inv' = [inv EXCEPT ![req[r].inv] = Updated(r)], users' = users,
           NEW i \in Invitations, i = req[r].inv
    PROVE  Ledger!Revoke(i) \/ UNCHANGED Ledger!ledger
<1>1. /\ i \in Invitations /\ inv[i] \in Row
      /\ inv \in [Invitations -> Maybe(Row)] /\ req[r].op \in {"rotate", "revoke"}
  BY Untouched DEF Created, InvitationInv, TypeOK, ServedWell, RequestOK, Updating
<1>2. /\ Updated(r) \in Row /\ Updated(r).result = inv[i].result
      /\ req[r].op = "revoke" => StatusOf(Updated(r)) = "revoked"
      /\ req[r].op = "rotate" => StatusOf(Updated(r)) = "open"
  BY UpdatedRow
<1>3. inv[i] # None /\ Updated(r) # None
  BY <1>1, <1>2, RowFields
<1>4. Account' = Account /\ Accounts' = Accounts
  BY <1>1, <1>2, <1>3 DEF Account, Accounts
<1>5. CASE req[r].op = "rotate"
  <2>1. Status' = Status
    BY <1>1, <1>2, <1>5 DEF Status
  <2>2. QED
    BY <1>4, <2>1 DEF Ledger!ledger, Status, Account, Accounts
<1>6. CASE req[r].op = "revoke"
  <2>1. Status[i] = "open" /\ Status' = [Status EXCEPT ![i] = "revoked"]
    BY <1>1, <1>2, <1>6 DEF Status
  <2>2. QED
    BY <1>4, <2>1 DEF Ledger!Revoke, Status, Account, Accounts
<1>7. QED
  BY <1>1, <1>5, <1>6

LEMMA LedgerCommit ==
    ASSUME InvitationInv, NEW r \in Requests, Commit(r),
           NEW i \in Invitations, i = req[r].inv, NEW u \in Users, u = req[r].user
    PROVE  Ledger!Accept(i, u)
<1> DEFINE row == Accepted(inv[i], req[r], r)
<1>1. /\ i \in Invitations /\ inv[i] \in Row /\ u \in Users /\ req[r].login \in Logins
      /\ req[r].now \in Times /\ StatusOf(inv[i]) = "open" /\ ~ Duplicate(u, req[r].login)
      /\ inv \in [Invitations -> Maybe(Row)] /\ users \in [Users -> Maybe(Logins)]
  BY CommitFacts DEF Created, InvitationInv, TypeOK
<1>2. None \notin Times /\ None \notin Users /\ None \notin Logins
  BY InvitationsAssumption DEF Times
<1>3. row \in Row /\ row.accepted = req[r].now /\ row.result = u
  BY <1>1, <1>2 DEF Accepted, Row, Maybe
<1>4. row # None /\ StatusOf(row) = "accepted"
  BY <1>1, <1>2, <1>3, RowFields DEF StatusOf
<1>5. inv' = [inv EXCEPT ![i] = row] /\ users' = [users EXCEPT ![u] = req[r].login]
  BY <1>1 DEF Commit
<1> HIDE DEF row
<1>6. /\ Status[i] = "open" /\ u \notin Accounts
      /\ Status' = [Status EXCEPT ![i] = "accepted"]
      /\ Account' = [Account EXCEPT ![i] = u]
  BY <1>1, <1>3, <1>4, <1>5 DEF Status, Account, Accounts, Duplicate
<1>7. Accounts' = Accounts \cup {u}
  BY <1>1, <1>2, <1>5 DEF Accounts
<1>8. QED
  BY <1>6, <1>7 DEF Ledger!Accept, Status, Account, Accounts

LEMMA LedgerAdmin ==
    ASSUME InvitationInv, NEW u \in Users,
           AdminDelete(u) \/ \E l \in Logins : AdminSave(u, l)
    PROVE  Ledger!Administer
<1>1. None \notin Logins /\ users \in [Users -> Maybe(Logins)] /\ inv' = inv
  BY InvitationsAssumption DEF InvitationInv, TypeOK, AdminDelete, AdminSave
<1>2. CASE AdminDelete(u)
  <2>1. Accounts' = Accounts \ {u}
    BY <1>1, <1>2 DEF AdminDelete, Accounts
  <2>2. QED
    BY <1>1, <2>1 DEF Ledger!Administer, Accounts
<1>3. CASE \E l \in Logins : AdminSave(u, l)
  <2>1. Accounts' = Accounts \cup {u}
    BY <1>1, <1>3 DEF AdminSave, Accounts
  <2>2. QED
    BY <1>1, <2>1 DEF Ledger!Administer, Accounts
<1>4. QED
  BY <1>2, <1>3

LEMMA LedgerNext == InvitationInv /\ [Next]_vars => [Ledger!Next]_(Ledger!ledger)
<1> SUFFICES ASSUME InvitationInv, [Next]_vars
             PROVE  Ledger!Next \/ UNCHANGED Ledger!ledger
  OBVIOUS
<1>1. CASE UNCHANGED <<inv, users>>
  BY <1>1, LedgerStutter
<1>2. ASSUME NEW i \in Invitations, CreateInvitation(i)
      PROVE  Ledger!Next
  BY <1>2, LedgerCreate DEF Ledger!Next
<1>3. ASSUME NEW r \in Requests, Commit(r)
      PROVE  Ledger!Next
  <2>1. req[r].inv \in Invitations /\ req[r].user \in Users
    BY <1>3, CommitFacts DEF Created
  <2>2. PICK i \in Invitations, u \in Users : i = req[r].inv /\ u = req[r].user
    BY <2>1
  <2>3. Ledger!Accept(i, u)
    BY <1>3, <2>2, LedgerCommit
  <2>4. QED
    BY <2>3 DEF Ledger!Next
<1>4. ASSUME NEW r \in Requests, Update(r) \/ CommitHeld(r)
      PROVE  Ledger!Next \/ UNCHANGED Ledger!ledger
  <2>1. CASE inv' = inv
    BY <1>1, <1>4, <2>1 DEF Update, CommitHeld
  <2>2. CASE inv' # inv
    <3>1. /\ req[r].pc \in {"update", "held"} /\ users' = users
          /\ inv' = [inv EXCEPT ![req[r].inv] = Updated(r)]
          /\ req[r].pc = "update" => Matches(r)
      BY <1>4, <2>2 DEF Update, CommitHeld
    <3>2. StatusOf(inv[req[r].inv]) = "open"
      BY <3>1, OpenRow DEF InvitationInv, ServedWell, LockedBy, HoldsRow
    <3>3. PICK i \in Invitations : i = req[r].inv
      BY <3>1, Untouched DEF Created
    <3>4. Ledger!Revoke(i) \/ UNCHANGED Ledger!ledger
      BY <3>1, <3>2, <3>3, LedgerUpdated
    <3>5. QED
      BY <3>4 DEF Ledger!Next
  <2>3. QED
    BY <2>1, <2>2
<1>5. ASSUME NEW u \in Users, AdminDelete(u) \/ \E l \in Logins : AdminSave(u, l)
      PROVE  Ledger!Next
  BY <1>5, LedgerAdmin DEF Ledger!Next
<1>6. ASSUME NEW r \in Requests, Start(r) \/ Progress(r) \/ Abort(r),
             ~ Commit(r), ~ Update(r), ~ CommitHeld(r)
      PROVE  UNCHANGED <<inv, users>>
  BY <1>6 DEF Start, Progress, Abort, Lookup, StartRotate, StartRevoke, Identify, Claim,
     InsertUser, SaveRole, Consume, ReadBack
<1>7. CASE Tick \/ UNCHANGED vars
  BY <1>1, <1>7 DEF Tick, vars
<1>8. QED
  BY <1>1, <1>2, <1>3, <1>4, <1>5, <1>6, <1>7 DEF Next, Progress

\* The committed tables implement the ledger: an invitation is accepted or
\* revoked once, and its acceptance and one new account appear together.
THEOREM ImplementsLedger == Spec => LedgerSpec
<1>1. InvitationInv /\ [Next]_vars => [Ledger!Next]_(Ledger!ledger)
  BY LedgerNext
<1>2. QED
  BY <1>1, LedgerInit, AlwaysInv, PTL DEF Spec, LedgerSpec, Ledger!Spec
=============================================================================
