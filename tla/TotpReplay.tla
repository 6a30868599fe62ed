------------------------------ MODULE TotpReplay ------------------------------
(***************************************************************************)
(* Replay protection of authenticator codes: verify_totp_code (totp.py)    *)
(* accepts a code for some time around its period, _consume_otp            *)
(* (sessions.py) remembers the accepted ones in a ZODB BTree for a while.  *)
(* A request works on the BTree as of its start; its changes are merged    *)
(* key by key when it commits, or it conflicts and has no effect.          *)
(***************************************************************************)
EXTENDS Integers

CONSTANTS
    Logins,     \* login names
    Codes,      \* codes, named by the counter of the period they belong to
    Requests,   \* requests that present a code; each is served once
    Period,     \* length of a period, 30 s in the code
    Window,     \* periods of drift accepted each way, 1 in the code
    Retention,  \* how long a used code is remembered, 120 s in the code
    Stall,      \* assumed: the longest a request takes from verification to commit
    MaxTime     \* bound: the clock of one behaviour

\* How long one code is accepted.
Validity == (2 * Window + 1) * Period

\* A code is forgotten only when no request can still commit with it: with the
\* numbers of the code this leaves a request 30 s.
ASSUME ReplayAssumption ==
    /\ Codes \subseteq Int
    /\ Period \in Nat \ {0} /\ Window \in Nat /\ Retention \in Nat
    /\ Stall \in Nat /\ MaxTime \in Nat
    /\ Validity + Stall <= Retention

VARIABLES
    clock,
    usedCodes,  \* SQLSessionHelper._used_codes: expiry of each login's code, 0 if absent
    req         \* local state of each request

vars == <<clock, usedCodes, req>>

Keys == Logins \X Codes
UsedCodes == [Keys -> Nat]

\* The pages that take a code; my_2fa alone does not consume it.
Pages == {"login", "enroll", "my_2fa"}

Request == [pc: {"new", "begun", "verified", "consumed", "accepted", "refused"},
            page: Pages, key: Keys, at: 0..MaxTime, consumedAt: 0..MaxTime,
            view: UsedCodes]

TypeOK ==
    /\ clock \in 0..MaxTime
    /\ usedCodes \in UsedCodes
    /\ req \in [Requests -> Request]

NoCodes == [k \in Keys |-> 0]

Init ==
    /\ clock = 0
    /\ usedCodes = NoCodes
    /\ req \in [Requests -> [pc: {"new"}, page: Pages, key: Keys, at: {0}, consumedAt: {0},
                             view: {NoCodes}]]

Tick ==
    /\ clock < MaxTime
    /\ clock' = clock + 1
    /\ UNCHANGED <<usedCodes, req>>

\* verify_totp_code: the code of one of the periods around now.
Verify(code, now) ==
    \E offset \in -Window..Window : (now + offset * Period) \div Period = code

\* The request's transaction starts with the BTree as it is.
Begin(r) ==
    /\ req[r].pc = "new"
    /\ req' = [req EXCEPT ![r].pc = "begun", ![r].view = usedCodes]
    /\ UNCHANGED <<clock, usedCodes>>

\* The request ends with its changes discarded.
Refuse(r) ==
    req' = [req EXCEPT ![r].pc = "refused", ![r].at = 0, ![r].consumedAt = 0, ![r].view = NoCodes]

VerifyCode(r) ==
    /\ req[r].pc = "begun"
    /\ IF Verify(req[r].key[2], clock)
       THEN req' = [req EXCEPT ![r].pc = "verified", ![r].at = clock]
       ELSE Refuse(r)
    /\ UNCHANGED <<clock, usedCodes>>

\* Mutant: used codes are forgotten with their own period.
ExpiryOnePeriod(now) == now + Period

\* Mutant: the retention is taken off, so that no code is ever remembered.
ExpiryBefore(now) == now - Retention

Expiry(now) == now + Retention

\* _consume_otp on the request's view: expired entries are purged, and the
\* code is refused if it is still there.
Purged(view, now) == [k \in Keys |-> IF view[k] <= now THEN 0 ELSE view[k]]

Consumed(view, key, now) == [Purged(view, now) EXCEPT ![key] = Expiry(now)]

\* my_2fa goes on without asking _consume_otp.
Consume(r) ==
    /\ req[r].pc = "verified"
    /\ IF req[r].page = "my_2fa" \/ Purged(req[r].view, clock)[req[r].key] = 0
       THEN req' = [req EXCEPT ![r].pc = "consumed", ![r].consumedAt = clock]
       ELSE Refuse(r)
    /\ UNCHANGED <<clock, usedCodes>>

\* What the request has made of its view by the time it commits.
Written(r) ==
    IF req[r].page = "my_2fa" THEN req[r].view
    ELSE Consumed(req[r].view, req[r].key, req[r].consumedAt)

Changed(r) == {k \in Keys : Written(r)[k] # req[r].view[k]}

\* The three-way merge of the BTree: a key the request has changed must still
\* be as the request saw it.
Commit(r) ==
    /\ req[r].pc = "consumed"
    /\ clock <= req[r].at + Stall
    /\ \A k \in Changed(r) : usedCodes[k] = req[r].view[k]
    /\ usedCodes' = [k \in Keys |-> IF k \in Changed(r) THEN Written(r)[k] ELSE usedCodes[k]]
    /\ req' = [req EXCEPT ![r].pc = "accepted", ![r].view = NoCodes]
    /\ UNCHANGED clock

\* A conflict, or any other error before the commit.
Abort(r) ==
    /\ req[r].pc \in {"begun", "verified", "consumed"}
    /\ Refuse(r)
    /\ UNCHANGED <<clock, usedCodes>>

Step(r) == Begin(r) \/ VerifyCode(r) \/ Consume(r) \/ Commit(r) \/ Abort(r)

Next == Tick \/ \E r \in Requests : Step(r)

Spec == Init /\ [][Next]_vars

-----------------------------------------------------------------------------
Accepted == {r \in Requests : req[r].pc = "accepted"}

\* The login form and the enrollment page accept each code of a login at most
\* once, however the requests that present it overlap, and also after the code
\* has been forgotten (sessions.py _consume_otp; totp.py verify_totp_code).
CodeAcceptedOnce ==
    \A r, s \in Accepted :
        /\ req[r].key = req[s].key
        /\ req[r].page # "my_2fa" /\ req[s].page # "my_2fa"
        => r = s

\* docs/upgrade.md: "Reuse of an accepted authenticator code is rejected for two
\* minutes", on whichever page it is presented (admin.py my_2fa).
ReuseRejected ==
    \A r, s \in Accepted :
        /\ req[r].key = req[s].key
        /\ req[s].at >= req[r].consumedAt /\ req[s].at < req[r].consumedAt + Retention
        => r = s
=============================================================================
