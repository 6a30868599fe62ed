-------------------------- MODULE TotpReplay_proofs --------------------------
(***************************************************************************)
(* One code is accepted once, for every period, drift and retention that   *)
(* leave a request the time it takes: as long as any request can still     *)
(* commit with the code, the BTree holds it, so the request either saw it  *)
(* and was refused or conflicts with the request that stored it.           *)
(***************************************************************************)
EXTENDS TotpReplay, TLAPS

\* The moments at which one code is accepted lie less than Validity apart.
LEMMA ValidMoments ==
    ASSUME NEW c \in Int, NEW v \in Nat, NEW w \in Nat, Verify(c, v), Verify(c, w)
    PROVE  v < w + Validity
<1>1. PICK o \in -Window..Window : (v + o * Period) \div Period = c
  BY DEF Verify
<1>2. PICK p \in -Window..Window : (w + p * Period) \div Period = c
  BY DEF Verify
<1>3. /\ Period \in Nat /\ Period > 0 /\ Window \in Nat
      /\ o \in Int /\ p \in Int /\ p - o <= 2 * Window
  BY <1>1, <1>2, ReplayAssumption
<1>4. \A n \in Int : n \div Period = c => c * Period <= n /\ n < c * Period + Period
  BY <1>3
<1>5. v + o * Period < c * Period + Period /\ c * Period <= w + p * Period
  BY <1>1, <1>2, <1>3, <1>4
<1>6. (p - o) * Period <= (2 * Window) * Period
  BY <1>3
<1>7. (p - o) * Period = p * Period - o * Period
  BY <1>3
<1>8. Validity = (2 * Window) * Period + Period
  BY <1>3 DEF Validity
<1>9. QED
  BY <1>3, <1>5, <1>6, <1>7, <1>8

\* The times of a request are in order, and its code was right when verified.
WellTimed ==
    \A r \in Requests :
        /\ req[r].pc \in {"verified", "consumed", "accepted"} =>
               Verify(req[r].key[2], req[r].at) /\ req[r].at <= clock
        /\ req[r].pc \in {"consumed", "accepted"} =>
               req[r].at <= req[r].consumedAt /\ req[r].consumedAt <= clock

\* A request that goes on to commit saw no live entry for its code.
SawNoEntry ==
    \A r \in Requests :
        req[r].pc = "consumed" /\ req[r].page # "my_2fa" =>
            req[r].view[req[r].key] <= req[r].consumedAt

\* An accepted code is in the BTree until it is due to be forgotten.
Remembered ==
    \A r \in Accepted :
        req[r].page # "my_2fa" /\ clock < req[r].consumedAt + Retention =>
            usedCodes[req[r].key] = req[r].consumedAt + Retention

ReplayInv == TypeOK /\ WellTimed /\ SawNoEntry /\ Remembered /\ CodeAcceptedOnce

LEMMA RetentionPositive == Retention \in Nat /\ Retention > 0 /\ Validity \in Nat
<1>1. Period \in Nat /\ Period > 0 /\ Window \in Nat /\ Stall \in Nat
      /\ Retention \in Nat /\ Validity + Stall <= Retention
  BY ReplayAssumption
<1>2. 2 * Window + 1 \in Nat /\ 2 * Window + 1 >= 1
  BY <1>1
<1>3. (2 * Window + 1) * Period \in Nat /\ (2 * Window + 1) * Period > 0
  BY <1>1, <1>2
<1>4. QED
  BY <1>1, <1>3 DEF Validity

LEMMA InitReplay == Init => ReplayInv
BY ReplayAssumption
DEF Init, ReplayInv, TypeOK, WellTimed, SawNoEntry, Remembered, CodeAcceptedOnce, Accepted,
    Request, Pages, UsedCodes, NoCodes

LEMMA TickReplay ==
    ASSUME ReplayInv, Tick
    PROVE  ReplayInv'
BY ReplayAssumption
DEF Tick, ReplayInv, TypeOK, WellTimed, SawNoEntry, Remembered, CodeAcceptedOnce, Accepted, Request

\* Every step of a request but its commit leaves the BTree and the accepted
\* requests alone.
LEMMA LocalReplay ==
    ASSUME ReplayInv, NEW r \in Requests, Begin(r) \/ VerifyCode(r) \/ Consume(r) \/ Abort(r)
    PROVE  ReplayInv'
<1> USE DEF ReplayInv
<1>1. /\ req[r] \in Request /\ usedCodes \in UsedCodes /\ NoCodes \in UsedCodes
      /\ clock \in 0..MaxTime /\ 0 \in 0..MaxTime
  BY ReplayAssumption DEF TypeOK, NoCodes, UsedCodes
<1>2. /\ clock' = clock /\ usedCodes' = usedCodes /\ req[r].pc # "accepted"
      /\ \A o \in Requests \ {r} : req'[o] = req[o]
      /\ req' \in [Requests -> Request] /\ req'[r].pc # "accepted"
  BY <1>1 DEF Begin, VerifyCode, Consume, Abort, Refuse, TypeOK, Request
<1>3. TypeOK' /\ Accepted' = Accepted
  BY <1>1, <1>2 DEF TypeOK, Accepted
<1>4. WellTimed'
  <2>1. /\ req'[r].pc \in {"verified", "consumed"} =>
               Verify(req'[r].key[2], req'[r].at) /\ req'[r].at <= clock
        /\ req'[r].pc = "consumed" =>
               req'[r].at <= req'[r].consumedAt /\ req'[r].consumedAt <= clock
    BY <1>1 DEF Begin, VerifyCode, Consume, Abort, Refuse, TypeOK, Request, WellTimed
  <2>2. QED
    BY <1>2, <2>1 DEF WellTimed
<1>5. SawNoEntry'
  <2>1. req'[r].pc = "consumed" /\ req'[r].page # "my_2fa" =>
            req'[r].view[req'[r].key] <= req'[r].consumedAt
    BY <1>1 DEF Begin, VerifyCode, Consume, Abort, Refuse, TypeOK, Request, UsedCodes, Purged
  <2>2. QED
    BY <1>2, <2>1 DEF SawNoEntry
<1>6. Remembered' /\ CodeAcceptedOnce'
  BY <1>2, <1>3 DEF Remembered, CodeAcceptedOnce, Accepted
<1>7. QED
  BY <1>3, <1>4, <1>5, <1>6

LEMMA CommitReplay ==
    ASSUME ReplayInv, NEW r \in Requests, Commit(r)
    PROVE  ReplayInv'
<1> USE DEF ReplayInv
<1> DEFINE k == req[r].key
           c == req[r].consumedAt
<1>1. /\ req[r] \in Request /\ k \in Keys /\ c \in Nat /\ req[r].at \in Nat
      /\ req[r].view \in UsedCodes /\ clock \in 0..MaxTime /\ clock \in Nat
      /\ usedCodes \in UsedCodes /\ k[2] \in Int
  <2>1. /\ req[r] \in Request /\ clock \in 0..MaxTime /\ usedCodes \in UsedCodes
    BY DEF TypeOK
  <2>2. /\ k \in Keys /\ c \in 0..MaxTime /\ req[r].at \in 0..MaxTime /\ req[r].view \in UsedCodes
    BY <2>1 DEF Request
  <2>3. k[2] \in Int
    BY <2>2, ReplayAssumption DEF Keys
  <2>4. QED
    BY <2>1, <2>2, <2>3, ReplayAssumption
<1>2. Verify(k[2], req[r].at) /\ req[r].at <= c /\ c <= clock /\ clock <= req[r].at + Stall
  BY DEF Commit, WellTimed
<1>3. Written(r) \in UsedCodes
  BY <1>1, RetentionPositive DEF Written, Consumed, Purged, Expiry, UsedCodes
<1>4. TypeOK'
  BY <1>1, <1>3 DEF Commit, TypeOK, UsedCodes, Request, NoCodes
<1>5. /\ \A o \in Requests \ {r} : req'[o] = req[o]
      /\ req'[r].pc = "accepted" /\ req'[r].key = k /\ req'[r].consumedAt = c
      /\ req'[r].at = req[r].at /\ req'[r].page = req[r].page /\ clock' = clock
  BY <1>1 DEF Commit, TypeOK, Request
<1>6. WellTimed' /\ SawNoEntry'
  <2>1. WellTimed'
    <3>1. ASSUME NEW o \in Requests, req'[o].pc \in {"verified", "consumed", "accepted"}
          PROVE  /\ Verify(req'[o].key[2], req'[o].at) /\ req'[o].at <= clock
                 /\ req'[o].pc # "verified" =>
                        req'[o].at <= req'[o].consumedAt /\ req'[o].consumedAt <= clock
      <4>1. CASE o = r
        BY <1>1, <1>2, <1>5, <4>1
      <4>2. CASE o # r
        BY <1>5, <3>1, <4>2 DEF WellTimed
      <4>3. QED
        BY <4>1, <4>2
    <3>2. QED
      BY <1>5, <3>1 DEF WellTimed
  <2>2. SawNoEntry'
    BY <1>5 DEF SawNoEntry
  <2>3. QED
    BY <2>1, <2>2
<1>7. Accepted' = Accepted \cup {r}
  BY <1>5 DEF Accepted
\* The request adds an entry where it saw none.
<1>8. ASSUME req[r].page # "my_2fa"
       PROVE  /\ Written(r)[k] = c + Retention
              /\ req[r].view[k] \in Nat /\ req[r].view[k] <= c
              /\ k \in Changed(r)
  <2>1. req[r].view[k] <= c
    BY <1>8 DEF Commit, SawNoEntry
  <2>2. Written(r)[k] = c + Retention
    BY <1>1, <1>8 DEF Written, Consumed, Purged, Expiry
  <2>3. req[r].view[k] \in Nat
    BY <1>1 DEF UsedCodes
  <2>4. QED
    BY <1>1, <2>1, <2>2, <2>3, RetentionPositive DEF Changed
\* Someone who has been accepted with this code is still remembered.
<1>9. ASSUME req[r].page # "my_2fa"
      PROVE  \A s \in Accepted : req[s].key = k => req[s].page = "my_2fa"
  <2>1. usedCodes[k] <= clock
    BY <1>1, <1>2, <1>9, <1>8 DEF Commit
  <2>2. SUFFICES ASSUME NEW s \in Accepted, req[s].key = k, req[s].page # "my_2fa"
                 PROVE  FALSE
    OBVIOUS
  <2>3. /\ Verify(k[2], req[s].at) /\ req[s].at \in Nat /\ req[s].consumedAt \in Nat
        /\ req[s].at <= req[s].consumedAt
    BY <2>2 DEF Accepted, WellTimed, TypeOK, Request
  <2>4. req[r].at < req[s].at + Validity
    BY <1>1, <1>2, <2>3, ValidMoments
  <2>5. Validity + Stall <= Retention /\ Stall \in Nat
    BY ReplayAssumption
  <2>6. clock < req[s].consumedAt + Retention
    BY <1>1, <1>2, <2>3, <2>4, <2>5, RetentionPositive
  <2>7. usedCodes[k] = req[s].consumedAt + Retention
    BY <2>2, <2>6 DEF Remembered
  <2>8. QED
    BY <1>1, <2>1, <2>3, <2>6, <2>7, RetentionPositive
<1>10. CodeAcceptedOnce'
  BY <1>5, <1>7, <1>9 DEF CodeAcceptedOnce, Accepted
<1>11. Remembered'
  <2>1. SUFFICES ASSUME NEW s \in Accepted', req'[s].page # "my_2fa",
                        clock < req'[s].consumedAt + Retention
                 PROVE  usedCodes'[req'[s].key] = req'[s].consumedAt + Retention
    BY <1>5 DEF Remembered
  <2>2. CASE s = r
    BY <1>1, <1>5, <1>8, <2>1, <2>2 DEF Commit
  <2>3. CASE s # r
    <3>1. /\ s \in Accepted /\ req'[s] = req[s] /\ req[s].key \in Keys
          /\ req[s].consumedAt \in Nat
      BY <1>5, <1>7, <2>3 DEF Accepted, TypeOK, Request
    <3>2. usedCodes[req[s].key] = req[s].consumedAt + Retention
      BY <2>1, <3>1 DEF Remembered
    <3>3. req[s].key \notin Changed(r)
      <4>1. SUFFICES ASSUME req[s].key \in Changed(r)
                     PROVE  FALSE
        OBVIOUS
      <4>2. req[r].view[req[s].key] = req[s].consumedAt + Retention
        BY <3>2, <4>1 DEF Commit
      <4>3. req[r].page # "my_2fa" /\ req[s].key # k
        BY <1>9, <2>1, <3>1, <4>1 DEF Changed, Written
      <4>4. Written(r)[req[s].key] = req[r].view[req[s].key]
        BY <1>1, <1>2, <2>1, <3>1, <4>2, <4>3, RetentionPositive
        DEF Written, Consumed, Purged
      <4>5. QED
        BY <4>1, <4>4 DEF Changed
    <3>4. QED
      BY <3>1, <3>2, <3>3 DEF Commit
  <2>4. QED
    BY <2>2, <2>3
<1>12. QED
  BY <1>4, <1>6, <1>10, <1>11

LEMMA NextReplay == ReplayInv /\ [Next]_vars => ReplayInv'
<1>1. ASSUME ReplayInv, UNCHANGED vars
      PROVE  ReplayInv'
  BY <1>1 DEF vars, ReplayInv, TypeOK, WellTimed, SawNoEntry, Remembered, CodeAcceptedOnce, Accepted
<1>2. QED
  BY <1>1, TickReplay, LocalReplay, CommitReplay DEF Next, Step

\* Every reachable state has the declared types, for every number of requests.
THEOREM TypeSafety == Spec => []TypeOK
<1>1. ReplayInv => TypeOK
  BY DEF ReplayInv
<1>2. QED
  BY <1>1, InitReplay, NextReplay, PTL DEF Spec

\* The login form and the enrollment page accept each code of a login at most
\* once, for every number of requests (sessions.py _consume_otp).
THEOREM ReplayRejected == Spec => []CodeAcceptedOnce
<1>1. ReplayInv => CodeAcceptedOnce
  BY DEF ReplayInv
<1>2. QED
  BY <1>1, InitReplay, NextReplay, PTL DEF Spec
=============================================================================
