----------------------------- MODULE AttemptLimits -----------------------------
(***************************************************************************)
(* The two attempt limiters: _AttemptLimiter (provisioning.py), a table in *)
(* the memory of a process behind a lock, and _allow_attempt (sessions.py),*)
(* a BTree in ZODB.  Both count attempts by key in windows that begin with *)
(* the first attempt; they differ in where a request reads the table, when *)
(* its change appears, and in how expired entries are found.               *)
(***************************************************************************)
EXTENDS Integers, Sequences, FiniteSets

CONSTANTS
    Keys,      \* caller addresses, or logins
    Requests,  \* publisher threads
    Limit,     \* attempts per window: 30 and 10 in the code
    Capacity,  \* entries of the table: 10000 in the code
    Window,    \* length of a window: 300 s in the code
    Stall,     \* assumed: the longest a request takes from reading the time
               \* to having its attempt counted
    MaxTime,   \* bound: the clock of one behaviour
    MaxAttempts, \* bound: the attempts made in one behaviour
    None       \* no entry, no key, no refusal

ASSUME LimitsAssumption ==
    /\ IsFiniteSet(Keys) /\ IsFiniteSet(Requests) /\ Requests # {}
    /\ Limit \in Nat \ {0} /\ Capacity \in Nat
    /\ Window \in Nat \ {0} /\ Stall \in Nat /\ MaxTime \in Nat /\ MaxAttempts \in Nat
    /\ None \notin Keys

VARIABLES
    clock,
    place,    \* where this limiter keeps its table
    entries,  \* entry of each key, or None
    req,      \* local state of each thread
    attempts, \* bound: attempts made so far
    taken     \* history: when attempts of each key were allowed

vars == <<clock, place, entries, req, attempts, taken>>

Maybe(S) == S \cup {None}

\* ahead: the keys that the OrderedDict yields before this one.
Entry == [until: Nat, count: 1..Limit, ahead: SUBSET Keys]
Table == [Keys -> Maybe(Entry)]
NoEntries == [k \in Keys |-> None]

Refusals == {"count", "full"}

Request == [pc: {"idle", "timed"}, key: Maybe(Keys), now: 0..MaxTime, view: Table,
            refusal: Maybe(Refusals)]

Idle == [pc |-> "idle", key |-> None, now |-> 0, view |-> NoEntries, refusal |-> None]

\* None is told apart from the values it stands in for.
ASSUME NoneAssumption ==
    None \notin Entry /\ None \notin Refusals /\ None \notin [until: Nat, count: 1..Limit]

TypeOK ==
    /\ clock \in 0..MaxTime
    /\ place \in {"process", "zodb"}
    /\ entries \in Table
    /\ req \in [Requests -> Request]
    /\ attempts \in 0..MaxAttempts
    /\ taken \in [Keys -> Seq(0..MaxTime)]

Init ==
    /\ clock = 0
    /\ place \in {"process", "zodb"}
    /\ entries = NoEntries
    /\ req = [r \in Requests |-> Idle]
    /\ attempts = 0
    /\ taken = [k \in Keys |-> <<>>]

-----------------------------------------------------------------------------
(* The counting, on the table or on a request's view of it.                *)

Live(table) == {k \in Keys : table[k] # None}

Expired(table, now) == {k \in Live(table) : table[k].until <= now}

\* _AttemptLimiter stops at the first entry that is still good; _allow_attempt
\* goes through all of them.
Purgeable(table, now) ==
    IF place = "zodb" THEN Expired(table, now)
    ELSE {k \in Expired(table, now) : table[k].ahead \subseteq Expired(table, now)}

\* Mutant: expired entries are left where they are.
PurgedNone(table, now) == table

Purged(table, now) ==
    LET gone == Purgeable(table, now)
    IN  [k \in Keys |-> IF k \in gone \/ table[k] = None THEN None
                        ELSE [table[k] EXCEPT !.ahead = @ \ gone]]

\* Mutant: the table may hold one entry more.
VerdictOverfull(table, k) ==
    IF table[k] # None /\ table[k].count >= Limit THEN "count"
    ELSE IF table[k] = None /\ Cardinality(Live(table)) > Capacity THEN "full"
    ELSE "allowed"

\* Mutant: one attempt more than the limit.
VerdictOneMore(table, k) ==
    IF table[k] # None /\ table[k].count > Limit THEN "count"
    ELSE IF table[k] = None /\ Cardinality(Live(table)) >= Capacity THEN "full"
    ELSE "allowed"

Verdict(table, k) ==
    IF table[k] # None /\ table[k].count >= Limit THEN "count"
    ELSE IF table[k] = None /\ Cardinality(Live(table)) >= Capacity THEN "full"
    ELSE "allowed"

\* A BTree has no order of insertion.
Front(table) == IF place = "zodb" THEN {} ELSE Live(table)

\* Mutant: every attempt starts the window again.
CountedRenewed(table, k, now) ==
    [table EXCEPT ![k] = [until |-> now + Window,
                          count |-> IF table[k] = None THEN 1 ELSE table[k].count + 1,
                          ahead |-> IF table[k] = None THEN Front(table) ELSE table[k].ahead]]

\* Mutant: the attempt that opens a window is not counted.
CountedFromZero(table, k, now) ==
    IF table[k] = None
    THEN [table EXCEPT ![k] = [until |-> now + Window, count |-> 0, ahead |-> Front(table)]]
    ELSE [table EXCEPT ![k].count = @ + 1]

Counted(table, k, now) ==
    IF table[k] = None
    THEN [table EXCEPT ![k] = [until |-> now + Window, count |-> 1, ahead |-> Front(table)]]
    ELSE [table EXCEPT ![k].count = @ + 1]

-----------------------------------------------------------------------------
Tick ==
    /\ clock < MaxTime
    /\ clock' = clock + 1
    /\ UNCHANGED <<place, entries, req, attempts, taken>>

\* The time is read, before the lock is asked for; a ZODB request has its view.
\* A view that was taken earlier would only lose its commit.
Arrive(r) ==
    /\ req[r].pc = "idle"
    /\ attempts < MaxAttempts
    /\ attempts' = attempts + 1
    /\ \E k \in Keys :
        req' = [req EXCEPT ![r] = [Idle EXCEPT !.pc = "timed", !.key = k, !.now = clock,
                      !.view = IF place = "zodb" THEN entries ELSE NoEntries]]
    /\ UNCHANGED <<clock, place, entries, taken>>

End(r, refusal) == req' = [req EXCEPT ![r] = [Idle EXCEPT !.refusal = refusal]]

\* The table the request counts on, and what it makes of it.
Base(r) == IF place = "zodb" THEN req[r].view ELSE entries

Before(r) == Purged(Base(r), req[r].now)

After(r) == Counted(Before(r), req[r].key, req[r].now)

InTime(r) == clock <= req[r].now + Stall

Allow(r) ==
    /\ taken' = [taken EXCEPT ![req[r].key] = Append(@, clock)]
    /\ End(r, None)
    /\ UNCHANGED <<clock, place, attempts>>

\* check, under the lock.
Check(r) ==
    /\ req[r].pc = "timed" /\ place = "process"
    /\ InTime(r)
    /\ Verdict(Before(r), req[r].key) = "allowed"
    /\ entries' = After(r)
    /\ Allow(r)

Changed(r) == {k \in Keys : After(r)[k] # req[r].view[k]}

\* The commit of a ZODB request, merged key by key; it conflicts if a key it
\* has changed is not as it saw it.
Commit(r) ==
    /\ req[r].pc = "timed" /\ place = "zodb"
    /\ InTime(r)
    /\ Verdict(Before(r), req[r].key) = "allowed"
    /\ \A k \in Changed(r) : entries[k] = req[r].view[k]
    /\ entries' = [k \in Keys |-> IF k \in Changed(r) THEN After(r)[k] ELSE entries[k]]
    /\ Allow(r)

\* What a refused request has purged, the next one purges for itself in ZODB;
\* in the process the table stays purged.
Refuse(r) ==
    /\ req[r].pc = "timed"
    /\ InTime(r)
    /\ Verdict(Before(r), req[r].key) # "allowed"
    /\ entries' = IF place = "zodb" THEN entries ELSE Before(r)
    /\ End(r, Verdict(Before(r), req[r].key))
    /\ UNCHANGED <<clock, place, attempts, taken>>

\* A ZODB request that fails takes its count with it; its client gets an error.
Abort(r) ==
    /\ req[r].pc = "timed" /\ place = "zodb"
    /\ End(r, None)
    /\ UNCHANGED <<clock, place, entries, attempts, taken>>

Next == Tick \/ \E r \in Requests : Arrive(r) \/ Check(r) \/ Commit(r) \/ Refuse(r) \/ Abort(r)

Spec == Init /\ [][Next]_vars

-----------------------------------------------------------------------------
(* Properties.                                                             *)

\* Whatever order requests read and change the table in, and whichever keys the
\* queue or the merge lets them purge: each allowed attempt is counted in the
\* one window of its key, none is counted twice or lost, and no window moves or
\* ends early (provisioning.py _AttemptLimiter.check; sessions.py
\* _allow_attempt).
Windows == INSTANCE FixedWindows WITH
    window <- [k \in Keys |-> IF entries[k] = None THEN None
                              ELSE [until |-> entries[k].until, count |-> entries[k].count]],
    allowed <- [k \in Keys |-> Len(taken[k])]

WindowsSpec == Windows!Spec

\* The capacity bounds the table of a process; the one in ZODB, whose size each
\* request takes from its own view, exceeds it by no more than the other
\* requests that were allowed a new key at the same time (provisioning.py
\* _AttemptLimiter.check; sessions.py _allow_attempt).
TableBound ==
    Cardinality(Live(entries)) <=
        IF place = "zodb" THEN Capacity + Cardinality(Requests) - 1 ELSE Capacity

\* A window begins with an attempt and not with the clock, and ends early for
\* a request that stalled: fewer than twice the limit of attempts are allowed
\* in any stretch of time shorter than Window - Stall, however requests of one
\* key overlap (provisioning.py _AttemptLimiter.check; sessions.py
\* _allow_attempt).
BurstBound ==
    \A k \in Keys : \A i \in 1..(Len(taken[k]) - (2 * Limit - 1)) :
        taken[k][i + (2 * Limit - 1)] - taken[k][i] >= Window - Stall

Recent(t) == t > clock - (Window + Stall)

\* A key is refused for its count only if its attempts have reached the limit
\* since a moment within the last Window + Stall, although an entry may have to
\* wait for those inserted before it to expire.
CountReached(k) ==
    \E i \in 1..Len(taken[k]) : Recent(taken[k][i]) /\ Len(taken[k]) - i + 1 >= Limit

\* A new key is refused only if Capacity others have been allowed an attempt
\* within the same time.
TableBusy == Cardinality({k \in Keys : \E i \in 1..Len(taken[k]) : Recent(taken[k][i])}) >= Capacity

\* Nobody is locked out for longer than that (provisioning.py
\* _AttemptLimiter.check; sessions.py _allow_attempt).
RefusalJustified ==
    [][\A r \in Requests :
        /\ req[r].refusal # "count" /\ req'[r].refusal = "count" => CountReached(req[r].key)
        /\ req[r].refusal # "full" /\ req'[r].refusal = "full" => TableBusy]_vars
=============================================================================
