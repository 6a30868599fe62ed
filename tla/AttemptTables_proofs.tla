------------------------- MODULE AttemptTables_proofs -------------------------
(***************************************************************************)
(* The attempt limiters implement fixed windows, and their tables stay     *)
(* within the capacity but for requests that overlap in ZODB; for every    *)
(* number of keys and threads.  The second part counts, beside the entries *)
(* of the table, the requests that may still add one (Adding): a request   *)
(* becomes one of them only when the table it has read is below its        *)
(* capacity, and ceases to be one when it adds its entry.                  *)
(***************************************************************************)
EXTENDS AttemptLimits_proofs

-----------------------------------------------------------------------------
(* Fixed windows.                                                          *)

View(e) == IF e = None THEN None ELSE [until |-> e.until, count |-> e.count]
WindowOf == [k \in Keys |-> IF entries[k] = None THEN None
                            ELSE [until |-> entries[k].until, count |-> entries[k].count]]
AllowedOf == [k \in Keys |-> Len(taken[k])]

LEMMA WindowsAt ==
    ASSUME NEW k \in Keys
    PROVE  /\ WindowOf[k] = View(entries[k]) /\ WindowOf'[k] = View(entries'[k])
           /\ AllowedOf[k] = Len(taken[k]) /\ AllowedOf'[k] = Len(taken'[k])
BY DEF WindowOf, AllowedOf, View

LEMMA ViewOf ==
    ASSUME NEW e \in Maybe(Entry)
    PROVE  /\ View(e) = None <=> e = None
           /\ e # None => /\ e \in Entry /\ e.until \in Nat /\ e.count \in 1..Limit
                          /\ View(e) = [until |-> e.until, count |-> e.count]
<1>1. None \notin Entry
  BY NoneAssumption
<1>2. ASSUME e \in Entry
      PROVE  View(e) # None
  <2>1. [until |-> e.until, count |-> e.count] \in [until: Nat, count: 1..Limit]
    BY <1>2 DEF Entry
  <2>2. QED
    BY <1>1, <1>2, <2>1, NoneAssumption DEF View
<1>3. QED
  BY <1>1, <1>2 DEF View, Maybe, Entry

\* The entries that are gone, and the one that is replaced, had expired.
LEMMA GoneExpired ==
    ASSUME LimitsInv, NEW gone \in SUBSET Keys,
           \A k \in gone : entries[k] # None /\ entries[k].until <= clock
    PROVE  gone \in SUBSET Windows!Expired
<1>1. ASSUME NEW k \in gone
      PROVE  WindowOf[k] # None /\ WindowOf[k].until <= clock
  <2>1. entries[k] \in Maybe(Entry)
    BY DEF LimitsInv, TypeOK, Table
  <2>2. QED
    BY <2>1, ViewOf, WindowsAt
<1>2. QED
  BY <1>1 DEF Windows!Expired, WindowOf
\* An allowed attempt is an attempt of the specification: what is gone from the
\* table is closed, and the attempt is counted in an open window or opens one.
LEMMA AllowedWindows ==
    ASSUME LimitsInv, NEW r \in Requests, req[r].pc = "timed", InTime(r), Allow(r),
           entries' \in Table, \A k \in Keys : AllowedStep(r, k),
           NEW k0 \in Keys, k0 = req[r].key
    PROVE  Windows!Attempt(k0)
<1> DEFINE now == req[r].now
<1>1. /\ k0 \in Keys /\ now \in Nat /\ clock \in Nat /\ now <= clock /\ clock <= now + Stall
      /\ Stall \in Nat /\ entries \in Table /\ taken' = [taken EXCEPT ![k0] = Append(@, clock)]
      /\ taken \in [Keys -> Seq(0..MaxTime)] /\ clock' = clock /\ None \notin Entry
  BY Times, Constants, NoneAssumption DEF LimitsInv, ViewOK, InTime, Allow, TypeOK
<1>2. \A k \in Keys : entries[k] \in Maybe(Entry) /\ entries'[k] \in Maybe(Entry)
  BY <1>1 DEF Table
<1>3. PICK gone \in SUBSET Keys : \A k \in Keys : k \in gone <=>
          /\ entries[k] # None
          /\ IF k = k0 THEN ~ Grows(entries[k], entries'[k]) ELSE entries'[k] = None
  <2> DEFINE G == {k \in Keys : entries[k] # None /\
                     IF k = k0 THEN ~ Grows(entries[k], entries'[k]) ELSE entries'[k] = None}
  <2>1. G \in SUBSET Keys
    OBVIOUS
  <2>2. QED
    BY <2>1
<1>4. gone \in SUBSET Windows!Expired
  <2>1. ASSUME NEW k \in gone
        PROVE  entries[k] # None /\ entries[k].until <= clock
    <3>1. entries[k] \in Entry /\ entries[k].until \in Nat /\ entries[k] # None
      BY <1>2, <1>3 DEF Maybe, Entry
    <3>2. CASE k = k0
      BY <1>1, <1>3, <3>1, <3>2 DEF AllowedStep, Opens
    <3>3. CASE k # k0
      BY <1>1, <1>3, <3>1, <3>3 DEF AllowedStep, Keeps, Drops
    <3>4. QED
      BY <3>2, <3>3
  <2>2. QED
    BY <2>1, GoneExpired
<1>5. /\ \A k \in Keys : Windows!Closed(gone)[k] = IF k \in gone THEN None ELSE View(entries[k])
      /\ Windows!Closed(gone) = [k \in Keys |-> Windows!Closed(gone)[k]]
  BY DEF Windows!Closed, View
<1>6. ASSUME NEW k \in Keys, k # k0
      PROVE  WindowOf'[k] = Windows!Closed(gone)[k]
  <2>1. Keeps(entries[k], entries'[k]) \/ Drops(entries[k], entries'[k], clock)
    BY <1>6 DEF AllowedStep
  <2>2. View(entries'[k]) = IF k \in gone THEN None ELSE View(entries[k])
    BY <1>1, <1>3, <1>6, <2>1 DEF Keeps, Drops, View
  <2>3. QED
    BY <1>5, <2>2, WindowsAt
<1>7. Windows!Open(k0, gone) \/ Windows!Count(k0, gone)
  <2>1. CASE Grows(entries[k0], entries'[k0])
    <3>1. /\ entries[k0] \in Entry /\ entries'[k0] \in Entry /\ k0 \notin gone
          /\ entries[k0] # None /\ entries'[k0] # None
      BY <1>1, <1>3, <2>1 DEF Grows
    <3>2. /\ Windows!Closed(gone)[k0] = [until |-> entries[k0].until, count |-> entries[k0].count]
          /\ WindowOf'[k0] = [until |-> entries[k0].until, count |-> entries[k0].count + 1]
      BY <1>1, <1>5, <2>1, <3>1, WindowsAt DEF View, Grows
    <3>3. Windows!Closed(gone)[k0] # None
      BY <1>1, <1>2, <1>5, <3>1, ViewOf
    <3>4. entries[k0].count < Limit
      BY <2>1, Constants DEF Grows, Entry
    <3>5. WindowOf' = [Windows!Closed(gone) EXCEPT ![k0].count = @ + 1]
      <4>1. [Windows!Closed(gone)[k0] EXCEPT !.count = @ + 1] = WindowOf'[k0]
        BY <3>2
      <4>2. WindowOf' = [k \in Keys |-> WindowOf'[k]]
        BY DEF WindowOf
      <4>3. QED
        BY <1>1, <1>5, <1>6, <4>1, <4>2
    <3>6. QED
      BY <3>2, <3>3, <3>4, <3>5 DEF Windows!Count, WindowOf
  <2>2. CASE ~ Grows(entries[k0], entries'[k0])
    <3>1. Opens(entries[k0], entries'[k0], now)
      BY <1>1, <2>2 DEF AllowedStep
    <3>2. Windows!Closed(gone)[k0] = None
      BY <1>1, <1>3, <1>5, <2>2 DEF View
    <3>3. WindowOf'[k0] = [until |-> now + Window, count |-> 1]
      BY <1>1, <3>1, WindowsAt DEF View, Opens
    <3>4. WindowOf' = [Windows!Closed(gone) EXCEPT ![k0] = [until |-> now + Window, count |-> 1]]
      BY <1>1, <1>5, <1>6, <3>3 DEF WindowOf
    <3>5. now \in (clock - Stall)..clock
      BY <1>1
    <3>6. QED
      BY <3>2, <3>4, <3>5 DEF Windows!Open, WindowOf
  <2>3. QED
    BY <2>1, <2>2
<1>8. AllowedOf' = [AllowedOf EXCEPT ![k0] = @ + 1]
  <2>1. /\ Len(taken'[k0]) = Len(taken[k0]) + 1
        /\ \A k \in Keys : k # k0 => taken'[k] = taken[k]
    BY <1>1
  <2>2. QED
    BY <1>1, <2>1 DEF AllowedOf
<1>9. QED
  BY <1>1, <1>4, <1>7, <1>8 DEF Windows!Attempt, AllowedOf

\* What a refused request of the process purges had expired.
LEMMA RefusedWindows ==
    ASSUME LimitsInv, NEW r \in Requests, Refuse(r)
    PROVE  Windows!Purge \/ UNCHANGED Windows!windows
<1>1. /\ TypeOK /\ ViewOK(r) /\ req[r].pc = "timed" /\ UNCHANGED <<clock, taken>>
      /\ entries \in Table
  BY Times DEF LimitsInv, Refuse
<1>2. CASE place = "zodb"
  BY <1>1, <1>2 DEF Refuse, Windows!windows
<1>3. CASE place # "zodb"
  <2>1. entries' = Purged(entries, req[r].now)
    BY <1>3 DEF Refuse, Before, Base
  <2> DEFINE gone == {k \in Keys : entries[k] # None /\ entries'[k] = None}
  <2>2. ASSUME NEW k \in Keys
        PROVE  /\ k \in gone => entries[k] # None /\ entries[k].until <= clock
               /\ View(entries'[k]) = IF k \in gone THEN None ELSE View(entries[k])
    <3>1. Keeps(entries[k], entries'[k]) \/ Drops(entries[k], entries'[k], clock)
      BY <1>1, <2>1, PurgeStep
    <3>2. QED
      BY <3>1, NoneAssumption DEF Keeps, Drops, View
  <2>3. gone \in SUBSET Windows!Expired
    BY <2>2, GoneExpired
  <2>4. WindowOf' = Windows!Closed(gone)
    BY <2>2, WindowsAt DEF WindowOf, View, Windows!Closed
  <2>5. QED
    BY <1>1, <2>3, <2>4 DEF Windows!Purge, WindowOf
<1>4. QED
  BY <1>2, <1>3

LEMMA WindowsNext == LimitsInv /\ [Next]_vars => [Windows!Next]_(Windows!windows)
<1> SUFFICES ASSUME LimitsInv, [Next]_vars
             PROVE  Windows!Next \/ UNCHANGED Windows!windows
  OBVIOUS
<1>1. CASE UNCHANGED <<clock, entries, taken>>
  BY <1>1 DEF Windows!windows
<1>2. CASE Tick
  BY <1>2 DEF Tick, Windows!Next, Windows!Advance
<1>3. ASSUME NEW r \in Requests, Check(r) \/ Commit(r)
      PROVE  Windows!Next
  <2>1. TypeOK /\ ViewOK(r) /\ req[r].pc = "timed" /\ InTime(r) /\ Allow(r)
    BY <1>3 DEF LimitsInv, Check, Commit
  <2>2. entries' \in Table /\ \A k \in Keys : AllowedStep(r, k)
    BY <1>3, <2>1, CheckStep, CommitStep
  <2>3. PICK k \in Keys : k = req[r].key
    BY <2>1 DEF ViewOK
  <2>4. Windows!Attempt(k)
    BY <2>1, <2>2, <2>3, AllowedWindows
  <2>5. QED
    BY <2>4 DEF Windows!Next
<1>4. ASSUME NEW r \in Requests, Refuse(r)
      PROVE  Windows!Next \/ UNCHANGED Windows!windows
  BY <1>4, RefusedWindows DEF Windows!Next
<1>5. ASSUME NEW r \in Requests, Arrive(r) \/ Abort(r)
      PROVE  UNCHANGED <<clock, entries, taken>>
  BY <1>5 DEF Arrive, Abort
<1>6. QED
  BY <1>1, <1>2, <1>3, <1>4, <1>5 DEF Next, vars

\* Each allowed attempt is counted in the one window of its key, and no window
\* moves, or ends early, in either limiter and however requests overlap
\* (provisioning.py _AttemptLimiter.check; sessions.py _allow_attempt).
THEOREM ImplementsWindows == Spec => WindowsSpec
<1>1. Init => Windows!Init
  BY DEF Init, Windows!Init, NoEntries
<1>2. QED
  BY <1>1, WindowsNext, InvariantHolds, PTL DEF Spec, WindowsSpec, Windows!Spec
-----------------------------------------------------------------------------
(* The size of the table.                                                  *)

\* Requests in ZODB whose commit may add an entry without removing another.
Adding ==
    {r \in Requests :
        /\ req[r].pc = "timed"
        /\ req[r].view[req[r].key] = None
        /\ Expired(req[r].view, req[r].now) = {}
        /\ Cardinality(Live(req[r].view)) < Capacity}

TableInv ==
    IF place = "zodb"
    THEN Cardinality(Live(entries)) + Cardinality(Adding) <= Capacity + Cardinality(Requests) - 1
    ELSE Cardinality(Live(entries)) <= Capacity

LEMMA SizeOf ==
    ASSUME NEW table
    PROVE  IsFiniteSet(Live(table)) /\ Cardinality(Live(table)) \in Nat
BY LimitsAssumption, FS_Subset, FS_CardinalityType DEF Live

LEMMA SmallerTable ==
    ASSUME NEW table, NEW new, Live(new) \subseteq Live(table)
    PROVE  Cardinality(Live(new)) <= Cardinality(Live(table))
BY SizeOf, FS_Subset

LEMMA OneMore ==
    ASSUME NEW table, NEW new, NEW k, Live(new) \subseteq Live(table) \cup {k}
    PROVE  Cardinality(Live(new)) <= Cardinality(Live(table)) + 1
<1> DEFINE S == Live(table) \cup {k}
<1>1. IsFiniteSet(S) /\ Cardinality(S) <= Cardinality(Live(table)) + 1
  BY SizeOf, FS_AddElement
<1>2. Cardinality(Live(new)) <= Cardinality(S)
  BY <1>1, FS_Subset
<1>3. Cardinality(S) \in Nat
  BY <1>1, FS_CardinalityType
<1>4. QED
  BY <1>1, <1>2, <1>3, SizeOf

\* One in, one out.
LEMMA Replaced ==
    ASSUME NEW table, NEW new, NEW k, NEW j \in Live(table),
           Live(new) \subseteq (Live(table) \ {j}) \cup {k}
    PROVE  Cardinality(Live(new)) <= Cardinality(Live(table))
<1> DEFINE S == Live(table) \ {j}
           T == S \cup {k}
<1>1. /\ IsFiniteSet(S) /\ Cardinality(S) = Cardinality(Live(table)) - 1
      /\ Cardinality(S) \in Nat
  BY SizeOf, FS_RemoveElement, FS_CardinalityType
<1>2. IsFiniteSet(T) /\ Cardinality(T) <= Cardinality(S) + 1
  BY <1>1, FS_AddElement
<1>3. Cardinality(Live(new)) <= Cardinality(T)
  BY <1>2, FS_Subset
<1>4. Cardinality(T) \in Nat
  BY <1>2, FS_CardinalityType
<1>5. QED
  BY <1>1, <1>2, <1>3, <1>4, SizeOf

LEMMA AddingSize ==
    /\ IsFiniteSet(Adding) /\ Cardinality(Adding) \in Nat
    /\ Cardinality(Requests) \in Nat /\ Cardinality(Requests) >= 1
    /\ Cardinality(Adding) <= Cardinality(Requests)
<1>1. IsFiniteSet(Requests) /\ Requests # {}
  BY LimitsAssumption
<1>2. Cardinality(Requests) \in Nat /\ Cardinality(Requests) # 0
  BY <1>1, FS_CardinalityType, FS_EmptySet
<1>3. IsFiniteSet(Adding) /\ Cardinality(Adding) <= Cardinality(Requests)
  BY <1>1, FS_Subset DEF Adding
<1>4. QED
  BY <1>2, <1>3, FS_CardinalityType

LEMMA AddingSizeNext ==
    /\ IsFiniteSet(Adding') /\ Cardinality(Adding') \in Nat
    /\ Cardinality(Adding') <= Cardinality(Requests)
<1>1. IsFiniteSet(Requests) /\ Adding' \subseteq Requests
  BY LimitsAssumption DEF Adding
<1>2. QED
  BY <1>1, FS_Subset, FS_CardinalityType

\* A table that has lost its expired entries.
LEMMA PurgedLive ==
    ASSUME NEW table \in Table, NEW now \in Nat
    PROVE  /\ Live(Purged(table, now)) = Live(table) \ Purgeable(table, now)
           /\ Purgeable(table, now) \subseteq Expired(table, now)
<1>1. \A k \in Keys : Purged(table, now)[k] # None <=>
          table[k] # None /\ k \notin Purgeable(table, now)
  BY PurgedEntry, NoneAssumption DEF Keeps
<1>2. QED
  BY <1>1 DEF Live, Purgeable

\* A step that adds no entry, and leaves no more requests that may add one.
LEMMA NoMore ==
    ASSUME TableInv, place' = place, Live(entries') \subseteq Live(entries),
           Adding' \subseteq Adding
    PROVE  TableInv'
<1>1. Cardinality(Live(entries')) <= Cardinality(Live(entries))
  BY SmallerTable
<1>2. Cardinality(Adding') <= Cardinality(Adding)
  BY AddingSize, FS_Subset
<1>3. Cardinality(Live(entries')) \in Nat /\ Cardinality(Live(entries)) \in Nat
  BY SizeOf
<1>4. QED
  BY <1>1, <1>2, <1>3, AddingSize, AddingSizeNext, Constants DEF TableInv

\* A request that ends cannot add an entry any more.
LEMMA EndedAdding ==
    ASSUME TypeOK, NEW r \in Requests, NEW refusal, End(r, refusal)
    PROVE  Adding' = Adding \ {r}
<1>1. req'[r].pc = "idle" /\ \A q \in Requests \ {r} : req'[q] = req[q]
  BY DEF End, Idle, TypeOK
<1>2. QED
  BY <1>1 DEF Adding
LEMMA ArriveTable ==
    ASSUME LimitsInv, TableInv, NEW r \in Requests, Arrive(r)
    PROVE  TableInv'
<1>1. /\ UNCHANGED <<place, entries>> /\ \A q \in Requests \ {r} : req'[q] = req[q]
      /\ place = "zodb" => req'[r].view = entries
  BY DEF Arrive, LimitsInv, TypeOK, Idle
<1>2. CASE r \in Adding' /\ place = "zodb"
  <2>1. Cardinality(Live(entries)) < Capacity
    BY <1>1, <1>2 DEF Adding
  <2>2. QED
    BY <1>1, <1>2, <2>1, AddingSize, AddingSizeNext, SizeOf, Constants DEF TableInv
<1>3. CASE r \notin Adding'
  <2>1. Adding' \subseteq Adding
    BY <1>1, <1>3 DEF Adding
  <2>2. QED
    BY <1>1, <2>1, NoMore
<1>4. CASE place # "zodb"
  BY <1>1, <1>4 DEF TableInv
<1>5. QED
  BY <1>2, <1>3, <1>4

LEMMA CheckTable ==
    ASSUME LimitsInv, TableInv, NEW r \in Requests, Check(r)
    PROVE  TableInv'
<1> DEFINE table == Purged(entries, req[r].now)
           k0 == req[r].key
<1>1. /\ place # "zodb" /\ place' = place /\ k0 \in Keys /\ req[r].now \in Nat
      /\ entries \in Table /\ table \in Table
      /\ Verdict(table, k0) = "allowed" /\ entries' = Counted(table, k0, req[r].now)
  BY Times, PurgedType DEF LimitsInv, ViewOK, Check, Allow, Before, After, Base
<1>2. /\ Live(table) \subseteq Live(entries)
      /\ Cardinality(Live(entries)) <= Capacity
      /\ Cardinality(Live(table)) \in Nat /\ Cardinality(Live(entries)) \in Nat
      /\ Cardinality(Live(entries')) \in Nat /\ Capacity \in Nat
  BY <1>1, PurgedLive, SizeOf, Constants DEF TableInv
<1>3. \A k \in Keys \ {k0} : entries'[k] = table[k]
  BY <1>1, CountedEntry
<1>4. CASE table[k0] # None
  <2>1. Live(entries') \subseteq Live(entries)
    BY <1>2, <1>3, <1>4 DEF Live
  <2>2. QED
    BY <1>1, <1>2, <2>1, SmallerTable DEF TableInv
<1>5. CASE table[k0] = None
  <2>1. Cardinality(Live(table)) < Capacity
    BY <1>1, <1>2, <1>5 DEF Verdict
  <2>2. Live(entries') \subseteq Live(table) \cup {k0}
    BY <1>3 DEF Live
  <2>3. Cardinality(Live(entries')) <= Cardinality(Live(table)) + 1
    BY <2>2, OneMore
  <2>4. QED
    BY <1>1, <1>2, <2>1, <2>3 DEF TableInv
<1>6. QED
  BY <1>4, <1>5

\* A commit that is not counted as adding finds its key in the table, or
\* removes an expired entry, which it must have seen as it is.
LEMMA CommitReplaces ==
    ASSUME LimitsInv, NEW r \in Requests, Commit(r), r \notin Adding
    PROVE  Cardinality(Live(entries')) <= Cardinality(Live(entries))
<1> DEFINE view == req[r].view
           now == req[r].now
           table == Purged(view, now)
           k0 == req[r].key
<1>1. /\ TypeOK /\ ViewOK(r) /\ req[r].pc = "timed" /\ place = "zodb" /\ k0 \in Keys
      /\ now \in Nat /\ entries \in Table /\ view \in Table /\ table \in Table
      /\ Verdict(table, k0) = "allowed" /\ After(r) = Counted(table, k0, now)
      /\ \A k \in Changed(r) : entries[k] = view[k]
      /\ entries' = [k \in Keys |-> IF k \in Changed(r) THEN After(r)[k] ELSE entries[k]]
  BY Times, PurgedType DEF LimitsInv, ViewOK, Commit, Before, After, Base
<1>2. Live(entries') \subseteq Live(entries) \cup {k0}
  <2>1. \A k \in Keys : AllowedStep(r, k)
    BY <1>1, CommitStep
  <2>2. QED
    BY <2>1, NoneAssumption DEF AllowedStep, Keeps, Drops, Live
<1>3. CASE Live(entries') \subseteq Live(entries)
  BY <1>3, SmallerTable
<1>4. CASE k0 \in Live(entries') /\ k0 \notin Live(entries)
  <2>1. entries[k0] = None /\ entries'[k0] # None
    BY <1>1, <1>4 DEF Live
  <2>2. view[k0] = None
    BY <1>1, <2>1
  <2>3. table[k0] = None
    BY <1>1, <2>2 DEF Purged
  <2>4. Cardinality(Live(table)) < Capacity
    BY <1>1, <2>3, SizeOf, Constants DEF Verdict
  <2>5. Expired(view, now) # {}
    <3>1. CASE Expired(view, now) = {}
      <4>1. Live(table) = Live(view)
        BY <1>1, <3>1, PurgedLive
      <4>2. QED
        BY <1>1, <2>2, <2>4, <3>1, <4>1 DEF Adding
    <3>2. QED
      BY <3>1
  <2>6. PICK j \in Expired(view, now) : TRUE
    BY <2>5
  <2>7. j \in Keys /\ j # k0 /\ view[j] # None /\ j \in Purgeable(view, now)
    BY <1>1, <2>2, <2>6 DEF Expired, Live, Purgeable
  <2>8. After(r)[j] = None
    BY <1>1, <2>7, CountedEntry, PurgedEntry
  <2>9. entries'[j] = None /\ j \in Live(entries)
    BY <1>1, <2>7, <2>8 DEF Changed, Live
  <2>10. Live(entries') \subseteq (Live(entries) \ {j}) \cup {k0}
    BY <1>2, <2>9 DEF Live
  <2>11. QED
    BY <2>9, <2>10, Replaced
<1>5. QED
  BY <1>2, <1>3, <1>4

LEMMA CommitTable ==
    ASSUME LimitsInv, TableInv, NEW r \in Requests, Commit(r)
    PROVE  TableInv'
<1>1. TypeOK /\ ViewOK(r) /\ place = "zodb" /\ place' = place /\ End(r, None)
  BY DEF LimitsInv, Commit, Allow
<1>2. Adding' = Adding \ {r}
  BY <1>1, EndedAdding
<1>3. /\ Cardinality(Live(entries)) \in Nat /\ Cardinality(Live(entries')) \in Nat
      /\ Cardinality(Live(entries)) + Cardinality(Adding) <= Capacity + Cardinality(Requests) - 1
  BY <1>1, SizeOf DEF TableInv
<1>4. CASE r \in Adding
  <2>1. Cardinality(Adding') = Cardinality(Adding) - 1
    BY <1>2, <1>4, AddingSize, FS_RemoveElement
  <2>2. \A k \in Keys : AllowedStep(r, k)
    BY <1>1, CommitStep
  <2>3. Live(entries') \subseteq Live(entries) \cup {req[r].key}
    BY <2>2, NoneAssumption DEF AllowedStep, Keeps, Drops, Live
  <2>4. Cardinality(Live(entries')) <= Cardinality(Live(entries)) + 1
    BY <2>3, OneMore
  <2>5. QED
    BY <1>1, <1>3, <2>1, <2>4, AddingSize, Constants DEF TableInv
<1>5. CASE r \notin Adding
  <2>1. Adding' = Adding
    BY <1>2, <1>5
  <2>2. Cardinality(Live(entries')) <= Cardinality(Live(entries))
    BY <1>5, CommitReplaces
  <2>3. QED
    BY <1>1, <1>3, <2>1, <2>2, AddingSize, Constants DEF TableInv
<1>6. QED
  BY <1>4, <1>5

LEMMA RefuseTable ==
    ASSUME LimitsInv, TableInv, NEW r \in Requests, Refuse(r) \/ Abort(r)
    PROVE  TableInv'
<1>1. TypeOK /\ place' = place /\ \E refusal : End(r, refusal)
  BY DEF LimitsInv, Refuse, Abort
<1>2. Adding' \subseteq Adding
  BY <1>1, EndedAdding
<1>3. entries' = entries \/ entries' = Purged(entries, req[r].now)
  BY DEF Refuse, Abort, Before, Base
<1>4. Live(entries') \subseteq Live(entries)
  BY <1>1, <1>3, Times, PurgedLive
<1>5. QED
  BY <1>1, <1>2, <1>4, NoMore

LEMMA NextTable == LimitsInv /\ TableInv /\ [Next]_vars => TableInv'
<1> SUFFICES ASSUME LimitsInv, TableInv, [Next]_vars
             PROVE  TableInv'
  OBVIOUS
<1>1. CASE UNCHANGED <<place, entries, req>>
  <2>1. Adding' = Adding
    BY <1>1 DEF Adding
  <2>2. QED
    BY <1>1, <2>1, NoMore
<1>2. QED
  BY <1>1, ArriveTable, CheckTable, CommitTable, RefuseTable DEF Next, Tick, vars

LEMMA AlwaysTable == Spec => []TableInv
<1>1. Init => TableInv
  <2> SUFFICES ASSUME Init
               PROVE  TableInv
    OBVIOUS
  <2>1. Live(entries) = {} /\ Adding = {}
    BY DEF Init, NoEntries, Live, Idle, Adding
  <2>2. QED
    BY <2>1, FS_EmptySet, AddingSize, Constants DEF TableInv
<1>2. QED
  BY <1>1, NextTable, InvariantHolds, PTL DEF Spec

\* The table of a process stays within its capacity, and the one in ZODB within
\* that and the number of other requests at the same time, for any number of
\* keys and publisher threads.
THEOREM TablesBounded == Spec => []TableBound
<1>1. TableInv => TableBound
  BY AddingSize, SizeOf, Constants DEF TableInv, TableBound
<1>2. QED
  BY <1>1, AlwaysTable, PTL
=============================================================================
