------------------------- MODULE AttemptLimits_proofs -------------------------
(***************************************************************************)
(* The bound on bursts and the reason for refusals, for every limit,       *)
(* capacity, window and stall.  An entry knows how many of the latest      *)
(* attempts it has counted, so the attempt that opened it is known; its    *)
(* expiry lies between Window - Stall and Window after that attempt.       *)
(***************************************************************************)
EXTENDS AttemptLimits, FiniteSetTheorems, TLAPS

\* The attempt that opened the entry of k.
Opening(k) == Len(taken[k]) - entries[k].count + 1
Opened(k) == taken[k][Opening(k)]

InOrder ==
    \A k \in Keys : \A i \in 1..Len(taken[k]) :
        /\ taken[k][i] <= clock
        /\ \A j \in i..Len(taken[k]) : taken[k][i] <= taken[k][j]

\* An entry is good for a window, less what its first request stalled, and was
\* opened when the attempts before it had run out.
EntryOK(k) ==
    entries[k] # None =>
        /\ Opening(k) >= 1
        /\ Opened(k) + (Window - Stall) <= entries[k].until
        /\ entries[k].until <= Opened(k) + Window
        /\ Opening(k) > Limit => Opened(k) - taken[k][Opening(k) - Limit] >= Window - Stall

\* A key without an entry has not used up its limit of late.
Rested(k) ==
    entries[k] = None /\ Len(taken[k]) >= Limit =>
        clock - taken[k][Len(taken[k]) - Limit + 1] >= Window - Stall

\* The entries ahead of an entry are in the table and were opened no later.
AheadOK(k) ==
    entries[k] # None =>
        /\ place = "zodb" => entries[k].ahead = {}
        /\ \A j \in entries[k].ahead : entries[j] # None /\ Opened(j) <= Opened(k)

\* The attempts that an entry of a view has counted were made.
Backed(k, e) ==
    \E i \in 1..Len(taken[k]) : i + e.count - 1 <= Len(taken[k]) /\ e.until <= taken[k][i] + Window

ViewOK(r) ==
    req[r].pc = "timed" =>
        /\ req[r].key \in Keys
        /\ req[r].now <= clock
        /\ place = "zodb" => \A k \in Live(req[r].view) : Backed(k, req[r].view[k])

LimitsInv ==
    /\ TypeOK
    /\ InOrder
    /\ \A k \in Keys : EntryOK(k) /\ Rested(k) /\ AheadOK(k)
    /\ \A r \in Requests : ViewOK(r)
    /\ BurstBound

-----------------------------------------------------------------------------
(* The operators on tables.                                                *)

LEMMA Constants ==
    /\ Limit \in Nat /\ Limit >= 1 /\ Window \in Nat /\ Window >= 1 /\ Stall \in Nat
    /\ Capacity \in Nat /\ MaxTime \in Nat /\ MaxAttempts \in Nat
    /\ Window - Stall \in Int
BY LimitsAssumption

LEMMA Elements ==
    ASSUME NEW S, NEW s \in Seq(S)
    PROVE  Len(s) \in Nat /\ \A i \in 1..Len(s) : s[i] \in S
OBVIOUS

LEMMA Spread ==
    ASSUME NEW x \in Int, NEW y \in Int, NEW x1 \in Int, NEW y1 \in Int, NEW w \in Int,
           x1 <= x, y <= y1, y - x >= w
    PROVE  y1 - x1 >= w
OBVIOUS

LEMMA Indices ==
    ASSUME NEW n \in Nat, NEW c \in Nat, NEW l \in Nat, c >= 1, l >= 1
    PROVE  /\ (n + 1) - (c + 1) + 1 = n - c + 1
           /\ n + 1 - l = n - l + 1
           /\ n + 1 - (2 * l - 1) >= 1 =>
                  /\ n >= l
                  /\ n + 1 - (2 * l - 1) \in 1..n
                  /\ n - l + 1 \in (n + 1 - (2 * l - 1))..n
                  /\ c + 1 <= l => (n - c + 1) - l \in (n + 1 - (2 * l - 1))..n
OBVIOUS

LEMMA Shift ==
    ASSUME NEW n \in Nat, NEW b \in Nat, b >= 1, NEW i \in 1..(n + 1 - b)
    PROVE  /\ i \in 1..n
           /\ i + b = n + 1 => i = n + 1 - b /\ n + 1 - b >= 1
           /\ i + b # n + 1 => i + b \in 1..n /\ i \in 1..(n - b)
OBVIOUS

\* One more moment at the end of a sequence of them.
LEMMA SpreadAppend ==
    ASSUME NEW s \in Seq(Nat), NEW t \in Nat, NEW b \in Nat, NEW w \in Int, b >= 1,
           \A i \in 1..(Len(s) - b) : s[i + b] - s[i] >= w,
           Len(s) + 1 - b >= 1 => t - s[Len(s) + 1 - b] >= w
    PROVE  \A i \in 1..(Len(Append(s, t)) - b) : Append(s, t)[i + b] - Append(s, t)[i] >= w
<1> DEFINE n == Len(s)
           s1 == Append(s, t)
<1>1. /\ n \in Nat /\ Len(s1) = n + 1 /\ s1[n + 1] = t
      /\ \A i \in 1..n : s1[i] = s[i]
  OBVIOUS
<1>2. /\ \A i \in 1..(n - b) : s[i + b] - s[i] >= w
      /\ n + 1 - b >= 1 => t - s[n + 1 - b] >= w
  OBVIOUS
<1> HIDE DEF n, s1
<1>3. ASSUME NEW i \in 1..(n + 1 - b)
      PROVE  s1[i + b] - s1[i] >= w
  <2>1. /\ i \in 1..n
        /\ i + b = n + 1 => i = n + 1 - b /\ n + 1 - b >= 1
        /\ i + b # n + 1 => i + b \in 1..n /\ i \in 1..(n - b)
    BY <1>1, Shift
  <2>2. CASE i + b = n + 1
    BY <1>1, <1>2, <2>1, <2>2
  <2>3. CASE i + b # n + 1
    BY <1>1, <1>2, <2>1, <2>3
  <2>4. QED
    BY <2>2, <2>3
<1>4. \A i \in 1..(Len(s1) - b) : s1[i + b] - s1[i] >= w
  BY <1>1, <1>3
<1>5. QED
  BY <1>4 DEF s1

\* What becomes of an entry: kept with its time and count, or removed when its
\* time was up; counted once more; or opened anew.
Keeps(old, new) ==
    /\ old \in Entry /\ new \in Entry
    /\ new.until = old.until /\ new.count = old.count
Drops(old, new, now) == new = None /\ (old = None \/ old.until <= now)
Grows(old, new) ==
    /\ old \in Entry /\ new \in Entry
    /\ new.until = old.until /\ new.count = old.count + 1
Opens(old, new, now) ==
    /\ old = None \/ old.until <= now
    /\ new \in Entry
    /\ new.until = now + Window /\ new.count = 1

LEMMA PurgedEntry ==
    ASSUME NEW table \in Table, NEW now \in Nat, NEW k \in Keys
    PROVE  /\ k \in Purgeable(table, now) \/ table[k] = None =>
                  Purged(table, now)[k] = None /\ Drops(table[k], Purged(table, now)[k], now)
           /\ k \notin Purgeable(table, now) /\ table[k] # None =>
                  /\ Keeps(table[k], Purged(table, now)[k])
                  /\ Purged(table, now)[k].ahead = table[k].ahead \ Purgeable(table, now)
<1>1. table[k] = None \/ table[k] \in Entry
  BY DEF Table, Maybe
<1>2. k \in Purgeable(table, now) => table[k].until <= now
  BY DEF Purgeable, Expired
<1>3. None \notin Entry
  BY NoneAssumption
<1>4. QED
  BY <1>1, <1>2, <1>3 DEF Purged, Drops, Keeps, Entry

LEMMA PurgedType ==
    ASSUME NEW table \in Table, NEW now \in Nat
    PROVE  Purged(table, now) \in Table
<1>1. \A k \in Keys : Purged(table, now)[k] \in Maybe(Entry)
  BY PurgedEntry DEF Keeps, Drops, Maybe
<1>2. Purged(table, now) = [k \in Keys |-> Purged(table, now)[k]]
  BY DEF Purged
<1>3. QED
  BY <1>1, <1>2 DEF Table

\* Counting an allowed attempt.
LEMMA CountedEntry ==
    ASSUME NEW table \in Table, NEW now \in Nat, NEW k \in Keys,
           Verdict(table, k) = "allowed"
    PROVE  /\ Counted(table, k, now) \in Table
           /\ \A j \in Keys \ {k} : Counted(table, k, now)[j] = table[j]
           /\ table[k] # None =>
                  /\ Grows(table[k], Counted(table, k, now)[k])
                  /\ Counted(table, k, now)[k].ahead = table[k].ahead
           /\ table[k] = None =>
                  /\ Opens(table[k], Counted(table, k, now)[k], now)
                  /\ Counted(table, k, now)[k].ahead = Front(table)
<1> DEFINE new == Counted(table, k, now)[k]
<1>1. table[k] = None \/ table[k] \in Entry
  BY DEF Table, Maybe
<1>2. DOMAIN table = Keys
  BY DEF Table
<1>3. CASE table[k] # None
  <2>1. table[k] \in Entry /\ table[k].count < Limit
    BY <1>1, <1>3, Constants DEF Verdict, Entry
  <2>2. new = [table[k] EXCEPT !.count = table[k].count + 1]
    BY <1>2, <1>3, <2>1 DEF Counted
  <2>3. new \in Entry /\ Grows(table[k], new) /\ new.ahead = table[k].ahead
    BY <2>1, <2>2, Constants DEF Entry, Grows
  <2>4. QED
    BY <1>3, <2>3 DEF Counted, Table, Maybe
<1>4. CASE table[k] = None
  <2>1. Front(table) \subseteq Keys
    BY DEF Front, Live
  <2>2. new = [until |-> now + Window, count |-> 1, ahead |-> Front(table)]
    BY <1>2, <1>4 DEF Counted
  <2>3. new \in Entry /\ Opens(table[k], new, now) /\ new.ahead = Front(table)
    BY <1>4, <2>1, <2>2, Constants DEF Entry, Opens
  <2>4. QED
    BY <1>4, <2>3 DEF Counted, Table, Maybe
<1>5. QED
  BY <1>3, <1>4

-----------------------------------------------------------------------------
(* What a step does to the entries.                                        *)

LEMMA Times ==
    ASSUME TypeOK, NEW r \in Requests
    PROVE  /\ clock \in Nat /\ req[r] \in Request /\ req[r].now \in Nat
           /\ entries \in Table /\ req[r].view \in Table
BY Constants DEF TypeOK, Request

\* Removing expired entries.
LEMMA PurgeStep ==
    ASSUME TypeOK, NEW r \in Requests, ViewOK(r), req[r].pc = "timed",
           NEW k \in Keys
    PROVE  LET new == Purged(entries, req[r].now)[k]
           IN  Keeps(entries[k], new) \/ Drops(entries[k], new, clock)
<1>1. /\ clock \in Nat /\ req[r].now \in Nat /\ entries \in Table /\ req[r].now <= clock
  BY Times DEF ViewOK
<1>2. Drops(entries[k], Purged(entries, req[r].now)[k], req[r].now)
      \/ Keeps(entries[k], Purged(entries, req[r].now)[k])
  BY <1>1, PurgedEntry
<1>3. entries[k] = None \/ entries[k].until \in Nat
  BY <1>1 DEF Table, Maybe, Entry
<1>4. QED
  BY <1>1, <1>2, <1>3 DEF Drops

\* An allowed attempt.
AllowedStep(r, k) ==
    IF k = req[r].key
    THEN Grows(entries[k], entries'[k]) \/ Opens(entries[k], entries'[k], req[r].now)
    ELSE Keeps(entries[k], entries'[k]) \/ Drops(entries[k], entries'[k], clock)

LEMMA CheckStep ==
    ASSUME TypeOK, NEW r \in Requests, ViewOK(r), Check(r)
    PROVE  /\ entries' \in Table
           /\ \A k \in Keys : AllowedStep(r, k)
           /\ LET k == req[r].key
              IN  IF Purged(entries, req[r].now)[k] = None
                  THEN Opens(entries[k], entries'[k], req[r].now)
                  ELSE Grows(entries[k], entries'[k])
<1> DEFINE k0 == req[r].key
           table == Purged(entries, req[r].now)
<1>1. /\ req[r].pc = "timed" /\ Before(r) = table /\ k0 \in Keys
      /\ Verdict(table, k0) = "allowed"
      /\ entries' = Counted(table, k0, req[r].now)
  BY DEF Check, Before, After, Base, ViewOK
<1>2. /\ clock \in Nat /\ req[r].now \in Nat /\ entries \in Table /\ req[r].now <= clock
  BY <1>1, Times DEF ViewOK
<1>3. table \in Table
  BY <1>2, PurgedType
<1>4. ASSUME NEW k \in Keys \ {k0}
      PROVE  AllowedStep(r, k)
  <2>1. entries'[k] = table[k]
    BY <1>1, <1>2, <1>3, CountedEntry
  <2>2. QED
    BY <1>1, <2>1, PurgeStep DEF AllowedStep
<1>5. IF table[k0] = None THEN Opens(entries[k0], entries'[k0], req[r].now)
      ELSE Grows(entries[k0], entries'[k0])
  <2>1. CASE table[k0] # None
    <3>1. Grows(table[k0], entries'[k0])
      BY <1>1, <1>2, <1>3, <2>1, CountedEntry
    <3>2. Keeps(entries[k0], table[k0])
      BY <1>1, <1>2, <2>1, PurgedEntry DEF Drops
    <3>3. QED
      BY <2>1, <3>1, <3>2 DEF Grows, Keeps
  <2>2. CASE table[k0] = None
    <3>1. Opens(table[k0], entries'[k0], req[r].now)
      BY <1>1, <1>2, <1>3, <2>2, CountedEntry
    <3>2. None \notin Entry
      BY NoneAssumption
    <3>3. Drops(entries[k0], table[k0], req[r].now)
      BY <1>1, <1>2, <2>2, <3>2, PurgedEntry DEF Keeps
    <3>4. QED
      BY <2>2, <3>1, <3>3 DEF Opens, Drops
  <2>3. QED
    BY <2>1, <2>2
<1>6. entries' \in Table
  BY <1>1, <1>2, <1>3, CountedEntry
<1>7. QED
  BY <1>4, <1>5, <1>6 DEF AllowedStep

LEMMA CommitStep ==
    ASSUME TypeOK, NEW r \in Requests, ViewOK(r), Commit(r)
    PROVE  /\ entries' \in Table
           /\ \A k \in Keys : AllowedStep(r, k)
<1> DEFINE k0 == req[r].key
           view == req[r].view
           table == Purged(view, req[r].now)
<1>1. /\ req[r].pc = "timed" /\ Before(r) = table /\ k0 \in Keys
      /\ Verdict(table, k0) = "allowed"
      /\ After(r) = Counted(table, k0, req[r].now)
      /\ \A k \in Changed(r) : entries[k] = view[k]
      /\ entries' = [k \in Keys |-> IF k \in Changed(r) THEN After(r)[k] ELSE entries[k]]
  BY DEF Commit, Before, After, Base, ViewOK
<1>2. /\ clock \in Nat /\ req[r].now \in Nat /\ entries \in Table /\ view \in Table
      /\ req[r].now <= clock
  BY <1>1, Times DEF ViewOK
<1>3. table \in Table
  BY <1>2, PurgedType
<1>4. After(r) \in Table
  BY <1>1, <1>2, <1>3, CountedEntry
<1>5. None \notin Entry
  BY NoneAssumption
<1>6. ASSUME NEW k \in Keys \ {k0}
      PROVE  AllowedStep(r, k)
  <2>1. entries[k] = None \/ (entries[k] \in Entry /\ entries[k].until \in Nat)
    BY <1>2 DEF Table, Maybe, Entry
  <2>2. CASE k \notin Changed(r)
    <3>1. entries'[k] = entries[k]
      BY <1>1, <2>2
    <3>2. QED
      BY <2>1, <3>1 DEF AllowedStep, Keeps, Drops
  <2>3. CASE k \in Changed(r)
    <3>1. entries'[k] = table[k] /\ entries[k] = view[k]
      BY <1>1, <1>2, <1>3, <2>3, CountedEntry
    <3>2. Drops(entries[k], entries'[k], req[r].now) \/ Keeps(entries[k], entries'[k])
      BY <1>2, <3>1, PurgedEntry
    <3>3. QED
      BY <1>2, <2>1, <3>2 DEF AllowedStep, Drops
  <2>4. QED
    BY <2>2, <2>3
<1>7. AllowedStep(r, k0)
  <2>1. CASE table[k0] # None
    <3>1. Grows(table[k0], After(r)[k0])
      BY <1>1, <1>2, <1>3, <2>1, CountedEntry
    <3>2. Keeps(view[k0], table[k0])
      BY <1>1, <1>2, <2>1, PurgedEntry DEF Drops
    <3>3. Grows(view[k0], After(r)[k0])
      BY <3>1, <3>2 DEF Grows, Keeps
    <3>4. view[k0].count \in Nat
      BY <3>3, Constants DEF Grows, Entry
    <3>5. k0 \in Changed(r)
      BY <1>1, <3>3, <3>4 DEF Changed, Grows
    <3>6. QED
      BY <1>1, <3>3, <3>5 DEF AllowedStep
  <2>2. CASE table[k0] = None
    <3>1. Opens(table[k0], After(r)[k0], req[r].now)
      BY <1>1, <1>2, <1>3, <2>2, CountedEntry
    <3>2. Drops(view[k0], table[k0], req[r].now)
      BY <1>1, <1>2, <1>5, <2>2, PurgedEntry DEF Keeps
    <3>3. Opens(view[k0], After(r)[k0], req[r].now)
      BY <3>1, <3>2 DEF Opens, Drops
    <3>4. k0 \in Changed(r)
      <4>1. view[k0] = None => After(r)[k0] # view[k0]
        BY <1>5, <3>3 DEF Opens
      <4>2. view[k0] # None => After(r)[k0] # view[k0]
        BY <1>2, <3>3, Constants DEF Opens
      <4>3. QED
        BY <1>1, <4>1, <4>2 DEF Changed
    <3>5. QED
      BY <1>1, <3>3, <3>4 DEF AllowedStep
  <2>3. QED
    BY <2>1, <2>2
<1>8. entries' \in Table
  BY <1>1, <1>2, <1>4 DEF Table
<1>9. QED
  BY <1>6, <1>7, <1>8

-----------------------------------------------------------------------------
(* What a key's entry says after a step.                                   *)

LEMMA KeyFacts ==
    ASSUME TypeOK, NEW k \in Keys
    PROVE  /\ clock \in Nat
           /\ taken[k] \in Seq(Nat) /\ Len(taken[k]) \in Nat
           /\ \A i \in 1..Len(taken[k]) : taken[k][i] \in Nat
           /\ entries[k] # None =>
                  /\ entries[k] \in Entry
                  /\ entries[k].until \in Nat /\ entries[k].count \in Nat
                  /\ entries[k].count >= 1 /\ entries[k].count <= Limit
<1>1. clock \in Nat /\ taken[k] \in Seq(0..MaxTime)
  BY Constants DEF TypeOK
<1>2. taken[k] \in Seq(Nat) /\ Len(taken[k]) \in Nat /\ \A i \in 1..Len(taken[k]) : taken[k][i] \in Nat
  <2>1. \A i \in 1..Len(taken[k]) : taken[k][i] \in 0..MaxTime
    BY <1>1, Elements
  <2>2. Len(taken[k]) \in Nat /\ taken[k] = [i \in 1..Len(taken[k]) |-> taken[k][i]]
    BY <1>1
  <2>3. \A i \in 1..Len(taken[k]) : taken[k][i] \in Nat
    BY <2>1, Constants
  <2>4. taken[k] \in Seq(Nat)
    BY <2>2, <2>3
  <2>5. QED
    BY <2>2, <2>3, <2>4
<1>3. entries[k] # None => entries[k] \in Entry
  BY DEF TypeOK, Table, Maybe
<1>4. QED
  BY <1>1, <1>2, <1>3, Constants DEF Entry

LEMMA OpeningIndex ==
    ASSUME TypeOK, NEW k \in Keys, EntryOK(k), entries[k] # None
    PROVE  /\ Opening(k) \in 1..Len(taken[k])
           /\ Opened(k) \in Nat
BY KeyFacts DEF EntryOK, Opening, Opened

\* When an entry's time is up, its key has rested.
LEMMA Elapsed ==
    ASSUME TypeOK, InOrder, NEW k \in Keys, EntryOK(k),
           entries[k] # None, entries[k].until <= clock,
           Len(taken[k]) >= Limit
    PROVE  clock - taken[k][Len(taken[k]) - Limit + 1] >= Window - Stall
<1> DEFINE n == Len(taken[k])
           i == n - Limit + 1
<1>1. /\ Opening(k) \in 1..n /\ Opened(k) \in Nat /\ clock \in Nat /\ n \in Nat
      /\ entries[k].until \in Nat /\ entries[k].count \in Nat /\ entries[k].count <= Limit
  BY OpeningIndex, KeyFacts
<1>2. i \in 1..n /\ i <= Opening(k)
  <2>1. Opening(k) = n - entries[k].count + 1
    BY DEF Opening
  <2>2. n \in Nat /\ n >= Limit /\ entries[k].count \in Nat /\ entries[k].count <= Limit
    BY <1>1
  <2> HIDE DEF n
  <2>3. QED
    BY <2>1, <2>2, Constants
<1>3. taken[k][i] <= Opened(k) /\ taken[k][i] \in Nat
  BY <1>1, <1>2, KeyFacts DEF InOrder, Opened
<1>4. clock - Opened(k) >= Window - Stall
  BY <1>1, Constants DEF EntryOK
<1>5. clock - taken[k][i] >= Window - Stall
  <2> HIDE DEF i
  <2>1. QED
    BY <1>1, <1>3, <1>4, Constants, Spread
<1>6. QED
  BY <1>5

\* The key counts nothing.
LEMMA KeyKept ==
    ASSUME TypeOK, InOrder, NEW k \in Keys, EntryOK(k), Rested(k),
           Keeps(entries[k], entries'[k]) \/ Drops(entries[k], entries'[k], clock),
           taken'[k] = taken[k], clock' = clock
    PROVE  /\ EntryOK(k)' /\ Rested(k)'
           /\ entries'[k] # None => Opened(k)' = Opened(k)
<1>1. CASE Keeps(entries[k], entries'[k])
  <2>1. entries[k] # None /\ entries'[k] # None
    BY <1>1, NoneAssumption DEF Keeps
  <2>2. Opening(k)' = Opening(k) /\ Opened(k)' = Opened(k)
    BY <1>1 DEF Keeps, Opening, Opened
  <2>3. QED
    BY <1>1, <2>1, <2>2 DEF Keeps, EntryOK, Rested
<1>2. CASE Drops(entries[k], entries'[k], clock)
  <2>1. entries'[k] = None /\ (entries[k] = None \/ entries[k].until <= clock)
    BY <1>2 DEF Drops
  <2>2. Rested(k)'
    BY <2>1, Elapsed DEF Rested
  <2>3. QED
    BY <2>1, <2>2 DEF EntryOK
<1>3. QED
  BY <1>1, <1>2

BurstBoundAt(k) ==
    \A i \in 1..(Len(taken[k]) - (2 * Limit - 1)) :
        taken[k][i + (2 * Limit - 1)] - taken[k][i] >= Window - Stall

\* The key counts an attempt.
LEMMA KeyCounted ==
    ASSUME TypeOK, InOrder, NEW k \in Keys, EntryOK(k), Rested(k), BurstBoundAt(k),
           NEW now \in Nat, now <= clock, clock <= now + Stall,
           Grows(entries[k], entries'[k]) \/ Opens(entries[k], entries'[k], now),
           taken'[k] = Append(taken[k], clock), clock' = clock
    PROVE  /\ EntryOK(k)' /\ Rested(k)' /\ BurstBoundAt(k)'
           /\ Grows(entries[k], entries'[k]) => Opened(k)' = Opened(k)
           /\ Opens(entries[k], entries'[k], now) => Opened(k)' = clock
<1> DEFINE n == Len(taken[k])
           b == 2 * Limit - 1
<1>1. clock \in Nat /\ n \in Nat /\ taken[k] \in Seq(Nat)
      /\ \A i \in 1..n : taken[k][i] \in Nat
  BY KeyFacts
<1>2. /\ Len(taken'[k]) = n + 1 /\ taken'[k][n + 1] = clock
      /\ \A i \in 1..n : taken'[k][i] = taken[k][i]
  BY <1>1
<1>3. entries'[k] # None /\ entries'[k] \in Entry
  BY NoneAssumption DEF Grows, Opens
<1>4. b \in Nat /\ b >= 1 /\ b >= Limit /\ b = 2 * Limit - 1
  BY Constants
<1>5. ASSUME n + 1 - b >= 1 => clock - taken[k][n + 1 - b] >= Window - Stall
      PROVE  BurstBoundAt(k)'
  BY <1>1, <1>4, <1>5, Constants, SpreadAppend DEF BurstBoundAt
<1>6. CASE Grows(entries[k], entries'[k])
  <2>1. entries[k] # None /\ entries'[k].count = entries[k].count + 1
        /\ entries'[k].until = entries[k].until
    BY <1>6, NoneAssumption DEF Grows
  <2>2. /\ Opening(k) \in 1..n /\ Opened(k) \in Nat
        /\ entries[k].count \in Nat /\ entries[k].count >= 1
        /\ entries'[k].count <= Limit
    BY <1>3, <2>1, OpeningIndex, KeyFacts, Constants DEF Entry
  <2>3. Opening(k)' = Opening(k)
    <3>1. Opening(k)' = (n + 1) - (entries[k].count + 1) + 1
      BY <1>2, <2>1 DEF Opening
    <3>2. Opening(k) = n - entries[k].count + 1
      BY DEF Opening
    <3>3. QED
      BY <1>1, <2>2, <3>1, <3>2, Constants, Indices
  <2>4. Opened(k)' = Opened(k)
    BY <1>2, <2>2, <2>3 DEF Opened
  <2>5. Opening(k) > Limit =>
            /\ Opening(k) - Limit \in 1..n
            /\ taken'[k][Opening(k) - Limit] = taken[k][Opening(k) - Limit]
    BY <1>1, <1>2, <2>2, Constants
  <2>6. EntryOK(k)'
    BY <2>1, <2>3, <2>4, <2>5 DEF EntryOK
  <2>7. n + 1 - b >= 1 => clock - taken[k][n + 1 - b] >= Window - Stall
    <3> SUFFICES ASSUME n + 1 - b >= 1
                 PROVE  clock - taken[k][n + 1 - b] >= Window - Stall
      OBVIOUS
    <3> DEFINE i == n + 1 - b
               o == Opening(k) - Limit
    <3>1. Opening(k) = n - entries[k].count + 1 /\ entries[k].count + 1 <= Limit
      BY <2>1, <2>2 DEF Opening
    <3>2. i \in 1..n /\ o \in i..n
      BY <1>1, <2>2, <3>1, Constants, Indices
    <3>3. taken[k][i] <= taken[k][o] /\ taken[k][i] \in Nat /\ taken[k][o] \in Nat
      BY <1>1, <3>2 DEF InOrder
    <3>4. Opened(k) <= clock
      BY <2>2 DEF InOrder, Opened
    <3>5. Opened(k) - taken[k][o] >= Window - Stall
      <4>1. o >= 1 /\ Opening(k) \in Nat
        BY <2>2, <3>2
      <4>2. Opening(k) > Limit
        BY <4>1, Constants
      <4>3. QED
        BY <2>1, <4>2 DEF EntryOK
    <3>6. Opened(k) \in Nat /\ clock \in Nat
      BY <1>1, <2>2
    <3>7. clock - taken[k][o] >= Window - Stall
      BY <3>3, <3>4, <3>5, <3>6, Constants, Spread
    <3>8. clock \in Nat
      BY <1>1
    <3> HIDE DEF i, o, n
    <3>9. clock - taken[k][i] >= Window - Stall
      BY <3>3, <3>7, <3>8, Constants, Spread
    <3>10. QED
      BY <3>9 DEF i, n
  <2>8. ~ Opens(entries[k], entries'[k], now) \/ Opened(k)' = clock
    <3>1. entries'[k].count # 1
      BY <2>1, <2>2
    <3>2. QED
      BY <3>1 DEF Opens
  <2>9. QED
    BY <1>3, <1>5, <2>4, <2>6, <2>7, <2>8 DEF Rested
<1>7. CASE Opens(entries[k], entries'[k], now) /\ ~ Grows(entries[k], entries'[k])
  <2>1. /\ entries[k] = None \/ entries[k].until <= clock
        /\ entries'[k].until = now + Window /\ entries'[k].count = 1
    <3>1. entries[k] = None \/ entries[k].until \in Nat
      BY KeyFacts
    <3>2. QED
      BY <1>1, <1>7, <3>1 DEF Opens
  <2>2. Opening(k)' = n + 1 /\ Opened(k)' = clock
    BY <1>1, <1>2, <2>1 DEF Opening, Opened
  <2>3. n >= Limit => clock - taken[k][n - Limit + 1] >= Window - Stall
    BY <2>1, Elapsed DEF Rested
  <2>4. n >= Limit => taken'[k][n + 1 - Limit] = taken[k][n - Limit + 1]
    <3>1. n >= Limit => n + 1 - Limit \in 1..n /\ n + 1 - Limit = n - Limit + 1
      BY <1>1, Constants, Indices
    <3>2. QED
      BY <1>2, <3>1
  <2>5. EntryOK(k)'
    <3>1. Opening(k)' >= 1 /\ (Opening(k)' > Limit => n >= Limit)
      BY <1>1, <2>2, Constants
    <3>2. clock + (Window - Stall) <= now + Window /\ now + Window <= clock + Window
      BY <1>1, Constants
    <3> DEFINE Rests(p) == clock - taken'[k][p - Limit] >= Window - Stall
    <3>3. n >= Limit => Rests(n + 1)
      <4> SUFFICES ASSUME n >= Limit PROVE Rests(n + 1)
        OBVIOUS
      <4>1. taken'[k][n + 1 - Limit] = taken[k][n - Limit + 1]
        BY <2>4
      <4>2. clock - taken[k][n - Limit + 1] >= Window - Stall
        BY <2>3
      <4>3. clock \in Nat /\ taken[k][n - Limit + 1] \in Nat
        <5>1. n - Limit + 1 \in 1..n
          BY <1>1, Constants, Indices
        <5>2. QED
          BY <1>1, <5>1
      <4>4. QED
        BY <4>1, <4>2, <4>3, Constants
    <3> HIDE DEF Rests
    <3>4. Opening(k)' > Limit => Rests(Opening(k)')
      BY <2>2, <3>1, <3>3
    <3>5. QED
      BY <2>1, <2>2, <3>1, <3>2, <3>4 DEF EntryOK, Rests
  <2>6. n + 1 - b >= 1 => clock - taken[k][n + 1 - b] >= Window - Stall
    <3> SUFFICES ASSUME n + 1 - b >= 1
                 PROVE  clock - taken[k][n + 1 - b] >= Window - Stall
      OBVIOUS
    <3> DEFINE i == n + 1 - b
               o == n - Limit + 1
    <3>1. i \in 1..n /\ o \in i..n /\ n >= Limit
      BY <1>1, Constants, Indices
    <3>2. taken[k][i] <= taken[k][o] /\ taken[k][i] \in Nat /\ taken[k][o] \in Nat
      BY <1>1, <3>1 DEF InOrder
    <3>3. clock - taken[k][o] >= Window - Stall
      BY <2>3, <3>1
    <3>4. clock \in Nat
      BY <1>1
    <3> HIDE DEF i, o, n
    <3>5. clock - taken[k][i] >= Window - Stall
      BY <3>2, <3>3, <3>4, Constants, Spread
    <3>6. QED
      BY <3>5 DEF i, n
  <2>7. QED
    BY <1>3, <1>5, <1>7, <2>2, <2>5, <2>6 DEF Rested
<1>8. QED
  BY <1>6, <1>7

-----------------------------------------------------------------------------
(* The steps.                                                              *)

LEMMA IdleTypes ==
    /\ Idle \in Request
    /\ \A x \in Maybe(Refusals) :
           /\ [Idle EXCEPT !.refusal = x] \in Request
           /\ [Idle EXCEPT !.refusal = x].pc = "idle"
           /\ [Idle EXCEPT !.refusal = x].refusal = x
    /\ \A k \in Keys, t \in 0..MaxTime, v \in Table :
           [Idle EXCEPT !.pc = "timed", !.key = k, !.now = t, !.view = v] \in Request
<1>1. NoEntries \in Table /\ 0 \in 0..MaxTime
  BY Constants DEF NoEntries, Table, Maybe
<1>2. QED
  BY <1>1 DEF Idle, Request, Maybe

LEMMA InitInv == Init => LimitsInv
<1> SUFFICES ASSUME Init PROVE LimitsInv
  OBVIOUS
<1>1. TypeOK
  <2>1. NoEntries \in Table /\ 0 \in 0..MaxTime /\ 0 \in 0..MaxAttempts
    BY Constants DEF NoEntries, Table, Maybe
  <2>2. [r \in Requests |-> Idle] \in [Requests -> Request]
    BY IdleTypes
  <2>3. [k \in Keys |-> <<>>] \in [Keys -> Seq(0..MaxTime)]
    OBVIOUS
  <2>4. QED
    BY <2>1, <2>2, <2>3 DEF Init, TypeOK
<1>2. \A k \in Keys : entries[k] = None /\ taken[k] = <<>> /\ Len(taken[k]) = 0
  BY DEF Init, NoEntries
<1>3. InOrder
  BY <1>2 DEF InOrder
<1>4. \A k \in Keys : EntryOK(k) /\ Rested(k) /\ AheadOK(k)
  BY <1>2, Constants DEF EntryOK, Rested, AheadOK
<1>5. \A r \in Requests : ViewOK(r)
  BY DEF Init, ViewOK, Idle
<1>6. BurstBound
  BY <1>2, Constants DEF BurstBound
<1>7. QED
  BY <1>1, <1>3, <1>4, <1>5, <1>6 DEF LimitsInv

\* An entry of a view stays backed while its key's attempts are only added to.
Extended(k) == taken'[k] = taken[k] \/ taken'[k] = Append(taken[k], clock)

LEMMA BackedStays ==
    ASSUME TypeOK, NEW k \in Keys, NEW e \in Entry, Backed(k, e), Extended(k)
    PROVE  \E i \in 1..Len(taken'[k]) :
               i + e.count - 1 <= Len(taken'[k]) /\ e.until <= taken'[k][i] + Window
<1>1. /\ Len(taken[k]) \in Nat /\ taken[k] \in Seq(Nat) /\ clock \in Nat
      /\ e.count \in Nat
  BY KeyFacts, Constants DEF Entry
<1>2. PICK i \in 1..Len(taken[k]) :
          i + e.count - 1 <= Len(taken[k]) /\ e.until <= taken[k][i] + Window
  BY DEF Backed
<1>3. CASE taken'[k] = taken[k]
  BY <1>2, <1>3
<1>4. CASE taken'[k] = Append(taken[k], clock)
  <2>1. Len(taken'[k]) = Len(taken[k]) + 1 /\ taken'[k][i] = taken[k][i]
    BY <1>1, <1>4
  <2>2. i \in 1..Len(taken'[k]) /\ i + e.count - 1 <= Len(taken'[k])
    BY <1>1, <1>2, <2>1
  <2>3. QED
    BY <1>2, <2>1, <2>2
<1>5. QED
  BY <1>3, <1>4 DEF Extended

LEMMA ViewStays ==
    ASSUME TypeOK, NEW r \in Requests, ViewOK(r), req'[r] = req[r],
           clock \in Nat, clock' \in Nat, clock <= clock', place' = place,
           \A k \in Keys : Extended(k)
    PROVE  ViewOK(r)'
<1> SUFFICES ASSUME req[r].pc = "timed"
             PROVE  ViewOK(r)'
  BY DEF ViewOK
<1>1. req[r].key \in Keys /\ req[r].now <= clock'
  BY Times DEF ViewOK
<1>2. ASSUME place = "zodb", NEW k \in Live(req[r].view)
      PROVE  Backed(k, req[r].view[k])'
  <2>1. k \in Keys /\ req[r].view[k] \in Entry /\ Backed(k, req[r].view[k])
    BY <1>2, Times DEF ViewOK, Live, Table, Maybe
  <2>2. QED
    BY <2>1, BackedStays DEF Backed
<1>3. QED
  BY <1>1, <1>2 DEF ViewOK

LEMMA BurstParts == BurstBound <=> \A k \in Keys : BurstBoundAt(k)
BY DEF BurstBound, BurstBoundAt

\* Time passes.
LEMMA TickInv == ASSUME LimitsInv, Tick PROVE LimitsInv'
<1>1. /\ clock \in Nat /\ clock' = clock + 1 /\ clock' \in 0..MaxTime
      /\ UNCHANGED <<place, entries, req, attempts, taken>>
  BY Constants DEF LimitsInv, TypeOK, Tick
<1>2. TypeOK'
  BY <1>1 DEF LimitsInv, TypeOK
<1>3. InOrder'
  <2>1. \A k \in Keys : \A i \in 1..Len(taken[k]) : taken[k][i] \in Nat
    BY KeyFacts DEF LimitsInv
  <2>2. QED
    BY <1>1, <2>1 DEF LimitsInv, InOrder
<1>4. ASSUME NEW k \in Keys PROVE (EntryOK(k) /\ Rested(k) /\ AheadOK(k))'
  <2>1. EntryOK(k) /\ Rested(k) /\ AheadOK(k)
    BY DEF LimitsInv
  <2>2. EntryOK(k)' /\ AheadOK(k)'
    BY <1>1, <2>1 DEF EntryOK, AheadOK, Opening, Opened
  <2>3. Rested(k)'
    <3> SUFFICES ASSUME entries[k] = None, Len(taken[k]) >= Limit
                 PROVE  clock' - taken[k][Len(taken[k]) - Limit + 1] >= Window - Stall
      BY <1>1 DEF Rested
    <3> DEFINE t == taken[k][Len(taken[k]) - Limit + 1]
    <3>1. clock - t >= Window - Stall
      BY <2>1 DEF Rested
    <3>2. t \in Nat
      <4>1. Len(taken[k]) \in Nat /\ \A i \in 1..Len(taken[k]) : taken[k][i] \in Nat
        BY KeyFacts DEF LimitsInv
      <4>2. Len(taken[k]) - Limit + 1 \in 1..Len(taken[k])
        BY <4>1, Constants
      <4>3. QED
        BY <4>1, <4>2
    <3> HIDE DEF t
    <3>3. clock' - t >= Window - Stall
      BY <1>1, <3>1, <3>2, Constants, Spread
    <3>4. QED
      BY <3>3 DEF t
  <2>4. QED
    BY <2>2, <2>3
<1>5. ASSUME NEW r \in Requests PROVE ViewOK(r)'
  <2>1. ViewOK(r) /\ TypeOK
    BY DEF LimitsInv
  <2>2. QED
    BY <1>1, <2>1, ViewStays DEF Extended
<1>6. BurstBound'
  BY <1>1 DEF LimitsInv, BurstBound
<1>7. QED
  BY <1>2, <1>3, <1>4, <1>5, <1>6 DEF LimitsInv

\* A request arrives: what it sees of the table is backed by the attempts.
LEMMA ArriveInv == ASSUME LimitsInv, NEW r \in Requests, Arrive(r) PROVE LimitsInv'
<1> DEFINE view == IF place = "zodb" THEN entries ELSE NoEntries
<1>1. PICK k0 \in Keys :
          req' = [req EXCEPT ![r] = [Idle EXCEPT !.pc = "timed", !.key = k0, !.now = clock,
                                                 !.view = view]]
  BY DEF Arrive
<1>2. /\ UNCHANGED <<clock, place, entries, taken>> /\ attempts' = attempts + 1
      /\ attempts < MaxAttempts /\ TypeOK
  BY DEF Arrive, LimitsInv
<1>3. /\ view \in Table /\ clock \in Nat /\ clock \in 0..MaxTime
      /\ req \in [Requests -> Request]
  BY <1>2, Constants DEF TypeOK, NoEntries, Table, Maybe
<1>4. TypeOK'
  <2>1. req' \in [Requests -> Request]
    BY <1>1, <1>3, IdleTypes
  <2>2. attempts' \in 0..MaxAttempts
    BY <1>2, Constants DEF TypeOK
  <2>3. QED
    BY <1>2, <2>1, <2>2 DEF TypeOK
<1>5. InOrder' /\ BurstBound' /\ \A k \in Keys : (EntryOK(k) /\ Rested(k) /\ AheadOK(k))'
  BY <1>2 DEF LimitsInv, InOrder, BurstBound, EntryOK, Rested, AheadOK, Opening, Opened
<1>6. ASSUME NEW q \in Requests PROVE ViewOK(q)'
  <2>1. CASE q # r
    <3>1. req'[q] = req[q] /\ ViewOK(q)
      BY <1>1, <1>3, <2>1 DEF LimitsInv
    <3>2. clock' \in Nat /\ clock <= clock' /\ place' = place /\ \A k \in Keys : Extended(k)
      BY <1>2, <1>3 DEF Extended
    <3>3. QED
      BY <1>2, <1>3, <3>1, <3>2, ViewStays
  <2>2. CASE q = r
    <3>1. req'[r].key = k0 /\ req'[r].now = clock /\ req'[r].view = view
      BY <1>1, <1>3 DEF Idle
    <3>2. ASSUME place = "zodb", NEW k \in Live(entries)
          PROVE  Backed(k, entries[k])
      <4>1. k \in Keys /\ entries[k] # None /\ EntryOK(k)
        BY <3>2 DEF Live, LimitsInv
      <4>2. Opening(k) \in 1..Len(taken[k]) /\ entries[k].until <= taken[k][Opening(k)] + Window
        BY <1>2, <4>1, OpeningIndex DEF EntryOK, Opened
      <4>3. Opening(k) + entries[k].count - 1 <= Len(taken[k])
        BY <1>2, <4>1, KeyFacts DEF Opening
      <4>4. QED
        BY <4>2, <4>3 DEF Backed
    <3>3. place = "zodb" => \A k \in Live(view) : Backed(k, view[k])
      BY <3>2
    <3>4. (place = "zodb" => \A k \in Live(req[r].view) : Backed(k, req[r].view[k]))'
      BY <1>2, <3>1, <3>3 DEF Backed, Live
    <3>5. QED
      BY <1>2, <1>3, <2>2, <3>1, <3>4 DEF ViewOK
  <2>3. QED
    BY <2>1, <2>2
<1>7. QED
  BY <1>4, <1>5, <1>6 DEF LimitsInv

LEMMA EndTypes ==
    ASSUME TypeOK, NEW r \in Requests, NEW x \in Maybe(Refusals), End(r, x)
    PROVE  /\ req' \in [Requests -> Request]
           /\ \A q \in Requests \ {r} : req'[q] = req[q]
           /\ req'[r].pc = "idle" /\ req'[r].refusal = x
BY IdleTypes DEF End, TypeOK

LEMMA ViewsStay ==
    ASSUME LimitsInv, NEW r \in Requests, NEW x \in Maybe(Refusals), End(r, x),
           clock' = clock, place' = place, \A k \in Keys : Extended(k)
    PROVE  \A q \in Requests : ViewOK(q)'
<1> SUFFICES ASSUME NEW q \in Requests PROVE ViewOK(q)'
  OBVIOUS
<1>1. TypeOK /\ ViewOK(q) /\ clock \in Nat
  BY Constants DEF LimitsInv, TypeOK
<1>2. CASE q = r
  BY <1>1, <1>2, EndTypes DEF ViewOK
<1>3. CASE q # r
  <2>1. req'[q] = req[q]
    BY <1>1, <1>3, EndTypes
  <2>2. clock' \in Nat /\ clock <= clock'
    BY <1>1
  <2>3. QED
    BY <1>1, <2>1, <2>2, ViewStays
<1>4. QED
  BY <1>2, <1>3

\* A request ends without counting.
LEMMA KeptInv ==
    ASSUME LimitsInv, NEW r \in Requests, NEW x \in Maybe(Refusals), End(r, x),
           UNCHANGED <<clock, place, attempts, taken>>, entries' \in Table,
           \A k \in Keys : Keeps(entries[k], entries'[k]) \/ Drops(entries[k], entries'[k], clock),
           \A k \in Keys : AheadOK(k)'
    PROVE  LimitsInv'
<1>1. TypeOK'
  BY EndTypes DEF LimitsInv, TypeOK
<1>2. InOrder' /\ BurstBound'
  BY DEF LimitsInv, InOrder, BurstBound
<1>3. \A k \in Keys : (EntryOK(k) /\ Rested(k))'
  BY KeyKept DEF LimitsInv
<1>4. \A q \in Requests : ViewOK(q)'
  BY ViewsStay DEF Extended
<1>5. QED
  BY <1>1, <1>2, <1>3, <1>4 DEF LimitsInv

LEMMA StaysKept ==
    ASSUME TypeOK, NEW k \in Keys
    PROVE  Keeps(entries[k], entries[k]) \/ Drops(entries[k], entries[k], clock)
BY DEF TypeOK, Table, Maybe, Keeps, Drops

LEMMA AbortInv == ASSUME LimitsInv, NEW r \in Requests, Abort(r) PROVE LimitsInv'
<1>1. TypeOK /\ entries' = entries /\ taken' = taken /\ place' = place
  BY DEF Abort, LimitsInv
<1>2. entries' \in Table
  BY <1>1 DEF TypeOK
<1>3. \A k \in Keys : Keeps(entries[k], entries'[k]) \/ Drops(entries[k], entries'[k], clock)
  BY <1>1, StaysKept
<1>4. \A k \in Keys : AheadOK(k)'
  BY <1>1 DEF LimitsInv, AheadOK, Opened, Opening
<1>5. None \in Maybe(Refusals) /\ End(r, None) /\ UNCHANGED <<clock, place, attempts, taken>>
  BY DEF Abort, Maybe
<1>6. QED
  BY <1>2, <1>3, <1>4, <1>5, KeptInv

\* Purging keeps what is ahead of an entry in order.
LEMMA PurgeAhead ==
    ASSUME LimitsInv, NEW r \in Requests, req[r].pc = "timed",
           NEW k \in Keys, Purged(entries, req[r].now)[k] # None
    PROVE  /\ entries[k] # None
           /\ Purged(entries, req[r].now)[k].ahead = entries[k].ahead \ Purgeable(entries, req[r].now)
           /\ \A j \in Purged(entries, req[r].now)[k].ahead :
                  Purged(entries, req[r].now)[j] # None /\ Opened(j) <= Opened(k)
<1> DEFINE table == Purged(entries, req[r].now)
           gone == Purgeable(entries, req[r].now)
<1>1. TypeOK /\ AheadOK(k) /\ req[r].now \in Nat /\ entries \in Table
  BY Times DEF LimitsInv
<1>2. entries[k] # None /\ k \notin gone /\ table[k].ahead = entries[k].ahead \ gone
  BY <1>1, PurgedEntry
<1>3. ASSUME NEW j \in table[k].ahead
      PROVE  table[j] # None /\ Opened(j) <= Opened(k)
  <2>1. j \in entries[k].ahead /\ j \notin gone
    BY <1>2
  <2>2. entries[j] # None /\ Opened(j) <= Opened(k)
    BY <1>1, <1>2, <2>1 DEF AheadOK
  <2>3. j \in Keys
    BY <1>1, <1>2, <2>1 DEF Table, Maybe, Entry
  <2>4. Keeps(entries[j], table[j])
    BY <1>1, <2>1, <2>2, <2>3, PurgedEntry
  <2>5. QED
    BY <2>2, <2>4, NoneAssumption DEF Keeps
<1>4. QED
  BY <1>2, <1>3

LEMMA RefuseInv == ASSUME LimitsInv, NEW r \in Requests, Refuse(r) PROVE LimitsInv'
<1> DEFINE v == Verdict(Before(r), req[r].key)
<1>1. /\ TypeOK /\ ViewOK(r) /\ req[r].pc = "timed" /\ v \in Maybe(Refusals)
      /\ End(r, v) /\ UNCHANGED <<clock, place, attempts, taken>>
  BY DEF Refuse, LimitsInv, Verdict, Maybe, Refusals
<1>2. CASE place = "zodb"
  <2>1. entries' = entries
    BY <1>2 DEF Refuse
  <2>2. entries' \in Table
    BY <1>1, <2>1 DEF TypeOK
  <2>3. \A k \in Keys : Keeps(entries[k], entries'[k]) \/ Drops(entries[k], entries'[k], clock)
    BY <1>1, <2>1, StaysKept
  <2>4. \A k \in Keys : AheadOK(k)'
    BY <1>1, <2>1 DEF LimitsInv, AheadOK, Opened, Opening
  <2>5. QED
    BY <1>1, <2>2, <2>3, <2>4, KeptInv
<1>3. CASE place # "zodb"
  <2>1. entries' = Purged(entries, req[r].now)
    BY <1>3 DEF Refuse, Before, Base
  <2>2. entries' \in Table
    BY <1>1, <2>1, Times, PurgedType
  <2>3. \A k \in Keys : Keeps(entries[k], entries'[k]) \/ Drops(entries[k], entries'[k], clock)
    BY <1>1, <2>1, PurgeStep
  <2>4. \A k \in Keys : entries'[k] # None => Opened(k)' = Opened(k)
    BY <1>1, <2>3, KeyKept DEF LimitsInv
  <2>5. ASSUME NEW k \in Keys PROVE AheadOK(k)'
    <3> SUFFICES ASSUME entries'[k] # None
                 PROVE  \A j \in entries'[k].ahead : entries'[j] # None /\ Opened(j)' <= Opened(k)'
      BY <1>1, <1>3 DEF AheadOK
    <3>1. entries'[k].ahead \subseteq Keys
      BY <2>2 DEF Table, Maybe, Entry
    <3>2. \A j \in entries'[k].ahead : entries'[j] # None /\ Opened(j) <= Opened(k)
      BY <1>1, <2>1, PurgeAhead
    <3>3. QED
      BY <2>4, <3>1, <3>2
  <2>6. QED
    BY <1>1, <2>2, <2>3, <2>5, KeptInv
<1>4. QED
  BY <1>2, <1>3

\* What an allowed attempt leaves of each key's invariant.
LEMMA AllowedKeys ==
    ASSUME LimitsInv, NEW r \in Requests, req[r].pc = "timed", InTime(r), Allow(r),
           \A k \in Keys : AllowedStep(r, k), NEW k \in Keys
    PROVE  /\ (EntryOK(k) /\ Rested(k) /\ BurstBoundAt(k))'
           /\ Extended(k)
           /\ k # req[r].key /\ entries'[k] # None => Opened(k)' = Opened(k)
           /\ Grows(entries[k], entries'[k]) /\ k = req[r].key => Opened(k)' = Opened(k)
           /\ Opens(entries[k], entries'[k], req[r].now) /\ k = req[r].key => Opened(k)' = clock
<1>1. /\ TypeOK /\ InOrder /\ EntryOK(k) /\ Rested(k) /\ BurstBoundAt(k)
      /\ req[r].now \in Nat /\ req[r].now <= clock /\ clock <= req[r].now + Stall
      /\ clock' = clock
  BY Times, BurstParts DEF LimitsInv, ViewOK, InTime, Allow
<1>2. taken'[k] = IF k = req[r].key THEN Append(taken[k], clock) ELSE taken[k]
  BY <1>1 DEF Allow, TypeOK
<1>3. CASE k = req[r].key
  <2>1. Grows(entries[k], entries'[k]) \/ Opens(entries[k], entries'[k], req[r].now)
    BY <1>3 DEF AllowedStep
  <2>2. taken'[k] = Append(taken[k], clock)
    BY <1>2, <1>3
  <2>3. QED
    BY <1>1, <1>3, <2>1, <2>2, KeyCounted DEF Extended
<1>4. CASE k # req[r].key
  <2>1. Keeps(entries[k], entries'[k]) \/ Drops(entries[k], entries'[k], clock)
    BY <1>4 DEF AllowedStep
  <2>2. taken'[k] = taken[k]
    BY <1>2, <1>4
  <2>3. BurstBoundAt(k)'
    BY <1>1, <2>2 DEF BurstBoundAt
  <2>4. QED
    BY <1>1, <1>4, <2>1, <2>2, <2>3, KeyKept DEF Extended
<1>5. QED
  BY <1>3, <1>4

LEMMA AllowInv ==
    ASSUME LimitsInv, NEW r \in Requests, req[r].pc = "timed", InTime(r), Allow(r),
           entries' \in Table, \A k \in Keys : AllowedStep(r, k),
           \A k \in Keys : AheadOK(k)'
    PROVE  LimitsInv'
<1>1. /\ TypeOK /\ clock' = clock /\ place' = place /\ attempts' = attempts
      /\ None \in Maybe(Refusals) /\ End(r, None) /\ req[r].key \in Keys
  BY DEF LimitsInv, Allow, Maybe, ViewOK
<1>2. TypeOK'
  <2>1. taken' \in [Keys -> Seq(0..MaxTime)]
    BY <1>1 DEF Allow, TypeOK
  <2>2. req' \in [Requests -> Request]
    BY <1>1, EndTypes
  <2>3. QED
    BY <1>1, <2>1, <2>2 DEF TypeOK
<1>3. InOrder'
  <2> SUFFICES ASSUME NEW k \in Keys
               PROVE  \A i \in 1..Len(taken'[k]) :
                          /\ taken'[k][i] <= clock
                          /\ \A j \in i..Len(taken'[k]) : taken'[k][i] <= taken'[k][j]
    BY <1>1 DEF InOrder
  <2>1. Extended(k)
    BY AllowedKeys
  <2>2. /\ \A i \in 1..Len(taken[k]) : taken[k][i] <= clock
        /\ \A i \in 1..Len(taken[k]) : \A j \in i..Len(taken[k]) : taken[k][i] <= taken[k][j]
    BY DEF LimitsInv, InOrder
  <2>3. taken[k] \in Seq(Nat) /\ Len(taken[k]) \in Nat /\ clock \in Nat
    BY <1>1, KeyFacts
  <2>4. CASE taken'[k] = taken[k]
    BY <2>2, <2>4
  <2>5. CASE taken'[k] = Append(taken[k], clock)
    <3> DEFINE n == Len(taken[k])
    <3>1. /\ Len(taken'[k]) = n + 1 /\ taken'[k][n + 1] = clock
          /\ \A i \in 1..n : taken'[k][i] = taken[k][i]
      BY <2>3, <2>5
    <3>2. \A i \in 1..(n + 1) : i \in 1..n \/ i = n + 1
      BY <2>3
    <3>3. \A i \in 1..(n + 1) : taken'[k][i] <= clock
      BY <2>2, <2>3, <3>1, <3>2
    <3>4. ASSUME NEW i \in 1..(n + 1), NEW j \in i..(n + 1)
          PROVE  taken'[k][i] <= taken'[k][j]
      <4>1. CASE j = n + 1
        BY <3>1, <3>3, <4>1
      <4>2. CASE j # n + 1
        <5>1. i \in 1..n /\ j \in i..n /\ j \in 1..n
          BY <2>3, <4>2
        <5>2. QED
          BY <2>2, <3>1, <5>1
      <4>3. QED
        BY <4>1, <4>2
    <3>5. QED
      BY <3>1, <3>3, <3>4
  <2>6. QED
    BY <2>1, <2>4, <2>5 DEF Extended
<1>4. \A k \in Keys : (EntryOK(k) /\ Rested(k))' /\ Extended(k) /\ BurstBoundAt(k)'
  BY AllowedKeys
<1>5. BurstBound'
  BY <1>4 DEF BurstBound, BurstBoundAt
<1>6. \A q \in Requests : ViewOK(q)'
  BY <1>1, <1>4, ViewsStay
<1>7. QED
  BY <1>2, <1>3, <1>4, <1>5, <1>6 DEF LimitsInv

LEMMA CheckInv == ASSUME LimitsInv, NEW r \in Requests, Check(r) PROVE LimitsInv'
<1> DEFINE k0 == req[r].key
           table == Purged(entries, req[r].now)
<1>1. /\ TypeOK /\ ViewOK(r) /\ req[r].pc = "timed" /\ InTime(r) /\ Allow(r) /\ k0 \in Keys
      /\ place' = "process" /\ clock \in Nat /\ entries \in Table /\ req[r].now \in Nat
  BY Times DEF LimitsInv, Check, Allow, ViewOK
<1>2. /\ entries' \in Table
      /\ \A k \in Keys : AllowedStep(r, k)
      /\ IF table[k0] = None THEN Opens(entries[k0], entries'[k0], req[r].now)
         ELSE Grows(entries[k0], entries'[k0])
  BY <1>1, CheckStep
<1>3. /\ table \in Table /\ Verdict(table, k0) = "allowed"
      /\ entries' = Counted(table, k0, req[r].now)
  BY <1>1, PurgedType DEF Check, Before, After, Base
<1>4. /\ \A j \in Keys \ {k0} : entries'[j] = table[j]
      /\ table[k0] # None => entries'[k0].ahead = table[k0].ahead
      /\ table[k0] = None => entries'[k0].ahead = Front(table)
  BY <1>1, <1>3, CountedEntry
<1>5. ASSUME NEW j \in Keys, table[j] # None
      PROVE  entries'[j] # None /\ Opened(j)' = Opened(j) /\ Opened(j) <= clock
  <2>1. entries[j] # None
    BY <1>1, <1>5, PurgeAhead
  <2>2. Opened(j) <= clock
    BY <1>1, <2>1, OpeningIndex DEF LimitsInv, InOrder, Opened
  <2>3. CASE j = k0
    <3>1. Grows(entries[j], entries'[j])
      BY <1>2, <1>5, <2>3
    <3>2. Opened(j)' = Opened(j)
      BY <1>1, <1>2, <2>3, <3>1, AllowedKeys
    <3>3. QED
      BY <2>2, <3>1, <3>2, NoneAssumption DEF Grows
  <2>4. CASE j # k0
    <3>1. entries'[j] # None
      BY <1>4, <1>5, <2>4
    <3>2. QED
      BY <1>1, <1>2, <2>2, <2>4, <3>1, AllowedKeys
  <2>5. QED
    BY <2>3, <2>4
<1>6. ASSUME NEW k \in Keys PROVE AheadOK(k)'
  <2> SUFFICES ASSUME entries'[k] # None
               PROVE  \A j \in entries'[k].ahead : entries'[j] # None /\ Opened(j)' <= Opened(k)'
    BY <1>1 DEF AheadOK
  <2>1. entries'[k].ahead \subseteq Keys
    BY <1>2 DEF Table, Maybe, Entry
  <2>2. CASE table[k] # None
    <3>1. entries'[k].ahead = table[k].ahead
      <4>1. k # k0 => entries'[k] = table[k]
        BY <1>4
      <4>2. k = k0 => entries'[k].ahead = table[k].ahead
        BY <1>4, <2>2
      <4>3. QED
        BY <4>1, <4>2
    <3>2. \A j \in entries'[k].ahead : table[j] # None /\ Opened(j) <= Opened(k)
      BY <1>1, <2>2, <3>1, PurgeAhead
    <3>3. QED
      BY <1>5, <2>1, <2>2, <3>2
  <2>3. CASE table[k] = None
    <3>1. k = k0
      BY <1>4, <2>3
    <3>2. Opened(k)' = clock
      BY <1>1, <1>2, <2>3, <3>1, AllowedKeys
    <3>3. \A j \in entries'[k].ahead : table[j] # None
      BY <1>4, <2>3, <3>1 DEF Front, Live
    <3>4. QED
      BY <1>5, <2>1, <3>2, <3>3
  <2>4. QED
    BY <2>2, <2>3
<1>7. QED
  BY <1>1, <1>2, <1>6, AllowInv

LEMMA CommitInv == ASSUME LimitsInv, NEW r \in Requests, Commit(r) PROVE LimitsInv'
<1> DEFINE k0 == req[r].key
           view == req[r].view
           table == Purged(view, req[r].now)
<1>1. /\ TypeOK /\ ViewOK(r) /\ req[r].pc = "timed" /\ InTime(r) /\ Allow(r) /\ k0 \in Keys
      /\ place = "zodb" /\ place' = "zodb" /\ view \in Table /\ req[r].now \in Nat
  BY Times DEF LimitsInv, Commit, Allow, ViewOK
<1>2. entries' \in Table /\ \A k \in Keys : AllowedStep(r, k)
  BY <1>1, CommitStep
<1>3. /\ table \in Table /\ Verdict(table, k0) = "allowed"
      /\ After(r) = Counted(table, k0, req[r].now)
      /\ entries' = [k \in Keys |-> IF k \in Changed(r) THEN After(r)[k] ELSE entries[k]]
      /\ \A k \in Changed(r) : entries[k] = view[k]
  BY <1>1, PurgedType DEF Commit, Before, After, Base
<1>4. ASSUME NEW k \in Keys PROVE AheadOK(k)'
  <2> SUFFICES ASSUME entries'[k] # None PROVE entries'[k].ahead = {}
    BY <1>1 DEF AheadOK
  <2>1. entries[k] # None => entries[k].ahead = {}
    BY <1>1 DEF LimitsInv, AheadOK
  <2>2. CASE k \notin Changed(r)
    BY <1>3, <2>1, <2>2
  <2>3. CASE k \in Changed(r)
    <3>1. entries'[k] = After(r)[k] /\ view[k] = entries[k]
      BY <1>3, <2>3
    <3>2. table[k] # None => table[k].ahead = {}
      <4>1. table[k] # None => view[k] # None /\ table[k].ahead \subseteq view[k].ahead
        BY <1>1, PurgedEntry
      <4>2. QED
        BY <2>1, <3>1, <4>1
    <3>3. CASE k # k0
      <4>1. After(r)[k] = table[k]
        BY <1>1, <1>3, <3>3, CountedEntry
      <4>2. QED
        BY <3>1, <3>2, <4>1
    <3>4. CASE k = k0
      <4>1. /\ table[k] # None => After(r)[k].ahead = table[k].ahead
            /\ table[k] = None => After(r)[k].ahead = Front(table)
        BY <1>1, <1>3, <3>4, CountedEntry
      <4>2. QED
        BY <1>1, <3>1, <3>2, <4>1 DEF Front
    <3>5. QED
      BY <3>3, <3>4
  <2>4. QED
    BY <2>2, <2>3
<1>5. QED
  BY <1>1, <1>2, <1>4, AllowInv

LEMMA StutterInv == ASSUME LimitsInv, UNCHANGED vars PROVE LimitsInv'
BY DEF vars, LimitsInv, TypeOK, InOrder, EntryOK, Rested, AheadOK, ViewOK, BurstBound,
       Opening, Opened, Backed, Live

THEOREM InvariantHolds == Spec => []LimitsInv
<1>1. LimitsInv /\ [Next]_vars => LimitsInv'
  BY TickInv, ArriveInv, CheckInv, CommitInv, RefuseInv, AbortInv, StutterInv DEF Next
<1>2. QED
  BY InitInv, <1>1, PTL DEF Spec

\* The state of a limiter is well formed.
THEOREM TypeSafety == Spec => []TypeOK
<1>1. LimitsInv => TypeOK
  BY DEF LimitsInv
<1>2. QED
  BY InvariantHolds, <1>1, PTL

\* Fewer than twice the limit of attempts of one key are allowed in any stretch
\* of time shorter than a window less the stall, with any number of requests
\* (provisioning.py _AttemptLimiter.check; sessions.py _allow_attempt).
THEOREM BurstsBounded == Spec => []BurstBound
<1>1. LimitsInv => BurstBound
  BY DEF LimitsInv
<1>2. QED
  BY InvariantHolds, <1>1, PTL

-----------------------------------------------------------------------------
(* Refusals.                                                               *)

\* The opening of an entry that outlives the request's time is recent.
LEMMA Outlives ==
    ASSUME LimitsInv, NEW r \in Requests, req[r].pc = "timed", InTime(r),
           NEW t \in Nat, NEW until \in Nat, until <= t + Window, ~(until <= req[r].now)
    PROVE  Recent(t)
<1>1. clock \in Nat /\ req[r].now \in Nat /\ clock <= req[r].now + Stall
  BY Times DEF LimitsInv, InTime
<1>2. QED
  BY <1>1, Constants DEF Recent

\* Whatever is left in the table has counted recent attempts.
LEMMA LeftIsRecent ==
    ASSUME LimitsInv, NEW r \in Requests, req[r].pc = "timed", InTime(r),
           NEW k \in Keys, Before(r)[k] # None
    PROVE  \E i \in 1..Len(taken[k]) :
               Recent(taken[k][i]) /\ i + Before(r)[k].count - 1 <= Len(taken[k])
<1>1. /\ TypeOK /\ ViewOK(r) /\ EntryOK(k) /\ AheadOK(k)
      /\ clock \in Nat /\ req[r].now \in Nat /\ entries \in Table /\ req[r].view \in Table
  BY Times DEF LimitsInv
<1>2. CASE place = "zodb"
  <2> DEFINE e == req[r].view[k]
  <2>1. Before(r) = Purged(req[r].view, req[r].now)
    BY <1>2 DEF Before, Base
  <2>2. k \notin Purgeable(req[r].view, req[r].now) /\ Keeps(e, Before(r)[k])
    BY <1>1, <2>1, PurgedEntry
  <2>3. e \in Entry /\ Before(r)[k].count = e.count /\ k \in Live(req[r].view)
    BY <2>2, NoneAssumption DEF Keeps, Live
  <2>4. ~(e.until <= req[r].now)
    BY <1>2, <2>2, <2>3 DEF Purgeable, Expired
  <2>5. PICK i \in 1..Len(taken[k]) :
            i + e.count - 1 <= Len(taken[k]) /\ e.until <= taken[k][i] + Window
    BY <1>1, <1>2, <2>3 DEF ViewOK, Backed
  <2>6. taken[k][i] \in Nat /\ e.until \in Nat
    BY <1>1, <2>3, KeyFacts DEF Entry
  <2>7. Recent(taken[k][i])
    BY <2>4, <2>5, <2>6, Outlives
  <2>8. QED
    BY <2>3, <2>5, <2>7
<1>3. CASE place # "zodb"
  <2>1. Before(r) = Purged(entries, req[r].now)
    BY <1>3 DEF Before, Base
  <2>2. k \notin Purgeable(entries, req[r].now) /\ Keeps(entries[k], Before(r)[k])
    BY <1>1, <2>1, PurgedEntry
  <2>3. entries[k] # None /\ Before(r)[k].count = entries[k].count
    BY <2>2, NoneAssumption DEF Keeps
  <2>4. /\ Opening(k) \in 1..Len(taken[k]) /\ Opened(k) \in Nat
        /\ entries[k].until \in Nat /\ entries[k].until <= Opened(k) + Window
    BY <1>1, <2>3, OpeningIndex, KeyFacts DEF EntryOK
  <2>5. Recent(Opened(k))
    <3>1. CASE ~(entries[k].until <= req[r].now)
      BY <2>4, <3>1, Outlives
    <3>2. CASE entries[k].until <= req[r].now
      <4>1. k \in Expired(entries, req[r].now)
        BY <2>3, <3>2 DEF Expired, Live
      <4>2. PICK j \in entries[k].ahead : j \notin Expired(entries, req[r].now)
        BY <1>3, <2>2, <4>1 DEF Purgeable
      <4>3. j \in Keys /\ entries[j] # None /\ Opened(j) <= Opened(k)
        BY <1>1, <2>3, <4>2 DEF AheadOK, Table, Maybe, Entry
      <4>4. ~(entries[j].until <= req[r].now)
        BY <4>2, <4>3 DEF Expired, Live
      <4>5. EntryOK(j)
        BY <4>3 DEF LimitsInv
      <4>6. Opened(j) \in Nat /\ entries[j].until \in Nat /\ entries[j].until <= Opened(j) + Window
        BY <1>1, <4>3, <4>5, OpeningIndex, KeyFacts DEF EntryOK
      <4>7. Recent(Opened(j))
        BY <4>4, <4>6, Outlives
      <4>8. QED
        BY <1>1, <2>4, <4>3, <4>6, <4>7, Constants DEF Recent
    <3>3. QED
      BY <3>1, <3>2
  <2>6. Opening(k) + Before(r)[k].count - 1 <= Len(taken[k])
    BY <1>1, <2>3, KeyFacts DEF Opening
  <2>7. QED
    BY <2>4, <2>5, <2>6 DEF Opened
<1>4. QED
  BY <1>2, <1>3

LEMMA RefuseJustified ==
    ASSUME LimitsInv, NEW r \in Requests, Refuse(r)
    PROVE  /\ req'[r].refusal = "count" => CountReached(req[r].key)
           /\ req'[r].refusal = "full" => TableBusy
<1> DEFINE k == req[r].key
           v == Verdict(Before(r), k)
           busy == {j \in Keys : \E i \in 1..Len(taken[j]) : Recent(taken[j][i])}
<1>1. /\ TypeOK /\ req[r].pc = "timed" /\ InTime(r) /\ k \in Keys
      /\ End(r, v) /\ v \in Maybe(Refusals)
      /\ req[r].now \in Nat /\ entries \in Table /\ req[r].view \in Table
  BY Times DEF LimitsInv, Refuse, ViewOK, Verdict, Maybe, Refusals
<1>2. req'[r].refusal = v
  BY <1>1, EndTypes
<1>3. Before(r) \in Table
  BY <1>1, PurgedType DEF Before, Base
<1>4. CASE v = "count"
  <2>1. Before(r)[k] # None /\ Before(r)[k].count >= Limit
    BY <1>4 DEF Verdict
  <2>2. Before(r)[k].count \in Nat
    BY <1>1, <1>3, <2>1, Constants DEF Table, Maybe, Entry
  <2>3. PICK i \in 1..Len(taken[k]) :
            Recent(taken[k][i]) /\ i + Before(r)[k].count - 1 <= Len(taken[k])
    BY <1>1, <2>1, LeftIsRecent
  <2>4. Len(taken[k]) \in Nat
    BY <1>1, KeyFacts
  <2>5. Len(taken[k]) - i + 1 >= Limit
    BY <2>1, <2>2, <2>3, <2>4, Constants
  <2>6. QED
    BY <1>2, <1>4, <2>3, <2>5 DEF CountReached
<1>5. CASE v = "full"
  <2>1. Cardinality(Live(Before(r))) >= Capacity
    BY <1>5 DEF Verdict
  <2>2. Live(Before(r)) \subseteq busy
    BY <1>1, LeftIsRecent DEF Live
  <2>3. IsFiniteSet(busy)
    BY LimitsAssumption, FS_Subset
  <2>4. IsFiniteSet(Live(Before(r))) /\ Cardinality(Live(Before(r))) <= Cardinality(busy)
    BY <2>2, <2>3, FS_Subset
  <2>5. Cardinality(busy) \in Nat /\ Cardinality(Live(Before(r))) \in Nat
    BY <2>3, <2>4, FS_CardinalityType
  <2>6. Cardinality(busy) >= Capacity
    BY <2>1, <2>4, <2>5, Constants
  <2>7. QED
    BY <1>2, <1>5, <2>6 DEF TableBusy
<1>6. CASE v \notin {"count", "full"}
  BY <1>2, <1>6
<1>7. QED
  BY <1>4, <1>5, <1>6

\* A key is refused only for attempts that were allowed of late, its own or
\* those of Capacity keys (provisioning.py _AttemptLimiter.check; sessions.py
\* _allow_attempt).
THEOREM RefusalsJustified == Spec => RefusalJustified
<1> DEFINE Step == \A r \in Requests :
        /\ req[r].refusal # "count" /\ req'[r].refusal = "count" => CountReached(req[r].key)
        /\ req[r].refusal # "full" /\ req'[r].refusal = "full" => TableBusy
<1>1. ASSUME LimitsInv, [Next]_vars PROVE [Step]_vars
  <2> SUFFICES ASSUME Next, NEW r \in Requests,
                      \/ req[r].refusal # "count" /\ req'[r].refusal = "count"
                      \/ req[r].refusal # "full" /\ req'[r].refusal = "full"
               PROVE  Refuse(r)
    BY <1>1, RefuseJustified
  <2>1. req'[r] # req[r] /\ req'[r].refusal # None /\ TypeOK
    BY <1>1, NoneAssumption DEF LimitsInv, Refusals
  <2>2. ~Tick
    BY <2>1 DEF Tick
  <2>3. PICK q \in Requests : Arrive(q) \/ Check(q) \/ Commit(q) \/ Refuse(q) \/ Abort(q)
    BY <2>2 DEF Next
  <2>4. None \in Maybe(Refusals)
    BY DEF Maybe
  <2>5. q = r
    BY <2>1, <2>3 DEF TypeOK, Arrive, Check, Commit, Refuse, Abort, Allow, End
  <2>6. ~Arrive(r)
    BY <2>1 DEF TypeOK, Arrive, Idle
  <2>7. ~Check(r) /\ ~Commit(r) /\ ~Abort(r)
    BY <2>1, <2>4, EndTypes DEF Check, Commit, Abort, Allow
  <2>8. QED
    BY <2>3, <2>5, <2>6, <2>7
<1>2. QED
  BY InvariantHolds, <1>1, PTL DEF Spec, RefusalJustified

=============================================================================
