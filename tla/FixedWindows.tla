----------------------------- MODULE FixedWindows -----------------------------
(***************************************************************************)
(* What an attempt limiter promises, without requests, views and queues: a *)
(* key has at most one window, each allowed attempt is counted in it, its  *)
(* end is fixed when it opens, and it is closed only after that end.       *)
(***************************************************************************)
EXTENDS Integers

CONSTANTS Keys, Limit, Window, Stall, None

VARIABLES
    clock,
    window,  \* end of the window of each key and attempts counted in it, or None
    allowed  \* attempts of each key that were allowed

windows == <<clock, window, allowed>>

Init ==
    /\ clock = 0
    /\ window = [k \in Keys |-> None]
    /\ allowed = [k \in Keys |-> 0]

Expired == {k \in Keys : window[k] # None /\ window[k].until <= clock}

\* Windows that have ended may be closed, or left open for a while.
Closed(gone) == [k \in Keys |-> IF k \in gone THEN None ELSE window[k]]

\* The end follows from a time that is at most Stall old.
Open(k, gone) ==
    /\ Closed(gone)[k] = None
    /\ \E now \in (clock - Stall)..clock :
        window' = [Closed(gone) EXCEPT ![k] = [until |-> now + Window, count |-> 1]]

Count(k, gone) ==
    /\ Closed(gone)[k] # None
    /\ Closed(gone)[k].count < Limit
    /\ window' = [Closed(gone) EXCEPT ![k].count = @ + 1]

Attempt(k) ==
    /\ \E gone \in SUBSET Expired : Open(k, gone) \/ Count(k, gone)
    /\ allowed' = [allowed EXCEPT ![k] = @ + 1]
    /\ clock' = clock

Purge ==
    /\ \E gone \in SUBSET Expired : window' = Closed(gone)
    /\ UNCHANGED <<clock, allowed>>

Advance ==
    /\ clock' = clock + 1
    /\ UNCHANGED <<window, allowed>>

Next == Advance \/ Purge \/ \E k \in Keys : Attempt(k)

Spec == Init /\ [][Next]_windows
=============================================================================
