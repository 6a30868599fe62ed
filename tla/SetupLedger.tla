------------------------------ MODULE SetupLedger ------------------------------
(***************************************************************************)
(* What managed installation promises of its folders, without requests,    *)
(* statements and startup: a folder only ever moves towards the new        *)
(* runtime, all folders that an upgrade moves do so at once, and what a    *)
(* folder records exists and stays recorded.                               *)
(***************************************************************************)
EXTENDS Functions

CONSTANTS Folders, Tables, Namings, InvNamings, None

VARIABLES
    creator,     \* who created each table, or None
    phase,       \* how far each folder has got
    record,      \* names of the identity tables of each folder, or None
    invitations  \* names of its invitation tables, or None

setup == <<creator, phase, record, invitations>>

\* old: the runtime of an older release; blocked: that runtime, switched off;
\* retired: left to its manager.
Phases == {"absent", "retired", "old", "blocked", "new"}

Init ==
    /\ \A f \in Folders :
        /\ phase[f] \in {"absent", "retired", "old"}
        /\ phase[f] = "absent" <=> record[f] = None
        /\ record[f] # None => \A t \in Range(record[f]) : creator[t] = f
    /\ invitations = [f \in Folders |-> None]

Create(t) ==
    /\ creator[t] = None
    /\ \E owner \in Folders \cup {"other"} : creator' = [creator EXCEPT ![t] = owner]
    /\ UNCHANGED <<phase, record, invitations>>

\* Installation, or repair, which finds its record and keeps it.
SetUp(f) ==
    /\ phase[f] # "retired"
    /\ phase' = [phase EXCEPT ![f] = "new"]
    /\ \/ record[f] # None /\ record' = record
       \/ /\ record[f] = None
          /\ \E naming \in Namings :
              /\ \A t \in Range(naming) : creator[t] # None
              /\ record' = [record EXCEPT ![f] = naming]
    /\ UNCHANGED <<creator, invitations>>

Enable(f) ==
    /\ phase[f] \notin {"absent", "retired"}
    /\ invitations[f] = None
    /\ \E naming \in InvNamings :
        /\ \A t \in Range(naming) : creator[t] = f
        /\ invitations' = [invitations EXCEPT ![f] = naming]
    /\ UNCHANGED <<creator, phase, record>>

\* The folders of one upgrade.
Upgrade ==
    /\ \E moved \in SUBSET {f \in Folders : phase[f] \in {"old", "blocked"}} :
        \E to \in [moved -> {"blocked", "new"}] :
            phase' = [f \in Folders |-> IF f \in moved THEN to[f] ELSE phase[f]]
    /\ UNCHANGED <<creator, record, invitations>>

Next ==
    \/ \E t \in Tables : Create(t)
    \/ \E f \in Folders : SetUp(f) \/ Enable(f)
    \/ Upgrade

Spec == Init /\ [][Next]_setup
=============================================================================
