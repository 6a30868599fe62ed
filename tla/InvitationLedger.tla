--------------------------- MODULE InvitationLedger ---------------------------
(***************************************************************************)
(* What invitations promise to an application (docs/invitation-api.md,     *)
(* provisioning.py): an open invitation is accepted or revoked, once and   *)
(* for ever, and accepting it creates one new account in the same instant. *)
(* Secrets, expiry, claims and transactions belong to Invitations.         *)
(***************************************************************************)
CONSTANTS
    Invitations,
    Users,
    None

VARIABLES
    status,    \* of each invitation
    account,   \* the account each accepted invitation has created, or None
    accounts   \* the accounts that exist

ledger == <<status, account, accounts>>

Init ==
    /\ status = [i \in Invitations |-> "none"]
    /\ account = [i \in Invitations |-> None]
    /\ accounts = {}

Issue(i) ==
    /\ status[i] = "none"
    /\ status' = [status EXCEPT ![i] = "open"]
    /\ UNCHANGED <<account, accounts>>

\* An existing account is never taken over.
Accept(i, u) ==
    /\ status[i] = "open"
    /\ u \notin accounts
    /\ status' = [status EXCEPT ![i] = "accepted"]
    /\ account' = [account EXCEPT ![i] = u]
    /\ accounts' = accounts \cup {u}

Revoke(i) ==
    /\ status[i] = "open"
    /\ status' = [status EXCEPT ![i] = "revoked"]
    /\ UNCHANGED <<account, accounts>>

\* Accounts also come and go by the hand of an administrator.
Administer ==
    /\ \E u \in Users : accounts' \in {accounts \cup {u}, accounts \ {u}}
    /\ UNCHANGED <<status, account>>

Next ==
    \/ \E i \in Invitations : Issue(i) \/ Revoke(i) \/ \E u \in Users : Accept(i, u)
    \/ Administer

Spec == Init /\ [][Next]_ledger
=============================================================================
