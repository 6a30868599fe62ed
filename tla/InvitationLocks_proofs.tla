------------------------ MODULE InvitationLocks_proofs ------------------------
(***************************************************************************)
(* The requests of the invitation API never wait in a circle, for every    *)
(* number of requests and roles.  Locks are taken in one order: the row of *)
(* the invitation, the keys of the account, and the roles by rank.  A      *)
(* request that waits for the row waits for one that has got further, one  *)
(* that waits for a key waits for one that saves roles or commits, and     *)
(* one that waits for a role waits for one whose next role is larger       *)
(* (InOrder).  There is a largest role, so the waiting ends.               *)
(***************************************************************************)
EXTENDS Invitations_proofs, FiniteSetTheorems, WellFoundedInduction

\* A completion holds roles only while it saves them or commits, and has saved
\* the smaller ones first.
InOrder(r) ==
    /\ req[r].saved # {} => req[r].pc \in {"roles", "commit"}
    /\ req[r].pc = "roles" => \A x \in req[r].saved, y \in Unsaved(r) : x < y

RolesInOrder == \A r \in Requests : InOrder(r)

\* What a step of one request leaves of the others.
LEMMA OrderFrame ==
    ASSUME RolesInOrder, NEW r \in Requests, \A q \in Requests \ {r} : req'[q] = req[q],
           InOrder(r)'
    PROVE  RolesInOrder'
BY DEF RolesInOrder, InOrder, Unsaved

LEMMA SaveRoleInOrder ==
    ASSUME InvitationInv, RolesInOrder, NEW r \in Requests, SaveRole(r)
    PROVE  RolesInOrder'
<1>1. PICK x \in NextRoles(Unsaved(r)) : req' = [req EXCEPT ![r].saved = @ \cup {x}]
  BY DEF SaveRole
<1>2. req \in [Requests -> Request] /\ req[r].pc = "roles" /\ InOrder(r)
  BY DEF SaveRole, InvitationInv, TypeOK, RolesInOrder
<1>3. /\ req'[r].saved = req[r].saved \cup {x} /\ req'[r].pc = "roles"
      /\ req'[r].inv = req[r].inv /\ \A q \in Requests \ {r} : req'[q] = req[q]
  BY <1>1, <1>2 DEF Request
<1>4. req[r].inv \in Invitations
  BY <1>2, Untouched DEF Created
<1>5. Unsaved(r) \subseteq Nat /\ x \in Unsaved(r) /\ \A y \in Unsaved(r) : x <= y
  BY <1>4, InvitationsAssumption DEF NextRoles, Unsaved
<1>6. Unsaved(r)' = Unsaved(r) \ {x}
  BY <1>3 DEF Unsaved
<1>7. ASSUME NEW z \in req'[r].saved, NEW y \in Unsaved(r)'
      PROVE  z < y
  <2>1. CASE z \in req[r].saved
    BY <1>2, <1>6, <2>1 DEF InOrder
  <2>2. CASE z = x
    <3>1. y \in Nat /\ x \in Nat /\ x <= y /\ x # y
      BY <1>5, <1>6
    <3>2. QED
      BY <2>2, <3>1
  <2>3. QED
    BY <1>3, <2>1, <2>2
<1>8. InOrder(r)'
  BY <1>3, <1>7 DEF InOrder
<1>9. QED
  BY <1>3, <1>8, OrderFrame

\* Every other step of a request takes no role: it keeps those it has until the
\* commit, or gives them back.
LEMMA StepInOrder ==
    ASSUME InvitationInv, RolesInOrder, NEW r \in Requests,
           Start(r) \/ Progress(r) \/ Abort(r), ~ SaveRole(r)
    PROVE  RolesInOrder'
<1>1. req \in [Requests -> Request] /\ InOrder(r)
  BY DEF InvitationInv, TypeOK, RolesInOrder
<1>2. \A q \in Requests \ {r} : req'[q] = req[q]
  BY <1>1 DEF Start, Progress, Abort, Lookup, StartRotate, StartRevoke, Identify, Claim,
     InsertUser, Consume, Commit, Update, ReadBack, CommitHeld, Refuse, End
<1>3. CASE Start(r)
  <2>1. req'[r].saved = {}
    BY <1>1, <1>3 DEF Start, Lookup, StartRotate, StartRevoke, New
  <2>2. QED
    BY <1>2, <2>1, OrderFrame DEF InOrder
<1>4. CASE \E answer : End(r, answer)
  <2>1. req'[r].saved = {}
    BY <1>1, <1>4 DEF End, Request
  <2>2. QED
    BY <1>2, <2>1, OrderFrame DEF InOrder
<1>5. CASE Identify(r) \/ Claim(r) \/ InsertUser(r) \/ Update(r)
  <2>1. CASE Refuse(r)
    BY <1>4, <2>1 DEF Refuse
  <2>2. CASE ~ Refuse(r)
    <3>1. req'[r].saved = req[r].saved /\ req[r].pc \notin {"roles", "commit"}
      BY <1>1, <1>5, <2>2 DEF Identify, Claim, InsertUser, Update, Request
    <3>2. QED
      BY <1>1, <1>2, <3>1, OrderFrame DEF InOrder
  <2>3. QED
    BY <2>1, <2>2
<1>6. CASE Consume(r)
  <2>1. CASE Refuse(r)
    BY <1>4, <2>1 DEF Refuse
  <2>2. CASE ~ Refuse(r)
    <3>1. req'[r].pc = "commit"
      BY <1>1, <1>6, <2>2 DEF Consume, Request
    <3>2. QED
      BY <1>2, <3>1, OrderFrame DEF InOrder
  <2>3. QED
    BY <2>1, <2>2
<1>7. CASE Commit(r) \/ ReadBack(r) \/ CommitHeld(r) \/ Abort(r)
  BY <1>4, <1>7 DEF Commit, ReadBack, CommitHeld, Abort, Refuse
<1>8. QED
  BY <1>3, <1>5, <1>6, <1>7 DEF Progress

LEMMA NextInOrder == InvitationInv /\ RolesInOrder /\ [Next]_vars => RolesInOrder'
<1> SUFFICES ASSUME InvitationInv, RolesInOrder, [Next]_vars
             PROVE  RolesInOrder'
  OBVIOUS
<1>1. ASSUME NEW r \in Requests, Start(r) \/ Progress(r) \/ Abort(r)
      PROVE  RolesInOrder'
  BY <1>1, SaveRoleInOrder, StepInOrder
<1>2. CASE req' = req
  BY <1>2 DEF RolesInOrder, InOrder, Unsaved
<1>3. QED
  BY <1>1, <1>2 DEF Next, vars, CreateInvitation, AdminDelete, AdminSave, Tick

LEMMA AlwaysInOrder == Spec => [](InvitationInv /\ RolesInOrder)
<1>1. Init => RolesInOrder
  BY DEF Init, New, RolesInOrder, InOrder
<1>2. QED
  BY <1>1, NextInOrder, AlwaysInv, PTL DEF Spec

-----------------------------------------------------------------------------
(* Smallest and largest roles.                                             *)

LEMMA SmallestOf ==
    ASSUME NEW S \in SUBSET Nat, S # {}
    PROVE  \E x \in S : \A y \in S : x <= y
<1>1. \E x \in S : \A y \in S : ~ (<<y, x>> \in OpToRel(<, Nat))
  BY NatLessThanWellFounded, WFMin, Zenon
<1>2. \A x, y \in S : ~ (<<y, x>> \in OpToRel(<, Nat)) => x <= y
  BY SMT DEF OpToRel
<1>3. QED
  BY <1>1, <1>2

\* From the smallest of the sets of elements at or above one of them.
LEMMA LargestOf ==
    ASSUME NEW S \in SUBSET Nat, IsFiniteSet(S), S # {}
    PROVE  \E x \in S : \A y \in S : y <= x
<1> DEFINE Above(x) == {y \in S : x <= y}
           T == {Above(x) : x \in S}
<1>1. T \subseteq FiniteSubsetsOf(S)
  BY FS_FiniteSubsetsOfFinite
<1>2. T # {}
  OBVIOUS
<1> HIDE DEF T
<1>3. \E U \in T : \A V \in T : ~ (<<V, U>> \in StrictSubsetOrdering(S))
  BY <1>1, <1>2, FS_StrictSubsetOrderingWellFounded, WFMin, Zenon
<1> USE DEF T
<1>4. PICK x \in S : \A y \in S : ~ (<<Above(y), Above(x)>> \in StrictSubsetOrdering(S))
  BY <1>3
<1>5. ASSUME NEW y \in S, ~ (y <= x)
      PROVE  FALSE
  <2>1. \A z \in S : y <= z => x <= z
    BY <1>5
  <2>2. x \in Above(x) /\ x \notin Above(y)
    BY <1>5
  <2>3. <<Above(y), Above(x)>> \in StrictSubsetOrdering(S)
    BY <2>1, <2>2 DEF StrictSubsetOrdering
  <2>4. QED
    BY <1>4, <2>3
<1>6. QED
  BY <1>5

-----------------------------------------------------------------------------
(* The theorems.                                                           *)

\* A request that waits for nobody can execute its next statement: there is no
\* other reason to wait than a lock that WaitsFor names.
THEOREM OnlyHoldersBlock ==
    ASSUME InvitationInv, NEW r \in Requests, WaitsFor(r) = {}
    PROVE  /\ req[r].pc \in {"claim", "update"} => RowFree(req[r].inv, r)
           /\ req[r].pc = "insert" => AccountFree(req[r].user, req[r].login, r)
           /\ req[r].pc = "roles" =>
                  Unsaved(r) = {} \/ \E x \in NextRoles(Unsaved(r)) : RoleFree(x, r)
<1>1. \A q \in Requests \ {r} : ~ Blocks(q, r)
  BY DEF WaitsFor
<1>2. ASSUME req[r].pc = "roles", Unsaved(r) # {}
      PROVE  \E x \in NextRoles(Unsaved(r)) : RoleFree(x, r)
  <2>1. Unsaved(r) \in SUBSET Nat
    BY <1>2, Untouched, InvitationsAssumption DEF Unsaved, Created
  <2>2. PICK x \in Unsaved(r) : \A y \in Unsaved(r) : x <= y
    BY <1>2, <2>1, SmallestOf
  <2>3. x \in NextRoles(Unsaved(r))
    BY <2>2 DEF NextRoles
  <2>4. RoleFree(x, r)
    BY <1>1, <1>2, <2>3 DEF Blocks, RoleFree
  <2>5. QED
    BY <2>3, <2>4
<1>3. QED
  BY <1>1, <1>2 DEF Blocks, RowFree, AccountFree

\* Of completions that all save roles, the one whose next role is the largest
\* waits for none of them.
LEMMA LargestNextRole ==
    ASSUME InvitationInv, RolesInOrder, NEW S \in SUBSET Requests, S # {},
           \A r \in S : req[r].pc = "roles" /\ NextRoles(Unsaved(r)) # {}
    PROVE  \E r \in S : \A q \in S : ~ Blocks(q, r)
<1> DEFINE N == UNION {NextRoles(Unsaved(r)) : r \in S}
<1>1. \A r \in S : Unsaved(r) \subseteq Roles
  BY Untouched, InvitationsAssumption DEF Unsaved, Created
<1>2. N \in SUBSET Roles
  BY <1>1 DEF NextRoles
<1>3. N # {}
  OBVIOUS
<1>4. N \in SUBSET Nat /\ IsFiniteSet(N)
  BY <1>2, InvitationsAssumption, FS_Subset
<1> HIDE DEF N
<1>5. PICK m \in N : \A y \in N : y <= m
  BY <1>3, <1>4, LargestOf
<1> USE DEF N
<1>6. PICK r \in S : m \in NextRoles(Unsaved(r))
  OBVIOUS
<1>7. ASSUME NEW q \in S, Blocks(q, r)
      PROVE  FALSE
  <2>1. PICK x \in NextRoles(Unsaved(r)) : x \in req[q].saved
    BY <1>7 DEF Blocks
  <2>2. x = m
    <3>1. x \in Nat /\ m \in Nat /\ x <= m /\ m <= x
      BY <1>1, <1>6, InvitationsAssumption DEF NextRoles
    <3>2. QED
      BY <3>1
  <2>3. PICK y \in NextRoles(Unsaved(q)) : TRUE
    OBVIOUS
  <2>4. y \in N /\ y \in Unsaved(q)
    BY DEF NextRoles
  <2>5. x < y
    BY <2>1, <2>4 DEF RolesInOrder, InOrder
  <2>6. y <= m /\ y \in Nat /\ m \in Nat
    BY <1>4, <1>5, <2>4
  <2>7. QED
    BY <2>2, <2>5, <2>6
<1>8. QED
  BY <1>7

LEMMA NobodyInACircle == InvitationInv /\ RolesInOrder => NoCircularWait
<1> SUFFICES ASSUME InvitationInv, RolesInOrder, NEW S \in SUBSET Requests, S # {}
             PROVE  \E r \in S : \A q \in S : ~ Blocks(q, r)
  BY DEF NoCircularWait, WaitsFor
<1>1. CASE \E r \in S : req[r].pc \notin {"claim", "update", "insert", "roles"}
  BY <1>1 DEF Blocks
<1>2. CASE \E r \in S : req[r].pc = "roles" /\ NextRoles(Unsaved(r)) = {}
  BY <1>2 DEF Blocks
<1>3. CASE /\ \E r \in S : req[r].pc = "roles"
           /\ \A r \in S : req[r].pc \in {"claim", "update", "insert", "roles"}
           /\ \A r \in S : req[r].pc = "roles" => NextRoles(Unsaved(r)) # {}
  <2> DEFINE R == {r \in S : req[r].pc = "roles"}
  <2>1. PICK r \in R : \A q \in R : ~ Blocks(q, r)
    BY <1>3, LargestNextRole
  <2>2. \A q \in S \ R : req[q].saved = {}
    BY <1>3 DEF RolesInOrder, InOrder
  <2>3. \A q \in S : ~ Blocks(q, r)
    BY <2>1, <2>2 DEF Blocks
  <2>4. QED
    BY <2>3
<1>4. CASE /\ \E r \in S : req[r].pc = "insert"
           /\ \A r \in S : req[r].pc \in {"claim", "update", "insert"}
  BY <1>4 DEF Blocks, HoldsAccount
<1>5. CASE \A r \in S : req[r].pc \in {"claim", "update"}
  BY <1>5 DEF Blocks, HoldsRow
<1>6. QED
  BY <1>1, <1>2, <1>3, <1>4, <1>5

\* Requests of the invitation API never wait in a circle, however many there
\* are and whatever roles their invitations carry.
THEOREM NeverCircular == Spec => []NoCircularWait
BY AlwaysInOrder, NobodyInACircle, PTL
=============================================================================
