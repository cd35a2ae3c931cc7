-------------------------- MODULE MembershipProofs --------------------------
(***************************************************************************)
(* Proofs about an organization's members and invitations, for any number  *)
(* of users, concurrent requests and invitations.                          *)
(***************************************************************************)
EXTENDS Membership, TLAPS

Taking(q) == request[q].pc = "commit" /\ TakesOwner(q)

\* A member's row is held by one transaction. Without an overlap one
\* transaction at most takes an owner, and it leaves another one.
OwnerInv ==
    /\ \A p, q \in Requests :
            request[p].pc = "commit" /\ request[q].pc = "commit"
                /\ request[p].target = request[q].target => p = q
    /\ ~overlapped =>
            /\ HasOwner
            /\ \A p, q \in Requests : Taking(p) /\ Taking(q) => p = q
            /\ \A q \in Requests : Taking(q) => OtherOwner(q)

\* An owner has been one; whoever acts on an owner's row, makes an owner or
\* invites one was an owner at the time.
WordInv ==
    /\ \A u \in Users : role[u] = "owner" => u \in everOwner
    /\ \A q \in Requests : request[q].callerRole = "owner" => request[q].caller \in everOwner
    /\ \A q \in Requests :
            request[q].pc # "idle" =>
                /\ request[q].target \in Users
                /\ request[q].to = "owner" => request[q].callerRole = "owner"
    /\ \A q \in Requests :
            request[q].pc = "commit" /\ role[request[q].target] = "owner" =>
                request[q].callerRole = "owner"
    /\ \A i \in Invitations : invitation[i].role = "owner" => invitation[i].by \in everOwner

\* A pending invitation is somebody's; one that is being accepted is pending.
AcceptInv ==
    /\ \A i \in Invitations : invitation[i].status = "pending" => invitation[i].user \in Users
    /\ \A i \in accepting : invitation[i].status = "pending"

MembershipInv == TypeOK /\ OwnerInv /\ WordInv /\ AcceptInv

-----------------------------------------------------------------------------
(* What the guards say.                                                    *)

\* Nobody but an owner reaches the owner role.
LEMMA OnlyOwnersReachOwners ==
    ASSUME NEW c \in Rows, MayTouch(c, "owner") PROVE c = "owner"
  BY DEF MayTouch, HasOrganizationRole, OrganizationRoleRank, Rows, Roles

LEMMA MembershipInit == Init => MembershipInv
<1> SUFFICES ASSUME Init PROVE MembershipInv
  OBVIOUS
<1>1. TypeOK
  <2>1. role \in [Users -> Rows] /\ everOwner \subseteq Users
    BY MembershipAssumption DEF Init, Rows, Roles
  <2>2. overlapped \in BOOLEAN
    BY DEF Init
  <2>3. /\ request \in [Requests ->
              [pc : {"idle", "apply", "commit"}, caller : Users \cup {None}, callerRole : Rows,
               target : Users \cup {None}, to : Rows]]
    BY DEF Init, Idle, Rows
  <2>4. /\ invitation \in [Invitations ->
              [status : {"none", "pending", "accepted", "revoked"}, user : Users \cup {None},
               role : Rows, by : Users \cup {None}, expired : BOOLEAN]]
        /\ \A i \in Invitations : invitation[i].status = "none"
        /\ accepting \subseteq Invitations
    BY DEF Init, NoInvitation, Rows
  <2> QED
    BY <2>1, <2>2, <2>3, <2>4 DEF TypeOK
<1>2. OwnerInv
  BY MembershipAssumption DEF Init, OwnerInv, Idle, HasOwner, Taking
<1>3. WordInv
  BY DEF Init, WordInv, Idle, NoInvitation
<1>4. AcceptInv
  BY DEF Init, AcceptInv, NoInvitation
<1> QED
  BY <1>1, <1>2, <1>3, <1>4 DEF MembershipInv

-----------------------------------------------------------------------------
(* Steps that leave the members and their requests alone.                  *)

\* Sending, expiring, revoking and checking invitations do not concern owners.
LEMMA MembersUnchanged ==
    ASSUME OwnerInv, UNCHANGED <<role, request, overlapped>>
    PROVE  OwnerInv'
  BY DEF OwnerInv, Taking, TakesOwner, OtherOwner, HasOwner

LEMMA InvitationsUnchanged ==
    ASSUME AcceptInv, UNCHANGED <<invitation, accepting>>
    PROVE  AcceptInv'
  BY DEF AcceptInv

-----------------------------------------------------------------------------
(* The steps of changeMemberRole and removeMember.                         *)

LEMMA SendKeepsInv ==
    ASSUME MembershipInv, NEW q \in Requests, NEW u \in Users, NEW v \in Users, NEW to \in Rows,
           SendStatement(q, u, v, to)
    PROVE  MembershipInv'
<1> USE DEF SendStatement, MembershipInv
<1>1. TypeOK'
  BY DEF TypeOK
<1>2. OwnerInv'
  BY DEF TypeOK, OwnerInv, Taking, TakesOwner, OtherOwner, HasOwner
<1>3. WordInv'
  <2>1. role[u] = "owner" => u \in everOwner
    BY DEF WordInv
  <2>2. to = "owner" => role[u] = "owner"
    BY OnlyOwnersReachOwners DEF TypeOK
  <2>3. request'[q] = [pc |-> "apply", caller |-> u, callerRole |-> role[u], target |-> v, to |-> to]
        /\ \A p \in Requests \ {q} : request'[p] = request[p]
    BY DEF TypeOK
  <2> QED
    BY <2>1, <2>2, <2>3 DEF WordInv
<1>4. AcceptInv'
  BY InvitationsUnchanged
<1> QED
  BY <1>1, <1>2, <1>3, <1>4

LEMMA ApplyKeepsInv ==
    ASSUME MembershipInv, NEW q \in Requests, ApplyStatement(q)
    PROVE  MembershipInv'
<1> USE DEF MembershipInv
<1>1. TypeOK'
  <2>1. /\ request' \in [Requests ->
              [pc : {"idle", "apply", "commit"}, caller : Users \cup {None}, callerRole : Rows,
               target : Users \cup {None}, to : Rows]]
    <3>1. CASE request' = [request EXCEPT ![q] = Idle]
      BY <3>1 DEF TypeOK, Idle, Rows
    <3>2. CASE request' = [request EXCEPT ![q].pc = "commit"]
      BY <3>2 DEF TypeOK
    <3> QED
      BY <3>1, <3>2 DEF ApplyStatement
  <2>2. overlapped' \in BOOLEAN
    BY Zenon DEF ApplyStatement, TypeOK, OverlapsAnother
  <2> QED
    BY <2>1, <2>2 DEF ApplyStatement, TypeOK
<1>2. AcceptInv'
  BY InvitationsUnchanged DEF ApplyStatement
<1>3. CASE request' = [request EXCEPT ![q] = Idle] /\ UNCHANGED overlapped
  <2>1. request'[q] = Idle /\ \A p \in Requests \ {q} : request'[p] = request[p]
    BY <1>3 DEF TypeOK
  <2>2. OwnerInv'
    BY <1>3, <2>1 DEF ApplyStatement, OwnerInv, Taking, TakesOwner, OtherOwner, HasOwner, Idle
  <2>3. WordInv'
    BY <1>3, <2>1 DEF ApplyStatement, WordInv, Idle
  <2> QED
    BY <1>1, <1>2, <2>2, <2>3
<1>4. CASE /\ PoliciesStillHold(q)
           /\ TakesOwner(q) => OtherOwner(q)
           /\ request' = [request EXCEPT ![q].pc = "commit"]
           /\ overlapped' = (overlapped \/ OverlapsAnother(q))
  <2>1. /\ request'[q].pc = "commit" /\ request'[q].target = request[q].target
        /\ request'[q].to = request[q].to /\ request'[q].caller = request[q].caller
        /\ request'[q].callerRole = request[q].callerRole
        /\ \A p \in Requests \ {q} : request'[p] = request[p]
    BY <1>4 DEF TypeOK
  <2>2. request[q].pc = "apply" /\ ~Locked(request[q].target) /\ role' = role
    BY DEF ApplyStatement
  <2>3. \A p \in Requests : /\ TakesOwner(p)' <=> TakesOwner(p)
                            /\ OtherOwner(p)' <=> OtherOwner(p)
    BY <2>1, <2>2 DEF TakesOwner, OtherOwner
  <2>4. \A p \in Requests \ {q} : Taking(p)' <=> Taking(p)
    BY <2>1, <2>3 DEF Taking
  <2>5. OwnerInv'
    <3>1. \A p, r \in Requests :
              request'[p].pc = "commit" /\ request'[r].pc = "commit"
                  /\ request'[p].target = request'[r].target => p = r
      BY <2>1, <2>2 DEF OwnerInv, Locked
    <3>2. ASSUME ~overlapped' PROVE HasOwner'
      BY <1>4, <2>2, <3>2 DEF OwnerInv, HasOwner
    <3>3. ASSUME ~overlapped', Taking(q)' PROVE \A p \in Requests \ {q} : ~Taking(p)'
      <4>1. TakesOwner(q) /\ ~OverlapsAnother(q)
        BY <1>4, <2>3, <3>3 DEF Taking
      <4> QED
        BY <4>1, <2>4 DEF OverlapsAnother, Taking
    <3>4. ASSUME ~overlapped' PROVE \A p, r \in Requests : Taking(p)' /\ Taking(r)' => p = r
      BY <1>4, <2>4, <3>3, <3>4 DEF OwnerInv
    <3>5. ASSUME ~overlapped' PROVE \A p \in Requests : Taking(p)' => OtherOwner(p)'
      BY <1>4, <2>3, <2>4, <3>5 DEF OwnerInv, Taking
    <3> QED
      BY <3>1, <3>2, <3>4, <3>5 DEF OwnerInv
  <2>6. WordInv'
    <3>1. role[request[q].target] = "owner" => request[q].callerRole = "owner"
      BY <1>4, OnlyOwnersReachOwners DEF PoliciesStillHold, TypeOK
    <3>2. everOwner' = everOwner /\ invitation' = invitation
      BY DEF ApplyStatement
    <3> QED
      BY <2>1, <2>2, <3>1, <3>2 DEF WordInv
  <2> QED
    BY <1>1, <1>2, <2>5, <2>6
<1> QED
  BY <1>3, <1>4 DEF ApplyStatement

LEMMA CommitKeepsInv ==
    ASSUME MembershipInv, NEW q \in Requests, CommitStatement(q)
    PROVE  MembershipInv'
<1> USE DEF MembershipInv
<1> DEFINE v == request[q].target
           to == request[q].to
<1>1. /\ v \in Users /\ to \in Rows /\ request[q].pc = "commit"
      /\ UNCHANGED <<invitation, accepting, overlapped>>
  BY DEF CommitStatement, WordInv, TypeOK
<1>2. role' = [role EXCEPT ![v] = to]
  BY DEF CommitStatement
<1>3. everOwner' = IF to = "owner" THEN everOwner \cup {v} ELSE everOwner
  BY DEF CommitStatement
<1>4. request'[q] = Idle
  BY DEF CommitStatement
<1>5. \A p \in Requests : request'[p] = Idle \/ request'[p] = request[p]
  BY DEF CommitStatement
<1>6. \A u \in Users : role'[u] = IF u = v THEN to ELSE role[u]
  BY <1>1, <1>2 DEF TypeOK
<1>7. TypeOK'
  <2>1. role' \in [Users -> Rows] /\ everOwner' \subseteq Users
    BY <1>1, <1>2, <1>3 DEF TypeOK
  <2>2. DOMAIN request' = Requests /\ request' = [p \in Requests |-> request'[p]]
    BY DEF CommitStatement
  <2>3. /\ request' \in [Requests ->
              [pc : {"idle", "apply", "commit"}, caller : Users \cup {None}, callerRole : Rows,
               target : Users \cup {None}, to : Rows]]
    BY <1>5, <2>2 DEF TypeOK, Idle, Rows
  <2> QED
    BY <1>1, <2>1, <2>3 DEF TypeOK
<1>8. \* The other open transactions hold other rows, which stay as they are.
      \A p \in Requests :
          request'[p].pc = "commit" =>
              /\ p # q /\ request'[p] = request[p] /\ request[p].target # v
              /\ role'[request[p].target] = role[request[p].target]
  <2> SUFFICES ASSUME NEW p \in Requests, request'[p].pc = "commit"
               PROVE  /\ p # q /\ request'[p] = request[p] /\ request[p].target # v
                      /\ role'[request[p].target] = role[request[p].target]
    OBVIOUS
  <2>1. p # q /\ request'[p] = request[p]
    BY <1>4, <1>5 DEF Idle
  <2>2. request[p].target # v
    BY <1>1, <2>1 DEF OwnerInv
  <2>3. request[p].target \in Users
    BY <2>1 DEF WordInv
  <2> QED
    BY <1>6, <2>1, <2>2, <2>3
<1>9. OwnerInv'
  <2>1. \A p \in Requests : Taking(p)' => p # q /\ Taking(p)
    BY <1>8 DEF Taking, TakesOwner
  <2>2. CASE Taking(q)
    <3>1. ~overlapped => \A p \in Requests : ~Taking(p)'
      BY <2>1, <2>2 DEF OwnerInv
    <3>2. ~overlapped => HasOwner'
      BY <1>6, <2>2 DEF OwnerInv, OtherOwner, HasOwner
    <3> QED
      BY <1>1, <1>8, <3>1, <3>2 DEF OwnerInv
  <2>3. CASE ~Taking(q)
    <3>1. \A u \in Users : role[u] = "owner" => role'[u] = "owner"
      BY <1>1, <1>6, <2>3 DEF Taking, TakesOwner
    <3>2. \A p \in Requests : Taking(p)' /\ OtherOwner(p) => OtherOwner(p)'
      BY <1>8, <3>1 DEF Taking, OtherOwner
    <3>3. HasOwner => HasOwner'
      BY <3>1 DEF HasOwner
    <3> QED
      BY <1>1, <1>8, <2>1, <3>2, <3>3 DEF OwnerInv
  <2> QED
    BY <2>2, <2>3
<1>10. WordInv'
  <2>1. \A u \in Users : role'[u] = "owner" => u \in everOwner'
    BY <1>3, <1>6 DEF WordInv
  <2>2. \A p \in Requests :
            /\ request'[p].callerRole = "owner" => request'[p].caller \in everOwner'
            /\ request'[p].pc # "idle" =>
                  /\ request'[p].target \in Users
                  /\ request'[p].to = "owner" => request'[p].callerRole = "owner"
    BY <1>3, <1>5 DEF WordInv, Idle
  <2>3. \A p \in Requests :
            request'[p].pc = "commit" /\ role'[request'[p].target] = "owner" =>
                request'[p].callerRole = "owner"
    BY <1>8 DEF WordInv
  <2>4. \A i \in Invitations : invitation'[i].role = "owner" => invitation'[i].by \in everOwner'
    BY <1>1, <1>3 DEF WordInv
  <2> QED
    BY <2>1, <2>2, <2>3, <2>4 DEF WordInv
<1>11. AcceptInv'
  BY <1>1, InvitationsUnchanged
<1> QED
  BY <1>7, <1>9, <1>10, <1>11

-----------------------------------------------------------------------------
(* The steps of an invitation.                                             *)

LEMMA InviteKeepsInv ==
    ASSUME MembershipInv, NEW i \in Invitations, NEW u \in Users, NEW v \in Users, NEW r \in Roles,
           InviteMember(i, u, v, r)
    PROVE  MembershipInv'
<1> USE DEF MembershipInv, InviteMember
<1>1. invitation'[i] = [status |-> "pending", user |-> v, role |-> r, by |-> u, expired |-> FALSE]
      /\ \A j \in Invitations \ {i} : invitation'[j] = invitation[j]
  BY DEF TypeOK
<1>2. TypeOK'
  <2>1. /\ invitation' \in [Invitations ->
              [status : {"none", "pending", "accepted", "revoked"}, user : Users \cup {None},
               role : Rows, by : Users \cup {None}, expired : BOOLEAN]]
    BY DEF TypeOK, Rows
  <2>2. \A j, k \in Invitations :
            invitation'[j].status = "pending" /\ invitation'[k].status = "pending"
                /\ invitation'[j].user = invitation'[k].user => j = k
    BY <1>1 DEF TypeOK, NonePending
  <2>3. \A j \in Invitations : invitation'[j].status # "none" => invitation'[j].by \in Users
    BY <1>1 DEF TypeOK
  <2> QED
    BY <2>1, <2>2, <2>3 DEF TypeOK
<1>3. OwnerInv'
  BY MembersUnchanged
<1>4. WordInv'
  <2>1. r = "owner" => u \in everOwner
    BY OnlyOwnersReachOwners DEF TypeOK, WordInv
  <2> QED
    BY <1>1, <2>1 DEF WordInv
<1>5. AcceptInv'
  BY <1>1 DEF AcceptInv, TypeOK
<1> QED
  BY <1>2, <1>3, <1>4, <1>5

LEMMA ExpireKeepsInv ==
    ASSUME MembershipInv, NEW i \in Invitations, ExpireInvitation(i)
    PROVE  MembershipInv'
<1> USE DEF MembershipInv, ExpireInvitation
<1>1. /\ \A j \in Invitations :
            /\ invitation'[j].status = invitation[j].status
            /\ invitation'[j].user = invitation[j].user
            /\ invitation'[j].role = invitation[j].role
            /\ invitation'[j].by = invitation[j].by
  BY DEF TypeOK
<1>2. TypeOK'
  <2>1. /\ invitation' \in [Invitations ->
              [status : {"none", "pending", "accepted", "revoked"}, user : Users \cup {None},
               role : Rows, by : Users \cup {None}, expired : BOOLEAN]]
    BY DEF TypeOK
  <2> QED
    BY <1>1, <2>1 DEF TypeOK
<1>3. OwnerInv' /\ WordInv' /\ AcceptInv'
  BY <1>1, MembersUnchanged DEF WordInv, AcceptInv, TypeOK
<1> QED
  BY <1>2, <1>3

LEMMA RevokeKeepsInv ==
    ASSUME MembershipInv, NEW i \in Invitations, NEW u \in Users, RevokeInvitation(i, u)
    PROVE  MembershipInv'
<1> USE DEF MembershipInv, RevokeInvitation
<1>1. /\ invitation'[i].status = "revoked"
      /\ \A j \in Invitations \ {i} : invitation'[j] = invitation[j]
      /\ \A j \in Invitations :
            /\ invitation'[j].user = invitation[j].user
            /\ invitation'[j].role = invitation[j].role
            /\ invitation'[j].by = invitation[j].by
  BY DEF TypeOK
<1>2. TypeOK'
  <2>1. /\ invitation' \in [Invitations ->
              [status : {"none", "pending", "accepted", "revoked"}, user : Users \cup {None},
               role : Rows, by : Users \cup {None}, expired : BOOLEAN]]
    BY DEF TypeOK
  <2> QED
    BY <1>1, <2>1 DEF TypeOK
<1>3. OwnerInv' /\ WordInv'
  BY <1>1, MembersUnchanged DEF WordInv
<1>4. AcceptInv'
  BY <1>1 DEF AcceptInv, RowIsFree, TypeOK
<1> QED
  BY <1>2, <1>3, <1>4

LEMMA CheckKeepsInv ==
    ASSUME MembershipInv, NEW i \in Invitations, CheckInvitation(i)
    PROVE  MembershipInv'
<1> USE DEF MembershipInv, CheckInvitation
<1>1. TypeOK'
  BY DEF TypeOK
<1>2. OwnerInv' /\ WordInv'
  BY MembersUnchanged DEF WordInv
<1> QED
  BY <1>1, <1>2 DEF AcceptInv

LEMMA AcceptKeepsInv ==
    ASSUME MembershipInv, NEW i \in Invitations, AcceptInvitation(i)
    PROVE  MembershipInv'
<1> USE DEF MembershipInv
<1> DEFINE v == invitation[i].user
           r == invitation[i].role
<1>1. /\ i \in accepting /\ accepting' = accepting \ {i} /\ ~Locked(v)
      /\ UNCHANGED <<request, overlapped>>
  BY DEF AcceptInvitation
<1>2. role' = IF role[v] = "none" THEN [role EXCEPT ![v] = r] ELSE role
  BY DEF AcceptInvitation
<1>3. everOwner' = IF role[v] = "none" /\ r = "owner" THEN everOwner \cup {v} ELSE everOwner
  BY DEF AcceptInvitation
<1>4. invitation' = [invitation EXCEPT ![i].status = "accepted"]
  BY DEF AcceptInvitation
<1>5. v \in Users /\ r \in Rows /\ invitation[i].status = "pending"
  BY <1>1 DEF AcceptInv, TypeOK
<1>6. \A u \in Users : role'[u] = IF u = v /\ role[v] = "none" THEN r ELSE role[u]
  BY <1>2, <1>5 DEF TypeOK
<1>7. /\ invitation'[i].status = "accepted"
      /\ \A j \in Invitations \ {i} : invitation'[j] = invitation[j]
      /\ \A j \in Invitations :
            /\ invitation'[j].user = invitation[j].user
            /\ invitation'[j].role = invitation[j].role
            /\ invitation'[j].by = invitation[j].by
  BY <1>4 DEF TypeOK
<1>8. TypeOK'
  <2>1. role' \in [Users -> Rows] /\ everOwner' \subseteq Users
    BY <1>2, <1>3, <1>5 DEF TypeOK
  <2>2. /\ invitation' \in [Invitations ->
              [status : {"none", "pending", "accepted", "revoked"}, user : Users \cup {None},
               role : Rows, by : Users \cup {None}, expired : BOOLEAN]]
    BY <1>4 DEF TypeOK
  <2>3. \A j, k \in Invitations :
            invitation'[j].status = "pending" /\ invitation'[k].status = "pending"
                /\ invitation'[j].user = invitation'[k].user => j = k
    BY <1>7 DEF TypeOK
  <2>4. \A j \in Invitations : invitation'[j].status # "none" => invitation'[j].by \in Users
    BY <1>5, <1>7 DEF TypeOK
  <2> QED
    BY <1>1, <2>1, <2>2, <2>3, <2>4 DEF TypeOK
<1>9. \* No owner is lost, and no row that a transaction holds has changed.
      /\ \A u \in Users : role[u] = "owner" => role'[u] = "owner"
      /\ \A p \in Requests :
            request[p].pc = "commit" => role'[request[p].target] = role[request[p].target]
  BY <1>1, <1>6 DEF Locked, WordInv
<1>10. OwnerInv'
  <2>1. HasOwner => HasOwner'
    BY <1>9 DEF HasOwner
  <2>2. \A p \in Requests : Taking(p)' <=> Taking(p)
    BY <1>1, <1>9 DEF Taking, TakesOwner
  <2>3. \A p \in Requests : OtherOwner(p) => OtherOwner(p)'
    BY <1>1, <1>9 DEF OtherOwner
  <2> QED
    BY <1>1, <2>1, <2>2, <2>3 DEF OwnerInv
<1>11. WordInv'
  BY <1>1, <1>3, <1>6, <1>7, <1>9 DEF WordInv
<1>12. AcceptInv'
  BY <1>1, <1>7 DEF AcceptInv, TypeOK
<1> QED
  BY <1>8, <1>10, <1>11, <1>12

-----------------------------------------------------------------------------
(* The theorems.                                                           *)

LEMMA MembershipNext ==
    ASSUME MembershipInv, [Next]_vars PROVE MembershipInv'
<1>1. CASE Next
  BY <1>1, SendKeepsInv, ApplyKeepsInv, CommitKeepsInv, InviteKeepsInv, ExpireKeepsInv,
     RevokeKeepsInv, CheckKeepsInv, AcceptKeepsInv DEF Next
<1>2. CASE UNCHANGED vars
  <2> USE <1>2 DEF vars, MembershipInv
  <2>1. TypeOK'
    BY DEF TypeOK
  <2>2. OwnerInv' /\ AcceptInv'
    BY MembersUnchanged, InvitationsUnchanged
  <2>3. WordInv'
    BY DEF WordInv
  <2> QED
    BY <2>1, <2>2, <2>3
<1> QED
  BY <1>1, <1>2

\* The inductive invariant, for any number of users, requests and invitations.
THEOREM MembershipInvariant == Spec => []MembershipInv
<1> QED
  BY MembershipInit, MembershipNext, PTL DEF Spec

\* Roles, requests and invitations keep to their types: above all, a user has
\* at most one pending invitation, whatever is sent, revoked and accepted.
THEOREM MembershipTypes == Spec => []TypeOK
<1>1. MembershipInv => TypeOK
  BY DEF MembershipInv
<1> QED
  BY <1>1, MembershipInvariant, PTL

\* prevent_last_owner_removal works: an organization keeps an owner as long as
\* no two transactions that take an owner each have been open at once.
THEOREM OwnerIsKept == Spec => []LastOwnerKept
<1>1. MembershipInv => LastOwnerKept
  BY DEF MembershipInv, OwnerInv, LastOwnerKept
<1> QED
  BY <1>1, MembershipInvariant, PTL

\* The guardrails of the migration 001300 hold under waiting and rechecked
\* statements: an owner is made or unmade on an owner's word only.
THEOREM OwnersAreMadeByOwners == Spec => OwnersMakeOwners
<1> DEFINE OnTheWordOf(u) ==
        \/ \E q \in Requests : /\ request[q].pc = "commit" /\ request[q].target = u
                               /\ request[q].caller \in everOwner
        \/ \E i \in accepting : invitation[i].user = u /\ invitation[i].by \in everOwner
           Step == \A u \in Users : (role[u] = "owner") # (role'[u] = "owner") => OnTheWordOf(u)
<1>1. ASSUME MembershipInv, [Next]_vars PROVE Step
  <2> SUFFICES ASSUME NEW u \in Users, (role[u] = "owner") # (role'[u] = "owner")
               PROVE  OnTheWordOf(u)
    OBVIOUS
  <2>1. \/ \E q \in Requests : CommitStatement(q)
        \/ \E i \in Invitations : AcceptInvitation(i)
    BY <1>1 DEF Next, vars, SendStatement, ApplyStatement, InviteMember, ExpireInvitation,
                CheckInvitation, RevokeInvitation
  <2>2. ASSUME NEW q \in Requests, CommitStatement(q) PROVE OnTheWordOf(u)
    <3>1. request[q].pc = "commit" /\ role' = [role EXCEPT ![request[q].target] = request[q].to]
      BY <2>2 DEF CommitStatement
    <3>2. u = request[q].target /\ (role[u] = "owner" \/ request[q].to = "owner")
      BY <1>1, <3>1 DEF MembershipInv, TypeOK
    <3>3. request[q].callerRole = "owner"
      BY <1>1, <3>1, <3>2 DEF MembershipInv, WordInv
    <3> QED
      BY <1>1, <3>1, <3>2, <3>3 DEF MembershipInv, WordInv
  <2>3. ASSUME NEW i \in Invitations, AcceptInvitation(i) PROVE OnTheWordOf(u)
    <3>1. /\ i \in accepting
          /\ role' = IF role[invitation[i].user] = "none"
                     THEN [role EXCEPT ![invitation[i].user] = invitation[i].role] ELSE role
      BY <2>3 DEF AcceptInvitation
    <3>2. u = invitation[i].user /\ invitation[i].role = "owner"
      BY <1>1, <3>1 DEF MembershipInv, TypeOK
    <3> QED
      BY <1>1, <3>1, <3>2 DEF MembershipInv, WordInv
  <2> QED
    BY <2>1, <2>2, <2>3
<1>2. Spec => [][Step]_vars
  <2>1. MembershipInv /\ [Next]_vars => [Step]_vars
    BY <1>1
  <2> QED
    BY <2>1, MembershipInvariant, PTL DEF Spec
<1> QED
  BY <1>2 DEF OwnersMakeOwners

\* A revoked invitation stays revoked and is not being accepted.
THEOREM RevokedIsRevoked == Spec => RevokedAdmitsNobody
<1> DEFINE Step == \A i \in Invitations :
        invitation[i].status = "revoked" =>
            /\ invitation'[i].status = "revoked"
            /\ i \notin accepting
<1>1. ASSUME MembershipInv, [Next]_vars PROVE Step
  <2> SUFFICES ASSUME NEW i \in Invitations, invitation[i].status = "revoked"
               PROVE  invitation'[i].status = "revoked" /\ i \notin accepting
    OBVIOUS
  <2>1. i \notin accepting
    BY <1>1 DEF MembershipInv, AcceptInv
  <2>2. \/ invitation' = invitation
        \/ \E j \in Invitations, u, v \in Users, r \in Roles : InviteMember(j, u, v, r)
        \/ \E j \in Invitations : ExpireInvitation(j) \/ AcceptInvitation(j)
        \/ \E j \in Invitations, u \in Users : RevokeInvitation(j, u)
    BY <1>1 DEF Next, vars, SendStatement, ApplyStatement, CommitStatement, CheckInvitation
  <2>3. CASE \E j \in Invitations : ExpireInvitation(j) \/ AcceptInvitation(j)
    BY <1>1, <2>1, <2>3 DEF ExpireInvitation, AcceptInvitation, MembershipInv, TypeOK
  <2>4. CASE \E j \in Invitations, u, v \in Users, r \in Roles : InviteMember(j, u, v, r)
    <3>1. PICK j \in Invitations :
              /\ invitation[j].status = "none"
              /\ \E rec : invitation' = [invitation EXCEPT ![j] = rec]
      BY <2>4 DEF InviteMember
    <3> QED
      BY <1>1, <2>1, <3>1 DEF MembershipInv, TypeOK
  <2>5. CASE \E j \in Invitations, u \in Users : RevokeInvitation(j, u)
    <3>1. PICK j \in Invitations : invitation' = [invitation EXCEPT ![j].status = "revoked"]
      BY <2>5 DEF RevokeInvitation
    <3> QED
      BY <1>1, <2>1, <3>1 DEF MembershipInv, TypeOK
  <2> QED
    BY <2>1, <2>2, <2>3, <2>4, <2>5
<1>2. Spec => [][Step]_vars
  <2>1. MembershipInv /\ [Next]_vars => [Step]_vars
    BY <1>1
  <2> QED
    BY <2>1, MembershipInvariant, PTL DEF Spec
<1> QED
  BY <1>2 DEF RevokedAdmitsNobody
=============================================================================
