----------------------------- MODULE Membership -----------------------------
(***************************************************************************)
(* The members of one organization and its invitations: the team page's    *)
(* requests as the database runs them. Each is one transaction at READ     *)
(* COMMITTED: its policies see the rows committed when the statement was   *)
(* sent, it waits for the row it changes, and the last-owner trigger sees  *)
(* what is committed by then, but locks nothing.                           *)
(***************************************************************************)
EXTENDS Naturals

CONSTANTS
    Users,
    Founder,        \* who called create_organization
    Requests,       \* concurrent changeMemberRole and removeMember requests
    Invitations,    \* ids of invitations
    None

ASSUME MembershipAssumption ==
    /\ Founder \in Users
    /\ None \notin Users

VARIABLES
    role,           \* organization_members: each user's role, "none" without a row
    request,        \* [pc, caller, callerRole, target, to]
    invitation,     \* invitations: [status, user, role, by, expired]
    accepting,      \* the invitations a transaction of accept_invitation has locked
    everOwner,      \* who has ever been an owner (a history)
    overlapped      \* have two open transactions taken an owner each? (a history)

vars == <<role, request, invitation, accepting, everOwner, overlapped>>

\* "member" stands for qa, developer and viewer, who all rank below an admin.
Roles == { "owner", "admin", "member" }
Rows == Roles \cup {"none"}

OrganizationRoleRank(r) ==
    CASE r = "owner" -> 4 [] r = "admin" -> 3 [] r = "member" -> 2 [] OTHER -> 0

HasOrganizationRole(r, min) == OrganizationRoleRank(r) >= OrganizationRoleRank(min)

Idle == [pc |-> "idle", caller |-> None, callerRole |-> "none", target |-> None, to |-> "none"]
NoInvitation ==
    [status |-> "none", user |-> None, role |-> "none", by |-> None, expired |-> FALSE]

\* At most one invitation of a user is pending, and each knows who sent it.
TypeOK ==
    /\ role \in [Users -> Rows]
    /\ request \in [Requests ->
            [pc : {"idle", "apply", "commit"}, caller : Users \cup {None}, callerRole : Rows,
             target : Users \cup {None}, to : Rows]]
    /\ invitation \in [Invitations ->
            [status : {"none", "pending", "accepted", "revoked"}, user : Users \cup {None},
             role : Rows, by : Users \cup {None}, expired : BOOLEAN]]
    /\ \A i, j \in Invitations :
            invitation[i].status = "pending" /\ invitation[j].status = "pending"
                /\ invitation[i].user = invitation[j].user => i = j
    /\ \A i \in Invitations : invitation[i].status # "none" => invitation[i].by \in Users
    /\ accepting \subseteq Invitations
    /\ everOwner \subseteq Users
    /\ overlapped \in BOOLEAN

\* create_organization: the organization and its first owner in one transaction.
Init ==
    /\ role = [u \in Users |-> IF u = Founder THEN "owner" ELSE "none"]
    /\ request = [q \in Requests |-> Idle]
    /\ invitation = [i \in Invitations |-> NoInvitation]
    /\ accepting = {}
    /\ everOwner = {Founder}
    /\ overlapped = FALSE

-----------------------------------------------------------------------------
(* changeMemberRole and removeMember.                                      *)

\* The policies of organization_members and invitations: an admin may act on
\* rows of any role but owner, an owner on all.
MayTouch(callerRole, r) ==
    /\ HasOrganizationRole(callerRole, "admin")
    /\ r = "owner" => HasOrganizationRole(callerRole, "owner")

\* The statement is sent: the row is there and the policies let it be changed
\* to "to" ("none": removed). A row they hide is not an error but no row at all;
\* an update to the role the row has changes nothing.
SendStatement(q, u, v, to) ==
    /\ request[q] = Idle
    /\ role[v] # "none" /\ role[v] # to
    /\ MayTouch(role[u], role[v]) /\ MayTouch(role[u], to)
    /\ request' = [request EXCEPT ![q] =
            [pc |-> "apply", caller |-> u, callerRole |-> role[u], target |-> v, to |-> to]]
    /\ UNCHANGED <<role, invitation, accepting, everOwner, overlapped>>

\* An open transaction holds the member's row.
Locked(v) == \E q \in Requests : request[q].pc = "commit" /\ request[q].target = v

TakesOwner(q) == role[request[q].target] = "owner" /\ request[q].to # "owner"

\* Variant: the row of the caller counts, whichever row is touched.
OtherOwnerThanCaller(q) ==
    \E w \in Users \ {request[q].caller} : role[w] = "owner"

\* prevent_last_owner_removal: some other row is an owner's.
OtherOwner(q) == \E w \in Users \ {request[q].target} : role[w] = "owner"

\* Variant: the policies are not held against the row as it is now.
PoliciesRechecked(q) == TRUE

\* After a wait, the policies are held against the row as it was committed.
PoliciesStillHold(q) == MayTouch(request[q].callerRole, role[request[q].target])

OverlapsAnother(q) ==
    /\ TakesOwner(q)
    /\ \E p \in Requests : request[p].pc = "commit" /\ TakesOwner(p)

\* The row is locked, the policies and the trigger have run.
ApplyStatement(q) ==
    /\ request[q].pc = "apply"
    /\ ~Locked(request[q].target)
    /\ \/ /\ PoliciesStillHold(q)
          /\ TakesOwner(q) => OtherOwner(q)
          /\ request' = [request EXCEPT ![q].pc = "commit"]
          /\ overlapped' = (overlapped \/ OverlapsAnother(q))
       \/ /\ ~PoliciesStillHold(q) \/ (TakesOwner(q) /\ ~OtherOwner(q))
          /\ request' = [request EXCEPT ![q] = Idle]
          /\ UNCHANGED overlapped
    /\ UNCHANGED <<role, invitation, accepting, everOwner>>

\* A statement that waits for a row which is then deleted finds no row.
CommitStatement(q) ==
    /\ request[q].pc = "commit"
    /\ LET v == request[q].target
           to == request[q].to
           Over(p) == p = q \/ (to = "none" /\ request[p].pc = "apply" /\ request[p].target = v)
       IN  /\ role' = [role EXCEPT ![v] = to]
           /\ request' = [p \in Requests |-> IF Over(p) THEN Idle ELSE request[p]]
           /\ everOwner' = IF to = "owner" THEN everOwner \cup {v} ELSE everOwner
    /\ UNCHANGED <<invitation, accepting, overlapped>>

-----------------------------------------------------------------------------
(* Invitations.                                                            *)

\* Variant: the unique index is on the rows that have not expired.
NoneUnexpired(v) ==
    \A j \in Invitations :
        invitation[j].status = "pending" /\ ~invitation[j].expired => invitation[j].user # v

\* The unique index: a pending row counts whether it has expired or not.
NonePending(v) ==
    \A j \in Invitations : invitation[j].status = "pending" => invitation[j].user # v

\* inviteMember: nobody checks whether v is a member already.
InviteMember(i, u, v, r) ==
    /\ invitation[i].status = "none"
    /\ MayTouch(role[u], r)
    /\ NonePending(v)
    /\ invitation' = [invitation EXCEPT ![i] =
            [status |-> "pending", user |-> v, role |-> r, by |-> u, expired |-> FALSE]]
    /\ UNCHANGED <<role, request, accepting, everOwner, overlapped>>

\* Seven days pass; nothing writes the row.
ExpireInvitation(i) ==
    /\ invitation[i].status = "pending" /\ ~invitation[i].expired
    /\ invitation' = [invitation EXCEPT ![i].expired = TRUE]
    /\ UNCHANGED <<role, request, accepting, everOwner, overlapped>>

\* Variant: accept_invitation reads the row without locking it.
NotLocked(i) == TRUE

RowIsFree(i) == i \notin accepting

\* revokeInvitation: the status is written whatever it was.
RevokeInvitation(i, u) ==
    /\ HasOrganizationRole(role[u], "admin")
    /\ invitation[i].status # "none" /\ RowIsFree(i)
    /\ invitation' = [invitation EXCEPT ![i].status = "revoked"]
    /\ UNCHANGED <<role, request, accepting, everOwner, overlapped>>

\* accept_invitation, first statement: select ... for update, and its checks.
CheckInvitation(i) ==
    /\ invitation[i].status = "pending" /\ ~invitation[i].expired /\ RowIsFree(i)
    /\ accepting' = accepting \cup {i}
    /\ UNCHANGED <<role, request, invitation, everOwner, overlapped>>

\* Its insert (on conflict do nothing, once whoever holds v's row is done), its
\* update, and the commit.
AcceptInvitation(i) ==
    /\ i \in accepting
    /\ ~Locked(invitation[i].user)
    /\ LET v == invitation[i].user
           joins == role[v] = "none"
       IN  /\ role' = IF joins THEN [role EXCEPT ![v] = invitation[i].role] ELSE role
           /\ everOwner' = IF joins /\ invitation[i].role = "owner"
                           THEN everOwner \cup {v} ELSE everOwner
    /\ invitation' = [invitation EXCEPT ![i].status = "accepted"]
    /\ accepting' = accepting \ {i}
    /\ UNCHANGED <<request, overlapped>>

-----------------------------------------------------------------------------
Next ==
    \/ \E q \in Requests :
        \/ \E u, v \in Users, to \in Rows : SendStatement(q, u, v, to)
        \/ ApplyStatement(q) \/ CommitStatement(q)
    \/ \E i \in Invitations :
        \/ \E u, v \in Users, r \in Roles : InviteMember(i, u, v, r)
        \/ ExpireInvitation(i) \/ CheckInvitation(i) \/ AcceptInvitation(i)
        \/ \E u \in Users : RevokeInvitation(i, u)

Spec == Init /\ [][Next]_vars

-----------------------------------------------------------------------------
(* What the organization may rely on.                                      *)

HasOwner == \E u \in Users : role[u] = "owner"

\* The organization keeps an owner as long as no two transactions that take an
\* owner each are open at once: demotions, removals and steps down one after
\* the other, around invitations and accepted owners, never lose the last one.
LastOwnerKept == ~overlapped => HasOwner

\* An owner's row is changed, and an owner is made, only on the word of
\* somebody who is or has been an owner: no admin reaches either, not even
\* with a statement that waited while its target became an owner
\* (001300_membership_role_guardrails.sql; docs/database.md:89-96).
OwnersMakeOwners ==
    [][\A u \in Users :
        (role[u] = "owner") # (role'[u] = "owner") =>
            \/ \E q \in Requests : /\ request[q].pc = "commit" /\ request[q].target = u
                                   /\ request[q].caller \in everOwner
            \/ \E i \in accepting : invitation[i].user = u /\ invitation[i].by \in everOwner]_vars

\* Whoever is told that an invitation is revoked can rely on it: it is never
\* accepted afterwards, and admits nobody, even if its link was being opened
\* while it was revoked (001600, "for update").
RevokedAdmitsNobody ==
    [][\A i \in Invitations :
        invitation[i].status = "revoked" =>
            /\ invitation'[i].status = "revoked"
            /\ i \notin accepting]_vars
=============================================================================
