---------------------------------- MODULE Team ----------------------------------
(***************************************************************************)
(* Members and invites of one organization:                                *)
(* core-api/app/entities/team/{service,repo,router}.py.                    *)
(*                                                                         *)
(* Every request is one transaction: it authorizes the caller, reads a     *)
(* member or an invite, checks it, and commits a change computed from what *)
(* it read.  Nothing is locked between the read and the commit.            *)
(***************************************************************************)
EXTENDS FiniteSets, Integers

CONSTANTS
  Users,     \* users with an account
  Founders,  \* the users who own the organization at the start
  Invites,   \* bound: invites ever created
  Workers,   \* requests served at the same time
  NULL       \* an absent value

ASSUME FoundersAssumption == Founders \subseteq Users /\ Founders # {}

Roles == {"owner", "member"}
\* "pending" is to the code what "inactive" is: not "active".
MemberStatuses == {"active", "inactive"}
Rows == [role: Roles, status: MemberStatuses]

ASSUME NullAssumption == NULL \notin Users \cup Invites \cup Roles \cup MemberStatuses \cup Rows

InviteStatuses == {"none", "pending", "accepted", "revoked"}

VARIABLES
  members,   \* user -> organization_members row, NULL when there is none
  invites,   \* invite -> status, "none" before it is created
  expired,   \* invites past their expires_at
  tx,        \* worker -> its open transaction
  admitted,  \* history: invite -> users who became members by it
  raced      \* history: an owner was removed by a transaction that had read
             \* the members before another one's commit

vars == <<members, invites, expired, tx, admitted, raced>>

Requests == {"idle", "authorized", "update", "delete", "update_checked", "delete_checked",
             "cancel", "accept", "accept_member"}

Idle == [at |-> "idle", user |-> NULL, target |-> NULL, row |-> NULL, role |-> NULL,
         status |-> NULL, invite |-> NULL, stale |-> FALSE]

TypeOK ==
  /\ members \in [Users -> Rows \cup {NULL}]
  /\ invites \in [Invites -> InviteStatuses]
  /\ expired \subseteq Invites
  /\ tx \in [Workers -> [at: Requests, user: Users \cup {NULL}, target: Users \cup {NULL},
                         row: Rows \cup {NULL}, role: Roles \cup {NULL},
                         status: MemberStatuses \cup {NULL}, invite: Invites \cup {NULL},
                         stale: BOOLEAN]]
  /\ admitted \in [Invites -> SUBSET Users]
  /\ raced \in BOOLEAN

Owner == [role |-> "owner", status |-> "active"]

Init ==
  /\ members = [u \in Users |-> IF u \in Founders THEN Owner ELSE NULL]
  /\ invites = [i \in Invites |-> "none"]
  /\ expired = {}
  /\ tx = [w \in Workers |-> Idle]
  /\ admitted = [i \in Invites |-> {}]
  /\ raced = FALSE

Owners == {u \in Users : members[u] # NULL /\ members[u].role = "owner"}

-----------------------------------------------------------------------------
\* An UPDATE sets the columns whose value differs from what was loaded.
Merged(column, loaded, written) == IF written = loaded THEN column ELSE written

\* After a commit that changes the row of user u: the worker is free, what the
\* other ones read is old, and a row that was deleted cannot be updated any more.
AfterCommit(w, u, row) ==
  [v \in Workers |->
     IF v = w THEN Idle
     ELSE IF tx[v].at = "idle" THEN tx[v]
     ELSE [tx[v] EXCEPT !.stale = TRUE,
                        !.target = IF row = NULL /\ @ = u THEN NULL ELSE @,
                        !.user = IF row = NULL /\ @ = u /\ tx[v].at = "authorized"
                                   THEN NULL ELSE @]]

\* Any request may end with a rollback.
Abort(w) ==
  /\ tx[w].at # "idle"
  /\ tx' = [tx EXCEPT ![w] = Idle]
  /\ UNCHANGED <<members, invites, expired, admitted, raced>>

\* require_owner_entitled("team"): the caller is an active owner.
Authorize(w, u) ==
  /\ tx[w].at = "idle"
  /\ members[u] = Owner
  /\ tx' = [tx EXCEPT ![w] = [Idle EXCEPT !.at = "authorized", !.user = u]]
  /\ UNCHANGED <<members, invites, expired, admitted, raced>>

(* PATCH and DELETE /organization/members/{member_id} *)

\* The row as the session holds it: the caller's own was loaded to authorize.
RowSeen(w, t) == IF t = tx[w].user THEN Owner ELSE members[t]

LoadForUpdate(w, t, role, status) ==
  /\ tx[w].at = "authorized"
  /\ members[t] # NULL
  /\ tx' = [tx EXCEPT ![w] = [@ EXCEPT !.at = "update", !.target = t, !.row = RowSeen(w, t),
                                       !.role = role, !.status = status, !.user = NULL]]
  /\ UNCHANGED <<members, invites, expired, admitted, raced>>

LoadForDelete(w, t) ==
  /\ tx[w].at = "authorized"
  /\ members[t] # NULL
  /\ tx' = [tx EXCEPT ![w] = [@ EXCEPT !.at = "delete", !.target = t, !.row = RowSeen(w, t),
                                       !.user = NULL]]
  /\ UNCHANGED <<members, invites, expired, admitted, raced>>

\* Wrong variant: only inactive owners are counted before they are removed.
CountOwnersOfInactive(w) ==
  /\ tx[w].at \in {"update", "delete"}
  /\ tx[w].row.role = "owner" /\ (tx[w].at = "delete" \/ tx[w].role = "member")
       => Cardinality(Owners) > 1 \/ tx[w].row = Owner
  /\ tx' = [tx EXCEPT ![w].at = IF @ = "update" THEN "update_checked" ELSE "delete_checked"]
  /\ UNCHANGED <<members, invites, expired, admitted, raced>>

\* Removing an owner takes another one: 400 "cannot remove last owner".
CountOwners(w) ==
  /\ tx[w].at \in {"update", "delete"}
  /\ tx[w].row.role = "owner" /\ (tx[w].at = "delete" \/ tx[w].role = "member")
       => Cardinality(Owners) > 1
  /\ tx' = [tx EXCEPT ![w].at = IF @ = "update" THEN "update_checked" ELSE "delete_checked"]
  /\ UNCHANGED <<members, invites, expired, admitted, raced>>

\* Wrong variant: a field absent from the body is written as null.
CommitUpdateBlanking(w) ==
  /\ tx[w].at = "update_checked"
  /\ tx[w].target # NULL
  /\ LET t == tx[w].target
     IN /\ members' = [members EXCEPT ![t].role = tx[w].role, ![t].status = tx[w].status]
        /\ tx' = AfterCommit(w, t, members'[t])
  /\ UNCHANGED <<invites, expired, admitted, raced>>

\* A field absent from the body is left as it is; the UPDATE of a deleted row fails.
CommitUpdate(w) ==
  /\ tx[w].at = "update_checked"
  /\ tx[w].target # NULL
  /\ LET t == tx[w].target
         Written(loaded, given) == IF given = NULL THEN loaded ELSE given
     IN /\ members' = [members EXCEPT
              ![t].role = Merged(@, tx[w].row.role, Written(tx[w].row.role, tx[w].role)),
              ![t].status = Merged(@, tx[w].row.status, Written(tx[w].row.status, tx[w].status))]
        /\ tx' = AfterCommit(w, t, members'[t])
        /\ raced' = (raced \/ (tx[w].stale /\ t \in Owners \ Owners'))
  /\ UNCHANGED <<invites, expired, admitted>>

\* The DELETE of a row that is already gone deletes nothing.
CommitDelete(w) ==
  /\ tx[w].at = "delete_checked"
  /\ LET t == tx[w].target
     IN /\ members' = IF t = NULL THEN members ELSE [members EXCEPT ![t] = NULL]
        /\ tx' = AfterCommit(w, t, NULL)
        /\ raced' = (raced \/ (tx[w].stale /\ t \in Owners))
  /\ UNCHANGED <<invites, expired, admitted>>

-----------------------------------------------------------------------------
(* /organization/invites *)

CreateInvite(w, i) ==
  /\ tx[w].at = "authorized"
  /\ invites[i] = "none"
  /\ invites' = [invites EXCEPT ![i] = "pending"]
  /\ tx' = [tx EXCEPT ![w] = Idle]
  /\ UNCHANGED <<members, expired, admitted, raced>>

\* Seven days pass.
Expire(i) ==
  /\ invites[i] # "none"
  /\ expired' = expired \cup {i}
  /\ UNCHANGED <<members, invites, tx, admitted, raced>>

LoadForCancel(w, i) ==
  /\ tx[w].at = "authorized"
  /\ invites[i] = "pending"
  /\ tx' = [tx EXCEPT ![w] = [@ EXCEPT !.at = "cancel", !.invite = i, !.user = NULL]]
  /\ UNCHANGED <<members, invites, expired, admitted, raced>>

CommitCancel(w) ==
  /\ tx[w].at = "cancel"
  /\ invites' = [invites EXCEPT ![tx[w].invite] = "revoked"]
  /\ tx' = [tx EXCEPT ![w] = Idle]
  /\ UNCHANGED <<members, expired, admitted, raced>>

\* A user with the token: the invite is pending and not expired.  The status
\* "expired" that the code writes here is rolled back with its 400.
LoadForAccept(w, u, i) ==
  /\ tx[w].at = "idle"
  /\ invites[i] = "pending"
  /\ i \notin expired
  /\ tx' = [tx EXCEPT ![w] = [Idle EXCEPT !.at = "accept", !.user = u, !.invite = i]]
  /\ UNCHANGED <<members, invites, expired, admitted, raced>>

\* Is the user a member already (as it is now, whatever its status)?
LookUpMember(w) ==
  /\ tx[w].at = "accept"
  /\ tx' = [tx EXCEPT ![w] = [@ EXCEPT !.at = "accept_member", !.row = members[tx[w].user]]]
  /\ UNCHANGED <<members, invites, expired, admitted, raced>>

\* Wrong variant: the member is committed, the invite's status is not.
CommitAcceptMemberOnly(w) ==
  /\ tx[w].at = "accept_member"
  /\ LET u == tx[w].user
         i == tx[w].invite
     IN IF tx[w].row # NULL
        THEN /\ tx' = [tx EXCEPT ![w] = Idle]
             /\ UNCHANGED <<members, admitted, invites>>
        ELSE /\ members[u] = NULL
             /\ members' = [members EXCEPT ![u] = [role |-> "member", status |-> "active"]]
             /\ admitted' = [admitted EXCEPT ![i] = @ \cup {u}]
             /\ tx' = AfterCommit(w, u, members'[u])
             /\ UNCHANGED invites
  /\ UNCHANGED <<expired, raced>>

\* The INSERT fails on uq_org_member if the user became a member in between.
CommitAccept(w) ==
  /\ tx[w].at = "accept_member"
  /\ LET u == tx[w].user
         i == tx[w].invite
     IN /\ invites' = [invites EXCEPT ![i] = "accepted"]
        /\ IF tx[w].row # NULL
           THEN /\ tx' = [tx EXCEPT ![w] = Idle]
                /\ UNCHANGED <<members, admitted>>
           ELSE /\ members[u] = NULL
                /\ members' = [members EXCEPT ![u] = [role |-> "member", status |-> "active"]]
                /\ admitted' = [admitted EXCEPT ![i] = @ \cup {u}]
                /\ tx' = AfterCommit(w, u, members'[u])
  /\ UNCHANGED <<expired, raced>>

Next ==
  \/ \E w \in Workers :
       \/ \E u \in Users : Authorize(w, u) \/ LoadForDelete(w, u)
       \/ \E u \in Users, role \in Roles \cup {NULL}, status \in MemberStatuses \cup {NULL} :
            LoadForUpdate(w, u, role, status)
       \/ \E u \in Users, i \in Invites : LoadForAccept(w, u, i)
       \/ \E i \in Invites : CreateInvite(w, i) \/ LoadForCancel(w, i)
       \/ CountOwners(w) \/ CommitUpdate(w) \/ CommitDelete(w)
       \/ CommitCancel(w) \/ LookUpMember(w) \/ CommitAccept(w) \/ Abort(w)
  \/ \E i \in Invites : Expire(i)

Spec == Init /\ [][Next]_vars

-----------------------------------------------------------------------------
\* The check "cannot remove last owner" as its message and its test state it:
\* an organization has an owner at all times.
OwnerRemains == Owners # {}

\* The only way to lose the last owner is a removal that overlapped another
\* change of the members; stale authorizations, an owner that acts on itself,
\* and members deleted and invited again are not.
OwnerLostOnlyByRace == raced \/ Owners # {}

\* Who is a member is a founder or was admitted by an invite, and the invite
\* that admitted somebody is closed: it is never pending again, however
\* acceptances, cancellations and deletions overlap.
JoinedByClosedInvite ==
  /\ \A u \in Users : members[u] # NULL /\ u \notin Founders => \E i \in Invites : u \in admitted[i]
  /\ \A i \in Invites : admitted[i] # {} => invites[i] \in {"accepted", "revoked"}
=============================================================================
