------------------------------- MODULE Team_proofs -------------------------------
(***************************************************************************)
(* Proofs about Team, for any users, founders, invites and workers.        *)
(***************************************************************************)
EXTENDS Team, FiniteSetTheorems, TLAPS

\* The type of one request's transaction.
Transactions == [at: Requests, user: Users \cup {NULL}, target: Users \cup {NULL},
                 row: Rows \cup {NULL}, role: Roles \cup {NULL},
                 status: MemberStatuses \cup {NULL}, invite: Invites \cup {NULL},
                 stale: BOOLEAN]

Changing == {"update", "delete", "update_checked", "delete_checked"}

\* Would the change take an owner away?
Removal(t) == t.row.role = "owner" /\ (t.at = "delete_checked" \/ t.role = "member")

\* The caller of a request that no commit overlapped is an owner still.
CallerSound(w) ==
  tx[w].at = "authorized" /\ ~tx[w].stale => tx[w].user \in Users /\ members[tx[w].user] = Owner

\* A change holds a row of its target, which is there unless a DELETE was seen; it
\* is the row as committed, and the owners are as counted, if no commit overlapped.
ChangeSound(w) ==
  tx[w].at \in Changing =>
    /\ tx[w].row \in Rows
    /\ tx[w].target # NULL => members[tx[w].target] # NULL
    /\ ~tx[w].stale => tx[w].target \in Users /\ members[tx[w].target] = tx[w].row
    /\ ~tx[w].stale /\ tx[w].at \in {"update_checked", "delete_checked"} /\ Removal(tx[w])
         => Cardinality(Owners) > 1

\* An acceptance and a cancellation know their invite, an acceptance its user.
InviteSound(w) ==
  /\ tx[w].at \in {"cancel", "accept", "accept_member"} => tx[w].invite \in Invites
  /\ tx[w].at \in {"accept", "accept_member"} => tx[w].user \in Users

RequestSound(w) == CallerSound(w) /\ ChangeSound(w) /\ InviteSound(w)

TeamInv ==
  /\ TypeOK
  /\ \A w \in Workers : RequestSound(w)
  /\ JoinedByClosedInvite
  /\ OwnerLostOnlyByRace

USE FoundersAssumption, NullAssumption

-----------------------------------------------------------------------------
LEMMA IdleType == Idle \in Transactions
  BY DEF Idle, Transactions, Requests

LEMMA RowTypes == Owner \in Rows /\ [role |-> "member", status |-> "active"] \in Rows
  BY DEF Owner, Rows, Roles, MemberStatuses

LEMMA AnotherOwner ==
  ASSUME NEW S, NEW t, Cardinality(S) > 1
  PROVE  S \ {t} # {}
<1> SUFFICES ASSUME S \ {t} = {} PROVE FALSE
  OBVIOUS
<1>1. S = {} \/ S = {t}
  OBVIOUS
<1>2. Cardinality(S) = 0 \/ Cardinality(S) = 1
  BY <1>1, FS_EmptySet, FS_Singleton
<1> QED BY <1>2

LEMMA TypeSplit ==
  TypeOK <=> /\ members \in [Users -> Rows \cup {NULL}]
             /\ invites \in [Invites -> InviteStatuses]
             /\ expired \subseteq Invites
             /\ tx \in [Workers -> Transactions]
             /\ admitted \in [Invites -> SUBSET Users]
             /\ raced \in BOOLEAN
  BY DEF TypeOK, Transactions

LEMMA TypeNext ==
  TypeOK' <=> /\ members' \in [Users -> Rows \cup {NULL}]
              /\ invites' \in [Invites -> InviteStatuses]
              /\ expired' \subseteq Invites
              /\ tx' \in [Workers -> Transactions]
              /\ admitted' \in [Invites -> SUBSET Users]
              /\ raced' \in BOOLEAN
  BY DEF TypeOK, Transactions

LEMMA BothColumns ==
  ASSUME NEW loaded \in Rows, NEW role \in Roles, NEW status \in MemberStatuses
  PROVE  [[loaded EXCEPT !.role = role] EXCEPT !.status = status] = [role |-> role, status |-> status]
<1> DEFINE r == [loaded EXCEPT !.role = role]
           q == [r EXCEPT !.status = status]
<1>1. r \in Rows /\ r.role = role
  BY DEF Rows
<1>2. q \in Rows /\ q.role = role /\ q.status = status
  <2> HIDE DEF r
  <2> QED BY <1>1 DEF Rows
<1>3. q = [role |-> role, status |-> status]
  <2> HIDE DEF q
  <2> QED BY <1>2 DEF Rows
<1> QED BY <1>3

LEMMA TeamInit == Init => TeamInv
<1> SUFFICES ASSUME Init PROVE TeamInv
  OBVIOUS
<1> USE DEF Init
<1>1. TypeOK
  BY IdleType, RowTypes, TypeSplit DEF InviteStatuses
<1>2. \A w \in Workers : RequestSound(w)
  BY DEF RequestSound, CallerSound, ChangeSound, InviteSound, Changing, Idle
<1>3. JoinedByClosedInvite
  BY DEF JoinedByClosedInvite
<1>4. OwnerLostOnlyByRace
  <2>1. \A u \in Founders : u \in Owners
    BY RowTypes DEF Owners, Owner, Rows
  <2> QED BY <2>1 DEF OwnerLostOnlyByRace
<1> QED BY <1>1, <1>2, <1>3, <1>4 DEF TeamInv

-----------------------------------------------------------------------------
\* A request that takes a step of its own and commits nothing.
LEMMA PrivateStep ==
  ASSUME TeamInv, NEW w \in Workers, NEW t \in Transactions, tx' = [tx EXCEPT ![w] = t],
         UNCHANGED <<members, invites, expired, admitted, raced>>, RequestSound(w)'
  PROVE  TeamInv'
<1>1. TypeOK'
  BY TypeSplit, TypeNext DEF TeamInv
<1>2. Owners' = Owners
  BY DEF Owners
<1>3. ASSUME NEW v \in Workers PROVE RequestSound(v)'
  <2>1. CASE v = w
    BY <2>1
  <2>2. CASE v # w
    <3>1. tx'[v] = tx[v]
      BY <2>2 DEF TeamInv, TypeOK
    <3>2. RequestSound(v)
      BY DEF TeamInv
    <3> QED BY <1>2, <3>1, <3>2 DEF RequestSound, CallerSound, ChangeSound, InviteSound, Removal
  <2> QED BY <2>1, <2>2
<1>4. JoinedByClosedInvite' /\ OwnerLostOnlyByRace'
  BY <1>2 DEF TeamInv, JoinedByClosedInvite, OwnerLostOnlyByRace
<1> QED BY <1>1, <1>3, <1>4 DEF TeamInv

LEMMA AuthorizeStep ==
  ASSUME TeamInv, NEW w \in Workers, NEW u \in Users, Authorize(w, u)
  PROVE  TeamInv'
<1> DEFINE t == [Idle EXCEPT !.at = "authorized", !.user = u]
<1>1. t \in Transactions /\ t.at = "authorized" /\ t.user = u
  BY IdleType DEF Idle, Transactions, Requests
<1>2. tx' = [tx EXCEPT ![w] = t] /\ tx'[w] = t /\ UNCHANGED <<members, invites, expired, admitted, raced>>
  BY DEF Authorize, TeamInv, TypeOK
<1>3. RequestSound(w)'
  BY <1>1, <1>2 DEF Authorize, RequestSound, CallerSound, ChangeSound, InviteSound, Changing
<1> HIDE DEF t
<1> QED BY <1>1, <1>2, <1>3, PrivateStep

LEMMA AbortStep ==
  ASSUME TeamInv, NEW w \in Workers, Abort(w)
  PROVE  TeamInv'
<1>1. tx' = [tx EXCEPT ![w] = Idle] /\ tx'[w] = Idle /\ UNCHANGED <<members, invites, expired, admitted, raced>>
  BY DEF Abort, TeamInv, TypeOK
<1>2. RequestSound(w)'
  BY <1>1 DEF RequestSound, CallerSound, ChangeSound, InviteSound, Changing, Idle
<1> QED BY <1>1, <1>2, IdleType, PrivateStep

\* The row an owner loads is the one committed, if no commit came in between.
LEMMA RowSeenSound ==
  ASSUME TeamInv, NEW w \in Workers, NEW u \in Users, tx[w].at = "authorized", members[u] # NULL
  PROVE  RowSeen(w, u) \in Rows /\ (~tx[w].stale => members[u] = RowSeen(w, u))
<1>1. CallerSound(w)
  BY DEF TeamInv, RequestSound
<1>2. members[u] \in Rows
  BY DEF TeamInv, TypeOK
<1> QED BY <1>1, <1>2, RowTypes DEF RowSeen, CallerSound

LEMMA LoadForUpdateStep ==
  ASSUME TeamInv, NEW w \in Workers, NEW u \in Users, NEW role \in Roles \cup {NULL},
         NEW status \in MemberStatuses \cup {NULL}, LoadForUpdate(w, u, role, status)
  PROVE  TeamInv'
<1> DEFINE t == [tx[w] EXCEPT !.at = "update", !.target = u, !.row = RowSeen(w, u),
                              !.role = role, !.status = status, !.user = NULL]
<1>1. RowSeen(w, u) \in Rows /\ (~tx[w].stale => members[u] = RowSeen(w, u)) /\ members[u] # NULL
  BY RowSeenSound DEF LoadForUpdate
<1>2. tx[w] \in Transactions
  BY TypeSplit DEF TeamInv
<1>3. /\ t \in Transactions
      /\ t.at = "update" /\ t.target = u /\ t.row = RowSeen(w, u) /\ t.stale = tx[w].stale
  BY <1>1, <1>2 DEF Transactions, Requests
<1>4. tx' = [tx EXCEPT ![w] = t] /\ tx'[w] = t /\ UNCHANGED <<members, invites, expired, admitted, raced>>
  BY DEF LoadForUpdate, TeamInv, TypeOK
<1> HIDE DEF t
<1>5. RequestSound(w)'
  BY <1>1, <1>3, <1>4 DEF RequestSound, CallerSound, ChangeSound, InviteSound, Changing
<1> QED BY <1>3, <1>4, <1>5, PrivateStep

LEMMA LoadForDeleteStep ==
  ASSUME TeamInv, NEW w \in Workers, NEW u \in Users, LoadForDelete(w, u)
  PROVE  TeamInv'
<1> DEFINE t == [tx[w] EXCEPT !.at = "delete", !.target = u, !.row = RowSeen(w, u), !.user = NULL]
<1>1. RowSeen(w, u) \in Rows /\ (~tx[w].stale => members[u] = RowSeen(w, u)) /\ members[u] # NULL
  BY RowSeenSound DEF LoadForDelete
<1>2. tx[w] \in Transactions
  BY TypeSplit DEF TeamInv
<1>3. /\ t \in Transactions
      /\ t.at = "delete" /\ t.target = u /\ t.row = RowSeen(w, u) /\ t.stale = tx[w].stale
  BY <1>1, <1>2 DEF Transactions, Requests
<1>4. tx' = [tx EXCEPT ![w] = t] /\ tx'[w] = t /\ UNCHANGED <<members, invites, expired, admitted, raced>>
  BY DEF LoadForDelete, TeamInv, TypeOK
<1> HIDE DEF t
<1>5. RequestSound(w)'
  BY <1>1, <1>3, <1>4 DEF RequestSound, CallerSound, ChangeSound, InviteSound, Changing
<1> QED BY <1>3, <1>4, <1>5, PrivateStep

LEMMA CountOwnersStep ==
  ASSUME TeamInv, NEW w \in Workers, CountOwners(w)
  PROVE  TeamInv'
<1> DEFINE t == [tx[w] EXCEPT !.at = IF @ = "update" THEN "update_checked" ELSE "delete_checked"]
<1>1. tx[w] \in Transactions /\ ChangeSound(w) /\ tx[w].at \in {"update", "delete"}
  BY TypeSplit DEF TeamInv, RequestSound, CountOwners
<1>2. /\ t \in Transactions
      /\ t.at = (IF tx[w].at = "update" THEN "update_checked" ELSE "delete_checked")
      /\ t.target = tx[w].target /\ t.row = tx[w].row /\ t.role = tx[w].role /\ t.stale = tx[w].stale
  BY <1>1 DEF Transactions, Requests
<1>3. tx' = [tx EXCEPT ![w] = t] /\ tx'[w] = t /\ UNCHANGED <<members, invites, expired, admitted, raced>>
  BY DEF CountOwners, TeamInv, TypeOK
<1>4. Removal(t) => Cardinality(Owners) > 1
  BY <1>1, <1>2 DEF Removal, CountOwners
<1>5. Owners' = Owners
  BY <1>3 DEF Owners
<1> HIDE DEF t
<1>6. RequestSound(w)'
  BY <1>1, <1>2, <1>3, <1>4, <1>5 DEF RequestSound, CallerSound, ChangeSound, InviteSound, Changing
<1> QED BY <1>2, <1>3, <1>6, PrivateStep

LEMMA LoadInviteStep ==
  ASSUME TeamInv, NEW w \in Workers, NEW i \in Invites,
         LoadForCancel(w, i) \/ \E u \in Users : LoadForAccept(w, u, i)
  PROVE  TeamInv'
<1>1. CASE LoadForCancel(w, i)
  <2> DEFINE t == [tx[w] EXCEPT !.at = "cancel", !.invite = i, !.user = NULL]
  <2>1. tx[w] \in Transactions
    BY TypeSplit DEF TeamInv
  <2>2. t \in Transactions /\ t.at = "cancel" /\ t.invite = i
    BY <2>1 DEF Transactions, Requests
  <2>3. tx' = [tx EXCEPT ![w] = t] /\ tx'[w] = t /\ UNCHANGED <<members, invites, expired, admitted, raced>>
    BY <1>1 DEF LoadForCancel, TeamInv, TypeOK
  <2> HIDE DEF t
  <2>4. RequestSound(w)'
    BY <2>2, <2>3 DEF RequestSound, CallerSound, ChangeSound, InviteSound, Changing
  <2> QED BY <2>2, <2>3, <2>4, PrivateStep
<1>2. ASSUME NEW u \in Users, LoadForAccept(w, u, i) PROVE TeamInv'
  <2> DEFINE t == [Idle EXCEPT !.at = "accept", !.user = u, !.invite = i]
  <2>1. t \in Transactions /\ t.at = "accept" /\ t.invite = i /\ t.user = u
    BY IdleType DEF Idle, Transactions, Requests
  <2>2. tx' = [tx EXCEPT ![w] = t] /\ tx'[w] = t /\ UNCHANGED <<members, invites, expired, admitted, raced>>
    BY <1>2 DEF LoadForAccept, TeamInv, TypeOK
  <2> HIDE DEF t
  <2>3. RequestSound(w)'
    BY <2>1, <2>2 DEF RequestSound, CallerSound, ChangeSound, InviteSound, Changing
  <2> QED BY <2>1, <2>2, <2>3, PrivateStep
<1> QED BY <1>1, <1>2

LEMMA LookUpMemberStep ==
  ASSUME TeamInv, NEW w \in Workers, LookUpMember(w)
  PROVE  TeamInv'
<1> DEFINE t == [tx[w] EXCEPT !.at = "accept_member", !.row = members[tx[w].user]]
<1>1. tx[w] \in Transactions /\ InviteSound(w) /\ tx[w].at = "accept"
  BY TypeSplit DEF TeamInv, RequestSound, LookUpMember
<1>2. members[tx[w].user] \in Rows \cup {NULL}
  BY <1>1 DEF InviteSound, TeamInv, TypeOK
<1>3. t \in Transactions /\ t.at = "accept_member" /\ t.invite = tx[w].invite /\ t.user = tx[w].user
  BY <1>1, <1>2 DEF Transactions, Requests
<1>4. tx' = [tx EXCEPT ![w] = t] /\ tx'[w] = t /\ UNCHANGED <<members, invites, expired, admitted, raced>>
  BY DEF LookUpMember, TeamInv, TypeOK
<1> HIDE DEF t
<1>5. RequestSound(w)'
  BY <1>1, <1>3, <1>4 DEF RequestSound, CallerSound, ChangeSound, InviteSound, Changing
<1> QED BY <1>3, <1>4, <1>5, PrivateStep

-----------------------------------------------------------------------------
\* A step that changes an invite and no member: the request ends.
LEMMA InviteStep ==
  ASSUME TeamInv, NEW w \in Workers, CommitCancel(w) \/ \E i \in Invites : CreateInvite(w, i)
  PROVE  TeamInv'
<1>1. UNCHANGED <<members, expired, admitted, raced>> /\ tx' = [tx EXCEPT ![w] = Idle]
  BY DEF CommitCancel, CreateInvite
<1>2. invites' \in [Invites -> InviteStatuses]
  BY DEF CommitCancel, CreateInvite, InviteStatuses, TeamInv, TypeOK
<1>3. TypeOK'
  BY <1>1, <1>2, IdleType, TypeSplit, TypeNext DEF TeamInv
<1>4. Owners' = Owners
  BY <1>1 DEF Owners
<1>5. ASSUME NEW v \in Workers PROVE RequestSound(v)'
  <2>1. CASE v = w
    <3>1. tx'[v] = Idle
      BY <1>1, <2>1 DEF TeamInv, TypeOK
    <3> QED BY <3>1 DEF RequestSound, CallerSound, ChangeSound, InviteSound, Changing, Idle
  <2>2. CASE v # w
    <3>1. tx'[v] = tx[v] /\ RequestSound(v)
      BY <1>1, <2>2 DEF TeamInv, TypeOK
    <3> QED BY <1>1, <1>4, <3>1 DEF RequestSound, CallerSound, ChangeSound, InviteSound, Removal
  <2> QED BY <2>1, <2>2
<1>6. ASSUME NEW i \in Invites, admitted[i] # {} PROVE invites'[i] \in {"accepted", "revoked"}
  <2>1. invites[i] \in {"accepted", "revoked"}
    BY <1>6 DEF TeamInv, JoinedByClosedInvite
  <2> QED BY <2>1 DEF CommitCancel, CreateInvite, TeamInv, TypeOK
<1>7. JoinedByClosedInvite' /\ OwnerLostOnlyByRace'
  BY <1>1, <1>4, <1>6 DEF TeamInv, JoinedByClosedInvite, OwnerLostOnlyByRace
<1> QED BY <1>3, <1>5, <1>7 DEF TeamInv

LEMMA ExpireStep ==
  ASSUME TeamInv, NEW i \in Invites, Expire(i)
  PROVE  TeamInv'
<1>1. TypeOK'
  BY DEF Expire, TeamInv, TypeOK
<1>2. Owners' = Owners /\ UNCHANGED <<members, invites, tx, admitted, raced>>
  BY DEF Expire, Owners
<1> QED BY <1>1, <1>2 DEF TeamInv, RequestSound, CallerSound, ChangeSound, InviteSound, Removal,
                          JoinedByClosedInvite, OwnerLostOnlyByRace

-----------------------------------------------------------------------------
\* What a commit of the row of user u leaves of the requests that it overlapped.
LEMMA OverlappedStep ==
  ASSUME TeamInv, NEW w \in Workers, NEW u \in Users \cup {NULL}, NEW row \in Rows \cup {NULL},
         tx' = AfterCommit(w, u, row), \A y \in Users \ {u} : members'[y] = members[y],
         u # NULL => members'[u] = row
  PROVE  tx' \in [Workers -> Transactions] /\ \A v \in Workers : RequestSound(v)'
<1>1. ASSUME NEW v \in Workers PROVE tx'[v] \in Transactions /\ RequestSound(v)'
  <2>0. tx[v] \in Transactions /\ RequestSound(v)
    BY TypeSplit DEF TeamInv
  <2>1. CASE v = w
    <3>1. tx'[v] = Idle
      BY <2>1 DEF AfterCommit
    <3> QED BY <3>1, IdleType DEF RequestSound, CallerSound, ChangeSound, InviteSound, Changing, Idle
  <2>2. CASE v # w /\ tx[v].at = "idle"
    <3>1. tx'[v] = tx[v]
      BY <2>2 DEF AfterCommit
    <3> QED BY <2>0, <2>2, <3>1 DEF RequestSound, CallerSound, ChangeSound, InviteSound, Changing
  <2>3. CASE v # w /\ tx[v].at # "idle"
    <3> DEFINE target == IF row = NULL /\ tx[v].target = u THEN NULL ELSE tx[v].target
               user == IF row = NULL /\ tx[v].user = u /\ tx[v].at = "authorized" THEN NULL ELSE tx[v].user
    <3>1. tx'[v] = [tx[v] EXCEPT !.stale = TRUE, !.target = target, !.user = user]
      BY <2>3 DEF AfterCommit
    <3>2. target \in Users \cup {NULL} /\ user \in Users \cup {NULL}
      BY <2>0 DEF Transactions
    <3>3. tx'[v] \in Transactions
      <4> HIDE DEF target, user
      <4> QED BY <2>0, <3>1, <3>2 DEF Transactions
    <3>4. /\ tx'[v].at = tx[v].at /\ tx'[v].row = tx[v].row /\ tx'[v].invite = tx[v].invite
          /\ tx'[v].stale = TRUE /\ tx'[v].target = target /\ tx'[v].user = user
      <4> HIDE DEF target, user
      <4> QED BY <2>0, <3>1 DEF Transactions
    <3>5. CallerSound(v)'
      BY <3>4 DEF CallerSound
    <3>6. ChangeSound(v)'
      <4>1. ASSUME tx[v].at \in Changing, target # NULL PROVE members'[target] # NULL
        <5>1. target = tx[v].target /\ target \in Users /\ members[target] # NULL
          BY <2>0, <4>1, <3>2 DEF RequestSound, ChangeSound
        <5>2. CASE target = u
          BY <4>1, <5>1, <5>2
        <5>3. CASE target # u
          BY <5>1, <5>3
        <5> QED BY <5>2, <5>3
      <4> HIDE DEF target, user
      <4> QED BY <2>0, <3>4, <4>1 DEF RequestSound, ChangeSound
    <3>7. InviteSound(v)'
      <4>1. tx[v].at # "authorized" => user = tx[v].user
        OBVIOUS
      <4> HIDE DEF target, user
      <4> QED BY <2>0, <3>4, <4>1 DEF RequestSound, InviteSound
    <3> QED BY <3>3, <3>5, <3>6, <3>7 DEF RequestSound
  <2> QED BY <2>1, <2>2, <2>3
<1>2. tx' = [v \in Workers |-> tx'[v]]
  BY DEF AfterCommit
<1> QED BY <1>1, <1>2

\* A change of a member that leaves another owner, or that lost the count to a race.
LEMMA OwnerStep ==
  ASSUME TeamInv, NEW w \in Workers, NEW u, \A y \in Users \ {u} : members'[y] = members[y],
         raced' = (raced \/ (tx[w].stale /\ u \in Owners \ Owners')),
         ~tx[w].stale /\ u \in Owners \ Owners' => Cardinality(Owners) > 1
  PROVE  OwnerLostOnlyByRace'
<1>1. CASE raced'
  BY <1>1 DEF OwnerLostOnlyByRace
<1>2. CASE ~raced'
  <2>1. Owners # {} /\ ~(tx[w].stale /\ u \in Owners \ Owners')
    BY <1>2 DEF TeamInv, OwnerLostOnlyByRace
  <2>2. \A y \in Owners \ {u} : y \in Owners'
    BY DEF Owners
  <2>3. CASE u \in Owners \ Owners'
    <3>1. Owners \ {u} # {}
      BY <2>1, <2>3, AnotherOwner
    <3> QED BY <2>2, <3>1 DEF OwnerLostOnlyByRace
  <2>4. CASE u \notin Owners \ Owners'
    BY <2>1, <2>2, <2>4 DEF OwnerLostOnlyByRace
  <2> QED BY <2>3, <2>4
<1> QED BY <1>1, <1>2

LEMMA CommitUpdateStep ==
  ASSUME TeamInv, NEW w \in Workers, CommitUpdate(w)
  PROVE  TeamInv'
<1> DEFINE u == tx[w].target
           Written(loaded, given) == IF given = NULL THEN loaded ELSE given
           role == Merged(members[u].role, tx[w].row.role, Written(tx[w].row.role, tx[w].role))
           status == Merged(members[u].status, tx[w].row.status, Written(tx[w].row.status, tx[w].status))
           row == [role |-> role, status |-> status]
<1>1. tx[w] \in Transactions /\ ChangeSound(w) /\ tx[w].at = "update_checked" /\ u # NULL
  BY TypeSplit DEF TeamInv, RequestSound, CommitUpdate
<1>2. u \in Users /\ members[u] \in Rows /\ tx[w].row \in Rows
  BY <1>1 DEF ChangeSound, Changing, Transactions, TeamInv, TypeOK
<1>3. role \in Roles /\ status \in MemberStatuses
  BY <1>1, <1>2 DEF Merged, Rows, Transactions
<1>4. row \in Rows
  BY <1>3 DEF Rows
<1>5. members' = [members EXCEPT ![u].role = role, ![u].status = status]
  BY DEF CommitUpdate
<1>6. members' = [members EXCEPT ![u] = row]
  <2>1. members \in [Users -> Rows \cup {NULL}]
    BY DEF TeamInv, TypeOK
  <2>2. [members EXCEPT ![u].role = role, ![u].status = status] = [members EXCEPT ![u] = row]
    <3>1. [[members[u] EXCEPT !.role = role] EXCEPT !.status = status] = row
      <4> HIDE DEF u, role, status
      <4> QED BY <1>2, <1>3, BothColumns
    <3> HIDE DEF u, role, status, row
    <3> QED BY <1>2, <2>1, <3>1
  <2> HIDE DEF u, role, status, row
  <2> QED BY <1>5, <2>2
<1>7. members'[u] = row /\ \A y \in Users \ {u} : members'[y] = members[y]
  BY <1>2, <1>6 DEF TeamInv, TypeOK
<1>8. /\ tx' = AfterCommit(w, u, row) /\ raced' = (raced \/ (tx[w].stale /\ u \in Owners \ Owners'))
      /\ UNCHANGED <<invites, expired, admitted>>
  BY <1>7 DEF CommitUpdate
<1>9. ~tx[w].stale /\ u \in Owners \ Owners' => Cardinality(Owners) > 1
  <2> SUFFICES ASSUME ~tx[w].stale, u \in Owners, u \notin Owners' PROVE Cardinality(Owners) > 1
    OBVIOUS
  <2>1. members[u] = tx[w].row /\ tx[w].row.role = "owner"
    BY <1>1 DEF ChangeSound, Changing, Owners
  <2>2. role # "owner"
    <3>1. row # NULL /\ row.role = role
      <4> HIDE DEF role, status
      <4> QED BY <1>4
    <3> QED BY <1>2, <1>7, <3>1 DEF Owners
  <2>3. tx[w].role = "member"
    BY <1>1, <2>1, <2>2 DEF Merged, Transactions, Roles
  <2> QED BY <1>1, <2>1, <2>3 DEF ChangeSound, Changing, Removal
<1>10. OwnerLostOnlyByRace'
  <2> HIDE DEF u, role, status, row
  <2> QED BY <1>7, <1>8, <1>9, OwnerStep
<1>11. tx' \in [Workers -> Transactions] /\ \A v \in Workers : RequestSound(v)'
  <2> HIDE DEF u, role, status, row
  <2> QED BY <1>2, <1>4, <1>7, <1>8, OverlappedStep
<1>12. TypeOK'
  <2>1. members' \in [Users -> Rows \cup {NULL}]
    <3> HIDE DEF u, row
    <3> QED BY <1>4, <1>6 DEF TeamInv, TypeOK
  <2>2. raced' \in BOOLEAN
    BY DEF CommitUpdate, TeamInv, TypeOK
  <2> QED BY <1>8, <1>11, <2>1, <2>2, TypeSplit, TypeNext DEF TeamInv
<1>13. JoinedByClosedInvite'
  <2>1. \A y \in Users : members'[y] # NULL => members[y] # NULL
    BY <1>1, <1>7 DEF ChangeSound, Changing
  <2> QED BY <1>8, <2>1 DEF TeamInv, JoinedByClosedInvite
<1> QED BY <1>10, <1>11, <1>12, <1>13 DEF TeamInv

LEMMA CommitDeleteStep ==
  ASSUME TeamInv, NEW w \in Workers, CommitDelete(w)
  PROVE  TeamInv'
<1> DEFINE u == tx[w].target
<1>1. tx[w] \in Transactions /\ ChangeSound(w) /\ tx[w].at = "delete_checked"
  BY TypeSplit DEF TeamInv, RequestSound, CommitDelete
<1>2. u \in Users \cup {NULL}
  BY <1>1 DEF Transactions
<1>3. members' = IF u = NULL THEN members ELSE [members EXCEPT ![u] = NULL]
  BY DEF CommitDelete
<1>4. members' \in [Users -> Rows \cup {NULL}] /\ \A y \in Users \ {u} : members'[y] = members[y]
  BY <1>2, <1>3 DEF TeamInv, TypeOK
<1>5. u # NULL => members'[u] = NULL
  BY <1>2, <1>3 DEF TeamInv, TypeOK
<1>6. tx' = AfterCommit(w, u, NULL) /\ UNCHANGED <<invites, expired, admitted>>
  BY DEF CommitDelete
<1>7. u \notin Owners'
  BY <1>5 DEF Owners
<1>8. raced' = (raced \/ (tx[w].stale /\ u \in Owners \ Owners'))
  BY <1>7 DEF CommitDelete
<1>9. ~tx[w].stale /\ u \in Owners \ Owners' => Cardinality(Owners) > 1
  BY <1>1 DEF ChangeSound, Changing, Removal, Owners
<1> HIDE DEF u
<1>10. OwnerLostOnlyByRace'
  BY <1>4, <1>8, <1>9, OwnerStep
<1>11. tx' \in [Workers -> Transactions] /\ \A v \in Workers : RequestSound(v)'
  BY <1>2, <1>4, <1>5, <1>6, OverlappedStep
<1>12. TypeOK'
  <2>1. raced' \in BOOLEAN
    BY DEF CommitDelete, TeamInv, TypeOK
  <2> QED BY <1>4, <1>6, <1>11, <2>1, TypeSplit, TypeNext DEF TeamInv
<1>13. JoinedByClosedInvite'
  <2>1. \A y \in Users : members'[y] # NULL => members[y] # NULL
    BY <1>4, <1>5
  <2> QED BY <1>6, <2>1 DEF TeamInv, JoinedByClosedInvite
<1> QED BY <1>10, <1>11, <1>12, <1>13 DEF TeamInv

LEMMA CommitAcceptStep ==
  ASSUME TeamInv, NEW w \in Workers, CommitAccept(w)
  PROVE  TeamInv'
<1> DEFINE u == tx[w].user
           i == tx[w].invite
           row == [role |-> "member", status |-> "active"]
<1>1. tx[w] \in Transactions /\ u \in Users /\ i \in Invites
  BY TypeSplit DEF TeamInv, RequestSound, InviteSound, CommitAccept
<1>2. invites' = [invites EXCEPT ![i] = "accepted"] /\ UNCHANGED <<expired, raced>>
  BY DEF CommitAccept
<1>3. invites' \in [Invites -> InviteStatuses]
  BY <1>2 DEF InviteStatuses, TeamInv, TypeOK
<1>4. CASE tx[w].row # NULL
  <2>1. UNCHANGED <<members, admitted>> /\ tx' = [tx EXCEPT ![w] = Idle]
    BY <1>4 DEF CommitAccept
  <2>2. TypeOK'
    BY <1>2, <1>3, <2>1, IdleType, TypeSplit, TypeNext DEF TeamInv
  <2>3. Owners' = Owners
    BY <2>1 DEF Owners
  <2>4. ASSUME NEW v \in Workers PROVE RequestSound(v)'
    <3>1. CASE v = w
      <4>1. tx'[v] = Idle
        BY <2>1, <3>1 DEF TeamInv, TypeOK
      <4> QED BY <4>1 DEF RequestSound, CallerSound, ChangeSound, InviteSound, Changing, Idle
    <3>2. CASE v # w
      <4>1. tx'[v] = tx[v] /\ RequestSound(v)
        BY <2>1, <3>2 DEF TeamInv, TypeOK
      <4> QED BY <2>1, <2>3, <4>1 DEF RequestSound, CallerSound, ChangeSound, InviteSound, Removal
    <3> QED BY <3>1, <3>2
  <2>5. JoinedByClosedInvite'
    <3>1. ASSUME NEW k \in Invites, admitted[k] # {} PROVE invites'[k] \in {"accepted", "revoked"}
      <4>1. invites[k] \in {"accepted", "revoked"}
        BY <3>1 DEF TeamInv, JoinedByClosedInvite
      <4> QED BY <1>2, <4>1 DEF TeamInv, TypeOK
    <3> QED BY <2>1, <3>1 DEF TeamInv, JoinedByClosedInvite
  <2>6. OwnerLostOnlyByRace'
    BY <1>2, <2>3 DEF TeamInv, OwnerLostOnlyByRace
  <2> QED BY <2>2, <2>4, <2>5, <2>6 DEF TeamInv
<1>5. CASE tx[w].row = NULL
  <2>1. /\ members[u] = NULL /\ members' = [members EXCEPT ![u] = row]
        /\ admitted' = [admitted EXCEPT ![i] = @ \cup {u}]
    BY <1>5 DEF CommitAccept
  <2>2. members'[u] = row /\ \A y \in Users \ {u} : members'[y] = members[y]
    BY <1>1, <2>1 DEF TeamInv, TypeOK
  <2>3. tx' = AfterCommit(w, u, row)
    BY <1>5, <2>2 DEF CommitAccept
  <2>4. row \in Rows
    BY RowTypes
  <2> HIDE DEF u, i, row
  <2>5. tx' \in [Workers -> Transactions] /\ \A v \in Workers : RequestSound(v)'
    BY <1>1, <2>2, <2>3, <2>4, OverlappedStep
  <2>6. TypeOK'
    <3>1. members' \in [Users -> Rows \cup {NULL}] /\ admitted' \in [Invites -> SUBSET Users]
      BY <1>1, <2>1, <2>4 DEF TeamInv, TypeOK
    <3> QED BY <1>2, <1>3, <2>5, <3>1, TypeSplit, TypeNext DEF TeamInv
  <2>7. OwnerLostOnlyByRace'
    <3>1. \A y \in Owners : y \in Owners'
      BY <2>1, <2>2 DEF Owners
    <3> QED BY <1>2, <3>1 DEF TeamInv, OwnerLostOnlyByRace
  <2>8. JoinedByClosedInvite'
    <3>1. ASSUME NEW y \in Users, members'[y] # NULL, y \notin Founders
          PROVE  \E k \in Invites : y \in admitted'[k]
      <4>1. CASE y = u
        BY <1>1, <2>1, <4>1 DEF TeamInv, TypeOK
      <4>2. CASE y # u
        <5>1. PICK k \in Invites : y \in admitted[k]
          BY <2>2, <3>1, <4>2 DEF TeamInv, JoinedByClosedInvite
        <5> QED BY <2>1, <5>1 DEF TeamInv, TypeOK
      <4> QED BY <4>1, <4>2
    <3>2. ASSUME NEW k \in Invites, admitted'[k] # {} PROVE invites'[k] \in {"accepted", "revoked"}
      <4>1. k # i => invites[k] \in {"accepted", "revoked"}
        BY <2>1, <3>2 DEF TeamInv, JoinedByClosedInvite, TypeOK
      <4> QED BY <1>2, <4>1 DEF TeamInv, TypeOK
    <3> QED BY <3>1, <3>2 DEF JoinedByClosedInvite
  <2> QED BY <2>5, <2>6, <2>7, <2>8 DEF TeamInv
<1> QED BY <1>4, <1>5

-----------------------------------------------------------------------------
LEMMA TeamStep == TeamInv /\ [Next]_vars => TeamInv'
<1> SUFFICES ASSUME TeamInv, [Next]_vars PROVE TeamInv'
  OBVIOUS
<1>1. CASE UNCHANGED vars
  BY <1>1 DEF vars, TeamInv, TypeOK, RequestSound, CallerSound, ChangeSound, InviteSound, Removal,
              Owners, JoinedByClosedInvite, OwnerLostOnlyByRace
<1>2. ASSUME NEW w \in Workers, NEW u \in Users, Authorize(w, u) \/ LoadForDelete(w, u) PROVE TeamInv'
  BY <1>2, AuthorizeStep, LoadForDeleteStep
<1>3. ASSUME NEW w \in Workers, NEW u \in Users, NEW role \in Roles \cup {NULL},
             NEW status \in MemberStatuses \cup {NULL}, LoadForUpdate(w, u, role, status)
      PROVE  TeamInv'
  BY <1>3, LoadForUpdateStep
<1>4. ASSUME NEW w \in Workers, NEW u \in Users, NEW i \in Invites, LoadForAccept(w, u, i) PROVE TeamInv'
  BY <1>4, LoadInviteStep
<1>5. ASSUME NEW w \in Workers, NEW i \in Invites, CreateInvite(w, i) \/ LoadForCancel(w, i) PROVE TeamInv'
  BY <1>5, InviteStep, LoadInviteStep
<1>6. ASSUME NEW w \in Workers, CountOwners(w) PROVE TeamInv'
  BY <1>6, CountOwnersStep
<1>7. ASSUME NEW w \in Workers, CommitUpdate(w) PROVE TeamInv'
  BY <1>7, CommitUpdateStep
<1>8. ASSUME NEW w \in Workers, CommitDelete(w) PROVE TeamInv'
  BY <1>8, CommitDeleteStep
<1>9. ASSUME NEW w \in Workers, CommitCancel(w) PROVE TeamInv'
  BY <1>9, InviteStep
<1>10. ASSUME NEW w \in Workers, LookUpMember(w) PROVE TeamInv'
  BY <1>10, LookUpMemberStep
<1>11. ASSUME NEW w \in Workers, CommitAccept(w) PROVE TeamInv'
  BY <1>11, CommitAcceptStep
<1>12. ASSUME NEW w \in Workers, Abort(w) PROVE TeamInv'
  BY <1>12, AbortStep
<1>13. ASSUME NEW i \in Invites, Expire(i) PROVE TeamInv'
  BY <1>13, ExpireStep
<1> QED BY <1>1, <1>2, <1>3, <1>4, <1>5, <1>6, <1>7, <1>8, <1>9, <1>10, <1>11, <1>12, <1>13 DEF Next

LEMMA TeamHolds == Spec => []TeamInv
  BY TeamInit, TeamStep, PTL DEF Spec

-----------------------------------------------------------------------------
\* Members, invites and the requests' transactions keep their types: an UPDATE
\* merged from a row that changed since it was loaded still writes a valid row, and
\* no request changes the row of a member that is gone.
THEOREM TypeCorrect == Spec => []TypeOK
<1>1. TeamInv => TypeOK
  BY DEF TeamInv
<1> QED BY <1>1, TeamHolds, PTL

\* An organization without an owner lost its last one to a removal that overlapped
\* another change of the members, for any number of requests at the same time.
THEOREM LastOwnerIsRaced == Spec => []OwnerLostOnlyByRace
<1>1. TeamInv => OwnerLostOnlyByRace
  BY DEF TeamInv
<1> QED BY <1>1, TeamHolds, PTL

\* Every member is a founder or was admitted by an invite that is closed for good.
THEOREM InvitesClose == Spec => []JoinedByClosedInvite
<1>1. TeamInv => JoinedByClosedInvite
  BY DEF TeamInv
<1> QED BY <1>1, TeamHolds, PTL
=============================================================================
