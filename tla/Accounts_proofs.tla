----------------------------- MODULE Accounts_proofs -----------------------------
(***************************************************************************)
(* Proofs about Accounts: Identity, for any users, organizations, names,   *)
(* tokens and workers, and RateLimit, for any number of clients, any limit *)
(* and any window.                                                         *)
(***************************************************************************)
EXTENDS Accounts, FiniteSetTheorems, TLAPS

\* The type of one request's transaction.
Transactions == [at: {"idle", "user", "org", "profile", "token", "member"},
                 op: Operations \cup {NULL}, email: Users \cup {NULL}, user: UserRows \cup {NULL},
                 org: Orgs \cup {NULL}, old: Names \cup {NULL}, name: Names \cup {NULL},
                 profile: Names \cup {NULL}, token: Tokens \cup {NULL},
                 missed: SUBSET {"home", "name", "token", "member"}]

Own(u) == {o \in OrgsOf(u) : <<u, o>> \notin joined}

\* What memberships, invites and tokens refer to is there.
Referenced ==
  /\ \A u \in Users, o \in Orgs : members[u][o] # "none" => users[u] # NULL /\ orgs[o] # NULL
  /\ \A u \in Users, o \in Orgs : <<u, o>> \in joined => orgs[o] # NULL
  /\ \A t \in Tokens : tokens[t] # NULL => orgs[tokens[t].org] # NULL

\* A request in an organization has read its name and its profile as they are,
\* unless it missed a change of names.
InOrg(w) ==
  tx[w].at \in {"user", "org", "profile"} /\ tx[w].org # NULL =>
    /\ tx[w].op \in {"login", "google", "rename"} /\ tx[w].email \in Users /\ orgs[tx[w].org] # NULL
    /\ tx[w].op # "rename" => users[tx[w].email] # NULL
    /\ tx[w].at # "user" => tx[w].old \in Names /\ tx[w].name \in Names
    /\ tx[w].at # "user" /\ "name" \notin tx[w].missed => tx[w].old = orgs[tx[w].org]
    /\ tx[w].at = "profile" /\ "name" \notin tx[w].missed => tx[w].profile = profiles[tx[w].org]

\* A sign-in that makes an organization is of a user who has none of its own,
\* unless it missed the making of one.
NewHome(w) ==
  tx[w].at \in {"user", "org", "profile"} /\ tx[w].org = NULL =>
    /\ tx[w].at = "profile" /\ tx[w].op \in {"register", "google"}
    /\ tx[w].email \in Users /\ tx[w].user \in UserRows /\ tx[w].name \in Names
    /\ tx[w].op = "google" /\ "home" \notin tx[w].missed => Own(tx[w].email) = {}

\* A token that is being exchanged is good, and its user a member, unless the
\* request missed another exchange or a change of memberships.
Rotating(w) ==
  tx[w].at \in {"token", "member"} =>
    /\ tx[w].op = "rotate" /\ tx[w].token \in Tokens /\ tokens[tx[w].token] # NULL
    /\ "token" \notin tx[w].missed => ~tokens[tx[w].token].revoked
    /\ tx[w].at = "member" /\ "member" \notin tx[w].missed =>
         members[tokens[tx[w].token].user][tokens[tx[w].token].org] = "active"

RequestSound(w) ==
  /\ tx[w].at = "idle" => tx[w] = Idle
  /\ InOrg(w) /\ NewHome(w) /\ Rotating(w)

\* OneHome, without the Cardinality.
OwnsOne ==
  \A u \in Users : users[u] # NULL =>
    /\ u \in doubled \/ \A o, p \in Own(u) : o = p
    /\ Own(u) # {} \/ u \in removed

IdentityInv ==
  /\ TypeOK
  /\ Referenced
  /\ \A w \in Workers : RequestSound(w)
  /\ OwnsOne
  /\ ProfileFollowsOrg

USE OthersAssumption, NullAssumption

-----------------------------------------------------------------------------
\* TypeOK, with the type of a transaction named.
LEMMA TypeSplit ==
  TypeOK <=> /\ users \in [Users -> UserRows \cup {NULL}]
             /\ orgs \in [Orgs -> Names \cup {NULL}]
             /\ profiles \in [Orgs -> Names \cup {NULL}]
             /\ members \in [Users -> [Orgs -> Memberships]]
             /\ tokens \in [Tokens -> TokenRows \cup {NULL}]
             /\ tx \in [Workers -> Transactions]
             /\ joined \subseteq Users \X Orgs
             /\ removed \cup doubled \subseteq Users
             /\ behind \subseteq Orgs
  BY DEF TypeOK, Transactions

LEMMA TypeNext ==
  TypeOK' <=> /\ users' \in [Users -> UserRows \cup {NULL}]
              /\ orgs' \in [Orgs -> Names \cup {NULL}]
              /\ profiles' \in [Orgs -> Names \cup {NULL}]
              /\ members' \in [Users -> [Orgs -> Memberships]]
              /\ tokens' \in [Tokens -> TokenRows \cup {NULL}]
              /\ tx' \in [Workers -> Transactions]
              /\ joined' \subseteq Users \X Orgs
              /\ removed' \cup doubled' \subseteq Users
              /\ behind' \subseteq Orgs
  BY DEF TypeOK, Transactions

LEMMA IdleType == Idle \in Transactions
  BY DEF Idle, Transactions

LEMMA IdleSound ==
  ASSUME NEW w \in Workers, tx[w] = Idle
  PROVE  RequestSound(w)
  BY DEF Idle, RequestSound, InOrg, NewHome, Rotating

LEMMA IdleSoundNext ==
  ASSUME NEW w \in Workers, tx'[w] = Idle
  PROVE  RequestSound(w)'
  BY DEF Idle, RequestSound, InOrg, NewHome, Rotating

LEMMA IdentityInit == Init => IdentityInv
<1> SUFFICES ASSUME Init PROVE IdentityInv
  OBVIOUS
<1> USE DEF Init
<1>1. PICK n \in Names : orgs = [o \in Orgs |-> IF o \in Others THEN n ELSE NULL]
  OBVIOUS
<1>2. TypeOK
  BY <1>1, IdleType, TypeSplit DEF Memberships
<1>3. Referenced
  BY DEF Referenced
<1>4. \A w \in Workers : RequestSound(w)
  BY IdleSound
<1>5. OwnsOne /\ ProfileFollowsOrg
  BY DEF OwnsOne, ProfileFollowsOrg
<1> QED BY <1>2, <1>3, <1>4, <1>5 DEF IdentityInv

-----------------------------------------------------------------------------
\* A request reads, and changes nothing but its own transaction.
LEMMA PrivateStep ==
  ASSUME IdentityInv, NEW w \in Workers, NEW t \in Transactions, tx' = [tx EXCEPT ![w] = t],
         UNCHANGED <<users, orgs, profiles, members, tokens, history>>, RequestSound(w)'
  PROVE  IdentityInv'
<1> USE DEF history
<1>1. TypeOK'
  BY TypeSplit, TypeNext DEF IdentityInv
<1>2. \A u \in Users : Own(u)' = Own(u)
  BY DEF Own, OrgsOf
<1>3. ASSUME NEW v \in Workers PROVE RequestSound(v)'
  <2>1. CASE v = w
    BY <2>1
  <2>2. CASE v # w
    <3>1. tx'[v] = tx[v] /\ RequestSound(v)
      BY <2>2 DEF IdentityInv, TypeOK
    <3> QED BY <1>2, <3>1 DEF RequestSound, InOrg, NewHome, Rotating
  <2> QED BY <2>1, <2>2
<1>4. Referenced' /\ ProfileFollowsOrg'
  BY DEF IdentityInv, Referenced, ProfileFollowsOrg
<1>5. OwnsOne'
  BY <1>2 DEF IdentityInv, OwnsOne
<1> QED BY <1>1, <1>3, <1>4, <1>5 DEF IdentityInv

LEMMA AbortStep ==
  ASSUME IdentityInv, NEW w \in Workers, Abort(w)
  PROVE  IdentityInv'
<1>1. /\ tx' = [tx EXCEPT ![w] = Idle] /\ tx'[w] = Idle
      /\ UNCHANGED <<users, orgs, profiles, members, tokens, history>>
  BY DEF Abort, Continue, IdentityInv, TypeOK
<1> QED BY <1>1, IdleType, IdleSoundNext, PrivateStep

LEMMA LookUpEmailStep ==
  ASSUME IdentityInv, NEW w \in Workers, NEW u \in Users, NEW n \in Names, LookUpEmail(w, u, n)
  PROVE  IdentityInv'
<1> DEFINE r == [password |-> TRUE, google |-> FALSE]
           t == [Idle EXCEPT !.at = "profile", !.op = "register", !.email = u, !.name = n, !.user = r]
<1>1. r \in UserRows
  BY DEF UserRows
<1>2. /\ tx' = [tx EXCEPT ![w] = t] /\ tx'[w] = t
      /\ UNCHANGED <<users, orgs, profiles, members, tokens, history>>
  BY DEF LookUpEmail, Begin, IdentityInv, TypeOK
<1> HIDE DEF r
<1>3. t \in Transactions /\ t.at = "profile" /\ t.op = "register" /\ t.email = u /\ t.name = n /\ t.user = r
  BY <1>1, IdleType DEF Transactions, Operations
<1>4. t.org = NULL
  BY DEF Idle
<1> HIDE DEF t
<1>5. RequestSound(w)'
  BY <1>1, <1>2, <1>3, <1>4 DEF RequestSound, InOrg, NewHome, Rotating
<1> QED BY <1>2, <1>3, <1>5, PrivateStep

\* A sign-in finds the organization of its user.
LEMMA FoundHome ==
  ASSUME IdentityInv, NEW w \in Workers, NEW u \in Users, NEW o \in OrgsOf(u), users[u] # NULL,
         NEW op \in {"login", "google"},
         Begin(w, [Idle EXCEPT !.at = "user", !.op = op, !.email = u, !.user = users[u], !.org = o])
  PROVE  IdentityInv'
<1> DEFINE t == [Idle EXCEPT !.at = "user", !.op = op, !.email = u, !.user = users[u], !.org = o]
<1>1. o \in Orgs /\ orgs[o] # NULL /\ users[u] \in UserRows
  BY DEF OrgsOf, IdentityInv, Referenced, TypeOK
<1>2. /\ tx' = [tx EXCEPT ![w] = t] /\ tx'[w] = t
      /\ UNCHANGED <<users, orgs, profiles, members, tokens, history>>
  BY DEF Begin, IdentityInv, TypeOK
<1>3. t \in Transactions /\ t.at = "user" /\ t.op = op /\ t.email = u /\ t.org = o
  BY <1>1, IdleType DEF Transactions, Operations
<1> HIDE DEF t
<1>4. RequestSound(w)'
  BY <1>1, <1>2, <1>3 DEF RequestSound, InOrg, NewHome, Rotating
<1> QED BY <1>2, <1>3, <1>4, PrivateStep

LEMMA LoadForLoginStep ==
  ASSUME IdentityInv, NEW w \in Workers, NEW u \in Users, LoadForLogin(w, u)
  PROVE  IdentityInv'
<1>1. PICK o \in OrgsOf(u) :
        Begin(w, [Idle EXCEPT !.at = "user", !.op = "login", !.email = u, !.user = users[u], !.org = o])
  BY DEF LoadForLogin
<1> QED BY <1>1, FoundHome DEF LoadForLogin

LEMMA LoadForGoogleStep ==
  ASSUME IdentityInv, NEW w \in Workers, NEW u \in Users, NEW n \in Names, LoadForGoogle(w, u, n)
  PROVE  IdentityInv'
<1> DEFINE found == IF users[u] = NULL THEN [password |-> FALSE, google |-> FALSE] ELSE users[u]
<1>1. CASE users[u] = NULL \/ Homes(u) = {}
  <2> DEFINE t == [Idle EXCEPT !.at = "profile", !.op = "google", !.email = u, !.user = found, !.name = n]
  <2>1. /\ tx' = [tx EXCEPT ![w] = t] /\ tx'[w] = t
        /\ UNCHANGED <<users, orgs, profiles, members, tokens, history>>
    BY <1>1 DEF LoadForGoogle, Begin, IdentityInv, TypeOK
  <2>2. found \in UserRows
    BY DEF UserRows, IdentityInv, TypeOK
  <2> HIDE DEF found
  <2>3. t \in Transactions /\ t.at = "profile" /\ t.op = "google" /\ t.email = u /\ t.name = n /\ t.user = found
    BY <2>2, IdleType DEF Transactions, Operations
  <2>4. t.org = NULL
    BY DEF Idle
  <2>5. Own(u) = {}
    BY <1>1 DEF Own, Homes, OrgsOf, IdentityInv, Referenced
  <2>6. Own(u)' = Own(u)
    BY <2>1 DEF Own, OrgsOf, history
  <2> HIDE DEF t
  <2>7. RequestSound(w)'
    BY <2>1, <2>2, <2>3, <2>4, <2>5, <2>6 DEF RequestSound, InOrg, NewHome, Rotating
  <2> QED BY <2>1, <2>3, <2>7, PrivateStep
<1>2. CASE ~(users[u] = NULL \/ Homes(u) = {})
  <2>1. PICK o \in Homes(u) :
          Begin(w, [Idle EXCEPT !.at = "user", !.op = "google", !.email = u, !.user = users[u], !.org = o])
    BY <1>2 DEF LoadForGoogle
  <2> QED BY <1>2, <2>1, FoundHome DEF Homes
<1> QED BY <1>1, <1>2

LEMMA ReadOrgStep ==
  ASSUME IdentityInv, NEW w \in Workers, ReadOrg(w)
  PROVE  IdentityInv'
<1> DEFINE n == orgs[tx[w].org]
           t == [tx[w] EXCEPT !.at = "org", !.old = n, !.name = n]
<1>1. /\ tx[w] \in Transactions /\ tx[w].at = "user" /\ InOrg(w) /\ NewHome(w)
  BY TypeSplit DEF ReadOrg, IdentityInv, RequestSound
<1>2. tx[w].org \in Orgs /\ n \in Names
  BY <1>1 DEF NewHome, InOrg, Transactions, IdentityInv, TypeOK
<1>3. /\ tx' = [tx EXCEPT ![w] = t] /\ tx'[w] = t
      /\ UNCHANGED <<users, orgs, profiles, members, tokens, history>>
  BY DEF ReadOrg, Continue, IdentityInv, TypeOK
<1>4. n = orgs[tx[w].org]
  OBVIOUS
<1> HIDE DEF n
<1>5. /\ t \in Transactions /\ t.at = "org" /\ t.op = tx[w].op /\ t.email = tx[w].email /\ t.org = tx[w].org
      /\ t.old = n /\ t.name = n /\ t.missed = tx[w].missed
  BY <1>1, <1>2 DEF Transactions
<1> HIDE DEF t
<1>6. RequestSound(w)'
  BY <1>1, <1>2, <1>3, <1>4, <1>5 DEF RequestSound, InOrg, NewHome, Rotating
<1> QED BY <1>3, <1>5, <1>6, PrivateStep

LEMMA LoadForRenameStep ==
  ASSUME IdentityInv, NEW w \in Workers, NEW k \in Tokens, NEW n \in Names \cup {NULL}, LoadForRename(w, k, n)
  PROVE  IdentityInv'
<1> DEFINE o == tokens[k].org
           name == IF n = NULL THEN orgs[o] ELSE n
           t == [Idle EXCEPT !.at = "org", !.op = "rename", !.email = tokens[k].user, !.org = o,
                             !.old = orgs[o], !.name = name]
<1>1. tokens[k] \in TokenRows /\ tokens[k].user \in Users /\ o \in Orgs
  BY DEF LoadForRename, IdentityInv, TypeOK, TokenRows
<1>2. orgs[o] \in Names /\ name \in Names /\ o # NULL
  BY <1>1 DEF LoadForRename, IdentityInv, TypeOK, Referenced
<1>3. /\ tx' = [tx EXCEPT ![w] = t] /\ tx'[w] = t
      /\ UNCHANGED <<users, orgs, profiles, members, tokens, history>>
  BY DEF LoadForRename, Begin, IdentityInv, TypeOK
<1> HIDE DEF name
<1>4. /\ t \in Transactions /\ t.at = "org" /\ t.op = "rename" /\ t.email = tokens[k].user /\ t.org = o
      /\ t.old = orgs[o] /\ t.name = name
  BY <1>1, <1>2, IdleType DEF Transactions, Operations
<1> HIDE DEF t
<1>5. RequestSound(w)'
  BY <1>1, <1>2, <1>3, <1>4 DEF RequestSound, InOrg, NewHome, Rotating
<1> QED BY <1>3, <1>4, <1>5, PrivateStep

LEMMA ReadProfileStep ==
  ASSUME IdentityInv, NEW w \in Workers, ReadProfile(w)
  PROVE  IdentityInv'
<1> DEFINE p == profiles[tx[w].org]
           t == [tx[w] EXCEPT !.at = "profile", !.profile = p]
<1>1. tx[w] \in Transactions /\ tx[w].at = "org" /\ InOrg(w) /\ NewHome(w)
  BY TypeSplit DEF ReadProfile, IdentityInv, RequestSound
<1>2. tx[w].org \in Orgs /\ p \in Names \cup {NULL} /\ p = profiles[tx[w].org]
  BY <1>1 DEF NewHome, Transactions, IdentityInv, TypeOK
<1>3. /\ tx' = [tx EXCEPT ![w] = t] /\ tx'[w] = t
      /\ UNCHANGED <<users, orgs, profiles, members, tokens, history>>
  BY DEF ReadProfile, Continue, IdentityInv, TypeOK
<1> HIDE DEF p
<1>4. /\ t \in Transactions /\ t.at = "profile" /\ t.op = tx[w].op /\ t.email = tx[w].email /\ t.org = tx[w].org
      /\ t.old = tx[w].old /\ t.name = tx[w].name /\ t.missed = tx[w].missed /\ t.profile = p
  BY <1>1, <1>2 DEF Transactions
<1> HIDE DEF t
<1>5. RequestSound(w)'
  BY <1>1, <1>2, <1>3, <1>4 DEF RequestSound, InOrg, NewHome, Rotating
<1> QED BY <1>3, <1>4, <1>5, PrivateStep

LEMMA TokenStep ==
  ASSUME IdentityInv, NEW w \in Workers, RevokeToken(w) \/ \E k \in Tokens : LoadToken(w, k)
  PROVE  IdentityInv'
<1>1. ASSUME NEW k \in Tokens, LoadToken(w, k) PROVE IdentityInv'
  <2> DEFINE t == [Idle EXCEPT !.at = "token", !.op = "rotate", !.token = k]
  <2>1. /\ tx' = [tx EXCEPT ![w] = t] /\ tx'[w] = t
        /\ UNCHANGED <<users, orgs, profiles, members, tokens, history>>
    BY <1>1 DEF LoadToken, Begin, IdentityInv, TypeOK
  <2>2. t \in Transactions /\ t.at = "token" /\ t.op = "rotate" /\ t.token = k
    BY IdleType DEF Transactions, Operations
  <2> HIDE DEF t
  <2>3. RequestSound(w)'
    BY <1>1, <2>1, <2>2 DEF LoadToken, RequestSound, InOrg, NewHome, Rotating
  <2> QED BY <2>1, <2>2, <2>3, PrivateStep
<1>2. CASE RevokeToken(w)
  <2> DEFINE t == [tx[w] EXCEPT !.at = "member"]
  <2>1. tx[w] \in Transactions /\ tx[w].at = "token" /\ Rotating(w)
    BY <1>2, TypeSplit DEF RevokeToken, IdentityInv, RequestSound
  <2>2. /\ tx' = [tx EXCEPT ![w] = t] /\ tx'[w] = t
        /\ members[tokens[tx[w].token].user][tokens[tx[w].token].org] = "active"
        /\ UNCHANGED <<users, orgs, profiles, members, tokens, history>>
    BY <1>2 DEF RevokeToken, Continue, IdentityInv, TypeOK
  <2>3. t \in Transactions /\ t.at = "member" /\ t.op = tx[w].op /\ t.token = tx[w].token /\ t.missed = tx[w].missed
    BY <2>1 DEF Transactions
  <2> HIDE DEF t
  <2>4. RequestSound(w)'
    BY <2>1, <2>2, <2>3 DEF RequestSound, InOrg, NewHome, Rotating
  <2> QED BY <2>2, <2>3, <2>4, PrivateStep
<1> QED BY <1>1, <1>2

-----------------------------------------------------------------------------
\* What a commit of these kinds leaves of the requests that it overlapped.
LEMMA MissedSound ==
  ASSUME IdentityInv, NEW w, NEW kinds \in SUBSET {"home", "name", "token", "member"},
         tx' = Missed(w, kinds),
         \A u \in Users : users[u] # NULL => users'[u] # NULL,
         \A o \in Orgs : orgs[o] # NULL => orgs'[o] # NULL,
         "name" \notin kinds =>
           \A o \in Orgs : orgs[o] # NULL => orgs'[o] = orgs[o] /\ profiles'[o] = profiles[o],
         "home" \notin kinds => \A u \in Users : Own(u)' \subseteq Own(u),
         \A t \in Tokens : tokens[t] # NULL =>
           tokens'[t] # NULL /\ tokens'[t].user = tokens[t].user /\ tokens'[t].org = tokens[t].org,
         "token" \notin kinds => \A t \in Tokens : tokens[t] # NULL => tokens'[t] = tokens[t],
         "member" \notin kinds =>
           \A u \in Users, o \in Orgs : members[u][o] = "active" => members'[u][o] = "active"
  PROVE  tx' \in [Workers -> Transactions] /\ \A v \in Workers : RequestSound(v)'
<1>1. ASSUME NEW v \in Workers PROVE tx'[v] \in Transactions /\ RequestSound(v)'
  <2>1. tx[v] \in Transactions /\ RequestSound(v)
    BY TypeSplit DEF IdentityInv
  <2>2. CASE v = w \/ tx[v].at = "idle"
    <3>1. tx'[v] = Idle
      BY <2>2 DEF Missed
    <3> QED BY <3>1, IdleType, IdleSoundNext
  <2>3. CASE v # w /\ tx[v].at # "idle"
    <3> DEFINE missed == tx[v].missed \cup (kinds \cap Concerns[tx[v].op])
    <3>1. tx'[v] = [tx[v] EXCEPT !.missed = missed]
      BY <2>3 DEF Missed
    <3>2. missed \in SUBSET {"home", "name", "token", "member"} /\ tx[v].missed \subseteq missed
      BY <2>1 DEF Transactions
    <3>3. /\ tx[v].op = "google" /\ "home" \in kinds => "home" \in missed
          /\ tx[v].op \in {"login", "google", "rename"} /\ "name" \in kinds => "name" \in missed
          /\ tx[v].op = "rotate" /\ "token" \in kinds => "token" \in missed
          /\ tx[v].op = "rotate" /\ "member" \in kinds => "member" \in missed
      BY DEF Concerns
    <3> HIDE DEF missed
    <3>4. /\ tx'[v] \in Transactions /\ tx'[v].missed = missed
          /\ tx'[v].at = tx[v].at /\ tx'[v].op = tx[v].op /\ tx'[v].email = tx[v].email
          /\ tx'[v].user = tx[v].user /\ tx'[v].org = tx[v].org /\ tx'[v].old = tx[v].old
          /\ tx'[v].name = tx[v].name /\ tx'[v].profile = tx[v].profile /\ tx'[v].token = tx[v].token
      BY <2>1, <3>1, <3>2 DEF Transactions
    <3>5. InOrg(v)'
      <4> SUFFICES ASSUME tx[v].at \in {"user", "org", "profile"}, tx[v].org # NULL
                   PROVE  InOrg(v)'
        BY <3>4 DEF InOrg
      <4>1. InOrg(v) /\ tx[v].org \in Orgs
        BY <2>1 DEF RequestSound, Transactions
      <4> QED BY <3>2, <3>3, <3>4, <4>1 DEF InOrg
    <3>6. NewHome(v)'
      BY <2>1, <3>2, <3>3, <3>4 DEF RequestSound, NewHome
    <3>7. Rotating(v)'
      <4> SUFFICES ASSUME tx[v].at \in {"token", "member"}
                   PROVE  Rotating(v)'
        BY <3>4 DEF Rotating
      <4>1. Rotating(v) /\ tx[v].token \in Tokens /\ tokens[tx[v].token] # NULL
        BY <2>1 DEF RequestSound, Rotating
      <4>2. tokens[tx[v].token].user \in Users /\ tokens[tx[v].token].org \in Orgs
        BY <4>1 DEF IdentityInv, TypeOK, TokenRows
      <4> QED BY <3>2, <3>3, <3>4, <4>1, <4>2 DEF Rotating
    <3> QED BY <2>3, <3>4, <3>5, <3>6, <3>7 DEF RequestSound
  <2> QED BY <2>2, <2>3
<1>2. tx' = [v \in Workers |-> tx'[v]]
  BY DEF Missed
<1> QED BY <1>1, <1>2

\* A new token refers to its organization, and changes no other.
LEMMA IssuedSound ==
  ASSUME IdentityInv, NEW table \in [Tokens -> TokenRows \cup {NULL}], NEW u \in Users, NEW o \in Orgs,
         NEW new \in Issued(table, u, o)
  PROVE  /\ new \in [Tokens -> TokenRows \cup {NULL}]
         /\ \A t \in Tokens : table[t] # NULL => new[t] = table[t]
         /\ \A t \in Tokens : new[t] # NULL /\ table[t] = NULL => new[t].org = o
<1> DEFINE row == [user |-> u, org |-> o, revoked |-> FALSE]
<1>1. PICK k \in Tokens : table[k] = NULL /\ new = [table EXCEPT ![k] = row]
  BY DEF Issued
<1>2. row \in TokenRows /\ row.org = o
  BY DEF TokenRows
<1> HIDE DEF row
<1> QED BY <1>1, <1>2

LEMMA CommitNewOrgStep ==
  ASSUME IdentityInv, NEW w \in Workers, CommitNewOrg(w)
  PROVE  IdentityInv'
<1> DEFINE n == tx[w].name
<1>1. /\ tx[w] \in Transactions /\ NewHome(w) /\ tx[w].at = "profile" /\ tx[w].org = NULL
      /\ ~InsertsTwice(w) /\ UNCHANGED <<joined, removed, behind>> /\ tx' = Missed(w, {"home"})
  BY TypeSplit DEF CommitNewOrg, IdentityInv, RequestSound
<1>u. PICK u \in Users : u = tx[w].email
  BY <1>1 DEF NewHome
<1>2. /\ tx[w].op \in {"register", "google"} /\ n \in Names /\ n # NULL
      /\ tx[w].user \in UserRows
  BY <1>1, <1>u DEF NewHome
<1>3. PICK o \in Orgs :
        /\ orgs[o] = NULL
        /\ users' = [users EXCEPT ![u] = UserAfter(w)]
        /\ orgs' = [orgs EXCEPT ![o] = n]
        /\ profiles' = [profiles EXCEPT ![o] = n]
        /\ members' = [members EXCEPT ![u][o] = "active"]
        /\ tokens' \in Issued(tokens, u, o)
        /\ doubled' = IF "home" \in tx[w].missed THEN doubled \cup {u} ELSE doubled
  BY <1>u DEF CommitNewOrg
<1>4. UserAfter(w) \in UserRows
  <2>1. users[u] \in UserRows \cup {NULL}
    BY TypeSplit DEF IdentityInv
  <2>2. CASE tx[w].op = "register"
    BY <1>2, <2>2 DEF UserAfter
  <2>3. CASE tx[w].op = "google"
    <3> DEFINE b == IF users[u] = NULL THEN FALSE ELSE users[u].password
    <3>1. UserAfter(w) = [password |-> b, google |-> TRUE]
      BY <1>u, <2>3 DEF UserAfter
    <3>2. b \in BOOLEAN
      BY <2>1 DEF UserRows
    <3> HIDE DEF b
    <3> QED BY <3>1, <3>2 DEF UserRows
  <2> QED BY <1>2, <2>2, <2>3
<1>5. users' \in [Users -> UserRows \cup {NULL}] /\ users'[u] # NULL /\ \A y \in Users \ {u} : users'[y] = users[y]
  BY <1>2, <1>3, <1>4 DEF IdentityInv, TypeOK
<1>6. /\ orgs' \in [Orgs -> Names \cup {NULL}] /\ profiles' \in [Orgs -> Names \cup {NULL}]
      /\ orgs'[o] = n /\ profiles'[o] = n
      /\ \A p \in Orgs \ {o} : orgs'[p] = orgs[p] /\ profiles'[p] = profiles[p]
  BY <1>2, <1>3 DEF IdentityInv, TypeOK
<1>7. /\ members' \in [Users -> [Orgs -> Memberships]] /\ members'[u][o] = "active"
      /\ \A y \in Users, p \in Orgs : y # u \/ p # o => members'[y][p] = members[y][p]
  BY <1>2, <1>3 DEF IdentityInv, TypeOK, Memberships
<1>8. /\ tokens' \in [Tokens -> TokenRows \cup {NULL}]
      /\ \A t \in Tokens : tokens[t] # NULL => tokens'[t] = tokens[t]
      /\ \A t \in Tokens : tokens'[t] # NULL /\ tokens[t] = NULL => tokens'[t].org = o
  <2>1. tokens \in [Tokens -> TokenRows \cup {NULL}]
    BY DEF IdentityInv, TypeOK
  <2> QED BY <1>2, <1>3, <2>1, IssuedSound
<1>9. Own(u)' = Own(u) \cup {o} /\ \A y \in Users \ {u} : Own(y)' = Own(y)
  <2>1. <<u, o>> \notin joined
    BY <1>2, <1>3 DEF IdentityInv, Referenced
  <2>2. Own(u) \subseteq Orgs /\ Own(u)' \subseteq Orgs
    BY DEF Own, OrgsOf
  <2>3. o \in Own(u)'
    BY <1>1, <1>2, <1>7, <2>1 DEF Own, OrgsOf
  <2>4. \A p \in Orgs \ {o} : p \in Own(u)' <=> p \in Own(u)
    BY <1>1, <1>2, <1>7 DEF Own, OrgsOf
  <2>5. ASSUME NEW y \in Users \ {u} PROVE Own(y)' = Own(y)
    BY <1>1, <1>7 DEF Own, OrgsOf
  <2> QED BY <2>2, <2>3, <2>4, <2>5
<1> HIDE DEF n
<1>10. tx' \in [Workers -> Transactions] /\ \A v \in Workers : RequestSound(v)'
  <2>1. \A y \in Users : users[y] # NULL => users'[y] # NULL
    BY <1>5
  <2>2. \A p \in Orgs : orgs[p] # NULL => orgs'[p] # NULL /\ orgs'[p] = orgs[p] /\ profiles'[p] = profiles[p]
    BY <1>3, <1>6
  <2>3. \A y \in Users, p \in Orgs : members[y][p] = "active" => members'[y][p] = "active"
    BY <1>7
  <2> DEFINE kinds == {"home"}
  <2>4. kinds \in SUBSET {"home", "name", "token", "member"} /\ "home" \in kinds /\ tx' = Missed(w, kinds)
    BY <1>1
  <2> HIDE DEF kinds
  <2> QED BY <1>8, <2>1, <2>2, <2>3, <2>4, MissedSound
<1>11. TypeOK'
  BY <1>1, <1>2, <1>3, <1>5, <1>6, <1>7, <1>8, <1>10, TypeSplit, TypeNext DEF IdentityInv
<1>12. Referenced'
  <2>1. ASSUME NEW y \in Users, NEW p \in Orgs, members'[y][p] # "none" PROVE users'[y] # NULL /\ orgs'[p] # NULL
    BY <1>2, <1>5, <1>6, <1>7, <2>1 DEF IdentityInv, Referenced
  <2>2. ASSUME NEW y \in Users, NEW p \in Orgs, <<y, p>> \in joined PROVE orgs'[p] # NULL
    BY <1>2, <1>6, <2>2 DEF IdentityInv, Referenced
  <2>3. ASSUME NEW t \in Tokens, tokens'[t] # NULL PROVE orgs'[tokens'[t].org] # NULL
    <3>1. CASE tokens[t] = NULL
      BY <1>2, <1>6, <1>8, <2>3, <3>1
    <3>2. CASE tokens[t] # NULL
      <4>1. tokens'[t] = tokens[t] /\ orgs[tokens[t].org] # NULL /\ tokens[t].org \in Orgs
        BY <1>8, <3>2 DEF IdentityInv, Referenced, TypeOK, TokenRows
      <4> QED BY <1>2, <1>6, <4>1
    <3> QED BY <3>1, <3>2
  <2> QED BY <1>1, <2>1, <2>2, <2>3 DEF Referenced
<1>13. OwnsOne'
  <2>1. Own(u) = {} \/ u \in doubled'
    <3>1. CASE tx[w].op = "register"
      <4>1. users[u] = NULL
        BY <1>u, <1>1, <3>1 DEF InsertsTwice
      <4> QED BY <1>2, <4>1 DEF Own, OrgsOf, IdentityInv, Referenced
    <3>2. CASE tx[w].op = "google"
      BY <1>u, <1>1, <1>3, <3>2 DEF NewHome
    <3> QED BY <1>2, <3>1, <3>2
  <2>2. doubled \subseteq doubled'
    BY <1>3
  <2> SUFFICES ASSUME NEW y \in Users, users'[y] # NULL
               PROVE  /\ y \in doubled' \/ \A q, p \in Own(y)' : q = p
                      /\ Own(y)' # {} \/ y \in removed'
    BY DEF OwnsOne
  <2>3. CASE y = u
    BY <1>9, <2>1, <2>3
  <2>4. CASE y # u
    <3>1. users[y] # NULL /\ Own(y)' = Own(y) /\ removed' = removed
      BY <1>1, <1>5, <1>9, <2>4
    <3> QED BY <2>2, <3>1 DEF IdentityInv, OwnsOne
  <2> QED BY <2>3, <2>4
<1>14. ProfileFollowsOrg'
  BY <1>1, <1>6 DEF IdentityInv, ProfileFollowsOrg
<1> QED BY <1>10, <1>11, <1>12, <1>13, <1>14 DEF IdentityInv

LEMMA CommitProfileStep ==
  ASSUME IdentityInv, NEW w \in Workers, CommitProfile(w)
  PROVE  IdentityInv'
<1> DEFINE u == tx[w].email
           o == tx[w].org
           n == tx[w].name
           kinds == IF orgs'[o] # orgs[o] \/ profiles'[o] # profiles[o] THEN {"name"} ELSE {}
<1>1. /\ tx[w] \in Transactions /\ InOrg(w) /\ tx[w].at = "profile" /\ o # NULL
      /\ UNCHANGED <<members, joined, removed, doubled>>
  BY TypeSplit DEF CommitProfile, IdentityInv, RequestSound
<1>2. /\ tx[w].op \in {"login", "google", "rename"} /\ u \in Users /\ o \in Orgs
      /\ orgs[o] # NULL /\ tx[w].old \in Names /\ n \in Names /\ n # NULL
      /\ tx[w].op # "rename" => users[u] # NULL
      /\ "name" \notin tx[w].missed => tx[w].old = orgs[o] /\ tx[w].profile = profiles[o]
  BY <1>1 DEF InOrg, Transactions
<1>3. /\ orgs' = [orgs EXCEPT ![o] = Merged(@, tx[w].old, n)]
      /\ profiles' = [profiles EXCEPT ![o] = ProfileAfter(w)]
      /\ behind' = IF "name" \in tx[w].missed THEN behind \cup {o} ELSE behind \ {o}
      /\ tx' = Missed(w, kinds)
  BY DEF CommitProfile
<1>4. ProfileAfter(w) = (IF tx[w].profile = NULL THEN n ELSE Merged(profiles[o], tx[w].profile, n))
  BY DEF ProfileAfter
<1>5. /\ orgs' \in [Orgs -> Names \cup {NULL}] /\ profiles' \in [Orgs -> Names \cup {NULL}]
      /\ orgs'[o] = Merged(orgs[o], tx[w].old, n) /\ profiles'[o] = ProfileAfter(w)
      /\ orgs'[o] # NULL
      /\ \A p \in Orgs \ {o} : orgs'[p] = orgs[p] /\ profiles'[p] = profiles[p]
  BY <1>2, <1>3, <1>4 DEF Merged, IdentityInv, TypeOK
<1>6. /\ users' \in [Users -> UserRows \cup {NULL}]
      /\ \A y \in Users : users[y] = NULL <=> users'[y] = NULL
  <2>1. CASE tx[w].op = "rename"
    BY <2>1 DEF CommitProfile, IdentityInv, TypeOK
  <2>2. CASE tx[w].op # "rename"
    <3>1. users' = [users EXCEPT ![u] = UserAfter(w)]
      BY <2>2 DEF CommitProfile
    <3>2. UserAfter(w) \in UserRows
      BY <1>2, <2>2 DEF UserAfter, UserRows, IdentityInv, TypeOK
    <3> QED BY <1>2, <2>2, <3>1, <3>2 DEF IdentityInv, TypeOK
  <2> QED BY <2>1, <2>2
<1>7. /\ tokens' \in [Tokens -> TokenRows \cup {NULL}]
      /\ \A t \in Tokens : tokens[t] # NULL => tokens'[t] = tokens[t]
      /\ \A t \in Tokens : tokens'[t] # NULL /\ tokens[t] = NULL => tokens'[t].org = o
  <2>1. tokens \in [Tokens -> TokenRows \cup {NULL}]
    BY DEF IdentityInv, TypeOK
  <2>2. CASE tx[w].op = "rename"
    BY <2>1, <2>2 DEF CommitProfile
  <2>3. CASE tx[w].op # "rename"
    <3>1. tokens' \in Issued(tokens, u, o)
      BY <2>3 DEF CommitProfile
    <3> QED BY <1>2, <2>1, <3>1, IssuedSound
  <2> QED BY <2>2, <2>3
<1>8. \A y \in Users : Own(y)' = Own(y)
  BY <1>1 DEF Own, OrgsOf
<1>9. tx' \in [Workers -> Transactions] /\ \A v \in Workers : RequestSound(v)'
  <2>1. kinds \in SUBSET {"home", "name", "token", "member"} /\ "home" \notin kinds
    OBVIOUS
  <2>2. "name" \notin kinds => \A p \in Orgs : orgs'[p] = orgs[p] /\ profiles'[p] = profiles[p]
    BY <1>5
  <2>3. \A p \in Orgs : orgs[p] # NULL => orgs'[p] # NULL
    BY <1>5
  <2> HIDE DEF kinds
  <2>4. "home" \notin kinds => \A y \in Users : Own(y)' \subseteq Own(y)
    BY <1>8
  <2>5. \A y \in Users, p \in Orgs : members[y][p] = "active" => members'[y][p] = "active"
    BY <1>1
  <2> QED BY <1>3, <1>6, <1>7, <2>1, <2>2, <2>3, <2>4, <2>5, MissedSound
<1>10. TypeOK'
  <2>1. behind' \subseteq Orgs
    BY <1>2, <1>3 DEF IdentityInv, TypeOK
  <2> QED BY <1>1, <1>5, <1>6, <1>7, <1>9, <2>1, TypeSplit, TypeNext DEF IdentityInv
<1>11. Referenced'
  <2>1. \A p \in Orgs : orgs[p] # NULL => orgs'[p] # NULL
    BY <1>5
  <2>2. ASSUME NEW t \in Tokens, tokens'[t] # NULL PROVE orgs'[tokens'[t].org] # NULL
    <3>1. CASE tokens[t] = NULL
      BY <1>2, <1>5, <1>7, <2>2, <3>1
    <3>2. CASE tokens[t] # NULL
      <4>1. tokens'[t] = tokens[t] /\ orgs[tokens[t].org] # NULL /\ tokens[t].org \in Orgs
        BY <1>7, <3>2 DEF IdentityInv, Referenced, TypeOK, TokenRows
      <4> QED BY <2>1, <4>1
    <3> QED BY <3>1, <3>2
  <2> QED BY <1>1, <1>6, <2>1, <2>2 DEF IdentityInv, Referenced
<1>12. OwnsOne'
  BY <1>1, <1>6, <1>8 DEF IdentityInv, OwnsOne
<1>13. ProfileFollowsOrg'
  <2> SUFFICES ASSUME NEW p \in Orgs \ behind', profiles'[p] # NULL PROVE profiles'[p] = orgs'[p]
    BY DEF ProfileFollowsOrg
  <2>1. CASE p # o
    BY <1>3, <1>5, <2>1 DEF IdentityInv, ProfileFollowsOrg
  <2>2. CASE p = o
    <3>1. "name" \notin tx[w].missed
      BY <1>3, <2>2
    <3>2. orgs'[o] = n
      BY <1>2, <1>5, <3>1 DEF Merged
    <3>3. profiles'[o] = n
      BY <1>2, <1>4, <1>5, <3>1 DEF Merged
    <3> QED BY <2>2, <3>2, <3>3
  <2> QED BY <2>1, <2>2
<1> QED BY <1>9, <1>10, <1>11, <1>12, <1>13 DEF IdentityInv

LEMMA CommitRotationStep ==
  ASSUME IdentityInv, NEW w \in Workers, CommitRotation(w)
  PROVE  IdentityInv'
<1> DEFINE k == tx[w].token
           table == [tokens EXCEPT ![k].revoked = TRUE]
<1>1. /\ Rotating(w) /\ tx[w].at = "member" /\ k \in Tokens /\ tokens[k] # NULL
      /\ UNCHANGED <<users, orgs, profiles, members, joined, removed, doubled, behind>>
      /\ tokens' \in Issued(table, tokens[k].user, tokens[k].org) /\ tx' = Missed(w, {"token"})
  BY DEF CommitRotation, history, IdentityInv, RequestSound, Rotating
<1>2. tokens[k] \in TokenRows /\ tokens[k].user \in Users /\ tokens[k].org \in Orgs
  BY <1>1 DEF IdentityInv, TypeOK, TokenRows
<1>3. /\ table \in [Tokens -> TokenRows \cup {NULL}] /\ table[k] \in TokenRows
      /\ table[k].user = tokens[k].user /\ table[k].org = tokens[k].org
      /\ \A t \in Tokens \ {k} : table[t] = tokens[t]
  <2>1. tokens \in [Tokens -> TokenRows \cup {NULL}]
    BY DEF IdentityInv, TypeOK
  <2>2. table = [tokens EXCEPT ![k] = [tokens[k] EXCEPT !.revoked = TRUE]]
    OBVIOUS
  <2> DEFINE row == [tokens[k] EXCEPT !.revoked = TRUE]
  <2>3. row \in TokenRows /\ row.user = tokens[k].user /\ row.org = tokens[k].org
    BY <1>2 DEF TokenRows
  <2> HIDE DEF row, k, table
  <2> QED BY <1>1, <2>1, <2>2, <2>3 DEF row
<1> HIDE DEF k, table
<1>4. /\ tokens' \in [Tokens -> TokenRows \cup {NULL}]
      /\ \A t \in Tokens : table[t] # NULL => tokens'[t] = table[t]
      /\ \A t \in Tokens : tokens'[t] # NULL /\ table[t] = NULL => tokens'[t].org = tokens[k].org
  BY <1>1, <1>2, <1>3, IssuedSound
<1>5. \A t \in Tokens : tokens[t] # NULL =>
        tokens'[t] # NULL /\ tokens'[t].user = tokens[t].user /\ tokens'[t].org = tokens[t].org
  BY <1>1, <1>3, <1>4
<1>6. \A y \in Users : Own(y)' = Own(y)
  BY <1>1 DEF Own, OrgsOf
<1>7. tx' \in [Workers -> Transactions] /\ \A v \in Workers : RequestSound(v)'
  <2> DEFINE kinds == {"token"}
  <2>1. kinds \in SUBSET {"home", "name", "token", "member"} /\ "token" \in kinds /\ tx' = Missed(w, kinds)
    BY <1>1
  <2> HIDE DEF kinds
  <2> QED BY <1>1, <1>5, <1>6, <2>1, MissedSound
<1>8. TypeOK'
  BY <1>1, <1>4, <1>7, TypeSplit, TypeNext DEF IdentityInv
<1>9. Referenced'
  <2>1. ASSUME NEW t \in Tokens, tokens'[t] # NULL PROVE orgs[tokens'[t].org] # NULL
    <3>1. CASE tokens[t] = NULL
      <4>1. table[t] = NULL
        BY <1>1, <1>3, <3>1
      <4> QED BY <1>1, <1>4, <2>1, <4>1 DEF IdentityInv, Referenced
    <3>2. CASE tokens[t] # NULL
      BY <1>5, <3>2 DEF IdentityInv, Referenced
    <3> QED BY <3>1, <3>2
  <2> QED BY <1>1, <2>1 DEF IdentityInv, Referenced
<1>10. OwnsOne' /\ ProfileFollowsOrg'
  BY <1>1, <1>6 DEF IdentityInv, OwnsOne, ProfileFollowsOrg
<1> QED BY <1>7, <1>8, <1>9, <1>10 DEF IdentityInv

\* What the team of an organization does to a membership.
LEMMA TeamStep ==
  ASSUME IdentityInv, NEW u \in Users, NEW o \in Orgs, Join(u, o) \/ ChangeStatus(u, o) \/ Remove(u, o)
  PROVE  IdentityInv'
<1>1. /\ UNCHANGED <<users, orgs, profiles, tokens, doubled, behind>> /\ tx' = Missed(NULL, {"member"})
      /\ users[u] # NULL /\ orgs[o] # NULL
  BY DEF Join, ChangeStatus, Remove, history, IdentityInv, Referenced
<1>2. /\ members' \in [Users -> [Orgs -> Memberships]]
      /\ \A y \in Users, p \in Orgs : y # u \/ p # o => members'[y][p] = members[y][p]
  BY DEF Join, ChangeStatus, Remove, IdentityInv, TypeOK, Memberships
<1>3. /\ joined' \subseteq Users \X Orgs /\ removed' \subseteq Users /\ removed \subseteq removed'
      /\ \A y \in Users, p \in Orgs : y # u \/ p # o => (<<y, p>> \in joined' <=> <<y, p>> \in joined)
  BY DEF Join, ChangeStatus, Remove, history, IdentityInv, TypeOK
<1>4. (\A y \in Users : Own(y)' \subseteq Own(y)) /\ \A y \in Users \ {u} : Own(y)' = Own(y)
  <2>1. \A y \in Users \ {u} : Own(y)' = Own(y)
    BY <1>2, <1>3 DEF Own, OrgsOf
  <2>2. o \in Own(u)' => o \in Own(u)
    <3>1. CASE Join(u, o)
      BY <3>1 DEF Join, Own
    <3>2. CASE ChangeStatus(u, o)
      BY <3>2 DEF ChangeStatus, Own, OrgsOf, history
    <3>3. CASE Remove(u, o)
      BY <3>3 DEF Remove, Own, OrgsOf, IdentityInv, TypeOK
    <3> QED BY <3>1, <3>2, <3>3
  <2>3. \A p \in Orgs \ {o} : p \in Own(u)' => p \in Own(u)
    BY <1>2, <1>3 DEF Own, OrgsOf
  <2>4. Own(u)' \subseteq Orgs
    BY DEF Own, OrgsOf
  <2> QED BY <2>1, <2>2, <2>3, <2>4
<1>5. Own(u) # {} => Own(u)' # {} \/ u \in removed'
  <2>1. \A p \in Orgs \ {o} : p \in Own(u) => p \in Own(u)'
    BY <1>2, <1>3 DEF Own, OrgsOf
  <2>2. o \in Own(u) => o \in Own(u)' \/ u \in removed'
    <3>1. CASE Join(u, o)
      BY <3>1 DEF Join, Own, OrgsOf
    <3>2. CASE ChangeStatus(u, o)
      BY <3>2 DEF ChangeStatus, Own, OrgsOf, history, IdentityInv, TypeOK
    <3>3. CASE Remove(u, o)
      BY <3>3 DEF Remove, Own
    <3> QED BY <3>1, <3>2, <3>3
  <2>3. Own(u) \subseteq Orgs
    BY DEF Own, OrgsOf
  <2> QED BY <2>1, <2>2, <2>3
<1>6. tx' \in [Workers -> Transactions] /\ \A v \in Workers : RequestSound(v)'
  <2> DEFINE kinds == {"member"}
  <2>1. kinds \in SUBSET {"home", "name", "token", "member"} /\ "member" \in kinds /\ tx' = Missed(NULL, kinds)
    BY <1>1
  <2> HIDE DEF kinds
  <2> QED BY <1>1, <1>4, <2>1, MissedSound
<1>7. TypeOK'
  BY <1>1, <1>2, <1>3, <1>6, TypeSplit, TypeNext DEF IdentityInv
<1>8. Referenced'
  <2>1. ASSUME NEW y \in Users, NEW p \in Orgs, members'[y][p] # "none" PROVE users[y] # NULL /\ orgs[p] # NULL
    <3>1. CASE y = u /\ p = o
      BY <1>1, <3>1
    <3>2. CASE y # u \/ p # o
      BY <1>2, <2>1, <3>2 DEF IdentityInv, Referenced
    <3> QED BY <3>1, <3>2
  <2>2. ASSUME NEW y \in Users, NEW p \in Orgs, <<y, p>> \in joined' PROVE orgs[p] # NULL
    <3>1. CASE y = u /\ p = o
      BY <1>1, <3>1
    <3>2. CASE y # u \/ p # o
      BY <1>3, <2>2, <3>2 DEF IdentityInv, Referenced
    <3> QED BY <3>1, <3>2
  <2> QED BY <1>1, <2>1, <2>2 DEF IdentityInv, Referenced
<1>9. OwnsOne'
  <2> SUFFICES ASSUME NEW y \in Users, users[y] # NULL
               PROVE  /\ y \in doubled \/ \A q, p \in Own(y)' : q = p
                      /\ Own(y)' # {} \/ y \in removed'
    BY <1>1 DEF OwnsOne
  <2>1. /\ y \in doubled \/ \A q, p \in Own(y) : q = p
        /\ Own(y) # {} \/ y \in removed
    BY DEF IdentityInv, OwnsOne
  <2>2. CASE y = u
    BY <1>3, <1>4, <1>5, <2>1, <2>2
  <2>3. CASE y # u
    BY <1>3, <1>4, <2>1, <2>3
  <2> QED BY <2>2, <2>3
<1>10. ProfileFollowsOrg'
  BY <1>1 DEF IdentityInv, ProfileFollowsOrg
<1> QED BY <1>6, <1>7, <1>8, <1>9, <1>10 DEF IdentityInv

-----------------------------------------------------------------------------
LEMMA IdentityStep == IdentityInv /\ [Next]_vars => IdentityInv'
<1> SUFFICES ASSUME IdentityInv, [Next]_vars PROVE IdentityInv'
  OBVIOUS
<1>1. CASE UNCHANGED vars
  BY <1>1 DEF vars, IdentityInv, TypeOK, Referenced, RequestSound, InOrg, NewHome, Rotating, OwnsOne, Own,
              OrgsOf, ProfileFollowsOrg
<1>2. ASSUME NEW w \in Workers, NEW u \in Users, NEW n \in Names, LookUpEmail(w, u, n) \/ LoadForGoogle(w, u, n)
      PROVE  IdentityInv'
  BY <1>2, LookUpEmailStep, LoadForGoogleStep
<1>3. ASSUME NEW w \in Workers, NEW u \in Users, LoadForLogin(w, u) PROVE IdentityInv'
  BY <1>3, LoadForLoginStep
<1>4. ASSUME NEW w \in Workers, NEW t \in Tokens, NEW n \in Names \cup {NULL}, LoadForRename(w, t, n)
      PROVE  IdentityInv'
  BY <1>4, LoadForRenameStep
<1>5. ASSUME NEW w \in Workers, NEW t \in Tokens, LoadToken(w, t) PROVE IdentityInv'
  BY <1>5, TokenStep
<1>6. ASSUME NEW w \in Workers, ReadOrg(w) \/ ReadProfile(w) \/ RevokeToken(w) \/ Abort(w) PROVE IdentityInv'
  BY <1>6, ReadOrgStep, ReadProfileStep, TokenStep, AbortStep
<1>7. ASSUME NEW w \in Workers, CommitNewOrg(w) PROVE IdentityInv'
  BY <1>7, CommitNewOrgStep
<1>8. ASSUME NEW w \in Workers, CommitProfile(w) PROVE IdentityInv'
  BY <1>8, CommitProfileStep
<1>9. ASSUME NEW w \in Workers, CommitRotation(w) PROVE IdentityInv'
  BY <1>9, CommitRotationStep
<1>10. ASSUME NEW u \in Users, NEW o \in Orgs, Join(u, o) \/ ChangeStatus(u, o) \/ Remove(u, o)
       PROVE  IdentityInv'
  BY <1>10, TeamStep
<1> QED BY <1>1, <1>2, <1>3, <1>4, <1>5, <1>6, <1>7, <1>8, <1>9, <1>10 DEF Next

LEMMA IdentityHolds == Spec => []IdentityInv
  BY IdentityInit, IdentityStep, PTL DEF Spec

\* The only step that ends an exchange and changes the tokens is its commit.
LEMMA ExchangeStep ==
  IdentityInv /\ [Next]_vars =>
    \A w \in Workers : tx[w].op = "rotate" /\ tx'[w] = Idle /\ tokens' # tokens =>
      LET row == tokens[tx[w].token]
      IN \/ ~row.revoked /\ members[row.user][row.org] = "active"
         \/ tx[w].missed \cap {"token", "member"} # {}
<1> SUFFICES ASSUME IdentityInv, [Next]_vars, NEW w \in Workers, tx[w].op = "rotate", tx'[w] = Idle, tokens' # tokens
             PROVE  \/ /\ ~tokens[tx[w].token].revoked
                       /\ members[tokens[tx[w].token].user][tokens[tx[w].token].org] = "active"
                    \/ tx[w].missed \cap {"token", "member"} # {}
  OBVIOUS
<1>1. RequestSound(w) /\ tx[w].at # "idle"
  BY DEF IdentityInv, RequestSound, Idle, Operations
<1>2. PICK v \in Workers : CommitNewOrg(v) \/ CommitProfile(v) \/ CommitRotation(v)
  BY DEF Next, vars, LookUpEmail, LoadForGoogle, LoadForLogin, LoadForRename, LoadToken, ReadOrg, ReadProfile,
         RevokeToken, Abort, Begin, Continue, Join, ChangeStatus, Remove
<1>3. \E kinds : tx' = Missed(v, kinds)
  BY <1>2 DEF CommitNewOrg, CommitProfile, CommitRotation
<1>4. v = w
  <2> SUFFICES ASSUME v # w PROVE FALSE
    OBVIOUS
  <2>1. \E missed : tx'[w] = [tx[w] EXCEPT !.missed = missed]
    BY <1>1, <1>3 DEF Missed
  <2>2. tx'[w].at = tx[w].at
    BY <2>1, TypeSplit DEF IdentityInv, Transactions
  <2> QED BY <1>1, <2>2 DEF Idle
<1>5. tx[w].at = "member"
  <2>1. tx[w].at = "profile" => tx[w].op # "rotate"
    BY <1>1 DEF RequestSound, InOrg, NewHome
  <2> QED BY <1>2, <1>4, <2>1 DEF CommitNewOrg, CommitProfile, CommitRotation
<1> QED BY <1>1, <1>5 DEF RequestSound, Rotating

-----------------------------------------------------------------------------
(* The limiter *)

\* The attempts that this key counted and is still to let through.
Pending == {c \in Clients \ late : phase[c] # "idle" /\ current[c] <= MaxAttempts}

\* What was let through, and what will be, has been counted, and the cap hides none.
GrantedAreCounted ==
  /\ IsFiniteSet(Pending)
  /\ granted + Cardinality(Pending) <= count
  /\ granted + Cardinality(Pending) <= MaxAttempts

LimitInv == L!TypeOK /\ GrantedAreCounted

USE LimiterAssumption DEF L!LimitAssumption, L!Over, L!Forever

LEMMA CappedType == \A n \in Nat : L!Capped(n) \in 0..L!Over /\ L!Capped(n) <= n
  BY DEF L!Capped

LEMMA CappedGrows == \A n \in Nat : L!Capped(n + 1) > 0 /\ (L!Capped(n + 1) <= MaxAttempts => L!Capped(n + 1) = n + 1)
  BY DEF L!Capped

LEMMA LimitInit == L!Init => LimitInv
<1> SUFFICES ASSUME L!Init PROVE LimitInv
  OBVIOUS
<1> USE DEF L!Init
<1>1. L!TypeOK
  BY DEF L!TypeOK, L!Phases
<1>2. Pending = {}
  BY DEF Pending
<1>3. IsFiniteSet(Pending) /\ Cardinality(Pending) = 0
  BY <1>2, FS_EmptySet
<1>4. GrantedAreCounted
  BY <1>3 DEF GrantedAreCounted
<1> QED BY <1>1, <1>4 DEF LimitInv

\* How many are pending is a number.
LEMMA PendingCount == GrantedAreCounted => Cardinality(Pending) \in Nat
  BY FS_CardinalityType DEF GrantedAreCounted

\* An attempt that ends leaves the others as they were.
LEMMA Finished ==
  ASSUME L!TypeOK, NEW c \in Clients, L!Finish(c), granted' \in 0..L!Over
  PROVE  L!TypeOK' /\ Pending' = Pending \ {c}
<1>1. phase' = [phase EXCEPT ![c] = "idle"] /\ late' = late \ {c} /\ UNCHANGED <<count, ttl, current>>
  BY DEF L!Finish
<1>2. phase' \in [Clients -> L!Phases]
  BY <1>1 DEF L!TypeOK, L!Phases
<1>3. late' \subseteq {d \in Clients : phase'[d] # "idle"}
  BY <1>1 DEF L!TypeOK
<1>4. L!TypeOK'
  BY <1>1, <1>2, <1>3 DEF L!TypeOK
<1>5. Pending' = Pending \ {c}
  BY <1>1 DEF Pending, L!TypeOK
<1> QED BY <1>4, <1>5

LEMMA IncrStep ==
  ASSUME LimitInv, NEW c \in Clients, L!Incr(c)
  PROVE  LimitInv'
<1> USE DEF LimitInv
<1>1. /\ phase[c] = "idle" /\ count' = L!Capped(count + 1) /\ current' = [current EXCEPT ![c] = count']
      /\ phase' = [phase EXCEPT ![c] = "incremented"] /\ UNCHANGED <<ttl, granted, late>>
  BY DEF L!Incr
<1>2. count \in Nat /\ count' \in 1..L!Over /\ count' >= count
  BY <1>1, CappedType, CappedGrows DEF L!TypeOK, L!Capped
<1>3. current' \in [Clients -> 0..L!Over] /\ phase' \in [Clients -> L!Phases]
  BY <1>1, <1>2 DEF L!TypeOK, L!Phases
<1>4. late' \subseteq {d \in Clients : phase'[d] # "idle"}
  BY <1>1 DEF L!TypeOK
<1>5. L!TypeOK'
  BY <1>1, <1>2, <1>3, <1>4 DEF L!TypeOK
<1>6. c \notin Pending /\ c \notin late
  BY <1>1 DEF Pending, L!TypeOK
<1>7. CASE count' > MaxAttempts
  <2>1. Pending' = Pending
    BY <1>1, <1>2, <1>6, <1>7 DEF Pending, L!TypeOK
  <2> QED BY <1>1, <1>2, <1>5, <2>1, PendingCount DEF GrantedAreCounted, L!TypeOK
<1>8. CASE count' <= MaxAttempts
  <2>1. Pending' = Pending \cup {c}
    BY <1>1, <1>2, <1>6, <1>8 DEF Pending, L!TypeOK
  <2>2. IsFiniteSet(Pending') /\ Cardinality(Pending') = Cardinality(Pending) + 1
    BY <1>6, <2>1, FS_AddElement DEF GrantedAreCounted
  <2>3. count' = count + 1
    BY <1>1, <1>2, <1>8, CappedGrows
  <2> QED BY <1>1, <1>2, <1>5, <1>8, <2>2, <2>3, PendingCount DEF GrantedAreCounted, L!TypeOK
<1> QED BY <1>2, <1>7, <1>8

LEMMA FinishStep ==
  ASSUME LimitInv, NEW c \in Clients, L!Pass(c) \/ L!Refuse(c) \/ L!FailBeforeExpire(c)
  PROVE  LimitInv'
<1> USE DEF LimitInv
<1>1. L!Finish(c) /\ count' = count
  BY DEF L!Pass, L!Refuse, L!FailBeforeExpire, L!Finish
<1>2. granted \in 0..L!Over /\ count \in Nat /\ Cardinality(Pending) \in Nat
  BY PendingCount DEF L!TypeOK
<1>3. granted' = granted \/ (c \in Pending /\ granted' = L!Capped(granted + 1))
  BY DEF L!Pass, L!Refuse, L!FailBeforeExpire, Pending
<1>4. granted' \in 0..L!Over
  BY <1>2, <1>3, CappedType
<1>5. L!TypeOK' /\ Pending' = Pending \ {c}
  BY <1>1, <1>4, Finished
<1>6. /\ IsFiniteSet(Pending')
      /\ Cardinality(Pending') = IF c \in Pending THEN Cardinality(Pending) - 1 ELSE Cardinality(Pending)
  BY <1>5, FS_RemoveElement DEF GrantedAreCounted
<1>7. GrantedAreCounted'
  <2>1. CASE granted' = granted
    BY <1>1, <1>2, <1>6, <2>1 DEF GrantedAreCounted
  <2>2. CASE c \in Pending /\ granted' = L!Capped(granted + 1)
    <3>1. granted' <= granted + 1 /\ granted' \in Nat
      BY <1>2, <1>4, <2>2, CappedType
    <3>2. Cardinality(Pending') = Cardinality(Pending) - 1
      BY <1>6, <2>2
    <3> QED BY <1>1, <1>2, <1>6, <3>1, <3>2 DEF GrantedAreCounted
  <2> QED BY <1>3, <2>1, <2>2
<1> QED BY <1>5, <1>7

LEMMA TickStep ==
  ASSUME LimitInv, L!Tick
  PROVE  LimitInv'
<1> USE DEF LimitInv
<1>1. L!TypeOK'
  BY DEF L!Tick, L!TypeOK
<1>2. CASE ttl = 1
  <2>1. late' = {c \in Clients : phase[c] # "idle"} /\ phase' = phase /\ granted' = 0 /\ count' = 0
    BY <1>2 DEF L!Tick
  <2>2. Pending' = {}
    BY <2>1 DEF Pending
  <2> QED BY <1>1, <2>1, <2>2, FS_EmptySet DEF GrantedAreCounted
<1>3. CASE ttl # 1
  <2>1. UNCHANGED <<count, granted, late, phase, current>>
    BY <1>3 DEF L!Tick
  <2> QED BY <1>1, <2>1 DEF GrantedAreCounted, Pending
<1> QED BY <1>2, <1>3

LEMMA LimitStep == LimitInv /\ [L!Next]_(L!vars) => LimitInv'
<1> SUFFICES ASSUME LimitInv, [L!Next]_(L!vars) PROVE LimitInv'
  OBVIOUS
<1>1. ASSUME NEW c \in Clients, L!Expire(c) PROVE LimitInv'
  <2>1. UNCHANGED <<count, current, granted, late>> /\ phase' = [phase EXCEPT ![c] = "counted"]
        /\ phase[c] = "incremented"
    BY <1>1 DEF L!Expire
  <2>2. L!TypeOK'
    BY <1>1, <2>1 DEF L!Expire, L!TypeOK, L!Phases, LimitInv
  <2>3. Pending' = Pending
    BY <2>1 DEF Pending, LimitInv, L!TypeOK
  <2> QED BY <2>1, <2>2, <2>3 DEF GrantedAreCounted, LimitInv
<1>2. CASE UNCHANGED L!vars
  BY <1>2 DEF L!vars, LimitInv, L!TypeOK, GrantedAreCounted, Pending
<1> QED BY <1>1, <1>2, IncrStep, FinishStep, TickStep DEF L!Next

-----------------------------------------------------------------------------
\* A set of which no two elements differ has at most one.
LEMMA AtMostOne ==
  ASSUME NEW S, \A x, y \in S : x = y
  PROVE  Cardinality(S) <= 1
<1>1. S = {} \/ \E x \in S : S = {x}
  OBVIOUS
<1>2. Cardinality(S) = 0 \/ Cardinality(S) = 1
  BY <1>1, FS_EmptySet, FS_Singleton
<1> QED BY <1>2

-----------------------------------------------------------------------------
\* A step of Accounts is a step of one of its parts and stutters in the other.
LEMMA PartsMove == AccountsSpec => Spec /\ L!Spec
<1>1. AccountsInit => Init /\ L!Init
  BY DEF AccountsInit
<1>2. [AccountsNext]_<<vars, limiterVars>> => [Next]_vars /\ [L!Next]_(L!vars)
  BY DEF AccountsNext, limiterVars, L!vars
<1> QED BY <1>1, <1>2, PTL DEF AccountsSpec, Spec, L!Spec

LEMMA PartsHold == AccountsSpec => [](IdentityInv /\ LimitInv)
<1>1. L!Spec => []LimitInv
  BY LimitInit, LimitStep, PTL DEF L!Spec
<1> QED BY <1>1, PartsMove, IdentityHolds, PTL

\* Users, organizations, profiles, memberships, tokens and the requests' transactions
\* keep their types: no request writes a row from what another one took away.  So do
\* the counter and the attempts, and a key that does not exist has no time to live.
THEOREM TypeCorrect == AccountsSpec => []AccountsTypesOK
<1>1. IdentityInv /\ LimitInv => AccountsTypesOK
  BY DEF IdentityInv, LimitInv, AccountsTypesOK
<1> QED BY <1>1, PartsHold, PTL

\* No interleaving of the attempts of the instances, failures and expiries included,
\* lets more than MaxAttempts of the counted ones through while the key lives.
THEOREM LimitKept == AccountsSpec => []AttemptsAreLimited
<1>1. LimitInv => AttemptsAreLimited
  BY PendingCount DEF LimitInv, L!TypeOK, GrantedAreCounted, AttemptsAreLimited, L!LimitHolds
<1> QED BY <1>1, PartsHold, PTL

\* Every user has exactly one organization of its own, unless a removal took it away
\* or two Google sign-ins at once each made one.
THEOREM OneHomeEach == AccountsSpec => []OneHome
<1>1. IdentityInv => OneHome
  <2> SUFFICES ASSUME IdentityInv, NEW u \in Users, users[u] # NULL
               PROVE  (Cardinality(Own(u)) <= 1 \/ u \in doubled) /\ (Own(u) # {} \/ u \in removed)
    BY DEF OneHome, Own
  <2>1. u \in doubled \/ \A o, p \in Own(u) : o = p
    BY DEF IdentityInv, OwnsOne
  <2>2. (\A o, p \in Own(u) : o = p) => Cardinality(Own(u)) <= 1
    BY AtMostOne
  <2>3. Own(u) # {} \/ u \in removed
    BY DEF IdentityInv, OwnsOne
  <2> QED BY <2>1, <2>2, <2>3
<1> QED BY <1>1, PartsHold, PTL

\* A profile shows its organization's name, unless the request that wrote it last
\* missed a change of names.
THEOREM ProfileFollows == AccountsSpec => []ProfileFollowsOrg
<1>1. IdentityInv => ProfileFollowsOrg
  BY DEF IdentityInv
<1> QED BY <1>1, PartsHold, PTL

\* A refresh token is exchanged once, by an active member, unless its request missed
\* another exchange or a change of memberships.
THEOREM TokensExchangedOnce == AccountsSpec => ExchangedOnce
  BY PartsMove, IdentityHolds, ExchangeStep, PTL DEF Spec, ExchangedOnce
=============================================================================
