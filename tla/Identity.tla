-------------------------------- MODULE Identity --------------------------------
(***************************************************************************)
(* Accounts, sign-in and sessions: core-api/app/entities/identity/         *)
(* {service,repo,router}.py, and the provider profile that every sign-in   *)
(* rewrites (network/service.py).                                          *)
(*                                                                         *)
(* A request reads a user, a membership, an organization and its profile   *)
(* one after the other, and commits what it made of them with a new        *)
(* refresh token.  What happens to memberships later is Team's matter:     *)
(* here an invite, a change of status and a removal are one step each.     *)
(*                                                                         *)
(* Access tokens are not stored and logging out only clears cookies.       *)
(* Expiry only takes tokens away and is left out, and so is what a user    *)
(* has besides an organization: a changed password or phone.               *)
(***************************************************************************)
EXTENDS Naturals, FiniteSets

CONSTANTS
  Users,    \* e-mail addresses, each with one Google account
  Orgs,     \* ids of organizations
  Others,   \* those that exist from the beginning, other people's
  Names,    \* names of organizations
  Tokens,   \* ids of refresh tokens; bound: tokens ever issued
  Workers,  \* requests served at the same time
  NULL      \* an absent value

ASSUME OthersAssumption == Others \subseteq Orgs

VARIABLES
  users,    \* user -> its row: does it have a password, and a Google account linked
  orgs,     \* organization -> its name, NULL when there is none
  profiles, \* organization -> the name on its provider profile, NULL when there is none
  members,  \* user -> organization -> its membership
  tokens,   \* token -> its row, NULL when there is none
  tx,       \* worker -> its open transaction
  joined,   \* history: <<user, organization>>, joined by invite
  removed,  \* history: users who lost an organization of their own
  doubled,  \* history: users for whom an organization was made by a request that
            \* overlapped the making of another one
  behind    \* history: organizations whose profile was last written by a request
            \* that overlapped another change of names

vars == <<users, orgs, profiles, members, tokens, tx, joined, removed, doubled, behind>>
history == <<joined, removed, doubled, behind>>

UserRows == [password: BOOLEAN, google: BOOLEAN]
TokenRows == [user: Users, org: Orgs, revoked: BOOLEAN]
Memberships == {"none", "active", "inactive"}
Operations == {"register", "login", "google", "rename", "rotate"}

ASSUME NullAssumption ==
  NULL \notin Users \cup Orgs \cup Names \cup Tokens \cup Operations \cup UserRows \cup TokenRows

\* user is the row as it was read; org is NULL when one is to be made; name is the
\* name the request gives the organization or found there; missed are the kinds of
\* commits that others made since it began.
Idle == [at |-> "idle", op |-> NULL, email |-> NULL, user |-> NULL, org |-> NULL, old |-> NULL, name |-> NULL,
         profile |-> NULL, token |-> NULL, missed |-> {}]

TypeOK ==
  /\ users \in [Users -> UserRows \cup {NULL}]
  /\ orgs \in [Orgs -> Names \cup {NULL}]
  /\ profiles \in [Orgs -> Names \cup {NULL}]
  /\ members \in [Users -> [Orgs -> Memberships]]
  /\ tokens \in [Tokens -> TokenRows \cup {NULL}]
  /\ tx \in [Workers -> [at: {"idle", "user", "org", "profile", "token", "member"},
                         op: Operations \cup {NULL},
                         email: Users \cup {NULL}, user: UserRows \cup {NULL},
                         org: Orgs \cup {NULL}, old: Names \cup {NULL}, name: Names \cup {NULL},
                         profile: Names \cup {NULL}, token: Tokens \cup {NULL},
                         missed: SUBSET {"home", "name", "token", "member"}]]
  /\ joined \subseteq Users \X Orgs
  /\ removed \cup doubled \subseteq Users
  /\ behind \subseteq Orgs

Init ==
  /\ users = [u \in Users |-> NULL]
  /\ \E n \in Names : orgs = [o \in Orgs |-> IF o \in Others THEN n ELSE NULL]
  /\ profiles = orgs
  /\ members = [u \in Users |-> [o \in Orgs |-> "none"]]
  /\ tokens = [t \in Tokens |-> NULL]
  /\ tx = [w \in Workers |-> Idle]
  /\ joined = {} /\ removed = {} /\ doubled = {} /\ behind = {}

-----------------------------------------------------------------------------
OrgsOf(u) == {o \in Orgs : members[u][o] # "none"}

\* The commits of others that matter to what a request has read.
Concerns == [register |-> {}, login |-> {"name"}, google |-> {"home", "name"}, rename |-> {"name"},
             rotate |-> {"token", "member"}]

\* The transactions after a commit of kinds: w is free, the others have missed it.
Missed(w, kinds) ==
  [v \in Workers |-> IF v = w THEN Idle
                     ELSE IF tx[v].at = "idle" THEN Idle
                     ELSE [tx[v] EXCEPT !.missed = @ \cup (kinds \cap Concerns[tx[v].op])]]

Begin(w, t) ==
  /\ tx[w].at = "idle"
  /\ tx' = [tx EXCEPT ![w] = t]
  /\ UNCHANGED <<users, orgs, profiles, members, tokens, history>>

Continue(w, t) ==
  /\ tx' = [tx EXCEPT ![w] = t]
  /\ UNCHANGED <<users, orgs, profiles, members, tokens, history>>

Abort(w) == tx[w].at # "idle" /\ Continue(w, Idle)

\* Wrong variant: the token does not say of which organization.
IssuedAnywhere(table, u, o) ==
  {[table EXCEPT ![t] = [user |-> u, org |-> NULL, revoked |-> FALSE]] : t \in {s \in Tokens : table[s] = NULL}}

\* issue_tokens_for_user
Issued(table, u, o) ==
  {[table EXCEPT ![t] = [user |-> u, org |-> o, revoked |-> FALSE]] : t \in {s \in Tokens : table[s] = NULL}}

(* POST /auth/register *)
LookUpEmail(w, u, n) ==
  /\ users[u] = NULL                             \* 409 "email already registered"
  /\ Begin(w, [Idle EXCEPT !.at = "profile", !.op = "register", !.email = u, !.name = n,
                           !.user = [password |-> TRUE, google |-> FALSE]])

(* POST /auth/login, and GET /auth/oauth/google/callback *)

\* get_first_org_for_user raises when there are several.
LoadForLogin(w, u) ==
  /\ users[u] # NULL /\ users[u].password        \* 401 "invalid credentials"
  /\ Cardinality(OrgsOf(u)) = 1                  \* 400 "user has no organization"
  /\ \E o \in OrgsOf(u) :
       Begin(w, [Idle EXCEPT !.at = "user", !.op = "login", !.email = u, !.user = users[u], !.org = o])

\* Wrong variant: an inactive membership is not one.
HomesActive(u) == {o \in Orgs : members[u][o] = "active"}

\* What get_first_org_for_user selects.
Homes(u) == OrgsOf(u)

\* upsert_oauth_login: the account's user, or the user of the same e-mail, or a new
\* one; and its organization, or a new one.
LoadForGoogle(w, u, n) ==
  LET found == IF users[u] = NULL THEN [password |-> FALSE, google |-> FALSE] ELSE users[u]
  IN IF users[u] = NULL \/ Homes(u) = {}
     THEN Begin(w, [Idle EXCEPT !.at = "profile", !.op = "google", !.email = u, !.user = found, !.name = n])
     ELSE /\ Cardinality(Homes(u)) = 1
          /\ \E o \in Homes(u) :
               Begin(w, [Idle EXCEPT !.at = "user", !.op = "google", !.email = u, !.user = found, !.org = o])

\* get_org_by_id
ReadOrg(w) ==
  /\ tx[w].at = "user"
  /\ Continue(w, [tx[w] EXCEPT !.at = "org", !.old = orgs[tx[w].org], !.name = orgs[tx[w].org]])

(* PATCH /auth/me, with an access token once given for the organization *)
LoadForRename(w, t, n) ==
  /\ tokens[t] # NULL
  /\ LET o == tokens[t].org
     IN Begin(w, [Idle EXCEPT !.at = "org", !.op = "rename", !.email = tokens[t].user, !.org = o,
                              !.old = orgs[o], !.name = IF n = NULL THEN orgs[o] ELSE n])

\* upsert_provider_profile_for_org selects the profile.  A new name has been flushed
\* by then, which waits for whoever has flushed another one.
ReadProfile(w) ==
  /\ tx[w].at = "org"
  /\ tx[w].name # tx[w].old =>
       \A v \in Workers \ {w} : ~(tx[v].at = "profile" /\ tx[v].org = tx[w].org /\ tx[v].name # tx[v].old)
  /\ Continue(w, [tx[w] EXCEPT !.at = "profile", !.profile = profiles[tx[w].org]])

-----------------------------------------------------------------------------
\* An UPDATE sets the columns whose value differs from what was loaded.
Merged(column, loaded, value) == IF value = loaded THEN column ELSE value

\* users.email is unique, and so is the Google account: the row as a request has
\* read it must be there still, if only by the INSERTs it makes.
UserAfter(w) ==
  LET t == tx[w]
  IN CASE t.op = "register" -> t.user
       [] t.op = "login"    -> users[t.email]
       [] t.op = "google"   -> [password |-> IF users[t.email] = NULL THEN FALSE ELSE users[t.email].password,
                                google |-> TRUE]

\* Does the commit of w insert a user that is there, or link an account that is?
InsertsTwice(w) ==
  LET t == tx[w]
  IN \/ t.op = "register" /\ users[t.email] # NULL
     \/ t.op = "google" /\ t.user = [password |-> FALSE, google |-> FALSE] /\ users[t.email] # NULL
     \/ t.op = "google" /\ ~t.user.google /\ users[t.email] # NULL /\ users[t.email].google

\* A new organization, with its owner, its profile and a token, in one commit.
CommitNewOrg(w) ==
  /\ tx[w].at = "profile" /\ tx[w].org = NULL
  /\ ~InsertsTwice(w)
  /\ LET u == tx[w].email
     IN \E o \in {p \in Orgs : orgs[p] = NULL} :
          /\ users' = [users EXCEPT ![u] = UserAfter(w)]
          /\ orgs' = [orgs EXCEPT ![o] = tx[w].name]
          /\ profiles' = [profiles EXCEPT ![o] = tx[w].name]
          /\ members' = [members EXCEPT ![u][o] = "active"]
          /\ tokens' \in Issued(tokens, u, o)
          /\ doubled' = IF "home" \in tx[w].missed THEN doubled \cup {u} ELSE doubled
  /\ tx' = Missed(w, {"home"})
  /\ UNCHANGED <<joined, removed, behind>>

\* Wrong variant: the profile gets its name when it is made, and never again.
ProfileKept(w) == IF tx[w].profile = NULL THEN tx[w].name ELSE profiles[tx[w].org]

\* The profile of an organization that exists.
ProfileAfter(w) ==
  IF tx[w].profile = NULL THEN tx[w].name
  ELSE Merged(profiles[tx[w].org], tx[w].profile, tx[w].name)

CommitProfile(w) ==
  /\ tx[w].at = "profile" /\ tx[w].org # NULL
  /\ tx[w].op # "rename" => ~InsertsTwice(w)
  /\ tx[w].profile = NULL => profiles[tx[w].org] = NULL
  /\ LET u == tx[w].email
         o == tx[w].org
     IN /\ orgs' = [orgs EXCEPT ![o] = Merged(@, tx[w].old, tx[w].name)]
        /\ profiles' = [profiles EXCEPT ![o] = ProfileAfter(w)]
        /\ behind' = IF "name" \in tx[w].missed THEN behind \cup {o} ELSE behind \ {o}
        /\ IF tx[w].op = "rename"
           THEN UNCHANGED <<users, tokens>>
           ELSE users' = [users EXCEPT ![u] = UserAfter(w)] /\ tokens' \in Issued(tokens, u, o)
        /\ tx' = Missed(w, IF orgs'[o] # orgs[o] \/ profiles'[o] # profiles[o] THEN {"name"} ELSE {})
  /\ UNCHANGED <<members, joined, removed, doubled>>

-----------------------------------------------------------------------------
(* POST /auth/refresh *)

\* Wrong variant: a token that was revoked is found as well.
LoadTokenRevoked(w, t) ==
  /\ tokens[t] # NULL
  /\ Begin(w, [Idle EXCEPT !.at = "token", !.op = "rotate", !.token = t])

\* get_refresh_token_record, and a 401 for a token that was revoked.
LoadToken(w, t) ==
  /\ tokens[t] # NULL /\ ~tokens[t].revoked
  /\ Begin(w, [Idle EXCEPT !.at = "token", !.op = "rotate", !.token = t])

\* The token is revoked, which waits for another request that has revoked it but
\* does not look at it again; then the membership is read.  If it is not active the
\* 401 takes the revocation back.
RevokeToken(w) ==
  /\ tx[w].at = "token"
  /\ \A v \in Workers \ {w} : ~(tx[v].at = "member" /\ tx[v].token = tx[w].token)
  /\ LET row == tokens[tx[w].token] IN members[row.user][row.org] = "active"
  /\ Continue(w, [tx[w] EXCEPT !.at = "member"])

CommitRotation(w) ==
  /\ tx[w].at = "member"
  /\ LET t == tx[w].token
     IN tokens' \in Issued([tokens EXCEPT ![t].revoked = TRUE], tokens[t].user, tokens[t].org)
  /\ tx' = Missed(w, {"token"})
  /\ UNCHANGED <<users, orgs, profiles, members, history>>

-----------------------------------------------------------------------------
(* What the team of an organization does to a membership *)

Join(u, o) ==
  /\ users[u] # NULL /\ orgs[o] # NULL /\ members[u][o] = "none"
  /\ members' = [members EXCEPT ![u][o] = "active"]
  /\ joined' = joined \cup {<<u, o>>}
  /\ tx' = Missed(NULL, {"member"})
  /\ UNCHANGED <<users, orgs, profiles, tokens, removed, doubled, behind>>

ChangeStatus(u, o) ==
  /\ members[u][o] # "none"
  /\ members' = [members EXCEPT ![u][o] = IF @ = "active" THEN "inactive" ELSE "active"]
  /\ tx' = Missed(NULL, {"member"})
  /\ UNCHANGED <<users, orgs, profiles, tokens, history>>

Remove(u, o) ==
  /\ members[u][o] # "none"
  /\ members' = [members EXCEPT ![u][o] = "none"]
  /\ removed' = IF <<u, o>> \in joined THEN removed ELSE removed \cup {u}
  /\ joined' = joined \ {<<u, o>>}
  /\ tx' = Missed(NULL, {"member"})
  /\ UNCHANGED <<users, orgs, profiles, tokens, doubled, behind>>

Next ==
  \/ \E w \in Workers :
       \/ \E u \in Users, n \in Names : LookUpEmail(w, u, n) \/ LoadForGoogle(w, u, n)
       \/ \E u \in Users : LoadForLogin(w, u)
       \/ \E t \in Tokens, n \in Names \cup {NULL} : LoadForRename(w, t, n)
       \/ \E t \in Tokens : LoadToken(w, t)
       \/ ReadOrg(w) \/ ReadProfile(w) \/ RevokeToken(w)
       \/ CommitNewOrg(w) \/ CommitProfile(w) \/ CommitRotation(w) \/ Abort(w)
  \/ \E u \in Users, o \in Orgs : Join(u, o) \/ ChangeStatus(u, o) \/ Remove(u, o)

Spec == Init /\ [][Next]_vars

-----------------------------------------------------------------------------
\* A user has an organization of its own from the first commit on, and only one:
\* with two, get_first_org_for_user raises and every later sign-in fails.  An
\* invite gives a user a second one, a removal takes it away, and two Google
\* sign-ins of a user without any may each make one.
OneHome ==
  \A u \in Users : users[u] # NULL =>
    LET own == {o \in OrgsOf(u) : <<u, o>> \notin joined}
    IN /\ Cardinality(own) <= 1 \/ u \in doubled
       /\ own # {} \/ u \in removed

\* The profile shown to other organizations has the organization's name, unless
\* the request that wrote it last overlapped another change of names; the next
\* sign-in that runs alone repairs it.
ProfileFollowsOrg ==
  \A o \in Orgs \ behind : profiles[o] # NULL => profiles[o] = orgs[o]

\* A refresh token is exchanged once, and by an active member, unless the exchange
\* overlapped another one, or a change of memberships.
ExchangedOnce ==
  [][\A w \in Workers : tx[w].op = "rotate" /\ tx'[w] = Idle /\ tokens' # tokens =>
       LET row == tokens[tx[w].token]
       IN \/ ~row.revoked /\ members[row.user][row.org] = "active"
          \/ tx[w].missed \cap {"token", "member"} # {}]_vars
=============================================================================
