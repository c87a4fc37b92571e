------------------------------ MODULE Conversations ------------------------------
(***************************************************************************)
(* How conversations come to be, and what is decided of the requests that  *)
(* some are about: core-api/app/entities/chat/{service,repo,router}.py and *)
(* core-api/app/entities/interest_requests/.                               *)
(*                                                                         *)
(* One organization that asks, one provider, and the organization the      *)
(* provider is linked to.  A request looks for the conversation it is      *)
(* about, and makes it if there is none; nothing is locked in between.     *)
(* What a team does to its members is one step here.  A user may belong to *)
(* both organizations, with a seat in each.                                *)
(***************************************************************************)
EXTENDS Naturals

CONSTANTS
  Mine,       \* users that may belong to the organization
  Theirs,     \* users that may belong to the provider's
  Interests,  \* ids of interest requests, all to the provider
  Orders,     \* ids of the organization's orders
  Convs,      \* ids of conversations
  Workers,    \* requests served at the same time
  NULL        \* an absent value

Statuses == {"pending", "matched", "rejected"}
ConvRows == [provider: BOOLEAN, interest: Interests \cup {NULL}, order: Orders \cup {NULL}]

\* A seat is a user as a member of one of the organizations.
OURS   == "organization"
THEIRS == "provider"

OurSeats == {OURS} \X Mine
TheirSeats == {THEIRS} \X Theirs
Seats == OurSeats \cup TheirSeats

\* What the constants are.
ConversationsAssumption ==
  NULL \notin Interests \cup Orders \cup Statuses \cup ConvRows

VARIABLES
  member,     \* seat -> the membership of its user in its organization
  interests,  \* interest request -> its status, NULL when there is none
  orders,     \* the orders that there are
  convs,      \* conversation -> its row, NULL when there is none
  people,     \* conversation -> the seats of its members
  tx,         \* worker -> its open transaction
  first,      \* history: interest request -> the first decision
  contested,  \* history: interest requests of overlapping decisions
  doubled     \* history: orders for which a conversation was made by a request that
              \* overlapped the making of another one

vars == <<member, interests, orders, convs, people, tx, first, contested, doubled>>

\* row is the conversation to be made, who its members; overlapped: since the
\* request began another one has committed what it looked for.
Idle == [at |-> "idle", row |-> NULL, who |-> {}, interest |-> NULL, status |-> NULL, overlapped |-> FALSE]

TypeOK ==
  /\ member \in [Seats -> {"none", "active", "inactive"}]
  /\ interests \in [Interests -> Statuses \cup {NULL}]
  /\ orders \subseteq Orders
  /\ convs \in [Convs -> ConvRows \cup {NULL}]
  /\ people \in [Convs -> SUBSET Seats]
  /\ \A c \in Convs : convs[c] = NULL <=> people[c] = {}
  /\ tx \in [Workers -> [at: {"idle", "listing", "creating", "deciding"}, row: ConvRows \cup {NULL},
                         who: SUBSET Seats, interest: Interests \cup {NULL},
                         status: Statuses \cup {NULL}, overlapped: BOOLEAN]]
  /\ first \in [Interests -> Statuses \cup {NULL}]
  /\ contested \subseteq Interests
  /\ doubled \subseteq Orders

Init ==
  /\ member = [s \in Seats |-> "active"]
  /\ interests = [i \in Interests |-> NULL]
  /\ orders = Orders
  /\ convs = [c \in Convs |-> NULL]
  /\ people = [c \in Convs |-> {}]
  /\ tx = [w \in Workers |-> Idle]
  /\ first = [i \in Interests |-> NULL]
  /\ contested = {} /\ doubled = {}

-----------------------------------------------------------------------------
With(P(_)) == {c \in Convs : convs[c] # NULL /\ P(convs[c])}
OfProvider == With(LAMBDA row : row.provider)
OfInterest(i) == With(LAMBDA row : row.interest = i)
OfOrder(o) == With(LAMBDA row : row.order = o)

\* list_active_chat_member_user_ids
Active(seats) == {s \in seats : member[s] = "active"}

Begin(w, t) ==
  /\ tx[w].at = "idle"
  /\ tx' = [tx EXCEPT ![w] = t]
  /\ UNCHANGED <<member, interests, orders, convs, people, first, contested, doubled>>

Abort(w) ==
  /\ tx[w].at # "idle"
  /\ tx' = [tx EXCEPT ![w] = Idle]
  /\ UNCHANGED <<member, interests, orders, convs, people, first, contested, doubled>>

Row(provider, interest, order) == [provider |-> provider, interest |-> interest, order |-> order]

(* Three ways to ask for a conversation; the one that exists is the answer, whoever *)
(* is a member of it, and two of an order make scalar_one_or_none raise.            *)

\* POST /conversations/provider/{id}
LookUpProviderConversation(w, u) ==
  /\ member[<<OURS, u>>] = "active"
  /\ OfProvider = {}
  /\ Begin(w, [Idle EXCEPT !.at = "listing", !.row = Row(TRUE, NULL, NULL), !.who = {<<OURS, u>>}])

\* POST /conversations/interest/{id}
LookUpInterestConversation(w, u, i) ==
  /\ member[<<OURS, u>>] = "active"
  /\ interests[i] # NULL
  /\ OfInterest(i) = {}
  /\ Begin(w, [Idle EXCEPT !.at = "listing", !.row = Row(TRUE, i, NULL), !.who = {<<OURS, u>>}])

\* Wrong variant: the conversation that exists is not looked for.
LookUpOrderAlone(w, u, o) ==
  /\ member[<<OURS, u>>] = "active"
  /\ o \in orders
  /\ Begin(w, [Idle EXCEPT !.at = "listing", !.row = Row(FALSE, NULL, o), !.who = {<<OURS, u>>}])

\* POST /conversations/orders/{id}
LookUpOrderConversation(w, u, o) ==
  /\ member[<<OURS, u>>] = "active"
  /\ o \in orders
  /\ OfOrder(o) = {}
  /\ Begin(w, [Idle EXCEPT !.at = "listing", !.row = Row(FALSE, NULL, o), !.who = {<<OURS, u>>}])

\* Who belongs to a conversation gets one seat in it, the requester the own one.
FirstSeats(asking, others) == asking \cup {s \in others : \A t \in asking : s[2] # t[2]}

\* The other members: the active ones of the provider's organization, and there must
\* be one; or the colleagues.
ListRecipients(w) ==
  /\ tx[w].at = "listing"
  /\ tx[w].row.provider => Active(TheirSeats) # {}          \* 409 "no active members"
  /\ tx' = [tx EXCEPT ![w].at = "creating",
                      ![w].who = FirstSeats(@, Active(IF tx[w].row.provider THEN TheirSeats ELSE OurSeats))]
  /\ UNCHANGED <<member, interests, orders, convs, people, first, contested, doubled>>

\* find_missing_org_members: inactive members are not missing.
Missing(users) == {u \in users : member[<<OURS, u>>] = "none"}

\* POST /conversations
LookUpRecipients(w, u, others) ==
  /\ member[<<OURS, u>>] = "active"
  /\ others # {} /\ Missing(others) = {}           \* 422
  /\ Begin(w, [Idle EXCEPT !.at = "creating", !.row = Row(FALSE, NULL, NULL), !.who = {OURS} \X (others \cup {u})])

\* uq_conversation_org_provider and the foreign key of the order.
CanInsert(row) ==
  /\ row.provider => OfProvider = {}
  /\ row.order # NULL => row.order \in orders

\* Wrong variant: the members are added in a transaction of their own.
CommitWithoutPeople(w) ==
  /\ tx[w].at = "creating"
  /\ CanInsert(tx[w].row)
  /\ \E c \in {d \in Convs : convs[d] = NULL} : convs' = [convs EXCEPT ![c] = tx[w].row]
  /\ tx' = [tx EXCEPT ![w] = Idle]
  /\ UNCHANGED <<member, interests, orders, people, first, contested, doubled>>

CommitConversation(w) ==
  /\ tx[w].at = "creating"
  /\ LET row == tx[w].row
     IN /\ CanInsert(row)
        /\ \E c \in {d \in Convs : convs[d] = NULL} :
             /\ convs' = [convs EXCEPT ![c] = row]
             /\ people' = [people EXCEPT ![c] = tx[w].who]
        /\ doubled' = IF row.order # NULL /\ tx[w].overlapped THEN doubled \cup {row.order} ELSE doubled
        /\ tx' = [v \in Workers |-> IF v = w THEN Idle
                                    ELSE IF row.order # NULL /\ tx[v].row = row
                                         THEN [tx[v] EXCEPT !.overlapped = TRUE]
                                         ELSE tx[v]]
  /\ UNCHANGED <<member, interests, orders, first, contested>>

\* The order's conversations stay, without it.
DeleteOrder(o) ==
  /\ o \in orders
  /\ orders' = orders \ {o}
  /\ convs' = [c \in Convs |-> IF c \in OfOrder(o) THEN [convs[c] EXCEPT !.order = NULL] ELSE convs[c]]
  /\ UNCHANGED <<member, interests, people, tx, first, contested, doubled>>

-----------------------------------------------------------------------------
(* Interest requests *)

CreateInterest(i) ==
  /\ interests[i] = NULL /\ Active(OurSeats) # {}
  /\ interests' = [interests EXCEPT ![i] = "pending"]
  /\ UNCHANGED <<member, orders, convs, people, tx, first, contested, doubled>>

Allowed(status) == IF status = "pending" THEN {"matched", "rejected"} ELSE {}

LoadInterest(w, i, new) ==
  /\ interests[i] # NULL /\ new \in Allowed(interests[i])  \* 422
  /\ Active(OurSeats) # {}
  /\ Begin(w, [Idle EXCEPT !.at = "deciding", !.interest = i, !.status = new])

CommitInterest(w) ==
  /\ tx[w].at = "deciding"
  /\ LET i == tx[w].interest
     IN /\ interests' = [interests EXCEPT ![i] = tx[w].status]
        /\ first' = [first EXCEPT ![i] = IF @ = NULL THEN tx[w].status ELSE @]
        /\ contested' = IF tx[w].overlapped THEN contested \cup {i} ELSE contested
        /\ tx' = [v \in Workers |-> IF v = w THEN Idle
                                    ELSE IF tx[v].interest = i THEN [tx[v] EXCEPT !.overlapped = TRUE]
                                    ELSE tx[v]]
  /\ UNCHANGED <<member, orders, convs, people, doubled>>

ChangeMembership(s, status) ==
  /\ member[s] # status
  /\ member' = [member EXCEPT ![s] = status]
  /\ UNCHANGED <<interests, orders, convs, people, tx, first, contested, doubled>>

Next ==
  \/ \E w \in Workers :
       \/ \E u \in Mine :
            \/ LookUpProviderConversation(w, u)
            \/ \E i \in Interests : LookUpInterestConversation(w, u, i)
            \/ \E o \in Orders : LookUpOrderConversation(w, u, o)
            \/ \E others \in SUBSET Mine : LookUpRecipients(w, u, others)
       \/ ListRecipients(w) \/ CommitConversation(w)
       \/ \E i \in Interests, new \in Statuses : LoadInterest(w, i, new)
       \/ CommitInterest(w) \/ Abort(w)
  \/ \E o \in Orders : DeleteOrder(o)
  \/ \E i \in Interests : CreateInterest(i)
  \/ \E s \in Seats, status \in {"none", "active", "inactive"} : ChangeMembership(s, status)

Spec == Init /\ [][Next]_vars

-----------------------------------------------------------------------------
AtMostOne(rows) == \A c, d \in rows : c = d

\* The organization has one conversation with the provider, so only one of its
\* interest requests can ever have one; and one of each order, unless two requests
\* that overlapped both made it: from then on every request for it fails.
OnePerSubject ==
  /\ AtMostOne(OfProvider)
  /\ \A i \in Interests : OfInterest(i) \subseteq OfProvider
  /\ \A o \in orders : AtMostOne(OfOrder(o)) \/ o \in doubled

\* A conversation with the provider has somebody on both sides, unless the only
\* active member that the provider's organization had was the requester; any other
\* one has nobody from outside the organization; and nobody is in one twice.
Audience ==
  \A c \in Convs : convs[c] # NULL =>
    /\ people[c] \cap OurSeats # {}
    /\ \A s, t \in people[c] : s[2] = t[2] => s = t
    /\ ~convs[c].provider => people[c] \cap TheirSeats = {}
    /\ convs[c].provider =>
         \/ people[c] \cap TheirSeats # {}
         \/ \E u \in Mine \cap Theirs : people[c] = {<<OURS, u>>}

\* The status of an interest request is what was first decided, unless decisions
\* overlapped.
DecidedOnce ==
  \A i \in Interests \ contested : interests[i] \notin {"pending", NULL} => interests[i] = first[i]
=============================================================================
