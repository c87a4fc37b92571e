------------------------------- MODULE Chat_proofs -------------------------------
(***************************************************************************)
(* Proofs about Chat: ChatDelivery, for any members, devices, number of    *)
(* messages and size of an answer, and Conversations, for any users,       *)
(* interest requests, orders and number of requests at the same time.      *)
(***************************************************************************)
EXTENDS Chat, FiniteSetTheorems, WellFoundedInduction, TLAPS

-----------------------------------------------------------------------------
(* The inductive invariant of ChatDelivery *)

Sockets == [at: {"closed", "ready", "storing", "stored", "published"}, reader: BOOLEAN,
            message: Messages \cup {NULL}]
Screens == [shown: SUBSET Messages, cursor: {0} \cup Messages, from: {0, NULL} \cup Messages, done: BOOLEAN]

Elements(s) == {s[k] : k \in 1..Len(s)}

\* What device d has on its screen, or will have once its reader has caught up.
Has(d) == client[d].shown \cup Elements(inbox[d])

\* A message that is being sent was begun; what is published or acknowledged is stored.
SocketSound(d) ==
  /\ socket[d].at = "closed" => ~socket[d].reader
  /\ socket[d].at \in {"storing", "stored", "published"} => socket[d].message \in 1..begun
  /\ socket[d].at \in {"stored", "published"} => socket[d].message \in Stored

MessagesSound == published \subseteq Stored /\ Stored \subseteq 1..begun

\* A client that has begun to ask while its reader runs has whatever was published
\* up to its cursor, and everything once an answer was not full.
ClientSound(d) ==
  /\ Has(d) \subseteq Stored
  /\ client[d].done => client[d].from # NULL
  /\ client[d].from # NULL =>
       /\ socket[d].reader
       /\ \A m \in published :
            m > client[d].from /\ (m <= client[d].cursor \/ client[d].done) => m \in Has(d)

\* What was begun before the mark was stored by then, or was being stored, or never
\* will be.
MarkSound(u) ==
  /\ lastRead[u] <= begun
  /\ marked[u].stored \subseteq 1..lastRead[u]
  /\ \A m \in 1..lastRead[u] : m \notin marked[u].stored \cup marked[u].pending =>
       m \notin Stored /\ \A d \in Devices : ~(socket[d].at = "storing" /\ socket[d].message = m)

DeliveryInv ==
  /\ TypeOK
  /\ MessagesSound
  /\ \A d \in Devices : SocketSound(d) /\ ClientSound(d)
  /\ \A u \in Users : MarkSound(u)

USE UserOfAssumption, BoundsAssumption, NullAssumption DEF UserOfAssumption, BoundsAssumption, NullAssumption

-----------------------------------------------------------------------------
(* Queues *)

LEMMA ElementsAppend ==
  ASSUME NEW M, NEW s \in Seq(M), NEW m
  PROVE  Elements(Append(s, m)) = Elements(s) \cup {m}
<1>1. Len(Append(s, m)) = Len(s) + 1 /\ Len(s) \in Nat
  OBVIOUS
<1>2. \A k \in 1..Len(s) : Append(s, m)[k] = s[k]
  OBVIOUS
<1>3. Append(s, m)[Len(s) + 1] = m
  OBVIOUS
<1> QED BY <1>1, <1>2, <1>3 DEF Elements

LEMMA ElementsHead ==
  ASSUME NEW M, NEW s \in Seq(M), s # <<>>
  PROVE  Elements(s) = {Head(s)} \cup Elements(Tail(s))
<1>1. Len(s) \in Nat \ {0} /\ Len(Tail(s)) = Len(s) - 1 /\ Head(s) = s[1]
  OBVIOUS
<1>2. \A k \in 1..(Len(s) - 1) : Tail(s)[k] = s[k + 1]
  OBVIOUS
<1>3. ASSUME NEW k \in 1..Len(s) PROVE s[k] \in {Head(s)} \cup Elements(Tail(s))
  <2>1. CASE k = 1
    BY <1>1, <2>1
  <2>2. CASE k # 1
    <3>1. k - 1 \in 1..Len(Tail(s)) /\ s[k] = Tail(s)[k - 1]
      BY <1>1, <1>2, <2>2
    <3> QED BY <3>1 DEF Elements
  <2> QED BY <2>1, <2>2
<1>4. ASSUME NEW k \in 1..Len(Tail(s)) PROVE Tail(s)[k] \in Elements(s)
  <2>1. k + 1 \in 1..Len(s) /\ Tail(s)[k] = s[k + 1]
    BY <1>1, <1>2
  <2> QED BY <2>1 DEF Elements
<1>5. Head(s) \in Elements(s)
  BY <1>1 DEF Elements
<1> QED BY <1>3, <1>4, <1>5 DEF Elements

LEMMA ElementsEmpty == Elements(<<>>) = {}
  BY DEF Elements

-----------------------------------------------------------------------------
(* Answers *)

LEMMA Smallest ==
  ASSUME NEW T \in SUBSET Nat, T # {}
  PROVE  \E m \in T : \A n \in T : m <= n
<1>1. PICK m \in T : \A n \in T : <<n, m>> \notin OpToRel(<, Nat)
  BY NatLessThanWellFounded, WFMin
<1>2. \A n \in T : ~(n < m)
  BY <1>1 DEF OpToRel
<1> QED BY <1>2

LEMMA Greatest ==
  ASSUME NEW T \in SUBSET Messages, T # {}
  PROVE  \E m \in T : \A n \in T : n <= m
<1> DEFINE D == {MaxMessages - m : m \in T}
<1>0. MaxMessages \in Nat /\ \A m \in T : m \in Nat /\ m <= MaxMessages
  BY DEF Messages
<1>1. D \in SUBSET Nat /\ D # {}
  BY <1>0
<1>2. PICK e \in D : \A f \in D : e <= f
  <2> HIDE DEF D
  <2> QED BY <1>1, Smallest
<1>3. PICK m \in T : e = MaxMessages - m
  OBVIOUS
<1>4. ASSUME NEW n \in T PROVE n <= m
  <2>1. MaxMessages - n \in D
    OBVIOUS
  <2>2. MaxMessages - m <= MaxMessages - n
    BY <1>2, <1>3, <2>1
  <2> QED BY <1>0, <2>2
<1> QED BY <1>4

Later(after) == {m \in Stored : m > after}

LEMMA StoredFinite ==
  ASSUME NEW T \in SUBSET Stored
  PROVE  IsFiniteSet(T) /\ Cardinality(T) \in Nat
<1>1. T \subseteq 1..MaxMessages
  BY DEF Stored, Messages
<1>2. IsFiniteSet(1..MaxMessages)
  BY FS_Interval
<1> QED BY <1>1, <1>2, FS_Subset, FS_CardinalityType

\* An answer is the beginning of what was stored later ...
LEMMA PageIsFirst ==
  ASSUME NEW after \in {0} \cup Messages
  PROVE  /\ Page(after) \subseteq Later(after)
         /\ \A x \in Page(after), m \in Later(after) : m <= x => m \in Page(after)
<1>1. Page(after) = {m \in Later(after) : Cardinality({n \in Later(after) : n < m}) < PageLimit}
  BY DEF Page, Later
<1>2. ASSUME NEW x \in Page(after), NEW m \in Later(after), m <= x PROVE m \in Page(after)
  <2> DEFINE A == {n \in Later(after) : n < m}
             B == {n \in Later(after) : n < x}
  <2>1. A \in SUBSET B
    BY <1>1, <1>2 DEF Later, Stored, Messages
  <2>2. IsFiniteSet(B) /\ Cardinality(B) \in Nat /\ Cardinality(A) \in Nat
    BY <2>1, StoredFinite DEF Later
  <2>3. Cardinality(A) <= Cardinality(B)
    <3> HIDE DEF A, B
    <3> QED BY <2>1, <2>2, FS_Subset
  <2>4. Cardinality(B) < PageLimit
    BY <1>1
  <2>5. Cardinality(A) < PageLimit
    <3> HIDE DEF A, B
    <3> QED BY <2>2, <2>3, <2>4
  <2> QED BY <1>1, <2>5
<1> QED BY <1>1, <1>2

\* ... and all of it if it is not full.
LEMMA PageIsAll ==
  ASSUME NEW after \in {0} \cup Messages, Cardinality(Page(after)) < PageLimit
  PROVE  Page(after) = Later(after)
<1>1. Page(after) = {m \in Later(after) : Cardinality({n \in Later(after) : n < m}) < PageLimit}
  BY DEF Page, Later
<1>2. SUFFICES ASSUME Later(after) \ Page(after) # {} PROVE FALSE
  BY <1>1
<1>3. Later(after) \ Page(after) \in SUBSET Nat
  BY DEF Later, Stored, Messages
<1>4. PICK m \in Later(after) \ Page(after) : \A n \in Later(after) \ Page(after) : m <= n
  BY <1>2, <1>3, Smallest
<1> DEFINE A == {n \in Later(after) : n < m}
<1>5. A \in SUBSET Page(after)
  BY <1>4 DEF Later, Stored, Messages
<1>6. IsFiniteSet(Page(after)) /\ Cardinality(Page(after)) \in Nat /\ Cardinality(A) \in Nat
  BY <1>1, StoredFinite DEF Later
<1>7. Cardinality(A) <= Cardinality(Page(after))
  <2> HIDE DEF A
  <2> QED BY <1>5, <1>6, FS_Subset
<1>8. Cardinality(A) < PageLimit
  <2> HIDE DEF A
  <2> QED BY <1>6, <1>7
<1> QED BY <1>1, <1>4, <1>8

\* The cursor after an answer is its newest message.
LEMMA PageHasNewest ==
  ASSUME NEW after \in {0} \cup Messages, Page(after) # {}
  PROVE  LET newest == CHOOSE m \in Page(after) : \A n \in Page(after) : n <= m
         IN newest \in Page(after) /\ \A n \in Page(after) : n <= newest
<1>1. Page(after) \in SUBSET Messages
  BY DEF Page, Stored
<1>2. \E m \in Page(after) : \A n \in Page(after) : n <= m
  BY <1>1, Greatest
<1> QED BY <1>2

-----------------------------------------------------------------------------
(* The steps of ChatDelivery *)

LEMMA DeliveryInit == Init => DeliveryInv
<1> SUFFICES ASSUME Init PROVE DeliveryInv
  OBVIOUS
<1>1. TypeOK
  BY DEF Init, TypeOK, Messages, Closed, Blank
<1>2. Stored = {} /\ MessagesSound
  BY DEF Init, Stored, MessagesSound
<1>3. ASSUME NEW d \in Devices PROVE SocketSound(d) /\ ClientSound(d)
  <2>1. SocketSound(d)
    BY DEF Init, SocketSound, Closed
  <2>2. Has(d) = {}
    BY ElementsEmpty DEF Init, Has, Blank
  <2> QED BY <2>1, <2>2 DEF Init, ClientSound, Blank
<1>4. ASSUME NEW u \in Users PROVE MarkSound(u)
  BY DEF Init, MarkSound
<1> QED BY <1>1, <1>2, <1>3, <1>4 DEF DeliveryInv

SocketTypes ==
  /\ socket \in [Devices -> Sockets]
  /\ \A d \in Devices : socket[d].message # NULL => socket[d].at \in {"storing", "stored", "published"}

\* TypeOK, with the types of a socket and of a screen named.
Types ==
  /\ mayChat \in [Users -> BOOLEAN]
  /\ begun \in 0..MaxMessages
  /\ author \in [Messages -> Users \cup {NULL}]
  /\ SocketTypes
  /\ inbox \in [Devices -> Seq(Messages)]
  /\ client \in [Devices -> Screens]
  /\ lastRead \in [Users -> 0..MaxMessages]
  /\ published \subseteq Messages
  /\ marked \in [Users -> [stored: SUBSET Messages, pending: SUBSET Messages]]

LEMMA TypeSplit == TypeOK <=> Types
  BY DEF TypeOK, Types, SocketTypes, Sockets, Screens

LEMMA TypeSplitNext == TypeOK' <=> Types'
  BY TypeSplit, PTL

LEMMA SocketChanges ==
  ASSUME SocketTypes, NEW d \in Devices, NEW t \in Sockets,
         t.message # NULL => t.at \in {"storing", "stored", "published"},
         socket' = [socket EXCEPT ![d] = t]
  PROVE  SocketTypes'
  BY DEF SocketTypes

\* What a step that moves one handler makes of it.
LEMMA SocketMoves ==
  ASSUME DeliveryInv, NEW d \in Devices,
         Connect(d) \/ Join(d) \/ BeginMessage(d) \/ StoreMessage(d) \/ Publish(d) \/ Ack(d) \/ LoseReader(d) \/ Close(d)
  PROVE  /\ SocketTypes'
         /\ \A e \in Devices \ {d} : socket'[e] = socket[e]
         /\ Connect(d) => socket'[d].at = "ready" /\ ~socket'[d].reader
         /\ Join(d) => socket'[d].at = "ready" /\ socket'[d].reader
         /\ BeginMessage(d) => /\ socket'[d].at = "storing" /\ socket'[d].reader = socket[d].reader
                               /\ socket'[d].message = begun + 1
         /\ StoreMessage(d) => /\ socket'[d].at = "stored" /\ socket'[d].reader = socket[d].reader
                               /\ socket'[d].message = socket[d].message
         /\ Publish(d) => /\ socket'[d].at = "published" /\ socket'[d].reader = socket[d].reader
                          /\ socket'[d].message = socket[d].message
         /\ Ack(d) => socket'[d].at = "ready" /\ socket'[d].reader = socket[d].reader
         /\ LoseReader(d) => /\ socket'[d].at = socket[d].at /\ ~socket'[d].reader
                             /\ socket'[d].message = socket[d].message
         /\ Close(d) => socket'[d] = Closed
<1>0. SocketTypes /\ socket[d] \in Sockets /\ begun \in 0..MaxMessages
  BY TypeSplit DEF DeliveryInv, Types, SocketTypes
<1>1. PICK t \in Sockets :
        /\ socket' = [socket EXCEPT ![d] = t]
        /\ t.message # NULL => t.at \in {"storing", "stored", "published"}
  <2>1. CASE Connect(d)
    <3>1. [Closed EXCEPT !.at = "ready"] \in Sockets /\ [Closed EXCEPT !.at = "ready"].message = NULL
      BY DEF Closed, Sockets
    <3> QED BY <2>1, <3>1 DEF Connect
  <2>2. CASE Join(d)
    <3>1. [socket[d] EXCEPT !.reader = TRUE] \in Sockets
      BY <1>0 DEF Sockets
    <3>2. socket' = [socket EXCEPT ![d] = [socket[d] EXCEPT !.reader = TRUE]]
      BY <2>2 DEF Join
    <3> QED BY <1>0, <3>1, <3>2 DEF Sockets, SocketTypes
  <2>3. CASE BeginMessage(d)
    <3>0. socket' = [socket EXCEPT ![d] = [socket[d] EXCEPT !.at = "storing", !.message = begun + 1]]
      BY <2>3 DEF BeginMessage
    <3>1. begun + 1 \in Messages
      BY <1>0, <2>3 DEF BeginMessage, Messages
    <3>2. [socket[d] EXCEPT !.at = "storing", !.message = begun + 1] \in Sockets
      BY <1>0, <3>1 DEF Sockets
    <3> QED BY <1>0, <3>0, <3>2 DEF Sockets
  <2>4. ASSUME NEW point \in {"stored", "published"}, socket' = [socket EXCEPT ![d].at = point]
        PROVE  \E t \in Sockets : /\ socket' = [socket EXCEPT ![d] = t]
                                  /\ t.message # NULL => t.at \in {"storing", "stored", "published"}
    <3>1. [socket[d] EXCEPT !.at = point] \in Sockets
      BY <1>0 DEF Sockets
    <3> QED BY <1>0, <2>4, <3>1 DEF Sockets
  <2>5. CASE StoreMessage(d) \/ Publish(d)
    BY <2>4, <2>5 DEF StoreMessage, Publish
  <2>6. CASE Ack(d)
    <3>1. [socket[d] EXCEPT !.at = "ready", !.message = NULL] \in Sockets
      BY <1>0 DEF Sockets
    <3>2. socket' = [socket EXCEPT ![d] = [socket[d] EXCEPT !.at = "ready", !.message = NULL]]
      BY <2>6 DEF Ack
    <3> QED BY <1>0, <3>1, <3>2 DEF Sockets
  <2>7. CASE LoseReader(d)
    <3>1. [socket[d] EXCEPT !.reader = FALSE] \in Sockets
      BY <1>0 DEF Sockets
    <3>2. socket' = [socket EXCEPT ![d] = [socket[d] EXCEPT !.reader = FALSE]]
      BY <2>7 DEF LoseReader
    <3> QED BY <1>0, <3>1, <3>2 DEF Sockets, SocketTypes
  <2>8. CASE Close(d)
    <3>1. Closed \in Sockets /\ Closed.message = NULL
      BY DEF Closed, Sockets
    <3> QED BY <2>8, <3>1 DEF Close
  <2> QED BY <2>1, <2>2, <2>3, <2>5, <2>6, <2>7, <2>8
<1>2. SocketTypes'
  BY <1>0, <1>1, SocketChanges
<1>3. \A e \in Devices \ {d} : socket'[e] = socket[e]
  BY <1>0, <1>1 DEF SocketTypes
<1>4. Connect(d) => socket'[d].at = "ready" /\ ~socket'[d].reader
  BY <1>0 DEF Connect, Closed, SocketTypes
<1>5. Join(d) => socket'[d].at = "ready" /\ socket'[d].reader
  BY <1>0 DEF Join, SocketTypes, Sockets
<1>6. BeginMessage(d) => /\ socket'[d].at = "storing" /\ socket'[d].reader = socket[d].reader
                         /\ socket'[d].message = begun + 1
  BY <1>0 DEF BeginMessage, SocketTypes, Sockets
<1>7. StoreMessage(d) => /\ socket'[d].at = "stored" /\ socket'[d].reader = socket[d].reader
                         /\ socket'[d].message = socket[d].message
  BY <1>0 DEF StoreMessage, SocketTypes, Sockets
<1>8. Publish(d) => /\ socket'[d].at = "published" /\ socket'[d].reader = socket[d].reader
                    /\ socket'[d].message = socket[d].message
  BY <1>0 DEF Publish, SocketTypes, Sockets
<1>9. Ack(d) => socket'[d].at = "ready" /\ socket'[d].reader = socket[d].reader
  BY <1>0 DEF Ack, SocketTypes, Sockets
<1>10. LoseReader(d) => /\ socket'[d].at = socket[d].at /\ ~socket'[d].reader
                        /\ socket'[d].message = socket[d].message
  BY <1>0 DEF LoseReader, SocketTypes, Sockets
<1>11. Close(d) => socket'[d] = Closed
  BY <1>0 DEF Close, SocketTypes
<1> QED BY <1>2, <1>3, <1>4, <1>5, <1>6, <1>7, <1>8, <1>9, <1>10, <1>11

LEMMA DeliveryTypes ==
  ASSUME DeliveryInv, [Next]_vars
  PROVE  TypeOK'
<1>0. Types
  BY TypeSplit DEF DeliveryInv
<1>1. ASSUME NEW d \in Devices, Connect(d) \/ Join(d) \/ Ack(d) PROVE Types'
  BY <1>0, <1>1, SocketMoves DEF Connect, Join, Ack, Types, Messages, Screens
<1>2. ASSUME NEW d \in Devices, BeginMessage(d) PROVE Types'
  <2>1. begun' \in 0..MaxMessages
    BY <1>0, <1>2 DEF BeginMessage, Types
  <2> QED BY <1>0, <1>2, <2>1, SocketMoves DEF BeginMessage, Types, Messages, Screens
<1>3. ASSUME NEW d \in Devices, StoreMessage(d) PROVE Types'
  <2>1. UserOf[d] \in Users
    OBVIOUS
  <2>2. author' \in [Messages -> Users \cup {NULL}]
    BY <1>0, <1>3, <2>1 DEF StoreMessage, Types
  <2> QED BY <1>0, <1>3, <2>2, SocketMoves DEF StoreMessage, Types, Messages, Screens
<1>4. ASSUME NEW d \in Devices, Publish(d) PROVE Types'
  <2>1. socket[d].message \in Messages
    BY <1>0, <1>4 DEF DeliveryInv, SocketSound, Publish, Types, Messages
  <2>2. inbox' \in [Devices -> Seq(Messages)]
    BY <1>0, <1>4, <2>1 DEF Publish, Types
  <2>3. published' \subseteq Messages
    BY <1>0, <1>4, <2>1 DEF Publish, Types
  <2> QED BY <1>0, <1>4, <2>2, <2>3, SocketMoves DEF Publish, Types, Messages, Screens
<1>5. ASSUME NEW d \in Devices, Deliver(d) PROVE Types'
  <2>1. inbox[d] \in Seq(Messages) /\ inbox[d] # <<>>
    BY <1>0, <1>5 DEF Deliver, Types
  <2>2. Head(inbox[d]) \in Messages /\ Tail(inbox[d]) \in Seq(Messages)
    BY <2>1
  <2>3. inbox' \in [Devices -> Seq(Messages)]
    BY <1>0, <1>5, <2>2 DEF Deliver, Types
  <2> DEFINE shown == client[d].shown \cup {Head(inbox[d])}
  <2>4. [client[d] EXCEPT !.shown = shown] \in Screens
    <3>1. client[d] \in Screens
      BY <1>0 DEF Types
    <3>2. shown \in SUBSET Messages
      BY <2>2, <3>1 DEF Screens
    <3> HIDE DEF shown
    <3> QED BY <3>1, <3>2 DEF Screens
  <2>5. client' = [client EXCEPT ![d] = [client[d] EXCEPT !.shown = shown]]
    BY <1>5 DEF Deliver
  <2>6. client' \in [Devices -> Screens]
    BY <1>0, <2>4, <2>5 DEF Types
  <2> QED BY <1>0, <1>5, <2>3, <2>6 DEF Deliver, Types, Messages, SocketTypes
<1>6. ASSUME NEW d \in Devices, LoseReader(d) \/ Close(d) PROVE Types'
  <2>0. <<>> \in Seq(Messages)
    OBVIOUS
  <2>1. inbox' \in [Devices -> Seq(Messages)]
    BY <1>0, <1>6, <2>0 DEF LoseReader, Close, Types
  <2>2. client[d] \in Screens
    BY <1>0 DEF Types
  <2>3. [client[d] EXCEPT !.from = NULL, !.done = FALSE] \in Screens
    BY <2>2 DEF Screens
  <2>4. client' \in [Devices -> Screens]
    BY <1>0, <1>6, <2>3 DEF LoseReader, Close, Unsure, Types
  <2> QED BY <1>0, <1>6, <2>1, <2>4, SocketMoves DEF LoseReader, Close, Types, Messages
<1>7. ASSUME NEW d \in Devices, NEW after \in {0} \cup Messages, Backfill(d, after) PROVE Types'
  <2>1. Page(after) \in SUBSET Messages
    BY DEF Page, Stored
  <2> DEFINE newest == CHOOSE m \in Page(after) : \A n \in Page(after) : n <= m
             cursor == IF Page(after) = {} THEN after ELSE newest
             done == socket[d].reader /\ Cardinality(Page(after)) < PageLimit
             from == IF ~socket[d].reader THEN NULL
                     ELSE IF client[d].from # NULL /\ after = client[d].cursor THEN client[d].from ELSE after
  <2>2. Page(after) = {} \/ newest \in Messages
    <3>1. Page(after) # {} => newest \in Page(after)
      BY PageHasNewest
    <3> HIDE DEF newest
    <3> QED BY <2>1, <3>1
  <2>3. cursor \in {0} \cup Messages
    <3> HIDE DEF newest
    <3> QED BY <2>2
  <2>4. client[d] \in Screens
    BY <1>0 DEF Types
  <2>5. from \in {0, NULL} \cup Messages
    BY <2>4 DEF Screens
  <2>6. done \in BOOLEAN
    OBVIOUS
  <2>7. client' = [client EXCEPT ![d] = [shown |-> client[d].shown \cup Page(after), cursor |-> cursor,
                                         from |-> from, done |-> done]]
    BY <1>7 DEF Backfill
  <2>8. client' \in [Devices -> Screens]
    <3> HIDE DEF cursor, from, done
    <3>1. [shown |-> client[d].shown \cup Page(after), cursor |-> cursor, from |-> from, done |-> done] \in Screens
      BY <2>1, <2>3, <2>4, <2>5, <2>6 DEF Screens
    <3> QED BY <1>0, <2>7, <3>1 DEF Types
  <2> QED BY <1>0, <1>7, <2>8 DEF Backfill, Types, SocketTypes
<1>8. ASSUME NEW u \in Users, MarkRead(u) PROVE Types'
  <2>1. {socket[d].message : d \in {e \in Devices : socket[e].at = "storing"}} \subseteq Messages
    BY <1>0 DEF DeliveryInv, SocketSound, Types, Messages
  <2>2. Stored \subseteq Messages
    BY DEF Stored
  <2> QED BY <1>0, <1>8, <2>1, <2>2 DEF MarkRead, Types, SocketTypes
<1>9. ASSUME NEW u \in Users, ChangePermission(u) PROVE Types'
  BY <1>0, <1>9 DEF ChangePermission, Types, SocketTypes
<1>10. ASSUME UNCHANGED vars PROVE Types'
  BY <1>0, <1>10 DEF vars, Types, SocketTypes
<1> QED BY <1>1, <1>2, <1>3, <1>4, <1>5, <1>6, <1>7, <1>8, <1>9, <1>10, TypeSplitNext DEF Next

\* The clock goes on, and what is stored stays; what comes to it was being stored.
LEMMA StoredGrows ==
  ASSUME DeliveryInv, [Next]_vars
  PROVE  /\ begun <= begun' /\ begun' \in Nat
         /\ Stored \subseteq Stored'
         /\ \A m \in Stored' \ Stored :
              \E d \in Devices : socket[d].at = "storing" /\ socket[d].message = m
<1>0. TypeOK /\ TypeOK'
  BY DeliveryTypes DEF DeliveryInv
<1>1. begun <= begun' /\ begun' \in Nat
  <2>1. begun' = begun \/ begun' = begun + 1
    BY DEF Next, vars, Connect, Join, BeginMessage, StoreMessage, Publish, Ack, Deliver, LoseReader, Close,
           Backfill, MarkRead, ChangePermission
  <2> QED BY <1>0, <2>1 DEF TypeOK
<1>2. author' = author \/ \E d \in Devices : StoreMessage(d)
  BY DEF Next, vars, Connect, Join, BeginMessage, Publish, Ack, Deliver, LoseReader, Close,
       Backfill, MarkRead, ChangePermission
<1>3. CASE author' = author
  BY <1>1, <1>3 DEF Stored
<1>4. ASSUME NEW d \in Devices, StoreMessage(d)
      PROVE  Stored' = Stored \cup {socket[d].message} /\ socket[d].at = "storing"
  <2>1. socket[d].message \in Messages /\ UserOf[d] # NULL
    BY <1>0, <1>4 DEF DeliveryInv, SocketSound, StoreMessage, TypeOK, Messages
  <2> QED BY <1>0, <1>4, <2>1 DEF StoreMessage, Stored, TypeOK
<1> QED BY <1>1, <1>2, <1>3, <1>4

LEMMA MessagesKept ==
  ASSUME DeliveryInv, [Next]_vars
  PROVE  MessagesSound'
<1>1. published' = published \/ \E d \in Devices : Publish(d)
  BY DEF Next, vars, Connect, Join, BeginMessage, StoreMessage, Ack, Deliver, LoseReader, Close,
         Backfill, MarkRead, ChangePermission
<1>2. published' \subseteq Stored'
  <2>1. ASSUME NEW d \in Devices, Publish(d) PROVE published' \subseteq Stored'
    <3>1. socket[d].message \in Stored
      BY <2>1 DEF DeliveryInv, SocketSound, Publish
    <3> QED BY <2>1, <3>1, StoredGrows DEF DeliveryInv, MessagesSound, Publish
  <2> QED BY <1>1, <2>1, StoredGrows DEF DeliveryInv, MessagesSound
<1>3. ASSUME NEW m \in Stored' PROVE m \in 1..begun'
  <2>1. begun \in Nat /\ begun' \in Nat /\ begun <= begun'
    BY StoredGrows DEF DeliveryInv, TypeOK
  <2>2. m \in 1..begun
    <3>1. CASE m \in Stored
      BY <3>1 DEF DeliveryInv, MessagesSound
    <3>2. CASE m \notin Stored
      BY <1>3, <3>2, StoredGrows DEF DeliveryInv, SocketSound
    <3> QED BY <3>1, <3>2
  <2> QED BY <2>1, <2>2
<1> QED BY <1>2, <1>3 DEF MessagesSound

\* A handler changes by a step of its own.
LEMMA StepOfSocket ==
  ASSUME DeliveryInv, [Next]_vars, NEW d \in Devices
  PROVE  \/ socket'[d] = socket[d]
         \/ Connect(d) \/ Join(d) \/ BeginMessage(d) \/ StoreMessage(d) \/ Publish(d) \/ Ack(d)
         \/ LoseReader(d) \/ Close(d)
<1>1. \/ socket' = socket
      \/ \E e \in Devices :
           Connect(e) \/ Join(e) \/ BeginMessage(e) \/ StoreMessage(e) \/ Publish(e) \/ Ack(e) \/ LoseReader(e) \/ Close(e)
  BY DEF Next, vars, Deliver, Backfill, MarkRead, ChangePermission
<1> QED BY <1>1, SocketMoves

LEMMA SocketsKept ==
  ASSUME DeliveryInv, [Next]_vars, NEW d \in Devices
  PROVE  SocketSound(d)'
<1>0. SocketSound(d) /\ begun \in Nat /\ begun' \in Nat /\ begun <= begun' /\ Stored \subseteq Stored'
  BY StoredGrows DEF DeliveryInv, TypeOK
<1>1. CASE socket'[d] = socket[d]
  BY <1>0, <1>1 DEF SocketSound
<1>2. CASE Connect(d) \/ Join(d) \/ Ack(d)
  BY <1>2, SocketMoves DEF SocketSound
<1>3. CASE BeginMessage(d)
  <2>1. socket'[d].at = "storing" /\ socket'[d].message = begun + 1 /\ begun' = begun + 1
    BY <1>3, SocketMoves DEF BeginMessage
  <2> QED BY <1>0, <2>1 DEF SocketSound
<1>4. CASE StoreMessage(d)
  <2>1. socket'[d].at = "stored" /\ socket'[d].message = socket[d].message
    BY <1>4, SocketMoves
  <2>2. socket[d].message \in 1..begun
    BY <1>0, <1>4 DEF SocketSound, StoreMessage
  <2>3. socket[d].message \in Messages /\ UserOf[d] # NULL
    BY <1>0, <2>2 DEF DeliveryInv, TypeOK, Messages
  <2>4. socket[d].message \in Stored'
    BY <1>4, <2>3 DEF StoreMessage, Stored, DeliveryInv, TypeOK
  <2> QED BY <1>0, <2>1, <2>2, <2>4 DEF SocketSound
<1>5. CASE Publish(d)
  <2>1. /\ socket'[d].at = "published" /\ socket'[d].message = socket[d].message
        /\ socket[d].at = "stored"
    BY <1>5, SocketMoves DEF Publish
  <2> QED BY <1>0, <2>1 DEF SocketSound
<1>6. CASE LoseReader(d)
  <2>1. /\ socket'[d].at = socket[d].at /\ ~socket'[d].reader
        /\ socket'[d].message = socket[d].message
    BY <1>6, SocketMoves
  <2> QED BY <1>0, <2>1 DEF SocketSound
<1>7. CASE Close(d)
  BY <1>7, SocketMoves DEF SocketSound, Closed
<1> QED BY <1>1, <1>2, <1>3, <1>4, <1>5, <1>6, <1>7, StepOfSocket

LEMMA MarksKept ==
  ASSUME DeliveryInv, [Next]_vars, NEW u \in Users
  PROVE  MarkSound(u)'
<1>0. /\ MarkSound(u) /\ begun \in Nat /\ begun' \in Nat /\ begun <= begun' /\ Stored \subseteq Stored'
      /\ lastRead[u] \in Nat /\ lastRead[u] <= begun
  BY StoredGrows DEF DeliveryInv, TypeOK, MarkSound
<1>1. CASE lastRead'[u] = lastRead[u] /\ marked'[u] = marked[u]
  <2>1. ASSUME NEW m \in 1..lastRead[u], m \notin marked[u].stored \cup marked[u].pending
        PROVE  m \notin Stored' /\ \A d \in Devices : ~(socket'[d].at = "storing" /\ socket'[d].message = m)
    <3>1. m \notin Stored /\ \A d \in Devices : ~(socket[d].at = "storing" /\ socket[d].message = m)
      BY <1>0, <2>1 DEF MarkSound
    <3>2. m \notin Stored'
      BY <3>1, StoredGrows
    <3>3. ASSUME NEW d \in Devices, socket'[d].at = "storing" PROVE socket'[d].message # m
      <4>1. \/ socket'[d] = socket[d]
            \/ Connect(d) \/ Join(d) \/ BeginMessage(d) \/ StoreMessage(d) \/ Publish(d) \/ Ack(d)
            \/ LoseReader(d) \/ Close(d)
        BY StepOfSocket
      <4>2. CASE socket'[d] = socket[d]
        BY <3>1, <3>3, <4>2
      <4>3. CASE LoseReader(d)
        <5>1. socket[d].at = "storing" /\ socket'[d].message = socket[d].message
          BY <3>3, <4>3, SocketMoves
        <5> QED BY <3>1, <5>1
      <4>4. CASE BeginMessage(d)
        <5>1. socket'[d].message = begun + 1
          BY <4>4, SocketMoves
        <5> QED BY <1>0, <5>1
      <4>5. CASE Connect(d) \/ Join(d) \/ StoreMessage(d) \/ Publish(d) \/ Ack(d) \/ Close(d)
        BY <3>3, <4>5, SocketMoves DEF Closed
      <4> QED BY <4>1, <4>2, <4>3, <4>4, <4>5
    <3> QED BY <3>2, <3>3
  <2> QED BY <1>0, <1>1, <2>1 DEF MarkSound
<1>2. CASE MarkRead(u)
  <2>1. lastRead'[u] = begun /\ begun' = begun /\ Stored' = Stored /\ socket' = socket
    BY <1>2 DEF MarkRead, DeliveryInv, TypeOK, Stored
  <2>2. /\ marked'[u].stored = Stored
        /\ marked'[u].pending = {socket[d].message : d \in {e \in Devices : socket[e].at = "storing"}}
    BY <1>2 DEF MarkRead, DeliveryInv, TypeOK
  <2> QED BY <1>0, <2>1, <2>2 DEF MarkSound, DeliveryInv, MessagesSound
<1>3. (lastRead'[u] = lastRead[u] /\ marked'[u] = marked[u]) \/ MarkRead(u)
  <2>1. (lastRead' = lastRead /\ marked' = marked) \/ \E v \in Users : MarkRead(v)
    BY DEF Next, vars, Connect, Join, BeginMessage, StoreMessage, Publish, Ack, Deliver, LoseReader, Close,
           Backfill, ChangePermission
  <2>2. ASSUME NEW v \in Users, MarkRead(v), v # u PROVE lastRead'[u] = lastRead[u] /\ marked'[u] = marked[u]
    BY <2>2 DEF MarkRead, DeliveryInv, TypeOK
  <2> QED BY <2>1, <2>2
<1> QED BY <1>1, <1>2, <1>3

LEMMA ClientsKept ==
  ASSUME DeliveryInv, [Next]_vars, NEW d \in Devices
  PROVE  ClientSound(d)'
<1>0. /\ ClientSound(d) /\ Stored \subseteq Stored' /\ published \subseteq Stored
      /\ client[d] \in Screens /\ inbox[d] \in Seq(Messages) /\ Types /\ published \subseteq Messages
  BY StoredGrows, TypeSplit DEF DeliveryInv, MessagesSound, Types
\* Nothing is published, and the client goes on asking where it did.
<1>1. ASSUME published' = published, Has(d)' = Has(d), socket'[d].reader = socket[d].reader \/ socket'[d].reader,
             client'[d].from = client[d].from, client'[d].cursor = client[d].cursor, client'[d].done = client[d].done
      PROVE  ClientSound(d)'
  BY <1>0, <1>1 DEF ClientSound
<1>2. ASSUME published' = published, UNCHANGED <<client, inbox>>,
             socket'[d].reader = socket[d].reader \/ socket'[d].reader
      PROVE  ClientSound(d)'
  BY <1>1, <1>2 DEF Has
<1>3. ASSUME NEW e \in Devices, Connect(e) PROVE ClientSound(d)'
  <2>1. CASE e = d
    <3>1. client[d].from = NULL
      BY <1>3, <2>1 DEF DeliveryInv, SocketSound, ClientSound, Connect
    <3>2. Has(d)' = Has(d) /\ client' = client /\ ~client[d].done
      BY <1>0, <1>3, <3>1 DEF Connect, Has, ClientSound
    <3> QED BY <1>0, <3>1, <3>2 DEF ClientSound
  <2>2. CASE e # d
    <3>1. socket'[d] = socket[d]
      BY <1>3, <2>2, SocketMoves
    <3> QED BY <1>2, <1>3, <3>1 DEF Connect
  <2> QED BY <2>1, <2>2
<1>4. ASSUME NEW e \in Devices, Join(e) \/ BeginMessage(e) \/ StoreMessage(e) \/ Ack(e) PROVE ClientSound(d)'
  <2>1. socket'[d].reader = socket[d].reader \/ socket'[d].reader
    BY <1>4, SocketMoves
  <2> QED BY <1>2, <1>4, <2>1 DEF Join, BeginMessage, StoreMessage, Ack
<1>5. ASSUME NEW e \in Devices, Publish(e) PROVE ClientSound(d)'
  <2> DEFINE sent == socket[e].message
  <2>1. socket'[d].reader = socket[d].reader /\ client' = client /\ published' = published \cup {sent}
    BY <1>5, SocketMoves DEF Publish
  <2>2. sent \in Stored
    BY <1>5 DEF DeliveryInv, SocketSound, Publish
  <2>3. CASE socket[d].reader
    <3>1. inbox'[d] = Append(inbox[d], sent)
      BY <1>0, <1>5, <2>3 DEF Publish
    <3>2. Elements(inbox[d])' = Elements(inbox[d]) \cup {sent}
      BY <1>0, <3>1, ElementsAppend DEF Elements
    <3>3. Has(d)' = Has(d) \cup {sent}
      BY <2>1, <3>2 DEF Has
    <3> QED BY <1>0, <2>1, <2>2, <2>3, <3>3 DEF ClientSound
  <2>4. CASE ~socket[d].reader
    <3>1. inbox'[d] = inbox[d]
      BY <1>0, <1>5, <2>4 DEF Publish, Types
    <3>2. Has(d)' = Has(d)
      BY <2>1, <3>1 DEF Has, Elements
    <3> QED BY <1>0, <2>1, <2>4, <3>2 DEF ClientSound
  <2> QED BY <2>3, <2>4
<1>6. ASSUME NEW e \in Devices, Deliver(e) PROVE ClientSound(d)'
  <2>1. CASE e = d
    <3>1. inbox'[d] = Tail(inbox[d]) /\ inbox[d] # <<>>
      BY <1>0, <1>6, <2>1 DEF Deliver, Types
    <3>2. client'[d] = [client[d] EXCEPT !.shown = client[d].shown \cup {Head(inbox[d])}]
      BY <1>0, <1>6, <2>1 DEF Deliver, Types
    <3>3. /\ client'[d].shown = client[d].shown \cup {Head(inbox[d])}
          /\ client'[d].from = client[d].from /\ client'[d].cursor = client[d].cursor
          /\ client'[d].done = client[d].done
      BY <1>0, <3>2 DEF Screens
    <3>4. Elements(inbox[d]) = {Head(inbox[d])} \cup Elements(inbox[d])'
      BY <1>0, <3>1, ElementsHead DEF Elements
    <3>5. Has(d)' = Has(d)
      BY <3>3, <3>4 DEF Has
    <3> QED BY <1>1, <1>6, <3>3, <3>5 DEF Deliver
  <2>2. CASE e # d
    <3>1. client'[d] = client[d] /\ inbox'[d] = inbox[d] /\ socket' = socket /\ published' = published
      BY <1>0, <1>6, <2>2 DEF Deliver, Types
    <3>2. Has(d)' = Has(d)
      BY <3>1 DEF Has, Elements
    <3> QED BY <1>1, <3>1, <3>2
  <2> QED BY <2>1, <2>2
<1>7. ASSUME NEW e \in Devices, LoseReader(e) \/ Close(e) PROVE ClientSound(d)'
  <2>1. CASE e = d
    <3>1. inbox'[d] = <<>> /\ client'[d] = Unsure(client[d])
      BY <1>0, <1>7, <2>1 DEF LoseReader, Close, Types
    <3>2. client'[d].shown = client[d].shown /\ client'[d].from = NULL /\ ~client'[d].done
      BY <1>0, <3>1 DEF Unsure, Screens
    <3>3. Has(d)' \subseteq Has(d)
      BY <3>1, <3>2 DEF Has, Elements
    <3> QED BY <1>0, <3>2, <3>3 DEF ClientSound
  <2>2. CASE e # d
    <3>1. client'[d] = client[d] /\ inbox'[d] = inbox[d] /\ published' = published
      BY <1>0, <1>7, <2>2 DEF LoseReader, Close, Types
    <3>2. socket'[d] = socket[d]
      BY <1>7, <2>2, SocketMoves
    <3>3. Has(d)' = Has(d)
      BY <3>1 DEF Has, Elements
    <3> QED BY <1>1, <3>1, <3>2, <3>3
  <2> QED BY <2>1, <2>2
<1>8. ASSUME NEW e \in Devices, NEW after \in {0} \cup Messages, Backfill(e, after) PROVE ClientSound(d)'
  <2>1. CASE e = d
    <3> DEFINE newest == CHOOSE m \in Page(after) : \A n \in Page(after) : n <= m
           cursor == IF Page(after) = {} THEN after ELSE newest
           from == IF ~socket[d].reader THEN NULL
                   ELSE IF client[d].from # NULL /\ after = client[d].cursor THEN client[d].from ELSE after
           done == socket[d].reader /\ Cardinality(Page(after)) < PageLimit
    <3>0. client'[d] = [shown |-> client[d].shown \cup Page(after), cursor |-> cursor, from |-> from, done |-> done]
      BY <1>0, <1>8, <2>1 DEF Backfill, Types
    <3>1. /\ client'[d].shown = client[d].shown \cup Page(after)
          /\ client'[d].cursor = cursor /\ client'[d].from = from /\ client'[d].done = done
      <4> HIDE DEF cursor, from, done
      <4> QED BY <3>0
    <3>2. socket' = socket /\ inbox' = inbox /\ published' = published
      BY <1>8 DEF Backfill
    <3>3. Has(d)' = Has(d) \cup Page(after)
      BY <3>1, <3>2 DEF Has, Elements
    <3>4. Page(after) \subseteq Stored
      BY PageIsFirst DEF Later
    <3>5. CASE ~socket[d].reader
      <4>1. client'[d].from = NULL /\ ~client'[d].done
        <5> HIDE DEF newest
        <5> QED BY <3>1, <3>5
      <4>2. Has(d)' \subseteq Stored'
        BY <1>0, <3>3, <3>4 DEF ClientSound
      <4> QED BY <4>1, <4>2 DEF ClientSound
    <3>6. CASE socket[d].reader
      <4>1. client'[d].from \in {0} \cup Messages /\ client'[d].from # NULL /\ after \in Nat
        BY <1>0, <3>1, <3>6 DEF Screens, Messages
      <4>2. ASSUME NEW m \in published, m > client'[d].from, m <= client'[d].cursor \/ client'[d].done
            PROVE  m \in Has(d)'
        <5>1. m \in Nat /\ m \in Stored
          BY <1>0 DEF Messages
        <5>2. CASE m > after
          <6>1. m \in Later(after)
            BY <5>1, <5>2 DEF Later
          <6>2. CASE client'[d].done
            <7>1. Cardinality(Page(after)) < PageLimit
              <8> HIDE DEF newest
              <8> QED BY <3>1, <6>2
            <7> QED BY <3>3, <6>1, <7>1, PageIsAll
          <6>3. CASE ~client'[d].done
            <7>1. m <= client'[d].cursor
              BY <4>2, <6>3
            <7>2. Page(after) # {} /\ client'[d].cursor = newest
              BY <3>1, <4>1, <5>1, <5>2, <7>1
            <7>3. newest \in Page(after)
              BY <7>2, PageHasNewest
            <7> QED
              <8> HIDE DEF newest
              <8> QED BY <3>3, <6>1, <7>1, <7>2, <7>3, PageIsFirst
          <6> QED BY <6>2, <6>3
        <5>3. CASE ~(m > after)
          <6>1. client'[d].from = client[d].from /\ client[d].from # NULL /\ after = client[d].cursor
            BY <3>1, <3>6, <4>2, <5>3
          <6> QED BY <1>0, <3>3, <4>1, <4>2, <5>1, <5>3, <6>1 DEF ClientSound
        <5> QED BY <5>2, <5>3
      <4>3. Has(d)' \subseteq Stored'
        BY <1>0, <3>3, <3>4 DEF ClientSound
      <4> QED BY <3>2, <3>6, <4>1, <4>2, <4>3 DEF ClientSound
    <3> QED BY <3>5, <3>6
  <2>2. CASE e # d
    <3>1. client'[d] = client[d] /\ inbox' = inbox /\ published' = published /\ socket' = socket
      BY <1>0, <1>8, <2>2 DEF Backfill, Types
    <3>2. Has(d)' = Has(d)
      BY <3>1 DEF Has, Elements
    <3> QED BY <1>1, <3>1, <3>2
  <2> QED BY <2>1, <2>2
<1>9. CASE (\E u \in Users : MarkRead(u) \/ ChangePermission(u)) \/ UNCHANGED vars
  BY <1>2, <1>9 DEF MarkRead, ChangePermission, vars
<1> QED BY <1>3, <1>4, <1>5, <1>6, <1>7, <1>8, <1>9 DEF Next

LEMMA DeliveryStep == DeliveryInv /\ [Next]_vars => DeliveryInv'
  BY DeliveryTypes, MessagesKept, SocketsKept, ClientsKept, MarksKept DEF DeliveryInv

LEMMA DeliveryHolds == Spec => []DeliveryInv
  BY DeliveryInit, DeliveryStep, PTL DEF Spec

-----------------------------------------------------------------------------
(* The inductive invariant of Conversations *)

Requests == [at: {"idle", "listing", "creating", "deciding"}, row: C!ConvRows \cup {NULL},
             who: SUBSET C!Seats, interest: Interests \cup {NULL},
             status: C!Statuses \cup {NULL}, overlapped: BOOLEAN]

\* The conversations of an order, and with the provider, in a table of them.
About(table, o) == {c \in Convs : table[c] # NULL /\ table[c].order = o}
WithProvider(table) == {c \in Convs : table[c] # NULL /\ table[c].provider}

\* Who may be put in a conversation.
GoodAudience(provider, who) ==
  /\ who \cap C!OurSeats # {}
  /\ \A s, t \in who : s[2] = t[2] => s = t
  /\ ~provider => who \cap C!TheirSeats = {}
  /\ provider =>
       \/ who \cap C!TheirSeats # {}
       \/ \E u \in Mine \cap Theirs : who = {<<C!OURS, u>>}

\* What a request that is making a conversation has found, and whom it will put in it;
\* what one that decides has found, if no other has decided since.
Found(t, statuses, table, left) ==
  /\ t.at = "idle" => t = C!Idle
  /\ t.at \in {"listing", "creating"} =>
       /\ t.row \in C!ConvRows /\ t.interest = NULL
       /\ t.row.interest # NULL => t.row.provider
       /\ t.row.order # NULL => t.row = C!Row(FALSE, NULL, t.row.order)
       /\ t.row.order \in left /\ ~t.overlapped => About(table, t.row.order) = {}
       /\ t.at = "listing" => \E u \in Mine : t.who = {<<C!OURS, u>>}
       /\ t.at = "creating" => GoodAudience(t.row.provider, t.who)
  /\ t.at = "deciding" =>
       /\ t.row = NULL /\ t.interest \in Interests /\ t.status \in {"matched", "rejected"}
       /\ ~t.overlapped => statuses[t.interest] = "pending"

RequestsSound == \A w \in Workers : Found(tx[w], interests, convs, orders)

\* OnePerSubject, in terms of the table.
OneEach ==
  /\ \A c, d \in WithProvider(convs) : c = d
  /\ \A c \in Convs : convs[c] # NULL /\ convs[c].interest # NULL => convs[c].provider
  /\ \A o \in orders \ doubled : \A c, d \in About(convs, o) : c = d

\* An interest request has a first decision exactly when it is decided.
DecisionsSound ==
  \A i \in Interests :
    /\ interests[i] \in {"pending", NULL} <=> first[i] = NULL
    /\ i \notin contested /\ interests[i] \notin {"pending", NULL} => interests[i] = first[i]

ConversationsTypes ==
  /\ member \in [C!Seats -> {"none", "active", "inactive"}]
  /\ interests \in [Interests -> C!Statuses \cup {NULL}]
  /\ orders \subseteq Orders
  /\ convs \in [Convs -> C!ConvRows \cup {NULL}]
  /\ people \in [Convs -> SUBSET C!Seats]
  /\ \A c \in Convs : convs[c] = NULL <=> people[c] = {}
  /\ tx \in [Workers -> Requests]
  /\ first \in [Interests -> C!Statuses \cup {NULL}]
  /\ contested \subseteq Interests
  /\ doubled \subseteq Orders

ConversationsInv ==
  /\ ConversationsTypes
  /\ RequestsSound
  /\ OneEach
  /\ C!Audience
  /\ DecisionsSound

USE ChatAssumption DEF C!ConversationsAssumption

LEMMA ConversationsTypeSplit == C!TypeOK <=> ConversationsTypes
  BY DEF C!TypeOK, ConversationsTypes, Requests

LEMMA SubjectSets ==
  /\ C!OfProvider = WithProvider(convs)
  /\ \A i : C!OfInterest(i) = {c \in Convs : convs[c] # NULL /\ convs[c].interest = i}
  /\ \A o : C!OfOrder(o) = About(convs, o)
  BY DEF C!OfProvider, C!OfInterest, C!OfOrder, C!With, WithProvider, About

LEMMA NullIsNone == NULL \notin C!ConvRows /\ NULL \notin C!Statuses /\ NULL \notin Orders /\ NULL \notin Interests
  OBVIOUS

LEMMA SeatFacts ==
  /\ \A s \in C!OurSeats : s[2] \in Mine /\ s = <<C!OURS, s[2]>>
  /\ \A s \in C!TheirSeats : s[2] \in Theirs /\ s = <<C!THEIRS, s[2]>>
  /\ \A u \in Mine : <<C!OURS, u>> \in C!OurSeats
  /\ C!OurSeats \cap C!TheirSeats = {}
  /\ C!OurSeats \subseteq C!Seats /\ C!TheirSeats \subseteq C!Seats
  BY DEF C!OurSeats, C!TheirSeats, C!Seats, C!OURS, C!THEIRS

LEMMA AudienceIsGood == C!Audience <=> \A c \in Convs : convs[c] # NULL => GoodAudience(convs[c].provider, people[c])
  BY DEF C!Audience, GoodAudience

LEMMA ConversationsInit == C!Init => ConversationsInv
<1> SUFFICES ASSUME C!Init PROVE ConversationsInv
  OBVIOUS
<1>1. C!Idle \in Requests
  BY DEF C!Idle, Requests
<1>2. ConversationsTypes
  BY <1>1 DEF C!Init, ConversationsTypes
<1>3. RequestsSound
  BY DEF C!Init, RequestsSound, Found, C!Idle
<1>4. OneEach /\ C!Audience
  BY DEF C!Init, OneEach, C!Audience, WithProvider, About
<1>5. DecisionsSound
  BY DEF C!Init, DecisionsSound
<1> QED BY <1>2, <1>3, <1>4, <1>5 DEF ConversationsInv

\* A step of one request that changes no table needs only be looked at itself.
LEMMA RequestMoves ==
  ASSUME ConversationsInv, NEW w \in Workers, NEW t \in Requests, Found(t, interests, convs, orders),
         tx' = [tx EXCEPT ![w] = t],
         UNCHANGED <<member, interests, orders, convs, people, first, contested, doubled>>
  PROVE  ConversationsInv'
<1>1. ConversationsTypes'
  BY DEF ConversationsInv, ConversationsTypes
<1>2. RequestsSound'
  BY DEF ConversationsInv, ConversationsTypes, RequestsSound
<1>3. OneEach' /\ C!Audience' /\ DecisionsSound'
  BY DEF ConversationsInv, OneEach, C!Audience, DecisionsSound
<1> QED BY <1>1, <1>2, <1>3 DEF ConversationsInv

\* A request that has found no conversation.
Asking(at, row, who) == [C!Idle EXCEPT !.at = at, !.row = row, !.who = who]

LEMMA AskingFound ==
  ASSUME ConversationsInv, NEW row \in C!ConvRows, NEW who \in SUBSET C!OurSeats, who # {},
         NEW at \in {"listing", "creating"}, at = "creating" => ~row.provider,
         at = "listing" => \E u \in Mine : who = {<<C!OURS, u>>},
         row.interest # NULL => row.provider,
         row.order # NULL => row = C!Row(FALSE, NULL, row.order),
         row.order # NULL => About(convs, row.order) = {}
  PROVE  Asking(at, row, who) \in Requests /\ Found(Asking(at, row, who), interests, convs, orders)
<1> DEFINE t == Asking(at, row, who)
<1>0. C!Idle \in Requests /\ C!Idle.interest = NULL /\ C!Idle.overlapped = FALSE
  BY DEF C!Idle, Requests
<1>1. t \in Requests
  BY <1>0, SeatFacts DEF Requests, Asking
<1>2. t.at = at /\ t.row = row /\ t.who = who /\ t.interest = NULL /\ t.overlapped = FALSE
  BY <1>0 DEF Requests, Asking
<1>3. at = "creating" => GoodAudience(row.provider, who)
  <2>1. who \cap C!TheirSeats = {} /\ who \cap C!OurSeats # {}
    BY SeatFacts
  <2>2. \A r, s \in who : r[2] = s[2] => r = s
    BY SeatFacts
  <2> QED BY <2>1, <2>2 DEF GoodAudience
<1>4. row.order \in orders => About(convs, row.order) = {}
  <2>1. NULL \notin orders
    BY NullIsNone DEF ConversationsInv, ConversationsTypes
  <2> QED BY <2>1
<1> HIDE DEF t
<1>5. Found(t, interests, convs, orders)
  BY <1>2, <1>3, <1>4 DEF Found
<1> QED BY <1>1, <1>5 DEF t

LEMMA LookUpsKeep ==
  ASSUME ConversationsInv, NEW w \in Workers, NEW u \in Mine,
         \/ C!LookUpProviderConversation(w, u)
         \/ \E i \in Interests : C!LookUpInterestConversation(w, u, i)
         \/ \E o \in Orders : C!LookUpOrderConversation(w, u, o)
         \/ \E others \in SUBSET Mine : C!LookUpRecipients(w, u, others)
  PROVE  ConversationsInv'
<1> DEFINE me == {<<C!OURS, u>>}
<1>0. me \in SUBSET C!OurSeats /\ me # {} /\ \E v \in Mine : me = {<<C!OURS, v>>}
  BY SeatFacts
<1>1. ASSUME NEW at \in {"listing", "creating"}, NEW row \in C!ConvRows, NEW who \in SUBSET C!OurSeats,
             C!Begin(w, [C!Idle EXCEPT !.at = at, !.row = row, !.who = who]),
             Asking(at, row, who) \in Requests, Found(Asking(at, row, who), interests, convs, orders)
      PROVE  ConversationsInv'
  BY <1>1, RequestMoves DEF C!Begin, Asking
<1>2. CASE C!LookUpProviderConversation(w, u)
  <2> DEFINE row == C!Row(TRUE, NULL, NULL)
  <2>1. row \in C!ConvRows /\ row.order = NULL /\ row.provider
    BY DEF C!Row, C!ConvRows
  <2>2. C!Begin(w, [C!Idle EXCEPT !.at = "listing", !.row = row, !.who = me])
    BY <1>2 DEF C!LookUpProviderConversation
  <2> HIDE DEF row, me
  <2>3. Asking("listing", row, me) \in Requests /\ Found(Asking("listing", row, me), interests, convs, orders)
    BY <1>0, <2>1, AskingFound
  <2> QED BY <1>0, <1>1, <2>1, <2>2, <2>3
<1>3. ASSUME NEW i \in Interests, C!LookUpInterestConversation(w, u, i) PROVE ConversationsInv'
  <2> DEFINE row == C!Row(TRUE, i, NULL)
  <2>1. row \in C!ConvRows /\ row.order = NULL /\ row.provider
    BY DEF C!Row, C!ConvRows
  <2>2. C!Begin(w, [C!Idle EXCEPT !.at = "listing", !.row = row, !.who = me])
    BY <1>3 DEF C!LookUpInterestConversation
  <2> HIDE DEF row, me
  <2>3. Asking("listing", row, me) \in Requests /\ Found(Asking("listing", row, me), interests, convs, orders)
    BY <1>0, <2>1, AskingFound
  <2> QED BY <1>0, <1>1, <2>1, <2>2, <2>3
<1>4. ASSUME NEW o \in Orders, C!LookUpOrderConversation(w, u, o) PROVE ConversationsInv'
  <2> DEFINE row == C!Row(FALSE, NULL, o)
  <2>1. row \in C!ConvRows /\ row.order = o /\ row.interest = NULL /\ row = C!Row(FALSE, NULL, row.order)
    BY DEF C!Row, C!ConvRows
  <2>2. About(convs, o) = {}
    BY <1>4, SubjectSets DEF C!LookUpOrderConversation
  <2>3. C!Begin(w, [C!Idle EXCEPT !.at = "listing", !.row = row, !.who = me])
    BY <1>4 DEF C!LookUpOrderConversation
  <2> HIDE DEF row, me
  <2>4. Asking("listing", row, me) \in Requests /\ Found(Asking("listing", row, me), interests, convs, orders)
    BY <1>0, <2>1, <2>2, AskingFound
  <2> QED BY <1>0, <1>1, <2>1, <2>2, <2>3, <2>4
<1>5. ASSUME NEW others \in SUBSET Mine, C!LookUpRecipients(w, u, others) PROVE ConversationsInv'
  <2> DEFINE row == C!Row(FALSE, NULL, NULL)
             who == {C!OURS} \X (others \cup {u})
  <2>1. row \in C!ConvRows /\ row.order = NULL /\ row.interest = NULL /\ ~row.provider
    BY DEF C!Row, C!ConvRows
  <2>2. who \in SUBSET C!OurSeats /\ who # {}
    <3>1. <<C!OURS, u>> \in who
      OBVIOUS
    <3> QED BY <3>1 DEF C!OurSeats
  <2>3. C!Begin(w, [C!Idle EXCEPT !.at = "creating", !.row = row, !.who = who])
    BY <1>5 DEF C!LookUpRecipients
  <2> HIDE DEF row, who
  <2>4. Asking("creating", row, who) \in Requests /\ Found(Asking("creating", row, who), interests, convs, orders)
    BY <2>1, <2>2, AskingFound
  <2> QED BY <1>0, <1>1, <2>1, <2>2, <2>3, <2>4
<1> QED BY <1>2, <1>3, <1>4, <1>5

LEMMA ListingKeeps ==
  ASSUME ConversationsInv, NEW w \in Workers, C!ListRecipients(w)
  PROVE  ConversationsInv'
<1> DEFINE row == tx[w].row
           others == C!Active(IF row.provider THEN C!TheirSeats ELSE C!OurSeats)
           who == C!FirstSeats(tx[w].who, others)
           t == [tx[w] EXCEPT !.at = "creating", !.who = who]
<1>1. tx[w] \in Requests /\ tx[w].at = "listing" /\ Found(tx[w], interests, convs, orders)
  BY DEF ConversationsInv, ConversationsTypes, RequestsSound, C!ListRecipients
<1>2. others \subseteq IF row.provider THEN C!TheirSeats ELSE C!OurSeats
  BY DEF C!Active
<1>3. row.provider => others # {}
  BY DEF C!ListRecipients, C!Active
<1>4. PICK u \in Mine : tx[w].who = {<<C!OURS, u>>}
  BY <1>1 DEF Found
<1>5. tx' = [tx EXCEPT ![w] = t]
  <2>1. tx' = [tx EXCEPT ![w] = [tx[w] EXCEPT !.at = "creating", !.who = who]]
    BY DEF C!ListRecipients
  <2> QED BY <2>1
<1> HIDE DEF others
<1>6. who = {<<C!OURS, u>>} \cup {s \in others : s[2] # u}
  BY <1>4 DEF C!FirstSeats
<1>7. who \in SUBSET C!Seats /\ <<C!OURS, u>> \in who \cap C!OurSeats
  BY <1>2, <1>6, SeatFacts
<1> HIDE DEF who
<1>8. GoodAudience(row.provider, who)
  <2>1. ASSUME NEW r \in who, NEW s \in who, r[2] = s[2] PROVE r = s
    <3>1. ASSUME NEW v \in who PROVE v = <<C!OURS, u>> \/ (v \in others /\ v[2] # u)
      BY <1>6
    <3>2. r = <<C!OURS, u>> <=> s = <<C!OURS, u>>
      BY <2>1, <3>1
    <3>3. r \in others /\ s \in others => r = s
      BY <1>2, <2>1, SeatFacts
    <3> QED BY <3>1, <3>2, <3>3
  <2>2. ~row.provider => who \cap C!TheirSeats = {}
    BY <1>2, <1>6, SeatFacts
  <2>3. ASSUME row.provider, who \cap C!TheirSeats = {} PROVE \E v \in Mine \cap Theirs : who = {<<C!OURS, v>>}
    <3>1. others \subseteq C!TheirSeats /\ others # {}
      BY <1>2, <1>3, <2>3
    <3>2. \A s \in others : s[2] = u
      BY <1>6, <2>3, <3>1
    <3>3. who = {<<C!OURS, u>>} /\ u \in Theirs
      BY <1>6, <3>1, <3>2, SeatFacts
    <3> QED BY <3>3
  <2> QED BY <1>7, <2>1, <2>2, <2>3 DEF GoodAudience
<1>9. t \in Requests
  BY <1>1, <1>7 DEF Requests
<1>10. /\ t.at = "creating" /\ t.who = who /\ t.row = row
       /\ t.interest = tx[w].interest /\ t.overlapped = tx[w].overlapped
  BY <1>1 DEF Requests
<1>11. Found(t, interests, convs, orders)
  <2> HIDE DEF t
  <2> QED BY <1>1, <1>8, <1>10 DEF Found
<1> HIDE DEF t
<1> QED BY <1>5, <1>9, <1>11, RequestMoves DEF C!ListRecipients

LEMMA AbortKeeps ==
  ASSUME ConversationsInv, NEW w \in Workers, C!Abort(w)
  PROVE  ConversationsInv'
<1>1. C!Idle \in Requests
  BY DEF C!Idle, Requests
<1>2. Found(C!Idle, interests, convs, orders)
  BY DEF Found, C!Idle
<1> QED BY <1>1, <1>2, RequestMoves DEF C!Abort

LEMMA LoadInterestKeeps ==
  ASSUME ConversationsInv, NEW w \in Workers, NEW i \in Interests, NEW new \in C!Statuses, C!LoadInterest(w, i, new)
  PROVE  ConversationsInv'
<1> DEFINE t == [C!Idle EXCEPT !.at = "deciding", !.interest = i, !.status = new]
<1>0. /\ C!Idle \in Requests /\ C!Idle.row = NULL /\ C!Idle.overlapped = FALSE
  BY DEF C!Idle, Requests
<1>1. t \in Requests
  BY <1>0 DEF Requests
<1>2. t.at = "deciding" /\ t.row = NULL /\ t.interest = i /\ t.status = new
  BY <1>0 DEF Requests
<1>3. interests[i] = "pending" /\ new \in {"matched", "rejected"}
  BY DEF C!LoadInterest, C!Allowed
<1>4. tx' = [tx EXCEPT ![w] = t]
  BY DEF C!LoadInterest, C!Begin
<1> HIDE DEF t
<1>5. Found(t, interests, convs, orders)
  BY <1>2, <1>3 DEF Found
<1> QED BY <1>1, <1>4, <1>5, RequestMoves DEF C!LoadInterest, C!Begin

\* What another request's commit makes of a transaction.
LEMMA Overlapped ==
  ASSUME NEW t \in Requests
  PROVE  LET o == [t EXCEPT !.overlapped = TRUE]
         IN /\ o \in Requests /\ o.overlapped = TRUE
            /\ o.at = t.at /\ o.row = t.row /\ o.who = t.who /\ o.interest = t.interest /\ o.status = t.status
  BY DEF Requests

LEMMA MakingKeeps ==
  ASSUME ConversationsInv, NEW w \in Workers, C!CommitConversation(w)
  PROVE  ConversationsInv'
<1> DEFINE row == tx[w].row
<1>0. /\ ConversationsTypes /\ tx[w] \in Requests /\ tx[w].at = "creating"
      /\ Found(tx[w], interests, convs, orders) /\ C!CanInsert(row)
  BY DEF ConversationsInv, ConversationsTypes, RequestsSound, C!CommitConversation
<1>1. /\ row \in C!ConvRows /\ row # NULL /\ tx[w].who \in SUBSET C!Seats
      /\ tx[w].who # {} /\ GoodAudience(row.provider, tx[w].who)
  BY <1>0, NullIsNone DEF Found, Requests, GoodAudience
<1>2. PICK c \in Convs : /\ convs[c] = NULL
                         /\ convs' = [convs EXCEPT ![c] = row]
                         /\ people' = [people EXCEPT ![c] = tx[w].who]
  BY DEF C!CommitConversation
<1>3. /\ convs'[c] = row /\ people'[c] = tx[w].who
      /\ \A d \in Convs \ {c} : convs'[d] = convs[d] /\ people'[d] = people[d]
  BY <1>0, <1>2 DEF ConversationsTypes
<1>4. /\ row.order = NULL \/ row.order \in orders
      /\ row.provider => WithProvider(convs) = {}
  BY <1>0, SubjectSets DEF C!CanInsert
<1>5. /\ orders' = orders /\ interests' = interests /\ member' = member
      /\ first' = first /\ contested' = contested
      /\ doubled' = IF row.order # NULL /\ tx[w].overlapped THEN doubled \cup {row.order} ELSE doubled
      /\ tx' = [v \in Workers |-> IF v = w THEN C!Idle
                                  ELSE IF row.order # NULL /\ tx[v].row = row
                                       THEN [tx[v] EXCEPT !.overlapped = TRUE]
                                       ELSE tx[v]]
  BY DEF C!CommitConversation
<1>6. \A v \in Workers : tx'[v] \in Requests
  <2>1. C!Idle \in Requests
    BY DEF C!Idle, Requests
  <2> QED BY <1>0, <1>5, <2>1, Overlapped DEF ConversationsTypes
<1>7. ConversationsTypes'
  <2>1. convs' \in [Convs -> C!ConvRows \cup {NULL}] /\ people' \in [Convs -> SUBSET C!Seats]
    BY <1>0, <1>1, <1>2 DEF ConversationsTypes
  <2>2. ASSUME NEW d \in Convs PROVE convs'[d] = NULL <=> people'[d] = {}
    <3>1. CASE d = c
      <4>1. convs'[d] = row /\ people'[d] = tx[w].who
        BY <1>3, <3>1
      <4> HIDE DEF row
      <4>2. row # NULL /\ tx[w].who # {}
        BY <1>1
      <4> QED BY <4>1, <4>2
    <3>2. CASE d # c
      BY <1>0, <1>3, <3>2 DEF ConversationsTypes
    <3> QED BY <3>1, <3>2
  <2>3. tx' \in [Workers -> Requests]
    BY <1>5, <1>6
  <2>4. doubled' \subseteq Orders
    BY <1>0, <1>4, <1>5 DEF ConversationsTypes
  <2> QED BY <1>0, <1>5, <2>1, <2>2, <2>3, <2>4 DEF ConversationsTypes
<1>8. RequestsSound'
  <2> SUFFICES ASSUME NEW v \in Workers PROVE Found(tx'[v], interests, convs', orders)
    BY <1>5 DEF RequestsSound
  <2>1. CASE v = w
    <3>1. tx'[v] = C!Idle
      BY <1>5, <2>1
    <3> QED BY <3>1 DEF Found, C!Idle
  <2>2. CASE v # w
    <3>1. tx[v] \in Requests /\ Found(tx[v], interests, convs, orders)
      BY DEF ConversationsInv, ConversationsTypes, RequestsSound
    <3>2. CASE row.order # NULL /\ tx[v].row = row
      <4>1. tx'[v] = [tx[v] EXCEPT !.overlapped = TRUE]
        BY <1>5, <2>2, <3>2
      <4>2. /\ tx'[v].overlapped = TRUE /\ tx'[v].at = tx[v].at /\ tx'[v].row = tx[v].row
            /\ tx'[v].who = tx[v].who /\ tx'[v].interest = tx[v].interest /\ tx'[v].status = tx[v].status
        BY <3>1, <4>1, Overlapped
      <4>3. tx[v].at \in {"listing", "creating"}
        BY <1>1, <3>1, <3>2 DEF Found, Requests, C!Idle
      <4> QED BY <3>1, <4>2, <4>3 DEF Found
    <3>3. CASE row.order = NULL \/ tx[v].row # row
      <4>1. tx'[v] = tx[v]
        BY <1>5, <2>2, <3>3
      <4>2. ASSUME tx[v].at \in {"listing", "creating"}, tx[v].row.order \in orders, ~tx[v].overlapped
            PROVE  About(convs', tx[v].row.order) = {}
        <5>1. About(convs, tx[v].row.order) = {} /\ tx[v].row.order # NULL
          BY <3>1, <4>2, NullIsNone DEF Found, ConversationsInv, ConversationsTypes
        <5>2. tx[v].row = C!Row(FALSE, NULL, tx[v].row.order)
          BY <3>1, <4>2, <5>1 DEF Found
        <5>3. row.order # tx[v].row.order
          <6>1. row.order # NULL => row = C!Row(FALSE, NULL, row.order)
            BY <1>0 DEF Found
          <6> QED BY <3>3, <5>1, <5>2, <6>1
        <5> QED BY <1>3, <5>1, <5>3 DEF About
      <4> QED BY <3>1, <4>1, <4>2 DEF Found
    <3> QED BY <3>2, <3>3
  <2> QED BY <2>1, <2>2
<1>9. OneEach'
  <2>1. ASSUME NEW d \in WithProvider(convs'), NEW e \in WithProvider(convs') PROVE d = e
    <3>1. CASE row.provider
      BY <1>3, <1>4, <2>1, <3>1 DEF WithProvider
    <3>2. CASE ~row.provider
      <4>1. d \in WithProvider(convs) /\ e \in WithProvider(convs)
        BY <1>3, <2>1, <3>2 DEF WithProvider
      <4> QED BY <4>1 DEF ConversationsInv, OneEach
    <3> QED BY <3>1, <3>2
  <2>2. ASSUME NEW d \in Convs, convs'[d] # NULL, convs'[d].interest # NULL PROVE convs'[d].provider
    <3>1. CASE d = c
      BY <1>0, <1>3, <2>2, <3>1 DEF Found
    <3>2. CASE d # c
      BY <1>3, <2>2, <3>2 DEF ConversationsInv, OneEach
    <3> QED BY <3>1, <3>2
  <2>3. ASSUME NEW o \in orders \ doubled', NEW d \in About(convs', o), NEW e \in About(convs', o) PROVE d = e
    <3>0. o \notin doubled /\ o # NULL
      BY <1>0, <1>5, <2>3, NullIsNone DEF ConversationsTypes
    <3>1. CASE row.order = o
      <4>1. ~tx[w].overlapped
        BY <1>5, <2>3, <3>0, <3>1
      <4>2. About(convs, o) = {}
        BY <1>0, <2>3, <3>1, <4>1 DEF Found
      <4> QED BY <1>3, <2>3, <4>2 DEF About
    <3>2. CASE row.order # o
      <4>1. d \in About(convs, o) /\ e \in About(convs, o)
        BY <1>3, <2>3, <3>2 DEF About
      <4> QED BY <2>3, <3>0, <4>1 DEF ConversationsInv, OneEach
    <3> QED BY <3>1, <3>2
  <2> QED BY <1>5, <2>1, <2>2, <2>3 DEF OneEach
<1>10. C!Audience'
  <2>1. ASSUME NEW d \in Convs, convs'[d] # NULL
        PROVE  GoodAudience(convs'[d].provider, people'[d])
    <3>1. CASE d = c
      <4>1. convs'[d] = row /\ people'[d] = tx[w].who
        BY <1>3, <3>1
      <4>2. GoodAudience(row.provider, tx[w].who)
        BY <1>1
      <4>3. convs'[d].provider = row.provider
        BY <4>1
      <4> HIDE DEF row
      <4> QED BY <4>1, <4>2, <4>3
    <3>2. CASE d # c
      BY <1>3, <2>1, <3>2, AudienceIsGood DEF ConversationsInv
    <3> QED BY <3>1, <3>2
  <2> QED BY <2>1 DEF C!Audience, GoodAudience
<1>11. DecisionsSound'
  BY <1>5 DEF ConversationsInv, DecisionsSound
<1> QED BY <1>7, <1>8, <1>9, <1>10, <1>11 DEF ConversationsInv

LEMMA DeleteOrderKeeps ==
  ASSUME ConversationsInv, NEW o \in Orders, C!DeleteOrder(o)
  PROVE  ConversationsInv'
<1>0. ConversationsTypes /\ o \in orders /\ o # NULL
  BY NullIsNone DEF ConversationsInv, C!DeleteOrder
<1>1. convs' = [c \in Convs |-> IF c \in About(convs, o) THEN [convs[c] EXCEPT !.order = NULL] ELSE convs[c]]
  BY SubjectSets DEF C!DeleteOrder
<1>2. /\ orders' = orders \ {o} /\ tx' = tx /\ interests' = interests /\ member' = member /\ people' = people
      /\ first' = first /\ contested' = contested /\ doubled' = doubled
  BY DEF C!DeleteOrder
<1>3. ASSUME NEW c \in Convs
      PROVE  /\ convs'[c] \in C!ConvRows \cup {NULL}
             /\ convs'[c] = NULL <=> convs[c] = NULL
             /\ convs[c] # NULL => /\ convs'[c].provider = convs[c].provider
                                   /\ convs'[c].interest = convs[c].interest
                                   /\ convs'[c].order = IF convs[c].order = o THEN NULL ELSE convs[c].order
  <2>1. CASE c \in About(convs, o)
    <3>1. convs[c] \in C!ConvRows /\ convs[c].order = o /\ convs'[c] = [convs[c] EXCEPT !.order = NULL]
      BY <1>0, <1>1, <2>1 DEF About, ConversationsTypes
    <3>2. [convs[c] EXCEPT !.order = NULL] \in C!ConvRows
      BY <3>1 DEF C!ConvRows
    <3> QED BY <2>1, <3>1, <3>2, NullIsNone DEF C!ConvRows, About
  <2>2. CASE c \notin About(convs, o)
    BY <1>0, <1>1, <2>2 DEF About, ConversationsTypes
  <2> QED BY <2>1, <2>2
<1>4. \A p \in orders' : About(convs', p) \subseteq About(convs, p)
  BY <1>0, <1>2, <1>3, NullIsNone DEF About, ConversationsTypes
<1>5. ConversationsTypes'
  <2>1. convs' \in [Convs -> C!ConvRows \cup {NULL}]
    BY <1>1, <1>3
  <2>2. \A c \in Convs : convs'[c] = NULL <=> people'[c] = {}
    BY <1>0, <1>2, <1>3 DEF ConversationsTypes
  <2> QED BY <1>0, <1>2, <2>1, <2>2 DEF ConversationsTypes
<1>6. RequestsSound'
  <2>1. ASSUME NEW w \in Workers PROVE Found(tx[w], interests, convs', orders')
    <3>1. Found(tx[w], interests, convs, orders)
      BY DEF ConversationsInv, RequestsSound
    <3>2. tx[w].row.order \in orders' /\ About(convs, tx[w].row.order) = {} => About(convs', tx[w].row.order) = {}
      BY <1>4
    <3> QED BY <1>2, <3>1, <3>2 DEF Found
  <2> QED BY <1>2, <2>1 DEF RequestsSound
<1>7. OneEach'
  <2>1. WithProvider(convs') = WithProvider(convs)
    BY <1>3 DEF WithProvider
  <2>2. \A c \in Convs : convs'[c] # NULL /\ convs'[c].interest # NULL => convs'[c].provider
    BY <1>3 DEF ConversationsInv, OneEach
  <2>3. \A p \in orders' \ doubled' : \A c, d \in About(convs', p) : c = d
    BY <1>2, <1>4 DEF ConversationsInv, OneEach
  <2> QED BY <2>1, <2>2, <2>3 DEF ConversationsInv, OneEach
<1>8. C!Audience'
  BY <1>2, <1>3 DEF ConversationsInv, C!Audience
<1>9. DecisionsSound'
  BY <1>2 DEF ConversationsInv, DecisionsSound
<1> QED BY <1>5, <1>6, <1>7, <1>8, <1>9 DEF ConversationsInv

LEMMA CreateInterestKeeps ==
  ASSUME ConversationsInv, NEW i \in Interests, C!CreateInterest(i)
  PROVE  ConversationsInv'
<1>0. /\ ConversationsTypes /\ interests[i] = NULL /\ interests' = [interests EXCEPT ![i] = "pending"]
      /\ UNCHANGED <<member, orders, convs, people, tx, first, contested, doubled>>
  BY DEF ConversationsInv, C!CreateInterest
<1>1. interests'[i] = "pending" /\ \A j \in Interests \ {i} : interests'[j] = interests[j]
  BY <1>0 DEF ConversationsTypes
<1>2. ConversationsTypes'
  <2>1. interests' \in [Interests -> C!Statuses \cup {NULL}]
    BY <1>0 DEF ConversationsTypes, C!Statuses
  <2> QED BY <1>0, <2>1 DEF ConversationsTypes
<1>3. RequestsSound'
  <2>1. ASSUME NEW w \in Workers PROVE Found(tx[w], interests', convs, orders)
    BY <1>1 DEF ConversationsInv, RequestsSound, Found
  <2> QED BY <1>0, <2>1 DEF RequestsSound
<1>4. OneEach' /\ C!Audience'
  BY <1>0 DEF ConversationsInv, OneEach, C!Audience
<1>5. DecisionsSound'
  BY <1>0, <1>1 DEF ConversationsInv, DecisionsSound
<1> QED BY <1>2, <1>3, <1>4, <1>5 DEF ConversationsInv

LEMMA DecidingKeeps ==
  ASSUME ConversationsInv, NEW w \in Workers, C!CommitInterest(w)
  PROVE  ConversationsInv'
<1> DEFINE i == tx[w].interest
           status == tx[w].status
<1>0. /\ ConversationsTypes /\ tx[w] \in Requests
      /\ i \in Interests /\ i # NULL /\ status \in {"matched", "rejected"}
      /\ ~tx[w].overlapped => interests[i] = "pending"
  <2>1. ConversationsTypes /\ tx[w] \in Requests /\ tx[w].at = "deciding" /\ Found(tx[w], interests, convs, orders)
    BY DEF ConversationsInv, ConversationsTypes, RequestsSound, C!CommitInterest
  <2>2. i \in Interests /\ status \in {"matched", "rejected"} /\ (~tx[w].overlapped => interests[i] = "pending")
    BY <2>1 DEF Found
  <2>3. i # NULL
    BY <2>2, NullIsNone
  <2> QED BY <2>1, <2>2, <2>3
<1>1. /\ interests' = [interests EXCEPT ![i] = status]
      /\ first' = [first EXCEPT ![i] = IF first[i] = NULL THEN status ELSE first[i]]
      /\ contested' = IF tx[w].overlapped THEN contested \cup {i} ELSE contested
      /\ tx' = [v \in Workers |-> IF v = w THEN C!Idle
                                  ELSE IF tx[v].interest = i THEN [tx[v] EXCEPT !.overlapped = TRUE]
                                  ELSE tx[v]]
      /\ UNCHANGED <<member, orders, convs, people, doubled>>
  BY DEF C!CommitInterest
<1>2. /\ interests'[i] = status /\ first'[i] = IF first[i] = NULL THEN status ELSE first[i]
      /\ \A j \in Interests \ {i} : interests'[j] = interests[j] /\ first'[j] = first[j]
  BY <1>0, <1>1 DEF ConversationsTypes
<1>3. ConversationsTypes'
  <2>1. C!Idle \in Requests /\ status \in C!Statuses
    BY <1>0 DEF C!Idle, Requests, C!Statuses
  <2>2. tx' \in [Workers -> Requests]
    BY <1>0, <1>1, <2>1, Overlapped DEF ConversationsTypes
  <2>3. interests' \in [Interests -> C!Statuses \cup {NULL}] /\ first' \in [Interests -> C!Statuses \cup {NULL}]
    BY <1>0, <1>1, <2>1 DEF ConversationsTypes
  <2>4. contested' \subseteq Interests
    BY <1>0, <1>1 DEF ConversationsTypes
  <2> QED BY <1>0, <1>1, <2>2, <2>3, <2>4 DEF ConversationsTypes
<1>4. RequestsSound'
  <2> SUFFICES ASSUME NEW v \in Workers PROVE Found(tx'[v], interests', convs, orders)
    BY <1>1 DEF RequestsSound
  <2>1. CASE v = w
    <3>1. tx'[v] = C!Idle
      BY <1>1, <2>1
    <3> QED BY <3>1 DEF Found, C!Idle
  <2>2. CASE v # w
    <3>1. tx[v] \in Requests /\ Found(tx[v], interests, convs, orders)
      BY DEF ConversationsInv, ConversationsTypes, RequestsSound
    <3>2. CASE tx[v].interest = i
      <4>1. tx'[v] = [tx[v] EXCEPT !.overlapped = TRUE]
        BY <1>1, <2>2, <3>2
      <4>2. /\ tx'[v].overlapped = TRUE /\ tx'[v].at = tx[v].at /\ tx'[v].row = tx[v].row
            /\ tx'[v].interest = tx[v].interest /\ tx'[v].status = tx[v].status
        BY <3>1, <4>1, Overlapped
      <4>3. tx[v].at = "deciding"
        <5>1. tx[v].interest # NULL /\ C!Idle.interest = NULL
          BY <1>0, <3>2 DEF C!Idle
        <5>2. tx[v].at \in {"idle", "listing", "creating", "deciding"}
          BY <3>1 DEF Requests
        <5> QED BY <3>1, <5>1, <5>2 DEF Found
      <4> QED BY <3>1, <4>2, <4>3 DEF Found
    <3>3. CASE tx[v].interest # i
      <4>1. tx'[v] = tx[v]
        BY <1>1, <2>2, <3>3
      <4> QED BY <1>2, <3>1, <3>3, <4>1 DEF Found
    <3> QED BY <3>2, <3>3
  <2> QED BY <2>1, <2>2
<1>5. OneEach' /\ C!Audience'
  BY <1>1 DEF ConversationsInv, OneEach, C!Audience
<1>6. DecisionsSound'
  <2>1. ASSUME NEW j \in Interests
        PROVE  /\ interests'[j] \in {"pending", NULL} <=> first'[j] = NULL
               /\ j \notin contested' /\ interests'[j] \notin {"pending", NULL} => interests'[j] = first'[j]
    <3>1. /\ interests[j] \in {"pending", NULL} <=> first[j] = NULL
          /\ j \notin contested /\ interests[j] \notin {"pending", NULL} => interests[j] = first[j]
      BY DEF ConversationsInv, DecisionsSound
    <3>2. CASE j = i
      <4>1. status \notin {"pending", NULL} /\ first'[i] # NULL
        BY <1>0, <1>2, NullIsNone DEF C!Statuses
      <4>2. ASSUME i \notin contested' PROVE first'[i] = status
        <5>1. ~tx[w].overlapped
          BY <1>1, <4>2
        <5> QED BY <1>0, <1>2, <3>1, <3>2, <5>1
      <4> QED BY <1>2, <3>2, <4>1, <4>2
    <3>3. CASE j # i
      BY <1>1, <1>2, <3>1, <3>3
    <3> QED BY <3>2, <3>3
  <2> QED BY <2>1 DEF DecisionsSound
<1> QED BY <1>3, <1>4, <1>5, <1>6 DEF ConversationsInv

LEMMA MembershipKeeps ==
  ASSUME ConversationsInv, NEW s \in C!Seats, NEW status \in {"none", "active", "inactive"},
         C!ChangeMembership(s, status)
  PROVE  ConversationsInv'
<1>1. ConversationsTypes'
  BY DEF ConversationsInv, ConversationsTypes, C!ChangeMembership
<1>2. RequestsSound' /\ OneEach' /\ C!Audience' /\ DecisionsSound'
  BY DEF ConversationsInv, RequestsSound, OneEach, C!Audience, DecisionsSound, C!ChangeMembership
<1> QED BY <1>1, <1>2 DEF ConversationsInv

LEMMA ConversationsStep == ConversationsInv /\ [C!Next]_(C!vars) => ConversationsInv'
<1> SUFFICES ASSUME ConversationsInv, [C!Next]_(C!vars) PROVE ConversationsInv'
  OBVIOUS
<1>1. ASSUME UNCHANGED C!vars PROVE ConversationsInv'
  BY <1>1 DEF C!vars, ConversationsInv, ConversationsTypes, RequestsSound, OneEach, C!Audience, DecisionsSound
<1> QED BY <1>1, LookUpsKeep, ListingKeeps, AbortKeeps, LoadInterestKeeps, MakingKeeps, DeleteOrderKeeps,
           CreateInterestKeeps, DecidingKeeps, MembershipKeeps DEF C!Next

-----------------------------------------------------------------------------
\* A step of Chat is a step of one of its parts and stutters in the other.
LEMMA PartsMove == ChatSpec => Spec /\ C!Spec
<1>1. ChatInit => Init /\ C!Init
  BY DEF ChatInit
<1>2. [ChatNext]_<<vars, convVars>> => [Next]_vars /\ [C!Next]_(C!vars)
  BY DEF ChatNext, convVars, C!vars
<1> QED BY <1>1, <1>2, PTL DEF ChatSpec, Spec, C!Spec

LEMMA PartsHold == ChatSpec => [](DeliveryInv /\ ConversationsInv)
<1>1. C!Spec => []ConversationsInv
  BY ConversationsInit, ConversationsStep, PTL DEF C!Spec
<1> QED BY <1>1, PartsMove, DeliveryHolds, PTL

\* Rows, sockets, queues, screens and transactions keep their types, whatever is lost,
\* closed or decided in between; a conversation is never without members.
THEOREM TypeCorrect == ChatSpec => []ChatTypesOK
<1>1. DeliveryInv /\ ConversationsInv => ChatTypesOK
  BY ConversationsTypeSplit DEF DeliveryInv, ConversationsInv, ChatTypesOK
<1> QED BY <1>1, PartsHold, PTL

\* However requests overlap, there is one conversation with the provider and one of an
\* order unless it is in doubled; both sides are in it, unless the provider's only active
\* member was the requester; and an uncontested interest request has the status that
\* was decided first.
THEOREM ConversationsKept == ChatSpec => []ConversationsConsistent
<1>1. ConversationsInv => ConversationsConsistent
  <2> SUFFICES ASSUME ConversationsInv PROVE ConversationsConsistent
    OBVIOUS
  <2>1. C!OnePerSubject
    <3>1. C!AtMostOne(C!OfProvider)
      BY SubjectSets DEF ConversationsInv, OneEach, C!AtMostOne
    <3>2. \A i \in Interests : C!OfInterest(i) \subseteq C!OfProvider
      BY SubjectSets, NullIsNone DEF ConversationsInv, OneEach, WithProvider
    <3>3. \A o \in orders : C!AtMostOne(C!OfOrder(o)) \/ o \in doubled
      BY SubjectSets DEF ConversationsInv, OneEach, C!AtMostOne
    <3> QED BY <3>1, <3>2, <3>3 DEF C!OnePerSubject
  <2>2. C!Audience
    BY DEF ConversationsInv
  <2>3. C!DecidedOnce
    BY DEF ConversationsInv, DecisionsSound, C!DecidedOnce
  <2> QED BY <2>1, <2>2, <2>3 DEF ConversationsConsistent
<1> QED BY <1>1, PartsHold, PTL

\* A client that joins and asks until an answer is not full has, or is being sent,
\* whatever is published after the message it began to ask after, in whatever order
\* the messages are stored, published, delivered and asked for.
THEOREM NoMessageMissed == ChatSpec => []NothingIsMissed
<1>1. DeliveryInv => NothingIsMissed
  BY DEF DeliveryInv, ClientSound, Has, Elements, NothingIsMissed
<1> QED BY <1>1, PartsHold, PTL

\* The unread count is of others' messages stored since the mark, and leaves out only
\* those that were being stored when the mark was made.
THEOREM UnreadIsOfNews == ChatSpec => []UnreadIsNews
<1>1. DeliveryInv => UnreadIsNews
  <2> SUFFICES ASSUME DeliveryInv, NEW u \in Users
               PROVE  /\ Unread(u) \subseteq {m \in Stored \ marked[u].stored : author[m] # u}
                      /\ {m \in Stored \ marked[u].stored : author[m] # u} \ marked[u].pending \subseteq Unread(u)
    BY DEF UnreadIsNews
  <2>1. /\ MarkSound(u) /\ lastRead[u] \in Nat /\ Stored \subseteq Messages
    BY DEF DeliveryInv, TypeOK, Stored
  <2>2. ASSUME NEW m \in Unread(u) PROVE m \in Stored \ marked[u].stored /\ author[m] # u
    BY <2>1, <2>2 DEF Unread, MarkSound, Messages
  <2>3. ASSUME NEW m \in Stored \ (marked[u].stored \cup marked[u].pending), author[m] # u PROVE m \in Unread(u)
    <3>1. m \notin 1..lastRead[u]
      BY <2>1, <2>3 DEF MarkSound
    <3>2. m \in Nat \ {0}
      BY <2>1, <2>3 DEF Messages
    <3>3. m > lastRead[u]
      BY <2>1, <3>1, <3>2
    <3> QED BY <2>3, <3>3 DEF Unread
  <2> QED BY <2>2, <2>3
<1> QED BY <1>1, PartsHold, PTL
=============================================================================
