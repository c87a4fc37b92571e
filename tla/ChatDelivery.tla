------------------------------ MODULE ChatDelivery ------------------------------
(***************************************************************************)
(* One conversation on its way to the screens of its members:              *)
(* chat-service/app/entities/chat/router.py, the unread count and the read *)
(* mark of core-api/app/entities/chat/{repo,router}.py.                    *)
(*                                                                         *)
(* A websocket handler serves one incoming message after the other, each   *)
(* stored, published on the conversation's Redis channel and acknowledged; *)
(* a reader task beside it passes on what the channel brings.  Redis keeps *)
(* nothing for who is not listening, so a client that connects also asks   *)
(* for the messages it has missed.                                         *)
(*                                                                         *)
(* created_at is the beginning of the transaction that stores a message,   *)
(* and identifies the message here; no two of them are equal, and the      *)
(* clocks of the two services agree.  A device has one socket at a time.   *)
(***************************************************************************)
EXTENDS Integers, FiniteSets, Sequences

CONSTANTS
  Users,        \* the conversation's members
  Devices,      \* clients, each with one socket and one screen
  UserOf,       \* device -> whose it is
  MaxMessages,  \* bound: transactions that store a message
  PageLimit,    \* rows of an answer to a request for missed messages
  NULL          \* an absent value

ASSUME UserOfAssumption == UserOf \in [Devices -> Users]
ASSUME BoundsAssumption == MaxMessages \in Nat /\ PageLimit \in Nat \ {0}
ASSUME NullAssumption == NULL \notin Int \cup Users

VARIABLES
  mayChat,    \* user -> is an active member of its organization with the slug "chat"
  begun,      \* transactions begun that store a message: the clock
  author,     \* message -> who sent it, NULL while it is not stored
  socket,     \* device -> its websocket handler
  inbox,      \* device -> what Redis has sent its subscription and the reader has not passed on
  client,     \* device -> what the client behind it holds
  lastRead,   \* user -> last_read_at
  published,  \* history: messages published
  marked      \* history: user -> the messages stored, and being stored, at its last mark

vars == <<mayChat, begun, author, socket, inbox, client, lastRead, published, marked>>

Messages == 1..MaxMessages

Closed == [at |-> "closed", reader |-> FALSE, message |-> NULL]

\* shown: the messages on the screen; cursor: the last one that an answer brought;
\* from: where the client began to ask, since its reader runs; done: it had all.
Blank == [shown |-> {}, cursor |-> 0, from |-> NULL, done |-> FALSE]

TypeOK ==
  /\ mayChat \in [Users -> BOOLEAN]
  /\ begun \in 0..MaxMessages
  /\ author \in [Messages -> Users \cup {NULL}]
  /\ socket \in [Devices -> [at: {"closed", "ready", "storing", "stored", "published"}, reader: BOOLEAN,
                             message: Messages \cup {NULL}]]
  /\ \A d \in Devices : socket[d].message # NULL => socket[d].at \in {"storing", "stored", "published"}
  /\ inbox \in [Devices -> Seq(Messages)]
  /\ client \in [Devices -> [shown: SUBSET Messages, cursor: {0} \cup Messages,
                             from: {0, NULL} \cup Messages, done: BOOLEAN]]
  /\ lastRead \in [Users -> 0..MaxMessages]
  /\ published \subseteq Messages
  /\ marked \in [Users -> [stored: SUBSET Messages, pending: SUBSET Messages]]

Init ==
  /\ mayChat = [u \in Users |-> TRUE]
  /\ begun = 0
  /\ author = [m \in Messages |-> NULL]
  /\ socket = [d \in Devices |-> Closed]
  /\ inbox = [d \in Devices |-> <<>>]
  /\ client = [d \in Devices |-> Blank]
  /\ lastRead = [u \in Users |-> 0]
  /\ published = {}
  /\ marked = [u \in Users |-> [stored |-> {}, pending |-> {}]]

-----------------------------------------------------------------------------
Stored == {m \in Messages : author[m] # NULL}

\* What a client knows of its completeness ends with its reader.
Unsure(c) == [c EXCEPT !.from = NULL, !.done = FALSE]

\* The permission is looked at here and never again: members of a conversation stay
\* members, so what happens on an open socket is allowed.
Connect(d) ==
  /\ socket[d].at = "closed"
  /\ mayChat[UserOf[d]]                    \* close code 4403
  /\ socket' = [socket EXCEPT ![d] = [Closed EXCEPT !.at = "ready"]]
  /\ UNCHANGED <<mayChat, begun, author, inbox, client, lastRead, published, marked>>

\* Subscribes, once, and starts the reader if none runs.
Join(d) ==
  /\ socket[d].at = "ready"
  /\ socket' = [socket EXCEPT ![d].reader = TRUE]
  /\ UNCHANGED <<mayChat, begun, author, inbox, client, lastRead, published, marked>>

(* A "message" from the client *)

\* The transaction begins with _is_member.
BeginMessage(d) ==
  /\ socket[d].at = "ready"
  /\ begun < MaxMessages
  /\ begun' = begun + 1
  /\ socket' = [socket EXCEPT ![d] = [@ EXCEPT !.at = "storing", !.message = begun']]
  /\ UNCHANGED <<mayChat, author, inbox, client, lastRead, published, marked>>

StoreMessage(d) ==
  /\ socket[d].at = "storing"
  /\ author' = [author EXCEPT ![socket[d].message] = UserOf[d]]
  /\ socket' = [socket EXCEPT ![d].at = "stored"]
  /\ UNCHANGED <<mayChat, begun, inbox, client, lastRead, published, marked>>

\* Wrong variant: the sender has the message already.
PublishToOthers(d) ==
  /\ socket[d].at = "stored"
  /\ inbox' = [e \in Devices |-> IF socket[e].reader /\ e # d THEN Append(inbox[e], socket[d].message)
                                 ELSE inbox[e]]
  /\ published' = published \cup {socket[d].message}
  /\ socket' = [socket EXCEPT ![d].at = "published"]
  /\ UNCHANGED <<mayChat, begun, author, client, lastRead, marked>>

\* Redis sends the message to every subscription, the sender's included.
Publish(d) ==
  /\ socket[d].at = "stored"
  /\ inbox' = [e \in Devices |-> IF socket[e].reader THEN Append(inbox[e], socket[d].message)
                                 ELSE inbox[e]]
  /\ published' = published \cup {socket[d].message}
  /\ socket' = [socket EXCEPT ![d].at = "published"]
  /\ UNCHANGED <<mayChat, begun, author, client, lastRead, marked>>

Ack(d) ==
  /\ socket[d].at = "published"
  /\ socket' = [socket EXCEPT ![d] = [@ EXCEPT !.at = "ready", !.message = NULL]]
  /\ UNCHANGED <<mayChat, begun, author, inbox, client, lastRead, published, marked>>

(* reader_task *)

Deliver(d) ==
  /\ inbox[d] # <<>>
  /\ client' = [client EXCEPT ![d].shown = @ \cup {Head(inbox[d])}]
  /\ inbox' = [inbox EXCEPT ![d] = Tail(@)]
  /\ UNCHANGED <<mayChat, begun, author, socket, lastRead, published, marked>>

\* An exception, the loss of Redis for one, ends the reader and nobody is told; the
\* socket stays open.
LoseReader(d) ==
  /\ socket[d].reader
  /\ socket' = [socket EXCEPT ![d].reader = FALSE]
  /\ inbox' = [inbox EXCEPT ![d] = <<>>]
  /\ client' = [client EXCEPT ![d] = Unsure(@)]
  /\ UNCHANGED <<mayChat, begun, author, lastRead, published, marked>>

\* The client leaves, a step of the handler fails, or the process dies: what is not
\* committed is rolled back, what is not published will not be.
Close(d) ==
  /\ socket[d].at # "closed"
  /\ socket' = [socket EXCEPT ![d] = Closed]
  /\ inbox' = [inbox EXCEPT ![d] = <<>>]
  /\ client' = [client EXCEPT ![d] = Unsure(@)]
  /\ UNCHANGED <<mayChat, begun, author, lastRead, published, marked>>

-----------------------------------------------------------------------------
(* GET /conversations/{id}/messages?after= *)

\* Stored later than after: the oldest PageLimit of them.
Page(after) ==
  LET later == {m \in Stored : m > after}
  IN {m \in later : Cardinality({n \in later : n < m}) < PageLimit}

\* The client starts over, goes on after the last answer, or after the newest
\* message on its screen.
Starts(c) == {0, c.cursor} \cup {m \in c.shown : \A n \in c.shown : n <= m}

Backfill(d, after) ==
  /\ mayChat[UserOf[d]]                    \* 403
  /\ after \in Starts(client[d])
  /\ LET page == Page(after)
         c == client[d]
     IN client' = [client EXCEPT ![d] =
          [shown  |-> c.shown \cup page,
           cursor |-> IF page = {} THEN after ELSE CHOOSE m \in page : \A n \in page : n <= m,
           from   |-> IF ~socket[d].reader THEN NULL
                      ELSE IF c.from # NULL /\ after = c.cursor THEN c.from ELSE after,
           done   |-> socket[d].reader /\ Cardinality(page) < PageLimit]]
  /\ UNCHANGED <<mayChat, begun, author, socket, inbox, lastRead, published, marked>>

-----------------------------------------------------------------------------
(* POST /conversations/{id}/read, and the unread_count of a conversation *)

MarkRead(u) ==
  /\ mayChat[u]                            \* 403
  /\ lastRead' = [lastRead EXCEPT ![u] = begun]
  /\ marked' = [marked EXCEPT ![u] =
       [stored |-> Stored,
        pending |-> {socket[d].message : d \in {e \in Devices : socket[e].at = "storing"}}]]
  /\ UNCHANGED <<mayChat, begun, author, socket, inbox, client, published>>

\* Wrong variant: a message of the very moment of the mark counts.
UnreadInclusive(u) == {m \in Stored : author[m] # u /\ m >= lastRead[u]}

\* get_conversation_meta
Unread(u) == {m \in Stored : author[m] # u /\ m > lastRead[u]}

\* The team of an organization gives and takes the permission.
ChangePermission(u) ==
  /\ mayChat' = [mayChat EXCEPT ![u] = ~@]
  /\ UNCHANGED <<begun, author, socket, inbox, client, lastRead, published, marked>>

Next ==
  \/ \E d \in Devices :
       \/ Connect(d) \/ Join(d) \/ BeginMessage(d) \/ StoreMessage(d) \/ Publish(d) \/ Ack(d)
       \/ Deliver(d) \/ LoseReader(d) \/ Close(d)
       \/ \E after \in {0} \cup Messages : Backfill(d, after)
  \/ \E u \in Users : MarkRead(u) \/ ChangePermission(u)

Spec == Init /\ [][Next]_vars

-----------------------------------------------------------------------------
\* Nobody is shown a message that a rollback may take back.  And a client that joins,
\* then asks for what it missed until an answer is not full, has or is being sent
\* every message published since, however many are stored and sent meanwhile, later
\* than the one it began to ask after; of those before it, one that began first and
\* was stored last may be missing.
NothingIsMissed ==
  \A d \in Devices :
    LET c == client[d]
        coming == {inbox[d][k] : k \in 1..Len(inbox[d])}
    IN /\ c.shown \cup coming \subseteq Stored
       /\ c.done => {m \in published : m > c.from} \subseteq c.shown \cup coming

\* The unread count is of the messages stored by others since the user's last mark,
\* except those that were being stored at that moment: these are never counted.
UnreadIsNews ==
  \A u \in Users :
    LET news == {m \in Stored \ marked[u].stored : author[m] # u}
    IN Unread(u) \subseteq news /\ news \ marked[u].pending \subseteq Unread(u)
=============================================================================
