---------------------------------- MODULE Chat ----------------------------------
(***************************************************************************)
(* Chat: conversations are made, and interest requests decided, by         *)
(* core-api while chat-service carries the messages of one of them.  The   *)
(* two touch different tables, so each step is a step of one of them.      *)
(***************************************************************************)
EXTENDS ChatDelivery

CONSTANTS
  Mine, Theirs, Interests, Orders, Convs, Workers   \* of Conversations

VARIABLES
  member, interests, orders, convs, people, tx, first, contested, doubled

C == INSTANCE Conversations

ASSUME ChatAssumption == C!ConversationsAssumption

convVars == <<member, interests, orders, convs, people, tx, first, contested, doubled>>

ChatInit == Init /\ C!Init

ChatNext ==
  \/ Next /\ UNCHANGED convVars
  \/ C!Next /\ UNCHANGED vars

ChatSpec == ChatInit /\ [][ChatNext]_<<vars, convVars>>

-----------------------------------------------------------------------------
\* Rows, sockets, queues, screens and transactions keep their types, and a
\* conversation has members exactly when it is there.
ChatTypesOK == TypeOK /\ C!TypeOK

\* There is one conversation of each subject with the right people in it, and an
\* interest request is decided once, with the exceptions that Conversations names.
ConversationsConsistent == C!OnePerSubject /\ C!Audience /\ C!DecidedOnce
=============================================================================
