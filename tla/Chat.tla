-------------------------------- MODULE Chat --------------------------------
(***************************************************************************)
(* One-to-one chat: chat.gateway.ts and the chat.service.ts calls it and    *)
(* chat.controller.ts make.                                                 *)
(*                                                                         *)
(* A message goes to a conversation the client names, or to a receiver; in *)
(* the second case the conversation is looked up by its participants and   *)
(* created if there is none.  The message is inserted, marked as read by    *)
(* its sender, and emitted to socket rooms, one room per user.  Handlers    *)
(* interleave at every awaited statement.                                   *)
(***************************************************************************)
EXTENDS Naturals, Sequences, FiniteSets

CONSTANTS
    Users,
    Requests,           \* slots for handlers in flight, HTTP and socket alike
    NoUser,             \* no receiver given; the user of an idle slot
    MaxConversations,   \* bound: conversations that creations may start from
    MaxMessages,        \* bound: messages saved or about to be
    MaxReads            \* bound: read_message events emitted or about to be

ASSUME NoUserAssumption == NoUser \notin Users
ASSUME BoundAssumption ==
    MaxConversations \in Nat /\ MaxMessages \in Nat /\ MaxReads \in Nat

VARIABLES
    conversations,  \* tables conversation and conversation_participant
    messages,       \* table message, ids count from 1
    events,         \* what was emitted, and to whose rooms
    req,            \* handlers in flight
    (* history variables, read by properties only *)
    seen,           \* conversations present when the creator of c looked it up
    meant           \* the receiver a message was addressed to

vars == <<conversations, messages, events, req, seen, meant>>

----------------------------------------------------------------------------
\* The two participant rows of a conversation; both may be of one user.  read
\* is last_read_message_id, 0 for NULL.
Side == {1, 2}
Conversation == [user : [Side -> Users], read : [Side -> Nat]]
Message == [conv : Nat, sender : Users]
Event == [kind : {"message", "message_notification", "read_message"},
          msg : Nat, to : SUBSET Users]

Request == [pc : {"idle", "create", "save", "find", "mark", "emit"},
            send : BOOLEAN,             \* a message is to be sent
            user : Users \cup {NoUser},
            to : Users \cup {NoUser},   \* receiverId
            conv : Nat,
            receivers : SUBSET Users,   \* the participants collection in memory
            msg : Nat,
            side : Side,                \* the participant row loaded
            read : Nat,                 \* its last_read_message_id when loaded
            seen : Nat]
Idle == [pc |-> "idle", send |-> FALSE, user |-> NoUser, to |-> NoUser, conv |-> 0,
         receivers |-> {}, msg |-> 0, side |-> 1, read |-> 0, seen |-> 0]

ConversationIds == 1..Len(conversations)
MessageIds == 1..Len(messages)

Participants(c) == {conversations[c].user[i] : i \in Side}

Become(r, request) == req' = [req EXCEPT ![r] = request]

\* The bounds admit another message (another read).
MayPost == Len(messages) + Cardinality({r \in Requests : req[r].pc \in {"create", "save"}})
               < MaxMessages
Reading(r) == req[r].pc \in {"find", "mark", "emit"} /\ ~ req[r].send
MayRead == Cardinality({e \in events : e.kind = "read_message"})
               + Cardinality({r \in Requests : Reading(r)}) < MaxReads

Init ==
    /\ conversations = << >>
    /\ messages = << >>
    /\ events = {}
    /\ req = [r \in Requests |-> Idle]
    /\ seen = << >>
    /\ meant = << >>

----------------------------------------------------------------------------
(* Finding the conversation.                                               *)

\* getOneToOneConversationByParticipants: rows of s whose conversation has a
\* row of t.  With s = t every conversation of s qualifies.
SharedOfSender(s, t) == {c \in ConversationIds : s \in Participants(c)}   \* mutant
Shared(s, t) == {c \in ConversationIds : s \in Participants(c) /\ t \in Participants(c)}

\* A message to a receiver: some conversation found, with all its participants.
LookUp(r, s, t) ==
    /\ req[r] = Idle /\ MayPost
    /\ \E c \in Shared(s, t) :
          Become(r, [Idle EXCEPT !.pc = "save", !.send = TRUE, !.user = s, !.to = t,
                                 !.conv = c, !.receivers = Participants(c)])
    /\ UNCHANGED <<conversations, messages, events, seen, meant>>

\* None found, for a message or for GET conversations/to/:receiverId.
LookUpIgnoresMine(r, s, t, send) ==   \* mutant: only conversations t created
    /\ req[r] = Idle
    /\ Len(conversations) < MaxConversations
    /\ send => MayPost
    /\ ~ \E c \in ConversationIds : conversations[c].user = <<t, s>>
    /\ Become(r, [Idle EXCEPT !.pc = "create", !.send = send, !.user = s, !.to = t,
                              !.seen = Len(conversations)])
    /\ UNCHANGED <<conversations, messages, events, seen, meant>>
LookUpNone(r, s, t, send) ==
    /\ req[r] = Idle
    /\ Len(conversations) < MaxConversations
    /\ send => MayPost
    /\ Shared(s, t) = {}
    /\ Become(r, [Idle EXCEPT !.pc = "create", !.send = send, !.user = s, !.to = t,
                              !.seen = Len(conversations)])
    /\ UNCHANGED <<conversations, messages, events, seen, meant>>

NewConversation(s, t) == [user |-> [i \in Side |-> IF i = 1 THEN s ELSE t],
                          read |-> [i \in Side |-> 0]]

\* createNewConversation: one transaction.  The participants collection of the
\* new entity stays empty in memory.
CreateUnflushed(r) ==   \* mutant: nothing is flushed
    /\ req[r].pc = "create"
    /\ Become(r, IF req[r].send
                 THEN [req[r] EXCEPT !.pc = "save", !.conv = Len(conversations) + 1]
                 ELSE Idle)
    /\ UNCHANGED <<conversations, messages, events, seen, meant>>
Create(r) ==
    /\ req[r].pc = "create"
    /\ conversations' = Append(conversations, NewConversation(req[r].user, req[r].to))
    /\ seen' = Append(seen, req[r].seen)
    /\ Become(r, IF req[r].send
                 THEN [req[r] EXCEPT !.pc = "save", !.conv = Len(conversations) + 1]
                 ELSE Idle)
    /\ UNCHANGED <<messages, events, meant>>

\* A message to a conversation: getConversationById refuses strangers and takes
\* the requestor out of the participants in memory.
OpenAny(r, s, c) ==   \* mutant: no membership check
    /\ req[r] = Idle /\ MayPost
    /\ Become(r, [Idle EXCEPT !.pc = "save", !.send = TRUE, !.user = s, !.conv = c,
                              !.receivers = Participants(c) \ {s}])
    /\ UNCHANGED <<conversations, messages, events, seen, meant>>
OpenForAll(r, s, c) ==   \* mutant: the requestor stays among the participants
    /\ req[r] = Idle /\ MayPost
    /\ s \in Participants(c)
    /\ Become(r, [Idle EXCEPT !.pc = "save", !.send = TRUE, !.user = s, !.conv = c,
                              !.receivers = Participants(c)])
    /\ UNCHANGED <<conversations, messages, events, seen, meant>>
Open(r, s, c) ==
    /\ req[r] = Idle /\ MayPost
    /\ s \in Participants(c)
    /\ Become(r, [Idle EXCEPT !.pc = "save", !.send = TRUE, !.user = s, !.conv = c,
                              !.receivers = Participants(c) \ {s}])
    /\ UNCHANGED <<conversations, messages, events, seen, meant>>

----------------------------------------------------------------------------
(* Saving, marking as read, emitting.                                      *)

Save(r) ==
    /\ req[r].pc = "save"
    /\ messages' = Append(messages, [conv |-> req[r].conv, sender |-> req[r].user])
    /\ meant' = Append(meant, req[r].to)
    /\ Become(r, [req[r] EXCEPT !.pc = "find", !.msg = Len(messages) + 1])
    /\ UNCHANGED <<conversations, events, seen>>

\* read_message: a client names any message; markMessageAsRead starts.
ReadMessage(r, u, m) ==
    /\ req[r] = Idle /\ MayRead
    /\ Become(r, [Idle EXCEPT !.pc = "find", !.user = u, !.conv = messages[m].conv,
                              !.msg = m])
    /\ UNCHANGED <<conversations, messages, events, seen, meant>>

\* The participant row of the user in the message's conversation, if any.
FindAnyRow(r) ==   \* mutant: any row of the user, whatever the conversation
    /\ req[r].pc = "find"
    /\ \E c \in ConversationIds, i \in Side :
          /\ conversations[c].user[i] = req[r].user
          /\ Become(r, [req[r] EXCEPT !.pc = "mark", !.conv = c, !.side = i,
                                      !.read = conversations[c].read[i]])
    /\ UNCHANGED <<conversations, messages, events, seen, meant>>
FindRow(r) ==
    /\ req[r].pc = "find"
    /\ LET c == req[r].conv
       IN  \/ \E i \in Side :
                 /\ conversations[c].user[i] = req[r].user
                 /\ Become(r, [req[r] EXCEPT !.pc = "mark", !.side = i,
                                             !.read = conversations[c].read[i]])
           \/ req[r].user \notin Participants(c) /\ Become(r, Idle)
    /\ UNCHANGED <<conversations, messages, events, seen, meant>>

\* UPDATE, unless the row already pointed at the message when it was loaded.
MarkAndStop(r) ==   \* mutant: the handler ends here
    /\ req[r].pc = "mark"
    /\ conversations' = [conversations EXCEPT ![req[r].conv].read[req[r].side] = req[r].msg]
    /\ Become(r, Idle)
    /\ UNCHANGED <<messages, events, seen, meant>>
Mark(r) ==
    /\ req[r].pc = "mark"
    /\ conversations' = IF req[r].read = req[r].msg THEN conversations
                        ELSE [conversations EXCEPT ![req[r].conv].read[req[r].side] = req[r].msg]
    /\ Become(r, [req[r] EXCEPT !.pc = "emit"])
    /\ UNCHANGED <<messages, events, seen, meant>>

\* An emission to no room at all reaches every socket.
Rooms(users) == IF users = {} THEN Users ELSE users

Emission(q) ==
    IF q.send
    THEN {[kind |-> "message", msg |-> q.msg, to |-> {q.user} \cup q.receivers],
          [kind |-> "message_notification", msg |-> q.msg, to |-> Rooms(q.receivers)]}
    ELSE {[kind |-> "read_message", msg |-> q.msg, to |-> {q.user}]}

Emit(r) ==
    /\ req[r].pc = "emit"
    /\ events' = events \cup Emission(req[r])
    /\ Become(r, Idle)
    /\ UNCHANGED <<conversations, messages, seen, meant>>

----------------------------------------------------------------------------
\* A statement fails and the handler throws; the process dies.
Fail(r) ==
    /\ req[r] # Idle
    /\ Become(r, Idle)
    /\ UNCHANGED <<conversations, messages, events, seen, meant>>

Crash ==
    /\ \E r \in Requests : req[r] # Idle
    /\ req' = [r \in Requests |-> Idle]
    /\ UNCHANGED <<conversations, messages, events, seen, meant>>

----------------------------------------------------------------------------
\* A client sends a request or an event, and its first read answers.
Arrive(r) ==
    \/ \E s, t \in Users : \/ LookUp(r, s, t)
                           \/ \E send \in BOOLEAN : LookUpNone(r, s, t, send)
    \/ \E s \in Users, c \in ConversationIds : Open(r, s, c)
    \/ \E u \in Users, m \in MessageIds : ReadMessage(r, u, m)

\* The handler in flight takes its next step.
Proceed(r) == Create(r) \/ Save(r) \/ FindRow(r) \/ Mark(r) \/ Emit(r)

Serve == \E r \in Requests : Arrive(r) \/ Proceed(r)

Next == Serve \/ Crash \/ \E r \in Requests : Fail(r)

Spec == Init /\ [][Next]_vars

\* No faults: the driver answers every statement and Node runs the continuation.
LiveSpec ==
    /\ Init /\ [][Serve]_vars
    /\ \A r \in Requests : WF_vars(Proceed(r))

----------------------------------------------------------------------------
\* Types, and the foreign keys: messages and requests refer to rows that exist.
TypeOK ==
    /\ conversations \in Seq(Conversation)
    /\ messages \in Seq(Message)
    /\ \A m \in MessageIds : messages[m].conv \in ConversationIds
    /\ events \subseteq Event
    /\ req \in [Requests -> Request]
    /\ \A r \in Requests :
          /\ req[r].pc \in {"save", "find", "mark", "emit"} => req[r].conv \in ConversationIds
          /\ req[r].pc \in {"find", "mark", "emit"} => req[r].msg \in MessageIds
    /\ seen \in Seq(Nat) /\ Len(seen) = Len(conversations)
    /\ meant \in Seq(Users \cup {NoUser}) /\ Len(meant) = Len(messages)

\* A lookup, then a creation, with awaits in between.  A pair has a second
\* conversation only if its creator looked before the first was inserted.
DuplicatesOnlyFromOverlap ==
    \A c, d \in ConversationIds :
        c < d /\ Participants(c) = Participants(d) => seen[d] < c

\* The conversation a request found or created is the one its message lands in,
\* whatever other handlers create meanwhile: a message addressed to another
\* user is in a conversation of the sender and that user and of nobody else.
RoutedToPair ==
    \A m \in MessageIds :
        meant[m] \notin {NoUser, messages[m].sender} =>
            Participants(messages[m].conv) = {messages[m].sender, meant[m]}

\* Read pointers only ever name a saved message of the same conversation, even
\* though a client may name any message and the pointer is written long after
\* the participant row was loaded.
PointerInConversation ==
    \A c \in ConversationIds, i \in Side :
        conversations[c].read[i] # 0 =>
            /\ conversations[c].read[i] \in MessageIds
            /\ messages[conversations[c].read[i]].conv = c

Others(m) == Participants(messages[m].conv) \ {messages[m].sender}

\* A message to a conversation reaches both its participants, and its
\* notification exactly the other one, although the participants were loaded
\* before the message was saved.
ByIdReachesBoth ==
    \A e \in events :
        /\ e.kind # "read_message"
        /\ meant[e.msg] = NoUser /\ Others(e.msg) # {}
        => e.to = IF e.kind = "message" THEN Participants(messages[e.msg].conv)
                  ELSE Others(e.msg)

\* Chat implements the log of pairs: a message stays between the sender and one
\* other user, is never moved or rewritten by later handlers, and its content is
\* emitted once at most, to its sender and to no stranger.
Posted == [m \in MessageIds |-> [pair |-> Participants(messages[m].conv),
                                 sender |-> messages[m].sender]]
Contents(m) == {e \in events : e.kind = "message" /\ e.msg = m}
Reached == [m \in MessageIds |-> UNION {e.to : e \in Contents(m)}]
Log == INSTANCE PairLog WITH log <- Posted, delivered <- Reached
ImplementsPairLog == Log!Spec

\* Without faults every saved message is eventually emitted: nothing between
\* the insert and the emission can refuse the sender.
SavedIsEmitted ==
    \A m \in 1..MaxMessages :
        (m \in MessageIds) ~> \E e \in events : e.kind = "message" /\ e.msg = m

----------------------------------------------------------------------------
(* What the comments say and the code does not do.                         *)

Quiet == \A r \in Requests : req[r] = Idle

\* chat.gateway.ts:78: "send message to all message receivers including sender".
\* The receivers come from a collection that is empty for a new conversation.
MessageReachesReceivers ==
    \A e \in events :
        e.kind = "message" => Participants(messages[e.msg].conv) \subseteq e.to

\* getUnreadConversations: the newest message is not the one pointed at.
Newest(c) == {m \in MessageIds : messages[m].conv = c /\
                  \A n \in MessageIds : messages[n].conv = c => n <= m}
Unread(u, c) == \E i \in Side : /\ conversations[c].user[i] = u
                                /\ conversations[c].read[i] \notin Newest(c)

\* chat.gateway.ts:70: "sender automatically read the message when sending".
\* The pointer is whatever handler wrote last, so of two messages of one sender
\* the older may win and leave the sender's own newest message unread.
OwnMessageIsRead ==
    Quiet /\ (\A e \in events : e.kind # "read_message") =>
        \A c \in ConversationIds : \A m \in Newest(c) :
            Cardinality(Participants(c)) = 2 => ~ Unread(messages[m].sender, c)
============================================================================
