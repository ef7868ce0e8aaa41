---------------------------- MODULE Chat_proofs ----------------------------
(***************************************************************************)
(* Proofs about Chat, for every set of users and requests.                 *)
(*                                                                         *)
(* The inductive invariant Safe: types; Sound, what each handler in flight *)
(* may rely on about the conversation and message it holds; what the tables *)
(* and the events say of each other; and Once, by which no two handlers    *)
(* emit one message.  Keeps is what every step leaves alone.               *)
(***************************************************************************)
EXTENDS Chat, SequenceTheorems, TLAPS

Holding == {"save", "find", "mark", "emit"}     \* the handler has a conversation
Saved == {"find", "mark", "emit"}               \* and a message in it

\* What request q relies on.
Sound(q) ==
    /\ q.pc = "create" =>
          /\ q.receivers = {}
          /\ q.user \in Users /\ q.to \in Users /\ q.seen \in 0..Len(conversations)
          /\ \A c \in ConversationIds :
                Participants(c) = {q.user, q.to} => q.seen < c
    /\ q.pc \in Holding => q.conv \in ConversationIds /\ q.user \in Users
    /\ q.pc = "save" =>
          /\ q.send
          /\ q.to \notin {NoUser, q.user} => Participants(q.conv) = {q.user, q.to}
          /\ q.to = NoUser => q.receivers = Participants(q.conv) \ {q.user}
    /\ q.pc \in Holding /\ q.send =>
          q.user \in Participants(q.conv) /\ q.receivers \subseteq Participants(q.conv)
    /\ q.pc \in Saved =>
          /\ q.msg \in MessageIds /\ messages[q.msg].conv = q.conv
          /\ q.send => messages[q.msg].sender = q.user
          /\ q.send /\ meant[q.msg] = NoUser =>
                q.receivers = Participants(q.conv) \ {q.user}

Sending(q) == q.pc \in Saved /\ q.send

\* The message of a handler is its own, and it has not emitted it yet.
Once ==
    /\ \A r \in Requests : \A e \in events :
          Sending(req[r]) /\ e.kind = "message" => e.msg # req[r].msg
    /\ \A r, o \in Requests :
          r # o /\ Sending(req[r]) /\ Sending(req[o]) => req[r].msg # req[o].msg

SendersBelong == \A m \in MessageIds :
    messages[m].sender \in Participants(messages[m].conv)

EventsBelong == \A e \in events :
    /\ e.msg \in MessageIds
    /\ e.kind = "message" =>
          /\ messages[e.msg].sender \in e.to
          /\ e.to \subseteq Participants(messages[e.msg].conv)

Safe ==
    /\ TypeOK
    /\ \A r \in Requests : Sound(req[r])
    /\ Once /\ SendersBelong /\ EventsBelong
    /\ DuplicatesOnlyFromOverlap /\ RoutedToPair
    /\ PointerInConversation /\ ByIdReachesBoth

\* What every step keeps: conversations their participants, messages everything.
Keeps ==
    /\ Len(conversations) \in Nat /\ Len(conversations)' \in Nat
    /\ Len(conversations) <= Len(conversations)'
    /\ ConversationIds \subseteq ConversationIds'
    /\ \A c \in ConversationIds :
          Participants(c)' = Participants(c) /\ seen'[c] = seen[c]
    /\ MessageIds \subseteq MessageIds'
    /\ \A m \in MessageIds : messages'[m] = messages[m] /\ meant'[m] = meant[m]

----------------------------------------------------------------------------
LEMMA IdleIsRequest == Idle \in Request /\ Idle.pc = "idle" /\ Sound(Idle)
  BY DEF Idle, Request, Side, Sound, Holding, Saved

LEMMA BecomeChangesOne ==
    ASSUME req \in [Requests -> Request], NEW r \in Requests, NEW q \in Request,
           Become(r, q)
    PROVE  /\ req' \in [Requests -> Request]
           /\ req'[r] = q
           /\ \A o \in Requests : o # r => req'[o] = req[o]
  BY DEF Become

LEMMA Lengths ==
    ASSUME TypeOK
    PROVE  Len(conversations) \in Nat /\ Len(messages) \in Nat
  BY DEF TypeOK

LEMMA ConversationTyped ==
    ASSUME TypeOK, NEW c \in ConversationIds
    PROVE  /\ conversations[c] \in Conversation
           /\ c \in Nat \ {0}
           /\ Participants(c) \subseteq Users
<1>1. conversations[c] \in Conversation
  BY ElementOfSeq DEF TypeOK, ConversationIds
<1> QED
  BY <1>1, Lengths DEF Conversation, Participants, ConversationIds

LEMMA MessageTyped ==
    ASSUME TypeOK, NEW m \in MessageIds
    PROVE  /\ messages[m] \in Message /\ messages[m].conv \in ConversationIds
           /\ m \in Nat \ {0}
<1>1. messages[m] \in Message
  BY ElementOfSeq DEF TypeOK, MessageIds
<1> QED
  BY <1>1, Lengths DEF TypeOK, MessageIds

LEMMA RequestTyped ==
    ASSUME TypeOK, NEW r \in Requests
    PROVE  req[r] \in Request
  BY DEF TypeOK

\* Two different participants are all the participants.
LEMMA SharedIsPair ==
    ASSUME NEW s, NEW t, NEW c \in Shared(s, t), s # t
    PROVE  Participants(c) = {s, t}
  BY DEF Shared, Participants, Side

LEMMA UnchangedKeeps ==
    ASSUME TypeOK, UNCHANGED <<conversations, messages, seen, meant>>
    PROVE  Keeps /\ ConversationIds' = ConversationIds /\ MessageIds' = MessageIds
  BY Lengths DEF Keeps, ConversationIds, MessageIds, Participants

\* A request keeps what it relies on, if new conversations get new ids.
LEMMA SoundKept ==
    ASSUME Keeps, NEW q, Sound(q),
           \A c \in ConversationIds' : c \in ConversationIds \/ c > Len(conversations)
    PROVE  Sound(q)'
<1>1. ASSUME q.pc = "create"
      PROVE  /\ q.receivers = {}
             /\ q.user \in Users /\ q.to \in Users /\ q.seen \in 0..Len(conversations)'
             /\ \A c \in ConversationIds' :
                   Participants(c)' = {q.user, q.to} => q.seen < c
  <2>1. q.seen \in 0..Len(conversations)
    BY <1>1 DEF Sound
  <2>2. ASSUME NEW c \in ConversationIds', Participants(c)' = {q.user, q.to}
        PROVE  q.seen < c
    <3>1. CASE c \in ConversationIds
      BY <1>1, <2>2, <3>1 DEF Sound, Keeps
    <3>2. CASE c > Len(conversations)
      <4>1. c \in Nat
        BY DEF ConversationIds, Keeps
      <4> QED
        BY <2>1, <3>2, <4>1 DEF Keeps
    <3> QED
      BY <3>1, <3>2
  <2> QED
    BY <1>1, <2>1, <2>2 DEF Sound, Keeps
<1>2. q.pc \in Saved => q.msg \in MessageIds
  BY DEF Sound
<1> QED
  BY <1>1, <1>2 DEF Sound, Keeps, Holding, Saved

----------------------------------------------------------------------------
(* One lemma per kind of step.                                             *)

LEMMA InitSafe == Init => Safe
<1> SUFFICES ASSUME Init PROVE Safe
  OBVIOUS
<1>1. /\ ConversationIds = {} /\ MessageIds = {} /\ events = {}
      /\ \A r \in Requests : req[r] = Idle
  BY DEF Init, ConversationIds, MessageIds
<1>2. TypeOK
  BY <1>1, IdleIsRequest DEF Init, TypeOK, Idle
<1>3. (\A r \in Requests : Sound(req[r])) /\ Once
  BY <1>1, IdleIsRequest DEF Once, Sending, Saved
<1>4. /\ SendersBelong /\ EventsBelong /\ DuplicatesOnlyFromOverlap /\ RoutedToPair
      /\ PointerInConversation /\ ByIdReachesBoth
  BY <1>1 DEF SendersBelong, EventsBelong, DuplicatesOnlyFromOverlap, RoutedToPair,
     PointerInConversation, ByIdReachesBoth
<1> QED
  BY <1>2, <1>3, <1>4 DEF Safe

\* The requests after a step that moves r on to q, which sends the message it
\* was sending, or none.
LEMMA RequestsMove ==
    ASSUME Safe, NEW r \in Requests, NEW q \in Request, Become(r, q), Keeps,
           \A c \in ConversationIds' : c \in ConversationIds \/ c > Len(conversations),
           Sound(q)'
    PROVE  /\ req' \in [Requests -> Request] /\ req'[r] = q
           /\ \A o \in Requests : o # r => req'[o] = req[o]
           /\ \A o \in Requests : Sound(req[o])'
           /\ \A o \in Requests :
                 /\ req'[o].pc \in Holding => req'[o].conv \in ConversationIds'
                 /\ req'[o].pc \in Saved => req'[o].msg \in MessageIds'
<1>1. /\ req' \in [Requests -> Request] /\ req'[r] = q
      /\ \A o \in Requests : o # r => req'[o] = req[o]
  BY BecomeChangesOne DEF Safe, TypeOK
<1>2. ASSUME NEW o \in Requests PROVE Sound(req[o])'
  <2>1. CASE o = r
    BY <1>1, <2>1 DEF Sound
  <2>2. CASE o # r
    <3>1. PICK p : p = req[o]
      OBVIOUS
    <3>2. Sound(p)
      BY <3>1 DEF Safe
    <3>3. Sound(p)'
      BY <3>2, SoundKept
    <3>4. p = req'[o]
      BY <1>1, <2>2, <3>1
    <3> QED
      BY <3>3, <3>4 DEF Sound
  <2> QED
    BY <2>1, <2>2
<1>3. ASSUME NEW o \in Requests
      PROVE  /\ req'[o].pc \in Holding => req'[o].conv \in ConversationIds'
             /\ req'[o].pc \in Saved => req'[o].msg \in MessageIds'
  BY <1>2 DEF Sound
<1> QED
  BY <1>1, <1>2, <1>3

\* What a step that posts and emits nothing leaves true of messages and events.
LEMMA MessagesKept ==
    ASSUME Safe, Keeps, UNCHANGED <<messages, events, meant>>
    PROVE  SendersBelong' /\ EventsBelong' /\ RoutedToPair' /\ ByIdReachesBoth'
<1>1. MessageIds' = MessageIds
  BY DEF MessageIds
<1>2. \A m \in MessageIds :
          /\ Participants(messages[m].conv)' = Participants(messages[m].conv)
          /\ Others(m)' = Others(m)
  BY MessageTyped DEF Safe, Keeps, Others
<1>3. SendersBelong' /\ EventsBelong'
  BY <1>1, <1>2 DEF Safe, SendersBelong, EventsBelong
<1>4. RoutedToPair'
  BY <1>1, <1>2 DEF Safe, RoutedToPair
<1>5. ByIdReachesBoth'
  BY <1>2 DEF Safe, EventsBelong, ByIdReachesBoth
<1> QED
  BY <1>3, <1>4, <1>5

\* No message is sent twice if every sender was sending the same before.
LEMMA OnceKept ==
    ASSUME Safe, UNCHANGED events,
           \A o \in Requests : Sending(req'[o]) =>
               Sending(req[o]) /\ req'[o].msg = req[o].msg
    PROVE  Once'
<1>1. \A o \in Requests : Sending(req[o])' <=> Sending(req'[o])
  BY DEF Sending
<1> QED
  BY <1>1 DEF Safe, Once

\* A step that changes one request and no table.
LEMMA MoveSafe ==
    ASSUME Safe, NEW r \in Requests, NEW q \in Request, Become(r, q), Sound(q),
           UNCHANGED <<conversations, messages, events, seen, meant>>,
           Sending(q) => Sending(req[r]) /\ req[r].msg = q.msg
    PROVE  Safe'
<1>1. Keeps /\ ConversationIds' = ConversationIds /\ MessageIds' = MessageIds
  BY UnchangedKeeps DEF Safe
<1>2. \A c \in ConversationIds : Participants(c)' = Participants(c)
  BY <1>1 DEF Keeps
<1>3. Sound(q)'
  BY <1>1, SoundKept
<1>4. /\ req' \in [Requests -> Request] /\ req'[r] = q
      /\ \A o \in Requests : o # r => req'[o] = req[o]
      /\ \A o \in Requests : Sound(req[o])'
      /\ \A o \in Requests :
            /\ req'[o].pc \in Holding => req'[o].conv \in ConversationIds'
            /\ req'[o].pc \in Saved => req'[o].msg \in MessageIds'
  BY <1>1, <1>3, RequestsMove
<1>5. TypeOK'
  BY <1>1, <1>4 DEF Safe, TypeOK, Holding, Saved
<1>6. Once'
  BY <1>4, OnceKept
<1>7. SendersBelong' /\ EventsBelong' /\ RoutedToPair' /\ ByIdReachesBoth'
  BY <1>1, MessagesKept
<1>8. DuplicatesOnlyFromOverlap'
  BY <1>1, <1>2 DEF Safe, DuplicatesOnlyFromOverlap
<1>9. PointerInConversation'
  BY <1>1 DEF Safe, PointerInConversation
<1> QED
  BY <1>4, <1>5, <1>6, <1>7, <1>8, <1>9 DEF Safe

LEMMA LookUpSafe ==
    ASSUME Safe, NEW r \in Requests, NEW s \in Users, NEW t \in Users, LookUp(r, s, t)
    PROVE  Safe'
<1>1. PICK c \in Shared(s, t) :
          Become(r, [Idle EXCEPT !.pc = "save", !.send = TRUE, !.user = s, !.to = t,
                                 !.conv = c, !.receivers = Participants(c)])
  BY DEF LookUp
<1> DEFINE q == [Idle EXCEPT !.pc = "save", !.send = TRUE, !.user = s, !.to = t,
                             !.conv = c, !.receivers = Participants(c)]
<1>2. c \in ConversationIds /\ s \in Participants(c)
  BY DEF Shared
<1>3. q \in Request
  BY <1>2, ConversationTyped DEF Safe, Request, Idle, Side
<1>4. Sound(q) /\ ~ Sending(q)
  BY <1>2, SharedIsPair, NoUserAssumption DEF Sound, Sending, Holding, Saved, Idle
<1> QED
  BY <1>1, <1>3, <1>4, MoveSafe DEF LookUp

LEMMA LookUpNoneSafe ==
    ASSUME Safe, NEW r \in Requests, NEW s \in Users, NEW t \in Users,
           NEW send \in BOOLEAN, LookUpNone(r, s, t, send)
    PROVE  Safe'
<1> DEFINE q == [Idle EXCEPT !.pc = "create", !.send = send, !.user = s, !.to = t,
                             !.seen = Len(conversations)]
<1>1. Become(r, q) /\ Shared(s, t) = {}
  BY DEF LookUpNone
<1>2. q \in Request
  BY Lengths DEF Safe, Request, Idle, Side
<1>3. \A c \in ConversationIds : Participants(c) # {s, t}
  BY <1>1 DEF Shared
<1>4. Len(conversations) \in 0..Len(conversations)
  BY Lengths DEF Safe
<1>5. Sound(q) /\ ~ Sending(q)
  BY <1>3, <1>4 DEF Sound, Sending, Holding, Saved, Idle
<1> QED
  BY <1>1, <1>2, <1>5, MoveSafe DEF LookUpNone

LEMMA OpenSafe ==
    ASSUME Safe, NEW r \in Requests, NEW s \in Users, NEW c \in ConversationIds,
           Open(r, s, c)
    PROVE  Safe'
<1> DEFINE q == [Idle EXCEPT !.pc = "save", !.send = TRUE, !.user = s, !.conv = c,
                             !.receivers = Participants(c) \ {s}]
<1>1. Become(r, q) /\ s \in Participants(c)
  BY DEF Open
<1>2. q \in Request
  BY ConversationTyped DEF Safe, Request, Idle, Side
<1>3. Sound(q) /\ ~ Sending(q)
  BY <1>1 DEF Sound, Sending, Holding, Saved, Idle
<1> QED
  BY <1>1, <1>2, <1>3, MoveSafe DEF Open

LEMMA ReadMessageSafe ==
    ASSUME Safe, NEW r \in Requests, NEW u \in Users, NEW m \in MessageIds,
           ReadMessage(r, u, m)
    PROVE  Safe'
<1> DEFINE q == [Idle EXCEPT !.pc = "find", !.user = u, !.conv = messages[m].conv,
                             !.msg = m]
<1>1. messages[m].conv \in ConversationIds /\ messages[m].conv \in Nat /\ m \in Nat
  BY MessageTyped, ConversationTyped DEF Safe
<1>2. q \in Request
  BY <1>1 DEF Request, Idle, Side
<1>3. Sound(q) /\ ~ Sending(q)
  BY <1>1 DEF Sound, Sending, Holding, Saved, Idle
<1> QED
  BY <1>2, <1>3, MoveSafe DEF ReadMessage

LEMMA FailSafe ==
    ASSUME Safe, NEW r \in Requests, Fail(r)
    PROVE  Safe'
<1>1. ~ Sending(Idle)
  BY IdleIsRequest DEF Sending, Saved
<1> QED
  BY <1>1, IdleIsRequest, MoveSafe DEF Fail

LEMMA FindRowSafe ==
    ASSUME Safe, NEW r \in Requests, FindRow(r)
    PROVE  Safe'
<1>1. UNCHANGED <<conversations, messages, events, seen, meant>> /\ req[r].pc = "find"
  BY DEF FindRow
<1>2. req[r] \in Request /\ Sound(req[r])
  BY RequestTyped DEF Safe
<1>3. CASE Become(r, Idle)
  <2>1. ~ Sending(Idle)
    BY IdleIsRequest DEF Sending, Saved
  <2> QED
    BY <1>1, <1>3, <2>1, IdleIsRequest, MoveSafe
<1>4. ASSUME NEW i \in Side,
             Become(r, [req[r] EXCEPT !.pc = "mark", !.side = i,
                                      !.read = conversations[req[r].conv].read[i]])
      PROVE  Safe'
  <2>1. PICK n \in Nat : n = conversations[req[r].conv].read[i]
    BY <1>1, <1>2, ConversationTyped DEF Safe, Sound, Holding, Conversation
  <2> DEFINE q == [req[r] EXCEPT !.pc = "mark", !.side = i, !.read = n]
  <2>2. q \in Request
    BY <1>2 DEF Request
  <2>3. /\ q.pc = "mark" /\ q.send = req[r].send /\ q.user = req[r].user
        /\ q.to = req[r].to /\ q.conv = req[r].conv /\ q.msg = req[r].msg
        /\ q.receivers = req[r].receivers
    BY <1>2 DEF Request
  <2>4. Sound(q)
    BY <1>1, <1>2, <2>3 DEF Sound, Holding, Saved
  <2>5. Sending(q) => Sending(req[r])
    BY <1>1, <2>3 DEF Sending, Saved
  <2> QED
    BY <1>1, <1>4, <2>1, <2>2, <2>3, <2>4, <2>5, MoveSafe
<1> QED
  BY <1>3, <1>4 DEF FindRow

ConversationInserted(s, t, k, n) ==
    /\ n = Len(conversations) + 1
    /\ conversations' = Append(conversations, NewConversation(s, t))
    /\ seen' = Append(seen, k)
    /\ UNCHANGED <<messages, meant>>

\* An inserted conversation changes no other.
LEMMA InsertConversation ==
    ASSUME TypeOK, NEW s \in Users, NEW t \in Users, NEW k \in Nat, NEW n \in Nat,
           ConversationInserted(s, t, k, n)
    PROVE  /\ Keeps
           /\ conversations' \in Seq(Conversation)
           /\ seen' \in Seq(Nat) /\ Len(seen') = Len(conversations')
           /\ ConversationIds' = ConversationIds \cup {n} /\ n \notin ConversationIds
           /\ \A c \in ConversationIds : conversations'[c] = conversations[c]
           /\ Participants(n)' = {s, t} /\ seen'[n] = k
           /\ \A i \in Side : conversations'[n].read[i] = 0
<1> DEFINE new == NewConversation(s, t)
<1>1. /\ new \in Conversation
      /\ new.user[1] = s /\ new.user[2] = t /\ \A i \in Side : new.read[i] = 0
  BY DEF Conversation, Side, NewConversation
<1> HIDE DEF new
<1>2. Len(conversations) \in Nat /\ Len(seen) = Len(conversations)
  BY DEF TypeOK
<1>3. /\ conversations' \in Seq(Conversation) /\ Len(conversations') = n
      /\ \A c \in 1..Len(conversations) : conversations'[c] = conversations[c]
      /\ conversations'[n] = new
  BY <1>1, <1>2, AppendProperties DEF TypeOK, ConversationInserted, new
<1>4. /\ seen' \in Seq(Nat) /\ Len(seen') = n
      /\ \A c \in 1..Len(conversations) : seen'[c] = seen[c]
      /\ seen'[n] = k
  BY <1>2, AppendProperties DEF TypeOK, ConversationInserted
<1>5. /\ ConversationIds' = ConversationIds \cup {n} /\ n \notin ConversationIds
      /\ \A c \in ConversationIds : conversations'[c] = conversations[c]
  BY <1>2, <1>3 DEF ConversationIds, ConversationInserted
<1>6. \A c \in ConversationIds : Participants(c)' = Participants(c)
  BY <1>5 DEF Participants
<1>7. Participants(n)' = {s, t}
  BY <1>1, <1>3 DEF Participants, Side
<1>8. Keeps
  BY <1>2, <1>3, <1>4, <1>5, <1>6 DEF Keeps, ConversationIds, MessageIds, ConversationInserted
<1> QED
  BY <1>1, <1>3, <1>4, <1>5, <1>7, <1>8

LEMMA CreateSafe ==
    ASSUME Safe, NEW r \in Requests, Create(r)
    PROVE  Safe' /\ Keeps
<1>1. req[r] \in Request /\ Sound(req[r]) /\ req[r].pc = "create"
  BY RequestTyped DEF Safe, Create
<1>2. PICK s \in Users, t \in Users, k \in Nat, n \in Nat :
          /\ s = req[r].user /\ t = req[r].to /\ k = req[r].seen
          /\ n = Len(conversations) + 1
  BY <1>1, Lengths DEF Safe, Sound, Request
<1>0. PICK q : q = IF req[r].send THEN [req[r] EXCEPT !.pc = "save", !.conv = n] ELSE Idle
  OBVIOUS
<1>3. /\ Become(r, q) /\ UNCHANGED <<messages, events, meant>>
      /\ conversations' = Append(conversations, NewConversation(s, t))
      /\ seen' = Append(seen, k)
  BY <1>2, <1>0 DEF Create
<1>4. /\ Keeps
      /\ conversations' \in Seq(Conversation)
      /\ seen' \in Seq(Nat) /\ Len(seen') = Len(conversations')
      /\ ConversationIds' = ConversationIds \cup {n} /\ n \notin ConversationIds
      /\ \A c \in ConversationIds : conversations'[c] = conversations[c]
      /\ Participants(n)' = {s, t} /\ seen'[n] = k
      /\ \A i \in Side : conversations'[n].read[i] = 0
  <2>1. TypeOK /\ ConversationInserted(s, t, k, n)
    BY <1>2, <1>3 DEF Safe, ConversationInserted
  <2> QED
    BY <2>1, InsertConversation
<1>5. q \in Request
  BY <1>1, <1>2, <1>0, IdleIsRequest DEF Request
<1>6. Sound(q)' /\ ~ Sending(q)
  <2>1. CASE req[r].send
    <3>1. /\ q.pc = "save" /\ q.send /\ q.user = s /\ q.to = t /\ q.conv = n
          /\ q.receivers = {}
      BY <1>1, <1>2, <1>0, <2>1 DEF Request, Sound
    <3>2. t # NoUser
      BY NoUserAssumption
    <3> QED
      BY <1>4, <3>1, <3>2 DEF Sound, Sending, Holding, Saved
  <2>2. CASE ~ req[r].send
    BY <1>0, <2>2, IdleIsRequest DEF Sound, Sending, Holding, Saved
  <2> QED
    BY <2>1, <2>2
<1>7. \A c \in ConversationIds' : c \in ConversationIds \/ c > Len(conversations)
  BY <1>2, <1>4, Lengths DEF Safe
<1>8. /\ req' \in [Requests -> Request] /\ req'[r] = q
      /\ \A o \in Requests : o # r => req'[o] = req[o]
      /\ \A o \in Requests : Sound(req[o])'
      /\ \A o \in Requests :
            /\ req'[o].pc \in Holding => req'[o].conv \in ConversationIds'
            /\ req'[o].pc \in Saved => req'[o].msg \in MessageIds'
  BY <1>3, <1>4, <1>5, <1>6, <1>7, RequestsMove
<1>9. TypeOK'
  <2>1. MessageIds' = MessageIds
    BY <1>3 DEF MessageIds
  <2> QED
    BY <1>3, <1>4, <1>8, <2>1 DEF Safe, TypeOK, Holding, Saved
<1>10. Once'
  BY <1>3, <1>6, <1>8, OnceKept
<1>11. SendersBelong' /\ EventsBelong' /\ RoutedToPair' /\ ByIdReachesBoth'
  BY <1>3, <1>4, MessagesKept
<1>12. DuplicatesOnlyFromOverlap'
  <2> SUFFICES ASSUME NEW c \in ConversationIds', NEW d \in ConversationIds',
                      c < d, Participants(c)' = Participants(d)'
               PROVE  seen'[d] < c
    BY DEF DuplicatesOnlyFromOverlap
  <2>1. c \in ConversationIds
    <3>1. ConversationIds = 1..(n - 1)
      BY <1>2, Lengths DEF Safe, ConversationIds
    <3>2. c \in 1..(n - 1) \cup {n} /\ d \in 1..(n - 1) \cup {n}
      BY <1>4, <3>1
    <3>3. c \in Nat /\ d \in Nat /\ c # n
      BY <1>2, <3>2
    <3> QED
      BY <3>1, <3>2, <3>3
  <2>2. CASE d \in ConversationIds
    BY <1>4, <2>1, <2>2 DEF Safe, DuplicatesOnlyFromOverlap, Keeps
  <2>3. CASE d = n
    BY <1>1, <1>2, <1>4, <2>1, <2>3 DEF Sound, Keeps
  <2> QED
    BY <1>4, <2>2, <2>3
<1>13. PointerInConversation'
  <2>1. MessageIds' = MessageIds
    BY <1>3 DEF MessageIds
  <2>2. ASSUME NEW c \in ConversationIds', NEW i \in Side, conversations'[c].read[i] # 0
        PROVE  /\ conversations'[c].read[i] \in MessageIds'
               /\ messages'[conversations'[c].read[i]].conv = c
    <3>1. c \in ConversationIds /\ conversations'[c] = conversations[c]
      BY <1>4, <2>2
    <3> QED
      BY <1>3, <2>1, <2>2, <3>1 DEF Safe, PointerInConversation
  <2> QED
    BY <2>2 DEF PointerInConversation
<1> QED
  BY <1>4, <1>8, <1>9, <1>10, <1>11, <1>12, <1>13 DEF Safe

MessageInserted(s, c, t, m) ==
    /\ m = Len(messages) + 1
    /\ messages' = Append(messages, [conv |-> c, sender |-> s])
    /\ meant' = Append(meant, t)
    /\ UNCHANGED <<conversations, seen>>

\* An inserted message changes no other.
LEMMA InsertMessage ==
    ASSUME TypeOK, NEW s \in Users, NEW t \in Users \cup {NoUser}, NEW m \in Nat,
           NEW c \in ConversationIds, MessageInserted(s, c, t, m)
    PROVE  /\ Keeps
           /\ messages' \in Seq(Message)
           /\ meant' \in Seq(Users \cup {NoUser}) /\ Len(meant') = Len(messages')
           /\ MessageIds' = MessageIds \cup {m} /\ m \notin MessageIds
           /\ messages'[m].conv = c /\ messages'[m].sender = s /\ meant'[m] = t
<1> DEFINE new == [conv |-> c, sender |-> s]
<1>1. new \in Message /\ new.conv = c /\ new.sender = s
  BY ConversationTyped DEF Message
<1> HIDE DEF new
<1>2. Len(messages) \in Nat /\ Len(meant) = Len(messages)
  BY DEF TypeOK
<1>3. /\ messages' \in Seq(Message) /\ Len(messages') = m
      /\ \A k \in 1..Len(messages) : messages'[k] = messages[k]
      /\ messages'[m] = new
  BY <1>1, <1>2, AppendProperties DEF TypeOK, MessageInserted, new
<1>4. /\ meant' \in Seq(Users \cup {NoUser}) /\ Len(meant') = m
      /\ \A k \in 1..Len(messages) : meant'[k] = meant[k]
      /\ meant'[m] = t
  BY <1>2, AppendProperties DEF TypeOK, MessageInserted
<1>5. MessageIds' = MessageIds \cup {m} /\ m \notin MessageIds
  BY <1>2, <1>3 DEF MessageIds, MessageInserted
<1>6. Len(conversations) \in Nat /\ UNCHANGED <<conversations, seen>>
  BY Lengths DEF MessageInserted
<1>7. \A k \in MessageIds : messages'[k] = messages[k] /\ meant'[k] = meant[k]
  BY <1>3, <1>4 DEF MessageIds
<1>8. Keeps
  BY <1>5, <1>6, <1>7 DEF Keeps, ConversationIds, Participants
<1> QED
  BY <1>1, <1>3, <1>4, <1>5, <1>8

LEMMA SaveSafe ==
    ASSUME Safe, NEW r \in Requests, Save(r)
    PROVE  Safe' /\ Keeps
<1>1. req[r] \in Request /\ Sound(req[r]) /\ req[r].pc = "save"
  BY RequestTyped DEF Safe, Save
<1>2. PICK s \in Users, t \in Users \cup {NoUser}, c \in ConversationIds, m \in Nat :
          /\ s = req[r].user /\ t = req[r].to /\ c = req[r].conv
          /\ m = Len(messages) + 1
  BY <1>1, Lengths DEF Safe, Sound, Holding, Request
<1>3. PICK q : q = [req[r] EXCEPT !.pc = "find", !.msg = m]
  OBVIOUS
<1>4. Become(r, q) /\ MessageInserted(s, c, t, m) /\ UNCHANGED <<conversations, events, seen>>
  BY <1>2, <1>3 DEF Save, MessageInserted
<1>5. /\ Keeps
      /\ messages' \in Seq(Message)
      /\ meant' \in Seq(Users \cup {NoUser}) /\ Len(meant') = Len(messages')
      /\ MessageIds' = MessageIds \cup {m} /\ m \notin MessageIds
      /\ messages'[m].conv = c /\ messages'[m].sender = s /\ meant'[m] = t
  BY <1>4, InsertMessage DEF Safe
<1>6. /\ q \in Request
      /\ q.pc = "find" /\ q.send /\ q.user = s /\ q.conv = c /\ q.msg = m
      /\ q.receivers = req[r].receivers
  BY <1>1, <1>2, <1>3 DEF Request, Sound
<1>7. /\ s \in Participants(c) /\ Participants(c)' = Participants(c)
      /\ q.receivers \subseteq Participants(c)
      /\ t = NoUser => q.receivers = Participants(c) \ {s}
      /\ t \notin {NoUser, s} => Participants(c) = {s, t}
  BY <1>1, <1>2, <1>5, <1>6 DEF Sound, Holding, Keeps
<1>8. ConversationIds' = ConversationIds
  BY <1>4 DEF ConversationIds
<1>9. Sound(q)'
  BY <1>2, <1>5, <1>6, <1>7, <1>8 DEF Sound, Holding, Saved
<1>10. /\ req' \in [Requests -> Request] /\ req'[r] = q
       /\ \A o \in Requests : o # r => req'[o] = req[o]
       /\ \A o \in Requests : Sound(req[o])'
       /\ \A o \in Requests :
             /\ req'[o].pc \in Holding => req'[o].conv \in ConversationIds'
             /\ req'[o].pc \in Saved => req'[o].msg \in MessageIds'
  BY <1>4, <1>5, <1>6, <1>8, <1>9, RequestsMove
<1>11. TypeOK'
  <2>1. \A k \in MessageIds' : messages'[k].conv \in ConversationIds'
    BY <1>5, <1>8, MessageTyped DEF Safe, Keeps
  <2> QED
    BY <1>4, <1>5, <1>10, <2>1 DEF Safe, TypeOK, Holding, Saved
<1>12. Once'
  <2>1. \A o \in Requests : Sending(req[o])' <=> Sending(req'[o])
    BY DEF Sending
  <2>2. \A o \in Requests : Sending(req[o]) => req[o].msg \in MessageIds
    BY DEF Safe, Sound, Sending
  <2>3. \A e \in events : e.msg \in MessageIds
    BY DEF Safe, EventsBelong
  <2>4. events' = events
    BY <1>4
  <2>5. ASSUME NEW o \in Requests, Sending(req'[o])
        PROVE  \/ o = r /\ req'[o].msg = m
               \/ o # r /\ req'[o] = req[o] /\ req'[o].msg \in MessageIds
    BY <1>6, <1>10, <2>2, <2>5
  <2>6. \A o \in Requests : \A e \in events :
            Sending(req'[o]) /\ e.kind = "message" => e.msg # req'[o].msg
    BY <1>5, <2>3, <2>5 DEF Safe, Once
  <2>7. \A o, p \in Requests :
            o # p /\ Sending(req'[o]) /\ Sending(req'[p]) => req'[o].msg # req'[p].msg
    BY <1>5, <2>5 DEF Safe, Once
  <2> QED
    BY <2>1, <2>4, <2>6, <2>7 DEF Once
<1>13. \A k \in MessageIds :
           /\ Participants(messages[k].conv)' = Participants(messages[k].conv)
           /\ Others(k)' = Others(k)
  BY <1>5, MessageTyped DEF Safe, Keeps, Others
<1>14. SendersBelong'
  <2>1. \A k \in MessageIds : messages'[k].sender \in Participants(messages[k].conv)'
    BY <1>5, <1>13 DEF Safe, SendersBelong, Keeps
  <2>2. messages'[m].sender \in Participants(messages[m].conv)'
    BY <1>5, <1>7
  <2> QED
    BY <1>5, <2>1, <2>2 DEF SendersBelong
<1>15. EventsBelong'
  BY <1>4, <1>5, <1>13 DEF Safe, EventsBelong, Keeps
<1>16. DuplicatesOnlyFromOverlap'
  BY <1>5, <1>8 DEF Safe, DuplicatesOnlyFromOverlap, Keeps
<1>17. RoutedToPair'
  <2>1. ASSUME NEW k \in MessageIds, meant'[k] \notin {NoUser, messages'[k].sender}
        PROVE  Participants(messages[k].conv)' = {messages'[k].sender, meant'[k]}
    BY <1>5, <1>13, <2>1 DEF Safe, RoutedToPair, Keeps
  <2>2. meant'[m] \notin {NoUser, messages'[m].sender} =>
            Participants(messages[m].conv)' = {messages'[m].sender, meant'[m]}
    BY <1>5, <1>7
  <2> QED
    BY <1>5, <2>1, <2>2 DEF RoutedToPair
<1>18. PointerInConversation'
  BY <1>4, <1>5, <1>8 DEF Safe, PointerInConversation, Keeps
<1>19. ByIdReachesBoth'
  BY <1>4, <1>5, <1>13 DEF Safe, EventsBelong, ByIdReachesBoth, Keeps
<1> QED
  BY <1>5, <1>10, <1>11, <1>12, <1>14, <1>15, <1>16, <1>17, <1>18, <1>19 DEF Safe

\* A written read pointer moves no participant.
LEMMA MarkSafe ==
    ASSUME Safe, NEW r \in Requests, Mark(r)
    PROVE  Safe' /\ Keeps
<1>1. req[r] \in Request /\ Sound(req[r]) /\ req[r].pc = "mark"
  BY RequestTyped DEF Safe, Mark
<1>2. PICK c \in ConversationIds, m \in MessageIds, i \in Side :
          c = req[r].conv /\ m = req[r].msg /\ i = req[r].side
  BY <1>1 DEF Sound, Holding, Saved, Request
<1>3. PICK q : q = [req[r] EXCEPT !.pc = "emit"]
  OBVIOUS
<1>4. PICK new : new = [conversations[c] EXCEPT !.read[i] = m]
  OBVIOUS
<1>5. /\ Become(r, q) /\ UNCHANGED <<messages, events, seen, meant>>
      /\ \/ conversations' = conversations
         \/ conversations' = [conversations EXCEPT ![c] = new]
  <2>1. [conversations EXCEPT ![req[r].conv].read[req[r].side] = req[r].msg]
            = [conversations EXCEPT ![c] = new]
    BY <1>2, <1>4
  <2> QED
    BY <1>3, <2>1 DEF Mark
<1>6. /\ new \in Conversation /\ new.user = conversations[c].user
      /\ \A j \in Side : new.read[j] = IF j = i THEN m ELSE conversations[c].read[j]
  BY <1>4, ConversationTyped, MessageTyped DEF Safe, Conversation
<1>7. /\ conversations' \in Seq(Conversation) /\ Len(conversations') = Len(conversations)
      /\ \A d \in ConversationIds :
            \/ conversations'[d] = conversations[d]
            \/ d = c /\ conversations'[d] = new
  <2>1. CASE conversations' = conversations
    BY <2>1 DEF Safe, TypeOK
  <2>2. CASE conversations' = [conversations EXCEPT ![c] = new]
    BY <1>6, <2>2, ExceptSeq DEF Safe, TypeOK, ConversationIds
  <2> QED
    BY <1>5, <2>1, <2>2
<1>8. ConversationIds' = ConversationIds /\ MessageIds' = MessageIds
  BY <1>5, <1>7 DEF ConversationIds, MessageIds
<1>9. \A d \in ConversationIds : Participants(d)' = Participants(d)
  BY <1>6, <1>7 DEF Participants
<1>10. Keeps
  BY <1>5, <1>7, <1>8, <1>9, Lengths DEF Safe, Keeps
<1>11. /\ q \in Request
       /\ q.pc = "emit" /\ q.send = req[r].send /\ q.user = req[r].user
       /\ q.conv = c /\ q.msg = m /\ q.receivers = req[r].receivers
  BY <1>1, <1>2, <1>3 DEF Request
<1>12. Sound(q) /\ (Sending(q) => Sending(req[r]))
  BY <1>1, <1>2, <1>11 DEF Sound, Sending, Holding, Saved
<1>13. Sound(q)'
  BY <1>8, <1>10, <1>12, SoundKept
<1>14. /\ req' \in [Requests -> Request] /\ req'[r] = q
       /\ \A o \in Requests : o # r => req'[o] = req[o]
       /\ \A o \in Requests : Sound(req[o])'
       /\ \A o \in Requests :
             /\ req'[o].pc \in Holding => req'[o].conv \in ConversationIds'
             /\ req'[o].pc \in Saved => req'[o].msg \in MessageIds'
  BY <1>5, <1>8, <1>10, <1>11, <1>13, RequestsMove
<1>15. TypeOK'
  BY <1>5, <1>7, <1>8, <1>14 DEF Safe, TypeOK, Holding, Saved
<1>16. Once'
  BY <1>2, <1>5, <1>11, <1>12, <1>14, OnceKept
<1>17. SendersBelong' /\ EventsBelong' /\ RoutedToPair' /\ ByIdReachesBoth'
  BY <1>5, <1>10, MessagesKept
<1>18. DuplicatesOnlyFromOverlap'
  BY <1>8, <1>10 DEF Safe, DuplicatesOnlyFromOverlap, Keeps
<1>19. PointerInConversation'
  <2>1. messages[m].conv = c
    BY <1>1, <1>2 DEF Sound, Saved
  <2>2. ASSUME NEW d \in ConversationIds, NEW j \in Side, conversations'[d].read[j] # 0
        PROVE  /\ conversations'[d].read[j] \in MessageIds
               /\ messages[conversations'[d].read[j]].conv = d
    <3>1. CASE conversations'[d].read[j] = conversations[d].read[j]
      BY <2>2, <3>1 DEF Safe, PointerInConversation
    <3>2. CASE d = c /\ conversations'[d].read[j] = m
      BY <2>1, <3>2
    <3> QED
      BY <1>6, <1>7, <3>1, <3>2
  <2> QED
    BY <1>5, <1>8, <2>2 DEF PointerInConversation
<1> QED
  BY <1>10, <1>14, <1>15, <1>16, <1>17, <1>18, <1>19 DEF Safe

LEMMA CrashSafe ==
    ASSUME Safe, Crash
    PROVE  Safe'
<1>1. /\ \A r \in Requests : req'[r] = Idle
      /\ req' \in [Requests -> Request]
      /\ UNCHANGED <<conversations, messages, events, seen, meant>>
  BY IdleIsRequest DEF Crash
<1>2. Keeps /\ ConversationIds' = ConversationIds /\ MessageIds' = MessageIds
  BY <1>1, UnchangedKeeps DEF Safe
<1>3. TypeOK'
  BY <1>1, <1>2, IdleIsRequest DEF Safe, TypeOK
<1>4. (\A r \in Requests : Sound(req[r])') /\ Once'
  BY <1>1, IdleIsRequest DEF Sound, Once, Sending, Holding, Saved
<1>5. SendersBelong' /\ EventsBelong' /\ RoutedToPair' /\ ByIdReachesBoth'
  BY <1>1, <1>2, MessagesKept
<1>6. DuplicatesOnlyFromOverlap' /\ PointerInConversation'
  BY <1>1, <1>2 DEF Safe, DuplicatesOnlyFromOverlap, PointerInConversation, Keeps
<1> QED
  BY <1>3, <1>4, <1>5, <1>6 DEF Safe

LEMMA EmissionTyped ==
    ASSUME NEW q \in Request, q.msg \in Nat, q.user \in Users, NEW e \in Emission(q)
    PROVE  /\ e \in Event /\ e.msg = q.msg
           /\ e.kind = "message" => q.send /\ e.to = {q.user} \cup q.receivers
           /\ e.kind = "message_notification" => q.send /\ e.to = Rooms(q.receivers)
<1>1. q.receivers \subseteq Users /\ Rooms(q.receivers) \subseteq Users
  BY DEF Request, Rooms
<1>2. CASE q.send
  BY <1>1, <1>2 DEF Emission, Event
<1>3. CASE ~ q.send
  BY <1>3 DEF Emission, Event
<1> QED
  BY <1>2, <1>3

LEMMA EmitSafe ==
    ASSUME Safe, NEW r \in Requests, Emit(r)
    PROVE  Safe' /\ Keeps
<1>1. PICK p \in Request : p = req[r] /\ Sound(p) /\ p.pc = "emit"
  BY RequestTyped DEF Safe, Emit
<1>2. PICK m \in MessageIds : m = p.msg /\ m \in Nat
  BY <1>1, MessageTyped DEF Safe, Sound, Saved
<1>3. /\ events' = events \cup Emission(p) /\ Become(r, Idle)
      /\ UNCHANGED <<conversations, messages, seen, meant>>
  BY <1>1 DEF Emit
<1>4. \A e \in Emission(p) :
          /\ e \in Event /\ e.msg = m
          /\ e.kind = "message" => p.send /\ e.to = {p.user} \cup p.receivers
          /\ e.kind = "message_notification" => p.send /\ e.to = Rooms(p.receivers)
  BY <1>1, <1>2, EmissionTyped DEF Sound, Holding
<1>5. Keeps /\ ConversationIds' = ConversationIds /\ MessageIds' = MessageIds
  BY <1>3, UnchangedKeeps DEF Safe
<1>6. Sound(Idle)'
  BY IdleIsRequest DEF Sound, Holding, Saved
<1>7. /\ req' \in [Requests -> Request] /\ req'[r] = Idle
      /\ \A o \in Requests : o # r => req'[o] = req[o]
      /\ \A o \in Requests : Sound(req[o])'
      /\ \A o \in Requests :
            /\ req'[o].pc \in Holding => req'[o].conv \in ConversationIds'
            /\ req'[o].pc \in Saved => req'[o].msg \in MessageIds'
  BY <1>3, <1>5, <1>6, IdleIsRequest, RequestsMove
<1>8. TypeOK'
  <2>1. events' \subseteq Event
    BY <1>3, <1>4 DEF Safe, TypeOK
  <2> QED
    BY <1>3, <1>5, <1>7, <2>1 DEF Safe, TypeOK, Holding, Saved
<1>9. Once'
  <2>1. \A o \in Requests : Sending(req[o])' <=> Sending(req'[o])
    BY DEF Sending
  <2>2. ASSUME NEW o \in Requests, Sending(req'[o])
        PROVE  o # r /\ req'[o] = req[o]
    BY <1>7, <2>2, IdleIsRequest DEF Sending, Saved
  <2>3. ASSUME NEW o \in Requests, NEW e \in events', Sending(req'[o]), e.kind = "message"
        PROVE  e.msg # req'[o].msg
    <3>1. CASE e \in events
      BY <2>2, <2>3, <3>1 DEF Safe, Once
    <3>2. CASE e \in Emission(p)
      <4>1. e.msg = req[r].msg /\ Sending(req[r])
        BY <1>1, <1>2, <1>4, <2>3, <3>2 DEF Sending, Saved
      <4> QED
        BY <2>2, <2>3, <4>1 DEF Safe, Once
    <3> QED
      BY <1>3, <3>1, <3>2
  <2>4. \A o, k \in Requests :
            o # k /\ Sending(req'[o]) /\ Sending(req'[k]) => req'[o].msg # req'[k].msg
    BY <2>2 DEF Safe, Once
  <2> QED
    BY <2>1, <2>3, <2>4 DEF Once
<1>10. \A k \in MessageIds :
           /\ Participants(messages[k].conv)' = Participants(messages[k].conv)
           /\ Others(k)' = Others(k)
  BY <1>3, <1>5, MessageTyped DEF Safe, Keeps, Others
<1>11. SendersBelong' /\ RoutedToPair'
  BY <1>3, <1>5, <1>10 DEF Safe, SendersBelong, RoutedToPair
<1>12. p.send => /\ messages[m].sender = p.user /\ messages[m].conv = p.conv
                 /\ p.user \in Participants(p.conv)
                 /\ p.receivers \subseteq Participants(p.conv)
                 /\ meant[m] = NoUser => p.receivers = Participants(p.conv) \ {p.user}
  BY <1>1, <1>2 DEF Sound, Holding, Saved
<1>13. EventsBelong'
  <2>1. ASSUME NEW e \in events'
        PROVE  /\ e.msg \in MessageIds
               /\ e.kind = "message" =>
                     /\ messages[e.msg].sender \in e.to
                     /\ e.to \subseteq Participants(messages[e.msg].conv)
    <3>1. CASE e \in events
      BY <3>1 DEF Safe, EventsBelong
    <3>2. CASE e \in Emission(p)
      BY <1>2, <1>4, <1>12, <3>2
    <3> QED
      BY <1>3, <3>1, <3>2
  <2> QED
    BY <1>3, <1>5, <1>10, <2>1 DEF EventsBelong
<1>14. ByIdReachesBoth'
  <2>1. ASSUME NEW e \in events', e.kind # "read_message", meant[e.msg] = NoUser,
               Others(e.msg) # {}
        PROVE  e.to = IF e.kind = "message" THEN Participants(messages[e.msg].conv)
                      ELSE Others(e.msg)
    <3>1. CASE e \in events
      BY <2>1, <3>1 DEF Safe, ByIdReachesBoth
    <3>2. CASE e \in Emission(p)
      <4>1. e.msg = m /\ e.kind \in {"message", "message_notification"}
        BY <1>4, <2>1, <3>2 DEF Event
      <4>2. p.send /\ p.receivers = Others(m)
        BY <1>4, <1>12, <2>1, <3>2, <4>1 DEF Others
      <4>3. {p.user} \cup p.receivers = Participants(messages[m].conv)
        BY <1>12, <4>2 DEF Others
      <4>4. Rooms(p.receivers) = Others(m)
        BY <2>1, <4>1, <4>2 DEF Rooms
      <4> QED
        BY <1>4, <3>2, <4>1, <4>3, <4>4
    <3> QED
      BY <1>3, <3>1, <3>2
  <2>2. \A e \in events' : e.msg \in MessageIds
    BY <1>5, <1>13 DEF EventsBelong
  <2> QED
    BY <1>3, <1>10, <2>1, <2>2 DEF ByIdReachesBoth
<1>15. DuplicatesOnlyFromOverlap' /\ PointerInConversation'
  BY <1>3, <1>5 DEF Safe, DuplicatesOnlyFromOverlap, PointerInConversation, Keeps
<1> QED
  BY <1>5, <1>7, <1>8, <1>9, <1>11, <1>13, <1>14, <1>15 DEF Safe

LEMMA NextSafe ==
    ASSUME Safe, [Next]_vars
    PROVE  Safe'
<1>1. CASE UNCHANGED vars
  <2>1. Keeps /\ ConversationIds' = ConversationIds /\ MessageIds' = MessageIds
    BY <1>1, UnchangedKeeps DEF Safe, vars
  <2>2. TypeOK' /\ Once'
    BY <1>1, <2>1 DEF Safe, TypeOK, Once, Sending, vars
  <2>3. \A r \in Requests : Sound(req[r])'
    <3> SUFFICES ASSUME NEW r \in Requests PROVE Sound(req[r])'
      OBVIOUS
    <3>1. PICK q : q = req[r]
      OBVIOUS
    <3>2. Sound(q) /\ q = req'[r]
      BY <1>1, <3>1 DEF Safe, vars
    <3>3. Sound(q)'
      BY <2>1, <3>2, SoundKept
    <3> QED
      BY <3>2, <3>3 DEF Sound
  <2>4. SendersBelong' /\ EventsBelong' /\ RoutedToPair' /\ ByIdReachesBoth'
    BY <1>1, <2>1, MessagesKept DEF vars
  <2>5. DuplicatesOnlyFromOverlap' /\ PointerInConversation'
    BY <1>1, <2>1 DEF vars, Safe, DuplicatesOnlyFromOverlap, PointerInConversation, Keeps
  <2> QED
    BY <2>2, <2>3, <2>4, <2>5 DEF Safe
<1>2. ASSUME NEW r \in Requests, Arrive(r) PROVE Safe'
  BY <1>2, LookUpSafe, LookUpNoneSafe, OpenSafe, ReadMessageSafe DEF Arrive
<1>3. ASSUME NEW r \in Requests, Proceed(r) PROVE Safe'
  BY <1>3, CreateSafe, SaveSafe, FindRowSafe, MarkSafe, EmitSafe DEF Proceed
<1> QED
  BY <1>1, <1>2, <1>3, FailSafe, CrashSafe DEF Next, Serve

----------------------------------------------------------------------------
\* TypeOK is an invariant.
THEOREM Typing == Spec => []TypeOK
<1>1. Safe /\ [Next]_vars => Safe'
  BY NextSafe
<1> QED
  BY InitSafe, <1>1, PTL DEF Spec, Safe

\* A pair has two conversations only if their creations overlapped.
THEOREM DuplicatesNeedOverlap == Spec => []DuplicatesOnlyFromOverlap
<1>1. Safe /\ [Next]_vars => Safe'
  BY NextSafe
<1> QED
  BY InitSafe, <1>1, PTL DEF Spec, Safe

\* A message addressed to another user is between its sender and that user.
THEOREM Routing == Spec => []RoutedToPair
<1>1. Safe /\ [Next]_vars => Safe'
  BY NextSafe
<1> QED
  BY InitSafe, <1>1, PTL DEF Spec, Safe

\* Read pointers stay in their conversation.
THEOREM Pointers == Spec => []PointerInConversation
<1>1. Safe /\ [Next]_vars => Safe'
  BY NextSafe
<1> QED
  BY InitSafe, <1>1, PTL DEF Spec, Safe

\* A message to a conversation and its notification reach the right users.
THEOREM Delivery == Spec => []ByIdReachesBoth
<1>1. Safe /\ [Next]_vars => Safe'
  BY NextSafe
<1> QED
  BY InitSafe, <1>1, PTL DEF Spec, Safe

----------------------------------------------------------------------------
(* Chat implements PairLog.                                                *)

Row == [pair : SUBSET Users, sender : Users]

LogTyped ==
    /\ Posted \in Seq(Row) /\ Len(Posted) = Len(messages)
    /\ Reached \in Seq(SUBSET Users) /\ Len(Reached) = Len(messages)

LEMMA SafeLogTyped == Safe => LogTyped
<1> SUFFICES ASSUME Safe PROVE LogTyped
  OBVIOUS
<1>1. Len(messages) \in Nat /\ MessageIds = 1..Len(messages)
  BY Lengths DEF Safe, MessageIds
<1>2. Posted \in [1..Len(messages) -> Row]
  <2>1. ASSUME NEW m \in MessageIds
        PROVE  [pair |-> Participants(messages[m].conv), sender |-> messages[m].sender] \in Row
    <3>1. messages[m].sender \in Users /\ Participants(messages[m].conv) \subseteq Users
      BY MessageTyped, ConversationTyped DEF Safe, Message
    <3> QED
      BY <3>1 DEF Row
  <2> QED
    BY <1>1, <2>1 DEF Posted
<1>3. Reached \in [1..Len(messages) -> SUBSET Users]
  <2>1. ASSUME NEW m \in MessageIds PROVE UNION {e.to : e \in Contents(m)} \subseteq Users
    BY DEF Safe, TypeOK, Contents, Event
  <2> QED
    BY <1>1, <2>1 DEF Reached
<1>4. Posted \in Seq(Row) /\ Reached \in Seq(SUBSET Users)
  BY <1>1, <1>2, <1>3, SeqDef
<1>5. Len(Posted) = Len(messages) /\ Len(Reached) = Len(messages)
  BY <1>1, <1>2, <1>3, <1>4, LenProperties
<1> QED
  BY <1>4, <1>5 DEF LogTyped

LEMMA SafeLogTypedNext == Safe' => LogTyped'
<1>1. Safe => LogTyped
  BY SafeLogTyped
<1> QED
  BY <1>1, PTL

\* Nothing that leaves messages and events alone shows in the log.
LEMMA InvisibleStep ==
    ASSUME Safe, Keeps, UNCHANGED <<messages, events>>
    PROVE  UNCHANGED <<Posted, Reached>>
<1>1. MessageIds' = MessageIds
  BY DEF MessageIds
<1>2. \A m \in MessageIds :
          Participants(messages[m].conv)' = Participants(messages[m].conv)
  BY MessageTyped DEF Safe, Keeps
<1>3. \A m \in MessageIds : Contents(m)' = Contents(m)
  BY DEF Contents
<1> QED
  BY <1>1, <1>2, <1>3 DEF Posted, Reached

\* A saved message is posted to the pair of its conversation.
LEMMA SavePosts ==
    ASSUME Safe, Safe', NEW r \in Requests, Save(r)
    PROVE  \E s, t \in Users : Log!Post({s, t}, s)
<1>1. Keeps
  BY SaveSafe
<1>2. PICK c, s : c = req[r].conv /\ s = req[r].user
  OBVIOUS
<1>3. c \in ConversationIds /\ s \in Participants(c)
  BY <1>2 DEF Safe, Sound, Holding, Save
<1>4. PICK t \in Users : {s, t} = Participants(c)
  BY <1>3, ConversationTyped DEF Safe, Participants, Side
<1>5. PICK m : m = Len(messages) + 1
  OBVIOUS
<1>6. messages' = Append(messages, [conv |-> c, sender |-> s]) /\ UNCHANGED events
  BY <1>2 DEF Save
<1>7. Len(messages) \in Nat /\ m \in Nat /\ MessageIds = 1..Len(messages)
  BY <1>5, Lengths DEF Safe, MessageIds
<1>8. Len(messages') = m /\ messages'[m].conv = c /\ messages'[m].sender = s
  BY <1>3, <1>4, <1>5, <1>6, <1>7, ConversationTyped, AppendProperties DEF Safe, TypeOK, Message
<1>9. LogTyped /\ LogTyped'
  BY SafeLogTyped, SafeLogTypedNext
<1>10. MessageIds' = 1..m /\ s \in Users
  BY <1>3, <1>8, ConversationTyped DEF Safe, MessageIds
<1>11. ASSUME NEW k \in 1..Len(messages)
       PROVE  Posted'[k] = Posted[k] /\ Reached'[k] = Reached[k]
  <2>1. k \in MessageIds /\ k \in MessageIds' /\ messages'[k] = messages[k]
    BY <1>1, <1>7, <1>11 DEF Keeps
  <2>2. Participants(messages[k].conv)' = Participants(messages[k].conv)
    BY <1>1, <2>1, MessageTyped DEF Safe, Keeps
  <2>3. Contents(k)' = Contents(k)
    BY <1>6 DEF Contents
  <2> QED
    BY <2>1, <2>2, <2>3 DEF Posted, Reached
<1>12. Posted'[m] = [pair |-> {s, t}, sender |-> s]
  <2>1. Participants(messages[m].conv)' = {s, t}
    BY <1>1, <1>3, <1>4, <1>8 DEF Keeps
  <2>2. m \in MessageIds'
    BY <1>5, <1>7, <1>10
  <2> QED
    BY <1>8, <2>1, <2>2 DEF Posted
<1>13. Reached'[m] = {}
  <2>1. Contents(m)' = {}
    BY <1>5, <1>6, <1>7 DEF Safe, EventsBelong, Contents
  <2>2. m \in MessageIds'
    BY <1>5, <1>7, <1>10
  <2> QED
    BY <2>1, <2>2 DEF Reached
<1>14. Posted' = Append(Posted, [pair |-> {s, t}, sender |-> s])
  <2> DEFINE x == [pair |-> {s, t}, sender |-> s]
  <2>1. x \in Row
    BY <1>10 DEF Row
  <2>2. /\ Append(Posted, x) \in Seq(Row) /\ Len(Append(Posted, x)) = m
        /\ \A k \in 1..Len(messages) : Append(Posted, x)[k] = Posted[k]
        /\ Append(Posted, x)[m] = x
    BY <1>5, <1>9, <2>1, AppendProperties DEF LogTyped
  <2>3. Posted' \in Seq(Row) /\ Len(Posted') = m
    BY <1>8, <1>9 DEF LogTyped
  <2>4. \A k \in 1..m : Posted'[k] = Append(Posted, x)[k]
    BY <1>5, <1>7, <1>11, <1>12, <2>2
  <2> HIDE DEF x
  <2>5. Posted' = Append(Posted, x)
    BY <2>2, <2>3, <2>4, SeqEqual
  <2> QED
    BY <2>5 DEF x
<1>15. Reached' = Append(Reached, {})
  <2>1. /\ Append(Reached, {}) \in Seq(SUBSET Users) /\ Len(Append(Reached, {})) = m
        /\ \A k \in 1..Len(messages) : Append(Reached, {})[k] = Reached[k]
        /\ Append(Reached, {})[m] = {}
    BY <1>5, <1>9, AppendProperties DEF LogTyped
  <2>2. Reached' \in Seq(SUBSET Users) /\ Len(Reached') = m
    BY <1>8, <1>9 DEF LogTyped
  <2>3. \A k \in 1..m : k \in 1..Len(messages) \/ k = m
    BY <1>5, <1>7
  <2>4. \A k \in 1..m : Reached'[k] = Append(Reached, {})[k]
    BY <1>11, <1>13, <2>1, <2>3
  <2> QED
    BY <2>1, <2>2, <2>4, SeqEqual
<1> QED
  BY <1>10, <1>14, <1>15 DEF Log!Post

\* An emission delivers its message, for the first time; a read mark is invisible.
LEMMA EmitDelivers ==
    ASSUME Safe, Safe', NEW r \in Requests, Emit(r)
    PROVE  \/ \E m \in 1..Len(Posted) : \E us \in SUBSET Posted[m].pair : Log!Deliver(m, us)
           \/ UNCHANGED <<Posted, Reached>>
<1>1. Keeps /\ MessageIds' = MessageIds
  BY EmitSafe DEF Emit, MessageIds
<1>2. PICK p \in Request : p = req[r] /\ Sound(p) /\ p.pc = "emit"
  BY RequestTyped DEF Safe, Emit
<1>3. PICK m \in MessageIds : m = p.msg
  BY <1>2 DEF Sound, Saved
<1>4. events' = events \cup Emission(p) /\ UNCHANGED messages
  BY <1>2 DEF Emit
<1>5. \A k \in MessageIds : Posted'[k] = Posted[k] /\ k \in MessageIds'
  BY <1>1, <1>4, MessageTyped DEF Safe, Keeps, Posted
<1>6. Posted' = Posted
  BY <1>1, <1>4, MessageTyped DEF Safe, Keeps, Posted
<1>7. CASE ~ p.send
  <2>1. \A k \in MessageIds : Contents(k)' = Contents(k)
    BY <1>4, <1>7 DEF Contents, Emission
  <2>2. Reached' = Reached
    BY <1>1, <2>1 DEF Reached
  <2> QED
    BY <1>6, <2>2
<1>8. CASE p.send
  <2>1. PICK us : us = {p.user} \cup p.receivers
    OBVIOUS
  <2>2. /\ p.user \in us /\ us \subseteq Posted[m].pair /\ Posted[m].sender = p.user
    BY <1>2, <1>3, <1>8, <2>1 DEF Sound, Holding, Saved, Posted
  <2>3. Contents(m) = {}
    BY <1>2, <1>3, <1>8 DEF Safe, Once, Sending, Saved, Contents
  <2>4. Contents(m)' = {[kind |-> "message", msg |-> m, to |-> us]}
    <3>1. Contents(m)' = {e \in Emission(p) : e.kind = "message" /\ e.msg = m}
      BY <1>4, <2>3 DEF Contents
    <3> QED
      BY <1>3, <1>8, <2>1, <3>1 DEF Emission
  <2>5. \A k \in MessageIds : k # m => Contents(k)' = Contents(k)
    BY <1>3, <1>4, <1>8 DEF Contents, Emission
  <2>6. Reached[m] = {} /\ Reached'[m] = us
    <3>1. Reached[m] = {}
      BY <2>3 DEF Reached
    <3>2. UNION {e.to : e \in {[kind |-> "message", msg |-> m, to |-> us]}} = us
      OBVIOUS
    <3> QED
      BY <1>1, <2>4, <3>1, <3>2 DEF Reached
  <2>7. Reached' = [Reached EXCEPT ![m] = us]
    BY <1>1, <2>5, <2>6 DEF Reached
  <2>8. Log!Deliver(m, us)
    BY <1>6, <2>2, <2>6, <2>7 DEF Log!Deliver
  <2>9. m \in 1..Len(Posted)
    BY SafeLogTyped DEF LogTyped, MessageIds
  <2> QED
    BY <2>2, <2>8, <2>9
<1> QED
  BY <1>7, <1>8

LEMMA StepImplements ==
    ASSUME Safe, Safe', [Next]_vars
    PROVE  [Log!Next]_(Log!vars)
<1>1. ASSUME UNCHANGED <<conversations, messages, events, seen, meant>>
      PROVE  UNCHANGED <<Posted, Reached>>
  BY <1>1, UnchangedKeeps, InvisibleStep DEF Safe
<1>2. ASSUME NEW r \in Requests, Create(r) \/ Mark(r) PROVE UNCHANGED <<Posted, Reached>>
  <2>1. Keeps
    BY <1>2, CreateSafe, MarkSafe
  <2> QED
    BY <1>2, <2>1, InvisibleStep DEF Create, Mark
<1>3. ASSUME NEW r \in Requests, Save(r) PROVE Log!Next
  BY <1>3, SavePosts DEF Log!Next
<1>4. ASSUME NEW r \in Requests, Emit(r) PROVE Log!Next \/ UNCHANGED <<Posted, Reached>>
  BY <1>4, EmitDelivers DEF Log!Next
<1>5. \/ UNCHANGED <<conversations, messages, events, seen, meant>>
      \/ \E r \in Requests : Create(r) \/ Mark(r) \/ Save(r) \/ Emit(r)
  BY DEF Next, Serve, Arrive, Proceed, LookUp, LookUpNone, Open, ReadMessage, FindRow,
     Fail, Crash, vars
<1> QED
  BY <1>1, <1>2, <1>3, <1>4, <1>5 DEF Log!vars

LEMMA InitImplements == Init => Log!Init
  BY DEF Init, Log!Init, Posted, Reached, MessageIds

\* Chat implements the log of pairs.
THEOREM Implements == Spec => ImplementsPairLog
<1>1. Safe /\ [Next]_vars => Safe'
  BY NextSafe
<1>2. Safe /\ Safe' /\ [Next]_vars => [Log!Next]_(Log!vars)
  BY StepImplements
<1> QED
  BY InitSafe, InitImplements, <1>1, <1>2, PTL DEF Spec, ImplementsPairLog, Log!Spec

----------------------------------------------------------------------------
(* What SavedIsEmitted rests on: the steps of LiveSpec keep NothingForgotten. *)

Emitted(m) == \E e \in events : e.kind = "message" /\ e.msg = m
Held(m) == \E r \in Requests : Sending(req[r]) /\ req[r].msg = m

NothingForgotten == \A m \in MessageIds : Emitted(m) \/ Held(m)

\* FindRow, the one step that can stop a handler, finds the sender's row.
SendersAreFound == \A r \in Requests :
    Sending(req[r]) => req[r].user \in Participants(req[r].conv)

\* A step that saves nothing forgets nothing, if the message the handler held
\* is still held, or emitted.
LEMMA NothingForgottenKept ==
    ASSUME NothingForgotten, NEW r \in Requests, MessageIds' = MessageIds,
           events \subseteq events',
           \A o \in Requests : o # r => req'[o] = req[o],
           Sending(req[r]) =>
               \/ Sending(req'[r]) /\ req'[r].msg = req[r].msg
               \/ \E e \in events' : e.kind = "message" /\ e.msg = req[r].msg
    PROVE  NothingForgotten'
<1> SUFFICES ASSUME NEW m \in MessageIds PROVE Emitted(m)' \/ Held(m)'
  BY DEF NothingForgotten
<1>1. CASE Emitted(m)
  BY <1>1 DEF Emitted
<1>2. ASSUME NEW o \in Requests, Sending(req[o]), req[o].msg = m
      PROVE  Emitted(m)' \/ Held(m)'
  <2>1. CASE o = r
    BY <1>2, <2>1 DEF Emitted, Held, Sending
  <2>2. CASE o # r
    BY <1>2, <2>2 DEF Held, Sending
  <2> QED
    BY <2>1, <2>2
<1> QED
  BY <1>1, <1>2 DEF NothingForgotten, Held

\* The message a handler saves is its own from then on.
LEMMA SaveHolds ==
    ASSUME Safe, NothingForgotten, NEW r \in Requests, Save(r)
    PROVE  NothingForgotten'
<1>1. PICK p \in Request : p = req[r] /\ Sound(p) /\ p.pc = "save"
  BY RequestTyped DEF Safe, Save
<1>2. PICK m \in Nat : m = Len(messages) + 1
  BY Lengths DEF Safe
<1>3. PICK q : q = [p EXCEPT !.pc = "find", !.msg = m]
  OBVIOUS
<1>4. q \in Request /\ Sending(q) /\ q.msg = m
  BY <1>1, <1>2, <1>3 DEF Request, Sound, Sending, Saved
<1>5. Become(r, q) /\ UNCHANGED events
  BY <1>1, <1>2, <1>3 DEF Save
<1>6. req'[r] = q /\ \A o \in Requests : o # r => req'[o] = req[o]
  BY <1>4, <1>5, BecomeChangesOne DEF Safe, TypeOK
<1>7. ~ Sending(req[r])
  BY <1>1 DEF Sending, Saved
<1>8. MessageIds' = MessageIds \cup {m}
  <2>1. Len(messages') = m
    BY <1>2, AppendProperties DEF Save, Safe, TypeOK
  <2> QED
    BY <1>2, <2>1, Lengths DEF MessageIds, Safe
<1>9. Held(m)'
  BY <1>4, <1>6 DEF Held, Sending
<1>10. ASSUME NEW k \in MessageIds PROVE Emitted(k)' \/ Held(k)'
  <2>1. CASE Emitted(k)
    BY <1>5, <2>1 DEF Emitted
  <2>2. CASE Held(k)
    BY <1>6, <1>7, <2>2 DEF Held, Sending
  <2> QED
    BY <2>1, <2>2 DEF NothingForgotten
<1> QED
  BY <1>8, <1>9, <1>10 DEF NothingForgotten

\* The steps between the insert and the emission keep the message in hand.
LEMMA MarkHolds ==
    ASSUME Safe, NothingForgotten, NEW r \in Requests, FindRow(r) \/ Mark(r)
    PROVE  NothingForgotten'
<1>1. PICK p \in Request : p = req[r] /\ Sound(p) /\ p.pc \in {"find", "mark"}
  BY RequestTyped DEF Safe, FindRow, Mark
<1>2. UNCHANGED <<messages, events>> /\ MessageIds' = MessageIds
  BY DEF FindRow, Mark, MessageIds
<1>3. PICK q \in Request : Become(r, q) /\ (Sending(p) => Sending(q) /\ q.msg = p.msg)
  <2>1. CASE Become(r, [p EXCEPT !.pc = "emit"])
    <3>1. PICK q : q = [p EXCEPT !.pc = "emit"]
      OBVIOUS
    <3>2. q \in Request /\ q.pc = "emit" /\ q.send = p.send /\ q.msg = p.msg
      BY <3>1 DEF Request
    <3> QED
      BY <2>1, <3>1, <3>2 DEF Sending, Saved
  <2>2. CASE p.user \notin Participants(p.conv) /\ Become(r, Idle)
    <3>1. ~ Sending(p)
      BY <1>1, <2>2 DEF Sound, Sending, Holding, Saved
    <3> QED
      BY <2>2, <3>1, IdleIsRequest
  <2>3. ASSUME NEW i \in Side, NEW n \in Nat,
               Become(r, [p EXCEPT !.pc = "mark", !.side = i, !.read = n])
        PROVE  \E q \in Request : Become(r, q) /\ (Sending(p) => Sending(q) /\ q.msg = p.msg)
    <3>1. PICK q : q = [p EXCEPT !.pc = "mark", !.side = i, !.read = n]
      OBVIOUS
    <3>2. q \in Request /\ q.pc = "mark" /\ q.send = p.send /\ q.msg = p.msg
      BY <3>1 DEF Request
    <3> QED
      BY <2>3, <3>1, <3>2 DEF Sending, Saved
  <2>4. \A i \in Side : conversations[p.conv].read[i] \in Nat
    BY <1>1, ConversationTyped DEF Safe, Sound, Holding, Conversation
  <2> QED
    BY <1>1, <2>1, <2>2, <2>3, <2>4 DEF FindRow, Mark
<1>4. req'[r] = q /\ \A o \in Requests : o # r => req'[o] = req[o]
  BY <1>3, BecomeChangesOne DEF Safe, TypeOK
<1> QED
  BY <1>1, <1>2, <1>3, <1>4, NothingForgottenKept

\* The handler lets go of its message when it has emitted it.
LEMMA EmitReleases ==
    ASSUME Safe, NothingForgotten, NEW r \in Requests, Emit(r)
    PROVE  NothingForgotten'
<1>1. MessageIds' = MessageIds /\ events' = events \cup Emission(req[r]) /\ Become(r, Idle)
  BY DEF Emit, MessageIds
<1>2. \A o \in Requests : o # r => req'[o] = req[o]
  BY <1>1, IdleIsRequest, BecomeChangesOne DEF Safe, TypeOK
<1>3. Sending(req[r]) => \E e \in Emission(req[r]) : e.kind = "message" /\ e.msg = req[r].msg
  BY DEF Sending, Emission
<1> QED
  BY <1>1, <1>2, <1>3, NothingForgottenKept

LEMMA ServeForgetsNothing ==
    ASSUME Safe, NothingForgotten, [Serve]_vars
    PROVE  NothingForgotten'
<1>1. ASSUME NEW r \in Requests, Arrive(r) \/ Create(r) PROVE NothingForgotten'
  <2>1. req[r].pc \in {"idle", "create"}
    BY <1>1, IdleIsRequest DEF Arrive, LookUp, LookUpNone, Open, ReadMessage, Create
  <2>2. UNCHANGED <<messages, events>>
    BY <1>1 DEF Arrive, LookUp, LookUpNone, Open, ReadMessage, Create
  <2>3. \E q : Become(r, q)
    BY <1>1 DEF Arrive, LookUp, LookUpNone, Open, ReadMessage, Create
  <2>4. \A o \in Requests : o # r => req'[o] = req[o]
    BY <2>3 DEF Become, Safe, TypeOK
  <2> QED
    BY <2>1, <2>2, <2>4, NothingForgottenKept DEF MessageIds, Sending, Saved
<1>2. ASSUME NEW r \in Requests, Proceed(r) PROVE NothingForgotten'
  BY <1>1, <1>2, SaveHolds, MarkHolds, EmitReleases DEF Proceed
<1>3. CASE UNCHANGED vars
  BY <1>3 DEF vars, NothingForgotten, MessageIds, Emitted, Held, Sending
<1> QED
  BY <1>1, <1>2, <1>3 DEF Serve

\* Without faults no saved message is forgotten: it was emitted, or the handler
\* that saved it still holds it; and that handler finds the row of its sender.
THEOREM NothingIsForgotten == LiveSpec => [](NothingForgotten /\ SendersAreFound)
<1>1. Init => NothingForgotten
  BY DEF Init, NothingForgotten, MessageIds
<1>2. Safe /\ [Serve]_vars => Safe'
  BY NextSafe DEF Next
<1>3. Safe => SendersAreFound
  BY DEF Safe, Sound, Holding, Saved, Sending, SendersAreFound
<1> QED
  BY InitSafe, <1>1, <1>2, <1>3, ServeForgetsNothing, PTL DEF LiveSpec

----------------------------------------------------------------------------
(* A message that is held is emitted within three steps of its handler.    *)

StepsLeft(q) == CASE q.pc = "find" -> 3 [] q.pc = "mark" -> 2 [] q.pc = "emit" -> 1
                  [] OTHER -> 0

\* A handler that holds a message emits it, or comes closer, or has not moved.
SendersAdvance ==
    \A r \in Requests, m \in MessageIds : Sending(req[r]) /\ req[r].msg = m =>
        \/ Emitted(m)'
        \/ /\ Sending(req'[r]) /\ req'[r].msg = m
           /\ req'[r] = req[r] \/ StepsLeft(req'[r]) < StepsLeft(req[r])

\* A request that takes over the message of p, one step closer to emitting it.
LEMMA NextStepIsCloser ==
    ASSUME NEW p \in Request, Sending(p), NEW q \in Request, q.send = p.send,
           \/ p.pc = "find" /\ q.pc = "mark"
           \/ p.pc = "mark" /\ q.pc = "emit"
    PROVE  Sending(q) /\ StepsLeft(q) < StepsLeft(p)
<1>1. CASE p.pc = "find" /\ q.pc = "mark"
  BY <1>1 DEF Sending, Saved, StepsLeft
<1>2. CASE p.pc = "mark" /\ q.pc = "emit"
  BY <1>2 DEF Sending, Saved, StepsLeft
<1> QED
  BY <1>1, <1>2

LEMMA OwnStepAdvances ==
    ASSUME Safe, NEW r \in Requests, NEW p \in Request, p = req[r], Sending(p),
           FindRow(r) \/ Mark(r)
    PROVE  /\ Sending(req'[r]) /\ req'[r].msg = p.msg
           /\ StepsLeft(req'[r]) < StepsLeft(p)
<1>1. Sound(p)
  BY DEF Safe
<1>2. PICK q \in Request :
          /\ Become(r, q) /\ q.send = p.send /\ q.msg = p.msg
          /\ \/ p.pc = "find" /\ q.pc = "mark"
             \/ p.pc = "mark" /\ q.pc = "emit"
  <2>1. CASE Mark(r)
    <3>1. PICK q : q = [p EXCEPT !.pc = "emit"]
      OBVIOUS
    <3>2. q \in Request /\ q.pc = "emit" /\ q.send = p.send /\ q.msg = p.msg
      BY <3>1 DEF Request
    <3> QED
      BY <2>1, <3>1, <3>2 DEF Mark
  <2>2. CASE FindRow(r)
    <3>1. p.pc = "find" /\ p.user \in Participants(p.conv) /\ p.conv \in ConversationIds
      BY <1>1, <2>2 DEF FindRow, Sound, Sending, Holding, Saved
    <3>2. \A i \in Side : conversations[p.conv].read[i] \in Nat
      BY <3>1, ConversationTyped DEF Safe, Conversation
    <3>3. PICK i \in Side, n \in Nat :
              Become(r, [p EXCEPT !.pc = "mark", !.side = i, !.read = n])
      BY <2>2, <3>1, <3>2 DEF FindRow
    <3>4. PICK q : q = [p EXCEPT !.pc = "mark", !.side = i, !.read = n]
      OBVIOUS
    <3>5. q \in Request /\ q.pc = "mark" /\ q.send = p.send /\ q.msg = p.msg
      BY <3>3, <3>4 DEF Request
    <3> QED
      BY <3>1, <3>3, <3>4, <3>5
  <2> QED
    BY <2>1, <2>2
<1>3. req'[r] = q
  BY <1>2, BecomeChangesOne DEF Safe, TypeOK
<1> QED
  BY <1>2, <1>3, NextStepIsCloser

\* In every step of LiveSpec each handler that holds a saved message stands
\* still, comes closer to the emission, or makes it; with NothingIsForgotten
\* these are the steps SavedIsEmitted takes, which fairness has to make happen.
THEOREM SendersAlwaysAdvance == LiveSpec => [][SendersAdvance]_vars
<1>1. Safe /\ [Serve]_vars => Safe'
  BY NextSafe DEF Next
<1>2. Safe /\ [Serve]_vars => [SendersAdvance]_vars
  <2> SUFFICES ASSUME Safe, Serve, NEW r \in Requests, NEW m \in MessageIds,
                      Sending(req[r]), req[r].msg = m
               PROVE  \/ Emitted(m)'
                      \/ /\ Sending(req'[r]) /\ req'[r].msg = m
                         /\ req'[r] = req[r] \/ StepsLeft(req'[r]) < StepsLeft(req[r])
    BY DEF SendersAdvance
  <2>1. req[r] \in Request /\ req[r].pc \in Saved
    BY RequestTyped DEF Safe, Sending
  <2>2. CASE req'[r] = req[r]
    BY <2>2
  <2>3. ASSUME NEW o \in Requests, Arrive(o) \/ Proceed(o), o # r PROVE req'[r] = req[r]
    <3>1. \E q : Become(o, q)
      BY <2>3 DEF Arrive, Proceed, LookUp, LookUpNone, Open, ReadMessage, Create, Save,
         FindRow, Mark, Emit
    <3> QED
      BY <2>3, <3>1 DEF Become, Safe, TypeOK
  <2>4. CASE FindRow(r) \/ Mark(r)
    BY <2>1, <2>4, OwnStepAdvances
  <2>5. CASE Emit(r)
    <3>1. events' = events \cup Emission(req[r])
      BY <2>5 DEF Emit
    <3>2. \E e \in Emission(req[r]) : e.kind = "message" /\ e.msg = m
      BY DEF Sending, Emission
    <3> QED
      BY <3>1, <3>2 DEF Emitted
  <2>6. ~ (Arrive(r) \/ Create(r) \/ Save(r))
    BY <2>1, IdleIsRequest DEF Arrive, LookUp, LookUpNone, Open, ReadMessage, Create, Save,
       Saved
  <2> QED
    BY <2>2, <2>3, <2>4, <2>5, <2>6 DEF Serve, Proceed
<1> QED
  BY InitSafe, <1>1, <1>2, PTL DEF LiveSpec
=============================================================================
