--------------------------- MODULE Messaging_proofs ---------------------------
(***************************************************************************)
(* Theorems about Messaging, for every set of users, sockets, chats,       *)
(* messages and notifications, however many calls are made.                *)
(***************************************************************************)
EXTENDS Messaging, TLAPS

(***************************************************************************)
(* The steps, component by component                                       *)
(***************************************************************************)

\* A client opens a chat, posts a message or reads the messages of a chat
LEMMA ChatCalls ==
    ASSUME NEW r \in Requests, ChatCall(r)
    PROVE  \/ \E u, p \in Users, content \in SUBSET Messages : OpenChat(r, u, p, content)
           \/ \E u \in Users, c \in Chats, m \in Messages : Post(r, u, c, m)
           \/ \E u \in Users, c \in Chats : HandleMarkMessageAsRead(r, u, c)
<1>1. ASSUME NEW c \in Chats, NEW m \in Messages, NEW s \in Sockets, HandleSendMessage(r, s, c, m)
      PROVE  \E u \in Users : Post(r, u, c, m)
  BY <1>1, SocketsAssumption DEF HandleSendMessage
<1> QED
  BY <1>1, ChatAssumption DEF ChatCall, CreateChat, CreateChatWithAdmin, UploadChatFile

\* Connections and notifications leave the chats alone, the rooms of the sockets aside
LEMMA ChatFrame ==
    ASSUME [Next]_vars
    PROVE  \/ \E r \in Requests : Chatting(r)
           \/ UNCHANGED <<room, message, reads, announced, chatReq>>
<1>1. ASSUME NEW s \in Sockets, Connect(s) \/ Disconnect(s) \/ ConnectionStep(s)
      PROVE  UNCHANGED <<room, message, reads, announced, chatReq>>
  BY <1>1 DEF Connect, Disconnect, ConnectionStep, GetUserChats, JoinUserRooms, SetUserOnline,
     ShowStored, SetUserOffline, chatVars
<1>2. ASSUME NEW r \in Requests, Notifying(r)
      PROVE  UNCHANGED <<room, message, reads, announced, chatReq>>
  BY <1>2 DEF Notifying, chatVars
<1> QED
  BY <1>1, <1>2 DEF Next, vars, chatVars

(***************************************************************************)
(* Chats                                                                   *)
(***************************************************************************)

\* The part of the type that chats need
ChatTypes ==
    /\ room \in [Chats -> SUBSET Users]
    /\ message \in [Messages -> [chat: SUBSET Chats, sender: SUBSET Users]]
    /\ reads \in [Messages -> SUBSET Users]
    /\ announced \subseteq Messages
    /\ chatReq \in [Requests -> ChatRequest]

\* What a handler knows of the chat it is about and of the message it carries
Opening == {"findRoom", "saveRoom", "first"}

Posting == {"second", "store", "emit"}

HandlerInv(r) ==
    /\ chatReq[r].pc \in Opening =>
           chatReq[r].pair \in Pairs /\ \E u \in chatReq[r].pair : chatReq[r].user = {u}
    /\ chatReq[r].pc = "first" =>
           \E c \in Chats : chatReq[r].chat = {c} /\ room[c] = chatReq[r].pair
    /\ chatReq[r].pc \in Posting \cup {"load", "mark"} =>
           \E c \in Chats, u \in Users :
               /\ chatReq[r].chat = {c} /\ chatReq[r].user = {u}
               /\ chatReq[r].pc \in {"store", "emit"} =>
                      \E p \in room[c] \ {u} : chatReq[r].pair = {p}
    /\ chatReq[r].pc \in Posting => \E m \in Messages : chatReq[r].message = {m}
    /\ chatReq[r].pc = "emit" => \A m \in chatReq[r].message : message[m] = Stored(r)
    /\ chatReq[r].pc # "emit" => \A m \in chatReq[r].message : message[m].chat = {}
    /\ chatReq[r].pc = "mark" =>
           \A m \in chatReq[r].marks :
               message[m].chat = chatReq[r].chat /\ message[m].sender # chatReq[r].user

\* No two handlers carry the same message
OwnMessages ==
    \A q, r \in Requests : q # r => chatReq[q].message \cap chatReq[r].message = {}

\* A message belongs to one chat and is by one user; others have read it
MessageInv(m) ==
    \/ message[m].chat = {} /\ reads[m] = {}
    \/ \E c \in Chats, u \in Users :
           /\ message[m] = [chat |-> {c}, sender |-> {u}]
           /\ room[c] # {} /\ u \notin reads[m]

\* The inductive invariant of the chats
ChatInv ==
    /\ ChatTypes
    /\ room \in [Chats -> Pairs \cup {{}}]
    /\ \A r \in Requests : HandlerInv(r)
    /\ OwnMessages
    /\ \A m \in Messages : MessageInv(m)

\* Rooms and stored messages stay what they are
Kept ==
    /\ \A c \in Chats : room[c] # {} => room'[c] = room[c]
    /\ \A m \in Messages : message[m].chat # {} => message'[m] = message[m]

\* A step of handler r does not disturb the others
LEMMA OthersKeep ==
    ASSUME ChatInv, NEW r \in Requests, NEW q \in Requests, chatReq'[q] = chatReq[q],
           Kept, \A m \in Messages : message'[m] # message[m] => m \in chatReq[r].message,
           q # r
    PROVE  HandlerInv(q)'
<1>0. /\ chatReq[q] \in ChatRequest
      /\ chatReq[q].message \cap chatReq[r].message = {}
      /\ HandlerInv(q)
  BY DEF ChatInv, ChatTypes, OwnMessages
<1>1. chatReq[q].message \subseteq Messages /\ chatReq[q].marks \subseteq Messages
  BY <1>0 DEF ChatRequest
<1>2. \A m \in chatReq[q].message : message'[m] = message[m]
  BY <1>0, <1>1
<1>3. chatReq[q].pc = "first" =>
          \E c \in Chats : chatReq[q].chat = {c} /\ room'[c] = chatReq[q].pair
  <2>1. {} \notin Pairs
    BY DEF Pairs
  <2> QED  BY <1>0, <2>1 DEF HandlerInv, Kept, Opening
<1>4. chatReq[q].pc \in Posting \cup {"load", "mark"} =>
          \E c \in Chats, u \in Users :
              /\ chatReq[q].chat = {c} /\ chatReq[q].user = {u}
              /\ chatReq[q].pc \in {"store", "emit"} =>
                     \E p \in room'[c] \ {u} : chatReq[q].pair = {p}
  <2> SUFFICES ASSUME chatReq[q].pc \in Posting \cup {"load", "mark"}
               PROVE  \E c \in Chats, u \in Users :
                          /\ chatReq[q].chat = {c} /\ chatReq[q].user = {u}
                          /\ chatReq[q].pc \in {"store", "emit"} =>
                                 \E p \in room'[c] \ {u} : chatReq[q].pair = {p}
    OBVIOUS
  <2>1. PICK c \in Chats, u \in Users :
          /\ chatReq[q].chat = {c} /\ chatReq[q].user = {u}
          /\ chatReq[q].pc \in {"store", "emit"} =>
                 \E p \in room[c] \ {u} : chatReq[q].pair = {p}
    BY <1>0 DEF HandlerInv
  <2>2. room[c] # {} => room'[c] = room[c]
    BY DEF Kept
  <2> QED  BY <2>1, <2>2
<1>5. chatReq[q].pc = "mark" =>
          \A m \in chatReq[q].marks :
              message'[m].chat = chatReq[q].chat /\ message'[m].sender # chatReq[q].user
  <2>1. chatReq[q].pc = "mark" => chatReq[q].chat # {}
    BY <1>0 DEF HandlerInv
  <2> QED  BY <1>0, <1>1, <2>1 DEF HandlerInv, Kept
<1> QED
  BY <1>0, <1>2, <1>3, <1>4, <1>5 DEF HandlerInv, Stored

\* What is left to show of a step of handler r
LEMMA OwnKeeps ==
    ASSUME ChatInv, NEW r \in Requests, ChatTypes', Kept,
           room' \in [Chats -> Pairs \cup {{}}],
           \A q \in Requests \ {r} : chatReq'[q] = chatReq[q],
           \A m \in Messages : message'[m] # message[m] => m \in chatReq[r].message,
           \/ chatReq'[r].message \subseteq chatReq[r].message
           \/ \A q \in Requests : chatReq'[r].message \cap chatReq[q].message = {},
           HandlerInv(r)',
           \A m \in Messages : MessageInv(m)'
    PROVE  ChatInv'
<1>1. \A q \in Requests : HandlerInv(q)'
  BY OthersKeep
<1>2. OwnMessages'
  BY DEF ChatInv, OwnMessages
<1> QED
  BY <1>1, <1>2 DEF ChatInv

\* A step that leaves rooms, messages and readers alone keeps what is known of messages
LEMMA MessagesKeep ==
    ASSUME ChatInv, UNCHANGED <<room, message, reads>>
    PROVE  Kept /\ \A m \in Messages : MessageInv(m)'
BY DEF ChatInv, MessageInv, Kept

\* A client calls
LEMMA CallKeepsChats ==
    ASSUME ChatInv, NEW r \in Requests, ChatCall(r)
    PROVE  ChatInv'
<1> USE DEF Opening, Posting
<1>0. chatReq \in [Requests -> ChatRequest] /\ {} \notin Pairs
  BY DEF ChatInv, ChatTypes, Pairs
\* A handler starts, with a message nobody carries
<1>1. ASSUME NEW request \in ChatRequest, StartChat(r, request),
             request.message \subseteq {m \in Messages : Unsent(m)},
             chatReq'[r] = request => HandlerInv(r)'
      PROVE  ChatInv'
  <2>1. /\ chatReq' = [chatReq EXCEPT ![r] = request]
        /\ UNCHANGED <<room, message, reads, announced>>
    BY <1>1 DEF StartChat
  <2>2. ChatTypes' /\ chatReq'[r] = request /\ room' \in [Chats -> Pairs \cup {{}}]
    BY <1>0, <2>1 DEF ChatInv, ChatTypes
  <2>3. \A q \in Requests : chatReq'[r].message \cap chatReq[q].message = {}
    BY <1>1, <2>2 DEF Unsent
  <2> QED  BY <1>0, <1>1, <2>1, <2>2, <2>3, OwnKeeps, MessagesKeep
<1>2. ASSUME NEW u \in Users, NEW p \in Users, NEW content \in SUBSET Messages,
             OpenChat(r, u, p, content)
      PROVE  ChatInv'
  <2> DEFINE request == [ChatIdle EXCEPT !.pc = "findRoom", !.user = {u}, !.pair = {u, p},
                                         !.message = content]
  <2>1. request \in ChatRequest /\ request.message \subseteq {m \in Messages : Unsent(m)}
    BY <1>2 DEF OpenChat, ChatIdle, ChatRequest
  <2>2. StartChat(r, request) /\ {u, p} \in Pairs
    BY <1>2 DEF OpenChat, Pairs
  <2>3. ASSUME chatReq'[r] = request  PROVE HandlerInv(r)'
    <3>1. /\ chatReq'[r].pc = "findRoom" /\ chatReq'[r].pair = {u, p} /\ chatReq'[r].user = {u}
          /\ chatReq'[r].message = content /\ message' = message
      BY <2>2, <2>3 DEF ChatIdle, StartChat
    <3>2. \A m \in content : message'[m].chat = {}
      BY <1>2, <3>1 DEF OpenChat, Unsent
    <3> QED  BY <2>2, <3>1, <3>2 DEF HandlerInv
  <2> QED  BY <1>1, <2>1, <2>2, <2>3
<1>3. ASSUME NEW u \in Users, NEW c \in Chats, NEW m \in Messages, Post(r, u, c, m)
      PROVE  ChatInv'
  <2> DEFINE request == [ChatIdle EXCEPT !.pc = "second", !.user = {u}, !.chat = {c},
                                         !.message = {m}]
  <2>1. request \in ChatRequest /\ request.message \subseteq {x \in Messages : Unsent(x)}
    BY <1>3 DEF Post, ChatIdle, ChatRequest
  <2>2. StartChat(r, request) /\ message[m].chat = {}
    BY <1>3 DEF Post, Unsent
  <2>3. ASSUME chatReq'[r] = request  PROVE HandlerInv(r)'
    <3>1. /\ chatReq'[r].pc = "second" /\ chatReq'[r].chat = {c} /\ chatReq'[r].user = {u}
          /\ chatReq'[r].message = {m}
      BY <2>3 DEF ChatIdle
    <3>2. UNCHANGED <<room, message>>
      BY <2>2 DEF StartChat
    <3> QED  BY <2>2, <3>1, <3>2 DEF HandlerInv
  <2> QED  BY <1>1, <2>1, <2>2, <2>3
<1>4. ASSUME NEW u \in Users, NEW c \in Chats, HandleMarkMessageAsRead(r, u, c)
      PROVE  ChatInv'
  <2> DEFINE request == [ChatIdle EXCEPT !.pc = "load", !.user = {u}, !.chat = {c}]
  <2>1. request \in ChatRequest /\ request.message = {}
    BY DEF ChatIdle, ChatRequest
  <2>2. StartChat(r, request)
    BY <1>4 DEF HandleMarkMessageAsRead
  <2>3. ASSUME chatReq'[r] = request  PROVE HandlerInv(r)'
    <3>1. /\ chatReq'[r].pc = "load" /\ chatReq'[r].chat = {c} /\ chatReq'[r].user = {u}
          /\ chatReq'[r].message = {} /\ UNCHANGED <<room, message>>
      BY <2>2, <2>3 DEF ChatIdle, StartChat
    <3> QED  BY <2>2, <3>1 DEF HandlerInv
  <2> QED  BY <1>1, <2>1, <2>2, <2>3
<1> QED
  BY <1>2, <1>3, <1>4, ChatCalls

\* A handler goes on
LEMMA StepKeepsChats ==
    ASSUME ChatInv, NEW r \in Requests, ChatStep(r)
    PROVE  ChatInv'
<1> USE DEF Opening, Posting
<1>0. /\ chatReq \in [Requests -> ChatRequest] /\ chatReq[r] \in ChatRequest
      /\ HandlerInv(r) /\ {} \notin Pairs
      /\ room \in [Chats -> Pairs \cup {{}}]
      /\ message \in [Messages -> [chat: SUBSET Chats, sender: SUBSET Users]]
      /\ reads \in [Messages -> SUBSET Users]
  BY DEF ChatInv, ChatTypes, Pairs
\* The rooms, the messages and their readers stay what they are
<1>1. ASSUME UNCHANGED <<room, message, reads, announced>>, NEW q \in ChatRequest,
             chatReq' = [chatReq EXCEPT ![r] = q],
             q.message \subseteq chatReq[r].message, HandlerInv(r)'
      PROVE  ChatInv'
  <2>1. ChatTypes' /\ room' \in [Chats -> Pairs \cup {{}}] /\ chatReq'[r] = q
    BY <1>0, <1>1 DEF ChatInv, ChatTypes
  <2> QED  BY <1>0, <1>1, <2>1, OwnKeeps, MessagesKeep
\* The handler is done
<1>2. ASSUME ChatFinish(r)
      PROVE  /\ chatReq' = [chatReq EXCEPT ![r] = ChatIdle] /\ ChatIdle \in ChatRequest
             /\ ChatIdle.message = {} /\ HandlerInv(r)'
  <2>1. /\ chatReq'[r].pc = "idle" /\ chatReq'[r].message = {}
        /\ ChatIdle \in ChatRequest /\ ChatIdle.message = {}
    BY <1>0, <1>2 DEF ChatFinish, ChatIdle, ChatRequest
  <2> QED  BY <1>2, <2>1 DEF ChatFinish, HandlerInv
<1>3. CASE FindExistingRoom(r)
  <2>1. CASE ChatFinish(r)
    BY <1>1, <1>2, <1>3, <2>1 DEF FindExistingRoom
  <2>2. CASE ChatGoto(r, "saveRoom")
    <3> DEFINE q == [chatReq[r] EXCEPT !.pc = "saveRoom"]
    <3>1. chatReq' = [chatReq EXCEPT ![r] = q] /\ q \in ChatRequest
      BY <1>0, <2>2 DEF ChatGoto, ChatRequest
    <3>2. /\ q.pc = "saveRoom" /\ q.pair = chatReq[r].pair /\ q.user = chatReq[r].user
          /\ q.message = chatReq[r].message /\ chatReq'[r] = q
      BY <1>0, <3>1 DEF ChatRequest
    <3>3. HandlerInv(r)'
      BY <1>0, <1>3, <3>2 DEF FindExistingRoom, HandlerInv
    <3> QED  BY <1>1, <1>3, <3>1, <3>2, <3>3 DEF FindExistingRoom
  <2> QED  BY <1>3, <2>1, <2>2 DEF FindExistingRoom
<1>4. CASE SaveRoom(r)
  <2>1. PICK c \in Chats :
          /\ chatReq[r].pc = "saveRoom" /\ room[c] = {}
          /\ room' = [room EXCEPT ![c] = chatReq[r].pair]
          /\ IF chatReq[r].message = {} THEN ChatFinish(r)
             ELSE chatReq' = [chatReq EXCEPT ![r].pc = "first", ![r].chat = {c}]
          /\ UNCHANGED <<message, reads, announced>>
    BY <1>4 DEF SaveRoom
  <2>2. chatReq[r].pair \in Pairs /\ \E u \in chatReq[r].pair : chatReq[r].user = {u}
    BY <1>0, <2>1 DEF HandlerInv
  <2>3. room' \in [Chats -> Pairs \cup {{}}] /\ Kept
    BY <1>0, <2>1, <2>2 DEF Kept
  <2>4. \A m \in Messages : MessageInv(m)'
    <3>1. \A d \in Chats : room[d] # {} => room'[d] = room[d]
      BY <2>3 DEF Kept
    <3> QED  BY <2>1, <3>1 DEF ChatInv, MessageInv
  <2> DEFINE q == IF chatReq[r].message = {} THEN ChatIdle
                  ELSE [chatReq[r] EXCEPT !.pc = "first", !.chat = {c}]
  <2>5. chatReq' = [chatReq EXCEPT ![r] = q] /\ q \in ChatRequest
    <3>1. CASE chatReq[r].message = {}
      BY <1>2, <2>1, <3>1
    <3>2. CASE chatReq[r].message # {}
      BY <1>0, <2>1, <3>2 DEF ChatRequest
    <3> QED  BY <3>1, <3>2
  <2>6. HandlerInv(r)' /\ chatReq'[r].message \subseteq chatReq[r].message
    <3>1. CASE chatReq[r].message = {}
      BY <1>0, <1>2, <2>1, <2>5, <3>1
    <3>2. CASE chatReq[r].message # {}
      <4>1. /\ chatReq'[r].pc = "first" /\ chatReq'[r].chat = {c}
            /\ chatReq'[r].pair = chatReq[r].pair /\ chatReq'[r].user = chatReq[r].user
            /\ chatReq'[r].message = chatReq[r].message
        BY <1>0, <2>1, <3>2 DEF ChatRequest
      <4> QED  BY <1>0, <2>1, <2>2, <4>1 DEF HandlerInv
    <3> QED  BY <3>1, <3>2
  <2> HIDE DEF q
  <2>7. ChatTypes'
    <3>1. room' \in [Chats -> SUBSET Users]
      BY <2>3 DEF Pairs
    <3> QED  BY <1>0, <2>1, <2>5, <3>1 DEF ChatInv, ChatTypes
  <2> QED  BY <1>0, <2>1, <2>3, <2>4, <2>5, <2>6, <2>7, OwnKeeps
\* A message is stored
<1>5. ASSUME NEW m \in chatReq[r].message, message' = [message EXCEPT ![m] = Stored(r)],
             UNCHANGED <<room, reads, announced>>,
             NEW q \in ChatRequest, chatReq' = [chatReq EXCEPT ![r] = q],
             q.message \subseteq chatReq[r].message, HandlerInv(r)',
             chatReq[r].pc \in {"first", "store"}
      PROVE  ChatInv'
  <2>0. m \in Messages /\ Stored(r) \in [chat: SUBSET Chats, sender: SUBSET Users]
    BY <1>0 DEF ChatRequest, Stored
  <2>1. ChatTypes' /\ room' \in [Chats -> Pairs \cup {{}}] /\ chatReq'[r] = q
    BY <1>0, <1>5, <2>0 DEF ChatInv, ChatTypes
  <2>2. message[m].chat = {}
    BY <1>0, <1>5 DEF HandlerInv
  <2>3. /\ Kept
        /\ \A x \in Messages : message'[x] # message[x] => x \in chatReq[r].message
    BY <1>0, <1>5, <2>0, <2>2 DEF Kept
  <2>4. \E c \in Chats, u \in Users : Stored(r) = [chat |-> {c}, sender |-> {u}] /\ room[c] # {}
    <3>1. CASE chatReq[r].pc = "first"
      <4>1. PICK c \in Chats : chatReq[r].chat = {c} /\ room[c] = chatReq[r].pair
        BY <1>0, <3>1 DEF HandlerInv
      <4>2. PICK u \in chatReq[r].pair : chatReq[r].user = {u} /\ u \in Users
        BY <1>0, <3>1 DEF HandlerInv, ChatRequest
      <4> QED  BY <4>1, <4>2 DEF Stored
    <3>2. CASE chatReq[r].pc = "store"
      <4>1. \E c \in Chats, u \in Users :
              chatReq[r].chat = {c} /\ chatReq[r].user = {u} /\ room[c] # {}
        BY <1>0, <3>2 DEF HandlerInv
      <4> QED  BY <4>1 DEF Stored
    <3> QED  BY <1>5, <3>1, <3>2
  <2>i. \A x \in Messages : MessageInv(x)
    BY DEF ChatInv
  <2>5. MessageInv(m)'
    <3>0. MessageInv(m)
      BY <2>0, <2>i
    <3>1. reads[m] = {}
      <4>1. ASSUME NEW c, NEW u, message[m] = [chat |-> {c}, sender |-> {u}]  PROVE FALSE
        <5>1. message[m].chat = {c}
          BY <4>1
        <5> QED  BY <2>2, <5>1
      <4> QED  BY <3>0, <4>1 DEF MessageInv
    <3>2. message'[m] = Stored(r) /\ reads'[m] = {} /\ room' = room
      BY <1>0, <1>5, <2>0, <3>1
    <3> QED  BY <2>4, <3>2 DEF MessageInv
  <2>6. ASSUME NEW x \in Messages  PROVE MessageInv(x)'
    <3>1. CASE x # m
      <4>1. message'[x] = message[x] /\ UNCHANGED <<room, reads>>
        BY <1>0, <1>5, <2>0, <3>1
      <4> QED  BY <2>i, <4>1 DEF MessageInv
    <3> QED  BY <2>5, <3>1
  <2> QED  BY <1>0, <1>5, <2>1, <2>3, <2>6, OwnKeeps
<1>6. CASE StoreFirstMessage(r)
  BY <1>2, <1>5, <1>6 DEF StoreFirstMessage
<1>7. CASE FindSecondParticipant(r)
  <2>1. PICK u \in chatReq[r].user, c \in chatReq[r].chat :
          /\ chatReq[r].pc = "second"
          /\ \/ ChatFinish(r)
             \/ \E p \in Others(u, c) :
                   chatReq' = [chatReq EXCEPT ![r].pc = "store", ![r].pair = {p}]
          /\ UNCHANGED <<room, message, reads, announced>>
    BY <1>7 DEF FindSecondParticipant
  <2>2. /\ chatReq[r].chat = {c} /\ chatReq[r].user = {u} /\ c \in Chats /\ u \in Users
        /\ \E m \in Messages : chatReq[r].message = {m}
        /\ \A m \in chatReq[r].message : message[m].chat = {}
    BY <1>0, <2>1 DEF HandlerInv
  <2>3. CASE ChatFinish(r)
    BY <1>1, <1>2, <2>1, <2>3
  <2>4. ASSUME NEW p \in Others(u, c),
               chatReq' = [chatReq EXCEPT ![r].pc = "store", ![r].pair = {p}]
        PROVE  ChatInv'
    <3> DEFINE q == [chatReq[r] EXCEPT !.pc = "store", !.pair = {p}]
    <3>0. {p} \in SUBSET Users
      BY <2>2 DEF Others, ChatInv, ChatTypes
    <3>1. chatReq' = [chatReq EXCEPT ![r] = q] /\ q \in ChatRequest
      BY <1>0, <2>4, <3>0 DEF ChatRequest
    <3>2. /\ q.pc = "store" /\ q.pair = {p} /\ q.user = {u} /\ q.chat = {c}
          /\ q.message = chatReq[r].message /\ chatReq'[r] = q
      BY <1>0, <2>2, <3>1 DEF ChatRequest
    <3> HIDE DEF q
    <3>3. HandlerInv(r)'
      BY <2>1, <2>2, <3>2 DEF HandlerInv, Others
    <3> QED  BY <1>1, <2>1, <3>1, <3>2, <3>3
  <2> QED  BY <2>1, <2>3, <2>4
<1>8. CASE SendMessage(r)
  <2>1. PICK m \in chatReq[r].message :
          /\ chatReq[r].pc = "store"
          /\ message' = [message EXCEPT ![m] = Stored(r)]
          /\ ChatGoto(r, "emit")
          /\ UNCHANGED <<room, reads, announced>>
    BY <1>8 DEF SendMessage
  <2> DEFINE q == [chatReq[r] EXCEPT !.pc = "emit"]
  <2>2. chatReq' = [chatReq EXCEPT ![r] = q] /\ q \in ChatRequest
    BY <1>0, <2>1 DEF ChatGoto, ChatRequest
  <2>3. /\ q.pc = "emit" /\ q.pair = chatReq[r].pair /\ q.user = chatReq[r].user
        /\ q.chat = chatReq[r].chat /\ q.message = chatReq[r].message /\ chatReq'[r] = q
    BY <1>0, <2>2 DEF ChatRequest
  <2>4. chatReq[r].message = {m} /\ m \in Messages
    BY <1>0, <2>1 DEF HandlerInv
  <2>5. message'[m] = Stored(r)'
    BY <1>0, <2>1, <2>3, <2>4 DEF Stored
  <2> HIDE DEF q
  <2>6. HandlerInv(r)'
    <3>1. \E c \in Chats, u \in Users :
            /\ chatReq[r].chat = {c} /\ chatReq[r].user = {u}
            /\ \E p \in room[c] \ {u} : chatReq[r].pair = {p}
      BY <1>0, <2>1 DEF HandlerInv
    <3>2. \E c \in Chats, u \in Users :
            /\ q.chat = {c} /\ q.user = {u}
            /\ \E p \in room[c] \ {u} : q.pair = {p}
      BY <2>3, <3>1
    <3>3. room' = room /\ q.message = {m} /\ message'[m] = Stored(r)'
      BY <2>1, <2>3, <2>4, <2>5
    <3> QED  BY <2>3, <2>4, <3>2, <3>3 DEF HandlerInv
  <2> QED  BY <1>5, <2>1, <2>2, <2>3, <2>6
<1>9. CASE EmitNewMessage(r)
  <2>1. /\ ChatFinish(r) /\ UNCHANGED <<room, message, reads>>
        /\ announced' = announced \cup chatReq[r].message
    BY <1>9 DEF EmitNewMessage, Emit
  <2>2. ChatTypes' /\ room' \in [Chats -> Pairs \cup {{}}]
    BY <1>0, <1>2, <2>1 DEF ChatInv, ChatTypes, ChatRequest
  <2> QED  BY <1>0, <1>2, <2>1, <2>2, OwnKeeps, MessagesKeep
<1>10. CASE LoadMessages(r)
  <2>0. CASE ChatFinish(r)
    BY <1>1, <1>2, <1>10, <2>0 DEF LoadMessages
  <2>1. PICK u \in chatReq[r].user, c \in chatReq[r].chat :
          /\ chatReq[r].pc = "load"
          /\ \/ ChatFinish(r)
             \/ chatReq' = [chatReq EXCEPT ![r].pc = "mark",
                              ![r].marks = {m \in MessagesIn(c) :
                                               message[m].sender # {u} /\ u \notin reads[m]}]
          /\ UNCHANGED <<room, message, reads, announced>>
    BY <1>10 DEF LoadMessages
  <2>c. SUFFICES ASSUME ~ChatFinish(r)  PROVE ChatInv'
    BY <2>0
  <2> DEFINE marks == {m \in MessagesIn(c) : message[m].sender # {u} /\ u \notin reads[m]}
             q == [chatReq[r] EXCEPT !.pc = "mark", !.marks = marks]
  <2>2. marks \in SUBSET Messages /\ \A m \in marks : message[m].chat = {c} /\ message[m].sender # {u}
    BY DEF MessagesIn
  <2>3. chatReq' = [chatReq EXCEPT ![r] = q]
    BY <1>0, <2>1, <2>c
  <2> HIDE DEF marks
  <2>4. q \in ChatRequest
    BY <1>0, <2>2 DEF ChatRequest
  <2>5. /\ q.pc = "mark" /\ q.marks = marks /\ q.user = chatReq[r].user
        /\ q.chat = chatReq[r].chat /\ q.message = chatReq[r].message /\ chatReq'[r] = q
    BY <1>0, <2>3, <2>4 DEF ChatRequest
  <2> HIDE DEF q
  <2>b. /\ \E d \in Chats, v \in Users : chatReq[r].chat = {d} /\ chatReq[r].user = {v}
        /\ chatReq[r].chat = {c} /\ chatReq[r].user = {u}
        /\ \A m \in chatReq[r].message : message[m].chat = {}
    BY <1>0, <2>1 DEF HandlerInv
  <2>u. UNCHANGED <<room, message, reads, announced>>
    BY <2>1
  <2>6. HandlerInv(r)'
    BY <2>u, <2>2, <2>5, <2>b DEF HandlerInv
  <2>7. q.message \subseteq chatReq[r].message
    BY <2>5
  <2> QED  BY <1>1, <2>u, <2>3, <2>4, <2>6, <2>7
<1>11. CASE MarkMessageAsRead(r)
  <2>1. /\ chatReq[r].pc = "mark" /\ ChatFinish(r) /\ UNCHANGED <<room, message, announced>>
        /\ reads' = [m \in Messages |->
                        IF m \in chatReq[r].marks THEN reads[m] \cup chatReq[r].user ELSE reads[m]]
    BY <1>11 DEF MarkMessageAsRead
  <2>2. PICK c \in Chats, u \in Users : chatReq[r].chat = {c} /\ chatReq[r].user = {u}
    BY <1>0, <2>1 DEF HandlerInv
  <2>3. \A m \in chatReq[r].marks : message[m].chat = {c} /\ message[m].sender # {u}
    BY <1>0, <2>1, <2>2 DEF HandlerInv
  <2>4. ChatTypes' /\ room' \in [Chats -> Pairs \cup {{}}]
    BY <1>0, <1>2, <2>1 DEF ChatInv, ChatTypes, ChatRequest
  <2>5. ASSUME NEW m \in Messages  PROVE MessageInv(m)'
    <3>0. MessageInv(m)
      BY DEF ChatInv
    <3>1. CASE m \notin chatReq[r].marks
      <4>1. reads'[m] = reads[m]
        BY <2>1, <3>1
      <4> QED  BY <2>1, <3>0, <4>1 DEF MessageInv
    <3>2. CASE m \in chatReq[r].marks
      <4>1. PICK d \in Chats, v \in Users :
              /\ message[m] = [chat |-> {d}, sender |-> {v}]
              /\ room[d] # {} /\ v \notin reads[m]
        BY <2>3, <3>0, <3>2 DEF MessageInv
      <4>2. v # u
        BY <2>3, <3>2, <4>1
      <4>3. reads'[m] = reads[m] \cup {u}
        BY <2>1, <2>2, <3>2
      <4>4. v \notin reads'[m] /\ UNCHANGED <<room, message>>
        BY <2>1, <4>1, <4>2, <4>3
      <4> QED  BY <4>1, <4>4 DEF MessageInv
    <3> QED  BY <3>1, <3>2
  <2>6. Kept
    BY <2>1 DEF Kept
  <2> QED  BY <1>0, <1>2, <2>1, <2>4, <2>5, <2>6, OwnKeeps
<1> QED
  BY <1>3, <1>4, <1>6, <1>7, <1>8, <1>9, <1>10, <1>11 DEF ChatStep

LEMMA ChatsHold == Spec => []ChatInv
<1>1. ASSUME Init  PROVE ChatInv
  <2>1. /\ room = [c \in Chats |-> {}] /\ announced = {}
        /\ message = [m \in Messages |-> [chat |-> {}, sender |-> {}]]
        /\ reads = [m \in Messages |-> {}]
        /\ chatReq = [r \in Requests |-> ChatIdle]
    BY <1>1 DEF Init, ChatInit
  <2>2. ChatIdle \in ChatRequest /\ ChatIdle.message = {} /\ ChatIdle.pc = "idle"
    BY DEF ChatIdle, ChatRequest
  <2>3. ChatTypes /\ room \in [Chats -> Pairs \cup {{}}]
    BY <2>1, <2>2 DEF ChatTypes
  <2>4. (\A r \in Requests : HandlerInv(r)) /\ OwnMessages
    BY <2>1, <2>2 DEF HandlerInv, OwnMessages, Opening, Posting
  <2>5. \A m \in Messages : MessageInv(m)
    BY <2>1 DEF MessageInv
  <2> QED  BY <2>3, <2>4, <2>5 DEF ChatInv
<1>2. ASSUME ChatInv, [Next]_vars  PROVE ChatInv'
  <2>1. ASSUME NEW r \in Requests, Chatting(r)  PROVE ChatInv'
    BY <1>2, <2>1, CallKeepsChats, StepKeepsChats DEF Chatting
  <2>2. ASSUME UNCHANGED <<room, message, reads, announced, chatReq>>  PROVE ChatInv'
    <3>1. Kept /\ \A m \in Messages : MessageInv(m)'
      BY <1>2, <2>2, MessagesKeep
    <3>2. (\A r \in Requests : HandlerInv(r)') /\ OwnMessages' /\ ChatTypes'
      BY <1>2, <2>2 DEF ChatInv, HandlerInv, OwnMessages, ChatTypes, Stored
    <3> QED  BY <1>2, <2>2, <3>1, <3>2 DEF ChatInv
  <2> QED  BY <1>2, <2>1, <2>2, ChatFrame
<1> QED
  BY <1>1, <1>2, PTL DEF Spec

\* A message of one user of a chat, read by nobody but the two, counts as unread for
\* the other exactly until he has read it, although the query asks for a mark that is
\* not the user's, or none (countUnreadMessages, markMessageAsRead)
THEOREM UnreadCountCorrect == Spec => []UnreadCountExact
<1>1. ASSUME ChatInv  PROVE UnreadCountExact
  <2> SUFFICES ASSUME NEW c \in Chats, NEW u \in room[c], NEW m \in MessagesIn(c),
                      message[m].sender \cup reads[m] \subseteq room[c], message[m].sender # {u}
               PROVE  (reads[m] = {} \/ \E x \in reads[m] : x # u) <=> u \notin reads[m]
    BY DEF UnreadCountExact, CountUnreadMessages
  <2>0. m \in Messages /\ message[m].chat = {c} /\ MessageInv(m)
    BY <1>1 DEF MessagesIn, ChatInv
  <2>1. PICK d \in Chats, v \in Users :
          message[m] = [chat |-> {d}, sender |-> {v}] /\ v \notin reads[m]
    BY <2>0 DEF MessageInv
  <2>2. v # u /\ v \in room[c] /\ reads[m] \subseteq room[c] \ {v}
    BY <2>1
  <2>3. room[c] = {u, v}
    <3>1. room[c] \in Pairs
      BY <1>1 DEF ChatInv
    <3> QED  BY <2>2, <3>1 DEF Pairs
  <2> QED  BY <2>2, <2>3
<1> QED
  BY <1>1, ChatsHold, PTL

(***************************************************************************)
(* Connections                                                             *)
(***************************************************************************)

\* The inductive invariant: a patient user's socket is open while it connects, so
\* that the user is marked as online only while a handler that ends it is to come
PresenceInv ==
    /\ SocketsTypeOK
    /\ online \subseteq Users
    /\ connecting \in [Sockets -> [pc: {"idle", "chats", "join", "online", "flush"},
                                   chats: SUBSET Chats]]
    /\ leaving \subseteq Sockets
    /\ \A s \in Sockets : Owner[s] \in Patient /\ connecting[s].pc # "idle" => s \in open
    /\ \A u \in Patient \cap online :
           \E s \in Sockets : Owner[s] = u /\ (s \in open \/ s \in leaving)

\* Handlers of chats and notifications count their call and leave the sockets alone
LEMMA SocketFrame ==
    ASSUME NEW r \in Requests, Chatting(r) \/ Notifying(r)
    PROVE  UNCHANGED <<open, ownRoom, chatRooms, presenceVars>> /\ (Called \/ UNCHANGED calls)
<1>1. CASE Chatting(r)
  <2>1. CASE ChatCall(r)
    BY <1>1, <2>1, ChatCalls DEF Chatting, OpenChat, Post, HandleMarkMessageAsRead, StartChat
  <2>2. CASE ChatStep(r)
    BY <1>1, <2>2 DEF Chatting, ChatStep, FindExistingRoom, SaveRoom, StoreFirstMessage,
       FindSecondParticipant, SendMessage, EmitNewMessage, Emit, LoadMessages,
       MarkMessageAsRead, socketVars
  <2> QED  BY <1>1, <2>1, <2>2 DEF Chatting
<1>2. CASE Notifying(r)
  <2>1. CASE NotificationCall(r)
    BY <1>2, <2>1 DEF Notifying, NotificationCall, NotifyFromService, HandleCreateNotification,
       PostNotification, StartNote
  <2>2. CASE NotificationStep(r)
    BY <1>2, <2>2 DEF Notifying, NotificationStep, SaveNotification, GenerateNotification,
       SendCreated, SendThroughClient, socketVars
  <2> QED  BY <1>2, <2>1, <2>2 DEF Notifying
<1> QED
  BY <1>1, <1>2

LEMMA PresenceHolds == Spec => []PresenceInv
<1>1. ASSUME Init  PROVE PresenceInv
  <2>1. /\ open = {} /\ ownRoom = {} /\ online = {} /\ leaving = {} /\ calls = 0
        /\ chatRooms = [s \in Sockets |-> {}]
        /\ connecting = [s \in Sockets |-> [pc |-> "idle", chats |-> {}]]
    BY <1>1 DEF Init, SocketsInit, ConnectIdle
  <2> QED  BY <2>1, SocketsAssumption DEF PresenceInv, SocketsTypeOK
<1>2. ASSUME PresenceInv, [Next]_vars  PROVE PresenceInv'
  <2>0. /\ connecting \in [Sockets -> [pc: {"idle", "chats", "join", "online", "flush"},
                                       chats: SUBSET Chats]]
        /\ chatRooms \in [Sockets -> SUBSET Chats]
        /\ open \subseteq Sockets /\ ownRoom \subseteq open /\ calls \in 0..MaxCalls
        /\ online \subseteq Users /\ leaving \subseteq Sockets
        /\ Called => calls' \in 0..MaxCalls
    BY <1>2, SocketsAssumption DEF PresenceInv, SocketsTypeOK, Called
  <2>1. ASSUME NEW s \in Sockets, Connect(s)  PROVE PresenceInv'
    <3>1. /\ open' = open \cup {s} /\ UNCHANGED <<ownRoom, chatRooms, online, leaving>>
          /\ calls' \in 0..MaxCalls
          /\ connecting' = [connecting EXCEPT ![s].pc = "chats"]
      BY <2>0, <2>1 DEF Connect, OpenSocket
    <3> QED  BY <1>2, <2>0, <3>1 DEF PresenceInv, SocketsTypeOK
  <2>2. ASSUME NEW s \in Sockets, Disconnect(s)  PROVE PresenceInv'
    <3>1. /\ open' = open \ {s} /\ ownRoom' = ownRoom \ {s} /\ leaving' = leaving \cup {s}
          /\ chatRooms' = [chatRooms EXCEPT ![s] = {}]
          /\ Owner[s] \in Patient => connecting[s].pc = "idle"
          /\ UNCHANGED <<calls, online, connecting>>
      BY <2>2 DEF Disconnect, CloseSocket
    <3>2. /\ SocketsTypeOK' /\ leaving' \subseteq Sockets
          /\ open \cup leaving \subseteq open' \cup leaving'
      BY <2>0, <3>1 DEF SocketsTypeOK
    <3> QED  BY <1>2, <3>1, <3>2 DEF PresenceInv
  <2>3. ASSUME NEW s \in Sockets, GetUserChats(s) \/ ShowStored(s)  PROVE PresenceInv'
    <3>1. /\ UNCHANGED <<open, ownRoom, chatRooms, calls, online, leaving>>
          /\ \/ connecting' = [connecting EXCEPT ![s] = [pc |-> "join", chats |-> RoomsOf(Owner[s])]]
             \/ connecting' = [connecting EXCEPT ![s] = [pc |-> "idle", chats |-> {}]]
          /\ connecting[s].pc # "idle"
      BY <2>3 DEF GetUserChats, ShowStored, ConnectIdle, socketVars
    <3>2. /\ \A x \in Sockets : connecting'[x].pc # "idle" => connecting[x].pc # "idle"
          /\ connecting' \in [Sockets -> [pc: {"idle", "chats", "join", "online", "flush"},
                                          chats: SUBSET Chats]]
      BY <2>0, <3>1 DEF RoomsOf
    <3> QED  BY <1>2, <3>1, <3>2 DEF PresenceInv, SocketsTypeOK
  <2>4. ASSUME NEW s \in Sockets, JoinUserRooms(s)  PROVE PresenceInv'
    <3>1. /\ UNCHANGED <<open, calls, online, leaving>>
          /\ connecting[s].pc = "join"
          /\ connecting' = [connecting EXCEPT ![s] = [pc |-> "online", chats |-> {}]]
          /\ ownRoom' = IF s \in open THEN ownRoom \cup {s} ELSE ownRoom
          /\ chatRooms' = IF s \in open THEN [chatRooms EXCEPT ![s] = connecting[s].chats]
                                       ELSE chatRooms
      BY <2>4 DEF JoinUserRooms, JoinRooms
    <3>2. SocketsTypeOK'
      <4>1. chatRooms' \in [Sockets -> SUBSET Chats]
        BY <2>0, <3>1
      <4> QED  BY <2>0, <3>1, <4>1 DEF SocketsTypeOK
    <3> QED  BY <1>2, <2>0, <3>1, <3>2 DEF PresenceInv
  <2>5. ASSUME NEW s \in Sockets, SetUserOnline(s)  PROVE PresenceInv'
    <3>1. /\ UNCHANGED <<open, ownRoom, chatRooms, calls, leaving>>
          /\ connecting[s].pc = "online"
          /\ connecting' = [connecting EXCEPT ![s].pc = "flush"]
          /\ online' = online \cup {Owner[s]}
      BY <2>5 DEF SetUserOnline, socketVars
    <3>2. /\ connecting' \in [Sockets -> [pc: {"idle", "chats", "join", "online", "flush"},
                                          chats: SUBSET Chats]]
          /\ \A x \in Sockets : connecting'[x].pc # "idle" => connecting[x].pc # "idle"
      BY <2>0, <3>1
    <3>3. s \in open \/ Owner[s] \notin Patient
      BY <1>2, <3>1 DEF PresenceInv
    <3>4. online' \subseteq Users
      BY <2>0, <3>1, SocketsAssumption
    <3>5. \A u \in Patient \cap online' :
              \E x \in Sockets : Owner[x] = u /\ (x \in open' \/ x \in leaving')
      BY <1>2, <3>1, <3>3 DEF PresenceInv
    <3> QED  BY <1>2, <3>1, <3>2, <3>4, <3>5 DEF PresenceInv, SocketsTypeOK
  <2>6. ASSUME NEW s \in Sockets, SetUserOffline(s)  PROVE PresenceInv'
    <3>1. /\ UNCHANGED <<open, ownRoom, chatRooms, calls, connecting>>
          /\ leaving' = leaving \ {s} /\ online' = online \ {Owner[s]}
      BY <2>6 DEF SetUserOffline, socketVars
    <3>2. ASSUME NEW u \in Patient \cap online'
          PROVE  \E x \in Sockets : Owner[x] = u /\ (x \in open' \/ x \in leaving')
      <4>1. PICK x \in Sockets : Owner[x] = u /\ (x \in open \/ x \in leaving)
        BY <1>2, <3>1 DEF PresenceInv
      <4>2. x # s
        BY <3>1, <4>1
      <4> QED  BY <3>1, <4>1, <4>2
    <3> QED  BY <1>2, <2>0, <3>1, <3>2 DEF PresenceInv, SocketsTypeOK
  <2>7. ASSUME NEW r \in Requests, Chatting(r) \/ Notifying(r)  PROVE PresenceInv'
    <3>1. UNCHANGED <<open, ownRoom, chatRooms, online, connecting, leaving>> /\ calls' \in 0..MaxCalls
      BY <2>0, <2>7, SocketFrame DEF presenceVars
    <3> QED  BY <1>2, <3>1 DEF PresenceInv, SocketsTypeOK
  <2>8. CASE UNCHANGED vars
    BY <1>2, <2>8 DEF PresenceInv, SocketsTypeOK, vars, socketVars, presenceVars
  <2> QED
    BY <1>2, <2>1, <2>2, <2>3, <2>4, <2>5, <2>6, <2>7, <2>8 DEF Next, ConnectionStep
<1> QED
  BY <1>1, <1>2, PTL DEF Spec

\* Whoever has no socket left, and no disconnection under way, is shown as offline,
\* however his connections and disconnections overlap (setUserOnline, setUserOffline)
THEOREM OfflineCorrect == Spec => []GoneIsOffline
<1>1. PresenceInv => GoneIsOffline
  BY DEF PresenceInv, GoneIsOffline, SocketsOf
<1> QED
  BY <1>1, PresenceHolds, PTL

\* A message of one user of a chat is emitted to every socket of the other that has
\* joined its user's room, in whatever order chats are created and sockets connect
\* (handleSendMessage, uploadFile)
THEOREM PartnerHearsCorrect == Spec => PartnerHears
<1> DEFINE Heard == \A m \in announced' \ announced, c \in Chats : \A s \in ownRoom :
                     /\ message[m].chat = {c} /\ message[m].sender \subseteq room[c] \ {Owner[s]}
                     /\ Owner[s] \in room[c]
                     => m \in heard'[s]
<1>1. ASSUME ChatInv, PresenceInv, [Next]_vars  PROVE Heard
  <2>1. ASSUME NEW r \in Requests, EmitNewMessage(r)  PROVE Heard
    <3> SUFFICES ASSUME NEW m \in announced' \ announced, NEW c \in Chats, NEW s \in ownRoom,
                        message[m].chat = {c}, Owner[s] \in room[c],
                        message[m].sender \subseteq room[c] \ {Owner[s]}
                 PROVE  m \in heard'[s]
      OBVIOUS
    <3>1. m \in chatReq[r].message /\ chatReq[r].pc = "emit"
      BY <2>1 DEF EmitNewMessage, Emit
    <3>2. HandlerInv(r)
      BY <1>1 DEF ChatInv
    <3>3. message[m].chat = chatReq[r].chat /\ message[m].sender = chatReq[r].user
      BY <3>1, <3>2 DEF HandlerInv, Stored
    <3>4. Owner[s] \in chatReq[r].pair
      <4>1. PICK d \in Chats, u \in Users :
              /\ chatReq[r].chat = {d} /\ chatReq[r].user = {u}
              /\ \E p \in room[d] \ {u} : chatReq[r].pair = {p}
        BY <3>1, <3>2 DEF HandlerInv, Posting
      <4>2. PICK p \in room[d] \ {u} : chatReq[r].pair = {p}
        BY <4>1
      <4>3. d = c /\ u \in room[c] /\ u # Owner[s]
        BY <3>3, <4>1
      <4>4. room[c] = {u, Owner[s]}
        <5>1. room[c] \in Pairs
          BY <1>1 DEF ChatInv
        <5> QED  BY <4>3, <5>1 DEF Pairs
      <4> QED  BY <4>2, <4>3, <4>4
    <3>5. s \in open /\ s \in Sockets
      BY <1>1 DEF PresenceInv, SocketsTypeOK
    <3>6. s \in To(chatReq[r].pair, chatReq[r].chat)
      BY <3>4, <3>5 DEF To
    <3> QED  BY <2>1, <3>1, <3>5, <3>6 DEF EmitNewMessage, Emit
  <2>2. ASSUME NEW r \in Requests, Chatting(r), ~EmitNewMessage(r)
        PROVE  UNCHANGED announced
    <3>1. CASE ChatCall(r)
      BY <3>1, ChatCalls DEF OpenChat, Post, HandleMarkMessageAsRead, StartChat
    <3>2. CASE ChatStep(r)
      BY <2>2, <3>2 DEF ChatStep, FindExistingRoom, SaveRoom, StoreFirstMessage,
         FindSecondParticipant, SendMessage, LoadMessages, MarkMessageAsRead
    <3> QED  BY <2>2, <3>1, <3>2 DEF Chatting
  <2> QED  BY <1>1, <2>1, <2>2, ChatFrame
<1> QED
  BY <1>1, ChatsHold, PresenceHolds, PTL DEF Spec, PartnerHears

(***************************************************************************)
(* Notifications                                                           *)
(***************************************************************************)

\* The inductive invariant: what a handler sends is in the database
NotesInv ==
    /\ NotificationsTypeOK
    /\ \A r \in Requests :
           noteReq[r].pc \in {"generate", "send", "client"} => noteReq[r].note \subseteq saved
    /\ NotificationNotLost

\* Nothing that is shown or kept is forgotten when another notification is passed on
LEMMA SendingKeeps ==
    ASSUME NotificationsTypeOK, NEW n \in Notes, SendNotificationToUser(n)
    PROVE  /\ shown' \subseteq Notes /\ store' \in [Users -> SUBSET Notes]
           /\ shown \subseteq shown' /\ \A u \in Users : store[u] \subseteq store'[u]
           /\ n \in shown' \cup store'[ForUser[n]]
<1>1. /\ ForUser[n] \in Users /\ shown \subseteq Notes /\ store \in [Users -> SUBSET Notes]
  BY NotificationsAssumption DEF NotificationsTypeOK
<1>2. CASE SocketsOf(ForUser[n]) # {}
  BY <1>1, <1>2 DEF SendNotificationToUser
<1>3. CASE SocketsOf(ForUser[n]) = {}
  <2>1. store' = [store EXCEPT ![ForUser[n]] = @ \cup {n}] /\ shown' = shown
    BY <1>3 DEF SendNotificationToUser
  <2> QED  BY <1>1, <2>1
<1> QED
  BY <1>2, <1>3

LEMMA NotesStep ==
    ASSUME NotesInv, PresenceInv, [Next]_vars
    PROVE  NotesInv'
<1>0. /\ saved \subseteq Notes /\ passed \subseteq saved /\ shown \subseteq Notes
      /\ store \in [Users -> SUBSET Notes]
      /\ noteReq \in [Requests -> NoteRequest]
      /\ \A n \in passed : n \in Notes /\ ForUser[n] \in Users
  BY NotificationsAssumption DEF NotesInv, NotificationsTypeOK
\* Handlers of notifications: what was passed on stays shown or kept
<1>1. ASSUME NEW r \in Requests, NEW q \in NoteRequest, noteReq' = [noteReq EXCEPT ![r] = q],
             q.pc \in {"generate", "send", "client"} => q.note \subseteq saved',
             saved \subseteq saved', saved' \subseteq Notes, passed' \subseteq saved',
             shown' \subseteq Notes, store' \in [Users -> SUBSET Notes],
             shown \subseteq shown', \A u \in Users : store[u] \subseteq store'[u],
             \A n \in passed' : n \in passed \/ n \in shown' \cup store'[ForUser[n]]
      PROVE  NotesInv'
  <2>1. NotificationsTypeOK'
    BY <1>0, <1>1 DEF NotificationsTypeOK
  <2>2. ASSUME NEW x \in Requests, noteReq'[x].pc \in {"generate", "send", "client"}
        PROVE  noteReq'[x].note \subseteq saved'
    BY <1>0, <1>1, <2>2 DEF NotesInv
  <2>3. NotificationNotLost'
    BY <1>0, <1>1 DEF NotesInv, NotificationNotLost
  <2> QED  BY <2>1, <2>2, <2>3 DEF NotesInv
<1>2. NoteIdle \in NoteRequest /\ NoteIdle.pc = "idle"
  BY DEF NoteIdle, NoteRequest
<1>3. ASSUME NEW r \in Requests, NotificationCall(r)  PROVE NotesInv'
  <2>1. PICK n \in Notes, gateway \in BOOLEAN, client \in Sockets \cup {NoSocket} :
          StartNote(r, n, gateway, client)
    <3>1. open \subseteq Sockets /\ \A u : SocketsOf(u) \subseteq Sockets
      BY DEF PresenceInv, SocketsTypeOK, SocketsOf
    <3> QED
      BY <1>3, <3>1 DEF NotificationCall, NotifyFromService, HandleCreateNotification,
         PostNotification
  <2> DEFINE q == [pc |-> "save", note |-> {n}, gateway |-> gateway, client |-> client]
  <2>2. q \in NoteRequest /\ noteReq' = [noteReq EXCEPT ![r] = q] /\ q.pc = "save"
        /\ UNCHANGED <<saved, passed, shown, store>>
    BY <2>1 DEF StartNote, NoteRequest
  <2> HIDE DEF q
  <2> QED  BY <1>0, <1>1, <2>2
<1>4. ASSUME NEW r \in Requests, NotificationStep(r)  PROVE NotesInv'
  <2>0. noteReq[r] \in NoteRequest /\ noteReq[r].note \subseteq Notes
    BY <1>0 DEF NoteRequest
  <2>1. ASSUME NEW stage \in {"generate", "send", "client"}, NoteGoto(r, stage)
        PROVE  /\ noteReq' = [noteReq EXCEPT ![r] = [noteReq[r] EXCEPT !.pc = stage]]
               /\ [noteReq[r] EXCEPT !.pc = stage] \in NoteRequest
               /\ [noteReq[r] EXCEPT !.pc = stage].note = noteReq[r].note
    BY <1>0, <2>0, <2>1 DEF NoteGoto, NoteRequest
  <2>2. CASE SaveNotification(r)
    <3>1. /\ saved' = saved \cup noteReq[r].note /\ NoteGoto(r, "generate")
          /\ UNCHANGED <<passed, shown, store>>
      BY <2>2 DEF SaveNotification
    <3> QED  BY <1>0, <1>1, <2>0, <2>1, <3>1
  <2>3. CASE GenerateNotification(r)
    <3>1. /\ noteReq[r].pc = "generate" /\ UNCHANGED <<saved, passed, shown, store>>
          /\ NoteGoto(r, "send") \/ NoteFinish(r)
      BY <2>3 DEF GenerateNotification
    <3>2. noteReq[r].note \subseteq saved
      BY <3>1 DEF NotesInv
    <3>3. CASE NoteGoto(r, "send")
      BY <1>0, <1>1, <2>1, <3>1, <3>2, <3>3
    <3>4. CASE NoteFinish(r)
      BY <1>0, <1>1, <1>2, <3>1, <3>4 DEF NoteFinish
    <3> QED  BY <3>1, <3>3, <3>4
  <2>4. CASE SendCreated(r)
    <3>1. PICK n \in noteReq[r].note :
            /\ noteReq[r].pc = "send" /\ UNCHANGED saved
            /\ IF ForUser[n] \in Enabled
               THEN SendNotificationToUser(n) /\ passed' = passed \cup {n}
               ELSE UNCHANGED <<shown, store, passed>>
            /\ NoteGoto(r, "client") \/ NoteFinish(r)
      BY <2>4 DEF SendCreated
    <3>2. n \in Notes /\ noteReq[r].note \subseteq saved /\ n \in saved
      BY <2>0, <3>1 DEF NotesInv
    <3>3. /\ shown' \subseteq Notes /\ store' \in [Users -> SUBSET Notes]
          /\ shown \subseteq shown' /\ \A u \in Users : store[u] \subseteq store'[u]
          /\ passed' \subseteq saved
          /\ \A x \in passed' : x \in passed \/ x \in shown' \cup store'[ForUser[x]]
      BY <1>0, <3>1, <3>2, SendingKeeps DEF NotesInv
    <3>4. CASE NoteGoto(r, "client")
      BY <1>0, <1>1, <2>1, <3>1, <3>2, <3>3, <3>4
    <3>5. CASE NoteFinish(r)
      BY <1>0, <1>1, <1>2, <3>1, <3>3, <3>5 DEF NoteFinish
    <3> QED  BY <3>1, <3>4, <3>5
  <2>5. CASE SendThroughClient(r)
    <3>1. PICK n \in noteReq[r].note :
            /\ \/ UNCHANGED <<shown, store>> \/ SendNotificationToUser(n)
               \/ shown' = shown \cup {n} /\ UNCHANGED store
            /\ NoteFinish(r) /\ UNCHANGED <<saved, passed>>
      BY <2>5 DEF SendThroughClient
    <3>2. /\ shown' \subseteq Notes /\ store' \in [Users -> SUBSET Notes]
          /\ shown \subseteq shown' /\ \A u \in Users : store[u] \subseteq store'[u]
      BY <1>0, <2>0, <3>1, SendingKeeps DEF NotesInv
    <3> QED  BY <1>0, <1>1, <1>2, <3>1, <3>2 DEF NoteFinish
  <2> QED  BY <1>4, <2>2, <2>3, <2>4, <2>5 DEF NotificationStep
\* A connection shows what was kept, on a socket that is still open
<1>5. ASSUME NEW s \in Sockets, ShowStored(s)  PROVE NotesInv'
  <2>1. /\ shown' = IF s \in open THEN shown \cup store[Owner[s]] ELSE shown
        /\ store' = [store EXCEPT ![Owner[s]] = {}]
        /\ UNCHANGED <<saved, passed, noteReq>>
        /\ connecting[s].pc = "flush" /\ Owner[s] \in Users
    BY <1>5, SocketsAssumption DEF ShowStored, FlushStore
  <2>2. Owner[s] \in Patient => s \in open
    BY <2>1 DEF PresenceInv
  <2>3. NotificationsTypeOK'
    BY <1>0, <2>1 DEF NotificationsTypeOK
  <2>4. NotificationNotLost'
    <3> SUFFICES ASSUME NEW n \in passed, ForUser[n] \in Patient
                 PROVE  n \in shown' \cup store'[ForUser[n]]
      BY <2>1 DEF NotificationNotLost
    <3>1. n \in shown \cup store[ForUser[n]]
      BY DEF NotesInv, NotificationNotLost
    <3> QED  BY <1>0, <2>1, <2>2, <3>1
  <2> QED  BY <2>1, <2>3, <2>4 DEF NotesInv
<1>6. ASSUME UNCHANGED noteVars  PROVE NotesInv'
  BY <1>6 DEF NotesInv, NotificationsTypeOK, NotificationNotLost, noteVars
<1>7. ASSUME NEW s \in Sockets, \/ Connect(s) \/ Disconnect(s) \/ GetUserChats(s)
                                \/ JoinUserRooms(s) \/ SetUserOnline(s) \/ SetUserOffline(s)
      PROVE  UNCHANGED noteVars
  BY <1>7 DEF Connect, Disconnect, GetUserChats, JoinUserRooms, SetUserOnline, SetUserOffline
<1> QED
  BY <1>3, <1>4, <1>5, <1>6, <1>7 DEF Next, vars, ConnectionStep, Chatting, Notifying

LEMMA NotesHold == Spec => []NotesInv
<1>1. ASSUME Init  PROVE NotesInv
  <2>1. NoteIdle \in NoteRequest /\ NoteIdle.pc = "idle"
    BY DEF NoteIdle, NoteRequest
  <2>2. /\ saved = {} /\ passed = {} /\ shown = {} /\ store = [u \in Users |-> {}]
        /\ noteReq = [r \in Requests |-> NoteIdle]
    BY <1>1 DEF Init, NotificationsInit
  <2> QED  BY <2>1, <2>2 DEF NotesInv, NotificationsTypeOK, NotificationNotLost
<1> QED
  BY <1>1, NotesStep, PresenceHolds, PTL DEF Spec

\* A notification for a user whose sockets wait for their connection to be made is
\* shown or kept, however connections, disconnections and notifications overlap
\* (sendNotificationToUser, handleConnection)
THEOREM NotificationCorrect == Spec => []NotificationNotLost
BY NotesHold, PTL DEF NotesInv

(***************************************************************************)
(* One chat for a pair                                                     *)
(***************************************************************************)

\* The inductive invariant: the chat of a careful pair is looked for by one request,
\* and created when there is none
LoneInv ==
    /\ \A q, r \in Requests :
           q # r /\ chatReq[q].pair = chatReq[r].pair => chatReq[q].pair \notin Careful
    /\ \A r \in Requests :
           chatReq[r].pc = "saveRoom" /\ chatReq[r].pair \in Careful =>
               \A c \in Chats : room[c] # chatReq[r].pair
    /\ OneChatPerPair

\* A handler changes its own request, and comes to a careful pair when it starts
LEMMA PairTaken ==
    ASSUME ChatInv, NEW r \in Requests, ChatCall(r) \/ ChatStep(r)
    PROVE  /\ \A q \in Requests \ {r} : chatReq'[q] = chatReq[q]
           /\ \/ chatReq'[r].pair \notin Careful
              \/ chatReq'[r].pair = chatReq[r].pair
              \/ \A q \in Requests : chatReq[q].pair # chatReq'[r].pair
           /\ chatReq'[r].pc = "saveRoom" =>
                  /\ chatReq'[r].pair = chatReq[r].pair
                  /\ \A c \in Chats : room[c] # chatReq[r].pair
<1>0. /\ chatReq \in [Requests -> ChatRequest] /\ chatReq[r] \in ChatRequest
      /\ {} \notin Careful /\ \A u : {u} \notin Careful
      /\ room \in [Chats -> Pairs \cup {{}}]
  <2>1. {} \notin Pairs /\ \A u : {u} \notin Pairs
    BY DEF Pairs
  <2> QED  BY <2>1, ChatAssumption DEF ChatInv, ChatTypes
<1>1. ASSUME ChatFinish(r)
      PROVE  /\ \A q \in Requests \ {r} : chatReq'[q] = chatReq[q]
             /\ chatReq'[r].pair = {} /\ chatReq'[r].pc = "idle"
  BY <1>0, <1>1 DEF ChatFinish, ChatIdle
<1>2. ASSUME NEW stage, ChatGoto(r, stage)
      PROVE  /\ \A q \in Requests \ {r} : chatReq'[q] = chatReq[q]
             /\ chatReq'[r].pair = chatReq[r].pair /\ chatReq'[r].pc = stage
  BY <1>0, <1>2 DEF ChatGoto, ChatRequest
<1>3. CASE ChatCall(r)
  <2>1. ASSUME NEW u \in Users, NEW p \in Users, NEW content \in SUBSET Messages,
               OpenChat(r, u, p, content)
        PROVE  /\ \A q \in Requests \ {r} : chatReq'[q] = chatReq[q]
               /\ chatReq'[r].pair = {u, p} /\ chatReq'[r].pc = "findRoom"
               /\ {u, p} \in Careful => \A q \in Requests : chatReq[q].pair # {u, p}
    BY <1>0, <2>1 DEF OpenChat, StartChat, ChatIdle
  <2>2. ASSUME NEW u \in Users, NEW c \in Chats, NEW m \in Messages,
               Post(r, u, c, m)
        PROVE  /\ \A q \in Requests \ {r} : chatReq'[q] = chatReq[q]
               /\ chatReq'[r].pair = {} /\ chatReq'[r].pc # "saveRoom"
    BY <1>0, <2>2 DEF Post, StartChat, ChatIdle
  <2>3. ASSUME NEW u \in Users, NEW c \in Chats, HandleMarkMessageAsRead(r, u, c)
        PROVE  /\ \A q \in Requests \ {r} : chatReq'[q] = chatReq[q]
               /\ chatReq'[r].pair = {} /\ chatReq'[r].pc # "saveRoom"
    BY <1>0, <2>3 DEF HandleMarkMessageAsRead, StartChat, ChatIdle
  <2> QED  BY <1>0, <1>3, <2>1, <2>2, <2>3, ChatCalls
<1>4. CASE ChatStep(r)
  <2>1. CASE FindExistingRoom(r)
    BY <1>0, <1>1, <1>2, <2>1 DEF FindExistingRoom
  <2>2. CASE SaveRoom(r)
    <3>1. \/ ChatFinish(r)
          \/ \E c \in Chats : chatReq' = [chatReq EXCEPT ![r].pc = "first", ![r].chat = {c}]
      BY <2>2 DEF SaveRoom
    <3>2. ASSUME NEW c \in Chats, chatReq' = [chatReq EXCEPT ![r].pc = "first", ![r].chat = {c}]
          PROVE  /\ \A q \in Requests \ {r} : chatReq'[q] = chatReq[q]
                 /\ chatReq'[r].pair = chatReq[r].pair /\ chatReq'[r].pc = "first"
      BY <1>0, <3>2 DEF ChatRequest
    <3> QED  BY <1>0, <1>1, <3>1, <3>2
  <2>3. CASE FindSecondParticipant(r)
    <3>1. PICK u \in chatReq[r].user, c \in chatReq[r].chat :
            /\ chatReq[r].pc = "second"
            /\ \/ ChatFinish(r)
               \/ \E p \in Others(u, c) :
                     chatReq' = [chatReq EXCEPT ![r].pc = "store", ![r].pair = {p}]
      BY <2>3 DEF FindSecondParticipant
    <3>2. ASSUME NEW p, chatReq' = [chatReq EXCEPT ![r].pc = "store", ![r].pair = {p}]
          PROVE  /\ \A q \in Requests \ {r} : chatReq'[q] = chatReq[q]
                 /\ chatReq'[r].pair \notin Careful /\ chatReq'[r].pc = "store"
      <4>1. /\ \A q \in Requests \ {r} : chatReq'[q] = chatReq[q]
            /\ chatReq'[r].pair = {p} /\ chatReq'[r].pc = "store"
        BY <1>0, <3>2 DEF ChatRequest
      <4> QED  BY <1>0, <4>1
    <3>3. CASE ChatFinish(r)
      BY <1>0, <1>1, <3>3
    <3>4. CASE \E p \in Others(u, c) :
                  chatReq' = [chatReq EXCEPT ![r].pc = "store", ![r].pair = {p}]
      BY <3>2, <3>4
    <3> QED  BY <3>1, <3>3, <3>4
  <2>4. CASE \/ StoreFirstMessage(r) \/ SendMessage(r) \/ EmitNewMessage(r)
             \/ MarkMessageAsRead(r)
    <3>1. ChatFinish(r) \/ ChatGoto(r, "emit")
      BY <2>4 DEF StoreFirstMessage, SendMessage, EmitNewMessage, Emit, MarkMessageAsRead
    <3>2. CASE ChatFinish(r)
      BY <1>0, <1>1, <3>2
    <3>3. CASE ChatGoto(r, "emit")
      BY <1>2, <3>3
    <3> QED  BY <3>1, <3>2, <3>3
  <2>5. CASE LoadMessages(r)
    <3>1. \/ ChatFinish(r)
          \/ \E marks : chatReq' = [chatReq EXCEPT ![r].pc = "mark", ![r].marks = marks]
      BY <2>5 DEF LoadMessages
    <3>2. ASSUME NEW marks, chatReq' = [chatReq EXCEPT ![r].pc = "mark", ![r].marks = marks]
          PROVE  /\ \A q \in Requests \ {r} : chatReq'[q] = chatReq[q]
                 /\ chatReq'[r].pair = chatReq[r].pair /\ chatReq'[r].pc = "mark"
      BY <1>0, <3>2 DEF ChatRequest
    <3> QED  BY <1>0, <1>1, <3>1, <3>2
  <2> QED  BY <1>4, <2>1, <2>2, <2>3, <2>4, <2>5 DEF ChatStep
<1> QED
  BY <1>3, <1>4

\* A room is created by SaveRoom only
LEMMA RoomTaken ==
    ASSUME ChatInv, NEW r \in Requests, ChatCall(r) \/ ChatStep(r)
    PROVE  \/ UNCHANGED room
           \/ /\ chatReq[r].pc = "saveRoom" /\ chatReq'[r].pc # "saveRoom"
              /\ \E c \in Chats : room' = [room EXCEPT ![c] = chatReq[r].pair]
<1>1. CASE ChatCall(r)
  BY <1>1, ChatCalls DEF OpenChat, Post, HandleMarkMessageAsRead, StartChat
<1>2. CASE SaveRoom(r)
  <2>1. PICK c \in Chats :
          /\ chatReq[r].pc = "saveRoom" /\ room' = [room EXCEPT ![c] = chatReq[r].pair]
          /\ \/ ChatFinish(r)
             \/ chatReq' = [chatReq EXCEPT ![r].pc = "first", ![r].chat = {c}]
    BY <1>2 DEF SaveRoom
  <2>2. chatReq'[r].pc # "saveRoom"
    BY <2>1 DEF ChatFinish, ChatIdle, ChatInv, ChatTypes, ChatRequest
  <2> QED  BY <2>1, <2>2
<1>3. CASE ChatStep(r) /\ ~SaveRoom(r)
  BY <1>3 DEF ChatStep, FindExistingRoom, StoreFirstMessage, FindSecondParticipant,
     SendMessage, EmitNewMessage, Emit, LoadMessages, MarkMessageAsRead
<1> QED
  BY <1>1, <1>2, <1>3

LEMMA LoneStep ==
    ASSUME ChatInv, LoneInv, [Next]_vars
    PROVE  LoneInv'
<1>1. CASE UNCHANGED <<room, message, reads, announced, chatReq>>
  BY <1>1 DEF LoneInv, OneChatPerPair
<1>2. ASSUME NEW r \in Requests, Chatting(r)  PROVE LoneInv'
  <2>0. ChatCall(r) \/ ChatStep(r)
    BY <1>2 DEF Chatting
  <2>1. ASSUME NEW x \in Requests, NEW y \in Requests, x # y,
               chatReq'[x].pair = chatReq'[y].pair, chatReq'[x].pair \in Careful
        PROVE  FALSE
    BY <2>0, <2>1, PairTaken DEF LoneInv
  <2>2. CASE UNCHANGED room
    <3>1. OneChatPerPair'
      BY <2>2 DEF LoneInv, OneChatPerPair
    <3>2. ASSUME NEW x \in Requests, chatReq'[x].pc = "saveRoom", chatReq'[x].pair \in Careful
          PROVE  \A c \in Chats : room'[c] # chatReq'[x].pair
      BY <2>0, <2>2, <3>2, PairTaken DEF LoneInv
    <3> QED  BY <2>1, <3>1, <3>2 DEF LoneInv
  <2>3. ASSUME chatReq[r].pc = "saveRoom", chatReq'[r].pc # "saveRoom",
               NEW c \in Chats, room' = [room EXCEPT ![c] = chatReq[r].pair]
        PROVE  LoneInv'
    <3>0. room \in [Chats -> Pairs \cup {{}}]
      BY DEF ChatInv
    <3>1. OneChatPerPair'
      <4> SUFFICES ASSUME NEW d \in Chats, NEW e \in Chats, d # e, room'[d] = room'[e],
                          room'[d] \in Careful
                   PROVE  FALSE
        BY DEF OneChatPerPair
      <4>1. d = c \/ e = c
        BY <2>3, <3>0 DEF LoneInv, OneChatPerPair
      <4>2. PICK f \in Chats : f # c /\ room[f] = chatReq[r].pair /\ chatReq[r].pair \in Careful
        BY <2>3, <3>0, <4>1
      <4> QED  BY <2>3, <4>2 DEF LoneInv
    <3>2. ASSUME NEW x \in Requests, chatReq'[x].pc = "saveRoom", chatReq'[x].pair \in Careful,
                 NEW d \in Chats
          PROVE  room'[d] # chatReq'[x].pair
      <4>1. x # r /\ chatReq'[x] = chatReq[x]
        BY <2>0, <2>3, <3>2, PairTaken
      <4>2. chatReq[r].pair # chatReq[x].pair /\ room[d] # chatReq[x].pair
        BY <3>2, <4>1 DEF LoneInv
      <4> QED  BY <2>3, <3>0, <4>1, <4>2
    <3> QED  BY <2>1, <3>1, <3>2 DEF LoneInv
  <2> QED  BY <2>0, <2>2, <2>3, RoomTaken
<1> QED
  BY <1>1, <1>2, ChatFrame

\* Two users have one chat when one request at a time creates it, whoever of them
\* asks for it, and also through support (createChat, createChatWithAdmin)
THEOREM OneChatCorrect == Spec => []OneChatPerPair
<1>1. ASSUME Init  PROVE LoneInv
  <2>1. /\ \A c \in Chats : room[c] = {}
        /\ \A r \in Requests : chatReq[r].pair = {} /\ chatReq[r].pc = "idle"
        /\ {} \notin Careful
    BY <1>1, ChatAssumption DEF Init, ChatInit, ChatIdle, Pairs
  <2> QED  BY <2>1 DEF LoneInv, OneChatPerPair
<1>2. LoneInv => OneChatPerPair
  BY DEF LoneInv
<1> QED
  BY <1>1, <1>2, LoneStep, ChatsHold, PTL DEF Spec

(***************************************************************************)
(* Type correctness                                                        *)
(***************************************************************************)

\* In every behaviour every variable keeps its type
THEOREM TypeCorrect == Spec => []TypeOK
<1> DEFINE Heard == heard \in [Sockets -> SUBSET Messages]
<1>1. Init => Heard
  BY DEF Init, ChatInit
<1>2. ASSUME Heard, ChatInv, [Next]_vars  PROVE Heard'
  <2>1. ASSUME NEW r \in Requests, Chatting(r)  PROVE Heard'
    <3>1. CASE ChatCall(r)
      BY <1>2, <3>1, ChatCalls DEF OpenChat, Post, HandleMarkMessageAsRead, StartChat
    <3>2. CASE EmitNewMessage(r)
      <4>1. chatReq[r].message \subseteq Messages
        BY <1>2 DEF ChatInv, ChatTypes, ChatRequest
      <4> QED  BY <1>2, <3>2, <4>1 DEF EmitNewMessage, Emit
    <3>3. CASE ChatStep(r) /\ ~EmitNewMessage(r)
      BY <1>2, <3>3 DEF ChatStep, FindExistingRoom, SaveRoom, StoreFirstMessage,
         FindSecondParticipant, SendMessage, LoadMessages, MarkMessageAsRead
    <3> QED  BY <2>1, <3>1, <3>2, <3>3 DEF Chatting
  <2>2. ASSUME NEW s \in Sockets, Connect(s) \/ Disconnect(s) \/ ConnectionStep(s)  PROVE Heard'
    BY <1>2, <2>2 DEF Connect, Disconnect, ConnectionStep, GetUserChats, JoinUserRooms,
       SetUserOnline, ShowStored, SetUserOffline, chatVars
  <2>3. CASE (\E r \in Requests : Notifying(r)) \/ UNCHANGED vars
    BY <1>2, <2>3 DEF Notifying, vars, chatVars
  <2> QED  BY <1>2, <2>1, <2>2, <2>3 DEF Next
<1>3. Heard /\ ChatInv /\ PresenceInv /\ NotesInv => TypeOK
  BY DEF ChatInv, ChatTypes, PresenceInv, NotesInv, TypeOK, ChatTypeOK
<1> QED
  BY <1>1, <1>2, <1>3, ChatsHold, PresenceHolds, NotesHold, PTL DEF Spec
=============================================================================
