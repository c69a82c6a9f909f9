-------------------------------- MODULE Chat --------------------------------
(***************************************************************************)
(* Chats: ChatService (src/src/modules/chat/chat.service.ts) and the chat  *)
(* events of the gateway.  A chat room joins two users; it is looked for   *)
(* before it is created.  A message is stored and then emitted to the room *)
(* and to the partner; a MessageRead row says that a user has read one.    *)
(***************************************************************************)
EXTENDS Sockets

CONSTANTS
    Admin,      \* the user findOne finds with the role of an administrator
    Messages,   \* messages that may be sent
    Careful     \* pairs of users whose chat one request at a time creates

Pairs == {pair \in SUBSET Users : \E u, p \in Users : u # p /\ pair = {u, p}}

ASSUME ChatAssumption ==
    /\ Admin \in Users
    /\ Careful \subseteq Pairs

VARIABLES
    room,       \* room[c]: the participants of chat c, none if it does not exist
    message,    \* message[m]: chat and sender of m, once it is stored
    reads,      \* reads[m]: the users with a MessageRead row for m
    heard,      \* heard[s]: the messages emitted to socket s since it is open
    announced,  \* messages whose newMessage event was emitted
    chatReq     \* the handlers in flight

chatVars == <<room, message, reads, heard, announced, chatReq>>

\* pair: the users whose chat is created; found: the room it found, or the room
\* written to; message: the message under way; marks: the messages to mark
ChatRequest == [pc: {"idle", "findRoom", "saveRoom", "first", "second", "store", "emit",
                     "load", "mark"},
                user: SUBSET Users, pair: SUBSET Users, chat: SUBSET Chats,
                message: SUBSET Messages, marks: SUBSET Messages]

ChatIdle == [pc |-> "idle", user |-> {}, pair |-> {}, chat |-> {},
             message |-> {}, marks |-> {}]

ChatTypeOK ==
    /\ room \in [Chats -> Pairs \cup {{}}]
    /\ message \in [Messages -> [chat: SUBSET Chats, sender: SUBSET Users]]
    /\ reads \in [Messages -> SUBSET Users]
    /\ heard \in [Sockets -> SUBSET Messages]
    /\ announced \subseteq Messages
    /\ chatReq \in [Requests -> ChatRequest]

ChatInit ==
    /\ room = [c \in Chats |-> {}]
    /\ message = [m \in Messages |-> [chat |-> {}, sender |-> {}]]
    /\ reads = [m \in Messages |-> {}]
    /\ heard = [s \in Sockets |-> {}]
    /\ announced = {}
    /\ chatReq = [r \in Requests |-> ChatIdle]

(***************************************************************************)
(* Reading                                                                 *)
(***************************************************************************)

\* getUserChats
RoomsOf(u) == {c \in Chats : u \in room[c]}

\* getChatSecondParticipant: the users of the chat other than u, two if u is none
\* of them
Others(u, c) == room[c] \ {u}

MessagesIn(c) == {m \in Messages : message[m].chat = {c}}

\* countUnreadMessages joins each message of the others with its MessageRead
\* rows and counts the messages that have a row that is not the user's, or none
CountUnreadMessages(u, c) ==
    {m \in MessagesIn(c) :
        /\ message[m].sender # {u}
        /\ reads[m] = {} \/ \E x \in reads[m] : x # u}

ChatGoto(r, stage) == chatReq' = [chatReq EXCEPT ![r].pc = stage]

ChatFinish(r) == chatReq' = [chatReq EXCEPT ![r] = ChatIdle]

StartChat(r, request) ==
    /\ chatReq[r].pc = "idle"
    /\ chatReq' = [chatReq EXCEPT ![r] = request]
    /\ Called
    /\ UNCHANGED <<open, ownRoom, chatRooms, room, message, reads, heard, announced>>

Unsent(m) ==
    /\ message[m].chat = {}
    /\ \A q \in Requests : m \notin chatReq[q].message

(***************************************************************************)
(* Creating a chat                                                         *)
(***************************************************************************)

OpenChat(r, u, p, content) ==
    /\ u # p
    /\ {u, p} \in Careful => \A q \in Requests : chatReq[q].pair # {u, p}
    /\ content \subseteq {m \in Messages : Unsent(m)} /\ Cardinality(content) <= 1
    /\ StartChat(r, [ChatIdle EXCEPT !.pc = "findRoom", !.user = {u}, !.pair = {u, p},
                                     !.message = content])

\* POST /chats, with or without a first message
CreateChat(r, u, p, content) == OpenChat(r, u, p, content)

\* A slip: the chat with the administrator is always created
SlipNewSupportChat(r, u) ==
    /\ u # Admin
    /\ StartChat(r, [ChatIdle EXCEPT !.pc = "saveRoom", !.user = {u}, !.pair = {u, Admin}])

\* POST /chats/support
CreateChatWithAdmin(r, u) == OpenChat(r, u, Admin, {})

\* The rooms in which both users take part: the first found is the answer
FindExistingRoom(r) ==
    LET existing == {c \in Chats : room[c] = chatReq[r].pair}
    IN /\ chatReq[r].pc = "findRoom"
       /\ IF existing = {} THEN ChatGoto(r, "saveRoom") ELSE ChatFinish(r)
       /\ UNCHANGED <<socketVars, room, message, reads, heard, announced>>

\* The room is stored and newChat emitted to both users; nobody joins the room
SaveRoom(r) ==
    \E c \in Chats :
        /\ chatReq[r].pc = "saveRoom" /\ room[c] = {}
        /\ room' = [room EXCEPT ![c] = chatReq[r].pair]
        /\ IF chatReq[r].message = {} THEN ChatFinish(r)
           ELSE chatReq' = [chatReq EXCEPT ![r].pc = "first", ![r].chat = {c}]
        /\ UNCHANGED <<socketVars, message, reads, heard, announced>>

Stored(r) == [chat |-> chatReq[r].chat, sender |-> chatReq[r].user]

\* The first message is stored and not emitted
StoreFirstMessage(r) ==
    \E m \in chatReq[r].message :
        /\ chatReq[r].pc = "first"
        /\ message' = [message EXCEPT ![m] = Stored(r)]
        /\ ChatFinish(r)
        /\ UNCHANGED <<socketVars, room, reads, heard, announced>>

(***************************************************************************)
(* Messages                                                                *)
(***************************************************************************)

\* Any user may name any chat, also one that does not exist
Post(r, u, c, m) ==
    /\ Unsent(m)
    /\ StartChat(r, [ChatIdle EXCEPT !.pc = "second", !.user = {u}, !.chat = {c},
                                     !.message = {m}])

\* The event sendMessage of an open socket
HandleSendMessage(r, s, c, m) == s \in open /\ Post(r, Owner[s], c, m)

\* POST /chats/:chatId/file; the upload is done
UploadChatFile(r, u, c, m) == Post(r, u, c, m)

\* The partner is read before the message is stored; the first of the others is taken
FindSecondParticipant(r) ==
    \E u \in chatReq[r].user, c \in chatReq[r].chat :
        /\ chatReq[r].pc = "second"
        /\ \/ Others(u, c) = {} /\ ChatFinish(r)
           \/ \E p \in Others(u, c) :
                 chatReq' = [chatReq EXCEPT ![r].pc = "store", ![r].pair = {p}]
        /\ UNCHANGED <<socketVars, room, message, reads, heard, announced>>

SendMessage(r) ==
    \E m \in chatReq[r].message :
        /\ chatReq[r].pc = "store"
        /\ message' = [message EXCEPT ![m] = Stored(r)]
        /\ ChatGoto(r, "emit")
        /\ UNCHANGED <<socketVars, room, reads, heard, announced>>

Emit(r, sockets) ==
    /\ chatReq[r].pc = "emit"
    /\ heard' = [s \in Sockets |->
                   IF s \in sockets THEN heard[s] \cup chatReq[r].message ELSE heard[s]]
    /\ announced' = announced \cup chatReq[r].message
    /\ ChatFinish(r)
    /\ UNCHANGED <<socketVars, room, message, reads>>

\* A slip: only the room of the chat is addressed
SlipEmitToRoom(r) == Emit(r, To({}, chatReq[r].chat))

\* newMessage goes to the room of the chat and to the room of the partner
EmitNewMessage(r) == Emit(r, To(chatReq[r].pair, chatReq[r].chat))

(***************************************************************************)
(* Reading messages                                                        *)
(***************************************************************************)

\* The event markMessageAsRead, of any user for any chat
HandleMarkMessageAsRead(r, u, c) ==
    StartChat(r, [ChatIdle EXCEPT !.pc = "load", !.user = {u}, !.chat = {c}])

\* A slip: a user's own messages are marked as well
SlipMarkOwn(r) ==
    \E u \in chatReq[r].user, c \in chatReq[r].chat :
        /\ chatReq[r].pc = "load"
        /\ chatReq' = [chatReq EXCEPT ![r].pc = "mark",
                         ![r].marks = {m \in MessagesIn(c) : u \notin reads[m]}]
        /\ UNCHANGED <<socketVars, room, message, reads, heard, announced>>

\* The messages of the others that have no mark of the user
LoadMessages(r) ==
    \E u \in chatReq[r].user, c \in chatReq[r].chat :
        /\ chatReq[r].pc = "load"
        /\ \/ room[c] = {} /\ ChatFinish(r)
           \/ /\ room[c] # {}
              /\ chatReq' = [chatReq EXCEPT ![r].pc = "mark",
                               ![r].marks = {m \in MessagesIn(c) :
                                                message[m].sender # {u} /\ u \notin reads[m]}]
        /\ UNCHANGED <<socketVars, room, message, reads, heard, announced>>

\* A slip: the rows are stored for a missing user
SlipUndefinedReader(r) ==
    /\ chatReq[r].pc = "mark"
    /\ reads' = [m \in Messages |->
                   IF m \in chatReq[r].marks THEN reads[m] \cup {"undefined"} ELSE reads[m]]
    /\ ChatFinish(r)
    /\ UNCHANGED <<socketVars, room, message, heard, announced>>

\* One row for each; two handlers that overlap store a row twice, which the
\* queries do not tell from once
MarkMessageAsRead(r) ==
    /\ chatReq[r].pc = "mark"
    /\ reads' = [m \in Messages |->
                   IF m \in chatReq[r].marks THEN reads[m] \cup chatReq[r].user ELSE reads[m]]
    /\ ChatFinish(r)
    /\ UNCHANGED <<socketVars, room, message, heard, announced>>

ChatStep(r) ==
    \/ FindExistingRoom(r) \/ SaveRoom(r) \/ StoreFirstMessage(r)
    \/ FindSecondParticipant(r) \/ SendMessage(r) \/ EmitNewMessage(r)
    \/ LoadMessages(r) \/ MarkMessageAsRead(r)

ChatCall(r) ==
    \/ \E u, p \in Users, content \in SUBSET Messages : CreateChat(r, u, p, content)
    \/ \E u \in Users : CreateChatWithAdmin(r, u)
    \/ \E c \in Chats, m \in Messages :
          \/ \E s \in Sockets : HandleSendMessage(r, s, c, m)
          \/ \E u \in Users : UploadChatFile(r, u, c, m)
    \/ \E u \in Users, c \in Chats : HandleMarkMessageAsRead(r, u, c)
=============================================================================
