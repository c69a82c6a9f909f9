------------------------------ MODULE Messaging ------------------------------
(***************************************************************************)
(* EventsGateway (src/src/modules/events/events.gateway.ts) put together:  *)
(* connections, which read the chats, mark the user as online and show the *)
(* notifications that were kept, beside the handlers of chats and          *)
(* notifications.                                                          *)
(***************************************************************************)
EXTENDS Chat, Notifications

CONSTANTS
    Patient     \* users whose sockets close only after handleConnection is done

VARIABLES
    online,     \* users whose isOnline column is true
    connecting, \* connecting[s]: stage of handleConnection, with the chats it read
    leaving     \* sockets whose handleDisconnect is under way

presenceVars == <<online, connecting, leaving>>

vars == <<socketVars, chatVars, noteVars, presenceVars>>

TypeOK ==
    /\ SocketsTypeOK /\ ChatTypeOK /\ NotificationsTypeOK
    /\ online \subseteq Users
    /\ connecting \in [Sockets -> [pc: {"idle", "chats", "join", "online", "flush"},
                                   chats: SUBSET Chats]]
    /\ leaving \subseteq Sockets

ConnectIdle == [pc |-> "idle", chats |-> {}]

Init ==
    /\ SocketsInit /\ ChatInit /\ NotificationsInit
    /\ online = {}
    /\ connecting = [s \in Sockets |-> ConnectIdle]
    /\ leaving = {}

(***************************************************************************)
(* Connections                                                             *)
(***************************************************************************)

Connect(s) ==
    /\ connecting[s].pc = "idle" /\ s \notin leaving
    /\ OpenSocket(s)
    /\ connecting' = [connecting EXCEPT ![s].pc = "chats"]
    /\ UNCHANGED <<chatVars, noteVars, online, leaving>>

GetUserChats(s) ==
    /\ connecting[s].pc = "chats"
    /\ connecting' = [connecting EXCEPT ![s] = [pc |-> "join", chats |-> RoomsOf(Owner[s])]]
    /\ UNCHANGED <<socketVars, chatVars, noteVars, online, leaving>>

\* The rooms are joined when the answer is there
JoinUserRooms(s) ==
    /\ connecting[s].pc = "join"
    /\ JoinRooms(s, connecting[s].chats)
    /\ connecting' = [connecting EXCEPT ![s] = [pc |-> "online", chats |-> {}]]
    /\ UNCHANGED <<chatVars, noteVars, online, leaving>>

SetUserOnline(s) ==
    /\ connecting[s].pc = "online"
    /\ online' = online \cup {Owner[s]}
    /\ connecting' = [connecting EXCEPT ![s].pc = "flush"]
    /\ UNCHANGED <<socketVars, chatVars, noteVars, leaving>>

\* A slip: the Map is emptied and nothing is shown
SlipForgetStore(s) ==
    /\ connecting[s].pc = "flush"
    /\ store' = [store EXCEPT ![Owner[s]] = {}]
    /\ connecting' = [connecting EXCEPT ![s] = ConnectIdle]
    /\ UNCHANGED <<saved, passed, noteReq, shown, socketVars, chatVars, online, leaving>>

\* A slip: the connection ends without looking into the Map
SlipNoFlush(s) ==
    /\ connecting[s].pc = "flush"
    /\ connecting' = [connecting EXCEPT ![s] = ConnectIdle]
    /\ UNCHANGED <<noteVars, socketVars, chatVars, online, leaving>>

ShowStored(s) ==
    /\ connecting[s].pc = "flush"
    /\ FlushStore(s)
    /\ connecting' = [connecting EXCEPT ![s] = ConnectIdle]
    /\ UNCHANGED <<socketVars, chatVars, online, leaving>>

Disconnect(s) ==
    /\ Owner[s] \in Patient => connecting[s].pc = "idle"
    /\ CloseSocket(s)
    /\ heard' = [heard EXCEPT ![s] = {}]
    /\ leaving' = leaving \cup {s}
    /\ UNCHANGED <<room, message, reads, announced, chatReq, noteVars, online, connecting>>

\* A slip: the flag stays while the user has sockets, the closed one among them
SlipCountSelf(s) ==
    /\ s \in leaving
    /\ online' = IF \E t \in open \cup leaving : Owner[t] = Owner[s]
                 THEN online ELSE online \ {Owner[s]}
    /\ leaving' = leaving \ {s}
    /\ UNCHANGED <<socketVars, chatVars, noteVars, connecting>>

\* handleDisconnect, whichever other sockets the user has
SetUserOffline(s) ==
    /\ s \in leaving
    /\ online' = online \ {Owner[s]}
    /\ leaving' = leaving \ {s}
    /\ UNCHANGED <<socketVars, chatVars, noteVars, connecting>>

(***************************************************************************)
(* Specification                                                           *)
(***************************************************************************)

ConnectionStep(s) ==
    \/ GetUserChats(s) \/ JoinUserRooms(s) \/ SetUserOnline(s) \/ ShowStored(s)
    \/ SetUserOffline(s)

Chatting(r) == (ChatCall(r) \/ ChatStep(r)) /\ UNCHANGED <<noteVars, presenceVars>>

Notifying(r) == (NotificationCall(r) \/ NotificationStep(r)) /\ UNCHANGED <<chatVars, presenceVars>>

Next ==
    \/ \E s \in Sockets : Connect(s) \/ Disconnect(s) \/ ConnectionStep(s)
    \/ \E r \in Requests : Chatting(r) \/ Notifying(r)

Spec == Init /\ [][Next]_vars

\* The event loop runs every continuation; clients connect as they like
FairSpec ==
    /\ Spec
    /\ \A s \in Sockets : WF_vars(ConnectionStep(s))
    /\ \A r \in Requests :
          /\ WF_vars(ChatStep(r) /\ UNCHANGED <<noteVars, presenceVars>>)
          /\ WF_vars(NotificationStep(r) /\ UNCHANGED <<chatVars, presenceVars>>)

(***************************************************************************)
(* Properties                                                              *)
(***************************************************************************)

\* Two users have one chat, whoever of them asks for it and also through
\* support, when it is created by one request at a time (createChat,
\* createChatWithAdmin)
OneChatPerPair ==
    \A c, d \in Chats : c # d /\ room[c] = room[d] => room[c] \notin Careful

\* A message written and read by nobody but the two users of its chat counts as
\* unread for one of them exactly if it is the other's and he has not read it,
\* however readings and messages overlap, of other users too, whom the service
\* lets write into the chat and read it (countUnreadMessages, markMessageAsRead)
UnreadCountExact ==
    \A c \in Chats : \A u \in room[c], m \in MessagesIn(c) :
        message[m].sender \cup reads[m] \subseteq room[c] =>
            (m \in CountUnreadMessages(u, c)
                <=> message[m].sender # {u} /\ u \notin reads[m])

\* A message of one user of a chat is emitted to every socket of the other that
\* has joined its user's room, also in a chat created after it connected
\* (handleSendMessage, uploadFile)
PartnerHears ==
    [][\A m \in announced' \ announced, c \in Chats : \A s \in ownRoom :
         /\ message[m].chat = {c} /\ message[m].sender \subseteq room[c] \ {Owner[s]}
         /\ Owner[s] \in room[c]
         => m \in heard'[s]]_vars

\* A notification passed on for a patient user is shown or kept, while the user
\* connects and disconnects (sendNotificationToUser, handleConnection)
NotificationNotLost ==
    \A n \in passed : ForUser[n] \in Patient => n \in shown \cup store[ForUser[n]]

\* Whoever has closed the last socket is shown as offline in the end, however
\* the handlers of connections and disconnections overlap (setUserOffline)
GoneIsOffline ==
    \A u \in Patient :
        /\ SocketsOf(u) = {}
        /\ \A s \in Sockets : Owner[s] = u => s \notin leaving
        => u \notin online

\* What was kept for a user who stays connected is shown (handleConnection)
KeptIsShown ==
    \A n \in Notes :
        n \in store[ForUser[n]] /\ SocketsOf(ForUser[n]) # {}
            ~> n \in shown \/ SocketsOf(ForUser[n]) = {}
=============================================================================
