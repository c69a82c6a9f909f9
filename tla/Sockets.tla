------------------------------- MODULE Sockets -------------------------------
(***************************************************************************)
(* The socket.io side of EventsGateway                                     *)
(* (src/src/modules/events/events.gateway.ts): open sockets and the rooms  *)
(* they have joined.  A socket joins two kinds of rooms, the one named     *)
(* after its user and those of the user's chats; both are left when it     *)
(* closes.                                                                 *)
(***************************************************************************)
EXTENDS Naturals, FiniteSets

CONSTANTS
    Users,
    Sockets,    \* connections, one open at a time for each
    Owner,      \* Owner[s]: the user who opens s
    Chats,      \* chat rooms that may be created
    Requests,   \* handlers that may be in flight besides those of connections
    MaxCalls    \* bound on connections and calls

ASSUME SocketsAssumption ==
    /\ Owner \in [Sockets -> Users]
    /\ MaxCalls \in Nat

VARIABLES
    open,       \* server.sockets.sockets
    ownRoom,    \* the sockets that have joined the room of their user
    chatRooms,  \* the rooms of chats a socket has joined
    calls       \* connections and calls so far

socketVars == <<open, ownRoom, chatRooms, calls>>

SocketsTypeOK ==
    /\ open \subseteq Sockets
    /\ ownRoom \subseteq open
    /\ chatRooms \in [Sockets -> SUBSET Chats]
    /\ calls \in 0..MaxCalls

SocketsInit ==
    /\ open = {} /\ ownRoom = {}
    /\ chatRooms = [s \in Sockets |-> {}]
    /\ calls = 0

SocketsOf(u) == {s \in open : Owner[s] = u}

\* server.to(rooms): the open sockets in any of the rooms, each once
To(users, chats) ==
    {s \in open : s \in ownRoom /\ Owner[s] \in users} \cup
    {s \in open : chatRooms[s] \cap chats # {}}

Called == calls < MaxCalls /\ calls' = calls + 1

\* The middleware of afterInit has named the user from the token
OpenSocket(s) ==
    /\ s \notin open
    /\ open' = open \cup {s}
    /\ Called
    /\ UNCHANGED <<ownRoom, chatRooms>>

\* client.join for the user's room and the chats read; joining after the socket
\* has closed has no effect
JoinRooms(s, chats) ==
    /\ ownRoom' = IF s \in open THEN ownRoom \cup {s} ELSE ownRoom
    /\ chatRooms' = IF s \in open THEN [chatRooms EXCEPT ![s] = chats] ELSE chatRooms
    /\ UNCHANGED <<open, calls>>

CloseSocket(s) ==
    /\ s \in open
    /\ open' = open \ {s}
    /\ ownRoom' = ownRoom \ {s}
    /\ chatRooms' = [chatRooms EXCEPT ![s] = {}]
    /\ UNCHANGED calls
=============================================================================
