---------------------------- MODULE Notifications ----------------------------
(***************************************************************************)
(* Notifications: NotificationsService                                     *)
(* (src/src/modules/notifications/notifications.service.ts) and the        *)
(* handleCreateNotification of the gateway, through which the other        *)
(* services notify.  A notification is stored in the database, then        *)
(* emitted to a socket of the user or, for lack of one, kept in a Map of   *)
(* the process until the user connects.                                    *)
(***************************************************************************)
EXTENDS Sockets

CONSTANTS
    Notes,      \* notifications that may be created
    ForUser,    \* ForUser[n]: the user n is for
    Enabled,    \* users who have notifications enabled
    NoSocket

ASSUME NotificationsAssumption ==
    /\ ForUser \in [Notes -> Users]
    /\ Enabled \subseteq Users
    /\ NoSocket \notin Sockets

VARIABLES
    saved,      \* the notification table
    passed,     \* notifications given to sendNotificationToUser by createNotification
    shown,      \* notifications emitted to an open socket of their user
    store,      \* notificationsStore
    noteReq     \* the handlers in flight

noteVars == <<saved, passed, shown, store, noteReq>>

\* gateway: called through handleCreateNotification, not by POST /notifications;
\* client: the socket the handler was called with
NoteRequest == [pc: {"idle", "save", "generate", "send", "client"}, note: SUBSET Notes,
                gateway: BOOLEAN, client: Sockets \cup {NoSocket}]

NoteIdle == [pc |-> "idle", note |-> {}, gateway |-> FALSE, client |-> NoSocket]

NotificationsTypeOK ==
    /\ saved \subseteq Notes /\ passed \subseteq saved
    /\ shown \subseteq Notes
    /\ store \in [Users -> SUBSET Notes]
    /\ noteReq \in [Requests -> NoteRequest]

NotificationsInit ==
    /\ saved = {} /\ passed = {} /\ shown = {}
    /\ store = [u \in Users |-> {}]
    /\ noteReq = [r \in Requests |-> NoteIdle]

NoteGoto(r, stage) == noteReq' = [noteReq EXCEPT ![r].pc = stage]

NoteFinish(r) == noteReq' = [noteReq EXCEPT ![r] = NoteIdle]

\* One open socket of the user gets it, or the Map keeps it
SendNotificationToUser(n) ==
    LET u == ForUser[n]
    IN IF SocketsOf(u) # {}
       THEN shown' = shown \cup {n} /\ UNCHANGED store
       ELSE store' = [store EXCEPT ![u] = @ \cup {n}] /\ UNCHANGED shown

StartNote(r, n, gateway, client) ==
    /\ noteReq[r].pc = "idle" /\ n \notin saved
    /\ \A q \in Requests : n \notin noteReq[q].note
    /\ noteReq' = [noteReq EXCEPT ![r] = [pc |-> "save", note |-> {n},
                                          gateway |-> gateway, client |-> client]]
    /\ Called
    /\ UNCHANGED <<open, ownRoom, chatRooms, saved, passed, shown, store>>

\* A service notifies a user: the client is a socket of that user, or null
NotifyFromService(r, n) ==
    LET own == SocketsOf(ForUser[n])
    IN IF own = {} THEN StartNote(r, n, TRUE, NoSocket)
       ELSE \E s \in own : StartNote(r, n, TRUE, s)

\* The event createNotification of any client
HandleCreateNotification(r, n) == \E s \in open : StartNote(r, n, TRUE, s)

\* POST /notifications: no gateway around the service
PostNotification(r, n) == StartNote(r, n, FALSE, NoSocket)

SaveNotification(r) ==
    /\ noteReq[r].pc = "save"
    /\ saved' = saved \cup noteReq[r].note
    /\ NoteGoto(r, "generate")
    /\ UNCHANGED <<socketVars, passed, shown, store>>

\* generateNotification reads the user and the order.  Without an order id the
\* lookup takes any order there is; without any order it fails, and with it
\* the handler, the notification being saved.
GenerateNotification(r) ==
    /\ noteReq[r].pc = "generate"
    /\ \/ NoteGoto(r, "send")
       \/ NoteFinish(r)
    /\ UNCHANGED <<socketVars, saved, passed, shown, store>>

\* createNotification itself sends to a user who wants notifications
SendCreated(r) ==
    \E n \in noteReq[r].note :
        /\ noteReq[r].pc = "send"
        /\ IF ForUser[n] \in Enabled
           THEN SendNotificationToUser(n) /\ passed' = passed \cup {n}
           ELSE UNCHANGED <<shown, store, passed>>
        /\ IF noteReq[r].gateway THEN NoteGoto(r, "client") ELSE NoteFinish(r)
        /\ UNCHANGED <<socketVars, saved>>

\* ... and the gateway sends once more, whatever the user wants: through the
\* client it was given if that is the user's (an emit to a socket that has
\* closed is lost), else by sendNotificationToUser; a null client throws
SendThroughClient(r) ==
    \E n \in noteReq[r].note :
        LET client == noteReq[r].client
        IN /\ noteReq[r].pc = "client"
           /\ IF client = NoSocket THEN UNCHANGED <<shown, store>>
              ELSE IF Owner[client] # ForUser[n] THEN SendNotificationToUser(n)
              ELSE /\ shown' = IF client \in open THEN shown \cup {n} ELSE shown
                   /\ UNCHANGED store
           /\ NoteFinish(r)
           /\ UNCHANGED <<socketVars, saved, passed>>

\* The last lines of handleConnection: what was kept is emitted and forgotten
FlushStore(s) ==
    LET u == Owner[s]
    IN /\ shown' = IF s \in open THEN shown \cup store[u] ELSE shown
       /\ store' = [store EXCEPT ![u] = {}]
       /\ UNCHANGED <<saved, passed, noteReq>>

NotificationStep(r) ==
    SaveNotification(r) \/ GenerateNotification(r) \/ SendCreated(r) \/ SendThroughClient(r)

NotificationCall(r) ==
    \E n \in Notes : NotifyFromService(r, n) \/ HandleCreateNotification(r, n)
                        \/ PostNotification(r, n)
=============================================================================
