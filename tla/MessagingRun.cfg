\* A user with two sockets, another one and the administrator: chats, messages,
\* notifications
CONSTANTS
    u1 = u1  admin = admin  s1 = s1  s2 = s2  m1 = m1  n1 = n1  n2 = n2
    Users = {u1, u2, admin}
    Sockets = {s1, s2}
    Owner <- SocketOwners
    Chats = {c1, c2}
    Requests = {r1, r2}
    MaxCalls = 3
    Admin = admin
    Messages = {m1}
    Careful <- Pairs
    Notes = {n1, n2}
    ForUser <- NoteUsers
    Enabled = {u1}
    NoSocket = none
    Patient = {u1}
CHECK_DEADLOCK FALSE
SPECIFICATION FairSpec
INVARIANTS TypeOK OneChatPerPair UnreadCountExact NotificationNotLost GoneIsOffline
PROPERTIES PartnerHears KeptIsShown
