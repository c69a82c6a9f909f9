----------------------------- MODULE MCMessaging -----------------------------
(***************************************************************************)
(* A small instance of Messaging: a user, who opens two sockets, another   *)
(* one and the administrator.                                              *)
(***************************************************************************)
EXTENDS Messaging, TLC

CONSTANTS u1, admin, s1, s2, m1, n1, n2

SocketOwners == (s1 :> u1) @@ (s2 :> u1)

NoteUsers == (n1 :> u1) @@ (n2 :> admin)
=============================================================================
