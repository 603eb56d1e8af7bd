-------------------------- MODULE MCNotifications --------------------------
(* One key, two chats, one code and one URL. *)
EXTENDS Notifications, TLC
CONSTANTS s1, h1, h2, k1, u1
==============================================================================
