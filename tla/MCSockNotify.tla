---------------------------- MODULE MCSockNotify ----------------------------
(* The transport with a small bound on what has arrived. *)
EXTENDS SockNotify
=============================================================================
