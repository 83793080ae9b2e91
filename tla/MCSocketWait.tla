----------------------------- MODULE MCSocketWait -----------------------------
(* Small instances of SocketWait for TLC. *)
EXTENDS SocketWait
===============================================================================
