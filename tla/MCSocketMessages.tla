--------------------------- MODULE MCSocketMessages ---------------------------
(* Small instances of SocketMessages for TLC. *)
EXTENDS SocketMessages
===============================================================================
