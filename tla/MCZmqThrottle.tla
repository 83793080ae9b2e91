---------------------------- MODULE MCZmqThrottle ----------------------------
(* Small instances of ZmqThrottle for TLC. *)
EXTENDS ZmqThrottle
===============================================================================
