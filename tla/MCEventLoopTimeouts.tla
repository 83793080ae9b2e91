------------------------- MODULE MCEventLoopTimeouts --------------------------
(* Small instances of EventLoopTimeouts for TLC.                           *)
EXTENDS EventLoopTimeouts
===============================================================================
