------------------------- MODULE MCAsyncSignalHandler -------------------------
(* Small instances of AsyncSignalHandler for TLC. *)
EXTENDS AsyncSignalHandler
===============================================================================
