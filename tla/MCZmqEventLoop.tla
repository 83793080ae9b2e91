---------------------------- MODULE MCZmqEventLoop ----------------------------
(* Small instances of ZmqEventLoop for TLC.                                *)
EXTENDS ZmqEventLoop, TLC

(* The external threads are interchangeable (sound for the safety runs).   *)
Symmetry == Permutations(Threads)
===============================================================================
