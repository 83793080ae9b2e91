---------------------------- MODULE MessageChannel ----------------------------
(***************************************************************************)
(* What a pair of sockets promises: a sequence of parts to which whole     *)
(* messages are appended and from which single parts are taken.            *)
(***************************************************************************)
EXTENDS Naturals, Sequences

VARIABLE stream

(* Every part but the last one is marked "more".                           *)
IsMessage(m) ==
  /\ Len(m) > 0
  /\ \A i \in 1..Len(m) : m[i].more <=> i < Len(m)

(* Parts that several calls chain are one message, which is why the parts  *)
(* of each call are not told apart here.                                   *)
Put ==
  /\ Len(stream') > Len(stream)
  /\ SubSeq(stream', 1, Len(stream)) = stream
  /\ IsMessage(SubSeq(stream', Len(stream) + 1, Len(stream')))

Take == stream # <<>> /\ stream' = Tail(stream)

ChannelSpec == stream = <<>> /\ [][Put \/ Take]_stream
===============================================================================
