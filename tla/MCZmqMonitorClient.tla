-------------------------- MODULE MCZmqMonitorClient --------------------------
(* Small instances of ZmqMonitorClient for TLC. *)
EXTENDS ZmqMonitorClient

CONSTANT a

OneSet == {a :> 5}
OneBump == {<<a>>}

(* What the monitor adds to every event log: a sample of its own, as       *)
(* section |-> key |-> value.                                              *)
Common == [int    |-> [time |-> 1],
           normal |-> [domain |-> "common", host |-> "monitor"],
           tagset |-> [tags |-> {"common"}]]

(* Two logs, of a sample with values that Common has too and one that was  *)
(* not made by LogSample, without a timestamp; and of numbers only.        *)
TwoLogs == {
  <<addStringTagset(addStringVector(addString(newSample(2), "domain", "own"),
                                    "path", <<"x">>), "tags", {"own"}),
    addString(<<>>, "domain", "other")>>,
  <<addDouble(newSample(3), "load", 1)>>}
===============================================================================
