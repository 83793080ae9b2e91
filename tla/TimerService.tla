---------------------------- MODULE TimerService ------------------------------
(***************************************************************************)
(* What ZmqEventLoop promises of its timeouts (fbzmq/async/ZmqEventLoop.h, *)
(* scheduleTimeout(), scheduleTimeoutAt(), cancelTimeout()), without the   *)
(* heap, the set of active ids and the passes of the loop: a timeout that  *)
(* is pending is executed at most once, not before its time, after every   *)
(* pending timeout that is due earlier or was inserted earlier for the     *)
(* same time, and not at all once it was cancelled.                        *)
(*                                                                         *)
(* EventLoopTimeouts implements this specification; ZmqTimeout and         *)
(* ZmqThrottle are clients of it.                                          *)
(***************************************************************************)
EXTENDS Naturals

CONSTANTS
  MaxTime,      \* bound: the last reading of the steady clock
  MaxTimeouts   \* bound: timeouts ever scheduled

ASSUME TimeAssumption == MaxTime \in Nat /\ MaxTimeouts \in Nat

VARIABLES
  now,         \* the steady clock
  nextId,      \* timeoutId_: the token of the next timeout
  pending,     \* timeouts scheduled, not executed and not cancelled
  fired,       \* history: timeouts executed
  cancelled    \* history: tokens for which cancelTimeout() returned true

timerVars == <<now, nextId, pending, fired, cancelled>>

Timeout == [id : Nat, at : Nat]
Ids(S) == {e.id : e \in S}

TimerTypeOK ==
  /\ now \in Nat /\ nextId \in Nat
  /\ pending \in SUBSET Timeout /\ fired \in SUBSET Timeout
  /\ cancelled \in SUBSET Nat

TimerInit ==
  /\ now = 0 /\ nextId = 0
  /\ pending = {} /\ fired = {} /\ cancelled = {}

(* e is executed before every other timeout of S.                          *)
IsFirst(e, S) ==
  /\ e \in S
  /\ \A f \in S : e.at < f.at \/ (e.at = f.at /\ e.id <= f.id)

ClockTick ==
  /\ now < MaxTime /\ now' = now + 1
  /\ UNCHANGED <<nextId, pending, fired, cancelled>>

(* A call of scheduleTimeoutAt() returns the token nextId.                 *)
Schedule(at) ==
  /\ nextId < MaxTimeouts
  /\ nextId' = nextId + 1
  /\ pending' = pending \cup {[id |-> nextId, at |-> at]}
  /\ UNCHANGED <<now, fired, cancelled>>

(* A call of cancelTimeout() that returns true.                            *)
Cancel(id) ==
  /\ id \in Ids(pending)
  /\ pending' = {e \in pending : e.id # id}
  /\ cancelled' = cancelled \cup {id}
  /\ UNCHANGED <<now, nextId, fired>>

Fire(e) ==
  /\ IsFirst(e, pending) /\ e.at <= now
  /\ pending' = pending \ {e}
  /\ fired' = fired \cup {e}
  /\ UNCHANGED <<now, nextId, cancelled>>

(* Any time point may be asked for: it is read off the new timeout.        *)
TimerNext ==
  \/ ClockTick
  \/ \E e \in pending' : Schedule(e.at)
  \/ \E id \in Ids(pending) : Cancel(id)
  \/ \E e \in pending : Fire(e)

TimerSpec == TimerInit /\ [][TimerNext]_timerVars
===============================================================================
