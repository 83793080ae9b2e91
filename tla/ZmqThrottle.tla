------------------------------ MODULE ZmqThrottle -----------------------------
(***************************************************************************)
(* ZmqThrottle (fbzmq/async/ZmqThrottle.cpp): a callback that may be asked *)
(* for at any moment and is executed at most once per timeout_.  A         *)
(* throttle is a ZmqTimeout that is used through operator() and cancel()   *)
(* only; it shares the executor with other ZmqTimeouts.                    *)
(***************************************************************************)
EXTENDS ZmqTimeout

CONSTANTS
  Throttles,   \* the throttles among the ZmqTimeouts
  Rates        \* their timeout_; 0 stands for "no throttling"

ASSUME RatesAssumption ==
  /\ Throttles \subseteq Timers
  /\ Rates \subseteq Nat /\ Rates \ {0} \subseteq Periods

VARIABLES
  rate,        \* timeout_, which never changes
  unserved,    \* history: objects called since they were last executed
  earliest     \* history: the last execution plus timeout_

throttleVars == <<timeoutVars, rate, unserved, earliest>>

(* Every variable keeps its type.                                          *)
ThrottleTypeOK ==
  /\ TypeOK
  /\ rate \in [Throttles -> Rates] /\ unserved \in SUBSET Throttles
  /\ earliest \in [Throttles -> Nat]

ThrottleInit ==
  /\ Init
  /\ rate \in [Throttles -> Rates]
  /\ unserved = {} /\ earliest = [t \in Throttles |-> 0]

(* callback_() is entered.  What it does are calls of the actions below.   *)
callback(t) ==
  /\ unserved' = unserved \ {t}
  /\ earliest' = [earliest EXCEPT ![t] = now + rate[t]]

(* operator() on an object that waits already.                             *)
callWaiting(t) ==
  /\ mayCall(t) /\ isScheduled(t)
  /\ unserved' = unserved \cup {t}
  /\ UNCHANGED <<timeoutVars, rate, earliest>>

(* Mutant: the callback runs at once whenever nothing is scheduled.        *)
MutCallAlwaysImmediate(t) ==
  /\ mayCall(t) /\ ~isScheduled(t)
  /\ callback(t)
  /\ UNCHANGED <<timeoutVars, rate>>

(* operator() on an object that does not throttle.                         *)
callImmediate(t) ==
  /\ mayCall(t) /\ ~isScheduled(t) /\ rate[t] = 0
  /\ callback(t)
  /\ UNCHANGED <<timeoutVars, rate>>

callFirst(t) ==
  /\ ~isScheduled(t) /\ rate[t] > 0
  /\ scheduleTimeout(t, rate[t], FALSE)
  /\ unserved' = unserved \cup {t}
  /\ UNCHANGED <<rate, earliest>>

cancel(t) ==
  /\ cancelTimeout(t)
  /\ unserved' = unserved \ {t}
  /\ UNCHANGED <<rate, earliest>>

destroyThrottle(t) ==
  /\ destroy(t)
  /\ unserved' = unserved \ {t}
  /\ UNCHANGED <<rate, earliest>>

(* timeoutExpired() overridden: the callback is entered.                   *)
timeoutExpired(t) ==
  /\ timeoutExpiredHelper(t)
  /\ callback(t)
  /\ UNCHANGED rate

(* The executor and the ZmqTimeouts that are no throttles.                 *)
OtherExecutor ==
  /\ \/ dropStale \/ expiredReturns \/ \E e \in pending : runClosure(e)
     \/ \E t \in Timers \ Throttles : timeoutExpiredHelper(t)
  /\ UNCHANGED <<rate, unserved, earliest>>

OtherCalls ==
  /\ \E t \in Timers \ Throttles :
       \/ \E p \in Periods, b \in BOOLEAN : scheduleTimeout(t, p, b)
       \/ cancelTimeout(t) \/ destroy(t)
  /\ UNCHANGED <<rate, unserved, earliest>>

ThrottleClock == clockTick /\ UNCHANGED <<rate, unserved, earliest>>

ThrottleExecutor == OtherExecutor \/ \E t \in Throttles : timeoutExpired(t)

ThrottleNext ==
  \/ \E t \in Throttles :
       \/ callWaiting(t) \/ callImmediate(t) \/ callFirst(t)
       \/ cancel(t) \/ destroyThrottle(t)
  \/ OtherCalls \/ ThrottleClock \/ ThrottleExecutor

ThrottleSpec == ThrottleInit /\ [][ThrottleNext]_throttleVars

(* As in ZmqTimeout: the clock advances, the executor runs what is due.    *)
ThrottleFairSpec ==
  ThrottleSpec /\ WF_throttleVars(ThrottleClock) /\ WF_throttleVars(ThrottleExecutor)
-------------------------------------------------------------------------------
(* "saveState() will be execute at max once per second" (ZmqThrottle.h):   *)
(* two executions are at least timeout_ apart, whatever is called or       *)
(* cancelled in between, the calls made by the callback itself included.   *)
Spaced(t) ==
  timeoutExpired(t) \/ callImmediate(t) => now >= earliest[t]

AtMostOncePerRate == [][\A t \in Throttles : Spaced(t)]_throttleVars

(* A call is never swallowed: until it is executed or cancelled the object *)
(* waits, and it never waits without having been called.                   *)
CallIsServed == \A t \in Throttles : t \in unserved <=> isScheduled(t)

(* Every call is followed by an execution, unless it is cancelled or the   *)
(* bounds of the clock and of the executor are reached.                    *)
CallIsExecuted ==
  \A t \in Throttles :
    (t \in unserved /\ asked[t] + rate[t] <= MaxTime)
      ~> (t \notin unserved \/ asked[t] + rate[t] > MaxTime \/ nextId = MaxTimeouts)
===============================================================================
