--------------------------- MODULE EventLoopTimeouts --------------------------
(***************************************************************************)
(* The timeouts of ZmqEventLoop (fbzmq/async/ZmqEventLoop.cpp): the heap,  *)
(* the set of active tokens, and the part of loopForever() that computes   *)
(* the poll timeout and runs what is due.  Everything here is done by the  *)
(* thread that loops (or by the only thread that uses the object while it  *)
(* does not loop); what interleaves are the calls that callbacks make in   *)
(* the middle of a pass, and the clock.                                    *)
(***************************************************************************)
EXTENDS Naturals

CONSTANTS
  TicksPerMs,   \* readings of the steady clock per millisecond
  Health,       \* healthCheckDuration_, in milliseconds
  Delays,       \* durations given to scheduleTimeout(), in milliseconds
  TimePoints,   \* time points given to scheduleTimeoutAt()
  MaxTime,      \* bound: the last reading of the steady clock
  MaxTimeouts   \* bound: timeouts ever scheduled

ASSUME TimeoutsAssumption ==
  /\ TicksPerMs \in Nat \ {0} /\ Health \in Nat \ {0}
  /\ Delays \subseteq Nat /\ TimePoints \subseteq Nat
  /\ MaxTime \in Nat /\ MaxTimeouts \in Nat

VARIABLES
  now,         \* the steady clock
  nextId,      \* timeoutId_
  heap,        \* timeoutHeap_
  active,      \* activeTimeouts_
  phase,       \* where the thread is in loopForever()
  snapshot,    \* `now` of loopForever(), read once per pass
  polled,      \* during poll(): the clock when it was entered ...
  wake,        \* ... and when it returns at the latest
  current,     \* during a callback: its timeout
  fired,       \* history: timeouts executed
  cancelled,   \* history: tokens for which cancelTimeout() returned true
  fresh        \* history: tokens given out by scheduleTimeout() in this pass

passVars  == <<phase, snapshot, polled, wake, current>>
histVars  == <<fired, cancelled, fresh>>
vars == <<now, nextId, heap, active, passVars, histVars>>

Timeout == [id : Nat, at : Nat]
Ids(S) == {e.id : e \in S}
Phases == {"idle", "poll", "dispatch", "process", "callback"}

(* Every variable keeps its type.                                          *)
TypeOK ==
  /\ now \in Nat /\ nextId \in Nat
  /\ heap \in SUBSET Timeout /\ active \in SUBSET Nat
  /\ phase \in Phases /\ snapshot \in Nat /\ polled \in Nat /\ wake \in Nat
  /\ current \in Nat
  /\ fired \in SUBSET Timeout
  /\ cancelled \in SUBSET Nat /\ fresh \in SUBSET Nat

Init ==
  /\ now = 0 /\ nextId = 0
  /\ heap = {} /\ active = {}
  /\ phase = "idle" /\ snapshot = 0 /\ polled = 0 /\ wake = 0 /\ current = 0
  /\ fired = {} /\ cancelled = {} /\ fresh = {}

(* The top of the heap: a stable min-heap on scheduledTime, in which the   *)
(* token tells which of two equal elements was inserted first.             *)
IsTop(e) ==
  /\ e \in heap
  /\ \A f \in heap : e.at < f.at \/ (e.at = f.at /\ e.id <= f.id)

(* Callers run in callbacks, or while the object is not looping.           *)
callerRuns == phase \in {"idle", "dispatch", "callback"}
-------------------------------------------------------------------------------
(* Time passes everywhere, in poll() only until the poll timeout.          *)
tick ==
  /\ now < MaxTime
  /\ phase = "poll" => now < wake
  /\ now' = now + 1
  /\ UNCHANGED <<nextId, heap, active, passVars, histVars>>

scheduleTimeoutAt(at) ==
  /\ callerRuns /\ nextId < MaxTimeouts
  /\ nextId' = nextId + 1
  /\ heap' = heap \cup {[id |-> nextId, at |-> at]}
  /\ active' = active \cup {nextId}
  /\ UNCHANGED <<now, passVars, fired, cancelled>>

(* scheduleTimeoutAt() called by a user, with a time point of any kind.    *)
userScheduleAt(at) == scheduleTimeoutAt(at) /\ UNCHANGED fresh

scheduleTimeout(delay) ==
  /\ scheduleTimeoutAt(now + delay * TicksPerMs)
  /\ fresh' = fresh \cup {nextId}

(* The token is erased; the element stays in the heap.                     *)
cancelTimeout(id) ==
  /\ callerRuns
  /\ active' = active \ {id}
  /\ cancelled' = IF id \in active THEN cancelled \cup {id} ELSE cancelled
  /\ UNCHANGED <<now, nextId, heap, passVars, fired, fresh>>

(* The larger and the smaller of two numbers (std::max, std::min).         *)
larger(a, b) == IF a >= b THEN a ELSE b
smaller(a, b) == IF a <= b THEN a ELSE b

(* scheduledTime of the top of the heap.                                   *)
topTime == CHOOSE t \in {e.at : e \in heap} : \A e \in heap : t <= e.at

(* Mutant: healthCheckDuration_ is used only when the heap is empty.       *)
MutPollTimeoutIgnoresHealth ==
  IF heap = {} THEN Health
  ELSE IF topTime > now THEN larger(1, (topTime - now) \div TicksPerMs) ELSE 1

(* Poll timeout in milliseconds: duration_cast truncates the waiting time, *)
(* which is 0 or negative when the top of the heap is due.                 *)
pollTimeout ==
  LET waitTime == IF topTime > now THEN (topTime - now) \div TicksPerMs ELSE 0
  IN  IF heap = {} THEN Health ELSE smaller(larger(1, waitTime), Health)

enterPoll ==
  /\ polled' = now
  /\ wake' = now + pollTimeout * TicksPerMs
  /\ phase' = "poll" /\ snapshot' = 0
  /\ UNCHANGED <<now, nextId, heap, active, current, histVars>>

run == phase = "idle" /\ enterPoll

(* poll() returns early for an event, or at its timeout.                   *)
pollReturns ==
  /\ phase = "poll"
  /\ phase' = "dispatch" /\ polled' = 0 /\ wake' = 0
  /\ UNCHANGED <<now, nextId, heap, active, snapshot, current, histVars>>

(* The socket callbacks are done; the clock is read once.                  *)
beginTimeouts ==
  /\ phase = "dispatch"
  /\ snapshot' = now
  /\ phase' = "process"
  /\ fresh' = {}
  /\ UNCHANGED <<now, nextId, heap, active, polled, wake, current, fired,
                 cancelled>>

(* Mutant: the loop over the heap is left at a cancelled timeout.          *)
MutSkipCancelledBreaks(e) ==
  /\ phase = "process" /\ IsTop(e) /\ e.at < snapshot
  /\ e.id \notin active
  /\ enterPoll

(* A cancelled timeout is dropped when it comes to the top.                *)
skipCancelled(e) ==
  /\ phase = "process" /\ IsTop(e) /\ e.at < snapshot
  /\ e.id \notin active
  /\ heap' = heap \ {e}
  /\ UNCHANGED <<now, nextId, active, passVars, histVars>>

(* Mutant: the clock is read again for every element of the heap.          *)
MutFireRereadsClock(e) ==
  /\ phase = "process" /\ IsTop(e) /\ e.at < now
  /\ e.id \in active
  /\ active' = active \ {e.id}
  /\ heap' = heap \ {e}
  /\ fired' = fired \cup {e}
  /\ phase' = "callback" /\ current' = e.id
  /\ UNCHANGED <<now, nextId, snapshot, polled, wake, cancelled, fresh>>

(* Mutant: a cancelled timeout is executed like any other.                 *)
MutFireCancelled(e) ==
  /\ phase = "process" /\ IsTop(e) /\ e.at < snapshot
  /\ active' = active \ {e.id}
  /\ heap' = heap \ {e}
  /\ fired' = fired \cup {e}
  /\ phase' = "callback" /\ current' = e.id
  /\ UNCHANGED <<now, nextId, snapshot, polled, wake, cancelled, fresh>>

(* The timeout leaves heap and active set before its callback runs.        *)
fire(e) ==
  /\ phase = "process" /\ IsTop(e) /\ e.at < snapshot
  /\ e.id \in active
  /\ active' = active \ {e.id}
  /\ heap' = heap \ {e}
  /\ fired' = fired \cup {e}
  /\ phase' = "callback" /\ current' = e.id
  /\ UNCHANGED <<now, nextId, snapshot, polled, wake, cancelled, fresh>>

callbackReturns ==
  /\ phase = "callback"
  /\ phase' = "process" /\ current' = 0
  /\ UNCHANGED <<now, nextId, heap, active, snapshot, polled, wake, histVars>>

nothingDue == phase = "process" /\ \A e \in heap : e.at >= snapshot

(* The next pass, or the end of run() after a stop().                      *)
nextPass == nothingDue /\ enterPoll

leaveLoop ==
  /\ nothingDue
  /\ phase' = "idle" /\ snapshot' = 0
  /\ UNCHANGED <<now, nextId, heap, active, polled, wake, current, histVars>>
-------------------------------------------------------------------------------
Pass ==
  \/ pollReturns \/ beginTimeouts \/ callbackReturns
  \/ \E e \in heap : skipCancelled(e) \/ fire(e)

Next ==
  \/ tick
  \/ \E at \in TimePoints : userScheduleAt(at)
  \/ \E delay \in Delays : scheduleTimeout(delay)
  \/ \E id \in 0..MaxTimeouts : cancelTimeout(id)
  \/ run \/ nextPass \/ leaveLoop
  \/ Pass

Spec == Init /\ [][Next]_vars

(* The clock advances, callbacks return and the loop goes on; nothing      *)
(* obliges anyone to call run().                                           *)
Fairness == WF_vars(tick) /\ WF_vars(Pass) /\ WF_vars(nextPass)

FairSpec == Spec /\ Fairness
-------------------------------------------------------------------------------
(* Every token given out is in exactly one of three states: pending (and   *)
(* then its element is in the heap), executed, or cancelled, and once it   *)
(* left the first it never comes back: getNumPendingTimeouts() counts what *)
(* will be executed, cancelTimeout() returns true only for what will not.  *)
TokenAccounting ==
  /\ active \cup Ids(fired) \cup cancelled = 0..(nextId - 1)
  /\ active \cap Ids(fired) = {} /\ active \cap cancelled = {}
  /\ Ids(fired) \cap cancelled = {}
  /\ active \subseteq Ids(heap)

(* "If two callbacks are inserted with same timestamp then their order of  *)
(* execution will be in the same order as their order of insertion"        *)
(* (scheduleTimeoutAt), whatever is inserted or cancelled in between.      *)
SameTimeInOrder ==
  \A f \in fired, e \in heap :
    e.id \in active /\ f.at = e.at => f.id < e.id

(* A callback that calls scheduleTimeout(), even with 0, is not given the  *)
(* next turn before the sockets: the pass compares with one reading of the *)
(* clock, so it ends.                                                      *)
PassIsFinite == phase = "callback" => current \notin fresh

(* poll() sleeps at least 1 ms and at most healthCheckDuration_, and does  *)
(* not oversleep the next timeout by more than 1 ms.                       *)
PollBounds ==
  phase = "poll" =>
    /\ wake >= polled + TicksPerMs
    /\ wake <= polled + Health * TicksPerMs
    /\ \A e \in heap : wake <= larger(e.at, polled) + TicksPerMs

(* The heap with its lazily dropped elements implements TimerService.      *)
Service == INSTANCE TimerService
  WITH pending <- {e \in heap : e.id \in active}

(* Timeouts run at most once, not before their time, in order, and not     *)
(* once cancelled: the promise of ZmqEventLoop.h, stated by TimerService.  *)
ImplementsService == Service!TimerSpec

(* A pending timeout that the clock reaches is executed, unless it is      *)
(* cancelled or the loop is left.                                          *)
TimeoutIsExecuted ==
  \A id \in 0..(MaxTimeouts - 1) :
    (/\ phase # "idle"
     /\ \E e \in heap : e.id = id /\ id \in active /\ e.at < MaxTime)
    ~> (id \notin active \/ phase = "idle")
===============================================================================
