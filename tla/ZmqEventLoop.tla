----------------------------- MODULE ZmqEventLoop -----------------------------
(***************************************************************************)
(* The thread side of fbzmq::ZmqEventLoop (fbzmq/async/ZmqEventLoop.{h,cpp}): *)
(* run() and stop(), the two eventfds, the queue of callbacks that other   *)
(* threads hand to the loop, and the part of loopForever() that serves     *)
(* them.  The polled user sockets are in EventLoopPolling, the timeouts in *)
(* EventLoopTimeouts; both are touched by the loop's thread only.          *)
(*                                                                         *)
(* Every load or store of threadId_, every system call on an eventfd and   *)
(* every operation on the queue is a step of its own, because other        *)
(* threads run between them.                                               *)
(***************************************************************************)
EXTENDS Naturals, Sequences

CONSTANTS
  Threads,    \* external threads that call stop(), runInEventLoop(), ...
  Owner,      \* the thread that calls run()
  NoThread,   \* threadId_ == 0
  Capacity,   \* queueCapacity of the constructor
  MaxRuns,    \* bound: calls of run()
  MaxStops,   \* bound: no stop() is begun by a thread after so many of them
  MaxCalls    \* bound: callbacks each thread enqueues

ASSUME ConstantsAssumption ==
  /\ Owner \notin Threads
  /\ NoThread \notin Threads \cup {Owner}
  /\ Capacity \in Nat \ {0}
  /\ MaxRuns \in Nat /\ MaxStops \in Nat /\ MaxCalls \in Nat

VARIABLES
  threadId,     \* threadId_: NoThread or the thread inside run()
  stopFlag,     \* stop_
  signalFd,     \* counter of the eventfd written by stop()
  callbackFd,   \* counter of the eventfd written by runInEventLoop()
  queue,        \* callbackQueue_, in the order the writers took their tickets
  lpc,          \* where the Owner is in run() / loopForever()
  ready,        \* polled items with events, not yet dispatched in this pass
  items,        \* callbacks the handler of callbackFd_ has still to read
  pc,           \* where each external thread is in its call
  calls,        \* history: callbacks each thread has put into the queue
  done,         \* history: number of the last callback of each thread executed
  runs,         \* history: calls of run()
  stops,        \* history: writes to signalFd_ by stop()
  stopsAtRun,   \* history: value of stops when the last run() began
  failedCheck   \* "none", or the function whose CHECK ended the process

loopVars == <<lpc, ready, items, stopFlag, threadId>>
fdVars   == <<signalFd, callbackFd>>
histVars == <<calls, done, runs, stops, stopsAtRun>>
vars == <<loopVars, fdVars, queue, pc, histVars,
                 failedCheck>>

(* A queued callback: the seq-th one of its thread; it may itself call     *)
(* stop().                                                                 *)
Callback == [from : Threads, seq : Nat, stops : BOOLEAN]

LoopPC == {"idle", "entered", "poll", "dispatch", "size", "exit"}
ThreadPC == {"out", "check", "inLoop", "put", "slot", "signal", "inline",
             "stopCheck", "stopWrite"}
Items == {"signal", "callback"}

(* Every variable keeps the type its field or program counter has.         *)
TypeOK ==
  /\ threadId \in {NoThread, Owner}
  /\ stopFlag \in BOOLEAN 
  /\ failedCheck \in {"none", "stop", "runInEventLoop"}
  /\ signalFd \in Nat /\ callbackFd \in Nat
  /\ queue \in Seq(Callback)
  /\ lpc \in LoopPC /\ ready \in SUBSET Items /\ items \in Nat
  /\ pc \in [Threads -> ThreadPC]
  /\ calls \in [Threads -> Nat] /\ done \in [Threads -> Nat]
  /\ runs \in Nat /\ stops \in Nat /\ stopsAtRun \in Nat

Init ==
  /\ threadId = NoThread /\ stopFlag = FALSE
  /\ signalFd = 0 /\ callbackFd = 0
  /\ queue = <<>>
  /\ lpc = "idle" /\ ready = {} /\ items = 0
  /\ pc = [t \in Threads |-> "out"]
  /\ calls = [t \in Threads |-> 0] /\ done = [t \in Threads |-> 0]
  /\ runs = 0 /\ stops = 0 /\ stopsAtRun = 0
  /\ failedCheck = "none"

isRunning == threadId # NoThread
isInEventLoop(t) == threadId = NoThread \/ threadId = t

Goto(t, from, to) == pc[t] = from /\ pc' = [pc EXCEPT ![t] = to]

(* A failed CHECK ends the process.                                        *)
Abort(function) ==
  /\ failedCheck' = function
  /\ UNCHANGED <<loopVars, fdVars, queue, pc, histVars>>
-------------------------------------------------------------------------------
(* run() and loopForever(), by the Owner.                                  *)

(* run(): CHECK(!isRunning()), then threadId_ is published.                *)
run ==
  /\ lpc = "idle" /\ runs < MaxRuns
  /\ ~isRunning
  /\ threadId' = Owner
  /\ lpc' = "entered" /\ runs' = runs + 1 /\ stopsAtRun' = stops
  /\ UNCHANGED <<stopFlag, ready, items, fdVars, queue, pc, calls, done, stops,
                 failedCheck>>

(* Mutant: stop_ is not reset, as if the field's initializer were enough.  *)
MutEnterLoopKeepsFlag ==
  /\ lpc = "entered"
  /\ lpc' = "poll"
  /\ UNCHANGED <<threadId, stopFlag, ready, items, fdVars, queue, pc, histVars,
                 failedCheck>>

(* Mutant: a stale stop() is thrown away when the loop starts.             *)
MutEnterLoopDrains ==
  /\ lpc = "entered"
  /\ stopFlag' = FALSE /\ signalFd' = 0
  /\ lpc' = "poll"
  /\ UNCHANGED <<threadId, ready, items, callbackFd, queue, pc, histVars,
                 failedCheck>>

(* loopForever() clears stop_ only after threadId_ was published.          *)
enterLoop ==
  /\ lpc = "entered"
  /\ stopFlag' = FALSE
  /\ lpc' = "poll"
  /\ UNCHANGED <<threadId, ready, items, fdVars, queue, pc, histVars,
                 failedCheck>>

(* poll() returns the readable eventfds, or none of them on a timeout.     *)
poll ==
  /\ lpc = "poll"
  /\ ready' = {i \in Items : \/ i = "signal" /\ signalFd > 0
                             \/ i = "callback" /\ callbackFd > 0}
  /\ lpc' = "dispatch"
  /\ UNCHANGED <<threadId, stopFlag, items, fdVars, queue, pc, histVars,
                 failedCheck>>

(* Handler of signalFd_: reading an eventfd resets its counter.            *)
onSignal ==
  /\ lpc = "dispatch" /\ items = 0 /\ "signal" \in ready
  /\ signalFd' = 0
  /\ stopFlag' = TRUE
  /\ ready' = ready \ {"signal"}
  /\ UNCHANGED <<threadId, lpc, items, callbackFd, queue, pc, histVars,
                 failedCheck>>

(* Handler of callbackFd_, first half: read the eventfd ...                *)
onCallbackRead ==
  /\ lpc = "dispatch" /\ items = 0 /\ "callback" \in ready
  /\ callbackFd' = 0
  /\ ready' = ready \ {"callback"}
  /\ lpc' = "size"
  /\ UNCHANGED <<threadId, stopFlag, items, signalFd, queue, pc, histVars,
                 failedCheck>>

(* Mutant: the batch is read with --items > 0.                             *)
MutOnCallbackSizeShort ==
  /\ lpc = "size"
  /\ items' = IF queue = <<>> THEN 0 ELSE Len(queue) - 1
  /\ lpc' = "dispatch"
  /\ UNCHANGED <<threadId, stopFlag, ready, fdVars, queue, pc, histVars,
                 failedCheck>>

(* ... second half: note size(), which counts the writers that have a      *)
(* ticket and are still waiting for their slot.                            *)
onCallbackSize ==
  /\ lpc = "size"
  /\ items' = Len(queue)
  /\ lpc' = "dispatch"
  /\ UNCHANGED <<threadId, stopFlag, ready, fdVars, queue, pc, histVars,
                 failedCheck>>

(* A queue entry is there for its reader once its writer left blockingWrite. *)
Written(e) == ~(pc[e.from] = "slot" /\ e.seq = calls[e.from])

(* blockingRead() and the callback, which may call stop() from the loop's  *)
(* own thread.                                                             *)
runCallback ==
  /\ lpc = "dispatch" /\ items > 0
  /\ queue # <<>> /\ Written(Head(queue))
  /\ items' = items - 1
  /\ queue' = Tail(queue)
  /\ done' = [done EXCEPT ![Head(queue).from] = Head(queue).seq]
  /\ IF Head(queue).stops
       THEN signalFd' = signalFd + 1 /\ stops' = stops + 1
       ELSE UNCHANGED <<signalFd, stops>>
  /\ UNCHANGED <<threadId, stopFlag, lpc, ready, callbackFd, pc, calls, runs,
                 stopsAtRun, failedCheck>>

(* End of a pass: back to the test of the while loop.                      *)
endPass ==
  /\ lpc = "dispatch" /\ items = 0 /\ ready = {}
  /\ lpc' = IF stopFlag THEN "exit" ELSE "poll"
  /\ UNCHANGED <<threadId, stopFlag, ready, items, fdVars, queue, pc, histVars,
                 failedCheck>>

(* SCOPE_EXIT of run().                                                    *)
leaveRun ==
  /\ lpc = "exit"
  /\ threadId' = NoThread
  /\ lpc' = "idle"
  /\ UNCHANGED <<stopFlag, ready, items, fdVars, queue, pc, histVars,
                 failedCheck>>
-------------------------------------------------------------------------------
(* stop(), runInEventLoop() and runImmediatelyOrInEventLoop(), by others.  *)

(* The caller came out of waitUntilRunning() and calls stop().             *)
callStop(t) ==
  /\ isRunning /\ stops < MaxStops
  /\ Goto(t, "out", "stopCheck")
  /\ UNCHANGED <<loopVars, fdVars, queue, histVars, failedCheck>>

(* stop(): CHECK(isRunning()).                                             *)
stopCheck(t) ==
  \/ /\ isRunning
     /\ Goto(t, "stopCheck", "stopWrite")
     /\ UNCHANGED <<loopVars, fdVars, queue, histVars, failedCheck>>
  \/ /\ pc[t] = "stopCheck" /\ ~isRunning
     /\ Abort("stop")

(* stop(): write to signalFd_.                                             *)
stopWrite(t) ==
  /\ Goto(t, "stopWrite", "out")
  /\ signalFd' = signalFd + 1
  /\ stops' = stops + 1
  /\ UNCHANGED <<loopVars, callbackFd, queue, calls, done, runs, stopsAtRun,
                 failedCheck>>

(* A call of runInEventLoop().                                             *)
callRunInEventLoop(t) ==
  /\ calls[t] < MaxCalls
  /\ Goto(t, "out", "check")
  /\ UNCHANGED <<loopVars, fdVars, queue, histVars, failedCheck>>

(* A call of runImmediatelyOrInEventLoop(): its test of isInEventLoop().   *)
callRunImmediately(t) ==
  /\ calls[t] < MaxCalls
  /\ Goto(t, "out", IF isInEventLoop(t) THEN "inline" ELSE "check")
  /\ UNCHANGED <<loopVars, fdVars, queue, histVars, failedCheck>>

(* The callback has run on the caller's thread.                            *)
inlineDone(t) ==
  /\ Goto(t, "inline", "out")
  /\ UNCHANGED <<loopVars, fdVars, queue, histVars, failedCheck>>

(* CHECK(!isRunning() || !isInEventLoop()): the load of the left operand.  *)
checkRunning(t) ==
  /\ Goto(t, "check", IF isRunning THEN "inLoop" ELSE "put")
  /\ UNCHANGED <<loopVars, fdVars, queue, histVars, failedCheck>>

(* CHECK(!isRunning() || !isInEventLoop()): the load of the right operand. *)
checkInLoop(t) ==
  \/ /\ ~isInEventLoop(t)
     /\ Goto(t, "inLoop", "put")
     /\ UNCHANGED <<loopVars, fdVars, queue, histVars, failedCheck>>
  \/ /\ pc[t] = "inLoop" /\ isInEventLoop(t)
     /\ Abort("runInEventLoop")

(* Mutant: a callback that stops the loop overtakes the others.            *)
MutTakeTicketUrgent(t) ==
  /\ Goto(t, "put", "slot")
  /\ calls' = [calls EXCEPT ![t] = @ + 1]
  /\ \E s \in BOOLEAN :
       LET e == [from |-> t, seq |-> calls[t] + 1, stops |-> s]
       IN  queue' = IF s THEN <<e>> \o queue ELSE Append(queue, e)
  /\ UNCHANGED <<loopVars, fdVars, done, runs, stops, stopsAtRun, failedCheck>>

(* blockingWrite(): take the next ticket.                                  *)
takeTicket(t) ==
  /\ Goto(t, "put", "slot")
  /\ calls' = [calls EXCEPT ![t] = @ + 1]
  /\ \E s \in BOOLEAN :
       queue' = Append(queue, [from |-> t, seq |-> calls[t] + 1, stops |-> s])
  /\ UNCHANGED <<loopVars, fdVars, done, runs, stops, stopsAtRun, failedCheck>>

(* blockingWrite(): returns once the ticket's slot is free.                *)
fillSlot(t) ==
  /\ Goto(t, "slot", "signal")
  /\ \E i \in 1..Len(queue) :
       /\ queue[i].from = t /\ queue[i].seq = calls[t]
       /\ i <= Capacity
  /\ UNCHANGED <<loopVars, fdVars, queue, histVars, failedCheck>>

(* Mutant: the eventfd is written only for the first callback in the queue. *)
MutNotifyIfFirst(t) ==
  /\ Goto(t, "signal", "out")
  /\ callbackFd' = IF Len(queue) <= 1 THEN callbackFd + 1 ELSE callbackFd
  /\ UNCHANGED <<loopVars, signalFd, queue, histVars, failedCheck>>

(* runInEventLoop(): write to callbackFd_.                                 *)
notify(t) ==
  /\ Goto(t, "signal", "out")
  /\ callbackFd' = callbackFd + 1
  /\ UNCHANGED <<loopVars, signalFd, queue, histVars, failedCheck>>

Loop ==
  \/ enterLoop \/ poll \/ onSignal \/ onCallbackRead \/ onCallbackSize
  \/ runCallback \/ endPass \/ leaveRun

(* The steps of a call that was begun.                                     *)
Finish(t) ==
  \/ stopCheck(t) \/ stopWrite(t)
  \/ checkRunning(t) \/ checkInLoop(t) \/ takeTicket(t) \/ fillSlot(t)
  \/ notify(t) \/ inlineDone(t)

Begin(t) == callStop(t) \/ callRunInEventLoop(t) \/ callRunImmediately(t)

alive == failedCheck = "none"

Next ==
  /\ alive
  /\ \/ run
     \/ Loop
     \/ \E t \in Threads : Begin(t) \/ Finish(t)

Spec == Init /\ [][Next]_vars

(* run() does not leave its loop's thread idle (poll() returns at the      *)
(* latest after healthCheckDuration_) and no thread is suspended for ever  *)
(* inside a call.  Nothing obliges anyone to begin a call.                 *)
LoopFair == WF_vars(alive /\ Loop)
ThreadFair(t) == WF_vars(alive /\ Finish(t))
Fairness == LoopFair /\ \A t \in Threads : ThreadFair(t)

FairSpec == Spec /\ Fairness
-------------------------------------------------------------------------------
(* What executing a callback of thread t does to done.                     *)
ExecutesNextCallback ==
  \A t \in Threads :
    done'[t] # done[t] => done'[t] = done[t] + 1 /\ done'[t] <= calls[t]

(* The callbacks of a thread are executed in the order of its calls, each  *)
(* of them once: "All callbaks enqueued from a single threads are          *)
(* guaranteed to be executed in the same order" (runInEventLoop).          *)
InOrderExactlyOnce == [][ExecutesNextCallback]_done

(* No wake-up is lost: a callback in the queue is in the batch being read, *)
(* or the eventfd is readable, or the handler has yet to take size(), or   *)
(* the thread that enqueued it has yet to write the eventfd.  This is why  *)
(* the handler reads the eventfd before it looks at the queue.             *)
NoLostWakeup ==
  \A i \in 1..Len(queue) :
    \/ i <= items
    \/ callbackFd > 0
    \/ lpc = "size"
    \/ /\ pc[queue[i].from] \in {"slot", "signal"}
       /\ queue[i].seq = calls[queue[i].from]

(* Each return of run() has a stop() of its own: neither a stop_ left over *)
(* from an earlier run nor an eventfd that is not reset ends a run twice.  *)
EveryReturnHasAStop ==
  runs <= stops + (IF lpc \in {"idle", "exit"} THEN 0 ELSE 1)

(* The CHECK_EQs on the reads hold: a handler is only called for an        *)
(* eventfd that is readable (signalFd_ would otherwise block the loop).    *)
ReadsSucceed ==
  /\ "signal" \in ready => signalFd > 0
  /\ "callback" \in ready => callbackFd > 0

(* The batch never asks for more callbacks than writers have tickets for,  *)
(* so blockingRead() waits only for a writer that is about to finish.      *)
BatchIsBacked == items <= Len(queue)

(* A stop() that reached the eventfd of a running loop ends that run.      *)
StopEndsRun == (signalFd > 0 /\ isRunning) ~> (~isRunning \/ ~alive)

(* A callback that was enqueued is executed, unless the loop is stopped.   *)
CallbackIsExecuted ==
  \A t \in Threads : \A n \in 1..MaxCalls :
    (calls[t] >= n) ~> (done[t] >= n \/ lpc = "idle" \/ ~alive)
-------------------------------------------------------------------------------
(* Claims of the documentation that the code does not keep.                *)

(* "Must be called from external threads" (runInEventLoop): an external    *)
(* caller passes the CHECK.                                                *)
ExternalCallerPasses == failedCheck # "runInEventLoop"

(* "This function will block and return only after stop() has been         *)
(* invoked" (run): a run ends only if a stop() reached the loop during it. *)
ReturnOnlyAfterStop == lpc = "exit" => stops > stopsAtRun
===============================================================================
