-------------------------- MODULE ZmqEventLoopProofs --------------------------
(***************************************************************************)
(* Proofs about ZmqEventLoop, for any set of threads, any capacity of the  *)
(* queue and any bounds.                                                   *)
(***************************************************************************)
EXTENDS ZmqEventLoop, TLAPS

(* Where the loop's thread is determines its local variables.              *)
LoopShape ==
  /\ threadId = Owner <=> lpc # "idle"
  /\ lpc # "dispatch" => items = 0
  /\ lpc \notin {"dispatch", "size"} => ready = {}
  /\ lpc = "poll" => ~stopFlag

(* The queue holds, of each thread and in order, exactly the callbacks     *)
(* that were enqueued and not yet executed.                                *)
QueueHolds ==
  /\ \A t \in Threads : done[t] <= calls[t]
  /\ \A i \in 1..Len(queue) :
       /\ done[queue[i].from] < queue[i].seq
       /\ queue[i].seq <= calls[queue[i].from]
  /\ \A i, j \in 1..Len(queue) :
       i < j /\ queue[i].from = queue[j].from => queue[i].seq < queue[j].seq
  /\ \A t \in Threads : \A n \in Nat :
       done[t] < n /\ n <= calls[t] =>
         \E i \in 1..Len(queue) : queue[i].from = t /\ queue[i].seq = n

One(b) == IF b THEN 1 ELSE 0

(* The stop() calls written pay for the runs that ended, the one that is   *)
(* about to end and the readable eventfd.                                  *)
StopAccount ==
  runs + One(signalFd > 0)
       + One(stopFlag /\ lpc \in {"dispatch", "size"})
    <= stops + One(lpc \notin {"idle", "exit"})

Inv == TypeOK /\ LoopShape /\ BatchIsBacked /\ ReadsSucceed /\ StopAccount

(* A constructed ZmqEventLoop satisfies the invariant.                     *)
LEMMA InitInv == Init => Inv
<1> SUFFICES ASSUME Init PROVE Inv
  BY Zenon
<1>1. TypeOK
  <2>1. queue \in Seq(Callback)
    BY DEF Init
  <2>2. /\ pc \in [Threads -> ThreadPC]
        /\ calls \in [Threads -> Nat] /\ done \in [Threads -> Nat]
    BY Zenon DEF Init, ThreadPC
  <2>3. stopFlag \in BOOLEAN
    BY Zenon DEF Init
  <2> QED
    BY <2>1, <2>2, <2>3, Zenon DEF Init, TypeOK, LoopPC
<1>2. LoopShape
  BY ConstantsAssumption, Zenon DEF Init, LoopShape
<1>3. BatchIsBacked /\ ReadsSucceed /\ StopAccount
  BY DEF Init, BatchIsBacked, ReadsSucceed, StopAccount, One
<1> QED
  BY <1>1, <1>2, <1>3, Zenon DEF Inv

(* Every step keeps the types.                                             *)
LEMMA TypeStep == TypeOK /\ [Next]_vars => TypeOK'
<1> SUFFICES ASSUME TypeOK, [Next]_vars PROVE TypeOK'
  BY Zenon
<1> USE DEF TypeOK, LoopPC, ThreadPC, Items, loopVars, fdVars, histVars
<1>1. CASE run
  BY <1>1 DEF run
<1>2. CASE enterLoop
  BY <1>2, Zenon DEF enterLoop
<1>3. CASE poll
  BY <1>3, Zenon DEF poll
<1>4. CASE onSignal
  BY <1>4, Zenon DEF onSignal
<1>5. CASE onCallbackRead
  BY <1>5, Zenon DEF onCallbackRead
<1>6. CASE onCallbackSize
  BY <1>6 DEF onCallbackSize
<1>7. CASE runCallback
  <2>1. Head(queue) \in Callback /\ Tail(queue) \in Seq(Callback)
    BY <1>7 DEF runCallback
  <2>2. Head(queue).from \in Threads /\ Head(queue).seq \in Nat
    BY <2>1, Zenon DEF Callback
  <2>3. /\ items' = items - 1 /\ items > 0 /\ items \in Nat
        /\ signalFd' = signalFd + 1 \/ signalFd' = signalFd
        /\ stops' = stops + 1 \/ stops' = stops
        /\ signalFd \in Nat /\ stops \in Nat
    BY <1>7, Zenon DEF runCallback
  <2>4. items' \in Nat /\ signalFd' \in Nat /\ stops' \in Nat
    BY <2>3
  <2>5. queue' \in Seq(Callback) /\ done' \in [Threads -> Nat]
    BY <1>7, <2>1, <2>2, Zenon DEF runCallback
  <2> QED
    BY <1>7, <2>4, <2>5, Zenon DEF runCallback
<1>8. CASE endPass
  BY <1>8, Zenon DEF endPass
<1>9. CASE leaveRun
  BY <1>9, Zenon DEF leaveRun
<1>10. ASSUME NEW t \in Threads, Begin(t) PROVE TypeOK'
  <2>1. /\ \E to \in ThreadPC : pc' = [pc EXCEPT ![t] = to]
        /\ UNCHANGED <<loopVars, fdVars, queue, histVars, failedCheck>>
    BY <1>10, Zenon DEF Begin, callStop, callRunInEventLoop, callRunImmediately, Goto
  <2>2. pc' \in [Threads -> ThreadPC]
    BY <2>1, Zenon
  <2> QED
    BY <2>1, <2>2, Zenon
<1>11. ASSUME NEW t \in Threads, stopCheck(t) PROVE TypeOK'
  BY <1>11, Zenon DEF stopCheck, Goto, Abort
<1>12. ASSUME NEW t \in Threads, stopWrite(t) PROVE TypeOK'
  BY <1>12 DEF stopWrite, Goto
<1>13. ASSUME NEW t \in Threads, checkRunning(t) PROVE TypeOK'
  BY <1>13, Zenon DEF checkRunning, Goto
<1>14. ASSUME NEW t \in Threads, checkInLoop(t) PROVE TypeOK'
  BY <1>14, Zenon DEF checkInLoop, Goto, Abort
<1>15. ASSUME NEW t \in Threads, takeTicket(t) PROVE TypeOK'
  BY <1>15 DEF takeTicket, Goto, Callback
<1>16. ASSUME NEW t \in Threads, fillSlot(t) PROVE TypeOK'
  BY <1>16, Zenon DEF fillSlot, Goto
<1>17. ASSUME NEW t \in Threads, notify(t) PROVE TypeOK'
  BY <1>17 DEF notify, Goto
<1>18. ASSUME NEW t \in Threads, inlineDone(t) PROVE TypeOK'
  BY <1>18, Zenon DEF inlineDone, Goto
<1>19. CASE UNCHANGED vars
  BY <1>19, Zenon DEF vars
<1> QED
  BY Zenon, <1>1, <1>2, <1>3, <1>4, <1>5, <1>6, <1>7, <1>8, <1>9, <1>10, <1>11,
     <1>12, <1>13, <1>14, <1>15, <1>16, <1>17, <1>18, <1>19
  DEF Next, Loop, Finish

(* The steps of the external threads leave the loop's own variables alone; *)
(* they only raise the eventfds, the count of stops and the queue.         *)
LEMMA ThreadStep ==
  ASSUME TypeOK, NEW t \in Threads, Begin(t) \/ Finish(t)
  PROVE  /\ UNCHANGED <<lpc, ready, items, stopFlag, threadId, runs, done>>
         /\ callbackFd' >= callbackFd /\ Len(queue') >= Len(queue)
         /\ \/ signalFd' = signalFd /\ stops' = stops
            \/ signalFd' = signalFd + 1 /\ stops' = stops + 1
<1> USE DEF TypeOK, loopVars, fdVars, histVars
<1>1. CASE Begin(t)
  BY <1>1 DEF Begin, callStop, callRunInEventLoop, callRunImmediately
<1>2. CASE stopCheck(t)
  BY <1>2 DEF stopCheck, Abort
<1>3. CASE stopWrite(t)
  BY <1>3 DEF stopWrite
<1>4. CASE checkRunning(t) \/ inlineDone(t) \/ fillSlot(t)
  BY <1>4 DEF checkRunning, inlineDone, fillSlot
<1>5. CASE checkInLoop(t)
  BY <1>5 DEF checkInLoop, Abort
<1>6. CASE takeTicket(t)
  BY <1>6 DEF takeTicket
<1>7. CASE notify(t)
  BY <1>7 DEF notify
<1> QED
  BY <1>1, <1>2, <1>3, <1>4, <1>5, <1>6, <1>7, Zenon DEF Finish

(* Every step of run(), loopForever() and of the calls of other threads    *)
(* keeps the invariant.                                                    *)
LEMMA InvStep == Inv /\ [Next]_vars => Inv'
<1> SUFFICES ASSUME Inv, [Next]_vars
             PROVE  LoopShape' /\ BatchIsBacked' /\ ReadsSucceed' /\ StopAccount'
  BY TypeStep, Zenon DEF Inv
<1> USE ConstantsAssumption
    DEF Inv, TypeOK, LoopShape, BatchIsBacked, ReadsSucceed, StopAccount, One,
        LoopPC, Items, fdVars, histVars
<1>1. CASE run
  BY <1>1 DEF run, isRunning
<1>2. CASE enterLoop
  BY <1>2, Zenon DEF enterLoop
<1>3. CASE poll
  BY <1>3, Zenon DEF poll
<1>4. CASE onSignal
  BY <1>4 DEF onSignal
<1>5. CASE onCallbackRead
  BY <1>5, Zenon DEF onCallbackRead
<1>6. CASE onCallbackSize
  BY <1>6 DEF onCallbackSize
<1>7. CASE runCallback
  BY <1>7 DEF runCallback
<1>8. CASE endPass
  BY <1>8 DEF endPass
<1>9. CASE leaveRun
  BY <1>9, Zenon DEF leaveRun
<1>10. ASSUME NEW t \in Threads, Begin(t) \/ Finish(t)
       PROVE  LoopShape' /\ BatchIsBacked' /\ ReadsSucceed' /\ StopAccount'
  <2>1. TypeOK'
    BY TypeStep, Zenon
  <2>2. /\ UNCHANGED <<lpc, ready, items, stopFlag, threadId, runs>>
        /\ callbackFd' >= callbackFd /\ Len(queue') >= Len(queue)
        /\ \/ signalFd' = signalFd /\ stops' = stops
           \/ signalFd' = signalFd + 1 /\ stops' = stops + 1
    BY <1>10, ThreadStep, Zenon
  <2>3. LoopShape'
    BY <2>2, Zenon
  <2>4. BatchIsBacked' /\ ReadsSucceed'
    BY <2>1, <2>2
  <2>5. StopAccount'
    <3>1. CASE signalFd' = signalFd /\ stops' = stops
      BY <2>2, <3>1, Zenon
    <3>2. CASE signalFd' = signalFd + 1 /\ stops' = stops + 1
      BY <2>2, <3>2
    <3> QED
      BY <2>2, <3>1, <3>2, Zenon
  <2> QED
    BY <2>3, <2>4, <2>5, Zenon
<1>11. CASE UNCHANGED vars
  BY <1>11, Zenon DEF vars, loopVars
<1> QED
  BY <1>1, <1>2, <1>3, <1>4, <1>5, <1>6, <1>7, <1>8, <1>9, <1>10, <1>11, Zenon
  DEF Next, Loop

(* The entries of callbackQueue_ are callbacks of external threads.        *)
LEMMA QueueEntries ==
  ASSUME TypeOK
  PROVE  \A i \in 1..Len(queue) :
           queue[i].from \in Threads /\ queue[i].seq \in Nat
<1>1. \A i \in 1..Len(queue) : queue[i] \in Callback
  BY DEF TypeOK
<1> QED
  BY <1>1, Zenon DEF Callback

(* What a thread enqueued and was not executed is in callbackQueue_.       *)
LEMMA InQueue ==
  ASSUME QueueHolds, NEW t \in Threads, NEW n \in Nat, done[t] < n, n <= calls[t]
  PROVE  \E i \in 1..Len(queue) : queue[i].from = t /\ queue[i].seq = n
BY DEF QueueHolds

(* The head of the queue is the next callback of its thread.               *)
LEMMA HeadIsNext ==
  ASSUME TypeOK, QueueHolds, queue # <<>>
  PROVE  /\ Head(queue).from \in Threads
         /\ Head(queue).seq = done[Head(queue).from] + 1
         /\ Head(queue).seq <= calls[Head(queue).from]
<1> DEFINE h == Head(queue)
           t == h.from
<1>1. 1 \in 1..Len(queue) /\ h = queue[1] /\ h \in Callback
  BY DEF TypeOK
<1>2. t \in Threads /\ h.seq \in Nat /\ done[t] \in Nat /\ calls[t] \in Nat
  BY <1>1, Zenon DEF TypeOK, Callback
<1>3. done[t] < h.seq /\ h.seq <= calls[t]
  BY <1>1, Zenon DEF QueueHolds
<1>4. PICK i \in 1..Len(queue) : queue[i].from = t /\ queue[i].seq = done[t] + 1
  <2>1. done[t] + 1 \in Nat /\ done[t] < done[t] + 1 /\ done[t] + 1 <= calls[t]
    BY <1>2, <1>3
  <2> QED
    BY <1>2, <2>1, Zenon DEF QueueHolds
<1>5. ~(1 < i)
  <2> SUFFICES ASSUME 1 < i PROVE FALSE
    BY Zenon
  <2>1. queue[1].seq < queue[i].seq
    BY <1>1, <1>4, Zenon DEF QueueHolds
  <2> QED
    BY <1>1, <1>2, <1>3, <1>4, <2>1
<1>6. i = 1
  BY <1>4, <1>5 DEF TypeOK
<1> QED
  BY <1>1, <1>2, <1>3, <1>4, <1>6, Zenon

(* Every step keeps the relation between callbackQueue_ and the counts of  *)
(* what each thread enqueued and what was executed.                        *)
LEMMA QueueHoldsStep == TypeOK /\ QueueHolds /\ [Next]_vars => QueueHolds'
<1> SUFFICES ASSUME TypeOK, QueueHolds, [Next]_vars PROVE QueueHolds'
  BY Zenon
<1>1. CASE runCallback
  <2> DEFINE h == Head(queue)
  <2>1. /\ queue # <<>> /\ queue' = Tail(queue) /\ calls' = calls
        /\ done' = [done EXCEPT ![h.from] = h.seq]
    BY <1>1, Zenon DEF runCallback
  <2>2. /\ Len(queue') = Len(queue) - 1 /\ Len(queue) \in Nat
        /\ \A i \in 1..Len(queue') : i + 1 \in 1..Len(queue) /\ queue'[i] = queue[i+1]
    BY <2>1 DEF TypeOK
  <2>3. h.from \in Threads /\ h = queue[1] /\ 1 \in 1..Len(queue)
    BY <2>1, HeadIsNext DEF TypeOK
  <2>4. \A i \in 1..Len(queue) :
          queue[i].from \in Threads /\ queue[i].seq \in Nat
    BY QueueEntries, Zenon
  <2>5. ASSUME NEW i \in 1..Len(queue')
        PROVE  /\ done'[queue'[i].from] < queue'[i].seq
               /\ queue'[i].seq <= calls'[queue'[i].from]
    <3>1. i + 1 \in 1..Len(queue) /\ 1 < i + 1
      BY <2>2
    <3>2. CASE queue[i+1].from = h.from
      <4>1. queue[1].seq < queue[i+1].seq
        BY <3>1, <3>2, <2>3 DEF QueueHolds
      <4> QED
        BY <2>1, <2>2, <2>3, <3>1, <3>2, <4>1 DEF QueueHolds, TypeOK
    <3>3. CASE queue[i+1].from # h.from
      BY <2>1, <2>2, <2>3, <2>4, <3>1, <3>3 DEF QueueHolds, TypeOK
    <3> QED
      BY <3>2, <3>3, Zenon
  <2>6. ASSUME NEW i \in 1..Len(queue'), NEW j \in 1..Len(queue'),
               i < j, queue'[i].from = queue'[j].from
        PROVE  queue'[i].seq < queue'[j].seq
    <3>1. i + 1 \in 1..Len(queue) /\ j + 1 \in 1..Len(queue) /\ i + 1 < j + 1
      BY <2>2, <2>6
    <3>2. queue[i+1].from = queue[j+1].from
      BY <2>2, <2>6, Zenon
    <3>3. queue[i+1].seq < queue[j+1].seq
      BY <3>1, <3>2, Zenon DEF QueueHolds
    <3> QED
      BY <2>2, <3>3, Zenon
  <2>7. ASSUME NEW t \in Threads, NEW n \in Nat, done'[t] < n, n <= calls'[t]
        PROVE  \E i \in 1..Len(queue') :
                 queue'[i].from = t /\ queue'[i].seq = n
    <3>1. done[t] < n /\ (t = h.from => h.seq < n)
      <4>1. h.seq = done[h.from] + 1
        BY <2>1, HeadIsNext, Zenon
      <4> QED
        BY <2>1, <2>3, <2>7, <4>1 DEF TypeOK
    <3>2. PICK k \in 1..Len(queue) : queue[k].from = t /\ queue[k].seq = n
      BY <2>1, <2>7, <3>1, InQueue, Zenon
    <3>3. k # 1
      BY <2>3, <2>4, <3>1, <3>2
    <3>4. k - 1 \in 1..Len(queue') /\ (k - 1) + 1 = k
      BY <2>2, <3>2, <3>3
    <3> QED
      BY <2>2, <3>2, <3>4, Zenon
  <2>8. \A t \in Threads : done'[t] <= calls'[t]
    <3>1. \A t \in Threads : done'[t] = IF t = h.from THEN h.seq ELSE done[t]
      BY <2>1, Zenon DEF TypeOK
    <3>2. h.seq <= calls[h.from] /\ \A t \in Threads : done[t] <= calls[t]
      BY <2>1, HeadIsNext, Zenon DEF QueueHolds
    <3> QED
      BY <2>1, <3>1, <3>2, Zenon
  <2> QED
    BY <2>5, <2>6, <2>7, <2>8 DEF QueueHolds
<1>2. ASSUME NEW t \in Threads, takeTicket(t) PROVE QueueHolds'
  <2>1. PICK s \in BOOLEAN :
          queue' = Append(queue, [from |-> t, seq |-> calls[t] + 1, stops |-> s])
    BY <1>2, Zenon DEF takeTicket
  <2> DEFINE e == [from |-> t, seq |-> calls[t] + 1, stops |-> s]
             n == Len(queue) + 1
  <2>2. /\ done' = done /\ calls' = [calls EXCEPT ![t] = @ + 1]
    BY <1>2, Zenon DEF takeTicket
  <2>3. /\ Len(queue) \in Nat /\ Len(queue') = n /\ queue'[n] = e
        /\ \A i \in 1..Len(queue) : queue'[i] = queue[i]
    BY <2>1 DEF TypeOK
  <2>4. \A i \in 1..Len(queue) :
          queue[i].from \in Threads /\ queue[i].seq \in Nat
    BY QueueEntries, Zenon
  <2>5. e.from = t /\ e.seq = calls[t] + 1 /\ calls[t] \in Nat /\ done[t] \in Nat
    BY Zenon DEF TypeOK
  <2>6. done[t] <= calls[t]
    BY Zenon DEF QueueHolds
  <2>7. ASSUME NEW i \in 1..n
        PROVE  /\ done'[queue'[i].from] < queue'[i].seq
               /\ queue'[i].seq <= calls'[queue'[i].from]
    <3>1. CASE i = n
      BY <2>2, <2>3, <2>5, <2>6, <3>1 DEF TypeOK
    <3>2. CASE i \in 1..Len(queue)
      BY <2>2, <2>3, <2>4, <3>2, SMTT(30) DEF QueueHolds, TypeOK
    <3> QED
      BY <2>3, <3>1, <3>2
  <2>8. ASSUME NEW i \in 1..n, NEW j \in 1..n,
               i < j, queue'[i].from = queue'[j].from
        PROVE  queue'[i].seq < queue'[j].seq
    <3>1. i \in 1..Len(queue) /\ queue'[i] = queue[i]
      BY <2>3, <2>8
    <3>2. CASE j = n
      BY <2>3, <2>4, <2>5, <2>8, <3>1, <3>2 DEF QueueHolds
    <3>3. CASE j \in 1..Len(queue)
      BY <2>3, <2>8, <3>1, <3>3, Zenon DEF QueueHolds
    <3> QED
      BY <2>3, <3>2, <3>3
  <2>9. ASSUME NEW u \in Threads, NEW k \in Nat, done'[u] < k, k <= calls'[u]
        PROVE  \E i \in 1..n : queue'[i].from = u /\ queue'[i].seq = k
    <3>1. CASE k <= calls[u]
      <4>1. PICK i \in 1..Len(queue) : queue[i].from = u /\ queue[i].seq = k
        BY <2>2, <2>9, <3>1 DEF QueueHolds
      <4> QED
        BY <2>3, <4>1
    <3>2. CASE ~(k <= calls[u])
      <4>1. u = t /\ k = calls[t] + 1
        BY <2>2, <2>9, <3>2 DEF TypeOK
      <4>2. n \in 1..n
        BY <2>3
      <4> QED
        BY <2>3, <2>5, <4>1, <4>2, Zenon
    <3> QED
      BY <3>1, <3>2, Zenon
  <2>10. \A u \in Threads : done'[u] <= calls'[u]
    BY <2>2 DEF QueueHolds, TypeOK
  <2> QED
    BY <2>3, <2>7, <2>8, <2>9, <2>10 DEF QueueHolds
<1>3. CASE UNCHANGED <<queue, calls, done>>
  BY <1>3 DEF QueueHolds
<1>4. ASSUME NEW t \in Threads, Begin(t) \/ (Finish(t) /\ ~takeTicket(t))
      PROVE  UNCHANGED <<queue, calls, done>>
  BY <1>4, Zenon DEF Begin, Finish, callStop, callRunInEventLoop, callRunImmediately,
              stopCheck, stopWrite, checkRunning, checkInLoop, fillSlot,
              notify, inlineDone, Abort, histVars
<1>5. Loop /\ ~runCallback => UNCHANGED <<queue, calls, done>>
  BY Zenon DEF Loop, enterLoop, poll, onSignal, onCallbackRead, onCallbackSize,
         endPass, leaveRun, histVars
<1>6. run \/ UNCHANGED vars => UNCHANGED <<queue, calls, done>>
  BY Zenon DEF run, vars, histVars
<1> QED
  BY <1>1, <1>2, <1>3, <1>4, <1>5, <1>6, Zenon DEF Next

(* Every step keeps NoLostWakeup: reading callbackFd_ before size(), and   *)
(* writing it after blockingWrite(), is what makes this true.              *)
LEMMA NoLostWakeupStep ==
  TypeOK /\ LoopShape /\ NoLostWakeup /\ [Next]_vars => NoLostWakeup'
<1> SUFFICES ASSUME TypeOK, LoopShape, NoLostWakeup, [Next]_vars
             PROVE  NoLostWakeup'
  BY Zenon
<1>1. CASE runCallback
  <2>1. /\ queue # <<>> /\ queue' = Tail(queue) /\ items' = items - 1
        /\ UNCHANGED <<lpc, callbackFd, pc, calls>>
    BY <1>1, Zenon DEF runCallback
  <2>2. /\ Len(queue') = Len(queue) - 1 /\ Len(queue) \in Nat
        /\ \A i \in 1..Len(queue') :
             i + 1 \in 1..Len(queue) /\ queue'[i] = queue[i+1]
    BY <2>1 DEF TypeOK
  <2> SUFFICES ASSUME NEW i \in 1..Len(queue'), ~(i <= items'), ~(callbackFd' > 0),
                      lpc' # "size"
               PROVE  /\ pc'[queue'[i].from] \in {"slot", "signal"}
                      /\ queue'[i].seq = calls'[queue'[i].from]
    BY Zenon DEF NoLostWakeup
  <2>3. i + 1 \in 1..Len(queue) /\ ~(i + 1 <= items)
    BY <2>1, <2>2 DEF TypeOK
  <2> QED
    BY <2>1, <2>2, <2>3, Zenon DEF NoLostWakeup
<1>2. CASE onCallbackRead
  BY <1>2, Zenon DEF onCallbackRead, NoLostWakeup
<1>3. CASE onCallbackSize
  BY <1>3 DEF onCallbackSize, NoLostWakeup, TypeOK
<1>4. ASSUME NEW t \in Threads, takeTicket(t) PROVE NoLostWakeup'
  <2>1. PICK s \in BOOLEAN :
          queue' = Append(queue, [from |-> t, seq |-> calls[t] + 1, stops |-> s])
    BY <1>4, Zenon DEF takeTicket
  <2> DEFINE e == [from |-> t, seq |-> calls[t] + 1, stops |-> s]
             n == Len(queue) + 1
  <2>2. /\ UNCHANGED <<items, callbackFd, lpc>>
        /\ pc[t] = "put" /\ pc' = [pc EXCEPT ![t] = "slot"]
        /\ calls' = [calls EXCEPT ![t] = @ + 1]
    BY <1>4, Zenon DEF takeTicket, Goto, loopVars, fdVars
  <2>3. /\ Len(queue) \in Nat /\ Len(queue') = n /\ queue'[n] = e
        /\ \A i \in 1..Len(queue) : queue'[i] = queue[i]
    BY <2>1 DEF TypeOK
  <2>4. ASSUME NEW i \in 1..Len(queue)
        PROVE  \/ i <= items' \/ callbackFd' > 0 \/ lpc' = "size"
               \/ /\ pc'[queue'[i].from] \in {"slot", "signal"}
                  /\ queue'[i].seq = calls'[queue'[i].from]
    <3>1. queue[i].from \in Threads
      BY QueueEntries, Zenon
    <3>2. CASE queue[i].from = t
      BY <2>2, <3>2, Zenon DEF NoLostWakeup
    <3>3. CASE queue[i].from # t
      BY <2>2, <2>3, <3>1, <3>3, Zenon DEF NoLostWakeup, TypeOK
    <3> QED
      BY <3>2, <3>3, Zenon
  <2>5. pc'[e.from] = "slot" /\ e.seq = calls'[e.from]
    BY <2>2, Zenon DEF TypeOK
  <2>6. \A i \in 1..n : i = n \/ i \in 1..Len(queue)
    BY <2>3
  <2> QED
    BY <2>3, <2>4, <2>5, <2>6, Zenon DEF NoLostWakeup
<1>5. ASSUME NEW t \in Threads, notify(t) PROVE NoLostWakeup'
  BY <1>5 DEF notify, NoLostWakeup, TypeOK
<1>6. ASSUME NEW t \in Threads, fillSlot(t) PROVE NoLostWakeup'
  <2>1. UNCHANGED <<queue, items, callbackFd, lpc, calls>>
    BY <1>6, Zenon DEF fillSlot, loopVars, fdVars, histVars
  <2>2. pc[t] = "slot" /\ pc' = [pc EXCEPT ![t] = "signal"]
    BY <1>6, Zenon DEF fillSlot, Goto
  <2> QED
    BY <2>1, <2>2, QueueEntries, Zenon DEF NoLostWakeup, TypeOK
<1>7. ASSUME NEW t \in Threads,
             \/ Begin(t) \/ stopCheck(t) \/ stopWrite(t) \/ checkRunning(t)
             \/ checkInLoop(t) \/ inlineDone(t)
      PROVE  NoLostWakeup'
  <2>1. UNCHANGED <<queue, items, callbackFd, lpc, calls>>
    BY <1>7, Zenon DEF Begin, callStop, callRunInEventLoop, callRunImmediately,
                stopCheck, stopWrite, checkRunning, checkInLoop, inlineDone,
                Abort, loopVars, fdVars, histVars
  <2>2. \A u \in Threads : pc[u] \in {"slot", "signal"} => pc'[u] = pc[u]
    BY <1>7, Zenon DEF Begin, callStop, callRunInEventLoop, callRunImmediately,
                stopCheck, stopWrite, checkRunning, checkInLoop, inlineDone,
                Abort, Goto, TypeOK
  <2> QED
    BY <2>1, <2>2, QueueEntries, Zenon DEF NoLostWakeup
<1>8. run \/ (Loop /\ ~runCallback /\ ~onCallbackRead /\ ~onCallbackSize)
        \/ UNCHANGED vars
      => /\ UNCHANGED <<queue, items, callbackFd, calls, pc>>
         /\ lpc # "size"  \/ lpc' = "size"
  BY Zenon DEF run, Loop, enterLoop, poll, onSignal, endPass, leaveRun, vars, fdVars,
         histVars, loopVars
<1>9. CASE run \/ (Loop /\ ~runCallback /\ ~onCallbackRead /\ ~onCallbackSize)
        \/ UNCHANGED vars
  BY <1>8, <1>9, Zenon DEF NoLostWakeup
<1> QED
  BY <1>1, <1>2, <1>3, <1>4, <1>5, <1>6, <1>7, <1>9, Zenon DEF Next, Finish, Loop

(* Type correctness of ZmqEventLoop.                                       *)
THEOREM TypeCorrect == Spec => []TypeOK
<1>1. Init => TypeOK
  BY InitInv, Zenon DEF Inv
<1> QED
  BY <1>1, TypeStep, PTL DEF Spec

(* The inductive invariant of run() and loopForever().                     *)
THEOREM LoopInvariant == Spec => []Inv
  BY InitInv, InvStep, PTL DEF Spec

(* run() never returns more often than stop() was called.                  *)
THEOREM StopAccounting == Spec => []EveryReturnHasAStop
<1>1. Inv => EveryReturnHasAStop
  BY DEF Inv, TypeOK, StopAccount, One, EveryReturnHasAStop
<1> QED
  BY <1>1, LoopInvariant, PTL

(* The handler of callbackFd_ never waits in blockingRead() for a callback *)
(* that no thread is enqueuing.                                            *)
THEOREM HandlersNeverStall == Spec => []BatchIsBacked
<1>1. Inv => BatchIsBacked
  BY Zenon DEF Inv
<1> QED
  BY <1>1, LoopInvariant, PTL

(* A handler of the loop that calls read() on its eventfd never finds it   *)
(* empty: see ReadsSucceed.                                                *)
THEOREM HandlersReadSomething == Spec => []ReadsSucceed
<1>1. Inv => ReadsSucceed
  BY Zenon DEF Inv
<1> QED
  BY <1>1, LoopInvariant, PTL

(* No wake-up of the loop is lost: see NoLostWakeup.                       *)
THEOREM NoWakeupIsLost == Spec => []NoLostWakeup
<1>1. Init => NoLostWakeup
  BY DEF Init, NoLostWakeup
<1>2. Inv /\ NoLostWakeup /\ [Next]_vars => NoLostWakeup'
  BY NoLostWakeupStep, Zenon DEF Inv
<1> QED
  BY <1>1, <1>2, LoopInvariant, PTL DEF Spec

(* callbackQueue_ always holds what was enqueued and not yet executed.     *)
LEMMA QueueInvariant == Spec => []QueueHolds
<1>1. Init => QueueHolds
  BY DEF Init, QueueHolds
<1> QED
  BY <1>1, QueueHoldsStep, TypeCorrect, PTL DEF Spec

(* The callbacks of a thread are executed in the order of its calls and    *)
(* each exactly once.                                                      *)
THEOREM CallbackOrder == Spec => InOrderExactlyOnce
<1>1. TypeOK /\ QueueHolds /\ [Next]_vars => [ExecutesNextCallback]_done
  <2> SUFFICES ASSUME TypeOK, QueueHolds, [Next]_vars, done' # done
               PROVE  ExecutesNextCallback
    BY Zenon
  <2>1. CASE runCallback
    <3>1. queue # <<>> /\ done' = [done EXCEPT ![Head(queue).from] = Head(queue).seq]
      BY <2>1, Zenon DEF runCallback
    <3> QED
      BY <3>1, HeadIsNext, Zenon DEF TypeOK, ExecutesNextCallback
  <2>2. CASE run \/ (Loop /\ ~runCallback) \/ UNCHANGED vars
    BY <2>2, Zenon DEF run, Loop, enterLoop, poll, onSignal, onCallbackRead,
                onCallbackSize, endPass, leaveRun, vars, histVars
  <2>3. ASSUME NEW t \in Threads, Begin(t) \/ Finish(t) PROVE done' = done
    BY <2>3, ThreadStep, Zenon
  <2> QED
    BY <2>1, <2>2, <2>3, Zenon DEF Next
<1> QED
  BY <1>1, TypeCorrect, QueueInvariant, PTL DEF Spec, InOrderExactlyOnce
-------------------------------------------------------------------------------
(* Progress of the loop.  ENABLED is left as it is: that the loop and the  *)
(* threads can take a step where LoopCanStep and ThreadsCanStep say so is  *)
(* a hypothesis of the theorems.                                           *)

(* The loop's thread has a step to take, but in blockingRead() of an entry *)
(* that is not written yet.                                                *)
LoopCanStep ==
  alive /\ lpc # "idle" /\ (items > 0 => Written(Head(queue))) =>
    ENABLED <<alive /\ Loop>>_vars

(* A stop() that is on its way: it ends this run or, if the pass has       *)
(* looked at signalFd_ already, the next pass does.                        *)
InPass == lpc \in {"dispatch", "size"}
Seen == InPass /\ ("signal" \in ready \/ stopFlag = TRUE)
Pending == signalFd > 0 /\ lpc \in {"entered", "poll", "dispatch", "size"}

(* Passes end.                                                             *)
PassesEnd == InPass ~> (~InPass \/ ~alive)

(* A stop() that was seen takes the loop to its end.                       *)
LEMMA SeenStays ==
  ASSUME Inv, [Next]_vars
  PROVE  /\ Seen => Seen' \/ lpc' = "exit"
         /\ Pending => Pending' \/ Seen' \/ lpc' = "exit"
         /\ lpc = "exit" => lpc' \in {"exit", "idle"}
         /\ Pending /\ lpc = "poll" => lpc' = "poll" \/ Seen'
         /\ lpc = "entered" => lpc' \in {"entered", "poll"}
         /\ InPass => InPass' \/ lpc' \in {"poll", "exit"}
<1> USE DEF Inv, Seen, Pending, InPass
<1>1. CASE UNCHANGED vars
  BY <1>1, Zenon DEF vars, loopVars, fdVars
<1>2. CASE run
  BY <1>2, Zenon DEF run, TypeOK
<1>3. CASE Loop
  <2>1. CASE enterLoop \/ endPass \/ leaveRun
    BY <2>1, Zenon DEF enterLoop, endPass, leaveRun, fdVars, TypeOK, LoopShape
  <2>2. CASE poll
    BY <2>2, Zenon DEF poll, fdVars, Items
  <2>3. CASE onSignal
    BY <2>3, Zenon DEF onSignal
  <2>4. CASE onCallbackRead \/ onCallbackSize
    BY <2>4, Zenon DEF onCallbackRead, onCallbackSize, fdVars
  <2>5. CASE runCallback
    <3>1. /\ UNCHANGED <<lpc, ready, stopFlag>> /\ lpc = "dispatch" /\ signalFd \in Nat
          /\ signalFd' = signalFd \/ signalFd' = signalFd + 1
      BY <2>5, Zenon DEF runCallback, TypeOK
    <3>2. signalFd > 0 => signalFd' > 0
      BY <3>1
    <3> QED
      BY <3>1, <3>2, Zenon
  <2> QED
    BY <1>3, <2>1, <2>2, <2>3, <2>4, <2>5, Zenon DEF Loop
<1>4. ASSUME NEW t \in Threads, Begin(t) \/ Finish(t)
      PROVE  UNCHANGED <<lpc, ready, stopFlag>> /\ (signalFd > 0 => signalFd' > 0)
  <2>1. /\ UNCHANGED <<lpc, ready, stopFlag>>
        /\ signalFd' = signalFd \/ signalFd' = signalFd + 1
    BY <1>4, ThreadStep, Zenon
  <2> QED
    BY <2>1 DEF TypeOK
<1>5. CASE \E t \in Threads : Begin(t) \/ Finish(t)
  BY <1>4, <1>5, Zenon
<1> QED
  BY <1>1, <1>2, <1>3, <1>5, Zenon DEF Next

(* Every step of the loop's thread that is not in a pass is the next one   *)
(* of run() and loopForever().                                             *)
LEMMA LoopStepAdvances ==
  ASSUME Inv, Loop
  PROVE  /\ lpc = "entered" => lpc' = "poll"
         /\ lpc = "poll" => lpc' = "dispatch" /\ (signalFd > 0 => "signal" \in ready')
         /\ lpc = "exit" => lpc' = "idle"
  BY Zenon DEF Loop, enterLoop, poll, onSignal, onCallbackRead, onCallbackSize,
    runCallback, endPass, leaveRun, Items

(* A stop() that reached signalFd_ ends the run, if passes end: see        *)
(* StopEndsRun.                                                            *)
THEOREM StopReachesLoop == FairSpec /\ []LoopCanStep /\ PassesEnd => StopEndsRun
<1> DEFINE Entered == lpc = "entered"
           Polls == lpc = "poll"
           Exits == lpc = "exit"
           Idles == lpc = "idle"
<1>1. Inv /\ [Next]_vars =>
        /\ Seen => Seen' \/ Exits'
        /\ Pending => Pending' \/ Seen' \/ Exits'
        /\ Exits => Exits' \/ Idles'
        /\ Pending /\ Polls => Polls' \/ Seen'
        /\ Entered => Entered' \/ Polls'
        /\ InPass => InPass' \/ Polls' \/ Exits'
  BY SeenStays, Zenon
<1>2. Inv /\ <<alive /\ Loop>>_vars =>
        /\ Entered => Polls'
        /\ Pending /\ Polls => Seen'
        /\ Exits => Idles'
  BY LoopStepAdvances, Zenon DEF Seen, InPass, Pending
<1>3. Inv /\ LoopCanStep /\ (Entered \/ Polls \/ Exits) /\ alive =>
        ENABLED <<alive /\ Loop>>_vars
  BY DEF Inv, LoopShape, LoopCanStep
<1>4. Inv => (isRunning <=> ~Idles)
  BY ConstantsAssumption, Zenon DEF Inv, TypeOK, LoopShape, isRunning
<1>5. Inv /\ signalFd > 0 /\ ~Idles => Pending \/ Exits
  BY Zenon DEF Inv, TypeOK, LoopPC, Pending
<1>6. Seen => InPass
  BY Zenon DEF Seen
<1>7. Inv => (Entered \/ Polls \/ InPass \/ Exits \/ Idles)
  BY Zenon DEF Inv, TypeOK, LoopPC, InPass
<1>8. /\ Exits => ~Idles /\ ~InPass
      /\ InPass => ~Entered /\ ~Polls /\ ~Exits /\ ~Idles
      /\ Entered => ~Polls /\ ~Idles /\ ~Exits
      /\ Pending => ~Exits /\ ~Idles
  BY Zenon DEF InPass, Pending
<1> QED
  BY <1>1, <1>2, <1>3, <1>4, <1>5, <1>6, <1>7, <1>8, LoopInvariant, PTL
     DEF FairSpec, Fairness, LoopFair, Spec, StopEndsRun, PassesEnd

(* Batches end.                                                            *)
BatchesEnd == (items > 0) ~> (items = 0 \/ ~alive)

(* callbackFd_ is called for once in a pass.                               *)
OneBatch == lpc = "size" \/ items > 0 => "callback" \notin ready

(* What a pass has still to do.                                            *)
TwoToDo == lpc = "dispatch" /\ items = 0 /\ {"callback", "signal"} \subseteq ready
CallbackToDo == lpc = "dispatch" /\ items = 0 /\ "callback" \in ready /\ "signal" \notin ready
SizeToDo == lpc = "size"
BatchToDo == lpc = "dispatch" /\ items > 0
SignalToDo == lpc = "dispatch" /\ items = 0 /\ "callback" \notin ready /\ "signal" \in ready
NothingToDo == lpc = "dispatch" /\ items = 0 /\ ready = {}

(* A step of the loop's thread does one thing of it.                       *)
LEMMA PassStep ==
  ASSUME Inv, OneBatch, Loop
  PROVE  /\ TwoToDo => CallbackToDo' \/ SizeToDo'
         /\ CallbackToDo => SizeToDo'
         /\ SizeToDo \/ BatchToDo => BatchToDo' \/ SignalToDo' \/ NothingToDo'
         /\ SignalToDo => NothingToDo'
         /\ NothingToDo => ~InPass'
         /\ OneBatch'
<1> USE DEF Inv, OneBatch, TwoToDo, CallbackToDo, SizeToDo, BatchToDo, SignalToDo,
      NothingToDo, InPass
<1>0. items \in Nat /\ ready \subseteq {"signal", "callback"} /\ Len(queue) \in Nat
  BY DEF TypeOK, Items
<1>1. CASE onSignal \/ onCallbackRead
  BY <1>0, <1>1, Zenon DEF onSignal, onCallbackRead
<1>2. CASE onCallbackSize
  BY <1>0, <1>2 DEF onCallbackSize
<1>3. CASE runCallback
  BY <1>0, <1>3 DEF runCallback
<1>4. CASE endPass
  BY <1>4 DEF endPass
<1>5. CASE enterLoop \/ poll \/ leaveRun
  BY <1>0, <1>5 DEF enterLoop, poll, leaveRun, LoopShape
<1> QED
  BY <1>1, <1>2, <1>3, <1>4, <1>5, Zenon DEF Loop

(* Nobody else does.                                                       *)
LEMMA OthersLeavePass ==
  ASSUME Inv, [Next]_vars, ~Loop
  PROVE  UNCHANGED <<ready, items>> /\ (lpc' = lpc \/ (lpc = "idle" /\ lpc' = "entered"))
  BY ThreadStep, Zenon DEF Inv, Next, run, vars, loopVars

(* A pass ends, if its batch of callbacks does.                            *)
THEOREM PassEndsWithBatch == FairSpec /\ []LoopCanStep /\ BatchesEnd => PassesEnd
<1>1. Init => OneBatch
  BY Zenon DEF Init, OneBatch
<1>2. ASSUME Inv, OneBatch, [Next]_vars
      PROVE  /\ TwoToDo => TwoToDo' \/ CallbackToDo' \/ SizeToDo'
             /\ CallbackToDo => CallbackToDo' \/ SizeToDo'
             /\ SizeToDo => SizeToDo' \/ BatchToDo' \/ SignalToDo' \/ NothingToDo'
             /\ BatchToDo => BatchToDo' \/ SignalToDo' \/ NothingToDo'
             /\ SignalToDo => SignalToDo' \/ NothingToDo'
             /\ NothingToDo => NothingToDo' \/ ~InPass'
             /\ OneBatch'
  <2>1. CASE Loop
    BY <1>2, <2>1, PassStep, Zenon
  <2>2. CASE ~Loop
    BY <1>2, <2>2, OthersLeavePass, Zenon DEF OneBatch, TwoToDo, CallbackToDo, SizeToDo,
      BatchToDo, SignalToDo, NothingToDo, Inv, LoopShape
  <2> QED
    BY <2>1, <2>2, Zenon
<1>3. Inv /\ OneBatch /\ <<alive /\ Loop>>_vars =>
        /\ TwoToDo => CallbackToDo' \/ SizeToDo'
        /\ CallbackToDo => SizeToDo'
        /\ SizeToDo => BatchToDo' \/ SignalToDo' \/ NothingToDo'
        /\ SignalToDo => NothingToDo'
        /\ NothingToDo => ~InPass'
  BY PassStep, Zenon
<1>4. Inv /\ InPass => \/ TwoToDo \/ CallbackToDo \/ SizeToDo \/ BatchToDo
                       \/ SignalToDo \/ NothingToDo
  BY DEF Inv, TypeOK, Items, InPass, TwoToDo, CallbackToDo, SizeToDo, BatchToDo,
    SignalToDo, NothingToDo
<1>5. Inv /\ LoopCanStep /\ alive /\
        (TwoToDo \/ CallbackToDo \/ SizeToDo \/ SignalToDo \/ NothingToDo) =>
      ENABLED <<alive /\ Loop>>_vars
  BY
  DEF Inv, LoopShape, LoopCanStep, TwoToDo, CallbackToDo, SizeToDo, SignalToDo, NothingToDo
<1>6. BatchToDo => items > 0 /\ ~(items = 0)
  BY DEF BatchToDo
<1> QED
  BY <1>1, <1>2, <1>3, <1>4, <1>5, <1>6, LoopInvariant, PTL
     DEF FairSpec, Fairness, LoopFair, Spec, PassesEnd, BatchesEnd

(* A writer has a step to take if its entry is at the head of the queue or *)
(* if it has left blockingWrite().                                         *)
WriterReady(t) ==
  \/ queue # <<>> /\ Head(queue).from = t /\ ~Written(Head(queue))
  \/ pc[t] = "signal"
ThreadCanStep(t) == alive /\ WriterReady(t) => ENABLED <<alive /\ Finish(t)>>_vars
ThreadsCanStep == \A t \in Threads : ThreadCanStep(t)

(* The next one of n + 1 callbacks that the batch has still to execute is  *)
(* one of thread t.                                                        *)
NextFrom(t, n) == lpc = "dispatch" /\ items = n + 1 /\ Head(queue).from = t
IsWritten == Written(Head(queue))

(* Nobody but the loop's thread moves it, and once written it stays so.    *)
LEMMA OthersKeepHead ==
  ASSUME Inv, QueueHolds, NEW t \in Threads, NEW n \in Nat, NextFrom(t, n),
         [Next]_vars, ~Loop
  PROVE  NextFrom(t, n)' /\ (IsWritten => IsWritten')
<1> DEFINE h == Head(queue)
<1>1. /\ queue # <<>> /\ h.from = t /\ h.seq \in Nat /\ h.seq <= calls[t]
      /\ calls[t] \in Nat
  <2>1. queue # <<>>
    BY DEF Inv, TypeOK, BatchIsBacked, NextFrom
  <2> QED
    BY <2>1, HeadIsNext DEF Inv, TypeOK, NextFrom
<1>2. lpc' = lpc /\ items' = items
  BY OthersLeavePass, Zenon DEF NextFrom
<1>3. CASE UNCHANGED vars
  BY <1>2, <1>3, Zenon DEF vars, histVars, NextFrom, IsWritten, Written
<1>4. CASE run
  BY <1>4, Zenon DEF run, NextFrom
<1>5. ASSUME NEW u \in Threads, Begin(u) \/ Finish(u)
      PROVE  NextFrom(t, n)' /\ (IsWritten => IsWritten')
  <2>1. /\ queue' # <<>> /\ Head(queue') = h
        /\ \/ pc'[t] = pc[t] /\ calls'[t] = calls[t]
           \/ pc'[t] # "slot" /\ calls'[t] = calls[t]
           \/ calls'[t] = calls[t] + 1
    <3> USE DEF Inv, TypeOK, histVars, Goto
    <3>1. CASE takeTicket(u)
      <4>1. PICK e : queue' = Append(queue, e)
        BY <3>1, Zenon DEF takeTicket
      <4>2. Head(queue') = h /\ queue' # <<>>
        BY <1>1, <4>1
      <4> QED
        BY <3>1, <4>2, Zenon DEF takeTicket
    <3>2. CASE Begin(u)
      BY <1>1, <3>2, Zenon DEF Begin, callStop, callRunInEventLoop, callRunImmediately
    <3>3. CASE stopCheck(u) \/ stopWrite(u) \/ checkRunning(u) \/ checkInLoop(u)
      BY <1>1, <3>3, Zenon DEF stopCheck, stopWrite, checkRunning, checkInLoop, Abort
    <3>4. CASE fillSlot(u) \/ notify(u) \/ inlineDone(u)
      BY <1>1, <3>4, Zenon DEF fillSlot, notify, inlineDone
    <3> QED
      BY <1>5, <3>1, <3>2, <3>3, <3>4, Zenon DEF Finish
  <2> QED
    BY <1>1, <1>2, <2>1 DEF NextFrom, IsWritten, Written
<1> QED
  BY <1>3, <1>4, <1>5, Zenon DEF Next

(* Its writer finishes blockingWrite().                                    *)
LEMMA WriterFinishes ==
  ASSUME Inv, NEW t \in Threads, NEW n, NextFrom(t, n), ~IsWritten, Finish(t)
  PROVE  IsWritten'
<1>1. pc[t] = "slot"
  BY Zenon DEF NextFrom, IsWritten, Written
<1>2. fillSlot(t)
  BY <1>1, Zenon DEF Finish, Goto, stopCheck, stopWrite, checkRunning, checkInLoop,
    takeTicket, notify, inlineDone
<1>3. pc' = [pc EXCEPT ![t] = "signal"] /\ queue' = queue
  BY <1>2, Zenon DEF fillSlot, Goto
<1> QED
  BY <1>3, Zenon DEF NextFrom, IsWritten, Written, Inv, TypeOK

(* A batch goes on: of n + 1 callbacks one is executed, whoever it is from *)
(* and wherever its writer is.                                             *)
THEOREM BatchGoesOn ==
  FairSpec /\ []LoopCanStep /\ []ThreadsCanStep =>
    \A t \in Threads, n \in Nat : NextFrom(t, n) ~> (items = n \/ ~alive)
<1> SUFFICES ASSUME NEW t \in Threads, NEW n \in Nat
             PROVE  FairSpec /\ []LoopCanStep /\ []ThreadsCanStep =>
                      (NextFrom(t, n) ~> (items = n \/ ~alive))
  BY Zenon
<1> DEFINE Executed == items = n
<1>1. Inv /\ QueueHolds /\ NextFrom(t, n) /\ [Next]_vars =>
        \/ Executed'
        \/ NextFrom(t, n)' /\ (IsWritten => IsWritten')
  <2> SUFFICES ASSUME Inv, QueueHolds, NextFrom(t, n), [Next]_vars, Loop PROVE Executed'
    BY OthersKeepHead, Zenon
  <2> QED
    BY DEF NextFrom, Loop, enterLoop, poll, onSignal, onCallbackRead, onCallbackSize,
      runCallback, endPass, leaveRun
<1>2. NextFrom(t, n) /\ <<alive /\ Loop>>_vars => Executed'
  BY DEF NextFrom, Loop, enterLoop, poll, onSignal, onCallbackRead, onCallbackSize,
      runCallback, endPass, leaveRun
<1>3. Inv /\ NextFrom(t, n) /\ ~IsWritten /\ <<alive /\ Finish(t)>>_vars => IsWritten'
  BY WriterFinishes, Zenon
<1>4. NextFrom(t, n) /\ IsWritten /\ LoopCanStep /\ alive => ENABLED <<alive /\ Loop>>_vars
  BY Zenon DEF NextFrom, LoopCanStep, IsWritten
<1>5. Inv /\ NextFrom(t, n) /\ ~IsWritten /\ ThreadCanStep(t) /\ alive =>
        ENABLED <<alive /\ Finish(t)>>_vars
  BY DEF NextFrom, ThreadCanStep, WriterReady, IsWritten, Inv, BatchIsBacked, TypeOK
<1>6. ThreadsCanStep => ThreadCanStep(t)
  BY Zenon DEF ThreadsCanStep
<1>7. FairSpec => Spec /\ LoopFair /\ ThreadFair(t)
  BY Zenon DEF FairSpec, Fairness
<1> QED
  BY <1>1, <1>2, <1>3, <1>4, <1>5, <1>6, <1>7, LoopInvariant, QueueInvariant, PTL
     DEF Spec, LoopFair, ThreadFair

(* The n-th callback of thread t is in the queue, is in the batch that is  *)
(* executed, is still on its way through blockingWrite(), or has yet to be *)
(* announced by its writer.                                                *)
Unserved(t, n) == calls[t] >= n /\ done[t] < n
InBatch(t, n) == \E i \in 1..items : queue[i].from = t /\ queue[i].seq = n
Blocked(t, n) == Unserved(t, n) /\ calls[t] = n /\ pc[t] = "slot"
Unannounced(t, n) == Unserved(t, n) /\ calls[t] = n /\ pc[t] = "signal"
Announced(t, n) == Unserved(t, n) /\ callbackFd > 0
Sizing(t, n) == Unserved(t, n) /\ lpc = "size"

(* These are all the places it can be in.                                  *)
LEMMA UnservedIsSomewhere ==
  ASSUME Inv, QueueHolds, NoLostWakeup, NEW t \in Threads, NEW n \in Nat, Unserved(t, n)
  PROVE  \/ InBatch(t, n) \/ Blocked(t, n) \/ Unannounced(t, n)
         \/ Announced(t, n) \/ Sizing(t, n)
<1>1. PICK i \in 1..Len(queue) : queue[i].from = t /\ queue[i].seq = n
  BY InQueue, Zenon DEF Unserved
<1>2. i \in Nat /\ i >= 1 /\ items \in Nat
  BY DEF Inv, TypeOK
<1> QED
  BY <1>1, <1>2 DEF NoLostWakeup, InBatch, Blocked, Unannounced, Announced, Sizing, Unserved

(* What a step of another thread does to the queue and to the callers.     *)
LEMMA ThreadLeavesQueue ==
  ASSUME Inv, NEW t \in Threads, NEW u \in Threads, Begin(u) \/ Finish(u)
  PROVE  /\ \A i \in 1..Len(queue) : i \in 1..Len(queue') /\ queue'[i] = queue[i]
         /\ calls'[t] >= calls[t]
         /\ calls'[t] # calls[t] => pc[t] = "put"
         /\ u # t => pc'[t] = pc[t]
         /\ pc[t] = "slot" => pc'[t] = "slot" \/ (pc'[t] = "signal" /\ calls'[t] = calls[t])
         /\ pc[t] = "signal" => pc'[t] = "signal" \/ callbackFd' > 0
<1> USE DEF Inv, TypeOK, histVars, fdVars, Goto
<1>1. CASE takeTicket(u)
  <2>1. PICK e : queue' = Append(queue, e)
    BY <1>1, Zenon DEF takeTicket
  <2>2. \A i \in 1..Len(queue) : i \in 1..Len(queue') /\ queue'[i] = queue[i]
    BY <2>1
  <2>3. /\ pc[u] = "put" /\ pc' = [pc EXCEPT ![u] = "slot"]
        /\ calls' = [calls EXCEPT ![u] = @ + 1]
    BY <1>1, Zenon DEF takeTicket
  <2>4. calls[u] \in Nat /\ calls[t] \in Nat
    BY Zenon
  <2>5. /\ calls'[t] >= calls[t] /\ (calls'[t] # calls[t] => pc[t] = "put")
        /\ u # t => pc'[t] = pc[t]
        /\ pc[t] \in {"slot", "signal"} => pc'[t] = pc[t]
    BY <2>3, <2>4
  <2> QED
    BY <2>2, <2>5, Zenon
<1>0. ASSUME UNCHANGED <<queue, calls>>, u # t => pc'[t] = pc[t],
             pc[t] = "slot" => pc'[t] \in {"slot", "signal"},
             pc[t] = "signal" => pc'[t] = "signal"
      PROVE  /\ \A i \in 1..Len(queue) : i \in 1..Len(queue') /\ queue'[i] = queue[i]
             /\ calls'[t] >= calls[t] /\ calls'[t] = calls[t]
             /\ u # t => pc'[t] = pc[t]
             /\ pc[t] = "slot" => pc'[t] \in {"slot", "signal"}
             /\ pc[t] = "signal" => pc'[t] = "signal"
  <2>1. calls[t] \in Nat /\ calls[t] >= calls[t]
    OBVIOUS
  <2> QED
    BY <1>0, <2>1, Zenon
<1>2. CASE Begin(u)
  <2>1. /\ pc[u] = "out" /\ \E to : pc' = [pc EXCEPT ![u] = to]
        /\ UNCHANGED <<queue, calls>>
    BY <1>2, Zenon DEF Begin, callStop, callRunInEventLoop, callRunImmediately
  <2> QED
    BY <1>0, <2>1, Zenon
<1>3. CASE stopCheck(u) \/ stopWrite(u) \/ checkRunning(u) \/ checkInLoop(u)
  <2>1. /\ pc[u] \in {"stopCheck", "stopWrite", "check", "inLoop"}
        /\ pc' = pc \/ \E to : pc' = [pc EXCEPT ![u] = to]
        /\ UNCHANGED <<queue, calls>>
    BY <1>3, Zenon DEF stopCheck, stopWrite, checkRunning, checkInLoop, Abort
  <2> QED
    BY <1>0, <2>1, Zenon
<1>4. CASE fillSlot(u) \/ inlineDone(u)
  BY <1>0, <1>4, Zenon DEF fillSlot, inlineDone
<1>5. CASE notify(u)
  BY <1>5 DEF notify
<1> QED
  BY <1>1, <1>2, <1>3, <1>4, <1>5, Zenon DEF Finish

(* What a step of the loop does to them.                                   *)
LEMMA LoopLeavesCallers ==
  ASSUME Inv, Loop \/ run \/ UNCHANGED vars
  PROVE  /\ UNCHANGED <<calls, pc>>
         /\ ~runCallback => UNCHANGED <<queue, done>>
         /\ callbackFd > 0 => callbackFd' > 0 \/ (onCallbackRead /\ lpc' = "size")
  BY Zenon DEF Loop, run, enterLoop, poll, onSignal, onCallbackRead, onCallbackSize,
    runCallback, endPass, leaveRun, vars, fdVars, histVars

(* A callback of the batch is executed or stays in the batch.              *)
LEMMA BatchKeeps ==
  ASSUME Inv, QueueHolds, [Next]_vars, NEW t \in Threads, NEW n \in Nat, InBatch(t, n)
  PROVE  InBatch(t, n)' \/ done'[t] >= n
<1>0. items \in Nat /\ Len(queue) \in Nat /\ items <= Len(queue) /\ items > 0
  BY DEF Inv, TypeOK, BatchIsBacked, InBatch
<1>1. PICK i \in 1..items : queue[i].from = t /\ queue[i].seq = n
  BY Zenon DEF InBatch
<1>2. i \in 1..Len(queue)
  BY <1>0, <1>1
<1>3. CASE runCallback
  <2>1. /\ queue # <<>> /\ queue' = Tail(queue) /\ items' = items - 1
        /\ done' = [done EXCEPT ![Head(queue).from] = Head(queue).seq]
    BY <1>3, Zenon DEF runCallback
  <2>2. CASE i = 1
    <3>1. Head(queue).from = t /\ Head(queue).seq = n
      BY <1>1, <2>1, <2>2
    <3> QED
      BY <2>1, <3>1 DEF Inv, TypeOK
  <2>3. CASE i # 1
    <3>1. i - 1 \in 1..Len(queue') /\ i - 1 \in 1..items' /\ queue'[i - 1] = queue[i]
      BY <1>0, <1>2, <2>1, <2>3 DEF Inv, TypeOK
    <3> QED
      BY <1>1, <3>1, Zenon DEF InBatch
  <2> QED
    BY <2>2, <2>3, Zenon
<1>4. CASE Loop /\ ~runCallback
  <2>1. queue' = queue
    BY <1>4, LoopLeavesCallers, Zenon
  <2>2. items' = items
    <3>1. items # 0
      BY <1>0
    <3>2. lpc = "dispatch"
      BY <3>1, Zenon DEF Inv, LoopShape
    <3> QED
      BY <1>4, <3>1, <3>2, Zenon DEF Loop, enterLoop, poll, onSignal, onCallbackRead,
        onCallbackSize, endPass, leaveRun
  <2> QED
    BY <1>1, <2>1, <2>2, Zenon DEF InBatch
<1>5. ASSUME NEW u \in Threads, Begin(u) \/ Finish(u) PROVE InBatch(t, n)'
  <2>1. queue'[i] = queue[i] /\ items' = items
    BY <1>2, <1>5, ThreadLeavesQueue, ThreadStep, Zenon DEF Inv
  <2> QED
    BY <1>1, <2>1, Zenon DEF InBatch
<1>6. CASE run \/ UNCHANGED vars
  BY <1>6, Zenon DEF run, vars, loopVars, InBatch
<1> QED
  BY <1>3, <1>4, <1>5, <1>6, Zenon DEF Next

(* Where it goes from the other places.                                    *)
LEMMA UnservedStep ==
  ASSUME Inv, QueueHolds, [Next]_vars, NEW t \in Threads, NEW n \in Nat, Unserved(t, n)
  PROVE  /\ Unserved(t, n)' \/ done'[t] >= n
         /\ Blocked(t, n) => Blocked(t, n)' \/ Unannounced(t, n)' \/ done'[t] >= n
         /\ Unannounced(t, n) => Unannounced(t, n)' \/ Announced(t, n)' \/ done'[t] >= n
         /\ Announced(t, n) => Announced(t, n)' \/ Sizing(t, n)' \/ done'[t] >= n
         /\ Sizing(t, n) => Sizing(t, n)' \/ (Loop /\ InBatch(t, n)')
<1>1. calls[t] \in Nat /\ done[t] \in Nat /\ callbackFd \in Nat /\ items \in Nat
      /\ calls'[t] \in Nat /\ done'[t] \in Nat
  BY TypeStep, Zenon DEF Inv, TypeOK
<1>2. CASE Loop \/ run \/ UNCHANGED vars
  <2>1. Unserved(t, n)' \/ done'[t] >= n
    BY <1>1, <1>2, LoopLeavesCallers DEF Unserved
  <2>2. /\ Blocked(t, n) => Blocked(t, n)' \/ done'[t] >= n
        /\ Unannounced(t, n) => Unannounced(t, n)' \/ done'[t] >= n
    BY <1>2, <2>1, LoopLeavesCallers, Zenon DEF Blocked, Unannounced
  <2>3. Announced(t, n) => Announced(t, n)' \/ Sizing(t, n)' \/ done'[t] >= n
    BY <1>2, <2>1, LoopLeavesCallers, Zenon DEF Announced, Sizing
  <2>4. ASSUME Sizing(t, n) PROVE Sizing(t, n)' \/ (Loop /\ InBatch(t, n)')
    <3>1. CASE Loop
      <4>1. onCallbackSize
        BY <2>4, <3>1, Zenon DEF Sizing, Loop, enterLoop, poll, onSignal, onCallbackRead,
          runCallback, endPass, leaveRun
      <4>2. items' = Len(queue) /\ queue' = queue
        BY <4>1, Zenon DEF onCallbackSize
      <4>3. PICK i \in 1..Len(queue) : queue[i].from = t /\ queue[i].seq = n
        <5>1. done[t] < n /\ n <= calls[t]
          BY <1>1 DEF Unserved
        <5> QED
          BY <5>1, InQueue
      <4> QED
        BY <3>1, <4>2, <4>3, Zenon DEF InBatch
    <3>2. CASE UNCHANGED vars
      BY <2>4, <3>2, Zenon DEF vars, loopVars, histVars, Sizing, Unserved
    <3>3. CASE run
      BY <2>4, <3>3, Zenon DEF run, Sizing
    <3> QED
      BY <1>2, <3>1, <3>2, <3>3, Zenon
  <2> QED
    BY <2>1, <2>2, <2>3, <2>4, Zenon
<1>3. ASSUME NEW u \in Threads, Begin(u) \/ Finish(u)
      PROVE  /\ Unserved(t, n)'
             /\ Blocked(t, n) => Blocked(t, n)' \/ Unannounced(t, n)'
             /\ Unannounced(t, n) => Unannounced(t, n)' \/ Announced(t, n)'
             /\ Announced(t, n) => Announced(t, n)'
             /\ Sizing(t, n) => Sizing(t, n)'
  <2>1. lpc' = lpc /\ done' = done /\ callbackFd' >= callbackFd
    BY <1>3, ThreadStep, Zenon DEF Inv
  <2>2. Unserved(t, n)'
    <3>1. calls'[t] >= calls[t]
      BY <1>3, ThreadLeavesQueue, Zenon
    <3> QED
      BY <1>1, <2>1, <3>1 DEF Unserved
  <2>3. /\ Blocked(t, n) => Blocked(t, n)' \/ Unannounced(t, n)'
        /\ Unannounced(t, n) => Unannounced(t, n)' \/ Announced(t, n)'
    BY <1>3, <2>2, ThreadLeavesQueue, Zenon DEF Blocked, Unannounced, Announced
  <2>4. callbackFd' \in Nat
    BY TypeStep, Zenon DEF Inv, TypeOK
  <2>5. callbackFd > 0 => callbackFd' > 0
    BY <1>1, <2>1, <2>4
  <2> QED
    BY <2>1, <2>2, <2>3, <2>5, Zenon DEF Announced, Sizing
<1> QED
  BY <1>2, <1>3, Zenon DEF Next

(* poll() finds callbackFd_ readable, and the pass does not end before its *)
(* handler was called.                                                     *)
Reported == lpc = "dispatch" /\ "callback" \in ready

LEMMA ReportedStays ==
  ASSUME Inv, [Next]_vars
  PROVE  /\ Reported => Reported' \/ lpc' = "size"
         /\ lpc = "poll" /\ callbackFd > 0 => lpc' = "poll" \/ Reported'
<1>1. CASE Loop
  BY <1>1, Zenon DEF Loop, enterLoop, poll, onSignal, onCallbackRead, onCallbackSize,
    runCallback, endPass, leaveRun, Reported, Items
<1>2. CASE ~Loop
  BY <1>2, OthersLeavePass, Zenon DEF Reported
<1> QED
  BY <1>1, <1>2, Zenon

(* A callback whose writer has its slot is executed.                       *)
LEMMA WrittenIsExecuted ==
  ASSUME NEW t \in Threads, NEW n \in Nat
  PROVE  FairSpec /\ []LoopCanStep /\ []ThreadsCanStep /\ BatchesEnd =>
           ((Unserved(t, n) /\ ~Blocked(t, n)) ~> (done[t] >= n \/ lpc = "idle" \/ ~alive))
<1> DEFINE U == Unserved(t, n)
           IB == InBatch(t, n)
           BL == Blocked(t, n)
           UN == Unannounced(t, n)
           AN == Announced(t, n)
           SZ == Sizing(t, n)
           Q == done[t] >= n
           Some == items > 0
           None == items = 0
           Entered == lpc = "entered"
           Polls == lpc = "poll"
           Exits == lpc = "exit"
           Idles == lpc = "idle"
<1>1. Inv /\ QueueHolds /\ NoLostWakeup =>
        /\ U => IB \/ BL \/ UN \/ AN \/ SZ
        /\ BL \/ UN \/ AN \/ SZ => U
        /\ IB => Some /\ ~None
        /\ Entered \/ Polls \/ InPass \/ Exits \/ Idles
        /\ Reported => InPass
        /\ SZ => InPass
        /\ InPass => ~Polls /\ ~Entered /\ ~Exits /\ ~Idles
  <2> SUFFICES ASSUME Inv, QueueHolds, NoLostWakeup
               PROVE  /\ U => IB \/ BL \/ UN \/ AN \/ SZ
                      /\ BL \/ UN \/ AN \/ SZ => U
                      /\ IB => Some /\ ~None
                      /\ Entered \/ Polls \/ InPass \/ Exits \/ Idles
                      /\ Reported => InPass
                      /\ SZ => InPass
                      /\ InPass => ~Polls /\ ~Entered /\ ~Exits /\ ~Idles
    BY Zenon
  <2>2. U => IB \/ BL \/ UN \/ AN \/ SZ
    BY UnservedIsSomewhere, Zenon
  <2>3. BL \/ UN \/ AN \/ SZ => U
    BY Zenon DEF Blocked, Unannounced, Announced, Sizing
  <2>4. IB => Some /\ ~None
    BY DEF InBatch, Inv, TypeOK
  <2>5. Entered \/ Polls \/ InPass \/ Exits \/ Idles
    BY Zenon DEF Inv, TypeOK, LoopPC, InPass
  <2>6. /\ Reported => InPass
        /\ SZ => InPass
        /\ InPass => ~Polls /\ ~Entered /\ ~Exits /\ ~Idles
    BY Zenon DEF Reported, InPass, Sizing
  <2> QED
    BY <2>2, <2>3, <2>4, <2>5, <2>6, Zenon
<1>2. Inv /\ QueueHolds /\ [Next]_vars =>
        /\ IB => IB' \/ Q'
        /\ U => U' \/ Q'
        /\ BL => BL' \/ UN' \/ Q'
        /\ UN => UN' \/ AN' \/ Q'
        /\ AN => AN' \/ SZ' \/ Q'
        /\ SZ => SZ' \/ IB'
  <2> SUFFICES ASSUME Inv, QueueHolds, [Next]_vars
               PROVE  /\ IB => IB' \/ Q'
                      /\ U => U' \/ Q'
                      /\ BL => BL' \/ UN' \/ Q'
                      /\ UN => UN' \/ AN' \/ Q'
                      /\ AN => AN' \/ SZ' \/ Q'
                      /\ SZ => SZ' \/ IB'
    BY Zenon
  <2>1. IB => IB' \/ Q'
    BY BatchKeeps, Zenon
  <2>2. BL \/ UN \/ AN \/ SZ => U
    BY Zenon DEF Blocked, Unannounced, Announced, Sizing
  <2> QED
    BY <2>1, <2>2, UnservedStep, Zenon
<1>3. Inv /\ [Next]_vars =>
        /\ AN /\ Reported => (Reported' \/ (AN' => SZ'))
        /\ AN /\ Polls => Polls' \/ Reported'
        /\ Entered => Entered' \/ Polls'
        /\ InPass => InPass' \/ Polls' \/ Exits'
        /\ Exits => Exits' \/ Idles'
  <2> SUFFICES ASSUME Inv, [Next]_vars
               PROVE  /\ AN /\ Reported => (Reported' \/ (AN' => SZ'))
                      /\ AN /\ Polls => Polls' \/ Reported'
                      /\ Entered => Entered' \/ Polls'
                      /\ InPass => InPass' \/ Polls' \/ Exits'
                      /\ Exits => Exits' \/ Idles'
    BY Zenon
  <2>1. /\ AN /\ Reported => (Reported' \/ (AN' => SZ'))
        /\ AN /\ Polls => Polls' \/ Reported'
    BY ReportedStays, Zenon DEF Announced, Sizing
  <2> QED
    BY <2>1, SeenStays, Zenon
<1>4. Inv /\ QueueHolds /\ [Next]_vars /\ <<alive /\ Loop>>_vars =>
        /\ SZ => IB'
        /\ Entered => Polls'
        /\ Polls /\ AN => Reported'
        /\ Exits => Idles'
  <2> SUFFICES ASSUME Inv, QueueHolds, [Next]_vars, Loop
               PROVE  /\ SZ => IB'
                      /\ Entered => Polls'
                      /\ Polls /\ AN => Reported'
                      /\ Exits => Idles'
    BY Zenon
  <2>1. SZ => ~SZ'
    BY Zenon DEF Sizing, Loop, enterLoop, poll, onSignal, onCallbackRead, onCallbackSize,
      runCallback, endPass, leaveRun
  <2>2. SZ => SZ' \/ IB'
    BY <1>2, Zenon
  <2>3. Polls /\ AN => ~Polls'
    BY LoopStepAdvances, Zenon
  <2> QED
    BY <1>3, <2>1, <2>2, <2>3, LoopStepAdvances, Zenon
<1>5. Inv /\ UN /\ [Next]_vars /\ <<alive /\ Finish(t)>>_vars => AN' \/ Q'
  <2> SUFFICES ASSUME Inv, UN, Finish(t) PROVE AN'
    BY Zenon
  <2>1. notify(t)
    BY Zenon DEF Unannounced, Finish, Goto, stopCheck, stopWrite, checkRunning, checkInLoop,
      takeTicket, fillSlot, inlineDone
  <2> QED
    BY <2>1 DEF notify, histVars, Unannounced, Announced, Unserved, Inv, TypeOK
<1>6. Inv /\ LoopCanStep /\ alive /\ (SZ \/ Entered \/ Polls \/ Exits) =>
        ENABLED <<alive /\ Loop>>_vars
  BY DEF Inv, LoopShape, LoopCanStep, Sizing
<1>7. ThreadsCanStep /\ alive /\ UN => ENABLED <<alive /\ Finish(t)>>_vars
  BY Zenon DEF ThreadsCanStep, ThreadCanStep, WriterReady, Unannounced
<1>8. FairSpec => Spec /\ LoopFair /\ ThreadFair(t)
  BY Zenon DEF FairSpec, Fairness
<1>9. FairSpec => [](Inv /\ QueueHolds /\ NoLostWakeup)
  BY LoopInvariant, QueueInvariant, NoWakeupIsLost, PTL DEF FairSpec
<1>10. BatchesEnd <=> (Some ~> (None \/ ~alive))
  BY Zenon DEF BatchesEnd
<1> DEFINE H == FairSpec /\ []LoopCanStep /\ []ThreadsCanStep /\ BatchesEnd
           Done == Q \/ Idles \/ ~alive
<1>11. H => PassesEnd
  BY PassEndsWithBatch, Zenon
<1> HIDE DEF U, IB, BL, UN, AN, SZ, Q, Some, None, Entered, Polls, Exits, Idles
<1>12. H => (IB ~> Done)
  BY <1>1, <1>2, <1>8, <1>9, <1>10, PTL DEF Spec
<1>13. H => (SZ ~> (IB \/ Done))
  BY <1>1, <1>2, <1>4, <1>6, <1>8, <1>9, PTL DEF Spec, LoopFair
<1>14. H => (AN /\ Reported ~> (SZ \/ Done))
  BY <1>1, <1>2, <1>3, <1>8, <1>9, <1>11, PTL DEF Spec, PassesEnd
<1>15. H => (AN /\ Polls ~> ((AN /\ Reported) \/ SZ \/ Done))
  BY <1>1, <1>2, <1>3, <1>4, <1>6, <1>8, <1>9, PTL DEF Spec, LoopFair
<1>16. H => (AN /\ Entered ~> ((AN /\ Polls) \/ SZ \/ Done))
  BY <1>1, <1>2, <1>3, <1>4, <1>6, <1>8, <1>9, PTL DEF Spec, LoopFair
<1>17. H => (AN /\ Exits ~> Done)
  BY <1>1, <1>3, <1>4, <1>6, <1>8, <1>9, PTL DEF Spec, LoopFair
<1>18. H => (AN /\ InPass ~> ((AN /\ Polls) \/ (AN /\ Exits) \/ SZ \/ Done))
  BY <1>1, <1>2, <1>3, <1>8, <1>9, <1>11, PTL DEF Spec, PassesEnd
<1>19. H => (UN ~> (AN \/ Done))
  BY <1>1, <1>2, <1>5, <1>7, <1>8, <1>9, PTL DEF Spec, ThreadFair
<1>20. H => ((U /\ ~BL) ~> Done)
  BY <1>1, <1>9, <1>12, <1>13, <1>14, <1>15, <1>16, <1>17, <1>18, <1>19, PTL
<1> QED
  BY <1>20, Zenon DEF U, BL, Q, Idles

(* A writer that waits in blockingWrite() for the slot of its n-th         *)
(* callback gets it, unless the loop is stopped.                           *)
SlotIsGiven(t, n) == Blocked(t, n) ~> (~Blocked(t, n) \/ lpc = "idle" \/ ~alive)
SlotsAreGiven == \A t \in Threads, n \in Nat : SlotIsGiven(t, n)

(* A callback that was enqueued is executed, unless the loop is stopped,   *)
(* if every writer gets its slot and batches end: no wake-up is lost,      *)
(* whatever the loop and the other writers do in between.                  *)
THEOREM CallbacksAreExecuted ==
  FairSpec /\ []LoopCanStep /\ []ThreadsCanStep /\ BatchesEnd /\ SlotsAreGiven =>
    CallbackIsExecuted
<1> SUFFICES ASSUME NEW t \in Threads, NEW n \in 1..MaxCalls
             PROVE  FairSpec /\ []LoopCanStep /\ []ThreadsCanStep /\ BatchesEnd
                      /\ SlotIsGiven(t, n) =>
                        ((calls[t] >= n) ~> (done[t] >= n \/ lpc = "idle" \/ ~alive))
  BY ConstantsAssumption DEF SlotsAreGiven, CallbackIsExecuted
<1> DEFINE C == calls[t] >= n
           U == Unserved(t, n)
           BL == Blocked(t, n)
           Q == done[t] >= n
           Idles == lpc = "idle"
<1>1. n \in Nat
  OBVIOUS
<1>2. Inv => (C => U \/ Q)
  BY <1>1 DEF Inv, TypeOK, Unserved
<1>3. BL => U
  BY Zenon DEF Blocked
<1>4. Inv /\ QueueHolds /\ U /\ [Next]_vars => U' \/ Q'
  BY <1>1, UnservedStep, Zenon
<1>5. FairSpec => [](Inv /\ QueueHolds) /\ [][Next]_vars
  BY LoopInvariant, QueueInvariant, PTL DEF FairSpec, Spec
<1>6. FairSpec /\ []LoopCanStep /\ []ThreadsCanStep /\ BatchesEnd =>
        ((U /\ ~BL) ~> (Q \/ Idles \/ ~alive))
  BY <1>1, WrittenIsExecuted, Zenon
<1>7. SlotIsGiven(t, n) <=> (BL ~> (~BL \/ Idles \/ ~alive))
  BY Zenon DEF SlotIsGiven
<1> HIDE DEF C, U, BL, Q, Idles
<1>8. FairSpec /\ []LoopCanStep /\ []ThreadsCanStep /\ BatchesEnd /\ SlotIsGiven(t, n) =>
        (C ~> (Q \/ Idles \/ ~alive))
  BY <1>2, <1>3, <1>4, <1>5, <1>6, <1>7, PTL
<1> QED
  BY <1>8, Zenon DEF C, Q, Idles

(* The callback at the head of the queue is the n-th one of thread t.      *)
HeadIs(t, n) == queue # <<>> /\ Head(queue).from = t /\ Head(queue).seq = n

(* It stays there until it is executed.                                    *)
LEMMA HeadStays ==
  ASSUME Inv, QueueHolds, [Next]_vars, NEW t \in Threads, NEW n \in Nat, HeadIs(t, n)
  PROVE  HeadIs(t, n)' \/ done'[t] >= n
<1>0. queue \in Seq(Callback) /\ 1 \in 1..Len(queue) /\ Head(queue) = queue[1]
  BY DEF Inv, TypeOK, HeadIs
<1>1. CASE runCallback
  BY <1>1 DEF runCallback, HeadIs, Inv, TypeOK
<1>2. CASE (Loop /\ ~runCallback) \/ run \/ UNCHANGED vars
  BY <1>2, LoopLeavesCallers, Zenon DEF HeadIs, run, runCallback, vars
<1>3. ASSUME NEW u \in Threads, Begin(u) \/ Finish(u) PROVE HeadIs(t, n)'
  <2>1. 1 \in 1..Len(queue') /\ queue'[1] = queue[1]
    BY <1>0, <1>3, ThreadLeavesQueue, Zenon
  <2>2. queue' \in Seq(Callback)
    BY TypeStep, Zenon DEF Inv, TypeOK
  <2>3. queue' # <<>> /\ Head(queue') = Head(queue)
    BY <1>0, <2>1, <2>2
  <2> QED
    BY <2>3, Zenon DEF HeadIs
<1> QED
  BY <1>1, <1>2, <1>3, Zenon DEF Next

(* The callback at the head of the queue is executed, and every other one  *)
(* moves up, unless the loop is stopped: the head needs no slot but the    *)
(* first, so that no writer waits for a reader that waits for it.          *)
THEOREM HeadIsExecuted ==
  FairSpec /\ []LoopCanStep /\ []ThreadsCanStep /\ BatchesEnd =>
    \A t \in Threads, n \in Nat : HeadIs(t, n) ~> (done[t] >= n \/ lpc = "idle" \/ ~alive)
<1> SUFFICES ASSUME NEW t \in Threads, NEW n \in Nat
             PROVE  FairSpec /\ []LoopCanStep /\ []ThreadsCanStep /\ BatchesEnd =>
                      (HeadIs(t, n) ~> (done[t] >= n \/ lpc = "idle" \/ ~alive))
  BY Zenon
<1> DEFINE P == HeadIs(t, n)
           U == Unserved(t, n)
           BL == Blocked(t, n)
           Q == done[t] >= n
           Idles == lpc = "idle"
<1>1. Inv /\ QueueHolds => (P => U)
  <2> SUFFICES ASSUME Inv, QueueHolds, P PROVE U
    BY Zenon
  <2>1. n = done[t] + 1 /\ n <= calls[t]
    BY HeadIsNext, Zenon DEF Inv, HeadIs
  <2> QED
    BY <2>1 DEF Unserved, Inv, TypeOK
<1>2. Inv /\ QueueHolds /\ P /\ [Next]_vars => P' \/ Q'
  BY HeadStays, Zenon
<1>3. Inv /\ BL /\ <<alive /\ Finish(t)>>_vars => ~BL'
  BY Zenon
  DEF Inv, TypeOK, Blocked, Finish, Goto, stopCheck, stopWrite, checkRunning, checkInLoop,
    takeTicket, fillSlot, notify, inlineDone
<1>4. ThreadsCanStep /\ alive /\ P /\ BL => ENABLED <<alive /\ Finish(t)>>_vars
  BY Zenon DEF ThreadsCanStep, ThreadCanStep, WriterReady, HeadIs, Blocked, Written
<1>5. FairSpec => [](Inv /\ QueueHolds) /\ [][Next]_vars /\ ThreadFair(t)
  <2>1. FairSpec => Spec /\ ThreadFair(t)
    BY Zenon DEF FairSpec, Fairness
  <2> QED
    BY <2>1, LoopInvariant, QueueInvariant, PTL DEF Spec
<1>6. FairSpec /\ []LoopCanStep /\ []ThreadsCanStep /\ BatchesEnd =>
        ((U /\ ~BL) ~> (Q \/ Idles \/ ~alive))
  BY WrittenIsExecuted, Zenon
<1> HIDE DEF P, U, BL, Q, Idles
<1>7. FairSpec /\ []LoopCanStep /\ []ThreadsCanStep /\ BatchesEnd =>
        (P ~> (Q \/ Idles \/ ~alive))
  BY <1>1, <1>2, <1>3, <1>4, <1>5, <1>6, PTL DEF ThreadFair
<1> QED
  BY <1>7, Zenon DEF P, Q, Idles
===============================================================================
