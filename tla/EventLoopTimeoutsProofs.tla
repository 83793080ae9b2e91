------------------------ MODULE EventLoopTimeoutsProofs -----------------------
(***************************************************************************)
(* Proofs about EventLoopTimeouts, for any resolution of the clock, any    *)
(* healthCheckDuration_ and any bounds.                                    *)
(***************************************************************************)
EXTENDS EventLoopTimeouts, TLAPS, WellFoundedInduction

(* Tokens identify timeouts, and only tokens already given out occur.      *)
TokensUnique ==
  /\ \A e, f \in heap \cup fired : e.id = f.id => e = f
  /\ \A e \in heap \cup fired : e.id < nextId
  /\ \A id \in active \cup cancelled \cup fresh : id < nextId
  /\ phase = "callback" => current < nextId

(* During a pass the snapshot lies in the past, and what was scheduled     *)
(* with scheduleTimeout() in this pass is not due in it.                   *)
SnapshotIsPast ==
  phase \in {"process", "callback"} =>
    /\ snapshot <= now
    /\ \A e \in heap : e.id \in fresh => e.at >= snapshot

Inv ==
  /\ TypeOK /\ TokensUnique /\ TokenAccounting
  /\ SnapshotIsPast /\ PassIsFinite /\ SameTimeInOrder

(* A heap that is not empty has a first time point.                        *)
LEMMA TopTimeExists ==
  ASSUME TypeOK, heap # {}
  PROVE  /\ topTime \in Nat
         /\ \A e \in heap : topTime <= e.at
         /\ \E e \in heap : topTime = e.at
<1> DEFINE T == {e.at : e \in heap}
           R == {p \in Nat \X Nat : p[1] < p[2]}
<1>1. T \subseteq Nat /\ T # {}
  BY Zenon DEF TypeOK, Timeout
<1>2. IsWellFoundedOn(R, Nat)
  BY NatLessThanWellFounded, Zenon DEF OpToRel
<1>3. PICK x \in T : \A y \in T : ~(<<y, x>> \in R)
  <2> HIDE DEF R, T
  <2> QED
    BY <1>1, <1>2, WFMin, Zenon
<1>4. \A y \in T : x <= y
  <2> TAKE y \in T
  <2>1. x \in Nat /\ y \in Nat /\ ~(<<y, x>> \in R)
    BY <1>1, <1>3, Zenon
  <2>2. ~(y < x)
    BY <2>1, Zenon
  <2> QED
    BY <2>1, <2>2
<1>5. \E t \in T : \A e \in heap : t <= e.at
  BY <1>4, Zenon
<1> QED
  BY <1>1, <1>5, Zenon DEF topTime

(* The bounds of the poll timeout.                                         *)
LEMMA PollTimeoutBounds ==
  ASSUME TypeOK
  PROVE  /\ pollTimeout \in Nat /\ 1 <= pollTimeout /\ pollTimeout <= Health
         /\ \A e \in heap : \/ pollTimeout = 1
                            \/ now + pollTimeout * TicksPerMs <= e.at
<1>1. CASE heap = {}
  BY <1>1, TimeoutsAssumption DEF pollTimeout
<1>2. CASE heap # {}
  <2> DEFINE waitTime ==
        IF topTime > now THEN (topTime - now) \div TicksPerMs ELSE 0
  <2>1. topTime \in Nat /\ \A e \in heap : e.at \in Nat /\ topTime <= e.at
    BY <1>2, TopTimeExists, Zenon DEF TypeOK, Timeout
  <2>2. waitTime \in Nat /\ (waitTime = 0 \/ now + waitTime * TicksPerMs <= topTime)
    <3>1. CASE topTime > now
      <4>1. topTime - now \in Nat
        BY <2>1, <3>1 DEF TypeOK
      <4>2. /\ (topTime - now) \div TicksPerMs \in Nat
            /\ ((topTime - now) \div TicksPerMs) * TicksPerMs <= topTime - now
        BY <4>1, TimeoutsAssumption
      <4> QED
        BY <2>1, <3>1, <4>2, TimeoutsAssumption DEF TypeOK
    <3>2. CASE ~(topTime > now)
      BY <3>2, Zenon
    <3> QED
      BY <3>1, <3>2, Zenon
  <2>3. pollTimeout = smaller(larger(1, waitTime), Health)
    BY <1>2, Zenon DEF pollTimeout
  <2>4. /\ pollTimeout \in Nat /\ 1 <= pollTimeout /\ pollTimeout <= Health
        /\ pollTimeout = 1 \/ pollTimeout <= waitTime
    BY <2>2, <2>3, TimeoutsAssumption DEF smaller, larger
  <2>5. ASSUME pollTimeout # 1
        PROVE  now + pollTimeout * TicksPerMs <= topTime
    <3>1. pollTimeout <= waitTime /\ waitTime # 0
      BY <2>2, <2>4, <2>5
    <3>2. pollTimeout * TicksPerMs <= waitTime * TicksPerMs
      BY <2>2, <2>4, <3>1, TimeoutsAssumption
    <3>3. pollTimeout * TicksPerMs \in Nat /\ waitTime * TicksPerMs \in Nat
      BY <2>2, <2>4, TimeoutsAssumption
    <3> QED
      BY <2>1, <2>2, <3>1, <3>2, <3>3 DEF TypeOK
  <2>6. pollTimeout * TicksPerMs \in Nat
    BY <2>4, TimeoutsAssumption
  <2> QED
    BY <2>1, <2>4, <2>5, <2>6 DEF TypeOK
<1> QED
  BY <1>1, <1>2, Zenon
-------------------------------------------------------------------------------
(* The new object satisfies the invariant.                                 *)
LEMMA InitInv == Init => Inv
<1> SUFFICES ASSUME Init PROVE Inv
  BY Zenon
<1>1. TypeOK
  BY Zenon DEF Init, TypeOK, Phases
<1>2. TokensUnique /\ SnapshotIsPast /\ PassIsFinite /\ SameTimeInOrder
  BY Zenon DEF Init, TokensUnique, SnapshotIsPast, PassIsFinite, SameTimeInOrder
<1>3. TokenAccounting
  BY DEF Init, TokenAccounting, Ids
<1> QED
  BY <1>1, <1>2, <1>3, Zenon DEF Inv

(* Every step keeps the types.                                             *)
LEMMA TypeStep ==
  ASSUME TypeOK, Next
  PROVE  TypeOK'
<1> USE DEF TypeOK, Phases, Timeout
<1>1. CASE tick
  BY <1>1 DEF tick, passVars, histVars
<1>2. ASSUME NEW at \in Nat, scheduleTimeoutAt(at), fresh' \in SUBSET Nat
      PROVE  TypeOK'
  BY <1>2 DEF scheduleTimeoutAt, passVars
<1>3. ASSUME NEW at \in TimePoints, userScheduleAt(at) PROVE TypeOK'
  BY <1>2, <1>3, TimeoutsAssumption, Zenon DEF userScheduleAt
<1>4. ASSUME NEW delay \in Delays, scheduleTimeout(delay) PROVE TypeOK'
  <2>1. delay \in Nat /\ TicksPerMs \in Nat
    BY TimeoutsAssumption, Zenon
  <2>2. delay * TicksPerMs \in Nat
    BY <2>1
  <2>3. now + delay * TicksPerMs \in Nat
    BY <2>2
  <2>4. fresh' \in SUBSET Nat
    BY <1>4, Zenon DEF scheduleTimeout
  <2> QED
    BY <1>2, <1>4, <2>3, <2>4, Zenon DEF scheduleTimeout
<1>5. ASSUME NEW id \in 0..MaxTimeouts, cancelTimeout(id) PROVE TypeOK'
  BY <1>5, TimeoutsAssumption, Zenon DEF cancelTimeout, passVars
<1>6. CASE enterPoll
  <2>1. pollTimeout \in Nat /\ TicksPerMs \in Nat
    BY PollTimeoutBounds, TimeoutsAssumption, Zenon
  <2>2. pollTimeout * TicksPerMs \in Nat
    BY <2>1
  <2>3. now + pollTimeout * TicksPerMs \in Nat
    BY <2>2
  <2> QED
    BY <1>6, <2>3, Zenon DEF enterPoll, histVars
<1>7. CASE leaveLoop
  BY <1>7, Zenon DEF leaveLoop, histVars
<1>8. CASE pollReturns
  BY <1>8, Zenon DEF pollReturns, histVars
<1>9. CASE beginTimeouts
  BY <1>9, Zenon DEF beginTimeouts
<1>10. CASE callbackReturns
  BY <1>10, Zenon DEF callbackReturns, histVars
<1>11. ASSUME NEW e \in heap, skipCancelled(e) PROVE TypeOK'
  BY <1>11, Zenon DEF skipCancelled, passVars, histVars
<1>12. ASSUME NEW e \in heap, fire(e) PROVE TypeOK'
  BY <1>12, Zenon DEF fire
<1> QED
  BY <1>1, <1>3, <1>4, <1>5, <1>6, <1>7, <1>8, <1>9, <1>10, <1>11, <1>12, Zenon
  DEF Next, Pass, run, nextPass

(* A new token keeps the accounts: it is larger than all the others.       *)
LEMMA ScheduleStep ==
  ASSUME Inv, TypeOK', NEW at \in Nat, scheduleTimeoutAt(at),
         \/ fresh' = fresh
         \/ fresh' = fresh \cup {nextId} /\ at >= now
  PROVE  Inv'
<1> USE DEF Inv, scheduleTimeoutAt, passVars
<1> DEFINE new == [id |-> nextId, at |-> at]
<1>1. TokensUnique'
  BY DEF TokensUnique, TypeOK, Timeout
<1>2. TokenAccounting'
  <2>1. Ids(heap') = Ids(heap) \cup {nextId}
    <3>1. heap' = heap \cup {new} /\ new.id = nextId
      BY Zenon
    <3> HIDE DEF new
    <3> QED
      BY <3>1, Zenon DEF Ids
  <2>2. 0..(nextId' - 1) = (0..(nextId - 1)) \cup {nextId}
    BY DEF TypeOK
  <2>3. nextId \notin 0..(nextId - 1)
    BY DEF TypeOK
  <2> QED
    BY <2>1, <2>2, <2>3 DEF TokenAccounting
<1>3. SnapshotIsPast'
  BY DEF SnapshotIsPast, TokensUnique, TypeOK, Timeout
<1>4. PassIsFinite'
  BY DEF PassIsFinite, TokensUnique, TypeOK
<1>5. SameTimeInOrder'
  BY DEF SameTimeInOrder, TokensUnique, TypeOK, Timeout
<1> QED
  BY <1>1, <1>2, <1>3, <1>4, <1>5, Zenon

(* A cancelled token moves from one account to another.                    *)
LEMMA CancelStep ==
  ASSUME Inv, TypeOK', NEW id \in 0..MaxTimeouts, cancelTimeout(id)
  PROVE  Inv'
<1> USE DEF Inv, cancelTimeout, passVars
<1>1. TokensUnique'
  BY Zenon DEF TokensUnique
<1>2. TokenAccounting'
  BY Zenon DEF TokenAccounting, Ids
<1>3. SnapshotIsPast' /\ PassIsFinite' /\ SameTimeInOrder'
  BY Zenon DEF SnapshotIsPast, PassIsFinite, SameTimeInOrder
<1> QED
  BY <1>1, <1>2, <1>3, Zenon

(* Dropping a cancelled element leaves every pending one in the heap.      *)
LEMMA SkipStep ==
  ASSUME Inv, TypeOK', NEW e \in heap, skipCancelled(e)
  PROVE  Inv'
<1> USE DEF Inv, skipCancelled, passVars, histVars
<1>1. TokensUnique'
  BY Zenon DEF TokensUnique
<1>2. TokenAccounting'
  BY Zenon DEF TokenAccounting, Ids
<1>3. SnapshotIsPast' /\ PassIsFinite' /\ SameTimeInOrder'
  BY Zenon DEF SnapshotIsPast, PassIsFinite, SameTimeInOrder
<1> QED
  BY <1>1, <1>2, <1>3, Zenon

(* The timeout executed is the first of its time and not a fresh one.      *)
LEMMA FireStep ==
  ASSUME Inv, TypeOK', NEW e \in heap, fire(e)
  PROVE  Inv'
<1> USE DEF Inv, fire
<1>1. TokensUnique'
  BY DEF TokensUnique
<1>2. TokenAccounting'
  <2>1. Ids(fired') = Ids(fired) \cup {e.id}
    BY Zenon DEF Ids
  <2>2. active' \subseteq Ids(heap')
    BY Zenon DEF TokenAccounting, Ids
  <2> QED
    <3>1. active' \cup Ids(fired') \cup cancelled' = 0..(nextId' - 1)
      BY <2>1, Zenon DEF TokenAccounting
    <3>2. /\ active' \cap Ids(fired') = {} /\ active' \cap cancelled' = {}
          /\ Ids(fired') \cap cancelled' = {}
      BY <2>1, Zenon DEF TokenAccounting
    <3> QED
      BY <2>2, <3>1, <3>2, Zenon DEF TokenAccounting
<1>3. SnapshotIsPast'
  BY Zenon DEF SnapshotIsPast, TypeOK
<1>4. PassIsFinite'
  BY DEF PassIsFinite, SnapshotIsPast, TypeOK, Timeout
<1>5. SameTimeInOrder'
  BY DEF SameTimeInOrder, IsTop, TokensUnique, TypeOK, Timeout
<1> QED
  BY <1>1, <1>2, <1>3, <1>4, <1>5, Zenon

(* Every step keeps the invariant.                                         *)
LEMMA InvStep == Inv /\ [Next]_vars => Inv'
<1> SUFFICES ASSUME Inv, [Next]_vars PROVE Inv'
  BY Zenon
<1>1. CASE UNCHANGED vars
  BY <1>1, Zenon DEF Inv, vars, passVars, histVars, TypeOK, TokensUnique,
     TokenAccounting, SnapshotIsPast, PassIsFinite, SameTimeInOrder
<1>2. CASE Next
  <2>1. TypeOK /\ TypeOK'
    BY <1>2, TypeStep, Zenon DEF Inv
  <2>2. ASSUME NEW at \in TimePoints, userScheduleAt(at) PROVE Inv'
    BY <2>1, <2>2, ScheduleStep, TimeoutsAssumption, Zenon DEF userScheduleAt
  <2>3. ASSUME NEW delay \in Delays, scheduleTimeout(delay) PROVE Inv'
    <3>1. delay \in Nat /\ TicksPerMs \in Nat
      BY TimeoutsAssumption, Zenon
    <3>2. delay * TicksPerMs \in Nat
      BY <3>1
    <3> DEFINE at == now + delay * TicksPerMs
    <3>3. at \in Nat /\ at >= now
      BY <2>1, <3>2 DEF TypeOK
    <3>4. scheduleTimeoutAt(at) /\ fresh' = fresh \cup {nextId}
      BY <2>3, Zenon DEF scheduleTimeout
    <3> HIDE DEF at
    <3> QED
      BY <2>1, <3>3, <3>4, ScheduleStep, Zenon
  <2>4. ASSUME NEW id \in 0..MaxTimeouts, cancelTimeout(id) PROVE Inv'
    BY <2>1, <2>4, CancelStep, Zenon
  <2>5. ASSUME NEW e \in heap, skipCancelled(e) PROVE Inv'
    BY <2>1, <2>5, SkipStep, Zenon
  <2>6. ASSUME NEW e \in heap, fire(e) PROVE Inv'
    BY <2>1, <2>6, FireStep, Zenon
  <2>7. CASE tick
    BY <2>1, <2>7 DEF tick, passVars, histVars, Inv, TypeOK, TokensUnique,
       TokenAccounting, SnapshotIsPast, PassIsFinite, SameTimeInOrder
  <2>8. CASE beginTimeouts
    BY <2>1, <2>8 DEF beginTimeouts, Inv, TypeOK, TokensUnique,
       TokenAccounting, SnapshotIsPast, PassIsFinite, SameTimeInOrder
  <2>9. CASE enterPoll \/ leaveLoop \/ pollReturns \/ callbackReturns
    BY <2>1, <2>9, Zenon DEF enterPoll, leaveLoop, pollReturns, callbackReturns,
       histVars, Inv, TokensUnique, TokenAccounting, SnapshotIsPast,
       PassIsFinite, SameTimeInOrder
  <2> QED
    BY <1>2, <2>2, <2>3, <2>4, <2>5, <2>6, <2>7, <2>8, <2>9, Zenon
    DEF Next, Pass, run, nextPass
<1> QED
  BY <1>1, <1>2, Zenon
-------------------------------------------------------------------------------
(* The inductive invariant holds in every behaviour.                       *)
LEMMA Invariance == Spec => []Inv
  BY InitInv, InvStep, PTL DEF Spec

(* No operation of the loop or of a callback leaves the types.             *)
THEOREM TypeCorrect == Spec => []TypeOK
  BY Invariance, PTL DEF Inv

(* Tokens are accounted for exactly once, whatever callbacks schedule or   *)
(* cancel in the middle of a pass.                                         *)
THEOREM TokensAccountedFor == Spec => []TokenAccounting
  BY Invariance, PTL DEF Inv

(* Timeouts for the same time point run in the order of insertion.         *)
THEOREM OrderOfInsertion == Spec => []SameTimeInOrder
  BY Invariance, PTL DEF Inv

(* A pass never executes what was scheduled with a duration during it.     *)
THEOREM PassesEnd == Spec => []PassIsFinite
  BY Invariance, PTL DEF Inv

(* poll() sleeps between 1 ms and healthCheckDuration_ and oversleeps no   *)
(* timeout by more than 1 ms.                                              *)
THEOREM PollIsBounded == Spec => []PollBounds
<1>1. Init => PollBounds
  BY Zenon DEF Init, PollBounds
<1>2. Inv /\ PollBounds /\ [Next]_vars => PollBounds'
  <2> SUFFICES ASSUME Inv, PollBounds, [Next]_vars PROVE PollBounds'
    BY Zenon
  <2>1. CASE enterPoll
    <3>1. TypeOK
      BY Zenon DEF Inv
    <3>2. /\ pollTimeout \in Nat /\ 1 <= pollTimeout /\ pollTimeout <= Health
          /\ TicksPerMs \in Nat /\ Health \in Nat
      BY <3>1, PollTimeoutBounds, TimeoutsAssumption, Zenon
    <3>3. /\ pollTimeout * TicksPerMs \in Nat /\ Health * TicksPerMs \in Nat
          /\ TicksPerMs <= pollTimeout * TicksPerMs
          /\ pollTimeout * TicksPerMs <= Health * TicksPerMs
      BY <3>2
    <3>4. ASSUME NEW e \in heap
          PROVE  now + pollTimeout * TicksPerMs <= larger(e.at, now) + TicksPerMs
      <4>1. e.at \in Nat /\ now \in Nat
        BY <3>1, Zenon DEF TypeOK, Timeout
      <4>2. CASE pollTimeout = 1
        BY <3>2, <4>1, <4>2 DEF larger
      <4>3. CASE now + pollTimeout * TicksPerMs <= e.at
        BY <3>2, <3>3, <4>1, <4>3 DEF larger
      <4> QED
        BY <3>1, <4>2, <4>3, PollTimeoutBounds, Zenon
    <3>5. now \in Nat
      BY <3>1, Zenon DEF TypeOK
    <3> QED
      BY <2>1, <3>2, <3>3, <3>4, <3>5 DEF enterPoll, PollBounds
  <2>2. CASE phase = "poll" /\ ~enterPoll
    BY <2>2, Zenon DEF PollBounds, Next, Pass, tick, userScheduleAt, scheduleTimeout,
       scheduleTimeoutAt, cancelTimeout, callerRuns, run, nextPass, leaveLoop,
       nothingDue, pollReturns, beginTimeouts, callbackReturns, skipCancelled,
       fire, vars, passVars, histVars
  <2>3. CASE phase # "poll" /\ ~enterPoll
    BY <2>3, Zenon DEF PollBounds, Next, Pass, tick, userScheduleAt, scheduleTimeout,
       scheduleTimeoutAt, cancelTimeout, run, nextPass, leaveLoop,
       pollReturns, beginTimeouts, callbackReturns, skipCancelled,
       fire, vars, passVars, histVars
  <2> QED
    BY <2>1, <2>2, <2>3, Zenon
<1> QED
  BY <1>1, <1>2, Invariance, PTL DEF Spec

(* What the heap holds for TimerService.                                   *)
Pending == {e \in heap : e.id \in active}

(* Every step of the loop is a step of the service, or none.               *)
LEMMA ServiceStep ==
  ASSUME Inv, [Next]_vars
  PROVE  [Service!TimerNext]_(Service!timerVars)
<1> USE DEF Service!timerVars
<1>1. CASE UNCHANGED <<now, nextId, heap, active, fired, cancelled>>
  BY <1>1, Zenon
<1>2. CASE tick
  BY <1>2, Zenon DEF tick, histVars, Service!TimerNext, Service!ClockTick
<1>3. ASSUME NEW at, scheduleTimeoutAt(at)
      PROVE  Service!TimerNext
  <2> DEFINE new == [id |-> nextId, at |-> at]
  <2>1. Pending' = Pending \cup {new}
    <3>1. heap' = heap \cup {new} /\ active' = active \cup {nextId}
      BY <1>3, Zenon DEF scheduleTimeoutAt
    <3>2. new.id = nextId
      BY Zenon
    <3>3. \A e \in heap : e.id # nextId
      BY DEF Inv, TokensUnique, TypeOK, Timeout
    <3> HIDE DEF new
    <3> QED
      BY <3>1, <3>2, <3>3, Zenon DEF Pending
  <2>2. Service!Schedule(at)
    BY <1>3, <2>1, Zenon DEF scheduleTimeoutAt, Service!Schedule, Pending
  <2>3. new \in Pending' /\ new.at = at
    BY <2>1, Zenon
  <2> QED
    BY <2>2, <2>3, Zenon DEF Service!TimerNext, Pending
<1>4. ASSUME NEW id \in 0..MaxTimeouts, cancelTimeout(id), id \in active
      PROVE  Service!TimerNext
  <2>1. id \in Service!Ids(Pending)
    BY <1>4, Zenon DEF Inv, TokenAccounting, Ids, Service!Ids, Pending
  <2>2. Pending' = {e \in Pending : e.id # id}
    BY <1>4, Zenon DEF cancelTimeout, Pending
  <2>3. Service!Cancel(id)
    BY <1>4, <2>1, <2>2, Zenon DEF cancelTimeout, Service!Cancel, Pending
  <2> QED
    BY <2>1, <2>3, Zenon DEF Service!TimerNext, Pending
<1>5. ASSUME NEW id \in 0..MaxTimeouts, cancelTimeout(id), id \notin active
      PROVE  UNCHANGED <<now, nextId, heap, active, fired, cancelled>>
  BY <1>5, Zenon DEF cancelTimeout
<1>6. ASSUME NEW e \in heap, fire(e)
      PROVE  Service!TimerNext
  <2>1. e \in Pending /\ Service!IsFirst(e, Pending)
    BY <1>6, Zenon DEF fire, IsTop, Service!IsFirst, Pending
  <2>2. e.at <= now
    BY <1>6 DEF fire, Inv, SnapshotIsPast, TypeOK, Timeout
  <2>3. Pending' = Pending \ {e}
    BY <1>6, Zenon DEF fire, Pending, Inv, TokensUnique
  <2>4. Service!Fire(e)
    BY <1>6, <2>1, <2>2, <2>3, Zenon DEF fire, Service!Fire, Pending
  <2> QED
    BY <2>1, <2>4, Zenon DEF Service!TimerNext, Pending
<1>7. ASSUME NEW e \in heap, skipCancelled(e)
      PROVE  UNCHANGED <<now, nextId, Pending, fired, cancelled>>
  BY <1>7, Zenon DEF skipCancelled, histVars, Pending
<1>8. ASSUME enterPoll \/ leaveLoop \/ pollReturns \/ beginTimeouts
               \/ callbackReturns \/ UNCHANGED vars
      PROVE  UNCHANGED <<now, nextId, heap, active, fired, cancelled>>
  BY <1>8, Zenon DEF enterPoll, leaveLoop, pollReturns, beginTimeouts,
     callbackReturns, vars, histVars
<1> QED
  BY <1>1, <1>2, <1>3, <1>4, <1>5, <1>6, <1>7, <1>8, Zenon
  DEF Next, Pass, run, nextPass, userScheduleAt, scheduleTimeout, Pending

(* The heap of ZmqEventLoop implements TimerService.                       *)
THEOREM HeapImplementsService == Spec => ImplementsService
<1>1. Init => Service!TimerInit
  BY Zenon DEF Init, Service!TimerInit
<1>2. Inv /\ [Next]_vars => [Service!TimerNext]_(Service!timerVars)
  BY ServiceStep, Zenon
<1> QED
  BY <1>1, <1>2, Invariance, PTL DEF Spec, ImplementsService, Service!TimerSpec
-------------------------------------------------------------------------------
(* Progress of the loop and of the clock.  ENABLED is left as it is: that  *)
(* they can take a step where LoopCanStep says so is a hypothesis of the   *)
(* theorems.                                                               *)
LoopCanStep ==
  /\ now < MaxTime /\ (phase = "poll" => now < wake) => ENABLED <<tick>>_vars
  /\ phase # "idle" /\ ~nothingDue => ENABLED <<Pass>>_vars
  /\ nothingDue => ENABLED <<nextPass>>_vars

(* A poll() that is entered at this time returns at a later one.           *)
LEMMA WakesLater ==
  ASSUME TypeOK, enterPoll
  PROVE  now < wake'
<1>1. pollTimeout \in Nat /\ 1 <= pollTimeout /\ TicksPerMs \in Nat /\ 1 <= TicksPerMs
  BY PollTimeoutBounds, TimeoutsAssumption
<1>2. pollTimeout * TicksPerMs \in Nat /\ 1 <= pollTimeout * TicksPerMs
  BY <1>1
<1>3. wake' = now + pollTimeout * TicksPerMs /\ now \in Nat
  BY Zenon DEF enterPoll, TypeOK
<1> QED
  BY <1>2, <1>3

(* The clock does not stand still: poll() does not sleep for ever, and     *)
(* nothing but poll() keeps the time from passing.                         *)
THEOREM ClockGoesOn ==
  FairSpec /\ []LoopCanStep =>
    \A n \in Nat : (now = n /\ n < MaxTime) ~> (now = n + 1)
<1>1. FairSpec => []Inv
  BY Invariance, PTL DEF FairSpec
<1>2. ASSUME NEW n \in Nat
      PROVE  FairSpec /\ []LoopCanStep => ((now = n /\ n < MaxTime) ~> (now = n + 1))
  <2> DEFINE P == now = n /\ n < MaxTime
             Q == now = n + 1
             Go == P /\ (phase = "poll" => now < wake)
             Stuck == P /\ phase = "poll" /\ ~(now < wake)
  <2>1. Inv /\ Go /\ [Next]_vars => Go' \/ Q'
    <3> SUFFICES ASSUME Inv, Go, [Next]_vars, ~Q' PROVE Go'
      BY Zenon
    <3>1. ~tick
      BY Zenon DEF tick
    <3>2. CASE enterPoll
      <4>1. now < wake' /\ now' = now
        BY <3>2, WakesLater, Zenon DEF Inv, enterPoll
      <4> QED
        BY <4>1, Zenon
    <3>3. CASE ~enterPoll
      <4>1. now' = now /\ (phase' = "poll" => phase = "poll" /\ wake' = wake)
        BY <3>1, <3>3, Zenon DEF Next, userScheduleAt, scheduleTimeout, scheduleTimeoutAt,
             cancelTimeout, run, nextPass, leaveLoop, Pass, pollReturns, beginTimeouts,
             callbackReturns, skipCancelled, fire, vars, passVars
      <4> QED
        BY <4>1, Zenon
    <3> QED
      BY <3>2, <3>3, Zenon
  <2>2. Go /\ tick => Q'
    BY Zenon DEF tick
  <2>3. Stuck /\ [Next]_vars => Stuck' \/ Go'
    BY Zenon DEF Next, tick, userScheduleAt, scheduleTimeout, scheduleTimeoutAt, callerRuns,
         cancelTimeout, run, nextPass, leaveLoop, nothingDue, Pass, pollReturns,
         beginTimeouts, callbackReturns, skipCancelled, fire, vars, passVars
  <2>4. Stuck /\ Pass => Go'
    BY Zenon DEF Pass, pollReturns, beginTimeouts, callbackReturns, skipCancelled, fire
  <2>5. P => Go \/ Stuck
    BY Zenon
  <2>6. LoopCanStep /\ Go => ENABLED <<tick>>_vars
    BY Zenon DEF LoopCanStep
  <2>7. LoopCanStep /\ Stuck => ENABLED <<Pass>>_vars
    BY Zenon DEF LoopCanStep, nothingDue
  <2> HIDE DEF P, Q, Go, Stuck
  <2>8. FairSpec /\ []LoopCanStep => (P ~> Q)
    BY <1>1, <2>1, <2>2, <2>3, <2>4, <2>5, <2>6, <2>7, PTL DEF FairSpec, Fairness, Spec
  <2> QED
    BY <2>8, Zenon DEF P, Q
<1> QED
  BY <1>2, Zenon
-------------------------------------------------------------------------------
Processing == phase \in {"process", "callback"}

(* What the pass has still to execute or to drop.                          *)
DueNow == {e \in heap : e.at < snapshot}

(* A pass over the heap ends; the clock gets to its bound.                 *)
ProcessingEnds == Processing ~> ~Processing
ClockArrives == <>(now = MaxTime)

(* The timeout with this token waits, in a loop that runs.                 *)
Waits(id) ==
  /\ phase # "idle"
  /\ \E e \in heap : e.id = id /\ id \in active /\ e.at < MaxTime
Gone(id) == id \notin active \/ phase = "idle"

(* A timeout leaves the heap only if it is executed or was cancelled.      *)
LEMMA WaitsOrGone ==
  ASSUME Inv, NEW id \in Nat, Waits(id), [Next]_vars
  PROVE  Waits(id)' \/ Gone(id)'
<1>1. PICK e \in heap : e.id = id /\ id \in active /\ e.at < MaxTime
  BY Zenon DEF Waits
<1>2. SUFFICES ASSUME id \in active', phase' # "idle"
               PROVE  e \in heap'
  BY <1>1, Zenon DEF Waits, Gone
<1>3. ASSUME NEW f \in heap, skipCancelled(f)
      PROVE  e \in heap'
  BY <1>1, <1>3, Zenon DEF skipCancelled
<1>4. ASSUME NEW f \in heap, fire(f)
      PROVE  e \in heap'
  BY <1>1, <1>2, <1>4, Zenon DEF fire
<1>5. CASE ~\E f \in heap : skipCancelled(f) \/ fire(f)
  BY <1>1, <1>5, Zenon DEF Next, tick, userScheduleAt, scheduleTimeout, scheduleTimeoutAt,
       cancelTimeout, run, nextPass, enterPoll, leaveLoop, Pass, pollReturns, beginTimeouts,
       callbackReturns, vars
<1> QED
  BY <1>3, <1>4, <1>5, Zenon

(* While a timeout that is due waits, the pass is not over.                *)
LEMMA PassHasMore ==
  ASSUME Inv, NEW id \in Nat, Waits(id), Processing, snapshot = MaxTime, [Next]_vars
  PROVE  (Processing /\ snapshot = MaxTime)'
<1>1. ~nothingDue
  <2>1. PICK e \in heap : e.at < MaxTime
    BY Zenon DEF Waits
  <2>2. e.at \in Nat /\ MaxTime \in Nat
    BY TimeoutsAssumption, Zenon DEF Inv, TypeOK, Timeout
  <2> QED
    BY <2>1, <2>2 DEF nothingDue
<1> QED
  BY <1>1, Zenon
  DEF Processing, Next, tick, userScheduleAt, scheduleTimeout, scheduleTimeoutAt,
       cancelTimeout, run, nextPass, leaveLoop, Pass, pollReturns, beginTimeouts,
       callbackReturns, skipCancelled, fire, vars, passVars

(* How the phases follow each other.                                       *)
LEMMA PhaseStep ==
  ASSUME [Next]_vars
  PROVE  /\ phase = "poll" => phase' \in {"poll", "dispatch"}
         /\ phase = "dispatch" =>
              phase' = "dispatch" \/ (phase' = "process" /\ snapshot' = now')
         /\ Processing => Processing' \/ phase' \in {"poll", "idle"}
         /\ Pass => /\ phase = "poll" => phase' = "dispatch"
                    /\ phase = "dispatch" => phase' = "process"
         /\ now = MaxTime => now' = MaxTime
<1>1. phase = "poll" => phase' \in {"poll", "dispatch"}
  BY Zenon
  DEF Next, tick, userScheduleAt, scheduleTimeout, scheduleTimeoutAt, cancelTimeout, run,
       nextPass, leaveLoop, nothingDue, Pass, pollReturns, beginTimeouts, callbackReturns,
       skipCancelled, fire, vars, passVars
<1>2. phase = "dispatch" => phase' = "dispatch" \/ (phase' = "process" /\ snapshot' = now')
  BY Zenon
  DEF Next, tick, userScheduleAt, scheduleTimeout, scheduleTimeoutAt, cancelTimeout, run,
       nextPass, leaveLoop, nothingDue, Pass, pollReturns, beginTimeouts, callbackReturns,
       skipCancelled, fire, vars, passVars
<1>3. Processing => Processing' \/ phase' \in {"poll", "idle"}
  BY Zenon DEF Processing, Next, tick, userScheduleAt, scheduleTimeout, scheduleTimeoutAt,
       cancelTimeout, run, nextPass, enterPoll, leaveLoop, nothingDue, Pass, pollReturns,
       beginTimeouts, callbackReturns, skipCancelled, fire, vars, passVars
<1>4. Pass => /\ phase = "poll" => phase' = "dispatch"
              /\ phase = "dispatch" => phase' = "process"
  BY Zenon DEF Pass, pollReturns, beginTimeouts, callbackReturns, skipCancelled, fire
<1>5. now = MaxTime => now' = MaxTime
  BY TimeoutsAssumption DEF Next, tick, userScheduleAt, scheduleTimeout, scheduleTimeoutAt,
       cancelTimeout, run, nextPass, enterPoll, leaveLoop, Pass, pollReturns,
       beginTimeouts, callbackReturns, skipCancelled, fire, vars
<1> QED
  BY <1>1, <1>2, <1>3, <1>4, <1>5, Zenon

(* A timeout that the clock reaches is executed, unless it is cancelled or *)
(* the loop is left, if the clock gets there and no pass goes on for ever. *)
THEOREM TimeoutsAreExecuted ==
  FairSpec /\ []LoopCanStep /\ ClockArrives /\ ProcessingEnds => TimeoutIsExecuted
<1>1. FairSpec => []Inv
  BY Invariance, PTL DEF FairSpec
<1>2. ASSUME NEW id \in Nat
      PROVE  FairSpec /\ []LoopCanStep /\ ClockArrives /\ ProcessingEnds =>
               (Waits(id) ~> Gone(id))
  <2> DEFINE P == Waits(id)
             Q == Gone(id)
             M == now = MaxTime
             Poll == phase = "poll"
             Dispatch == phase = "dispatch"
             Last == Processing /\ snapshot = MaxTime
  <2>1. Inv /\ P /\ [Next]_vars => P' \/ Q'
    BY WaitsOrGone, Zenon
  <2>2. Inv /\ P /\ Last /\ [Next]_vars => Last'
    BY PassHasMore, Zenon
  <2>3. [Next]_vars => /\ Poll => Poll' \/ Dispatch'
                       /\ M /\ Dispatch => Dispatch' \/ Last'
                       /\ Processing => Processing' \/ Poll' \/ Q'
                       /\ M => M'
    BY PhaseStep, Zenon DEF Processing, Gone
  <2>4. [Next]_vars /\ Pass => /\ Poll => Dispatch'
                               /\ M /\ Dispatch => Last'
    BY PhaseStep, Zenon DEF Processing
  <2>5. Inv /\ P => Poll \/ Dispatch \/ Processing
    BY Zenon DEF Waits, Processing, Inv, TypeOK, Phases
  <2>6. Last => Processing
    BY Zenon
  <2>7. LoopCanStep /\ (Poll \/ Dispatch) => ENABLED <<Pass>>_vars
    BY Zenon DEF LoopCanStep, nothingDue
  <2> HIDE DEF P, Q, M, Poll, Dispatch, Last
  <2>8. FairSpec /\ []LoopCanStep /\ <>M /\ ProcessingEnds => (P ~> Q)
    BY <1>1, <2>1, <2>2, <2>3, <2>4, <2>5, <2>6, <2>7, PTL
       DEF FairSpec, Fairness, Spec, ProcessingEnds
  <2> QED
    BY <2>8, Zenon DEF P, Q, M, ClockArrives
<1>3. \A id \in 0..(MaxTimeouts - 1) : id \in Nat
  BY TimeoutsAssumption
<1> QED
  BY <1>2, <1>3, Zenon DEF TimeoutIsExecuted, Waits, Gone
-------------------------------------------------------------------------------
(* The pass is at S, and m timeouts have been scheduled so far.            *)
PassAt(S, m) == Processing /\ DueNow = S /\ nextId = m

(* A pass ends (ProcessingEnds) but for counting its timeouts: it executes *)
(* or drops them one by one, and only a timeout that is scheduled          *)
(* meanwhile, of which there are not more than MaxTimeouts, can add one.   *)
THEOREM PassGoesOn ==
  FairSpec /\ []LoopCanStep =>
    \A S \in SUBSET Timeout, m \in Nat :
      PassAt(S, m) ~> \/ ~Processing
                      \/ Processing /\ nextId > m
                      \/ Processing /\ DueNow \subseteq S /\ DueNow # S
<1>1. FairSpec => []Inv
  BY Invariance, PTL DEF FairSpec
<1>2. ASSUME NEW S \in SUBSET Timeout, NEW m \in Nat
      PROVE  FairSpec /\ []LoopCanStep =>
               (PassAt(S, m) ~> \/ ~Processing
                                \/ Processing /\ nextId > m
                                \/ Processing /\ DueNow \subseteq S /\ DueNow # S)
  <2> DEFINE Q == \/ ~Processing
                  \/ Processing /\ nextId > m
                  \/ Processing /\ DueNow \subseteq S /\ DueNow # S
             C == PassAt(S, m) /\ phase = "callback"
             W == PassAt(S, m) /\ phase = "process" /\ ~nothingDue
             N == PassAt(S, m) /\ nothingDue
             P == PassAt(S, m)
  <2>1. Inv /\ C /\ [Next]_vars => C' \/ W' \/ N' \/ Q'
    <3> SUFFICES ASSUME Inv, C, [Next]_vars PROVE C' \/ W' \/ N' \/ Q'
      BY Zenon
    <3>0. nextId' = nextId + 1 \/ UNCHANGED <<nextId, heap, snapshot>>
      <4>1. ASSUME NEW at, scheduleTimeoutAt(at)
            PROVE  nextId' = nextId + 1
        BY <4>1, Zenon DEF scheduleTimeoutAt
      <4>2. CASE \/ tick \/ UNCHANGED vars
                \/ \E id \in 0..MaxTimeouts : cancelTimeout(id)
        BY <4>2, Zenon DEF tick, cancelTimeout, vars, passVars
      <4>3. CASE run \/ nextPass \/ leaveLoop
        BY <4>3, Zenon DEF run, nextPass, leaveLoop, nothingDue
      <4>4. CASE Pass
        BY <4>4, Zenon DEF Pass, pollReturns, beginTimeouts, callbackReturns,
             skipCancelled, fire
      <4> QED
        BY <4>1, <4>2, <4>3, <4>4, Zenon DEF Next, userScheduleAt, scheduleTimeout
    <3>1. nextId = m /\ m + 1 > m /\ m + 1 # m
      BY DEF PassAt
    <3>2. ASSUME nextId' = m, Processing' PROVE DueNow' = DueNow
      BY <3>0, <3>1, <3>2, Zenon DEF DueNow
    <3>3. ASSUME nextId' = m, Processing' PROVE C' \/ W' \/ N'
      BY <3>2, <3>3, Zenon DEF PassAt, Processing
    <3> QED
      BY <3>0, <3>1, <3>3, Zenon
  <2>2. Inv /\ W /\ [Next]_vars => W' \/ Q'
    <3> SUFFICES ASSUME Inv, W, [Next]_vars PROVE W' \/ Q'
      BY Zenon
    <3>1. ASSUME NEW e \in heap, skipCancelled(e) \/ fire(e)
          PROVE  Q'
      BY <3>1, Zenon DEF PassAt, Processing, DueNow, skipCancelled, fire, passVars
    <3>2. CASE ~\E e \in heap : skipCancelled(e) \/ fire(e)
      <4>1. UNCHANGED <<heap, nextId, phase, snapshot>>
        BY <3>2, Zenon DEF Next, tick, userScheduleAt, scheduleTimeout, scheduleTimeoutAt,
             callerRuns, cancelTimeout, run, nextPass, leaveLoop, Pass, pollReturns,
             beginTimeouts, callbackReturns, vars, passVars
      <4> QED
        BY <4>1, Zenon DEF PassAt, Processing, DueNow, nothingDue
    <3> QED
      BY <3>1, <3>2, Zenon
  <2>3. Inv /\ W /\ Pass => Q'
    BY Zenon
    DEF PassAt, Processing, DueNow, Pass, pollReturns, beginTimeouts, callbackReturns,
         skipCancelled, fire, passVars
  <2>4. N /\ [Next]_vars => N' \/ Q'
    BY Zenon DEF PassAt, Processing, DueNow, nothingDue, Next, tick, userScheduleAt,
         scheduleTimeout, scheduleTimeoutAt, callerRuns, cancelTimeout, run, nextPass,
         enterPoll, leaveLoop, Pass, pollReturns, beginTimeouts, callbackReturns,
         skipCancelled, fire, vars, passVars
  <2>5. N /\ nextPass => Q'
    BY Zenon DEF nextPass, enterPoll, Processing
  <2>6. Inv /\ C /\ Pass => W' \/ N' \/ Q'
    BY Zenon DEF PassAt, Processing, DueNow, nothingDue, Pass, pollReturns, beginTimeouts,
         callbackReturns, skipCancelled, fire
  <2>7. P => C \/ W \/ N
    BY Zenon DEF PassAt, Processing
  <2>8. LoopCanStep /\ (C \/ W) => ENABLED <<Pass>>_vars
    BY Zenon DEF LoopCanStep, nothingDue
  <2>9. LoopCanStep /\ N => ENABLED <<nextPass>>_vars
    BY Zenon DEF LoopCanStep
  <2> HIDE DEF P, Q, C, W, N
  <2>10. FairSpec /\ []LoopCanStep => (P ~> Q)
    BY <1>1, <2>1, <2>2, <2>3, <2>4, <2>5, <2>6, <2>7, <2>8, <2>9, PTL
       DEF FairSpec, Fairness, Spec
  <2> QED
    BY <2>10, Zenon DEF P, Q
<1> QED
  BY <1>2, Zenon
===============================================================================
