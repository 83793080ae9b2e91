------------------------------ MODULE TimerProofs ------------------------------
(***************************************************************************)
(* Proofs about ZmqTimeout, for any number of objects on one executor, any *)
(* periods and any bounds; then about ZmqThrottle, for any throttles among *)
(* them and any rates.  A throttle is shown to be a use of ZmqTimeout, so  *)
(* the theorems about ZmqTimeout hold for it as well.                      *)
(***************************************************************************)
EXTENDS ZmqThrottle, TLAPS

(* Executor tokens identify closures, and only those given out occur.      *)
ExecutorTokens ==
  /\ \A e, f \in pending : e.id = f.id => e = f
  /\ \A e \in pending : e.id < nextId
  /\ phase = "closure" => current < nextId /\ \A e \in pending : e.id # current

(* No closure captured a value its token has not reached.                  *)
TokensReached == \A i \in 0..(nextId - 1) : closure[i].tok <= token[closure[i].timer]

(* The closure of a scheduled object exists ...                            *)
LiveExists ==
  \A t \in Timers : isScheduled(t) =>
    \/ \E e \in pending : Current(e.id, t)
    \/ phase = "closure" /\ Current(current, t)

(* ... only for a scheduled object, once, and asks for the right time.     *)
LiveIsRight ==
  /\ \A e \in pending, t \in Timers : Current(e.id, t) =>
       /\ isScheduled(t) /\ e.at = asked[t] + period[t]
       /\ \A f \in pending : Current(f.id, t) => e = f
       /\ ~(phase = "closure" /\ Current(current, t))
  /\ \A t \in Timers : phase = "closure" /\ Current(current, t) =>
       isScheduled(t) /\ now >= asked[t] + period[t]

(* What was destroyed is not scheduled.                                    *)
DestroyedIsIdle == \A t \in Timers : t \notin alive => ~isScheduled(t)

Inv ==
  /\ TypeOK /\ ExecutorTokens /\ TokensReached
  /\ LiveExists /\ LiveIsRight /\ DestroyedIsIdle

(* The new objects satisfy the invariant.                                  *)
LEMMA InitInv == Init => Inv
<1> SUFFICES ASSUME Init PROVE Inv
  BY Zenon
<1>1. TypeOK
  BY DEF Init, TypeOK, TimerInit, TimerTypeOK, States
<1>2. ExecutorTokens /\ LiveExists /\ LiveIsRight /\ DestroyedIsIdle
  BY Zenon DEF Init, TimerInit, ExecutorTokens, LiveExists, LiveIsRight,
     DestroyedIsIdle, isScheduled
<1>3. TokensReached
  BY DEF Init, TimerInit, TokensReached
<1> QED
  BY <1>1, <1>2, <1>3, Zenon DEF Inv

(* A new closure carries a token no other closure carries.                 *)
LEMMA HelperStep ==
  ASSUME Inv, NEW t \in Timers, NEW tok \in Nat, tok >= token[t],
         phase' # "closure", phase = "closure" => Current(current, t),
         UNCHANGED <<alive, current>>, phase' \in {"idle", "callback"},
         NEW s \in {"SCHEDULED", "PERIODIC"}, state' = [state EXCEPT ![t] = s],
         NEW p \in Nat, period' = [period EXCEPT ![t] = p], t \in alive,
         scheduleTimeoutHelper(t, tok)
  PROVE  Inv'
<1> USE DEF Inv, scheduleTimeoutHelper, Schedule
<1> DEFINE new == [id |-> nextId, at |-> now + p]
<1>0. period'[t] = p
  BY Zenon DEF TypeOK
<1>1. TypeOK'
  <2> USE DEF TypeOK, TimerTypeOK
  <2>1. TimerTypeOK'
    BY <1>0, SMTT(30) DEF Timeout
  <2>2. state' \in [Timers -> States] /\ token' \in [Timers -> Nat]
    BY DEF States
  <2>3. period' \in [Timers -> Nat] /\ asked' \in [Timers -> Nat]
    BY Zenon DEF States
  <2>4. closure' \in [0..(nextId' - 1) -> Closure]
    <3>1. 0..(nextId' - 1) = 0..nextId
      OBVIOUS
    <3>2. \A i \in 0..nextId : i # nextId => i \in 0..(nextId - 1)
      OBVIOUS
    <3>3. closure' = [i \in 0..nextId |->
                        IF i = nextId THEN [timer |-> t, tok |-> tok + 1] ELSE closure[i]]
      BY Zenon
    <3>4. [timer |-> t, tok |-> tok + 1] \in Closure
      BY DEF Closure
    <3>5. \A i \in 0..(nextId - 1) : closure[i] \in Closure
      BY Zenon
    <3> HIDE DEF Inv, TypeOK, TimerTypeOK, scheduleTimeoutHelper
    <3> QED
      BY <3>1, <3>2, <3>3, <3>4, <3>5, Zenon
  <2> QED
    BY <2>1, <2>2, <2>3, <2>4, Zenon
<1>2. ExecutorTokens'
  <2>1. /\ nextId \in Nat /\ nextId' = nextId + 1 /\ new.id = nextId
        /\ pending' = pending \cup {new}
    BY <1>0, Zenon DEF TypeOK, TimerTypeOK
  <2>2. \A e \in pending : e.id \in Nat /\ e.id < nextId
    BY Zenon DEF ExecutorTokens, TypeOK, TimerTypeOK, Timeout
  <2>3. \A e, f \in pending : e.id = f.id => e = f
    BY Zenon DEF ExecutorTokens
  <2> HIDE DEF new, Inv, scheduleTimeoutHelper
  <2>4. \A e \in pending' : e.id < nextId'
    BY <2>1, <2>2
  <2>5. \A e \in pending : e.id # new.id
    BY <2>1, <2>2
  <2>6. \A e, f \in pending' : e.id = f.id => e = f
    BY <2>1, <2>3, <2>5, Zenon
  <2> QED
    BY <2>4, <2>6, Zenon DEF ExecutorTokens
<1>3. nextId \in Nat /\ token[t] \in Nat /\ \A i \in 0..(nextId - 1) :
        i # nextId /\ i \in 0..nextId /\ closure[i] \in Closure
  BY DEF TypeOK, TimerTypeOK
<1>4. TokensReached'
  <2>0. nextId' - 1 = nextId
    BY <1>3
  <2> SUFFICES ASSUME NEW i \in 0..nextId
               PROVE  closure'[i].tok <= token'[closure'[i].timer]
    BY <2>0, Zenon DEF TokensReached
  <2>1. CASE i = nextId
    BY <1>3, <2>1 DEF TypeOK
  <2>2. CASE i # nextId
    <3>1. i \in 0..(nextId - 1) /\ closure'[i] = closure[i]
      BY <1>3, <2>2
    <3>2. closure[i].timer \in Timers /\ closure[i].tok \in Nat
      BY <1>3, <3>1, Zenon DEF Closure
    <3>3. closure[i].tok <= token[closure[i].timer]
      BY <3>1, Zenon DEF TokensReached
    <3> QED
      BY <1>3, <3>1, <3>2, <3>3 DEF TypeOK
  <2> QED
    BY <2>1, <2>2, Zenon
<1>5. \A i \in 0..(nextId - 1), u \in Timers :
        Current(i, u)' <=> Current(i, u) /\ u # t
  BY <1>3 DEF Current, TokensReached, TypeOK, Closure
<1>6. \A n \in Nat, u \in Timers : n = nextId => (Current(n, u)' <=> u = t)
  BY <1>3 DEF Current, TypeOK
<1>7. \A e \in pending : e.id \in 0..(nextId - 1) /\ e.id # nextId
  BY DEF ExecutorTokens, TypeOK, TimerTypeOK, Timeout
<1>8. /\ pending' = pending \cup {new} /\ new.id = nextId
      /\ new.at = now + p /\ nextId \in Nat
  BY <1>0, <1>3, Zenon
<1>9. \A u \in Timers : u # t =>
        /\ isScheduled(u)' <=> isScheduled(u)
        /\ asked'[u] = asked[u] /\ period'[u] = period[u]
  BY Zenon DEF isScheduled, TypeOK
<1>10. /\ isScheduled(t)' /\ asked'[t] = now /\ period'[t] = p /\ t \in alive'
       /\ phase' # "closure" /\ alive' = alive
  BY Zenon DEF isScheduled, TypeOK
<1> HIDE DEF new, Inv, scheduleTimeoutHelper, Schedule
<1>11. LiveExists'
  <2> SUFFICES ASSUME NEW u \in Timers, isScheduled(u)'
               PROVE  \E e \in pending' : Current(e.id, u)'
    BY Zenon DEF LiveExists
  <2>1. CASE u = t
    BY <2>1, <1>6, <1>8, Zenon
  <2>2. CASE u # t
    <3>1. ~(phase = "closure" /\ Current(current, u))
      BY <2>2, Zenon DEF Current
    <3>2. \E e \in pending : Current(e.id, u)
      BY <2>2, <3>1, <1>9, Zenon DEF LiveExists, Inv
    <3> QED
      BY <2>2, <3>2, <1>5, <1>7, <1>8, Zenon
  <2> QED
    BY <2>1, <2>2, Zenon
<1>12. LiveIsRight'
  <2>1. ASSUME NEW e \in pending', NEW u \in Timers, Current(e.id, u)'
        PROVE  /\ isScheduled(u)' /\ e.at = asked'[u] + period'[u]
               /\ \A f \in pending' : Current(f.id, u)' => e = f
    <3>1. CASE u = t
      BY <2>1, <3>1, <1>5, <1>7, <1>8, <1>10, Zenon
    <3>2. CASE u # t
      <4>1. e \in pending /\ Current(e.id, u)
        BY <2>1, <3>2, <1>5, <1>6, <1>7, <1>8, Zenon
      <4>2. /\ isScheduled(u) /\ e.at = asked[u] + period[u]
            /\ \A f \in pending : Current(f.id, u) => e = f
        BY <4>1, Zenon DEF LiveIsRight, Inv
      <4> QED
        BY <4>2, <3>2, <1>5, <1>6, <1>7, <1>8, <1>9, Zenon
    <3> QED
      BY <3>1, <3>2, Zenon
  <2> QED
    BY <2>1, <1>10, Zenon DEF LiveIsRight
<1>13. DestroyedIsIdle'
  BY <1>9, <1>10, Zenon DEF DestroyedIsIdle, Inv
<1> QED
  BY <1>1, <1>2, <1>4, <1>11, <1>12, <1>13, Zenon DEF Inv

(* An object leaves the scheduled states with its token raised, or with    *)
(* its closure gone.                                                       *)
LEMMA UnscheduleStep ==
  ASSUME Inv, NEW t \in Timers, NEW tok \in Nat,
         state' = [state EXCEPT ![t] = "NONE"],
         token' = [token EXCEPT ![t] = tok], tok >= token[t],
         \/ tok > token[t]
         \/ ~\E e \in pending : Current(e.id, t),
         phase' = "closure" => phase = "closure" /\ ~Current(current, t),
         phase' # "closure" /\ phase = "closure" => Current(current, t),
         phase' \in {"idle", "closure", "callback"},
         alive' \in SUBSET alive, alive \ {t} \subseteq alive',
         UNCHANGED <<timerVars, period, closure, asked, current>>
  PROVE  Inv'
<1> USE DEF timerVars
<1>1. TypeOK' /\ ExecutorTokens'
  BY Zenon DEF Inv, TypeOK, TimerTypeOK, States, ExecutorTokens
<1>2. /\ nextId \in Nat /\ token[t] \in Nat
      /\ \A i \in 0..(nextId - 1) : closure[i] \in Closure
  BY Zenon DEF Inv, TypeOK, TimerTypeOK
<1>3. TokensReached'
  BY <1>2 DEF Inv, TokensReached, TypeOK, Closure
<1>4. \A i \in 0..(nextId - 1), u \in Timers :
        Current(i, u)' <=> Current(i, u) /\ (u # t \/ tok = token[t])
  <2> SUFFICES ASSUME NEW i \in 0..(nextId - 1), NEW u \in Timers
               PROVE  Current(i, u)' <=> Current(i, u) /\ (u # t \/ tok = token[t])
    BY Zenon
  <2>1. /\ closure[i].timer \in Timers /\ closure[i].tok \in Nat
        /\ closure[i].tok <= token[closure[i].timer] /\ closure' = closure
        /\ token'[t] = tok /\ (u # t => token'[u] = token[u])
    BY <1>2, Zenon DEF Inv, TokensReached, TypeOK, Closure
  <2>2. CASE u # t
    BY <2>1, <2>2, Zenon DEF Current
  <2>3. CASE u = t
    <3>1. closure[i].timer = t /\ closure[i].tok = tok => tok = token[t]
      BY <1>2, <2>1
    <3> QED
      BY <2>1, <2>3, <3>1, Zenon DEF Current
  <2> QED
    BY <2>2, <2>3, Zenon
<1>5. \A e \in pending : e.id \in 0..(nextId - 1)
  BY DEF Inv, ExecutorTokens, TypeOK, TimerTypeOK, Timeout
<1>6. phase = "closure" => current \in 0..(nextId - 1)
  BY DEF Inv, ExecutorTokens, TypeOK, TimerTypeOK
<1>7. ~isScheduled(t)' /\ \A u \in Timers : u # t =>
        (isScheduled(u)' <=> isScheduled(u))
  BY Zenon DEF Inv, isScheduled, TypeOK
<1>8. \A e \in pending, u \in Timers : Current(e.id, u)' <=> Current(e.id, u) /\ u # t
  BY <1>2, <1>4, <1>5
<1>9. phase' = "closure" => \A u \in Timers :
        Current(current, u)' <=> Current(current, u) /\ u # t
  BY <1>4, <1>6, Zenon
<1>10. LiveExists'
  <2> SUFFICES ASSUME NEW u \in Timers, u # t, isScheduled(u)
               PROVE  \/ \E e \in pending : Current(e.id, u)'
                      \/ phase' = "closure" /\ Current(current, u)'
    BY <1>7, Zenon DEF LiveExists
  <2>1. phase' # "closure" => ~(phase = "closure" /\ Current(current, u))
    BY Zenon DEF Current
  <2> QED
    BY <2>1, <1>8, <1>9, Zenon DEF Inv, LiveExists
<1>11. LiveIsRight'
  BY <1>7, <1>8, <1>9, Zenon DEF Inv, LiveIsRight
<1>12. DestroyedIsIdle'
  BY <1>7, Zenon DEF Inv, DestroyedIsIdle
<1> QED
  BY <1>1, <1>3, <1>10, <1>11, <1>12, Zenon DEF Inv

(* Every step keeps the invariant.                                         *)
LEMMA InvStep == Inv /\ [Next]_timeoutVars => Inv'
<1> SUFFICES ASSUME Inv, [Next]_timeoutVars PROVE Inv'
  BY Zenon
<1>0. /\ TypeOK /\ \A t \in Timers : token[t] \in Nat
      /\ \A t \in Timers : cancelledToken(t) \in Nat /\ token[t] >= token[t]
      /\ \A t \in Timers : cancelledToken(t) >= token[t]
      /\ \A t \in Timers : isScheduled(t) => cancelledToken(t) > token[t]
  BY DEF Inv, TypeOK, cancelledToken
<1>1. ASSUME NEW t \in Timers, NEW p \in Periods, NEW b \in BOOLEAN,
             scheduleTimeout(t, p, b)
      PROVE  Inv'
  <2>1. PICK s \in {"SCHEDULED", "PERIODIC"} : state' = [state EXCEPT ![t] = s]
    BY <1>1, Zenon DEF scheduleTimeout
  <2>2. p \in Nat
    BY PeriodsAssumption, Zenon
  <2>3. /\ period' = [period EXCEPT ![t] = p] /\ t \in alive
        /\ phase \in {"idle", "callback"} /\ UNCHANGED <<alive, phase, current>>
        /\ scheduleTimeoutHelper(t, cancelledToken(t))
    BY <1>1, Zenon DEF scheduleTimeout, mayCall, Inv, TypeOK
  <2> QED
    BY <1>0, <2>1, <2>2, <2>3, HelperStep, Zenon
<1>2. ASSUME NEW t \in Timers, cancelTimeout(t)
      PROVE  Inv'
  <2>1. /\ token[t] + 1 \in Nat /\ token[t] + 1 > token[t]
        /\ token[t] + 1 >= token[t]
    BY <1>0
  <2>2. /\ state' = [state EXCEPT ![t] = "NONE"]
        /\ token' = [token EXCEPT ![t] = token[t] + 1]
        /\ phase # "closure" /\ phase \in {"idle", "closure", "callback"}
        /\ alive' \in SUBSET alive /\ alive \ {t} \subseteq alive'
        /\ UNCHANGED <<timerVars, period, closure, asked, current, phase>>
    BY <1>2, Zenon DEF cancelTimeout, mayCall, Inv, TypeOK
  <2> QED
    BY <2>1, <2>2, UnscheduleStep, Zenon
<1>3. ASSUME NEW t \in Timers, destroy(t)
      PROVE  Inv'
  <2>1. ~isScheduled(t) => ~\E e \in pending : Current(e.id, t)
    BY Zenon DEF Inv, LiveIsRight
  <2>2. /\ state' = [state EXCEPT ![t] = "NONE"]
        /\ token' = [token EXCEPT ![t] = cancelledToken(t)]
        /\ phase # "closure" /\ phase \in {"idle", "closure", "callback"}
        /\ alive' \in SUBSET alive /\ alive \ {t} \subseteq alive'
        /\ UNCHANGED <<timerVars, period, closure, asked, current, phase>>
    BY <1>3, Zenon DEF destroy, mayCall, Inv, TypeOK
  <2> QED
    BY <1>0, <2>1, <2>2, UnscheduleStep, Zenon
<1>4. ASSUME NEW e \in pending, runClosure(e)
      PROVE  Inv'
  <2> USE <1>4 DEF runClosure, Fire, objectVars
  <2>1. TypeOK'
    BY Zenon DEF Inv, TypeOK, TimerTypeOK, Timeout
  <2>2. ExecutorTokens'
    BY Zenon DEF Inv, ExecutorTokens
  <2>3. TokensReached' /\ DestroyedIsIdle'
    BY Zenon DEF Inv, TokensReached, DestroyedIsIdle, isScheduled
  <2>4. \A i \in Nat, u \in Timers : Current(i, u)' <=> Current(i, u)
    BY Zenon DEF Current
  <2>5. \A f \in pending : f.id \in Nat /\ f.at \in Nat
    BY Zenon DEF Inv, TypeOK, TimerTypeOK, Timeout
  <2>6. \A u \in Timers : isScheduled(u)' <=> isScheduled(u)
    BY Zenon DEF isScheduled
  <2>7. /\ pending' = pending \ {e} /\ current' = e.id /\ phase = "idle"
        /\ phase' = "closure" /\ e.at <= now /\ e.id \in Nat
        /\ UNCHANGED <<now, asked, period>>
    BY <2>5, Zenon
  <2>8. \A u \in Timers : Current(current, u)' <=> Current(e.id, u)
    BY <2>7, Zenon DEF Current
  <2>9. LiveExists'
    BY <2>4, <2>5, <2>6, <2>7, <2>8, Zenon DEF Inv, LiveExists
  <2>10. LiveIsRight'
    BY <2>4, <2>5, <2>6, <2>7, <2>8 DEF Inv, LiveIsRight
  <2> QED
    BY <2>1, <2>2, <2>3, <2>9, <2>10, Zenon DEF Inv
<1>5. ASSUME NEW t \in Timers, timeoutExpiredHelper(t)
      PROVE  Inv'
  <2>1. Current(current, t) /\ phase = "closure" /\ phase' = "callback"
    BY <1>5, Zenon DEF timeoutExpiredHelper, tokenMatches, Current
  <2>2. isScheduled(t) /\ t \in alive /\ ~\E e \in pending : Current(e.id, t)
    BY <2>1, Zenon DEF Inv, LiveIsRight, DestroyedIsIdle
  <2>3. CASE state[t] = "PERIODIC"
    <3>1. /\ state' = [state EXCEPT ![t] = "PERIODIC"]
          /\ period' = [period EXCEPT ![t] = period[t]] /\ period[t] \in Nat
          /\ UNCHANGED <<alive, current>> /\ scheduleTimeoutHelper(t, token[t])
      BY <1>5, <2>3, Zenon DEF timeoutExpiredHelper, Inv, TypeOK
    <3> QED
      BY <1>0, <2>1, <2>2, <3>1, HelperStep, Zenon
  <2>4. CASE state[t] # "PERIODIC"
    <3>1. /\ state' = [state EXCEPT ![t] = "NONE"]
          /\ token' = [token EXCEPT ![t] = token[t]]
          /\ alive' \in SUBSET alive /\ alive \ {t} \subseteq alive'
          /\ UNCHANGED <<timerVars, period, closure, asked, current>>
      BY <1>5, <2>4, Zenon DEF timeoutExpiredHelper, Inv, TypeOK
    <3> QED
      BY <1>0, <2>1, <2>2, <3>1, UnscheduleStep, Zenon
  <2> QED
    BY <2>3, <2>4, Zenon
<1>6. CASE clockTick \/ UNCHANGED timeoutVars
  <2>0. /\ now \in Nat /\ now' \in Nat /\ now' >= now
        /\ UNCHANGED <<nextId, pending, fired, cancelled, objectVars>>
        /\ UNCHANGED <<phase, current>>
    <3>1. now \in Nat
      BY Zenon DEF Inv, TypeOK, TimerTypeOK
    <3>2. CASE clockTick
      BY <3>1, <3>2 DEF clockTick, ClockTick
    <3>3. CASE UNCHANGED timeoutVars
      BY <3>1, <3>3 DEF timeoutVars, timerVars
    <3> QED
      BY <1>6, <3>2, <3>3, Zenon
  <2> USE <2>0 DEF objectVars
  <2>1. TypeOK'
    BY Zenon DEF Inv, TypeOK, TimerTypeOK
  <2>2. ExecutorTokens' /\ TokensReached' /\ DestroyedIsIdle'
    BY Zenon DEF Inv, ExecutorTokens, TokensReached, DestroyedIsIdle, isScheduled
  <2>3. LiveExists'
    BY Zenon DEF Inv, LiveExists, Current, isScheduled
  <2>4. \A u \in Timers : asked[u] \in Nat /\ period[u] \in Nat
    BY Zenon DEF Inv, TypeOK
  <2>5. LiveIsRight'
    BY <2>4 DEF Inv, LiveIsRight, Current, isScheduled
  <2> QED
    BY <2>1, <2>2, <2>3, <2>5, Zenon DEF Inv
<1>7. CASE dropStale \/ expiredReturns
  <2>0. /\ UNCHANGED <<timerVars, objectVars>>
        /\ phase' = "idle" /\ current' = 0
    BY <1>7, Zenon DEF dropStale, expiredReturns
  <2>1. TypeOK'
    BY <2>0, Zenon DEF timerVars, objectVars, Inv, TypeOK, TimerTypeOK
  <2> USE <1>7 DEF dropStale, expiredReturns, timerVars, objectVars
  <2>a. ExecutorTokens' /\ TokensReached' /\ DestroyedIsIdle'
    BY Zenon DEF Inv, ExecutorTokens, TokensReached, DestroyedIsIdle, isScheduled
  <2>2. \A u \in Timers : ~(phase = "closure" /\ Current(current, u))
    BY Zenon DEF tokenMatches, Current
  <2>3. LiveExists'
    BY <2>2 DEF Inv, LiveExists, Current, isScheduled
  <2>4. LiveIsRight'
    BY DEF Inv, LiveIsRight, Current, isScheduled
  <2> QED
    BY <2>1, <2>a, <2>3, <2>4, Zenon DEF Inv
<1> QED
  BY <1>1, <1>2, <1>3, <1>4, <1>5, <1>6, <1>7, Zenon DEF Next, Executor
-------------------------------------------------------------------------------
(* The inductive invariant holds in every behaviour.                       *)
LEMMA Invariance == Spec => []Inv
  BY InitInv, InvStep, PTL DEF Spec

(* No call and no closure leaves the types.                                *)
THEOREM TypeCorrect == Spec => []TypeOK
  BY Invariance, PTL DEF Inv

(* isScheduled() is true exactly when one closure that will be accepted    *)
(* waits in the executor, for every number of stale ones.                  *)
THEOREM ScheduledExactly == Spec => []ScheduledIffLive
<1>1. Inv => ScheduledIffLive
  <2> SUFFICES ASSUME Inv, NEW t \in Timers
               PROVE  /\ \A e, f \in Live(t) : e = f
                      /\ Deciding(t) => Live(t) = {}
                      /\ isScheduled(t) <=> (Live(t) # {} \/ Deciding(t))
    BY Zenon DEF ScheduledIffLive
  <2>1. /\ Live(t) = {e \in pending : Current(e.id, t)}
        /\ Deciding(t) <=> phase = "closure" /\ Current(current, t)
    BY Zenon DEF Live, Deciding
  <2> QED
    BY <2>1, Zenon DEF Inv, LiveExists, LiveIsRight
<1> QED
  BY <1>1, Invariance, PTL

(* A closure that goes on to use `this` finds the object alive.            *)
THEOREM ClosuresAreSafe == Spec => []NoUseAfterDestroy
<1>1. Inv => NoUseAfterDestroy
  <2> SUFFICES ASSUME Inv, phase = "closure", tokenMatches
               PROVE  closure[current].timer \in alive
    BY Zenon DEF NoUseAfterDestroy
  <2>1. current \in 0..(nextId - 1)
    BY DEF Inv, ExecutorTokens, TypeOK, TimerTypeOK
  <2>2. /\ closure[current].timer \in Timers
        /\ Current(current, closure[current].timer)
    BY <2>1, Zenon DEF Inv, TypeOK, Closure, Current, tokenMatches
  <2> QED
    BY <2>2, Zenon DEF Inv, LiveIsRight, DestroyedIsIdle
<1> QED
  BY <1>1, Invariance, PTL

(* timeoutExpired() runs for a scheduled, living object, not too early.    *)
THEOREM ExpiriesAreCurrent == Spec => ExpiryIsCurrent
<1>1. Inv => \A t \in Timers : ExpiresAsAsked(t)
  BY Zenon DEF Inv, LiveIsRight, DestroyedIsIdle, ExpiresAsAsked,
     timeoutExpiredHelper, tokenMatches, Current
<1>2. Inv /\ [Next]_timeoutVars => [\A t \in Timers : ExpiresAsAsked(t)]_timeoutVars
  BY <1>1, Zenon
<1> QED
  BY <1>2, Invariance, PTL DEF Spec, ExpiryIsCurrent
-------------------------------------------------------------------------------
(* A throttle that waits does so for timeout_, once, and the last          *)
(* execution is at least timeout_ before the one it waits for.             *)
WaitsForRate ==
  \A t \in Throttles :
    /\ state[t] # "PERIODIC"
    /\ earliest[t] <= now + rate[t]
    /\ isScheduled(t) => period[t] = rate[t] /\ earliest[t] <= asked[t] + rate[t]

ThrottleInv ==
  /\ Inv /\ ThrottleTypeOK /\ CallIsServed /\ WaitsForRate

(* Every step of the throttles and of the other objects is a step of       *)
(* ZmqTimeout, or leaves its variables alone.                              *)
LEMMA ThrottleStepIsTimeoutStep ==
  ThrottleTypeOK /\ [ThrottleNext]_throttleVars => [Next]_timeoutVars
<1> SUFFICES ASSUME ThrottleTypeOK, [ThrottleNext]_throttleVars
             PROVE  [Next]_timeoutVars
  BY Zenon
<1>1. ASSUME NEW t \in Throttles, callFirst(t) PROVE Next
  <2>1. rate[t] \in Rates /\ rate[t] # 0
    BY <1>1 DEF callFirst, ThrottleTypeOK
  <2>2. t \in Timers /\ rate[t] \in Periods
    BY <2>1, RatesAssumption, Zenon
  <2> QED
    BY <1>1, <2>2, Zenon DEF callFirst, Next
<1>2. ASSUME NEW t \in Throttles,
             cancel(t) \/ destroyThrottle(t) \/ timeoutExpired(t)
      PROVE  Next
  <2>1. t \in Timers
    BY RatesAssumption, Zenon
  <2> QED
    BY <1>2, <2>1, Zenon DEF cancel, destroyThrottle, timeoutExpired, Next, Executor
<1>3. ASSUME NEW t \in Throttles, callWaiting(t) \/ callImmediate(t)
      PROVE  UNCHANGED timeoutVars
  BY <1>3, Zenon DEF callWaiting, callImmediate
<1>4. CASE OtherCalls \/ ThrottleClock \/ OtherExecutor
  BY <1>4, Zenon DEF OtherCalls, ThrottleClock, OtherExecutor, Next, Executor
<1>5. CASE UNCHANGED throttleVars
  BY <1>5, Zenon DEF throttleVars
<1> QED
  BY <1>1, <1>2, <1>3, <1>4, <1>5, Zenon DEF ThrottleNext, ThrottleExecutor

(* The new throttles satisfy the invariant.                                *)
LEMMA ThrottleInitInv == ThrottleInit => ThrottleInv
<1> SUFFICES ASSUME ThrottleInit PROVE ThrottleInv
  BY Zenon
<1>1. Inv
  BY InitInv, Zenon DEF ThrottleInit
<1>2. \A t \in Throttles : t \in Timers /\ rate[t] \in Nat
  BY RatesAssumption, Zenon DEF ThrottleInit
<1>3. ThrottleTypeOK
  BY <1>1, Zenon DEF Inv, ThrottleInit, ThrottleTypeOK
<1>4. CallIsServed /\ WaitsForRate
  BY <1>2 DEF ThrottleInit, Init, TimerInit, CallIsServed, WaitsForRate, isScheduled
<1> QED
  BY <1>1, <1>3, <1>4, Zenon DEF ThrottleInv

(* A throttle that is left alone keeps what is said of it.                 *)
Untouched(t) ==
  /\ state'[t] = state[t] /\ period'[t] = period[t] /\ asked'[t] = asked[t]
  /\ earliest'[t] = earliest[t] /\ rate'[t] = rate[t]
  /\ t \in unserved' <=> t \in unserved

(* What a step has to show for the throttle it concerns.                   *)
ServedAndSpaced(t) ==
  /\ t \in unserved <=> isScheduled(t)
  /\ state[t] # "PERIODIC"
  /\ earliest[t] <= now + rate[t]
  /\ isScheduled(t) => period[t] = rate[t] /\ earliest[t] <= asked[t] + rate[t]

(* The invariant is kept throttle by throttle.                             *)
LEMMA EachThrottleStep ==
  ASSUME ThrottleInv, Inv', ThrottleTypeOK', now' >= now,
         \A u \in Throttles : Untouched(u) \/ ServedAndSpaced(u)'
  PROVE  ThrottleInv'
<1>1. \A u \in Throttles : u \in Timers /\ rate[u] \in Nat /\ earliest[u] \in Nat
  BY RatesAssumption, Zenon DEF ThrottleInv, ThrottleTypeOK
<1>2. now \in Nat /\ now' \in Nat
  BY Zenon DEF ThrottleInv, Inv, TypeOK, TimerTypeOK
<1>3. ASSUME NEW u \in Throttles PROVE ServedAndSpaced(u)'
  <2>1. CASE ServedAndSpaced(u)'
    BY <2>1, Zenon
  <2>2. CASE Untouched(u)
    <3>1. Untouched(u)
      BY <2>2, Zenon
    <3>2. ServedAndSpaced(u)
      BY Zenon DEF ThrottleInv, CallIsServed, WaitsForRate, ServedAndSpaced
    <3>3. (u \in unserved' <=> isScheduled(u)') /\ state'[u] # "PERIODIC"
      BY <3>1, <3>2, Zenon DEF Untouched, ServedAndSpaced, isScheduled
    <3>4. earliest'[u] <= now' + rate'[u]
      BY <1>1, <1>2, <3>1, <3>2 DEF Untouched, ServedAndSpaced
    <3>5. isScheduled(u)' =>
            period'[u] = rate'[u] /\ earliest'[u] <= asked'[u] + rate'[u]
      BY <3>1, <3>2, Zenon DEF Untouched, ServedAndSpaced, isScheduled
    <3> QED
      BY <3>3, <3>4, <3>5, Zenon DEF ServedAndSpaced
  <2> QED
    BY <2>1, <2>2, Zenon
<1> QED
  BY <1>3, Zenon DEF ThrottleInv, CallIsServed, WaitsForRate, ServedAndSpaced

(* Every step keeps the invariant.                                         *)
LEMMA ThrottleInvStep == ThrottleInv /\ [ThrottleNext]_throttleVars => ThrottleInv'
<1> SUFFICES ASSUME ThrottleInv, [ThrottleNext]_throttleVars PROVE ThrottleInv'
  BY Zenon
<1>1. Inv'
  BY ThrottleStepIsTimeoutStep, InvStep, Zenon DEF ThrottleInv
<1>2. /\ rate \in [Throttles -> Rates] /\ unserved \in SUBSET Throttles
      /\ earliest \in [Throttles -> Nat] /\ now \in Nat
      /\ state \in [Timers -> States] /\ period \in [Timers -> Nat]
      /\ asked \in [Timers -> Nat] /\ Throttles \subseteq Timers
      /\ \A t \in Throttles : rate[t] \in Nat
  BY RatesAssumption, Zenon DEF ThrottleInv, ThrottleTypeOK, Inv, TypeOK, TimerTypeOK
<1>3. \A t \in Throttles : ServedAndSpaced(t)
  BY Zenon DEF ThrottleInv, CallIsServed, WaitsForRate, ServedAndSpaced
<1>4. ASSUME NEW t \in Throttles, callWaiting(t) PROVE ThrottleInv'
  <2>1. /\ UNCHANGED <<timeoutVars, rate, earliest>> /\ isScheduled(t)
        /\ unserved' = unserved \cup {t}
    BY <1>4, Zenon DEF callWaiting
  <2>2. UNCHANGED unserved
    BY <1>3, <2>1, Zenon DEF ServedAndSpaced
  <2>3. \A u \in Throttles : Untouched(u)
    BY <2>1, <2>2, Zenon DEF Untouched, timeoutVars, objectVars
  <2>4. ThrottleTypeOK' /\ now' >= now
    BY <1>1, <1>2, <2>1, <2>2 DEF Inv, ThrottleTypeOK, timeoutVars, timerVars
  <2> QED
    BY <1>1, <2>3, <2>4, EachThrottleStep, Zenon
<1>5. ASSUME NEW t \in Throttles, callImmediate(t) PROVE ThrottleInv'
  <2>1. /\ UNCHANGED <<timeoutVars, rate>> /\ ~isScheduled(t)
        /\ unserved' = unserved \ {t}
        /\ earliest' = [earliest EXCEPT ![t] = now + rate[t]]
    BY <1>5, Zenon DEF callImmediate, callback
  <2>2. \A u \in Throttles : u # t => Untouched(u)
    BY <1>2, <2>1, Zenon DEF Untouched, timeoutVars, objectVars
  <2>3. ServedAndSpaced(t)'
    BY <1>2, <1>3, <2>1 DEF ServedAndSpaced, isScheduled, timeoutVars, timerVars, objectVars
  <2>4. ThrottleTypeOK' /\ now' >= now
    BY <1>1, <1>2, <2>1 DEF Inv, ThrottleTypeOK, timeoutVars, timerVars
  <2> QED
    BY <1>1, <2>2, <2>3, <2>4, EachThrottleStep, Zenon
<1>6. ASSUME NEW t \in Throttles, callFirst(t) PROVE ThrottleInv'
  <2>1. /\ state' = [state EXCEPT ![t] = "SCHEDULED"]
        /\ period' = [period EXCEPT ![t] = rate[t]]
        /\ asked' = [asked EXCEPT ![t] = now] /\ unserved' = unserved \cup {t}
        /\ UNCHANGED <<rate, earliest, now>>
    BY <1>6, Zenon DEF callFirst, scheduleTimeout, scheduleTimeoutHelper, Schedule
  <2>2. \A u \in Throttles : u # t => Untouched(u)
    BY <1>2, <2>1, Zenon DEF Untouched
  <2>3. ServedAndSpaced(t)'
    BY <1>2, <1>3, <2>1, Zenon DEF ServedAndSpaced, isScheduled
  <2>4. ThrottleTypeOK' /\ now' >= now
    BY <1>1, <1>2, <2>1 DEF Inv, ThrottleTypeOK
  <2> QED
    BY <1>1, <2>2, <2>3, <2>4, EachThrottleStep, Zenon
<1>7. ASSUME NEW t \in Throttles, cancel(t) \/ destroyThrottle(t) PROVE ThrottleInv'
  <2>1. /\ state' = [state EXCEPT ![t] = "NONE"] /\ unserved' = unserved \ {t}
        /\ UNCHANGED <<period, asked, rate, earliest, now>>
    BY <1>7, Zenon DEF cancel, destroyThrottle, cancelTimeout, destroy, timerVars
  <2>2. \A u \in Throttles : u # t => Untouched(u)
    BY <1>2, <2>1, Zenon DEF Untouched
  <2>3. ServedAndSpaced(t)'
    BY <1>2, <1>3, <2>1, Zenon DEF ServedAndSpaced, isScheduled
  <2>4. ThrottleTypeOK' /\ now' >= now
    BY <1>1, <1>2, <2>1, SMTT(30) DEF Inv, ThrottleTypeOK
  <2> QED
    BY <1>1, <2>2, <2>3, <2>4, EachThrottleStep, Zenon
<1>8. ASSUME NEW t \in Throttles, timeoutExpired(t) PROVE ThrottleInv'
  <2>1. /\ state' = [state EXCEPT ![t] = "NONE"] /\ unserved' = unserved \ {t}
        /\ earliest' = [earliest EXCEPT ![t] = now + rate[t]]
        /\ UNCHANGED <<period, asked, rate, now>>
    BY <1>3, <1>8, Zenon DEF timeoutExpired, timeoutExpiredHelper, callback, timerVars,
       ServedAndSpaced
  <2>2. \A u \in Throttles : u # t => Untouched(u)
    BY <1>2, <2>1, Zenon DEF Untouched
  <2>3. ServedAndSpaced(t)'
    BY <1>2, <1>3, <2>1 DEF ServedAndSpaced, isScheduled
  <2>4. ThrottleTypeOK' /\ now' >= now
    BY <1>1, <1>2, <2>1 DEF Inv, ThrottleTypeOK
  <2> QED
    BY <1>1, <2>2, <2>3, <2>4, EachThrottleStep, Zenon
<1>9. CASE OtherCalls \/ ThrottleClock \/ OtherExecutor \/ UNCHANGED throttleVars
  <2>1. UNCHANGED <<rate, unserved, earliest>>
    BY <1>9, Zenon DEF OtherCalls, ThrottleClock, OtherExecutor, throttleVars
  <2>2. now' >= now
    <3>1. CASE ThrottleClock
      BY <1>2, <3>1 DEF ThrottleClock, clockTick, ClockTick
    <3>2. CASE ~ThrottleClock
      <4>1. UNCHANGED now
        BY <1>9, <3>2, Zenon DEF OtherCalls, OtherExecutor, throttleVars, timeoutVars,
           timerVars, scheduleTimeout, scheduleTimeoutHelper, Schedule,
           cancelTimeout, destroy, dropStale, expiredReturns, runClosure, Fire,
           timeoutExpiredHelper
      <4> QED
        BY <1>2, <4>1, SMTT(30)
    <3> QED
      BY <3>1, <3>2, Zenon
  <2>3. ASSUME NEW u \in Throttles
        PROVE  state'[u] = state[u] /\ period'[u] = period[u] /\ asked'[u] = asked[u]
    <3>1. CASE UNCHANGED <<state, period, asked>>
      BY <3>1, Zenon
    <3>2. ASSUME NEW t \in Timers \ Throttles,
                 \/ \E p \in Periods, b \in BOOLEAN : scheduleTimeout(t, p, b)
                 \/ cancelTimeout(t) \/ destroy(t) \/ timeoutExpiredHelper(t)
          PROVE  state'[u] = state[u] /\ period'[u] = period[u] /\ asked'[u] = asked[u]
      BY <1>2, <3>2, Zenon DEF scheduleTimeout, scheduleTimeoutHelper, cancelTimeout,
         destroy, timeoutExpiredHelper
    <3>3. CASE OtherCalls
      BY <3>2, <3>3, Zenon DEF OtherCalls
    <3>4. CASE OtherExecutor
      <4>1. CASE dropStale \/ expiredReturns
        BY <3>1, <4>1, Zenon DEF dropStale, expiredReturns, objectVars
      <4>2. ASSUME NEW e \in pending, runClosure(e)
            PROVE  UNCHANGED <<state, period, asked>>
        BY <4>2, Zenon DEF runClosure, objectVars
      <4>3. CASE \E t \in Timers \ Throttles : timeoutExpiredHelper(t)
        BY <3>2, <4>3, Zenon
      <4> QED
        BY <3>1, <3>4, <4>1, <4>2, <4>3, Zenon DEF OtherExecutor
    <3>5. CASE ThrottleClock \/ UNCHANGED throttleVars
      BY <3>1, <3>5, Zenon
      DEF ThrottleClock, clockTick, throttleVars, timeoutVars, objectVars
    <3> QED
      BY <1>9, <3>3, <3>4, <3>5, Zenon
  <2>4. \A u \in Throttles : Untouched(u)
    BY <2>1, <2>3, Zenon DEF Untouched
  <2>5. ThrottleTypeOK'
    BY <1>1, <1>2, <2>1, Zenon DEF Inv, ThrottleTypeOK
  <2> QED
    BY <1>1, <2>2, <2>4, <2>5, EachThrottleStep, Zenon
<1> QED
  BY <1>4, <1>5, <1>6, <1>7, <1>8, <1>9, Zenon DEF ThrottleNext, ThrottleExecutor
-------------------------------------------------------------------------------
(* The inductive invariant holds in every behaviour.                       *)
LEMMA ThrottleInvariance == ThrottleSpec => []ThrottleInv
  BY ThrottleInitInv, ThrottleInvStep, PTL DEF ThrottleSpec

(* A throttle uses its ZmqTimeout as any client may: what is proved of     *)
(* ZmqTimeout holds for the throttles and the objects beside them.         *)
THEOREM ThrottleImplementsTimeout == ThrottleSpec => Spec
<1>1. ThrottleInit => Init
  BY Zenon DEF ThrottleInit
<1>2. ThrottleInv /\ [ThrottleNext]_throttleVars => [Next]_timeoutVars
  BY ThrottleStepIsTimeoutStep, Zenon DEF ThrottleInv
<1> QED
  BY <1>1, <1>2, ThrottleInvariance, PTL DEF ThrottleSpec, Spec

(* No call of a throttle leaves the types.                                 *)
THEOREM ThrottleTypeCorrect == ThrottleSpec => []ThrottleTypeOK
  BY ThrottleInvariance, PTL DEF ThrottleInv

(* operator() is never swallowed: a throttle that was called and neither   *)
(* executed nor cancelled waits in the executor.                           *)
THEOREM NoCallIsSwallowed == ThrottleSpec => []CallIsServed
  BY ThrottleInvariance, PTL DEF ThrottleInv

(* Two executions of a callback are at least timeout_ apart, for any rate  *)
(* and any calls in between.                                               *)
THEOREM ExecutionsAreSpaced == ThrottleSpec => AtMostOncePerRate
<1>1. ASSUME ThrottleInv, NEW t \in Throttles PROVE Spaced(t)
  <2>1. /\ t \in Timers /\ rate[t] \in Nat /\ earliest[t] \in Nat /\ now \in Nat
        /\ asked[t] \in Nat
    BY <1>1, RatesAssumption, Zenon DEF ThrottleInv, ThrottleTypeOK, TypeOK, TimerTypeOK
  <2>2. timeoutExpired(t) => now >= earliest[t]
    <3> SUFFICES ASSUME timeoutExpired(t) PROVE now >= earliest[t]
      BY Zenon
    <3>1. phase = "closure" /\ Current(current, t)
      BY Zenon DEF timeoutExpired, timeoutExpiredHelper, tokenMatches, Current
    <3>2. isScheduled(t) /\ now >= asked[t] + period[t]
      BY <1>1, <2>1, <3>1, Zenon DEF ThrottleInv, Inv, LiveIsRight
    <3>3. period[t] = rate[t] /\ earliest[t] <= asked[t] + rate[t]
      BY <1>1, <3>2, Zenon DEF ThrottleInv, WaitsForRate
    <3> QED
      BY <2>1, <3>2, <3>3
  <2>3. callImmediate(t) => now >= earliest[t]
    BY <1>1, <2>1 DEF ThrottleInv, WaitsForRate, callImmediate
  <2> QED
    BY <2>2, <2>3, Zenon DEF Spaced
<1>2. ThrottleInv /\ [ThrottleNext]_throttleVars =>
        [\A t \in Throttles : Spaced(t)]_throttleVars
  BY <1>1, Zenon
<1> QED
  BY <1>2, ThrottleInvariance, PTL DEF ThrottleSpec, AtMostOncePerRate
-------------------------------------------------------------------------------
(* Progress of the executor, as ZmqThrottle and the other objects see it.  *)
ExecutorDue ==
  phase # "idle" \/ \E e \in pending : IsFirst(e, pending) /\ e.at <= now

(* The clock and the executor can take the steps their guards ask for,     *)
(* until every token of the executor has been given out.                   *)
TimersCanStep ==
  /\ now < MaxTime => ENABLED <<ThrottleClock>>_throttleVars
  /\ ExecutorDue /\ nextId # MaxTimeouts => ENABLED <<ThrottleExecutor>>_throttleVars

(* What has to be run next is due, and is not overtaken by what is         *)
(* scheduled while it waits.                                               *)
FirstDue(e) == IsFirst(e, pending) /\ e.at <= now

(* The first timeout stays the first until it is run.                      *)
LEMMA FirstStaysFirst ==
  ASSUME Inv, [Next]_timeoutVars, NEW e \in Timeout, FirstDue(e)
  PROVE  FirstDue(e)' \/ e \in fired'
<1>1. /\ now \in Nat /\ nextId \in Nat /\ pending \in SUBSET Timeout
      /\ e \in pending /\ e.id < nextId /\ e.at \in Nat
  BY Zenon DEF Inv, TypeOK, TimerTypeOK, ExecutorTokens, FirstDue, IsFirst, Timeout
<1>2. ASSUME UNCHANGED <<pending, now>> PROVE FirstDue(e)'
  BY <1>2, Zenon DEF FirstDue, IsFirst
<1>3. ASSUME NEW d \in Nat, Schedule(now + d) PROVE FirstDue(e)'
  <2> DEFINE new == [id |-> nextId, at |-> now + d]
  <2>1. pending' = pending \cup {new} /\ now' = now
    BY <1>3, Zenon DEF Schedule
  <2>2. e.at < now + d \/ (e.at = now + d /\ e.id <= nextId)
    <3>1. e.at <= now /\ e.id \in Nat
      BY Zenon DEF FirstDue, Timeout
    <3> QED
      BY <1>1, <3>1
  <2>3. new.at = now + d /\ new.id = nextId
    BY Zenon
  <2>4. e.at < new.at \/ (e.at = new.at /\ e.id <= new.id)
    BY <2>2, <2>3, Zenon
  <2> HIDE DEF new
  <2> QED
    BY <1>1, <2>1, <2>4, Zenon DEF FirstDue, IsFirst
<1>4. CASE clockTick
  BY <1>1, <1>4 DEF clockTick, ClockTick, FirstDue, IsFirst
<1>5. ASSUME NEW f \in pending, runClosure(f) PROVE e \in fired'
  <2>1. IsFirst(f, pending) /\ IsFirst(e, pending) /\ fired' = fired \cup {f}
    BY <1>5, Zenon DEF runClosure, Fire, FirstDue
  <2>2. e.at = f.at /\ e.id = f.id
    BY <1>1, <2>1 DEF IsFirst, Timeout
  <2>3. e = f
    BY <1>1, <2>2, Zenon DEF Inv, ExecutorTokens
  <2> QED
    BY <2>1, <2>3, Zenon
<1>6. ASSUME NEW t \in Timers, timeoutExpiredHelper(t) PROVE FirstDue(e)'
  <2>1. CASE UNCHANGED timerVars
    BY <1>2, <2>1, Zenon DEF timerVars
  <2>2. CASE ~UNCHANGED timerVars
    <3>1. period[t] \in Nat /\ period' = period /\ Schedule(now + period'[t])
      BY <1>6, <2>2, Zenon DEF timeoutExpiredHelper, scheduleTimeoutHelper, Inv, TypeOK
    <3> QED
      BY <1>3, <3>1, Zenon
  <2> QED
    BY <2>1, <2>2, Zenon
<1>7. ASSUME NEW t \in Timers, NEW p \in Periods, NEW b \in BOOLEAN,
             scheduleTimeout(t, p, b)
      PROVE  FirstDue(e)'
  <2>1. p \in Nat /\ period'[t] = p
    BY <1>7, PeriodsAssumption, Zenon DEF scheduleTimeout, Inv, TypeOK
  <2> QED
    BY <1>3, <1>7, <2>1, Zenon DEF scheduleTimeout, scheduleTimeoutHelper
<1>8. ASSUME NEW t \in Timers, cancelTimeout(t) \/ destroy(t)
      PROVE  UNCHANGED <<pending, now>>
  BY <1>8, Zenon DEF cancelTimeout, destroy, timerVars
<1>9. CASE dropStale \/ expiredReturns \/ UNCHANGED timeoutVars
  BY <1>2, <1>9, Zenon DEF dropStale, expiredReturns, timeoutVars, timerVars
<1> QED
  BY <1>2, <1>4, <1>5, <1>6, <1>7, <1>8, <1>9, Zenon DEF Next, Executor

(* The thread is done with a closure after two steps of the executor, and  *)
(* no call makes it begin another one.                                     *)
LEMMA ThreadSteps ==
  ASSUME Inv, [Next]_timeoutVars
  PROVE  /\ ~Executor => phase' = phase
         /\ Executor /\ phase = "closure" => phase' \in {"idle", "callback"}
         /\ Executor /\ phase = "callback" => phase' = "idle"
         /\ Executor /\ phase = "idle" => \E e \in pending : runClosure(e)
<1>1. ~Executor => phase' = phase
  BY Zenon DEF Next, scheduleTimeout, cancelTimeout, destroy, clockTick, timeoutVars
<1> QED
  BY <1>1, Zenon DEF Executor, runClosure, dropStale, expiredReturns, timeoutExpiredHelper

(* A step of the throttles' executor is a step of the executor.            *)
LEMMA ExecutorIsExecutor == ThrottleExecutor => Executor
  BY RatesAssumption, Zenon DEF ThrottleExecutor, OtherExecutor, timeoutExpired, Executor

(* The clock does not stand still, and the timeout that has to be run next *)
(* is run: neither the calls made in the meantime nor the closures that    *)
(* run before it, stale or not, keep it from the thread.                   *)
THEOREM TimersGoOn ==
  ThrottleFairSpec /\ []TimersCanStep =>
    /\ \A n \in Nat : (now = n /\ n < MaxTime) ~> (now = n + 1)
    /\ \A e \in Timeout : FirstDue(e) ~> (e \in fired \/ nextId = MaxTimeouts)
<1>0. ThrottleFairSpec => []ThrottleInv
  BY ThrottleInvariance, PTL DEF ThrottleFairSpec
<1>1. ASSUME NEW n \in Nat
      PROVE  ThrottleFairSpec /\ []TimersCanStep =>
               ((now = n /\ n < MaxTime) ~> (now = n + 1))
  <2> DEFINE P == now = n /\ n < MaxTime
             Q == now = n + 1
  <2>1. ThrottleInv /\ P /\ [ThrottleNext]_throttleVars => P' \/ Q'
    <3> SUFFICES ASSUME ThrottleInv, P, [Next]_timeoutVars PROVE P' \/ Q'
      BY ThrottleStepIsTimeoutStep, Zenon DEF ThrottleInv
    <3>1. CASE clockTick
      BY <3>1, Zenon DEF clockTick, ClockTick
    <3>2. CASE ~clockTick
      <4>1. now' = now
        BY <3>2, Zenon
        DEF Next, scheduleTimeout, scheduleTimeoutHelper, Schedule, cancelTimeout,
             destroy, Executor, runClosure, Fire, dropStale, expiredReturns,
             timeoutExpiredHelper, timeoutVars, timerVars
      <4> QED
        BY <4>1, Zenon
    <3> QED
      BY <3>1, <3>2, Zenon
  <2>2. P /\ <<ThrottleClock>>_throttleVars => Q'
    BY Zenon DEF ThrottleClock, clockTick, ClockTick
  <2>3. P /\ TimersCanStep => ENABLED <<ThrottleClock>>_throttleVars
    BY Zenon DEF TimersCanStep
  <2> HIDE DEF P, Q
  <2>4. ThrottleFairSpec /\ []TimersCanStep => (P ~> Q)
    BY <1>0, <2>1, <2>2, <2>3, PTL DEF ThrottleFairSpec, ThrottleSpec
  <2> QED
    BY <2>4, Zenon DEF P, Q
<1>2. ASSUME NEW e \in Timeout
      PROVE  ThrottleFairSpec /\ []TimersCanStep =>
               (FirstDue(e) ~> (e \in fired \/ nextId = MaxTimeouts))
  <2> DEFINE P == FirstDue(e)
             Q == e \in fired
             B == nextId = MaxTimeouts
             S(ph) == P /\ phase = ph
  <2>1. ThrottleInv => (P => S("closure") \/ S("callback") \/ S("idle"))
    BY Zenon DEF ThrottleInv, Inv, TypeOK
  <2>2. ASSUME NEW ph \in {"closure", "callback", "idle"}
        PROVE  /\ ThrottleInv /\ S(ph) /\ [ThrottleNext]_throttleVars =>
                    S(ph)' \/ Q' \/ (Executor /\ P')
               /\ S(ph) /\ TimersCanStep =>
                    B \/ ENABLED <<ThrottleExecutor>>_throttleVars
    <3>1. ASSUME ThrottleInv, S(ph), [ThrottleNext]_throttleVars
          PROVE  S(ph)' \/ Q' \/ (Executor /\ P')
      <4>1. Inv /\ [Next]_timeoutVars
        BY <3>1, ThrottleStepIsTimeoutStep, Zenon DEF ThrottleInv
      <4>2. P' \/ Q'
        BY <3>1, <4>1, FirstStaysFirst, Zenon
      <4>3. Executor \/ phase' = phase
        BY <4>1, ThreadSteps, Zenon
      <4> QED
        BY <3>1, <4>2, <4>3, Zenon
    <3>2. S(ph) => ExecutorDue
      BY Zenon DEF FirstDue, IsFirst, ExecutorDue
    <3> QED
      BY <3>1, <3>2, Zenon DEF TimersCanStep
  <2>3. ThrottleInv /\ [ThrottleNext]_throttleVars =>
          /\ S("closure") /\ Executor => S("callback")' \/ S("idle")' \/ Q'
          /\ S("callback") /\ Executor => S("idle")' \/ Q'
          /\ S("idle") /\ Executor => Q'
    <3> SUFFICES ASSUME ThrottleInv, [ThrottleNext]_throttleVars, Executor, P
                 PROVE  /\ phase = "closure" => S("callback")' \/ S("idle")' \/ Q'
                        /\ phase = "callback" => S("idle")' \/ Q'
                        /\ phase = "idle" => Q'
      BY Zenon
    <3>1. Inv /\ [Next]_timeoutVars
      BY ThrottleStepIsTimeoutStep, Zenon DEF ThrottleInv
    <3>2. P' \/ Q'
      BY <3>1, FirstStaysFirst, Zenon
    <3>3. /\ phase = "closure" => phase' \in {"idle", "callback"}
          /\ phase = "callback" => phase' = "idle"
      BY <3>1, ThreadSteps, Zenon
    <3>4. ASSUME phase = "idle" PROVE Q'
      <4>1. PICK f \in pending : runClosure(f)
        BY <3>1, <3>4, ThreadSteps, Zenon
      <4>2. ~P'
        <5>1. IsFirst(f, pending) /\ IsFirst(e, pending) /\ pending' = pending \ {f}
          BY <4>1, Zenon DEF runClosure, Fire, FirstDue
        <5>2. f \in Timeout
          BY <3>1, Zenon DEF Inv, TypeOK, TimerTypeOK
        <5>3. e.at = f.at /\ e.id = f.id
          BY <5>1, <5>2 DEF IsFirst, Timeout
        <5>4. e = f
          BY <3>1, <5>1, <5>3, Zenon DEF Inv, ExecutorTokens, IsFirst
        <5> QED
          BY <5>1, <5>4, Zenon DEF FirstDue, IsFirst
      <4> QED
        BY <3>2, <4>2, Zenon
    <3> QED
      BY <3>2, <3>3, <3>4, Zenon
  <2>4. <<ThrottleExecutor>>_throttleVars => Executor
    BY ExecutorIsExecutor, Zenon
  <2> DEFINE C == S("closure")
             K == S("callback")
             I == S("idle")
             En == ENABLED <<ThrottleExecutor>>_throttleVars
  <2>5. /\ ThrottleInv => (P => C \/ K \/ I)
        /\ TimersCanStep => (C \/ K \/ I => B \/ En)
        /\ ThrottleInv /\ [ThrottleNext]_throttleVars =>
             /\ C => C' \/ K' \/ I' \/ Q'
             /\ K => K' \/ I' \/ Q'
             /\ I => I' \/ Q'
        /\ ThrottleInv /\ [ThrottleNext]_throttleVars /\ <<ThrottleExecutor>>_throttleVars =>
             /\ C => K' \/ I' \/ Q'
             /\ K => I' \/ Q'
             /\ I => Q'
    <3> HIDE DEF P, Q, B
    <3>1. ThrottleInv /\ [ThrottleNext]_throttleVars =>
             /\ C => C' \/ Q' \/ Executor
             /\ K => K' \/ Q' \/ Executor
             /\ I => I' \/ Q' \/ Executor
      BY <2>2, Zenon
    <3>2. TimersCanStep => (C \/ K \/ I => B \/ En)
      BY <2>2, Zenon
    <3> QED
      BY <2>1, <2>3, <2>4, <3>1, <3>2, Zenon
  <2> HIDE DEF P, Q, B, S, C, K, I, En
  <2>6. ThrottleFairSpec /\ []TimersCanStep => (P ~> (Q \/ B))
    <3>1. En <=> ENABLED <<ThrottleExecutor>>_throttleVars
      BY Zenon DEF En
    <3> QED
      BY <1>0, <2>5, <3>1, PTL DEF ThrottleFairSpec, ThrottleSpec
  <2> QED
    BY <2>6, Zenon DEF P, Q, B
<1> QED
  BY <1>1, <1>2, Zenon

(* What the steps of TimersGoOn add up to, which takes an induction over   *)
(* the clock and over the timeouts that are due: the clock reaches its     *)
(* bound, and the executor catches up with it.                             *)
ClockArrives == <>(now = MaxTime)
NothingDue == \A e \in pending : e.at > now
ExecutorCatchesUp == ~NothingDue ~> (NothingDue \/ nextId = MaxTimeouts)

(* An object that is scheduled for a time that has come waits for a        *)
(* timeout that is due, or its closure decides.                            *)
LEMMA ScheduledIsDue ==
  ASSUME Inv, NEW t \in Timers, isScheduled(t), asked[t] + period[t] <= now, NothingDue
  PROVE  Deciding(t)
<1>1. ASSUME NEW e \in pending, Current(e.id, t) PROVE FALSE
  <2>1. e.at = asked[t] + period[t]
    BY <1>1, Zenon DEF Inv, LiveIsRight
  <2>2. now \in Nat /\ e.at > now /\ asked[t] \in Nat /\ period[t] \in Nat
    BY Zenon DEF Inv, TypeOK, TimerTypeOK, NothingDue
  <2> QED
    BY <2>1, <2>2
<1> QED
  BY <1>1, Zenon DEF Inv, LiveExists, Deciding

(* While a closure decides, only the clock and the executor step, and the  *)
(* executor accepts a closure with the present token.                      *)
LEMMA DecidingStep ==
  ASSUME Inv, [Next]_timeoutVars, NEW t \in Timers, Deciding(t)
  PROVE  \/ timeoutExpiredHelper(t)
         \/ clockTick /\ Deciding(t)'
         \/ UNCHANGED timeoutVars
<1>0. phase = "closure" /\ closure[current].timer = t /\ tokenMatches
  BY Zenon DEF Deciding, Current, tokenMatches
<1>1. CASE clockTick
  BY <1>1, Zenon DEF clockTick, objectVars, Deciding, Current
<1>2. CASE Executor
  BY <1>0, <1>2, Zenon
  DEF Executor, runClosure, dropStale, expiredReturns, timeoutExpiredHelper
<1>3. ASSUME NEW u \in Timers,
             \/ \E p \in Periods, b \in BOOLEAN : scheduleTimeout(u, p, b)
             \/ cancelTimeout(u) \/ destroy(u)
      PROVE  FALSE
  BY <1>0, <1>3, Zenon DEF scheduleTimeout, cancelTimeout, destroy, mayCall
<1> QED
  BY <1>1, <1>2, <1>3, Zenon DEF Next

(* What is scheduled keeps its time until it expires, is cancelled or is   *)
(* rescheduled.                                                            *)
LEMMA ScheduledKeepsTime ==
  ASSUME Inv, [Next]_timeoutVars, NEW t \in Timers, isScheduled(t),
         isScheduled(t)', token'[t] = token[t]
  PROVE  asked'[t] = asked[t] /\ period'[t] = period[t]
<1>0. token[t] \in Nat /\ token \in [Timers -> Nat]
  BY Zenon DEF Inv, TypeOK
<1>1. ASSUME NEW u \in Timers, NEW tok \in Nat, tok >= token[u],
             scheduleTimeoutHelper(u, tok),
             u # t => period'[t] = period[t]
      PROVE  asked'[t] = asked[t] /\ period'[t] = period[t]
  <2>1. u # t
    BY <1>0, <1>1, SMTT(30) DEF scheduleTimeoutHelper
  <2> QED
    BY <1>1, <2>1, Zenon DEF scheduleTimeoutHelper, Inv, TypeOK
<1>2. ASSUME NEW u \in Timers, NEW p \in Periods, NEW b \in BOOLEAN,
             scheduleTimeout(u, p, b)
      PROVE  asked'[t] = asked[t] /\ period'[t] = period[t]
  <2>1. cancelledToken(u) \in Nat /\ cancelledToken(u) >= token[u]
    BY DEF cancelledToken, Inv, TypeOK
  <2>2. u # t => period'[t] = period[t]
    BY <1>2, Zenon DEF scheduleTimeout, Inv, TypeOK
  <2> QED
    BY <1>1, <1>2, <2>1, <2>2, Zenon DEF scheduleTimeout
<1>3. ASSUME NEW u \in Timers, timeoutExpiredHelper(u)
      PROVE  asked'[t] = asked[t] /\ period'[t] = period[t]
  <2>1. token[u] \in Nat /\ token[u] >= token[u]
    BY DEF Inv, TypeOK
  <2> QED
    BY <1>1, <1>3, <2>1, Zenon DEF timeoutExpiredHelper
<1>4. CASE UNCHANGED <<asked, period>>
  BY <1>4, Zenon
<1>5. ASSUME NEW u \in Timers, cancelTimeout(u) \/ destroy(u)
      PROVE  UNCHANGED <<asked, period>>
  BY <1>5, Zenon DEF cancelTimeout, destroy
<1>6. CASE clockTick \/ dropStale \/ expiredReturns \/ (\E e \in pending : runClosure(e))
           \/ UNCHANGED timeoutVars
  BY <1>4, <1>6, Zenon
  DEF clockTick, dropStale, expiredReturns, runClosure, objectVars, timeoutVars
<1> QED
  BY <1>2, <1>3, <1>4, <1>5, <1>6, Zenon DEF Next, Executor

(* A time that was asked for is followed by its expiry once the clock      *)
(* arrives and the executor catches up, for every object and throttle.     *)
LEMMA DueExpires ==
  ThrottleFairSpec /\ []TimersCanStep /\ ClockArrives /\ ExecutorCatchesUp =>
    ScheduledExpires /\ CallIsExecuted
<1> DEFINE M == now = MaxTime
           N == NothingDue
           B == nextId = MaxTimeouts
           H == ThrottleFairSpec /\ []TimersCanStep /\ ClockArrives /\ ExecutorCatchesUp
           En == ENABLED <<ThrottleExecutor>>_throttleVars
<1>0. H => []ThrottleInv
  BY ThrottleInvariance, PTL DEF ThrottleFairSpec
<1>1. ThrottleInv /\ [ThrottleNext]_throttleVars => Inv /\ Inv' /\ [Next]_timeoutVars
  BY ThrottleStepIsTimeoutStep, InvStep, Zenon DEF ThrottleInv
<1>2. ThrottleInv /\ M /\ [ThrottleNext]_throttleVars => M'
  <2> SUFFICES ASSUME Inv, M, [Next]_timeoutVars PROVE M'
    BY <1>1, Zenon
  <2>1. now' = now \/ now < MaxTime
    BY Zenon DEF Next, scheduleTimeout, scheduleTimeoutHelper, Schedule, cancelTimeout,
       destroy, Executor, runClosure, Fire, dropStale, expiredReturns,
       timeoutExpiredHelper, timeoutVars, timerVars, clockTick, ClockTick
  <2>2. ~(MaxTime < MaxTime)
    BY TimeAssumption
  <2> QED
    BY <2>1, <2>2, Zenon
<1>3. ASSUME NEW t \in Timers
      PROVE  Deciding(t) /\ TimersCanStep => B \/ En
  BY Zenon DEF Deciding, TimersCanStep, ExecutorDue
<1>4. ASSUME NEW t \in Timers, NEW k \in 1..(2 * MaxTimeouts - 3)
      PROVE  H => ((isScheduled(t) /\ token[t] = k /\ asked[t] + period[t] <= MaxTime)
                     ~> (~isScheduled(t) \/ token[t] # k \/ nextId = MaxTimeouts))
  <2> DEFINE P == isScheduled(t) /\ token[t] = k /\ asked[t] + period[t] <= MaxTime
             R == ~isScheduled(t) \/ token[t] # k
             D == P /\ Deciding(t)
  <2>1. ThrottleInv /\ P /\ [ThrottleNext]_throttleVars => P' \/ R'
    <3> SUFFICES ASSUME Inv, P, [Next]_timeoutVars, ~R' PROVE P'
      BY <1>1, Zenon
    <3> QED
      BY ScheduledKeepsTime, Zenon
  <2>2. ThrottleInv /\ P /\ M /\ N => D
    BY ScheduledIsDue, Zenon DEF ThrottleInv
  <2>3. ASSUME ThrottleInv, D, [ThrottleNext]_throttleVars PROVE D' \/ R'
    <3>1. Inv /\ [Next]_timeoutVars /\ (P' \/ R')
      BY <1>1, <2>1, <2>3, Zenon
    <3>2. ASSUME timeoutExpiredHelper(t) PROVE R'
      <4>1. CASE state[t] = "PERIODIC"
        <5>1. token' = [token EXCEPT ![t] = token[t] + 1] /\ token[t] \in Nat
              /\ token \in [Timers -> Nat]
          BY <3>1, <3>2, <4>1, Zenon
          DEF timeoutExpiredHelper, scheduleTimeoutHelper, Inv, TypeOK
        <5> QED
          BY <2>3, <5>1, SMTT(30)
      <4>2. CASE state[t] # "PERIODIC"
        BY <3>1, <3>2, <4>2, Zenon DEF timeoutExpiredHelper, isScheduled, Inv, TypeOK
      <4> QED
        BY <4>1, <4>2, Zenon
    <3>3. ASSUME UNCHANGED timeoutVars PROVE Deciding(t)'
      BY <2>3, <3>3, Zenon DEF timeoutVars, objectVars, Deciding, Current
    <3> QED
      BY <2>3, <3>1, <3>2, <3>3, DecidingStep, Zenon
  <2>4. ThrottleInv /\ D /\ [ThrottleNext]_throttleVars
          /\ <<ThrottleExecutor>>_throttleVars => R'
    <3> SUFFICES ASSUME ThrottleInv, D, [ThrottleNext]_throttleVars, Executor PROVE R'
      BY ExecutorIsExecutor, Zenon
    <3>1. ~Deciding(t)'
      <4>1. Inv /\ [Next]_timeoutVars
        BY <1>1, Zenon
      <4> QED
        BY <4>1, ThreadSteps, Zenon DEF Deciding
    <3> QED
      BY <2>3, <3>1, Zenon
  <2>5. D /\ TimersCanStep => B \/ En
    BY <1>3, Zenon
  <2> HIDE DEF P, R, D, M, N, B, En
  <2>6. H => (P ~> (R \/ B))
    <3>1. En <=> ENABLED <<ThrottleExecutor>>_throttleVars
      BY Zenon DEF En
    <3>2. /\ ClockArrives <=> <>M
          /\ ExecutorCatchesUp <=> (~N ~> (N \/ B))
      BY Zenon DEF ClockArrives, ExecutorCatchesUp, M, N, B
    <3> QED
      BY <1>0, <1>2, <2>1, <2>2, <2>3, <2>4, <2>5, <3>1, <3>2, PTL
      DEF ThrottleFairSpec, ThrottleSpec
  <2> QED
    BY <2>6, Zenon DEF P, R, B
<1>5. ASSUME NEW t \in Throttles
      PROVE  H => ((t \in unserved /\ asked[t] + rate[t] <= MaxTime)
                     ~> (t \notin unserved \/ asked[t] + rate[t] > MaxTime
                           \/ nextId = MaxTimeouts))
  <2> DEFINE P == t \in unserved /\ asked[t] + rate[t] <= MaxTime
             R == t \notin unserved \/ asked[t] + rate[t] > MaxTime
             D == P /\ Deciding(t)
  <2>0. t \in Timers
    BY RatesAssumption, Zenon
  <2>1. ThrottleInv => P \/ R
    <3> SUFFICES ASSUME ThrottleInv PROVE P \/ R
      BY Zenon
    <3>1. asked[t] \in Nat /\ rate[t] \in Nat /\ MaxTime \in Nat
      BY <2>0, RatesAssumption, TimeAssumption, Zenon
      DEF ThrottleInv, ThrottleTypeOK, Inv, TypeOK
    <3> QED
      BY <3>1
  <2>1a. (ThrottleInv => P \/ R)'
    BY <2>1, PTL
  <2>2. ThrottleInv /\ P /\ M /\ N => D
    <3> SUFFICES ASSUME ThrottleInv, P, M, N PROVE Deciding(t)
      BY Zenon
    <3>1. isScheduled(t) /\ period[t] = rate[t]
      BY Zenon DEF ThrottleInv, CallIsServed, WaitsForRate
    <3> QED
      BY <2>0, <3>1, ScheduledIsDue, Zenon DEF ThrottleInv
  <2>3. ASSUME ThrottleInv, ThrottleInv', D, [ThrottleNext]_throttleVars
        PROVE  (D' \/ R') /\ (<<ThrottleExecutor>>_throttleVars => R')
    <3>1. ThrottleExecutor => timeoutExpired(t)
      <4>1. phase = "closure" /\ closure[current].timer = t /\ tokenMatches
        BY <2>3, Zenon DEF Deciding, Current, tokenMatches
      <4>2. ~OtherExecutor
        BY <4>1, Zenon
        DEF OtherExecutor, runClosure, dropStale, expiredReturns, timeoutExpiredHelper
      <4>3. \A u \in Throttles : timeoutExpired(u) => u = t
        BY <4>1, Zenon DEF timeoutExpired, timeoutExpiredHelper
      <4> QED
        BY <4>2, <4>3, Zenon DEF ThrottleExecutor
    <3>2. timeoutExpired(t) => R'
      BY Zenon DEF timeoutExpired, callback
    <3>3. Deciding(t)' \/ Executor
      <4>1. Inv /\ [Next]_timeoutVars
        BY <1>1, <2>3, Zenon
      <4>2. ASSUME UNCHANGED timeoutVars PROVE Deciding(t)'
        BY <2>3, <4>2, Zenon DEF timeoutVars, objectVars, Deciding, Current
      <4> QED
        BY <2>0, <2>3, <4>1, <4>2, DecidingStep, Zenon DEF Executor
    <3>4. ASSUME Executor, ~ThrottleExecutor PROVE FALSE
      <4>1. phase = "closure" /\ phase' # "closure"
        <5>1. Inv /\ [Next]_timeoutVars
          BY <1>1, <2>3, Zenon
        <5> QED
          BY <2>3, <3>4, <5>1, ThreadSteps, Zenon DEF Deciding
      <4>2. ASSUME NEW u \in Throttles,
                   \/ callWaiting(u) \/ callImmediate(u) \/ callFirst(u)
                   \/ cancel(u) \/ destroyThrottle(u)
            PROVE  FALSE
        BY <4>1, <4>2, Zenon
        DEF callWaiting, callImmediate, callFirst, cancel, destroyThrottle,
           scheduleTimeout, cancelTimeout, destroy, mayCall
      <4>3. ~OtherCalls
        BY <4>1, Zenon DEF OtherCalls, scheduleTimeout, cancelTimeout, destroy, mayCall
      <4>4. ~ThrottleClock /\ ~UNCHANGED throttleVars
        BY <4>1, Zenon DEF ThrottleClock, clockTick, throttleVars, timeoutVars
      <4> QED
        BY <2>3, <3>4, <4>2, <4>3, <4>4, Zenon DEF ThrottleNext
    <3> HIDE DEF P, R
    <3> QED
      BY <2>1a, <2>3, <3>1, <3>2, <3>3, <3>4, Zenon
  <2>4. ThrottleInv /\ ThrottleInv' /\ P /\ [ThrottleNext]_throttleVars => P' \/ R'
    BY <2>1a, Zenon
  <2>5. D /\ TimersCanStep => B \/ En
    BY <1>3, <2>0, Zenon
  <2> HIDE DEF P, R, D, M, N, B, En
  <2>6. H => (P ~> (R \/ B))
    <3>1. En <=> ENABLED <<ThrottleExecutor>>_throttleVars
      BY Zenon DEF En
    <3>2. /\ ClockArrives <=> <>M
          /\ ExecutorCatchesUp <=> (~N ~> (N \/ B))
      BY Zenon DEF ClockArrives, ExecutorCatchesUp, M, N, B
    <3> QED
      BY <1>0, <1>2, <2>2, <2>3, <2>4, <2>5, <3>1, <3>2, PTL
      DEF ThrottleFairSpec, ThrottleSpec
  <2> QED
    BY <2>6, Zenon DEF P, R, B
<1> QED
  BY <1>4, <1>5, Zenon DEF ScheduledExpires, CallIsExecuted

(* A scheduled object expires, unless it is cancelled or rescheduled: see  *)
(* ScheduledExpires.                                                       *)
THEOREM TimeoutsExpire ==
  ThrottleFairSpec /\ []TimersCanStep /\ ClockArrives /\ ExecutorCatchesUp =>
    ScheduledExpires
  BY DueExpires, Zenon

(* A call of a throttle is executed, unless it is cancelled: see           *)
(* CallIsExecuted.                                                         *)
THEOREM CallsAreExecuted ==
  ThrottleFairSpec /\ []TimersCanStep /\ ClockArrives /\ ExecutorCatchesUp =>
    CallIsExecuted
  BY DueExpires, Zenon
===============================================================================
