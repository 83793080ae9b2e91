------------------------------ MODULE ZmqTimeout ------------------------------
(***************************************************************************)
(* ZmqTimeout (fbzmq/async/ZmqTimeout.cpp): timeouts that can be           *)
(* rescheduled, cancelled and destroyed, on top of an executor that only   *)
(* has scheduleAt() and cannot take a closure back.  The executor is       *)
(* TimerService, which the heap of ZmqEventLoop implements.  Everything    *)
(* runs on the thread of the executor; what interleaves are the closures   *)
(* still waiting in the executor and the calls made in between, from a     *)
(* timeoutExpired() or from any other callback.                            *)
(***************************************************************************)
EXTENDS TimerService

CONSTANTS
  Timers,      \* the ZmqTimeout objects that share the executor
  Periods      \* timeoutPeriod, in units of the clock

ASSUME PeriodsAssumption == Periods \subseteq Nat

VARIABLES
  state,       \* state_ of every object
  token,       \* *token_, which outlives the object
  period,      \* timeoutPeriod_
  alive,       \* objects not destroyed
  closure,     \* what the lambda with a given executor token captured
  phase,       \* what the thread does: "idle", "closure", "callback"
  current,     \* the executor token of the closure that runs
  asked        \* history: when the period of an object last began

objectVars == <<state, token, period, alive, closure, asked>>
timeoutVars == <<timerVars, objectVars, phase, current>>

States == {"NONE", "SCHEDULED", "PERIODIC"}
Closure == [timer : Timers, tok : Nat]

(* Every variable keeps its type.                                          *)
TypeOK ==
  /\ TimerTypeOK
  /\ state \in [Timers -> States] /\ token \in [Timers -> Nat]
  /\ period \in [Timers -> Nat] /\ alive \in SUBSET Timers
  /\ closure \in [0..(nextId - 1) -> Closure]
  /\ phase \in {"idle", "closure", "callback"} /\ current \in Nat
  /\ asked \in [Timers -> Nat]

Init ==
  /\ TimerInit
  /\ state = [t \in Timers |-> "NONE"] /\ token = [t \in Timers |-> 0]
  /\ period = [t \in Timers |-> 0] /\ alive = Timers
  /\ closure = [i \in 0..(nextId - 1) |-> {}]
  /\ phase = "idle" /\ current = 0 /\ asked = [t \in Timers |-> 0]

isScheduled(t) == state[t] # "NONE"

(* The objects are used by callbacks, never while a closure decides.       *)
mayCall(t) == phase # "closure" /\ t \in alive
-------------------------------------------------------------------------------
(* Mutant: the lambda captures the token before it is raised.              *)
MutHelperCapturesEarly(t, tok) ==
  /\ token' = [token EXCEPT ![t] = tok + 1]
  /\ closure' = [i \in 0..nextId |->
       IF i = nextId THEN [timer |-> t, tok |-> tok] ELSE closure[i]]
  /\ Schedule(now + period'[t])
  /\ asked' = [asked EXCEPT ![t] = now]

(* The token is raised from tok, and the lambda captures the new value.    *)
scheduleTimeoutHelper(t, tok) ==
  /\ token' = [token EXCEPT ![t] = tok + 1]
  /\ closure' = [i \in 0..nextId |->
       IF i = nextId THEN [timer |-> t, tok |-> tok + 1] ELSE closure[i]]
  /\ Schedule(now + period'[t])
  /\ asked' = [asked EXCEPT ![t] = now]

(* The token after the cancelTimeout() that scheduleTimeout() and the      *)
(* destructor call on a scheduled object.                                  *)
cancelledToken(t) == IF isScheduled(t) THEN token[t] + 1 ELSE token[t]

scheduleTimeout(t, p, isPeriodic) ==
  /\ mayCall(t)
  /\ state' = [state EXCEPT ![t] = IF isPeriodic THEN "PERIODIC"
                                                 ELSE "SCHEDULED"]
  /\ period' = [period EXCEPT ![t] = p]
  /\ scheduleTimeoutHelper(t, cancelledToken(t))
  /\ UNCHANGED <<alive, phase, current>>

(* Mutant: only the state is reset.                                        *)
MutCancelKeepsToken(t) ==
  /\ mayCall(t) /\ isScheduled(t)
  /\ state' = [state EXCEPT ![t] = "NONE"]
  /\ UNCHANGED <<timerVars, token, period, alive, closure, asked, phase, current>>

(* An object that is not scheduled is left alone, with a warning.          *)
cancelTimeout(t) ==
  /\ mayCall(t) /\ isScheduled(t)
  /\ state' = [state EXCEPT ![t] = "NONE"]
  /\ token' = [token EXCEPT ![t] = @ + 1]
  /\ UNCHANGED <<timerVars, period, alive, closure, asked, phase, current>>

destroy(t) ==
  /\ mayCall(t)
  /\ state' = [state EXCEPT ![t] = "NONE"]
  /\ token' = [token EXCEPT ![t] = cancelledToken(t)]
  /\ alive' = alive \ {t}
  /\ UNCHANGED <<timerVars, period, closure, asked, phase, current>>
-------------------------------------------------------------------------------
(* The executor runs a closure.                                            *)
runClosure(e) ==
  /\ phase = "idle"
  /\ Fire(e)
  /\ phase' = "closure" /\ current' = e.id
  /\ UNCHANGED objectVars

tokenMatches == closure[current].tok = token[closure[current].timer]

(* The object was rescheduled, cancelled or destroyed in the meantime.     *)
dropStale ==
  /\ phase = "closure" /\ ~tokenMatches
  /\ phase' = "idle" /\ current' = 0
  /\ UNCHANGED <<timerVars, objectVars>>

(* timeoutExpiredHelper() up to the call of timeoutExpired().              *)
timeoutExpiredHelper(t) ==
  /\ phase = "closure" /\ t = closure[current].timer /\ tokenMatches
  /\ \/ /\ state[t] = "PERIODIC"
        /\ UNCHANGED <<state, period>>
        /\ scheduleTimeoutHelper(t, token[t])
     \/ /\ state[t] # "PERIODIC"
        /\ state' = [state EXCEPT ![t] = "NONE"]
        /\ UNCHANGED <<timerVars, token, period, closure, asked>>
  /\ phase' = "callback"
  /\ UNCHANGED <<alive, current>>

(* timeoutExpired() returns, and with it the closure.                      *)
expiredReturns ==
  /\ phase = "callback"
  /\ phase' = "idle" /\ current' = 0
  /\ UNCHANGED <<timerVars, objectVars>>

clockTick == ClockTick /\ UNCHANGED <<objectVars, phase, current>>

Executor ==
  \/ \E e \in pending : runClosure(e)
  \/ dropStale \/ expiredReturns
  \/ \E t \in Timers : timeoutExpiredHelper(t)

Next ==
  \/ \E t \in Timers :
       \/ \E p \in Periods, b \in BOOLEAN : scheduleTimeout(t, p, b)
       \/ cancelTimeout(t) \/ destroy(t)
  \/ clockTick
  \/ Executor

Spec == Init /\ [][Next]_timeoutVars

(* The clock advances and the executor runs what is due.                   *)
FairSpec == Spec /\ WF_timeoutVars(clockTick) /\ WF_timeoutVars(Executor)
-------------------------------------------------------------------------------
(* The closure captured the present token of t.                            *)
Current(i, t) == closure[i].timer = t /\ closure[i].tok = token[t]

(* The closures of t that wait in the executor and will be accepted.       *)
Live(t) == {e \in pending : Current(e.id, t)}

(* The executor runs such a closure, which has not compared yet.           *)
Deciding(t) == phase = "closure" /\ Current(current, t)

(* isScheduled() tells the truth: an object is scheduled exactly when one  *)
(* closure that will be accepted waits in the executor, and never two.     *)
ScheduledIffLive ==
  \A t \in Timers :
    /\ \A e, f \in Live(t) : e = f
    /\ Deciding(t) => Live(t) = {}
    /\ isScheduled(t) <=> (Live(t) # {} \/ Deciding(t))

(* A closure dereferences `this` only after the token compared equal, and  *)
(* then the object still exists.                                           *)
NoUseAfterDestroy ==
  phase = "closure" /\ tokenMatches => closure[current].timer \in alive

(* timeoutExpired() runs only for an object that is scheduled at that      *)
(* moment, and not before its period has passed since the last             *)
(* scheduleTimeout() or, if it is periodic, since the last expiry.         *)
ExpiresAsAsked(t) ==
  timeoutExpiredHelper(t) =>
    t \in alive /\ isScheduled(t) /\ now >= asked[t] + period[t]

ExpiryIsCurrent == [][\A t \in Timers : ExpiresAsAsked(t)]_timeoutVars

(* A scheduled object expires, is cancelled or is rescheduled (each of     *)
(* which changes its token or its state), as long as the clock and the     *)
(* tokens of the executor have not run into their bounds.  A schedule adds *)
(* at most 2 to the token: a larger k means nextId = MaxTimeouts.          *)
ScheduledExpires ==
  \A t \in Timers, k \in 1..(2 * MaxTimeouts - 3) :
    (isScheduled(t) /\ token[t] = k /\ asked[t] + period[t] <= MaxTime)
      ~> (~isScheduled(t) \/ token[t] # k \/ nextId = MaxTimeouts)
===============================================================================
