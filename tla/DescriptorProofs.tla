--------------------------- MODULE DescriptorProofs ---------------------------
(***************************************************************************)
(* Proofs about the callbacks of two kinds of descriptors: signalfds       *)
(* (AsyncSignalHandler) and the ZMQ_FD of a socket with an EventBase       *)
(* (SocketWait).  In both, what made the descriptor ready has to be there  *)
(* still when the one who waits comes to take it.                          *)
(*                                                                         *)
(* Signals, for any handlers and signals: as long as nothing is shared,    *)
(* handlers have disjoint signals, each blocked from before it is in a     *)
(* signalfd until it is taken out; so a signal that made a descriptor      *)
(* ready is there until its handler reads.                                 *)
(*                                                                         *)
(* Waiting, for any high-water mark and number of messages: what           *)
(* handlerReady() reads from ZMQ_EVENTS when it posts a baton (a message,  *)
(* or room) is known to libzmq from then on and nobody but the woken one   *)
(* takes it away, since the other side does not receive, or does not send. *)
(***************************************************************************)
EXTENDS AsyncSignalHandler, SocketWait, TLAPS

(* AsyncSignalHandler.                                                     *)

(* One thing at a time runs on the thread of the loop.                     *)
OneThread ==
  /\ setup # None => reading = None
  /\ reading # None => reading \notin polled
  /\ phase = "stopped" => polled = {} /\ reading = None /\ setup = None
  /\ pending \subseteq mask

(* The handlers have disjoint signals, with the one that is changing.      *)
Apart ==
  shared = FALSE =>
    /\ \A g, h \in Handlers : g # h => registeredSignals_[g] \cap registeredSignals_[h] = {}
    /\ setup # None =>
         /\ \A g \in Handlers : g # setup.handler => setup.sig \notin registeredSignals_[g]
         /\ setup.isAdding = FALSE => setup.handler \notin polled

(* A handler that is called, or is about to be, has a signal to read.      *)
Found ==
  shared = FALSE =>
    \A h \in Handlers :
      h \in polled \/ h = reading => registeredSignals_[h] \cap pending # {}

Safe(s) == s \in mask /\ (started = TRUE => s \in others \cup late)

(* What is registered, or is about to be, is blocked in every thread, or   *)
(* was registered too late.                                                *)
Blocked ==
  shared = FALSE =>
    /\ \A h \in Handlers : \A s \in registeredSignals_[h] :
         Safe(s) \/ (setup # None /\ setup.sig = s)
    /\ setup # None /\ setup.isAdding = TRUE => Safe(setup.sig)
    /\ lost \subseteq late

SignalsInv == SignalsTypeOK /\ OneThread /\ Apart /\ Found /\ Blocked
-------------------------------------------------------------------------------
(* The invariant holds when the handlers are constructed.                  *)
LEMMA SignalsInitInv == SignalsInit => SignalsInv
BY SignalsAssumption, Zenon
   DEF SignalsInit, SignalsInv, SignalsTypeOK, OneThread, Apart, Found, Blocked

(* Every step keeps the types.                                             *)
LEMMA SignalsTypeStep == SignalsTypeOK /\ [SignalsNext]_signalsVars => SignalsTypeOK'
<1> SUFFICES ASSUME SignalsTypeOK, [SignalsNext]_signalsVars PROVE SignalsTypeOK'
  BY Zenon
<1> USE DEF SignalsTypeOK, kernelVars, loopVars, setupVars
<1>1. ASSUME NEW s \in Signals, kill(s) PROVE SignalsTypeOK'
  BY <1>1 DEF kill
<1>2. ASSUME NEW s \in Signals, NEW h \in Handlers, NEW a \in BOOLEAN,
             setupSignal(h, s, a)
      PROVE  SignalsTypeOK'
  <2>1. setup' \in Calls \cup {None}
    BY <1>2, Zenon DEF setupSignal, Calls
  <2>2. mask' \subseteq Signals /\ pending' \subseteq Signals /\ late' \subseteq Signals
    BY <1>2, Zenon DEF setupSignal
  <2>3. shared' \in BOOLEAN
    BY <1>2, Zenon DEF setupSignal
  <2> QED
    BY <1>2, <2>1, <2>2, <2>3 DEF setupSignal
<1>3. CASE updateSignalfd
  <2>1. setup \in Calls
    BY <1>3, Zenon DEF updateSignalfd
  <2>2. registeredSignals_' \in [Handlers -> SUBSET Signals]
    BY <1>3, <2>1, Zenon DEF updateSignalfd, Calls
  <2> QED
    BY <1>3, <2>2, Zenon DEF updateSignalfd
<1>4. CASE startThreads \/ run \/ runReturns \/ poll
  BY <1>4, Zenon DEF startThreads, run, runReturns, poll, ready
<1>5. ASSUME NEW h \in Handlers, callback(h) \/ destroy(h) PROVE SignalsTypeOK'
  BY <1>5, Zenon DEF callback, destroy
<1>6. CASE readSignal \/ stopCallback
  BY <1>6, Zenon DEF readSignal, signalReceived, stopCallback
<1>7. CASE UNCHANGED signalsVars
  BY <1>7, Zenon DEF signalsVars
<1> QED
  BY <1>1, <1>2, <1>3, <1>4, <1>5, <1>6, <1>7, Zenon
  DEF SignalsNext, LoopStep, registerSignalHandler, unregisterSignalHandler

(* A call of setupSignal() keeps the invariant, with the mask and the      *)
(* signalfd changed one after the other.                                   *)
LEMMA SetupStep ==
  ASSUME SignalsInv, NEW s \in Signals, NEW h \in Handlers, NEW a \in BOOLEAN,
         setupSignal(h, s, a)
  PROVE  OneThread' /\ Apart' /\ Found' /\ Blocked'
<1> USE DEF SignalsInv
<1>0. /\ registeredSignals_' = registeredSignals_ /\ polled' = polled
      /\ reading = None /\ reading' = None
      /\ started' = started /\ others' = others /\ lost' = lost /\ setup = None
      /\ setup'.handler = h /\ setup'.sig = s /\ setup'.isAdding = a
      /\ phase' = phase /\ phase # "stopped"
  BY Zenon DEF setupSignal, free, loopVars
<1>1. OneThread'
  BY <1>0, Zenon DEF setupSignal, OneThread
<1>2. ASSUME shared' = FALSE
      PROVE  /\ shared = FALSE
             /\ \A g \in Handlers : g # h => s \notin registeredSignals_[g]
             /\ a = FALSE => h \notin polled
  BY <1>2, Zenon DEF setupSignal, SignalsTypeOK
<1>3. Apart'
  BY <1>0, <1>2, Zenon DEF Apart
<1>4. Found'
  <2> SUFFICES ASSUME shared' = FALSE, NEW g \in Handlers, g \in polled
               PROVE  registeredSignals_[g] \cap pending' # {}
    BY <1>0, SignalsAssumption, Zenon DEF Found
  <2>1. PICK t \in registeredSignals_[g] : t \in pending
    BY <1>2, Zenon DEF Found
  <2>2. t \in mask
    BY <2>1, Zenon DEF OneThread
  <2>3. a = FALSE => t # s
    BY <1>2, <2>1, Zenon
  <2>4. t \in pending'
    BY <2>1, <2>2, <2>3, Zenon DEF setupSignal
  <2> QED
    BY <2>1, <2>4, Zenon
<1>5. Blocked'
  <2> SUFFICES ASSUME shared' = FALSE PROVE Blocked'
    BY Zenon DEF Blocked
  <2>1. late \subseteq late' /\ \A t \in mask : t # s => t \in mask'
    BY Zenon DEF setupSignal
  <2>2. a = TRUE => s \in mask' /\ (started = TRUE => s \in late')
    BY Zenon DEF setupSignal
  <2>3. \A t : Safe(t) => Safe(t)' \/ t = s
    BY <1>0, <2>1, Zenon DEF Safe
  <2>4. setup' # None
    BY SignalsAssumption DEF setupSignal, Calls
  <2> QED
    BY <1>0, <1>2, <2>1, <2>2, <2>3, <2>4, Zenon DEF Blocked, Safe
<1> QED
  BY <1>1, <1>3, <1>4, <1>5, Zenon

(* The second half of the call.                                            *)
LEMMA UpdateStep ==
  ASSUME SignalsInv, updateSignalfd
  PROVE  OneThread' /\ Apart' /\ Found' /\ Blocked'
<1> USE DEF SignalsInv
<1> DEFINE h == setup.handler
           s == setup.sig
<1>0. /\ polled' = polled /\ reading = None /\ reading' = None /\ pending' = pending
      /\ mask' = mask /\ phase' = phase /\ setup' = None /\ shared' = shared
      /\ started' = started /\ others' = others /\ late' = late /\ lost' = lost
  BY Zenon DEF updateSignalfd, OneThread, kernelVars, loopVars
<1>1. setup # None /\ h \in Handlers /\ s \in Signals /\ setup.isAdding \in BOOLEAN
  BY Zenon DEF updateSignalfd, SignalsTypeOK, Calls
<1>2. /\ \A g \in Handlers : g # h => registeredSignals_'[g] = registeredSignals_[g]
      /\ setup.isAdding = TRUE => registeredSignals_'[h] = registeredSignals_[h] \cup {s}
      /\ setup.isAdding = FALSE => registeredSignals_'[h] = registeredSignals_[h] \ {s}
  BY <1>1, Zenon DEF updateSignalfd, SignalsTypeOK
<1> HIDE DEF h, s
<1>3. OneThread'
  BY <1>0, Zenon DEF OneThread
<1>4. Apart'
  <2> SUFFICES ASSUME shared = FALSE, NEW g1 \in Handlers, NEW g2 \in Handlers, g1 # g2
               PROVE  registeredSignals_'[g1] \cap registeredSignals_'[g2] = {}
    BY <1>0, Zenon DEF Apart
  <2>1. registeredSignals_[g1] \cap registeredSignals_[g2] = {}
    BY Zenon DEF Apart
  <2>2. \A g \in Handlers : g # h => s \notin registeredSignals_[g]
    BY <1>1, Zenon DEF Apart, h, s
  <2> QED
    BY <1>1, <1>2, <2>1, <2>2, Zenon
<1>5. Found'
  <2> SUFFICES ASSUME shared = FALSE, NEW g \in Handlers, g \in polled
               PROVE  registeredSignals_'[g] \cap pending # {}
    BY <1>0, SignalsAssumption, Zenon DEF Found
  <2>1. registeredSignals_[g] \cap pending # {}
    BY Zenon DEF Found
  <2>2. setup.isAdding = FALSE => g # h
    BY <1>1, Zenon DEF Apart, h
  <2> QED
    BY <1>1, <1>2, <2>1, <2>2, Zenon
<1>6. Blocked'
  <2> SUFFICES ASSUME shared = FALSE, NEW g \in Handlers, NEW t \in registeredSignals_'[g]
               PROVE  Safe(t)
    <3>1. \A t : Safe(t)' <=> Safe(t)
      BY <1>0, Zenon DEF Safe
    <3> QED
      BY <1>0, <3>1, Zenon DEF Blocked
  <2>1. \A k \in Handlers : \A u \in registeredSignals_[k] : Safe(u) \/ u = s
    BY Zenon DEF Blocked, s
  <2>2. setup.isAdding = TRUE => Safe(s)
    BY <1>1, Zenon DEF Blocked, s
  <2>3. \A k \in Handlers : k # h => s \notin registeredSignals_[k]
    BY <1>1, Zenon DEF Apart, h, s
  <2>4. CASE t = s
    BY <1>1, <1>2, <2>2, <2>3, <2>4, Zenon
  <2>5. CASE t # s
    BY <1>1, <1>2, <2>1, <2>5, Zenon
  <2> QED
    BY <2>4, <2>5, Zenon
<1> QED
  BY <1>3, <1>4, <1>5, <1>6, Zenon

(* A signal that is sent is pending, or lost for one of the two reasons.   *)
LEMMA KillStep ==
  ASSUME SignalsInv, NEW s \in Signals, kill(s)
  PROVE  OneThread' /\ Apart' /\ Found' /\ Blocked'
<1> USE DEF SignalsInv
<1>0. /\ polled' = polled /\ reading' = reading /\ pending \subseteq pending'
      /\ mask' = mask /\ phase' = phase /\ setup' = setup /\ shared' = shared
      /\ started' = started /\ others' = others /\ late' = late
      /\ registeredSignals_' = registeredSignals_
  BY Zenon DEF kill, loopVars, setupVars
<1>1. OneThread'
  BY <1>0, Zenon DEF OneThread, kill
<1>2. Apart' /\ Found'
  BY <1>0, Zenon DEF Apart, Found
<1>3. \A t : Safe(t)' <=> Safe(t)
  BY <1>0, Zenon DEF Safe
<1>4. ASSUME shared = FALSE PROVE lost' \subseteq late
  <2>1. CASE s \in mask /\ (started => s \in others)
    BY <1>4, <2>1, Zenon DEF kill, Blocked
  <2>2. CASE ~(s \in mask /\ (started => s \in others))
    <3>1. s \in wanted => s \in late
      <4> SUFFICES ASSUME s \in wanted PROVE s \in late
        BY Zenon
      <4>1. PICK h \in Handlers : s \in registeredSignals_[h]
        BY Zenon DEF wanted
      <4>2. ASSUME setup # None, setup.sig = s PROVE FALSE
        BY <4>2, Zenon DEF wanted
      <4>3. Safe(s)
        BY <1>4, <4>1, <4>2, Zenon DEF Blocked
      <4> QED
        BY <2>2, <4>3, Zenon DEF Safe, SignalsTypeOK
    <3> QED
      BY <1>4, <2>2, <3>1, Zenon DEF kill, Blocked
  <2> QED
    BY <2>1, <2>2, Zenon
<1> QED
  BY <1>0, <1>1, <1>2, <1>3, <1>4, Zenon DEF Blocked

(* A read() takes a signal of one handler, so that no other misses it.     *)
LEMMA ReadStep ==
  ASSUME SignalsInv, readSignal
  PROVE  OneThread' /\ Apart' /\ Found' /\ Blocked'
<1> USE DEF SignalsInv
<1>0. /\ polled' = polled /\ reading # None /\ reading' = None /\ lost' = lost
      /\ mask' = mask /\ phase' = phase /\ setup' = setup /\ shared' = shared
      /\ started' = started /\ others' = others /\ late' = late
      /\ registeredSignals_' = registeredSignals_
  BY Zenon DEF readSignal, setupVars
<1>1. PICK s \in registeredSignals_[reading] : pending' = pending \ {s}
  BY Zenon DEF readSignal
<1>2. OneThread' /\ Apart'
  BY <1>0, <1>1, Zenon DEF OneThread, Apart
<1>3. Found'
  <2> SUFFICES ASSUME shared = FALSE, NEW g \in Handlers, g \in polled
               PROVE  registeredSignals_[g] \cap pending' # {}
    BY <1>0, SignalsAssumption, Zenon DEF Found
  <2>1. reading \in Handlers /\ reading # g
    BY <1>0, Zenon DEF SignalsTypeOK, OneThread
  <2>2. s \notin registeredSignals_[g]
    BY <1>1, <2>1, Zenon DEF Apart
  <2> QED
    BY <1>1, <2>2, Zenon DEF Found
<1>4. Blocked'
  BY <1>0, Zenon DEF Blocked, Safe
<1> QED
  BY <1>2, <1>3, <1>4, Zenon

(* Every step keeps the invariant.                                         *)
LEMMA InvStep == SignalsInv /\ [SignalsNext]_signalsVars => SignalsInv'
<1> SUFFICES ASSUME SignalsInv, [SignalsNext]_signalsVars
             PROVE  OneThread' /\ Apart' /\ Found' /\ Blocked'
  BY SignalsTypeStep, Zenon DEF SignalsInv
<1> USE DEF SignalsInv
<1>1. ASSUME NEW s \in Signals, kill(s)
      PROVE  OneThread' /\ Apart' /\ Found' /\ Blocked'
  BY <1>1, KillStep, Zenon
<1>2. ASSUME NEW s \in Signals, NEW h \in Handlers,
             registerSignalHandler(h, s) \/ unregisterSignalHandler(h, s)
      PROVE  OneThread' /\ Apart' /\ Found' /\ Blocked'
  BY <1>2, SetupStep, Zenon DEF registerSignalHandler, unregisterSignalHandler
<1>3. CASE updateSignalfd
  BY <1>3, UpdateStep, Zenon
<1>4. CASE startThreads
  <2>1. setup = None /\ others' = mask
    BY <1>4, Zenon DEF startThreads
  <2>2. Blocked'
    BY <1>4, <2>1, Zenon DEF startThreads, kernelVars, setupVars, Blocked, Safe
  <2> QED
    BY <1>4, <2>2, Zenon
    DEF startThreads, kernelVars, loopVars, setupVars, OneThread, Apart, Found
<1>5. CASE poll
  <2>1. /\ registeredSignals_' = registeredSignals_
        /\ pending' = pending /\ shared' = shared
        /\ reading = None /\ reading' = None /\ setup = None /\ setup' = None
        /\ mask' = mask /\ phase' = "running"
    BY <1>5, Zenon DEF poll, free, kernelVars, setupVars
  <2>2. \A h \in Handlers : h \in polled' => registeredSignals_[h] \cap pending # {}
    BY <1>5, SignalsAssumption, Zenon DEF poll, ready
  <2>3. OneThread' /\ Apart' /\ Found'
    BY <2>1, <2>2, SignalsAssumption, Zenon DEF OneThread, Apart, Found
  <2> QED
    BY <1>5, <2>3, Zenon DEF poll, kernelVars, setupVars, Blocked, Safe
<1>6. ASSUME NEW h \in Handlers, callback(h)
      PROVE  OneThread' /\ Apart' /\ Found' /\ Blocked'
  <2>1. /\ registeredSignals_' = registeredSignals_
        /\ pending' = pending /\ shared' = shared
        /\ h \in polled /\ polled' = polled \ {h} /\ reading' = h
        /\ reading = None /\ setup = None /\ setup' = None
        /\ mask' = mask /\ phase' = phase
    BY <1>6, Zenon DEF callback, free, kernelVars, setupVars
  <2>2. OneThread' /\ Apart' /\ Found'
    BY <2>1, Zenon DEF OneThread, Apart, Found
  <2> QED
    BY <1>6, <2>2, Zenon DEF callback, kernelVars, setupVars, Blocked, Safe
<1>7. CASE readSignal
  BY <1>7, ReadStep, Zenon
<1>8. CASE run \/ runReturns \/ stopCallback
  <2>1. /\ registeredSignals_' = registeredSignals_
        /\ pending' = pending /\ shared' = shared
        /\ polled' \subseteq polled /\ reading' = reading /\ reading = None
        /\ setup = None /\ setup' = None /\ mask' = mask
        /\ phase' = "stopped" => polled' = {}
    BY <1>8, Zenon DEF run, runReturns, stopCallback, free, kernelVars, setupVars, OneThread
  <2>2. OneThread' /\ Apart' /\ Found'
    BY <2>1, Zenon DEF OneThread, Apart, Found
  <2> QED
    BY <1>8, <2>2, Zenon
    DEF run, runReturns, stopCallback, kernelVars, setupVars, Blocked, Safe
<1>9. ASSUME NEW h \in Handlers, destroy(h)
      PROVE  OneThread' /\ Apart' /\ Found' /\ Blocked'
  <2>1. \A g \in Handlers : registeredSignals_'[g] \subseteq registeredSignals_[g]
    BY <1>9, Zenon DEF destroy, SignalsTypeOK
  <2>2. /\ polled = {} /\ polled' = {} /\ reading = None /\ reading' = None
        /\ setup = None /\ setup' = None /\ pending' = pending /\ mask' = mask
        /\ shared' = shared /\ lost' = lost /\ late' = late
        /\ started' = started /\ others' = others
    BY <1>9, Zenon DEF destroy, OneThread, kernelVars, loopVars
  <2>3. OneThread' /\ Found' /\ Apart'
    BY <2>1, <2>2, SignalsAssumption, Zenon DEF OneThread, Found, Apart
  <2>4. Blocked'
    BY <2>1, <2>2, Zenon DEF Blocked, Safe
  <2> QED
    BY <2>3, <2>4, Zenon
<1>10. CASE UNCHANGED signalsVars
  BY <1>10, Zenon
     DEF signalsVars, kernelVars, loopVars, setupVars, OneThread, Apart, Found, Blocked, Safe
<1> QED
  BY <1>1, <1>2, <1>3, <1>4, <1>5, <1>6, <1>7, <1>8, <1>9, <1>10, Zenon
  DEF SignalsNext, LoopStep

(* The invariant holds throughout.                                         *)
LEMMA SignalsInvariance == SignalsSpec => []SignalsInv
BY SignalsInitInv, InvStep, PTL DEF SignalsSpec
-------------------------------------------------------------------------------
(* The handlers' signals, the masks and the state of the loop keep their   *)
(* types.                                                                  *)
THEOREM SignalsTypeCorrect == SignalsSpec => []SignalsTypeOK
<1>1. SignalsInv => SignalsTypeOK
  BY Zenon DEF SignalsInv
<1> QED
  BY <1>1, SignalsInvariance, PTL

(* The read() of a callback never blocks the loop: see ReadsDoNotBlock.    *)
THEOREM ReadsFindASignal == SignalsSpec => []ReadsDoNotBlock
<1>1. SignalsInv => ReadsDoNotBlock
  BY Zenon DEF SignalsInv, SignalsTypeOK, Found, ReadsDoNotBlock
<1> QED
  BY <1>1, SignalsInvariance, PTL

(* No signal with a handler takes its default disposition: see             *)
(* RegisteredIsDelivered.                                                  *)
THEOREM NoSignalIsLost == SignalsSpec => []RegisteredIsDelivered
<1>1. SignalsInv => RegisteredIsDelivered
  BY Zenon DEF SignalsInv, SignalsTypeOK, Blocked, RegisteredIsDelivered
<1> QED
  BY <1>1, SignalsInvariance, PTL
-------------------------------------------------------------------------------
(* Progress of the handlers.  ENABLED is left as it is: that the thread of *)
(* the loop can take a step where SignalsCanStep says so is a hypothesis   *)
(* of the theorems.                                                        *)
LoopReady ==
  \/ reading # None /\ registeredSignals_[reading] \cap pending # {}
  \/ free /\ phase = "running" /\ (polled # {} \/ stop_ = TRUE \/ ready # {})

SignalsCanStep ==
  /\ setup # None => ENABLED <<updateSignalfd>>_signalsVars
  /\ LoopReady => ENABLED <<LoopStep>>_signalsVars

(* A round of the loop ends, unless a read() finds nothing because another *)
(* handler has taken its signal.                                           *)
RoundEnds == (polled # {}) ~> (polled = {} \/ shared = TRUE)

(* Nothing is polled or read before run().                                 *)
NotYet == phase = "ready" => polled = {} /\ reading = None

(* What a step of the loop's thread does to polled and reading.            *)
LEMMA RoundStep ==
  ASSUME SignalsInv, NotYet, [SignalsNext]_signalsVars
  PROVE  /\ NotYet'
         /\ phase = "running" => phase' \in {"running", "stopped"}
         /\ polled # {} => phase = "running"
         /\ \/ UNCHANGED <<polled, reading>>
            \/ poll
            \/ \E h \in Handlers : callback(h)
            \/ readSignal
            \/ stopCallback
<1>1. polled # {} => phase = "running"
  BY Zenon DEF NotYet, SignalsInv, SignalsTypeOK, OneThread
<1>2. \/ UNCHANGED <<polled, reading>>
      \/ poll
      \/ \E h \in Handlers : callback(h)
      \/ readSignal
      \/ stopCallback
  BY Zenon DEF SignalsNext, LoopStep, kill, registerSignalHandler, unregisterSignalHandler,
       setupSignal, updateSignalfd, startThreads, run, runReturns, destroy, signalsVars,
       loopVars
<1>3. phase = "running" => phase' \in {"running", "stopped"}
  BY Zenon DEF SignalsNext, LoopStep, kill, registerSignalHandler, unregisterSignalHandler,
       setupSignal, updateSignalfd, startThreads, run, poll, callback, readSignal,
       stopCallback, runReturns, destroy, signalsVars, loopVars
<1>4. phase' = "ready" => phase = "ready"
  BY Zenon DEF SignalsNext, LoopStep, kill, registerSignalHandler, unregisterSignalHandler,
       setupSignal, updateSignalfd, startThreads, run, poll, callback, readSignal,
       stopCallback, runReturns, destroy, signalsVars, loopVars
<1>5. NotYet'
  BY <1>2, <1>4, Zenon DEF NotYet, poll, callback, readSignal, stopCallback
<1> QED
  BY <1>1, <1>2, <1>3, <1>5, Zenon

(* The invariant, with NotYet.                                             *)
LEMMA RoundInvariance == SignalsSpec => [](SignalsInv /\ NotYet)
<1>1. SignalsInit => NotYet
  BY Zenon DEF SignalsInit, NotYet
<1> QED
  BY <1>1, RoundStep, SignalsInvariance, PTL DEF SignalsSpec

(* A step of the loop, by what the round has still to call.                *)
LEMMA LoopSteps ==
  ASSUME SignalsInv, LoopStep
  PROVE  /\ reading # None => reading' = None /\ polled' = polled
         /\ reading = None /\ polled # {} => polled' \subseteq polled /\ polled' # polled
         /\ reading = None /\ polled = {} => polled' = ready \/ phase' = "stopped"
<1>1. reading # None => readSignal
  BY Zenon DEF LoopStep, poll, callback, stopCallback, runReturns, free
<1>2. readSignal => reading # None /\ reading' = None /\ polled' = polled
  BY Zenon DEF readSignal
<1>3. ASSUME reading = None, polled # {}
      PROVE  polled' \subseteq polled /\ polled' # polled
  <2>1. (\E h \in Handlers : callback(h)) \/ stopCallback
    BY <1>2, <1>3, Zenon DEF LoopStep, poll, runReturns
  <2> QED
    BY <2>1, Zenon DEF callback, stopCallback
<1>4. ASSUME reading = None, polled = {}
      PROVE  polled' = ready \/ phase' = "stopped"
  BY <1>2, <1>4, Zenon DEF LoopStep, poll, callback, stopCallback, runReturns
<1> QED
  BY <1>1, <1>2, <1>3, <1>4, Zenon

(* A round ends (RoundEnds) but for counting its descriptors: every step   *)
(* leaves fewer of them to be called.                                      *)
THEOREM RoundGoesOn ==
  SignalsFairSpec /\ []SignalsCanStep =>
    \A S : (polled = S /\ S # {})
              ~> ((polled \subseteq S /\ polled # S) \/ shared = TRUE)
<1>1. SignalsFairSpec => [](SignalsInv /\ NotYet)
  BY RoundInvariance, PTL DEF SignalsFairSpec
<1>2. ASSUME NEW S
      PROVE  SignalsFairSpec /\ []SignalsCanStep =>
               ((polled = S /\ S # {})
                   ~> ((polled \subseteq S /\ polled # S) \/ shared = TRUE))
  <2> DEFINE I == SignalsInv /\ NotYet
             P == polled = S /\ S # {}
             Q == (polled \subseteq S /\ polled # S) \/ shared = TRUE
             R == reading # None
  <2>1. I /\ P /\ [SignalsNext]_signalsVars => P' \/ Q'
    <3> SUFFICES ASSUME I, P, [SignalsNext]_signalsVars
                 PROVE  polled' \subseteq S
      BY Zenon
    <3> QED
      BY RoundStep, Zenon DEF poll, callback, readSignal, stopCallback
  <2>2. I /\ P /\ ~R /\ [SignalsNext]_signalsVars => ~R' \/ Q'
    BY RoundStep, Zenon DEF poll, callback, readSignal, stopCallback
  <2>3. I /\ P /\ LoopStep => (R => ~R') /\ (~R => Q')
    BY LoopSteps, Zenon
  <2>4. I /\ SignalsCanStep /\ P /\ R => Q \/ ENABLED <<LoopStep>>_signalsVars
    <3>1. ASSUME I, R, shared # TRUE
          PROVE  LoopReady
      BY <3>1, Zenon DEF SignalsInv, SignalsTypeOK, Found, LoopReady
    <3> QED
      BY <3>1, Zenon DEF SignalsCanStep
  <2>5. I /\ SignalsCanStep /\ P /\ ~R /\ setup = None => ENABLED <<LoopStep>>_signalsVars
    <3>1. ASSUME I, P, ~R, setup = None
          PROVE  LoopReady
      BY <3>1, Zenon DEF SignalsInv, SignalsTypeOK, OneThread, NotYet, LoopReady, free
    <3> QED
      BY <3>1, Zenon DEF SignalsCanStep
  <2>6. SignalsCanStep /\ setup # None => ENABLED <<updateSignalfd>>_signalsVars
    BY Zenon DEF SignalsCanStep
  <2>7. updateSignalfd => (setup = None)'
    BY Zenon DEF updateSignalfd
  <2> DEFINE U == setup = None
  <2>8. /\ I /\ SignalsCanStep /\ P /\ ~R /\ U => ENABLED <<LoopStep>>_signalsVars
        /\ SignalsCanStep /\ ~U => ENABLED <<updateSignalfd>>_signalsVars
        /\ updateSignalfd => U'
    BY <2>5, <2>6, <2>7, Zenon
  <2> HIDE DEF P, Q, R, U
  <2>9. SignalsFairSpec /\ []SignalsCanStep => (P ~> Q)
    BY <1>1, <2>1, <2>2, <2>3, <2>4, <2>8, PTL DEF SignalsFairSpec, SignalsSpec, I
  <2> QED
    BY <2>9, Zenon DEF P, Q
<1> QED
  BY <1>2, Zenon

(* A handler that has a pending signal is called, unless the loop ends     *)
(* first, if no round goes on for ever.                                    *)
THEOREM SignalsAreHandled ==
  SignalsFairSpec /\ []SignalsCanStep /\ RoundEnds => SignalIsHandled
<1>1. SignalsFairSpec => [](SignalsInv /\ NotYet)
  BY RoundInvariance, PTL DEF SignalsFairSpec
<1> DEFINE Has(h) == registeredSignals_[h] \cap pending # {}
           Before(h) == phase = "running" /\ registeredSignals_[h] \cap pending # {} /\ ~shared
           After(h) == \/ reading = h \/ registeredSignals_[h] \cap pending = {}
                       \/ shared \/ phase = "stopped"
<1>2. ASSUME NEW h \in Handlers
      PROVE  SignalsFairSpec /\ []SignalsCanStep /\ RoundEnds => (Before(h) ~> After(h))
  <2> DEFINE I == SignalsInv /\ NotYet
             P == Before(h)
             Q == After(h)
             H == h \in polled
             E == polled = {}
             F == polled # {}
             R == reading # None
             U == setup = None
             Sh == shared = TRUE
  <2>1. I /\ P /\ [SignalsNext]_signalsVars => P' \/ Q'
    <3>1. I /\ phase = "running" /\ [SignalsNext]_signalsVars =>
            phase' \in {"running", "stopped"}
      BY RoundStep, Zenon
    <3>2. I /\ phase = "running" /\ [SignalsNext]_signalsVars =>
            phase' = "running" \/ phase' = "stopped"
      BY <3>1, Zenon
    <3> QED
      BY <3>2, Zenon
  <2>2. I /\ H /\ [SignalsNext]_signalsVars => H' \/ Q'
    <3>1. I /\ H /\ [SignalsNext]_signalsVars => H' \/ reading' = h
      BY RoundStep, SignalsAssumption, Zenon DEF poll, callback, readSignal, stopCallback
    <3> QED
      BY <3>1, Zenon
  <2>3. I /\ P /\ E /\ [SignalsNext]_signalsVars => E' \/ H'
    <3>1. I /\ Has(h) /\ E /\ [SignalsNext]_signalsVars => E' \/ H'
      BY RoundStep, Zenon DEF poll, callback, readSignal, stopCallback, ready
    <3>2. P => Has(h)
      BY Zenon
    <3> QED
      BY <3>1, <3>2, Zenon
  <2>4. I /\ E /\ ~R /\ [SignalsNext]_signalsVars => ~R'
    BY RoundStep, Zenon DEF poll, callback, readSignal, stopCallback
  <2>5. I /\ P /\ E /\ LoopStep => (R => ~R') /\ (~R => H' \/ Q')
    <3>1. I /\ Has(h) /\ E /\ LoopStep => (R => ~R') /\ (~R => H' \/ phase' = "stopped")
      BY LoopSteps, Zenon DEF ready
    <3>2. P => Has(h)
      BY Zenon
    <3> QED
      BY <3>1, <3>2, Zenon
  <2>6. I /\ SignalsCanStep /\ P /\ R => ENABLED <<LoopStep>>_signalsVars
    <3>1. ASSUME I, R, shared # TRUE
          PROVE  LoopReady
      BY <3>1, Zenon DEF SignalsInv, SignalsTypeOK, Found, LoopReady
    <3>2. P => shared # TRUE
      BY Zenon
    <3> QED
      BY <3>1, <3>2, Zenon DEF SignalsCanStep
  <2>7. I /\ SignalsCanStep /\ P /\ ~R /\ U => ENABLED <<LoopStep>>_signalsVars
    <3>1. ASSUME Has(h), phase = "running", ~R, U
          PROVE  LoopReady
      BY <3>1, Zenon DEF LoopReady, free, ready
    <3>2. P => Has(h) /\ phase = "running"
      BY Zenon
    <3> QED
      BY <3>1, <3>2, Zenon DEF SignalsCanStep
  <2>8. /\ SignalsCanStep /\ ~U => ENABLED <<updateSignalfd>>_signalsVars
        /\ updateSignalfd => U'
        /\ H => ~E
        /\ F <=> ~E
        /\ Sh => Q
    BY Zenon DEF SignalsCanStep, updateSignalfd
  <2>9. RoundEnds => (F ~> (E \/ Sh))
    BY Zenon DEF RoundEnds
  <2> HIDE DEF P, Q, H, E, F, R, U, Sh
  <2>10. SignalsFairSpec /\ []SignalsCanStep /\ RoundEnds => (P ~> Q)
    BY <1>1, <2>1, <2>2, <2>3, <2>4, <2>5, <2>6, <2>7, <2>8, <2>9, PTL
       DEF SignalsFairSpec, SignalsSpec, I
  <2> QED
    BY <2>10, Zenon DEF P, Q
<1> QED
  BY <1>2, Zenon DEF SignalIsHandled
-------------------------------------------------------------------------------
(* SocketWait.                                                             *)

(* A message that is begun has its room.                                   *)
PipeInv ==
  /\ room + freed <= Hwm
  /\ closed = FALSE /\ isSendingMore_ = TRUE => room > 0

(* Who is woken finds what it was woken for.                               *)
WokenInv ==
  /\ closed = FALSE /\ reader = "woken" => msgs > 0
  /\ closed = FALSE /\ reader = "woken" => active = TRUE
  /\ closed = FALSE /\ writer = "woken" => room > 0

Inv == TypeOK /\ PipeInv /\ WokenInv /\ NoSpuriousError /\ WaitersAreRecorded
-------------------------------------------------------------------------------
(* The invariant holds of a new socket.                                    *)
LEMMA InitInv == Init => Inv
<1> SUFFICES ASSUME Init PROVE Inv
  BY Zenon
<1>1. msgs \in 0..MaxMsgs /\ room \in 0..Hwm /\ freed \in 0..Hwm
  BY WaitAssumption DEF Init
<1>2. TypeOK
  BY <1>1, Zenon DEF Init, TypeOK, Ends
<1>3. PipeInv /\ WokenInv
  BY WaitAssumption DEF Init, PipeInv, WokenInv
<1>4. NoSpuriousError /\ WaitersAreRecorded
  BY Zenon DEF Init, NoSpuriousError, WaitersAreRecorded
<1> QED
  BY <1>2, <1>3, <1>4, Zenon DEF Inv

(* The steps of the peer.                                                  *)
LEMMA PeerStep == Inv /\ (arrive \/ peerTakes) => Inv'
<1> SUFFICES ASSUME Inv, arrive \/ peerTakes PROVE Inv'
  BY Zenon
<1> USE DEF Inv, handlerVars, readerVars, writerVars
<1>0. UNCHANGED <<active, room, handlerVars, readerVars, writerVars, closed, alone>>
  BY Zenon DEF arrive, peerTakes
<1>1. /\ msgs' \in 0..MaxMsgs /\ msgs' >= msgs
      /\ freed' \in 0..Hwm /\ room + freed' <= Hwm
  BY WaitAssumption DEF TypeOK, PipeInv, arrive, peerTakes
<1>2. signal' \in BOOLEAN
  BY Zenon DEF TypeOK, arrive, peerTakes
<1>3. TypeOK'
  BY <1>0, <1>1, <1>2, Zenon DEF TypeOK
<1>4. msgs > 0 => msgs' > 0
  BY <1>1 DEF TypeOK
<1>5. PipeInv' /\ WokenInv'
  BY <1>0, <1>1, <1>4, Zenon DEF PipeInv, WokenInv
<1>6. NoSpuriousError' /\ WaitersAreRecorded'
  BY <1>0, Zenon DEF NoSpuriousError, WaitersAreRecorded
<1> QED
  BY <1>3, <1>5, <1>6, Zenon

(* What processing the commands does to the outbound pipe.                 *)
LEMMA CommandsKeep ==
  ASSUME TypeOK, PipeInv, NEW does \in BOOLEAN, processCommands(does)
  PROVE  /\ room' \in 0..Hwm /\ freed' \in 0..Hwm /\ room' + freed' <= Hwm
         /\ room' >= room /\ signal' \in BOOLEAN
<1>1. CASE does = TRUE
  <2>1. room' = room + freed /\ freed' = 0
    BY <1>1, Zenon DEF processCommands
  <2>2. signal' \in BOOLEAN
    BY Zenon DEF processCommands
  <2> QED
    BY <2>1, <2>2, WaitAssumption DEF TypeOK, PipeInv
<1>2. CASE does = FALSE
  <2>1. room' = room /\ freed' = freed
    BY <1>2, Zenon DEF processCommands
  <2>2. signal' \in BOOLEAN
    BY Zenon DEF processCommands
  <2> QED
    BY <2>1, <2>2, WaitAssumption DEF TypeOK, PipeInv
<1> QED
  BY <1>1, <1>2, Zenon

(* The two ways a receive ends.                                            *)
RecvFound ==
  /\ POLLIN /\ \E does \in BOOLEAN : processCommands(does)
  /\ msgs' = msgs - 1 /\ active' = TRUE
  /\ received' = "ok" /\ reader' = "idle" /\ UNCHANGED handlerVars

RecvNothing ==
  ~POLLIN /\ processCommands(TRUE) /\ active' = FALSE /\ UNCHANGED msgs

(* A receive keeps the outbound side.                                      *)
LEMMA RecvKeeps ==
  ASSUME Inv, RecvFound \/ RecvNothing
  PROVE  /\ room' \in 0..Hwm /\ freed' \in 0..Hwm /\ room' + freed' <= Hwm
         /\ room > 0 => room' > 0
         /\ signal' \in BOOLEAN /\ active' \in BOOLEAN /\ msgs' \in 0..MaxMsgs
<1>1. /\ room' \in 0..Hwm /\ freed' \in 0..Hwm /\ room' + freed' <= Hwm
      /\ room' >= room /\ signal' \in BOOLEAN
  BY CommandsKeep, Zenon DEF Inv, RecvFound, RecvNothing
<1>2. room > 0 => room' > 0
  BY <1>1 DEF Inv, TypeOK
<1>3. msgs' \in 0..MaxMsgs
  <2>1. msgs \in 0..MaxMsgs
    BY Zenon DEF Inv, TypeOK
  <2>2. (msgs > 0 /\ msgs' = msgs - 1) \/ msgs' = msgs
    BY Zenon DEF RecvFound, RecvNothing, POLLIN
  <2> QED
    BY <2>1, <2>2, WaitAssumption
<1>4. active' \in BOOLEAN
  BY Zenon DEF RecvFound, RecvNothing
<1> QED
  BY <1>1, <1>2, <1>3, <1>4, Zenon

(* The reader receives at once, or waits.                                  *)
LEMMA RecvAsyncStep ==
  ASSUME Inv, NEW t \in BOOLEAN, recvAsync(t)
  PROVE  Inv'
<1> USE DEF Inv, writerVars
<1>0. /\ closed = FALSE /\ closed' = FALSE /\ reader = "idle" /\ timed' \in BOOLEAN
      /\ UNCHANGED writerVars /\ alone' \subseteq {READ, WRITE}
  BY Zenon DEF recvAsync, TypeOK
<1>1. \/ RecvFound
      \/ RecvNothing /\ reader' = "waiting" /\ coroWaitImpl(READ) /\ received' = received
  BY Zenon DEF recvAsync, recv, RecvFound, RecvNothing
<1>2. /\ reader' \in {"idle", "waiting"} /\ received' \in {"ok", received}
      /\ waitEvents_' \subseteq {READ, WRITE} /\ registered' \subseteq {READ, WRITE}
      /\ persist' \in BOOLEAN
  BY <1>1, Zenon DEF RecvFound, coroWaitImpl, registerHandler, handlerVars, TypeOK
<1>3. TypeOK'
  BY <1>0, <1>1, <1>2, RecvKeeps, Zenon DEF TypeOK, Ends
<1>4. PipeInv'
  BY <1>0, <1>1, RecvKeeps, Zenon DEF PipeInv
<1>5. WokenInv'
  BY <1>0, <1>1, <1>2, RecvKeeps, Zenon DEF WokenInv
<1>6. NoSpuriousError'
  BY <1>0, <1>2, Zenon DEF NoSpuriousError
<1>7. WaitersAreRecorded'
  BY <1>0, <1>1, Zenon
     DEF WaitersAreRecorded, RecvFound, coroWaitImpl, registerHandler, handlerVars, READ, WRITE
<1> QED
  BY <1>3, <1>4, <1>5, <1>6, <1>7, Zenon

(* The woken reader finds its message, unless the socket is closed.        *)
LEMMA RecvResumedStep ==
  ASSUME Inv, recvResumed
  PROVE  Inv'
<1> USE DEF Inv
<1>0. /\ reader = "woken" /\ reader' = "idle" /\ closed' = closed
      /\ UNCHANGED <<timed, writerVars, handlerVars>> /\ alone' \subseteq {READ, WRITE}
  BY Zenon DEF recvResumed, recv, TypeOK
<1>1. CASE closed = FALSE
  <2>1. POLLIN
    <3>1. msgs > 0 /\ active = TRUE
      BY <1>0, <1>1, Zenon DEF WokenInv
    <3> QED
      BY <3>1, Zenon DEF POLLIN
  <2>2. RecvFound
    BY <1>0, <1>1, <2>1, Zenon DEF recvResumed, recv, RecvFound
  <2>3. received' = "ok"
    BY <2>2, Zenon DEF RecvFound
  <2>4. TypeOK'
    BY <1>0, <2>2, <2>3, RecvKeeps, Zenon DEF TypeOK, Ends, writerVars, handlerVars
  <2>5. PipeInv' /\ WokenInv'
    BY <1>0, <2>2, RecvKeeps, Zenon DEF PipeInv, WokenInv, writerVars
  <2>6. NoSpuriousError' /\ WaitersAreRecorded'
    BY <1>0, <2>3, Zenon DEF NoSpuriousError, WaitersAreRecorded, writerVars, handlerVars
  <2> QED
    BY <2>4, <2>5, <2>6, Zenon
<1>2. CASE closed = TRUE
  <2>1. received' = "ENOTSOCK" /\ UNCHANGED zmqVars
    BY <1>2, Zenon DEF recvResumed
  <2>2. TypeOK'
    BY <1>0, <2>1, Zenon DEF TypeOK, Ends, zmqVars, writerVars, handlerVars
  <2>3. PipeInv' /\ WokenInv'
    BY <1>0, <1>2, <2>1, Zenon DEF PipeInv, WokenInv, zmqVars
  <2>4. NoSpuriousError' /\ WaitersAreRecorded'
    BY <1>0, <1>2, <2>1, Zenon DEF NoSpuriousError, WaitersAreRecorded, writerVars
  <2> QED
    BY <2>2, <2>3, <2>4, Zenon
<1> QED
  BY <1>1, <1>2, Zenon DEF TypeOK

(* A reader that times out leaves the other's registration.                *)
LEMMA TimeoutStep ==
  ASSUME Inv, fiberWaitTimeout
  PROVE  Inv'
<1> USE DEF Inv
<1>0. /\ reader' = "idle" /\ received' = "timeout"
      /\ UNCHANGED <<zmqVars, timed, writerVars, closed>>
      /\ alone' \subseteq {READ, WRITE} /\ waitEvents_' = waitEvents_ \ {READ}
  BY Zenon DEF fiberWaitTimeout, TypeOK
<1>1. persist' = FALSE /\ registered' = waitEvents_'
  BY Zenon DEF fiberWaitTimeout, unregisterHandler, registerHandler
<1>2. TypeOK'
  BY <1>0, <1>1, Zenon DEF TypeOK, Ends, zmqVars, writerVars
<1>3. PipeInv' /\ WokenInv'
  BY <1>0, Zenon DEF PipeInv, WokenInv, zmqVars, writerVars
<1>4. NoSpuriousError' /\ WaitersAreRecorded'
  BY <1>0, <1>1, Zenon DEF NoSpuriousError, WaitersAreRecorded, writerVars, READ, WRITE
<1> QED
  BY <1>2, <1>3, <1>4, Zenon

(* A send that has room succeeds, and the pipe keeps its accounts.         *)
LEMMA SendKeeps ==
  ASSUME Inv, room > 0, NEW m \in BOOLEAN, send(m)
  PROVE  /\ room' \in 0..Hwm /\ freed' \in 0..Hwm /\ room' + freed' <= Hwm
         /\ m = TRUE => room' > 0
         /\ active = TRUE => active' = TRUE
         /\ {signal', active'} \subseteq BOOLEAN
         /\ sent' = "ok" /\ writer' = "idle" /\ isSendingMore_' = m /\ msgs' = msgs
<1> DEFINE known(does) == IF does THEN room + freed ELSE room
<1>1. PICK does \in BOOLEAN :
        /\ signal' = (signal /\ ~does) /\ freed' = IF does THEN 0 ELSE freed
        /\ active' = (active \/ (does /\ POLLIN))
        /\ IF known(does) > 0 THEN sent' = "ok" /\ room' = known(does) - IF m THEN 0 ELSE 1
                              ELSE sent' = "EAGAIN" /\ room' = known(does)
  BY Zenon DEF send
<1>2. /\ room \in 0..Hwm /\ freed \in 0..Hwm /\ room + freed <= Hwm
      /\ Hwm \in Nat
  BY WaitAssumption, Zenon DEF Inv, TypeOK, PipeInv
<1>3. known(does) > 0 /\ known(does) \in 0..Hwm /\ known(does) + freed' <= Hwm
      /\ freed' \in 0..Hwm
  <2>1. CASE does = TRUE
    <3>1. known(does) = room + freed /\ freed' = 0
      BY <1>1, <2>1, Zenon
    <3> QED
      BY <3>1, <1>2
  <2>2. CASE does = FALSE
    <3>1. known(does) = room /\ freed' = freed
      BY <1>1, <2>2, Zenon
    <3> QED
      BY <3>1, <1>2, Zenon
  <2> QED
    BY <2>1, <2>2, Zenon
<1> HIDE DEF known
<1>4. sent' = "ok" /\ room' = known(does) - IF m THEN 0 ELSE 1
  BY <1>1, <1>3, Zenon
<1>5. /\ m = TRUE => room' = known(does)
      /\ m = FALSE => room' = known(does) - 1
  <2>1. \A n \in Nat : n - 0 = n
    OBVIOUS
  <2>2. m = TRUE => room' = known(does) - 0
    BY <1>4, Zenon
  <2>3. m = FALSE => room' = known(does) - 1
    BY <1>4, Zenon
  <2>4. known(does) \in Nat
    BY <1>2, <1>3
  <2> QED
    BY <2>1, <2>2, <2>3, <2>4, Zenon
<1>6. room' \in 0..Hwm /\ room' + freed' <= Hwm /\ (m = TRUE => room' > 0)
  <2>1. room' = known(does) \/ room' = known(does) - 1
    BY <1>5, Zenon
  <2>2. room' \in 0..Hwm /\ room' + freed' <= Hwm
    BY <2>1, <1>2, <1>3
  <2> QED
    BY <2>2, <1>3, <1>5, Zenon
<1>7. {signal', active'} \subseteq BOOLEAN /\ (active = TRUE => active' = TRUE)
  BY <1>1, Zenon
<1> QED
  BY <1>3, <1>4, <1>6, <1>7, Zenon DEF send

(* The writer begins to wait.                                              *)
LEMMA SendWaitsStep ==
  ASSUME Inv, NEW m \in BOOLEAN, sendWaits(m)
  PROVE  Inv'
<1> USE DEF Inv
<1>0. /\ writer' = "waiting" /\ more' \in BOOLEAN /\ alone' \subseteq {READ, WRITE}
      /\ UNCHANGED <<zmqVars, readerVars, sent, isSendingMore_, closed>>
  BY Zenon DEF sendWaits, TypeOK
<1>1. /\ waitEvents_' = waitEvents_ \cup {WRITE} /\ registered' = waitEvents_'
      /\ persist' = TRUE
  BY Zenon DEF sendWaits, coroWaitImpl, registerHandler
<1>2. TypeOK'
  BY <1>0, <1>1, Zenon DEF TypeOK, zmqVars, readerVars
<1>3. PipeInv' /\ WokenInv'
  BY <1>0, Zenon DEF PipeInv, WokenInv, zmqVars, readerVars
<1>4. NoSpuriousError' /\ WaitersAreRecorded'
  BY <1>0, <1>1, Zenon DEF NoSpuriousError, WaitersAreRecorded, readerVars, READ, WRITE
<1> QED
  BY <1>2, <1>3, <1>4, Zenon

(* A part is sent, at once or by the woken writer.                         *)
LEMMA SendStep ==
  ASSUME Inv, (\E m \in BOOLEAN : sendNext(m)) \/ sendResumed
  PROVE  Inv'
<1> USE DEF Inv
<1>0. /\ more' \in BOOLEAN /\ alone' \subseteq {READ, WRITE}
      /\ UNCHANGED <<handlerVars, readerVars, closed>> /\ writer # "waiting"
  BY Zenon DEF sendNext, sendResumed, TypeOK
<1>1. CASE closed = FALSE
  <2>1. room > 0
    BY <1>1, Zenon DEF sendNext, sendResumed, TypeOK, PipeInv, WokenInv
  <2>2. PICK m \in BOOLEAN : send(m)
    BY <1>1, Zenon DEF sendNext, sendResumed, TypeOK
  <2>3. /\ room' \in 0..Hwm /\ freed' \in 0..Hwm /\ room' + freed' <= Hwm
        /\ m = TRUE => room' > 0
        /\ active = TRUE => active' = TRUE
        /\ {signal', active'} \subseteq BOOLEAN
        /\ sent' = "ok" /\ writer' = "idle" /\ isSendingMore_' = m /\ msgs' = msgs
    BY <2>1, <2>2, SendKeeps, Zenon
  <2>4. TypeOK'
    BY <1>0, <2>3, Zenon DEF TypeOK, Ends, handlerVars, readerVars
  <2>5. PipeInv' /\ WokenInv'
    BY <1>0, <2>3, Zenon DEF PipeInv, WokenInv, readerVars
  <2>6. NoSpuriousError' /\ WaitersAreRecorded'
    BY <1>0, <2>3, Zenon DEF NoSpuriousError, WaitersAreRecorded, handlerVars, readerVars
  <2> QED
    BY <2>4, <2>5, <2>6, Zenon
<1>2. CASE closed = TRUE
  <2>1. sent' = "ENOTSOCK" /\ writer' = "idle" /\ isSendingMore_' = more /\ UNCHANGED zmqVars
    BY <1>2, Zenon DEF sendNext, sendResumed
  <2>2. TypeOK'
    BY <1>0, <2>1, Zenon DEF TypeOK, Ends, zmqVars, handlerVars, readerVars
  <2>3. PipeInv' /\ WokenInv'
    BY <1>0, <1>2, <2>1, Zenon DEF PipeInv, WokenInv, zmqVars
  <2>4. NoSpuriousError' /\ WaitersAreRecorded'
    BY <1>0, <1>2, <2>1, Zenon DEF NoSpuriousError, WaitersAreRecorded, readerVars
  <2> QED
    BY <2>2, <2>3, <2>4, Zenon
<1> QED
  BY <1>1, <1>2, Zenon DEF TypeOK

(* The handler wakes those for whom there is something.                    *)
LEMMA HandlerStep ==
  ASSUME Inv, handlerReady
  PROVE  Inv'
<1> USE DEF Inv
<1> DEFINE w == waitEvents_ \cap woken
<1>0. /\ closed = FALSE
      /\ UNCHANGED <<msgs, timed, received, more, sent, isSendingMore_, closed, alone>>
      /\ processCommands(TRUE) /\ active' = POLLIN
      /\ waitEvents_' = waitEvents_ \ w
      /\ reader' = IF READ \in w THEN "woken" ELSE reader
      /\ writer' = IF WRITE \in w THEN "woken" ELSE writer
  BY Zenon DEF handlerReady, TypeOK
<1>1. /\ READ \in w => POLLIN
      /\ WRITE \in w => POLLOUT
  BY Zenon DEF woken, READ, WRITE
<1>2. registered' \subseteq waitEvents_' /\ persist' \in BOOLEAN
  BY Zenon DEF handlerReady, unregisterHandler, registerHandler, TypeOK, WaitersAreRecorded
<1> HIDE DEF w
<1>3. /\ room' \in 0..Hwm /\ freed' \in 0..Hwm /\ room' + freed' <= Hwm
      /\ room' >= room /\ signal' \in BOOLEAN
  BY <1>0, CommandsKeep, Zenon
<1>4. room' = room + freed
  BY <1>0, Zenon DEF processCommands
<1>5. active' \in BOOLEAN
  BY <1>0, Zenon DEF POLLIN
<1>6. TypeOK'
  BY <1>0, <1>2, <1>3, <1>5, Zenon DEF TypeOK
<1>7. room > 0 => room' > 0
  BY <1>3 DEF TypeOK
<1>8. PipeInv'
  BY <1>0, <1>3, <1>7, Zenon DEF PipeInv
<1>9. WRITE \in w => room' > 0
  BY <1>0, <1>1, <1>4, <1>7, Zenon DEF POLLOUT, PipeInv
<1>10. READ \in w \/ reader = "woken" => POLLIN
  BY <1>0, <1>1, Zenon DEF WokenInv, POLLIN
<1>11. POLLIN => msgs > 0
  BY Zenon DEF POLLIN
<1>12. WokenInv'
  BY <1>0, <1>7, <1>9, <1>10, <1>11, Zenon DEF WokenInv
<1>13. NoSpuriousError' /\ WaitersAreRecorded'
  BY <1>0, <1>2, Zenon DEF NoSpuriousError, WaitersAreRecorded, READ, WRITE
<1> QED
  BY <1>6, <1>8, <1>12, <1>13, Zenon

(* Closing wakes whoever waits.                                            *)
LEMMA CloseStep ==
  ASSUME Inv, close
  PROVE  Inv'
<1> USE DEF Inv
<1>0. /\ closed' = TRUE /\ registered' = {} /\ persist' = FALSE
      /\ reader' \in {reader, "woken"} /\ writer' \in {writer, "woken"}
      /\ UNCHANGED <<zmqVars, waitEvents_, timed, received, more, sent, isSendingMore_, alone>>
  BY Zenon DEF close, unregisterHandler
<1>1. TypeOK'
  BY <1>0, Zenon DEF TypeOK, zmqVars
<1>2. PipeInv' /\ WokenInv'
  BY <1>0, Zenon DEF PipeInv, WokenInv, zmqVars
<1>3. NoSpuriousError' /\ WaitersAreRecorded'
  BY <1>0, Zenon DEF NoSpuriousError, WaitersAreRecorded
<1> QED
  BY <1>1, <1>2, <1>3, Zenon

(* The invariant holds throughout.                                         *)
LEMMA Invariance == Spec => []Inv
<1>1. Inv /\ [Next]_vars => Inv'
  <2> SUFFICES ASSUME Inv, [Next]_vars PROVE Inv'
    BY Zenon
  <2>1. CASE UNCHANGED vars
    <3> USE DEF Inv, vars, zmqVars, handlerVars, readerVars, writerVars
    <3>1. TypeOK'
      BY <2>1, Zenon DEF TypeOK
    <3>2. PipeInv' /\ WokenInv'
      BY <2>1, Zenon DEF PipeInv, WokenInv
    <3>3. NoSpuriousError' /\ WaitersAreRecorded'
      BY <2>1, Zenon DEF NoSpuriousError, WaitersAreRecorded
    <3> QED
      BY <3>1, <3>2, <3>3, Zenon
  <2> QED
    BY <2>1, PeerStep, RecvAsyncStep, RecvResumedStep, TimeoutStep, SendWaitsStep,
      SendStep, HandlerStep, CloseStep, Zenon DEF Next
<1> QED
  BY InitInv, <1>1, PTL DEF Spec
-------------------------------------------------------------------------------
(* The pipe never has more room than the high-water mark and no more       *)
(* messages are taken than arrived.                                        *)
THEOREM TypeCorrect == Spec => []TypeOK
<1>1. Inv => TypeOK
  BY Zenon DEF Inv
<1> QED
  BY <1>1, Invariance, PTL

(* No caller sees EAGAIN after a wait: see NoSpuriousError.                *)
THEOREM WokenIsServed == Spec => []NoSpuriousError
<1>1. Inv => NoSpuriousError
  BY Zenon DEF Inv
<1> QED
  BY <1>1, Invariance, PTL

(* waitEvents_ and the registration agree with who waits: see              *)
(* WaitersAreRecorded.                                                     *)
THEOREM RegistrationIsCurrent == Spec => []WaitersAreRecorded
<1>1. Inv => WaitersAreRecorded
  BY Zenon DEF Inv
<1> QED
  BY <1>1, Invariance, PTL
-------------------------------------------------------------------------------
(* Why who waits alone is served: a message in the pipe is signalled or    *)
(* was seen, nobody waits on a closed socket, and while the other side has *)
(* not run the registration stays, but for a callback that wakes it.       *)
ServedInv ==
  /\ msgs > 0 => active = TRUE \/ signal = TRUE
  /\ closed = TRUE => reader # "waiting" /\ writer # "waiting"
  /\ reader = "waiting" /\ READ \in alone =>
       /\ active = FALSE
       /\ writer = "woken" \/ (READ \in registered /\ persist = TRUE)
  /\ writer = "waiting" /\ WRITE \in alone =>
       reader = "woken" \/ (WRITE \in registered /\ persist = TRUE)

(* The steps keep it.                                                      *)
LEMMA ServedStep == Inv /\ ServedInv /\ [Next]_vars => ServedInv'
<1> SUFFICES ASSUME Inv, ServedInv, [Next]_vars PROVE ServedInv'
  BY Zenon
<1> USE DEF Inv, ServedInv
<1>0. /\ msgs \in Nat /\ READ # WRITE
      /\ {active, signal, closed, persist} \subseteq BOOLEAN
  BY DEF TypeOK, READ, WRITE
<1>1. CASE UNCHANGED vars
  BY <1>1, Zenon DEF vars, zmqVars, handlerVars, readerVars, writerVars
<1>2. CASE arrive \/ peerTakes
  <2>1. UNCHANGED <<active, handlerVars, readerVars, writerVars, closed, alone>>
    BY <1>2, Zenon DEF arrive, peerTakes
  <2>2. active = TRUE \/ signal' = TRUE
    <3>1. CASE active = FALSE
      BY <1>2, <3>1, Zenon DEF arrive, peerTakes
    <3> QED
      BY <1>0, <3>1, Zenon
  <2> QED
    BY <2>1, <2>2, Zenon DEF handlerVars, readerVars, writerVars
<1>3. ASSUME NEW t \in BOOLEAN, recvAsync(t) PROVE ServedInv'
  <2>1. /\ closed' = FALSE /\ writer' = writer /\ WRITE \notin alone'
    BY <1>0, <1>3, Zenon DEF recvAsync, writerVars
  <2>2. \/ active' = TRUE /\ reader' = "idle"
        \/ /\ ~POLLIN /\ active' = FALSE /\ msgs' = msgs
           /\ READ \in registered' /\ persist' = TRUE
    BY <1>3, Zenon DEF recvAsync, recv, coroWaitImpl, registerHandler
  <2>3. ~POLLIN => ~(msgs > 0)
    BY Zenon DEF POLLIN
  <2> QED
    BY <2>1, <2>2, <2>3, Zenon
<1>4. CASE recvResumed
  <2>1. /\ reader' = "idle" /\ closed' = closed /\ WRITE \notin alone'
        /\ UNCHANGED writerVars
    BY <1>4, Zenon DEF recvResumed, recv
  <2>2. msgs' > 0 => active' = TRUE \/ signal' = TRUE
    <3>1. CASE closed = FALSE
      <4>1. active' = TRUE \/ (~POLLIN /\ msgs' = msgs)
        BY <1>4, <3>1, Zenon DEF recvResumed, recv
      <4> QED
        BY <4>1, Zenon DEF POLLIN
    <3>2. CASE closed = TRUE
      BY <1>4, <3>2, Zenon DEF recvResumed, zmqVars
    <3> QED
      BY <1>0, <3>1, <3>2, Zenon
  <2> QED
    BY <2>1, <2>2, Zenon DEF writerVars
<1>5. CASE fiberWaitTimeout
  <2>1. /\ reader' = "idle" /\ UNCHANGED <<zmqVars, closed, writerVars>>
        /\ WRITE \notin alone'
    BY <1>5, Zenon DEF fiberWaitTimeout
  <2> QED
    BY <2>1, Zenon DEF zmqVars, writerVars
<1>6. ASSUME NEW m \in BOOLEAN, sendWaits(m) PROVE ServedInv'
  <2>1. /\ closed' = FALSE /\ UNCHANGED <<zmqVars, readerVars>> /\ READ \notin alone'
    BY <1>0, <1>6, Zenon DEF sendWaits
  <2>2. WRITE \in registered' /\ persist' = TRUE
    BY <1>6, Zenon DEF sendWaits, coroWaitImpl, registerHandler
  <2> QED
    BY <2>1, <2>2, Zenon DEF zmqVars, readerVars
<1>7. CASE (\E m \in BOOLEAN : sendNext(m)) \/ sendResumed
  <2>1. /\ writer' = "idle" /\ READ \notin alone' /\ UNCHANGED <<readerVars, closed>>
    BY <1>7, Zenon DEF sendNext, sendResumed, send
  <2>2. msgs' > 0 => active' = TRUE \/ signal' = TRUE
    <3>1. CASE closed = TRUE
      BY <1>7, <3>1, Zenon DEF sendNext, sendResumed, zmqVars
    <3>2. CASE closed = FALSE
      <4>1. \E m : send(m)
        BY <1>7, <3>2, Zenon DEF sendNext, sendResumed
      <4>2. msgs' = msgs /\ \E does \in BOOLEAN :
              signal' = (signal /\ ~does) /\ active' = (active \/ (does /\ POLLIN))
        BY <4>1, Zenon DEF send
      <4>3. POLLIN => active' = TRUE \/ signal' = TRUE
        BY <1>0, <4>2, Zenon DEF POLLIN
      <4>4. msgs > 0 => POLLIN
        BY Zenon DEF POLLIN
      <4> QED
        BY <4>2, <4>3, <4>4, Zenon
    <3> QED
      BY <1>0, <3>1, <3>2, Zenon
  <2> QED
    BY <2>1, <2>2, Zenon DEF readerVars
<1>8. CASE handlerReady
  <2> DEFINE w == waitEvents_ \cap woken
  <2>1. /\ closed = FALSE /\ UNCHANGED <<msgs, closed, alone>> /\ active' = POLLIN
        /\ waitEvents_' = waitEvents_ \ w
        /\ reader' = IF READ \in w THEN "woken" ELSE reader
        /\ writer' = IF WRITE \in w THEN "woken" ELSE writer
    BY <1>0, <1>8, Zenon DEF handlerReady
  <2>2. w = {} /\ persist = TRUE => UNCHANGED <<registered, persist>> \/ waitEvents_' = {}
    BY <1>8, <2>1, Zenon DEF handlerReady
  <2>3. /\ POLLIN <=> READ \in woken
        /\ waitEvents_ \subseteq {READ, WRITE}
        /\ READ \in waitEvents_ <=> reader = "waiting"
        /\ WRITE \in waitEvents_ <=> writer = "waiting"
    BY <1>0, <2>1, Zenon DEF woken, TypeOK, WaitersAreRecorded
  <2>4. msgs > 0 => POLLIN
    BY Zenon DEF POLLIN
  <2>5. POLLIN => active' = TRUE
    BY <2>1, Zenon
  <2>6. ~POLLIN => active' = FALSE
    BY <2>1, Zenon DEF POLLIN
  <2>7. w = {} \/ READ \in w \/ WRITE \in w
    BY <2>3, Zenon
  <2> HIDE DEF w
  <2> QED
    BY <2>1, <2>2, <2>3, <2>4, <2>5, <2>6, <2>7, Zenon DEF w
<1>9. CASE close
  <2>1. /\ UNCHANGED <<zmqVars, alone>>
        /\ reader' # "waiting" /\ writer' # "waiting"
    BY <1>9, Zenon DEF close
  <2> QED
    BY <2>1, Zenon DEF zmqVars
<1> QED
  BY <1>1, <1>2, <1>3, <1>4, <1>5, <1>6, <1>7, <1>8, <1>9, Zenon DEF Next

-------------------------------------------------------------------------------
(* Progress.  ENABLED is left as it is: that it holds where WaitCanStep    *)
(* says is a hypothesis of the theorems.                                   *)

(* Who is woken, and a handler that finds someone to wake, has a step to   *)
(* take.                                                                   *)
WaitCanStep ==
  /\ reader = "woken" => ENABLED <<recvResumed>>_vars
  /\ writer = "woken" => ENABLED <<sendResumed>>_vars
  /\ ~closed /\ fdReady /\ waitEvents_ \cap woken # {} => ENABLED <<handlerReady>>_vars

(* The strengthened invariant holds throughout.                            *)
LEMMA ServedInvariance == Spec => [](Inv /\ ServedInv)
<1>1. Init => ServedInv
  BY WaitAssumption DEF Init, ServedInv
<1> QED
  BY <1>1, ServedStep, Invariance, PTL DEF Spec

(* Nobody waits for ever on a socket that was closed: see CloseUnblocks.   *)
THEOREM ClosedSocketUnblocks == FairSpec /\ []WaitCanStep => CloseUnblocks
<1> DEFINE C == closed = TRUE
           R == reader = "idle"
           W == writer = "idle"
<1>1. C /\ [Next]_vars => C' /\ (R => R') /\ (W => W')
  <2> SUFFICES ASSUME C, [Next]_vars PROVE C' /\ (R => R') /\ (W => W')
    BY Zenon
  <2>1. CASE UNCHANGED vars
    BY <2>1, Zenon DEF vars, readerVars, writerVars
  <2>2. CASE recvResumed \/ fiberWaitTimeout
    BY <2>2, Zenon DEF recvResumed, fiberWaitTimeout, writerVars
  <2>3. CASE sendResumed
    BY <2>3, Zenon DEF sendResumed, readerVars
  <2> QED
    BY <2>1, <2>2, <2>3, Zenon DEF Next, arrive, peerTakes, recvAsync, sendWaits, sendNext,
      handlerReady, close
<1>2. C /\ recvResumed => R'
  BY Zenon DEF recvResumed
<1>3. C /\ sendResumed => W'
  BY Zenon DEF sendResumed
<1>4. Inv /\ ServedInv /\ C => (R \/ reader = "woken") /\ (W \/ writer = "woken")
  BY Zenon DEF Inv, TypeOK, ServedInv
<1>5. Inv => (closed <=> C)
  BY Zenon DEF Inv, TypeOK
<1> QED
  BY <1>1, <1>2, <1>3, <1>4, <1>5, ServedInvariance, PTL
     DEF FairSpec, Spec, CloseUnblocks, WaitCanStep

(* Who waits alone for what has come is served: see AloneIsServed.         *)
THEOREM AloneInTheLoop == FairSpec /\ []WaitCanStep => AloneIsServed
<1> DEFINE PR == reader = "waiting" /\ READ \in alone /\ msgs > 0
           QR == reader # "waiting" \/ READ \notin alone
           PW == writer = "waiting" /\ WRITE \in alone /\ room + freed > 0
           QW == writer # "waiting" \/ WRITE \notin alone
           RW == reader = "woken"
           WW == writer = "woken"
           Finds == ~closed /\ fdReady /\ waitEvents_ \cap woken # {}
<1>1. Inv /\ PR /\ [Next]_vars => PR' \/ QR'
  <2> SUFFICES ASSUME Inv, PR, [Next]_vars, ~QR' PROVE msgs' > 0
    BY Zenon
  <2>1. msgs \in Nat
    BY DEF Inv, TypeOK
  <2>2. CASE arrive
    BY <2>1, <2>2 DEF arrive
  <2>3. CASE (\E m \in BOOLEAN : sendNext(m)) \/ sendResumed
    BY <2>3, Zenon DEF sendNext, sendResumed
  <2> QED
    BY <2>2, <2>3, Zenon DEF Next, vars, zmqVars, peerTakes, recvAsync, recvResumed,
      fiberWaitTimeout, sendWaits, handlerReady, close
<1>2. Inv /\ PW /\ [Next]_vars => PW' \/ QW'
  <2> SUFFICES ASSUME Inv, PW, [Next]_vars, ~QW' PROVE room' + freed' > 0
    BY Zenon
  <2>1. room \in Nat /\ freed \in Nat
    BY DEF Inv, TypeOK
  <2>2. CASE peerTakes
    BY <2>1, <2>2 DEF peerTakes
  <2>3. CASE \E does \in BOOLEAN : processCommands(does)
    BY <2>1, <2>3 DEF processCommands
  <2>4. CASE UNCHANGED <<room, freed>>
    BY <2>4, Zenon
  <2>5. peerTakes \/ UNCHANGED <<room, freed>> \/ \E does \in BOOLEAN : processCommands(does)
    <3>1. CASE (\E m \in BOOLEAN : sendNext(m)) \/ sendResumed
      BY <3>1, Zenon DEF sendNext, sendResumed
    <3>2. CASE (\E t \in BOOLEAN : recvAsync(t)) \/ recvResumed
      BY <3>2, Zenon DEF recvAsync, recvResumed, recv, zmqVars
    <3>3. CASE UNCHANGED vars
      BY <3>3, Zenon DEF vars, zmqVars
    <3> QED
      BY <3>1, <3>2, <3>3, Zenon
         DEF Next, arrive, fiberWaitTimeout, sendWaits, zmqVars, handlerReady, close
  <2> QED
    BY <2>2, <2>3, <2>4, <2>5, Zenon
<1>3. Inv /\ ServedInv /\ PR =>
        writer = "woken" \/ (Finds /\ READ \in waitEvents_ \cap woken)
  <2> SUFFICES ASSUME Inv, ServedInv, PR, writer # "woken"
               PROVE  Finds /\ READ \in waitEvents_ \cap woken
    BY Zenon
  <2>1. closed = FALSE /\ signal = TRUE /\ READ \in registered
    BY Zenon DEF Inv, TypeOK, ServedInv
  <2>2. READ \in waitEvents_ /\ READ \in woken
    BY <2>1, Zenon DEF Inv, WaitersAreRecorded, woken, POLLIN
  <2> QED
    BY <2>1, <2>2, Zenon DEF fdReady
<1>4. Inv /\ ServedInv /\ PW =>
        reader = "woken" \/ (Finds /\ WRITE \in waitEvents_ \cap woken)
  <2> SUFFICES ASSUME Inv, ServedInv, PW, reader # "woken"
               PROVE  Finds /\ WRITE \in waitEvents_ \cap woken
    BY Zenon
  <2>1. closed = FALSE /\ WRITE \in registered
    BY Zenon DEF Inv, TypeOK, ServedInv
  <2>2. WRITE \in waitEvents_ /\ WRITE \in woken
    BY <2>1, Zenon DEF Inv, WaitersAreRecorded, woken, POLLOUT
  <2> QED
    BY <2>1, <2>2, Zenon DEF fdReady
<1>5. /\ READ \in waitEvents_ \cap woken /\ handlerReady => QR'
      /\ WRITE \in waitEvents_ \cap woken /\ handlerReady => QW'
  BY Zenon DEF handlerReady
<1>6. recvResumed \/ sendResumed => QR' /\ QW'
  BY Zenon DEF recvResumed, sendResumed
<1>7. /\ WW /\ [Next]_vars => WW' \/ QR'
      /\ RW /\ [Next]_vars => RW' \/ QW'
  <2> SUFFICES ASSUME [Next]_vars
               PROVE  (WW => WW' \/ QR') /\ (RW => RW' \/ QW')
    BY Zenon
  <2>1. CASE UNCHANGED vars
    BY <2>1, Zenon DEF vars, readerVars, writerVars
  <2>2. CASE recvResumed \/ sendResumed
    BY <1>6, <2>2, Zenon
  <2> QED
    BY <2>1, <2>2, Zenon
    DEF Next, arrive, peerTakes, recvAsync, fiberWaitTimeout, sendWaits,
      sendNext, handlerReady, close, readerVars, writerVars
<1>8. FairSpec /\ []WaitCanStep => (PR ~> QR)
  <2> HIDE DEF PR, QR, PW, QW
  <2> QED
    BY <1>1, <1>3, <1>5, <1>6, <1>7, ServedInvariance, PTL DEF FairSpec, Spec, WaitCanStep
<1>9. FairSpec /\ []WaitCanStep => (PW ~> QW)
  <2> HIDE DEF PR, QR, PW, QW
  <2> QED
    BY <1>2, <1>4, <1>5, <1>6, <1>7, ServedInvariance, PTL DEF FairSpec, Spec, WaitCanStep
<1> QED
  BY <1>8, <1>9, PTL DEF AloneIsServed
===============================================================================
