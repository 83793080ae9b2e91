-------------------------- MODULE AsyncSignalHandler --------------------------
(***************************************************************************)
(* Signals as events of a loop: fbzmq/async/AsyncSignalHandler.cpp and     *)
(* StopEventLoopSignalHandler.h.  Handlers own a signalfd each and share   *)
(* the thread of the loop, and with it the thread's mask of blocked        *)
(* signals.  The kernel keeps one bit per pending signal; a signal that    *)
(* some thread does not block takes its default disposition there.         *)
(***************************************************************************)
EXTENDS Naturals, FiniteSets

CONSTANTS
  Handlers,       \* handlers of one loop
  Stoppers,       \* the StopEventLoopSignalHandlers among them
  Signals,
  None

(* The arguments of a call of setupSignal().                               *)
Calls == [handler : Handlers, sig : Signals, isAdding : BOOLEAN]

ASSUME SignalsAssumption ==
  /\ Stoppers \subseteq Handlers
  /\ None \notin Handlers /\ None \notin Calls /\ "stop" \notin Handlers

VARIABLES
  registeredSignals_,     \* registeredSignals_ of each handler, the mask of its signalfd
  mask,           \* signals blocked by the thread of the loop
  others,         \* signals blocked by the other threads
  started,        \* the other threads run
  setup,          \* the call of setupSignal() in progress
  pending,        \* signals that are blocked and were sent
  phase,          \* of the loop: "ready", "running", "stopped"
  polled,         \* descriptors found ready, callbacks not called yet
  reading,        \* the handler whose callback is in read()
  stopFd, stop_,  \* stop() has been called; the loop has seen it
  shared,         \* history: two handlers, or two callbacks, used one signal
  late,           \* history: signals registered when other threads ran
  lost            \* history: registered signals that took the default disposition

kernelVars == <<pending, lost>>
loopVars == <<phase, polled, reading, stopFd, stop_>>
setupVars == <<registeredSignals_, mask, setup, shared, late>>
signalsVars == <<kernelVars, loopVars, setupVars, others, started>>

(* Every variable keeps its type.                                          *)
SignalsTypeOK ==
  /\ registeredSignals_ \in [Handlers -> SUBSET Signals]
  /\ {mask, others, pending, late, lost} \subseteq SUBSET Signals
  /\ {started, stopFd, stop_, shared} \subseteq BOOLEAN
  /\ setup \in Calls \cup {None}
  /\ phase \in {"ready", "running", "stopped"}
  /\ polled \subseteq Handlers \cup {"stop"} /\ reading \in Handlers \cup {None}

(* The constructors: empty signalfds, attached to the loop.                *)
SignalsInit ==
  /\ registeredSignals_ = [h \in Handlers |-> {}] /\ mask = {} /\ others = {}
  /\ started = FALSE /\ setup = None /\ pending = {}
  /\ phase = "ready" /\ polled = {} /\ reading = None
  /\ stopFd = FALSE /\ stop_ = FALSE
  /\ shared = FALSE /\ late = {} /\ lost = {}

(* The signals that have a handler, but for one that is changing.          *)
wanted == (UNION {registeredSignals_[h] : h \in Handlers})
            \ (IF setup # None THEN {setup.sig} ELSE {})
-------------------------------------------------------------------------------
(* kill(getpid(), s).                                                      *)
kill(s) ==
  /\ IF s \in mask /\ (started => s \in others)
       THEN pending' = pending \cup {s} /\ UNCHANGED lost
       ELSE /\ lost' = lost \cup ({s} \cap wanted)
            /\ UNCHANGED pending
  /\ UNCHANGED <<loopVars, setupVars, others, started>>

(* The other threads start, with the mask of the one that starts them.     *)
startThreads ==
  /\ ~started /\ setup = None
  /\ started' = TRUE /\ others' = mask
  /\ UNCHANGED <<kernelVars, loopVars, setupVars>>

(* The thread of the loop runs code of the application.                    *)
free == setup = None /\ reading = None

(* Mutant: the signal is not blocked.                                      *)
MutSetupSignalNoMask(h, s, isAdding) ==
  /\ free /\ phase # "stopped"
  /\ s \in registeredSignals_[h] <=> ~isAdding
  /\ setup' = [handler |-> h, sig |-> s, isAdding |-> isAdding]
  /\ UNCHANGED <<mask, pending, shared, late, lost, loopVars, registeredSignals_, others,
                 started>>

(* setupSignal() first changes the mask of the thread, which for a pending *)
(* signal that is opened means its default disposition.  It throws if      *)
(* there is nothing to change.                                             *)
setupSignal(h, s, isAdding) ==
  /\ free /\ phase # "stopped"
  /\ s \in registeredSignals_[h] <=> ~isAdding
  /\ setup' = [handler |-> h, sig |-> s, isAdding |-> isAdding]
  /\ mask' = IF isAdding THEN mask \cup {s} ELSE mask \ {s}
  /\ pending' = pending \cap mask'
  /\ shared' = \/ shared
               \/ \E g \in Handlers \ {h} : s \in registeredSignals_[g]
               \/ ~isAdding /\ h \in polled
  /\ late' = IF isAdding /\ started THEN late \cup {s} ELSE late
  /\ UNCHANGED <<lost, loopVars, registeredSignals_, others, started>>

registerSignalHandler(h, s) == setupSignal(h, s, TRUE)
unregisterSignalHandler(h, s) == setupSignal(h, s, FALSE)

(* ... and then registeredSignals_ and the signalfd.                       *)
updateSignalfd ==
  /\ setup # None
  /\ registeredSignals_' = [registeredSignals_ EXCEPT ![setup.handler] =
                      IF setup.isAdding THEN @ \cup {setup.sig} ELSE @ \ {setup.sig}]
  /\ setup' = None
  /\ UNCHANGED <<kernelVars, loopVars, mask, shared, late, others, started>>
-------------------------------------------------------------------------------
(* ZmqEventLoop::run().                                                    *)
run ==
  /\ phase = "ready" /\ free
  /\ phase' = "running"
  /\ UNCHANGED <<kernelVars, polled, reading, stopFd, stop_, setupVars, others, started>>

ready == {h \in Handlers : registeredSignals_[h] \cap pending # {}}
           \cup (IF stopFd THEN {"stop"} ELSE {})

(* Mutant: a round serves one descriptor.                                  *)
MutPollOne ==
  /\ phase = "running" /\ free /\ ~stop_ /\ polled = {} /\ ready # {}
  /\ \E d \in ready : polled' = {d}
  /\ UNCHANGED <<kernelVars, phase, reading, stopFd, stop_, setupVars, others, started>>

(* A round of the loop calls every descriptor it finds ready.              *)
poll ==
  /\ phase = "running" /\ free /\ ~stop_ /\ polled = {} /\ ready # {}
  /\ polled' = ready
  /\ UNCHANGED <<kernelVars, phase, reading, stopFd, stop_, setupVars, others, started>>

(* The callback of a signalfd begins with a read() that blocks.            *)
callback(h) ==
  /\ free /\ h \in polled
  /\ polled' = polled \ {h} /\ reading' = h
  /\ UNCHANGED <<kernelVars, phase, stopFd, stop_, setupVars, others, started>>

(* signalReceived() of a StopEventLoopSignalHandler calls stop().          *)
signalReceived == stopFd' = (stopFd \/ reading \in Stoppers)

(* Mutant: reads until there is nothing, as one does with a non-blocking   *)
(* descriptor.                                                             *)
MutReadSignalUntilEmpty ==
  /\ reading # None
  /\ \E s \in registeredSignals_[reading] \cap pending : pending' = pending \ {s}
  /\ signalReceived
  /\ UNCHANGED <<lost, phase, polled, stop_, reading, setupVars, others, started>>

(* The read() returns one of the signals, which then is not pending.       *)
readSignal ==
  /\ reading # None
  /\ \E s \in registeredSignals_[reading] \cap pending : pending' = pending \ {s}
  /\ signalReceived
  /\ reading' = None
  /\ UNCHANGED <<lost, phase, polled, stop_, setupVars, others, started>>

(* The loop's own callback of stop().                                      *)
stopCallback ==
  /\ free /\ "stop" \in polled
  /\ polled' = polled \ {"stop"} /\ stopFd' = FALSE /\ stop_' = TRUE
  /\ UNCHANGED <<kernelVars, phase, reading, setupVars, others, started>>

(* run() returns when the callbacks of the round are done.                 *)
runReturns ==
  /\ phase = "running" /\ free /\ stop_ /\ polled = {}
  /\ phase' = "stopped"
  /\ UNCHANGED <<kernelVars, polled, reading, stopFd, stop_, setupVars, others, started>>

(* Destroying a handler closes its descriptor and leaves the mask.         *)
destroy(h) ==
  /\ phase = "stopped" /\ registeredSignals_[h] # {}
  /\ registeredSignals_' = [registeredSignals_ EXCEPT ![h] = {}]
  /\ UNCHANGED <<kernelVars, loopVars, mask, setup, shared, late, others, started>>

LoopStep ==
  poll \/ (\E h \in Handlers : callback(h)) \/ readSignal \/ stopCallback \/ runReturns

SignalsNext ==
  \/ \E s \in Signals :
       \/ kill(s)
       \/ \E h \in Handlers :
            registerSignalHandler(h, s) \/ unregisterSignalHandler(h, s)
  \/ updateSignalfd \/ startThreads \/ run \/ LoopStep
  \/ \E h \in Handlers : destroy(h)

SignalsSpec == SignalsInit /\ [][SignalsNext]_signalsVars

(* The thread of the loop is scheduled, and the code of the application    *)
(* that runs on it returns to the loop.                                    *)
SignalsFairSpec == SignalsSpec /\ WF_signalsVars(updateSignalfd) /\ SF_signalsVars(LoopStep)
-------------------------------------------------------------------------------
(* A callback finds the signal that made its descriptor ready, so that its *)
(* read() does not block the loop: true as long as no two handlers have    *)
(* the same signal and no callback unregisters what another was called for.*)
ReadsDoNotBlock ==
  reading # None /\ ~shared => registeredSignals_[reading] \cap pending # {}

(* "registerSignalHandler(): MUST be called before starting any other      *)
(* thread" (AsyncSignalHandler.h): then no signal that has a handler takes *)
(* its default disposition, unless two handlers share it.                  *)
RegisteredIsDelivered == ~shared => lost \subseteq late

(* A handler that has a pending signal is called, whatever signals the     *)
(* other one gets, unless the loop ends first.                             *)
SignalIsHandled ==
  \A h \in Handlers :
    (phase = "running" /\ registeredSignals_[h] \cap pending # {} /\ ~shared)
      ~> \/ reading = h \/ registeredSignals_[h] \cap pending = {}
         \/ shared \/ phase = "stopped"
===============================================================================
