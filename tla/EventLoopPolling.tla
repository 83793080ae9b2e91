--------------------------- MODULE EventLoopPolling ---------------------------
(***************************************************************************)
(* The sockets and file descriptors of ZmqEventLoop (fbzmq/async/          *)
(* ZmqEventLoop.cpp): the subscriptions, the poll list built from them,    *)
(* and the part of loopForever() that polls and dispatches.  Callbacks     *)
(* subscribe and unsubscribe in the middle of a pass; the poll list is     *)
(* rebuilt only at the top of the next one.                                *)
(***************************************************************************)
EXTENDS Naturals, FiniteSets, Sequences

CONSTANTS
  Sockets,     \* ZMQ sockets, the keys of socketMap_
  Fds,         \* file descriptors, the keys of socketFdMap_
  EventSets,   \* values of the `events` bitmap
  MaxSubs      \* bound: subscriptions ever made

ASSUME KeysAssumption ==
  IsFiniteSet(Sockets) /\ IsFiniteSet(Fds) /\ Sockets \cap Fds = {}

VARIABLES
  subs,         \* socketMap_ and socketFdMap_: key -> subscription
  needsRebuild, \* needsRebuild_
  pollItems,    \* pollItems_ and pollSubscriptions_
  revents,      \* revents of the poll items
  count,        \* what poll() returned, less the callbacks made
  index,        \* `i` of the dispatch loop
  phase,        \* where the thread is in loopForever()
  ready,        \* events pending in the kernel or in libzmq, per key
  closed,       \* sockets closed by their owner
  made,         \* subscriptions made so far, which identifies them
  polledSubs,   \* history: the subscriptions when poll() was entered
  called        \* history: items called in this pass, in order

vars == <<subs, needsRebuild, pollItems, revents, count, index, phase, ready,
          closed, made, polledSubs, called>>

Keys == Sockets \cup Fds
AllEvents == (UNION EventSets) \cup {"ERR"}
Subscription == [events : EventSets, nr : Nat]
Phases == {"idle", "top", "poll", "dispatch", "callback", "timeouts", "thrown", "aborted"}

(* The state of the loop keeps its type, and the parallel lists their      *)
(* lengths.                                                                *)
TypeOK ==
  /\ DOMAIN subs \subseteq Keys
  /\ \A k \in DOMAIN subs : subs[k] \in Subscription
  /\ needsRebuild \in BOOLEAN
  /\ \A i \in DOMAIN pollItems : pollItems[i] \in [key : Keys, sub : Subscription]
  /\ phase \in {"dispatch", "callback", "timeouts"} =>
       Len(revents) = Len(pollItems) /\ index \in 1..(Len(pollItems) + 1)
  /\ count \in Nat /\ index \in Nat /\ phase \in Phases
  /\ ready \in [Keys -> SUBSET AllEvents] /\ closed \subseteq Sockets
  /\ made \in Nat

(* The constructor subscribes to its two eventfds; they are among Fds as   *)
(* far as this module is concerned, and never removed from outside.        *)
Init ==
  /\ subs = <<>> /\ needsRebuild = FALSE /\ pollItems = <<>>
  /\ revents = <<>> /\ count = 0 /\ index = 0 /\ phase = "idle"
  /\ ready = [k \in Keys |-> {}] /\ closed = {} /\ made = 0
  /\ polledSubs = <<>> /\ called = <<>>

passVars == <<revents, count, index, polledSubs, called>>
loopVars == <<pollItems, revents, count, index, phase, polledSubs, called>>
callerRuns == phase \in {"idle", "callback", "timeouts"}

(* The locals of a pass are gone, and what poll() left in the list.        *)
passEnds ==
  revents' = <<>> /\ count' = 0 /\ index' = 0 /\ polledSubs' = <<>> /\ called' = <<>>
-------------------------------------------------------------------------------
(* Mutant: a new subscription does not ask for a rebuild.                  *)
MutAddSocketNoRebuild(k, events) ==
  /\ callerRuns /\ made < MaxSubs
  /\ k \notin DOMAIN subs
  /\ subs' = [j \in DOMAIN subs \cup {k} |->
                IF j = k THEN [events |-> events, nr |-> made] ELSE subs[j]]
  /\ made' = made + 1
  /\ UNCHANGED <<loopVars, needsRebuild, ready, closed>>

(* addSocket() and addSocketFd() of a key that is not subscribed.          *)
addSocket(k, events) ==
  /\ callerRuns /\ made < MaxSubs
  /\ k \notin DOMAIN subs
  /\ subs' = [j \in DOMAIN subs \cup {k} |->
                IF j = k THEN [events |-> events, nr |-> made] ELSE subs[j]]
  /\ made' = made + 1
  /\ needsRebuild' = TRUE
  /\ UNCHANGED <<loopVars, ready, closed>>

(* A key that is subscribed throws.  A SocketCallback is noexcept, so that *)
(* the exception ends the process; a TimeoutCallback is not, and run() is  *)
(* left.  Outside run() the caller gets it and nothing has changed.        *)
addSocketThrows(k) ==
  /\ k \in DOMAIN subs
  /\ \/ phase = "callback" /\ phase' = "aborted"
     \/ phase = "timeouts" /\ phase' = "thrown"
  /\ passEnds
  /\ UNCHANGED <<subs, needsRebuild, pollItems, ready, closed, made>>

(* removeSocket() and removeSocketFd(); nothing happens without a          *)
(* subscription.                                                           *)
removeSocket(k) ==
  /\ callerRuns
  /\ k \in DOMAIN subs
  /\ subs' = [j \in DOMAIN subs \ {k} |-> subs[j]]
  /\ needsRebuild' = TRUE
  /\ UNCHANGED <<loopVars, ready, closed, made>>

(* The owner closes a socket, after removing it or (wrongly) before.       *)
close(k) ==
  /\ callerRuns
  /\ closed' = closed \cup {k}
  /\ UNCHANGED <<loopVars, subs, needsRebuild, ready, made>>

(* Something happens on a socket or descriptor.                            *)
arrive(k, event) ==
  /\ event = "ERR" => k \in Fds
  /\ ready' = [ready EXCEPT ![k] = @ \cup {event}]
  /\ UNCHANGED <<loopVars, subs, needsRebuild, closed, made>>
-------------------------------------------------------------------------------
(* Mutant: a run begins without what was asked for before it.              *)
MutRunForgetsRebuild ==
  /\ phase = "idle"
  /\ phase' = "top" /\ needsRebuild' = FALSE
  /\ UNCHANGED <<subs, pollItems, passVars, ready, closed, made>>

run ==
  /\ phase = "idle"
  /\ phase' = "top"
  /\ UNCHANGED <<subs, needsRebuild, pollItems, passVars, ready, closed, made>>

itemsOf(S) == {[key |-> k, sub |-> subs[k]] : k \in DOMAIN subs \cap S}

(* The walks of a set that meet each element once.                         *)
walksOf(S) ==
  LET positions == 1..Cardinality(S)
  IN  {walk \in [positions -> S] : {walk[i] : i \in positions} = S}

(* The unordered maps are walked in any order, the sockets first.          *)
rebuildPollItems ==
  pollItems' \in {s \o f : s \in walksOf(itemsOf(Sockets)),
                           f \in walksOf(itemsOf(Fds))}

(* The top of the loop, up to the call of poll().                          *)
enterPoll ==
  /\ phase = "top"
  /\ IF needsRebuild THEN rebuildPollItems ELSE UNCHANGED pollItems
  /\ needsRebuild' = FALSE
  /\ phase' = "poll"
  /\ polledSubs' = subs
  /\ UNCHANGED <<subs, revents, count, index, ready, closed, made, called>>

(* zmq_poll() fails with an error other than EINTR (a socket was closed,   *)
(* its context terminated) and value() throws; run() is left.              *)
pollThrows ==
  /\ phase = "poll"
  /\ phase' = "thrown" /\ passEnds
  /\ UNCHANGED <<subs, needsRebuild, pollItems, ready, closed, made>>

(* The owner catches the exception.                                        *)
caught ==
  /\ phase = "thrown"
  /\ phase' = "idle"
  /\ UNCHANGED <<subs, needsRebuild, pollItems, passVars, ready, closed, made>>

(* What zmq_poll() reports of an item: what was asked for, and errors of   *)
(* descriptors, asked for or not.                                          *)
reported(item) ==
  ready[item.key] \cap (item.sub.events \cup {"ERR"})

(* It does not succeed with a closed socket in the list.                   *)
pollReturns ==
  /\ phase = "poll"
  /\ \A i \in DOMAIN pollItems : pollItems[i].key \notin closed
  /\ revents' = [i \in DOMAIN pollItems |-> reported(pollItems[i])]
  /\ count' = Cardinality({i \in DOMAIN pollItems : reported(pollItems[i]) # {}})
  /\ index' = 1 /\ phase' = "dispatch"
  /\ UNCHANGED <<subs, needsRebuild, pollItems, ready, closed, made,
                 polledSubs, called>>

inLoop == phase = "dispatch" /\ index <= Len(pollItems) /\ count > 0
wanted(i) == revents[i] \cap pollItems[i].sub.events

(* The callback takes some of the events it was given.                     *)
callBack ==
  /\ inLoop /\ wanted(index) # {}
  /\ \E taken \in SUBSET wanted(index) :
       ready' = [ready EXCEPT ![pollItems[index].key] = @ \ taken]
  /\ called' = Append(called, index)
  /\ phase' = "callback"
  /\ UNCHANGED <<subs, needsRebuild, pollItems, revents, count, index, closed,
                 made, polledSubs>>

callbackReturns ==
  /\ phase = "callback"
  /\ count' = count - 1 /\ index' = index + 1 /\ phase' = "dispatch"
  /\ UNCHANGED <<subs, needsRebuild, pollItems, revents, ready, closed, made,
                 polledSubs, called>>

(* Mutant: the counter also counts items that are skipped.                 *)
MutSkipItemCounts ==
  /\ inLoop /\ wanted(index) = {}
  /\ index' = index + 1 /\ count' = count - 1
  /\ UNCHANGED <<subs, needsRebuild, pollItems, revents, phase, ready,
                 closed, made, polledSubs, called>>

skipItem ==
  /\ inLoop /\ wanted(index) = {}
  /\ index' = index + 1
  /\ UNCHANGED <<subs, needsRebuild, pollItems, revents, count, phase, ready,
                 closed, made, polledSubs, called>>

endDispatch ==
  /\ phase = "dispatch" /\ ~(index <= Len(pollItems) /\ count > 0)
  /\ phase' = "timeouts"
  /\ UNCHANGED <<subs, needsRebuild, pollItems, revents, count, index, ready,
                 closed, made, polledSubs, called>>

(* The timeouts are done: the next pass, or the end of run().              *)
nextPass(to) ==
  /\ phase = "timeouts"
  /\ phase' = to /\ passEnds
  /\ UNCHANGED <<subs, needsRebuild, pollItems, ready, closed, made>>

Pass ==
  \/ enterPoll \/ pollThrows \/ pollReturns
  \/ callBack \/ callbackReturns \/ skipItem \/ endDispatch
  \/ nextPass("top")

Next ==
  \/ \E k \in Keys :
       \/ \E events \in EventSets : addSocket(k, events)
       \/ addSocketThrows(k)
       \/ removeSocket(k)
       \/ \E event \in AllEvents : arrive(k, event)
  \/ \E k \in Sockets : close(k)
  \/ run \/ caught \/ nextPass("idle")
  \/ Pass

Spec == Init /\ [][Next]_vars

(* The loop goes on as long as it is not left.                             *)
FairSpec == Spec /\ WF_vars(Pass)
-------------------------------------------------------------------------------
(* poll() is called with exactly the subscriptions of that moment, however *)
(* they were changed in and between passes and runs.                       *)
PolledIsRegistered ==
  phase = "poll" =>
    /\ {pollItems[i] : i \in DOMAIN pollItems} = itemsOf(Keys)
    /\ Len(pollItems) = Cardinality(DOMAIN subs)

(* The counter ends the dispatch loop early, and yet every item with an    *)
(* event it subscribed to is called, exactly once and in order, although   *)
(* poll() also counts items that only report errors.                       *)
DispatchComplete ==
  phase = "timeouts" =>
    /\ {called[j] : j \in DOMAIN called} = {i \in DOMAIN pollItems : wanted(i) # {}}
    /\ \A j, l \in DOMAIN called : j < l => called[j] < called[l]

(* A callback called in a pass was subscribed when the pass began: what is *)
(* removed in one pass is never called in a later one.                     *)
CalledWasPolled ==
  phase = "callback" =>
    LET item == pollItems[index]
    IN  item.key \in DOMAIN polledSubs /\ polledSubs[item.key] = item.sub

HasEvent(k) == k \in DOMAIN subs /\ ready[k] \cap subs[k].events # {}
IsCalled(k) == phase = "callback" /\ pollItems[index].key = k

(* A subscribed socket with an event is called, unless it is removed or    *)
(* the loop is left: no item starves behind the others.  If it was removed *)
(* and subscribed again in one pass, the callback may be the old one's.    *)
ReadyIsCalled ==
  \A k \in Keys :
    (HasEvent(k) /\ phase \notin {"idle", "thrown", "aborted"})
    ~> (phase \in {"idle", "thrown", "aborted"} \/ k \notin DOMAIN subs \/ IsCalled(k))

(* If passes go on, in this run() or in those after it, the event is not   *)
(* forgotten when run() returns or is left by an exception in between,     *)
(* whatever had been added and removed by then.                            *)
ServedAcrossRuns ==
  []<>(phase = "dispatch") =>
    \A k \in Keys : HasEvent(k) ~> (k \notin DOMAIN subs \/ IsCalled(k))
===============================================================================
