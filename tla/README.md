# A verification project for fbzmq

TLA+ modules, TLC configurations and TLAPS proofs for
[fbzmq](https://github.com/facebookincubator/fbzmq), a C++ wrapper of libzmq with
an event loop, timeouts and a monitoring service. Paths below are relative to the
root of the repository. `PROJECT.json` holds the same information for tools: the
components, the runs, the mutants, the map from definitions to source lines, the
findings, the hazards and the theorems.

## 1. Inventory

| part | source | what it does | state |
|---|---|---|---|
| `ZmqEventLoop` | `fbzmq/async/ZmqEventLoop.{h,cpp}` | one thread that polls sockets and descriptors, runs timeouts, and executes callbacks that other threads enqueue | modelled, in three modules |
| `ZmqTimeout` | `fbzmq/async/ZmqTimeout.{h,cpp}` | a one-shot or periodic timer over any `folly::ScheduledExecutor`, cancelled with a token | modelled |
| `ZmqThrottle` | `fbzmq/async/ZmqThrottle.{h,cpp}` | runs a callback at most once per period | modelled |
| `ZmqMonitor` | `fbzmq/service/monitor/ZmqMonitor.h` | a server of counters and event logs | modelled, without malformed multipart requests |
| `ZmqMonitorClient` | `fbzmq/service/monitor/ZmqMonitorClient.cpp` | its client | modelled, without a restart of the server |
| `LogSample` | `fbzmq/service/logging/LogSample.{h,cpp}` | JSON records with a section per type of value | modelled as operators, without the text of the JSON |
| `AsyncSignalHandler` | `fbzmq/async/AsyncSignalHandler.{h,cpp}`, `StopEventLoopSignalHandler.h` | signals as callbacks of the loop | modelled, without destruction in a loop that runs |
| `Socket` | `fbzmq/zmq/Socket.{h,cpp}` | send and receive, multipart messages; waits in fibers and coroutines; options and keys | modelled in two modules, without options, keys and moves |
| examples | `fbzmq/examples/` | a client and a server | modelled |
| `Context`, `Common` | `fbzmq/zmq/` | wrappers of libzmq | the end of a `Context` is modelled in `Examples`, `poll()` in `EventLoopPolling` |
| `Message`, `SocketMonitor` | `fbzmq/zmq/` | wrappers of libzmq | not modelled (section 5) |
| `ThreadData`, `ExportedStat` | `fbzmq/service/stats/` | statistics over time windows | not modelled (section 5) |
| `SystemMetrics` | `fbzmq/service/monitor/SystemMetrics.cpp` | reads `/proc` and `getrusage()` | input and output only; its result is a choice in `ZmqMonitor` |
| `Runnable` | `fbzmq/async/Runnable.h` | an interface | no code |
| `ZmqMonitorSample` | `fbzmq/service/monitor/` | a sample `main()` | not modelled (section 5) |
| build scripts | `build/` | vendored build tooling | not part of the library |

How the parts interact: an owner thread is inside `ZmqEventLoop::run()`; every
other method except `stop()`, `runInEventLoop()`, `runImmediatelyOrInEventLoop()`
and the getters belongs to that thread. `ZmqTimeout` and `ZmqThrottle` are objects
used on it, and an `AsyncSignalHandler` has a descriptor among those it polls.
`ZmqMonitor` and the example server are event loops with sockets; the server's
`main()` has a second loop that only waits for signals.

## 2. Modules

    ZmqEventLoop ---- ZmqEventLoopProofs            threads, eventfds, queue
    EventLoopPolling --- EventLoopPollingProofs     subscriptions, poll, dispatch
    EventLoopTimeouts --- EventLoopTimeoutsProofs   heap, tokens, poll timeout
       | implements
    TimerService                                    what a timeout is promised
       | is the executor of
    ZmqTimeout ------ TimerProofs                   closures with tokens
       | is extended by
    ZmqThrottle ----- TimerProofs                   at most once per period
    AsyncSignalHandler --- DescriptorProofs         signalfds, masks, the pass
    SocketMessages -- SocketMessagesProofs          multipart send and receive
       | implements
    MessageChannel                                  what two sockets promise
    SocketWait ------ DescriptorProofs              fibers, coroutines, ZMQ_FD
    LogSample <-- ZmqMonitor <-- ZmqMonitorClient --- MonitorProofs
                                                    records; server; clients
    Examples -------- ExamplesProofs                client and server programs

Each `MC*` module instantiates one of these for TLC. Definitions called `Mut...`
are mutants: plausible mistakes in one operation, each of which TLC must find with
the property it is listed with in `PROJECT.json`. They are used nowhere else.

### ZmqEventLoop

The thread side. `threadId`, `stopFlag`, `signalFd`, `callbackFd` and `queue` are
the fields of the same names; `lpc` is the position of the owner in `run()` and
`loopForever()`, `pc[t]` that of an external thread in its call. Every load or
store of `threadId_`, every system call on an eventfd and every queue operation is
a step, because other threads run in between. In particular

- `run` publishes `threadId_` and `enterLoop` resets `stop_` later;
- the `CHECK` of `runInEventLoop()` is two loads, `checkRunning` and `checkInLoop`;
- `blockingWrite()` of folly's `MPMCQueue` (external code) is `takeTicket` and
  `fillSlot`: `size()` counts tickets, a slot is free once its turn is within the
  capacity, and `blockingRead()` waits for the writer of the head (`Written`);
- the handler of `callbackFd_` reads the eventfd (`onCallbackRead`), takes `size()`
  (`onCallbackSize`) and reads so many callbacks (`runCallback`); a callback may
  itself call `stop()`.

A failed `CHECK` ends the process (`Abort`). An external thread calls `stop()`
only after it saw the loop running, as `waitUntilRunning()` suggests; the loop may
be gone again when `stop()` tests it.

### EventLoopTimeouts and TimerService

`heap`, `active` and `nextId` are `timeoutHeap_`, `activeTimeouts_` and
`timeoutId_`. The clock has `TicksPerMs` readings per millisecond, so the
truncation of the wait time to milliseconds is in the model. `cancelTimeout()`
only takes the token out of `active`; `skipCancelled` drops the element when it
reaches the top. `beginTimeouts` takes the one reading of the clock that a pass
compares with. User code runs in phases `idle`, `dispatch` and `callback`, and may
schedule and cancel there.

`TimerService` says the same without heap and passes: a set of pending timeouts,
each executed at most once, not early, in order, never once cancelled.
`ImplementsService` is the refinement, with
`pending <- {e \in heap : e.id \in active}`.

### ZmqTimeout and ZmqThrottle

`ZmqTimeout` uses `TimerService` as its executor: what is shown holds for every
executor that keeps that promise. `closure` records what each closure captured:
its object (`this`) and the value of the token. Running a closure is two steps,
the call (`runClosure`) and the comparison (`timeoutExpiredHelper` or
`dropStale`). User code runs between any two steps and inside callbacks; it may
schedule, cancel and destroy any object, the one whose callback runs included.
`ZmqThrottle` extends it with `operator()` and histories of calls and executions;
other `ZmqTimeout` objects (`OtherCalls`) use the same executor beside the throttles.

### EventLoopPolling

`subs` is `socketMap_` and `socketFdMap_`, `pollItems` is `pollItems_` with
`pollSubscriptions_`. A rebuild walks the hash maps in any order. `poll()` reports
what was asked for and, for descriptors, errors. It may fail for any reason and does
not succeed with a closed socket in the list; every error but `EINTR` makes `run()`
throw (`pollThrows`). So does a timeout callback that adds a key twice, while a socket
callback, which is `noexcept`, then ends the process (`addSocketThrows`). `run()` can be
called again after it has returned or thrown. A callback consumes any part of the events it was called for. A
subscription that an earlier callback of the pass removed is still called in that
pass (`CalledWasPolled` says no later), and may take the event of one that
replaced it.

### ZmqMonitor and ZmqMonitorClient

`ZmqMonitor` has an operation per command of `processRequest()`, with the update of
the uptime that precedes each, and the two periodic timers, `purgeStaleCounters` and
`updateResourceStats`, which are on time (the clock waits for them). A
counter is its value and the time of its last update. `replica`, `logged` and
`touched` are histories: what a subscriber that misses nothing was told, and when a
client last wrote a counter. `logged` has each event log as it was received and as it
was published. `ZmqMonitorClient` adds clients with FIFO channels in
both directions, as ZMQ provides between one DEALER and the ROUTER. Foreign peers
send commands the monitor does not know and requests it cannot parse.

`LogSample` has the record as a function from sections to functions from keys to
values. `LOG_EVENT` uses it: a sample with `fromJsonThrows` is passed along as it is; to any
other, `mergeSample` adds the sample common to all. It walks the sections of the
log's sample, so a section that only the common sample has does not reach it.

### AsyncSignalHandler

`registeredSignals_` is also the mask of the handler's signalfd; `mask` is the signal mask of the loop's thread, `others` that of the
threads started from it. `setupSignal` changes the mask and `updateSignalfd` the
descriptor, with signals arriving in between. A signal is one bit in `pending`.
The pass of the loop is `poll`, `callback`, `readSignal` (a blocking `read()`),
`stopCallback` and `runReturns`; application code runs between any two.
`shared`, `late` and `lost` are histories: uses the code does not protect against
(two handlers with one signal, a callback that unregisters a signal another
callback of the pass was called for), signals registered after other threads
started, and registered signals that took their default disposition.

### SocketMessages and MessageChannel

One socket that sends and one that receives, each blocking or not, and libzmq's
pipe between them (external): parts become `visible` with the last part of their
message, and only the first part of a message can meet the high water mark.
`sendPart` is a turn of the loop of `sendMultiple()`; `recv` a successful
`recvOne()` with the `hasMore()` that follows, after which each function goes on,
ends, or reports `EPROTO` (`recvMultiple`, `recvMultipleTimeout`, `drain`).
`recvOneFails` is a `recvOne()` that gives up. When `poll()` times out no error is
set and the code returns whatever `zmq_errno()` is left, hence the choice in
`zmq_errno`; with a stale error `drain()` fails and drops what it has received.
`MessageChannel` is a sequence of parts to which whole messages are appended.

### SocketWait

A socket with an `EventBase`: one reader and one writer, fibers or coroutines, of
one thread. `waitEvents_` and `isSendingMore_` are the fields; `registered` and
`persist` are what folly's `EventHandler` was registered with. Of libzmq the model
has the contract of `ZMQ_FD`: it is readable (`signal`) while commands are
unprocessed, any call may process them, and a message is announced only if the
reading side has found its pipe empty (`active`). `handlerReady` is the callback
with its re-registration; a registration without `PERSIST` ends with its event.

### Examples

A client sends its requests in the order of `startRequests()`, each over a socket
of its own, and gives up after `kReadTimeout`; a request it gave up may still
reach the server, in any order. The server has a handler per REP socket; one that
returns without a reply leaves its socket `unanswered`, unable to receive. The
steps of both `main()` functions are actions, down to the end of each `Context`,
which waits for its sockets. The server's loop and its signals are those of the
other modules, seen from outside.

## 3. Runs

`tlc -config <cfg> <module>`; each finishes within about four minutes. Safety and
liveness of a component are checked in one run, under its fair specification.
`timers` checks `ZmqTimeout` and `ZmqThrottle` together.

| run | cfg | shows |
|---|---|---|
| `event_loop` | `MCZmqEventLoop` | `NoLostWakeup`, `EveryReturnHasAStop`, `InOrderExactlyOnce`, `StopEndsRun`, `CallbackIsExecuted` for two threads, two callbacks each, two runs, stops from threads and from callbacks, and a queue of one slot: the queue is full, writers wait, a stop of one run meets the next |
| `timeouts` | `MCEventLoopTimeouts` | `PassIsFinite`, `PollBounds`, `ImplementsService`, `TimeoutIsExecuted`: three timeouts with delays of nothing, less and more than the health check, half-millisecond clock |
| `timers` | `MCZmqThrottle` | `ExpiryIsCurrent`, `ScheduledExpires`, `AtMostOncePerRate`, `CallIsExecuted` for a throttle and a plain object, periods and rates zero and two, three closures |
| `polling` | `MCEventLoopPolling` | `PolledIsRegistered`, `DispatchComplete`, `ReadyIsCalled`, `ServedAcrossRuns` for a socket and a descriptor, three subscriptions, so that one is removed and made again in the middle of a pass, and any number of runs that return or throw |
| `monitor` | `MCZmqMonitorClient` | `LastLogsAreKept`, `SenderPrevails`, `PurgeIsTimely`, `PullAgreesWithPush`, `ReplyMatches`, `ReadYourWrites`, `QueryReturns` for two clients, three requests, two different event logs, room for two, three purge intervals |
| `signals` | `MCAsyncSignalHandler` | `ReadsDoNotBlock`, `RegisteredIsDelivered`, `SignalIsHandled` for two handlers, one of which stops the loop, and two signals |
| `socket_messages` | `MCSocketMessages` | `RestHasArrived`, `CallsAreAtomic`, `ReturnsOneMessage`, `ReceiveEnds`, `ImplementsChannel` for calls of one to three parts, five parts in all, a pipe of two messages, every combination of modes |
| `socket_wait` | `MCSocketWait` | `NoSpuriousError`, `AloneIsServed`, `CloseUnblocks` for two messages in each direction |
| `examples` | `MCExamples` | `TypeOK`, `ReplyIsForRequest`, `GetFollowsSet`, `ClientExits`, `SignalEndsServer` for a client with two rounds of set and get, one unreadable request of kind `multiple` or `thrift`, and a signal |

The runs check what the components promise to their users. The type invariants, and
the invariants that say how a component keeps its promise (section 4), are proved for
every instance and not checked again on small ones, except for `TypeOK` of the examples,
which also says how often the store can change. Deadlock is not checked: every system here may stop (nobody calls anything) and the bounds end each run.

### Where the code and its documentation disagree

Three runs check one claim of the documentation each and find it violated.

- `external_caller`: `runInEventLoop()` loads `threadId_` twice in
  `CHECK(!isRunning() || !isInEventLoop())`. If `run()` returns in between, an
  external caller, for whom the function is documented, ends the process.
- `return_only_after_stop`: a second `stop()` of one run can stay in the eventfd,
  and ends the next run, which is documented to "return only after stop() has been
  invoked". `EveryReturnHasAStop` is what the code does keep.
- `reader_is_woken`: a coroutine in `recvOneCoro()` "will sleep until underlying ZMQ
  socket has a message". It can sleep on. `handlerReady()` and a wait that times out
  register the other waiter again without `PERSIST`; a wake-up that brings it nothing
  uses that registration up. And a send on the same socket may process the command
  that made `ZMQ_FD` readable while a reader waits for it. `AloneIsServed` is what
  holds: whoever waits without the other side stepping in is served.

Further divergences that were met and have no run of their own:

- `runImmediatelyOrInEventLoop()` takes `isInEventLoop()` for "the same thread"; while
  the loop does not run it is true for every thread, and the loop may start while the
  callback is executed inline.
- `LOG_EVENT` is commented "simply forward, do not store logs"; it stores them.
- `mergeSample()` is documented to merge "two LogSample objects, preferring the values in
  this" (`fbzmq/service/logging/LogSample.h:75`), and the monitor keeps a "LogSample to
  merge to each LogSample we recv" (`ZmqMonitor.h:371`). It loses the sections that only
  the common sample has: a string does not reach a log that has only numbers. TLC refutes
  that the whole common sample is there on the instance of `monitor`, with the second of
  its logs. The unit test merges sections both samples
  have. `SenderPrevails` claims the rest: the sender's values win, what is added comes
  from the common sample, and is complete in the sections the sender used.
- A `BUMP_COUNTER` that lists a name twice increments it twice and publishes the first
  of the two values. `PullAgreesWithPush` holds for lists without repetition.

### Bounds

`MaxRuns`, `MaxStops`, `MaxCalls`, `MaxTime`, `MaxTimeouts`, `MaxSubs`,
`MaxRequests`, `MaxParts`, `MaxMsgs` and `MaxStrange` bound how often
something begins; nothing that has begun is cut off. `StrangeKinds` are the sockets of
the server that strangers write to: the run has `multiple` and `thrift`, whose handlers
either leave such a request unanswered or end the process; that of `primitive` only
does the former. The proofs are for any of them. They are chosen so that each mechanism meets itself once: two runs for what one
leaves to the next, two timeouts at the same time, a token that is replaced while
its closure waits, a subscription replaced in a pass, three intervals for a purge
that finds a counter first too young and then too old, a message of three parts
behind one of two in a pipe that is full, two rounds for a set that arrives after a
later one. The client programs do not meet but in the server's store, where the late
requests of one client already compete with its own; a second client multiplies the
states past five minutes. The signals have no bound: `AsyncSignalHandler` is finite.
The clients of `monitor` send event logs with samples that share sections with the common
one, that do not, and that cannot be parsed; three requests fill its queue of two and
push the oldest log out. Its only counter that no client writes is the uptime: `Stats` is
empty, so the resource statistics add none. The rate of `timers` is two, since with a
rate of one no reading of the clock lies between two executions, and four ticks are the
least in which a throttle can be executed twice. The sets of events of `polling` include
disjoint ones, so that a subscription made again may want what the old one did not, and
errors, which `poll()` reports of descriptors also to those who did not ask.

Larger instances were completed and showed nothing else. With all properties of the run:
a resource counter for `monitor`, a second time point for `timeouts`, and events `IN` and
`OUT`, each by itself, for `polling`. For safety alone: six ticks instead of four for `timeouts`, four
closures for `timers`, and for `polling` two descriptors with one set of events, and four
subscriptions with the sets `IN` and `IN` with `OUT`.
Symmetry of the threads is declared only in the runs that look for a violation of
an invariant; it is not sound for the temporal properties of the others.

### Fairness

- `ZmqEventLoop`: the loop's thread goes on (`poll()` returns at the latest after
  `healthCheckDuration_`), and a thread inside a call is scheduled. Nobody is obliged
  to begin a call. The fairness is weak: a writer waiting for a slot keeps its ticket,
  so its step, once enabled, stays enabled.
- `EventLoopTimeouts`, `ZmqTimeout`, `ZmqThrottle`: the clock advances, the pass or
  the executor goes on. `EventLoopTimeouts` proves of the event loop what
  `TimerService` assumes of an executor.
- `EventLoopPolling`: the pass goes on; callbacks return. Nobody is obliged to call
  `run()` again; `ServedAcrossRuns` is about the behaviours in which dispatching goes on.
- `ZmqMonitorClient`: the monitor serves each client that has a request (a ROUTER is
  fair-queued) and a client that waits takes its response.
- `AsyncSignalHandler`: a call of `setupSignal()` ends, and the loop goes on. The
  latter is strong fairness: application code on the same thread disables the loop
  while it runs, but returns to it.
- `SocketMessages`: only the receiving thread goes on, so `ReceiveEnds` owes nothing to
  the sender.
- `SocketWait`: the `EventBase` calls the handler of a ready descriptor and resumes
  what is woken. Neither arrivals nor timeouts are promised.
- `Examples`: every process goes on. The server's handlers are not obliged to answer,
  so `ClientExits` does not depend on the server.

## 4. Proofs

All theorems hold for every value of the constants that satisfies the named
assumptions (`ConstantsAssumption`, `TimeoutsAssumption`, `TimeAssumption`,
`PeriodsAssumption`, `RatesAssumption`, `KeysAssumption`, `SignalsAssumption`,
`MessagesAssumption`, `WaitAssumption`, `MonitorAssumption`, `ClientAssumption`,
`ExamplesAssumption`, `StrangeAssumption`): any number of threads, any capacity, any delays, any sockets and
signals, messages of any length, any counters, intervals and clients. Every safety
property that a run checks and finds to hold is also the property of a theorem.

- `ZmqEventLoopProofs`. `Inv` adds to the types: the shape of the loop (`stop_`,
  `items` and `ready` are only set where the program counter says so), that stops
  still in the eventfd or in the flag have been counted (`StopAccount`), and the two
  properties of the handlers. `EveryReturnHasAStop` alone is not inductive: it needs
  to know that a raised `stop_` or `signalFd_` stands for a `stop()` no return has
  used yet. The two properties of the handlers are `ReadsSucceed` and `BatchIsBacked`:
  a handler finds its eventfd readable, and waits only for writers about to finish.
  `QueueHolds` says that the queue holds, per thread, exactly the
  callbacks between `done` and `calls`, in order; from it `CallbackOrder` follows.
  `NoWakeupIsLost` is inductive relative to `Inv`.
- `EventLoopTimeoutsProofs`. `Inv` adds that tokens in the heap are unique and that
  the snapshot of the clock is not in the future. `PassesEnd` uses the latter: a
  fresh timeout is not before the clock, hence not before the snapshot. `PollIsBounded` needs that a
  non-empty heap has a first time point, by well-foundedness of the naturals.
  `TokenAccounting` (a token is active, executed or cancelled) and `SameTimeInOrder` are
  theorems of their own.
  `HeapImplementsService` maps `skipCancelled` and the steps of the pass to
  stuttering, `fire` to `Fire`, and the other operations to themselves.
- `TimerProofs`, `ZmqTimeout`. `Inv` says: each token of the executor is known, no closure
  captured a token the object has not reached, every current closure belongs to an
  object that exists, was asked for at the right time, and an object that was
  destroyed is not scheduled. From it follow `ScheduledIffLive` (`isScheduled()` tells
  the truth), `NoUseAfterDestroy` and `ExpiryIsCurrent`.
- `TimerProofs`, `ZmqThrottle`. Every step of a throttle is a step of `ZmqTimeout`
  (`ThrottleImplementsTimeout`), so the invariant above holds of throttles.
  `AtMostOncePerRate` is an action property; it needs `WaitsForRate`: a throttle that
  waits does so once, for its own rate, and its last execution is no later than when
  that wait was asked for. `CallIsServed` (a call is never swallowed) comes with it.
- `EventLoopPollingProofs`. While no rebuild is asked for, the poll list holds every
  subscription once (`ListInv`, with a lemma on the walk of a finite set); `poll()` is
  entered only then; and the list that is dispatched from is the one `poll()` was given
  (`DispatchInv`), although callbacks have changed the subscriptions since. This holds
  across runs, since `needsRebuild_` outlives an exception. So what is
  removed in one pass is never called in a later one (`CalledWasPolled`).
  `NoItemIsSkipped` is about the counter that ends the dispatch loop early. It is not
  inductive; `CalledInv` says what holds in the middle of the loop: the items called are
  those before `index` that were wanted, in order, and the counter is at least the number
  of wanted items from `index` on (`Remaining`). So when the counter is zero nothing that
  is left is wanted.
- `DescriptorProofs`, `AsyncSignalHandler`. Handlers that share no signal stay apart (`Apart`), also
  in the middle of a `setupSignal()`; what is registered is blocked in every thread or
  was registered late (`Blocked`); a descriptor found ready keeps its signal until its
  own handler reads (`Found`). `ReadsDoNotBlock` is not inductive without the last,
  which speaks of the whole rest of the pass.
- `SocketMessagesProofs`. `SenderInv` ties the loop of the sender to the end of the
  pipe, `PipeInv` orders the parts in it, `VisibleInv` says that what is visible ends
  with a message and the rest is the beginning of one, `ReceiverInv` that a receiver
  with some parts is in the middle of a message. The refinement maps the channel to the
  visible prefix of the pipe: the last part of a message is a `Put`, a receive a
  `Take`, everything else stutters.
- `DescriptorProofs`, `SocketWait`. What a woken side was woken for is still there (`WokenInv`), since
  nobody but itself takes it away, and a message that is begun has its room (`PipeInv`).
  `WaitersAreRecorded` (`waitEvents_` names who waits, and nothing else is registered)
  is part of the invariant and a theorem.

- `MonitorProofs`. The lemmas on `Override`, `Stamped`, `withUptime` and `mergeSample` say
  what each leaves in the map it returns. `PurgeTimely` needs `PurgeInv`: the next purge is
  at most an interval away and no counter will be two intervals old when it comes; what is
  gone was too old when it went; and the time the monitor keeps of a counter is that of
  the last request that touched it, whatever the uptime and the resource statistics
  wrote in between. `ReplyIsOwn` and `QuerySeesOwnWrites` are not inductive, since they speak of the
  response alone. `QueueInv` follows the query from its sending: a client that waits has
  its query as the last of its requests, or all its requests are processed and there is
  exactly its response. `NewestLogsAreKept` (which logs `GET_EVENT_LOGS` finds, and in
  which order) is inductive with the types of both lists (`LogInv`), and
  `SenderOfLogPrevails` follows from `LogInv` and a lemma on `mergeSample`. `AnswersArePublished` is the
  action property `PullAgreesWithPush`. It uses `PublishedInv` (a counter has the value that
  was published last) and the hypothesis `DistinctBumps`: no `BUMP_COUNTER` names a counter
  twice. `ZmqMonitorClient::bumpCounter()` sends one name; for repeated names the property
  is false (section 3).
- `ExamplesProofs`. `ReplyToOwnRequest` rests on a socket per request: `SocketInv` (a client
  has at most the socket of its current request) and `ReplyInv` (a reply that is still on
  its way is for that request, and there is only one). `GetSeesSet` needs to know what
  may still arrive: `RequestInv` says that a `KEY_SET` under way after its client went
  on is one the client gave up, and `VersionInv` that what a client knows is not newer than
  the store, that the reply it waits for lies between, and that the store holds no value of
  the client older than the one it knows, except one given up. The bound on the number
  of values stored, in `TypeOK`, needs `StoreInv`: the store changes at most once for each
  `KEY_SET` that has arrived, and these are counted as the finite set of those sent without
  those under way.

The invariants of the monitor and of the examples were model-checked before they were
proved: on the instance of the run for the monitor, and on one client with two rounds
and two clients with one round for the examples.

### Progress

The liveness properties are proved as far as this prover goes, which leaves two gaps that
the statements of the theorems show.

*Enabledness.* TLAPS does not reason about `ENABLED`. Each theorem has the hypothesis that
the process it is about can take a step where its guard says so: `LoopCanStep`,
`ThreadsCanStep` (a writer at the head of the queue, or past its slot), `PassCanStep`,
`TimersCanStep`, `SignalsCanStep`, `WaitCanStep`, `ReceiveCanStep`, `AllCanStep`,
`ServerCanStep`, `ClientsCanStep`. They are state predicates, and TLC found each of them to
be an invariant of the instance of its run.

*Counting.* A proof by induction over a number or a set of leads-to steps is not
available. Where the argument has one, a theorem proves its step for every value, and
another takes the result of the induction as a hypothesis. TLC found the hypotheses to hold
on the instances of the runs, too.

Everything else of the argument, the choice of what each process waits for and that no
other process takes it away or undoes it, is proved for every value of the constants.

| property | theorem | beside enabledness it assumes | and the step of that induction is |
|---|---|---|---|
| `CloseUnblocks` | `ClosedSocketUnblocks` | - | |
| `AloneIsServed` | `AloneInTheLoop` | - | |
| `SignalEndsServer` | `SignalledServerEnds` | - | |
| `StopEndsRun` | `StopReachesLoop` | `PassesEnd`, from `BatchesEnd` by `PassEndsWithBatch` | `BatchGoesOn`: one callback less in the batch |
| `CallbackIsExecuted` | `CallbacksAreExecuted` | `BatchesEnd`; `SlotsAreGiven`, a blocked writer gets its slot | `BatchGoesOn`; `HeadIsExecuted`: the writer moves up by one |
| `TimeoutIsExecuted` | `TimeoutsAreExecuted` | `ClockArrives`, `ProcessingEnds` | `ClockGoesOn`: the next reading; `PassGoesOn`: one element less that is due, or one more scheduled, of which there are finitely many |
| `ScheduledExpires` | `TimeoutsExpire` | `ClockArrives`, `ExecutorCatchesUp` | `TimersGoOn`: the next reading; the first timeout that is due is run |
| `CallIsExecuted` | `CallsAreExecuted` | the same | the same |
| `ReadyIsCalled` | `NoKeyStarves` | `DispatchEnds` | `DispatchGoesOn`: one item less |
| `ServedAcrossRuns` | `EventSurvivesRuns` | `DispatchEnds`, and nothing of enabledness or fairness | `DispatchGoesOn` |
| `SignalIsHandled` | `SignalsAreHandled` | `RoundEnds` | `RoundGoesOn`: one descriptor less |
| `ReceiveEnds` | - | | `ReceiveGoesOn`: one part less of those that are visible |
| `QueryReturns` | - | | `QueryGoesOn`: one request less before the query |
| `ClientExits` | - | | `ClientGoesOn`: the next request; the end of the `Context` after the last |

The last three are the result of the induction themselves, so there is nothing more to
prove; TLC checks them. In each case the fairness is that of section 3, and the arguments
are these.

- The loop of `ZmqEventLoop`. What a pass has still to do is one of six situations
  (`TwoToDo` to `NothingToDo`), each step of the loop leads to a later one, and the handler
  of `callbackFd_` is called once in a pass (`OneBatch`). A callback in the batch whose
  writer is still in `blockingWrite()` makes the loop wait for that thread alone. A
  callback outside the batch is blocked, unannounced, announced or about to be counted
  by `size()`; `NoLostWakeup` says that there is no fifth place, and each of the four is
  left only for the next, or for the batch. The head of the queue always has a slot, so
  the loop never waits for a writer that waits for the loop.
- `EventLoopTimeouts`. `WakesLater`: a `poll()` ends at a later reading of the clock than it
  was entered at, so the clock and the loop never wait for each other. A timeout in the heap stays until it is due, and a
  pass that begins after that reaches it.
- `ZmqTimeout`, `ZmqThrottle`. What is scheduled while the first timeout waits is not
  before it in time or has a larger token (`FirstStaysFirst`), so nothing overtakes it. The
  current closure of an object cannot be dropped as stale (`DecidingStep`), and its time
  does not change while its token does not (`ScheduledKeepsTime`).
- `EventLoopPolling`. A key that is ready when `poll()` is entered is reported, and an item
  reported stays due until its turn, whatever the callbacks before it add, remove or
  consume, or the key is gone. An event outside the dispatch loop stays until the next
  `poll()` that succeeds, in whichever run that is, and is due there.
- `AsyncSignalHandler`. Application code may disable the loop between any two of its steps
  but returns to it (strong fairness); a descriptor that was found ready is called in that
  round, or the signals are shared.
- `SocketWait`. A socket that is closed wakes whoever waits. A waiter that is alone is
  registered, so that the next event finds it.
- `SocketMessages`, `ZmqMonitorClient`. Only the receiver takes parts, and only the monitor
  takes requests; the other side can but append behind what is counted.
- `Examples`. The stages of the server's `main()` after a signal follow each other
  whatever the clients do. A client has a stage for each request, left by the reply or by
  the timeout.

Only model-checked are the hypotheses named above, and with them the last step to
`ReceiveEnds`, `QueryReturns` and `ClientExits`. The three runs that find a violation have,
of course, no theorem.

## 5. Not modelled

- Weak memory: `threadId_` is accessed with relaxed order; the model has a single
  order of all steps. The accesses checked here are to that one variable and through
  system calls, which order them on the platforms supported.
- Exceptions of timeout callbacks in `EventLoopTimeouts`. `EventLoopPolling` has the one
  that the library itself throws in them.
- Data: payloads, thrift and JSON encoding, value types and wall-clock timestamps of
  counters, the values of resource counters.
- The BSD variant of the eventfds (pipes), whose counter semantics differ, and of the
  signal handler.
- Lost publications (a PUB socket drops for slow subscribers), the high-water
  marks of the monitor's sockets, and a monitor that restarts under a waiting client.
- Calls that the documentation forbids: two threads in one loop's methods; two readers
  or two writers waiting on one socket.
- `Socket`: options and `bind()`, which hand their arguments to libzmq; the map of
  server keys, which `connect()` looks up once; move construction and assignment, since
  a model has no C++ object to move. `sendMultiple()` of an empty vector does nothing.
- `AsyncSignalHandler` destroyed while its loop runs: the subscription stays behind with
  a callback that refers to the object. Nothing in the code makes this order safe.
- `Message`: reference counts and buffers are libzmq's, the rest converts payloads.
  Only what `read()` refuses is used, by `Examples`.
- `SocketMonitor`: decodes frames of `zmq_socket_monitor()` for a callback.
- `ThreadData`, `ExportedStat`: names and dispatch around folly's time series, which
  hold all of the state.
- `SystemMetrics`, `ZmqMonitorSample`: input and output.
- `Runnable`: an interface. The build scripts: not part of the library.

## 6. What could follow

1. Two event loops that enqueue into each other, for the blocking of full queues.
2. Requests with a wrong number of parts to the monitor, through `SocketMessages`.
