------------------------------ MODULE ZmqMonitor ------------------------------
(***************************************************************************)
(* ZmqMonitor (fbzmq/service/monitor/ZmqMonitor.h): a server that keeps    *)
(* counters and the last event logs, answers requests on a ROUTER socket,  *)
(* publishes what changes on a PUB socket, and drops counters that nobody  *)
(* updates.  It is one event loop: a request and a timer each run to their *)
(* end.  ZmqMonitorClient adds the clients and the sockets between.        *)
(***************************************************************************)
EXTENDS Integers, Sequences, FiniteSets, LogSample

CONSTANTS
  Names,         \* counters of the clients
  Uptime,        \* "process.uptime.seconds"
  Stats,         \* "process.memory.rss", "process.cpu.pct"
  MaxLogEvents,  \* maxLogEvents_
  SampleToMerge, \* logSampleToMerge_, an empty sample if there is none
  Interval,      \* alivenessCheckInterval_
  Profiling,     \* profilingStatInterval
  MaxTime        \* bound: the last reading of the steady clock

ASSUME MonitorAssumption ==
  /\ Uptime \notin Names \cup Stats /\ Names \cap Stats = {}
  /\ MaxLogEvents \in Nat \ {0}    \* 0 would pop_front() an empty list
  /\ {Interval, Profiling} \subseteq Nat \ {0} /\ MaxTime \in Nat

VARIABLES
  now,        \* the steady clock
  counters,   \* counters_: name -> value and time of the last update
  eventLogs,  \* eventLogs_
  nextPurge,  \* when monitorTimer_, which is periodic, expires
  nextStats,  \* when profilingTimer_, which is periodic, expires
  replica,    \* history: what COUNTER_PUBs told a subscriber
  logged,     \* history: event logs as received and in EVENT_LOG_PUBs
  touched     \* history: when a client last set or bumped each counter

timers == <<nextPurge, nextStats>>
monitorVars == <<now, counters, eventLogs, timers, replica, logged, touched>>

Keys == Names \cup {Uptime} \cup Stats
Counter == [value : Int, at : Nat]

(* What the monitor itself holds; the histories are left out.              *)
MonitorTypeOK ==
  /\ now \in Nat /\ nextPurge \in Nat /\ nextStats \in Nat
  /\ DOMAIN counters \subseteq Keys
  /\ \A k \in DOMAIN counters : counters[k] \in Counter
  /\ Len(eventLogs) <= MaxLogEvents

(* The constructor starts the timers and reads the resource usage once.    *)
MonitorInit ==
  /\ now = 0 /\ eventLogs = <<>>
  /\ nextPurge = Interval /\ nextStats = Profiling
  /\ counters \in UNION {[S -> {[value |-> 0, at |-> 0]}] : S \in SUBSET Stats}
  /\ replica = <<>> /\ logged = <<>> /\ touched = <<>>

(* f, with g where g is defined.                                           *)
Override(f, g) == update_missing(g, f)

Stamped(values) == [k \in DOMAIN values |-> [value |-> values[k], at |-> now]]

(* Every request that is understood first updates the uptime.              *)
withUptime ==
  Override(counters, [k \in {Uptime} |-> [value |-> now, at |-> now]])

(* COUNTER_PUB.                                                            *)
publish(values) ==
  /\ replica' = Override(replica, values)
  /\ touched' = Override(touched, [k \in DOMAIN values |-> now])

Elements(s) == {s[i] : i \in DOMAIN s}
Occurrences(s, n) == Cardinality({i \in DOMAIN s : s[i] = n})
valueOf(n) == IF n \in DOMAIN withUptime THEN withUptime[n].value ELSE 0
-------------------------------------------------------------------------------
(* processRequest(), for each command.                                     *)

setCounterValues(values) ==
  /\ counters' = Override(withUptime, Stamped(values))
  /\ publish(values)
  /\ UNCHANGED <<now, eventLogs, timers, logged>>

(* Mutant: the counter is published before it is incremented.              *)
MutBumpPublishesOld(names) ==
  LET bumped == [n \in Elements(names) |-> valueOf(n) + Occurrences(names, n)]
  IN  /\ counters' = Override(withUptime, Stamped(bumped))
      /\ publish([n \in DOMAIN bumped |-> valueOf(n)])
      /\ UNCHANGED <<now, eventLogs, timers, logged>>

(* A name is bumped as often as it is listed; emplace() keeps the value of *)
(* its first occurrence for the publication.                               *)
bumpCounter(names) ==
  LET bumped == [n \in Elements(names) |-> valueOf(n) + Occurrences(names, n)]
      first  == [n \in Elements(names) |-> valueOf(n) + 1]
  IN  /\ counters' = Override(withUptime, Stamped(bumped))
      /\ publish(first)
      /\ UNCHANGED <<now, eventLogs, timers, logged>>

(* An event log is a list of samples.  One that cannot be parsed is passed *)
(* along as it is.                                                         *)
merged(log) ==
  [i \in DOMAIN log |-> IF fromJsonThrows(log[i]) THEN log[i]
                        ELSE mergeSample(log[i], SampleToMerge)]

(* Mutant: > for >=, one log too many.                                     *)
MutLogEventOneMore(log) ==
  /\ eventLogs' = Append(IF Len(eventLogs) > MaxLogEvents THEN Tail(eventLogs)
                                                          ELSE eventLogs, merged(log))
  /\ logged' = Append(logged, [received |-> log, published |-> merged(log)])
  /\ counters' = withUptime
  /\ UNCHANGED <<now, timers, replica, touched>>

(* LOG_EVENT: completed, stored, then published.                           *)
logEvent(log) ==
  /\ eventLogs' = Append(IF Len(eventLogs) >= MaxLogEvents THEN Tail(eventLogs)
                                                           ELSE eventLogs, merged(log))
  /\ logged' = Append(logged, [received |-> log, published |-> merged(log)])
  /\ counters' = withUptime
  /\ UNCHANGED <<now, timers, replica, touched>>

(* GET_COUNTER_VALUES, DUMP_ALL_COUNTER_NAMES, DUMP_ALL_COUNTER_DATA,      *)
(* GET_EVENT_LOGS, and commands it does not know.                          *)
answer ==
  /\ counters' = withUptime
  /\ UNCHANGED <<now, eventLogs, timers, replica, logged, touched>>

Values(f) == [k \in DOMAIN f |-> f[k].value]

(* The body of the response to a request.                                  *)
response(req) ==
  CASE req.cmd = "GET" -> Values([k \in DOMAIN withUptime \cap {req.name} |->
                                    withUptime[k]])
    [] req.cmd = "NAMES" -> DOMAIN withUptime
    [] req.cmd = "DATA" -> Values(withUptime)
    [] req.cmd = "LOGS" -> eventLogs

isQuery(req) == req.cmd \in {"GET", "NAMES", "DATA", "LOGS"}

(* Mutant: a request that cannot be read is not taken off the socket.      *)
MutProcessRequestStuck(req) ==
  \/ req.cmd = "SET" /\ setCounterValues(req.values)
  \/ req.cmd = "BUMP" /\ bumpCounter(req.names)
  \/ req.cmd = "LOG" /\ logEvent(req.log)
  \/ isQuery(req) /\ answer
  \/ req.cmd = "unknown" /\ answer

(* A request that cannot be read changes nothing and gets no response.     *)
processRequest(req) ==
  \/ req.cmd = "SET" /\ setCounterValues(req.values)
  \/ req.cmd = "BUMP" /\ bumpCounter(req.names)
  \/ req.cmd = "LOG" /\ logEvent(req.log)
  \/ isQuery(req) /\ answer
  \/ req.cmd = "unknown" /\ answer
  \/ req.cmd = "malformed" /\ UNCHANGED monitorVars
-------------------------------------------------------------------------------
(* Mutant: the purge allows a second interval of its own.                  *)
MutPurgeLate ==
  /\ now = nextPurge
  /\ LET expired == {k \in DOMAIN counters : now - counters[k].at > 2 * Interval}
     IN  counters' = [k \in DOMAIN counters \ expired |-> counters[k]]
  /\ nextPurge' = now + Interval
  /\ UNCHANGED <<now, nextStats, eventLogs, replica, logged, touched>>

(* monitorTimer_ expires, every alivenessCheckInterval_.                   *)
purgeStaleCounters ==
  /\ now = nextPurge
  /\ LET expired == {k \in DOMAIN counters : now - counters[k].at > Interval}
     IN  counters' = [k \in DOMAIN counters \ expired |-> counters[k]]
  /\ nextPurge' = now + Interval
  /\ UNCHANGED <<now, nextStats, eventLogs, replica, logged, touched>>

(* profilingTimer_ expires: what the system can tell is updated.           *)
updateResourceStats ==
  /\ now = nextStats
  /\ \E S \in SUBSET Stats :
       counters' = Override(counters, Stamped([k \in S |-> 0]))
  /\ nextStats' = now + Profiling
  /\ UNCHANGED <<now, eventLogs, nextPurge, replica, logged, touched>>

(* The timers are on time: the clock waits for them.                       *)
clockTick ==
  /\ now < MaxTime /\ now < nextPurge /\ now < nextStats
  /\ now' = now + 1
  /\ UNCHANGED <<counters, eventLogs, timers, replica, logged, touched>>

Background == purgeStaleCounters \/ updateResourceStats \/ clockTick
-------------------------------------------------------------------------------
(* A counter that was set or bumped within alivenessCheckInterval_ is      *)
(* there, whatever the timer and the other requests did meanwhile; one     *)
(* that nobody sets or bumps for two intervals is gone: in the first one   *)
(* it is still young enough, at the end of the second purgeStaleCounters() *)
(* finds it too old.                                                       *)
PurgeIsTimely ==
  /\ \A n \in DOMAIN touched : now - touched[n] <= Interval => n \in DOMAIN counters
  /\ \A n \in DOMAIN counters \cap Names : now - touched[n] <= 2 * Interval

(* GET_EVENT_LOGS finds the last logs that were published, as many as fit  *)
(* in maxLogEvents_ and in the order of their publication.                 *)
LastLogsAreKept ==
  /\ Len(eventLogs) = IF Len(logged) < MaxLogEvents THEN Len(logged) ELSE MaxLogEvents
  /\ \A i \in DOMAIN eventLogs :
       eventLogs[i] = logged[Len(logged) - Len(eventLogs) + i].published

(* What becomes of a sample.  All that its sender put in is there, with    *)
(* the sender's values.  What else is there is the monitor's, and nothing  *)
(* is added to a sample that fromJson() refuses.  In the sections that the *)
(* sender used, the monitor's values are there; nothing is said of those   *)
(* that only the monitor has.                                              *)
Completed(own, out) ==
  /\ \A s \in DOMAIN own : \A k \in DOMAIN own[s] :
       /\ isInnerValueSet(out, s, k)
       /\ getInnerValue(out, s, k) = getInnerValue(own, s, k)
  /\ \A s \in DOMAIN out : \A k \in DOMAIN out[s] :
       \/ isInnerValueSet(own, s, k)
       \/ /\ ~fromJsonThrows(own) /\ isInnerValueSet(SampleToMerge, s, k)
          /\ getInnerValue(out, s, k) = getInnerValue(SampleToMerge, s, k)
  /\ ~fromJsonThrows(own) =>
       \A s \in DOMAIN own \cap DOMAIN SampleToMerge :
         \A k \in DOMAIN SampleToMerge[s] : isInnerValueSet(out, s, k)

CompletedLog(own, out) ==
  Len(out) = Len(own) /\ \A i \in DOMAIN own : Completed(own[i], out[i])

(* Every event log the monitor publishes, and every one it keeps, is one   *)
(* it received, completed: merging a sample of its own never replaces or   *)
(* loses what a sender wrote.                                              *)
SenderPrevails ==
  /\ \A i \in DOMAIN logged : CompletedLog(logged[i].received, logged[i].published)
  /\ \A i \in DOMAIN eventLogs :
       \E j \in DOMAIN logged : CompletedLog(logged[j].received, eventLogs[i])
===============================================================================
