---------------------------- MODULE MonitorProofs ----------------------------
(***************************************************************************)
(* Proofs about the monitor and its clients, for any counters, clients,    *)
(* event logs, intervals and number of requests.  The argument: what the   *)
(* monitor keeps of a counter is what it published and when it was told    *)
(* (PurgeInv, PublishedInv); and a client's requests and responses are one *)
(* line, in which a query is always the last (QueueInv).                   *)
(***************************************************************************)
EXTENDS ZmqMonitorClient, FiniteSetTheorems, TLAPS

(* A part of a sequence that ends before it begins is empty.               *)
LEMMA SubSeqEmpty ==
  ASSUME NEW s, NEW m \in Int, NEW n \in Int, n < m
  PROVE  SubSeq(s, m, n) = <<>>
  OBVIOUS

(* All of a sequence.                                                      *)
LEMMA SubSeqFull ==
  ASSUME NEW S, NEW s \in Seq(S)
  PROVE  SubSeq(s, 1, Len(s)) = s
  OBVIOUS

Request ==
  UNION {[cmd : {"SET"}, values : SetParams], [cmd : {"BUMP"}, names : BumpLists],
         [cmd : {"LOG"}, log : Logs], [cmd : {"GET"}, name : Names],
         [cmd : {"NAMES", "DATA", "LOGS"} \cup Foreign]}

(* The event logs that can be kept and published.                          *)
MergedLogs == {merged(log) : log \in Logs}

LogRecord == {[received |-> log, published |-> merged(log)] : log \in Logs}

(* What is published was sent by a client and completed, and the last of   *)
(* it is kept.                                                             *)
LogInv ==
  /\ eventLogs \in Seq(MergedLogs) /\ logged \in Seq(LogRecord)
  /\ LastLogsAreKept

(* The purge comes every interval and leaves nothing older than one; what  *)
(* it has removed was too old, and the time kept of a client's counter is  *)
(* that of the client's last request.                                      *)
PurgeInv ==
  /\ now <= nextPurge /\ nextPurge <= now + Interval
  /\ \A k \in DOMAIN counters :
       counters[k].at <= now /\ nextPurge <= counters[k].at + 2 * Interval
  /\ \A k \in DOMAIN touched :
       /\ touched[k] \in Nat
       /\ k \in DOMAIN counters => touched[k] <= counters[k].at
       /\ k \notin DOMAIN counters => touched[k] + Interval < now
  /\ \A k \in DOMAIN counters \cap Names :
       k \in DOMAIN touched /\ touched[k] = counters[k].at

(* A client's counter has the value that was published last.               *)
PublishedInv ==
  \A k \in DOMAIN counters \cap Names :
    k \in DOMAIN replica /\ counters[k].value = replica[k]

(* No query is among the requests.                                         *)
NoQuery(s) == \A i \in DOMAIN s : ~isQuery(s[i])

(* Nothing that a client sent is lost.  Who does not wait has asked        *)
(* nothing; who waits has its query at the end of its requests, or the     *)
(* response, with all it sent processed.                                   *)
ClientQueue(c) ==
  /\ applied[c] + Len(requests[c]) = sent[c]
  /\ waiting[c] = "none" => replies[c] = <<>> /\ NoQuery(requests[c])
  /\ waiting[c] # "none" =>
       \/ /\ replies[c] = <<>> /\ requests[c] # <<>>
          /\ requests[c][Len(requests[c])].cmd = waiting[c]
          /\ \A i \in 1..Len(requests[c]) - 1 : ~isQuery(requests[c][i])
       \/ /\ requests[c] = <<>> /\ replies[c] = <<Head(replies[c])>>
          /\ Head(replies[c]).cmd = waiting[c] /\ Head(replies[c]).after = sent[c]

QueueInv ==
  /\ requests \in [Clients -> Seq(Request)]
  /\ DOMAIN replies = Clients
  /\ \A c \in Clients : ClientQueue(c)

MonitorInv == MonitorTypeOK /\ LogInv /\ PurgeInv
Inv == TypeOK /\ LogInv /\ PurgeInv /\ QueueInv
-------------------------------------------------------------------------------
(* The operators of the monitor.                                           *)

(* Override() is defined where either is, and prefers the second.          *)
LEMMA OverrideFacts ==
  ASSUME NEW f, NEW g
  PROVE  /\ DOMAIN Override(f, g) = DOMAIN f \cup DOMAIN g
         /\ \A k \in DOMAIN g : Override(f, g)[k] = g[k]
         /\ \A k \in DOMAIN f \ DOMAIN g : Override(f, g)[k] = f[k]
  BY Zenon DEF Override, update_missing

(* Updating the uptime changes no other counter.                           *)
LEMMA WithUptimeFacts ==
  /\ DOMAIN withUptime = DOMAIN counters \cup {Uptime}
  /\ withUptime[Uptime] = [value |-> now, at |-> now]
  /\ \A k \in DOMAIN counters \ {Uptime} : withUptime[k] = counters[k]
  <1> DEFINE up == [k \in {Uptime} |-> [value |-> now, at |-> now]]
  <1>1. withUptime = Override(counters, up)
    BY Zenon DEF withUptime
  <1>2. DOMAIN up = {Uptime} /\ up[Uptime] = [value |-> now, at |-> now]
    BY Zenon
  <1> HIDE DEF up
  <1>3. /\ DOMAIN Override(counters, up) = DOMAIN counters \cup DOMAIN up
        /\ \A k \in DOMAIN up : Override(counters, up)[k] = up[k]
        /\ \A k \in DOMAIN counters \ DOMAIN up : Override(counters, up)[k] = counters[k]
    BY OverrideFacts, Zenon
  <1> QED
    BY <1>1, <1>2, <1>3, Zenon

(* What updating counters and the uptime leaves in counters_.              *)
LEMMA StampedFacts ==
  ASSUME NEW values
  PROVE  LET new == Override(withUptime, Stamped(values))
         IN  /\ DOMAIN new = DOMAIN counters \cup {Uptime} \cup DOMAIN values
             /\ \A k \in DOMAIN values : new[k] = [value |-> values[k], at |-> now]
             /\ Uptime \notin DOMAIN values =>
                  new[Uptime] = [value |-> now, at |-> now]
             /\ \A k \in DOMAIN counters \ ({Uptime} \cup DOMAIN values) :
                  new[k] = counters[k]
  <1>1. /\ DOMAIN Stamped(values) = DOMAIN values
        /\ \A k \in DOMAIN values : Stamped(values)[k] = [value |-> values[k], at |-> now]
    BY Zenon DEF Stamped
  <1> DEFINE new == Override(withUptime, Stamped(values))
  <1>2. /\ DOMAIN new = DOMAIN withUptime \cup DOMAIN Stamped(values)
        /\ \A k \in DOMAIN Stamped(values) : new[k] = Stamped(values)[k]
        /\ \A k \in DOMAIN withUptime \ DOMAIN Stamped(values) : new[k] = withUptime[k]
    BY OverrideFacts, Zenon
  <1> HIDE DEF new
  <1>3. /\ DOMAIN new = DOMAIN counters \cup {Uptime} \cup DOMAIN values
        /\ \A k \in DOMAIN values : new[k] = [value |-> values[k], at |-> now]
        /\ Uptime \notin DOMAIN values => new[Uptime] = [value |-> now, at |-> now]
        /\ \A k \in DOMAIN counters \ ({Uptime} \cup DOMAIN values) :
             new[k] = counters[k]
    BY <1>1, <1>2, WithUptimeFacts, Zenon
  <1> QED
    BY <1>3, Zenon DEF new

(* mergeSample() gives the sender what the monitor knows, and no more.     *)
LEMMA MergedIsCompleted ==
  ASSUME NEW log, NEW i \in DOMAIN log
  PROVE  Completed(log[i], merged(log)[i])
  <1>1. CASE fromJsonThrows(log[i])
    <2>1. merged(log)[i] = log[i]
      BY <1>1, Zenon DEF merged
    <2> QED
      BY <1>1, <2>1, Zenon DEF Completed, getInnerValue, isInnerValueSet
  <1>2. CASE ~fromJsonThrows(log[i])
    <2> DEFINE own == log[i]
               out == mergeSample(own, SampleToMerge)
    <2>1. merged(log)[i] = out
      BY <1>2, Zenon DEF merged
    <2>2. DOMAIN out = DOMAIN own
      BY Zenon DEF mergeSample
    <2>3. ASSUME NEW s \in DOMAIN own, s \in DOMAIN SampleToMerge
          PROVE  /\ DOMAIN out[s] = DOMAIN own[s] \cup DOMAIN SampleToMerge[s]
                 /\ \A k \in DOMAIN out[s] :
                      out[s][k] = IF k \in DOMAIN own[s] THEN own[s][k]
                                                         ELSE SampleToMerge[s][k]
      BY <2>3, Zenon DEF mergeSample, update_missing
    <2>4. ASSUME NEW s \in DOMAIN own, s \notin DOMAIN SampleToMerge
          PROVE  out[s] = own[s]
      BY <2>4, Zenon DEF mergeSample
    <2> USE DEF getInnerValue, isInnerValueSet
    <2> HIDE DEF own, out
    <2>5. \A s \in DOMAIN own : \A k \in DOMAIN own[s] :
            isInnerValueSet(out, s, k) /\ getInnerValue(out, s, k) = getInnerValue(own, s, k)
      BY <2>2, <2>3, <2>4, Zenon
    <2>6. \A s \in DOMAIN out : \A k \in DOMAIN out[s] :
            \/ isInnerValueSet(own, s, k)
            \/ /\ isInnerValueSet(SampleToMerge, s, k)
               /\ getInnerValue(out, s, k) = getInnerValue(SampleToMerge, s, k)
      BY <2>2, <2>3, <2>4, Zenon
    <2>7. \A s \in DOMAIN own \cap DOMAIN SampleToMerge :
            \A k \in DOMAIN SampleToMerge[s] : isInnerValueSet(out, s, k)
      BY <2>2, <2>3, Zenon
    <2>8. ~fromJsonThrows(own)
      BY <1>2, Zenon DEF own
    <2>9. Completed(own, out)
      <3> HIDE DEF getInnerValue, isInnerValueSet
      <3> QED
        BY <2>5, <2>6, <2>7, <2>8, Zenon DEF Completed
    <2> QED
      BY <2>1, <2>9, Zenon DEF own
  <1> QED
    BY <1>1, <1>2, Zenon

(* A log as long as its parts say, before and after it is completed.       *)
LEMMA MergedIsAsLong ==
  ASSUME NEW log \in Logs
  PROVE  Len(merged(log)) = Len(log) /\ DOMAIN merged(log) = DOMAIN log
  <1>1. Len(log) \in Nat /\ DOMAIN log = 1..Len(log)
    BY ClientAssumption, Zenon
  <1>2. DOMAIN merged(log) = 1..Len(log)
    BY <1>1, Zenon DEF merged
  <1> QED
    BY <1>1, <1>2
-------------------------------------------------------------------------------
(* The monitor.                                                            *)

(* Nothing else touches the logs.                                          *)
LEMMA LogsStay ==
  ASSUME LogInv, UNCHANGED <<eventLogs, logged>>
  PROVE  LogInv'
  BY Zenon DEF LogInv, LastLogsAreKept

(* Counters S are updated now, those of T among them by a client.          *)
LEMMA UpdateKeepsTimes ==
  ASSUME MonitorTypeOK, PurgeInv, NEW S, NEW T \in SUBSET S, S \cap Names \subseteq T,
         DOMAIN counters' = DOMAIN counters \cup S,
         \A k \in S : counters'[k].at = now,
         \A k \in DOMAIN counters \ S : counters'[k] = counters[k],
         DOMAIN touched' = DOMAIN touched \cup T,
         \A k \in T : touched'[k] = now,
         \A k \in DOMAIN touched \ T : touched'[k] = touched[k],
         now' = now, nextPurge' = nextPurge
  PROVE  PurgeInv'
  <1> USE MonitorAssumption
  <1>1. /\ now \in Nat /\ nextPurge \in Nat
        /\ \A k \in DOMAIN counters : counters[k].at \in Nat
    BY Zenon DEF MonitorTypeOK, Counter
  <1>2. ASSUME NEW k \in DOMAIN counters'
        PROVE  /\ counters'[k].at <= now
               /\ nextPurge <= counters'[k].at + 2 * Interval
    <2>1. CASE k \in S
      BY <1>1, <2>1 DEF PurgeInv
    <2>2. CASE k \notin S
      BY <1>1, <2>2, Zenon DEF PurgeInv
    <2> QED
      BY <2>1, <2>2, Zenon
  <1>3. ASSUME NEW k \in DOMAIN touched'
        PROVE  /\ touched'[k] \in Nat
               /\ k \in DOMAIN counters' => touched'[k] <= counters'[k].at
               /\ k \notin DOMAIN counters' => touched'[k] + Interval < now
    <2>1. CASE k \in T
      BY <1>1, <2>1
    <2>2. CASE k \notin T /\ k \in S
      <3>1. k \in DOMAIN touched /\ touched'[k] = touched[k]
        BY <2>2, Zenon
      <3>2. touched[k] \in Nat /\ touched[k] <= now
        BY <1>1, <3>1 DEF PurgeInv
      <3> QED
        BY <2>2, <3>1, <3>2, Zenon
    <2>3. CASE k \notin S
      BY <1>1, <2>3, Zenon DEF PurgeInv
    <2> QED
      BY <2>1, <2>2, <2>3, Zenon
  <1>4. ASSUME NEW k \in DOMAIN counters' \cap Names
        PROVE  k \in DOMAIN touched' /\ touched'[k] = counters'[k].at
    <2>1. CASE k \in S
      BY <2>1, Zenon
    <2>2. CASE k \notin S
      BY <2>2, Zenon DEF PurgeInv
    <2> QED
      BY <2>1, <2>2, Zenon
  <1> QED
    BY <1>2, <1>3, <1>4, Zenon DEF PurgeInv

(* A client's update: the counters have the new values, and values is what *)
(* is published of them.                                                   *)
LEMMA ClientUpdate ==
  ASSUME MonitorInv, NEW new, NEW values, DOMAIN values = DOMAIN new,
         DOMAIN new \subseteq Keys, \A k \in DOMAIN new : new[k] \in Int,
         counters' = Override(withUptime, Stamped(new)), publish(values),
         UNCHANGED <<now, eventLogs, timers, logged>>
  PROVE  MonitorInv'
  <1> DEFINE S == DOMAIN new \cup {Uptime}
             stamps == [k \in DOMAIN values |-> now]
  <1>1. /\ DOMAIN counters' = DOMAIN counters \cup {Uptime} \cup DOMAIN new
        /\ \A k \in DOMAIN new : counters'[k] = [value |-> new[k], at |-> now]
        /\ Uptime \notin DOMAIN new => counters'[Uptime] = [value |-> now, at |-> now]
        /\ \A k \in DOMAIN counters \ ({Uptime} \cup DOMAIN new) :
             counters'[k] = counters[k]
    BY StampedFacts, Zenon
  <1>2. MonitorTypeOK /\ LogInv /\ PurgeInv /\ UNCHANGED <<now, nextPurge, nextStats>>
    BY Zenon DEF MonitorInv, timers
  <1>3. now \in Nat /\ now \in Int
    BY <1>2 DEF MonitorTypeOK
  <1>4. ASSUME NEW k \in DOMAIN counters'
        PROVE  counters'[k] \in Counter
    <2>1. CASE k \in DOMAIN new
      BY <1>1, <1>3, <2>1 DEF Counter
    <2>2. CASE k = Uptime /\ k \notin DOMAIN new
      BY <1>1, <1>3, <2>2 DEF Counter
    <2>3. CASE k # Uptime /\ k \notin DOMAIN new
      BY <1>1, <1>2, <2>3, Zenon DEF MonitorTypeOK
    <2> QED
      BY <2>1, <2>2, <2>3, Zenon
  <1>5. MonitorTypeOK'
    <2>1. DOMAIN counters' \subseteq Keys
      BY <1>1, <1>2, Zenon DEF MonitorTypeOK, Keys
    <2> QED
      BY <1>2, <1>4, <2>1, Zenon DEF MonitorTypeOK
  <1>6. touched' = Override(touched, stamps)
    BY Zenon DEF publish
  <1>7. DOMAIN stamps = DOMAIN new /\ \A k \in DOMAIN new : stamps[k] = now
    BY Zenon
  <1> HIDE DEF stamps
  <1>8. /\ DOMAIN touched' = DOMAIN touched \cup DOMAIN stamps
        /\ \A k \in DOMAIN stamps : touched'[k] = stamps[k]
        /\ \A k \in DOMAIN touched \ DOMAIN stamps : touched'[k] = touched[k]
    <2> DEFINE f == Override(touched, stamps)
    <2>1. /\ DOMAIN f = DOMAIN touched \cup DOMAIN stamps
          /\ \A k \in DOMAIN stamps : f[k] = stamps[k]
          /\ \A k \in DOMAIN touched \ DOMAIN stamps : f[k] = touched[k]
      BY OverrideFacts, Zenon
    <2> QED
      BY <1>6, <2>1, Zenon
  <1>9. /\ DOMAIN counters' = DOMAIN counters \cup S
        /\ \A k \in S : counters'[k].at = now
        /\ \A k \in DOMAIN counters \ S : counters'[k] = counters[k]
        /\ S \cap Names \subseteq DOMAIN new
    BY <1>1, MonitorAssumption
  <1> HIDE DEF S
  <1>10. DOMAIN new \in SUBSET S
    BY Zenon DEF S
  <1>11. PurgeInv'
    BY <1>2, <1>7, <1>8, <1>9, <1>10, UpdateKeepsTimes
  <1>12. LogInv'
    BY <1>2, LogsStay, Zenon
  <1> QED
    BY <1>5, <1>11, <1>12, Zenon DEF MonitorInv

(* A request that only reads, or logs: the uptime is all that is updated.  *)
LEMMA UptimeUpdate ==
  ASSUME MonitorTypeOK, PurgeInv, counters' = withUptime,
         UNCHANGED <<now, timers, touched>>
  PROVE  /\ PurgeInv' /\ DOMAIN counters' \subseteq Keys
         /\ \A k \in DOMAIN counters' : counters'[k] \in Counter
  <1> DEFINE S == {Uptime}
             T == {}
  <1>1. /\ DOMAIN counters' = DOMAIN counters \cup {Uptime}
        /\ counters'[Uptime] = [value |-> now, at |-> now]
        /\ \A k \in DOMAIN counters \ {Uptime} : counters'[k] = counters[k]
    BY WithUptimeFacts, Zenon
  <1>2. /\ now \in Nat /\ now \in Int /\ DOMAIN counters \subseteq Keys
        /\ \A k \in DOMAIN counters : counters[k] \in Counter
    BY DEF MonitorTypeOK
  <1>3. DOMAIN counters' \subseteq Keys
    BY <1>1, <1>2, Zenon DEF Keys
  <1>4. ASSUME NEW k \in DOMAIN counters'
        PROVE  counters'[k] \in Counter
    <2>1. CASE k = Uptime
      BY <1>1, <1>2, <2>1 DEF Counter
    <2>2. CASE k # Uptime
      BY <1>1, <1>2, <2>2, Zenon
    <2> QED
      BY <2>1, <2>2, Zenon
  <1>5. /\ DOMAIN counters' = DOMAIN counters \cup S
        /\ \A k \in S : counters'[k].at = now
        /\ \A k \in DOMAIN counters \ S : counters'[k] = counters[k]
        /\ S \cap Names \subseteq T
    BY <1>1, MonitorAssumption
  <1>6. /\ DOMAIN touched' = DOMAIN touched \cup T
        /\ \A k \in T : touched'[k] = now
        /\ \A k \in DOMAIN touched \ T : touched'[k] = touched[k]
        /\ now' = now /\ nextPurge' = nextPurge
    BY Zenon DEF timers
  <1>7. T \in SUBSET S
    BY Zenon
  <1> HIDE DEF S, T
  <1>8. PurgeInv'
    BY <1>5, <1>6, <1>7, UpdateKeepsTimes, Zenon
  <1> QED
    BY <1>3, <1>4, <1>8, Zenon

(* The values a BUMP_COUNTER gives its counters are numbers.               *)
LEMMA BumpFacts ==
  ASSUME MonitorTypeOK, NEW names \in BumpLists
  PROVE  /\ Elements(names) \subseteq Keys
         /\ \A n \in Elements(names) :
              valueOf(n) \in Int /\ Occurrences(names, n) \in Nat
  <1>1. names \in Seq(Keys)
    BY ClientAssumption, Zenon
  <1>2. Elements(names) \subseteq Keys
    BY <1>1 DEF Elements
  <1>3. ASSUME NEW n
        PROVE  Occurrences(names, n) \in Nat
    <2>1. IsFiniteSet(DOMAIN names)
      <3>1. DOMAIN names = 1..Len(names) /\ Len(names) \in Nat
        BY <1>1
      <3> QED
        BY <3>1, FS_Interval
    <2>2. IsFiniteSet({i \in DOMAIN names : names[i] = n})
      BY <2>1, FS_Subset, Zenon
    <2> QED
      BY <2>2, FS_CardinalityType, Zenon DEF Occurrences
  <1>4. ASSUME NEW n
        PROVE  valueOf(n) \in Int
    <2>1. now \in Int /\ \A k \in DOMAIN counters : counters[k].value \in Int
      BY DEF MonitorTypeOK, Counter
    <2>2. CASE n = Uptime
      BY <2>1, <2>2, WithUptimeFacts DEF valueOf
    <2>3. CASE n # Uptime
      BY <2>1, <2>3, WithUptimeFacts DEF valueOf
    <2> QED
      BY <2>2, <2>3, Zenon
  <1> QED
    BY <1>2, <1>3, <1>4, Zenon

(* The newest log is kept and the oldest goes when there is no room.       *)
LEMMA LogStep ==
  ASSUME MonitorInv, NEW log \in Logs, logEvent(log)
  PROVE  LogInv' /\ Len(eventLogs)' <= MaxLogEvents
  <1> DEFINE m == merged(log)
             new == [received |-> log, published |-> m]
             L == Len(logged)
             E == Len(eventLogs)
  <1>1. m \in MergedLogs /\ new \in LogRecord
    BY Zenon DEF MergedLogs, LogRecord
  <1>2. eventLogs \in Seq(MergedLogs) /\ logged \in Seq(LogRecord)
    BY Zenon DEF MonitorInv, LogInv
  <1>3. /\ E = IF L < MaxLogEvents THEN L ELSE MaxLogEvents
        /\ \A i \in DOMAIN eventLogs : eventLogs[i] = logged[L - E + i].published
    BY Zenon DEF MonitorInv, LogInv, LastLogsAreKept
  <1>4. MaxLogEvents \in Nat \ {0}
    BY MonitorAssumption, Zenon
  <1>5. logged' = Append(logged, new)
    BY Zenon DEF logEvent
  <1> HIDE DEF m, new
  <1>6. /\ logged' \in Seq(LogRecord) /\ Len(logged') = L + 1 /\ logged'[L + 1] = new
        /\ \A i \in 1..L : logged'[i] = logged[i]
    BY <1>1, <1>2, <1>5
  <1>7. new.published = m
    BY Zenon DEF new
  <1>8. L \in Nat /\ E \in Nat /\ DOMAIN eventLogs = 1..E
    BY <1>2
  <1>9. CASE E >= MaxLogEvents
    <2>1. E = MaxLogEvents /\ L >= MaxLogEvents
      BY <1>3, <1>4, <1>8, <1>9
    <2>2. eventLogs' = Append(Tail(eventLogs), m)
      BY <1>9, Zenon DEF logEvent, m
    <2>3. /\ Tail(eventLogs) \in Seq(MergedLogs) /\ Len(Tail(eventLogs)) = E - 1
          /\ \A i \in 1..E - 1 : Tail(eventLogs)[i] = eventLogs[i + 1]
      <3>1. eventLogs # <<>>
        BY <1>4, <2>1
      <3> QED
        BY <1>2, <3>1
    <2>4. /\ eventLogs' \in Seq(MergedLogs) /\ Len(eventLogs') = E /\ eventLogs'[E] = m
          /\ DOMAIN eventLogs' = 1..E
          /\ \A i \in 1..E - 1 : eventLogs'[i] = eventLogs[i + 1]
      BY <1>1, <1>8, <2>2, <2>3
    <2>5. ASSUME NEW i \in 1..E
          PROVE  eventLogs'[i] = logged'[(L + 1) - E + i].published
      <3>1. CASE i = E
        BY <1>6, <1>7, <1>8, <2>4, <3>1
      <3>2. CASE i \in 1..E - 1
        <4>1. i + 1 \in 1..E /\ L - E + (i + 1) \in 1..L /\ (L + 1) - E + i = L - E + (i + 1)
          BY <1>8, <2>1, <3>2
        <4>2. eventLogs'[i] = logged[L - E + (i + 1)].published
          BY <1>3, <1>8, <2>4, <3>2, <4>1, Zenon
        <4> QED
          BY <1>6, <4>1, <4>2, Zenon
      <3>3. i = E \/ i \in 1..E - 1
        <4> HIDE DEF E
        <4> QED
          BY <1>8
      <3> QED
        BY <3>1, <3>2, <3>3, Zenon
    <2>6. Len(eventLogs') = IF Len(logged') < MaxLogEvents THEN Len(logged') ELSE MaxLogEvents
      BY <1>4, <1>6, <1>8, <2>1, <2>4
    <2>7. LastLogsAreKept'
      BY <1>6, <2>4, <2>5, <2>6, Zenon DEF LastLogsAreKept
    <2>8. Len(eventLogs') <= MaxLogEvents
      BY <1>4, <2>1, <2>4
    <2> QED
      BY <1>6, <2>4, <2>7, <2>8, Zenon DEF LogInv
  <1>10. CASE ~(E >= MaxLogEvents)
    <2>1. E = L /\ L < MaxLogEvents
      BY <1>3, <1>4, <1>8, <1>10
    <2>2. eventLogs' = Append(eventLogs, m)
      BY <1>10, Zenon DEF logEvent, m
    <2>3. /\ eventLogs' \in Seq(MergedLogs) /\ Len(eventLogs') = L + 1 /\ eventLogs'[L + 1] = m
          /\ DOMAIN eventLogs' = 1..L + 1
          /\ \A i \in 1..L : eventLogs'[i] = eventLogs[i]
      BY <1>1, <1>2, <2>1, <2>2
    <2>4. ASSUME NEW i \in 1..L + 1
          PROVE  eventLogs'[i] = logged'[(L + 1) - (L + 1) + i].published
      <3>1. (L + 1) - (L + 1) + i = i /\ L - E + i = i
        <4> HIDE DEF L, E
        <4> QED
          BY <1>8, <2>1
      <3>2. CASE i = L + 1
        BY <1>6, <1>7, <2>3, <3>1, <3>2, Zenon
      <3>3. CASE i \in 1..L
        <4>1. eventLogs[i] = logged[i].published
          BY <1>3, <1>8, <2>1, <3>1, <3>3, Zenon
        <4> QED
          BY <1>6, <2>3, <3>1, <3>3, <4>1, Zenon
      <3>4. i = L + 1 \/ i \in 1..L
        <4> HIDE DEF L
        <4> QED
          BY <1>8
      <3> QED
        BY <3>2, <3>3, <3>4, Zenon
    <2>5. Len(eventLogs') = IF Len(logged') < MaxLogEvents THEN Len(logged') ELSE MaxLogEvents
      BY <1>4, <1>6, <1>8, <2>1, <2>3
    <2>6. LastLogsAreKept'
      BY <1>6, <2>3, <2>4, <2>5, Zenon DEF LastLogsAreKept
    <2>7. Len(eventLogs') <= MaxLogEvents
      BY <1>4, <1>8, <2>1, <2>3
    <2> QED
      BY <1>6, <2>3, <2>6, <2>7, Zenon DEF LogInv
  <1> QED
    BY <1>9, <1>10, Zenon

(* Every request keeps the monitor's invariant.                            *)
LEMMA RequestKeepsMonitorInv ==
  ASSUME MonitorInv, NEW req \in Request, processRequest(req)
  PROVE  MonitorInv'
  <1> USE DEF MonitorInv
  <1>1. CASE req.cmd = "SET" /\ setCounterValues(req.values)
    <2> DEFINE values == req.values
    <2>1. values \in SetParams
      BY <1>1, ClientAssumption DEF Request
    <2>2. DOMAIN values \subseteq Keys /\ \A k \in DOMAIN values : values[k] \in Int
      BY <2>1, ClientAssumption, Zenon
    <2>3. /\ counters' = Override(withUptime, Stamped(values)) /\ publish(values)
          /\ UNCHANGED <<now, eventLogs, timers, logged>>
      BY <1>1, Zenon DEF setCounterValues
    <2> HIDE DEF values, MonitorInv
    <2> QED
      BY <2>2, <2>3, ClientUpdate, Zenon
  <1>2. CASE req.cmd = "BUMP" /\ bumpCounter(req.names)
    <2> DEFINE names == req.names
               bumped == [n \in Elements(names) |-> valueOf(n) + Occurrences(names, n)]
               first == [n \in Elements(names) |-> valueOf(n) + 1]
    <2>1. names \in BumpLists
      BY <1>2, ClientAssumption DEF Request
    <2>2. /\ Elements(names) \subseteq Keys
          /\ \A n \in Elements(names) :
               valueOf(n) \in Int /\ Occurrences(names, n) \in Nat
      BY <2>1, BumpFacts, Zenon
    <2>3. /\ counters' = Override(withUptime, Stamped(bumped)) /\ publish(first)
          /\ UNCHANGED <<now, eventLogs, timers, logged>>
      BY <1>2, Zenon DEF bumpCounter
    <2>4. /\ DOMAIN first = DOMAIN bumped /\ DOMAIN bumped \subseteq Keys
          /\ \A k \in DOMAIN bumped : bumped[k] \in Int
      BY <2>2
    <2> HIDE DEF names, bumped, first, MonitorInv
    <2> QED
      BY <2>3, <2>4, ClientUpdate, Zenon
  <1>3. CASE req.cmd = "LOG" /\ logEvent(req.log)
    <2>1. req.log \in Logs
      BY <1>3, ClientAssumption DEF Request
    <2>2. LogInv' /\ Len(eventLogs)' <= MaxLogEvents
      BY <1>3, <2>1, LogStep, Zenon
    <2>3. counters' = withUptime /\ UNCHANGED <<now, timers, touched>>
      BY <1>3, Zenon DEF logEvent
    <2>4. /\ PurgeInv' /\ DOMAIN counters' \subseteq Keys
          /\ \A k \in DOMAIN counters' : counters'[k] \in Counter
      BY <2>3, UptimeUpdate, Zenon
    <2> QED
      BY <2>2, <2>3, <2>4, Zenon DEF MonitorTypeOK, timers
  <1>4. CASE answer
    <2>1. /\ PurgeInv' /\ DOMAIN counters' \subseteq Keys
          /\ \A k \in DOMAIN counters' : counters'[k] \in Counter
      BY <1>4, UptimeUpdate, Zenon DEF answer
    <2> QED
      BY <1>4, <2>1, LogsStay, Zenon DEF answer, MonitorTypeOK, timers
  <1>5. CASE UNCHANGED monitorVars
    BY <1>5, LogsStay, Zenon DEF monitorVars, timers, MonitorTypeOK, PurgeInv
  <1> QED
    BY <1>1, <1>2, <1>3, <1>4, <1>5, Zenon DEF processRequest

(* ... and so does what the monitor does by itself.                        *)
LEMMA BackgroundKeepsMonitorInv ==
  ASSUME MonitorInv, Background
  PROVE  MonitorInv'
  <1> USE MonitorAssumption
  <1>1. MonitorTypeOK /\ LogInv /\ PurgeInv
    BY Zenon DEF MonitorInv
  <1>2. /\ now \in Nat /\ nextPurge \in Nat /\ nextStats \in Nat
        /\ DOMAIN counters \subseteq Keys
        /\ \A k \in DOMAIN counters : counters[k] \in Counter /\ counters[k].at \in Nat
    BY <1>1, Zenon DEF MonitorTypeOK, Counter
  <1>3. CASE purgeStaleCounters
    <2> DEFINE expired == {k \in DOMAIN counters : now - counters[k].at > Interval}
    <2>1. /\ now = nextPurge /\ nextPurge' = now + Interval
          /\ counters' = [k \in DOMAIN counters \ expired |-> counters[k]]
          /\ UNCHANGED <<now, nextStats, eventLogs, replica, logged, touched>>
      BY <1>3, Zenon DEF purgeStaleCounters
    <2>2. /\ DOMAIN counters' = DOMAIN counters \ expired
          /\ \A k \in DOMAIN counters' : counters'[k] = counters[k]
      BY <2>1, Zenon
    <2>3. \A k \in DOMAIN counters :
            k \in expired <=> now - counters[k].at > Interval
      BY Zenon
    <2> HIDE DEF expired
    <2>4. MonitorTypeOK' /\ LogInv'
      BY <1>1, <1>2, <2>1, <2>2, LogsStay DEF MonitorTypeOK
    <2>5. ASSUME NEW k \in DOMAIN counters'
          PROVE  /\ counters'[k].at <= now'
                 /\ nextPurge' <= counters'[k].at + 2 * Interval
      BY <1>1, <1>2, <2>1, <2>2, <2>3 DEF PurgeInv
    <2>6. ASSUME NEW k \in DOMAIN touched
          PROVE  /\ touched[k] \in Nat
                 /\ k \in DOMAIN counters' => touched[k] <= counters'[k].at
                 /\ k \notin DOMAIN counters' => touched[k] + Interval < now
      BY <1>1, <1>2, <2>2, <2>3 DEF PurgeInv
    <2>7. ASSUME NEW k \in DOMAIN counters' \cap Names
          PROVE  k \in DOMAIN touched /\ touched[k] = counters'[k].at
      BY <1>1, <2>2, Zenon DEF PurgeInv
    <2>8. now' <= nextPurge' /\ nextPurge' <= now' + Interval
      BY <1>2, <2>1
    <2>9. now' = now /\ touched' = touched
      BY <2>1, Zenon
    <2>10. PurgeInv'
      BY <2>5, <2>6, <2>7, <2>8, <2>9, Zenon DEF PurgeInv
    <2> QED
      BY <2>4, <2>10, Zenon DEF MonitorInv
  <1>4. CASE updateResourceStats
    <2>1. PICK S \in SUBSET Stats :
            counters' = Override(counters, Stamped([k \in S |-> 0]))
      BY <1>4, Zenon DEF updateResourceStats
    <2> DEFINE g == Stamped([k \in S |-> 0])
               T == {}
    <2>2. DOMAIN g = S /\ \A k \in S : g[k] = [value |-> 0, at |-> now]
      BY Zenon DEF Stamped
    <2>3. counters' = Override(counters, g)
      BY <2>1, Zenon
    <2> HIDE DEF g
    <2>4. /\ DOMAIN Override(counters, g) = DOMAIN counters \cup DOMAIN g
          /\ \A k \in DOMAIN g : Override(counters, g)[k] = g[k]
          /\ \A k \in DOMAIN counters \ DOMAIN g : Override(counters, g)[k] = counters[k]
      BY OverrideFacts, Zenon
    <2>5. /\ DOMAIN counters' = DOMAIN counters \cup S
          /\ \A k \in S : counters'[k] = [value |-> 0, at |-> now]
          /\ \A k \in DOMAIN counters \ S : counters'[k] = counters[k]
      BY <2>2, <2>3, <2>4, Zenon
    <2>6. /\ UNCHANGED <<now, eventLogs, nextPurge, logged, touched>>
          /\ nextStats' = now + Profiling
      BY <1>4, Zenon DEF updateResourceStats
    <2>7. /\ \A k \in S : counters'[k].at = now
          /\ DOMAIN touched' = DOMAIN touched \cup T
          /\ \A k \in T : touched'[k] = now
          /\ \A k \in DOMAIN touched \ T : touched'[k] = touched[k]
          /\ S \cap Names \subseteq T /\ T \in SUBSET S
      BY <2>5, <2>6
    <2> HIDE DEF T
    <2>8. PurgeInv'
      BY <1>1, <2>5, <2>6, <2>7, UpdateKeepsTimes, Zenon
    <2>9. \A k \in DOMAIN counters' : counters'[k] \in Counter
      BY <1>2, <2>5 DEF Counter
    <2>10. DOMAIN counters' \subseteq Keys
      BY <1>2, <2>5, Zenon DEF Keys
    <2> QED
      BY <1>1, <1>2, <2>6, <2>8, <2>9, <2>10, LogsStay DEF MonitorInv, MonitorTypeOK
  <1>5. CASE clockTick
    <2>1. /\ now < nextPurge /\ now' = now + 1
          /\ UNCHANGED <<counters, eventLogs, nextPurge, nextStats, logged, touched>>
      BY <1>5, Zenon DEF clockTick, timers
    <2>2. MonitorTypeOK' /\ LogInv'
      BY <1>1, <1>2, <2>1, LogsStay DEF MonitorTypeOK
    <2>3. PurgeInv'
      BY <1>1, <1>2, <2>1 DEF PurgeInv
    <2> QED
      BY <2>2, <2>3, Zenon DEF MonitorInv
  <1> QED
    BY <1>3, <1>4, <1>5, Zenon DEF Background
-------------------------------------------------------------------------------
(* The clients and the sockets.                                            *)

(* A client that does not wait sends a request, and waits if it asks.      *)
LEMMA SendKeepsQueueInv ==
  ASSUME TypeOK, QueueInv, NEW c \in Clients, NEW req \in Request, sendOne(c, req),
         waiting' = IF isQuery(req) THEN [waiting EXCEPT ![c] = req.cmd] ELSE waiting
  PROVE  /\ QueueInv' /\ MonitorTypeOK'
         /\ waiting' \in [Clients -> Queries \cup {"none"}]
         /\ total' \in Nat /\ sent' \in [Clients -> Nat] /\ applied' \in [Clients -> Nat]
  <1>1. /\ waiting \in [Clients -> Queries \cup {"none"}] /\ total \in Nat
        /\ sent \in [Clients -> Nat] /\ applied \in [Clients -> Nat]
        /\ requests \in [Clients -> Seq(Request)] /\ DOMAIN replies = Clients
    BY Zenon DEF TypeOK, QueueInv
  <1>2. /\ waiting[c] = "none" /\ total' = total + 1
        /\ requests' = [requests EXCEPT ![c] = Append(@, req)]
        /\ sent' = [sent EXCEPT ![c] = @ + 1]
        /\ UNCHANGED <<replies, applied>> /\ UNCHANGED monitorVars
    BY Zenon DEF sendOne
  <1>3. MonitorTypeOK'
    BY <1>2, Zenon DEF TypeOK, MonitorTypeOK, monitorVars, timers
  <1>4. /\ waiting' \in [Clients -> Queries \cup {"none"}]
        /\ total' \in Nat /\ sent' \in [Clients -> Nat] /\ applied' \in [Clients -> Nat]
    BY <1>1, <1>2 DEF isQuery, Queries
  <1>5. requests' \in [Clients -> Seq(Request)] /\ DOMAIN replies' = Clients
    BY <1>1, <1>2
  <1>6. ASSUME NEW d \in Clients
        PROVE  ClientQueue(d)'
    <2>1. CASE d # c
      <3>1. /\ requests'[d] = requests[d] /\ sent'[d] = sent[d]
            /\ waiting'[d] = waiting[d] /\ replies' = replies /\ applied' = applied
        BY <1>1, <1>2, <2>1, Zenon
      <3>2. ClientQueue(d)
        BY Zenon DEF QueueInv
      <3> QED
        BY <3>1, <3>2, Zenon DEF ClientQueue, NoQuery
    <2>2. CASE d = c
      <3> DEFINE s == requests[c]
                 t == Append(s, req)
      <3>1. /\ applied[c] + Len(s) = sent[c] /\ replies[c] = <<>> /\ NoQuery(s)
        BY <1>2, Zenon DEF QueueInv, ClientQueue
      <3>2. /\ requests'[c] = t /\ sent'[c] = sent[c] + 1
            /\ replies'[c] = replies[c] /\ applied'[c] = applied[c]
            /\ waiting'[c] = IF isQuery(req) THEN req.cmd ELSE "none"
        BY <1>1, <1>2, Zenon
      <3>3. s \in Seq(Request) /\ sent[c] \in Nat /\ applied[c] \in Nat
        BY <1>1, Zenon
      <3>4. /\ Len(t) = Len(s) + 1 /\ t # <<>> /\ t[Len(t)] = req
            /\ DOMAIN s = 1..Len(s) /\ DOMAIN t = 1..Len(s) + 1 /\ Len(s) \in Nat
            /\ \A i \in 1..Len(s) : t[i] = s[i]
        BY <3>3
      <3> HIDE DEF s, t
      <3>5. \A i \in 1..Len(t) - 1 : ~isQuery(t[i])
        BY <3>1, <3>4 DEF NoQuery, isQuery
      <3>6. applied'[c] + Len(requests'[c]) = sent'[c]
        <4>1. Len(requests'[c]) = Len(s) + 1
          BY <3>2, <3>4, Zenon
        <4>2. applied[c] + Len(s) = sent[c] /\ Len(s) \in Nat
          BY <3>1, <3>4, Zenon
        <4> QED
          BY <3>2, <3>3, <4>1, <4>2
      <3>7. CASE isQuery(req)
        <4>1. waiting'[c] # "none" /\ t[Len(t)].cmd = waiting'[c]
          BY <3>2, <3>4, <3>7, Zenon DEF isQuery
        <4> QED
          BY <2>2, <3>1, <3>2, <3>4, <3>5, <3>6, <4>1, Zenon DEF ClientQueue
      <3>8. CASE ~isQuery(req)
        <4>1. NoQuery(t)
          BY <3>1, <3>4, <3>8, SMTT(30) DEF NoQuery, isQuery
        <4>2. NoQuery(requests[c])'
          BY <3>2, <4>1, Zenon DEF NoQuery
        <4> QED
          BY <2>2, <3>1, <3>2, <3>6, <3>8, <4>2, Zenon DEF ClientQueue
      <3> QED
        BY <3>7, <3>8, Zenon
    <2> QED
      BY <2>1, <2>2, Zenon
  <1> QED
    BY <1>3, <1>4, <1>5, <1>6, Zenon DEF QueueInv

(* Every call of a client is such a sending.                               *)
LEMMA SendIsOne ==
  ASSUME NEW c, Send(c)
  PROVE  \E req \in Request :
           /\ sendOne(c, req)
           /\ waiting' = IF isQuery(req) THEN [waiting EXCEPT ![c] = req.cmd] ELSE waiting
  <1> DEFINE W(req) == waiting' = IF isQuery(req) THEN [waiting EXCEPT ![c] = req.cmd]
                                                  ELSE waiting
  <1>1. ASSUME NEW values \in SetParams, setCounters(c, values)
        PROVE  \E req \in Request : sendOne(c, req) /\ W(req)
    <2> DEFINE r == [cmd |-> "SET", values |-> values]
    <2>1. r \in Request /\ ~isQuery(r)
      BY Zenon DEF Request, isQuery
    <2> QED
      BY <1>1, <2>1, Zenon DEF setCounters
  <1>2. ASSUME NEW names \in BumpLists, bumpCounters(c, names)
        PROVE  \E req \in Request : sendOne(c, req) /\ W(req)
    <2> DEFINE r == [cmd |-> "BUMP", names |-> names]
    <2>1. r \in Request /\ ~isQuery(r)
      BY Zenon DEF Request, isQuery
    <2> QED
      BY <1>2, <2>1, Zenon DEF bumpCounters
  <1>3. ASSUME NEW log \in Logs, addEventLog(c, log)
        PROVE  \E req \in Request : sendOne(c, req) /\ W(req)
    <2> DEFINE r == [cmd |-> "LOG", log |-> log]
    <2>1. r \in Request /\ ~isQuery(r)
      BY Zenon DEF Request, isQuery
    <2> QED
      BY <1>3, <2>1, Zenon DEF addEventLog
  <1>4. ASSUME NEW cmd \in Foreign, sendForeign(c, cmd)
        PROVE  \E req \in Request : sendOne(c, req) /\ W(req)
    <2> DEFINE r == [cmd |-> cmd]
    <2>1. r \in Request /\ ~isQuery(r)
      BY ClientAssumption, Zenon DEF Request, isQuery
    <2> QED
      BY <1>4, <2>1, Zenon DEF sendForeign
  <1>5. ASSUME NEW req \in Request, isQuery(req), ask(c, req)
        PROVE  \E r \in Request : sendOne(c, r) /\ W(r)
    BY <1>5, Zenon DEF ask
  <1>6. ASSUME NEW name \in Names, getCounter(c, name)
        PROVE  \E req \in Request : sendOne(c, req) /\ W(req)
    <2> DEFINE r == [cmd |-> "GET", name |-> name]
    <2>1. r \in Request /\ isQuery(r)
      BY Zenon DEF Request, isQuery
    <2>2. ask(c, r)
      BY <1>6, Zenon DEF getCounter
    <2> HIDE DEF W, r
    <2> QED
      BY <1>5, <2>1, <2>2, Zenon
  <1>7. ASSUME NEW cmd \in {"NAMES", "DATA", "LOGS"}, ask(c, [cmd |-> cmd])
        PROVE  \E req \in Request : sendOne(c, req) /\ W(req)
    <2> DEFINE r == [cmd |-> cmd]
    <2>1. r \in Request /\ isQuery(r)
      BY Zenon DEF Request, isQuery
    <2>2. ask(c, r)
      BY <1>7, Zenon
    <2> HIDE DEF W, r
    <2> QED
      BY <1>5, <2>1, <2>2, Zenon
  <1> HIDE DEF W
  <1>8. \E req \in Request : sendOne(c, req) /\ W(req)
    BY <1>1, <1>2, <1>3, <1>4, <1>6, <1>7, Zenon
       DEF Send, dumpCounterNames, dumpCounters, getLastEventLogs
  <1> QED
    BY <1>8, Zenon DEF W

(* A query returns with its response.                                      *)
LEMMA ReceiveKeepsQueueInv ==
  ASSUME TypeOK, QueueInv, NEW c \in Clients, receive(c)
  PROVE  TypeOK' /\ QueueInv'
  <1>1. /\ waiting \in [Clients -> Queries \cup {"none"}]
        /\ DOMAIN replies = Clients /\ UNCHANGED <<requests, sent, total, applied>>
        /\ UNCHANGED monitorVars
        /\ waiting[c] # "none" /\ replies[c] # <<>>
        /\ replies' = [replies EXCEPT ![c] = Tail(@)]
        /\ waiting' = [waiting EXCEPT ![c] = "none"]
    BY Zenon DEF TypeOK, QueueInv, receive
  <1>2. TypeOK'
    <2>1. MonitorTypeOK'
      BY <1>1, Zenon DEF TypeOK, MonitorTypeOK, monitorVars, timers
    <2> QED
      BY <1>1, <2>1, Zenon DEF TypeOK
  <1>3. ASSUME NEW d \in Clients
        PROVE  ClientQueue(d)'
    <2>1. ClientQueue(d)
      BY Zenon DEF QueueInv
    <2>2. CASE d # c
      <3>1. /\ requests' = requests /\ sent' = sent /\ applied' = applied
            /\ waiting'[d] = waiting[d] /\ replies'[d] = replies[d]
        BY <1>1, <2>2, Zenon
      <3> QED
        BY <2>1, <3>1, Zenon DEF ClientQueue, NoQuery
    <2>3. CASE d = c
      <3>1. requests[c] = <<>> /\ replies[c] = <<Head(replies[c])>>
        BY <1>1, <2>1, <2>3, Zenon DEF ClientQueue
      <3>2. replies'[c] = <<>>
        <4>1. ASSUME NEW h
              PROVE  Tail(<<h>>) = <<>>
          OBVIOUS
        <4>2. Tail(replies[c]) = <<>>
          BY <3>1, <4>1, Zenon
        <4> QED
          BY <1>1, <4>2, Zenon
      <3>3. waiting'[c] = "none" /\ requests' = requests /\ sent' = sent /\ applied' = applied
        BY <1>1, Zenon
      <3>4. NoQuery(requests[c])'
        BY <3>1, <3>3 DEF NoQuery
      <3> QED
        BY <2>1, <2>3, <3>2, <3>3, <3>4, Zenon DEF ClientQueue
    <2> QED
      BY <2>2, <2>3, Zenon
  <1> QED
    BY <1>1, <1>2, <1>3, Zenon DEF QueueInv

(* The monitor takes the first request of a client.  Only the last one can *)
(* be a query, so its response follows all that was sent.                  *)
LEMMA ServeKeepsQueueInv ==
  ASSUME TypeOK, QueueInv, NEW c \in Clients, serve(c), MonitorTypeOK'
  PROVE  TypeOK' /\ QueueInv'
  <1> DEFINE s == requests[c]
             req == Head(s)
             t == Tail(s)
             out == [cmd |-> req.cmd, body |-> response(req), after |-> applied[c] + 1]
  <1>1. /\ requests \in [Clients -> Seq(Request)] /\ DOMAIN replies = Clients
        /\ waiting \in [Clients -> Queries \cup {"none"}] /\ total \in Nat
        /\ sent \in [Clients -> Nat] /\ applied \in [Clients -> Nat]
    BY Zenon DEF TypeOK, QueueInv
  <1>2. /\ s # <<>> /\ requests' = [requests EXCEPT ![c] = t]
        /\ replies' = IF isQuery(req) THEN [replies EXCEPT ![c] = Append(@, out)]
                                      ELSE replies
        /\ applied' = [applied EXCEPT ![c] = @ + 1]
        /\ waiting' = waiting /\ sent' = sent /\ total' = total
    BY Zenon DEF serve
  <1>3. s \in Seq(Request) /\ sent[c] \in Nat /\ applied[c] \in Nat
    BY <1>1, Zenon
  <1>4. /\ Len(s) \in Nat \ {0} /\ Len(t) = Len(s) - 1 /\ DOMAIN s = 1..Len(s)
        /\ t \in Seq(Request) /\ DOMAIN t = 1..Len(s) - 1 /\ req = s[1]
        /\ \A i \in 1..Len(s) - 1 : t[i] = s[i + 1]
    BY <1>2, <1>3
  <1>5. TypeOK'
    BY <1>1, <1>2 DEF TypeOK
  <1>6. requests' \in [Clients -> Seq(Request)] /\ DOMAIN replies' = Clients
    BY <1>1, <1>2, <1>4, Zenon
  <1>7. ASSUME NEW d \in Clients
        PROVE  ClientQueue(d)'
    <2>1. ClientQueue(d)
      BY Zenon DEF QueueInv
    <2>2. CASE d # c
      <3>1. /\ requests'[d] = requests[d] /\ sent'[d] = sent[d]
            /\ waiting'[d] = waiting[d] /\ replies'[d] = replies[d]
            /\ applied'[d] = applied[d]
        BY <1>1, <1>2, <2>2, Zenon
      <3> QED
        BY <2>1, <3>1, Zenon DEF ClientQueue, NoQuery
    <2>3. CASE d = c
      <3>1. /\ requests'[c] = t /\ applied'[c] = applied[c] + 1
            /\ waiting'[c] = waiting[c] /\ sent'[c] = sent[c]
        BY <1>1, <1>2, Zenon
      <3>2. /\ applied[c] + Len(s) = sent[c]
            /\ waiting[c] = "none" => replies[c] = <<>> /\ NoQuery(s)
            /\ waiting[c] # "none" =>
                 /\ replies[c] = <<>> /\ s[Len(s)].cmd = waiting[c]
                 /\ \A i \in 1..Len(s) - 1 : ~isQuery(s[i])
        BY <1>2, <2>1, <2>3, Zenon DEF ClientQueue
      <3> HIDE DEF s, req, t, out
      <3>3. applied'[c] + Len(requests'[c]) = sent'[c]
        <4>1. Len(requests'[c]) = Len(s) - 1
          BY <1>4, <3>1, Zenon
        <4>2. applied[c] + Len(s) = sent[c] /\ Len(s) \in Nat
          BY <1>4, <3>2, Zenon
        <4> QED
          BY <1>3, <3>1, <4>1, <4>2
      <3>4. CASE waiting[c] = "none"
        <4>1. ~isQuery(req)
          BY <1>4, <3>2, <3>4 DEF NoQuery
        <4>2. replies' = replies
          BY <1>2, <4>1, Zenon
        <4>3. NoQuery(t)
          BY <1>4, <3>2, <3>4 DEF NoQuery
        <4>4. NoQuery(requests[c])'
          BY <3>1, <4>3, Zenon DEF NoQuery
        <4> QED
          BY <2>3, <3>1, <3>2, <3>3, <3>4, <4>2, <4>4, Zenon DEF ClientQueue
      <3>5. CASE waiting[c] # "none" /\ Len(s) > 1
        <4>1. replies' = replies
          BY <1>2, <1>4, <3>2, <3>5
        <4>2. t # <<>> /\ t[Len(t)] = s[Len(s)]
          BY <1>4, <3>5
        <4>3. \A i \in 1..Len(t) - 1 : ~isQuery(t[i])
          BY <1>4, <3>2, <3>5, SMTT(30)
        <4> QED
          BY <2>3, <3>1, <3>2, <3>3, <3>5, <4>1, <4>2, <4>3, Zenon DEF ClientQueue
      <3>6. CASE waiting[c] # "none" /\ ~(Len(s) > 1)
        <4>1. Len(s) = 1
          BY <1>4, <3>6, SMTT(30)
        <4>2. req.cmd = waiting[c]
          BY <1>4, <3>2, <3>6, <4>1, Zenon
        <4>3. isQuery(req)
          BY <1>1, <3>6, <4>2, Zenon DEF isQuery, Queries
        <4>4. replies'[c] = Append(<<>>, out)
          BY <1>1, <1>2, <3>2, <3>6, <4>3, Zenon
        <4>5. replies'[c] = <<out>>
          BY <4>4
        <4>6. Head(replies'[c]) = out
          BY <4>5
        <4>7. out.cmd = waiting[c] /\ out.after = applied[c] + 1
          BY <4>2, Zenon DEF out
        <4>8. out.after = sent[c]
          BY <1>3, <3>2, <4>1, <4>7, Zenon
        <4>9. requests'[c] = <<>>
          BY <1>4, <3>1, <4>1
        <4> QED
          BY <2>3, <3>1, <3>3, <3>6, <4>5, <4>6, <4>7, <4>8, <4>9, Zenon DEF ClientQueue
      <3> QED
        BY <3>4, <3>5, <3>6, Zenon
    <2> QED
      BY <2>2, <2>3, Zenon
  <1> QED
    BY <1>5, <1>6, <1>7, Zenon DEF QueueInv

(* The invariant holds when the monitor has been constructed.              *)
LEMMA InitInv ==
  Init => Inv
  <1> SUFFICES ASSUME Init
               PROVE  Inv
    BY Zenon
  <1> USE MonitorAssumption DEF Init, MonitorInit
  <1>1. PICK S \in SUBSET Stats : counters \in [S -> {[value |-> 0, at |-> 0]}]
    BY Zenon
  <1>2. /\ DOMAIN counters = S
        /\ \A k \in S : counters[k] = [value |-> 0, at |-> 0]
    BY <1>1, Zenon
  <1>3. TypeOK
    BY <1>2 DEF TypeOK, MonitorTypeOK, Counter, Keys
  <1>4. LogInv
    BY DEF LogInv, LastLogsAreKept
  <1>5. PurgeInv
    BY <1>2 DEF PurgeInv
  <1>6. QueueInv
    BY DEF QueueInv, ClientQueue, NoQuery
  <1> QED
    BY <1>3, <1>4, <1>5, <1>6, Zenon DEF Inv

(* The request the monitor takes is one a client can send.                 *)
LEMMA ServesRequest ==
  ASSUME QueueInv, NEW c \in Clients, serve(c)
  PROVE  Head(requests[c]) \in Request /\ processRequest(Head(requests[c]))
  <1>1. requests[c] \in Seq(Request) /\ requests[c] # <<>>
    BY Zenon DEF QueueInv, serve
  <1> QED
    BY <1>1 DEF serve

(* ... and every step keeps it.                                            *)
LEMMA StepInv ==
  Inv /\ [Next]_vars => Inv'
  <1> SUFFICES ASSUME Inv, [Next]_vars
               PROVE  Inv'
    BY Zenon
  <1>1. TypeOK /\ QueueInv /\ MonitorInv /\ LogInv /\ PurgeInv
    BY Zenon DEF Inv, MonitorInv, TypeOK
  <1>2. ASSUME UNCHANGED monitorVars
        PROVE  LogInv' /\ PurgeInv'
    BY <1>1, <1>2, LogsStay, Zenon DEF PurgeInv, monitorVars, timers
  <1>3. ASSUME UNCHANGED clientVars
        PROVE  QueueInv'
    BY <1>1, <1>3 DEF QueueInv, ClientQueue, NoQuery, clientVars
  <1>4. ASSUME NEW c \in Clients, Send(c)
        PROVE  Inv'
    <2>1. PICK req \in Request :
            /\ sendOne(c, req)
            /\ waiting' = IF isQuery(req) THEN [waiting EXCEPT ![c] = req.cmd] ELSE waiting
      BY <1>4, SendIsOne, Zenon
    <2>2. UNCHANGED monitorVars
      BY <2>1, Zenon DEF sendOne
    <2>3. TypeOK' /\ QueueInv'
      BY <1>1, <2>1, SendKeepsQueueInv, Zenon DEF TypeOK
    <2> QED
      BY <1>2, <2>2, <2>3, Zenon DEF Inv
  <1>5. ASSUME NEW c \in Clients, receive(c)
        PROVE  Inv'
    <2>1. UNCHANGED monitorVars
      BY <1>5, Zenon DEF receive
    <2> QED
      BY <1>1, <1>2, <1>5, <2>1, ReceiveKeepsQueueInv, Zenon DEF Inv
  <1>6. ASSUME NEW c \in Clients, serve(c)
        PROVE  Inv'
    <2>1. MonitorInv'
      BY <1>1, <1>6, ServesRequest, RequestKeepsMonitorInv, Zenon
    <2>2. TypeOK' /\ QueueInv'
      BY <1>1, <1>6, <2>1, ServeKeepsQueueInv, Zenon DEF MonitorInv
    <2> QED
      BY <2>1, <2>2, Zenon DEF Inv, MonitorInv
  <1>7. CASE background
    <2>1. MonitorInv' /\ UNCHANGED clientVars
      BY <1>1, <1>7, BackgroundKeepsMonitorInv, Zenon DEF background
    <2>2. TypeOK'
      BY <1>1, <2>1, Zenon DEF TypeOK, MonitorInv, clientVars
    <2> QED
      BY <1>3, <2>1, <2>2, Zenon DEF Inv, MonitorInv
  <1>8. CASE UNCHANGED vars
    <2>1. UNCHANGED monitorVars /\ UNCHANGED clientVars
      BY <1>8, Zenon DEF vars
    <2>2. TypeOK'
      BY <1>1, <2>1, Zenon DEF TypeOK, MonitorTypeOK, monitorVars, timers, clientVars
    <2> QED
      BY <1>2, <1>3, <2>1, <2>2, Zenon DEF Inv
  <1> QED
    BY <1>4, <1>5, <1>6, <1>7, <1>8, Zenon DEF Next

(* The inductive invariant of the monitor and its clients.                 *)
THEOREM Invariance == Spec => []Inv
  BY InitInv, StepInv, PTL DEF Spec
-------------------------------------------------------------------------------
(* The monitor's counters, its event logs and the clients' state keep      *)
(* their types; no more than maxLogEvents_ logs are kept.                  *)
THEOREM TypeCorrect == Spec => []TypeOK
  <1>1. Inv => TypeOK
    BY Zenon DEF Inv
  <1> QED
    BY <1>1, Invariance, PTL

(* A counter set or bumped within alivenessCheckInterval_ is there, one    *)
(* left alone for two is gone, whenever purgeStaleCounters() ran between.  *)
THEOREM PurgeTimely == Spec => []PurgeIsTimely
  <1>1. Inv => PurgeIsTimely
    <2> SUFFICES ASSUME Inv
                 PROVE  PurgeIsTimely
      BY Zenon
    <2> USE MonitorAssumption
    <2>1. /\ PurgeInv /\ now \in Nat /\ nextPurge \in Nat
          /\ \A k \in DOMAIN counters : counters[k].at \in Nat
      BY Zenon DEF Inv, TypeOK, MonitorTypeOK, Counter
    <2>2. ASSUME NEW n \in DOMAIN touched, now - touched[n] <= Interval
          PROVE  n \in DOMAIN counters
      BY <2>1, <2>2 DEF PurgeInv
    <2>3. ASSUME NEW n \in DOMAIN counters \cap Names
          PROVE  now - touched[n] <= 2 * Interval
      BY <2>1 DEF PurgeInv
    <2> QED
      BY <2>2, <2>3, Zenon DEF PurgeIsTimely
  <1> QED
    BY <1>1, Invariance, PTL

(* A response is read by the call that asked for it: recvOne() of a later  *)
(* call never finds that of an earlier one.                                *)
THEOREM ReplyIsOwn == Spec => []ReplyMatches
  <1>1. Inv => ReplyMatches
    <2> SUFFICES ASSUME Inv, NEW c \in Clients
                 PROVE  /\ Len(replies[c]) <= 1
                        /\ waiting[c] = "none" => replies[c] = <<>>
                        /\ replies[c] # <<>> => Head(replies[c]).cmd = waiting[c]
      BY Zenon DEF ReplyMatches
    <2>1. ClientQueue(c)
      BY Zenon DEF Inv, QueueInv
    <2>2. replies[c] = <<>> \/ replies[c] = <<Head(replies[c])>>
      BY <2>1, Zenon DEF ClientQueue
    <2>3. Len(<<>>) <= 1 /\ \A h : Len(<<h>>) <= 1
      OBVIOUS
    <2>4. Len(replies[c]) <= 1
      BY <2>2, <2>3, Zenon
    <2> QED
      BY <2>1, <2>4, Zenon DEF ClientQueue
  <1> QED
    BY <1>1, Invariance, PTL

(* A query sees all that its client sent before, although setCounter(),    *)
(* bumpCounter() and addEventLog() do not wait.                            *)
THEOREM QuerySeesOwnWrites == Spec => []ReadYourWrites
  <1>1. Inv => ReadYourWrites
    BY Zenon DEF Inv, QueueInv, ClientQueue, ReadYourWrites
  <1> QED
    BY <1>1, Invariance, PTL

(* GET_EVENT_LOGS finds the last maxLogEvents_ logs that were published,   *)
(* in their order.                                                         *)
THEOREM NewestLogsAreKept == Spec => []LastLogsAreKept
  <1>1. Inv => LastLogsAreKept
    BY Zenon DEF Inv, LogInv
  <1> QED
    BY <1>1, Invariance, PTL

(* What LOG_EVENT publishes and keeps has all its sender put in, completed *)
(* by logSampleToMerge_ and never overwritten by it.                       *)
THEOREM SenderOfLogPrevails == Spec => []SenderPrevails
  <1>1. Inv => SenderPrevails
    <2> SUFFICES ASSUME Inv
                 PROVE  SenderPrevails
      BY Zenon
    <2>1. eventLogs \in Seq(MergedLogs) /\ logged \in Seq(LogRecord) /\ LastLogsAreKept
      BY Zenon DEF Inv, LogInv
    <2>2. ASSUME NEW i \in DOMAIN logged
          PROVE  CompletedLog(logged[i].received, logged[i].published)
      <3>1. logged[i] \in LogRecord
        BY <2>1, <2>2
      <3>2. PICK log \in Logs : logged[i] = [received |-> log, published |-> merged(log)]
        BY <3>1, Zenon DEF LogRecord
      <3>3. logged[i].received = log /\ logged[i].published = merged(log)
        BY <3>2
      <3> QED
        BY <3>3, MergedIsAsLong, MergedIsCompleted, Zenon DEF CompletedLog
    <2>3. ASSUME NEW i \in DOMAIN eventLogs
          PROVE  \E j \in DOMAIN logged : CompletedLog(logged[j].received, eventLogs[i])
      <3> DEFINE j == Len(logged) - Len(eventLogs) + i
      <3>1. eventLogs[i] = logged[j].published
        BY <2>1, <2>3, Zenon DEF LastLogsAreKept
      <3>2. /\ DOMAIN eventLogs = 1..Len(eventLogs) /\ DOMAIN logged = 1..Len(logged)
            /\ Len(eventLogs) \in Nat /\ Len(logged) \in Nat
        BY <2>1
      <3>3. Len(eventLogs) <= Len(logged)
        BY <2>1, <3>2, MonitorAssumption DEF LastLogsAreKept
      <3>4. j \in 1..Len(logged)
        BY <2>3, <3>2, <3>3
      <3> HIDE DEF j
      <3> QED
        BY <2>2, <3>1, <3>2, <3>4, Zenon
    <2> QED
      BY <2>2, <2>3, Zenon DEF SenderPrevails
  <1> QED
    BY <1>1, Invariance, PTL
-------------------------------------------------------------------------------
(* Who asks and who subscribes.                                            *)

(* No list of a BUMP_COUNTER has a name twice, as in what bumpCounter() of *)
(* the client sends.                                                       *)
DistinctBumps ==
  \A names \in BumpLists : \A i, j \in DOMAIN names : names[i] = names[j] => i = j

(* A name is then bumped once.                                             *)
LEMMA BumpedOnce ==
  ASSUME DistinctBumps, NEW names \in BumpLists, NEW n \in Elements(names)
  PROVE  Occurrences(names, n) = 1
  <1>1. PICK i \in DOMAIN names : names[i] = n
    BY Zenon DEF Elements
  <1>2. {j \in DOMAIN names : names[j] = n} = {i}
    BY <1>1, Zenon DEF DistinctBumps
  <1> QED
    BY <1>2, FS_Singleton, Zenon DEF Occurrences

(* After an update, what is kept is what is published.                     *)
LEMMA UpdateIsPublished ==
  ASSUME PublishedInv, NEW new, NEW values, DOMAIN values = DOMAIN new,
         \A k \in DOMAIN new : values[k] = new[k],
         counters' = Override(withUptime, Stamped(new)), publish(values)
  PROVE  PublishedInv'
  <1>1. /\ DOMAIN counters' = DOMAIN counters \cup {Uptime} \cup DOMAIN new
        /\ \A k \in DOMAIN new : counters'[k] = [value |-> new[k], at |-> now]
        /\ \A k \in DOMAIN counters \ ({Uptime} \cup DOMAIN new) :
             counters'[k] = counters[k]
    BY StampedFacts, Zenon
  <1>2. /\ DOMAIN replica' = DOMAIN replica \cup DOMAIN new
        /\ \A k \in DOMAIN new : replica'[k] = new[k]
        /\ \A k \in DOMAIN replica \ DOMAIN new : replica'[k] = replica[k]
    <2> DEFINE f == Override(replica, values)
    <2>1. /\ DOMAIN f = DOMAIN replica \cup DOMAIN values
          /\ \A k \in DOMAIN values : f[k] = values[k]
          /\ \A k \in DOMAIN replica \ DOMAIN values : f[k] = replica[k]
      BY OverrideFacts, Zenon
    <2>2. replica' = f
      BY Zenon DEF publish
    <2> HIDE DEF f
    <2> QED
      BY <2>1, <2>2, Zenon
  <1>3. ASSUME NEW k \in DOMAIN counters' \cap Names
        PROVE  k \in DOMAIN replica' /\ counters'[k].value = replica'[k]
    <2>1. k # Uptime
      BY MonitorAssumption, Zenon
    <2>2. CASE k \in DOMAIN new
      BY <1>1, <1>2, <2>2, SMTT(30)
    <2>3. CASE k \notin DOMAIN new
      BY <1>1, <1>2, <2>1, <2>3, Zenon DEF PublishedInv
    <2> QED
      BY <2>2, <2>3, Zenon
  <1> QED
    BY <1>3, Zenon DEF PublishedInv

(* The uptime and the resource usage are not among the clients' counters.  *)
LEMMA OthersArePublished ==
  ASSUME PublishedInv, replica' = replica,
         \A k \in DOMAIN counters' \cap Names :
           k \in DOMAIN counters /\ counters'[k] = counters[k]
  PROVE  PublishedInv'
  BY Zenon DEF PublishedInv

(* Every request keeps it so.                                              *)
LEMMA RequestKeepsPublishedInv ==
  ASSUME DistinctBumps, MonitorInv, PublishedInv, NEW req \in Request,
         processRequest(req)
  PROVE  PublishedInv'
  <1>1. CASE req.cmd = "SET" /\ setCounterValues(req.values)
    <2> DEFINE values == req.values
    <2>1. counters' = Override(withUptime, Stamped(values)) /\ publish(values)
      BY <1>1, Zenon DEF setCounterValues
    <2> HIDE DEF values
    <2> QED
      BY <2>1, UpdateIsPublished, Zenon
  <1>2. CASE req.cmd = "BUMP" /\ bumpCounter(req.names)
    <2> DEFINE names == req.names
               bumped == [n \in Elements(names) |-> valueOf(n) + Occurrences(names, n)]
               first == [n \in Elements(names) |-> valueOf(n) + 1]
    <2>1. names \in BumpLists
      BY <1>2, ClientAssumption DEF Request
    <2>2. \A n \in Elements(names) : Occurrences(names, n) = 1
      BY <2>1, BumpedOnce, Zenon
    <2>3. counters' = Override(withUptime, Stamped(bumped)) /\ publish(first)
      BY <1>2, Zenon DEF bumpCounter
    <2>4. DOMAIN first = DOMAIN bumped /\ \A k \in DOMAIN bumped : first[k] = bumped[k]
      BY <2>2, Zenon
    <2> HIDE DEF names, bumped, first
    <2> QED
      BY <2>3, <2>4, UpdateIsPublished, Zenon
  <1>3. ASSUME counters' = withUptime, replica' = replica
        PROVE  PublishedInv'
    BY <1>3, WithUptimeFacts, OthersArePublished, MonitorAssumption, Zenon
  <1>4. CASE req.cmd = "LOG" /\ logEvent(req.log)
    BY <1>3, <1>4, Zenon DEF logEvent
  <1>5. CASE answer
    BY <1>3, <1>5, Zenon DEF answer
  <1>6. CASE UNCHANGED monitorVars
    BY <1>6, Zenon DEF monitorVars, PublishedInv
  <1> QED
    BY <1>1, <1>2, <1>4, <1>5, <1>6, Zenon DEF processRequest

(* ... and so do the timers and the clock.                                 *)
LEMMA BackgroundKeepsPublishedInv ==
  ASSUME PublishedInv, Background
  PROVE  PublishedInv'
  <1>1. CASE purgeStaleCounters
    BY <1>1, OthersArePublished, Zenon DEF purgeStaleCounters
  <1>2. CASE updateResourceStats
    <2>1. PICK S \in SUBSET Stats :
            counters' = Override(counters, Stamped([k \in S |-> 0]))
      BY <1>2, Zenon DEF updateResourceStats
    <2> DEFINE g == Stamped([k \in S |-> 0])
    <2>2. DOMAIN g = S
      BY Zenon DEF Stamped
    <2>3. counters' = Override(counters, g)
      BY <2>1, Zenon
    <2> HIDE DEF g
    <2>4. /\ DOMAIN Override(counters, g) = DOMAIN counters \cup DOMAIN g
          /\ \A k \in DOMAIN counters \ DOMAIN g : Override(counters, g)[k] = counters[k]
      BY OverrideFacts, Zenon
    <2>5. \A k \in DOMAIN counters' \cap Names :
            k \in DOMAIN counters /\ counters'[k] = counters[k]
      BY <2>2, <2>3, <2>4, MonitorAssumption, Zenon
    <2> QED
      BY <1>2, <2>5, OthersArePublished, Zenon DEF updateResourceStats
  <1>3. CASE clockTick
    BY <1>3, Zenon DEF clockTick, PublishedInv
  <1> QED
    BY <1>1, <1>2, <1>3, Zenon DEF Background

(* ... and every step of the whole.                                        *)
LEMMA PublishedInductive ==
  ASSUME DistinctBumps
  PROVE  Inv /\ PublishedInv /\ [Next]_vars => PublishedInv'
  <1> SUFFICES ASSUME Inv, PublishedInv, [Next]_vars
               PROVE  PublishedInv'
    BY Zenon
  <1>1. MonitorInv /\ QueueInv
    BY Zenon DEF Inv, MonitorInv, TypeOK
  <1>2. ASSUME UNCHANGED monitorVars
        PROVE  PublishedInv'
    BY <1>2, Zenon DEF PublishedInv, monitorVars
  <1>3. ASSUME NEW c \in Clients, Send(c)
        PROVE  PublishedInv'
    BY <1>2, <1>3, SendIsOne, Zenon DEF sendOne
  <1>4. ASSUME NEW c \in Clients, receive(c)
        PROVE  PublishedInv'
    BY <1>2, <1>4, Zenon DEF receive
  <1>5. ASSUME NEW c \in Clients, serve(c)
        PROVE  PublishedInv'
    BY <1>1, <1>5, ServesRequest, RequestKeepsPublishedInv, Zenon
  <1>6. CASE background
    BY <1>6, BackgroundKeepsPublishedInv, Zenon DEF background
  <1>7. CASE UNCHANGED vars
    BY <1>2, <1>7, Zenon DEF vars
  <1> QED
    BY <1>3, <1>4, <1>5, <1>6, <1>7, Zenon DEF Next

(* What the responses that a step adds to a client's say of its counters.  *)
Added(c) == SubSeq(replies'[c], Len(replies[c]) + 1, Len(replies'[c]))
Agrees(r) ==
  r.cmd \in {"GET", "DATA"} =>
    \A n \in DOMAIN r.body \cap Names : n \in DOMAIN replica /\ r.body[n] = replica[n]

(* A step that takes a response away, or leaves them alone, adds none.     *)
LEMMA NoneAdded ==
  ASSUME NEW c \in Clients, QueueInv,
         replies'[c] = replies[c] \/ replies'[c] = <<>>
  PROVE  Elements(Added(c)) = {}
  <1>1. replies[c] = <<>> \/ replies[c] = <<Head(replies[c])>>
    BY Zenon DEF QueueInv, ClientQueue
  <1>2. Len(<<>>) = 0 /\ \A h : Len(<<h>>) = 1
    BY Zenon
  <1>3. Len(replies[c]) \in {0, 1}
    BY <1>1, <1>2, Zenon
  <1>4. /\ Len(replies'[c]) \in {0, 1} /\ Len(replies'[c]) < Len(replies[c]) + 1
        /\ Len(replies[c]) + 1 \in Int /\ Len(replies'[c]) \in Int
    BY <1>2, <1>3
  <1>5. Added(c) = <<>>
    BY <1>4, SubSeqEmpty, Zenon DEF Added
  <1> QED
    BY <1>5, SMTT(30) DEF Elements

(* The values in a response are those of the counters.                     *)
LEMMA ResponseAgrees ==
  ASSUME PublishedInv, NEW req \in Request, NEW after
  PROVE  Agrees([cmd |-> req.cmd, body |-> response(req), after |-> after])
  <1> DEFINE body == response(req)
  <1>1. SUFFICES ASSUME req.cmd \in {"GET", "DATA"}, NEW n \in DOMAIN body \cap Names
                 PROVE  n \in DOMAIN replica /\ body[n] = replica[n]
    BY Zenon DEF Agrees
  <1>2. n # Uptime
    BY MonitorAssumption, Zenon
  <1>3. n \in DOMAIN withUptime /\ body[n] = withUptime[n].value
    <2>1. CASE req.cmd = "GET"
      <3>1. body = Values([k \in DOMAIN withUptime \cap {req.name} |-> withUptime[k]])
        BY <2>1, Zenon DEF response
      <3> QED
        BY <1>1, <3>1, Zenon DEF Values
    <2>2. CASE req.cmd = "DATA"
      <3>1. body = Values(withUptime)
        BY <2>2, Zenon DEF response
      <3> QED
        BY <1>1, <3>1, Zenon DEF Values
    <2> QED
      BY <1>1, <2>1, <2>2, Zenon
  <1> HIDE DEF body
  <1>4. n \in DOMAIN counters \cap Names /\ withUptime[n] = counters[n]
    BY <1>2, <1>3, WithUptimeFacts, Zenon
  <1> QED
    BY <1>3, <1>4, Zenon DEF PublishedInv

(* Only serving a query adds a response, and it agrees.                    *)
LEMMA StepAgrees ==
  Inv /\ PublishedInv /\ [Next]_vars => [AnswerIsPublished]_vars
  <1> SUFFICES ASSUME Inv, PublishedInv, Next
               PROVE  AnswerIsPublished
    BY Zenon
  <1>1. QueueInv
    BY Zenon DEF Inv
  <1>2. SUFFICES ASSUME NEW d \in Clients, NEW r \in Elements(Added(d))
                 PROVE  Agrees(r)
    BY Zenon DEF AnswerIsPublished, Added, Agrees
  <1>3. ~(replies'[d] = replies[d] \/ replies'[d] = <<>>)
    BY <1>1, <1>2, NoneAdded, Zenon
  <1>4. ASSUME NEW c \in Clients, Send(c)
        PROVE  FALSE
    BY <1>3, <1>4, SendIsOne, Zenon DEF sendOne
  <1>5. ASSUME NEW c \in Clients, receive(c)
        PROVE  FALSE
    <2>1. ClientQueue(c) /\ ClientQueue(c)' /\ DOMAIN replies = Clients
      <3>1. QueueInv'
        BY <1>1, <1>5, ReceiveKeepsQueueInv, Zenon DEF Inv
      <3> QED
        BY <1>1, <3>1, Zenon DEF QueueInv
    <2>2. waiting'[c] = "none" /\ (d # c => replies'[d] = replies[d])
      BY <1>5, <2>1, Zenon DEF receive, Inv, TypeOK
    <2> QED
      BY <1>3, <2>1, <2>2, Zenon DEF ClientQueue
  <1>6. ASSUME NEW c \in Clients, serve(c)
        PROVE  Agrees(r)
    <2> DEFINE req == Head(requests[c])
               out == [cmd |-> req.cmd, body |-> response(req), after |-> applied[c] + 1]
    <2>1. req \in Request
      BY <1>1, <1>6, ServesRequest, Zenon
    <2>2. /\ DOMAIN replies = Clients /\ requests[c] # <<>>
          /\ replies' = IF isQuery(req) THEN [replies EXCEPT ![c] = Append(@, out)]
                                        ELSE replies
      BY <1>1, <1>6, Zenon DEF serve, QueueInv
    <2>3. replies[c] = <<>>
      BY <1>1, <2>2, Zenon DEF QueueInv, ClientQueue
    <2>4. Agrees(out)
      BY <2>1, ResponseAgrees, Zenon
    <2> HIDE DEF req, out
    <2>5. d = c /\ replies'[c] = Append(<<>>, out)
      BY <1>3, <2>2, <2>3, Zenon
    <2>6. Append(<<>>, out) = <<out>> /\ Len(<<>>) = 0 /\ Len(<<out>>) = 1
      OBVIOUS
    <2>7. Added(d) = SubSeq(<<out>>, 1, 1)
      <3>1. replies'[c] = <<out>> /\ Len(replies'[c]) = 1 /\ Len(replies[c]) + 1 = 1
        BY <2>3, <2>5, <2>6
      <3> QED
        BY <2>5, <3>1, Zenon DEF Added
    <2>8. SubSeq(<<out>>, 1, 1) = <<out>>
      <3>1. <<out>> \in Seq({out}) /\ 1 = Len(<<out>>)
        OBVIOUS
      <3> QED
        BY <3>1, SubSeqFull, Zenon
    <2>9. Elements(<<out>>) = {out}
      BY DEF Elements
    <2>10. r = out
      BY <1>2, <2>7, <2>8, <2>9, Zenon
    <2> QED
      BY <2>4, <2>10, Zenon
  <1>7. CASE background
    BY <1>3, <1>7, Zenon DEF background, clientVars
  <1> QED
    BY <1>4, <1>5, <1>6, <1>7, Zenon DEF Next

(* The counters a query returns have the values COUNTER_PUB told a         *)
(* subscriber, in whatever order updates, purges and queries come.         *)
THEOREM AnswersArePublished ==
  ASSUME DistinctBumps
  PROVE  Spec => PullAgreesWithPush
  <1>1. Init => PublishedInv
    <2> SUFFICES ASSUME Init
                 PROVE  PublishedInv
      BY Zenon
    <2>1. DOMAIN counters \subseteq Stats
      BY Zenon DEF Init, MonitorInit
    <2> QED
      BY <2>1, MonitorAssumption, Zenon DEF PublishedInv
  <1> QED
    BY <1>1, Invariance, PublishedInductive, StepAgrees, PTL DEF Spec, PullAgreesWithPush
-------------------------------------------------------------------------------
(* Progress of a query.  ENABLED is left as it is: that the monitor can    *)
(* serve a request and a client can take a response is a hypothesis of the *)
(* theorem.                                                                *)
CanStep(c) ==
  /\ requests[c] # <<>> => ENABLED <<serve(c)>>_vars
  /\ waiting[c] # "none" /\ replies[c] # <<>> => ENABLED <<receive(c)>>_vars
AllCanStep == \A c \in Clients : CanStep(c)

(* A client waits, and the monitor has n requests of it to serve.          *)
WaitsFor(c, n) == waiting[c] # "none" /\ Len(requests[c]) = n

(* A query waits behind the requests of its client, or has its response.   *)
LEMMA WaitingQueue ==
  ASSUME QueueInv, NEW c \in Clients, waiting[c] # "none"
  PROVE  /\ requests[c] \in Seq(Request) /\ Len(requests[c]) \in Nat
         /\ requests[c] # <<>> <=> Len(requests[c]) # 0
         /\ requests[c] # <<>> <=> replies[c] = <<>>
  <1>1. requests[c] \in Seq(Request) /\ ClientQueue(c)
    BY Zenon DEF QueueInv
  <1>2. \A h : <<h>> # <<>>
    BY Zenon
  <1>3. requests[c] # <<>> <=> replies[c] = <<>>
    BY <1>1, <1>2, Zenon DEF ClientQueue
  <1>4. /\ Len(requests[c]) \in Nat
        /\ requests[c] # <<>> <=> Len(requests[c]) # 0
    BY <1>1
  <1> QED
    BY <1>1, <1>3, <1>4, Zenon

(* A client that waits sends nothing, and the others leave it alone.       *)
LEMMA OthersLeaveQuery ==
  ASSUME Inv, NEW c \in Clients, waiting[c] # "none", [Next]_vars, ~serve(c), ~receive(c)
  PROVE  waiting'[c] = waiting[c] /\ requests'[c] = requests[c]
  <1>1. DOMAIN waiting = Clients /\ DOMAIN requests = Clients
    BY Zenon DEF Inv, TypeOK, QueueInv
  <1>2. ASSUME NEW d \in Clients, Send(d)
        PROVE  waiting'[c] = waiting[c] /\ requests'[c] = requests[c]
    <2>1. PICK req \in Request :
            /\ sendOne(d, req)
            /\ waiting' = IF isQuery(req) THEN [waiting EXCEPT ![d] = req.cmd] ELSE waiting
      BY <1>2, SendIsOne, Zenon
    <2>2. d # c /\ requests' = [requests EXCEPT ![d] = Append(@, req)]
      BY <2>1, Zenon DEF sendOne
    <2> QED
      BY <1>1, <2>1, <2>2, Zenon
  <1>3. ASSUME NEW d \in Clients, receive(d) \/ serve(d)
        PROVE  waiting'[c] = waiting[c] /\ requests'[c] = requests[c]
    <2>1. d # c
      BY <1>3, Zenon
    <2>2. CASE receive(d)
      BY <1>1, <2>1, <2>2, Zenon DEF receive
    <2>3. CASE serve(d)
      <3>1. requests' = [requests EXCEPT ![d] = Tail(@)] /\ UNCHANGED waiting
        BY <2>3, Zenon DEF serve
      <3> QED
        BY <1>1, <2>1, <3>1, Zenon
    <2> QED
      BY <1>3, <2>2, <2>3, Zenon
  <1>4. CASE background \/ UNCHANGED vars
    BY <1>4, Zenon DEF background, vars, clientVars
  <1> QED
    BY <1>2, <1>3, <1>4, Zenon DEF Next

(* The monitor serves one request of the client at a time, and the client  *)
(* takes a response only when there is nothing left to serve.              *)
LEMMA ServeAdvances ==
  ASSUME Inv, NEW c \in Clients, NEW n \in Nat
  PROVE  /\ WaitsFor(c, n + 1) /\ serve(c) => WaitsFor(c, n)'
         /\ WaitsFor(c, n + 1) => ~receive(c)
         /\ WaitsFor(c, 0) => ~serve(c)
         /\ WaitsFor(c, 0) /\ receive(c) => (waiting[c] = "none")'
  <1> USE DEF WaitsFor
  <1>1. QueueInv /\ DOMAIN requests = Clients /\ DOMAIN waiting = Clients
    BY Zenon DEF Inv, TypeOK, QueueInv
  <1>2. ASSUME WaitsFor(c, n + 1), serve(c)
        PROVE  WaitsFor(c, n)'
    <2>1. requests' = [requests EXCEPT ![c] = Tail(@)] /\ UNCHANGED waiting
      BY <1>2, Zenon DEF serve
    <2>2. requests'[c] = Tail(requests[c]) /\ requests[c] \in Seq(Request)
      BY <1>1, <1>2, <2>1, WaitingQueue, Zenon
    <2>3. Len(Tail(requests[c])) = n
      BY <1>2, <2>2
    <2> QED
      BY <1>2, <2>1, <2>2, <2>3, Zenon
  <1>3. WaitsFor(c, n + 1) => ~receive(c)
    BY <1>1, WaitingQueue DEF receive
  <1>4. WaitsFor(c, 0) => ~serve(c)
    BY <1>1, WaitingQueue, Zenon DEF serve
  <1>5. receive(c) => waiting'[c] = "none"
    BY <1>1, Zenon DEF receive
  <1> QED
    BY <1>2, <1>3, <1>4, <1>5, Zenon

(* A query returns: the monitor serves the requests before it one by one,  *)
(* then the query itself, and the client takes the response.  That it      *)
(* returns (QueryReturns) follows by counting the requests.                *)
THEOREM QueryGoesOn ==
  FairSpec /\ []AllCanStep =>
    /\ \A c \in Clients : [](waiting[c] # "none" => Len(requests[c]) \in Nat)
    /\ \A c \in Clients, n \in Nat : WaitsFor(c, n + 1) ~> WaitsFor(c, n)
    /\ \A c \in Clients : WaitsFor(c, 0) ~> waiting[c] = "none"
  <1>1. FairSpec => []Inv
    BY Invariance, PTL DEF FairSpec
  <1>2. ASSUME NEW c \in Clients
        PROVE  /\ FairSpec => Spec /\ ClientFair(c)
               /\ AllCanStep => CanStep(c)
    BY Zenon DEF FairSpec, Fairness, AllCanStep
  <1>3. ASSUME NEW c \in Clients
        PROVE  FairSpec => [](waiting[c] # "none" => Len(requests[c]) \in Nat)
    <2>1. Inv => (waiting[c] # "none" => Len(requests[c]) \in Nat)
      BY WaitingQueue, Zenon DEF Inv
    <2> QED
      BY <1>1, <2>1, PTL
  <1>4. ASSUME NEW c \in Clients, NEW n \in Nat
        PROVE  FairSpec /\ []AllCanStep => (WaitsFor(c, n + 1) ~> WaitsFor(c, n))
    <2> DEFINE P == WaitsFor(c, n + 1)
               Q == WaitsFor(c, n)
    <2>1. Inv /\ P /\ [Next]_vars => P' \/ Q'
      BY OthersLeaveQuery, ServeAdvances, Zenon DEF WaitsFor
    <2>2. Inv /\ P /\ serve(c) => Q'
      BY ServeAdvances, Zenon
    <2>3. Inv /\ P /\ CanStep(c) => ENABLED <<serve(c)>>_vars
      <3>1. Inv /\ P => requests[c] # <<>>
        BY WaitingQueue DEF WaitsFor, Inv
      <3> QED
        BY <3>1, Zenon DEF CanStep
    <2> HIDE DEF P, Q
    <2>4. FairSpec /\ []AllCanStep => (P ~> Q)
      BY <1>1, <1>2, <2>1, <2>2, <2>3, PTL DEF Spec, ClientFair
    <2> QED
      BY <2>4, Zenon DEF P, Q
  <1>5. ASSUME NEW c \in Clients
        PROVE  FairSpec /\ []AllCanStep => (WaitsFor(c, 0) ~> waiting[c] = "none")
    <2> DEFINE P == WaitsFor(c, 0)
               Q == waiting[c] = "none"
    <2>1. Inv /\ P /\ [Next]_vars => P' \/ Q'
      BY 0 \in Nat, OthersLeaveQuery, ServeAdvances, Zenon DEF WaitsFor
    <2>2. Inv /\ P /\ receive(c) => Q'
      BY 0 \in Nat, ServeAdvances, Zenon
    <2>3. Inv /\ P /\ CanStep(c) => ENABLED <<receive(c)>>_vars
      <3>1. Inv /\ P => waiting[c] # "none" /\ replies[c] # <<>>
        BY WaitingQueue, Zenon DEF WaitsFor, Inv
      <3> QED
        BY <3>1, Zenon DEF CanStep
    <2> HIDE DEF P, Q
    <2>4. FairSpec /\ []AllCanStep => (P ~> Q)
      BY <1>1, <1>2, <2>1, <2>2, <2>3, PTL DEF Spec, ClientFair
    <2> QED
      BY <2>4, Zenon DEF P, Q
  <1> QED
    BY <1>3, <1>4, <1>5, Zenon
===============================================================================
