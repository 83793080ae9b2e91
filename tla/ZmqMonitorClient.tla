--------------------------- MODULE ZmqMonitorClient ---------------------------
(***************************************************************************)
(* ZmqMonitorClient (fbzmq/service/monitor/ZmqMonitorClient.cpp) and the   *)
(* monitor it talks to.  A client has a blocking DEALER socket: a query    *)
(* waits for its response, everything else is sent and forgotten.  ZMQ     *)
(* keeps the order of what one client sends and of what it is sent, and    *)
(* nothing else.                                                           *)
(***************************************************************************)
EXTENDS ZmqMonitor

CONSTANTS
  Clients,      \* DEALER sockets
  SetParams,    \* arguments of setCounter() and setCounters()
  BumpLists,    \* names in a BUMP_COUNTER; bumpCounter() sends one
  Logs,         \* event logs
  Foreign,      \* commands of other peers: "unknown", "malformed"
  MaxRequests   \* bound: requests the clients send together

ASSUME ClientAssumption ==
  /\ MaxRequests \in Nat /\ Foreign \subseteq {"unknown", "malformed"}
  /\ \A values \in SetParams :
       DOMAIN values \subseteq Keys /\ \A k \in DOMAIN values : values[k] \in Int
  /\ BumpLists \subseteq Seq(Keys)
  /\ \A log \in Logs : Len(log) \in Nat /\ DOMAIN log = 1..Len(log)

VARIABLES
  requests,   \* what each client has sent and the monitor has not read
  replies,    \* what the monitor has sent and each client has not read
  waiting,    \* the query each client waits for, or "none"
  sent,       \* history: requests each client has sent
  total,      \* history: requests all of them have sent
  applied     \* history: requests of each client the monitor has processed

clientVars == <<requests, replies, waiting, sent, total, applied>>
vars == <<monitorVars, clientVars>>

Queries == {"GET", "NAMES", "DATA", "LOGS"}

(* The monitor's own state and the callers' keep their types; the channels *)
(* carry records of several shapes and are left out.                       *)
TypeOK ==
  /\ MonitorTypeOK
  /\ waiting \in [Clients -> Queries \cup {"none"}]
  /\ total \in Nat /\ sent \in [Clients -> Nat] /\ applied \in [Clients -> Nat]

Init ==
  /\ MonitorInit
  /\ requests = [c \in Clients |-> <<>>] /\ replies = [c \in Clients |-> <<>>]
  /\ waiting = [c \in Clients |-> "none"]
  /\ total = 0 /\ sent = [c \in Clients |-> 0] /\ applied = [c \in Clients |-> 0]
-------------------------------------------------------------------------------
sendOne(c, req) ==
  /\ waiting[c] = "none"
  /\ total < MaxRequests /\ total' = total + 1
  /\ requests' = [requests EXCEPT ![c] = Append(@, req)]
  /\ sent' = [sent EXCEPT ![c] = @ + 1]
  /\ UNCHANGED <<monitorVars, replies, applied>>

setCounters(c, values) ==
  sendOne(c, [cmd |-> "SET", values |-> values]) /\ UNCHANGED waiting

bumpCounters(c, names) ==
  sendOne(c, [cmd |-> "BUMP", names |-> names]) /\ UNCHANGED waiting

addEventLog(c, log) ==
  sendOne(c, [cmd |-> "LOG", log |-> log]) /\ UNCHANGED waiting

(* A peer that is not a ZmqMonitorClient sends what that never does.       *)
sendForeign(c, cmd) == sendOne(c, [cmd |-> cmd]) /\ UNCHANGED waiting

(* recvOne() then waits without a timeout.                                 *)
ask(c, req) ==
  /\ sendOne(c, req)
  /\ waiting' = [waiting EXCEPT ![c] = req.cmd]

getCounter(c, name) == ask(c, [cmd |-> "GET", name |-> name])
dumpCounterNames(c) == ask(c, [cmd |-> "NAMES"])
dumpCounters(c)     == ask(c, [cmd |-> "DATA"])
getLastEventLogs(c) == ask(c, [cmd |-> "LOGS"])

(* Mutant: a receive that does not wait and returns with EAGAIN.           *)
MutReceiveNoWait(c) ==
  /\ waiting[c] # "none"
  /\ replies' = [replies EXCEPT ![c] = IF @ = <<>> THEN @ ELSE Tail(@)]
  /\ waiting' = [waiting EXCEPT ![c] = "none"]
  /\ UNCHANGED <<monitorVars, requests, sent, total, applied>>

(* The query returns what it received to its caller.                       *)
receive(c) ==
  /\ waiting[c] # "none" /\ replies[c] # <<>>
  /\ replies' = [replies EXCEPT ![c] = Tail(@)]
  /\ waiting' = [waiting EXCEPT ![c] = "none"]
  /\ UNCHANGED <<monitorVars, requests, sent, total, applied>>
-------------------------------------------------------------------------------
(* Mutant: the newest request of a client is served first.                 *)
MutServeNewest(c) ==
  /\ requests[c] # <<>>
  /\ requests' = [requests EXCEPT ![c] = SubSeq(@, 1, Len(@) - 1)]
  /\ applied' = [applied EXCEPT ![c] = @ + 1]
  /\ UNCHANGED <<waiting, sent, total>>
  /\ LET req == requests[c][Len(requests[c])]
     IN  /\ processRequest(req)
         /\ replies' = IF isQuery(req)
              THEN [replies EXCEPT ![c] = Append(@,
                      [cmd |-> req.cmd, body |-> response(req),
                       after |-> applied[c] + 1])]
              ELSE replies

(* The monitor's callback takes one request, of any client.                *)
serve(c) ==
  /\ requests[c] # <<>>
  /\ requests' = [requests EXCEPT ![c] = Tail(@)]
  /\ applied' = [applied EXCEPT ![c] = @ + 1]
  /\ UNCHANGED <<waiting, sent, total>>
  /\ LET req == Head(requests[c])
     IN  /\ processRequest(req)
         /\ replies' = IF isQuery(req)
              THEN [replies EXCEPT ![c] = Append(@,
                      [cmd |-> req.cmd, body |-> response(req),
                       after |-> applied[c] + 1])]
              ELSE replies

background == Background /\ UNCHANGED clientVars

Send(c) ==
  \/ \E values \in SetParams : setCounters(c, values)
  \/ \E names \in BumpLists : bumpCounters(c, names)
  \/ \E log \in Logs : addEventLog(c, log)
  \/ \E cmd \in Foreign : sendForeign(c, cmd)
  \/ \E name \in Names : getCounter(c, name)
  \/ dumpCounterNames(c) \/ dumpCounters(c) \/ getLastEventLogs(c)

Next ==
  \/ \E c \in Clients : Send(c) \/ receive(c) \/ serve(c)
  \/ background

Spec == Init /\ [][Next]_vars

(* The monitor serves every socket that has a request (ROUTER sockets are  *)
(* fair-queued), and a client that waits takes its response.               *)
ClientFair(c) == WF_vars(serve(c)) /\ WF_vars(receive(c))
Fairness == \A c \in Clients : ClientFair(c)

FairSpec == Spec /\ Fairness
-------------------------------------------------------------------------------
(* A response is read by the call that asked for it: there is never one    *)
(* that a later call could take for its own.                               *)
ReplyMatches ==
  \A c \in Clients :
    /\ Len(replies[c]) <= 1
    /\ waiting[c] = "none" => replies[c] = <<>>
    /\ replies[c] # <<>> => Head(replies[c]).cmd = waiting[c]

(* A query sees everything its client sent before, although setCounter(),  *)
(* bumpCounter() and addEventLog() do not wait for the monitor.            *)
ReadYourWrites ==
  \A c \in Clients : replies[c] # <<>> => Head(replies[c]).after = sent[c]

(* The counters a query returns have the values that were published: who   *)
(* asks and who subscribes agree.  BumpLists holds no name twice here.     *)
AnswerIsPublished ==
  \A c \in Clients :
    LET added == SubSeq(replies'[c], Len(replies[c]) + 1, Len(replies'[c]))
    IN  \A r \in Elements(added) : r.cmd \in {"GET", "DATA"} =>
          \A n \in DOMAIN r.body \cap Names :
            n \in DOMAIN replica /\ r.body[n] = replica[n]

PullAgreesWithPush == [][AnswerIsPublished]_vars

(* Every query returns: nothing a client sent before can hold it up.       *)
QueryReturns == \A c \in Clients : waiting[c] # "none" ~> waiting[c] = "none"
===============================================================================
