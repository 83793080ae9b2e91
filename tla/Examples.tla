------------------------------- MODULE Examples -------------------------------
(***************************************************************************)
(* The example programs: fbzmq/examples/server (a ZmqEventLoop with one    *)
(* REP socket per kind of request, and a main() that stops it on a signal) *)
(* and fbzmq/examples/client (a REQ socket per request, a timeout per      *)
(* reply).  A request is under way until the server takes it, also when    *)
(* its sender has given up; requests of different sockets are taken in any *)
(* order.  A Stranger may send what the server cannot read.                *)
(***************************************************************************)
EXTENDS Naturals, Sequences, FiniteSets

CONSTANTS
  Clients,      \* client processes
  Server,       \* the server process
  Stranger,     \* the sender of unreadable requests
  Rounds,       \* rounds of makeThriftRequest(), 3 in the code
  MaxStrange,   \* bound: unreadable requests
  StrangeKinds  \* bound: the kinds of these requests

ASSUME ExamplesAssumption ==
  /\ Server \notin Clients /\ Stranger \notin Clients \cup {Server}
  /\ IsFiniteSet(Clients) /\ Rounds \in Nat /\ MaxStrange \in Nat

VARIABLES
  pc,           \* the number of each client's request, from 1 on
  socks,        \* sockets that are open, of clients and of the server
  contexts,     \* processes whose Context exists
  inflight,     \* requests sent and not received
  replies,      \* replies sent and not received
  gaveUp,       \* history: KEY_SETs whose reply did not come in time
  last,         \* history: the last reply of each client, and to which request
  known,        \* history: the reply to its last KEY_SET that got one
  kvStore_,     \* the field of the server: its value, or None
  version,      \* history: number of values it has had
  unanswered,   \* sockets of the server that received and did not reply
  main,         \* where the server's main() is
  loop,         \* the server's event loop: "idle", "running", "stopped"
  signalled,    \* a signal to terminate is pending, or was
  strange       \* unreadable requests sent so far

clientVars == <<pc, gaveUp, last, known>>
storeVars == <<kvStore_, version>>
serverVars == <<storeVars, unanswered, loop>>
vars == <<clientVars, socks, contexts, inflight, replies, serverVars, main,
          signalled, strange>>

Kinds == {"primitive", "string", "thrift", "multiple"}

(* read() of a number needs its size and of an object its encoding; every  *)
(* message is a string.                                                    *)
Unreadable == Kinds \ {"string"}

ASSUME StrangeAssumption == StrangeKinds \subseteq Unreadable

None == [client |-> Server, nr |-> 0]
NoReply == [client |-> Server, sock |-> 0, nr |-> 0, value |-> None, version |-> 0]

makeThriftRequest == [i \in 1..2 * Rounds |-> IF i % 2 = 1 THEN "KEY_SET" ELSE "KEY_GET"]

startRequests == <<"primitive", "string">> \o makeThriftRequest \o <<"multiple">>

Nrs == 1..Len(startRequests)
kind(cmd) == IF cmd \in {"KEY_SET", "KEY_GET"} THEN "thrift" ELSE cmd

(* The stages of the programs and the requests under way keep their types, *)
(* and the store changes at most once for each KEY_SET of a client.        *)
TypeOK ==
  /\ pc \in [Clients -> 1..Len(startRequests) + 1]
  /\ inflight \subseteq [client : Clients \cup {Stranger}, sock : Nat, nr : Nat,
                         cmd : Kinds \cup {"KEY_SET", "KEY_GET"}, ok : BOOLEAN]
  /\ unanswered \subseteq Kinds
  /\ version \in 0..Rounds * Cardinality(Clients)
  /\ main \in {"setup", "mainLoop", "stopping", "returned", "aborted"}
  /\ loop \in {"idle", "running", "stopped"}
  /\ signalled \in BOOLEAN /\ strange \in 0..MaxStrange

(* The clients have their Context and their subscriber socket; main() of   *)
(* the server has registered its signals.                                  *)
Init ==
  /\ pc = [c \in Clients |-> 1]
  /\ socks = {<<c, 0>> : c \in Clients}
  /\ contexts = Clients
  /\ inflight = {} /\ replies = {} /\ gaveUp = {}
  /\ last = [c \in Clients |-> [nr |-> 0, reply |-> NoReply]]
  /\ known = [c \in Clients |-> NoReply]
  /\ kvStore_ = None /\ version = 0 /\ unanswered = {}
  /\ main = "setup" /\ loop = "idle" /\ signalled = FALSE /\ strange = 0
-------------------------------------------------------------------------------
(* Mutant: one socket for all requests.                                    *)
MutReqSockReused(c) == 1

(* Each request has a socket of its own.                                   *)
reqSock(c) == pc[c]

(* Every request begins alike: open a socket, connect, send.               *)
sendRequest(c, cmd) ==
  /\ pc[c] \in Nrs /\ startRequests[pc[c]] = cmd
  /\ <<c, reqSock(c)>> \notin socks
  /\ socks' = socks \cup {<<c, reqSock(c)>>}
  /\ inflight' = inflight \cup {[client |-> c, sock |-> reqSock(c), nr |-> pc[c],
                                 cmd |-> cmd, ok |-> TRUE]}
  /\ UNCHANGED <<clientVars, contexts, replies, serverVars, main, signalled, strange>>

makePrimitiveRequest(c) == sendRequest(c, "primitive")
makeStringRequest(c) == sendRequest(c, "string")
setKeyValue(c) == sendRequest(c, "KEY_SET")
getKey(c) == sendRequest(c, "KEY_GET")
makeMultipleRequest(c) == sendRequest(c, "multiple")

(* The request is over, the socket is destroyed.  It does not linger: what *)
(* has not left it yet is dropped, and so is a reply that is late.         *)
endRequest(c) ==
  /\ pc' = [pc EXCEPT ![c] = @ + 1]
  /\ socks' = socks \ {<<c, reqSock(c)>>}
  /\ \E dropped \in SUBSET {r \in inflight : r.client = c /\ r.nr = pc[c]} :
       inflight' = inflight \ dropped
  /\ UNCHANGED <<contexts, serverVars, main, signalled, strange>>

(* recvOne(kReadTimeout) or recvThriftObj() returns a reply.               *)
recvReply(c) ==
  /\ \E r \in replies :
       /\ r.client = c /\ r.sock = reqSock(c) /\ <<c, reqSock(c)>> \in socks
       /\ last' = [last EXCEPT ![c] = [nr |-> pc[c], reply |-> r]]
       /\ known' = IF startRequests[pc[c]] = "KEY_SET"
                     THEN [known EXCEPT ![c] = r] ELSE known
       /\ replies' = replies \ {r}
  /\ endRequest(c) /\ UNCHANGED gaveUp

(* Mutant: waits for as long as it takes.                                  *)
MutRecvTimeoutNever(c) == FALSE /\ UNCHANGED vars

(* ... or kReadTimeout passes without one.                                 *)
recvTimeout(c) ==
  /\ <<c, reqSock(c)>> \in socks
  /\ gaveUp' = IF startRequests[pc[c]] = "KEY_SET"
                  THEN gaveUp \cup {[client |-> c, nr |-> pc[c]]} ELSE gaveUp
  /\ replies' = {r \in replies : r.client # c \/ r.sock # reqSock(c)}
  /\ endRequest(c) /\ UNCHANGED <<last, known>>

(* main() of the client returns: the client and its subscriber socket go,  *)
(* then the Context.                                                       *)
destroyClient(c) ==
  /\ pc[c] \notin Nrs /\ <<c, 0>> \in socks
  /\ socks' = socks \ {<<c, 0>>}
  /\ UNCHANGED <<clientVars, contexts, inflight, replies, serverVars, main,
                 signalled, strange>>

(* zmq_ctx_destroy() waits until every socket of the Context is closed.    *)
destroyContext(c) ==
  /\ c \in contexts
  /\ pc[c] \notin Nrs /\ ~\E s \in socks : s[1] = c
  /\ contexts' = contexts \ {c}
  /\ UNCHANGED <<clientVars, socks, inflight, replies, serverVars, main,
                 signalled, strange>>

sendUnreadable(k) ==
  /\ strange < MaxStrange /\ strange' = strange + 1
  /\ inflight' = inflight \cup {[client |-> Stranger, sock |-> strange, nr |-> strange,
                                 cmd |-> k, ok |-> FALSE]}
  /\ UNCHANGED <<clientVars, socks, contexts, replies, serverVars, main, signalled>>
-------------------------------------------------------------------------------
(* The loop calls the handler of a socket that can be read: a REP socket   *)
(* that owes a reply cannot.                                               *)
receive(k, r) ==
  /\ loop = "running" /\ main # "aborted" /\ k \notin unanswered
  /\ r \in inflight /\ kind(r.cmd) = k
  /\ inflight' = inflight \ {r}
  /\ UNCHANGED <<clientVars, socks, contexts, loop, signalled, strange>>

(* A reply reaches the socket the request came from, if it still exists.   *)
reply(r, value) ==
  replies' = replies \cup
    IF <<r.client, r.sock>> \in socks
      THEN {[client |-> r.client, sock |-> r.sock, nr |-> r.nr, value |-> value,
             version |-> version']}
      ELSE {}

noReply(k) == unanswered' = unanswered \cup {k} /\ UNCHANGED <<replies, storeVars>>

answer(k, r) ==
  receive(k, r) /\ UNCHANGED main
    /\ IF r.ok THEN UNCHANGED <<storeVars, unanswered>> /\ reply(r, None) ELSE noReply(k)

processPrimitiveCommand == \E r \in inflight : answer("primitive", r)
processStringCommand == \E r \in inflight : answer("string", r)

(* An exception leaves a handler that is noexcept.                         *)
abort(k, r) ==
  /\ receive(k, r) /\ ~r.ok
  /\ main' = "aborted" /\ UNCHANGED <<replies, storeVars, unanswered>>

(* A request that has not three parts is an error whose value() throws;    *)
(* three parts that cannot be read are only left without a reply.          *)
processMultipleCommand ==
  \E r \in inflight : answer("multiple", r) \/ abort("multiple", r)

(* Mutant: a key that exists keeps its value.                              *)
MutProcessThriftEmplace ==
  \E r \in inflight :
    /\ receive("thrift", r) /\ UNCHANGED main
    /\ IF ~r.ok THEN noReply("thrift")
       ELSE /\ IF r.cmd = "KEY_SET"
                 THEN /\ kvStore_' = IF kvStore_ = None THEN [client |-> r.client, nr |-> r.nr]
                                                        ELSE kvStore_
                      /\ version' = version + 1
                 ELSE UNCHANGED storeVars
            /\ reply(r, IF r.cmd = "KEY_SET" THEN None ELSE kvStore_)
            /\ UNCHANGED unanswered

(* Mutant: every command stores.                                           *)
MutProcessThriftStoresAll ==
  \E r \in inflight :
    /\ receive("thrift", r) /\ UNCHANGED main
    /\ IF ~r.ok THEN noReply("thrift")
       ELSE /\ kvStore_' = [client |-> r.client, nr |-> r.nr] /\ version' = version + 1
            /\ reply(r, kvStore_') /\ UNCHANGED unanswered

(* KEY_SET and KEY_GET.  What is neither, or no thrift object, is left     *)
(* without a reply; the missing value of a KEY_SET throws.                 *)
processThriftCommand ==
  \E r \in inflight :
    \/ /\ receive("thrift", r) /\ UNCHANGED main
       /\ IF ~r.ok THEN noReply("thrift")
          ELSE /\ IF r.cmd = "KEY_SET"
                    THEN /\ kvStore_' = [client |-> r.client, nr |-> r.nr]
                         /\ version' = version + 1
                    ELSE UNCHANGED storeVars
               /\ reply(r, IF r.cmd = "KEY_SET" THEN None ELSE kvStore_)
               /\ UNCHANGED unanswered
    \/ abort("thrift", r)
-------------------------------------------------------------------------------
signal ==
  /\ ~signalled /\ signalled' = TRUE
  /\ UNCHANGED <<clientVars, socks, contexts, inflight, replies, serverVars, main, strange>>

(* The Context and the server with its bound sockets are made.             *)
prepare ==
  /\ main = "setup" /\ Server \notin contexts
  /\ contexts' = contexts \cup {Server}
  /\ socks' = socks \cup {<<Server, k>> : k \in 1..5}
  /\ UNCHANGED <<clientVars, inflight, replies, serverVars, main, signalled, strange>>

(* The thread of the server runs its loop.                                 *)
serverThread ==
  /\ Server \in contexts /\ loop = "idle" /\ loop' = "running"
  /\ UNCHANGED <<clientVars, socks, contexts, inflight, replies, storeVars, unanswered,
                 main, signalled, strange>>

(* main() goes on: waitUntilRunning(), then the main loop until a signal,  *)
(* stop(), then waitUntilStopped() and join().                             *)
mainStep ==
  /\ \/ main = "setup" /\ loop = "running" /\ main' = "mainLoop"
     \/ main = "mainLoop" /\ signalled /\ main' = "stopping"
     \/ main = "stopping" /\ loop = "stopped" /\ main' = "returned"
  /\ UNCHANGED <<clientVars, socks, contexts, inflight, replies, serverVars,
                 signalled, strange>>

(* The loop of the server sees that stop() was called.                     *)
serverStops ==
  /\ main = "stopping" /\ loop = "running" /\ loop' = "stopped"
  /\ UNCHANGED <<clientVars, socks, contexts, inflight, replies, storeVars, unanswered,
                 main, signalled, strange>>

(* Mutant: the Context is declared after the server and goes first.        *)
MutDestroyServerLast ==
  /\ main = "returned" /\ Server \in contexts
  /\ ~\E s \in socks : s[1] = Server
  /\ contexts' = contexts \ {Server}
  /\ UNCHANGED <<clientVars, socks, inflight, replies, serverVars, main, signalled, strange>>

(* The server and its sockets are destroyed, then the Context.             *)
destroyServer ==
  /\ main = "returned"
  /\ IF \E s \in socks : s[1] = Server
       THEN socks' = {s \in socks : s[1] # Server} /\ UNCHANGED contexts
       ELSE Server \in contexts /\ contexts' = contexts \ {Server} /\ UNCHANGED socks
  /\ UNCHANGED <<clientVars, inflight, replies, serverVars, main, signalled, strange>>

Process ==
  processPrimitiveCommand \/ processStringCommand \/ processMultipleCommand
    \/ processThriftCommand
ServerStep == prepare \/ serverThread \/ mainStep \/ serverStops \/ destroyServer
ClientStep(c) ==
  \/ recvTimeout(c) \/ recvReply(c)
  \/ makePrimitiveRequest(c) \/ makeStringRequest(c) \/ makeMultipleRequest(c)
  \/ setKeyValue(c) \/ getKey(c) \/ destroyClient(c) \/ destroyContext(c)

Next ==
  \/ \E c \in Clients : ClientStep(c)
  \/ \E k \in StrangeKinds : sendUnreadable(k)
  \/ Process \/ ServerStep \/ signal

Spec == Init /\ [][Next]_vars

(* The processes run; a reply that is there in time is received.  Every    *)
(* step changes one of the variables it is fair in.                        *)
ServerFair == WF_<<main, loop, socks, contexts>>(ServerStep)
ClientFair(c) == WF_<<pc, socks, contexts>>(ClientStep(c))
FairSpec == Spec /\ ServerFair /\ \A c \in Clients : ClientFair(c)
-------------------------------------------------------------------------------
(* A client gets the reply to the request it has just sent, never that of  *)
(* an earlier one it gave up.                                              *)
ReplyIsForRequest == \A c \in Clients : last[c].reply.nr = last[c].nr

(* getKey() after setKeyValue(): a value at least as new as the one that   *)
(* was set, and of the client's own values the last, unless an earlier one *)
(* arrived late after it had been given up.                                *)
GetFollowsSet ==
  \A c \in Clients :
    LET value == last[c].reply.value
    IN  last[c].nr \in Nrs /\ startRequests[last[c].nr] = "KEY_GET" =>
          /\ last[c].reply.version >= known[c].version
          /\ value.client = c => value.nr >= known[c].nr \/ value \in gaveUp

(* A client ends, with or without a server that answers, and so does its   *)
(* Context.                                                                *)
ClientExits == \A c \in Clients : <>(c \notin contexts)

(* A signal, whenever it comes, makes the server return from main() with   *)
(* its thread joined and its Context destroyed, unless a request aborts it.*)
SignalEndsServer ==
  signalled ~> \/ main = "returned" /\ loop = "stopped" /\ Server \notin contexts
               \/ main = "aborted"
===============================================================================
