------------------------------ MODULE SocketWait ------------------------------
(***************************************************************************)
(* How fbzmq::Socket with an EventBase (fbzmq/zmq/Socket.cpp) lets a fiber *)
(* or a coroutine wait for a message or for room to send one.  One reader  *)
(* and one writer share the socket and the thread of the EventBase; a step *)
(* is what runs until one of them waits.                                   *)
(*                                                                         *)
(* Of libzmq the model has what ZMQ_FD promises: the descriptor is         *)
(* readable while commands of the other threads are unprocessed, and every *)
(* call on the socket may process them.  A command comes only when the     *)
(* reading side has found the pipe empty, or when the peer has made room.  *)
(***************************************************************************)
EXTENDS Naturals, FiniteSets

CONSTANTS
  Hwm,        \* messages that may be on their way to the peer
  MaxMsgs     \* bound: messages that wait to be received

ASSUME WaitAssumption == Hwm \in Nat \ {0} /\ MaxMsgs \in Nat \ {0}

VARIABLES
  msgs,           \* libzmq: messages in the inbound pipe
  active,         \* libzmq: the reading side has not found it empty since
  room,           \* libzmq: messages the outbound pipe takes, as known
  freed,          \* libzmq: messages the peer took, not yet known
  signal,         \* libzmq: unprocessed commands, ZMQ_FD is readable
  waitEvents_,    \* the field of the same name
  registered,     \* events the handler is registered for with the EventBase
  persist,        \* ... and whether with EventHandler::PERSIST
  isSendingMore_, \* the field of the same name
  reader, writer, \* "idle", "waiting", or "woken": its baton is posted
  timed,          \* the reader waits with a timeout
  more,           \* the writer waits to send a part with ZMQ_SNDMORE
  closed,         \* ptr_ is null
  received, sent, \* history: how the last receive and the last send ended
  alone           \* history: the waits in which the other side took no step

zmqVars == <<msgs, active, room, freed, signal>>
handlerVars == <<waitEvents_, registered, persist>>
readerVars == <<reader, timed, received>>
writerVars == <<writer, more, sent, isSendingMore_>>
vars == <<zmqVars, handlerVars, readerVars, writerVars, closed, alone>>

READ == "READ"
WRITE == "WRITE"
Ends == {"none", "ok", "EAGAIN", "timeout", "ENOTSOCK"}

(* Every variable keeps its type.                                          *)
TypeOK ==
  /\ msgs \in 0..MaxMsgs /\ room \in 0..Hwm /\ freed \in 0..Hwm
  /\ {active, signal, persist, isSendingMore_, timed, more, closed} \subseteq BOOLEAN
  /\ waitEvents_ \subseteq {READ, WRITE} /\ registered \subseteq {READ, WRITE}
  /\ alone \subseteq {READ, WRITE}
  /\ {reader, writer} \subseteq {"idle", "waiting", "woken"}
  /\ {received, sent} \subseteq Ends

(* The constructor: initHandlerHelper() attaches the handler to ZMQ_FD.    *)
Init ==
  /\ msgs = 0 /\ active = FALSE /\ room = Hwm /\ freed = 0 /\ signal = FALSE
  /\ waitEvents_ = {} /\ registered = {} /\ persist = FALSE
  /\ isSendingMore_ = FALSE
  /\ reader = "idle" /\ writer = "idle" /\ timed = FALSE /\ more = FALSE
  /\ closed = FALSE /\ received = "none" /\ sent = "none" /\ alone = {}
-------------------------------------------------------------------------------
(* libzmq and the peer.                                                    *)

arrive ==
  /\ ~closed /\ msgs < MaxMsgs
  /\ msgs' = msgs + 1 /\ signal' = (signal \/ ~active)
  /\ UNCHANGED <<active, room, freed, handlerVars, readerVars, writerVars, closed, alone>>

peerTakes ==
  /\ ~closed /\ room + freed < Hwm
  /\ freed' = freed + 1 /\ signal' = TRUE
  /\ UNCHANGED <<msgs, active, room, handlerVars, readerVars, writerVars, closed, alone>>

(* A call processes the commands, or does not take the time to.            *)
processCommands(does) ==
  /\ signal' = (signal /\ ~does)
  /\ room' = IF does THEN room + freed ELSE room
  /\ freed' = IF does THEN 0 ELSE freed

POLLIN == msgs > 0 /\ (active \/ signal)
POLLOUT == room + freed > 0 \/ isSendingMore_
-------------------------------------------------------------------------------
registerHandler(events, persistent) ==
  registered' = events /\ persist' = persistent

unregisterHandler == registered' = {} /\ persist' = FALSE

(* coroWaitImpl() and the first half of fiberWaitImpl().                   *)
coroWaitImpl(event) ==
  /\ waitEvents_' = waitEvents_ \cup {event}
  /\ registerHandler(waitEvents_ \cup {event}, TRUE)

(* zmq_msg_recv() without waiting; the caller knows what is to be done if  *)
(* there is nothing.                                                       *)
recv(otherwise) ==
  \/ /\ POLLIN
     /\ \E does \in BOOLEAN : (active \/ does) /\ processCommands(does)
     /\ msgs' = msgs - 1 /\ active' = TRUE
     /\ received' = "ok" /\ reader' = "idle"
     /\ UNCHANGED handlerVars
  \/ /\ ~POLLIN
     /\ processCommands(TRUE) /\ active' = FALSE /\ UNCHANGED msgs
     /\ otherwise

(* Mutant: waits without having tried.                                     *)
MutRecvAsyncWaitsFirst(withTimeout) ==
  /\ ~closed /\ reader = "idle"
  /\ timed' = withTimeout
  /\ reader' = "waiting" /\ coroWaitImpl(READ) /\ UNCHANGED <<received, zmqVars>>
  /\ alone' = (alone \ {WRITE}) \cup {READ}
  /\ UNCHANGED <<writerVars, closed>>

(* recvOneCoro() and recvOne(), which calls recvAsync(): try, then wait.   *)
recvAsync(withTimeout) ==
  /\ ~closed /\ reader = "idle"
  /\ timed' = withTimeout
  /\ recv(reader' = "waiting" /\ coroWaitImpl(READ) /\ UNCHANGED received)
  /\ alone' = (alone \ {WRITE}) \cup {READ}
  /\ UNCHANGED <<writerVars, closed>>

(* The reader runs again and tries a second time, whatever woke it.        *)
recvResumed ==
  /\ reader = "woken"
  /\ IF closed
       THEN received' = "ENOTSOCK" /\ reader' = "idle" /\ UNCHANGED <<zmqVars, handlerVars>>
       ELSE recv(received' = "EAGAIN" /\ reader' = "idle" /\ UNCHANGED handlerVars)
  /\ alone' = alone \ {READ, WRITE}
  /\ UNCHANGED <<timed, writerVars, closed>>

(* timed_wait() of fiberWaitImpl() returns without the event.              *)
fiberWaitTimeout ==
  /\ reader = "waiting" /\ timed
  /\ reader' = "idle" /\ received' = "timeout"
  /\ waitEvents_' = waitEvents_ \ {READ}
  /\ IF waitEvents_' = {} THEN unregisterHandler
                          ELSE registerHandler(waitEvents_', FALSE)
  /\ alone' = alone \ {READ, WRITE}
  /\ UNCHANGED <<zmqVars, timed, writerVars, closed>>
-------------------------------------------------------------------------------
(* zmq_msg_send() without waiting.  Only the first part of a message needs *)
(* room, which its last part takes.                                        *)
send(hasMore) ==
  /\ isSendingMore_' = hasMore
  /\ writer' = "idle"
  /\ \E does \in BOOLEAN :
       LET known == IF does THEN room + freed ELSE room
       IN  /\ signal' = (signal /\ ~does) /\ freed' = IF does THEN 0 ELSE freed
           /\ active' = (active \/ (does /\ POLLIN))
           /\ IF known > 0 THEN sent' = "ok" /\ room' = known - IF hasMore THEN 0 ELSE 1
                           ELSE sent' = "EAGAIN" /\ room' = known
  /\ UNCHANGED msgs

(* sendOneCoro(), which always waits, and sendOne() and sendMore() of a    *)
(* first part.                                                             *)
sendWaits(hasMore) ==
  /\ ~closed /\ writer = "idle" /\ (isSendingMore_ => ~hasMore)
  /\ writer' = "waiting" /\ more' = hasMore
  /\ coroWaitImpl(WRITE)
  /\ alone' = (alone \ {READ}) \cup {WRITE}
  /\ UNCHANGED <<zmqVars, readerVars, sent, isSendingMore_, closed>>

(* sendOne() and sendMore() of a further part do not wait.                 *)
sendNext(hasMore) ==
  /\ ~closed /\ writer = "idle" /\ isSendingMore_
  /\ more' = hasMore /\ send(hasMore)
  /\ alone' = alone \ {READ}
  /\ UNCHANGED <<handlerVars, readerVars, closed>>

(* The writer runs again.                                                  *)
sendResumed ==
  /\ writer = "woken"
  /\ IF closed
       THEN /\ sent' = "ENOTSOCK" /\ writer' = "idle" /\ isSendingMore_' = more
            /\ UNCHANGED zmqVars
       ELSE send(more)
  /\ alone' = alone \ {READ, WRITE}
  /\ UNCHANGED <<handlerVars, readerVars, more, closed>>
-------------------------------------------------------------------------------
(* The EventBase finds the descriptor ready; it is always writable.        *)
fdReady == WRITE \in registered \/ (READ \in registered /\ signal)

(* Mutant: wakes the reader without a look at ZMQ_EVENTS.                  *)
MutWokenBlindly == waitEvents_

woken == (IF POLLIN THEN {READ} ELSE {}) \cup (IF POLLOUT THEN {WRITE} ELSE {})

(* The callback of the EventBase.  A registration without PERSIST is over  *)
(* when its event has come.                                                *)
handlerReady ==
  /\ ~closed /\ fdReady
  /\ processCommands(TRUE) /\ active' = POLLIN /\ UNCHANGED msgs
  /\ LET w == waitEvents_ \cap woken
     IN  /\ waitEvents_' = waitEvents_ \ w
         /\ reader' = IF READ \in w THEN "woken" ELSE reader
         /\ writer' = IF WRITE \in w THEN "woken" ELSE writer
  /\ IF waitEvents_' = {} THEN unregisterHandler
     ELSE IF waitEvents_' # waitEvents_ THEN registerHandler(waitEvents_', FALSE)
     ELSE IF persist THEN UNCHANGED <<registered, persist>>
     ELSE unregisterHandler
  /\ UNCHANGED <<timed, received, more, sent, isSendingMore_, closed, alone>>

(* Mutant: does not post the batons.                                       *)
MutCloseForgetsWaiters ==
  /\ ~closed /\ closed' = TRUE
  /\ unregisterHandler
  /\ UNCHANGED <<zmqVars, waitEvents_, readerVars, writerVars, alone>>

(* Whoever waits is woken.                                                 *)
close ==
  /\ ~closed /\ closed' = TRUE
  /\ unregisterHandler
  /\ reader' = IF reader = "waiting" THEN "woken" ELSE reader
  /\ writer' = IF writer = "waiting" THEN "woken" ELSE writer
  /\ UNCHANGED <<zmqVars, waitEvents_, timed, received, more, sent, isSendingMore_, alone>>

Next ==
  \/ arrive \/ peerTakes
  \/ \E t \in BOOLEAN : recvAsync(t)
  \/ recvResumed \/ fiberWaitTimeout
  \/ \E m \in BOOLEAN : sendWaits(m) \/ sendNext(m)
  \/ sendResumed \/ handlerReady \/ close

Spec == Init /\ [][Next]_vars

(* The loop of the EventBase runs: it calls the handler of a descriptor    *)
(* that is ready, and resumes what is woken.                               *)
FairSpec ==
  Spec /\ WF_vars(handlerReady) /\ WF_vars(recvResumed) /\ WF_vars(sendResumed)
-------------------------------------------------------------------------------
(* "read/writes will be performed in a synchronous fashion from callers    *)
(* point of view" (Socket.h): what handlerReady() saw still holds when the *)
(* woken one runs, so that no caller ever sees EAGAIN, but for a timeout.  *)
NoSpuriousError == received # "EAGAIN" /\ sent # "EAGAIN"

(* waitEvents_ names who waits, and the EventBase watches nothing that     *)
(* nobody waits for.                                                       *)
WaitersAreRecorded ==
  ~closed => /\ READ \in waitEvents_ <=> reader = "waiting"
             /\ WRITE \in waitEvents_ <=> writer = "waiting"
             /\ registered \subseteq waitEvents_

(* A side that has the socket to itself while it waits is served.          *)
AloneIsServed ==
  /\ (reader = "waiting" /\ READ \in alone /\ msgs > 0)
       ~> (reader # "waiting" \/ READ \notin alone)
  /\ (writer = "waiting" /\ WRITE \in alone /\ room + freed > 0)
       ~> (writer # "waiting" \/ WRITE \notin alone)

(* Nobody waits on a closed socket.                                        *)
CloseUnblocks == closed ~> (reader = "idle" /\ writer = "idle")

(* "The coroutine will sleep until underlying ZMQ socket has a message"    *)
(* (Socket.h, recvOneCoro()): a reader does not sleep on while there is    *)
(* one.                                                                    *)
ReaderIsWoken == (reader = "waiting" /\ msgs > 0) ~> reader # "waiting"
===============================================================================
