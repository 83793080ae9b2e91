---------------------------- MODULE SocketMessages ----------------------------
(***************************************************************************)
(* Sending and receiving on fbzmq::Socket (fbzmq/zmq/Socket.cpp, Socket.h) *)
(* without an EventBase: one socket that sends, one that receives, and the *)
(* pipe of libzmq between them.  A message has one or more parts; sending  *)
(* and receiving work part by part, in loops that two threads interleave.  *)
(***************************************************************************)
EXTENDS Naturals, Sequences

CONSTANTS
  Sizes,      \* numbers of parts of a call of sendMultiple()
  Wanted,     \* numbers of arguments of a static recvMultiple()
  Modes,      \* NonblockingFlag of the sockets
  Hwm,        \* messages the pipe holds
  MaxParts    \* bound: parts ever sent

ASSUME MessagesAssumption ==
  /\ Sizes \subseteq Nat \ {0} /\ Wanted \subseteq Nat \ {0}
  /\ Hwm \in Nat \ {0} /\ MaxParts \in Nat
  /\ Modes \subseteq {"blocking", "nonblocking"}

VARIABLES
  sendMode,   \* baseFlags_ of the sender
  recvMode,   \* baseFlags_ of the receiver
  pipe,       \* parts written to the pipe and not received
  visible,    \* how many of them the receiver can see
  written,    \* history: parts accepted so far
  sending,    \* the call of sendMultiple() in progress
  chained,    \* the last call ended with ZMQ_SNDMORE, as it was asked to
  call,       \* the call of a receive function in progress
  got,        \* the parts it has received
  rcvMore,    \* ZMQ_RCVMORE: the last part received was marked "more"
  result      \* history: how the last receive ended

sendVars == <<sendMode, written, sending, chained>>
recvVars == <<recvMode, call, got, rcvMore, result>>
vars == <<sendVars, recvVars, pipe, visible>>

(* A part, as the i-th one of the n parts of its call.                     *)
Part == [i : Nat, n : Nat, more : BOOLEAN]
Ops == {"recvOne", "recvMultiple", "recvMultipleTimeout", "drain", "none"}
Idle == [op |-> "none", want |-> 0, timed |-> FALSE, fresh |-> FALSE]
Nothing == [n |-> 0, left |-> 0, hasMore |-> FALSE]
Outcomes == {"ok", "EAGAIN", "stale", "EPROTO", "threw"}

(* Every variable keeps its type.                                          *)
TypeOK ==
  /\ sendMode \in Modes /\ recvMode \in Modes
  /\ pipe \in Seq(Part) /\ visible \in Nat /\ written \in Nat
  /\ sending \in [n : Nat, left : Nat, hasMore : BOOLEAN]
  /\ chained \in BOOLEAN /\ rcvMore \in BOOLEAN
  /\ call \in [op : Ops, want : Nat, timed : BOOLEAN, fresh : BOOLEAN]
  /\ got \in Seq(Part)
  /\ result.end \in Outcomes /\ result.parts \in Seq(Part)

Init ==
  /\ sendMode \in Modes /\ recvMode \in Modes
  /\ pipe = <<>> /\ visible = 0 /\ written = 0
  /\ sending = Nothing /\ chained = FALSE
  /\ call = Idle /\ got = <<>> /\ rcvMore = FALSE
  /\ result = [call |-> Idle, end |-> "ok", parts |-> <<>>]
-------------------------------------------------------------------------------
(* Messages in the pipe; the high water mark counts messages, and only the *)
(* first part of one can meet it.                                          *)
full ==
  /\ Len(SelectSeq(pipe, LAMBDA p : ~p.more)) >= Hwm
  /\ pipe # <<>> => ~pipe[Len(pipe)].more

(* Mutant: a part is handed over as soon as it is written.                 *)
MutSendFlushes(more) ==
  /\ ~full
  /\ pipe' = Append(pipe, [i |-> sending.n - sending.left + 1, n |-> sending.n,
                           more |-> more])
  /\ visible' = Len(pipe) + 1
  /\ written' = written + 1

(* zmq_msg_send(): the last part makes all of the message visible.  An     *)
(* interrupted call is repeated, which nobody notices.                     *)
send(more) ==
  /\ ~full
  /\ pipe' = Append(pipe, [i |-> sending.n - sending.left + 1, n |-> sending.n,
                           more |-> more])
  /\ visible' = IF more THEN visible ELSE Len(pipe) + 1
  /\ written' = written + 1

sendOne == send(FALSE)
sendMore == send(TRUE)

(* sendMultiple() and sendMultipleMore() are called; sendOne() and         *)
(* sendMore() are the calls with one part.                                 *)
sendMultiple(n, hasMore) ==
  /\ sending = Nothing /\ written + n <= MaxParts
  /\ sending' = [n |-> n, left |-> n, hasMore |-> hasMore]
  /\ chained' = FALSE
  /\ UNCHANGED <<sendMode, written, recvVars, pipe, visible>>

(* One turn of the loop over the parts.                                    *)
sendPart ==
  /\ sending.left > 0
  /\ IF sending.left > 1 \/ sending.hasMore THEN sendMore ELSE sendOne
  /\ sending' = IF sending.left = 1 THEN Nothing
                                    ELSE [sending EXCEPT !.left = @ - 1]
  /\ chained' = (sending.left = 1 /\ sending.hasMore)
  /\ UNCHANGED <<sendMode, recvVars>>

(* Mutant: the error of one part does not end the loop.                    *)
MutSendFailsGoesOn ==
  /\ sending.left > 0 /\ sendMode = "nonblocking" /\ full
  /\ sending' = IF sending.left = 1 THEN Nothing
                                    ELSE [sending EXCEPT !.left = @ - 1]
  /\ UNCHANGED <<sendMode, written, chained, recvVars, pipe, visible>>

(* The send returns EAGAIN, and with it sendMultiple().                    *)
sendFails ==
  /\ sending.left > 0 /\ sendMode = "nonblocking" /\ full
  /\ sending' = Nothing
  /\ UNCHANGED <<sendMode, written, chained, recvVars, pipe, visible>>
-------------------------------------------------------------------------------
(* A receive function is called.                                           *)
startReceive(op, want, timed) ==
  /\ call = Idle
  /\ call' = [op |-> op, want |-> want, timed |-> timed, fresh |-> ~rcvMore]
  /\ got' = <<>>
  /\ UNCHANGED <<sendVars, recvMode, pipe, visible, rcvMore, result>>

(* How each function goes on after a part that makes g of what it has.     *)

(* Mutant: hasMore() is not asked.                                         *)
MutRecvMultipleNoHasMore(more) == "goes on"

recvMultiple(more) == IF more THEN "goes on" ELSE "ok"

(* Mutant: the last argument is filled without asking for more.            *)
MutRecvMultipleTimeoutLong(g, more) ==
  IF Len(g) = call.want THEN "ok"
                        ELSE IF more THEN "goes on" ELSE "EPROTO"

(* Mutant: a message with too few parts is not noticed.                    *)
MutRecvMultipleTimeoutShort(g, more) ==
  IF Len(g) = call.want THEN IF more THEN "EPROTO" ELSE "ok"
                        ELSE "goes on"

(* One call per argument; the template for the last argument expects that  *)
(* there is no more, the other one that there is.                          *)
recvMultipleTimeout(g, more) ==
  IF Len(g) = call.want THEN IF more THEN "EPROTO" ELSE "ok"
                        ELSE IF more THEN "goes on" ELSE "EPROTO"

drain == "goes on"

next(g, more) ==
  CASE call.op = "recvOne" -> "ok"
    [] call.op = "recvMultiple" -> recvMultiple(more)
    [] call.op = "recvMultipleTimeout" -> recvMultipleTimeout(g, more)
    [] call.op = "drain" -> drain

returns(end, g) ==
  /\ result' = [call |-> call, end |-> end, parts |-> g]
  /\ call' = Idle /\ got' = <<>>

(* zmq_msg_recv() takes a part; hasMore() is what ZMQ_RCVMORE then says.   *)
recv ==
  /\ call # Idle /\ visible > 0
  /\ pipe' = Tail(pipe) /\ visible' = visible - 1
  /\ rcvMore' = Head(pipe).more
  /\ LET g == Append(got, Head(pipe))
         verdict == next(g, Head(pipe).more)
     IN  IF verdict = "goes on" THEN got' = g /\ UNCHANGED <<call, result>>
                                ELSE returns(verdict, g)
  /\ UNCHANGED <<sendVars, recvMode>>

(* recvOne() may fail: at once if the socket does not block, and after the *)
(* time the caller allows if it does.  recvMultiple() allows the parts     *)
(* after the first one no time, recvMultipleTimeout() any time.            *)
givesUp ==
  \/ recvMode = "nonblocking"
  \/ call.op = "recvMultiple" /\ (call.timed \/ got # <<>>)
  \/ call.op = "recvMultipleTimeout" /\ call.timed /\ got = <<>>
  \/ call.op \in {"recvOne", "drain"} /\ call.timed

(* zmq_msg_recv() sets EAGAIN; a poll() that times out sets no error, and  *)
(* recvOne() returns what an earlier call has left.                        *)
zmq_errno == IF recvMode = "nonblocking" THEN {"EAGAIN"} ELSE {"EAGAIN", "stale"}

(* recvOne() returns an error.  For drain() EAGAIN is the end, and with    *)
(* any other it forgets what it has; recvMultiple() calls value() on the   *)
(* error of all but the first part.                                        *)
recvOneFails ==
  /\ call # Idle /\ visible = 0 /\ givesUp
  /\ \E err \in zmq_errno :
       returns(IF call.op = "drain" /\ err = "EAGAIN" THEN "ok"
               ELSE IF call.op = "recvMultiple" /\ got # <<>> THEN "threw"
               ELSE err, got)
  /\ UNCHANGED <<sendVars, recvMode, pipe, visible, rcvMore>>

Receive == recv \/ recvOneFails

Next ==
  \/ \E n \in Sizes, hasMore \in BOOLEAN : sendMultiple(n, hasMore)
  \/ sendPart \/ sendFails
  \/ \E timed \in BOOLEAN :
       \/ \E op \in {"recvOne", "recvMultiple", "drain"} : startReceive(op, 0, timed)
       \/ \E n \in Wanted : startReceive("recvMultipleTimeout", n, timed)
  \/ Receive

Spec == Init /\ [][Next]_vars

(* The thread that receives is scheduled.                                  *)
FairSpec == Spec /\ WF_vars(Receive)
-------------------------------------------------------------------------------
(* "if the first message arrives, the rest shall have arrived" (comments   *)
(* in both recvMultiple()): whoever is in the middle of a message finds    *)
(* its next part, however slowly the sender's loop runs; so value() does   *)
(* not throw and a receive without a timeout does not hang.                *)
RestHasArrived ==
  /\ rcvMore => visible > 0
  /\ result.end # "threw"

(* A call is sent completely or, if its first part is refused, not at all: *)
(* no part of a call is missing between its neighbours in the pipe, and a  *)
(* message is left unfinished only by a caller that asked for it.          *)
CallsAreAtomic ==
  /\ \A k \in 1..Len(pipe) :
       LET p == pipe[k]
       IN  /\ p.i < p.n => p.more
           /\ k > 1 => IF p.i > 1 THEN pipe[k - 1].i = p.i - 1 /\ pipe[k - 1].n = p.n
                                  ELSE pipe[k - 1].i = pipe[k - 1].n
  /\ pipe # <<>> /\ pipe[Len(pipe)].more /\ sending = Nothing => chained

(* A successful recvMultiple() ends at the end of a message and crosses    *)
(* none: what it returns is the message, or what an earlier call left of   *)
(* it if that call returned in its middle.                                 *)
ReturnsOneMessage ==
  LET parts == result.parts
  IN  result.end = "ok" /\ result.call.op \in {"recvMultiple", "recvMultipleTimeout"} =>
        /\ \A k \in 1..Len(parts) : parts[k].more <=> k < Len(parts)
        /\ result.call.fresh => parts[1].i = 1
        /\ result.call.op = "recvMultipleTimeout" => Len(parts) = result.call.want

(* A receive that has its first part returns, without any further step of  *)
(* the sender.                                                             *)
ReceiveEnds ==
  (call.op \in {"recvMultiple", "recvMultipleTimeout"} /\ got # <<>>) ~> call = Idle

(* What the receiver can see is a channel of whole messages.               *)
Channel == INSTANCE MessageChannel WITH stream <- SubSeq(pipe, 1, visible)
ImplementsChannel == Channel!ChannelSpec
===============================================================================
