------------------------- MODULE SocketMessagesProofs -------------------------
(***************************************************************************)
(* Proofs about SocketMessages, for messages of any number of parts, any   *)
(* high water mark and any mode of the two sockets.                        *)
(***************************************************************************)
EXTENDS SocketMessages, Integers, TLAPS

(* Sequences with the same elements are the same.                          *)
LEMMA SeqEqual ==
  ASSUME NEW S, NEW s \in Seq(S), NEW t \in Seq(S),
         Len(s) = Len(t), \A i \in 1..Len(s) : s[i] = t[i]
  PROVE  s = t
  OBVIOUS

(* The elements of a part of a sequence.                                   *)
LEMMA SubSeqProperties ==
  ASSUME NEW S, NEW s, NEW m \in Int, NEW n \in Int, \A i \in m..n : s[i] \in S
  PROVE  /\ SubSeq(s, m, n) \in Seq(S)
         /\ Len(SubSeq(s, m, n)) = IF m <= n THEN n - m + 1 ELSE 0
         /\ \A i \in 1..n - m + 1 : SubSeq(s, m, n)[i] = s[m + i - 1]
  OBVIOUS

(* ... which is empty if it ends before it begins.                         *)
LEMMA SubSeqEmpty ==
  ASSUME NEW s, NEW m \in Int, NEW n \in Int, n < m
  PROVE  SubSeq(s, m, n) = <<>>
  OBVIOUS

(* The first element of a sequence and the others.                         *)
LEMMA HeadTailProperties ==
  ASSUME NEW S, NEW s \in Seq(S), s # <<>>
  PROVE  /\ Head(s) \in S /\ Tail(s) \in Seq(S) /\ Len(Tail(s)) = Len(s) - 1
         /\ \A i \in 1..Len(Tail(s)) : Tail(s)[i] = s[i + 1]
  OBVIOUS

(* The loop of the sender has written what it has counted down.            *)
SenderInv ==
  LET last == pipe[Len(pipe)]
  IN  /\ sending.left <= sending.n
      /\ sending.left = 0 => sending = Nothing
      /\ sending.left > 0 /\ sending.left < sending.n =>
           /\ pipe # <<>> /\ last.more
           /\ last.i = sending.n - sending.left /\ last.n = sending.n
      /\ sending.left = 0 \/ sending.left = sending.n =>
           (pipe # <<>> => last.i = last.n)
      /\ sending.left = 0 /\ pipe # <<>> => (last.more => chained)

(* Part q comes after part p.                                              *)
Follows(p, q) == IF q.i > 1 THEN p.i = q.i - 1 /\ p.n = q.n ELSE p.i = p.n

(* The parts in the pipe are those of complete calls, in order.            *)
PipeInv ==
  /\ \A k \in 1..Len(pipe) :
       /\ 1 <= pipe[k].i /\ pipe[k].i <= pipe[k].n
       /\ pipe[k].i < pipe[k].n => pipe[k].more
  /\ \A k \in 2..Len(pipe) : Follows(pipe[k - 1], pipe[k])
  /\ pipe # <<>> => (rcvMore \/ pipe[1].i = 1)

(* What is visible ends with the last part of a message, and the rest is   *)
(* the beginning of one.                                                   *)
VisibleInv ==
  /\ visible <= Len(pipe)
  /\ visible > 0 => ~pipe[visible].more
  /\ \A k \in 1..Len(pipe) : k > visible => pipe[k].more
  /\ rcvMore => visible > 0

Multiple == {"recvMultiple", "recvMultipleTimeout"}

(* A receiver that has some of the parts of a message is in its middle.    *)
ReceiverInv ==
  /\ call.op = "none" => call = Idle
  /\ call.op \in Multiple =>
       /\ \A k \in 1..Len(got) : got[k].more
       /\ got # <<>> => rcvMore
       /\ call.fresh /\ got = <<>> => ~rcvMore
       /\ call.fresh /\ got # <<>> => got[1].i = 1

Inv ==
  /\ TypeOK /\ SenderInv /\ PipeInv /\ VisibleInv /\ ReceiverInv
  /\ result.end # "threw" /\ ReturnsOneMessage

(* A new pair of sockets satisfies the invariant.                          *)
LEMMA InitInv == Init => Inv
<1> SUFFICES ASSUME Init PROVE Inv
  BY Zenon
<1> USE DEF Init
<1>1. TypeOK
  <2>1. /\ sendMode \in Modes /\ recvMode \in Modes /\ pipe \in Seq(Part)
        /\ visible \in Nat /\ written \in Nat /\ got \in Seq(Part)
    OBVIOUS
  <2>2. sending \in [n : Nat, left : Nat, hasMore : BOOLEAN]
    BY Zenon DEF Nothing
  <2>3. chained \in BOOLEAN /\ rcvMore \in BOOLEAN
    BY Zenon
  <2>4. call \in [op : Ops, want : Nat, timed : BOOLEAN, fresh : BOOLEAN]
    BY Zenon DEF Idle, Ops
  <2>5. result.end \in Outcomes /\ result.parts \in Seq(Part)
    BY DEF Outcomes
  <2> QED
    BY <2>1, <2>2, <2>3, <2>4, <2>5, Zenon DEF TypeOK
<1>2. SenderInv /\ PipeInv /\ VisibleInv
  BY DEF SenderInv, PipeInv, VisibleInv, Nothing
<1>3. ReceiverInv /\ ReturnsOneMessage /\ result.end # "threw"
  BY Zenon DEF ReceiverInv, ReturnsOneMessage, Idle, Multiple
<1> QED
  BY <1>1, <1>2, <1>3, Zenon DEF Inv

(* A part is added to the pipe.                                            *)
LEMMA SendStep ==
  ASSUME Inv, sendPart
  PROVE  Inv'
<1> DEFINE n == sending.n
           left == sending.left
           more == left > 1 \/ sending.hasMore
           part == [i |-> n - left + 1, n |-> n, more |-> more]
<1>1. /\ n \in Nat /\ left \in Nat /\ left > 0 /\ left <= n
      /\ sending.hasMore \in BOOLEAN /\ pipe \in Seq(Part)
      /\ visible \in Nat /\ written \in Nat /\ visible <= Len(pipe)
  BY Zenon DEF Inv, TypeOK, SenderInv, VisibleInv, sendPart
<1>2. /\ part \in Part /\ part.i = n - left + 1 /\ part.n = n
      /\ part.more <=> more
  <2>1. n - left + 1 \in Nat
    BY <1>1
  <2>2. more \in BOOLEAN
    BY Zenon
  <2>3. n \in Nat
    BY <1>1, Zenon
  <2> HIDE DEF n, left, more
  <2> QED
    BY <2>1, <2>2, <2>3, Zenon DEF Part
<1>3. /\ pipe' = Append(pipe, part) /\ written' = written + 1
      /\ visible' = IF more THEN visible ELSE Len(pipe) + 1
  <2>1. CASE more
    BY <2>1, <1>1, Zenon DEF sendPart, sendMore, send
  <2>2. CASE ~more
    BY <2>2, <1>1, Zenon DEF sendPart, sendOne, send
  <2> QED
    BY <2>1, <2>2, Zenon
<1>4. /\ UNCHANGED <<sendMode, recvVars>>
      /\ sending' = IF left = 1 THEN Nothing ELSE [sending EXCEPT !.left = left - 1]
      /\ chained' = (left = 1 /\ sending.hasMore)
  BY Zenon DEF sendPart
<1> HIDE DEF part, more
<1>5. /\ Len(pipe') = Len(pipe) + 1 /\ pipe'[Len(pipe')] = part
      /\ \A k \in 1..Len(pipe) : pipe'[k] = pipe[k]
      /\ pipe' \in Seq(Part) /\ pipe' # <<>> /\ Len(pipe) \in Nat
  BY <1>1, <1>2, <1>3
<1>6. /\ left = 1 => sending'.left = 0 /\ sending'.n = 0 /\ sending' = Nothing
      /\ left # 1 => sending'.left = left - 1 /\ sending'.n = n
      /\ sending' \in [n : Nat, left : Nat, hasMore : BOOLEAN]
  <2>1. sending \in [n : Nat, left : Nat, hasMore : BOOLEAN]
    BY Zenon DEF Inv, TypeOK
  <2> QED
    BY <1>1, <1>4, <2>1 DEF Nothing
<1>7. TypeOK'
  <2>1. sendMode' \in Modes /\ recvMode' \in Modes /\ rcvMore' \in BOOLEAN
    BY <1>4, Zenon DEF Inv, TypeOK, recvVars
  <2>2. visible' \in Nat /\ written' \in Nat
    BY <1>1, <1>3
  <2>3. chained' \in BOOLEAN
    BY <1>4, Zenon
  <2>4. /\ call' \in [op : Ops, want : Nat, timed : BOOLEAN, fresh : BOOLEAN]
        /\ got' \in Seq(Part)
        /\ result'.end \in Outcomes /\ result'.parts \in Seq(Part)
    BY <1>4, Zenon DEF Inv, TypeOK, recvVars
  <2> QED
    BY <1>5, <1>6, <2>1, <2>2, <2>3, <2>4, Zenon DEF TypeOK
<1>8. SenderInv'
  <2>1. left > 1 => part.more
    BY Zenon DEF more, part
  <2>2. left = 1 => (part.more => chained')
    BY <1>1, <1>4 DEF more, part
  <2>3. CASE left = 1
    <3>1. part.i = part.n
      BY <1>1, <1>2, <2>3
    <3> QED
      BY <1>5, <1>6, <2>2, <2>3, <3>1 DEF SenderInv
  <2>4. CASE left # 1
    BY <1>1, <1>2, <1>5, <1>6, <2>1, <2>4, SMTT(30) DEF SenderInv
  <2> QED
    BY <2>3, <2>4, Zenon
<1>9. /\ 1 <= part.i /\ part.i <= part.n
      /\ part.i < part.n => part.more
  BY <1>1, <1>2 DEF more
<1>10. pipe # <<>> => Follows(pipe[Len(pipe)], part)
  BY <1>1, <1>2 DEF Inv, SenderInv, Follows
<1>11. pipe = <<>> => part.i = 1
  BY <1>1, <1>2 DEF Inv, SenderInv
<1>12. PipeInv'
  <2>1. \A k \in 1..Len(pipe') :
          /\ 1 <= pipe'[k].i /\ pipe'[k].i <= pipe'[k].n
          /\ pipe'[k].i < pipe'[k].n => pipe'[k].more
    BY <1>5, <1>9 DEF Inv, PipeInv
  <2>2. \A k \in 2..Len(pipe') : Follows(pipe'[k - 1], pipe'[k])
    <3> TAKE k \in 2..Len(pipe')
    <3>1. CASE k = Len(pipe')
      <4>1. Len(pipe) > 0 /\ k - 1 = Len(pipe) /\ pipe # <<>>
        BY <1>1, <1>5, <3>1
      <4>2. pipe'[k - 1] = pipe[Len(pipe)] /\ pipe'[k] = part
        BY <1>5, <3>1, <4>1, SMTT(30)
      <4> QED
        BY <4>1, <4>2, <1>10, Zenon
    <3>2. CASE k # Len(pipe')
      <4>1. /\ k \in 2..Len(pipe) /\ k - 1 \in 1..Len(pipe) /\ k \in 1..Len(pipe)
        BY <1>5, <3>2
      <4>2. pipe'[k - 1] = pipe[k - 1] /\ pipe'[k] = pipe[k]
        BY <1>5, <4>1, Zenon
      <4> QED
        BY <4>1, <4>2, Zenon DEF Inv, PipeInv
    <3> QED
      BY <3>1, <3>2, Zenon
  <2>3. rcvMore' \/ pipe'[1].i = 1
    <3>1. CASE pipe = <<>>
      BY <1>5, <1>11, <3>1
    <3>2. CASE pipe # <<>>
      <4>1. pipe'[1] = pipe[1]
        BY <1>1, <1>5, <3>2
      <4> QED
        BY <1>4, <3>2, <4>1, Zenon DEF Inv, PipeInv, recvVars
    <3> QED
      BY <3>1, <3>2, Zenon
  <2> QED
    BY <2>1, <2>2, <2>3, Zenon DEF PipeInv
<1>13. VisibleInv'
  <2>0. rcvMore' = rcvMore /\ (rcvMore => visible > 0)
    BY <1>4, Zenon DEF Inv, VisibleInv, recvVars
  <2>1. CASE more
    <3>1. visible' = visible /\ part.more
      BY <1>2, <1>3, <2>1, Zenon
    <3>2. visible > 0 => ~pipe'[visible].more
      BY <1>1, <1>5 DEF Inv, VisibleInv
    <3>3. \A k \in 1..Len(pipe') : k > visible => pipe'[k].more
      BY <1>1, <1>5, <3>1 DEF Inv, VisibleInv
    <3> QED
      BY <1>1, <1>5, <2>0, <3>1, <3>2, <3>3, SMTT(30) DEF VisibleInv
  <2>2. CASE ~more
    <3>1. visible' = Len(pipe') /\ ~part.more
      BY <1>2, <1>3, <1>5, <2>2, Zenon
    <3> QED
      BY <1>1, <1>5, <2>0, <3>1, SMTT(30) DEF VisibleInv
  <2> QED
    BY <2>1, <2>2, Zenon
<1>14. ReceiverInv' /\ result'.end # "threw" /\ ReturnsOneMessage'
  BY <1>4, Zenon DEF Inv, ReceiverInv, ReturnsOneMessage, recvVars
<1> QED
  BY <1>7, <1>8, <1>12, <1>13, <1>14, Zenon DEF Inv

(* A part is taken from the pipe, and the call goes on or returns.         *)
LEMMA RecvStep ==
  ASSUME Inv, recv
  PROVE  Inv'
<1> DEFINE p == Head(pipe)
           g == Append(got, p)
           verdict == next(g, p.more)
<1>1. /\ pipe \in Seq(Part) /\ got \in Seq(Part) /\ visible \in Nat /\ visible > 0
      /\ visible <= Len(pipe) /\ Len(pipe) \in Nat /\ pipe # <<>>
  <2>1. /\ pipe \in Seq(Part) /\ got \in Seq(Part) /\ visible \in Nat /\ visible > 0
        /\ visible <= Len(pipe)
    BY Zenon DEF Inv, TypeOK, VisibleInv, recv
  <2>2. Len(pipe) \in Nat
    BY <2>1
  <2>3. pipe # <<>>
    BY <2>1
  <2> QED
    BY <2>1, <2>2, <2>3, Zenon
<1>2. p = pipe[1] /\ p \in Part
  BY <1>1
<1>a. /\ call \in [op : Ops, want : Nat, timed : BOOLEAN, fresh : BOOLEAN]
      /\ call # Idle
  BY Zenon DEF Inv, TypeOK, recv
<1>b. pipe' = Tail(pipe) /\ visible' = visible - 1
  BY Zenon DEF recv
<1>3. /\ rcvMore' = p.more /\ UNCHANGED <<sendVars, recvMode>>
      /\ IF verdict = "goes on" THEN got' = g /\ UNCHANGED <<call, result>>
                                ELSE returns(verdict, g)
  BY Zenon DEF recv
<1>4. /\ Len(pipe') = Len(pipe) - 1 /\ pipe' \in Seq(Part)
      /\ \A k \in 1..(Len(pipe) - 1) : pipe'[k] = pipe[k + 1]
      /\ pipe' # <<>> <=> Len(pipe) > 1
  <2>1. Len(pipe') = Len(pipe) - 1 /\ pipe' \in Seq(Part)
    BY <1>1, <1>b
  <2>2. \A k \in 1..(Len(pipe) - 1) : pipe'[k] = pipe[k + 1]
    BY <1>1, <1>b
  <2>3. pipe' # <<>> <=> Len(pipe') > 0
    BY <2>1
  <2> QED
    BY <1>1, <2>1, <2>2, <2>3
<1>5. /\ Len(g) = Len(got) + 1 /\ g[Len(g)] = p /\ g \in Seq(Part) /\ g # <<>>
      /\ \A k \in 1..Len(got) : g[k] = got[k]
      /\ Len(got) \in Nat
  BY <1>1, <1>2
<1> HIDE DEF p, g
<1>6. verdict \in {"goes on", "ok", "EPROTO"}
  <2>1. call.op \in {"recvOne", "recvMultiple", "recvMultipleTimeout", "drain", "none"}
    BY <1>a, Zenon DEF Ops
  <2>2. call.op # "none"
    BY <1>a, Zenon DEF Inv, ReceiverInv
  <2> QED
    BY <2>1, <2>2, Zenon DEF next, recvMultiple, recvMultipleTimeout, drain
<1>7. /\ verdict = "goes on" => got' = g /\ call' = call /\ result' = result
      /\ verdict # "goes on" =>
           /\ got' = <<>> /\ call' = Idle
           /\ result' = [call |-> call, end |-> verdict, parts |-> g]
  BY <1>3, Zenon DEF returns
<1>8. call.op \in Multiple =>
        /\ verdict = "goes on" => p.more
        /\ verdict = "ok" => ~p.more
        /\ verdict = "ok" /\ call.op = "recvMultipleTimeout" => Len(g) = call.want
  BY Zenon DEF next, recvMultiple, recvMultipleTimeout, Multiple
<1> HIDE DEF verdict
<1>9. TypeOK'
  <2>1. /\ sendMode' \in Modes /\ recvMode' \in Modes /\ written' \in Nat
        /\ sending' \in [n : Nat, left : Nat, hasMore : BOOLEAN]
    BY <1>3, Zenon DEF Inv, TypeOK, sendVars
  <2>2. visible' \in Nat
    BY <1>1, <1>b
  <2>3. chained' \in BOOLEAN
    BY <1>3, Zenon DEF Inv, TypeOK, sendVars
  <2>4. rcvMore' \in BOOLEAN
    BY <1>2, <1>3, Zenon DEF Part
  <2>5. call' \in [op : Ops, want : Nat, timed : BOOLEAN, fresh : BOOLEAN]
    <3>1. Idle \in [op : Ops, want : Nat, timed : BOOLEAN, fresh : BOOLEAN]
      BY Zenon DEF Idle, Ops
    <3> QED
      BY <1>a, <1>7, <3>1, Zenon
  <2>6. /\ got' \in Seq(Part)
        /\ result'.end \in Outcomes /\ result'.parts \in Seq(Part)
    <3>0. g \in Seq(Part) /\ <<>> \in Seq(Part)
      BY <1>5
    <3>1. got' \in Seq(Part)
      BY <1>7, <3>0, Zenon
    <3>2. result.end \in Outcomes /\ result.parts \in Seq(Part)
      BY Zenon DEF Inv, TypeOK
    <3>3. verdict # "goes on" => verdict \in Outcomes
      BY <1>6, Zenon DEF Outcomes
    <3>4. CASE verdict = "goes on"
      BY <1>7, <3>1, <3>2, <3>4, Zenon
    <3>5. CASE verdict # "goes on"
      <4>1. result' = [call |-> call, end |-> verdict, parts |-> g]
        BY <1>7, <3>5, Zenon
      <4>2. result'.end = verdict /\ result'.parts = g
        BY <4>1, Zenon
      <4> QED
        BY <3>0, <3>1, <3>3, <3>5, <4>2, Zenon
    <3> QED
      BY <3>4, <3>5, Zenon
  <2> QED
    BY <1>4, <2>1, <2>2, <2>3, <2>4, <2>5, <2>6, Zenon DEF TypeOK
<1>10. SenderInv'
  <2>0. UNCHANGED <<sending, chained>>
    BY <1>3, Zenon DEF sendVars
  <2>1. CASE Len(pipe) > 1
    <3>1. pipe'[Len(pipe')] = pipe[Len(pipe)] /\ pipe' # <<>>
      BY <1>1, <1>4, <2>1, SMTT(30)
    <3> QED
      BY <1>1, <2>0, <3>1, Zenon DEF Inv, SenderInv
  <2>2. CASE Len(pipe) = 1
    <3>1. pipe' = <<>> /\ visible = 1
      BY <1>1, <1>4, <2>2
    <3>2. ~pipe[1].more
      BY <1>1, <3>1, Zenon DEF Inv, VisibleInv
    <3>3. sending.left \in Nat /\ sending.n \in Nat
      BY Zenon DEF Inv, TypeOK
    <3> QED
      BY <2>0, <2>2, <3>1, <3>2, <3>3, Zenon DEF Inv, SenderInv
  <2>3. Len(pipe) \in Nat /\ Len(pipe) # 0
    BY <1>1
  <2>4. Len(pipe) > 1 \/ Len(pipe) = 1
    <3>1. \A n \in Nat : n # 0 => n > 1 \/ n = 1
      OBVIOUS
    <3> QED
      BY <2>3, <3>1, Zenon
  <2> QED
    BY <2>1, <2>2, <2>4, Zenon
<1>11. \A k \in 1..Len(pipe) : pipe[k] \in Part
  BY <1>1
<1>12. Len(pipe) > 1 => (p.more \/ pipe[2].i = 1)
  <2> SUFFICES ASSUME Len(pipe) > 1, ~p.more PROVE pipe[2].i = 1
    BY Zenon
  <2>0. 2 \in 2..Len(pipe) /\ 2 \in 1..Len(pipe) /\ 1 \in 1..Len(pipe) /\ 2 - 1 = 1
    BY <1>1
  <2>1. /\ pipe[2] \in Part /\ Follows(pipe[1], pipe[2])
        /\ 1 <= pipe[2].i /\ pipe[2].i <= pipe[2].n
    <3>1. Follows(pipe[2 - 1], pipe[2])
      BY <2>0, Zenon DEF Inv, PipeInv
    <3> QED
      BY <1>11, <2>0, <3>1, Zenon DEF Inv, PipeInv
  <2>2. pipe[1].i = pipe[1].n
    <3>1. pipe[1].i \in Nat /\ pipe[1].n \in Nat
      BY <1>2, Zenon DEF Part
    <3>2. pipe[1].i <= pipe[1].n /\ ~(pipe[1].i < pipe[1].n)
      BY <1>2, <2>0, Zenon DEF Inv, PipeInv
    <3> QED
      BY <3>1, <3>2
  <2> QED
    BY <1>2, <2>1, <2>2 DEF Follows, Part
<1>13. PipeInv'
  <2>0. \A k \in 1..Len(pipe') : k \in 1..(Len(pipe) - 1) /\ k + 1 \in 1..Len(pipe)
    BY <1>1, <1>4
  <2>1. \A k \in 1..Len(pipe') :
          /\ 1 <= pipe'[k].i /\ pipe'[k].i <= pipe'[k].n
          /\ pipe'[k].i < pipe'[k].n => pipe'[k].more
    <3> TAKE k \in 1..Len(pipe')
    <3>1. pipe'[k] = pipe[k + 1] /\ k + 1 \in 1..Len(pipe)
      BY <1>4, <2>0, Zenon
    <3> QED
      BY <3>1, Zenon DEF Inv, PipeInv
  <2>2. \A k \in 2..Len(pipe') : Follows(pipe'[k - 1], pipe'[k])
    <3> TAKE k \in 2..Len(pipe')
    <3>1. /\ k \in 1..Len(pipe') /\ k - 1 \in 1..Len(pipe') /\ (k - 1) + 1 = k
          /\ k + 1 \in 2..Len(pipe) /\ (k + 1) - 1 = k
      BY <1>1, <1>4
    <3>2. pipe'[k] = pipe[k + 1] /\ pipe'[k - 1] = pipe[(k - 1) + 1]
      BY <1>4, <2>0, <3>1, Zenon
    <3>3. Follows(pipe[(k + 1) - 1], pipe[k + 1])
      BY <3>1, Zenon DEF Inv, PipeInv
    <3> QED
      BY <3>1, <3>2, <3>3, Zenon
  <2>3. pipe' # <<>> => (rcvMore' \/ pipe'[1].i = 1)
    <3> SUFFICES ASSUME pipe' # <<>> PROVE rcvMore' \/ pipe'[1].i = 1
      BY Zenon
    <3>1. Len(pipe) > 1 /\ 1 \in 1..(Len(pipe) - 1)
      BY <1>1, <1>4
    <3>2. pipe'[1] = pipe[1 + 1] /\ 1 + 1 = 2
      BY <1>4, <3>1
    <3> QED
      BY <1>3, <1>12, <3>1, <3>2, Zenon
  <2> QED
    BY <2>1, <2>2, <2>3, Zenon DEF PipeInv
<1>14. VisibleInv'
  <2>1. visible' <= Len(pipe')
    BY <1>1, <1>b, <1>4
  <2>2. visible' > 0 => ~pipe'[visible'].more
    <3> SUFFICES ASSUME visible' > 0 PROVE ~pipe'[visible'].more
      BY Zenon
    <3>1. visible' \in 1..(Len(pipe) - 1) /\ visible' + 1 = visible
      BY <1>1, <1>b
    <3>2. pipe'[visible'] = pipe[visible]
      BY <1>4, <3>1, Zenon
    <3> QED
      BY <1>1, <3>2, Zenon DEF Inv, VisibleInv
  <2>3. \A k \in 1..Len(pipe') : k > visible' => pipe'[k].more
    <3> SUFFICES ASSUME NEW k \in 1..Len(pipe'), k > visible' PROVE pipe'[k].more
      BY Zenon
    <3>1. k \in 1..(Len(pipe) - 1) /\ k + 1 \in 1..Len(pipe) /\ k + 1 > visible
      BY <1>1, <1>b, <1>4
    <3>2. pipe'[k] = pipe[k + 1]
      BY <1>4, <3>1, Zenon
    <3> QED
      BY <3>1, <3>2, Zenon DEF Inv, VisibleInv
  <2>4. rcvMore' => visible' > 0
    <3> SUFFICES ASSUME pipe[1].more PROVE visible' > 0
      BY <1>2, <1>3, Zenon
    <3>1. visible # 1
      BY <1>1, Zenon DEF Inv, VisibleInv
    <3> QED
      BY <1>1, <1>b, <3>1
  <2> QED
    BY <2>1, <2>2, <2>3, <2>4, Zenon DEF VisibleInv
<1>15. ASSUME call.op \in Multiple
       PROVE  /\ \A k \in 1..Len(got) : g[k].more
              /\ call.fresh => g[1].i = 1
  <2>1. \A k \in 1..Len(got) : g[k].more
    BY <1>5, <1>15, Zenon DEF Inv, ReceiverInv
  <2>2. ASSUME call.fresh, got = <<>> PROVE g[1].i = 1
    <3>1. Len(g) = 1 /\ g[1] = pipe[1]
      BY <1>2, <1>5, <2>2
    <3>2. ~rcvMore
      BY <1>15, <2>2, Zenon DEF Inv, ReceiverInv
    <3> QED
      BY <1>1, <3>1, <3>2, Zenon DEF Inv, PipeInv
  <2>3. ASSUME call.fresh, got # <<>> PROVE g[1].i = 1
    <3>1. Len(got) # 0
      BY <1>1, <2>3
    <3>2. g[1] = got[1]
      BY <1>5, <3>1
    <3> QED
      BY <1>15, <2>3, <3>2, Zenon DEF Inv, ReceiverInv
  <2> QED
    BY <2>1, <2>2, <2>3, Zenon
<1>16. ReceiverInv'
  <2>1. CASE verdict = "goes on"
    <3>1. got' = g /\ call' = call /\ (rcvMore' <=> p.more)
      BY <1>3, <1>7, <2>1, Zenon
    <3>2. ASSUME call.op \in Multiple PROVE p.more /\ \A k \in 1..Len(g) : g[k].more
      <4>1. p.more
        BY <1>8, <2>1, <3>2, Zenon
      <4>2. \A k \in 1..Len(g) : k \in 1..Len(got) \/ k = Len(g)
        BY <1>5
      <4> QED
        BY <1>5, <1>15, <3>2, <4>1, <4>2, Zenon
    <3>3. call.op = "none" => call = Idle
      BY Zenon DEF Inv, ReceiverInv
    <3> QED
      BY <1>5, <1>15, <3>1, <3>2, <3>3, Zenon DEF ReceiverInv
  <2>2. CASE verdict # "goes on"
    <3>1. call' = Idle
      BY <1>7, <2>2, Zenon
    <3>2. Idle.op = "none" /\ "none" \notin Multiple
      BY Zenon DEF Idle, Multiple
    <3> QED
      BY <3>1, <3>2, Zenon DEF ReceiverInv
  <2> QED
    BY <2>1, <2>2, Zenon
<1>17. result'.end # "threw" /\ ReturnsOneMessage'
  <2>1. CASE verdict = "goes on"
    BY <1>7, <2>1, Zenon DEF Inv, ReturnsOneMessage
  <2>2. CASE verdict # "goes on"
    <3>1. result' = [call |-> call, end |-> verdict, parts |-> g]
      BY <1>7, <2>2, Zenon
    <3>2. result'.call = call /\ result'.end = verdict /\ result'.parts = g
      BY <3>1, Zenon
    <3>3. result'.end # "threw"
      BY <1>6, <3>2, Zenon
    <3>4. ASSUME verdict = "ok", call.op \in Multiple
          PROVE  /\ \A k \in 1..Len(g) : g[k].more <=> k < Len(g)
                 /\ call.fresh => g[1].i = 1
                 /\ call.op = "recvMultipleTimeout" => Len(g) = call.want
      <4>1. ~p.more /\ (call.op = "recvMultipleTimeout" => Len(g) = call.want)
        BY <1>8, <3>4, Zenon
      <4>2. ASSUME NEW k \in 1..Len(g) PROVE g[k].more <=> k < Len(g)
        <5>1. CASE k = Len(g)
          BY <1>5, <4>1, <5>1, SMTT(30)
        <5>2. CASE k # Len(g)
          <6>1. k \in 1..Len(got) /\ k < Len(g)
            BY <1>5, <5>2
          <6> QED
            BY <1>15, <3>4, <6>1, Zenon
        <5> QED
          BY <5>1, <5>2, Zenon
      <4> QED
        BY <1>15, <3>4, <4>1, <4>2, Zenon
    <3> QED
      BY <3>2, <3>3, <3>4, Zenon DEF ReturnsOneMessage, Multiple
  <2> QED
    BY <2>1, <2>2, Zenon
<1> QED
  BY <1>9, <1>10, <1>13, <1>14, <1>16, <1>17, Zenon DEF Inv

(* Every step keeps the invariant.                                         *)
LEMMA InvStep == Inv /\ [Next]_vars => Inv'
<1> SUFFICES ASSUME Inv, [Next]_vars PROVE Inv'
  BY Zenon
<1>1. ASSUME NEW n \in Sizes, NEW hasMore \in BOOLEAN, sendMultiple(n, hasMore)
      PROVE  Inv'
  <2>0. /\ n \in Nat /\ n > 0
        /\ sending = Nothing /\ UNCHANGED <<sendMode, written, recvVars, pipe, visible>>
        /\ sending' = [n |-> n, left |-> n, hasMore |-> hasMore]
    BY <1>1, MessagesAssumption DEF sendMultiple
  <2>1. chained' \in BOOLEAN
    BY <1>1, Zenon DEF sendMultiple
  <2>2. sending' \in [n : Nat, left : Nat, hasMore : BOOLEAN]
    BY <2>0, Zenon
  <2>3. TypeOK'
    BY <2>0, <2>1, <2>2, Zenon DEF Inv, TypeOK, recvVars
  <2>4. /\ sending'.left = n /\ sending'.n = n
        /\ pipe # <<>> => pipe[Len(pipe)].i = pipe[Len(pipe)].n
    BY <2>0, Zenon DEF Inv, SenderInv, Nothing
  <2>5. SenderInv'
    BY <2>0, <2>4, SMTT(30) DEF SenderInv
  <2>6. PipeInv' /\ VisibleInv' /\ ReceiverInv' /\ result'.end # "threw"
    BY <2>0, Zenon DEF Inv, PipeInv, VisibleInv, ReceiverInv, recvVars
  <2>7. ReturnsOneMessage'
    BY <2>0, Zenon DEF Inv, ReturnsOneMessage, recvVars
  <2> QED
    BY <2>3, <2>5, <2>6, <2>7, Zenon DEF Inv
<1>2. CASE sendFails
  <2>0. /\ UNCHANGED <<sendMode, written, chained, recvVars, pipe, visible>>
        /\ sending' = Nothing /\ sending.left > 0
        /\ pipe # <<>> => ~pipe[Len(pipe)].more
    BY <1>2, Zenon DEF sendFails, full
  <2>1. Nothing \in [n : Nat, left : Nat, hasMore : BOOLEAN]
    BY Zenon DEF Nothing
  <2>2. TypeOK'
    BY <2>0, <2>1, Zenon DEF Inv, TypeOK, recvVars
  <2>3. sending.left \in Nat /\ sending.n \in Nat
    BY Zenon DEF Inv, TypeOK
  <2>4. pipe # <<>> => pipe[Len(pipe)].i = pipe[Len(pipe)].n
    BY <2>0, <2>3 DEF Inv, SenderInv
  <2>5. SenderInv'
    BY <2>0, <2>4, SMTT(30) DEF SenderInv, Nothing
  <2>6. PipeInv' /\ VisibleInv' /\ ReceiverInv' /\ result'.end # "threw"
    BY <2>0, Zenon DEF Inv, PipeInv, VisibleInv, ReceiverInv, recvVars
  <2>7. ReturnsOneMessage'
    BY <2>0, Zenon DEF Inv, ReturnsOneMessage, recvVars
  <2> QED
    BY <2>2, <2>5, <2>6, <2>7, Zenon DEF Inv
<1>3. ASSUME NEW op \in Ops \ {"none"}, NEW want \in Nat, NEW timed \in BOOLEAN,
             startReceive(op, want, timed)
      PROVE  Inv'
  <2>0. /\ UNCHANGED <<sendVars, recvMode, pipe, visible, rcvMore, result>>
        /\ call' = [op |-> op, want |-> want, timed |-> timed, fresh |-> ~rcvMore]
        /\ got' = <<>>
    BY <1>3, Zenon DEF startReceive
  <2>1. (~rcvMore) \in BOOLEAN
    BY Zenon
  <2>2. /\ call' \in [op : Ops, want : Nat, timed : BOOLEAN, fresh : BOOLEAN]
        /\ call'.op = op /\ (call'.fresh <=> ~rcvMore)
    BY <2>0, <2>1, Zenon
  <2>3. TypeOK'
    BY <2>0, <2>2 DEF Inv, TypeOK, sendVars
  <2>4. SenderInv' /\ PipeInv' /\ VisibleInv' /\ result'.end # "threw"
    BY <2>0, Zenon DEF Inv, SenderInv, PipeInv, VisibleInv, sendVars
  <2>5. ReceiverInv'
    <3>1. \A k \in 1..Len(<<>>) : <<>>[k].more
      OBVIOUS
    <3>2. call'.op # "none" /\ got' = <<>> /\ rcvMore' = rcvMore
      BY <2>0, <2>2, Zenon
    <3> QED
      BY <2>2, <3>1, <3>2, Zenon DEF ReceiverInv
  <2>6. ReturnsOneMessage'
    BY <2>0, Zenon DEF Inv, ReturnsOneMessage
  <2> QED
    BY <2>3, <2>4, <2>5, <2>6, Zenon DEF Inv
<1>4. CASE recvOneFails
  <2>1. PICK err \in {"EAGAIN", "stale"} :
          returns(IF call.op = "drain" /\ err = "EAGAIN" THEN "ok"
                  ELSE IF call.op = "recvMultiple" /\ got # <<>> THEN "threw"
                  ELSE err, got)
    BY <1>4, Zenon DEF recvOneFails, zmq_errno
  <2>2. /\ UNCHANGED <<sendVars, recvMode, pipe, visible, rcvMore>>
        /\ visible = 0 /\ call' = Idle /\ got' = <<>>
    BY <1>4, <2>1, Zenon DEF recvOneFails, returns
  <2>3. ~(call.op = "recvMultiple" /\ got # <<>>)
    BY <2>2 DEF Inv, ReceiverInv, VisibleInv, Multiple
  <2>4. /\ result'.call = call /\ result'.parts = got
        /\ result'.end \in {"ok", "EAGAIN", "stale"}
        /\ result'.end = "ok" => call.op = "drain"
    BY <2>1, <2>3, Zenon DEF returns
  <2>5. Idle \in [op : Ops, want : Nat, timed : BOOLEAN, fresh : BOOLEAN]
    BY Zenon DEF Idle, Ops
  <2>6. TypeOK'
    <3>1. result'.end \in Outcomes
      BY <2>4, Zenon DEF Outcomes
    <3>2. got \in Seq(Part) /\ <<>> \in Seq(Part)
      BY DEF Inv, TypeOK
    <3> QED
      BY <2>2, <2>4, <2>5, <3>1, <3>2, Zenon DEF Inv, TypeOK, sendVars
  <2>7. SenderInv' /\ PipeInv' /\ VisibleInv'
    BY <2>2, Zenon DEF Inv, SenderInv, PipeInv, VisibleInv, sendVars
  <2>8. ReceiverInv'
    BY <2>2, Zenon DEF ReceiverInv, Idle, Multiple
  <2>9. result'.end # "threw" /\ ReturnsOneMessage'
    BY <2>4, Zenon DEF ReturnsOneMessage
  <2> QED
    BY <2>6, <2>7, <2>8, <2>9, Zenon DEF Inv
<1>5. CASE UNCHANGED vars
  <2>1. TypeOK' /\ SenderInv' /\ PipeInv' /\ VisibleInv'
    BY <1>5 DEF Inv, TypeOK, SenderInv, PipeInv, VisibleInv, vars, sendVars, recvVars
  <2>2. ReceiverInv' /\ ReturnsOneMessage' /\ result'.end # "threw"
    BY <1>5, Zenon DEF Inv, ReceiverInv, ReturnsOneMessage, vars, recvVars
  <2> QED
    BY <2>1, <2>2, Zenon DEF Inv
<1>6. {"recvOne", "recvMultiple", "drain", "recvMultipleTimeout"} \subseteq Ops \ {"none"}
      /\ Wanted \subseteq Nat /\ 0 \in Nat
  BY MessagesAssumption, Zenon DEF Ops
<1>7. ASSUME NEW timed \in BOOLEAN,
             \/ \E op \in {"recvOne", "recvMultiple", "drain"} : startReceive(op, 0, timed)
             \/ \E n \in Wanted : startReceive("recvMultipleTimeout", n, timed)
      PROVE  Inv'
  BY <1>3, <1>6, <1>7, Zenon
<1> QED
  BY <1>1, <1>2, <1>4, <1>5, <1>7, SendStep, RecvStep, Zenon DEF Next, Receive
-------------------------------------------------------------------------------
(* The inductive invariant holds in every behaviour.                       *)
LEMMA Invariance == Spec => []Inv
  BY InitInv, InvStep, PTL DEF Spec

(* No call of a send or receive function leaves the types.                 *)
THEOREM TypeCorrect == Spec => []TypeOK
  BY Invariance, PTL DEF Inv

(* Whoever has received a part that is followed by more finds the next     *)
(* one, so recvMultiple() does not throw.                                  *)
THEOREM PartsHaveArrived == Spec => []RestHasArrived
<1>1. Inv => RestHasArrived
  BY Zenon DEF Inv, VisibleInv, RestHasArrived
<1> QED
  BY <1>1, Invariance, PTL

(* A call of sendMultiple() is sent completely or not at all.              *)
THEOREM SendsAreAtomic == Spec => []CallsAreAtomic
<1>1. Inv => CallsAreAtomic
  <2> SUFFICES ASSUME Inv PROVE CallsAreAtomic
    BY Zenon
  <2>1. ASSUME NEW k \in 1..Len(pipe)
        PROVE  /\ pipe[k].i < pipe[k].n => pipe[k].more
               /\ k > 1 => IF pipe[k].i > 1
                             THEN pipe[k - 1].i = pipe[k].i - 1 /\ pipe[k - 1].n = pipe[k].n
                             ELSE pipe[k - 1].i = pipe[k - 1].n
    <3>1. k > 1 => k \in 2..Len(pipe)
      OBVIOUS
    <3> QED
      BY <3>1, Zenon DEF Inv, PipeInv, Follows
  <2>2. pipe # <<>> /\ pipe[Len(pipe)].more /\ sending = Nothing => chained
    BY DEF Inv, SenderInv, Nothing
  <2> QED
    BY <2>1, <2>2, Zenon DEF CallsAreAtomic
<1> QED
  BY <1>1, Invariance, PTL

(* A successful recvMultiple() returns one message.                        *)
THEOREM OneMessageIsReturned == Spec => []ReturnsOneMessage
  BY Invariance, PTL DEF Inv
-------------------------------------------------------------------------------
(* The part of a sequence that begins at its first element.                *)
LEMMA Prefix ==
  ASSUME NEW S, NEW s \in Seq(S), NEW m \in Nat, m <= Len(s)
  PROVE  /\ SubSeq(s, 1, m) \in Seq(S) /\ Len(SubSeq(s, 1, m)) = m
         /\ \A k \in 1..m : SubSeq(s, 1, m)[k] = s[k]
<1>1. \A k \in 1..m : s[k] \in S
  OBVIOUS
<1>2. /\ SubSeq(s, 1, m) \in Seq(S)
      /\ Len(SubSeq(s, 1, m)) = IF 1 <= m THEN m - 1 + 1 ELSE 0
      /\ \A k \in 1..(m - 1 + 1) : SubSeq(s, 1, m)[k] = s[1 + k - 1]
  BY <1>1, SubSeqProperties
<1> QED
  BY <1>2

(* The last part of a message makes it visible, and all of it at once.     *)
LEMMA SendIsPut ==
  ASSUME Inv, sendPart
  PROVE  Channel!Put \/ UNCHANGED SubSeq(pipe, 1, visible)
<1> DEFINE more == sending.left > 1 \/ sending.hasMore
           L == Len(pipe)
           stream == SubSeq(pipe, 1, visible)
<1>1. /\ pipe \in Seq(Part) /\ visible \in Nat /\ visible <= L /\ L \in Nat
  BY DEF Inv, TypeOK, VisibleInv
<1>2. Inv'
  BY SendStep, Zenon
<1>3. pipe' \in Seq(Part)
  BY <1>2, Zenon DEF Inv, TypeOK
<1>4. PICK part : pipe' = Append(pipe, part)
  BY Zenon DEF sendPart, sendMore, sendOne, send
<1>5. /\ visible' = IF more THEN visible ELSE L + 1
      /\ more => pipe'[Len(pipe')].more
  BY <1>1 DEF sendPart, sendMore, sendOne, send
<1>6. /\ Len(pipe') = L + 1 /\ \A k \in 1..L : pipe'[k] = pipe[k]
  BY <1>1, <1>4
<1>7. /\ stream \in Seq(Part) /\ Len(stream) = visible
      /\ \A k \in 1..visible : stream[k] = pipe[k]
  BY <1>1, Prefix, Zenon
<1>8. CASE more
  <2>1. /\ visible' = visible /\ visible <= Len(pipe')
        /\ \A k \in 1..visible : pipe'[k] = pipe[k]
    BY <1>1, <1>5, <1>6, <1>8
  <2>2. /\ SubSeq(pipe', 1, visible) \in Seq(Part)
        /\ Len(SubSeq(pipe', 1, visible)) = visible
        /\ \A k \in 1..visible : SubSeq(pipe', 1, visible)[k] = pipe'[k]
    BY <1>1, <1>3, <2>1, Prefix, Zenon
  <2>3. SubSeq(pipe', 1, visible) = stream
    <3>1. \A k \in 1..Len(stream) : SubSeq(pipe', 1, visible)[k] = stream[k]
      BY <1>7, <2>1, <2>2, Zenon
    <3> HIDE DEF stream
    <3> QED
      BY <1>7, <2>2, <3>1, SeqEqual, Zenon
  <2> QED
    BY <2>1, <2>3, Zenon
<1>9. CASE ~more
  <2> DEFINE t == SubSeq(pipe', 1, L + 1)
             m == SubSeq(t, visible + 1, L + 1)
  <2>1. visible' = L + 1
    BY <1>5, <1>9, Zenon
  <2>2. t \in Seq(Part) /\ Len(t) = L + 1 /\ \A k \in 1..(L + 1) : t[k] = pipe'[k]
    BY <1>1, <1>3, <1>6, Prefix, SMTT(30)
  <2>3. SubSeq(t, 1, visible) = stream
    <3>1. visible <= Len(t) /\ \A k \in 1..visible : k \in 1..L /\ k \in 1..(L + 1)
      BY <1>1, <2>2
    <3> HIDE DEF t
    <3>2. /\ SubSeq(t, 1, visible) \in Seq(Part)
          /\ Len(SubSeq(t, 1, visible)) = visible
          /\ \A k \in 1..visible : SubSeq(t, 1, visible)[k] = t[k]
      BY <1>1, <2>2, <3>1, Prefix, Zenon
    <3>3. \A k \in 1..Len(stream) : SubSeq(t, 1, visible)[k] = stream[k]
      BY <1>6, <1>7, <2>2, <3>1, <3>2, Zenon
    <3> HIDE DEF stream
    <3> QED
      BY <1>7, <3>2, <3>3, SeqEqual, Zenon
  <2>4. /\ Len(m) = L + 1 - visible
        /\ \A k \in 1..(L + 1 - visible) : m[k] = t[visible + k]
    <3>1. \A k \in (visible + 1)..(L + 1) : t[k] \in Part
      BY <1>1, <2>2
    <3>2. visible + 1 \in Int /\ L + 1 \in Int /\ visible + 1 <= L + 1
      BY <1>1
    <3> HIDE DEF t
    <3>3. /\ Len(m) = IF visible + 1 <= L + 1 THEN (L + 1) - (visible + 1) + 1 ELSE 0
          /\ \A k \in 1..((L + 1) - (visible + 1) + 1) :
               m[k] = t[(visible + 1) + k - 1]
      BY <3>1, <3>2, SubSeqProperties
    <3>4. (L + 1) - (visible + 1) + 1 = L + 1 - visible
      BY <1>1
    <3>5. \A k \in 1..(L + 1 - visible) : (visible + 1) + k - 1 = visible + k
      BY <1>1
    <3> HIDE DEF m
    <3> QED
      BY <3>2, <3>3, <3>4, <3>5, Zenon
  <2>5. ASSUME NEW k \in 1..(L + 1 - visible)
        PROVE  m[k].more <=> k < L + 1 - visible
    <3>1. visible + k \in 1..(L + 1) /\ m[k] = pipe'[visible + k]
      BY <1>1, <2>2, <2>4
    <3>2. CASE k = L + 1 - visible
      <4>1. visible + k = visible' /\ visible' > 0
        BY <1>1, <2>1, <3>2
      <4>2. ~pipe'[visible'].more
        BY <1>2, <4>1, Zenon DEF Inv, VisibleInv
      <4>3. ~(k < L + 1 - visible)
        BY <1>1, <3>2
      <4> QED
        BY <3>1, <4>1, <4>2, <4>3, Zenon
    <3>3. CASE k # L + 1 - visible
      <4>1. visible + k \in 1..L /\ visible + k > visible /\ k < L + 1 - visible
        BY <1>1, <3>3
      <4>2. pipe'[visible + k] = pipe[visible + k]
        BY <1>6, <4>1, Zenon
      <4> QED
        BY <3>1, <4>1, <4>2, Zenon DEF Inv, VisibleInv
    <3> QED
      BY <3>2, <3>3, Zenon
  <2>6. Channel!IsMessage(m)
    <3>1. L + 1 - visible > 0
      BY <1>1
    <3> HIDE DEF m
    <3> QED
      BY <2>4, <2>5, <3>1, Zenon DEF Channel!IsMessage
  <2>7. SubSeq(pipe, 1, visible)' = t
    BY <2>1, Zenon
  <2>8. Len(t) > Len(stream)
    BY <1>1, <1>7, <2>2, SMTT(30)
  <2> HIDE DEF t, m, stream
  <2>9. Channel!Put
    BY <1>7, <2>2, <2>3, <2>6, <2>7, <2>8, Zenon DEF Channel!Put, m, stream
  <2> QED
    BY <2>9, Zenon
<1> QED
  BY <1>8, <1>9, Zenon

(* A receive takes the first part.                                         *)
LEMMA RecvIsTake ==
  ASSUME Inv, recv
  PROVE  Channel!Take
<1> DEFINE stream == SubSeq(pipe, 1, visible)
           rest == SubSeq(pipe', 1, visible - 1)
<1>1. /\ pipe \in Seq(Part) /\ visible \in Nat /\ visible <= Len(pipe)
      /\ Len(pipe) \in Nat
  BY DEF Inv, TypeOK, VisibleInv
<1>2. pipe' = Tail(pipe) /\ visible' = visible - 1 /\ visible > 0
  BY Zenon DEF recv
<1>3. /\ visible - 1 \in Nat /\ pipe # <<>> /\ Len(pipe') = Len(pipe) - 1
      /\ pipe' \in Seq(Part) /\ visible - 1 <= Len(pipe')
  <2>1. pipe # <<>>
    BY <1>1, <1>2
  <2> QED
    BY <1>1, <1>2, <2>1
<1>4. \A k \in 1..(visible - 1) : pipe'[k] = pipe[k + 1]
  BY <1>1, <1>2, <1>3
<1>5. /\ stream \in Seq(Part) /\ Len(stream) = visible
      /\ \A k \in 1..visible : stream[k] = pipe[k]
  BY <1>1, Prefix, Zenon
<1>6. /\ rest \in Seq(Part) /\ Len(rest) = visible - 1
      /\ \A k \in 1..(visible - 1) : rest[k] = pipe'[k]
  BY <1>3, Prefix, Zenon
<1> HIDE DEF stream, rest
<1>7. stream # <<>>
  BY <1>2, <1>5
<1>8. /\ Tail(stream) \in Seq(Part) /\ Len(Tail(stream)) = visible - 1
      /\ \A k \in 1..(visible - 1) : Tail(stream)[k] = stream[k + 1]
  BY <1>5, <1>7, HeadTailProperties
<1>9. \A k \in 1..(visible - 1) : k + 1 \in 1..visible
  BY <1>1
<1>10. \A k \in 1..Len(rest) : rest[k] = Tail(stream)[k]
  BY <1>4, <1>5, <1>6, <1>8, <1>9, Zenon
<1>11. rest = Tail(stream)
  BY <1>6, <1>8, <1>10, SeqEqual, Zenon
<1>12. SubSeq(pipe, 1, visible)' = rest
  BY <1>2, Zenon DEF rest
<1> QED
  BY <1>7, <1>11, <1>12, Zenon DEF Channel!Take, stream

(* What the receiver sees is a channel of whole messages: the loops that   *)
(* send and receive part by part implement MessageChannel.                 *)
THEOREM ChannelIsImplemented == Spec => ImplementsChannel
<1>1. Init => SubSeq(pipe, 1, visible) = <<>>
  <2> SUFFICES ASSUME Init PROVE SubSeq(<<>>, 1, 0) = <<>>
    BY Zenon DEF Init
  <2> QED
    BY SubSeqEmpty
<1>2. Inv /\ [Next]_vars => [Channel!Put \/ Channel!Take]_(SubSeq(pipe, 1, visible))
  <2> SUFFICES ASSUME Inv, [Next]_vars
               PROVE  [Channel!Put \/ Channel!Take]_(SubSeq(pipe, 1, visible))
    BY Zenon
  <2>1. CASE sendPart
    BY <2>1, SendIsPut, Zenon
  <2>2. CASE recv
    BY <2>2, RecvIsTake, Zenon
  <2>3. CASE UNCHANGED <<pipe, visible>>
    BY <2>3, Zenon
  <2>4. sendPart \/ recv \/ UNCHANGED <<pipe, visible>>
    BY Zenon DEF Next, Receive, sendMultiple, sendFails, startReceive, recvOneFails, vars
  <2> QED
    BY <2>1, <2>2, <2>3, <2>4, Zenon
<1> QED
  BY <1>1, <1>2, Invariance, PTL DEF Spec, ImplementsChannel, Channel!ChannelSpec
-------------------------------------------------------------------------------
(* Progress of a receive.  ENABLED is left as it is: that the receiver can *)
(* take a step while a part is there is a hypothesis of the theorem.       *)
ReceiveCanStep == call # Idle /\ visible > 0 => ENABLED <<Receive>>_vars

Collecting == call.op \in Multiple /\ got # <<>>

(* The n-th part from here on is the last one of a message.                *)
Rest(n) == Collecting /\ n \in 1..visible /\ ~pipe[n].more

(* What the other thread sends, and a call that begins, change nothing for *)
(* a receive in the middle of a message.                                   *)
LEMMA OthersKeepRest ==
  ASSUME Inv, NEW n \in Nat, Rest(n), [Next]_vars, ~Receive
  PROVE  Rest(n)'
<1>1. /\ n \in 1..visible /\ ~pipe[n].more /\ Collecting /\ pipe \in Seq(Part)
      /\ visible \in Nat /\ visible <= Len(pipe)
  BY Zenon DEF Rest, Inv, TypeOK, VisibleInv
<1>2. call # Idle
  BY <1>1 DEF Collecting, Idle, Multiple
<1>3. CASE sendPart
  <2>1. PICK p : pipe' = Append(pipe, p)
    BY <1>3, Zenon DEF sendPart, sendMore, sendOne, send
  <2>2. visible' \in {visible, Len(pipe) + 1} /\ UNCHANGED recvVars
    BY <1>3, Zenon DEF sendPart, sendMore, sendOne, send
  <2>3. pipe'[n] = pipe[n]
    BY <1>1, <2>1
  <2>4. n \in 1..visible'
    BY <1>1, <2>2
  <2> QED
    BY <1>1, <2>2, <2>3, <2>4, Zenon DEF Rest, Collecting, recvVars
<1>4. CASE ~sendPart
  <2>1. UNCHANGED <<recvVars, pipe, visible>>
    BY <1>2, <1>4, Zenon DEF Next, sendMultiple, sendFails, startReceive, vars
  <2> QED
    BY <1>1, <2>1, Zenon DEF Rest, Collecting, recvVars
<1> QED
  BY <1>3, <1>4, Zenon

(* A step of the receive takes a part of the message or returns.           *)
LEMMA ReceiveTakes ==
  ASSUME Inv, NEW n \in Nat, Rest(n + 1), Receive
  PROVE  call' = Idle \/ Rest(n)'
<1>1. /\ n + 1 \in 1..visible /\ ~pipe[n + 1].more /\ Collecting /\ pipe \in Seq(Part)
      /\ visible \in Nat /\ visible <= Len(pipe)
  BY Zenon DEF Rest, Inv, TypeOK, VisibleInv
<1>2. recv
  BY <1>1 DEF Receive, recvOneFails
<1>3. /\ Head(pipe) = pipe[1] /\ pipe' = Tail(pipe) /\ visible' = visible - 1
      /\ \A i \in 1..Len(pipe) - 1 : Tail(pipe)[i] = pipe[i + 1]
  <2>1. pipe # <<>>
    BY <1>1
  <2>2. pipe' = Tail(pipe) /\ visible' = visible - 1
    BY <1>2, Zenon DEF recv
  <2>3. Head(pipe) = pipe[1]
    BY <1>1, <2>1
  <2> QED
    BY <1>1, <2>1, <2>2, <2>3, HeadTailProperties, Zenon
<1>4. CASE call' # Idle
  <2>1. /\ call' = call /\ got' = Append(got, pipe[1])
        /\ next(got', pipe[1].more) = "goes on"
    BY <1>2, <1>3, <1>4, Zenon DEF recv, returns
  <2>2. got \in Seq(Part) /\ pipe[1] \in Part
    BY <1>1 DEF Inv, TypeOK
  <2>3. got' # <<>>
    <3>1. Append(got, pipe[1]) # <<>>
      BY <2>2
    <3> QED
      BY <2>1, <3>1, Zenon
  <2>4. pipe[1].more
    BY <1>1, <2>1, Zenon DEF next, Collecting, Multiple, recvMultiple, recvMultipleTimeout
  <2>5. n # 0
    BY <1>1, <2>4
  <2>6. n \in 1..visible' /\ pipe'[n] = pipe[n + 1]
    BY <1>1, <1>3, <2>5
  <2> QED
    BY <1>1, <2>1, <2>3, <2>6, Zenon DEF Rest, Collecting
<1> QED
  BY <1>4, Zenon

(* A receive that has its first part has the rest in front of it, and goes *)
(* through it part by part until it returns.  That it returns (ReceiveEnds)*)
(* follows by counting the parts.                                          *)
THEOREM ReceiveGoesOn ==
  FairSpec /\ []ReceiveCanStep =>
    /\ [](Collecting => visible > 0 /\ Rest(visible))
    /\ \A n \in Nat : Rest(n + 1) ~> (call = Idle \/ Rest(n))
<1>1. Inv /\ Collecting => visible > 0 /\ Rest(visible)
  BY DEF Inv, TypeOK, VisibleInv, ReceiverInv, Collecting, Rest
<1>2. FairSpec => []Inv
  BY Invariance, PTL DEF FairSpec
<1>3. ASSUME NEW n \in Nat
      PROVE  FairSpec /\ []ReceiveCanStep => (Rest(n + 1) ~> (call = Idle \/ Rest(n)))
  <2> DEFINE P == Rest(n + 1)
             Q == call = Idle \/ Rest(n)
  <2>1. Inv /\ P /\ [Next]_vars => P' \/ Q'
    BY n + 1 \in Nat, OthersKeepRest, ReceiveTakes, Zenon
  <2>2. Inv /\ P /\ <<Next /\ Receive>>_vars => Q'
    BY ReceiveTakes, Zenon
  <2>3. Inv /\ P /\ ReceiveCanStep => ENABLED <<Receive>>_vars
    <3> SUFFICES ASSUME Inv, P PROVE call # Idle /\ visible > 0
      BY Zenon DEF ReceiveCanStep
    <3> QED
      BY DEF Inv, TypeOK, Rest, Collecting, Idle, Multiple
  <2> HIDE DEF P, Q
  <2>4. FairSpec /\ []ReceiveCanStep => (P ~> Q)
    BY <1>2, <2>1, <2>2, <2>3, PTL DEF FairSpec, Spec
  <2> QED
    BY <2>4, Zenon DEF P, Q
<1>4. FairSpec => [](Collecting => visible > 0 /\ Rest(visible))
  BY <1>1, <1>2, PTL
<1> QED
  BY <1>3, <1>4, Zenon
===============================================================================
