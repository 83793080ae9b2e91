---------------------------- MODULE ExamplesProofs ----------------------------
(***************************************************************************)
(* Proofs about the example programs, for any number of clients and of     *)
(* rounds.  The argument: a socket per request keeps late replies away     *)
(* (SocketInv, ReplyInv), and a request that is under way after its        *)
(* client went on was given up (RequestInv).                               *)
(***************************************************************************)
EXTENDS Examples, FiniteSetTheorems, TLAPS

(* A client has at most one request socket open, the one of its request.   *)
SocketInv ==
  \A c \in Clients : \A n \in Nat :
    <<c, n>> \in socks => n = 0 \/ (n = pc[c] /\ n \in Nrs)

(* A client's request under way is one it has sent, through the socket of  *)
(* that request; that of a KEY_SET that is over was given up.              *)
RequestOK(r) ==
  /\ r.client = Stranger => ~r.ok
  /\ r.client \in Clients =>
       /\ r.ok /\ r.sock = r.nr /\ r.nr \in Nrs /\ r.cmd = startRequests[r.nr]
       /\ r.nr <= pc[r.client]
       /\ r.nr = pc[r.client] => <<r.client, r.nr>> \in socks
       /\ r.nr < pc[r.client] /\ r.cmd = "KEY_SET" =>
            [client |-> r.client, nr |-> r.nr] \in gaveUp

RequestInv == \A r \in inflight : RequestOK(r)

(* A reply is for the request its client waits for, which is not under way *)
(* any more, and there is no other.                                        *)
ReplyInv ==
  \A q \in replies :
    /\ q.client \in Clients /\ q.sock = q.nr /\ q.nr = pc[q.client]
    /\ <<q.client, q.nr>> \in socks
    /\ \A r \in inflight : ~(r.client = q.client /\ r.nr = q.nr)
    /\ \A p \in replies : p.client = q.client => p = q

(* A value of the client is not older than the n-th, or came late.         *)
NotBefore(value, c, n) == value.client = c => value.nr >= n \/ value \in gaveUp

(* What a client knows of the store is not newer than the store, and the   *)
(* reply it waits for is between.                                          *)
VersionInv ==
  /\ version \in Nat
  /\ \A c \in Clients :
       /\ known[c].version \in Nat /\ known[c].version <= version
       /\ known[c].nr \in Nat /\ known[c].nr < pc[c]
       /\ NotBefore(kvStore_, c, known[c].nr)
  /\ \A q \in replies :
       /\ q.version \in Nat /\ q.version <= version
       /\ known[q.client].version <= q.version
       /\ startRequests[q.nr] = "KEY_SET" => NotBefore(kvStore_, q.client, q.nr)
       /\ startRequests[q.nr] = "KEY_GET" =>
            NotBefore(q.value, q.client, known[q.client].nr)

HistoryInv == DOMAIN last = Clients /\ DOMAIN known = Clients /\ kvStore_.nr \in Nat

(* The j-th KEY_SET of a client: those sent, those under way.              *)
SetNr(j) == 2 * j + 1
SetsSent ==
  {x \in Clients \X (1..Rounds) :
     SetNr(x[2]) < pc[x[1]] \/ (SetNr(x[2]) = pc[x[1]] /\ <<x[1], pc[x[1]]>> \in socks)}
SetsUnderWay ==
  {x \in Clients \X (1..Rounds) :
     \E r \in inflight : r.client = x[1] /\ r.nr = SetNr(x[2])}

SetsArrived == SetsSent \ SetsUnderWay

(* The store changes at most once for each KEY_SET that has arrived.       *)
StoreInv == version <= Cardinality(SetsArrived)

(* TypeOK but for the number of values, which StoreInv bounds.             *)
SimpleTypeOK ==
  /\ pc \in [Clients -> 1..Len(startRequests) + 1]
  /\ inflight \subseteq [client : Clients \cup {Stranger}, sock : Nat, nr : Nat,
                         cmd : Kinds \cup {"KEY_SET", "KEY_GET"}, ok : BOOLEAN]
  /\ unanswered \subseteq Kinds
  /\ main \in {"setup", "mainLoop", "stopping", "returned", "aborted"}
  /\ loop \in {"idle", "running", "stopped"}
  /\ signalled \in BOOLEAN /\ strange \in 0..MaxStrange

Inv ==
  /\ SimpleTypeOK /\ SocketInv /\ RequestInv /\ ReplyInv /\ HistoryInv /\ VersionInv
  /\ StoreInv /\ ReplyIsForRequest /\ GetFollowsSet
-------------------------------------------------------------------------------
(* What is counted with one more stays within what is counted.             *)
LEMMA CountUp ==
  /\ \A m, n \in Nat : m < n => n >= m
  /\ \A v, a, b \in Nat : v <= a /\ a + 1 <= b => v + 1 <= b
  OBVIOUS

(* Two sequences in a row.                                                 *)
LEMMA ConcatProperties ==
  ASSUME NEW S, NEW s \in Seq(S), NEW u \in Seq(S)
  PROVE  /\ s \o u \in Seq(S) /\ Len(s \o u) = Len(s) + Len(u)
         /\ \A i \in 1..Len(s) + Len(u) :
              (s \o u)[i] = IF i <= Len(s) THEN s[i] ELSE u[i - Len(s)]
  OBVIOUS

(* What a client sends: its KEY_SETs are the odd requests from the third.  *)
LEMMA StartRequestsFacts ==
  /\ Len(startRequests) = 2 * Rounds + 3 /\ Nrs = 1..2 * Rounds + 3
  /\ \A n \in Nrs : startRequests[n] \in Kinds \cup {"KEY_SET", "KEY_GET"}
  /\ \A n \in Nrs : startRequests[n] = "KEY_SET" => \E j \in 1..Rounds : n = SetNr(j)
  <1> USE ExamplesAssumption
  <1> DEFINE Cmds == Kinds \cup {"KEY_SET", "KEY_GET"}
             s == <<"primitive", "string">>
             m == makeThriftRequest
             t == s \o m
             z == <<"multiple">>
  <1>1. s \in Seq(Cmds) /\ Len(s) = 2 /\ s[1] = "primitive" /\ s[2] = "string"
    BY DEF Kinds
  <1>2. z \in Seq(Cmds) /\ Len(z) = 1 /\ z[1] = "multiple"
    BY DEF Kinds
  <1>3. /\ m \in Seq(Cmds) /\ Len(m) = 2 * Rounds
        /\ \A i \in 1..2 * Rounds : m[i] = IF i % 2 = 1 THEN "KEY_SET" ELSE "KEY_GET"
    BY DEF makeThriftRequest
  <1> HIDE DEF s, m, z, Cmds
  <1>4. /\ t \in Seq(Cmds) /\ Len(t) = 2 * Rounds + 2
        /\ \A i \in 1..2 * Rounds + 2 : t[i] = IF i <= 2 THEN s[i] ELSE m[i - 2]
    <2>0. s \in Seq(Cmds) /\ m \in Seq(Cmds)
      BY <1>1, <1>3, Zenon
    <2>1. /\ s \o m \in Seq(Cmds) /\ Len(s \o m) = Len(s) + Len(m)
          /\ \A i \in 1..Len(s) + Len(m) :
               (s \o m)[i] = IF i <= Len(s) THEN s[i] ELSE m[i - Len(s)]
      BY <2>0, ConcatProperties, Zenon
    <2> QED
      BY <1>1, <1>3, <2>1
  <1>5. startRequests = t \o z
    BY Zenon DEF startRequests, s, m, z
  <1> HIDE DEF t
  <1>6. /\ startRequests \in Seq(Cmds) /\ Len(startRequests) = 2 * Rounds + 3
        /\ \A i \in 1..2 * Rounds + 3 :
             startRequests[i] = IF i <= 2 * Rounds + 2 THEN t[i]
                                ELSE z[i - (2 * Rounds + 2)]
    <2>0. t \in Seq(Cmds) /\ z \in Seq(Cmds)
      BY <1>2, <1>4, Zenon
    <2>1. /\ t \o z \in Seq(Cmds) /\ Len(t \o z) = Len(t) + Len(z)
          /\ \A i \in 1..Len(t) + Len(z) :
               (t \o z)[i] = IF i <= Len(t) THEN t[i] ELSE z[i - Len(t)]
      BY <2>0, ConcatProperties, Zenon
    <2> QED
      BY <1>2, <1>4, <1>5, <2>1
  <1>7. Nrs = 1..2 * Rounds + 3
    BY <1>6, Zenon DEF Nrs
  <1>8. \A n \in Nrs : startRequests[n] \in Cmds
    BY <1>6, <1>7
  <1>9. ASSUME NEW n \in Nrs, startRequests[n] = "KEY_SET"
        PROVE  \E j \in 1..Rounds : n = SetNr(j)
    <2>1. n <= 2 * Rounds + 2
      BY <1>2, <1>6, <1>7, <1>9
    <2>2. n > 2
      BY <1>1, <1>4, <1>6, <1>7, <1>9, <2>1
    <2>3. m[n - 2] = "KEY_SET" /\ n - 2 \in 1..2 * Rounds
      BY <1>4, <1>6, <1>7, <1>9, <2>1, <2>2
    <2>4. (n - 2) % 2 = 1
      BY <1>3, <2>3, Zenon
    <2>5. PICK j \in Nat : n - 2 = 2 * j + 1
      <3>1. \A k \in Nat : k % 2 = 1 => k \div 2 \in Nat /\ k = 2 * (k \div 2) + 1
        OBVIOUS
      <3>2. n - 2 \in Nat
        BY <2>3
      <3> QED
        BY <2>4, <3>1, <3>2, Zenon
    <2>6. j + 1 \in 1..Rounds /\ n = 2 * (j + 1) + 1
      BY <1>7, <2>1, <2>5
    <2> QED
      BY <2>6, Zenon DEF SetNr
  <1> QED
    BY <1>6, <1>7, <1>8, <1>9, Zenon DEF Cmds

(* There are as many KEY_SETs as rounds and clients.                       *)
LEMMA SetsAreFinite ==
  ASSUME NEW S \in SUBSET (Clients \X (1..Rounds))
  PROVE  /\ IsFiniteSet(S) /\ Cardinality(S) \in Nat
         /\ Cardinality(S) <= Rounds * Cardinality(Clients)
  <1> USE ExamplesAssumption
  <1>1. IsFiniteSet(1..Rounds) /\ Cardinality(1..Rounds) = Rounds
    BY FS_Interval
  <1>2. /\ IsFiniteSet(Clients \X (1..Rounds))
        /\ Cardinality(Clients \X (1..Rounds)) = Cardinality(Clients) * Rounds
    BY <1>1, FS_Product, Zenon
  <1>3. IsFiniteSet(S) /\ Cardinality(S) <= Cardinality(Clients \X (1..Rounds))
    BY <1>2, FS_Subset, Zenon
  <1>4. Cardinality(S) \in Nat /\ Cardinality(Clients) \in Nat
    BY <1>3, FS_CardinalityType, Zenon
  <1>5. Cardinality(Clients) * Rounds = Rounds * Cardinality(Clients)
    BY <1>4
  <1> QED
    BY <1>2, <1>3, <1>4, <1>5, Zenon

(* A step that leaves the store alone, and loses no KEY_SET that arrived.  *)
LEMMA StoreUntouched ==
  ASSUME StoreInv, version \in Nat, version' = version, SetsArrived \subseteq SetsArrived'
  PROVE  StoreInv'
  <1>1. SetsArrived \in SUBSET (Clients \X (1..Rounds))
    BY Zenon DEF SetsArrived, SetsSent
  <1>2. SetsArrived' \in SUBSET (Clients \X (1..Rounds))
    BY Zenon DEF SetsArrived, SetsSent
  <1> DEFINE A == SetsArrived
             B == SetsArrived'
  <1> HIDE DEF A, B
  <1>3. /\ IsFiniteSet(B) /\ Cardinality(A) \in Nat /\ Cardinality(B) \in Nat
    BY <1>1, <1>2, SetsAreFinite, Zenon DEF A, B
  <1>4. Cardinality(A) <= Cardinality(B)
    BY <1>3, FS_Subset, Zenon DEF A, B
  <1>5. version <= Cardinality(A)
    BY Zenon DEF StoreInv, A
  <1>6. version' <= Cardinality(B)
    BY <1>3, <1>4, <1>5
  <1> QED
    BY <1>6, Zenon DEF StoreInv, B

(* The invariant holds before any client has sent.                         *)
LEMMA InitInv ==
  Init => Inv
  <1> SUFFICES ASSUME Init
               PROVE  Inv
    BY Zenon
  <1> USE ExamplesAssumption, StartRequestsFacts DEF Init
  <1>1. SimpleTypeOK
    <2>1. 1 \in 1..Len(startRequests) + 1
      OBVIOUS
    <2>2. pc \in [Clients -> 1..Len(startRequests) + 1]
      BY <2>1, Zenon
    <2>3. strange \in 0..MaxStrange /\ inflight = {} /\ unanswered = {}
      OBVIOUS
    <2> QED
      BY <2>2, <2>3, Zenon DEF SimpleTypeOK
  <1>2. SocketInv /\ RequestInv /\ ReplyInv /\ HistoryInv
    BY Zenon DEF SocketInv, RequestInv, ReplyInv, HistoryInv, None
  <1>3. VersionInv
    BY DEF VersionInv, NotBefore, NoReply, None
  <1>4. StoreInv
    <2>1. Cardinality(SetsArrived) \in Nat
      BY SetsAreFinite, Zenon DEF SetsArrived, SetsSent
    <2> QED
      BY <2>1 DEF StoreInv
  <1>5. ReplyIsForRequest /\ GetFollowsSet
    BY DEF ReplyIsForRequest, GetFollowsSet, NoReply, None
  <1> QED
    BY <1>1, <1>2, <1>3, <1>4, <1>5, Zenon DEF Inv
-------------------------------------------------------------------------------
(* The types that the other conjuncts rest on.                             *)
LEMMA ClientFacts ==
  ASSUME Inv, NEW c \in Clients
  PROVE  /\ pc[c] \in Nat \ {0} /\ pc[c] <= 2 * Rounds + 4
         /\ known[c].nr \in Nat /\ known[c].version \in Nat
         /\ DOMAIN last = Clients /\ DOMAIN known = Clients /\ DOMAIN pc = Clients
  <1>1. pc \in [Clients -> 1..2 * Rounds + 4]
    <2>1. Len(startRequests) + 1 = 2 * Rounds + 4
      BY StartRequestsFacts, ExamplesAssumption
    <2>2. pc \in [Clients -> 1..Len(startRequests) + 1]
      BY Zenon DEF Inv, SimpleTypeOK
    <2> QED
      BY <2>1, <2>2, Zenon
  <1>2. HistoryInv /\ VersionInv
    BY Zenon DEF Inv
  <1> QED
    BY <1>1, <1>2, ExamplesAssumption DEF HistoryInv, VersionInv

(* A request under way is known by its client and number.                  *)
LEMMA RequestFacts ==
  ASSUME Inv, NEW r \in inflight
  PROVE  /\ r.client \in Clients \cup {Stranger} /\ r.nr \in Nat
         /\ r.ok => r.client \in Clients
         /\ r.client \in Clients => \A s \in inflight :
              s.client = r.client /\ s.nr = r.nr => s = r
  <1>1. /\ inflight \subseteq [client : Clients \cup {Stranger}, sock : Nat, nr : Nat,
                               cmd : Kinds \cup {"KEY_SET", "KEY_GET"}, ok : BOOLEAN]
        /\ RequestInv
    BY Zenon DEF Inv, SimpleTypeOK
  <1>2. r.client \in Clients \cup {Stranger} /\ r.nr \in Nat
    BY <1>1, Zenon
  <1>3. r.ok => r.client \in Clients
    BY <1>1, <1>2, Zenon DEF RequestInv, RequestOK
  <1>4. ASSUME NEW s \in inflight, r.client \in Clients,
               s.client = r.client, s.nr = r.nr
        PROVE  s = r
    <2>1. /\ r.ok = TRUE /\ s.ok = TRUE /\ r.sock = r.nr /\ s.sock = s.nr
          /\ r.cmd = startRequests[r.nr] /\ s.cmd = startRequests[s.nr]
      BY <1>1, <1>4, Zenon DEF RequestInv, RequestOK
    <2> QED
      BY <1>1, <1>4, <2>1
  <1> QED
    BY <1>2, <1>3, <1>4, Zenon

(* The steps that no client's request is part of.                          *)
LEMMA AsideKeepsInv ==
  ASSUME Inv, UNCHANGED <<clientVars, inflight, replies, storeVars>>,
         SimpleTypeOK',
         \A c \in Clients : \A n \in Nat \ {0} : <<c, n>> \in socks' <=> <<c, n>> \in socks
  PROVE  Inv'
  <1>1. /\ UNCHANGED <<pc, gaveUp, last, known>> /\ UNCHANGED <<inflight, replies>>
        /\ UNCHANGED <<kvStore_, version>>
    BY Zenon DEF clientVars, storeVars
  <1>2. /\ SocketInv /\ RequestInv /\ ReplyInv /\ HistoryInv /\ VersionInv
        /\ StoreInv /\ ReplyIsForRequest /\ GetFollowsSet
    BY Zenon DEF Inv
  <1>3. \A c \in Clients : pc[c] \in Nat \ {0}
    BY ClientFacts, Zenon
  <1>4. SocketInv'
    BY <1>1, <1>2, Zenon DEF SocketInv
  <1>5. RequestInv'
    BY <1>1, <1>2, <1>3, Zenon DEF RequestInv, RequestOK
  <1>6. ReplyInv'
    BY <1>1, <1>2, <1>3, Zenon DEF ReplyInv
  <1>7. HistoryInv' /\ VersionInv' /\ ReplyIsForRequest' /\ GetFollowsSet'
    BY <1>1, <1>2, Zenon
       DEF HistoryInv, VersionInv, NotBefore, ReplyIsForRequest, GetFollowsSet
  <1>8. StoreInv'
    <2>1. SetsArrived' = SetsArrived
      BY <1>1, <1>3, Zenon DEF SetsArrived, SetsSent, SetsUnderWay
    <2> QED
      BY <1>1, <1>2, <2>1, Zenon DEF StoreInv
  <1> QED
    BY <1>4, <1>5, <1>6, <1>7, <1>8, Zenon DEF Inv

(* A client opens the socket of its request and sends it.                  *)
LEMMA SendKeepsInv ==
  ASSUME Inv, NEW c \in Clients, NEW cmd, sendRequest(c, cmd)
  PROVE  Inv'
  <1> DEFINE n == pc[c]
             r == [client |-> c, sock |-> n, nr |-> n, cmd |-> cmd, ok |-> TRUE]
  <1>1. /\ n \in Nrs /\ startRequests[n] = cmd /\ <<c, n>> \notin socks
        /\ socks' = socks \cup {<<c, n>>} /\ inflight' = inflight \cup {r}
        /\ UNCHANGED <<pc, gaveUp, last, known>> /\ UNCHANGED replies
        /\ UNCHANGED <<kvStore_, version>> /\ UNCHANGED <<unanswered, loop>>
        /\ UNCHANGED <<main, signalled, strange>>
    BY Zenon DEF sendRequest, reqSock, clientVars, storeVars, serverVars
  <1>2. /\ SocketInv /\ RequestInv /\ ReplyInv /\ HistoryInv /\ VersionInv
        /\ StoreInv /\ ReplyIsForRequest /\ GetFollowsSet /\ SimpleTypeOK
    BY Zenon DEF Inv
  <1>3. n \in Nat \ {0} /\ \A d \in Clients : pc[d] \in Nat \ {0}
    BY ClientFacts, Zenon
  <1>4. SimpleTypeOK'
    <2>1. r \in [client : Clients \cup {Stranger}, sock : Nat, nr : Nat,
                 cmd : Kinds \cup {"KEY_SET", "KEY_GET"}, ok : BOOLEAN]
      BY <1>1, <1>3, StartRequestsFacts, Zenon
    <2> HIDE DEF r, n
    <2> QED
      BY <1>1, <1>2, <2>1, Zenon DEF SimpleTypeOK
  <1>5. SocketInv'
    BY <1>1, <1>2, Zenon DEF SocketInv
  <1>6. RequestInv'
    <2>1. ASSUME NEW s \in inflight, s.client \in Clients
          PROVE  <<s.client, s.nr>> \in socks => <<s.client, s.nr>> \in socks'
      BY <1>1, Zenon
    <2>2. /\ r.client = c /\ r.ok = TRUE /\ r.sock = r.nr /\ r.nr = pc[c] /\ r.cmd = cmd
          /\ r.client # Stranger
      BY ExamplesAssumption, Zenon
    <2> HIDE DEF r
    <2>3. \A s \in inflight' : s \in inflight \/ s = r
      BY <1>1, Zenon
    <2>4. ASSUME NEW s \in inflight
          PROVE  RequestOK(s)'
      BY <1>1, <1>2, <2>1, Zenon DEF RequestInv, RequestOK
    <2>5. ASSUME NEW s, s = r
          PROVE  RequestOK(s)'
      BY <1>1, <1>3, <2>2, <2>5 DEF RequestOK
    <2> QED
      BY <2>3, <2>4, <2>5, Zenon DEF RequestInv
  <1>7. ReplyInv'
    <2>1. \A q \in replies : ~(q.client = c /\ q.nr = n)
      BY <1>1, <1>2, Zenon DEF ReplyInv
    <2>2. ASSUME NEW q \in replies, NEW s \in inflight'
          PROVE  ~(s.client = q.client /\ s.nr = q.nr)
      <3>1. CASE s \in inflight
        BY <1>2, <3>1, Zenon DEF ReplyInv
      <3>2. CASE s = r
        BY <2>1, <3>2, Zenon
      <3> QED
        BY <1>1, <3>1, <3>2, Zenon
    <2>3. socks \subseteq socks' /\ replies' = replies /\ pc' = pc
      BY <1>1, Zenon
    <2> QED
      BY <1>2, <2>2, <2>3, Zenon DEF ReplyInv
  <1>8. HistoryInv' /\ VersionInv' /\ ReplyIsForRequest' /\ GetFollowsSet'
    BY <1>1, <1>2, Zenon
       DEF HistoryInv, VersionInv, NotBefore, ReplyIsForRequest, GetFollowsSet
  <1>9. StoreInv'
    <2>1. SetsSent \subseteq SetsSent'
      BY <1>1, Zenon DEF SetsSent
    <2>2. ASSUME NEW x \in SetsSent, x \notin SetsUnderWay
          PROVE  x \notin SetsUnderWay'
      <3>1. ~(x[1] = c /\ SetNr(x[2]) = n)
        BY <1>1, <1>3 DEF SetsSent, SetNr
      <3>2. x \in Clients \X (1..Rounds)
        BY Zenon DEF SetsSent
      <3> QED
        BY <1>1, <2>2, <3>1, <3>2 DEF SetsUnderWay
    <2>3. SetsArrived \subseteq SetsArrived'
      BY <2>1, <2>2, Zenon DEF SetsArrived
    <2> QED
      BY <1>1, <1>2, <2>3, StoreUntouched, Zenon DEF VersionInv
  <1> QED
    BY <1>4, <1>5, <1>6, <1>7, <1>8, <1>9, Zenon DEF Inv

(* A request is over; its KEY_SET, if it is still under way, was given up. *)
LEMMA EndKeepsRequests ==
  ASSUME Inv, NEW c \in Clients, endRequest(c), <<c, pc[c]>> \in socks,
         gaveUp \subseteq gaveUp', replies' = {q \in replies : q.client # c},
         \A r \in inflight : r.client = c /\ r.nr = pc[c] /\ r.cmd = "KEY_SET" =>
           [client |-> c, nr |-> pc[c]] \in gaveUp'
  PROVE  /\ SimpleTypeOK' /\ SocketInv' /\ RequestInv' /\ ReplyInv' /\ StoreInv'
         /\ pc'[c] = pc[c] + 1 /\ \A d \in Clients \ {c} : pc'[d] = pc[d]
  <1>1. /\ pc' = [pc EXCEPT ![c] = @ + 1] /\ socks' = socks \ {<<c, pc[c]>>}
        /\ UNCHANGED <<kvStore_, version>> /\ UNCHANGED <<unanswered, loop>>
        /\ UNCHANGED <<main, signalled, strange>>
    BY Zenon DEF endRequest, reqSock, serverVars, storeVars
  <1>2. inflight' \subseteq inflight
    BY Zenon DEF endRequest
  <1>3. /\ SocketInv /\ RequestInv /\ ReplyInv /\ VersionInv /\ StoreInv /\ SimpleTypeOK
    BY Zenon DEF Inv
  <1>4. \A d \in Clients : pc[d] \in Nat \ {0}
    BY ClientFacts, Zenon
  <1>5. pc'[c] = pc[c] + 1 /\ \A d \in Clients \ {c} : pc'[d] = pc[d]
    BY <1>1, <1>3, Zenon DEF SimpleTypeOK
  <1>6. SimpleTypeOK'
    <2>1. pc[c] \in Nrs
      BY <1>3, <1>4, Zenon DEF SocketInv
    <2>2. pc[c] + 1 \in 1..Len(startRequests) + 1
      BY <2>1, StartRequestsFacts, ExamplesAssumption
    <2>3. pc' \in [Clients -> 1..Len(startRequests) + 1]
      BY <1>1, <1>3, <2>2, Zenon DEF SimpleTypeOK
    <2> QED
      BY <1>1, <1>2, <1>3, <2>3, Zenon DEF SimpleTypeOK
  <1>7. SocketInv'
    <2>1. ASSUME NEW d \in Clients, NEW n \in Nat, <<d, n>> \in socks'
          PROVE  n = 0 \/ (n = pc'[d] /\ n \in Nrs)
      <3>1. <<d, n>> \in socks /\ (d = c => n # pc[c])
        BY <1>1, <2>1, Zenon
      <3> QED
        BY <1>3, <1>5, <3>1, Zenon DEF SocketInv
    <2> QED
      BY <2>1, Zenon DEF SocketInv
  <1>8. RequestInv'
    <2>1. ASSUME NEW r \in inflight
          PROVE  RequestOK(r)'
      <3>1. RequestOK(r) /\ r.nr \in Nat
        BY <1>3, RequestFacts, Zenon DEF RequestInv
      <3>2. CASE r.client = c
        BY <1>4, <1>5, <3>1, <3>2 DEF RequestOK
      <3>3. CASE r.client # c
        <4>1. ASSUME r.client \in Clients, r.nr = pc[r.client]
              PROVE  <<r.client, r.nr>> \in socks'
          BY <1>1, <3>1, <3>3, <4>1, Zenon DEF RequestOK
        <4> QED
          BY <1>5, <3>1, <3>3, <4>1, Zenon DEF RequestOK
      <3> QED
        BY <3>2, <3>3, Zenon
    <2> QED
      BY <1>2, <2>1, Zenon DEF RequestInv
  <1>9. ReplyInv'
    <2>1. ASSUME NEW q \in replies, q.client # c
          PROVE  /\ q.client \in Clients /\ q.sock = q.nr /\ q.nr = pc'[q.client]
                 /\ <<q.client, q.nr>> \in socks'
                 /\ \A r \in inflight' : ~(r.client = q.client /\ r.nr = q.nr)
                 /\ \A p \in replies : p.client = q.client => p = q
      BY <1>1, <1>2, <1>3, <1>5, <2>1, Zenon DEF ReplyInv
    <2> QED
      BY <2>1, Zenon DEF ReplyInv
  <1>10. StoreInv'
    <2>1. ASSUME NEW x \in SetsSent
          PROVE  x \in SetsSent'
      <3>1. /\ x \in Clients \X (1..Rounds)
            /\ \/ SetNr(x[2]) < pc[x[1]]
               \/ SetNr(x[2]) = pc[x[1]] /\ <<x[1], pc[x[1]]>> \in socks
        BY Zenon DEF SetsSent
      <3>2. SetNr(x[2]) \in Nat /\ x[1] \in Clients
        BY <3>1, ExamplesAssumption DEF SetNr
      <3>3. CASE x[1] = c
        <4>1. SetNr(x[2]) < pc'[x[1]]
          BY <1>4, <1>5, <3>1, <3>2, <3>3
        <4> QED
          BY <3>1, <4>1, Zenon DEF SetsSent, SetNr
      <3>4. CASE x[1] # c
        <4>1. pc'[x[1]] = pc[x[1]]
          BY <1>5, <3>2, <3>4, Zenon
        <4>2. <<x[1], pc[x[1]]>> \in socks => <<x[1], pc[x[1]]>> \in socks'
          BY <1>1, <3>4, Zenon
        <4> QED
          BY <3>1, <4>1, <4>2, Zenon DEF SetsSent, SetNr
      <3> QED
        BY <3>3, <3>4, Zenon
    <2>2. SetsUnderWay' \subseteq SetsUnderWay
      BY <1>2, Zenon DEF SetsUnderWay, SetNr
    <2>3. SetsArrived \subseteq SetsArrived'
      BY <2>1, <2>2, Zenon DEF SetsArrived
    <2> QED
      BY <1>1, <1>3, <2>3, StoreUntouched, Zenon DEF VersionInv
  <1> QED
    BY <1>5, <1>6, <1>7, <1>8, <1>9, <1>10, Zenon

(* The reply a client waits for is the only one it can have.               *)
LEMMA ReceiveKeepsInv ==
  ASSUME Inv, NEW c \in Clients, recvReply(c)
  PROVE  Inv'
  <1>1. PICK r \in replies :
          /\ r.client = c /\ r.sock = pc[c] /\ <<c, pc[c]>> \in socks
          /\ last' = [last EXCEPT ![c] = [nr |-> pc[c], reply |-> r]]
          /\ known' = IF startRequests[pc[c]] = "KEY_SET" THEN [known EXCEPT ![c] = r]
                                                          ELSE known
          /\ replies' = replies \ {r}
    BY Zenon DEF recvReply, reqSock
  <1>2. endRequest(c) /\ gaveUp' = gaveUp
    BY Zenon DEF recvReply
  <1>3. UNCHANGED <<kvStore_, version>>
    BY <1>2, Zenon DEF endRequest, serverVars, storeVars
  <1>4. /\ ReplyInv /\ VersionInv /\ HistoryInv /\ ReplyIsForRequest /\ GetFollowsSet
    BY Zenon DEF Inv
  <1>5. r.nr = pc[c] /\ replies' = {q \in replies : q.client # c}
    BY <1>1, <1>4, Zenon DEF ReplyInv
  <1>6. \A s \in inflight : ~(s.client = c /\ s.nr = pc[c])
    BY <1>1, <1>4, <1>5, Zenon DEF ReplyInv
  <1>7. /\ SimpleTypeOK' /\ SocketInv' /\ RequestInv' /\ ReplyInv' /\ StoreInv'
        /\ pc'[c] = pc[c] + 1 /\ \A d \in Clients \ {c} : pc'[d] = pc[d]
    BY <1>1, <1>2, <1>5, <1>6, EndKeepsRequests, Zenon
  <1>8. /\ DOMAIN last = Clients /\ DOMAIN known = Clients
        /\ \A d \in Clients : pc[d] \in Nat \ {0} /\ known[d].nr \in Nat
    BY ClientFacts, <1>4, Zenon DEF HistoryInv
  <1>9. /\ last'[c] = [nr |-> pc[c], reply |-> r]
        /\ known'[c] = IF startRequests[pc[c]] = "KEY_SET" THEN r ELSE known[c]
        /\ \A d \in Clients \ {c} : last'[d] = last[d] /\ known'[d] = known[d]
    BY <1>1, <1>8, Zenon
  <1>10. HistoryInv'
    BY <1>1, <1>3, <1>4, <1>8, Zenon DEF HistoryInv
  <1>11. VersionInv'
    <2>1. ASSUME NEW d \in Clients
          PROVE  /\ known'[d].version \in Nat /\ known'[d].version <= version
                 /\ known'[d].nr \in Nat /\ known'[d].nr < pc'[d]
                 /\ NotBefore(kvStore_, d, known'[d].nr)
      <3>1. CASE d = c /\ startRequests[pc[c]] = "KEY_SET"
        <4>1. /\ known'[d] = r /\ r.nr = pc[d] /\ r.client = d
              /\ r.version \in Nat /\ r.version <= version
              /\ NotBefore(kvStore_, d, r.nr)
          BY <1>1, <1>4, <1>5, <1>9, <3>1, Zenon DEF VersionInv
        <4>2. pc[d] \in Nat /\ pc'[d] = pc[d] + 1 /\ pc[d] < pc[d] + 1
          BY <1>7, <1>8, <3>1
        <4> QED
          BY <4>1, <4>2, Zenon
      <3>2. CASE ~(d = c /\ startRequests[pc[c]] = "KEY_SET")
        <4>1. known'[d] = known[d]
          BY <1>9, <3>2, Zenon
        <4>2. pc[d] \in Nat /\ pc'[d] >= pc[d] /\ pc'[d] \in Nat
          BY <1>7, <1>8
        <4> QED
          BY <1>4, <4>1, <4>2 DEF VersionInv
      <3> QED
        BY <3>1, <3>2, Zenon
    <2>2. ASSUME NEW q \in replies'
          PROVE  /\ q \in replies /\ q.client \in Clients \ {c}
                 /\ known'[q.client] = known[q.client]
      BY <1>4, <1>5, <1>9, Zenon DEF ReplyInv
    <2> QED
      BY <1>2, <1>3, <1>4, <2>1, <2>2, Zenon DEF VersionInv, NotBefore
  <1>12. ReplyIsForRequest'
    BY <1>4, <1>5, <1>9 DEF ReplyIsForRequest
  <1>13. GetFollowsSet'
    <2>1. ASSUME NEW d \in Clients, startRequests[last'[d].nr] = "KEY_GET",
                 last'[d].nr \in Nrs
          PROVE  /\ last'[d].reply.version >= known'[d].version
                 /\ NotBefore(last'[d].reply.value, d, known'[d].nr)
      <3>1. CASE d = c
        <4>1. last'[c].reply = r /\ startRequests[pc[c]] = "KEY_GET"
          BY <1>9, <2>1, <3>1
        <4>2. known'[c] = known[c]
          BY <1>9, <4>1, Zenon
        <4> QED
          BY <1>1, <1>4, <1>5, <3>1, <4>1, <4>2, Zenon DEF VersionInv
      <3>2. CASE d # c
        BY <1>4, <1>9, <2>1, <3>2, Zenon DEF GetFollowsSet, NotBefore
      <3> QED
        BY <3>1, <3>2, Zenon
    <2> QED
      BY <1>2, <2>1, Zenon DEF GetFollowsSet, NotBefore
  <1> QED
    BY <1>7, <1>10, <1>11, <1>12, <1>13, Zenon DEF Inv

(* kReadTimeout passes: a reply that comes later finds no socket.          *)
LEMMA TimeoutKeepsInv ==
  ASSUME Inv, NEW c \in Clients, recvTimeout(c)
  PROVE  Inv'
  <1>1. /\ <<c, pc[c]>> \in socks /\ endRequest(c) /\ UNCHANGED <<last, known>>
        /\ gaveUp' = IF startRequests[pc[c]] = "KEY_SET"
                       THEN gaveUp \cup {[client |-> c, nr |-> pc[c]]} ELSE gaveUp
        /\ replies' = {r \in replies : r.client # c \/ r.sock # pc[c]}
    BY Zenon DEF recvTimeout, reqSock
  <1>2. UNCHANGED <<kvStore_, version>>
    BY <1>1, Zenon DEF endRequest, serverVars, storeVars
  <1>3. /\ ReplyInv /\ VersionInv /\ HistoryInv /\ ReplyIsForRequest /\ GetFollowsSet
        /\ RequestInv
    BY Zenon DEF Inv
  <1>4. replies' = {q \in replies : q.client # c}
    BY <1>1, <1>3, Zenon DEF ReplyInv
  <1>5. gaveUp \subseteq gaveUp'
    BY <1>1, Zenon
  <1>6. \A r \in inflight : r.client = c /\ r.nr = pc[c] /\ r.cmd = "KEY_SET" =>
          [client |-> c, nr |-> pc[c]] \in gaveUp'
    BY <1>1, <1>3, Zenon DEF RequestInv, RequestOK
  <1>7. /\ SimpleTypeOK' /\ SocketInv' /\ RequestInv' /\ ReplyInv' /\ StoreInv'
        /\ pc'[c] = pc[c] + 1 /\ \A d \in Clients \ {c} : pc'[d] = pc[d]
    BY <1>1, <1>4, <1>5, <1>6, EndKeepsRequests, Zenon
  <1>8. \A d \in Clients : pc[d] \in Nat /\ pc'[d] >= pc[d] /\ pc'[d] \in Nat
    BY <1>7, ClientFacts, SMTT(30)
  <1>9. VersionInv'
    <2>1. ASSUME NEW v, NEW d, NEW n, NotBefore(v, d, n)
          PROVE  NotBefore(v, d, n)'
      BY <1>5, <2>1, Zenon DEF NotBefore
    <2>2. ASSUME NEW d \in Clients
          PROVE  known[d].nr \in Nat /\ known[d].nr < pc'[d]
      <3>1. known[d].nr \in Nat /\ known[d].nr < pc[d]
        BY <1>3, Zenon DEF VersionInv
      <3> QED
        BY <1>8, <3>1
    <2> QED
      BY <1>1, <1>2, <1>3, <1>4, <2>1, <2>2, Zenon DEF VersionInv
  <1>10. HistoryInv' /\ ReplyIsForRequest' /\ GetFollowsSet'
    BY <1>1, <1>2, <1>3, <1>5, Zenon DEF HistoryInv, ReplyIsForRequest, GetFollowsSet
  <1> QED
    BY <1>7, <1>9, <1>10, Zenon DEF Inv

(* A Stranger's request has no part in what the clients see.               *)
LEMMA StrangerKeepsInv ==
  ASSUME Inv, NEW k \in StrangeKinds, sendUnreadable(k)
  PROVE  Inv'
  <1> DEFINE r == [client |-> Stranger, sock |-> strange, nr |-> strange, cmd |-> k,
                   ok |-> FALSE]
  <1>1. /\ strange < MaxStrange /\ strange' = strange + 1 /\ inflight' = inflight \cup {r}
        /\ UNCHANGED <<pc, gaveUp, last, known>> /\ UNCHANGED <<socks, replies>>
        /\ UNCHANGED <<kvStore_, version>> /\ UNCHANGED <<unanswered, loop>>
        /\ UNCHANGED <<main, signalled>>
    BY Zenon DEF sendUnreadable, clientVars, storeVars, serverVars
  <1>2. /\ SocketInv /\ RequestInv /\ ReplyInv /\ HistoryInv /\ VersionInv
        /\ StoreInv /\ ReplyIsForRequest /\ GetFollowsSet /\ SimpleTypeOK
    BY Zenon DEF Inv
  <1>3. SimpleTypeOK'
    <2>1. strange \in Nat /\ strange + 1 \in 0..MaxStrange
      <3>1. strange \in 0..MaxStrange
        BY <1>2, Zenon DEF SimpleTypeOK
      <3> QED
        BY <1>1, <3>1, ExamplesAssumption
    <2>2. r \in [client : Clients \cup {Stranger}, sock : Nat, nr : Nat,
                 cmd : Kinds \cup {"KEY_SET", "KEY_GET"}, ok : BOOLEAN]
      BY <2>1, StrangeAssumption, Zenon DEF Unreadable
    <2> HIDE DEF r
    <2> QED
      BY <1>1, <1>2, <2>1, <2>2, Zenon DEF SimpleTypeOK
  <1>4. r.client = Stranger /\ ~r.ok /\ Stranger \notin Clients
    BY ExamplesAssumption, Zenon
  <1> HIDE DEF r
  <1>5. RequestInv'
    <2>1. ASSUME NEW s \in inflight'
          PROVE  RequestOK(s)'
      <3>1. CASE s \in inflight
        BY <1>1, <1>2, <3>1, Zenon DEF RequestInv, RequestOK
      <3>2. CASE s = r
        BY <1>4, <3>2, Zenon DEF RequestOK
      <3> QED
        BY <1>1, <3>1, <3>2, Zenon
    <2> QED
      BY <2>1, Zenon DEF RequestInv
  <1>6. SocketInv' /\ ReplyInv'
    BY <1>1, <1>2, <1>4, Zenon DEF SocketInv, ReplyInv
  <1>7. HistoryInv' /\ VersionInv' /\ ReplyIsForRequest' /\ GetFollowsSet'
    BY <1>1, <1>2, Zenon
       DEF HistoryInv, VersionInv, NotBefore, ReplyIsForRequest, GetFollowsSet
  <1>8. StoreInv'
    <2>1. SetsSent' = SetsSent
      BY <1>1, Zenon DEF SetsSent
    <2>2. SetsUnderWay' = SetsUnderWay
      BY <1>1, <1>4, Zenon DEF SetsUnderWay
    <2>3. SetsArrived' = SetsArrived
      BY <2>1, <2>2, Zenon DEF SetsArrived
    <2> QED
      BY <1>1, <1>2, <2>3, Zenon DEF StoreInv
  <1> QED
    BY <1>3, <1>5, <1>6, <1>7, <1>8, Zenon DEF Inv

(* The server takes a request off its socket.                              *)
LEMMA TakeKeepsRequests ==
  ASSUME Inv, NEW r \in inflight, inflight' = inflight \ {r},
         UNCHANGED <<clientVars, socks>>
  PROVE  /\ SocketInv' /\ RequestInv' /\ SetsArrived \subseteq SetsArrived'
         /\ ReplyIsForRequest' /\ GetFollowsSet'
         /\ UNCHANGED <<pc, gaveUp, last, known>>
  <1>1. UNCHANGED <<pc, gaveUp, last, known>> /\ UNCHANGED socks
    BY Zenon DEF clientVars
  <1>2. SocketInv /\ RequestInv /\ ReplyIsForRequest /\ GetFollowsSet
    BY Zenon DEF Inv
  <1>3. SocketInv' /\ ReplyIsForRequest' /\ GetFollowsSet'
    BY <1>1, <1>2, Zenon DEF SocketInv, ReplyIsForRequest, GetFollowsSet
  <1>4. RequestInv'
    BY <1>1, <1>2, Zenon DEF RequestInv, RequestOK
  <1>5. SetsSent' = SetsSent
    BY <1>1, Zenon DEF SetsSent
  <1>6. SetsUnderWay' \subseteq SetsUnderWay
    BY Zenon DEF SetsUnderWay
  <1> QED
    BY <1>1, <1>3, <1>4, <1>5, <1>6, Zenon DEF SetsArrived

(* ... and leaves it without a reply.                                      *)
LEMMA NoReplyKeepsInv ==
  ASSUME Inv, NEW r \in inflight, inflight' = inflight \ {r},
         UNCHANGED <<clientVars, socks>>, UNCHANGED <<replies, storeVars>>, SimpleTypeOK'
  PROVE  Inv'
  <1>1. /\ SocketInv' /\ RequestInv' /\ SetsArrived \subseteq SetsArrived'
        /\ ReplyIsForRequest' /\ GetFollowsSet'
        /\ UNCHANGED <<pc, gaveUp, last, known>>
    BY TakeKeepsRequests, Zenon
  <1>2. UNCHANGED <<kvStore_, version>> /\ UNCHANGED <<replies, socks>>
    BY Zenon DEF storeVars
  <1>3. ReplyInv /\ HistoryInv /\ VersionInv /\ StoreInv
    BY Zenon DEF Inv
  <1>4. ReplyInv' /\ HistoryInv' /\ VersionInv'
    BY <1>1, <1>2, <1>3, Zenon DEF ReplyInv, HistoryInv, VersionInv, NotBefore
  <1>5. StoreInv'
    BY <1>1, <1>2, <1>3, StoreUntouched, Zenon DEF VersionInv
  <1> QED
    BY <1>1, <1>4, <1>5, Zenon DEF Inv

(* ... or replies, having stored the value of a KEY_SET.                   *)
LEMMA ReplyKeepsInv ==
  ASSUME Inv, NEW r \in inflight, inflight' = inflight \ {r},
         UNCHANGED <<clientVars, socks>>, SimpleTypeOK', r.ok,
         NEW value, reply(r, value), r.cmd = "KEY_GET" => value = kvStore_,
         \/ r.cmd # "KEY_SET" /\ kvStore_' = kvStore_ /\ version' = version
         \/ /\ r.cmd = "KEY_SET" /\ version' = version + 1
            /\ kvStore_' = [client |-> r.client, nr |-> r.nr]
  PROVE  Inv'
  <1> DEFINE c == r.client
             q == [client |-> c, sock |-> r.sock, nr |-> r.nr, value |-> value,
                   version |-> version']
  <1>1. /\ SocketInv' /\ RequestInv' /\ SetsArrived \subseteq SetsArrived'
        /\ ReplyIsForRequest' /\ GetFollowsSet'
        /\ UNCHANGED <<pc, gaveUp, last, known>>
    BY TakeKeepsRequests, Zenon
  <1>2. /\ ReplyInv /\ HistoryInv /\ VersionInv /\ StoreInv /\ SocketInv
        /\ RequestOK(r) /\ socks' = socks
    BY Zenon DEF Inv, RequestInv
  <1>3. /\ c \in Clients /\ r.nr \in Nat
        /\ \A s \in inflight : s.client = c /\ s.nr = r.nr => s = r
    BY RequestFacts, Zenon
  <1>4. /\ r.sock = r.nr /\ r.nr \in Nrs /\ r.cmd = startRequests[r.nr]
        /\ r.nr <= pc[c] /\ (r.nr = pc[c] => <<c, r.nr>> \in socks)
        /\ r.nr < pc[c] /\ r.cmd = "KEY_SET" => [client |-> c, nr |-> r.nr] \in gaveUp
    BY <1>2, <1>3, Zenon DEF RequestOK
  <1>5. /\ pc[c] \in Nat \ {0} /\ r.nr # 0 /\ version \in Nat /\ version' \in Nat
        /\ version <= version' /\ \A d \in Clients : known[d].nr \in Nat /\ pc[d] \in Nat
    <2>1. /\ pc[c] \in Nat \ {0} /\ version \in Nat
          /\ \A d \in Clients : known[d].nr \in Nat /\ pc[d] \in Nat
      BY <1>2, <1>3, ClientFacts, Zenon DEF VersionInv
    <2>2. r.nr # 0
      <3>1. r.nr \in 1..2 * Rounds + 3
        BY <1>4, StartRequestsFacts, Zenon
      <3> QED
        BY <3>1, ExamplesAssumption
    <2>3. version' = version \/ version' = version + 1
      BY Zenon
    <2>4. version' \in Nat /\ version <= version'
      BY <2>1, <2>3
    <2> QED
      BY <2>1, <2>2, <2>4, Zenon
  <1>6. <<c, r.nr>> \in socks => r.nr = pc[c]
    BY <1>2, <1>3, <1>5, Zenon DEF SocketInv
  <1>7. ASSUME NEW p \in replies'
        PROVE  p \in replies \/ (p = q /\ r.nr = pc[c] /\ <<c, r.nr>> \in socks)
    BY <1>4, <1>6, Zenon DEF reply
  <1>8. replies \subseteq replies'
    BY Zenon DEF reply
  <1>9. /\ q.client = c /\ q.sock = r.nr /\ q.nr = r.nr
        /\ q.value = value /\ q.version = version'
    BY <1>4, Zenon
  <1> HIDE DEF q
  <1>10. \A p \in replies : ~(p.client = c /\ p.nr = r.nr)
    BY <1>2, Zenon DEF ReplyInv
  <1>11. \A p \in replies : p.client = c => p.nr = pc[c]
    BY <1>2, Zenon DEF ReplyInv
  <1>12. ReplyInv'
    <2>1. ASSUME NEW p \in replies'
          PROVE  /\ p.client \in Clients /\ p.sock = p.nr /\ p.nr = pc[p.client]
                 /\ <<p.client, p.nr>> \in socks
                 /\ \A s \in inflight' : ~(s.client = p.client /\ s.nr = p.nr)
      <3>1. CASE p \in replies
        BY <1>2, <3>1, Zenon DEF ReplyInv
      <3>2. CASE p = q /\ r.nr = pc[c] /\ <<c, r.nr>> \in socks
        BY <1>3, <1>9, <3>2, Zenon
      <3> QED
        BY <1>7, <3>1, <3>2, Zenon
    <2>2. ASSUME NEW p \in replies', NEW s \in replies', s.client = p.client
          PROVE  s = p
      <3>1. CASE p \in replies /\ s \in replies
        BY <1>2, <2>2, <3>1, Zenon DEF ReplyInv
      <3>2. CASE p \notin replies /\ s \notin replies
        BY <1>7, <3>2, Zenon
      <3>3. CASE p \in replies /\ s \notin replies
        BY <1>7, <1>9, <1>10, <1>11, <2>2, <3>3, Zenon
      <3>4. CASE p \notin replies /\ s \in replies
        BY <1>7, <1>9, <1>10, <1>11, <2>2, <3>4, Zenon
      <3> QED
        BY <3>1, <3>2, <3>3, <3>4, Zenon
    <2> QED
      BY <1>1, <1>2, <2>1, <2>2, Zenon DEF ReplyInv
  <1>13. HistoryInv'
    BY <1>1, <1>2, <1>3, SMTT(30) DEF HistoryInv
  <1>14. VersionInv'
    <2>0. \A k \in Nat : k <= version => k <= version'
      BY <1>5
    <2>1. ASSUME NEW d \in Clients
          PROVE  NotBefore(kvStore_', d, known[d].nr)
      <3>1. CASE r.cmd # "KEY_SET"
        BY <1>2, <3>1, Zenon DEF VersionInv
      <3>2. CASE r.cmd = "KEY_SET" /\ r.nr < pc[c]
        BY <1>4, <3>2, Zenon DEF NotBefore
      <3>3. CASE r.cmd = "KEY_SET" /\ ~(r.nr < pc[c])
        <4>1. r.nr = pc[c] /\ kvStore_' = [client |-> c, nr |-> r.nr]
          BY <1>3, <1>4, <1>5, <3>3, SMTT(30)
        <4>2. known[c].nr < pc[c]
          BY <1>2, <1>3, Zenon DEF VersionInv
        <4>3. d = c => kvStore_'.nr >= known[d].nr
          <5>1. kvStore_'.nr = pc[c]
            BY <4>1, Zenon
          <5>2. pc[c] >= known[c].nr
            <6>1. known[c].nr \in Nat /\ pc[c] \in Nat
              BY <1>3, <1>5, Zenon
            <6> QED
              BY <4>2, <6>1, CountUp, Zenon
          <5> QED
            BY <5>1, <5>2, Zenon
        <4> QED
          BY <4>1, <4>3, Zenon DEF NotBefore
      <3> QED
        BY <3>1, <3>2, <3>3, Zenon
    <2>2. ASSUME NEW p \in replies
          PROVE  /\ p.version \in Nat /\ p.version <= version'
                 /\ known[p.client].version <= p.version
                 /\ startRequests[p.nr] = "KEY_SET" => NotBefore(kvStore_', p.client, p.nr)
                 /\ startRequests[p.nr] = "KEY_GET" =>
                      NotBefore(p.value, p.client, known[p.client].nr)
      <3>1. /\ p.version \in Nat /\ p.version <= version'
            /\ known[p.client].version <= p.version
            /\ startRequests[p.nr] = "KEY_GET" =>
                 NotBefore(p.value, p.client, known[p.client].nr)
        BY <1>2, <2>0, Zenon DEF VersionInv
      <3>2. ASSUME startRequests[p.nr] = "KEY_SET"
            PROVE  NotBefore(kvStore_', p.client, p.nr)
        <4>1. CASE r.cmd # "KEY_SET"
          BY <1>2, <3>2, <4>1, Zenon DEF VersionInv
        <4>2. CASE r.cmd = "KEY_SET" /\ p.client # c
          BY <4>2 DEF NotBefore
        <4>3. CASE r.cmd = "KEY_SET" /\ p.client = c
          <5>1. r.nr < pc[c]
            BY <1>4, <1>5, <1>3, <1>10, <1>11, <4>3, SMTT(30)
          <5> QED
            BY <1>4, <4>3, <5>1, Zenon DEF NotBefore
        <4> QED
          BY <4>1, <4>2, <4>3, Zenon
      <3> QED
        BY <3>1, <3>2, Zenon
    <2>3. ASSUME NEW p, p = q, r.nr = pc[c]
          PROVE  /\ p.version \in Nat /\ p.version <= version'
                 /\ known[p.client].version <= p.version
                 /\ startRequests[p.nr] = "KEY_SET" => NotBefore(kvStore_', p.client, p.nr)
                 /\ startRequests[p.nr] = "KEY_GET" =>
                      NotBefore(p.value, p.client, known[p.client].nr)
      <3>1. /\ known[c].version \in Nat /\ known[c].version <= version
            /\ NotBefore(kvStore_, c, known[c].nr)
        BY <1>2, <1>3, Zenon DEF VersionInv
      <3>2. known[c].version <= version'
        <4>1. version \in Nat /\ version' \in Nat /\ version <= version'
          BY <1>5, Zenon
        <4>2. known[c].version \in Nat /\ known[c].version <= version
          BY <3>1, Zenon
        <4> QED
          BY <4>1, <4>2
      <3>3. r.cmd = "KEY_SET" => NotBefore(kvStore_', c, r.nr)
        BY <1>3, SMTT(30) DEF NotBefore
      <3>4. version' \in Nat /\ version' <= version'
        BY <1>5
      <3>5. r.cmd = "KEY_GET" => value = kvStore_
        BY Zenon
      <3> QED
        BY <1>4, <1>9, <2>3, <3>1, <3>2, <3>3, <3>4, <3>5, Zenon
    <2>4. \A d \in Clients : /\ known[d].version \in Nat /\ known[d].version <= version'
                              /\ known[d].nr \in Nat /\ known[d].nr < pc[d]
      <3>1. \A d \in Clients : /\ known[d].version \in Nat /\ known[d].version <= version
                                /\ known[d].nr \in Nat /\ known[d].nr < pc[d]
        BY <1>2, Zenon DEF VersionInv
      <3> QED
        BY <2>0, <3>1, Zenon
    <2>5. ASSUME NEW p \in replies'
          PROVE  /\ p.version \in Nat /\ p.version <= version'
                 /\ known[p.client].version <= p.version
                 /\ startRequests[p.nr] = "KEY_SET" => NotBefore(kvStore_', p.client, p.nr)
                 /\ startRequests[p.nr] = "KEY_GET" =>
                      NotBefore(p.value, p.client, known[p.client].nr)
      BY <1>7, <2>2, <2>3, Zenon
    <2> QED
      BY <1>1, <1>5, <2>1, <2>4, <2>5, Zenon DEF VersionInv, NotBefore
  <1>15. StoreInv'
    <2>1. CASE r.cmd # "KEY_SET"
      BY <1>1, <1>2, <1>5, <2>1, StoreUntouched, Zenon
    <2>2. CASE r.cmd = "KEY_SET"
      <3>1. PICK j \in 1..Rounds : r.nr = SetNr(j)
        BY <1>4, <2>2, StartRequestsFacts, Zenon
      <3> DEFINE x == <<c, j>>
                 A == SetsArrived
                 B == SetsArrived'
      <3>2. x \in SetsSent /\ x \in SetsUnderWay
        BY <1>3, <1>4, <1>5, <3>1 DEF SetsSent, SetsUnderWay
      <3>3. x \in SetsSent' /\ x \notin SetsUnderWay'
        <4>1. x \in SetsSent'
          BY <1>1, <1>2, <3>2, Zenon DEF SetsSent
        <4>2. x \notin SetsUnderWay'
          BY <1>3, <3>1, Zenon DEF SetsUnderWay
        <4> QED
          BY <4>1, <4>2, Zenon
      <3>4. x \notin A /\ A \cup {x} \subseteq B
        BY <1>1, <3>2, <3>3, Zenon DEF SetsArrived
      <3>5. A \in SUBSET (Clients \X (1..Rounds)) /\ B \in SUBSET (Clients \X (1..Rounds))
        BY Zenon DEF SetsArrived, SetsSent
      <3>6. version <= Cardinality(A)
        BY <1>2, Zenon DEF StoreInv
      <3> HIDE DEF x, A, B
      <3>7. /\ IsFiniteSet(A) /\ IsFiniteSet(B)
            /\ Cardinality(A) \in Nat /\ Cardinality(B) \in Nat
        BY <3>5, SetsAreFinite, Zenon
      <3>8. Cardinality(A \cup {x}) = Cardinality(A) + 1
        BY <3>4, <3>7, FS_AddElement, Zenon
      <3>9. Cardinality(A \cup {x}) <= Cardinality(B)
        BY <3>4, <3>7, FS_Subset, Zenon
      <3>10. version' <= Cardinality(B)
        <4>1. version' = version + 1 /\ version \in Nat
          BY <1>5, <2>2, Zenon
        <4> QED
          BY <3>6, <3>7, <3>8, <3>9, <4>1, CountUp, Zenon
      <3> QED
        BY <3>10, Zenon DEF StoreInv, B
    <2> QED
      BY <2>1, <2>2, Zenon
  <1> QED
    BY <1>1, <1>12, <1>13, <1>14, <1>15, Zenon DEF Inv

(* What the server's handlers do with the request they take.               *)
LEMMA ProcessKeepsInv ==
  ASSUME Inv, Process
  PROVE  Inv'
  <1>1. SimpleTypeOK
    BY Zenon DEF Inv
  <1>2. ASSUME NEW k, NEW r, receive(k, r)
        PROVE  /\ r \in inflight /\ inflight' = inflight \ {r} /\ kind(r.cmd) = k
               /\ UNCHANGED <<clientVars, socks>>
               /\ UNCHANGED <<pc, loop, signalled, strange>>
    BY <1>2, Zenon DEF receive, clientVars
  <1>3. ASSUME NEW k \in Kinds, NEW r, receive(k, r),
               main' = main \/ main' = "aborted",
               unanswered' = unanswered \/ unanswered' = unanswered \cup {k}
        PROVE  SimpleTypeOK'
    BY <1>1, <1>2, <1>3, Zenon DEF SimpleTypeOK
  <1>4. ASSUME NEW k \in Kinds, NEW r, receive(k, r), noReply(k), main' = main
        PROVE  Inv'
    <2>1. SimpleTypeOK' /\ UNCHANGED <<replies, storeVars>>
      BY <1>3, <1>4, Zenon DEF noReply
    <2> QED
      BY <1>2, <1>4, <2>1, NoReplyKeepsInv, Zenon
  <1>5. ASSUME NEW k \in Kinds, NEW r, abort(k, r)
        PROVE  Inv'
    <2>1. /\ receive(k, r) /\ main' = "aborted"
          /\ UNCHANGED <<replies, storeVars>> /\ unanswered' = unanswered
      BY <1>5, Zenon DEF abort
    <2>2. SimpleTypeOK'
      BY <1>3, <2>1, Zenon
    <2> QED
      BY <1>2, <2>1, <2>2, NoReplyKeepsInv, Zenon
  <1>6. ASSUME NEW k \in {"primitive", "string", "multiple"}, NEW r, answer(k, r)
        PROVE  Inv'
    <2>1. receive(k, r) /\ main' = main /\ k \in Kinds
      BY <1>6, Zenon DEF answer, Kinds
    <2>2. CASE r.ok
      <3>1. UNCHANGED <<kvStore_, version>> /\ unanswered' = unanswered /\ reply(r, None)
        BY <1>6, <2>2, Zenon DEF answer, storeVars
      <3>2. SimpleTypeOK'
        BY <1>3, <2>1, <3>1, Zenon
      <3>3. r.cmd # "KEY_SET" /\ r.cmd # "KEY_GET"
        BY <1>2, <2>1, Zenon DEF kind
      <3> QED
        BY <1>2, <2>1, <2>2, <3>1, <3>2, <3>3, ReplyKeepsInv, Zenon
    <2>3. CASE ~r.ok
      BY <1>4, <1>6, <2>1, <2>3, Zenon DEF answer
    <2> QED
      BY <2>2, <2>3, Zenon
  <1>7. CASE processThriftCommand
    <2>1. PICK r \in inflight :
            \/ /\ receive("thrift", r) /\ UNCHANGED main
               /\ IF ~r.ok THEN noReply("thrift")
                  ELSE /\ IF r.cmd = "KEY_SET"
                            THEN /\ kvStore_' = [client |-> r.client, nr |-> r.nr]
                                 /\ version' = version + 1
                            ELSE UNCHANGED storeVars
                       /\ reply(r, IF r.cmd = "KEY_SET" THEN None ELSE kvStore_)
                       /\ UNCHANGED unanswered
            \/ abort("thrift", r)
      BY <1>7, Zenon DEF processThriftCommand
    <2>2. "thrift" \in Kinds
      BY Zenon DEF Kinds
    <2>3. CASE abort("thrift", r)
      BY <1>5, <2>2, <2>3, Zenon
    <2>4. CASE receive("thrift", r) /\ UNCHANGED main /\ ~r.ok /\ noReply("thrift")
      BY <1>4, <2>2, <2>4, Zenon
    <2>5. CASE /\ receive("thrift", r) /\ UNCHANGED main /\ r.ok
               /\ IF r.cmd = "KEY_SET"
                    THEN /\ kvStore_' = [client |-> r.client, nr |-> r.nr]
                         /\ version' = version + 1
                    ELSE UNCHANGED storeVars
               /\ reply(r, IF r.cmd = "KEY_SET" THEN None ELSE kvStore_)
               /\ UNCHANGED unanswered
      <3> DEFINE value == IF r.cmd = "KEY_SET" THEN None ELSE kvStore_
      <3>1. SimpleTypeOK'
        BY <1>3, <2>2, <2>5, Zenon
      <3>2. \/ r.cmd # "KEY_SET" /\ kvStore_' = kvStore_ /\ version' = version
            \/ /\ r.cmd = "KEY_SET" /\ version' = version + 1
               /\ kvStore_' = [client |-> r.client, nr |-> r.nr]
        BY <2>5, Zenon DEF storeVars
      <3>3. reply(r, value) /\ (r.cmd = "KEY_GET" => value = kvStore_)
        BY <2>5, Zenon
      <3> HIDE DEF value
      <3>4. /\ inflight' = inflight \ {r} /\ UNCHANGED <<clientVars, socks>> /\ r.ok
        BY <1>2, <2>5, Zenon
      <3> QED
        BY <3>1, <3>2, <3>3, <3>4, ReplyKeepsInv, Zenon
    <2> QED
      BY <2>1, <2>3, <2>4, <2>5, Zenon
  <1> QED
    BY <1>5, <1>6, <1>7, Zenon
       DEF Process, processPrimitiveCommand, processStringCommand, processMultipleCommand,
           Kinds

(* ... and every step of a client, the server or its main() keeps it.      *)
LEMMA StepInv ==
  Inv /\ [Next]_vars => Inv'
  <1> SUFFICES ASSUME Inv, [Next]_vars
               PROVE  Inv'
    BY Zenon
  <1>1. SimpleTypeOK
    BY Zenon DEF Inv
  <1>2. ASSUME UNCHANGED <<clientVars, inflight, replies, storeVars>>,
               UNCHANGED <<pc, inflight, unanswered, strange>>,
               main' \in {main, "mainLoop", "stopping", "returned"},
               loop' \in {loop, "running", "stopped"}, signalled' \in {signalled, TRUE},
               \A c \in Clients : \A n \in Nat \ {0} :
                 <<c, n>> \in socks' <=> <<c, n>> \in socks
        PROVE  Inv'
    <2>1. SimpleTypeOK'
      BY <1>1, <1>2, Zenon DEF SimpleTypeOK
    <2> QED
      BY <1>2, <2>1, AsideKeepsInv, Zenon
  <1>3. ASSUME NEW c \in Clients, ClientStep(c)
        PROVE  Inv'
    <2>1. ASSUME NEW cmd, sendRequest(c, cmd)
          PROVE  Inv'
      BY <2>1, SendKeepsInv, Zenon
    <2>2. CASE recvReply(c)
      BY <2>2, ReceiveKeepsInv, Zenon
    <2>3. CASE recvTimeout(c)
      BY <2>3, TimeoutKeepsInv, Zenon
    <2>4. CASE destroyClient(c)
      BY <1>2, <2>4, Zenon DEF destroyClient, clientVars, serverVars
    <2>5. CASE destroyContext(c)
      BY <1>2, <2>5, Zenon DEF destroyContext, clientVars, serverVars
    <2> QED
      BY <1>3, <2>1, <2>2, <2>3, <2>4, <2>5, Zenon
         DEF ClientStep, makePrimitiveRequest, makeStringRequest, makeMultipleRequest,
             setKeyValue, getKey
  <1>4. ASSUME NEW k \in StrangeKinds, sendUnreadable(k)
        PROVE  Inv'
    BY <1>4, StrangerKeepsInv, Zenon
  <1>5. CASE Process
    BY <1>5, ProcessKeepsInv, Zenon
  <1>6. CASE ServerStep
    <2>1. CASE prepare
      BY <1>2, <2>1, ExamplesAssumption, Zenon DEF prepare, clientVars, serverVars
    <2>2. CASE serverThread
      BY <1>2, <2>2, Zenon DEF serverThread, clientVars
    <2>3. CASE mainStep
      BY <1>2, <2>3, Zenon DEF mainStep, clientVars, serverVars
    <2>4. CASE serverStops
      BY <1>2, <2>4, Zenon DEF serverStops, clientVars
    <2>5. CASE destroyServer
      <3>1. \A c \in Clients : \A n \in Nat \ {0} :
              <<c, n>> \in socks' <=> <<c, n>> \in socks
        BY <2>5, ExamplesAssumption, Zenon DEF destroyServer
      <3> QED
        BY <1>2, <2>5, <3>1, Zenon DEF destroyServer, clientVars, serverVars
    <2> QED
      BY <1>6, <2>1, <2>2, <2>3, <2>4, <2>5, Zenon DEF ServerStep
  <1>7. CASE signal
    BY <1>2, <1>7, Zenon DEF signal, clientVars, serverVars
  <1>8. CASE UNCHANGED vars
    BY <1>2, <1>8, Zenon DEF vars, clientVars, serverVars
  <1> QED
    BY <1>3, <1>4, <1>5, <1>6, <1>7, <1>8, Zenon DEF Next

(* The inductive invariant of the example programs.                        *)
THEOREM Invariance == Spec => []Inv
  BY InitInv, StepInv, PTL DEF Spec

(* Stages and requests under way keep their types; the store changes at    *)
(* most once for each KEY_SET, also when clients give up and requests      *)
(* arrive late.                                                            *)
THEOREM TypeCorrect == Spec => []TypeOK
  <1>1. Inv => TypeOK
    <2> SUFFICES ASSUME Inv
                 PROVE  TypeOK
      BY Zenon
    <2>1. SimpleTypeOK /\ version \in Nat /\ version <= Cardinality(SetsArrived)
      BY Zenon DEF Inv, VersionInv, StoreInv
    <2>2. /\ Cardinality(SetsArrived) \in Nat
          /\ Cardinality(SetsArrived) <= Rounds * Cardinality(Clients)
      BY SetsAreFinite, Zenon DEF SetsArrived, SetsSent
    <2>3. Rounds * Cardinality(Clients) \in Nat
      BY ExamplesAssumption, FS_CardinalityType
    <2>4. version \in 0..Rounds * Cardinality(Clients)
      BY <2>1, <2>2, <2>3
    <2> QED
      BY <2>1, <2>4, Zenon DEF SimpleTypeOK, TypeOK
  <1> QED
    BY <1>1, Invariance, PTL

(* The reply that recvOne() or recvThriftObj() of the client returns is to *)
(* the request just sent, for any number of clients and of rounds.         *)
THEOREM ReplyToOwnRequest == Spec => []ReplyIsForRequest
  <1>1. Inv => ReplyIsForRequest
    BY Zenon DEF Inv
  <1> QED
    BY <1>1, Invariance, PTL

(* getKey() returns a value not older than what the client knows to be     *)
(* set, and of its own values the last but for those it gave up.           *)
THEOREM GetSeesSet == Spec => []GetFollowsSet
  <1>1. Inv => GetFollowsSet
    BY Zenon DEF Inv
  <1> QED
    BY <1>1, Invariance, PTL
-------------------------------------------------------------------------------
(* Progress of the server, up to the end of its main().                    *)

(* The stages of main() of the server, from its start to its end.          *)
ServerAt(n) ==
  /\ n \in 2..8 <=> Server \in contexts
  /\ n \in 2..7 <=> \E s \in socks : s[1] = Server
  /\ \/ n \in {1, 2} /\ main = "setup" /\ loop = "idle"
     \/ n = 3 /\ main = "setup" /\ loop = "running"
     \/ n = 4 /\ main = "mainLoop" /\ loop = "running"
     \/ n = 5 /\ main = "stopping" /\ loop = "running"
     \/ n = 6 /\ main = "stopping" /\ loop = "stopped"
     \/ n \in {7, 8, 9} /\ main = "returned" /\ loop = "stopped"

(* The server is at one of them, or was aborted.                           *)
StageInv == main = "aborted" \/ \E n \in 1..9 : ServerAt(n)

(* After a signal the server's process always has a step to take.          *)
ServerCanStep ==
  signalled /\ main # "aborted" /\ ~ServerAt(9) =>
    ENABLED <<ServerStep>>_<<main, loop, socks, contexts>>

(* The steps of the clients, of the Stranger and of the handlers leave the *)
(* server where it is, or abort it.                                        *)
LEMMA OthersKeepStage ==
  ASSUME NEW n \in 1..9, ServerAt(n), Next, ~ServerStep
  PROVE  /\ ServerAt(n)' \/ main' = "aborted"
         /\ signalled => signalled'
  <1>1. CASE \E c \in Clients : ClientStep(c)
    <2> PICK c \in Clients : ClientStep(c)
      BY <1>1, Zenon
    <2>1. c # Server
      BY ExamplesAssumption, Zenon
    <2>2. /\ UNCHANGED <<main, loop, signalled>>
          /\ contexts' = contexts \/ contexts' = contexts \ {c}
          /\ \/ socks' = socks
             \/ socks' = socks \cup {<<c, reqSock(c)>>}
             \/ socks' = socks \ {<<c, reqSock(c)>>}
             \/ socks' = socks \ {<<c, 0>>}
      BY Zenon DEF ClientStep, recvTimeout, recvReply, endRequest, sendRequest,
           makePrimitiveRequest, makeStringRequest, makeMultipleRequest, setKeyValue,
           getKey, destroyClient, destroyContext, serverVars
    <2>3. Server \in contexts' <=> Server \in contexts
      BY <2>1, <2>2, Zenon
    <2>4. (\E s \in socks' : s[1] = Server) <=> \E s \in socks : s[1] = Server
      BY <2>1, <2>2
    <2> QED
      BY <2>2, <2>3, <2>4, Zenon DEF ServerAt
  <1>2. CASE Process
    <2>1. /\ UNCHANGED <<loop, socks, contexts, signalled>>
          /\ main' = main \/ main' = "aborted"
      BY <1>2, Zenon DEF Process, processPrimitiveCommand, processStringCommand,
           processMultipleCommand, processThriftCommand, answer, abort, receive
    <2> QED
      BY <2>1, Zenon DEF ServerAt
  <1>3. CASE (\E k \in StrangeKinds : sendUnreadable(k)) \/ signal
    <2>1. UNCHANGED <<main, loop, socks, contexts>> /\ (signalled => signalled')
      BY <1>3 DEF sendUnreadable, signal, serverVars
    <2> QED
      BY <2>1, Zenon DEF ServerAt
  <1> QED
    BY <1>1, <1>2, <1>3, Zenon DEF Next

(* A step of the server's process takes it to the next stage, and is the   *)
(* last one at the end.                                                    *)
LEMMA ServerStepAdvances ==
  ASSUME NEW n \in 1..9, ServerAt(n), ServerStep
  PROVE  n # 9 /\ ServerAt(n + 1)' /\ signalled' = signalled
  <1>1. signalled' = signalled
    BY Zenon DEF ServerStep, prepare, serverThread, mainStep, serverStops, destroyServer
  <1>2. CASE prepare
    <2>1. n = 1
      BY <1>2, SMTT(30) DEF ServerAt, prepare
    <2>2. <<Server, 1>> \in socks' /\ <<Server, 1>>[1] = Server
      BY <1>2 DEF prepare
    <2>3. Server \in contexts' /\ UNCHANGED <<main, loop>>
      BY <1>2, Zenon DEF prepare, serverVars
    <2> QED
      BY <1>1, <2>1, <2>2, <2>3 DEF ServerAt
  <1>3. CASE serverThread
    <2>1. n = 2
      BY <1>3, SMTT(30) DEF ServerAt, serverThread
    <2> QED
      BY <1>1, <1>3, <2>1 DEF ServerAt, serverThread
  <1>4. CASE mainStep
    <2>1. /\ \/ main = "setup" /\ loop = "running" /\ main' = "mainLoop"
             \/ main = "mainLoop" /\ main' = "stopping"
             \/ main = "stopping" /\ loop = "stopped" /\ main' = "returned"
          /\ UNCHANGED <<socks, contexts, loop>>
      BY <1>4, Zenon DEF mainStep, serverVars
    <2>2. n \in {3, 4, 6}
      BY <2>1, Zenon DEF ServerAt
    <2>3. CASE n = 3
      BY <1>1, <2>1, <2>3 DEF ServerAt
    <2>4. CASE n = 4
      BY <1>1, <2>1, <2>4 DEF ServerAt
    <2>5. CASE n = 6
      BY <1>1, <2>1, <2>5 DEF ServerAt
    <2> QED
      BY <2>2, <2>3, <2>4, <2>5, Zenon
  <1>5. CASE serverStops
    <2>1. n = 5
      BY <1>5, Zenon DEF ServerAt, serverStops
    <2> QED
      BY <1>1, <1>5, <2>1 DEF ServerAt, serverStops
  <1>6. CASE destroyServer
    <2>1. n \in {7, 8, 9}
      BY <1>6, Zenon DEF ServerAt, destroyServer
    <2> QED
      BY <1>1, <1>6, <2>1 DEF ServerAt, destroyServer, serverVars
  <1> QED
    BY <1>2, <1>3, <1>4, <1>5, <1>6, Zenon DEF ServerStep

(* The server is where one of the stages says, whatever the clients do.    *)
LEMMA StageInvariance == Spec => []StageInv
  <1>1. Init => StageInv
    <2> SUFFICES ASSUME Init
                 PROVE  StageInv
      BY Zenon
    <2>1. /\ main = "setup" /\ loop = "idle" /\ Server \notin contexts
          /\ ~\E s \in socks : s[1] = Server
      BY ExamplesAssumption DEF Init
    <2>2. ServerAt(1)
      BY <2>1 DEF ServerAt
    <2> QED
      BY <2>2 DEF StageInv
  <1>2. StageInv /\ [Next]_vars => StageInv'
    <2> SUFFICES ASSUME StageInv, [Next]_vars
                 PROVE  StageInv'
      BY Zenon
    <2>1. CASE UNCHANGED vars
      <3>1. UNCHANGED <<main, loop, socks, contexts>>
        BY <2>1, Zenon DEF vars, serverVars
      <3> QED
        BY <3>1, Zenon DEF StageInv, ServerAt
    <2>2. ASSUME main = "aborted", Next
          PROVE  main' = "aborted"
      <3>1. CASE ServerStep
        BY <2>2, <3>1, Zenon
        DEF ServerStep, prepare, serverThread, mainStep, serverStops, destroyServer
      <3>2. CASE Process
        BY <2>2, <3>2, Zenon DEF Process, processPrimitiveCommand, processStringCommand,
             processMultipleCommand, processThriftCommand, answer, abort, receive
      <3>3. CASE \E c \in Clients : ClientStep(c)
        BY <2>2, <3>3, Zenon
        DEF ClientStep, recvTimeout, recvReply, endRequest, sendRequest,
           makePrimitiveRequest, makeStringRequest, makeMultipleRequest, setKeyValue,
           getKey, destroyClient, destroyContext
      <3>4. CASE (\E k \in StrangeKinds : sendUnreadable(k)) \/ signal
        BY <2>2, <3>4, Zenon DEF sendUnreadable, signal
      <3> QED
        BY <2>2, <3>1, <3>2, <3>3, <3>4, Zenon DEF Next
    <2>3. ASSUME NEW n \in 1..9, ServerAt(n), Next
          PROVE  StageInv'
      <3>1. CASE ServerStep
        <4>1. n # 9 /\ ServerAt(n + 1)'
          BY <2>3, <3>1, ServerStepAdvances, Zenon
        <4> QED
          BY <4>1 DEF StageInv
      <3>2. CASE ~ServerStep
        <4>1. ServerAt(n)' \/ main' = "aborted"
          BY <2>3, <3>2, OthersKeepStage, Zenon
        <4> QED
          BY <4>1, Zenon DEF StageInv
      <3> QED
        BY <3>1, <3>2, Zenon
    <2> QED
      BY <2>1, <2>2, <2>3, Zenon DEF StageInv
  <1> QED
    BY <1>1, <1>2, PTL DEF Spec

(* After a signal the server goes on from its n-th stage to its m-th.      *)
AdvancesTo(n, m) ==
  /\ signalled /\ ServerAt(n) /\ [Next]_vars =>
       \/ (signalled /\ ServerAt(n))' \/ (signalled /\ ServerAt(m))'
       \/ (main = "aborted")'
  /\ signalled /\ ServerAt(n) /\ <<ServerStep>>_<<main, loop, socks, contexts>> =>
       (signalled /\ ServerAt(m))'
  /\ signalled /\ ServerAt(n) /\ ServerCanStep =>
       ENABLED <<ServerStep>>_<<main, loop, socks, contexts>>

LEMMA StageAdvances ==
  ASSUME NEW n \in 1..8, NEW m, m = n + 1
  PROVE  AdvancesTo(n, m)
  <1>0. n \in 1..9 /\ (ServerAt(n + 1)' => ServerAt(m)')
    OBVIOUS
  <1>1. ASSUME signalled, ServerAt(n), [Next]_vars
        PROVE  \/ (signalled /\ ServerAt(n))' \/ (signalled /\ ServerAt(m))'
               \/ (main = "aborted")'
    <2>1. CASE UNCHANGED vars
      <3>1. UNCHANGED <<main, loop, socks, contexts, signalled>>
        BY <2>1, Zenon DEF vars, serverVars
      <3> QED
        BY <1>1, <3>1, Zenon DEF ServerAt
    <2>2. CASE Next /\ ServerStep
      <3>1. ServerAt(m)' /\ signalled' = signalled
        BY <1>0, <1>1, <2>2, ServerStepAdvances, Zenon
      <3> QED
        BY <1>1, <3>1, Zenon
    <2>3. CASE Next /\ ~ServerStep
      BY <1>1, <2>3, OthersKeepStage
    <2> QED
      BY <1>1, <2>1, <2>2, <2>3, Zenon
  <1>2. ASSUME signalled, ServerAt(n), ServerStep
        PROVE  (signalled /\ ServerAt(m))'
    <2>1. ServerAt(m)' /\ signalled' = signalled
      BY <1>0, <1>2, ServerStepAdvances, Zenon
    <2> QED
      BY <1>2, <2>1, Zenon
  <1>3. ServerAt(n) => main # "aborted" /\ ~ServerAt(9)
    BY DEF ServerAt
  <1> QED
    BY <1>1, <1>2, <1>3, Zenon DEF AdvancesTo, ServerCanStep

(* A signal, whenever it comes, ends the server, for any number of clients *)
(* and whatever they send, if its process goes on while it can.            *)
THEOREM SignalledServerEnds == FairSpec /\ []ServerCanStep => SignalEndsServer
  <1>1. AdvancesTo(1, 2) /\ AdvancesTo(2, 3) /\ AdvancesTo(3, 4) /\ AdvancesTo(4, 5)
    BY StageAdvances
  <1>2. AdvancesTo(5, 6) /\ AdvancesTo(6, 7) /\ AdvancesTo(7, 8) /\ AdvancesTo(8, 9)
    BY StageAdvances
  <1>3. StageInv =>
          \/ main = "aborted" \/ ServerAt(1) \/ ServerAt(2) \/ ServerAt(3) \/ ServerAt(4)
          \/ ServerAt(5) \/ ServerAt(6) \/ ServerAt(7) \/ ServerAt(8) \/ ServerAt(9)
    BY DEF StageInv
  <1>4. ServerAt(9) => main = "returned" /\ loop = "stopped" /\ Server \notin contexts
    BY DEF ServerAt
  <1> QED
    BY <1>1, <1>2, <1>3, <1>4, StageInvariance, PTL
       DEF AdvancesTo, FairSpec, ServerFair, Spec, SignalEndsServer
-------------------------------------------------------------------------------
(* Progress of the clients, from each request to the next.                 *)

PcOK == pc \in [Clients -> 1..Len(startRequests) + 1]

(* The process of a client always has a step to take before it ends.       *)
ClientCanStep(c) ==
  c \in contexts => ENABLED <<ClientStep(c)>>_<<pc, socks, contexts>>
ClientsCanStep == \A c \in Clients : ClientCanStep(c)

(* A client keeps its Context until its requests are done.                 *)
ContextInv == \A c \in Clients : pc[c] \in Nrs => c \in contexts

(* The stages of a client: its n-th request is to be sent or waits, or all *)
(* are done and the socket that is left is to be closed, then the Context. *)
Sends(c, n) == pc[c] = n /\ <<c, n>> \notin socks /\ c \in contexts
Waits(c, n) == pc[c] = n /\ <<c, n>> \in socks /\ c \in contexts
Leaves(c) == pc[c] \notin Nrs /\ <<c, 0>> \in socks /\ c \in contexts
Left(c) == pc[c] \notin Nrs /\ <<c, 0>> \notin socks /\ c \in contexts

LEMMA PcInv == Spec => [](PcOK /\ SocketInv)
  <1>1. Inv => PcOK /\ SocketInv
    BY Zenon DEF Inv, SimpleTypeOK, PcOK
  <1> QED
    BY <1>1, Invariance, PTL

(* Nobody else moves a client.                                             *)
LEMMA OthersLeaveClient ==
  ASSUME PcOK, NEW c \in Clients, [Next]_vars, ~ClientStep(c)
  PROVE  /\ pc'[c] = pc[c] /\ (c \in contexts' <=> c \in contexts)
         /\ \A k : <<c, k>> \in socks' <=> <<c, k>> \in socks
  <1>1. CASE \E d \in Clients : ClientStep(d)
    <2> PICK d \in Clients : ClientStep(d)
      BY <1>1, Zenon
    <2>1. c # d
      BY Zenon
    <2> QED
      BY <2>1, Zenon DEF PcOK, ClientStep, recvTimeout, recvReply, endRequest, sendRequest,
           makePrimitiveRequest, makeStringRequest, makeMultipleRequest, setKeyValue,
           getKey, destroyClient, destroyContext, clientVars
  <1>2. CASE Process
    BY <1>2, Zenon DEF Process, processPrimitiveCommand, processStringCommand,
         processMultipleCommand, processThriftCommand, answer, abort, receive, clientVars
  <1>3. CASE (\E k \in StrangeKinds : sendUnreadable(k)) \/ signal
    BY <1>3, Zenon DEF sendUnreadable, signal, clientVars
  <1>4. CASE ServerStep
    <2>1. c # Server
      BY ExamplesAssumption, Zenon
    <2> QED
      BY <1>4, <2>1, Zenon DEF ServerStep, prepare, serverThread, mainStep, serverStops,
           destroyServer, clientVars
  <1>5. CASE UNCHANGED vars
    BY <1>5, Zenon DEF vars, clientVars
  <1> QED
    BY <1>1, <1>2, <1>3, <1>4, <1>5, Zenon DEF Next

(* A step of the client is the next one of its program.                    *)
LEMMA ClientStepAdvances ==
  ASSUME PcOK, SocketInv, NEW c \in Clients, ClientStep(c)
  PROVE  /\ \A n \in Nrs : Sends(c, n) => Waits(c, n)'
         /\ \A n \in Nrs : Waits(c, n) => pc'[c] = n + 1
         /\ Leaves(c) => Left(c)'
         /\ Left(c) => c \notin contexts'
         /\ pc[c] \in Nrs => c \in contexts' \/ c \notin contexts
         /\ pc[c] \notin Nrs => pc'[c] = pc[c]
  <1>1. Nrs = 1..2 * Rounds + 3 /\ Rounds \in Nat /\ pc[c] \in Nat
    BY StartRequestsFacts, ExamplesAssumption, SMTT(30) DEF PcOK
  <1>2. ASSUME NEW cmd, sendRequest(c, cmd)
        PROVE  /\ pc[c] \in Nrs /\ <<c, pc[c]>> \notin socks
               /\ pc' = pc /\ contexts' = contexts /\ socks' = socks \cup {<<c, pc[c]>>}
    BY <1>2, Zenon DEF sendRequest, reqSock, clientVars
  <1>3. ASSUME endRequest(c), <<c, pc[c]>> \in socks
        PROVE  /\ <<c, pc[c]>> \in socks /\ contexts' = contexts
               /\ pc'[c] = pc[c] + 1 /\ socks' = socks \ {<<c, pc[c]>>}
    BY <1>3, Zenon DEF endRequest, reqSock, PcOK
  <1>4. CASE \E cmd : sendRequest(c, cmd)
    BY <1>1, <1>2, <1>4, Zenon DEF Sends, Waits, Leaves, Left
  <1>5. CASE recvTimeout(c) \/ recvReply(c)
    <2>1. endRequest(c) /\ <<c, pc[c]>> \in socks
      BY <1>5, Zenon DEF recvTimeout, recvReply, reqSock
    <2>2. pc[c] \in Nrs
      BY <1>1, <2>1 DEF SocketInv, PcOK
    <2> QED
      BY <1>1, <1>3, <2>1, <2>2, Zenon DEF Sends, Waits, Leaves, Left
  <1>6. CASE destroyClient(c)
    BY <1>1, <1>6, Zenon DEF Sends, Waits, Leaves, Left, destroyClient, clientVars
  <1>7. CASE destroyContext(c)
    <2>1. pc[c] \notin Nrs /\ pc' = pc /\ contexts' = contexts \ {c}
          /\ socks' = socks /\ <<c, 0>> \notin socks
      BY <1>7, Zenon DEF destroyContext, clientVars
    <2> QED
      BY <1>1, <2>1, Zenon DEF Sends, Waits, Leaves, Left
  <1> QED
    BY <1>4, <1>5, <1>6, <1>7, Zenon
       DEF ClientStep, makePrimitiveRequest, makeStringRequest, makeMultipleRequest,
           setKeyValue, getKey

(* A client that has requests left has its Context.                        *)
LEMMA ContextInvariance == Spec => []ContextInv
  <1>1. Init => ContextInv
    BY Zenon DEF Init, ContextInv
  <1>2. ContextInv /\ PcOK /\ SocketInv /\ [Next]_vars => ContextInv'
    <2> SUFFICES ASSUME ContextInv, PcOK, SocketInv, [Next]_vars, NEW c \in Clients,
                        pc'[c] \in Nrs
                 PROVE  c \in contexts'
      BY Zenon DEF ContextInv
    <2>1. CASE ClientStep(c)
      BY <2>1, ClientStepAdvances, Zenon DEF ContextInv
    <2>2. CASE ~ClientStep(c)
      BY <2>2, OthersLeaveClient, Zenon DEF ContextInv
    <2> QED
      BY <2>1, <2>2, Zenon
  <1> QED
    BY <1>1, <1>2, PcInv, PTL DEF Spec

(* Every request of a client is followed by its next one, and the last one *)
(* by the end of its Context, whatever the server does.                    *)
THEOREM ClientGoesOn ==
  FairSpec /\ []ClientsCanStep =>
    \A c \in Clients :
      /\ \A n \in Nrs : (pc[c] = n) ~> (pc[c] = n + 1)
      /\ (pc[c] \notin Nrs) ~> (c \notin contexts)
  <1> SUFFICES ASSUME NEW c \in Clients
               PROVE  FairSpec /\ []ClientsCanStep =>
                        /\ \A n \in Nrs : (pc[c] = n) ~> (pc[c] = n + 1)
                        /\ (pc[c] \notin Nrs) ~> (c \notin contexts)
    BY Zenon
  <1> DEFINE I == PcOK /\ SocketInv /\ ContextInv
  <1>1. FairSpec => Spec /\ ClientFair(c)
    BY Zenon DEF FairSpec
  <1>2. FairSpec => []I
    BY <1>1, PcInv, ContextInvariance, PTL
  <1>3. ClientsCanStep => ClientCanStep(c)
    BY Zenon DEF ClientsCanStep
  <1>4. ASSUME NEW n \in Nrs
        PROVE  FairSpec /\ []ClientsCanStep => ((pc[c] = n) ~> (pc[c] = n + 1))
    <2>1. I /\ pc[c] = n => Sends(c, n) \/ Waits(c, n)
      BY Zenon DEF ContextInv, Sends, Waits
    <2>2. I /\ Sends(c, n) /\ [Next]_vars => Sends(c, n)' \/ Waits(c, n)'
      BY OthersLeaveClient, ClientStepAdvances, Zenon DEF Sends
    <2>3. I /\ Sends(c, n) /\ <<ClientStep(c)>>_<<pc, socks, contexts>> => Waits(c, n)'
      BY ClientStepAdvances, Zenon
    <2>4. I /\ Waits(c, n) /\ [Next]_vars => Waits(c, n)' \/ (pc[c] = n + 1)'
      BY OthersLeaveClient, ClientStepAdvances, Zenon DEF Waits
    <2>5. I /\ Waits(c, n) /\ <<ClientStep(c)>>_<<pc, socks, contexts>> => (pc[c] = n + 1)'
      BY ClientStepAdvances, Zenon
    <2>6. (Sends(c, n) => c \in contexts) /\ (Waits(c, n) => c \in contexts)
      BY Zenon DEF Sends, Waits
    <2> QED
      BY <1>1, <1>2, <1>3, <2>1, <2>2, <2>3, <2>4, <2>5, <2>6, PTL
         DEF Spec, ClientFair, ClientCanStep
  <1>5. FairSpec /\ []ClientsCanStep => ((pc[c] \notin Nrs) ~> (c \notin contexts))
    <2>1. I /\ pc[c] \notin Nrs => Leaves(c) \/ Left(c) \/ c \notin contexts
      BY Zenon DEF Leaves, Left
    <2>2. I /\ Leaves(c) /\ [Next]_vars => Leaves(c)' \/ Left(c)'
      BY OthersLeaveClient, ClientStepAdvances, Zenon DEF Leaves
    <2>3. I /\ Leaves(c) /\ <<ClientStep(c)>>_<<pc, socks, contexts>> => Left(c)'
      BY ClientStepAdvances, Zenon
    <2>4. I /\ Left(c) /\ [Next]_vars => Left(c)' \/ (c \notin contexts)'
      BY OthersLeaveClient, ClientStepAdvances, Zenon DEF Left
    <2>5. I /\ Left(c) /\ <<ClientStep(c)>>_<<pc, socks, contexts>> => (c \notin contexts)'
      BY ClientStepAdvances, Zenon
    <2>6. (Leaves(c) => c \in contexts) /\ (Left(c) => c \in contexts)
      BY Zenon DEF Leaves, Left
    <2> QED
      BY <1>1, <1>2, <1>3, <2>1, <2>2, <2>3, <2>4, <2>5, <2>6, PTL
         DEF Spec, ClientFair, ClientCanStep
  <1> QED
    BY <1>4, <1>5, Zenon
===============================================================================
