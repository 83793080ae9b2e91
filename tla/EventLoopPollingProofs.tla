------------------------ MODULE EventLoopPollingProofs ------------------------
(***************************************************************************)
(* Proofs about EventLoopPolling, for any sockets, descriptors and number  *)
(* of subscriptions.  The argument: as long as no rebuild is asked for,    *)
(* the poll list is the subscriptions, each once; poll() is only entered   *)
(* then; and the list dispatched from is the one poll() was given.  The    *)
(* dispatch loop has called what is wanted before its index, and its       *)
(* counter is at least what is wanted from there on.                       *)
(***************************************************************************)
EXTENDS EventLoopPolling, FiniteSetTheorems, TLAPS

Item == [key : Keys, sub : Subscription]

(* The poll list holds every subscription once and nothing else.           *)
Listed ==
  /\ {pollItems[i] : i \in DOMAIN pollItems} = itemsOf(Keys)
  /\ Len(pollItems) = Cardinality(DOMAIN subs)

ListInv ==
  /\ pollItems \in Seq(Item)
  /\ ~needsRebuild => Listed
  /\ phase = "poll" => ~needsRebuild /\ polledSubs = subs

DispatchInv ==
  /\ phase \in {"dispatch", "callback"} =>
       \A i \in DOMAIN pollItems :
         /\ pollItems[i].key \in DOMAIN polledSubs
         /\ polledSubs[pollItems[i].key] = pollItems[i].sub
  /\ phase = "callback" => count > 0 /\ index \in 1..Len(pollItems)

(* The items the dispatch loop has still to call.                          *)
Remaining == {i \in index..Len(pollItems) : wanted(i) # {}}

CalledInv ==
  /\ called \in Seq(Nat)
  /\ \A j, l \in DOMAIN called : j < l => called[j] < called[l]
  /\ phase \notin {"dispatch", "callback", "timeouts"} => called = <<>>
  /\ phase = "dispatch" =>
       {called[j] : j \in DOMAIN called} = {i \in 1..index - 1 : wanted(i) # {}}
  /\ phase = "callback" =>
       /\ wanted(index) # {}
       /\ {called[j] : j \in DOMAIN called} = {i \in 1..index : wanted(i) # {}}
  /\ phase \in {"dispatch", "callback"} => Cardinality(Remaining) <= count

Inv == TypeOK /\ ListInv /\ DispatchInv
-------------------------------------------------------------------------------
(* A walk of a finite set visits each element once.                        *)
LEMMA Walk ==
  ASSUME NEW S, IsFiniteSet(S), NEW f \in walksOf(S)
  PROVE  /\ f \in Seq(S)
         /\ Len(f) = Cardinality(S)
         /\ {f[i] : i \in 1..Len(f)} = S
<1> DEFINE n == Cardinality(S)
<1>1. n \in Nat
  BY FS_CardinalityType
<1>2. f \in [1..n -> S] /\ {f[i] : i \in 1..n} = S
  BY DEF walksOf
<1>3. f \in Seq(S) /\ Len(f) = n
  BY <1>1, <1>2
<1> QED
  BY <1>2, <1>3

(* The subscriptions of a set of keys are as many as the keys.             *)
LEMMA ItemsCount ==
  ASSUME TypeOK, NEW S, S \subseteq Keys
  PROVE  /\ IsFiniteSet(itemsOf(S))
         /\ IsFiniteSet(DOMAIN subs \cap S)
         /\ Cardinality(itemsOf(S)) = Cardinality(DOMAIN subs \cap S)
<1> DEFINE D == DOMAIN subs \cap S
           f == [k \in D |-> [key |-> k, sub |-> subs[k]]]
<1>1. IsFiniteSet(Keys)
  BY KeysAssumption, FS_Union, Zenon DEF Keys
<1>2. IsFiniteSet(D)
  BY <1>1, FS_Subset, Zenon DEF TypeOK
<1>3. f \in [D -> itemsOf(S)]
  BY Zenon DEF itemsOf
<1>4. \A k \in D : f[k].key = k
  BY Zenon
<1>5. f \in Injection(D, itemsOf(S))
  BY <1>3, <1>4 DEF Injection, IsInjective
<1>6. f \in Surjection(D, itemsOf(S))
  BY <1>3, Zenon DEF Surjection, itemsOf
<1>7. ExistsBijection(D, itemsOf(S))
  BY <1>5, <1>6, Zenon DEF ExistsBijection, Bijection
<1> QED
  BY <1>2, <1>7, FS_Bijection, Zenon

(* rebuildPollItems() leaves a list of every subscription once.            *)
LEMMA RebuildLists ==
  ASSUME TypeOK, rebuildPollItems
  PROVE  /\ pollItems' \in Seq(Item)
         /\ {pollItems'[i] : i \in DOMAIN pollItems'} = itemsOf(Keys)
         /\ Len(pollItems') = Cardinality(DOMAIN subs)
<1>1. PICK s \in walksOf(itemsOf(Sockets)), f \in walksOf(itemsOf(Fds)) :
        pollItems' = s \o f
  BY DEF rebuildPollItems
<1> DEFINE A == itemsOf(Sockets)
           B == itemsOf(Fds)
<1>2. /\ IsFiniteSet(A) /\ IsFiniteSet(B)
      /\ IsFiniteSet(DOMAIN subs \cap Sockets) /\ IsFiniteSet(DOMAIN subs \cap Fds)
      /\ Cardinality(A) = Cardinality(DOMAIN subs \cap Sockets)
      /\ Cardinality(B) = Cardinality(DOMAIN subs \cap Fds)
  BY ItemsCount, Zenon DEF Keys
<1>3. /\ s \in Seq(A) /\ Len(s) = Cardinality(A)
      /\ {s[i] : i \in 1..Len(s)} = A
  BY <1>2, Walk
<1>4. /\ f \in Seq(B) /\ Len(f) = Cardinality(B)
      /\ {f[i] : i \in 1..Len(f)} = B
  BY <1>2, Walk
<1>5. A \cup B = itemsOf(Keys)
  BY Zenon DEF itemsOf, Keys
<1>6. itemsOf(Keys) \subseteq Item
  BY DEF itemsOf, Item, TypeOK
<1>7. s \in Seq(Item) /\ f \in Seq(Item)
  BY <1>3, <1>4, <1>5, <1>6
<1>8. {(s \o f)[i] : i \in 1..Len(s \o f)} = A \cup B
  <2> HIDE DEF A, B
  <2>1. ASSUME NEW x \in A
        PROVE  \E i \in 1..Len(s \o f) : (s \o f)[i] = x
    BY <1>3, <1>4
  <2>2. ASSUME NEW x \in B
        PROVE  \E i \in 1..Len(s \o f) : (s \o f)[i] = x
    <3>1. PICK j \in 1..Len(f) : f[j] = x
      BY <1>4, Zenon
    <3>2. Len(s) + j \in 1..Len(s \o f) /\ (s \o f)[Len(s) + j] = x
      BY <3>1, <1>3, <1>4
    <3> QED
      BY <3>2, Zenon
  <2>3. ASSUME NEW i \in 1..Len(s \o f)
        PROVE  (s \o f)[i] \in A \cup B
    BY <1>3, <1>4
  <2> QED
    BY <2>1, <2>2, <2>3
<1>9. Cardinality(DOMAIN subs) = Cardinality(A) + Cardinality(B)
  <2> DEFINE P == DOMAIN subs \cap Sockets
             Q == DOMAIN subs \cap Fds
  <2>1. P \cup Q = DOMAIN subs /\ P \cap Q = {}
    BY KeysAssumption, Zenon DEF TypeOK, Keys
  <2>2. Cardinality(P \cup Q) = Cardinality(P) + Cardinality(Q) - Cardinality(P \cap Q)
    BY <1>2, FS_Union
  <2>3. Cardinality({}) = 0 /\ Cardinality(P) \in Nat /\ Cardinality(Q) \in Nat
    BY <1>2, FS_EmptySet, FS_CardinalityType
  <2>4. Cardinality(A) = Cardinality(P) /\ Cardinality(B) = Cardinality(Q)
    BY <1>2, Zenon
  <2>5. Cardinality(DOMAIN subs) = Cardinality(P) + Cardinality(Q) - Cardinality({})
    BY <2>1, <2>2, Zenon
  <2> HIDE DEF P, Q, A, B
  <2> QED
    BY <2>3, <2>4, <2>5
<1>10. Len(s \o f) = Cardinality(A) + Cardinality(B) /\ s \o f \in Seq(Item)
  <2>1. Len(s) = Cardinality(A) /\ Len(f) = Cardinality(B)
    BY <1>3, <1>4
  <2> HIDE DEF A, B
  <2>2. Len(s \o f) = Len(s) + Len(f) /\ s \o f \in Seq(Item)
    BY <1>7
  <2> QED
    BY <2>1, <2>2
<1>11. DOMAIN (s \o f) = 1..Len(s \o f)
  BY <1>7
<1> QED
  BY <1>1, <1>5, <1>8, <1>9, <1>10, <1>11, Zenon
-------------------------------------------------------------------------------
(* The invariant holds before anything is subscribed.                      *)
LEMMA InitInv == Init => Inv
<1> SUFFICES ASSUME Init PROVE Inv
  BY Zenon
<1>1. DOMAIN subs = {} /\ DOMAIN pollItems = {} /\ Len(pollItems) = 0
      /\ pollItems \in Seq(Item)
  BY DEF Init
<1>2. TypeOK
  BY <1>1, Zenon DEF Init, TypeOK, Phases
<1>3. ListInv
  BY <1>1, FS_EmptySet, Zenon DEF Init, ListInv, Listed, itemsOf
<1>4. DispatchInv
  BY Zenon DEF Init, DispatchInv
<1> QED
  BY <1>2, <1>3, <1>4 DEF Inv

(* Every step keeps the types, given what the invariant says of the list.  *)
LEMMA TypeStep == Inv /\ [Next]_vars => TypeOK'
<1> SUFFICES ASSUME Inv, [Next]_vars PROVE TypeOK'
  BY Zenon
<1> USE DEF Inv
<1>1. ASSUME NEW k \in Keys, NEW events \in EventSets, addSocket(k, events)
      PROVE  TypeOK'
  <2>1. DOMAIN subs' = DOMAIN subs \cup {k} /\ made' \in Nat
    BY <1>1 DEF addSocket, TypeOK
  <2>2. \A j \in DOMAIN subs' : subs'[j] \in Subscription
    BY <1>1, <2>1, Zenon DEF addSocket, TypeOK, Subscription
  <2> QED
    BY <1>1, <2>1, <2>2, Zenon DEF addSocket, TypeOK, loopVars
<1>2. ASSUME NEW k \in Keys, removeSocket(k)
      PROVE  TypeOK'
  BY <1>2, Zenon DEF removeSocket, TypeOK, loopVars
<1>3. ASSUME NEW k \in Keys, NEW event \in AllEvents, arrive(k, event)
      PROVE  TypeOK'
  BY <1>3, Zenon DEF arrive, TypeOK, loopVars
<1>4. ASSUME NEW k \in Sockets, close(k)
      PROVE  TypeOK'
  BY <1>4, Zenon DEF close, TypeOK, loopVars
<1>5. CASE run \/ caught \/ endDispatch
  BY <1>5, Zenon DEF run, caught, passVars, endDispatch, TypeOK, Phases
<1>6. ASSUME \/ pollThrows \/ nextPass("idle") \/ nextPass("top")
             \/ \E k \in Keys : addSocketThrows(k)
      PROVE  TypeOK'
  <2>1. /\ count' = 0 /\ index' = 0
        /\ UNCHANGED <<subs, needsRebuild, pollItems, ready, closed, made>>
    BY <1>6, Zenon DEF nextPass, addSocketThrows, pollThrows, passEnds
  <2>2. phase' \in {"idle", "top", "thrown", "aborted"}
    BY <1>6, Zenon DEF nextPass, addSocketThrows, pollThrows
  <2>3. count' \in Nat /\ index' \in Nat
    BY <2>1
  <2> QED
    BY <2>1, <2>2, <2>3, Zenon DEF TypeOK, Phases
<1>7. CASE enterPoll
  <2>1. pollItems' \in Seq(Item)
    BY <1>7, RebuildLists, Zenon DEF enterPoll, ListInv
  <2>2. \A i \in DOMAIN pollItems' : pollItems'[i] \in Item
    BY <2>1
  <2> QED
    BY <1>7, <2>2, Zenon DEF enterPoll, TypeOK, Phases, Item
<1>8. CASE pollReturns
  <2> DEFINE R == {i \in DOMAIN pollItems : reported(pollItems[i]) # {}}
  <2>1. DOMAIN pollItems = 1..Len(pollItems) /\ Len(pollItems) \in Nat
    BY DEF ListInv
  <2>2. IsFiniteSet(R)
    <3>1. IsFiniteSet(1..Len(pollItems))
      BY <2>1, FS_Interval
    <3>2. R \in SUBSET (1..Len(pollItems))
      BY <2>1, Zenon
    <3> QED
      BY <3>1, <3>2, FS_Subset, Zenon
  <2>3. count' \in Nat
    BY <1>8, <2>2, FS_CardinalityType DEF pollReturns
  <2>4. Len(revents') = Len(pollItems)
    BY <1>8, <2>1 DEF pollReturns
  <2>5. index' \in 1..(Len(pollItems) + 1) /\ index' \in Nat
    BY <1>8, <2>1 DEF pollReturns
  <2> QED
    BY <1>8, <2>3, <2>4, <2>5 DEF pollReturns, TypeOK, Phases
<1>9. CASE callBack
  <2>1. PICK taken : ready' = [ready EXCEPT ![pollItems[index].key] = @ \ taken]
    BY <1>9, Zenon DEF callBack
  <2>2. ready' \in [Keys -> SUBSET AllEvents]
    <3>1. ready \in [Keys -> SUBSET AllEvents]
      BY Zenon DEF TypeOK
    <3> HIDE DEF Inv
    <3> QED
      BY <2>1, <3>1, Zenon
  <2> QED
    BY <1>9, <2>2, Zenon DEF callBack, inLoop, TypeOK, Phases
<1>10. CASE callbackReturns
  <2>1. count' \in Nat
    BY <1>10 DEF callbackReturns, TypeOK, DispatchInv
  <2>2. index' \in 1..(Len(pollItems) + 1) /\ index' \in Nat
    BY <1>10 DEF callbackReturns, ListInv, DispatchInv
  <2> QED
    BY <1>10, <2>1, <2>2 DEF callbackReturns, TypeOK, Phases
<1>11. CASE skipItem
  <2>1. index' \in 1..(Len(pollItems) + 1) /\ index' \in Nat
    BY <1>11 DEF skipItem, inLoop, ListInv, TypeOK
  <2> QED
    BY <1>11, <2>1, Zenon DEF skipItem, inLoop, TypeOK, Phases
<1>12. CASE UNCHANGED vars
  BY <1>12, Zenon DEF vars, TypeOK
<1> QED
  BY <1>1, <1>2, <1>3, <1>4, <1>5, <1>6, <1>7, <1>8, <1>9, <1>10, <1>11, <1>12, SMTT(30)
  DEF Next, Pass

(* The list is the subscriptions until one changes, and again from the     *)
(* rebuild on.                                                             *)
LEMMA ListStep == Inv /\ [Next]_vars => ListInv'
<1> SUFFICES ASSUME Inv, [Next]_vars PROVE ListInv'
  BY Zenon
<1> USE DEF Inv
<1>1. ASSUME NEW k \in Keys, NEW events \in EventSets, addSocket(k, events)
      PROVE  ListInv'
  BY <1>1, Zenon DEF addSocket, callerRuns, ListInv, loopVars
<1>2. ASSUME NEW k \in Keys, removeSocket(k)
      PROVE  ListInv'
  BY <1>2, Zenon DEF removeSocket, callerRuns, ListInv, loopVars
<1>3. CASE enterPoll
  <2>1. Listed' /\ pollItems' \in Seq(Item)
    BY <1>3, RebuildLists, Zenon DEF enterPoll, ListInv, Listed, itemsOf
  <2> QED
    BY <1>3, <2>1, Zenon DEF enterPoll, ListInv
<1>4. ASSUME pollItems' = pollItems, needsRebuild' = needsRebuild, subs' = subs,
             phase' = "poll" => phase = "poll" /\ polledSubs' = polledSubs
      PROVE  ListInv'
  BY <1>4 DEF ListInv, Listed, itemsOf
<1>5. ASSUME NEW k, NEW event, arrive(k, event) \/ close(k)
      PROVE  ListInv'
  BY <1>4, <1>5, Zenon DEF arrive, close, loopVars
<1>6. CASE \/ run \/ caught \/ nextPass("idle") \/ nextPass("top") \/ pollThrows
          \/ pollReturns \/ callBack \/ callbackReturns \/ skipItem \/ endDispatch
          \/ \E k \in Keys : addSocketThrows(k)
  BY <1>4, <1>6, Zenon DEF run, caught, nextPass, pollThrows, pollReturns, callBack,
    callbackReturns, skipItem, inLoop, endDispatch, addSocketThrows
<1>7. CASE UNCHANGED vars
  BY <1>4, <1>7, Zenon DEF vars
<1> QED
  BY <1>1, <1>2, <1>3, <1>5, <1>6, <1>7, Zenon DEF Next, Pass

(* What is dispatched is what was polled.                                  *)
LEMMA DispatchStep == Inv /\ [Next]_vars => DispatchInv'
<1> SUFFICES ASSUME Inv, [Next]_vars PROVE DispatchInv'
  BY Zenon
<1> USE DEF Inv
<1>1. ASSUME NEW k, NEW e,
             addSocket(k, e) \/ removeSocket(k) \/ arrive(k, e) \/ close(k)
      PROVE  DispatchInv'
  BY <1>1, Zenon DEF addSocket, removeSocket, arrive, close, callerRuns, loopVars,
    DispatchInv
<1>2. CASE \/ run \/ caught \/ nextPass("idle") \/ nextPass("top") \/ endDispatch
           \/ enterPoll \/ pollThrows \/ \E k \in Keys : addSocketThrows(k)
  BY <1>2, Zenon DEF run, caught, nextPass, endDispatch, enterPoll, pollThrows,
    addSocketThrows, DispatchInv
<1>3. ASSUME phase = "poll"
      PROVE  \A i \in DOMAIN pollItems :
               /\ pollItems[i].key \in DOMAIN subs
               /\ subs[pollItems[i].key] = pollItems[i].sub
  BY <1>3 DEF ListInv, Listed, itemsOf
<1>5. CASE pollReturns
  BY <1>3, <1>5, Zenon DEF pollReturns, DispatchInv, ListInv
<1>6. CASE callBack
  <2>1. index \in 1..Len(pollItems) /\ count > 0
    <3>1. /\ index <= Len(pollItems) /\ count > 0
          /\ index \in 1..(Len(pollItems) + 1) /\ Len(pollItems) \in Nat
      BY <1>6 DEF callBack, inLoop, TypeOK, ListInv
    <3> QED
      BY <3>1
  <2> QED
    BY <1>6, <2>1, Zenon DEF callBack, inLoop, DispatchInv
<1>7. CASE callbackReturns \/ skipItem
  BY <1>7, Zenon DEF callbackReturns, skipItem, inLoop, DispatchInv
<1>8. CASE UNCHANGED vars
  BY <1>8, Zenon DEF vars, DispatchInv
<1> QED
  BY <1>1, <1>2, <1>5, <1>6, <1>7, <1>8, SMTT(30) DEF Next, Pass

(* The invariant holds throughout.                                         *)
LEMMA Invariance == Spec => []Inv
<1>1. Inv /\ [Next]_vars => Inv'
  BY TypeStep, ListStep, DispatchStep DEF Inv
<1> QED
  BY InitInv, <1>1, PTL DEF Spec
-------------------------------------------------------------------------------
(* What remains to be called is a finite set of positions.                 *)
LEMMA RemainingFinite ==
  ASSUME Inv
  PROVE  IsFiniteSet(Remaining) /\ Cardinality(Remaining) \in Nat
<1>1. Len(pollItems) \in Int /\ index \in Int
  BY DEF Inv, TypeOK, ListInv
<1>2. IsFiniteSet(index..Len(pollItems))
  BY <1>1, FS_Interval, Zenon
<1>3. Remaining \in SUBSET (index..Len(pollItems))
  BY Zenon DEF Remaining
<1>4. IsFiniteSet(Remaining)
  BY <1>2, <1>3, FS_Subset, Zenon
<1> QED
  BY <1>4, FS_CardinalityType, Zenon

(* The loop calls what is wanted, in order, and its counter does not end   *)
(* it before the last one.                                                 *)
LEMMA CalledStep ==
  Inv /\ CalledInv /\ DispatchComplete /\ [Next]_vars => CalledInv' /\ DispatchComplete'
<1> SUFFICES ASSUME Inv, CalledInv, DispatchComplete, [Next]_vars
             PROVE  CalledInv' /\ DispatchComplete'
  BY Zenon
<1>0. /\ Len(pollItems) \in Nat /\ DOMAIN pollItems = 1..Len(pollItems)
      /\ index \in Nat /\ count \in Nat
      /\ called \in Seq(Nat) /\ Len(called) \in Nat /\ DOMAIN called = 1..Len(called)
  BY DEF Inv, TypeOK, ListInv, CalledInv
<1>1. ASSUME UNCHANGED <<called, pollItems, revents, index, count, phase>>
      PROVE  CalledInv' /\ DispatchComplete'
  <2> DEFINE Calls == {called[j] : j \in DOMAIN called}
             Before == {i \in 1..index - 1 : wanted(i) # {}}
             UpTo == {i \in 1..index : wanted(i) # {}}
             All == {i \in DOMAIN pollItems : wanted(i) # {}}
  <2>1. \A i : wanted(i)' = wanted(i)
    BY <1>1, Zenon DEF wanted
  <2>2. Remaining' = Remaining
    BY <1>1, <2>1, Zenon DEF Remaining
  <2>3. Calls' = Calls /\ Before' = Before /\ UpTo' = UpTo /\ All' = All
    BY <1>1, <2>1, Zenon
  <2>4. /\ called' \in Seq(Nat)
        /\ \A j, l \in DOMAIN called' : j < l => called'[j] < called'[l]
        /\ phase' \notin {"dispatch", "callback", "timeouts"} => called' = <<>>
        /\ phase' \in {"dispatch", "callback"} => Cardinality(Remaining)' <= count'
    BY <1>1, <2>2, Zenon DEF CalledInv
  <2>5. /\ phase = "dispatch" => Calls = Before
        /\ phase = "callback" => wanted(index) # {} /\ Calls = UpTo
    BY Zenon DEF CalledInv
  <2> HIDE DEF Calls, Before, UpTo, All
  <2>6. /\ phase' = "dispatch" => Calls' = Before'
        /\ phase' = "callback" => wanted(index)' # {} /\ Calls' = UpTo'
    BY <1>1, <2>1, <2>3, <2>5, Zenon
  <2>7. CalledInv'
    BY <2>4, <2>6, Zenon DEF CalledInv, Calls, Before, UpTo
  <2>8. DispatchComplete'
    BY <1>1, <2>3, Zenon DEF DispatchComplete, Calls, All
  <2> QED
    BY <2>7, <2>8, Zenon
<1>2. ASSUME NEW k, NEW e,
             addSocket(k, e) \/ removeSocket(k) \/ arrive(k, e) \/ close(k)
      PROVE  CalledInv' /\ DispatchComplete'
  BY <1>1, <1>2, Zenon DEF addSocket, removeSocket, arrive, close, loopVars
<1>3. CASE run \/ caught \/ enterPoll
  BY <1>3, Zenon DEF run, caught, passVars, enterPoll, CalledInv, DispatchComplete
<1>4. CASE \/ pollThrows \/ nextPass("idle") \/ nextPass("top")
           \/ \E k \in Keys : addSocketThrows(k)
  <2>0. called' = <<>>
    BY <1>4, Zenon DEF nextPass, addSocketThrows, pollThrows, passEnds
  <2>1. called' = <<>> /\ DOMAIN called' = {} /\ called' \in Seq(Nat)
    BY <2>0
  <2>2. phase' \in {"idle", "top", "thrown", "aborted"}
    BY <1>4, Zenon DEF nextPass, addSocketThrows, pollThrows
  <2> QED
    BY <2>1, <2>2, Zenon DEF CalledInv, DispatchComplete
<1>5. CASE pollReturns
  <2> DEFINE R == {i \in DOMAIN pollItems : reported(pollItems[i]) # {}}
  <2>1. called = <<>> /\ called' = <<>> /\ index' = 1 /\ phase' = "dispatch"
        /\ pollItems' = pollItems /\ count' = Cardinality(R)
    BY <1>5, Zenon DEF pollReturns, CalledInv
  <2>2. \A i \in DOMAIN pollItems : revents'[i] = reported(pollItems[i])
    BY <1>5, Zenon DEF pollReturns
  <2>3. Remaining' \in SUBSET R
    BY <1>0, <2>1, <2>2 DEF Remaining, wanted
  <2>4. IsFiniteSet(R)
    <3>1. IsFiniteSet(1..Len(pollItems))
      BY <1>0, FS_Interval
    <3>2. R \in SUBSET (1..Len(pollItems))
      BY <1>0, Zenon
    <3> QED
      BY <3>1, <3>2, FS_Subset, Zenon
  <2>5. Cardinality(Remaining') <= Cardinality(R)
    BY <2>3, <2>4, FS_Subset, Zenon
  <2> HIDE DEF R
  <2>6. Cardinality(Remaining)' <= count'
    BY <2>1, <2>5, Zenon
  <2> QED
    BY <2>1, <2>6 DEF CalledInv, DispatchComplete
<1>6. CASE callBack
  <2>1. /\ called' = Append(called, index) /\ phase = "dispatch" /\ phase' = "callback"
        /\ UNCHANGED <<pollItems, revents, index, count>>
        /\ wanted(index) # {} /\ index \in 1..Len(pollItems)
    BY <1>6, <1>0 DEF callBack, inLoop, Inv, TypeOK
  <2>2. /\ called' \in Seq(Nat) /\ Len(called') = Len(called) + 1
        /\ DOMAIN called' = 1..Len(called) + 1
        /\ \A j \in 1..Len(called) : called'[j] = called[j]
        /\ called'[Len(called) + 1] = index
    BY <1>0, <2>1
  <2>3. {called[j] : j \in DOMAIN called} = {i \in 1..index - 1 : wanted(i) # {}}
    BY <2>1, Zenon DEF CalledInv
  <2>4. \A j \in 1..Len(called) : called[j] < index
    <3>1. ASSUME NEW j \in 1..Len(called)
          PROVE  called[j] < index
      <4>1. called[j] \in {i \in 1..index - 1 : wanted(i) # {}}
        BY <1>0, <2>3, Zenon
      <4> QED
        BY <1>0, <4>1
    <3> QED
      BY <3>1, Zenon
  <2>5. \A j, l \in DOMAIN called' : j < l => called'[j] < called'[l]
    <3>1. \A j, l \in 1..Len(called) : j < l => called[j] < called[l]
      BY <1>0, Zenon DEF CalledInv
    <3>2. ASSUME NEW j \in 1..Len(called) + 1, NEW l \in 1..Len(called) + 1, j < l
          PROVE  called'[j] < called'[l]
      <4>1. j \in 1..Len(called)
        BY <1>0, <3>2
      <4>2. CASE l = Len(called) + 1
        BY <2>2, <2>4, <4>1, <4>2, SMTT(30)
      <4>3. CASE l \in 1..Len(called)
        BY <2>2, <3>1, <3>2, <4>1, <4>3, SMTT(30)
      <4> QED
        BY <1>0, <4>2, <4>3
    <3> QED
      BY <2>2, <3>2, Zenon
  <2>6. {called'[j] : j \in DOMAIN called'} =
          {called[j] : j \in DOMAIN called} \cup {index}
    BY <1>0, <2>2, SMTT(30)
  <2>7. {i \in 1..index : wanted(i) # {}} =
          {i \in 1..index - 1 : wanted(i) # {}} \cup {index}
    BY <2>1
  <2>8. (wanted(index) # {})' /\ {i \in 1..index : wanted(i) # {}}' =
          {i \in 1..index : wanted(i) # {}} /\ Remaining' = Remaining
    BY <2>1, Zenon DEF wanted, Remaining
  <2> QED
    BY <2>1, <2>2, <2>3, <2>5, <2>6, <2>7, <2>8, Zenon DEF CalledInv, DispatchComplete
<1>7. ASSUME callbackReturns \/ skipItem
      PROVE  /\ UNCHANGED <<called, pollItems, revents>> /\ phase' = "dispatch"
             /\ index' = index + 1 /\ index \in 1..Len(pollItems)
             /\ \A i : wanted(i)' = wanted(i)
             /\ Remaining' = Remaining \ {index}
             /\ {called[j] : j \in DOMAIN called} = {i \in 1..index : wanted(i) # {}}
  <2>1. /\ UNCHANGED <<called, pollItems, revents>> /\ phase' = "dispatch"
        /\ index' = index + 1
    BY <1>7, Zenon DEF callbackReturns, skipItem, inLoop
  <2>2. index \in 1..Len(pollItems)
    BY <1>0, <1>7 DEF callbackReturns, skipItem, inLoop, Inv, TypeOK, DispatchInv
  <2>3. \A i : wanted(i)' = wanted(i)
    BY <2>1, Zenon DEF wanted
  <2>4. Remaining' = Remaining \ {index}
    BY <1>0, <2>1, <2>2, <2>3, SMTT(30) DEF Remaining
  <2>5. {called[j] : j \in DOMAIN called} = {i \in 1..index : wanted(i) # {}}
    <3>1. CASE callbackReturns
      BY <3>1, Zenon DEF callbackReturns, CalledInv
    <3>2. CASE skipItem
      <4>1. {called[j] : j \in DOMAIN called} = {i \in 1..index - 1 : wanted(i) # {}}
        BY <3>2, Zenon DEF skipItem, inLoop, CalledInv
      <4>2. wanted(index) = {}
        BY <3>2, Zenon DEF skipItem
      <4> QED
        BY <1>0, <2>2, <4>1, <4>2, SMTT(30)
    <3> QED
      BY <1>7, <3>1, <3>2, Zenon
  <2> QED
    BY <2>1, <2>2, <2>3, <2>4, <2>5, Zenon
<1>8. ASSUME callbackReturns \/ skipItem, Cardinality(Remaining') <= count'
      PROVE  CalledInv' /\ DispatchComplete'
  <2>1. {i \in 1..index' - 1 : wanted(i)' # {}} = {i \in 1..index : wanted(i) # {}}
    BY <1>0, <1>7, <1>8
  <2> QED
    BY <1>7, <1>8, <2>1, Zenon DEF CalledInv, DispatchComplete
<1>9. CASE callbackReturns
  <2>1. index \in Remaining /\ Cardinality(Remaining) <= count /\ count' = count - 1
    BY <1>0, <1>7, <1>9 DEF callbackReturns, CalledInv, Remaining
  <2>2. Cardinality(Remaining \ {index}) = Cardinality(Remaining) - 1
    BY <2>1, RemainingFinite, FS_RemoveElement, Zenon
  <2>3. Cardinality(Remaining') = Cardinality(Remaining) - 1
    BY <1>7, <1>9, <2>2, Zenon
  <2>4. Cardinality(Remaining') <= count'
    BY <1>0, <2>1, <2>3, RemainingFinite
  <2> QED
    BY <1>8, <1>9, <2>4, Zenon
<1>10. CASE skipItem
  <2>1. index \notin Remaining /\ Cardinality(Remaining) <= count /\ count' = count
    BY <1>10, Zenon DEF skipItem, inLoop, CalledInv, Remaining
  <2>2. Remaining' = Remaining
    BY <1>7, <1>10, <2>1, Zenon
  <2> QED
    BY <1>8, <1>10, <2>1, <2>2, Zenon
<1>11. CASE endDispatch
  <2>1. /\ UNCHANGED <<called, pollItems, revents, index, count>>
        /\ phase = "dispatch" /\ phase' = "timeouts"
        /\ ~(index <= Len(pollItems) /\ count > 0)
    BY <1>11, Zenon DEF endDispatch
  <2>2. Remaining = {}
    <3>1. CASE index > Len(pollItems)
      BY <1>0, <3>1 DEF Remaining
    <3>2. CASE count = 0
      <4>1. Cardinality(Remaining) = 0
        BY <3>2, <2>1, RemainingFinite, SMTT(30) DEF CalledInv
      <4> QED
        BY <4>1, RemainingFinite, FS_EmptySet, SMTT(30)
    <3> QED
      BY <1>0, <2>1, <3>1, <3>2, SMTT(30)
  <2>3. index \in 1..Len(pollItems) + 1
    BY <2>1, Zenon DEF Inv, TypeOK
  <2>4. {i \in 1..index - 1 : wanted(i) # {}} = {i \in DOMAIN pollItems : wanted(i) # {}}
    BY <1>0, <2>2, <2>3, SMTT(30) DEF Remaining
  <2>5. {called[j] : j \in DOMAIN called} = {i \in DOMAIN pollItems : wanted(i) # {}}
    BY <2>1, <2>4, Zenon DEF CalledInv
  <2> QED
    BY <2>1, <2>5 DEF CalledInv, DispatchComplete, wanted
<1>12. CASE UNCHANGED vars
  BY <1>1, <1>12, Zenon DEF vars
<1> QED
  BY <1>2, <1>3, <1>4, <1>5, <1>6, <1>9, <1>10, <1>11, <1>12, SMTT(30) DEF Next, Pass

(* The dispatch loop calls exactly the items with an event they subscribed *)
(* to, once and in order, although poll()'s count may end it early: see    *)
(* DispatchComplete.                                                       *)
THEOREM NoItemIsSkipped == Spec => []DispatchComplete
<1>1. Init => CalledInv /\ DispatchComplete
  BY DEF Init, CalledInv, DispatchComplete
<1> QED
  BY <1>1, CalledStep, Invariance, PTL DEF Spec

(* The parallel lists keep their lengths, the dispatch loop its bounds and *)
(* the counter never wraps below zero.                                     *)
THEOREM TypeCorrect == Spec => []TypeOK
<1>1. Inv => TypeOK
  BY Zenon DEF Inv
<1> QED
  BY <1>1, Invariance, PTL

(* poll() is called with every subscription once and nothing else: see     *)
(* PolledIsRegistered.                                                     *)
THEOREM PollListIsCurrent == Spec => []PolledIsRegistered
<1>1. Inv => PolledIsRegistered
  BY Zenon DEF Inv, ListInv, Listed, PolledIsRegistered
<1> QED
  BY <1>1, Invariance, PTL

(* A callback was subscribed when its pass began: see CalledWasPolled.     *)
THEOREM OnlyPolledAreCalled == Spec => []CalledWasPolled
<1>1. Inv => CalledWasPolled
  BY DEF Inv, ListInv, DispatchInv, CalledWasPolled
<1> QED
  BY <1>1, Invariance, PTL
-------------------------------------------------------------------------------
(* Progress of the loop.  ENABLED is left as it is: that the loop can take *)
(* a step until it is left is a hypothesis of the theorems.                *)
RunLeft == phase \in {"idle", "thrown", "aborted"}
PassCanStep == ~RunLeft => ENABLED <<Pass>>_vars

Dispatching == phase \in {"dispatch", "callback"}

(* The dispatch loop ends.                                                 *)
DispatchEnds == Dispatching ~> ~Dispatching

CalledOrGone(k) == k \notin DOMAIN subs \/ IsCalled(k)

(* The dispatch loop has an item of the key in front of it.                *)
Due(k) ==
  /\ Dispatching
  /\ \E i \in index..Len(pollItems) : pollItems[i].key = k /\ wanted(i) # {}

(* Nobody but its own callback takes the events of a key.                  *)
LEMMA KeyStaysReady ==
  ASSUME Inv, NEW k \in Keys, HasEvent(k), [Next]_vars
  PROVE  HasEvent(k)' \/ CalledOrGone(k)'
<1> USE DEF HasEvent, CalledOrGone, IsCalled
<1>1. ASSUME NEW j \in Keys, NEW events \in EventSets, addSocket(j, events)
      PROVE  HasEvent(k)'
  BY <1>1, Zenon DEF addSocket, loopVars
<1>2. ASSUME NEW j \in Keys, removeSocket(j)
      PROVE  HasEvent(k)' \/ CalledOrGone(k)'
  BY <1>2, Zenon DEF removeSocket, loopVars
<1>3. ASSUME NEW j \in Keys, NEW event \in AllEvents, arrive(j, event)
      PROVE  HasEvent(k)'
  BY <1>3, Zenon DEF arrive, loopVars, Inv, TypeOK
<1>4. CASE callBack
  <2>1. PICK taken : ready' = [ready EXCEPT ![pollItems[index].key] = @ \ taken]
    BY <1>4, Zenon DEF callBack
  <2>2. phase' = "callback" /\ UNCHANGED <<subs, pollItems, index>>
    BY <1>4, Zenon DEF callBack
  <2>3. pollItems[index].key # k => ready'[k] = ready[k]
    BY <2>1, Zenon DEF Inv, TypeOK
  <2> QED
    BY <2>2, <2>3, Zenon
<1>5. ASSUME NEW j \in Sockets, close(j)
      PROVE  HasEvent(k)'
  BY <1>5, Zenon DEF close, loopVars
<1>6. CASE \/ run \/ caught \/ nextPass("idle") \/ enterPoll \/ pollThrows \/ pollReturns
           \/ callbackReturns \/ skipItem \/ endDispatch \/ nextPass("top")
           \/ (\E j \in Keys : addSocketThrows(j)) \/ UNCHANGED vars
  <2>1. UNCHANGED <<subs, ready>>
    BY <1>6, Zenon
    DEF run, caught, nextPass, enterPoll, pollThrows, pollReturns, callbackReturns,
         skipItem, endDispatch, addSocketThrows, vars
  <2> QED
    BY <2>1, Zenon
<1> QED
  BY <1>1, <1>2, <1>3, <1>4, <1>5, <1>6, Zenon DEF Next, Pass

(* The dispatch loop does not end before an item that is due: its counter  *)
(* is at least what it has still to call.                                  *)
LEMMA DueStays ==
  ASSUME Inv, CalledInv, NEW k \in Keys, Due(k), ~IsCalled(k), [Next]_vars
  PROVE  Due(k)' \/ phase' = "aborted"
<1>1. PICK i \in index..Len(pollItems) : pollItems[i].key = k /\ wanted(i) # {}
  BY Zenon DEF Due
<1>2. index \in Nat /\ Len(pollItems) \in Nat /\ i \in Nat
  BY <1>1, SMTT(30) DEF Inv, TypeOK, ListInv
<1>3. ASSUME UNCHANGED <<pollItems, revents>>, index' \in Nat, i \in index'..Len(pollItems),
             phase' \in {"dispatch", "callback"}
      PROVE  Due(k)'
  BY <1>1, <1>3, Zenon DEF Due, Dispatching, wanted
<1>4. CASE UNCHANGED loopVars
  BY <1>1, <1>2, <1>3, <1>4, Zenon DEF loopVars, Due, Dispatching
<1>5. CASE callBack
  BY <1>1, <1>2, <1>3, <1>5, SMTT(30) DEF callBack
<1>6. CASE callbackReturns
  <2>1. i # index
    BY <1>1, <1>6, Zenon DEF callbackReturns, IsCalled
  <2> QED
    BY <1>1, <1>2, <1>3, <1>6, <2>1, SMTT(30) DEF callbackReturns
<1>7. CASE skipItem
  <2>1. i # index
    BY <1>1, <1>7 DEF skipItem
  <2> QED
    BY <1>1, <1>2, <1>3, <1>7, <2>1, SMTT(30) DEF skipItem, inLoop
<1>8. ~endDispatch
  <2>1. Remaining # {}
    BY <1>1, Zenon DEF Remaining
  <2>2. Cardinality(Remaining) # 0 /\ Cardinality(Remaining) \in Nat
    BY <2>1, RemainingFinite, FS_EmptySet, SMTT(30)
  <2>3. Cardinality(Remaining) <= count /\ count \in Nat
    BY Zenon DEF CalledInv, Due, Dispatching, Inv, TypeOK
  <2>4. count > 0
    BY <2>2, <2>3, SMTT(30)
  <2> QED
    BY <1>1, <1>2, <2>4, SMTT(30) DEF endDispatch
<1>9. ASSUME ~callBack, ~callbackReturns, ~skipItem
      PROVE  UNCHANGED loopVars \/ phase' = "aborted"
  BY <1>8, <1>9, Zenon
  DEF Due, Dispatching, Next, Pass, addSocket, addSocketThrows, removeSocket, arrive, close,
       run, caught, nextPass, enterPoll, pollThrows, pollReturns, vars, loopVars
<1> QED
  BY <1>4, <1>5, <1>6, <1>7, <1>9, SMTT(30)

(* The poll that returns makes a key with an event due: the poll list has  *)
(* its subscription, and zmq_poll() reports what is asked for.             *)
LEMMA PollMakesDue ==
  ASSUME Inv, NEW k \in Keys, HasEvent(k), pollReturns
  PROVE  Due(k)'
<1>1. pollItems \in Seq(Item) /\ {pollItems[i] : i \in DOMAIN pollItems} = itemsOf(Keys)
  BY Zenon DEF pollReturns, Inv, ListInv, Listed
<1>2. [key |-> k, sub |-> subs[k]] \in itemsOf(Keys)
  BY Zenon DEF HasEvent, itemsOf
<1>3. PICK i \in DOMAIN pollItems : pollItems[i] = [key |-> k, sub |-> subs[k]]
  BY <1>1, <1>2, SMTT(30)
<1>4. i \in 1..Len(pollItems)
  BY <1>1, <1>3
<1>5. /\ UNCHANGED pollItems /\ index' = 1 /\ phase' = "dispatch"
      /\ revents' = [j \in DOMAIN pollItems |-> reported(pollItems[j])]
  BY Zenon DEF pollReturns
<1>6. revents'[i] = ready[k] \cap (subs[k].events \cup {"ERR"})
  BY <1>3, <1>5, SMTT(30) DEF reported
<1>7. pollItems'[i].key = k /\ pollItems'[i].sub.events = subs[k].events
  BY <1>3, <1>5, SMTT(30)
<1>8. revents'[i] \cap pollItems'[i].sub.events # {}
  BY <1>6, <1>7, SMTT(30) DEF HasEvent
<1> QED
  BY <1>4, <1>5, <1>7, <1>8, Zenon DEF Due, Dispatching, wanted

(* A step of the loop goes from one phase to the next.                     *)
LEMMA PassAdvances ==
  ASSUME Pass
  PROVE  /\ phase = "timeouts" => phase' = "top"
         /\ phase = "top" => phase' = "poll"
         /\ phase = "poll" => pollReturns \/ phase' = "thrown"
<1>1. (phase = "timeouts" => phase' = "top") /\ (phase = "top" => phase' = "poll")
  BY Zenon DEF Pass, enterPoll, pollThrows, pollReturns, callBack, inLoop, callbackReturns,
       skipItem, endDispatch, nextPass
<1>2. phase = "poll" => pollReturns \/ phase' = "thrown"
  BY Zenon DEF Pass, enterPoll, pollThrows, callBack, inLoop, callbackReturns, skipItem,
       endDispatch, nextPass
<1> QED
  BY <1>1, <1>2, Zenon

(* Nobody else moves the loop on, but out of its run.                      *)
LEMMA OthersKeepPhase ==
  ASSUME [Next]_vars, ~Pass, ~RunLeft
  PROVE  phase' = phase \/ RunLeft'
  BY Zenon
  DEF Next, addSocket, addSocketThrows, removeSocket, arrive, close, run, caught, nextPass,
       vars, loopVars, RunLeft

(* The dispatch loop is entered from poll() alone, and left for the        *)
(* timeouts or the end of the process.                                     *)
LEMMA DispatchLeft ==
  ASSUME [Next]_vars
  PROVE  /\ Dispatching => Dispatching' \/ phase' = "timeouts" \/ phase' = "aborted"
         /\ ~Dispatching => ~Dispatching' \/ pollReturns
         /\ phase = "aborted" => phase' = "aborted"
<1>1. Dispatching => Dispatching' \/ phase' = "timeouts" \/ phase' = "aborted"
  BY Zenon DEF Dispatching, Next, Pass, addSocket, addSocketThrows, removeSocket, arrive,
       close, run, caught, nextPass, enterPoll, pollThrows, pollReturns, callBack,
       callbackReturns, skipItem, endDispatch, inLoop, vars, loopVars
<1>2. ~Dispatching => ~Dispatching' \/ pollReturns
  BY Zenon DEF Dispatching, Next, Pass, addSocket, addSocketThrows, removeSocket, arrive,
       close, run, caught, nextPass, enterPoll, pollThrows, callBack,
       callbackReturns, skipItem, endDispatch, inLoop, vars, loopVars
<1>3. phase = "aborted" => phase' = "aborted"
  BY Zenon DEF Next, Pass, addSocket, addSocketThrows, removeSocket, arrive,
       close, run, caught, nextPass, enterPoll, pollThrows, pollReturns, callBack,
       callbackReturns, skipItem, endDispatch, inLoop, vars, loopVars
<1> QED
  BY <1>1, <1>2, <1>3, Zenon

(* The invariant of the progress theorems.                                 *)
LEMMA ProgressInvariant == Spec => [](Inv /\ CalledInv)
<1>1. Init => CalledInv /\ DispatchComplete
  BY DEF Init, CalledInv, DispatchComplete
<1> QED
  BY <1>1, CalledStep, Invariance, PTL DEF Spec

(* A subscribed socket with an event is called or removed, unless the loop *)
(* is left, if no dispatch loop goes on for ever.                          *)
THEOREM NoKeyStarves == FairSpec /\ []PassCanStep /\ DispatchEnds => ReadyIsCalled
<1> DEFINE I == Inv /\ CalledInv
<1>1. FairSpec => []I
  BY ProgressInvariant, PTL DEF FairSpec
<1>2. ASSUME NEW k \in Keys
      PROVE  FairSpec /\ []PassCanStep /\ DispatchEnds =>
               ((HasEvent(k) /\ phase \notin {"idle", "thrown", "aborted"})
                  ~> (phase \in {"idle", "thrown", "aborted"} \/ k \notin DOMAIN subs
                      \/ IsCalled(k)))
  <2> DEFINE H == HasEvent(k)
             P == HasEvent(k) /\ phase \notin {"idle", "thrown", "aborted"}
             Q == phase \in {"idle", "thrown", "aborted"} \/ k \notin DOMAIN subs
                  \/ IsCalled(k)
             D == Due(k)
             Time == phase = "timeouts"
             Top == phase = "top"
             Poll == phase = "poll"
  <2>1. I /\ H /\ [Next]_vars => H' \/ Q'
    BY KeyStaysReady, Zenon DEF CalledOrGone
  <2>2. I /\ D /\ [Next]_vars => Q \/ D' \/ Q'
    BY DueStays, Zenon
  <2>3. I /\ H /\ Pass => (Time => Top') /\ (Top => Poll') /\ (Poll => D' \/ Q')
    BY PassAdvances, PollMakesDue, Zenon
  <2>4. [Next]_vars /\ ~Pass =>
          (Time => Time' \/ Q') /\ (Top => Top' \/ Q') /\ (Poll => Poll' \/ Q')
    BY OthersKeepPhase, Zenon DEF RunLeft
  <2>5. Dispatching /\ [Next]_vars => Dispatching' \/ Time' \/ Q'
    BY DispatchLeft, Zenon
  <2>6. /\ D => Dispatching
        /\ I /\ P => Time \/ Top \/ Poll \/ Dispatching
        /\ P => H
        /\ ~P => ~H \/ Q
    BY Zenon DEF Due, Dispatching, Inv, TypeOK, Phases
  <2>7. PassCanStep /\ (Time \/ Top \/ Poll) => ENABLED <<Pass>>_vars
    BY Zenon DEF PassCanStep, RunLeft
  <2> HIDE DEF I, H, P, Q, D, Time, Top, Poll
  <2>8. FairSpec /\ []PassCanStep /\ DispatchEnds => (P ~> Q)
    BY <1>1, <2>1, <2>2, <2>3, <2>4, <2>5, <2>6, <2>7, PTL DEF FairSpec, Spec, DispatchEnds
  <2> QED
    BY <2>8, Zenon DEF P, Q
<1> QED
  BY <1>2, Zenon DEF ReadyIsCalled

(* An event is not forgotten when run() returns or is left by an exception,*)
(* if runs go on to dispatch and no dispatch loop goes on for ever.  No    *)
(* fairness is needed: the next dispatch loop that begins has it.          *)
THEOREM EventSurvivesRuns == Spec /\ DispatchEnds => ServedAcrossRuns
<1> DEFINE I == Inv /\ CalledInv
           Again == phase = "dispatch"
<1>1. Spec => []I
  BY ProgressInvariant, PTL
<1>2. ASSUME NEW k \in Keys
      PROVE  Spec /\ DispatchEnds /\ []<>Again => (HasEvent(k) ~> CalledOrGone(k))
  <2> DEFINE H == HasEvent(k)
             Q == CalledOrGone(k)
             D == Due(k)
             Dead == phase = "aborted"
  <2>1. I /\ H /\ [Next]_vars => H' \/ Q'
    BY KeyStaysReady, Zenon
  <2>2. I /\ D /\ [Next]_vars => Q \/ D' \/ Dead'
    BY DueStays, Zenon DEF CalledOrGone
  <2>3. I /\ H /\ ~Dispatching /\ [Next]_vars => ~Dispatching' \/ D'
    BY DispatchLeft, PollMakesDue, Zenon
  <2>4. Dead /\ [Next]_vars => Dead'
    BY DispatchLeft, Zenon
  <2>5. (D => Dispatching) /\ (Again => Dispatching /\ ~Dead)
    BY Zenon DEF Due, Dispatching
  <2> HIDE DEF I, Again, H, Q, D, Dead
  <2>6. Spec /\ DispatchEnds /\ []<>Again => (H ~> Q)
    BY <1>1, <2>1, <2>2, <2>3, <2>4, <2>5, PTL DEF Spec, DispatchEnds
  <2> QED
    BY <2>6, Zenon DEF H, Q
<1> QED
  BY <1>2, Zenon DEF ServedAcrossRuns, CalledOrGone
-------------------------------------------------------------------------------
(* What the dispatch loop has still to look at.                            *)
Left == Len(pollItems) + 1 - index
DispatchAt(n) == phase = "dispatch" /\ Left = n
CallbackAt(n) == phase = "callback" /\ Left = n

(* Each turn of the dispatch loop takes one item.                          *)
LEMMA DispatchTurns ==
  ASSUME Inv, NEW n \in Nat, Pass
  PROVE  /\ DispatchAt(n + 1) => CallbackAt(n + 1)' \/ DispatchAt(n)' \/ phase' = "timeouts"
         /\ CallbackAt(n + 1) => DispatchAt(n)'
         /\ DispatchAt(0) => phase' = "timeouts"
<1>1. index \in Nat /\ Len(pollItems) \in Nat
  BY DEF Inv, TypeOK, ListInv
<1> USE DEF DispatchAt, CallbackAt, Left
<1>2. CASE phase = "dispatch"
  <2>1. callBack \/ skipItem \/ endDispatch
    BY <1>2, Zenon DEF Pass, enterPoll, pollThrows, pollReturns, callbackReturns, nextPass
  <2> QED
    BY <1>1, <1>2, <2>1, SMTT(30) DEF callBack, skipItem, endDispatch, inLoop
<1>3. CASE phase = "callback"
  <2>1. callbackReturns
    BY <1>3, Zenon DEF Pass, enterPoll, pollThrows, pollReturns, callBack, inLoop, skipItem,
         endDispatch, nextPass
  <2> QED
    BY <1>1, <1>3, <2>1, SMTT(30) DEF callbackReturns
<1> QED
  BY <1>2, <1>3, Zenon

(* The dispatch loop ends (DispatchEnds) but for counting its items: every *)
(* item it comes to is followed by the next one, or the loop is left.      *)
THEOREM DispatchGoesOn ==
  FairSpec /\ []PassCanStep =>
    /\ [](Dispatching => Left \in Nat)
    /\ \A n \in Nat : (Dispatching /\ Left = n + 1)
                        ~> ((Dispatching /\ Left = n) \/ ~Dispatching)
    /\ (Dispatching /\ Left = 0) ~> ~Dispatching
<1>1. FairSpec => []Inv
  BY Invariance, PTL DEF FairSpec
<1>2. Inv /\ Dispatching => Left \in Nat /\ (phase = "callback" => Left # 0)
  BY DEF Inv, TypeOK, ListInv, DispatchInv, Dispatching, Left
<1>3. ASSUME NEW n \in Nat
      PROVE  FairSpec /\ []PassCanStep =>
               ((Dispatching /\ Left = n + 1)
                   ~> ((Dispatching /\ Left = n) \/ ~Dispatching))
  <2> DEFINE Out == ~Dispatching
             D1 == DispatchAt(n + 1)
             C1 == CallbackAt(n + 1)
             D0 == DispatchAt(n)
             P == Dispatching /\ Left = n + 1
             Q == (Dispatching /\ Left = n) \/ ~Dispatching
  <2>1. Inv /\ Pass => (D1 => C1' \/ D0' \/ Out') /\ (C1 => D0')
    BY DispatchTurns, Zenon DEF Dispatching
  <2>2. [Next]_vars /\ ~Pass => (D1 => D1') /\ (C1 => C1' \/ Out')
    BY Zenon
    DEF DispatchAt, CallbackAt, Left, Next, addSocket, addSocketThrows, removeSocket,
         arrive, close, run, caught, nextPass, vars, loopVars, Dispatching
  <2>3. (P => D1 \/ C1) /\ (D0 \/ Out => Q)
    BY Zenon DEF Dispatching, DispatchAt, CallbackAt
  <2>4. PassCanStep /\ (D1 \/ C1) => ENABLED <<Pass>>_vars
    BY Zenon DEF PassCanStep, RunLeft, DispatchAt, CallbackAt
  <2> HIDE DEF Out, D1, C1, D0, P, Q
  <2>5. FairSpec /\ []PassCanStep => (P ~> Q)
    BY <1>1, <2>1, <2>2, <2>3, <2>4, PTL DEF FairSpec, Spec
  <2> QED
    BY <2>5, Zenon DEF P, Q
<1>4. FairSpec /\ []PassCanStep => ((Dispatching /\ Left = 0) ~> ~Dispatching)
  <2> DEFINE Out == ~Dispatching
             D == DispatchAt(0)
             P == Dispatching /\ Left = 0
  <2>1. Inv /\ Pass /\ D => Out'
    BY DispatchTurns, Zenon DEF Dispatching
  <2>2. [Next]_vars /\ ~Pass /\ D => D'
    BY Zenon
    DEF DispatchAt, Left, Next, addSocket, addSocketThrows, removeSocket, arrive,
         close, run, caught, nextPass, vars, loopVars
  <2>3. Inv /\ P => D
    BY <1>2, Zenon DEF Dispatching, DispatchAt
  <2>4. PassCanStep /\ D => ENABLED <<Pass>>_vars
    BY Zenon DEF PassCanStep, RunLeft, DispatchAt
  <2> HIDE DEF Out, D, P
  <2>5. FairSpec /\ []PassCanStep => (P ~> Out)
    BY <1>1, <2>1, <2>2, <2>3, <2>4, PTL DEF FairSpec, Spec
  <2> QED
    BY <2>5, Zenon DEF P, Out
<1>5. FairSpec => [](Dispatching => Left \in Nat)
  BY <1>1, <1>2, PTL
<1> QED
  BY <1>3, <1>4, <1>5
===============================================================================
