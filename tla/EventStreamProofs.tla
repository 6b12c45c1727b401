------------------------- MODULE EventStreamProofs -------------------------
(***************************************************************************)
(* Proofs about EventStream, for any hosts, clients, capacities and filter *)
(* of each client.                                                         *)
(***************************************************************************)
EXTENDS EventStream, FiniteSetTheorems, TLAPS

(***************************************************************************)
(* Facts about the operators the model is built from.                      *)
(***************************************************************************)

\* What appending to a sequence does to its elements.
LEMMA Appended ==
    ASSUME NEW S, NEW q \in Seq(S), NEW e \in S
    PROVE  /\ Append(q, e) \in Seq(S)
           /\ Len(Append(q, e)) = Len(q) + 1
           /\ DOMAIN Append(q, e) = 1 .. Len(q) + 1
           /\ Append(q, e)[Len(q) + 1] = e
           /\ \A i \in 1 .. Len(q) : Append(q, e)[i] = q[i]
  OBVIOUS

\* What taking the first element off a sequence does to the others.
LEMMA Trimmed ==
    ASSUME NEW S, NEW q \in Seq(S), q # <<>>
    PROVE  /\ Head(q) \in S /\ Head(q) = q[1] /\ 1 \in DOMAIN q
           /\ Tail(q) \in Seq(S)
           /\ Len(q) \in Nat \ {0}
           /\ Len(Tail(q)) = Len(q) - 1
           /\ \A i \in 1 .. Len(q) - 1 : Tail(q)[i] = q[i + 1]
  OBVIOUS

\* The ring stays within its capacity, its newest element is the one stored, and
\* the others keep their order, shifted by one if the oldest made room.
LEMMA Stored ==
    ASSUME items \in Seq(Event), Len(items) <= Cap, NEW e \in Event
    PROVE  /\ Store(e) \in Seq(Event)
           /\ Len(Store(e)) <= Cap
           /\ Len(Store(e)) = IF Len(items) >= Cap THEN Len(items) ELSE Len(items) + 1
           /\ Store(e)[Len(Store(e))] = e
           /\ \A i \in 1 .. Len(Store(e)) - 1 :
                  Store(e)[i] = items[i + Len(items) + 1 - Len(Store(e))]
<1>1. Cap \in Nat \ {0} /\ Len(items) \in Nat
  BY SizeAssumption
<1>2. CASE Len(items) >= Cap
  <2>1. items # <<>> /\ Store(e) = Append(Tail(items), e)
    BY <1>1, <1>2 DEF Store
  <2>2. /\ Tail(items) \in Seq(Event)
        /\ Len(Tail(items)) = Len(items) - 1
        /\ \A i \in 1 .. Len(items) - 1 : Tail(items)[i] = items[i + 1]
    BY <2>1, Trimmed
  <2>3. /\ Store(e) \in Seq(Event)
        /\ Len(Store(e)) = Len(items)
        /\ Store(e)[Len(items)] = e
        /\ \A i \in 1 .. Len(items) - 1 : Store(e)[i] = Tail(items)[i]
    BY <1>1, <1>2, <2>1, <2>2, Appended
  <2>4. QED
    BY <1>1, <1>2, <2>2, <2>3
<1>3. CASE ~(Len(items) >= Cap)
  <2>1. Store(e) = Append(items, e)
    BY <1>3 DEF Store
  <2>2. QED
    BY <1>1, <1>3, <2>1, Appended
<1>4. QED
  BY <1>2, <1>3

\* Since returns events of the ring, newer than id, that the filter lets through.
LEMMA SinceIsNewer ==
    ASSUME NEW id, NEW limit, NEW sees, NEW e \in Since(id, limit, sees)
    PROVE  /\ \E i \in DOMAIN items : e = items[i]
           /\ e.id > id
           /\ e.host \in sees
  BY DEF Since, Range

\* The last element of an increasing sequence is its greatest.
LEMMA LastIsGreatest ==
    ASSUME TypeOK, NEW c \in Clients,
           \A j, k \in DOMAIN got[c] : j < k => got[c][j] < got[c][k]
    PROVE  /\ LastRead(c) \in Nat
           /\ \A j \in DOMAIN got[c] : got[c][j] <= LastRead(c)
<1>1. got[c] \in Seq(Nat)
  BY DEF TypeOK
<1>2. CASE got[c] = <<>>
  BY <1>2 DEF LastRead
<1>3. CASE got[c] # <<>>
  <2>1. LastRead(c) = got[c][Len(got[c])]
    BY <1>3 DEF LastRead
  <2>2. Len(got[c]) \in DOMAIN got[c] /\ DOMAIN got[c] = 1 .. Len(got[c])
    BY <1>1, <1>3
  <2>3. ASSUME NEW j \in DOMAIN got[c]
        PROVE  got[c][j] <= got[c][Len(got[c])]
    BY <1>1, <2>2
  <2>4. QED
    BY <1>1, <2>1, <2>2, <2>3
<1>4. QED
  BY <1>2, <1>3

(***************************************************************************)
(* Type correctness.                                                       *)
(***************************************************************************)

LEMMA TypeInit == Init => TypeOK
  BY SizeAssumption DEF Init, TypeOK, PC

\* Append keeps the types: the ring and every channel stay within their capacity.
LEMMA TypeAppend == TypeOK /\ (\E h \in Hosts : AppendEvent(h)) => TypeOK'
<1> SUFFICES ASSUME TypeOK, NEW h \in Hosts, AppendEvent(h) PROVE TypeOK'
  OBVIOUS
<1> DEFINE e == [id |-> nextID + 1, host |-> h]
<1>1. e \in Event /\ nextID + 1 \in Nat
  BY DEF TypeOK, Event
<1>2. items' \in Seq(Event) /\ Len(items') <= Cap
  BY <1>1, Stored DEF TypeOK, AppendEvent
<1>3. log' \in Seq(Hosts)
  BY DEF TypeOK, AppendEvent
<1>4. \A c \in Clients : chan'[c] \in Seq(Event) /\ Len(chan'[c]) <= Buf
  <2> SUFFICES ASSUME NEW c \in Clients
               PROVE  chan'[c] \in Seq(Event) /\ Len(chan'[c]) <= Buf
    OBVIOUS
  <2>1. chan[c] \in Seq(Event) /\ Len(chan[c]) <= Buf /\ Buf \in Nat
    BY SizeAssumption DEF TypeOK
  <2>2. chan'[c] = IF c \in subs /\ Len(chan[c]) < Buf THEN Append(chan[c], e) ELSE chan[c]
    BY DEF AppendEvent, Sent
  <2>3. QED
    BY <1>1, <2>1, <2>2, Appended
<1>5. chan' \in [Clients -> Seq(Event)]
  BY <1>4 DEF AppendEvent, Sent
<1>6. missed' \in [Clients -> SUBSET Nat]
  BY <1>1 DEF TypeOK, AppendEvent
<1>7. QED
  BY <1>1, <1>2, <1>3, <1>4, <1>5, <1>6 DEF TypeOK, AppendEvent, handler

\* The client's steps keep the types.
LEMMA TypeClient ==
    ASSUME TypeOK, NEW c \in Clients, Connect(c) \/ Disconnect(c)
    PROVE  TypeOK'
<1>1. LastRead(c) \in Nat
  BY DEF TypeOK, LastRead
<1>2. CASE Connect(c)
  <2>1. /\ UNCHANGED <<items, nextID, log, subs, chan, closed, todo, got, mark, joined, missed>>
        /\ gone' = [gone EXCEPT ![c] = FALSE]
    BY <1>2 DEF Connect, history
  <2>2. \/ since' = [since EXCEPT ![c] = LastRead(c)]
        \/ since' = [since EXCEPT ![c] = NoSince]
    BY <1>2 DEF Connect
  <2>3. since' \in [Clients -> Nat \cup {NoSince}] /\ gone' \in [Clients -> BOOLEAN]
    <3>1. since \in [Clients -> Nat \cup {NoSince}] /\ gone \in [Clients -> BOOLEAN]
      BY DEF TypeOK
    <3>2. QED
      BY ONLY <1>1, <2>1, <2>2, <3>1
  <2>4. pc' \in [Clients -> PC]
    BY <1>2 DEF Connect, TypeOK, PC
  <2>5. QED
    BY <2>1, <2>3, <2>4 DEF TypeOK
<1>3. CASE Disconnect(c)
  BY <1>3 DEF Disconnect, TypeOK, history
<1>4. QED
  BY <1>2, <1>3

\* Writing an event keeps the types.
LEMMA TypeWrite ==
    ASSUME TypeOK, NEW c \in Clients, WriteOldest(c)
    PROVE  todo' \in [Clients -> SUBSET Event] /\ got' \in [Clients -> Seq(Nat)]
<1>1. PICK e \in todo[c] :
          /\ todo' = [todo EXCEPT ![c] = todo[c] \ {e}]
          /\ got' = IF gone[c] THEN got ELSE [got EXCEPT ![c] = Append(got[c], e.id)]
  BY DEF WriteOldest
<1>2. e \in Event /\ e.id \in Nat
  BY DEF TypeOK, Event
<1>3. Append(got[c], e.id) \in Seq(Nat)
  BY <1>2 DEF TypeOK
<1>4. QED
  BY <1>1, <1>3 DEF TypeOK

\* The handler's steps keep the types.
LEMMA TypeHandler ==
    ASSUME TypeOK, NEW c \in Clients, HandlerStep(c)
    PROVE  TypeOK'
<1>1. CASE Replay(c)
  <2>1. Since(since[c], Limit, Sees[c]) \subseteq Event
    <3>1. \A i \in DOMAIN items : items[i] \in Event
      BY DEF TypeOK
    <3>2. QED
      BY <3>1, SinceIsNewer
  <2>2. QED
    BY <1>1, <2>1 DEF Replay, TypeOK, PC
<1>2. CASE WriteReplay(c)
  BY <1>2, TypeWrite DEF WriteReplay, TypeOK, history
<1>3. CASE ReplayFails(c)
  BY <1>3 DEF ReplayFails, TypeOK, PC, history
<1>4. CASE Subscribe(c)
  <2>1. <<>> \in Seq(Event) /\ Len(<<>>) <= Buf
    BY SizeAssumption
  <2>2. QED
    BY <1>4, <2>1 DEF Subscribe, TypeOK, PC
<1>5. CASE Receive(c)
  <2>1. chan[c] \in Seq(Event) /\ chan[c] # <<>> /\ Len(chan[c]) <= Buf /\ Buf \in Nat
    BY <1>5, SizeAssumption DEF Receive, TypeOK
  <2>2. /\ Head(chan[c]) \in Event /\ Tail(chan[c]) \in Seq(Event)
        /\ Len(Tail(chan[c])) <= Buf
    BY <2>1, Trimmed
  <2>3. /\ chan' \in [Clients -> Seq(Event)]
        /\ \A d \in Clients : Len(chan'[d]) <= Buf
    BY <1>5, <2>2 DEF Receive, TypeOK
  <2>4. todo' \in [Clients -> SUBSET Event] /\ pc' \in [Clients -> PC]
    <3>1. PICK e \in Event : e = Head(chan[c])
      BY <2>2
    <3>2. \/ todo' = [todo EXCEPT ![c] = {e}] /\ pc' = [pc EXCEPT ![c] = "write"]
          \/ UNCHANGED <<todo, pc>>
      BY <1>5, <3>1 DEF Receive
    <3>3. CASE todo' = [todo EXCEPT ![c] = {e}] /\ pc' = [pc EXCEPT ![c] = "write"]
      <4>1. {e} \in SUBSET Event
        BY <3>1
      <4>2. QED
        BY <3>3, <4>1 DEF TypeOK, PC
    <3>4. QED
      BY <3>2, <3>3 DEF TypeOK
  <2>5. QED
    BY <1>5, <2>3, <2>4 DEF Receive, TypeOK, history
<1>6. CASE WriteLive(c)
  BY <1>6, TypeWrite DEF WriteLive, TypeOK, PC, history
<1>7. CASE Quit(c)
  BY <1>7 DEF Quit, TypeOK, PC, history
<1>8. CASE Unsubscribe(c)
  BY <1>8 DEF Unsubscribe, TypeOK, PC, history
<1>9. CASE Close(c)
  <2>1. <<>> \in Seq(Event) /\ Len(<<>>) <= Buf
    BY SizeAssumption
  <2>2. QED
    BY <1>9, <2>1 DEF Close, TypeOK, PC, history
<1>10. QED
  BY <1>1, <1>2, <1>3, <1>4, <1>5, <1>6, <1>7, <1>8, <1>9
  DEF HandlerStep, LocalStep, WriteStep, QuitStep

\* Every step keeps the types.
LEMMA TypeNext == TypeOK /\ [Next]_vars => TypeOK'
<1> SUFFICES ASSUME TypeOK, [Next]_vars PROVE TypeOK'
  OBVIOUS
<1>1. CASE UNCHANGED vars
  BY <1>1 DEF vars, handler, history, TypeOK
<1>2. CASE Next
  BY <1>2, TypeAppend, TypeClient, TypeHandler DEF Next
<1>3. QED
  BY <1>1, <1>2

\* Every reachable state of the log and its streams is well typed.
THEOREM TypeCorrect == Spec => []TypeOK
  BY TypeInit, TypeNext, PTL DEF Spec

(***************************************************************************)
(* Subscriptions.                                                          *)
(***************************************************************************)

\* Every step keeps subs and the handlers in agreement.
LEMMA SubscribersNext ==
    TypeOK /\ SubscribersAreOpen /\ [Next]_vars => SubscribersAreOpen'
<1> SUFFICES ASSUME TypeOK, SubscribersAreOpen, [Next]_vars PROVE SubscribersAreOpen'
  OBVIOUS
<1> USE DEF SubscribersAreOpen, TypeOK
<1>1. CASE UNCHANGED vars
  <2>1. UNCHANGED <<subs, closed, pc>>
    BY <1>1 DEF vars, handler
  <2>2. QED
    BY <2>1
<1>2. CASE \E h \in Hosts : AppendEvent(h)
  <2>1. UNCHANGED <<subs, closed, pc>>
    BY <1>2 DEF AppendEvent, handler
  <2>2. QED
    BY <2>1
<1>3. ASSUME NEW c \in Clients, Connect(c) \/ Disconnect(c) PROVE SubscribersAreOpen'
  <2>1. CASE Connect(c)
    BY <2>1 DEF Connect
  <2>2. CASE Disconnect(c)
    BY <2>2 DEF Disconnect
  <2>3. QED
    BY <1>3, <2>1, <2>2
<1>4. ASSUME NEW c \in Clients, Replay(c) \/ WriteStep(c) \/ QuitStep(c)
      PROVE  SubscribersAreOpen'
  <2>1. UNCHANGED <<subs, closed>>
    BY <1>4 DEF Replay, WriteStep, WriteReplay, WriteLive, QuitStep, ReplayFails, Quit
  <2>2. CASE Replay(c) \/ WriteReplay(c) \/ ReplayFails(c)
    BY <2>1, <2>2 DEF Replay, WriteReplay, ReplayFails
  <2>3. CASE WriteLive(c)
    BY <2>1, <2>3 DEF WriteLive
  <2>4. CASE Quit(c)
    BY <2>1, <2>4 DEF Quit
  <2>5. QED
    BY <1>4, <2>2, <2>3, <2>4 DEF WriteStep, QuitStep
<1>5. ASSUME NEW c \in Clients, Subscribe(c) PROVE SubscribersAreOpen'
  BY <1>5 DEF Subscribe
<1>6. ASSUME NEW c \in Clients, Receive(c) PROVE SubscribersAreOpen'
  BY <1>6 DEF Receive
<1>7. ASSUME NEW c \in Clients, Unsubscribe(c) \/ Close(c) PROVE SubscribersAreOpen'
  <2>1. CASE Unsubscribe(c)
    BY <2>1 DEF Unsubscribe
  <2>2. CASE Close(c)
    BY <2>2 DEF Close
  <2>3. QED
    BY <1>7, <2>1, <2>2
<1>8. QED
  BY <1>1, <1>2, <1>3, <1>4, <1>5, <1>6, <1>7 DEF Next, HandlerStep, LocalStep

\* No event is ever sent on a closed channel, and no subscription outlives its
\* handler.
THEOREM SubscribersOpen == Spec => []SubscribersAreOpen
<1>1. Init => SubscribersAreOpen
  BY DEF Init, SubscribersAreOpen
<1>2. QED
  BY <1>1, TypeInit, TypeNext, SubscribersNext, PTL DEF Spec

(***************************************************************************)
(* The order of the events.                                                *)
(***************************************************************************)

\* Two logged events with the same ID are the same.
LEMMA SameID ==
    ASSUME NEW e \in Event, NEW f \in Event, Logged(e), Logged(f), e.id = f.id
    PROVE  e = f
  BY DEF Event, Logged

\* Where an event of the ring stood before another one was stored.
LEMMA RingIndex ==
    ASSUME NEW n \in Nat, NEW l \in 0 .. n, NEW m \in {l, l + 1}, NEW i \in 1 .. m, i # m
    PROVE  /\ i \in 1 .. m - 1
           /\ i + l + 1 - m \in 1 .. l
           /\ n - l + (i + l + 1 - m) = n + 1 - m + i
           /\ n - l + (i + l + 1 - m) \in 1 .. n
  OBVIOUS

\* Append stores the newest event at the end of the ring.
LEMMA RingAppend ==
    ASSUME TypeOK, RingIsNewest, NEW h \in Hosts, AppendEvent(h),
           NEW e, e = [id |-> nextID + 1, host |-> h]
    PROVE  /\ RingIsNewest'
           /\ \A f \in Event : Logged(f) => Logged(f)'
           /\ DOMAIN log' = 1 .. nextID + 1
           /\ Logged(e)'
<1>1. /\ e \in Event /\ nextID \in Nat /\ Len(items) \in Nat /\ Len(items) <= nextID
      /\ nextID = Len(log) /\ log \in Seq(Hosts) /\ items \in Seq(Event)
      /\ nextID' = nextID + 1 /\ items' = Store(e) /\ log' = Append(log, h)
  BY DEF TypeOK, RingIsNewest, AppendEvent, Event
<1>2. /\ Len(log') = nextID + 1 /\ DOMAIN log' = 1 .. nextID + 1
      /\ log'[nextID + 1] = h
      /\ \A i \in 1 .. nextID : log'[i] = log[i]
  BY <1>1, Appended
<1>3. Logged(e)'
  BY <1>1, <1>2 DEF Logged
<1>4. \A f \in Event : Logged(f) => Logged(f)'
  BY <1>1, <1>2 DEF Logged
<1>5. ASSUME NEW i \in DOMAIN items'
      PROVE  /\ items'[i].id = nextID' - Len(items') + i
             /\ items'[i].host = log'[items'[i].id]
  <2>1. /\ i \in 1 .. Len(items') /\ Len(items') \in Nat
        /\ Len(items') = Len(items) \/ Len(items') = Len(items) + 1
        /\ items'[Len(items')] = e
        /\ \A j \in 1 .. Len(items') - 1 :
               items'[j] = items[j + Len(items) + 1 - Len(items')]
    <3>1. /\ Store(e) \in Seq(Event)
          /\ Len(Store(e)) = IF Len(items) >= Cap THEN Len(items) ELSE Len(items) + 1
          /\ Store(e)[Len(Store(e))] = e
          /\ \A j \in 1 .. Len(Store(e)) - 1 :
                 Store(e)[j] = items[j + Len(items) + 1 - Len(Store(e))]
      BY <1>1, Stored DEF TypeOK
    <3>2. i \in 1 .. Len(items') /\ Len(items') \in Nat
      BY <1>1, <3>1
    <3>3. QED
      BY <1>1, <3>1, <3>2
  <2>2. CASE i = Len(items')
    BY <1>1, <1>2, <2>1, <2>2
  <2>3. CASE i # Len(items')
    <3> DEFINE k == i + Len(items) + 1 - Len(items')
    <3>1. /\ i \in 1 .. Len(items') - 1
          /\ k \in 1 .. Len(items)
          /\ nextID - Len(items) + k = nextID + 1 - Len(items') + i
          /\ nextID - Len(items) + k \in 1 .. nextID
      <4>1. /\ nextID \in Nat /\ Len(items) \in 0 .. nextID
            /\ Len(items') \in {Len(items), Len(items) + 1}
        BY <1>1, <2>1
      <4>2. i \in 1 .. Len(items') /\ i # Len(items')
        BY <2>1, <2>3
      <4>3. QED
        BY <4>1, <4>2, RingIndex
    <3>2. items'[i] = items[k]
      BY <2>1, <3>1
    <3> HIDE DEF k
    <3>3. k \in DOMAIN items
      BY <1>1, <3>1
    <3>4. /\ items[k].id = nextID - Len(items) + k
          /\ items[k].host = log[items[k].id]
      BY <3>3 DEF RingIsNewest
    <3>5. items'[i].id = nextID' - Len(items') + i
      <4>1. nextID' = nextID + 1
        BY <1>1
      <4>2. nextID - Len(items) + k = nextID + 1 - Len(items') + i
        BY <3>1
      <4>3. items'[i].id = nextID - Len(items) + k
        BY <3>2, <3>4
      <4>4. /\ nextID \in Int /\ Len(items) \in Int /\ Len(items') \in Int
            /\ k \in Int /\ i \in Int
        BY <1>1, <2>1, <3>1
      <4>5. QED
        BY ONLY <4>1, <4>2, <4>3, <4>4
    <3>6. items'[i].host = log'[items'[i].id]
      <4>1. items[k].id \in 1 .. nextID
        <5>1. nextID - Len(items) + k \in 1 .. nextID
          BY <3>1
        <5>2. QED
          BY ONLY <3>4, <5>1, Zenon
      <4>2. log'[items[k].id] = log[items[k].id]
        BY ONLY <1>2, <4>1
      <4>3. QED
        BY ONLY <3>2, <3>4, <4>2
    <3>7. QED
      BY <3>5, <3>6
  <2>4. QED
    BY <2>2, <2>3
<1>6. Len(items') <= nextID'
  BY <1>1, Stored DEF TypeOK
<1>7. QED
  BY <1>1, <1>2, <1>3, <1>4, <1>5, <1>6 DEF RingIsNewest

\* Append puts the newest event behind all that a handler holds.
LEMMA OrderAppend ==
    ASSUME TypeOK, SubscribersAreOpen, OrderInv, NEW h \in Hosts, AppendEvent(h)
    PROVE  OrderInv'
<1> PICK e : e = [id |-> nextID + 1, host |-> h]
  OBVIOUS
<1>1. /\ RingIsNewest'
      /\ \A f \in Event : Logged(f) => Logged(f)'
      /\ DOMAIN log = 1 .. nextID /\ nextID \in Nat
      /\ DOMAIN log' = 1 .. nextID + 1
      /\ Logged(e)'
  BY RingAppend DEF OrderInv, RingIsNewest, TypeOK
<1>e. e \in Event /\ e.id = nextID + 1
  BY <1>1 DEF Event
<1>2. UNCHANGED handler
  BY DEF AppendEvent
<1>3. ASSUME NEW c \in Clients PROVE HandlerInOrder(c)'
  <2>1. /\ chan[c] \in Seq(Event) /\ todo[c] \subseteq Event /\ got[c] \in Seq(Nat)
        /\ HandlerInOrder(c)
    BY DEF TypeOK, OrderInv
  <2>2. /\ \A j \in DOMAIN got[c] : got[c][j] < e.id
        /\ \A f \in todo[c] : f.id < e.id
        /\ \A i \in DOMAIN chan[c] : chan[c][i].id < e.id
    BY <1>1, <1>e, <2>1 DEF HandlerInOrder, Logged
  <2>3. CASE chan'[c] = chan[c]
    <3>1. /\ \A f \in todo[c] : Logged(f)'
          /\ \A i \in DOMAIN chan[c] : Logged(chan[c][i])'
      <4>1. \A i \in DOMAIN chan[c] : chan[c][i] \in Event /\ Logged(chan[c][i])
        BY <2>1 DEF HandlerInOrder
      <4>2. \A f \in todo[c] : f \in Event /\ Logged(f)
        BY <2>1 DEF HandlerInOrder
      <4>3. \A i \in DOMAIN chan[c] : chan'[c][i] = chan[c][i]
        BY <2>3
      <4>4. QED
        BY <1>1, <2>3, <4>1, <4>2, <4>3
    <3>2. DOMAIN log \subseteq DOMAIN log'
      BY <1>1 DEF TypeOK
    <3>3. /\ todo'[c] = todo[c] /\ got'[c] = got[c] /\ pc'[c] = pc[c] /\ since'[c] = since[c]
          /\ LastRead(c)' = LastRead(c)
      BY <1>2 DEF handler, LastRead
    <3>4. QED
      BY ONLY <2>1, <2>3, <3>1, <3>2, <3>3 DEF HandlerInOrder
  <2>4. CASE c \in subs /\ chan'[c] = Append(chan[c], e)
    <3>1. /\ DOMAIN chan'[c] = 1 .. Len(chan[c]) + 1
          /\ DOMAIN chan[c] = 1 .. Len(chan[c]) /\ Len(chan[c]) \in Nat
          /\ chan'[c][Len(chan[c]) + 1] = e
          /\ \A i \in 1 .. Len(chan[c]) : chan'[c][i] = chan[c][i]
      BY <1>e, <2>1, <2>4, Appended
    <3>2. ASSUME NEW i \in DOMAIN chan'[c]
          PROVE  /\ Logged(chan[c][i])'
                 /\ \A j \in DOMAIN got[c] : got[c][j] < chan'[c][i].id
                 /\ \A f \in todo[c] : f.id < chan'[c][i].id
                 /\ \A k \in DOMAIN chan'[c] : i < k => chan'[c][i].id < chan'[c][k].id
      <4>1. CASE i = Len(chan[c]) + 1
        BY <1>1, <2>1, <2>2, <3>1, <4>1
      <4>2. CASE i \in 1 .. Len(chan[c])
        <5>1. chan'[c][i] = chan[c][i] /\ chan[c][i] \in Event /\ i \in DOMAIN chan[c]
          BY <2>1, <3>1, <4>2
        <5>2. /\ Logged(chan[c][i])
              /\ \A j \in DOMAIN got[c] : got[c][j] < chan[c][i].id
              /\ \A f \in todo[c] : f.id < chan[c][i].id
              /\ \A k \in DOMAIN chan[c] : i < k => chan[c][i].id < chan[c][k].id
          BY <2>1, <5>1 DEF HandlerInOrder
        <5>3. \A k \in DOMAIN chan'[c] : i < k => chan'[c][i].id < chan'[c][k].id
          <6> SUFFICES ASSUME NEW k \in DOMAIN chan'[c], i < k
                       PROVE  chan[c][i].id < chan'[c][k].id
            BY <5>1
          <6>1. CASE k = Len(chan[c]) + 1
            BY ONLY <2>2, <3>1, <5>1, <6>1
          <6>2. CASE k \in 1 .. Len(chan[c])
            BY ONLY <3>1, <5>2, <6>2, i < k
          <6>3. QED
            BY ONLY <3>1, <6>1, <6>2, k \in DOMAIN chan'[c]
        <5>4. QED
          BY <1>1, <5>1, <5>2, <5>3
      <4>3. QED
        BY <3>1, <4>1, <4>2
    <3>3. pc[c] \in {"live", "write", "unsub", "close"}
      BY <2>4 DEF SubscribersAreOpen
    <3>4. QED
      BY <1>1, <1>2, <2>1, <3>2, <3>3 DEF HandlerInOrder, handler, LastRead
  <2>5. QED
    BY <2>3, <2>4 DEF AppendEvent, Sent
<1>4. QED
  BY <1>1, <1>3 DEF OrderInv

\* A handler's place in the order depends on its own variables and the log only.
LEMMA OrderLocality ==
    ASSUME TypeOK, OrderInv, NEW c \in Clients, UNCHANGED <<items, nextID, log>>,
           HandlerInOrder(c)',
           \A d \in Clients \ {c} :
               /\ pc'[d] = pc[d] /\ since'[d] = since[d] /\ todo'[d] = todo[d]
               /\ got'[d] = got[d] /\ chan'[d] = chan[d]
    PROVE  OrderInv'
<1>1. RingIsNewest'
  BY DEF OrderInv, RingIsNewest
<1>2. ASSUME NEW d \in Clients \ {c} PROVE HandlerInOrder(d)'
  <2>1. HandlerInOrder(d)
    BY DEF OrderInv
  <2>2. /\ pc'[d] = pc[d] /\ since'[d] = since[d] /\ todo'[d] = todo[d]
        /\ got'[d] = got[d] /\ chan'[d] = chan[d] /\ log' = log
    OBVIOUS
  <2>3. QED
    BY <2>1, <2>2 DEF HandlerInOrder, Logged, LastRead
<1>3. QED
  BY <1>1, <1>2 DEF OrderInv

\* The client's steps keep the order.
LEMMA OrderClient ==
    ASSUME TypeOK, OrderInv, NEW c \in Clients, Connect(c) \/ Disconnect(c)
    PROVE  OrderInv'
<1>1. HandlerInOrder(c)
  BY DEF OrderInv
<1>2. CASE Connect(c)
  <2>1. /\ todo'[c] = todo[c] /\ got'[c] = got[c] /\ chan'[c] = chan[c] /\ log' = log
        /\ pc[c] = "none" /\ pc'[c] \in {"since", "subscribe"}
        /\ pc'[c] = "since" => since'[c] = LastRead(c)
    BY <1>2 DEF Connect, TypeOK
  <2>2. HandlerInOrder(c)'
    BY <1>1, <2>1 DEF HandlerInOrder, Logged, LastRead
  <2>3. QED
    BY <1>2, <2>2, OrderLocality DEF Connect, TypeOK
<1>3. CASE Disconnect(c)
  <2>1. HandlerInOrder(c)'
    BY <1>1, <1>3 DEF Disconnect, HandlerInOrder, Logged, LastRead
  <2>2. QED
    BY <1>3, <2>1, OrderLocality DEF Disconnect
<1>4. QED
  BY <1>2, <1>3

\* Writing the oldest accepted event keeps what is read in order, and before the rest.
LEMMA OrderWrite ==
    ASSUME TypeOK, NEW c \in Clients, HandlerInOrder(c), WriteOldest(c)
    PROVE  /\ \A j \in DOMAIN got'[c] : got'[c][j] \in DOMAIN log
           /\ \A j, k \in DOMAIN got'[c] : j < k => got'[c][j] < got'[c][k]
           /\ todo'[c] \subseteq todo[c]
           /\ \A e \in todo'[c] : \A j \in DOMAIN got'[c] : got'[c][j] < e.id
           /\ \A i \in DOMAIN chan[c] : \A j \in DOMAIN got'[c] : got'[c][j] < chan[c][i].id
<1>1. PICK e \in todo[c] :
          /\ \A f \in todo[c] : e.id <= f.id
          /\ todo' = [todo EXCEPT ![c] = todo[c] \ {e}]
          /\ got' = IF gone[c] THEN got ELSE [got EXCEPT ![c] = Append(got[c], e.id)]
  BY DEF WriteOldest
<1>2. /\ todo[c] \subseteq Event /\ e \in Event /\ got[c] \in Seq(Nat)
      /\ todo'[c] = todo[c] \ {e}
  BY <1>1 DEF TypeOK
<1>3. \A f \in todo[c] : f.id \in Nat
  BY <1>2 DEF Event
<1>4. \A f \in todo'[c] : e.id < f.id
  <2> SUFFICES ASSUME NEW f \in todo'[c] PROVE e.id < f.id
    OBVIOUS
  <2>1. f \in todo[c] /\ f # e /\ e.id <= f.id /\ Logged(e) /\ Logged(f)
    BY <1>1, <1>2 DEF HandlerInOrder
  <2>2. e.id # f.id
    BY <1>2, <2>1, SameID
  <2>3. QED
    BY <1>3, <2>1, <2>2
<1>5. CASE gone[c]
  BY <1>1, <1>2, <1>5 DEF HandlerInOrder
<1>6. CASE ~gone[c]
  <2>1. /\ got'[c] = Append(got[c], e.id) /\ e.id \in Nat
    BY <1>1, <1>2, <1>3, <1>6 DEF TypeOK
  <2>2. /\ DOMAIN got[c] = 1 .. Len(got[c]) /\ Len(got[c]) \in Nat
        /\ DOMAIN got'[c] = 1 .. Len(got[c]) + 1
        /\ got'[c][Len(got[c]) + 1] = e.id
        /\ \A i \in 1 .. Len(got[c]) : got'[c][i] = got[c][i] /\ got[c][i] \in Nat
    BY <1>2, <2>1, Appended
  <2>3. /\ e.id \in DOMAIN log
        /\ \A j \in DOMAIN got[c] : got[c][j] < e.id
        /\ \A i \in DOMAIN chan[c] : e.id < chan[c][i].id
    BY DEF HandlerInOrder, Logged
  <2>4. \A j \in DOMAIN got'[c] : got'[c][j] \in DOMAIN log /\ got'[c][j] <= e.id
    BY <2>1, <2>2, <2>3 DEF HandlerInOrder
  <2>5. \A j, k \in DOMAIN got'[c] : j < k => got'[c][j] < got'[c][k]
    <3> SUFFICES ASSUME NEW j \in DOMAIN got'[c], NEW k \in DOMAIN got'[c], j < k
                 PROVE  got'[c][j] < got'[c][k]
      OBVIOUS
    <3>1. j \in 1 .. Len(got[c]) /\ got'[c][j] = got[c][j]
      BY <2>2
    <3>2. CASE k = Len(got[c]) + 1
      BY <2>2, <2>3, <3>1, <3>2
    <3>3. CASE k # Len(got[c]) + 1
      <4>1. k \in 1 .. Len(got[c]) /\ got'[c][k] = got[c][k]
        BY <2>2, <3>3
      <4>2. got[c][j] < got[c][k]
        BY <2>2, <3>1, <4>1 DEF HandlerInOrder
      <4>3. QED
        BY <3>1, <4>1, <4>2
    <3>4. QED
      BY <3>2, <3>3
  <2>6. \A f \in todo'[c] : \A j \in DOMAIN got'[c] : got'[c][j] < f.id
    <3> SUFFICES ASSUME NEW f \in todo'[c], NEW j \in DOMAIN got'[c]
                 PROVE  got'[c][j] < f.id
      OBVIOUS
    <3>1. e.id < f.id /\ f.id \in Nat /\ e.id \in Nat
      BY <1>2, <1>3, <1>4, <2>1
    <3>2. got'[c][j] <= e.id /\ got'[c][j] \in Nat
      BY <2>1, <2>2, <2>4
    <3>3. QED
      BY ONLY <3>1, <3>2
  <2>7. \A i \in DOMAIN chan[c] : \A j \in DOMAIN got'[c] : got'[c][j] < chan[c][i].id
    BY <2>2, <2>3 DEF HandlerInOrder
  <2>8. QED
    BY <1>2, <2>4, <2>5, <2>6, <2>7
<1>7. QED
  BY <1>5, <1>6

\* The handler's steps keep the order.
LEMMA OrderHandler ==
    ASSUME TypeOK, OrderInv, NEW c \in Clients, HandlerStep(c)
    PROVE  OrderInv'
<1>1. HandlerInOrder(c)
  BY DEF OrderInv
<1>2. CASE Replay(c)
  <2>1. /\ todo'[c] = Since(since[c], Limit, Sees[c]) /\ pc[c] = "since" /\ pc'[c] = "replay"
        /\ chan'[c] = chan[c] /\ got'[c] = got[c] /\ log' = log
    BY <1>2 DEF Replay, TypeOK
  <2>2. /\ LastRead(c) \in Nat /\ since[c] = LastRead(c) /\ got[c] \in Seq(Nat)
        /\ \A j \in DOMAIN got[c] : got[c][j] <= LastRead(c)
    BY <1>1, <2>1, LastIsGreatest DEF HandlerInOrder, TypeOK
  <2>3. ASSUME NEW e \in todo'[c]
        PROVE  /\ Logged(e) /\ e.host \in Sees[c]
               /\ \A j \in DOMAIN got[c] : got[c][j] < e.id
    <3>1. PICK i \in DOMAIN items : e = items[i]
      BY <2>1, <2>3, SinceIsNewer
    <3>2. e.id > since[c] /\ e.host \in Sees[c]
      BY <2>1, <2>3, SinceIsNewer
    <3>3. /\ i \in 1 .. Len(items) /\ Len(items) \in Nat /\ nextID \in Nat
          /\ Len(items) <= nextID /\ DOMAIN log = 1 .. nextID
          /\ e.id = nextID - Len(items) + i /\ e.host = log[e.id]
      BY <3>1 DEF OrderInv, RingIsNewest, TypeOK
    <3>4. Logged(e) /\ e.id \in Nat
      <4>1. PICK len \in Nat : len = Len(items)
        BY <3>3
      <4>2. nextID - len + i \in 1 .. nextID
        BY ONLY <3>3, <4>1
      <4>3. e.id \in 1 .. nextID /\ e.id \in Nat
        BY ONLY <3>3, <4>1, <4>2
      <4>4. QED
        BY <3>3, <4>3 DEF Logged
    <3>5. ASSUME NEW j \in DOMAIN got[c] PROVE got[c][j] < e.id
      <4>1. got[c][j] \in Nat /\ got[c][j] <= since[c] /\ since[c] \in Nat
        BY <2>2
      <4>2. QED
        BY <3>2, <3>4, <4>1
    <3>6. QED
      BY <3>2, <3>4, <3>5
  <2>4. chan[c] = <<>>
    BY <1>1, <2>1 DEF HandlerInOrder
  <2>5. HandlerInOrder(c)'
    BY <1>1, <2>1, <2>3, <2>4 DEF HandlerInOrder, Logged
  <2>6. QED
    BY <1>2, <2>5, OrderLocality DEF Replay, TypeOK
<1>3. CASE WriteReplay(c) \/ WriteLive(c)
  <2>1. /\ WriteOldest(c) /\ UNCHANGED <<items, nextID, log, chan, since>>
        /\ \/ pc[c] = "replay" /\ pc'[c] = "replay"
           \/ pc[c] = "write" /\ pc'[c] = "live"
        /\ pc' = pc \/ pc' = [pc EXCEPT ![c] = "live"]
    <3>1. CASE WriteReplay(c)
      BY <3>1 DEF WriteReplay
    <3>2. CASE WriteLive(c)
      BY <3>2 DEF WriteLive, TypeOK
    <3>3. QED
      BY <1>3, <3>1, <3>2
  <2>2. pc'[c] = "live" => todo'[c] = {}
    <3>1. PICK e \in todo[c] : todo' = [todo EXCEPT ![c] = todo[c] \ {e}]
      BY <2>1 DEF WriteOldest
    <3>2. todo'[c] = todo[c] \ {e}
      BY <3>1 DEF TypeOK
    <3>3. pc[c] = "write" => todo[c] = {e}
      BY <1>1, <3>1 DEF HandlerInOrder
    <3>4. pc'[c] = "live" => pc[c] = "write"
      BY <2>1
    <3>5. QED
      BY <3>2, <3>3, <3>4
  <2>3. HandlerInOrder(c)'
    <3>1. /\ pc'[c] \notin {"since", "none", "subscribe", "write", "unsub", "close"}
          /\ pc'[c] \notin {"live", "write", "unsub", "close"} => chan'[c] = <<>>
          /\ chan'[c] = chan[c] /\ log' = log
      BY <1>1, <2>1 DEF HandlerInOrder
    <3>2. /\ \A e \in todo'[c] : /\ Logged(e)' /\ e.host \in Sees[c]
                                /\ \A j \in DOMAIN got'[c] : got'[c][j] < e.id
          /\ \A i \in DOMAIN chan[c] : Logged(chan[c][i])'
          /\ \A i \in DOMAIN chan[c] : \A e \in todo'[c] : e.id < chan[c][i].id
      BY <1>1, <2>1, <3>1, OrderWrite DEF HandlerInOrder, Logged
    <3>3. QED
      BY <1>1, <2>1, <2>2, <3>1, <3>2, OrderWrite DEF HandlerInOrder, Logged
  <2>4. /\ \E x : todo' = [todo EXCEPT ![c] = x]
        /\ got' = got \/ \E x : got' = [got EXCEPT ![c] = x]
    BY <2>1 DEF WriteOldest
  <2>5. QED
    BY <2>1, <2>3, <2>4, OrderLocality DEF TypeOK
<1>4. CASE ReplayFails(c) \/ Quit(c)
  <2>1. /\ todo'[c] = {} /\ UNCHANGED <<got, chan, log, since>>
        /\ (pc'[c] = "none" /\ pc[c] = "replay") \/ pc'[c] = "unsub"
    BY <1>4 DEF ReplayFails, Quit, TypeOK
  <2>2. HandlerInOrder(c)'
    BY <1>1, <2>1 DEF HandlerInOrder, Logged
  <2>3. QED
    BY <1>4, <2>2, OrderLocality DEF ReplayFails, Quit, TypeOK
<1>5. CASE Subscribe(c)
  <2>1. /\ todo'[c] = todo[c] /\ UNCHANGED <<got, log, since>> /\ chan'[c] = <<>>
        /\ pc'[c] = "live" /\ todo[c] = {}
    BY <1>1, <1>5 DEF Subscribe, HandlerInOrder, TypeOK
  <2>2. HandlerInOrder(c)'
    BY <1>1, <2>1 DEF HandlerInOrder, Logged
  <2>3. QED
    BY <1>5, <2>2, OrderLocality DEF Subscribe, TypeOK
<1>6. CASE Receive(c)
  <2>1. /\ chan[c] \in Seq(Event) /\ chan[c] # <<>> /\ pc[c] = "live" /\ todo[c] = {}
        /\ chan'[c] = Tail(chan[c]) /\ UNCHANGED <<got, log, since>>
    BY <1>1, <1>6 DEF Receive, TypeOK, HandlerInOrder
  <2>2. PICK e \in Event : e = Head(chan[c])
    BY <2>1, Trimmed
  <2>3. \/ todo'[c] = {e} /\ pc'[c] = "write" /\ e.host \in Sees[c]
        \/ todo'[c] = {} /\ pc'[c] = "live"
    BY <1>6, <2>1, <2>2 DEF Receive, TypeOK
  <2>4. /\ e = chan[c][1] /\ 1 \in DOMAIN chan[c] /\ DOMAIN chan[c] = 1 .. Len(chan[c])
        /\ Len(chan[c]) \in Nat \ {0}
        /\ DOMAIN chan'[c] = 1 .. Len(chan[c]) - 1
        /\ \A i \in 1 .. Len(chan[c]) - 1 : chan'[c][i] = chan[c][i + 1]
    BY <2>1, <2>2, Trimmed
  <2>5. /\ Logged(e)
        /\ \A j \in DOMAIN got[c] : got[c][j] < e.id
    BY <1>1, <2>4 DEF HandlerInOrder
  <2>6. ASSUME NEW i \in DOMAIN chan'[c]
        PROVE  /\ Logged(chan[c][i + 1])
               /\ chan'[c][i] = chan[c][i + 1]
               /\ \A j \in DOMAIN got[c] : got[c][j] < chan[c][i + 1].id
               /\ e.id < chan[c][i + 1].id
               /\ \A k \in DOMAIN chan'[c] : i < k => chan[c][i + 1].id < chan[c][k + 1].id
    <3>1. /\ i + 1 \in DOMAIN chan[c] /\ 1 < i + 1
          /\ \A k \in DOMAIN chan'[c] : k + 1 \in DOMAIN chan[c] /\ (i < k => i + 1 < k + 1)
      BY <2>4
    <3>2. \A m, k \in DOMAIN chan[c] : m < k => chan[c][m].id < chan[c][k].id
      BY <1>1 DEF HandlerInOrder
    <3>3. /\ Logged(chan[c][i + 1])
          /\ \A j \in DOMAIN got[c] : got[c][j] < chan[c][i + 1].id
      BY <1>1, <3>1 DEF HandlerInOrder
    <3>4. e.id < chan[c][i + 1].id
      BY <2>4, <3>1, <3>2
    <3>5. QED
      BY <2>4, <3>1, <3>2, <3>3, <3>4
  <2>7. HandlerInOrder(c)'
    <3>1. \A f \in todo'[c] : /\ Logged(f)' /\ f.host \in Sees[c]
                              /\ \A j \in DOMAIN got'[c] : got'[c][j] < f.id
      BY <2>1, <2>3, <2>5 DEF Logged
    <3>2. ASSUME NEW i \in DOMAIN chan'[c]
          PROVE  /\ Logged(chan[c][i])'
                 /\ \A j \in DOMAIN got'[c] : got'[c][j] < chan'[c][i].id
                 /\ \A f \in todo'[c] : f.id < chan'[c][i].id
                 /\ \A k \in DOMAIN chan'[c] : i < k => chan'[c][i].id < chan'[c][k].id
      <4>1. \A k \in DOMAIN chan'[c] : chan'[c][k] = chan[c][k + 1]
        BY <2>6
      <4>2. Logged(chan[c][i])'
        BY <2>1, <2>6 DEF Logged
      <4>3. QED
        BY <2>1, <2>3, <2>6, <4>1, <4>2
    <3>3. QED
      BY <1>1, <2>1, <2>3, <3>1, <3>2 DEF HandlerInOrder
  <2>8. QED
    BY <1>6, <2>7, OrderLocality DEF Receive, TypeOK
<1>7. CASE Unsubscribe(c)
  <2>1. HandlerInOrder(c)'
    BY <1>1, <1>7 DEF Unsubscribe, HandlerInOrder, Logged, TypeOK
  <2>2. QED
    BY <1>7, <2>1, OrderLocality DEF Unsubscribe, TypeOK
<1>8. CASE Close(c)
  <2>1. HandlerInOrder(c)'
    BY <1>1, <1>8 DEF Close, HandlerInOrder, Logged, TypeOK
  <2>2. QED
    BY <1>8, <2>1, OrderLocality DEF Close, TypeOK
<1>9. QED
  BY <1>2, <1>3, <1>4, <1>5, <1>6, <1>7, <1>8
  DEF HandlerStep, LocalStep, WriteStep, QuitStep

\* Every step keeps the order.
LEMMA OrderNext ==
    TypeOK /\ SubscribersAreOpen /\ OrderInv /\ [Next]_vars => OrderInv'
<1> SUFFICES ASSUME TypeOK, SubscribersAreOpen, OrderInv, [Next]_vars PROVE OrderInv'
  OBVIOUS
<1>1. CASE UNCHANGED vars
  BY <1>1 DEF vars, handler, OrderInv, RingIsNewest, HandlerInOrder, Logged, LastRead
<1>2. CASE Next
  BY <1>2, OrderAppend, OrderClient, OrderHandler DEF Next
<1>3. QED
  BY <1>1, <1>2

\* The log and its streams keep the order of the events in every reachable state.
THEOREM OrderCorrect == Spec => []OrderInv
<1>1. Init => OrderInv
  BY DEF Init, OrderInv, RingIsNewest, HandlerInOrder
<1>2. Init => SubscribersAreOpen
  BY DEF Init, SubscribersAreOpen
<1>3. QED
  BY <1>1, <1>2, TypeInit, TypeNext, SubscribersNext, OrderNext, PTL DEF Spec

(***************************************************************************)
(* The stream implements what it promises.                                 *)
(***************************************************************************)

\* A handler's write is a read of the abstract client, or nothing if it is gone.
LEMMA WriteIsRead ==
    ASSUME TypeOK, OrderInv, NEW c \in Clients, WriteOldest(c), UNCHANGED log
    PROVE  Promise!Read(c) \/ UNCHANGED <<log, got>>
<1>1. PICK e \in todo[c] :
          got' = IF gone[c] THEN got ELSE [got EXCEPT ![c] = Append(got[c], e.id)]
  BY DEF WriteOldest
<1>2. /\ e.id \in DOMAIN log /\ log[e.id] \in Sees[c]
      /\ \A j \in DOMAIN got[c] : got[c][j] < e.id
  BY DEF OrderInv, HandlerInOrder, Logged
<1>3. QED
  BY <1>1, <1>2 DEF Promise!Read

\* The stream lets an agent read the log in order, without a repetition, and only
\* what it may see: the event log and its handlers implement EventTail.
THEOREM StreamImplementsTail == Spec => ImplementsTail
<1>1. Init => Promise!Init
  BY DEF Init, Promise!Init
<1>2. TypeOK /\ OrderInv /\ [Next]_vars => [Promise!Next]_Promise!vars
  <2> SUFFICES ASSUME TypeOK, OrderInv, [Next]_vars
               PROVE  Promise!Next \/ UNCHANGED <<log, got>>
    BY DEF Promise!vars
  <2>1. CASE UNCHANGED vars
    BY <2>1 DEF vars, handler
  <2>2. CASE \E h \in Hosts : AppendEvent(h)
    BY <2>2 DEF AppendEvent, handler, Promise!Next, Promise!Record
  <2>3. ASSUME NEW c \in Clients, WriteStep(c)
        PROVE  Promise!Next \/ UNCHANGED <<log, got>>
    BY <2>3, WriteIsRead DEF WriteStep, WriteReplay, WriteLive, Promise!Next
  <2>4. ASSUME NEW c \in Clients,
               Connect(c) \/ Disconnect(c) \/ LocalStep(c) \/ QuitStep(c)
        PROVE  UNCHANGED <<log, got>>
    BY <2>4 DEF Connect, Disconnect, LocalStep, QuitStep, Replay, Subscribe, Receive,
                Unsubscribe, Close, ReplayFails, Quit
  <2>5. QED
    BY <2>1, <2>2, <2>3, <2>4 DEF Next, HandlerStep
<1>3. QED
  BY <1>1, <1>2, TypeCorrect, OrderCorrect, PTL DEF Spec, ImplementsTail, Promise!Spec

(***************************************************************************)
(* What gets lost.                                                         *)
(***************************************************************************)

\* A replay has every event that the log holds of those asked for, unless they are
\* more than the limit: fewer than limit of them come before any one.
LEMMA SinceIsComplete ==
    ASSUME TypeOK, OrderInv, DeliveryInv, NEW c \in Clients, NEW s \in Nat,
           NEW H, H = {i \in Wanted(c, s + 1, nextID) : i + Cap > nextID},
           Cardinality(H) <= Limit
    PROVE  H \subseteq IDs(Since(s, Limit, Sees[c]))
<1> DEFINE all == {e \in Range(items) : e.id > s /\ e.host \in Sees[c]}
<1>1. nextID \in Nat /\ Cap \in Nat /\ Limit \in Nat
  BY SizeAssumption DEF TypeOK
<1>2. items \in Seq(Event)
  BY DEF TypeOK
<1>3. PICK len \in Nat : len = Len(items)
  BY <1>2
<1>d. DOMAIN items = 1 .. len
  BY <1>2, <1>3
<1>4. DOMAIN log = 1 .. nextID
  BY DEF TypeOK, OrderInv, RingIsNewest
<1>5. /\ len <= nextID /\ len <= Cap
      /\ len = nextID \/ len = Cap
  BY <1>3 DEF TypeOK, OrderInv, RingIsNewest, DeliveryInv
<1>6. ASSUME NEW k \in DOMAIN items
      PROVE  /\ items[k].id = nextID - len + k
             /\ items[k].host = log[items[k].id]
             /\ items[k] \in Event
             /\ k \in 1 .. len
  <2>1. items[k] \in Event
    BY <1>2
  <2>2. k \in 1 .. len
    BY ONLY <1>d, k \in DOMAIN items
  <2>3. QED
    BY <1>3, <2>1, <2>2 DEF OrderInv, RingIsNewest
<1>7. ASSUME NEW f \in all
      PROVE  f \in Event /\ f.id \in H /\ Logged(f)
  <2>1. PICK k \in DOMAIN items : f = items[k]
    BY DEF Range
  <2>2. /\ f \in Event /\ f.id = nextID - len + k /\ f.host = log[f.id]
        /\ k \in 1 .. len
    BY <1>6, <2>1
  <2>3. PICK id : id = f.id
    OBVIOUS
  <2>4. id \in 1 .. nextID /\ id + Cap > nextID /\ id > s /\ id \in s + 1 .. nextID
    <3>1. id = nextID - len + k /\ k \in 1 .. len
      BY ONLY <2>2, <2>3
    <3>2. id > s
      BY ONLY <2>3, f \in all
    <3>3. QED
      BY ONLY <1>1, <1>5, <3>1, <3>2, len \in Nat, s \in Nat
  <2>5. id \in DOMAIN log /\ log[id] \in Sees[c]
    BY ONLY <1>4, <2>2, <2>3, <2>4, f \in all
  <2>6. id \in Wanted(c, s + 1, nextID)
    BY ONLY <2>4, <2>5 DEF Wanted
  <2>7. QED
    BY <2>2, <2>3, <2>4, <2>5, <2>6 DEF Logged
<1>8. IsFiniteSet(H)
  <2>1. H \subseteq s + 1 .. nextID
    BY DEF Wanted
  <2>2. IsFiniteSet(s + 1 .. nextID)
    BY ONLY <1>1, s + 1 \in Int, nextID \in Int, FS_Interval, Zenon
  <2>3. QED
    BY ONLY <2>1, <2>2, FS_Subset, Zenon
<1>9. ASSUME NEW i \in H PROVE i \in IDs(Since(s, Limit, Sees[c]))
  <2> DEFINE below == {f \in all : f.id < i}
             name == [f \in below |-> f.id]
  <2>1. i \in Wanted(c, s + 1, nextID) /\ i + Cap > nextID
    OBVIOUS
  <2>2. /\ i \in 1 .. nextID /\ i > s /\ log[i] \in Sees[c]
    <3>1. i \in s + 1 .. nextID /\ log[i] \in Sees[c]
      BY ONLY <2>1 DEF Wanted
    <3>2. i \in 1 .. nextID /\ i > s
      BY ONLY <1>1, <3>1, s \in Nat
    <3>3. QED
      BY ONLY <3>1, <3>2
  <2>3. PICK k \in DOMAIN items : nextID - len + k = i
    <3>1. i \in 1 .. nextID
      BY ONLY <2>2
    <3>2. i + Cap > nextID
      BY ONLY <2>1, Zenon
    <3>3. i - (nextID - len) \in 1 .. len /\ nextID - len + (i - (nextID - len)) = i
      BY ONLY <1>1, <1>5, <3>1, <3>2, len \in Nat
    <3>4. QED
      BY ONLY <1>d, <3>3
  <2>4. items[k].id = i /\ items[k].host = log[i]
    BY <1>6, <2>3
  <2>5. items[k] \in all
    BY <2>3, <2>4, <2>2 DEF Range
  <2>6. name \in Injection(below, H \ {i})
    <3>1. \A f \in below : f.id \in H \ {i}
      BY <1>7, <2>2
    <3>2. \A f, g \in below : f.id = g.id => f = g
      BY <1>7, SameID
    <3>3. QED
      BY <3>1, <3>2 DEF Injection, IsInjective
  <2>7. IsFiniteSet(H \ {i}) /\ Cardinality(H \ {i}) = Cardinality(H) - 1
    BY <1>8, FS_RemoveElement
  <2>8. IsFiniteSet(below) /\ Cardinality(below) <= Cardinality(H \ {i})
    BY ONLY <2>6, <2>7, FS_Injection
  <2>9. /\ Cardinality(below) \in Nat /\ Cardinality(H) \in Nat
    BY <1>8, <2>8, FS_CardinalityType
  <2>10. Cardinality(below) < Limit
    BY ONLY <1>1, <2>7, <2>8, <2>9, Cardinality(H) <= Limit
  <2>11. items[k] \in Since(s, Limit, Sees[c])
    BY <2>5, <2>10, <2>4 DEF Since
  <2>12. QED
    BY <2>11, <2>4 DEF IDs
<1>10. QED
  BY <1>9

\* What was due stays due while the log grows.
LEMMA StillDue ==
    ASSUME TypeOK, OrderInv, NEW c \in Clients, NEW first \in Nat, NEW last \in Nat,
           last <= nextID, log' = log \/ (\E h \in Hosts : AppendEvent(h))
    PROVE  {i \in first .. last : i \in DOMAIN log' /\ log'[i] \in Sees[c]}
               = Wanted(c, first, last)
<1>1. ASSUME NEW i \in first .. last
      PROVE  (i \in DOMAIN log' /\ log'[i] \in Sees[c]) <=> (i \in DOMAIN log /\ log[i] \in Sees[c])
  <2>1. CASE \E h \in Hosts : AppendEvent(h)
    <3>1. PICK h \in Hosts : AppendEvent(h)
      BY <2>1
    <3>2. /\ log \in Seq(Hosts) /\ nextID = Len(log) /\ nextID \in Nat
          /\ log' = Append(log, h)
      BY <3>1 DEF AppendEvent, TypeOK, OrderInv, RingIsNewest
    <3>3. QED
      BY <3>2
  <2>2. QED
    BY <2>1
<1>2. QED
  BY <1>1 DEF Wanted

LEMMA StillHeld ==
    ASSUME TypeOK, OrderInv, NEW c \in Clients, mark[c] <= nextID,
           since[c] # NoSince, since'[c] = since[c], mark'[c] = mark[c],
           log' = log \/ (\E h \in Hosts : AppendEvent(h))
    PROVE  Held(c)' = Held(c)
<1>1. since[c] + 1 \in Nat /\ mark[c] \in Nat
  BY DEF TypeOK
<1>2. Wanted(c, since[c] + 1, mark[c])' = Wanted(c, since[c] + 1, mark[c])
  BY <1>1, StillDue DEF Wanted
<1>3. QED
  BY <1>2 DEF Held

\* What the newest event does to the channel of a subscriber.
LEMMA SentOrMissed ==
    ASSUME TypeOK, NEW c \in subs, NEW h \in Hosts, AppendEvent(h)
    PROVE  /\ IDs(Range(chan[c])) \subseteq IDs(Range(chan[c]))'
           /\ missed[c] \subseteq missed'[c]
           /\ nextID + 1 \in IDs(Range(chan[c]))' \cup missed'[c]
<1> PICK e : e = [id |-> nextID + 1, host |-> h]
  OBVIOUS
<1>e. e \in Event
  BY DEF TypeOK, Event
<1>1. /\ c \in Clients /\ chan[c] \in Seq(Event) /\ e.id = nextID + 1
      /\ chan'[c] = IF Len(chan[c]) < Buf THEN Append(chan[c], e) ELSE chan[c]
      /\ missed'[c] = IF Len(chan[c]) >= Buf THEN missed[c] \cup {e.id} ELSE missed[c]
  BY DEF AppendEvent, Sent, TypeOK
<1>2. Len(chan[c]) \in Nat /\ Buf \in Nat
  BY <1>1, SizeAssumption
<1>3. CASE Len(chan[c]) < Buf
  <2>1. /\ DOMAIN chan'[c] = 1 .. Len(chan[c]) + 1
        /\ chan'[c][Len(chan[c]) + 1] = e
        /\ \A i \in 1 .. Len(chan[c]) : chan'[c][i] = chan[c][i]
        /\ DOMAIN chan[c] = 1 .. Len(chan[c])
    BY <1>e, <1>1, <1>3, Appended
  <2>2. \A i \in DOMAIN chan[c] : i \in DOMAIN chan'[c] /\ chan'[c][i] = chan[c][i]
    BY <1>2, <2>1
  <2>3. Range(chan[c]) \subseteq Range(chan'[c]) /\ e \in Range(chan'[c])
    BY <1>2, <2>1, <2>2 DEF Range
  <2>4. missed'[c] = missed[c]
    BY <1>1, <1>2, <1>3
  <2>5. QED
    BY <1>1, <2>3, <2>4 DEF IDs
<1>4. CASE ~(Len(chan[c]) < Buf)
  <2>1. chan'[c] = chan[c] /\ missed'[c] = missed[c] \cup {e.id}
    BY <1>1, <1>2, <1>4
  <2>2. QED
    BY <1>1, <2>1 DEF IDs
<1>5. QED
  BY <1>3, <1>4

\* A new event is sent to whoever is subscribed, or counted as missed.
LEMMA DeliveryAppend ==
    ASSUME TypeOK, SubscribersAreOpen, OrderInv, DeliveryInv, NEW h \in Hosts, AppendEvent(h)
    PROVE  DeliveryInv'
<1>1. /\ nextID \in Nat /\ nextID' = nextID + 1 /\ UNCHANGED <<handler, mark, joined>>
      /\ Cap \in Nat \ {0}
  BY SizeAssumption DEF AppendEvent, TypeOK
<1>2. (Len(items) = nextID \/ Len(items) = Cap)'
  <2>1. [id |-> nextID + 1, host |-> h] \in Event
    BY <1>1 DEF Event
  <2>2. Len(items') = IF Len(items) >= Cap THEN Len(items) ELSE Len(items) + 1
    BY <2>1, Stored DEF AppendEvent, TypeOK
  <2>3. /\ Len(items) \in Nat /\ Len(items) <= Cap
        /\ Len(items) = nextID \/ Len(items) = Cap
    BY DEF TypeOK, DeliveryInv
  <2>4. QED
    BY <1>1, <2>2, <2>3
<1>3. ASSUME NEW c \in Clients PROVE Delivering(c)'
  <2>1. /\ Delivering(c) /\ mark[c] \in Nat /\ joined[c] \in Nat
        /\ pc'[c] = pc[c] /\ since'[c] = since[c] /\ gone'[c] = gone[c]
        /\ got'[c] = got[c] /\ todo'[c] = todo[c] /\ mark'[c] = mark[c]
        /\ joined'[c] = joined[c]
    BY <1>1 DEF DeliveryInv, TypeOK, handler
  <2>2. mark'[c] <= nextID'
    BY <1>1, <2>1 DEF Delivering
  <2>3. since[c] # NoSince => Held(c)' = Held(c)
    BY <2>1, StillHeld DEF Delivering
  <2>4. Replaying(c)' = Replaying(c)
    BY <2>1 DEF Replaying, IDs
  <2>5. ASSUME Streaming(c)'
        PROVE  (Wanted(c, joined[c] + 1, nextID)
                  \subseteq Range(got[c]) \cup Queued(c) \cup missed[c])'
    <3>1. Streaming(c) /\ c \in subs
      BY <2>1, <2>5 DEF Streaming, SubscribersAreOpen
    <3>2. Wanted(c, joined[c] + 1, nextID) \subseteq Range(got[c]) \cup Queued(c) \cup missed[c]
      BY <2>1, <3>1 DEF Delivering
    <3>3. {i \in joined[c] + 1 .. nextID : i \in DOMAIN log' /\ log'[i] \in Sees[c]}
              = Wanted(c, joined[c] + 1, nextID)
      BY <1>1, <2>1, StillDue
    <3>4. \A i \in joined[c] + 1 .. nextID + 1 : i \in joined[c] + 1 .. nextID \/ i = nextID + 1
      BY <1>1, <2>1
    <3>5. Wanted(c, joined[c] + 1, nextID)'
              \subseteq Wanted(c, joined[c] + 1, nextID) \cup {nextID + 1}
      BY <1>1, <2>1, <3>3, <3>4 DEF Wanted
    <3>6. IDs(todo[c])' = IDs(todo[c])
      BY <2>1 DEF IDs
    <3>7. QED
      BY <2>1, <3>1, <3>2, <3>5, <3>6, SentOrMissed DEF Queued
  <2>6. QED
    BY <2>1, <2>2, <2>3, <2>4, <2>5 DEF Delivering
<1>4. QED
  BY <1>2, <1>3 DEF DeliveryInv

\* What a client is due depends on its own variables and the log only.
LEMMA DeliveryLocality ==
    ASSUME TypeOK, DeliveryInv, NEW c \in Clients, UNCHANGED <<items, nextID, log>>,
           Delivering(c)',
           \A d \in Clients \ {c} :
               /\ pc'[d] = pc[d] /\ since'[d] = since[d] /\ todo'[d] = todo[d]
               /\ got'[d] = got[d] /\ chan'[d] = chan[d] /\ gone'[d] = gone[d]
               /\ mark'[d] = mark[d] /\ joined'[d] = joined[d] /\ missed'[d] = missed[d]
    PROVE  DeliveryInv'
<1>1. ASSUME NEW d \in Clients \ {c} PROVE Delivering(d)'
  <2>1. Delivering(d)
    BY DEF DeliveryInv
  <2>2. /\ pc'[d] = pc[d] /\ since'[d] = since[d] /\ todo'[d] = todo[d]
        /\ got'[d] = got[d] /\ chan'[d] = chan[d] /\ gone'[d] = gone[d]
        /\ mark'[d] = mark[d] /\ joined'[d] = joined[d] /\ missed'[d] = missed[d]
    OBVIOUS
  <2>3. /\ Held(d)' = Held(d)
        /\ Wanted(d, joined[d] + 1, nextID)' = Wanted(d, joined[d] + 1, nextID)
        /\ Replaying(d)' = Replaying(d)
        /\ Queued(d)' = Queued(d)
        /\ Streaming(d)' <=> Streaming(d)
    BY <2>2 DEF Held, Wanted, Replaying, Queued, Streaming, IDs
  <2>4. QED
    BY <2>1, <2>2, <2>3 DEF Delivering
<1>2. QED
  BY <1>1 DEF DeliveryInv

\* A write hands one event over to a client that is there.
LEMMA WriteDelivers ==
    ASSUME TypeOK, NEW c \in Clients, WriteOldest(c), ~gone[c]
    PROVE  /\ Range(got[c]) \subseteq Range(got'[c])
           /\ IDs(todo[c]) \subseteq Range(got'[c]) \cup IDs(todo[c])'
<1>1. PICK e \in todo[c] :
          /\ todo' = [todo EXCEPT ![c] = todo[c] \ {e}]
          /\ got' = IF gone[c] THEN got ELSE [got EXCEPT ![c] = Append(got[c], e.id)]
  BY DEF WriteOldest
<1>2. /\ got[c] \in Seq(Nat) /\ e.id \in Nat /\ todo'[c] = todo[c] \ {e}
      /\ got'[c] = Append(got[c], e.id)
  BY <1>1 DEF TypeOK, Event
<1>3. /\ DOMAIN got'[c] = 1 .. Len(got[c]) + 1 /\ Len(got[c]) \in Nat
      /\ got'[c][Len(got[c]) + 1] = e.id
      /\ \A i \in 1 .. Len(got[c]) : got'[c][i] = got[c][i]
      /\ DOMAIN got[c] = 1 .. Len(got[c])
  BY <1>2, Appended
<1>4. \A i \in DOMAIN got[c] : i \in DOMAIN got'[c] /\ got'[c][i] = got[c][i]
  BY <1>3
<1>5. Range(got[c]) \subseteq Range(got'[c]) /\ e.id \in Range(got'[c])
  BY <1>3, <1>4 DEF Range
<1>6. QED
  BY <1>2, <1>5 DEF IDs

\* The client's steps, and the end of a handler, disturb nothing that is due.
LEMMA DeliveryClient ==
    ASSUME TypeOK, OrderInv, DeliveryInv, NEW c \in Clients,
           Connect(c) \/ Disconnect(c) \/ QuitStep(c) \/ Unsubscribe(c) \/ Close(c)
    PROVE  DeliveryInv'
<1>1. Delivering(c) /\ mark'[c] = mark[c] /\ nextID' = nextID
  BY DEF DeliveryInv, Connect, Disconnect, QuitStep, ReplayFails, Quit, Unsubscribe, Close,
         history
<1>2. CASE Connect(c)
  <2>1. \/ pc'[c] = "since"
        \/ pc'[c] = "subscribe" /\ since'[c] = NoSince
    BY <1>2 DEF Connect, TypeOK
  <2>2. Delivering(c)'
    BY <1>1, <2>1 DEF Delivering, Streaming
  <2>3. QED
    BY <1>2, <2>2, DeliveryLocality DEF Connect, TypeOK, history
<1>3. CASE Disconnect(c)
  <2>1. gone'[c] /\ pc'[c] = pc[c] /\ since'[c] = since[c]
    BY <1>3 DEF Disconnect, TypeOK
  <2>2. Delivering(c)'
    BY <1>1, <2>1 DEF Delivering, Streaming
  <2>3. QED
    BY <1>3, <2>2, DeliveryLocality DEF Disconnect, TypeOK, history
<1>4. CASE QuitStep(c) \/ Unsubscribe(c) \/ Close(c)
  <2>1. pc'[c] \in {"none", "unsub", "close"}
    BY <1>4 DEF QuitStep, ReplayFails, Quit, Unsubscribe, Close, TypeOK
  <2>2. Delivering(c)'
    BY <1>1, <2>1 DEF Delivering, Streaming
  <2>3. CASE QuitStep(c)
    BY <2>2, <2>3, DeliveryLocality DEF QuitStep, ReplayFails, Quit, TypeOK, history
  <2>4. CASE Unsubscribe(c)
    BY <2>2, <2>4, DeliveryLocality DEF Unsubscribe, TypeOK, history
  <2>5. CASE Close(c)
    BY <2>2, <2>5, DeliveryLocality DEF Close, TypeOK, history
  <2>6. QED
    BY <1>4, <2>3, <2>4, <2>5
<1>5. QED
  BY <1>2, <1>3, <1>4

\* What is due moves from the log to the replay, from there and from the channel to
\* the client, and is dropped nowhere.
LEMMA DeliveryHandler ==
    ASSUME TypeOK, OrderInv, DeliveryInv, NEW c \in Clients,
           Replay(c) \/ WriteStep(c) \/ Subscribe(c) \/ Receive(c)
    PROVE  DeliveryInv'
<1>1. Delivering(c) /\ HandlerInOrder(c) /\ nextID' = nextID /\ log' = log
  BY DEF DeliveryInv, OrderInv, Replay, WriteStep, WriteReplay, WriteLive, Subscribe, Receive
<1>2. CASE Replay(c)
  <2>1. /\ todo'[c] = Since(since[c], Limit, Sees[c]) /\ mark'[c] = nextID
        /\ since'[c] = since[c] /\ pc'[c] = "replay" /\ pc[c] = "since"
    BY <1>2 DEF Replay, TypeOK
  <2>2. since[c] = LastRead(c) /\ LastRead(c) \in Nat
    BY <1>1, <2>1, LastIsGreatest DEF HandlerInOrder
  <2>3. Held(c)' = {i \in Wanted(c, since[c] + 1, nextID) : i + Cap > nextID}
    BY <1>1, <2>1 DEF Held, Wanted
  <2>4. Cardinality(Held(c)') <= Limit => Held(c)' \subseteq IDs(Since(since[c], Limit, Sees[c]))
    BY <2>2, <2>3, SinceIsComplete
  <2>5. Replaying(c)' = IDs(Since(since[c], Limit, Sees[c]))
    BY <2>1 DEF Replaying, IDs
  <2>6. nextID <= nextID
    BY DEF TypeOK
  <2>7. Delivering(c)'
    BY <1>1, <2>1, <2>4, <2>5, <2>6 DEF Delivering, Streaming
  <2>8. QED
    BY <1>2, <2>7, DeliveryLocality DEF Replay, TypeOK
<1>3. CASE WriteStep(c)
  <2>1. /\ WriteOldest(c) /\ UNCHANGED <<items, nextID, log, chan, since, gone, mark, joined, missed>>
        /\ \/ pc[c] = "replay" /\ pc'[c] = "replay"
           \/ pc[c] = "write" /\ pc'[c] = "live"
        /\ pc' = pc \/ pc' = [pc EXCEPT ![c] = "live"]
    BY <1>3 DEF WriteStep, WriteReplay, WriteLive, TypeOK, history
  <2>2. since[c] # NoSince => Held(c)' = Held(c)
    BY <1>1, <2>1, StillHeld DEF Delivering
  <2>3. Wanted(c, joined[c] + 1, nextID)' = Wanted(c, joined[c] + 1, nextID)
    BY <2>1 DEF Wanted
  <2>4. Queued(c) = IDs(Range(chan[c])) \cup IDs(todo[c])
        /\ Queued(c)' = IDs(Range(chan[c])) \cup IDs(todo[c])'
    BY <2>1 DEF Queued, IDs
  <2>5. /\ Replaying(c) = IF pc[c] = "replay" THEN IDs(todo[c]) ELSE {}
        /\ Replaying(c)' = IF pc'[c] = "replay" THEN IDs(todo[c])' ELSE {}
    BY DEF Replaying
  <2>6. Delivering(c)'
    <3>1. CASE gone[c]
      BY <1>1, <2>1, <3>1 DEF Delivering, Streaming
    <3>2. CASE ~gone[c]
      <4>1. /\ Range(got[c]) \subseteq Range(got'[c])
            /\ IDs(todo[c]) \subseteq Range(got'[c]) \cup IDs(todo[c])'
        BY <2>1, <3>2, WriteDelivers
      <4>2. Streaming(c)' => Streaming(c)
        BY <2>1, <3>2 DEF Streaming
      <4>3. (Streaming(c) => Wanted(c, joined[c] + 1, nextID)
                 \subseteq Range(got[c]) \cup Queued(c) \cup missed[c])'
        BY <1>1, <2>1, <2>3, <2>4, <4>1, <4>2 DEF Delivering
      <4>4. (pc[c] \in {"replay", "live", "write"} /\ ~gone[c] /\ since[c] # NoSince =>
               (Cardinality(Held(c)) <= Limit => Held(c) \subseteq Range(got[c]) \cup Replaying(c)))'
        BY <1>1, <2>1, <2>2, <2>5, <4>1 DEF Delivering
      <4>5. QED
        BY <1>1, <2>1, <4>3, <4>4 DEF Delivering
    <3>3. QED
      BY <3>1, <3>2
  <2>7. /\ \E x : todo' = [todo EXCEPT ![c] = x]
        /\ got' = got \/ \E x : got' = [got EXCEPT ![c] = x]
    BY <2>1 DEF WriteOldest
  <2>8. QED
    BY <2>1, <2>6, <2>7, DeliveryLocality DEF TypeOK
<1>4. CASE Subscribe(c)
  <2>1. /\ pc'[c] = "live" /\ joined'[c] = nextID
        /\ UNCHANGED <<since, gone, got, todo, mark>>
        /\ pc[c] = "subscribe" \/ (pc[c] = "replay" /\ todo[c] = {})
    BY <1>4 DEF Subscribe, TypeOK
  <2>2. Wanted(c, joined[c] + 1, nextID)' = {}
    <3>1. nextID \in Nat
      BY DEF TypeOK
    <3>2. nextID + 1 .. nextID = {}
      BY <3>1
    <3>3. QED
      BY <1>1, <2>1, <3>2 DEF Wanted
  <2>3. since[c] # NoSince => Held(c)' = Held(c)
    BY <1>1, <2>1, StillHeld DEF Delivering
  <2>4. pc[c] = "replay" => Replaying(c) = {}
    BY <2>1 DEF Replaying, IDs
  <2>5. Delivering(c)'
    BY <1>1, <2>1, <2>2, <2>3, <2>4 DEF Delivering
  <2>6. QED
    BY <1>4, <2>5, DeliveryLocality DEF Subscribe, TypeOK
<1>5. CASE Receive(c)
  <2>1. /\ chan[c] \in Seq(Event) /\ chan[c] # <<>> /\ pc[c] = "live" /\ todo[c] = {}
        /\ chan'[c] = Tail(chan[c]) /\ UNCHANGED <<since, gone, got, mark, joined, missed>>
        /\ pc'[c] \in {"live", "write"}
        /\ Head(chan[c]).host \in Sees[c] => todo'[c] = {Head(chan[c])}
    BY <1>1, <1>5 DEF Receive, TypeOK, HandlerInOrder, history
  <2>2. ASSUME NEW f \in Range(chan[c]), log[f.id] \in Sees[c]
        PROVE  f.id \in Queued(c)'
    <3>1. PICK k \in DOMAIN chan[c] : f = chan[c][k]
      BY <2>2 DEF Range
    <3>2. /\ Head(chan[c]) = chan[c][1] /\ Len(chan[c]) \in Nat \ {0}
          /\ DOMAIN chan[c] = 1 .. Len(chan[c])
          /\ DOMAIN chan'[c] = 1 .. Len(chan[c]) - 1
          /\ \A i \in 1 .. Len(chan[c]) - 1 : chan'[c][i] = chan[c][i + 1]
      BY <2>1, Trimmed
    <3>3. CASE k = 1
      <4>1. Head(chan[c]) = f /\ f.host = log[f.id]
        BY <1>1, <3>1, <3>2, <3>3 DEF HandlerInOrder, Logged
      <4>2. f \in todo'[c]
        BY <2>1, <2>2, <4>1
      <4>3. QED
        BY <4>2 DEF Queued, IDs
    <3>4. CASE k # 1
      <4>1. k - 1 \in DOMAIN chan'[c] /\ chan'[c][k - 1] = f
        BY <3>1, <3>2, <3>4
      <4>2. QED
        BY <4>1 DEF Queued, IDs, Range
    <3>5. QED
      BY <3>3, <3>4
  <2>3. Wanted(c, joined[c] + 1, nextID) \cap Queued(c) \subseteq Queued(c)'
    BY <2>1, <2>2 DEF Wanted, Queued, IDs
  <2>4. Wanted(c, joined[c] + 1, nextID)' = Wanted(c, joined[c] + 1, nextID)
    BY <1>1, <2>1 DEF Wanted
  <2>5. since[c] # NoSince => Held(c)' = Held(c)
    BY <1>1, <2>1, StillHeld DEF Delivering
  <2>6. Streaming(c)' <=> Streaming(c)
    BY <2>1 DEF Streaming
  <2>7. Replaying(c) = {} /\ Replaying(c)' = {}
    BY <2>1 DEF Replaying
  <2>8. Delivering(c)'
    BY <1>1, <2>1, <2>3, <2>4, <2>5, <2>6, <2>7 DEF Delivering
  <2>9. QED
    BY <1>5, <2>8, DeliveryLocality DEF Receive, TypeOK, history
<1>6. QED
  BY <1>2, <1>3, <1>4, <1>5

LEMMA DeliveryNext ==
    TypeOK /\ SubscribersAreOpen /\ OrderInv /\ DeliveryInv /\ [Next]_vars => DeliveryInv'
<1> SUFFICES ASSUME TypeOK, SubscribersAreOpen, OrderInv, DeliveryInv, [Next]_vars
             PROVE  DeliveryInv'
  OBVIOUS
<1>1. CASE UNCHANGED vars
  <2>1. UNCHANGED <<items, nextID, log, subs, chan, closed, pc, todo, since, gone, got, mark,
                    joined, missed>>
    BY <1>1 DEF vars, handler, history
  <2>2. \A c \in Clients : /\ Held(c)' = Held(c) /\ Replaying(c)' = Replaying(c)
                            /\ Queued(c)' = Queued(c) /\ Streaming(c)' = Streaming(c)
    BY ONLY <2>1 DEF Held, Wanted, Replaying, Queued, Streaming, IDs
  <2>3. \A c \in Clients : Wanted(c, joined[c] + 1, nextID)' = Wanted(c, joined[c] + 1, nextID)
    BY ONLY <2>1 DEF Wanted
  <2>4. QED
    BY ONLY DeliveryInv, <2>1, <2>2, <2>3 DEF DeliveryInv, Delivering
<1>2. CASE Next
  BY <1>2, DeliveryAppend, DeliveryClient, DeliveryHandler DEF Next, HandlerStep, LocalStep
<1>3. QED
  BY <1>1, <1>2

\* The ring, the replay and the channel drop nothing but what they must (events.go
\* 67-107, api_events.go 86-122).
THEOREM DeliveryCorrect == Spec => []DeliveryInv
<1>1. Init => DeliveryInv
  <2> SUFFICES ASSUME Init PROVE DeliveryInv
    OBVIOUS
  <2>1. Len(items) = nextID /\ nextID <= nextID
    BY DEF Init
  <2>2. \A c \in Clients : mark[c] = nextID /\ pc[c] = "none"
    BY DEF Init
  <2>3. QED
    BY <2>1, <2>2 DEF DeliveryInv, Delivering, Streaming
<1>2. Spec => [](TypeOK /\ SubscribersAreOpen /\ OrderInv)
  BY TypeCorrect, SubscribersOpen, OrderCorrect, PTL
<1>3. TypeOK /\ SubscribersAreOpen /\ OrderInv /\ DeliveryInv /\ [Next]_vars => DeliveryInv'
  BY DeliveryNext
<1>4. QED
  BY <1>1, <1>2, <1>3, PTL DEF Spec

\* An agent misses nothing but what a full channel dropped, what fell between replay
\* and subscription, and what the ring or the limit cut off (api_events.go 86-122).
THEOREM NoneElseLost == Spec => []NothingElseLost
<1>1. DeliveryInv => NothingElseLost
  BY DEF DeliveryInv, Delivering, NothingElseLost, Replaying, Streaming
<1>2. QED
  BY <1>1, DeliveryCorrect, PTL

(***************************************************************************)
(* What must eventually happen.  The prover knows nothing of ENABLED, so   *)
(* the fairness of EventStream is stated with its enabling conditions      *)
(* written out.                                                            *)
(***************************************************************************)

\* The handler has a step to take that needs no client; it can notice that the client
\* is gone.
CanStep(c) == \/ pc[c] \in {"since", "subscribe", "unsub", "close"}
              \/ pc[c] = "replay" /\ todo[c] = {}
              \/ pc[c] = "live" /\ chan[c] # <<>>
CanQuit(c) == gone[c] /\ (pc[c] \in {"live", "write"} \/ (pc[c] = "replay" /\ todo[c] # {}))

\* These conditions are strong enough.
FairGuards ==
    \A c \in Clients : /\ CanStep(c) => ENABLED <<LocalStep(c)>>_vars
                       /\ CanQuit(c) => ENABLED <<QuitStep(c)>>_vars

\* WF_vars(LocalStep(c)) and WF_vars(QuitStep(c)), with them.
Runs(c) == /\ []<>~CanStep(c) \/ []<><<LocalStep(c)>>_vars
           /\ []<>~CanQuit(c) \/ []<><<QuitStep(c)>>_vars
AllRun == \A c \in Clients : Runs(c)

\* The fairness of the code gives that much, as long as these conditions are strong
\* enough.
Fair(c) == WF_vars(LocalStep(c)) /\ WF_vars(QuitStep(c))

LEMMA FairnessRuns == FairSpec /\ []FairGuards => Spec /\ AllRun
<1>1. ASSUME NEW c \in Clients
      PROVE  Fair(c) /\ []FairGuards => Runs(c)
  <2>1. FairGuards =>
            /\ CanStep(c) => ENABLED <<LocalStep(c)>>_vars
            /\ CanQuit(c) => ENABLED <<QuitStep(c)>>_vars
    BY DEF FairGuards
  <2>2. QED
    BY <2>1, PTL DEF Fair, Runs
<1>2. Fairness => \A c \in Clients : Fair(c)
  BY PTL DEF Fairness, Fair
<1>3. Fairness /\ []FairGuards => AllRun
  BY <1>1, <1>2 DEF AllRun
<1>4. QED
  BY <1>3 DEF FairSpec

\* Where the steps of a handler whose client is gone lead.
Alone(c, l) == gone[c] /\ pc[c] = l
Unwritten(c) == Alone(c, "replay") /\ todo[c] # {}
Replayed(c) == Alone(c, "replay") /\ todo[c] = {}
Streams(c) == Alone(c, "live") \/ Alone(c, "write")
Ended(c) == pc[c] = "none"

EndSteps(c) ==
    /\ Alone(c, "since") =>
           \/ Unwritten(c)' \/ Replayed(c)'
           \/ Alone(c, "since")' /\ ~<<LocalStep(c)>>_vars
    /\ Unwritten(c) => Ended(c)' \/ Replayed(c)' \/ (Unwritten(c)' /\ ~<<QuitStep(c)>>_vars)
    /\ Replayed(c) => Streams(c)' \/ (Replayed(c)' /\ ~<<LocalStep(c)>>_vars)
    /\ Alone(c, "subscribe") =>
           Streams(c)' \/ (Alone(c, "subscribe")' /\ ~<<LocalStep(c)>>_vars)
    /\ Streams(c) => Alone(c, "unsub")' \/ (Streams(c)' /\ ~<<QuitStep(c)>>_vars)
    /\ Alone(c, "unsub") =>
           Alone(c, "close")' \/ (Alone(c, "unsub")' /\ ~<<LocalStep(c)>>_vars)
    /\ Alone(c, "close") => Ended(c)' \/ (Alone(c, "close")' /\ ~<<LocalStep(c)>>_vars)

\* A handler whose client is gone takes these steps, whatever the log and the other
\* handlers do.
LEMMA EndGoesOn ==
    ASSUME TypeOK, NEW c \in Clients, [Next]_vars
    PROVE  EndSteps(c)
<1> USE DEF EndSteps, Alone, Unwritten, Replayed, Streams, Ended
<1>1. /\ pc \in [Clients -> PC] /\ gone \in [Clients -> BOOLEAN]
      /\ todo \in [Clients -> SUBSET Event]
  BY DEF TypeOK
<1>2. /\ LocalStep(c) =>
             \/ pc[c] = "since" /\ pc'[c] = "replay"
             \/ pc[c] = "subscribe" /\ pc'[c] = "live"
             \/ Replayed(c) /\ pc'[c] = "live"
             \/ ~gone[c] /\ pc[c] = "replay" /\ pc'[c] = "live"
             \/ pc[c] = "live" /\ pc'[c] \in {"live", "write"}
             \/ pc[c] = "unsub" /\ pc'[c] = "close"
             \/ pc[c] = "close" /\ pc'[c] = "none"
      /\ QuitStep(c) =>
             \/ Unwritten(c) /\ pc'[c] = "none"
             \/ Streams(c) /\ pc'[c] = "unsub"
      /\ WriteStep(c) =>
             \/ pc[c] = "replay" /\ todo[c] # {} /\ pc'[c] = "replay"
             \/ pc[c] = "write" /\ pc'[c] = "live"
      /\ HandlerStep(c) => gone' = gone
  <2>1. ASSUME LocalStep(c) PROVE gone' = gone
    BY <2>1 DEF LocalStep, Replay, Subscribe, Receive, Unsubscribe, Close
  <2>2. ASSUME QuitStep(c) \/ WriteStep(c) PROVE gone' = gone
    BY <2>2 DEF QuitStep, ReplayFails, Quit, WriteStep, WriteReplay, WriteLive
  <2>3. QED
    BY <1>1, <2>1, <2>2 DEF HandlerStep, LocalStep, Replay, Subscribe, Receive, Unsubscribe,
       Close, QuitStep, ReplayFails, Quit, WriteStep, WriteReplay, WriteLive, WriteOldest
<1>3. CASE UNCHANGED <<pc[c], gone[c], todo[c]>> /\ pc[c] # "live"
  BY <1>2, <1>3
<1>4. CASE HandlerStep(c)
  BY ONLY <1>2, <1>4 DEF HandlerStep
<1>5. CASE Connect(c) \/ Disconnect(c)
  BY <1>1, <1>5 DEF Connect, Disconnect
<1>6. ASSUME NEW d \in Clients, d # c, Connect(d) \/ Disconnect(d) \/ HandlerStep(d)
      PROVE  UNCHANGED <<pc[c], gone[c], todo[c]>>
  BY <1>1, <1>6 DEF Connect, Disconnect, HandlerStep, LocalStep, Replay, Subscribe, Receive,
     Unsubscribe, Close, QuitStep, ReplayFails, Quit, WriteStep, WriteReplay, WriteLive,
     WriteOldest
<1>7. ASSUME NEW h \in Hosts, AppendEvent(h)
      PROVE  UNCHANGED <<pc[c], gone[c], todo[c]>>
  BY <1>7 DEF AppendEvent, handler
<1>8. CASE UNCHANGED vars
  BY <1>8 DEF vars, handler
<1>9. CASE UNCHANGED <<pc[c], gone[c], todo[c]>> /\ pc[c] = "live" /\ ~HandlerStep(c)
  BY <1>9 DEF HandlerStep
<1>10. QED
  BY <1>3, <1>4, <1>5, <1>6, <1>7, <1>8, <1>9 DEF Next

\* Every handler whose client has gone away ends, in the middle of a replay, of a
\* write or of its unsubscription (api_events.go 82-122, events.go 112-127).
THEOREM GoneEnds == FairSpec /\ []FairGuards => GoneHandlerEnds
<1> SUFFICES ASSUME NEW c \in Clients
             PROVE  Spec /\ Runs(c) => (gone[c] ~> pc[c] = "none")
  BY FairnessRuns DEF AllRun, GoneHandlerEnds
<1>1. TypeOK /\ [Next]_vars => EndSteps(c)
  BY EndGoesOn
<1>2. TypeOK /\ gone[c] =>
          \/ Alone(c, "since") \/ Unwritten(c) \/ Replayed(c) \/ Alone(c, "subscribe")
          \/ Streams(c) \/ Alone(c, "unsub") \/ Alone(c, "close") \/ Ended(c)
  BY DEF TypeOK, PC, Alone, Unwritten, Replayed, Streams, Ended
<1>3. /\ Alone(c, "since") \/ Replayed(c) \/ Alone(c, "subscribe")
             \/ Alone(c, "unsub") \/ Alone(c, "close") => CanStep(c)
      /\ Unwritten(c) \/ Streams(c) => CanQuit(c)
  BY DEF Alone, Unwritten, Replayed, Streams, CanStep, CanQuit
<1>4. QED
  BY <1>1, <1>2, <1>3, TypeCorrect, PTL DEF Spec, Runs, EndSteps, Ended

(***************************************************************************)
(* A channel moves on.                                                     *)
(***************************************************************************)

\* The event i is the k-th of the channel of c, whose handler streams, waiting for its
\* turn or for a write to return; or it is in the hand of that handler.
Stands(c, i, k) == Streaming(c) /\ k \in DOMAIN chan[c] /\ chan[c][k].id = i
Waits(c, i, k) == Stands(c, i, k) /\ pc[c] = "live"
Blocked(c, i, k) == Stands(c, i, k) /\ pc[c] = "write"
InHand(c, i) == Streaming(c) /\ pc[c] = "write" /\ i \in IDs(todo[c])
Seen(c, i) == i \in Range(got[c])
Hidden(c, i) == log[i] \notin Sees[c]

\* A step of anyone leaves an event in its place, or the handler takes the first one, or
\* the client goes away.
LEMMA PlaceKept ==
    ASSUME TypeOK, NEW c \in Clients, NEW i \in Nat, NEW k \in Nat \ {0},
           Stands(c, i, k), [Next]_vars
    PROVE  \/ Stands(c, i, k)' /\ pc'[c] = pc[c] /\ ~LocalStep(c)
           \/ Stands(c, i, k)' /\ pc[c] = "write" /\ pc'[c] = "live"
           \/ Receive(c)
           \/ gone'[c]
<1>1. /\ pc[c] \in {"live", "write"} /\ ~gone[c] /\ k \in DOMAIN chan[c] /\ chan[c][k].id = i
      /\ pc \in [Clients -> PC] /\ gone \in [Clients -> BOOLEAN] /\ chan[c] \in Seq(Event)
  BY DEF Stands, Streaming, TypeOK
<1>2. LocalStep(c) => Receive(c)
  BY <1>1 DEF LocalStep, Replay, Subscribe, Unsubscribe, Close
<1>3. ASSUME chan'[c] = chan[c], pc'[c] = pc[c], gone'[c] = gone[c]
      PROVE  Stands(c, i, k)' /\ pc'[c] = pc[c]
  BY <1>1, <1>3 DEF Stands, Streaming
<1>4. ASSUME NEW h \in Hosts, AppendEvent(h)
      PROVE  Stands(c, i, k)' /\ pc'[c] = pc[c]
  <2>1. PICK e : e = [id |-> nextID + 1, host |-> h]
    OBVIOUS
  <2>2. e \in Event
    BY <2>1 DEF TypeOK, Event
  <2>3. pc' = pc /\ gone' = gone /\ (chan'[c] = chan[c] \/ chan'[c] = Append(chan[c], e))
    BY <1>4, <2>1 DEF AppendEvent, Sent, handler
  <2>4. CASE chan'[c] = Append(chan[c], e)
    <3>1. k \in DOMAIN chan'[c] /\ chan'[c][k] = chan[c][k]
      BY <1>1, <2>2, <2>4, Appended
    <3>2. QED
      BY <1>1, <2>3, <3>1 DEF Stands, Streaming
  <2>5. QED
    BY <1>3, <2>3, <2>4
<1>5. ASSUME NEW d \in Clients, d # c, Connect(d) \/ Disconnect(d) \/ HandlerStep(d)
      PROVE  chan'[c] = chan[c] /\ pc'[c] = pc[c] /\ gone'[c] = gone[c]
  <2>1. CASE Connect(d) \/ Disconnect(d)
    BY <1>1, <1>5, <2>1 DEF Connect, Disconnect
  <2>2. CASE LocalStep(d)
    BY <1>1, <1>5, <2>2 DEF LocalStep, Replay, Subscribe, Receive, Unsubscribe, Close, TypeOK
  <2>3. CASE WriteStep(d) \/ QuitStep(d)
    BY <1>1, <1>5, <2>3 DEF WriteStep, WriteReplay, WriteLive, QuitStep, ReplayFails, Quit, TypeOK
  <2>4. QED
    BY <1>5, <2>1, <2>2, <2>3 DEF HandlerStep
<1>6. CASE Connect(c) \/ Disconnect(c)
  BY <1>1, <1>6 DEF Connect, Disconnect
<1>7. CASE WriteStep(c)
  <2>1. pc[c] = "write" /\ pc'[c] = "live" /\ chan' = chan /\ gone' = gone
    BY <1>1, <1>7 DEF WriteStep, WriteReplay, WriteLive
  <2>2. QED
    BY <1>1, <2>1 DEF Stands, Streaming
<1>8. ~QuitStep(c)
  BY <1>1 DEF QuitStep, ReplayFails, Quit
<1>9. CASE UNCHANGED vars
  BY <1>2, <1>3, <1>9 DEF vars, handler, Receive
<1>10. CASE Receive(c)
  BY <1>10
<1>11. CASE Next /\ ~Receive(c) /\ ~WriteStep(c)
  BY <1>2, <1>3, <1>4, <1>5, <1>6, <1>8, <1>11 DEF Next, HandlerStep
<1>12. QED
  BY <1>7, <1>9, <1>10, <1>11

\* The handler takes the first event into its hand, if the client may see it, and all the
\* others move up.
LEMMA TakesFirst ==
    ASSUME TypeOK, OrderInv, NEW c \in Clients, NEW i \in Nat, NEW k \in Nat \ {0},
           Stands(c, i, k), Receive(c)
    PROVE  /\ k = 1 => InHand(c, i)' \/ Hidden(c, i)'
           /\ k > 1 => Stands(c, i, k - 1)'
<1>1. /\ chan[c] \in Seq(Event) /\ chan[c] # <<>> /\ k \in DOMAIN chan[c] /\ chan[c][k].id = i
      /\ chan'[c] = Tail(chan[c]) /\ gone'[c] = gone[c] /\ ~gone[c] /\ log' = log
      /\ pc \in [Clients -> PC] /\ todo \in [Clients -> SUBSET Event]
  BY DEF Stands, Streaming, Receive, TypeOK
<1>2. /\ Head(chan[c]) = chan[c][1] /\ Len(chan[c]) \in Nat \ {0}
      /\ DOMAIN chan[c] = 1 .. Len(chan[c]) /\ DOMAIN chan'[c] = 1 .. Len(chan[c]) - 1
      /\ \A j \in 1 .. Len(chan[c]) - 1 : chan'[c][j] = chan[c][j + 1]
  BY <1>1, Trimmed
<1>3. \/ Head(chan[c]).host \in Sees[c] /\ todo'[c] = {Head(chan[c])} /\ pc'[c] = "write"
      \/ Head(chan[c]).host \notin Sees[c] /\ pc'[c] = "live"
  BY <1>1 DEF Receive
<1>4. ASSUME k = 1 PROVE InHand(c, i)' \/ Hidden(c, i)'
  <2>1. Head(chan[c]).id = i /\ Head(chan[c]).host = log[i]
    BY <1>1, <1>2, <1>4 DEF OrderInv, HandlerInOrder, Logged
  <2>2. QED
    BY <1>1, <1>3, <2>1 DEF InHand, Streaming, IDs, Hidden
<1>5. ASSUME k > 1 PROVE Stands(c, i, k - 1)'
  <2>1. k - 1 \in 1 .. Len(chan[c]) - 1 /\ (k - 1) + 1 = k
    BY ONLY <1>1, <1>2, <1>5, k \in Nat
  <2>2. k - 1 \in DOMAIN chan'[c] /\ chan'[c][k - 1] = chan[c][k]
    BY ONLY <1>2, <2>1
  <2>3. QED
    BY <1>1, <1>3, <2>2 DEF Stands, Streaming
<1>6. QED
  BY <1>4, <1>5

\* What the handler has in its hand stays there until the client has read it.
LEMMA HandKept ==
    ASSUME TypeOK, OrderInv, NEW c \in Clients, NEW i \in Nat, InHand(c, i), [Next]_vars
    PROVE  InHand(c, i)' \/ Seen(c, i)' \/ gone'[c]
<1>1. /\ pc[c] = "write" /\ ~gone[c] /\ i \in IDs(todo[c])
      /\ \E e \in todo[c] : todo[c] = {e}
      /\ pc \in [Clients -> PC] /\ gone \in [Clients -> BOOLEAN]
      /\ todo \in [Clients -> SUBSET Event] /\ got \in [Clients -> Seq(Nat)]
  BY DEF InHand, Streaming, TypeOK, OrderInv, HandlerInOrder
<1>2. ASSUME todo'[c] = todo[c], pc'[c] = pc[c], gone'[c] = gone[c] PROVE InHand(c, i)'
  BY <1>1, <1>2 DEF InHand, Streaming, IDs
<1>3. CASE HandlerStep(c)
  <2>1. WriteLive(c)
    BY <1>1, <1>3 DEF HandlerStep, LocalStep, Replay, Subscribe, Receive, Unsubscribe, Close,
       QuitStep, ReplayFails, Quit, WriteStep, WriteReplay
  <2>2. got'[c] = Append(got[c], i) /\ got[c] \in Seq(Nat)
    BY <1>1, <2>1 DEF WriteLive, WriteOldest, IDs
  <2>3. Len(got[c]) + 1 \in DOMAIN got'[c] /\ got'[c][Len(got[c]) + 1] = i
    BY ONLY <2>2, i \in Nat, Appended
  <2>4. QED
    BY <2>3 DEF Seen, Range
<1>4. CASE Connect(c) \/ Disconnect(c)
  BY <1>1, <1>4 DEF Connect, Disconnect
<1>5. ASSUME NEW d \in Clients, d # c, Connect(d) \/ Disconnect(d) \/ HandlerStep(d)
      PROVE  todo'[c] = todo[c] /\ pc'[c] = pc[c] /\ gone'[c] = gone[c]
  <2>1. CASE Connect(d) \/ Disconnect(d)
    BY <1>1, <1>5, <2>1 DEF Connect, Disconnect
  <2>2. CASE LocalStep(d)
    BY <1>1, <1>5, <2>2 DEF LocalStep, Replay, Subscribe, Receive, Unsubscribe, Close
  <2>3. CASE WriteStep(d) \/ QuitStep(d)
    BY <1>1, <1>5, <2>3 DEF WriteStep, WriteReplay, WriteLive, WriteOldest, QuitStep,
       ReplayFails, Quit
  <2>4. QED
    BY <1>5, <2>1, <2>2, <2>3 DEF HandlerStep
<1>6. ASSUME NEW h \in Hosts, AppendEvent(h)
      PROVE  todo'[c] = todo[c] /\ pc'[c] = pc[c] /\ gone'[c] = gone[c]
  BY <1>6 DEF AppendEvent, handler
<1>7. CASE UNCHANGED vars
  BY <1>2, <1>7 DEF vars, handler
<1>8. QED
  BY <1>2, <1>3, <1>4, <1>5, <1>6, <1>7 DEF Next

\* The client of c goes away, or stops reading while a write is under way.
Breaks(c) == <>gone[c] \/ <>[](pc[c] = "write")

\* An event moves up one place; from the first place it gets into the hand of the
\* handler, if the client may see it; and from there to the client.
MovesUp(c, i, k) == [](Stands(c, i, k + 1) => <>Stands(c, i, k) \/ Breaks(c))
MovesOut(c, i) == [](Stands(c, i, 1) => <>InHand(c, i) \/ <>Hidden(c, i) \/ Breaks(c))
MovesOver(c, i) == [](InHand(c, i) => <>Seen(c, i) \/ Breaks(c))

\* Every event in a channel, at whatever place, moves on (api_events.go 104-121).
QueueMovesOn ==
    \A c \in Clients, i \in Nat :
        /\ \A k \in Nat \ {0} : MovesUp(c, i, k)
        /\ MovesOut(c, i)
        /\ MovesOver(c, i)

\* What a step does to an event that waits for its turn, and to one that waits for a write.
LEMMA PlaceSteps ==
    ASSUME TypeOK, OrderInv, NEW c \in Clients, NEW i \in Nat, NEW k \in Nat \ {0}, [Next]_vars
    PROVE  /\ Waits(c, i, k) =>
                  \/ Waits(c, i, k)' /\ ~<<LocalStep(c)>>_vars
                  \/ (gone[c])'
                  \/ k = 1 /\ (InHand(c, i)' \/ Hidden(c, i)')
                  \/ k > 1 /\ Stands(c, i, k - 1)'
           /\ Blocked(c, i, k) => Blocked(c, i, k)' \/ Waits(c, i, k)' \/ (gone[c])'
<1>1. ASSUME Waits(c, i, k)
      PROVE  \/ Waits(c, i, k)' /\ ~<<LocalStep(c)>>_vars
             \/ (gone[c])'
             \/ k = 1 /\ (InHand(c, i)' \/ Hidden(c, i)')
             \/ k > 1 /\ Stands(c, i, k - 1)'
  <2>1. k = 1 \/ k > 1
    OBVIOUS
  <2>2. Stands(c, i, k) /\ pc[c] = "live"
    BY <1>1 DEF Waits
  <2>3. CASE Receive(c)
    BY <2>1, <2>2, <2>3, TakesFirst
  <2>4. CASE ~Receive(c)
    BY <2>2, <2>4, PlaceKept DEF Waits
  <2>5. QED
    BY <2>3, <2>4
<1>2. ASSUME Blocked(c, i, k)
      PROVE  Blocked(c, i, k)' \/ Waits(c, i, k)' \/ (gone[c])'
  <2>1. Stands(c, i, k) /\ pc[c] = "write" /\ ~Receive(c)
    BY <1>2 DEF Blocked, Receive
  <2>2. QED
    BY <2>1, PlaceKept DEF Blocked, Waits
<1>3. QED
  BY <1>1, <1>2

\* Who waits for its turn can be taken by the handler, and who waits for a write waits
\* for the client.
LEMMA PlaceWaits ==
    ASSUME TypeOK, NEW c \in Clients, NEW i \in Nat, NEW k \in Nat \ {0}
    PROVE  /\ Stands(c, i, k) => Waits(c, i, k) \/ Blocked(c, i, k)
           /\ Waits(c, i, k) => CanStep(c)
           /\ Blocked(c, i, k) \/ InHand(c, i) => pc[c] = "write"
<1>1. Stands(c, i, k) => chan[c] # <<>>
  BY DEF Stands
<1>2. QED
  BY <1>1 DEF Stands, Waits, Blocked, Streaming, InHand, CanStep

\* An event in a channel moves up, place after place, into the hand of the handler and to
\* the client, unless the client may not see it, goes away, or stops reading while a write
\* is under way: the handler of a client that reads empties its channel
\* (api_events.go 104-121).
THEOREM QueueMoves == FairSpec /\ []FairGuards => QueueMovesOn
<1>1. ASSUME NEW c \in Clients, NEW i \in Nat, NEW k \in Nat \ {0}
      PROVE  Spec /\ Runs(c) => MovesUp(c, i, k)
  <2>1. k + 1 \in Nat \ {0} /\ k + 1 # 1 /\ (k + 1) - 1 = k
    OBVIOUS
  <2>2. TypeOK /\ OrderInv /\ [Next]_vars =>
            /\ Waits(c, i, k + 1) =>
                   \/ Waits(c, i, k + 1)' /\ ~<<LocalStep(c)>>_vars
                   \/ (gone[c])'
                   \/ Stands(c, i, k)'
            /\ Blocked(c, i, k + 1) =>
                   Blocked(c, i, k + 1)' \/ Waits(c, i, k + 1)' \/ (gone[c])'
    BY <2>1, PlaceSteps
  <2>3. TypeOK =>
            /\ Stands(c, i, k + 1) => Waits(c, i, k + 1) \/ Blocked(c, i, k + 1)
            /\ Waits(c, i, k + 1) => CanStep(c)
            /\ Blocked(c, i, k + 1) => pc[c] = "write"
    BY <2>1, PlaceWaits
  <2>4. QED
    BY <2>2, <2>3, TypeCorrect, OrderCorrect, PTL DEF Spec, Runs, MovesUp, Breaks
<1>2. ASSUME NEW c \in Clients, NEW i \in Nat
      PROVE  Spec /\ Runs(c) => MovesOut(c, i)
  <2>1. 1 \in Nat \ {0} /\ ~(1 > 1)
    OBVIOUS
  <2>2. TypeOK /\ OrderInv /\ [Next]_vars =>
            /\ Waits(c, i, 1) =>
                   \/ Waits(c, i, 1)' /\ ~<<LocalStep(c)>>_vars
                   \/ (gone[c])'
                   \/ InHand(c, i)' \/ Hidden(c, i)'
            /\ Blocked(c, i, 1) => Blocked(c, i, 1)' \/ Waits(c, i, 1)' \/ (gone[c])'
    BY <2>1, PlaceSteps
  <2>3. TypeOK =>
            /\ Stands(c, i, 1) => Waits(c, i, 1) \/ Blocked(c, i, 1)
            /\ Waits(c, i, 1) => CanStep(c)
            /\ Blocked(c, i, 1) => pc[c] = "write"
    BY <2>1, PlaceWaits
  <2>4. QED
    BY <2>2, <2>3, TypeCorrect, OrderCorrect, PTL DEF Spec, Runs, MovesOut, Breaks
<1>3. ASSUME NEW c \in Clients, NEW i \in Nat
      PROVE  Spec /\ Runs(c) => MovesOver(c, i)
  <2>1. TypeOK /\ OrderInv /\ [Next]_vars /\ InHand(c, i) =>
            InHand(c, i)' \/ Seen(c, i)' \/ (gone[c])'
    BY HandKept
  <2>2. InHand(c, i) => pc[c] = "write"
    BY DEF InHand
  <2>3. QED
    BY <2>1, <2>2, TypeCorrect, OrderCorrect, PTL DEF Spec, MovesOver, Breaks
<1>4. QED
  BY <1>1, <1>2, <1>3, FairnessRuns DEF AllRun, QueueMovesOn

============================================================================
