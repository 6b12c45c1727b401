--------------------------- MODULE DashboardProofs ---------------------------
(***************************************************************************)
(* Proofs about Dashboard, for any hosts, viewers, configurations and      *)
(* capacity of the channels.                                               *)
(***************************************************************************)
EXTENDS Dashboard, TLAPS

(***************************************************************************)
(* Facts about the operators the model is built from.                      *)
(***************************************************************************)

\* What appending to a sequence does to its elements.
LEMMA Appended ==
    ASSUME NEW S, NEW q \in Seq(S), NEW e \in S
    PROVE  /\ Append(q, e) \in Seq(S)
           /\ Len(Append(q, e)) = Len(q) + 1
           /\ DOMAIN q = 1 .. Len(q) /\ Len(q) \in Nat
           /\ DOMAIN Append(q, e) = 1 .. Len(q) + 1
           /\ Append(q, e)[Len(q) + 1] = e
           /\ \A i \in 1 .. Len(q) : Append(q, e)[i] = q[i]
  OBVIOUS

\* What taking the first element off a sequence does to the others.
LEMMA Trimmed ==
    ASSUME NEW S, NEW q \in Seq(S), q # <<>>
    PROVE  /\ Head(q) \in S /\ Head(q) = q[1]
           /\ Tail(q) \in Seq(S)
           /\ Len(q) \in Nat \ {0}
           /\ Len(Tail(q)) = Len(q) - 1
           /\ DOMAIN q = 1 .. Len(q)
           /\ DOMAIN Tail(q) = 1 .. Len(q) - 1
           /\ \A i \in 1 .. Len(q) - 1 : Tail(q)[i] = q[i + 1]
  OBVIOUS

\* The hosts of a configuration are hosts.
LEMMA HostsOfConfig ==
    ASSUME NEW f \in Configs
    PROVE  /\ f.hosts \in Seq(Hosts)
           /\ Len(f.hosts) \in Nat
           /\ DOMAIN f.hosts = 1 .. Len(f.hosts)
           /\ \A i \in 1 .. Len(f.hosts) : f.hosts[i] \in Hosts
           /\ Range(f.hosts) \subseteq Hosts
<1>1. f.hosts \in Seq(Hosts)
  BY ConfigsAssumption
<1>2. /\ Len(f.hosts) \in Nat
      /\ DOMAIN f.hosts = 1 .. Len(f.hosts)
      /\ \A i \in 1 .. Len(f.hosts) : f.hosts[i] \in Hosts
  BY <1>1
<1>3. QED
  BY <1>1, <1>2 DEF Range

(***************************************************************************)
(* Type correctness.                                                       *)
(***************************************************************************)

LEMMA TypeInit == Init => TypeOK
  BY SizeAssumption DEF Init, TypeOK, PC, Version

\* The goroutines beside the handlers keep the types.
LEMMA TypeBeside ==
    ASSUME TypeOK, (\E f \in Configs : StoreConfig(f)) \/ Register \/ \E h \in Hosts : Update(h)
    PROVE  TypeOK'
<1>1. CASE \E f \in Configs : StoreConfig(f)
  BY <1>1 DEF StoreConfig, TypeOK, registry, loop
<1>2. CASE Register
  <2>1. known' \in SUBSET Hosts
    BY <1>2, HostsOfConfig DEF Register, TypeOK
  <2>2. QED
    BY <1>2, <2>1 DEF Register, TypeOK, loop, history
<1>3. ASSUME NEW h \in Hosts, Update(h) PROVE TypeOK'
  <2> DEFINE u == [host |-> h, version |-> status[h] + 1]
  <2>1. status[h] + 1 \in Version /\ u \in Card
    BY <1>3, SizeAssumption DEF Update, TypeOK, Version, Card
  <2>2. status' \in [Hosts -> Version]
    BY <1>3, <2>1 DEF Update, TypeOK
  <2>3. \A v \in Viewers : chan'[v] \in Seq(Card) /\ Len(chan'[v]) <= Buf
    <3> SUFFICES ASSUME NEW v \in Viewers PROVE chan'[v] \in Seq(Card) /\ Len(chan'[v]) <= Buf
      OBVIOUS
    <3>1. chan[v] \in Seq(Card) /\ Len(chan[v]) <= Buf /\ Buf \in Nat
      BY SizeAssumption DEF TypeOK
    <3>2. chan'[v] = IF v \in subs /\ Len(chan[v]) < Buf THEN Append(chan[v], u) ELSE chan[v]
      BY <1>3 DEF Update, Sent
    <3>3. QED
      BY <2>1, <3>1, <3>2, Appended
  <2>4. chan' \in [Viewers -> Seq(Card)]
    BY <1>3, <2>3 DEF Update, Sent
  <2>5. lost' \in [Viewers -> SUBSET Hosts]
    BY <1>3 DEF Update, TypeOK
  <2>6. QED
    BY <1>3, <2>2, <2>3, <2>4, <2>5 DEF Update, TypeOK, loop
<1>4. QED
  BY <1>1, <1>2, <1>3

\* The browser keeps the types.
LEMMA TypeBrowser ==
    ASSUME TypeOK, NEW v \in Viewers, Connect(v) \/ Disconnect(v)
    PROVE  TypeOK'
<1>1. CASE Connect(v)
  <2>1. Len(cfg.hosts) \in Nat /\ Visible \subseteq Hosts
    BY HostsOfConfig DEF TypeOK, Visible
  <2>2. NoCard \in Version \cup {NoCard} /\ <<>> \in Seq(Card) /\ Len(<<>>) <= Buf
    BY SizeAssumption
  <2>3. /\ subs' \in SUBSET Viewers /\ pc' \in [Viewers -> PC]
        /\ next' \in [Viewers -> Nat] /\ count' \in [Viewers -> Nat]
        /\ closed' \in [Viewers -> BOOLEAN] /\ gone' \in [Viewers -> BOOLEAN]
        /\ panicked' \in [Viewers -> BOOLEAN] /\ quiet' \in [Viewers -> BOOLEAN]
    BY <1>1, <2>1 DEF Connect, TypeOK, PC
  <2>4. /\ chan' \in [Viewers -> Seq(Card)] /\ \A w \in Viewers : Len(chan'[w]) <= Buf
        /\ shown' \in [Viewers -> [Hosts -> Version \cup {NoCard}]]
        /\ lost' \in [Viewers -> SUBSET Hosts] /\ stayed' \in [Viewers -> SUBSET Hosts]
    BY <1>1, <2>1, <2>2 DEF Connect, TypeOK
  <2>5. QED
    BY <1>1, <2>3, <2>4 DEF Connect, TypeOK
<1>2. CASE Disconnect(v)
  BY <1>2 DEF Disconnect, TypeOK, registry, loop, history
<1>3. QED
  BY <1>1, <1>2

\* The handler keeps the types.
LEMMA TypeHandler ==
    ASSUME TypeOK, NEW v \in Viewers, HandlerShape(v), HandlerStep(v)
    PROVE  TypeOK'
<1>1. pc' \in [Viewers -> PC]
  <2>1. \E l \in PC : pc' = [pc EXCEPT ![v] = l]
    BY DEF HandlerStep, LocalStep, Pick, Panic, EndSnapshot, CanDo, Refuse, Continue, Write,
           Receive, Quit, Unsubscribe, Close, PC, TypeOK
  <2>2. QED
    BY <2>1 DEF TypeOK
<1>2. CASE Pick(v)
  <2>1. next[v] \in 1 .. Len(cfg.hosts) /\ 0 \in Version
    BY <1>2, HostsOfConfig, SizeAssumption DEF Pick, TypeOK, HandlerShape, Version
  <2>2. cfg.hosts[next[v]] \in Hosts
    BY <2>1, HostsOfConfig DEF TypeOK
  <2>3. {[host |-> cfg.hosts[next[v]], version |-> 0]} \in SUBSET Card
    BY <2>1, <2>2 DEF Card
  <2>4. cur' \in [Viewers -> SUBSET Card]
    BY <1>2, <2>3 DEF Pick, TypeOK
  <2>5. QED
    BY <1>1, <1>2, <2>4 DEF Pick, TypeOK, registry, loop, history
<1>3. CASE Panic(v) \/ EndSnapshot(v) \/ Quit(v)
  <2>1. CASE Panic(v)
    <3>1. panicked' \in [Viewers -> BOOLEAN] /\ gone' \in [Viewers -> BOOLEAN]
      BY <2>1 DEF Panic, TypeOK
    <3>2. QED
      BY <1>1, <2>1, <3>1 DEF Panic, TypeOK, registry, history
  <2>2. CASE EndSnapshot(v)
    <3>1. next' \in [Viewers -> Nat]
      BY <2>2 DEF EndSnapshot, TypeOK
    <3>2. QED
      BY <1>1, <2>2, <3>1 DEF EndSnapshot, TypeOK, registry, history
  <2>3. CASE Quit(v)
    BY <1>1, <2>3 DEF Quit, TypeOK, registry, loop, history
  <2>4. QED
    BY <1>3, <2>1, <2>2, <2>3
<1>4. CASE CanDo(v)
  <2>1. PICK card \in cur[v] :
            cur' = [cur EXCEPT ![v] = {[host |-> card.host, version |-> VersionOf(v, card)]}]
    BY <1>4 DEF CanDo
  <2>2. card \in Card
    BY DEF TypeOK
  <2>3. {[host |-> card.host, version |-> VersionOf(v, card)]} \in SUBSET Card
    BY <2>2 DEF TypeOK, Card, VersionOf
  <2>4. cur' \in [Viewers -> SUBSET Card]
    BY <2>1, <2>3 DEF TypeOK
  <2>5. QED
    BY <1>1, <1>4, <2>4 DEF CanDo, TypeOK, registry, loop, history
<1>5. CASE Refuse(v) \/ Write(v)
  <2>1. /\ Continue(v)
        /\ UNCHANGED <<cfg, registry, gone, stayed, quiet>>
    BY <1>5 DEF Refuse, Write, history
  <2>2. next' \in [Viewers -> Nat] /\ UNCHANGED <<count, panicked>>
    BY <2>1 DEF Continue, TypeOK
  <2>3. cur' \in [Viewers -> SUBSET Card]
    BY <2>1 DEF Continue, TypeOK
  <2>4. lost' \in [Viewers -> SUBSET Hosts]
    <3>1. CASE Refuse(v)
      <4>1. PICK card \in cur[v] : Pass(v, card)
        BY <3>1 DEF Refuse
      <4>2. card.host \in Hosts
        BY DEF TypeOK, Card
      <4>3. QED
        BY <4>1, <4>2 DEF Pass, TypeOK
    <3>2. CASE Write(v)
      BY <3>2 DEF Write, TypeOK, history
    <3>3. QED
      BY <1>5, <3>1, <3>2
  <2>5. shown' \in [Viewers -> [Hosts -> Version \cup {NoCard}]]
    <3>1. CASE Refuse(v)
      BY <3>1 DEF Refuse, TypeOK
    <3>2. CASE Write(v)
      <4>1. PICK card \in cur[v] :
                shown' = IF gone[v] THEN shown
                         ELSE [shown EXCEPT ![v][card.host] = card.version]
        BY <3>2 DEF Write
      <4>2. card.host \in Hosts /\ card.version \in Version
        BY DEF TypeOK, Card
      <4>3. QED
        BY <4>1, <4>2 DEF TypeOK
    <3>3. QED
      BY <1>5, <3>1, <3>2
  <2>6. QED
    BY <1>1, <2>1, <2>2, <2>3, <2>4, <2>5 DEF TypeOK, registry
<1>6. CASE Receive(v)
  <2>1. /\ chan[v] \in Seq(Card) /\ Len(chan[v]) <= Buf /\ chan[v] # <<>> /\ Buf \in Nat
        /\ chan' = [chan EXCEPT ![v] = Tail(chan[v])]
    BY <1>6, SizeAssumption DEF Receive, TypeOK
  <2>2. /\ Head(chan[v]) \in Card /\ Tail(chan[v]) \in Seq(Card)
        /\ Len(Tail(chan[v])) <= Buf
    BY <2>1, Trimmed
  <2>3. chan' \in [Viewers -> Seq(Card)] /\ \A w \in Viewers : Len(chan'[w]) <= Buf
    BY <2>1, <2>2 DEF TypeOK
  <2>4. cur' \in [Viewers -> SUBSET Card]
    <3>1. {Head(chan[v])} \in SUBSET Card
      BY <2>2
    <3>2. cur' = cur \/ cur' = [cur EXCEPT ![v] = {Head(chan[v])}]
      BY <1>6 DEF Receive
    <3>3. QED
      BY <3>1, <3>2 DEF TypeOK
  <2>5. lost' \in [Viewers -> SUBSET Hosts]
    <3>1. Head(chan[v]).host \in Hosts
      BY <2>2 DEF Card
    <3>2. lost' = lost \/ Pass(v, Head(chan[v]))
      BY <1>6 DEF Receive
    <3>3. ASSUME Pass(v, Head(chan[v])) PROVE lost' \in [Viewers -> SUBSET Hosts]
      <4>1. \E x \in SUBSET Hosts : lost' = [lost EXCEPT ![v] = x]
        BY <3>1, <3>3 DEF Pass, TypeOK
      <4>2. QED
        BY <4>1 DEF TypeOK
    <3>4. QED
      BY <3>2, <3>3 DEF TypeOK
  <2>6. QED
    BY <1>1, <1>6, <2>3, <2>4, <2>5 DEF Receive, TypeOK, loop
<1>7. CASE Unsubscribe(v)
  BY <1>1, <1>7 DEF Unsubscribe, TypeOK, loop, history
<1>8. CASE Close(v)
  <2>1. closed' \in [Viewers -> BOOLEAN] /\ next' \in [Viewers -> Nat]
    BY <1>8 DEF Close, TypeOK
  <2>2. cur' \in [Viewers -> SUBSET Card]
    BY <1>8 DEF Close, TypeOK
  <2>3. chan' \in [Viewers -> Seq(Card)] /\ \A w \in Viewers : Len(chan'[w]) <= Buf
    <3>1. <<>> \in Seq(Card) /\ Len(<<>>) <= Buf
      BY SizeAssumption
    <3>2. chan' = [chan EXCEPT ![v] = <<>>]
      BY <1>8 DEF Close
    <3>3. QED
      BY <3>1, <3>2 DEF TypeOK
  <2>4. QED
    BY <1>1, <1>8, <2>1, <2>2, <2>3 DEF Close, TypeOK, history
<1>9. QED
  BY <1>2, <1>3, <1>4, <1>5, <1>6, <1>7, <1>8 DEF HandlerStep, LocalStep

\* Every step keeps the handlers in shape.
LEMMA ShapeNext ==
    ASSUME TypeOK, \A v \in Viewers : HandlerShape(v), [Next]_vars
    PROVE  \A v \in Viewers : HandlerShape(v)'
<1>1. CASE UNCHANGED <<pc, cur, next>>
  BY <1>1 DEF HandlerShape
<1>2. ASSUME NEW v \in Viewers, Connect(v) \/ HandlerStep(v)
      PROVE  \A w \in Viewers : HandlerShape(w)'
  <2>1. ASSUME NEW w \in Viewers \ {v} PROVE HandlerShape(w)'
    <3>1. pc'[w] = pc[w] /\ cur'[w] = cur[w] /\ next'[w] = next[w]
      BY <1>2 DEF Connect, HandlerStep, LocalStep, Pick, Panic, EndSnapshot, CanDo, Refuse,
                  Continue, Write, Receive, Quit, Unsubscribe, Close, loop, TypeOK
    <3>2. QED
      BY <3>1 DEF HandlerShape
  <2>2. HandlerShape(v)'
    <3>1. HandlerShape(v) /\ next[v] \in Nat
      BY DEF TypeOK
    <3>2. CASE Connect(v) \/ Pick(v) \/ Panic(v) \/ EndSnapshot(v)
      <4>1. CASE Connect(v)
        BY <3>1, <4>1 DEF Connect, TypeOK, HandlerShape
      <4>2. CASE Pick(v)
        <5>1. pc'[v] = "canDo" /\ \E card : cur'[v] = {card}
          BY <4>2 DEF Pick, TypeOK
        <5>2. QED
          BY <5>1 DEF HandlerShape
      <4>3. CASE Panic(v)
        BY <3>1, <4>3 DEF Panic, TypeOK, HandlerShape
      <4>4. CASE EndSnapshot(v)
        BY <3>1, <4>4 DEF EndSnapshot, TypeOK, HandlerShape
      <4>5. QED
        BY <3>2, <4>1, <4>2, <4>3, <4>4
    <3>3. CASE CanDo(v) \/ Receive(v)
      <4>1. CASE CanDo(v)
        <5>1. pc'[v] = "write" /\ \E card : cur'[v] = {card}
          BY <4>1 DEF CanDo, TypeOK
        <5>2. QED
          BY ONLY <5>1 DEF HandlerShape
      <4>2. CASE Receive(v)
        <5>1. pc[v] = "select" /\ next'[v] = next[v] /\ next[v] = 0
          BY <3>1, <4>2 DEF Receive, loop, HandlerShape
        <5>2. \/ pc'[v] = "canDo" /\ \E card : cur'[v] = {card}
              \/ pc'[v] = pc[v] /\ cur'[v] = cur[v]
          <6>1. CASE UNCHANGED <<cur, pc>>
            BY <6>1
          <6>2. CASE /\ cur' = [cur EXCEPT ![v] = {Head(chan[v])}]
                     /\ pc' = [pc EXCEPT ![v] = "canDo"]
            BY ONLY <6>2, TypeOK DEF TypeOK
          <6>3. QED
            BY <4>2, <6>1, <6>2 DEF Receive
        <5>3. QED
          BY ONLY <3>1, <5>1, <5>2 DEF HandlerShape
      <4>3. QED
        BY <3>3, <4>1, <4>2
    <3>4. CASE Refuse(v) \/ Write(v)
      BY <3>1, <3>4 DEF Refuse, Write, Continue, TypeOK, HandlerShape
    <3>5. CASE Quit(v) \/ Unsubscribe(v) \/ Close(v)
      BY <3>1, <3>5 DEF Quit, Unsubscribe, Close, loop, TypeOK, HandlerShape
    <3>6. QED
      BY <1>2, <3>2, <3>3, <3>4, <3>5 DEF HandlerStep, LocalStep
  <2>3. QED
    BY <2>1, <2>2
<1>3. CASE \/ \E f \in Configs : StoreConfig(f)
           \/ Register \/ (\E h \in Hosts : Update(h))
           \/ (\E v \in Viewers : Disconnect(v)) \/ UNCHANGED vars
  BY <1>1, <1>3 DEF StoreConfig, Register, Update, Disconnect, vars, loop
<1>4. QED
  BY <1>2, <1>3 DEF Next

LEMMA TypeNext ==
    ASSUME TypeOK, \A v \in Viewers : HandlerShape(v), [Next]_vars
    PROVE  TypeOK'
<1>1. CASE UNCHANGED vars
  BY <1>1 DEF vars, registry, loop, history, TypeOK
<1>2. QED
  BY <1>1, TypeBeside, TypeBrowser, TypeHandler DEF Next

\* The registry, the configuration and the handlers' variables keep their types.
THEOREM TypeCorrect == Spec => []TypeOK
<1> DEFINE Inv == TypeOK /\ \A v \in Viewers : HandlerShape(v)
<1>1. Init => Inv
  BY TypeInit DEF Init, HandlerShape
<1>2. Inv /\ [Next]_vars => Inv'
  BY ShapeNext, TypeNext
<1>3. QED
  BY <1>1, <1>2, PTL DEF Spec

(***************************************************************************)
(* The subscribers.                                                        *)
(***************************************************************************)

\* Every step keeps the subscribers in step with the handlers.
LEMMA SubscribersNext ==
    ASSUME TypeOK, SubscribersAreOpen, [Next]_vars
    PROVE  SubscribersAreOpen'
<1>1. CASE UNCHANGED <<subs, pc, closed>>
  BY <1>1 DEF SubscribersAreOpen, Subscribed
<1>2. ASSUME NEW v \in Viewers, Connect(v) PROVE SubscribersAreOpen'
  BY <1>2 DEF Connect, SubscribersAreOpen, Subscribed, TypeOK
<1>3. ASSUME NEW v \in Viewers, HandlerStep(v) PROVE SubscribersAreOpen'
  <2>1. CASE Pick(v) \/ Panic(v) \/ EndSnapshot(v) \/ CanDo(v) \/ Refuse(v) \/ Receive(v)
             \/ Write(v) \/ Quit(v)
    <3>1. /\ subs' = subs /\ closed' = closed
          /\ \A w \in Viewers : Subscribed(w)' = Subscribed(w)
      BY <2>1 DEF Pick, Panic, EndSnapshot, CanDo, Refuse, Continue, Receive, Write, Quit,
                  registry, Subscribed, TypeOK
    <3>2. QED
      BY <3>1 DEF SubscribersAreOpen
  <2>2. CASE Unsubscribe(v)
    BY <2>2 DEF Unsubscribe, SubscribersAreOpen, Subscribed, TypeOK
  <2>3. CASE Close(v)
    BY <2>3 DEF Close, SubscribersAreOpen, Subscribed, TypeOK
  <2>4. QED
    BY <1>3, <2>1, <2>2, <2>3 DEF HandlerStep, LocalStep
<1>4. CASE \/ \E f \in Configs : StoreConfig(f)
           \/ Register \/ (\E h \in Hosts : Update(h))
           \/ (\E v \in Viewers : Disconnect(v)) \/ UNCHANGED vars
  BY <1>1, <1>4 DEF StoreConfig, Register, Update, Disconnect, vars, registry
<1>5. QED
  BY <1>2, <1>3, <1>4 DEF Next

\* Update never sends on a closed channel, and no handler leaves its channel behind
\* (hosts.go 89-118).
THEOREM SubscribersOpen == Spec => []SubscribersAreOpen
<1>1. Init => SubscribersAreOpen
  BY DEF Init, SubscribersAreOpen, Subscribed
<1>2. TypeOK /\ SubscribersAreOpen /\ [Next]_vars => SubscribersAreOpen'
  BY SubscribersNext
<1>3. QED
  BY <1>1, <1>2, TypeCorrect, PTL DEF Spec

(***************************************************************************)
(* The snapshot.                                                           *)
(***************************************************************************)

\* What SnapshotInv says of one handler, apart from its shape.
QuietHandler(v) ==
    quiet[v] => /\ ~panicked[v]
                /\ Streaming(v) /\ next[v] = 0 => \A h \in stayed[v] : shown[v][h] # NoCard
                /\ pc[v] \in {"pick", "canDo", "write"} /\ next[v] > 0 => LoopInStep(v)

\* The turns of the loop: with the card refused or written the handler goes on, and what
\* held of the turns before holds of this one.
LEMMA QuietContinue ==
    ASSUME TypeOK, NEW v \in Viewers, HandlerShape(v), QuietHandler(v),
           Refuse(v) \/ Write(v)
    PROVE  QuietHandler(v)'
<1>1. PICK card \in cur[v] : /\ cur[v] = {card}
                             /\ \/ /\ card.host \notin cfg.sees
                                   /\ shown' = shown
                                \/ shown' = IF gone[v] THEN shown
                                            ELSE [shown EXCEPT ![v][card.host] = card.version]
  BY DEF Refuse, Write, HandlerShape
<1>2. /\ pc[v] \in {"canDo", "write"} /\ Continue(v)
      /\ UNCHANGED <<cfg, gone, stayed, quiet>>
  BY DEF Refuse, Write, history
<1>3. /\ card.host \in Hosts /\ card.version # NoCard
      /\ next[v] \in Nat
      /\ \A h \in Hosts : shown'[v][h] = shown[v][h] \/ shown'[v][h] # NoCard
  <2>1. card.host \in Hosts /\ card.version \in Version
    BY DEF TypeOK, Card
  <2>2. card.version # NoCard
    BY <2>1, SizeAssumption DEF Version, NoCard
  <2>3. QED
    BY <1>1, <2>1, <2>2 DEF TypeOK
<1>4. /\ panicked' = panicked /\ count' = count /\ cfg' = cfg
      /\ gone'[v] = gone[v] /\ quiet'[v] = quiet[v] /\ stayed'[v] = stayed[v]
      /\ next'[v] = (IF next[v] > 0 THEN next[v] + 1 ELSE 0)
      /\ pc'[v] = (IF next[v] > 0 THEN "pick" ELSE "select")
  BY <1>2 DEF Continue, TypeOK
<1>5. ASSUME next[v] = 0 PROVE QuietHandler(v)'
  <2>1. Streaming(v)' => Streaming(v)
    BY <1>2, <1>4 DEF Streaming
  <2>2. stayed[v] \subseteq Hosts
    BY DEF TypeOK
  <2>3. QED
    BY <1>3, <1>4, <1>5, <2>1, <2>2 DEF QuietHandler, NoCard
<1>6. ASSUME next[v] > 0, quiet[v] PROVE QuietHandler(v)'
  <2>1. LoopInStep(v) /\ ~panicked[v]
    BY <1>2, <1>6 DEF QuietHandler
  <2>2. /\ Len(cfg.hosts) \in Nat
        /\ \A i \in 1 .. Len(cfg.hosts) : cfg.hosts[i] \in Hosts
    BY HostsOfConfig DEF TypeOK
  <2>3. next[v] <= count[v] /\ card.host = cfg.hosts[next[v]] /\ count[v] = Len(cfg.hosts)
    BY <1>1, <1>2, <2>1 DEF LoopInStep
  <2>4. ASSUME ~gone[v], NEW i \in 1 .. next'[v] - 1, cfg.hosts[i] \in cfg.sees
        PROVE  shown'[v][cfg.hosts[i]] # NoCard
    <3>1. i \in 1 .. next[v] /\ cfg.hosts[i] \in Hosts
      BY <1>3, <1>4, <1>6, <2>2, <2>3, <2>4
    <3>2. CASE i = next[v]
      <4>1. shown' = [shown EXCEPT ![v][card.host] = card.version]
        BY <1>1, <2>3, <2>4, <3>2
      <4>2. shown'[v][card.host] = card.version
        BY <1>3, <4>1 DEF TypeOK
      <4>3. QED
        BY <1>3, <2>3, <3>2, <4>2
    <3>3. CASE i # next[v]
      <4>1. i \in 1 .. next[v] - 1
        BY <1>3, <3>1, <3>3
      <4>2. shown[v][cfg.hosts[i]] # NoCard
        BY <2>1, <2>4, <4>1 DEF LoopInStep
      <4>3. QED
        BY <1>3, <3>1, <4>2
    <3>4. QED
      BY <3>2, <3>3
  <2>5. LoopInStep(v)'
    <3>1. stayed'[v] = Visible'
      BY <1>4, <2>1 DEF LoopInStep, Visible
    <3>2. count'[v] = Len(cfg'.hosts) /\ next'[v] <= count'[v] + 1 /\ pc'[v] = "pick"
      BY <1>3, <1>4, <1>6, <2>2, <2>3
    <3>3. \A i \in 1 .. next'[v] - 1 :
              ~gone'[v] /\ cfg'.hosts[i] \in cfg'.sees => shown'[v][cfg'.hosts[i]] # NoCard'
      BY <1>4, <2>4 DEF NoCard
    <3>4. QED
      BY <3>1, <3>2, <3>3 DEF LoopInStep
  <2>6. ~(next'[v] = 0)
    BY <1>3, <1>4, <1>6
  <2>7. QED
    BY <1>4, <2>1, <2>5, <2>6 DEF QuietHandler
<1>7. CASE ~quiet[v]
  BY <1>4, <1>7 DEF QuietHandler
<1>8. QED
  BY <1>3, <1>5, <1>6, <1>7

\* The handler's other steps.
LEMMA QuietStep ==
    ASSUME TypeOK, NEW v \in Viewers, HandlerShape(v), QuietHandler(v),
           Connect(v) \/ Disconnect(v) \/ HandlerStep(v)
    PROVE  QuietHandler(v)'
<1>1. /\ Len(cfg.hosts) \in Nat /\ next[v] \in Nat /\ count[v] \in Nat
  BY HostsOfConfig DEF TypeOK
<1>2. CASE Connect(v)
  <2>1. /\ ~panicked'[v] /\ next'[v] = 1 /\ pc'[v] = "pick" /\ cfg' = cfg
        /\ count'[v] = Len(cfg.hosts) /\ stayed'[v] = Visible
    BY <1>2 DEF Connect, TypeOK
  <2>2. LoopInStep(v)'
    BY <1>1, <2>1 DEF LoopInStep, Visible
  <2>3. QED
    BY <2>1, <2>2 DEF QuietHandler
<1>3. CASE Disconnect(v)
  <2>1. gone'[v] /\ UNCHANGED <<cfg, loop, pc, cur, shown, stayed, quiet>>
    BY <1>3 DEF Disconnect, TypeOK, history
  <2>2. LoopInStep(v) => LoopInStep(v)'
    BY <2>1 DEF LoopInStep, Visible, loop
  <2>3. QED
    BY <2>1, <2>2 DEF QuietHandler, Streaming, loop
<1>4. CASE Pick(v)
  <2>1. /\ pc[v] = "pick" /\ next[v] > 0 /\ next[v] <= count[v]
        /\ pc'[v] = "canDo" /\ cur'[v] = {[host |-> cfg.hosts[next[v]], version |-> 0]}
        /\ UNCHANGED <<cfg, loop, gone, shown, stayed, quiet>>
    BY <1>4 DEF Pick, TypeOK, history, HandlerShape
  <2>2. LoopInStep(v) => LoopInStep(v)'
    BY <2>1 DEF LoopInStep, Visible, NoCard, loop
  <2>3. QED
    BY <2>1, <2>2 DEF QuietHandler, loop
<1>5. CASE Panic(v)
  <2>1. ~LoopInStep(v) /\ pc[v] = "pick" /\ next[v] > 0 /\ quiet'[v] = quiet[v]
    BY <1>1, <1>5 DEF Panic, LoopInStep, HandlerShape, history
  <2>2. ~quiet[v]
    BY <2>1 DEF QuietHandler
  <2>3. QED
    BY <2>1, <2>2 DEF QuietHandler
<1>6. CASE EndSnapshot(v)
  <2>1. /\ pc[v] = "pick" /\ next[v] > count[v] /\ next[v] > 0
        /\ next'[v] = 0 /\ UNCHANGED <<panicked, gone, shown, stayed, quiet>>
    BY <1>6 DEF EndSnapshot, TypeOK, history, HandlerShape
  <2>2. ASSUME quiet[v], ~gone[v], NEW h \in stayed[v] PROVE shown[v][h] # NoCard
    <3>1. LoopInStep(v)
      BY <2>1, <2>2 DEF QuietHandler
    <3>2. PICK i \in 1 .. Len(cfg.hosts) : h = cfg.hosts[i] /\ h \in cfg.sees
      BY <2>2, <3>1, HostsOfConfig DEF LoopInStep, Visible, Range, TypeOK
    <3>3. i \in 1 .. next[v] - 1
      BY <1>1, <2>1, <3>1 DEF LoopInStep
    <3>4. QED
      BY <2>2, <3>1, <3>2, <3>3 DEF LoopInStep
  <2>3. QED
    BY <2>1, <2>2 DEF QuietHandler, Streaming, NoCard
<1>7. CASE CanDo(v)
  <2>1. /\ pc[v] = "canDo" /\ pc'[v] = "write"
        /\ UNCHANGED <<cfg, loop, gone, shown, stayed, quiet>>
    BY <1>7 DEF CanDo, TypeOK, history
  <2>2. \A card \in cur'[v] : \E c \in cur[v] : card.host = c.host
    BY <1>7 DEF CanDo, TypeOK
  <2>3. LoopInStep(v) => LoopInStep(v)'
    BY <2>1, <2>2 DEF LoopInStep, Visible, NoCard, loop
  <2>4. QED
    BY <2>1, <2>3 DEF QuietHandler, Streaming, NoCard, loop
<1>8. CASE Refuse(v) \/ Write(v)
  BY <1>8, QuietContinue
<1>9. CASE Receive(v) \/ Quit(v)
  <2>1. /\ pc[v] = "select" /\ next[v] = 0
        /\ UNCHANGED <<loop, gone, shown, stayed, quiet>>
    BY <1>9 DEF Receive, Quit, HandlerShape, history
  <2>2. QED
    BY <2>1 DEF QuietHandler, Streaming, NoCard, loop
<1>10. CASE Unsubscribe(v) \/ Close(v)
  <2>1. pc'[v] \in {"close", "none"} /\ UNCHANGED <<panicked, quiet>>
    BY <1>10 DEF Unsubscribe, Close, TypeOK, loop, history
  <2>2. QED
    BY <2>1 DEF QuietHandler, Streaming
<1>11. QED
  BY <1>2, <1>3, <1>4, <1>5, <1>6, <1>7, <1>8, <1>9, <1>10 DEF HandlerStep, LocalStep

\* Every step keeps the invariant of the snapshot: a reload ends the quiet of the
\* handlers in their loop, and a handler leaves the others alone.
LEMMA SnapshotNext ==
    ASSUME TypeOK, \A v \in Viewers : HandlerShape(v) /\ QuietHandler(v), [Next]_vars
    PROVE  \A v \in Viewers : QuietHandler(v)'
<1>1. SUFFICES ASSUME NEW v \in Viewers PROVE QuietHandler(v)'
  OBVIOUS
<1>2. CASE \E f \in Configs : StoreConfig(f)
  <2>1. /\ quiet'[v] => quiet[v] /\ next[v] = 0
        /\ next[v] = 0 => stayed'[v] = stayed[v]
        /\ UNCHANGED <<loop, pc, gone, shown>>
    BY <1>2 DEF StoreConfig
  <2>2. QED
    BY <2>1 DEF QuietHandler, Streaming, NoCard, loop
<1>3. ASSUME NEW w \in Viewers, Connect(w) \/ Disconnect(w) \/ HandlerStep(w)
      PROVE  QuietHandler(v)'
  <2>1. CASE w = v
    BY <1>3, <2>1, QuietStep
  <2>2. CASE w # v
    <3>1. /\ cfg' = cfg
          /\ pc'[v] = pc[v] /\ cur'[v] = cur[v] /\ next'[v] = next[v] /\ count'[v] = count[v]
          /\ gone'[v] = gone[v] /\ shown'[v] = shown[v] /\ panicked'[v] = panicked[v]
          /\ stayed'[v] = stayed[v] /\ quiet'[v] = quiet[v]
      <4>1. CASE Connect(w) \/ Disconnect(w)
        BY <2>2, <4>1 DEF Connect, Disconnect, loop, history, TypeOK
      <4>2. CASE Pick(w) \/ Panic(w) \/ EndSnapshot(w) \/ CanDo(w)
        BY <2>2, <4>2 DEF Pick, Panic, EndSnapshot, CanDo, loop, history, TypeOK
      <4>3. CASE Refuse(w) \/ Write(w)
        BY <2>2, <4>3 DEF Refuse, Write, Continue, history, TypeOK
      <4>4. CASE Receive(w) \/ Quit(w) \/ Unsubscribe(w) \/ Close(w)
        BY <2>2, <4>4 DEF Receive, Quit, Unsubscribe, Close, loop, history, TypeOK
      <4>5. QED
        BY <1>3, <4>1, <4>2, <4>3, <4>4 DEF HandlerStep, LocalStep
    <3>2. LoopInStep(v) => LoopInStep(v)'
      BY <3>1 DEF LoopInStep, Visible, NoCard
    <3>3. QED
      BY <3>1, <3>2 DEF QuietHandler, Streaming, NoCard
  <2>3. QED
    BY <2>1, <2>2
<1>4. CASE Register \/ (\E h \in Hosts : Update(h)) \/ UNCHANGED vars
  <2>1. UNCHANGED <<cfg, loop, pc, cur, gone, shown, stayed, quiet>>
    BY <1>4 DEF Register, Update, vars, history
  <2>2. QED
    BY <2>1 DEF QuietHandler, Streaming, LoopInStep, Visible, NoCard, loop
<1>5. QED
  BY <1>2, <1>3, <1>4 DEF Next

\* The loop is in step with the configuration as long as no reload falls into it
\* (sse.go 33-72).
THEOREM SnapshotCorrect == Spec => []SnapshotInv
<1> DEFINE Inv == \A v \in Viewers : HandlerShape(v) /\ QuietHandler(v)
<1>1. Init => Inv
  BY DEF Init, HandlerShape, QuietHandler, Streaming
<1>2. TypeOK /\ Inv /\ [Next]_vars => Inv'
  <2>1. SUFFICES ASSUME TypeOK, Inv, [Next]_vars PROVE Inv'
    OBVIOUS
  <2>2. QED
    BY <2>1, ShapeNext, SnapshotNext
<1>3. Inv => SnapshotInv
  BY DEF SnapshotInv, QuietHandler
<1>4. QED
  BY <1>1, <1>2, <1>3, TypeCorrect, PTL DEF Spec

\* A snapshot that no reload disturbs ends, without a panic, with a card for every
\* host that its principal may see (sse.go 36-45).
THEOREM QuietSnapshot == Spec => []QuietSnapshotIsComplete
<1>1. SnapshotInv => QuietSnapshotIsComplete
  BY DEF SnapshotInv, QuietSnapshotIsComplete
<1>2. QED
  BY <1>1, SnapshotCorrect, PTL

(***************************************************************************)
(* The cards.                                                              *)
(***************************************************************************)

\* What CardsCatchUp says of one handler.
CatchesUp(v) == Streaming(v) => \A h \in Hosts \ lost[v] : Current(v, h)

\* Current(v, h) reads the channel, the card in hand, the card shown and the status.
LEMMA CurrentKept ==
    ASSUME NEW v, NEW h, Current(v, h),
           chan'[v] = chan[v], InHand(v, h)' = InHand(v, h),
           shown'[v][h] = shown[v][h], status'[h] = status[h]
    PROVE  Current(v, h)'
<1>1. Queued(v, h)' = Queued(v, h)
  BY DEF Queued
<1>2. QED
  BY <1>1 DEF Current, NoCard

\* An update is queued as the newest of its host, or its host counts as lost.
LEMMA CatchUpdate ==
    ASSUME TypeOK, SubscribersAreOpen, NEW v \in Viewers, CatchesUp(v),
           NEW g \in Hosts, Update(g)
    PROVE  CatchesUp(v)'
<1> DEFINE u == [host |-> g, version |-> status[g] + 1]
           q == chan[v]
<1>1. SUFFICES ASSUME Streaming(v)', NEW h \in Hosts, h \notin lost'[v]
               PROVE  Current(v, h)'
  BY DEF CatchesUp
<1>2. Streaming(v) /\ v \in subs
  BY <1>1 DEF Update, Streaming, SubscribersAreOpen, Subscribed
<1>3. /\ InHand(v, h)' = InHand(v, h) /\ shown' = shown
      /\ status'[h] = (IF h = g THEN u.version ELSE status[h])
  BY DEF Update, InHand, loop, TypeOK
<1>4. u \in Card /\ u.host = g
  BY SizeAssumption DEF Update, TypeOK, Card, Version
<1>5. q \in Seq(Card) /\ Len(q) \in Nat /\ DOMAIN q = 1 .. Len(q)
  BY DEF TypeOK
<1>6. CASE Len(q) < Buf
  <2>1. chan'[v] = Append(q, u) /\ lost'[v] = lost[v] \ {g}
    BY <1>2, <1>6 DEF Update, Sent
  <2>2. /\ DOMAIN chan'[v] = 1 .. Len(q) + 1
        /\ chan'[v][Len(q) + 1] = u
        /\ \A i \in 1 .. Len(q) : chan'[v][i] = q[i]
    BY <1>4, <1>5, <2>1, Appended
  <2>3. CASE h = g
    <3>1. Len(q) + 1 \in Queued(v, h)'
      BY <1>4, <1>5, <2>2, <2>3 DEF Queued
    <3>2. \A i \in Queued(v, h)' : Len(q) + 1 <= i => i = Len(q) + 1
      BY <1>5, <2>2 DEF Queued
    <3>3. QED
      BY <1>3, <2>2, <2>3, <3>1, <3>2 DEF Current
  <2>4. CASE h # g
    <3>1. Current(v, h)
      BY <1>1, <1>2, <2>1, <2>4 DEF CatchesUp
    <3>2. Queued(v, h)' = Queued(v, h)
      BY <1>4, <1>5, <2>2, <2>4 DEF Queued
    <3>3. \A i \in Queued(v, h) : chan'[v][i] = q[i]
      BY <1>5, <2>2 DEF Queued
    <3>4. QED
      BY <1>3, <2>4, <3>1, <3>2, <3>3 DEF Current, NoCard
  <2>5. QED
    BY <2>3, <2>4
<1>7. CASE ~(Len(q) < Buf)
  <2>1. chan'[v] = q /\ lost'[v] = lost[v] \cup {g}
    BY <1>2, <1>7 DEF Update, Sent
  <2>2. h # g /\ Current(v, h)
    BY <1>1, <1>2, <2>1 DEF CatchesUp
  <2>3. QED
    BY <1>3, <2>1, <2>2, CurrentKept
<1>8. QED
  BY <1>6, <1>7

\* Taken off the channel, an update is in hand, or it was not the newest of its host, or
\* its host counts as lost.
LEMMA CatchReceive ==
    ASSUME TypeOK, NEW v \in Viewers, HandlerShape(v), CatchesUp(v), Receive(v)
    PROVE  CatchesUp(v)'
<1> DEFINE q == chan[v]
           c == Head(chan[v])
<1>1. SUFFICES ASSUME Streaming(v)', NEW h \in Hosts, h \notin lost'[v]
               PROVE  Current(v, h)'
  BY DEF CatchesUp
<1>2. /\ pc[v] = "select" /\ next[v] = 0 /\ cur[v] = {} /\ q \in Seq(Card) /\ q # <<>>
      /\ chan'[v] = Tail(q) /\ UNCHANGED <<status, shown, next, gone>>
  BY DEF Receive, HandlerShape, TypeOK, loop
<1>3. /\ c \in Card /\ c = q[1]
      /\ Len(q) \in Nat \ {0} /\ DOMAIN q = 1 .. Len(q)
      /\ DOMAIN chan'[v] = 1 .. Len(q) - 1
      /\ \A i \in 1 .. Len(q) - 1 : chan'[v][i] = q[i + 1]
  BY <1>2, Trimmed
<1>4. h \notin lost[v] /\ (lost' = lost \/ Pass(v, c))
  BY <1>1 DEF Receive, Pass, TypeOK
<1>5. Streaming(v) /\ Current(v, h)
  BY <1>1, <1>2, <1>4 DEF Streaming, CatchesUp
<1>6. InHand(v, h) = {}
  BY <1>2 DEF InHand
<1>7. \A i \in 1 .. Len(q) - 1 : i \in Queued(v, h)' <=> i + 1 \in Queued(v, h)
  BY <1>3 DEF Queued
<1>8. ASSUME NEW i \in Queued(v, h)', \A j \in Queued(v, h)' : j <= i
      PROVE  chan'[v][i].version = status[h]
  <2>1. i \in 1 .. Len(q) - 1 /\ i + 1 \in Queued(v, h)
    BY <1>3, <1>7, <1>8 DEF Queued
  <2>2. ASSUME NEW j \in Queued(v, h) PROVE j <= i + 1
    <3>1. j \in 1 .. Len(q)
      BY <1>3, <2>2 DEF Queued
    <3>2. CASE j = 1
      BY <2>1, <3>2
    <3>3. CASE j # 1
      <4>1. j - 1 \in 1 .. Len(q) - 1 /\ (j - 1) + 1 = j
        BY <1>3, <3>1, <3>3
      <4>2. j - 1 \in Queued(v, h)'
        BY <1>7, <2>2, <4>1
      <4>3. QED
        BY <1>8, <2>1, <3>1, <4>2
    <3>4. QED
      BY <3>2, <3>3
  <2>3. QED
    BY <1>3, <1>5, <2>1, <2>2 DEF Current
<1>9. ASSUME Queued(v, h)' = {}, c.host = h PROVE c.version = status[h]
  <2>1. 1 \in Queued(v, h)
    BY <1>3, <1>9 DEF Queued
  <2>2. ASSUME NEW j \in Queued(v, h) PROVE j <= 1
    <3>1. j \in 1 .. Len(q)
      BY <1>3, <2>2 DEF Queued
    <3>2. CASE j # 1
      <4>1. j - 1 \in 1 .. Len(q) - 1 /\ (j - 1) + 1 = j
        BY <1>3, <3>1, <3>2
      <4>2. QED
        BY <1>7, <1>9, <2>2, <4>1
    <3>3. QED
      BY <3>1, <3>2
  <2>3. QED
    BY <1>3, <1>5, <2>1, <2>2 DEF Current
<1>10. ASSUME Queued(v, h)' = {}, c.host # h PROVE Queued(v, h) = {}
  <2>1. SUFFICES ASSUME NEW j \in Queued(v, h) PROVE FALSE
    OBVIOUS
  <2>2. j \in 1 .. Len(q) /\ j # 1
    BY <1>3, <1>10, <2>1 DEF Queued
  <2>3. j - 1 \in 1 .. Len(q) - 1 /\ (j - 1) + 1 = j
    BY <1>3, <2>2
  <2>4. QED
    BY <1>7, <1>10, <2>1, <2>3
<1>11. ASSUME Queued(v, h)' = {}
       PROVE  /\ \A card \in InHand(v, h)' : card.version = status[h]
              /\ InHand(v, h)' = {} => shown[v][h] \in {NoCard, status[h]}
  <2>1. CASE c.host = h
    <3>1. c.version = status[h] /\ lost' = lost
      <4>1. c.version = status[h]
        BY <1>9, <1>11, <2>1
      <4>2. ~Pass(v, c)
        BY <1>1, <1>2, <2>1, <4>1 DEF Pass, TypeOK
      <4>3. QED
        BY <1>4, <4>1, <4>2
    <3>2. cur'[v] = {c} /\ pc'[v] = "canDo"
      BY <1>1, <1>2, <2>1, <3>1 DEF Receive, Pass, TypeOK
    <3>3. InHand(v, h)' = {c}
      BY <1>2, <2>1, <3>2 DEF InHand
    <3>4. QED
      BY <3>1, <3>3
  <2>2. CASE c.host # h
    <3>1. \A card \in cur'[v] : card.host # h
      BY <1>2, <2>2 DEF Receive, TypeOK
    <3>2. InHand(v, h)' = {}
      BY <3>1 DEF InHand
    <3>3. QED
      BY <1>5, <1>6, <1>10, <1>11, <2>2, <3>2 DEF Current
  <2>3. QED
    BY <2>1, <2>2
<1>12. QED
  BY <1>2, <1>8, <1>11 DEF Current, NoCard

\* A card in hand is written, or refused and its host counts as lost, unless the channel
\* has a newer one.
LEMMA CatchCard ==
    ASSUME TypeOK, NEW v \in Viewers, HandlerShape(v), CatchesUp(v),
           CanDo(v) \/ Refuse(v) \/ Write(v)
    PROVE  CatchesUp(v)'
<1>1. SUFFICES ASSUME Streaming(v)', NEW h \in Hosts, h \notin lost'[v]
               PROVE  Current(v, h)'
  BY DEF CatchesUp
<1>2. /\ UNCHANGED <<status, chan, gone>>
      /\ next[v] \in Nat /\ pc[v] \in {"canDo", "write"}
  BY DEF CanDo, Refuse, Write, registry, TypeOK
<1>3. PICK card : cur[v] = {card} /\ card \in Card
  BY <1>2 DEF HandlerShape, TypeOK
<1>4. h \notin lost[v] /\ Streaming(v)
  BY <1>1, <1>2 DEF CanDo, Refuse, Write, Pass, history, Streaming, TypeOK
<1>5. Current(v, h) /\ Queued(v, h)' = Queued(v, h)
  BY <1>2, <1>4 DEF CatchesUp, Queued
<1>6. CASE CanDo(v)
  <2> DEFINE d == [host |-> card.host, version |-> VersionOf(v, card)]
  <2>1. /\ cur'[v] = {d} /\ pc[v] = "canDo" /\ pc'[v] = "write"
        /\ UNCHANGED <<next, shown>>
    BY <1>3, <1>6 DEF CanDo, TypeOK, loop
  <2>2. CASE next[v] > 0 /\ card.host = h
    <3>1. InHand(v, h)' = {d} /\ d.version = status[h]
      BY <2>1, <2>2 DEF InHand, VersionOf
    <3>2. QED
      BY <1>2, <1>5, <3>1 DEF Current
  <2>3. CASE next[v] > 0 /\ card.host # h
    <3>1. InHand(v, h)' = {} /\ InHand(v, h) = {}
      BY <1>3, <2>1, <2>3 DEF InHand
    <3>2. QED
      BY <1>2, <1>5, <2>1, <3>1, CurrentKept
  <2>4. CASE next[v] = 0
    <3>1. d = card
      BY <1>3, <2>4 DEF VersionOf, Card
    <3>2. InHand(v, h)' = InHand(v, h)
      BY <1>3, <2>1, <2>4, <3>1 DEF InHand
    <3>3. QED
      BY <1>2, <1>5, <2>1, <3>2, CurrentKept
  <2>5. QED
    BY <1>2, <2>2, <2>3, <2>4
<1>7. CASE Refuse(v)
  <2>1. cur'[v] = {} /\ pc[v] = "canDo" /\ shown' = shown /\ Pass(v, card)
    BY <1>3, <1>7 DEF Refuse, Continue, TypeOK
  <2>2. InHand(v, h)' = {}
    BY <2>1 DEF InHand
  <2>3. CASE next[v] = 0 /\ card.host = h
    <3>1. card.version # status[h]
      BY <1>1, <2>1, <2>3 DEF Pass, TypeOK
    <3>2. card \in InHand(v, h)
      BY <1>3, <2>3 DEF InHand
    <3>3. Queued(v, h) # {}
      BY <1>5, <3>1, <3>2 DEF Current
    <3>4. QED
      BY <1>2, <1>5, <3>3 DEF Current
  <2>4. CASE next[v] > 0 \/ card.host # h
    <3>1. InHand(v, h) = {}
      BY <1>2, <1>3, <2>1, <2>4 DEF InHand
    <3>2. QED
      BY <1>2, <1>5, <2>1, <2>2, <3>1, CurrentKept
  <2>5. QED
    BY <1>2, <2>3, <2>4
<1>8. CASE Write(v)
  <2>1. /\ cur'[v] = {} /\ pc[v] = "write"
        /\ shown' = [shown EXCEPT ![v][card.host] = card.version]
    BY <1>3, <1>4, <1>8 DEF Write, Continue, TypeOK, Streaming
  <2>2. /\ InHand(v, h)' = {}
        /\ shown'[v][h] = (IF card.host = h THEN card.version ELSE shown[v][h])
    BY <1>3, <2>1 DEF InHand, TypeOK, Card
  <2>3. CASE card.host = h
    <3>1. card \in InHand(v, h)
      BY <1>3, <2>1, <2>3 DEF InHand
    <3>2. QED
      BY <1>2, <1>5, <2>2, <2>3, <3>1 DEF Current
  <2>4. CASE card.host # h
    <3>1. InHand(v, h) = {}
      BY <1>3, <2>4 DEF InHand
    <3>2. QED
      BY <1>2, <1>5, <2>2, <2>4, <3>1, CurrentKept
  <2>5. QED
    BY <2>3, <2>4
<1>9. QED
  BY <1>6, <1>7, <1>8

\* The handler's other steps neither move nor lose a card.
LEMMA CatchStep ==
    ASSUME TypeOK, NEW v \in Viewers, HandlerShape(v), CatchesUp(v),
           Connect(v) \/ Disconnect(v) \/ HandlerStep(v)
    PROVE  CatchesUp(v)'
<1>1. CASE Connect(v)
  <2>1. /\ chan'[v] = <<>> /\ cur'[v] = {}
        /\ \A h \in Hosts : shown'[v][h] = NoCard
    BY <1>1 DEF Connect, HandlerShape, TypeOK
  <2>2. ASSUME NEW h \in Hosts PROVE Queued(v, h)' = {} /\ InHand(v, h)' = {}
    BY <2>1 DEF Queued, InHand
  <2>3. QED
    BY <2>1, <2>2 DEF CatchesUp, Current, NoCard
<1>2. CASE Disconnect(v) \/ Panic(v) \/ Quit(v) \/ Unsubscribe(v) \/ Close(v)
  <2>1. ~Streaming(v)'
    BY <1>2 DEF Disconnect, Panic, Quit, Unsubscribe, Close, Streaming, TypeOK
  <2>2. QED
    BY <2>1 DEF CatchesUp
<1>3. CASE Pick(v) \/ EndSnapshot(v)
  <2>1. /\ pc[v] = "pick" /\ cur[v] = {} /\ next[v] > 0
        /\ UNCHANGED <<chan, status, shown, lost, gone>>
        /\ Streaming(v)' => Streaming(v)
    BY <1>3 DEF Pick, EndSnapshot, HandlerShape, registry, history, Streaming
  <2>2. ASSUME NEW h \in Hosts PROVE InHand(v, h)' = {} /\ InHand(v, h) = {}
    <3>1. CASE Pick(v)
      BY <2>1, <3>1 DEF Pick, InHand, TypeOK, loop
    <3>2. CASE EndSnapshot(v)
      BY <2>1, <3>2 DEF EndSnapshot, InHand
    <3>3. QED
      BY <1>3, <3>1, <3>2
  <2>3. QED
    BY <2>1, <2>2, CurrentKept DEF CatchesUp
<1>4. QED
  BY <1>1, <1>2, <1>3, CatchReceive, CatchCard DEF HandlerStep, LocalStep

\* No step leaves a browser with an outdated card.
LEMMA CatchNext ==
    ASSUME TypeOK, SubscribersAreOpen, [Next]_vars,
           \A v \in Viewers : HandlerShape(v) /\ CatchesUp(v)
    PROVE  \A v \in Viewers : CatchesUp(v)'
<1>1. SUFFICES ASSUME NEW v \in Viewers PROVE CatchesUp(v)'
  OBVIOUS
<1>2. ASSUME chan'[v] = chan[v], status' = status, cur'[v] = cur[v], pc'[v] = pc[v],
             next'[v] = next[v], gone'[v] = gone[v], shown'[v] = shown[v], lost'[v] = lost[v]
      PROVE  CatchesUp(v)'
  <2>1. \A h \in Hosts : InHand(v, h)' = InHand(v, h)
    BY <1>2 DEF InHand
  <2>2. Streaming(v)' <=> Streaming(v)
    BY <1>2 DEF Streaming
  <2>3. QED
    BY <1>2, <2>1, <2>2, CurrentKept DEF CatchesUp
<1>3. ASSUME NEW w \in Viewers, Connect(w) \/ Disconnect(w) \/ HandlerStep(w)
      PROVE  CatchesUp(v)'
  <2>1. CASE w = v
    BY <1>3, <2>1, CatchStep
  <2>2. CASE w # v
    <3>1. /\ status' = status /\ chan'[v] = chan[v]
          /\ pc'[v] = pc[v] /\ cur'[v] = cur[v] /\ next'[v] = next[v]
          /\ gone'[v] = gone[v] /\ shown'[v] = shown[v] /\ lost'[v] = lost[v]
      <4>1. CASE Connect(w) \/ Disconnect(w)
        BY <2>2, <4>1 DEF Connect, Disconnect, registry, loop, history, TypeOK
      <4>2. CASE Pick(w) \/ Panic(w) \/ EndSnapshot(w) \/ CanDo(w)
        BY <2>2, <4>2 DEF Pick, Panic, EndSnapshot, CanDo, registry, loop, history, TypeOK
      <4>3. CASE Refuse(w) \/ Write(w)
        BY <2>2, <4>3 DEF Refuse, Pass, Write, Continue, registry, history, TypeOK
      <4>4. CASE Receive(w) \/ Quit(w) \/ Unsubscribe(w) \/ Close(w)
        BY <2>2, <4>4 DEF Receive, Pass, Quit, Unsubscribe, Close, registry, loop, history,
                          TypeOK
      <4>5. QED
        BY <1>3, <4>1, <4>2, <4>3, <4>4 DEF HandlerStep, LocalStep
    <3>2. QED
      BY <1>2, <3>1
  <2>3. QED
    BY <2>1, <2>2
<1>4. CASE (\E f \in Configs : StoreConfig(f)) \/ Register \/ UNCHANGED vars
  BY <1>2, <1>4 DEF StoreConfig, Register, vars, registry, loop, history
<1>5. CASE \E h \in Hosts : Update(h)
  BY <1>5, CatchUpdate
<1>6. QED
  BY <1>3, <1>4, <1>5 DEF Next

\* A browser that keeps its connection never settles on an outdated card, unless its
\* newest update was lost (hosts.go 106-118, sse.go 33-72).
THEOREM CardsCorrect == Spec => []CardsCatchUp
<1> DEFINE Inv == \A v \in Viewers : HandlerShape(v) /\ CatchesUp(v)
<1>1. Init => Inv
  BY DEF Init, HandlerShape, CatchesUp, Streaming
<1>2. TypeOK /\ SubscribersAreOpen /\ Inv /\ [Next]_vars => Inv'
  <2>1. SUFFICES ASSUME TypeOK, SubscribersAreOpen, Inv, [Next]_vars PROVE Inv'
    OBVIOUS
  <2>2. QED
    BY <2>1, ShapeNext, CatchNext
<1>3. Inv => CardsCatchUp
  BY DEF CardsCatchUp, CatchesUp
<1>4. QED
  BY <1>1, <1>2, <1>3, TypeCorrect, SubscribersOpen, PTL DEF Spec

(***************************************************************************)
(* What must eventually happen.  The prover knows nothing of ENABLED, so   *)
(* the fairness of Dashboard is stated with its enabling conditions        *)
(* written out.                                                            *)
(***************************************************************************)

\* The handler has a step to take that needs no browser; a write returns because the
\* browser is gone; the select may end the handler.
CanStep(v) == pc[v] \in {"canDo", "unsub", "close"}
CanWrite(v) == gone[v] /\ pc[v] = "write"
CanQuit(v) == gone[v] /\ pc[v] = "select"

\* These conditions are strong enough.
FairGuards ==
    \A v \in Viewers : /\ CanStep(v) => ENABLED <<LocalStep(v)>>_vars
                       /\ CanWrite(v) => ENABLED <<gone[v] /\ Write(v)>>_vars
                       /\ CanQuit(v) => ENABLED <<Quit(v)>>_vars

\* WF_vars(LocalStep(v)), WF_vars(gone[v] /\ Write(v)) and SF_vars(Quit(v)), with them.
Runs(v) == /\ []<>~CanStep(v) \/ []<><<LocalStep(v)>>_vars
           /\ []<>~CanWrite(v) \/ []<><<gone[v] /\ Write(v)>>_vars
           /\ <>[]~CanQuit(v) \/ []<><<Quit(v)>>_vars
AllRun == \A v \in Viewers : Runs(v)

\* The fairness of the code gives that much, as long as these conditions are strong
\* enough.
Fair(v) == /\ WF_vars(LocalStep(v))
           /\ WF_vars(gone[v] /\ Write(v))
           /\ SF_vars(Quit(v))

LEMMA FairnessRuns == FairSpec /\ []FairGuards => Spec /\ AllRun
<1>1. ASSUME NEW v \in Viewers
      PROVE  Fair(v) /\ []FairGuards => Runs(v)
  <2>1. FairGuards =>
            /\ CanStep(v) => ENABLED <<LocalStep(v)>>_vars
            /\ CanWrite(v) => ENABLED <<gone[v] /\ Write(v)>>_vars
            /\ CanQuit(v) => ENABLED <<Quit(v)>>_vars
    BY DEF FairGuards
  <2>2. QED
    BY <2>1, PTL DEF Fair, Runs
<1>2. Fairness => \A v \in Viewers : Fair(v)
  BY PTL DEF Fairness, Fair
<1>3. Fairness /\ []FairGuards => AllRun
  BY <1>1, <1>2 DEF AllRun
<1>4. QED
  BY <1>3 DEF FairSpec

\* Where a handler stands that is through with its snapshot, or ends, while its
\* browser is gone.
Alone(v, l) == gone[v] /\ next[v] = 0 /\ pc[v] = l
Ending(v, l) == gone[v] /\ pc[v] = l
Ended(v) == pc[v] = "none"

\* The steps of such a handler.
EndSteps(v) ==
    /\ Alone(v, "select") =>
           \/ Ending(v, "unsub")'
           \/ (Alone(v, "select")' \/ Alone(v, "canDo")') /\ ~<<Quit(v)>>_vars
    /\ Alone(v, "canDo") =>
           \/ Alone(v, "write")' \/ Alone(v, "select")'
           \/ Alone(v, "canDo")' /\ ~<<LocalStep(v)>>_vars
    /\ Alone(v, "write") =>
           Alone(v, "select")' \/ (Alone(v, "write")' /\ ~<<gone[v] /\ Write(v)>>_vars)
    /\ <<Quit(v)>>_vars => Ending(v, "unsub")'
    /\ Ending(v, "unsub") =>
           Ending(v, "close")' \/ (Ending(v, "unsub")' /\ ~<<LocalStep(v)>>_vars)
    /\ Ending(v, "close") => Ended(v)' \/ (Ending(v, "close")' /\ ~<<LocalStep(v)>>_vars)

\* A handler whose browser is gone takes these steps, whatever the others do.
LEMMA EndGoesOn ==
    ASSUME TypeOK, NEW v \in Viewers, [Next]_vars
    PROVE  EndSteps(v)
<1> USE DEF EndSteps, Alone, Ending, Ended
<1>1. /\ pc \in [Viewers -> PC] /\ gone \in [Viewers -> BOOLEAN]
      /\ next \in [Viewers -> Nat]
  BY DEF TypeOK
<1>2. Continue(v) /\ next[v] = 0 => pc'[v] = "select" /\ next'[v] = 0
  BY <1>1 DEF Continue
<1>3. ASSUME LocalStep(v)
      PROVE  \/ pc[v] = "pick"
             \/ /\ gone' = gone
                /\ \/ pc[v] = "canDo" /\ pc'[v] = "write" /\ next' = next
                   \/ pc[v] = "canDo" /\ Continue(v)
                   \/ pc[v] = "select" /\ pc'[v] \in {"select", "canDo"} /\ next' = next
                   \/ pc[v] = "unsub" /\ pc'[v] = "close"
                   \/ pc[v] = "close" /\ pc'[v] = "none"
  <2>1. CASE Pick(v) \/ Panic(v) \/ EndSnapshot(v)
    BY <2>1 DEF Pick, Panic, EndSnapshot
  <2>2. CASE CanDo(v) \/ Refuse(v)
    BY <1>1, <2>2 DEF CanDo, Refuse, loop
  <2>3. CASE Receive(v)
    BY <1>1, <2>3 DEF Receive, loop
  <2>4. CASE Unsubscribe(v)
    BY <1>1, <2>4 DEF Unsubscribe
  <2>5. CASE Close(v)
    <3>1. pc[v] = "close" /\ gone' = gone /\ pc' = [pc EXCEPT ![v] = "none"]
      BY <2>5 DEF Close
    <3>2. QED
      BY ONLY <1>1, <3>1
  <2>6. QED
    BY <1>3, <2>1, <2>2, <2>3, <2>4, <2>5 DEF LocalStep
<1>4. ASSUME Write(v)
      PROVE  pc[v] = "write" /\ gone' = gone /\ Continue(v)
  BY <1>4 DEF Write
<1>5. ASSUME Quit(v)
      PROVE  pc[v] = "select" /\ gone[v] /\ gone' = gone /\ pc'[v] = "unsub"
  BY <1>1, <1>5 DEF Quit
<1>6. ASSUME UNCHANGED <<pc[v], gone[v], next[v]>>, ~LocalStep(v), ~Write(v), ~Quit(v)
      PROVE  EndSteps(v)
  BY <1>6
<1>7. CASE HandlerStep(v)
  <2>1. CASE LocalStep(v)
    BY ONLY <1>2, <1>3, <1>4, <1>5, <2>1 DEF EndSteps, Alone, Ending, Ended
  <2>2. CASE Write(v)
    BY ONLY <1>2, <1>3, <1>4, <1>5, <2>2 DEF EndSteps, Alone, Ending, Ended
  <2>3. CASE Quit(v)
    BY ONLY <1>2, <1>3, <1>4, <1>5, <2>3 DEF EndSteps, Alone, Ending, Ended
  <2>4. QED
    BY <1>7, <2>1, <2>2, <2>3 DEF HandlerStep
<1>8. CASE (Connect(v) \/ Disconnect(v)) /\ ~HandlerStep(v)
  BY <1>1, <1>8 DEF Connect, Disconnect, loop, HandlerStep
<1>9. ASSUME NEW w \in Viewers, w # v, Connect(w) \/ Disconnect(w) \/ HandlerStep(w)
      PROVE  UNCHANGED <<pc[v], gone[v], next[v]>>
  BY <1>1, <1>9 DEF Connect, Disconnect, HandlerStep, LocalStep, Pick, Panic, EndSnapshot,
     CanDo, Refuse, Receive, Unsubscribe, Close, Write, Quit, Continue, loop
<1>10. CASE Register \/ UNCHANGED vars \/ (\E f \in Configs : StoreConfig(f))
            \/ (\E h \in Hosts : Update(h))
  <2>1. UNCHANGED <<pc[v], gone[v], next[v]>>
    BY <1>10 DEF Register, vars, StoreConfig, Update, loop
  <2>2. QED
    BY <1>6, <1>7, <2>1 DEF HandlerStep
<1>11. QED
  BY <1>6, <1>7, <1>8, <1>9, <1>10 DEF Next, HandlerStep

\* A handler that is through with its snapshot, and whose browser has gone away, ends:
\* no number of updates keeps it in its select (sse.go 46-72).
GoneSelectEnds == \A v \in Viewers : gone[v] /\ next[v] = 0 ~> pc[v] = "none"

\* The select of a handler whose browser has gone away ends (sse.go 46-72).
THEOREM SelectEnds == FairSpec /\ []FairGuards => GoneSelectEnds
<1> SUFFICES ASSUME NEW v \in Viewers
             PROVE  Spec /\ Runs(v) => (gone[v] /\ next[v] = 0 ~> pc[v] = "none")
  BY FairnessRuns DEF AllRun, GoneSelectEnds
<1>1. TypeOK /\ [Next]_vars => EndSteps(v)
  BY EndGoesOn
<1>2. TypeOK /\ SnapshotInv /\ gone[v] /\ next[v] = 0 =>
          \/ Alone(v, "select") \/ Alone(v, "canDo") \/ Alone(v, "write")
          \/ Ending(v, "unsub") \/ Ending(v, "close") \/ Ended(v)
  BY DEF TypeOK, PC, SnapshotInv, HandlerShape, Alone, Ending, Ended
<1>3. /\ Alone(v, "canDo") \/ Ending(v, "unsub") \/ Ending(v, "close") => CanStep(v)
      /\ Alone(v, "write") => CanWrite(v)
      /\ Alone(v, "select") => CanQuit(v)
  BY DEF Alone, Ending, CanStep, CanWrite, CanQuit
<1>4. QED
  BY <1>1, <1>2, <1>3, TypeCorrect, SnapshotCorrect, PTL DEF Spec, Runs, EndSteps, Ended

=============================================================================
