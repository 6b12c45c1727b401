-------------------------- MODULE EventPagesProofs -------------------------
(***************************************************************************)
(* Proofs about EventPages, for any hosts, clients, capacities, limits and *)
(* numbers of events and restarts.                                         *)
(***************************************************************************)
EXTENDS EventPages, FiniteSetTheorems, SequenceTheorems, TLAPS

(***************************************************************************)
(* The page.                                                               *)
(***************************************************************************)

\* The page holds everything between two of its events, and between the cursor and one
\* of its events, that the log holds and the client may see.
LEMMA PageHasNoHole ==
    ASSUME NEW c \in Clients, NEW id \in Nat, NEW limit \in Int, LatestID \in Nat,
           NEW m \in Since(c, id, limit), NEW i \in Held \cap Visible(c), id < i, i <= m
    PROVE  i \in Since(c, id, limit)
<1> DEFINE all == {j \in Held \cap Visible(c) : j > id}
           Before(n) == {j \in all : j < n}
<1>1. all \subseteq 1 .. LatestID /\ i \in all /\ m \in all
  BY DEF Since, Held, Visible
<1>2. IsFiniteSet(Before(m))
  <2>1. IsFiniteSet(1 .. LatestID)
    BY FS_Interval
  <2>2. QED
    BY <1>1, <2>1, FS_Subset
<1>3. Before(i) \in SUBSET Before(m)
  BY <1>1
<1>4. Cardinality(Before(i)) <= Cardinality(Before(m))
  BY <1>2, <1>3, FS_Subset
<1>5. IsFiniteSet(Before(i))
  BY <1>2, <1>3, FS_Subset
<1>6. Cardinality(Before(m)) < limit
  BY DEF Since
<1>7. Cardinality(Before(i)) \in Nat /\ Cardinality(Before(m)) \in Nat
  BY <1>2, <1>5, FS_CardinalityType
<1>8. Cardinality(Before(i)) < limit
  BY <1>4, <1>6, <1>7
<1>9. QED
  BY <1>1, <1>8 DEF Since

\* What a page may hold.
LEMMA PageOf ==
    ASSUME NEW c \in Clients, NEW id, NEW limit, NEW i \in Since(c, id, limit)
    PROVE  i \in Visible(c) /\ i > id
  BY DEF Since

(***************************************************************************)
(* Types.                                                                  *)
(***************************************************************************)

LEMMA ClampedType ==
    ASSUME NEW limit \in Limits
    PROVE  Clamped(limit) \in Int
  BY SizeAssumption DEF Clamped

LEMMA InitTypeOK ==
    Init => TypeOK /\ StartInv
  BY SizeAssumption DEF Init, TypeOK, StartInv, Req, Stamp

LEMMA LatestType ==
    ASSUME TypeOK, StartInv
    PROVE  LatestID \in Nat /\ start[life] \in Nat /\ Len(log) \in Nat /\ life \in Nat
  BY SizeAssumption DEF TypeOK, StartInv, LatestID

LEMMA NowType ==
    ASSUME TypeOK, NEW c \in Clients, NEW i \in Visible(c)
    PROVE  Now(i) \in Stamp
  BY DEF TypeOK, Visible, Now, Stamp, LatestID

LEMMA NextTypeOK ==
    TypeOK /\ StartInv /\ [Next]_vars => TypeOK'
<1> SUFFICES ASSUME TypeOK, StartInv, [Next]_vars
             PROVE  TypeOK'
  OBVIOUS
<1> USE SizeAssumption
<1>1. ASSUME NEW h \in Hosts, AppendEvent(h)
      PROVE  TypeOK'
  BY <1>1 DEF AppendEvent, TypeOK
<1>2. CASE Restart
  <2>1. life' \in 0 .. MaxLives /\ start' \in [0 .. MaxLives -> Nat]
    BY <1>2 DEF Restart, TypeOK
  <2>2. req' \in [Clients -> Req]
    BY <1>2 DEF Restart, TypeOK, Req
  <2>3. QED
    BY <1>2, <2>1, <2>2 DEF Restart, TypeOK
<1>3. ASSUME NEW c \in Clients, PollStep(c) \/ Lose(c)
      PROVE  TypeOK'
  <2>0. req[c] \in Req /\ cursor[c] \in Stamp
    BY DEF TypeOK
  <2>1. CASE Request(c)
    BY <2>1 DEF Request, Become, TypeOK, Req
  <2>2. CASE TakePage(c)
    <3> DEFINE page == {Now(i) : i \in Since(c, cursor[c].id, Clamped(req[c].limit))}
    <3>1. page \in SUBSET Stamp
      BY PageOf, NowType
    <3>2. OutOfReach(c) \in SUBSET Stamp
      BY NowType DEF OutOfReach
    <3>3. req' = [req EXCEPT ![c] = [pc |-> "latest", page |-> page]]
      BY <2>2 DEF TakePage, Become
    <3>4. req' \in [Clients -> Req]
      BY <3>1, <3>3 DEF TypeOK, Req
    <3>5. missed' \in [Clients -> SUBSET Stamp]
      BY <2>2, <3>2 DEF TakePage, TypeOK
    <3>6. QED
      BY <2>2, <3>4, <3>5 DEF TakePage, TypeOK
  <2>3. CASE TakeLatest(c)
    <3>1. req[c].pc = "latest" /\ req[c].page \in SUBSET Stamp
      BY <2>0, <2>3 DEF TakeLatest, Answer, Req
    <3>2. PICK next \in NextID(c) :
              req' = [req EXCEPT ![c] = [pc |-> "answer", page |-> req[c].page,
                                         next |-> next, latest |-> LatestID]]
      BY <2>3 DEF TakeLatest, Answer, Become
    <3>3. next \in Stamp
      BY <2>0, <3>1 DEF NextID
    <3>4. UNCHANGED <<log, life, start, cursor, got, missed>>
      BY <2>3 DEF TakeLatest, Answer
    <3>5. req' \in [Clients -> Req]
      BY <3>1, <3>2, <3>3, LatestType DEF TypeOK, Req
    <3>6. QED
      BY <3>4, <3>5 DEF TypeOK
  <2>4. CASE Deliver(c)
    BY <2>0, <2>4 DEF Deliver, Become, TypeOK, Req
  <2>5. CASE Read(c)
    <3>1. PICK e \in req[c].page :
              /\ req' = [req EXCEPT ![c] = [req[c] EXCEPT !.page = @ \ {e}]]
              /\ got' = [got EXCEPT ![c] = Append(@, e)]
      BY <2>5 DEF Read, Become
    <3>2. req[c] \in [pc : {"reading"}, page : SUBSET Stamp, next : Stamp]
      BY <2>0, <2>5 DEF Read, Req
    <3>3. req' \in [Clients -> Req]
      BY <3>1, <3>2 DEF TypeOK, Req
    <3>4. e \in Stamp /\ got[c] \in Seq(Stamp)
      BY <3>1, <3>2 DEF TypeOK
    <3>5. Append(got[c], e) \in Seq(Stamp)
      BY <3>4
    <3>6. got' \in [Clients -> Seq(Stamp)]
      BY <3>1, <3>5 DEF TypeOK
    <3>7. QED
      BY <2>5, <3>3, <3>6 DEF Read, TypeOK
  <2>6. CASE Advance(c)
    BY <2>0, <2>6 DEF Advance, Become, TypeOK, Req
  <2>7. CASE Lose(c)
    BY <2>7 DEF Lose, Become, TypeOK, Req
  <2>8. QED
    BY <1>3, <2>1, <2>2, <2>3, <2>4, <2>5, <2>6, <2>7 DEF PollStep
<1>4. CASE UNCHANGED vars
  BY <1>4 DEF vars, TypeOK
<1>5. QED
  BY <1>1, <1>2, <1>3, <1>4 DEF Next

LEMMA NextStartInv ==
    TypeOK /\ StartInv /\ [Next]_vars => StartInv'
<1> SUFFICES ASSUME TypeOK, StartInv, [Next]_vars
             PROVE  StartInv'
  OBVIOUS
<1>1. ASSUME NEW h \in Hosts, AppendEvent(h)
      PROVE  StartInv'
  BY <1>1, LatestType DEF AppendEvent, TypeOK, StartInv
<1>2. CASE Restart
  <2>1. /\ life' = life + 1 /\ life + 1 \in 0 .. MaxLives /\ log' = log
        /\ start' = [start EXCEPT ![life + 1] = Len(log)]
        /\ start \in [0 .. MaxLives -> Nat]
    BY <1>2, SizeAssumption DEF Restart, TypeOK
  <2>2. ASSUME NEW n \in 0 .. MaxLives, n <= life
        PROVE  start[n] <= Len(log)
    <3>1. start[n] <= start[life] /\ start[life] <= Len(log)
      BY <2>2, LatestType DEF StartInv, TypeOK
    <3>2. start[n] \in Nat /\ start[life] \in Nat /\ Len(log) \in Nat
      BY <2>1, LatestType
    <3>3. QED
      BY ONLY <3>1, <3>2
  <2>3. ASSUME NEW n \in 0 .. MaxLives, NEW m \in 0 .. MaxLives, n <= m, m <= life + 1
        PROVE  start'[n] <= start'[m]
    <3>1. life \in Nat /\ MaxLives \in Nat /\ Len(log) \in Nat
      BY LatestType, SizeAssumption
    <3>2. CASE m = life + 1
      <4>1. start'[m] = Len(log) /\ (n # life + 1 => n <= life /\ start'[n] = start[n])
        BY ONLY <2>1, <2>3, <3>1, <3>2
      <4>2. QED
        BY <2>1, <2>2, <3>1, <3>2, <4>1
    <3>3. CASE m # life + 1
      <4>1. m <= life /\ start'[m] = start[m] /\ start'[n] = start[n]
        BY ONLY <2>1, <2>3, <3>1, <3>3
      <4>2. QED
        BY <2>3, <4>1 DEF StartInv
    <3>4. QED
      BY <3>2, <3>3
  <2>4. start'[life'] <= Len(log')
    BY ONLY <2>1, LatestType, TypeOK, StartInv
  <2>5. QED
    BY <2>1, <2>3, <2>4 DEF StartInv
<1>3. CASE UNCHANGED <<log, life, start>>
  BY <1>3 DEF StartInv
<1>4. QED
  BY <1>1, <1>2, <1>3 DEF Next, PollStep, Request, TakePage, TakeLatest, Answer,
                          Deliver, Read, Advance, Lose, vars

(***************************************************************************)
(* The inductive invariant, client by client.                              *)
(***************************************************************************)

Behind(c) == cursor[c].life = life => SeenUpTo(c, cursor[c].id, {})

Ahead(c) ==
    req[c].pc = "answer" /\ req[c].next.id > req[c].latest => cursor[c].life # life

Client(c) == Behind(c) /\ Ahead(c) /\ GotInv(c) /\ PageInv(c) /\ NextInv(c)

Inv == TypeOK /\ StartInv /\ \A c \in Clients : Client(c)

LEMMA InvIsPagesInv ==
    Inv <=> PagesInv
  BY DEF Inv, PagesInv, Client, Behind, Ahead, SeenUpTo, NothingSkipped, AheadMeansRestart

LEMMA InitInv ==
    Init => Inv
<1> SUFFICES ASSUME Init
             PROVE  Inv
  OBVIOUS
<1>1. TypeOK /\ StartInv
  BY InitTypeOK
<1>2. ASSUME NEW c \in Clients
      PROVE  Client(c)
  <2>1. /\ req[c] = [pc |-> "ready"] /\ got[c] = <<>> /\ life = 0 /\ log = <<>>
        /\ cursor[c] = [life |-> 0, id |-> 0] /\ start[0] = 0
    BY <1>2, SizeAssumption DEF Init
  <2>2. Range(got[c]) = {}
    BY <2>1 DEF Range
  <2>3. Visible(c) = {}
    BY <2>1 DEF Visible, LatestID
  <2>4. Behind(c) /\ Ahead(c) /\ PageInv(c) /\ NextInv(c)
    BY <2>1, <2>3 DEF Behind, Ahead, SeenUpTo, PageInv, NextInv
  <2>5. GotInv(c)
    BY <2>1, <2>2 DEF GotInv, Given, Place, End
  <2>6. QED
    BY <2>4, <2>5 DEF Client
<1>3. QED
  BY <1>1, <1>2 DEF Inv

LEMMA RangeAppend ==
    ASSUME NEW S, NEW q \in Seq(S), NEW e \in S
    PROVE  Range(Append(q, e)) = Range(q) \cup {e} /\ Range(q) \subseteq S
<1>1. /\ DOMAIN Append(q, e) = 1 .. Len(q) + 1
      /\ DOMAIN q = 1 .. Len(q) /\ Len(q) \in Nat
      /\ Append(q, e)[Len(q) + 1] = e
      /\ \A i \in 1 .. Len(q) : Append(q, e)[i] = q[i] /\ q[i] \in S
  OBVIOUS
<1>2. \A i \in 1 .. Len(q) + 1 : i \in 1 .. Len(q) \/ i = Len(q) + 1
  BY <1>1
<1>3. \A i \in 1 .. Len(q) : i \in 1 .. Len(q) + 1
  BY <1>1
<1>4. Len(q) + 1 \in 1 .. Len(q) + 1
  BY <1>1
<1>5. QED
  BY <1>1, <1>2, <1>3, <1>4, Zenon DEF Range

\* What the types say of a client.
LEMMA ClientTypes ==
    ASSUME TypeOK, NEW c \in Clients
    PROVE  /\ cursor[c] \in Stamp /\ got[c] \in Seq(Stamp) /\ Range(got[c]) \subseteq Stamp
           /\ req[c] \in Req
           /\ req[c].pc \in {"latest", "answer", "reading"} => req[c].page \subseteq Stamp
           /\ req[c].pc \in {"answer", "reading"} => req[c].next \in Stamp
<1>1. cursor[c] \in Stamp /\ got[c] \in Seq(Stamp) /\ req[c] \in Req
  BY DEF TypeOK
<1>2. Range(got[c]) \subseteq Stamp
  BY <1>1 DEF Range
<1>3. QED
  BY <1>1, <1>2 DEF Req

\* An event of the process that runs is in its log.
LEMMA GivenNow ==
    ASSUME TypeOK, StartInv, NEW e \in Stamp, Given(e), e.life = life
    PROVE  e.id \in Nat /\ e.id <= LatestID
  BY LatestType DEF Given, Place, End, LatestID, Stamp

\* An event that was logged is in the log of all processes.
LEMMA PlaceInLog ==
    ASSUME TypeOK, StartInv, NEW e \in Stamp, Given(e)
    PROVE  Place(e) \in 0 .. Len(log) /\ (e.id >= 1 => Place(e) \in 1 .. Len(log))
<1>1. start[e.life] \in Nat /\ e.id \in Nat /\ e.life \in 0 .. MaxLives
  BY DEF TypeOK, Stamp
<1>2. Place(e) \in Nat /\ (e.id >= 1 => Place(e) >= 1)
  BY <1>1 DEF Place
<1>3. CASE e.life < life
  <2>0. life \in 0 .. MaxLives /\ MaxLives \in Nat
    BY SizeAssumption DEF TypeOK
  <2>1. e.life + 1 \in 0 .. MaxLives /\ e.life + 1 <= life /\ life \in 0 .. MaxLives
    BY ONLY <1>1, <1>3, <2>0
  <2>2. start[e.life + 1] <= start[life] /\ start[e.life + 1] \in Nat
    BY <2>1 DEF StartInv, TypeOK
  <2>3. Place(e) <= start[e.life + 1]
    BY <1>3 DEF Given, End
  <2>4. start[life] <= Len(log) /\ start[life] \in Nat /\ Len(log) \in Nat
    BY LatestType DEF StartInv
  <2>5. QED
    BY ONLY <1>2, <2>2, <2>3, <2>4
<1>4. CASE ~(e.life < life)
  BY <1>2, <1>4, LatestType DEF Given, End
<1>5. QED
  BY <1>3, <1>4

(***************************************************************************)
(* The log grows.                                                          *)
(***************************************************************************)

LEMMA GrownLog ==
    ASSUME TypeOK, StartInv, NEW h \in Hosts, AppendEvent(h), NEW e \in Stamp, Given(e)
    PROVE  /\ Place(e)' = Place(e) /\ Given(e)'
           /\ e.id >= 1 => log'[Place(e)'] = log[Place(e)]
<1>1. /\ log' = Append(log, h) /\ log \in Seq(Hosts)
      /\ UNCHANGED <<life, start, req, cursor, got, missed>>
  BY DEF AppendEvent, TypeOK
<1>2. Len(log') = Len(log) + 1 /\ \A i \in 1 .. Len(log) : log'[i] = log[i]
  BY <1>1
<1>3. start[e.life] \in Nat /\ e.id \in Nat /\ e.life \in 0 .. MaxLives
  BY DEF TypeOK, Stamp
<1>4. Place(e)' = Place(e) /\ Place(e) \in Nat
  BY <1>1, <1>3 DEF Place
<1>5. Given(e)'
  BY <1>1, <1>2, <1>4, LatestType DEF Given, End
<1>6. e.id >= 1 => Place(e) \in 1 .. Len(log)
  BY PlaceInLog
<1>7. QED
  BY <1>2, <1>4, <1>5, <1>6

LEMMA GrownVisible ==
    ASSUME TypeOK, StartInv, NEW h \in Hosts, AppendEvent(h), NEW c \in Clients
    PROVE  \A i \in Visible(c)' : i <= LatestID => i \in Visible(c)
<1>1. /\ log' = Append(log, h) /\ log \in Seq(Hosts) /\ UNCHANGED <<life, start>>
  BY DEF AppendEvent, TypeOK
<1>2. \A i \in 1 .. Len(log) : log'[i] = log[i]
  BY <1>1
<1>3. SUFFICES ASSUME NEW i \in Visible(c)', i <= LatestID
               PROVE  i \in Visible(c)
  OBVIOUS
<1>4. i \in 1 .. LatestID' /\ log'[start[life] + i] \in Sees[c]
  BY <1>1, <1>3 DEF Visible, HostOf
<1>5. i \in 1 .. LatestID
  BY <1>3, <1>4, LatestType
<1>6. start[life] + i \in 1 .. Len(log)
  BY <1>5, LatestType DEF LatestID
<1>7. log[start[life] + i] \in Sees[c]
  BY <1>2, <1>4, <1>6
<1>8. QED
  BY <1>5, <1>7 DEF Visible, HostOf

LEMMA AppendInv ==
    ASSUME TypeOK, StartInv, NEW h \in Hosts, AppendEvent(h), NEW c \in Clients, Client(c)
    PROVE  Client(c)'
<1>1. UNCHANGED <<life, start, req, cursor, got, missed>>
  BY DEF AppendEvent
<1>2. ASSUME NEW e \in Stamp, Given(e), e.life = life, NEW page,
             SeenUpTo(c, e.id, page)
      PROVE  SeenUpTo(c, e.id, page)'
  <2>1. e.id \in Nat /\ e.id <= LatestID /\ LatestID \in Nat
    BY <1>2, GivenNow, LatestType
  <2>2. \A i \in Visible(c)' : i \in Nat
    BY DEF Visible
  <2>3. \A i \in Visible(c)' : i <= e.id => i \in Visible(c)
    BY <2>1, <2>2, GrownVisible
  <2>4. \A i : Now(i)' = Now(i)
    BY <1>1 DEF Now
  <2>5. QED
    BY <1>1, <1>2, <2>3, <2>4 DEF SeenUpTo
<1>3. GotInv(c)'
  BY <1>1, ClientTypes, GrownLog DEF Client, GotInv, Precedes
<1>4. Behind(c)'
  BY <1>1, <1>2, ClientTypes DEF Client, GotInv, Behind
<1>5. Ahead(c)'
  BY <1>1 DEF Client, Ahead
<1>6. PageInv(c)'
  BY <1>1, <1>2, ClientTypes, GrownLog DEF Client, PageInv, Precedes
<1>7. NextInv(c)'
  BY <1>1, <1>2, ClientTypes, GrownLog DEF Client, NextInv, Precedes
<1>8. QED
  BY <1>3, <1>4, <1>5, <1>6, <1>7 DEF Client

(***************************************************************************)
(* A restart.                                                              *)
(***************************************************************************)

LEMMA RestartKeeps ==
    ASSUME TypeOK, StartInv, Restart, NEW e \in Stamp, Given(e)
    PROVE  /\ Place(e)' = Place(e) /\ Given(e)' /\ log' = log
           /\ e.life # life'
<1>1. /\ life' = life + 1 /\ life + 1 \in 0 .. MaxLives /\ log' = log
      /\ start' = [start EXCEPT ![life + 1] = Len(log)]
      /\ start \in [0 .. MaxLives -> Nat]
  BY LatestType, SizeAssumption DEF Restart, TypeOK
<1>2. e.life \in 0 .. MaxLives /\ e.life <= life /\ life \in Nat
  BY LatestType DEF Given, Stamp
<1>3. start'[e.life] = start[e.life]
  BY <1>1, <1>2
<1>4. CASE e.life < life
  <2>0. MaxLives \in Nat /\ life + 1 \in 0 .. MaxLives
    BY <1>1, SizeAssumption
  <2>1. e.life + 1 \in 0 .. MaxLives /\ e.life + 1 # life + 1
    BY ONLY <1>2, <1>4, <2>0
  <2>2. start'[e.life + 1] = start[e.life + 1]
    <3> DEFINE n == e.life + 1
               m == life + 1
    <3>1. n \in 0 .. MaxLives /\ n # m
      BY ONLY <2>1
    <3>2. start' = [start EXCEPT ![m] = Len(log)] /\ start \in [0 .. MaxLives -> Nat]
      BY <1>1
    <3> HIDE DEF n, m
    <3>3. start'[n] = start[n]
      BY ONLY <3>1, <3>2
    <3>4. QED
      BY ONLY <3>3 DEF n
  <2>3. e.life < life' /\ e.life <= life' /\ e.life # life'
    BY ONLY <1>1, <1>2, <1>4
  <2>4. Place(e) <= start[e.life + 1]
    BY <1>4 DEF Given, End
  <2>5. Place(e)' = Place(e)
    BY <1>3 DEF Place
  <2>6. Given(e)'
    BY <2>2, <2>3, <2>4, <2>5 DEF Given, End
  <2>7. QED
    BY <1>1, <2>3, <2>5, <2>6
<1>5. CASE e.life = life
  <2>1. start'[life + 1] = Len(log)
    BY <1>1
  <2>2. QED
    BY <1>1, <1>2, <1>3, <1>5, <2>1 DEF Given, Place, End
<1>6. QED
  BY <1>2, <1>4, <1>5

LEMMA RestartInv ==
    ASSUME TypeOK, StartInv, Restart, NEW c \in Clients, Client(c)
    PROVE  Client(c)'
<1>1. /\ UNCHANGED <<log, cursor, got, missed>>
      /\ req'[c] = IF req[c].pc = "reading" THEN req[c] ELSE [pc |-> "ready"]
  BY DEF Restart
<1>2. Given(cursor[c]) /\ \A e \in Range(got[c]) : Given(e)
  BY DEF Client, GotInv
<1>3. GotInv(c)'
  <2>1. Given(cursor[c])' /\ \A e \in Range(got[c]) : Given(e)'
    BY <1>1, <1>2, ClientTypes, RestartKeeps
  <2>2. QED
    BY <1>1, <2>1 DEF Client, GotInv, Precedes
<1>4. Behind(c)'
  BY <1>1, <1>2, ClientTypes, RestartKeeps DEF Behind
<1>5. Ahead(c)'
  BY <1>1 DEF Ahead
<1>6. CASE req[c].pc = "reading"
  <2>1. req'[c] = req[c]
    BY <1>1, <1>6
  <2>2. PageInv(c)'
    BY <1>1, <1>6, <2>1, ClientTypes, RestartKeeps DEF Client, PageInv, Precedes
  <2>3. NextInv(c)'
    BY <1>1, <1>6, <2>1, ClientTypes, RestartKeeps DEF Client, NextInv, Precedes
  <2>4. QED
    BY <1>3, <1>4, <1>5, <2>2, <2>3 DEF Client
<1>7. CASE req[c].pc # "reading"
  <2>1. PageInv(c)' /\ NextInv(c)'
    BY <1>1, <1>7 DEF PageInv, NextInv
  <2>2. QED
    BY <1>3, <1>4, <1>5, <2>1 DEF Client
<1>8. QED
  BY <1>6, <1>7

(***************************************************************************)
(* The steps of a client, which leave the log as it is.                    *)
(***************************************************************************)

\* What a client's invariant is about, besides the log.
Own(c) == <<req[c], cursor[c], got[c], missed[c]>>

LEMMA SameClient ==
    ASSUME NEW c \in Clients, Client(c), UNCHANGED <<log, life, start>>, UNCHANGED Own(c)
    PROVE  Client(c)'
<1>1. /\ req'[c] = req[c] /\ cursor'[c] = cursor[c] /\ got'[c] = got[c]
      /\ missed'[c] = missed[c]
  BY DEF Own
<1>2. Behind(c)' /\ Ahead(c)'
  BY <1>1 DEF Client, Behind, Ahead, SeenUpTo, Visible, HostOf, LatestID, Now
<1>3. GotInv(c)'
  BY <1>1 DEF Client, GotInv, Given, Place, End, Precedes
<1>4. PageInv(c)'
  BY <1>1 DEF Client, PageInv, Given, Place, End, Precedes, SeenUpTo, Visible, HostOf,
              LatestID, Now
<1>5. NextInv(c)'
  BY <1>1 DEF Client, NextInv, Given, Place, End, Precedes, SeenUpTo, Visible, HostOf,
              LatestID, Now
<1>6. QED
  BY <1>2, <1>3, <1>4, <1>5 DEF Client

\* Of a client's step only what it changes is left to look at.
LEMMA SameLog ==
    ASSUME UNCHANGED <<log, life, start>>
    PROVE  /\ \A e : Place(e)' = Place(e) /\ (Given(e)' <=> Given(e)) /\ Now(e)' = Now(e)
           /\ \A c : Visible(c)' = Visible(c)
  BY DEF Place, Given, End, Visible, HostOf, LatestID, Now

LEMMA TakePageInv ==
    ASSUME TypeOK, StartInv, NEW c \in Clients, Client(c), TakePage(c)
    PROVE  Client(c)'
<1> DEFINE ids == Since(c, cursor[c].id, Clamped(req[c].limit))
<1>0. PICK page : page = {Now(i) : i \in ids}
  OBVIOUS
<1>1. /\ UNCHANGED <<log, life, start, cursor, got>>
      /\ req[c].pc = "since"
      /\ req'[c] = [pc |-> "latest", page |-> page]
      /\ missed'[c] = missed[c] \cup OutOfReach(c)
  BY <1>0 DEF TakePage, Become, TypeOK
<1>2. Clamped(req[c].limit) \in Int
  BY <1>1, ClientTypes, ClampedType DEF Req
<1>3. cursor[c] \in Stamp /\ cursor[c].id \in Nat /\ cursor[c].life <= life
      /\ cursor[c].life \in Nat
  BY ClientTypes DEF Stamp, Client, GotInv, Given
<1>4. GotInv(c)' /\ Behind(c)' /\ Ahead(c)' /\ NextInv(c)'
  BY <1>1, SameLog DEF Client, GotInv, Behind, SeenUpTo, Ahead, NextInv, Precedes
<1>5. ASSUME NEW m, m \in ids
      PROVE  SeenUpTo(c, m, page)'
  <2>1. SUFFICES ASSUME NEW i \in Visible(c), i <= m
                 PROVE  Now(i) \in Range(got[c]) \cup missed'[c] \cup page
    BY <1>1, SameLog DEF SeenUpTo
  <2>2. CASE i > cursor[c].id /\ i \in Held
    <3>1. i \in ids
      BY <1>2, <1>3, <1>5, <2>1, <2>2, LatestType, PageHasNoHole
    <3>2. QED
      BY <1>0, <3>1
  <2>3. CASE i > cursor[c].id /\ i \notin Held
    BY <1>1, <2>3 DEF OutOfReach
  <2>4. CASE i <= cursor[c].id /\ cursor[c].life # life
    BY <1>1, <2>4 DEF OutOfReach
  <2>5. CASE i <= cursor[c].id /\ cursor[c].life = life
    BY <1>1, <2>5 DEF Client, Behind, SeenUpTo
  <2>6. i \in Nat
    BY DEF Visible
  <2>7. QED
    BY <1>3, <2>2, <2>3, <2>4, <2>5, <2>6
<1>6. ASSUME NEW i \in ids
      PROVE  /\ Given(Now(i)) /\ i \in Nat /\ i >= 1 /\ Precedes(cursor[c], Now(i))
             /\ log[Place(Now(i))] \in Sees[c]
             /\ \A g \in Range(got[c]) : Precedes(g, Now(i))
  <2>1. i \in 1 .. LatestID /\ i > cursor[c].id /\ log[start[life] + i] \in Sees[c]
    BY <1>6, PageOf DEF Visible, HostOf
  <2>2. Now(i).life = life /\ Now(i).id = i
    BY DEF Now
  <2>3. Given(Now(i)) /\ log[Place(Now(i))] \in Sees[c]
    BY <2>1, <2>2, LatestType DEF Given, Place, End, LatestID
  <2>4. Precedes(cursor[c], Now(i))
    BY <1>3, <2>1, <2>2, LatestType DEF Precedes
  <2>5. \A g \in Range(got[c]) : Precedes(g, Now(i))
    <3>1. SUFFICES ASSUME NEW g \in Range(got[c])
                   PROVE  Precedes(g, Now(i))
      OBVIOUS
    <3>2. ~Precedes(cursor[c], g) /\ g \in Stamp
      BY <1>1, ClientTypes DEF Client, GotInv
    <3>3. QED
      BY <1>3, <2>1, <2>2, <3>2, LatestType DEF Precedes, Stamp
  <2>6. QED
    BY <2>1, <2>3, <2>4, <2>5
<1>7. PageInv(c)'
  <2>1. req'[c].pc = "latest" /\ req'[c].page = page
    BY <1>1
  <2>2. SUFFICES ASSUME NEW e \in page
                 PROVE  /\ Given(e)' /\ e.id >= 1
                        /\ log'[Place(e)'] \in Sees[c]
                        /\ \A f \in page : f.life = e.life
                        /\ \A g \in Range(got'[c]) : Precedes(g, e)
                        /\ e.life = life' /\ Precedes(cursor'[c], e)
                        /\ SeenUpTo(c, e.id, page)'
    BY <2>1 DEF PageInv, Precedes, SeenUpTo
  <2>3. PICK i \in ids : e = Now(i)
    BY <1>0
  <2>4. e.life = life /\ e.id = i /\ \A f \in page : f.life = life
    BY <1>0, <2>3 DEF Now
  <2>5. SeenUpTo(c, e.id, page)'
    BY <1>5, <2>3, <2>4
  <2>6. QED
    BY <1>1, <1>6, <2>3, <2>4, <2>5, SameLog
<1>8. QED
  BY <1>4, <1>7 DEF Client

LEMMA TakeLatestInv ==
    ASSUME TypeOK, StartInv, NEW c \in Clients, Client(c), TakeLatest(c)
    PROVE  Client(c)'
<1>1. PICK next \in NextID(c) :
          req'[c] = [pc |-> "answer", page |-> req[c].page, next |-> next,
                     latest |-> LatestID]
  BY DEF TakeLatest, Answer, Become, TypeOK
<1>2. /\ UNCHANGED <<log, life, start, cursor, got, missed>>
      /\ req[c].pc = "latest" /\ req[c].page \subseteq Stamp /\ cursor[c] \in Stamp
  BY ClientTypes DEF TakeLatest, Answer
<1>3. next \in Stamp /\ Given(next)
  BY <1>1, <1>2 DEF NextID, Client, PageInv, GotInv
<1>4. ~Precedes(next, cursor[c])
  BY <1>1, <1>2, <1>3 DEF NextID, Client, PageInv, Precedes, Stamp
<1>5. \A e \in req[c].page : ~Precedes(next, e)
  BY <1>1, <1>2, <1>3 DEF NextID, Client, PageInv, Precedes, Stamp
<1>6. next.life = life => SeenUpTo(c, next.id, req[c].page)
  BY <1>1, <1>2 DEF NextID, Client, PageInv, Behind, SeenUpTo
<1>7. cursor[c].life = life => next.life = life
  BY <1>1, <1>2 DEF NextID, Client, PageInv
<1>8. Ahead(c)'
  <2>1. cursor[c].life = life => next.id \in Nat /\ next.id <= LatestID
    BY <1>3, <1>7, GivenNow
  <2>2. next.id \in Nat /\ LatestID \in Nat
    BY <1>3, LatestType DEF Stamp
  <2>3. req'[c].next = next /\ req'[c].latest = LatestID
    BY <1>1
  <2>4. QED
    BY <1>2, <2>1, <2>2, <2>3 DEF Ahead
<1>9. NextInv(c)'
  BY <1>1, <1>2, <1>3, <1>4, <1>5, <1>6, SameLog DEF NextInv, Precedes, SeenUpTo
<1>10. PageInv(c)'
  BY <1>1, <1>2, SameLog DEF Client, PageInv, Precedes
<1>11. GotInv(c)' /\ Behind(c)'
  BY <1>1, <1>2, SameLog DEF Client, GotInv, Behind, SeenUpTo, Precedes
<1>12. QED
  BY <1>8, <1>9, <1>10, <1>11 DEF Client

LEMMA ReadInv ==
    ASSUME TypeOK, StartInv, NEW c \in Clients, Client(c), Read(c)
    PROVE  Client(c)'
<1>1. PICK e \in req[c].page :
          /\ \A f \in req[c].page : e.id <= f.id
          /\ req'[c] = [req[c] EXCEPT !.page = @ \ {e}]
          /\ got'[c] = Append(got[c], e)
  BY DEF Read, Become, TypeOK
<1>2. /\ UNCHANGED <<log, life, start, cursor, missed>> /\ req[c].pc = "reading"
      /\ req[c] \in [pc : {"reading"}, page : SUBSET Stamp, next : Stamp]
      /\ cursor[c] \in Stamp /\ got[c] \in Seq(Stamp)
  BY ClientTypes DEF Read, Req
<1>3. /\ req'[c].pc = "reading" /\ req'[c].page = req[c].page \ {e}
      /\ req'[c].next = req[c].next
  BY <1>1, <1>2
<1>4. e \in Stamp /\ Range(got'[c]) = Range(got[c]) \cup {e} /\ Range(got[c]) \subseteq Stamp
  BY <1>1, <1>2, RangeAppend
<1>5. GotInv(c)'
  <2>1. Given(cursor[c])'
    BY <1>2, SameLog DEF Client, GotInv
  <2>2. ASSUME NEW g \in Range(got'[c])
        PROVE  Given(g)' /\ ~Precedes(req'[c].next, g)
    <3>1. CASE g = e
      <4>1. Given(e) /\ ~Precedes(req[c].next, e)
        BY <1>1, <1>2 DEF Client, PageInv, NextInv
      <4>2. QED
        BY <1>2, <1>3, <3>1, <4>1, SameLog
    <3>2. CASE g # e
      <4>1. g \in Range(got[c])
        BY <1>4, <2>2, <3>2
      <4>2. Given(g) /\ ~Precedes(req[c].next, g)
        BY <1>2, <4>1 DEF Client, GotInv
      <4>3. QED
        BY <1>2, <1>3, <4>2, SameLog
    <3>3. QED
      BY <3>1, <3>2
  <2>3. QED
    BY <1>3, <2>1, <2>2 DEF GotInv, Precedes
<1>6. Behind(c)' /\ Ahead(c)'
  BY <1>2, <1>3, <1>4, SameLog DEF Client, Behind, Ahead, SeenUpTo
<1>7. ASSUME NEW f \in req[c].page \ {e}
      PROVE  Precedes(e, f)
  <2>1. e.id <= f.id /\ f.life = e.life
    BY <1>1, <1>2, <1>7 DEF Client, PageInv
  <2>2. e \in Stamp /\ f \in Stamp
    BY <1>2, <1>4, <1>7
  <2>3. e.id # f.id
    BY ONLY <1>7, <2>1, <2>2 DEF Stamp
  <2>4. e.id \in Nat /\ f.id \in Nat
    BY ONLY <2>2 DEF Stamp
  <2>5. QED
    BY ONLY <2>1, <2>3, <2>4 DEF Precedes
<1>8. PageInv(c)'
  BY <1>2, <1>3, <1>4, <1>7, SameLog DEF Client, PageInv, Precedes
<1>9. NextInv(c)'
  BY <1>1, <1>2, <1>3, <1>4, SameLog DEF Client, NextInv, Precedes, SeenUpTo
<1>10. QED
  BY <1>5, <1>6, <1>8, <1>9 DEF Client

LEMMA OtherStepsInv ==
    ASSUME TypeOK, StartInv, NEW c \in Clients, Client(c),
           Request(c) \/ Deliver(c) \/ Advance(c) \/ Lose(c)
    PROVE  Client(c)'
<1>1. UNCHANGED <<log, life, start, got, missed>>
  BY DEF Request, Deliver, Advance, Lose
<1>2. ASSUME req[c].pc # "reading", cursor'[c] = cursor[c],
             req'[c].pc \in {"ready", "since"}
      PROVE  Client(c)'
  <2>1. GotInv(c)' /\ Behind(c)'
    BY <1>1, <1>2, SameLog DEF Client, GotInv, Behind, SeenUpTo, Precedes
  <2>2. Ahead(c)' /\ PageInv(c)' /\ NextInv(c)'
    BY <1>2 DEF Ahead, PageInv, NextInv
  <2>3. QED
    BY <2>1, <2>2 DEF Client
<1>3. CASE Request(c)
  BY <1>2, <1>3 DEF Request, Become, TypeOK
<1>4. CASE Lose(c)
  BY <1>2, <1>4 DEF Lose, Become, TypeOK
<1>5. CASE Deliver(c)
  <2>1. /\ req'[c] = [pc |-> "reading", page |-> req[c].page, next |-> req[c].next]
        /\ req[c].pc = "answer" /\ cursor' = cursor
    BY <1>5 DEF Deliver, Become, TypeOK
  <2>2. cursor[c] \in Stamp /\ req[c].next \in Stamp /\ Range(got[c]) \subseteq Stamp
    BY <2>1, ClientTypes
  <2>3. GotInv(c)'
    BY <1>1, <2>1, <2>2, SameLog DEF Client, GotInv, NextInv, Precedes, Stamp
  <2>4. PageInv(c)' /\ NextInv(c)' /\ Behind(c)' /\ Ahead(c)'
    BY <1>1, <2>1, SameLog DEF Client, PageInv, NextInv, Behind, Ahead, SeenUpTo, Precedes
  <2>5. QED
    BY <2>3, <2>4 DEF Client
<1>6. CASE Advance(c)
  <2>1. /\ req'[c] = [pc |-> "ready"] /\ cursor'[c] = req[c].next
        /\ req[c].pc = "reading" /\ req[c].page = {}
    BY <1>6 DEF Advance, Become, TypeOK
  <2>2. GotInv(c)' /\ Behind(c)'
    BY <1>1, <2>1, SameLog DEF Client, GotInv, NextInv, Behind, SeenUpTo, Precedes
  <2>3. Ahead(c)' /\ PageInv(c)' /\ NextInv(c)'
    BY <2>1 DEF Ahead, PageInv, NextInv
  <2>4. QED
    BY <2>2, <2>3 DEF Client
<1>7. QED
  BY <1>3, <1>4, <1>5, <1>6

LEMMA NextInvariant ==
    Inv /\ [Next]_vars => Inv'
<1> SUFFICES ASSUME Inv, [Next]_vars
             PROVE  Inv'
  OBVIOUS
<1>1. TypeOK /\ StartInv /\ TypeOK' /\ StartInv'
  BY NextTypeOK, NextStartInv DEF Inv
<1>2. SUFFICES ASSUME NEW d \in Clients, Client(d)
               PROVE  Client(d)'
  BY <1>1 DEF Inv
<1>3. ASSUME NEW h \in Hosts, AppendEvent(h)
      PROVE  Client(d)'
  BY <1>1, <1>2, <1>3, AppendInv
<1>4. CASE Restart
  BY <1>1, <1>2, <1>4, RestartInv
<1>5. ASSUME NEW c \in Clients, PollStep(c) \/ Lose(c)
      PROVE  Client(d)'
  <2>1. CASE d = c
    BY <1>1, <1>2, <1>5, <2>1, TakePageInv, TakeLatestInv, ReadInv, OtherStepsInv
       DEF PollStep
  <2>2. CASE d # c
    <3>1. UNCHANGED <<log, life, start>> /\ UNCHANGED Own(d)
      BY <1>1, <1>5, <2>2 DEF PollStep, Request, TakePage, TakeLatest, Answer, Deliver, Read,
                              Advance, Lose, Become, Own, TypeOK
    <3>2. QED
      BY <1>2, <3>1, SameClient
  <2>3. QED
    BY <2>1, <2>2
<1>6. CASE UNCHANGED vars
  <2>1. UNCHANGED <<log, life, start>> /\ UNCHANGED Own(d)
    BY <1>6 DEF vars, Own
  <2>2. QED
    BY <1>2, <2>1, SameClient
<1>7. QED
  BY <1>3, <1>4, <1>5, <1>6 DEF Next

LEMMA InvCorrect ==
    Spec => []Inv
  BY InitInv, NextInvariant, PTL DEF Spec

\* Every page, cursor and answer is made of stamps of processes that there were: for any
\* number of events and restarts the model's state stays in its types.
THEOREM TypeCorrect == Spec => []TypeOK
<1>1. Spec => [](TypeOK /\ StartInv)
  BY InitTypeOK, NextTypeOK, NextStartInv, PTL DEF Spec
<1>2. QED
  BY <1>1, PTL

\* Whatever is logged, restarted or lost meanwhile, up to its cursor a client has read
\* every event of its process that it may see, or asked for it too late.
THEOREM NoneSkipped == Spec => []NothingSkipped
  BY InvCorrect, InvIsPagesInv, PTL DEF PagesInv

\* A next_id beyond latest_id means that the log has begun again.
THEOREM RestartShows == Spec => []AheadMeansRestart
  BY InvCorrect, InvIsPagesInv, PTL DEF PagesInv

(***************************************************************************)
(* The pages implement the tail of the log.                                *)
(***************************************************************************)

\* The order of the stamps is the order of the places in the log.
LEMMA PlacesInOrder ==
    ASSUME TypeOK, StartInv, NEW e \in Stamp, NEW f \in Stamp, Given(e), Given(f),
           Precedes(e, f), f.id >= 1
    PROVE  /\ Place(e) < Place(f) /\ Place(f) \in 1 .. Len(log)
<1>1. /\ e.life \in 0 .. MaxLives /\ f.life \in 0 .. MaxLives /\ e.id \in Nat /\ f.id \in Nat
      /\ start[e.life] \in Nat /\ start[f.life] \in Nat /\ f.life <= life
  BY DEF Stamp, TypeOK, Given
<1>2. Place(f) \in 1 .. Len(log)
  BY PlaceInLog
<1>3. CASE e.life < f.life
  <2>0. life \in Nat /\ MaxLives \in Nat
    BY LatestType, SizeAssumption
  <2>1. e.life + 1 \in 0 .. MaxLives /\ e.life + 1 <= f.life /\ e.life < life
    BY ONLY <1>3, <1>1, <2>0
  <2>2. Place(e) <= start[e.life + 1]
    BY <2>1 DEF Given, End
  <2>3. start[e.life + 1] <= start[f.life] /\ start[e.life + 1] \in Nat
    BY <1>1, <2>1 DEF StartInv, TypeOK
  <2>4. Place(e) = start[e.life] + e.id /\ Place(f) = start[f.life] + f.id
    BY DEF Place
  <2>5. QED
    <3>1. Place(e) <= start[f.life]
      BY ONLY <1>1, <2>2, <2>3, <2>4
    <3>2. start[f.life] < Place(f)
      BY ONLY <1>1, <2>4, f.id >= 1
    <3>3. Place(e) \in Nat /\ Place(f) \in Nat
      BY ONLY <1>1, <2>4
    <3>4. QED
      BY ONLY <1>1, <1>2, <3>1, <3>2, <3>3
<1>4. CASE e.life = f.life
  BY <1>1, <1>2, <1>4 DEF Precedes, Place
<1>5. QED
  BY <1>3, <1>4 DEF Precedes

\* Appending, as a function.
LEMMA AppendIs ==
    ASSUME NEW S, NEW n \in Nat, NEW f \in [1 .. n -> S], NEW e \in S
    PROVE  Append(f, e) = [k \in 1 .. n + 1 |-> IF k = n + 1 THEN e ELSE f[k]]
<1> DEFINE g == [k \in 1 .. n + 1 |-> IF k = n + 1 THEN e ELSE f[k]]
<1>1. f \in Seq(S) /\ Len(f) = n
  OBVIOUS
<1>2. /\ Append(f, e) \in Seq(S) /\ Len(Append(f, e)) = n + 1
      /\ Append(f, e)[n + 1] = e /\ \A k \in 1 .. n : Append(f, e)[k] = f[k]
  BY <1>1, AppendProperties
<1>3. g \in Seq(S) /\ Len(g) = n + 1
  <2>1. g \in [1 .. n + 1 -> S] /\ n + 1 \in Nat
    OBVIOUS
  <2>2. QED
    BY <2>1
<1>4. \A k \in 1 .. n + 1 : Append(f, e)[k] = g[k]
  BY <1>2
<1>5. QED
  BY <1>2, <1>3, <1>4, SeqEqual

\* Reading the next event of a page is a read of the abstract client.
LEMMA ReadIsRead ==
    ASSUME Inv, NEW c \in Clients, Read(c)
    PROVE  Promise!Read(c)
<1>1. TypeOK /\ StartInv /\ Client(c) /\ req[c].pc = "reading"
      /\ UNCHANGED <<log, start>> /\ got[c] \in Seq(Stamp) /\ req[c].page \subseteq Stamp
      /\ Range(got[c]) \subseteq Stamp
  BY ClientTypes DEF Inv, Read
<1>2. PICK e \in req[c].page : got' = [got EXCEPT ![c] = Append(got[c], e)]
  BY DEF Read
<1>3. Given(e) /\ e.id >= 1 /\ e \in Stamp /\ log[Place(e)] \in Sees[c]
  BY <1>1 DEF Client, PageInv
<1>4. ASSUME NEW k \in DOMAIN got[c]
      PROVE  Place(got[c][k]) < Place(e)
  <2>1. got[c][k] \in Range(got[c])
    BY DEF Range
  <2>2. Given(got[c][k]) /\ Precedes(got[c][k], e) /\ got[c][k] \in Stamp
    BY <1>1, <2>1 DEF Client, GotInv, PageInv
  <2>3. QED
    BY <1>1, <1>3, <2>2, PlacesInOrder
<1>5. Place(e) \in DOMAIN log
  BY <1>1, <1>3, PlaceInLog DEF TypeOK
<1>6. PlacesRead' = [PlacesRead EXCEPT ![c] = Append(PlacesRead[c], Place(e))]
  <2>1. \A s : Place(s)' = Place(s)
    BY <1>1 DEF Place
  <2>2. got \in [Clients -> Seq(Stamp)]
    BY <1>1 DEF TypeOK
  <2>3. PlacesRead[c] = [k \in DOMAIN got[c] |-> Place(got[c][k])]
    BY DEF PlacesRead
  <2>4. [k \in DOMAIN got'[c] |-> Place(got'[c][k])] = Append(PlacesRead[c], Place(e))
    <3>1. Len(got[c]) \in Nat /\ DOMAIN got[c] = 1 .. Len(got[c])
      BY <1>1
    <3>2. got'[c] = Append(got[c], e)
      BY <1>2, <2>2
    <3>3. DOMAIN got'[c] = 1 .. Len(got[c]) + 1 /\ got'[c][Len(got[c]) + 1] = e
          /\ \A k \in 1 .. Len(got[c]) : got'[c][k] = got[c][k]
      BY <1>1, <1>3, <3>2
    <3>4. PlacesRead[c] \in [1 .. Len(got[c]) -> Int] /\ Place(e) \in Int
      <4>1. \A s \in Stamp : Place(s) \in Int
        BY <1>1 DEF Place, Stamp, TypeOK
      <4>2. \A k \in 1 .. Len(got[c]) : got[c][k] \in Stamp
        BY <1>1
      <4>3. QED
        BY <1>3, <2>3, <3>1, <4>1, <4>2
    <3>5. Append(PlacesRead[c], Place(e)) =
              [k \in 1 .. Len(got[c]) + 1 |->
                   IF k = Len(got[c]) + 1 THEN Place(e) ELSE PlacesRead[c][k]]
      BY <3>1, <3>4, AppendIs
    <3>6. QED
      BY <2>3, <3>1, <3>3, <3>5
  <2>5. \A d \in Clients \ {c} : got'[d] = got[d]
    BY <1>2, <2>2
  <2>6. QED
    BY <2>1, <2>4, <2>5 DEF PlacesRead
<1>7. DOMAIN PlacesRead[c] = DOMAIN got[c]
      /\ \A k \in DOMAIN got[c] : PlacesRead[c][k] = Place(got[c][k])
  BY DEF PlacesRead
<1>8. QED
  BY <1>1, <1>3, <1>4, <1>5, <1>6, <1>7 DEF Promise!Read

\* Over lost answers, hidden events and restarts an agent reads the log of all processes
\* in its order, nothing twice, and only what it may see: the pages implement EventTail.
THEOREM PagesImplementTail == Spec => ImplementsTail
<1>1. Init => Promise!Init
  BY DEF Init, Promise!Init, PlacesRead
<1>2. Inv /\ [Next]_vars => [Promise!Next]_Promise!vars
  <2> SUFFICES ASSUME Inv, [Next]_vars
               PROVE  Promise!Next \/ UNCHANGED <<log, PlacesRead>>
    BY DEF Promise!vars
  <2>1. ASSUME NEW h \in Hosts, AppendEvent(h)
        PROVE  Promise!Next
    BY <2>1 DEF AppendEvent, Promise!Next, Promise!Record, PlacesRead, Place
  <2>2. CASE Restart
    <3>1. UNCHANGED <<log, got>>
      BY <2>2 DEF Restart
    <3>2. ASSUME NEW c \in Clients, NEW k \in DOMAIN got[c]
          PROVE  Place(got[c][k])' = Place(got[c][k])
      <4>1. got[c][k] \in Range(got[c])
        BY DEF Range
      <4>2. got[c][k] \in Stamp /\ Given(got[c][k])
        BY <4>1, ClientTypes DEF Inv, Client, GotInv
      <4>3. QED
        BY <2>2, <3>1, <4>2, RestartKeeps DEF Inv, Place
    <3>3. PlacesRead' = PlacesRead
      BY <3>1, <3>2 DEF PlacesRead
    <3>4. QED
      BY <3>1, <3>3
  <2>3. ASSUME NEW c \in Clients, PollStep(c) \/ Lose(c)
        PROVE  Promise!Next \/ UNCHANGED <<log, PlacesRead>>
    <3>1. CASE Read(c)
      BY <3>1, ReadIsRead DEF Promise!Next
    <3>2. CASE ~Read(c)
      <4>1. UNCHANGED <<log, start, got>>
        BY <2>3, <3>2 DEF PollStep, Request, TakePage, TakeLatest, Answer, Deliver,
                          Advance, Lose
      <4>2. QED
        BY <4>1 DEF PlacesRead, Place
    <3>3. QED
      BY <3>1, <3>2
  <2>4. CASE UNCHANGED vars
    BY <2>4 DEF vars, PlacesRead, Place
  <2>5. QED
    BY <2>1, <2>2, <2>3, <2>4 DEF Next
<1>3. QED
  BY <1>1, <1>2, InvCorrect, PTL DEF Spec, ImplementsTail, Promise!Spec

============================================================================
