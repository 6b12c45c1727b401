---------------------------- MODULE EventStream ----------------------------
(***************************************************************************)
(* The event log (internal/events/events.go) and the handlers of its live  *)
(* stream, GET /api/v1/events/stream (internal/server/api_events.go).      *)
(*                                                                         *)
(* Producers, the workers of the monitor and the action handlers of the    *)
(* API, append to the log.  One handler per connected client replays the   *)
(* events after ?since=, subscribes, and then writes what its channel      *)
(* delivers.  A client that loses its connection connects again, and       *)
(* resumes after the last event it has read.                               *)
(*                                                                         *)
(* Abstracted: an event is its ID and its host; the other fields and the   *)
(* time stamp are payload.  What a client may see does not change here.    *)
(***************************************************************************)
EXTENDS Naturals, Sequences, FiniteSets, Functions

CONSTANTS
    Hosts,      \* the hosts that events are about
    Clients,    \* the agents that follow the stream, one connection each
    Sees,       \* the hosts whose events canSee lets through, for each client
    NoSince,    \* the client gave no ?since=
    Cap,        \* capacity of the log
    Buf,        \* capacity of a subscriber's channel
    Limit,      \* maxEventsLimit, the longest replay
    MaxID       \* bound: how many events are logged

ASSUME SeesAssumption == Sees \in [Clients -> SUBSET Hosts]
ASSUME SizeAssumption ==
    /\ Cap \in Nat \ {0} /\ Buf \in Nat \ {0} /\ Limit \in Nat \ {0}
    /\ MaxID \in Nat
ASSUME NoSinceAssumption == NoSince \notin Nat

VARIABLES
    items,      \* Log.items
    nextID,     \* Log.nextID
    subs,       \* Log.subs: the clients whose handler is subscribed
    chan,       \* the channel of each handler
    closed,     \* its channel is closed
    pc,         \* where each handler stands; "none": it does not run
    since,      \* ?since= of the connection
    todo,       \* events that the handler has accepted and not yet written
    gone,       \* the client has closed the connection
    got,        \* the IDs that the client has read, over all its connections
    log,        \* history: the host of every event ever logged
    mark,       \* history: nextID when the handler called Since
    joined,     \* history: nextID when the handler subscribed
    missed      \* history: IDs dropped since then because the channel was full

handler == <<pc, since, todo, gone, got>>
history == <<mark, joined, missed>>
vars == <<items, nextID, log, subs, chan, closed, handler, history>>

Event == [id : Nat, host : Hosts]
PC == {"none", "since", "replay", "subscribe", "live", "write", "unsub", "close"}

TypeOK ==
    /\ items \in Seq(Event)
    /\ nextID \in Nat
    /\ log \in Seq(Hosts)
    /\ subs \in SUBSET Clients
    /\ chan \in [Clients -> Seq(Event)]
    /\ closed \in [Clients -> BOOLEAN]
    /\ pc \in [Clients -> PC]
    /\ since \in [Clients -> Nat \cup {NoSince}]
    /\ todo \in [Clients -> SUBSET Event]
    /\ gone \in [Clients -> BOOLEAN]
    /\ got \in [Clients -> Seq(Nat)]
    /\ mark \in [Clients -> Nat]
    /\ joined \in [Clients -> Nat]
    /\ missed \in [Clients -> SUBSET Nat]
    /\ Len(items) <= Cap
    /\ \A c \in Clients : Len(chan[c]) <= Buf

Init ==
    /\ items = <<>>
    /\ nextID = 0
    /\ log = <<>>
    /\ subs = {}
    /\ chan = [c \in Clients |-> <<>>]
    /\ closed = [c \in Clients |-> FALSE]
    /\ pc = [c \in Clients |-> "none"]
    /\ since = [c \in Clients |-> NoSince]
    /\ todo = [c \in Clients |-> {}]
    /\ gone = [c \in Clients |-> FALSE]
    /\ got = [c \in Clients |-> <<>>]
    /\ mark = [c \in Clients |-> 0]
    /\ joined = [c \in Clients |-> 0]
    /\ missed = [c \in Clients |-> {}]

----------------------------------------------------------------------------
(* The log.                                                                *)

\* Mutant: the ring keeps one event too many.
StoreLate(e) == Append(IF Len(items) > Cap THEN Tail(items) ELSE items, e)

\* The ring after e is stored: the oldest event makes room.
Store(e) == Append(IF Len(items) >= Cap THEN Tail(items) ELSE items, e)

\* Mutant: the replay begins with the event that the client named.
SinceInclusive(id, limit, sees) ==
    LET all == {e \in Range(items) : e.id >= id /\ e.host \in sees}
    IN  {e \in all : Cardinality({f \in all : f.id < e.id}) < limit}

\* Mutant: the replay skips the first event after the one that the client named.
SinceSkipsOne(id, limit, sees) ==
    LET all == {e \in Range(items) : e.id > id + 1 /\ e.host \in sees}
    IN  {e \in all : Cardinality({f \in all : f.id < e.id}) < limit}

\* Log.Since: the first limit events after id that the filter lets through.
Since(id, limit, sees) ==
    LET all == {e \in Range(items) : e.id > id /\ e.host \in sees}
    IN  {e \in all : Cardinality({f \in all : f.id < e.id}) < limit}

\* The non-blocking send of Append to every subscriber.
Sent(e) ==
    [c \in Clients |-> IF c \in subs /\ Len(chan[c]) < Buf
                       THEN Append(chan[c], e) ELSE chan[c]]

\* Log.Append, one critical section.
AppendEvent(h) ==
    LET e == [id |-> nextID + 1, host |-> h]
    IN  /\ nextID < MaxID
        /\ nextID' = nextID + 1
        /\ items' = Store(e)
        /\ chan' = Sent(e)
        /\ log' = Append(log, h)
        /\ missed' = [c \in Clients |->
                         IF c \in subs /\ Len(chan[c]) >= Buf
                         THEN missed[c] \cup {e.id} ELSE missed[c]]
        /\ UNCHANGED <<subs, closed, handler, mark, joined>>

----------------------------------------------------------------------------
(* The client.                                                             *)

\* The last event the client has read, 0 if none.
LastRead(c) == IF got[c] = <<>> THEN 0 ELSE got[c][Len(got[c])]

\* A client connects, with ?since= the last event it has read or without it.
Connect(c) ==
    /\ pc[c] = "none"
    /\ \/ /\ since' = [since EXCEPT ![c] = LastRead(c)]
          /\ pc' = [pc EXCEPT ![c] = "since"]
       \/ /\ since' = [since EXCEPT ![c] = NoSince]
          /\ pc' = [pc EXCEPT ![c] = "subscribe"]
    /\ gone' = [gone EXCEPT ![c] = FALSE]
    /\ UNCHANGED <<items, nextID, log, subs, chan, closed, todo, got, history>>

\* The client closes its connection or loses it.
Disconnect(c) ==
    /\ pc[c] # "none"
    /\ ~gone[c]
    /\ gone' = [gone EXCEPT ![c] = TRUE]
    /\ UNCHANGED <<items, nextID, log, subs, chan, closed, pc, since, todo, got, history>>

----------------------------------------------------------------------------
(* The handler.                                                            *)

\* The events to replay are taken from the log in one critical section ...
Replay(c) ==
    /\ pc[c] = "since"
    /\ todo' = [todo EXCEPT ![c] = Since(since[c], Limit, Sees[c])]
    /\ mark' = [mark EXCEPT ![c] = nextID]
    /\ pc' = [pc EXCEPT ![c] = "replay"]
    /\ UNCHANGED <<items, nextID, log, subs, chan, closed, since, gone, got, joined, missed>>

\* The oldest event still to be written reaches the client, if it is there.
WriteOldest(c) ==
    \E e \in todo[c] :
        /\ \A f \in todo[c] : e.id <= f.id
        /\ todo' = [todo EXCEPT ![c] = todo[c] \ {e}]
        /\ got' = IF gone[c] THEN got ELSE [got EXCEPT ![c] = Append(got[c], e.id)]

\* ... and written one by one, outside it.
WriteReplay(c) ==
    /\ pc[c] = "replay"
    /\ WriteOldest(c)
    /\ UNCHANGED <<items, nextID, log, subs, chan, closed, pc, since, gone, history>>

\* A write fails once the connection is gone; nothing is subscribed yet.
ReplayFails(c) ==
    /\ pc[c] = "replay"
    /\ todo[c] # {}
    /\ gone[c]
    /\ pc' = [pc EXCEPT ![c] = "none"]
    /\ todo' = [todo EXCEPT ![c] = {}]
    /\ UNCHANGED <<items, nextID, log, subs, chan, closed, since, gone, got, history>>

\* A new channel takes part in every Append from here on.
Subscribe(c) ==
    /\ pc[c] = "subscribe" \/ (pc[c] = "replay" /\ todo[c] = {})
    /\ subs' = subs \cup {c}
    /\ chan' = [chan EXCEPT ![c] = <<>>]
    /\ closed' = [closed EXCEPT ![c] = FALSE]
    /\ joined' = [joined EXCEPT ![c] = nextID]
    /\ missed' = [missed EXCEPT ![c] = {}]
    /\ pc' = [pc EXCEPT ![c] = "live"]
    /\ UNCHANGED <<items, nextID, log, since, todo, gone, got, mark>>

\* Mutant: every event is taken for one that the client may not see.
ReceiveDrops(c) ==
    /\ pc[c] = "live"
    /\ chan[c] # <<>>
    /\ chan' = [chan EXCEPT ![c] = Tail(chan[c])]
    /\ UNCHANGED <<items, nextID, log, subs, closed, pc, todo, since, gone, got, history>>

\* An event arrives.  One that the client may not see is skipped.
Receive(c) ==
    /\ pc[c] = "live"
    /\ chan[c] # <<>>
    /\ chan' = [chan EXCEPT ![c] = Tail(chan[c])]
    /\ \/ /\ Head(chan[c]).host \in Sees[c]
          /\ todo' = [todo EXCEPT ![c] = {Head(chan[c])}]
          /\ pc' = [pc EXCEPT ![c] = "write"]
       \/ /\ Head(chan[c]).host \notin Sees[c]
          /\ UNCHANGED <<todo, pc>>
    /\ UNCHANGED <<items, nextID, log, subs, closed, since, gone, got, history>>

WriteLive(c) ==
    /\ pc[c] = "write"
    /\ WriteOldest(c)
    /\ pc' = [pc EXCEPT ![c] = "live"]
    /\ UNCHANGED <<items, nextID, log, subs, chan, closed, since, gone, history>>

\* Mutant: a failed write returns past the unsubscription.
QuitLeaking(c) ==
    /\ pc[c] \in {"live", "write"}
    /\ gone[c]
    /\ pc' = [pc EXCEPT ![c] = IF pc[c] = "write" THEN "none" ELSE "unsub"]
    /\ todo' = [todo EXCEPT ![c] = {}]
    /\ UNCHANGED <<items, nextID, log, subs, chan, closed, since, gone, got, history>>

\* Mutant: only a failed write ends the handler.
QuitOnWrite(c) ==
    /\ pc[c] = "write"
    /\ gone[c]
    /\ pc' = [pc EXCEPT ![c] = "unsub"]
    /\ todo' = [todo EXCEPT ![c] = {}]
    /\ UNCHANGED <<items, nextID, log, subs, chan, closed, since, gone, got, history>>

\* The handler returns: the request's context is done, or a write (of an event,
\* or of a heartbeat) fails.
Quit(c) ==
    /\ pc[c] \in {"live", "write"}
    /\ gone[c]
    /\ pc' = [pc EXCEPT ![c] = "unsub"]
    /\ todo' = [todo EXCEPT ![c] = {}]
    /\ UNCHANGED <<items, nextID, log, subs, chan, closed, since, gone, got, history>>

\* Mutant: the channel is closed before it is taken out of subs.
UnsubscribeLate(c) ==
    /\ pc[c] = "unsub"
    /\ closed' = [closed EXCEPT ![c] = TRUE]
    /\ pc' = [pc EXCEPT ![c] = "close"]
    /\ UNCHANGED <<items, nextID, log, chan, subs, since, todo, gone, got, history>>

\* The deferred unsub: the channel leaves subs under the lock ...
Unsubscribe(c) ==
    /\ pc[c] = "unsub"
    /\ subs' = subs \ {c}
    /\ pc' = [pc EXCEPT ![c] = "close"]
    /\ UNCHANGED <<items, nextID, log, chan, closed, since, todo, gone, got, history>>

\* ... and is closed after the lock is released; what it holds is lost.
Close(c) ==
    /\ pc[c] = "close"
    /\ closed' = [closed EXCEPT ![c] = TRUE]
    /\ chan' = [chan EXCEPT ![c] = <<>>]
    /\ pc' = [pc EXCEPT ![c] = "none"]
    /\ UNCHANGED <<items, nextID, log, subs, since, todo, gone, got, history>>

----------------------------------------------------------------------------
\* What the handler does without waiting for its client.
LocalStep(c) == Replay(c) \/ Subscribe(c) \/ Receive(c) \/ Unsubscribe(c) \/ Close(c)

\* The client reads, so that a write returns.
WriteStep(c) == WriteReplay(c) \/ WriteLive(c)

\* The handler notices that the client is gone.
QuitStep(c) == ReplayFails(c) \/ Quit(c)

HandlerStep(c) == LocalStep(c) \/ WriteStep(c) \/ QuitStep(c)

Next ==
    \/ \E h \in Hosts : AppendEvent(h)
    \/ \E c \in Clients : Connect(c) \/ Disconnect(c) \/ HandlerStep(c)

Spec == Init /\ [][Next]_vars

\* Nothing makes a client read: WriteStep is not fair.  A handler whose client is
\* gone notices at the latest when a heartbeat, 15 seconds apart, cannot be written.
Fairness == \A c \in Clients : WF_vars(LocalStep(c)) /\ WF_vars(QuitStep(c))

FairSpec == Spec /\ Fairness

----------------------------------------------------------------------------
(* Properties.                                                             *)

IDs(events) == {e.id : e \in events}
Queued(c) == IDs(Range(chan[c])) \cup IDs(todo[c])

\* The events in the ID range that the client may see.
Wanted(c, first, last) == {i \in first .. last : i \in DOMAIN log /\ log[i] \in Sees[c]}

\* Those that the log still held when a replay was taken from it.
Held(c) == {i \in Wanted(c, since[c] + 1, mark[c]) : i + Cap > mark[c]}

Streaming(c) == pc[c] \in {"live", "write"} /\ ~gone[c]

\* Append never sends on a closed channel, which would panic and take the server
\* down, and no handler leaves its channel behind in subs: a channel is in subs
\* from Subscribe to the deferred unsub, whichever way the handler returns
\* (events.go 67-86 and 112-127, api_events.go 96-121).
SubscribersAreOpen ==
    /\ \A c \in subs : ~closed[c]
    /\ subs = {c \in Clients : pc[c] \in {"live", "write", "unsub"}}

\* Once it is subscribed a handler loses no event other than by a full channel,
\* and a replay that began is complete as far as the log and the limit reach: the
\* client has read, or will be sent, everything it may see (api_events.go 86-122).
NothingElseLost ==
    \A c \in Clients : Streaming(c) =>
        /\ Wanted(c, joined[c] + 1, nextID) \subseteq Range(got[c]) \cup Queued(c) \cup missed[c]
        /\ since[c] # NoSince /\ Cardinality(Held(c)) <= Limit => Held(c) \subseteq Range(got[c])

\* An agent that resumes after the last event it has read sees the log in order,
\* without a repetition, and nothing it may not see, across replay, live delivery,
\* disconnections and overflowing buffers: the stream implements EventTail.
Promise == INSTANCE EventTail WITH log <- log, got <- got
ImplementsTail == Promise!Spec

\* An event in the channel is read by the client unless it goes away, or stops
\* reading while a write is under way.
QueuedIsRead ==
    \A c \in Clients : \A i \in 1 .. MaxID :
        [](i \in Queued(c) =>
              \/ <>(i \in Range(got[c]) \/ gone[c])
              \/ <>(\E e \in Range(chan[c]) : e.id = i /\ e.host \notin Sees[c])
              \/ <>[](pc[c] \in {"replay", "write"}))

\* Every handler whose client has gone away ends, and with it its subscription.
GoneHandlerEnds == \A c \in Clients : gone[c] ~> pc[c] = "none"

----------------------------------------------------------------------------
(* The inductive invariant.                                                *)

\* The ring holds the newest events, in the order of their IDs.
RingIsNewest ==
    /\ nextID = Len(log)
    /\ Len(items) <= nextID
    /\ \A i \in DOMAIN items :
           /\ items[i].id = nextID - Len(items) + i
           /\ items[i].host = log[items[i].id]

Logged(e) == e.id \in DOMAIN log /\ e.host = log[e.id]

\* What a handler has accepted and what its channel holds are logged events, newer
\* than what the client has read, the channel in order behind the accepted ones.
HandlerInOrder(c) ==
    /\ \A j \in DOMAIN got[c] : got[c][j] \in DOMAIN log
    /\ \A j, k \in DOMAIN got[c] : j < k => got[c][j] < got[c][k]
    /\ pc[c] = "since" => since[c] = LastRead(c)
    /\ \A e \in todo[c] : /\ Logged(e) /\ e.host \in Sees[c]
                          /\ \A j \in DOMAIN got[c] : got[c][j] < e.id
    /\ \A i \in DOMAIN chan[c] :
           /\ Logged(chan[c][i])
           /\ \A j \in DOMAIN got[c] : got[c][j] < chan[c][i].id
           /\ \A e \in todo[c] : e.id < chan[c][i].id
           /\ \A k \in DOMAIN chan[c] : i < k => chan[c][i].id < chan[c][k].id
    /\ pc[c] \notin {"replay", "write"} => todo[c] = {}
    /\ pc[c] = "write" => \E e \in todo[c] : todo[c] = {e}
    /\ pc[c] \notin {"live", "write", "unsub", "close"} => chan[c] = <<>>

\* The log and every handler keep the order of the events at every step
\* (events.go 67-107, api_events.go 82-123).
OrderInv == RingIsNewest /\ \A c \in Clients : HandlerInOrder(c)

\* What a replay still has to write.
Replaying(c) == IF pc[c] = "replay" THEN IDs(todo[c]) ELSE {}

\* What is due to a client that is there has been read, or is on its way.
Delivering(c) ==
    /\ mark[c] <= nextID
    /\ pc[c] = "subscribe" => since[c] = NoSince
    /\ pc[c] \in {"replay", "live", "write"} /\ ~gone[c] /\ since[c] # NoSince =>
           (Cardinality(Held(c)) <= Limit => Held(c) \subseteq Range(got[c]) \cup Replaying(c))
    /\ Streaming(c) =>
           Wanted(c, joined[c] + 1, nextID) \subseteq Range(got[c]) \cup Queued(c) \cup missed[c]

\* The ring drops nothing before it is full, and nothing due gets lost on its way
\* (events.go 67-107, api_events.go 86-122).
DeliveryInv ==
    /\ Len(items) = nextID \/ Len(items) = Cap
    /\ \A c \in Clients : Delivering(c)

----------------------------------------------------------------------------
(* What comments of the code claim, and the code does not do.              *)

\* api_events.go 84-85: "Optionally replay since=ID before streaming live, so a
\* reconnecting agent doesn't have to fetch /events separately to catch up."
CatchesUp ==
    \A c \in Clients : Streaming(c) /\ since[c] # NoSince =>
        {i \in Wanted(c, since[c] + 1, nextID) : i + Cap > nextID}
            \subseteq Range(got[c]) \cup Queued(c) \cup missed[c]

============================================================================
