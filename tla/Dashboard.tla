----------------------------- MODULE Dashboard -----------------------------
(***************************************************************************)
(* The status registry as a publisher (internal/hosts/hosts.go) and the    *)
(* handlers of the dashboard's stream of host cards, GET /events           *)
(* (internal/server/sse.go), while SIGHUP replaces the configuration.      *)
(*                                                                         *)
(* A handler subscribes, writes one card for each configured host that its *)
(* principal may see, and then one card for each update that its channel   *)
(* delivers.  It loads the configuration anew at each use of it.           *)
(*                                                                         *)
(* Abstracted: a status is its version, the number of updates that led to  *)
(* it; a card is the version it shows.  All connections belong to one      *)
(* principal, whose hosts a configuration lists in "sees".                 *)
(***************************************************************************)
EXTENDS Naturals, Sequences, FiniteSets, Functions

CONSTANTS
    Hosts,      \* the hosts that any configuration mentions
    Viewers,    \* the browsers, one connection each
    Configs,    \* the configurations that config.Load may return
    Buf,        \* capacity of a subscriber's channel
    MaxVersion  \* bound: how many updates a host receives

\* Config.Hosts, in order and without duplicates, and what the principal may see.
ASSUME ConfigsAssumption ==
    \A f \in Configs : /\ f.hosts \in Seq(Hosts)
                       /\ \A i, j \in DOMAIN f.hosts : f.hosts[i] = f.hosts[j] => i = j
                       /\ f.sees \subseteq Hosts
ASSUME SizeAssumption == Buf \in Nat \ {0} /\ MaxVersion \in Nat

VARIABLES
    cfg,        \* what config.Pointer holds
    known,      \* Registry.order: the registered hosts
    status,     \* Registry.statuses, as versions
    subs,       \* Registry.subs: the viewers whose handler is subscribed
    chan,       \* the channel of each handler
    closed,     \* its channel is closed
    pc,         \* where each handler stands; "none": it does not run
    next,       \* the index of the snapshot loop; 0 once the loop is over
    count,      \* the number of hosts when the loop began
    cur,        \* the card that the handler prepares or writes
    gone,       \* the browser has closed the connection
    shown,      \* the version that each card of the connection shows
    panicked,   \* the handler indexed past the end of the hosts
    lost,       \* history: hosts whose newest update the connection will not show
    stayed,     \* history: hosts that were visible throughout the snapshot
    quiet       \* history: no reload fell into the snapshot

registry == <<known, status, subs, chan, closed>>
loop == <<next, count, panicked>>
history == <<lost, stayed, quiet>>
vars == <<cfg, registry, loop, pc, cur, gone, shown, history>>

\* Version 0: never updated.  The page has no card where NoCard is shown.
Version == 0 .. MaxVersion
NoCard == MaxVersion + 1
Card == [host : Hosts, version : Version]
PC == {"none", "pick", "canDo", "write", "select", "unsub", "close"}

Visible == Range(cfg.hosts) \cap cfg.sees

TypeOK ==
    /\ cfg \in Configs
    /\ known \in SUBSET Hosts
    /\ status \in [Hosts -> Version]
    /\ subs \in SUBSET Viewers
    /\ chan \in [Viewers -> Seq(Card)]
    /\ closed \in [Viewers -> BOOLEAN]
    /\ pc \in [Viewers -> PC]
    /\ next \in [Viewers -> Nat]
    /\ count \in [Viewers -> Nat]
    /\ cur \in [Viewers -> SUBSET Card]
    /\ gone \in [Viewers -> BOOLEAN]
    /\ shown \in [Viewers -> [Hosts -> Version \cup {NoCard}]]
    /\ panicked \in [Viewers -> BOOLEAN]
    /\ lost \in [Viewers -> SUBSET Hosts]
    /\ stayed \in [Viewers -> SUBSET Hosts]
    /\ quiet \in [Viewers -> BOOLEAN]
    /\ \A v \in Viewers : Len(chan[v]) <= Buf

Init ==
    /\ cfg \in Configs
    /\ known = {}
    /\ status = [h \in Hosts |-> 0]
    /\ subs = {}
    /\ chan = [v \in Viewers |-> <<>>]
    /\ closed = [v \in Viewers |-> FALSE]
    /\ pc = [v \in Viewers |-> "none"]
    /\ next = [v \in Viewers |-> 0]
    /\ count = [v \in Viewers |-> 0]
    /\ cur = [v \in Viewers |-> {}]
    /\ gone = [v \in Viewers |-> FALSE]
    /\ shown = [v \in Viewers |-> [h \in Hosts |-> NoCard]]
    /\ panicked = [v \in Viewers |-> FALSE]
    /\ lost = [v \in Viewers |-> {}]
    /\ stayed = [v \in Viewers |-> {}]
    /\ quiet = [v \in Viewers |-> TRUE]

----------------------------------------------------------------------------
(* The monitor and the SIGHUP goroutine, which run beside the handlers.    *)

\* cfgPtr.Store, in the middle of whatever the handlers do.
StoreConfig(f) ==
    /\ cfg' = f
    /\ stayed' = [v \in Viewers |->
                     IF next[v] = 0 THEN stayed[v]
                     ELSE stayed[v] \cap Range(f.hosts) \cap f.sees]
    /\ quiet' = [v \in Viewers |-> quiet[v] /\ next[v] = 0]
    /\ UNCHANGED <<registry, loop, pc, cur, gone, shown, lost>>

\* reconcile registers the hosts of the configuration.  Nobody is told.
Register ==
    /\ known' = known \cup Range(cfg.hosts)
    /\ known' # known
    /\ UNCHANGED <<cfg, status, subs, chan, closed, loop, pc, cur, gone, shown, history>>

\* The non-blocking send of publish to every subscriber.
Sent(u) ==
    [v \in Viewers |-> IF v \in subs /\ Len(chan[v]) < Buf
                       THEN Append(chan[v], u) ELSE chan[v]]

\* Registry.Update of a registered host, published under the same lock.  A worker
\* of a host that has left the configuration may still report.
Update(h) ==
    LET u == [host |-> h, version |-> status[h] + 1]
    IN  /\ h \in known
        /\ status[h] < MaxVersion
        /\ status' = [status EXCEPT ![h] = u.version]
        /\ chan' = Sent(u)
        /\ lost' = [v \in Viewers |->
                       IF v \notin subs THEN lost[v]
                       ELSE IF Len(chan[v]) < Buf THEN lost[v] \ {h} ELSE lost[v] \cup {h}]
        /\ UNCHANGED <<cfg, known, subs, closed, loop, pc, cur, gone, shown, stayed, quiet>>

----------------------------------------------------------------------------
(* The browser.                                                            *)

\* The browser opens the stream; the handler subscribes and enters the loop, whose
\* length it takes from the configuration of this moment.
Connect(v) ==
    /\ pc[v] = "none"
    /\ subs' = subs \cup {v}
    /\ chan' = [chan EXCEPT ![v] = <<>>]
    /\ closed' = [closed EXCEPT ![v] = FALSE]
    /\ next' = [next EXCEPT ![v] = 1]
    /\ count' = [count EXCEPT ![v] = Len(cfg.hosts)]
    /\ panicked' = [panicked EXCEPT ![v] = FALSE]
    /\ pc' = [pc EXCEPT ![v] = "pick"]
    /\ gone' = [gone EXCEPT ![v] = FALSE]
    /\ shown' = [shown EXCEPT ![v] = [h \in Hosts |-> NoCard]]
    /\ lost' = [lost EXCEPT ![v] = {}]
    /\ stayed' = [stayed EXCEPT ![v] = Visible]
    /\ quiet' = [quiet EXCEPT ![v] = TRUE]
    /\ UNCHANGED <<cfg, known, status, cur>>

\* The browser closes the connection or loses it.
Disconnect(v) ==
    /\ pc[v] # "none"
    /\ ~gone[v]
    /\ gone' = [gone EXCEPT ![v] = TRUE]
    /\ UNCHANGED <<cfg, registry, loop, pc, cur, shown, history>>

----------------------------------------------------------------------------
(* The handler: the snapshot loop.                                         *)

\* The handler goes on with the next host of the loop, or with the select.
Continue(v) ==
    /\ pc' = [pc EXCEPT ![v] = IF next[v] > 0 THEN "pick" ELSE "select"]
    /\ next' = [next EXCEPT ![v] = IF next[v] > 0 THEN next[v] + 1 ELSE 0]
    /\ cur' = [cur EXCEPT ![v] = {}]
    /\ UNCHANGED <<count, panicked>>

\* Hosts[i] of the configuration of this moment.
Pick(v) ==
    /\ pc[v] = "pick"
    /\ next[v] <= count[v]
    /\ next[v] <= Len(cfg.hosts)
    /\ cur' = [cur EXCEPT ![v] = {[host |-> cfg.hosts[next[v]], version |-> 0]}]
    /\ pc' = [pc EXCEPT ![v] = "canDo"]
    /\ UNCHANGED <<cfg, registry, loop, gone, shown, history>>

\* Mutant: the panic goes past the unsubscription.
PanicLeaking(v) ==
    /\ pc[v] = "pick"
    /\ next[v] <= count[v]
    /\ next[v] > Len(cfg.hosts)
    /\ pc' = [pc EXCEPT ![v] = "none"]
    /\ panicked' = [panicked EXCEPT ![v] = TRUE]
    /\ gone' = [gone EXCEPT ![v] = TRUE]
    /\ UNCHANGED <<cfg, registry, next, count, cur, shown, history>>

\* Index out of range: the deferred unsub runs, and net/http closes the connection.
Panic(v) ==
    /\ pc[v] = "pick"
    /\ next[v] <= count[v]
    /\ next[v] > Len(cfg.hosts)
    /\ pc' = [pc EXCEPT ![v] = "unsub"]
    /\ panicked' = [panicked EXCEPT ![v] = TRUE]
    /\ gone' = [gone EXCEPT ![v] = TRUE]
    /\ UNCHANGED <<cfg, registry, next, count, cur, shown, history>>

\* Mutant: the updates that came during the snapshot are discarded.
EndSnapshotDrains(v) ==
    /\ pc[v] = "pick"
    /\ next[v] > count[v]
    /\ pc' = [pc EXCEPT ![v] = "select"]
    /\ next' = [next EXCEPT ![v] = 0]
    /\ chan' = [chan EXCEPT ![v] = <<>>]
    /\ UNCHANGED <<cfg, known, status, subs, closed, count, panicked, cur, gone, shown, history>>

\* Mutant: the loop may end before its last host.
EndSnapshotEarly(v) ==
    /\ pc[v] = "pick"
    /\ next[v] >= count[v]
    /\ pc' = [pc EXCEPT ![v] = "select"]
    /\ next' = [next EXCEPT ![v] = 0]
    /\ UNCHANGED <<cfg, registry, count, panicked, cur, gone, shown, history>>

EndSnapshot(v) ==
    /\ pc[v] = "pick"
    /\ next[v] > count[v]
    /\ pc' = [pc EXCEPT ![v] = "select"]
    /\ next' = [next EXCEPT ![v] = 0]
    /\ UNCHANGED <<cfg, registry, count, panicked, cur, gone, shown, history>>

----------------------------------------------------------------------------
(* The handler: a card of the loop, or of an update.                       *)

\* Get of the snapshot loop; an update comes with its status.
VersionOf(v, card) == IF next[v] > 0 THEN status[card.host] ELSE card.version

\* The principal may see the host under the configuration of this moment.
CanDo(v) ==
    /\ pc[v] = "canDo"
    /\ \E card \in cur[v] :
           /\ card.host \in cfg.sees
           /\ cur' = [cur EXCEPT ![v] =
                         {[host |-> card.host, version |-> VersionOf(v, card)]}]
    /\ pc' = [pc EXCEPT ![v] = "write"]
    /\ UNCHANGED <<cfg, registry, loop, gone, shown, history>>

\* The newest status of the host passes by unseen.
Pass(v, card) ==
    lost' = [lost EXCEPT ![v] =
                IF next[v] = 0 /\ card.version = status[card.host]
                THEN lost[v] \cup {card.host} ELSE lost[v]]

Refuse(v) ==
    /\ pc[v] = "canDo"
    /\ \E card \in cur[v] : card.host \notin cfg.sees /\ Pass(v, card)
    /\ Continue(v)
    /\ UNCHANGED <<cfg, registry, gone, shown, stayed, quiet>>

\* The card reaches the browser, if it is there.  An error is not looked at.
Write(v) ==
    /\ pc[v] = "write"
    /\ \E card \in cur[v] :
           shown' = IF gone[v] THEN shown
                    ELSE [shown EXCEPT ![v][card.host] = card.version]
    /\ Continue(v)
    /\ UNCHANGED <<cfg, registry, gone, history>>

----------------------------------------------------------------------------
(* The handler: the select loop and the end.                               *)

\* An update arrives.  One of a host that is no longer configured is skipped.
Receive(v) ==
    /\ pc[v] = "select"
    /\ chan[v] # <<>>
    /\ chan' = [chan EXCEPT ![v] = Tail(chan[v])]
    /\ \/ /\ Head(chan[v]).host \in Range(cfg.hosts)
          /\ cur' = [cur EXCEPT ![v] = {Head(chan[v])}]
          /\ pc' = [pc EXCEPT ![v] = "canDo"]
          /\ UNCHANGED lost
       \/ /\ Head(chan[v]).host \notin Range(cfg.hosts)
          /\ Pass(v, Head(chan[v]))
          /\ UNCHANGED <<cur, pc>>
    /\ UNCHANGED <<cfg, known, status, subs, closed, loop, gone, shown, stayed, quiet>>

\* Mutant: the handler leaves only when its channel is closed.
QuitWhenClosed(v) ==
    /\ pc[v] = "select"
    /\ closed[v]
    /\ pc' = [pc EXCEPT ![v] = "unsub"]
    /\ UNCHANGED <<cfg, registry, loop, cur, gone, shown, history>>

\* The context of the request is done, or a heartbeat cannot be written.
Quit(v) ==
    /\ pc[v] = "select"
    /\ gone[v]
    /\ pc' = [pc EXCEPT ![v] = "unsub"]
    /\ UNCHANGED <<cfg, registry, loop, cur, gone, shown, history>>

\* The deferred unsub: the channel leaves subs under the lock ...
Unsubscribe(v) ==
    /\ pc[v] = "unsub"
    /\ subs' = subs \ {v}
    /\ pc' = [pc EXCEPT ![v] = "close"]
    /\ UNCHANGED <<cfg, known, status, chan, closed, loop, cur, gone, shown, history>>

\* ... and is closed after the lock is released; what it holds is lost.
Close(v) ==
    /\ pc[v] = "close"
    /\ closed' = [closed EXCEPT ![v] = TRUE]
    /\ chan' = [chan EXCEPT ![v] = <<>>]
    /\ cur' = [cur EXCEPT ![v] = {}]
    /\ next' = [next EXCEPT ![v] = 0]
    /\ pc' = [pc EXCEPT ![v] = "none"]
    /\ UNCHANGED <<cfg, known, status, subs, count, panicked, gone, shown, history>>

----------------------------------------------------------------------------
\* What the handler does without waiting for its browser.
LocalStep(v) ==
    \/ Pick(v) \/ Panic(v) \/ EndSnapshot(v) \/ CanDo(v) \/ Refuse(v) \/ Receive(v)
    \/ Unsubscribe(v) \/ Close(v)

HandlerStep(v) == LocalStep(v) \/ Write(v) \/ Quit(v)

Next ==
    \/ \E f \in Configs : StoreConfig(f)
    \/ Register
    \/ \E h \in Hosts : Update(h)
    \/ \E v \in Viewers : Connect(v) \/ Disconnect(v) \/ HandlerStep(v)

Spec == Init /\ [][Next]_vars

\* Nothing makes a browser read; a write returns once its connection is gone.  The
\* select takes one of its ready cases at random, so that Quit is strongly fair.
Fairness ==
    \A v \in Viewers : /\ WF_vars(LocalStep(v))
                       /\ WF_vars(gone[v] /\ Write(v))
                       /\ SF_vars(Quit(v))

FairSpec == Spec /\ Fairness

----------------------------------------------------------------------------
(* Properties.                                                             *)

Subscribed(v) == pc[v] \in {"pick", "canDo", "write", "select", "unsub"}
Streaming(v) == pc[v] \in {"pick", "canDo", "write", "select"} /\ ~gone[v]

\* The card in hand carries a status: it comes from an update, or Get was called.
InHand(v, h) ==
    {card \in cur[v] : card.host = h /\ (pc[v] = "write" \/ next[v] = 0)}

Queued(v, h) == {i \in DOMAIN chan[v] : chan[v][i].host = h}

\* A card of h is shown or on its way.
HasCard(v, h) == Queued(v, h) # {} \/ InHand(v, h) # {} \/ shown[v][h] # NoCard

\* The card of h will show the registry's status once all that is under way has
\* arrived: the last update in the channel has it, or the card in hand, or the one shown.
Current(v, h) ==
    /\ \A i \in Queued(v, h) :
           (\A j \in Queued(v, h) : j <= i) => chan[v][i].version = status[h]
    /\ Queued(v, h) = {} =>
           /\ \A card \in InHand(v, h) : card.version = status[h]
           /\ InHand(v, h) = {} => shown[v][h] \in {NoCard, status[h]}

\* Update never sends on a closed channel, which would panic in the monitor, and no
\* handler leaves its channel behind, not even one that panics (hosts.go 89-118,
\* sse.go 33-34).
SubscribersAreOpen ==
    /\ \A v \in subs : ~closed[v]
    /\ subs = {v \in Viewers : Subscribed(v)}

\* A browser that keeps its connection never settles on an outdated card: whatever
\* the interleaving of snapshot, updates and reloads, the last card on its way for
\* a host, or else the one shown, is the registry's, unless the newest update found
\* the channel full or the host hidden; and the next update makes up for that
\* (hosts.go 106-118, sse.go 33-72).
CardsCatchUp ==
    \A v \in Viewers : Streaming(v) =>
        \A h \in Hosts \ lost[v] : Current(v, h)

\* A snapshot that no reload disturbs ends, without a panic, with a card for every
\* host that its principal may see (sse.go 36-45).
QuietSnapshotIsComplete ==
    \A v \in Viewers : quiet[v] =>
        /\ ~panicked[v]
        /\ Streaming(v) /\ next[v] = 0 => \A h \in stayed[v] : shown[v][h] # NoCard

\* Once the status of a host no longer changes its card shows it, unless its newest
\* update was lost or the browser stops reading.
CardSettles ==
    \A v \in Viewers, h \in Hosts :
        <>[](Streaming(v) /\ h \notin lost[v] /\ HasCard(v, h))
            => \/ <>[](shown[v][h] = status[h])
               \/ <>[](pc[v] = "write")

\* Every handler whose browser has gone away ends, and with it its subscription.
GoneHandlerEnds == \A v \in Viewers : gone[v] ~> pc[v] = "none"

----------------------------------------------------------------------------
(* The inductive invariant.                                                *)

\* A handler has a card in hand exactly while it asks for it or writes it, and is in
\* the loop until the select.
HandlerShape(v) ==
    /\ IF pc[v] \in {"canDo", "write"} THEN \E card \in cur[v] : cur[v] = {card}
                                        ELSE cur[v] = {}
    /\ pc[v] = "pick" => next[v] > 0
    /\ pc[v] \in {"none", "select"} => next[v] = 0

\* The loop, while no reload disturbs it, is in step with the configuration: it has
\* as many turns as there are hosts, the card in hand is the turn's, and the hosts of
\* the turns before have theirs, if they may be seen.
LoopInStep(v) ==
    /\ count[v] = Len(cfg.hosts)
    /\ next[v] <= count[v] + 1
    /\ stayed[v] = Visible
    /\ pc[v] # "pick" => /\ next[v] <= count[v]
                         /\ \A card \in cur[v] : card.host = cfg.hosts[next[v]]
    /\ ~gone[v] => \A i \in 1 .. next[v] - 1 :
                       cfg.hosts[i] \in cfg.sees => shown[v][cfg.hosts[i]] # NoCard

\* What every handler keeps at every step of the snapshot and after it (sse.go 33-72).
SnapshotInv ==
    \A v \in Viewers :
        /\ HandlerShape(v)
        /\ quiet[v] => /\ ~panicked[v]
                       /\ Streaming(v) /\ next[v] = 0 =>
                              \A h \in stayed[v] : shown[v][h] # NoCard
                       /\ pc[v] \in {"pick", "canDo", "write"} /\ next[v] > 0 => LoopInStep(v)

----------------------------------------------------------------------------
(* What comments of the code claim, and the code does not do.              *)

\* sse.go 36-37: "Initial snapshot of every visible host so a fresh connection
\* renders correctly without waiting for the next state change."
SnapshotIsComplete ==
    \A v \in Viewers :
        (Streaming(v) /\ next[v] = 0) \/ panicked[v] =>
            \A h \in stayed[v] : shown[v][h] # NoCard

============================================================================
