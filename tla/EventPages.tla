---------------------------- MODULE EventPages -----------------------------
(***************************************************************************)
(* The paged event log, GET /api/v1/events (internal/server/api_events.go) *)
(* and internal/events/events.go), as an agent uses it that follows        *)
(* next_id page after page, while events are logged, answers get lost, and *)
(* the process is restarted: the log lives in memory, and its IDs begin    *)
(* again at 1.                                                             *)
(*                                                                         *)
(* Abstracted: an event is its ID and its host.  The ring holds the newest *)
(* Cap events of its process, which EventStreamProofs shows of the code's  *)
(* appends.  What a client may see does not change.                        *)
(***************************************************************************)
EXTENDS Integers, Sequences, FiniteSets, Functions

CONSTANTS
    Hosts, Clients, Sees,   \* as in EventTail
    Cap,                    \* capacity of the log
    DefaultLimit, MaxLimit, \* defaultEventsLimit and maxEventsLimit
    Limits,                 \* what clients send as ?limit=
    MaxEvents, MaxLives     \* bounds: events logged, restarts

ASSUME SeesAssumption == Sees \in [Clients -> SUBSET Hosts]
ASSUME SizeAssumption ==
    /\ Cap \in Nat \ {0} /\ DefaultLimit \in Nat \ {0} /\ MaxLimit \in Nat \ {0}
    /\ Limits \subseteq Int /\ MaxEvents \in Nat /\ MaxLives \in Nat

VARIABLES
    log,    \* history: the host of every event ever logged, by any process
    life,   \* how many times the process was restarted
    start,  \* the length of `log` at the start of each process
    req,    \* the request of each client, or what it does with the answer
    cursor, \* what it sends as ?since=; the life is history
    got,    \* history: the events that it has read
    missed  \* history: the events that no request of its can return any more

vars == <<log, life, start, req, cursor, got, missed>>

\* An event, by its ID and, as a history, by the process that has given it out.
Stamp == [life : 0 .. MaxLives, id : Nat]

Req ==
    [pc : {"ready"}]
        \cup [pc : {"since"}, limit : Limits]
        \cup [pc : {"latest"}, page : SUBSET Stamp]
        \cup [pc : {"answer"}, page : SUBSET Stamp, next : Stamp, latest : Nat]
        \cup [pc : {"reading"}, page : SUBSET Stamp, next : Stamp]

TypeOK ==
    /\ log \in Seq(Hosts)
    /\ life \in 0 .. MaxLives
    /\ start \in [0 .. MaxLives -> Nat]
    /\ req \in [Clients -> Req]
    /\ cursor \in [Clients -> Stamp]
    /\ got \in [Clients -> Seq(Stamp)]
    /\ missed \in [Clients -> SUBSET Stamp]

Init ==
    /\ log = <<>>
    /\ life = 0
    /\ start = [n \in 0 .. MaxLives |-> 0]
    /\ req = [c \in Clients |-> [pc |-> "ready"]]
    /\ cursor = [c \in Clients |-> [life |-> 0, id |-> 0]]
    /\ got = [c \in Clients |-> <<>>]
    /\ missed = [c \in Clients |-> {}]

----------------------------------------------------------------------------
(* The log of the process that runs.                                       *)

LatestID == Len(log) - start[life]
Now(id) == [life |-> life, id |-> id]
HostOf(id) == log[start[life] + id]
Visible(c) == {i \in 1 .. LatestID : HostOf(i) \in Sees[c]}

\* The ring.
Held == {i \in 1 .. LatestID : i + Cap > LatestID}

\* Mutant: the limit counts the events that are looked at.
SinceScanned(c, id, limit) ==
    LET all == {i \in Held : i > id}
    IN  {i \in all : i \in Visible(c) /\ Cardinality({j \in all : j < i}) < limit}

\* Mutant: the page begins with the event that the client named.
SinceInclusive(c, id, limit) ==
    LET all == {i \in Held \cap Visible(c) : i >= id}
    IN  {i \in all : Cardinality({j \in all : j < i}) < limit}

\* Log.Since: the first limit events after id that the client may see.
Since(c, id, limit) ==
    LET all == {i \in Held \cap Visible(c) : i > id}
    IN  {i \in all : Cardinality({j \in all : j < i}) < limit}

\* The limit of a page: none, or nonsense, is the default.
Clamped(limit) ==
    LET asked == IF limit <= 0 THEN DefaultLimit ELSE limit
    IN  IF asked > MaxLimit THEN MaxLimit ELSE asked

Become(c, r) == req' = [req EXCEPT ![c] = r]

AppendEvent(h) ==
    /\ Len(log) < MaxEvents
    /\ log' = Append(log, h)
    /\ UNCHANGED <<life, start, req, cursor, got, missed>>

----------------------------------------------------------------------------
(* handleAPIEvents                                                         *)

Request(c) ==
    /\ req[c].pc = "ready"
    /\ \E l \in Limits : Become(c, [pc |-> "since", limit |-> l])
    /\ UNCHANGED <<log, life, start, cursor, got, missed>>

\* What no page will hold any more: events that were evicted before this request, and
\* those that a restarted process has given IDs that the cursor has passed.
OutOfReach(c) ==
    {Now(i) : i \in {j \in Visible(c) :
                         \/ j > cursor[c].id /\ j \notin Held
                         \/ j <= cursor[c].id /\ cursor[c].life # life}}

\* The page is taken from the log in one critical section ...
TakePage(c) ==
    /\ req[c].pc = "since"
    /\ Become(c, [pc |-> "latest",
                  page |-> {Now(i) : i \in Since(c, cursor[c].id, Clamped(req[c].limit))}])
    /\ missed' = [missed EXCEPT ![c] = @ \cup OutOfReach(c)]
    /\ UNCHANGED <<log, life, start, cursor, got>>

\* Mutant: the next page begins after the newest event.
NextAfterLatest(c) == {Now(LatestID)}

\* next_id, the one member: the last event of the page, or where the client was.
NextID(c) ==
    IF req[c].page = {} THEN {cursor[c]}
    ELSE {e \in req[c].page : \A f \in req[c].page : f.id <= e.id}

Answer(c, latest) ==
    /\ req[c].pc = "latest"
    /\ \E next \in NextID(c) :
           Become(c, [pc |-> "answer", page |-> req[c].page, next |-> next, latest |-> latest])
    /\ UNCHANGED <<log, life, start, cursor, got, missed>>

\* Mutant: latest_id is one that was read before the page was.
TakeStaleLatest(c) == \E n \in 0 .. LatestID : Answer(c, n)

\* ... and latest_id in another one.
TakeLatest(c) == Answer(c, LatestID)

----------------------------------------------------------------------------
(* The client.                                                             *)

\* The answer arrives ...
Deliver(c) ==
    /\ req[c].pc = "answer"
    /\ Become(c, [pc |-> "reading", page |-> req[c].page, next |-> req[c].next])
    /\ UNCHANGED <<log, life, start, cursor, got, missed>>

\* ... or does not: the client gives up, and will ask the same again.
Lose(c) ==
    /\ req[c].pc \in {"since", "latest", "answer"}
    /\ Become(c, [pc |-> "ready"])
    /\ UNCHANGED <<log, life, start, cursor, got, missed>>

\* The client works through the page in its order.
Read(c) ==
    /\ req[c].pc = "reading"
    /\ \E e \in req[c].page :
           /\ \A f \in req[c].page : e.id <= f.id
           /\ Become(c, [req[c] EXCEPT !.page = @ \ {e}])
           /\ got' = [got EXCEPT ![c] = Append(@, e)]
    /\ UNCHANGED <<log, life, start, cursor, missed>>

Advance(c) ==
    /\ req[c].pc = "reading"
    /\ req[c].page = {}
    /\ cursor' = [cursor EXCEPT ![c] = req[c].next]
    /\ Become(c, [pc |-> "ready"])
    /\ UNCHANGED <<log, life, start, got, missed>>

----------------------------------------------------------------------------
\* The process ends, however it does, and another one takes its place, with an empty
\* log.  Requests in flight are lost.
Restart ==
    /\ life < MaxLives
    /\ life' = life + 1
    /\ start' = [start EXCEPT ![life + 1] = Len(log)]
    /\ req' = [c \in Clients |-> IF req[c].pc = "reading" THEN req[c] ELSE [pc |-> "ready"]]
    /\ UNCHANGED <<log, cursor, got, missed>>

PollStep(c) ==
    \/ Request(c) \/ TakePage(c) \/ TakeLatest(c) \/ Deliver(c) \/ Read(c) \/ Advance(c)

Next ==
    \/ \E h \in Hosts : AppendEvent(h)
    \/ Restart
    \/ \E c \in Clients : PollStep(c) \/ Lose(c)

Spec == Init /\ [][Next]_vars

\* A client that goes on polling, and does not give up on every single answer.
Fairness ==
    \A c \in Clients : WF_vars(PollStep(c)) /\ SF_vars(Deliver(c)) /\ SF_vars(TakePage(c))
                       /\ SF_vars(TakeLatest(c))

FairSpec == Spec /\ Fairness

----------------------------------------------------------------------------
(* Properties.                                                             *)

\* Up to its cursor a client has read every event that it may see, but for those that
\* it asked for too late, and those that a restart has hidden behind its cursor: no
\* limit, lost answer, hidden event or event logged meanwhile makes it skip another
\* one (api_events.go 46-57, events.go 90-107).
NothingSkipped ==
    \A c \in Clients : cursor[c].life = life =>
        \A i \in Visible(c) : i <= cursor[c].id => Now(i) \in Range(got[c]) \cup missed[c]

\* next_id is ahead of latest_id only when the process was restarted since the cursor
\* was given out, which is how a client may notice that (api_events.go 47-57).
AheadMeansRestart ==
    \A c \in Clients :
        req[c].pc = "answer" /\ req[c].next.id > req[c].latest => cursor[c].life # life

\* Where an event is in the log of all processes.
Place(e) == start[e.life] + e.id
PlacesRead == [c \in Clients |-> [k \in DOMAIN got[c] |-> Place(got[c][k])]]

\* Page after page, over lost answers and restarts, a client reads what it may see in
\* the order in which it was logged, and nothing twice: the pages implement EventTail.
Promise == INSTANCE EventTail WITH log <- log, got <- PlacesRead
ImplementsTail == Promise!Spec

\* A client that goes on polling reads every event that it may see, or finds it out of
\* reach, unless the process ends before: no page is the last one while there are
\* more, however many events in between it may not see (api_events.go 46-57).
PollerCatchesUp ==
    \A c \in Clients, i \in 1 .. MaxEvents, n \in 0 .. MaxLives :
        (life = n /\ i \in Visible(c))
            ~> (life # n \/ Now(i) \in Range(got[c]) \cup missed[c])

----------------------------------------------------------------------------
(* The inductive invariant.                                                *)

\* The process n is over where the next one starts.
End(n) == IF n < life THEN start[n + 1] ELSE Len(log)

\* e is an event that was logged, or 0, which stands before all of a process.
Given(e) == e.life <= life /\ Place(e) <= End(e.life)

StartInv ==
    /\ \A n, m \in 0 .. MaxLives : n <= m /\ m <= life => start[n] <= start[m]
    /\ start[life] <= Len(log)

\* The order of the log of all processes, without asking where they start.
Precedes(e, f) == e.life < f.life \/ (e.life = f.life /\ e.id < f.id)

\* What c has read was logged, and it has read nothing that is not before its cursor
\* or, while it reads a page, before the rest of the page.
GotInv(c) ==
    /\ Given(cursor[c])
    /\ \A e \in Range(got[c]) :
           /\ Given(e)
           /\ req[c].pc # "reading" => ~Precedes(cursor[c], e)
           /\ req[c].pc = "reading" => ~Precedes(req[c].next, e)

\* Everything that c may see up to id has been read, is out of reach, or is in the page.
SeenUpTo(c, id, page) ==
    \A i \in Visible(c) : i <= id => Now(i) \in Range(got[c]) \cup missed[c] \cup page

\* A page holds events that c may see, after all that it has read.
PageInv(c) ==
    req[c].pc \in {"latest", "answer", "reading"} =>
        \A e \in req[c].page :
            /\ Given(e) /\ e.id >= 1
            /\ log[Place(e)] \in Sees[c]
            /\ \A f \in req[c].page : f.life = e.life
            /\ \A g \in Range(got[c]) : Precedes(g, e)
            /\ req[c].pc = "latest" =>
                   e.life = life /\ Precedes(cursor[c], e) /\ SeenUpTo(c, e.id, req[c].page)

\* next_id is after the page and the cursor, and skips nothing.
NextInv(c) ==
    req[c].pc \in {"answer", "reading"} =>
        /\ Given(req[c].next)
        /\ ~Precedes(req[c].next, cursor[c])
        /\ \A e \in req[c].page : ~Precedes(req[c].next, e)
        /\ req[c].next.life = life => SeenUpTo(c, req[c].next.id, req[c].page)

PagesInv ==
    /\ TypeOK /\ StartInv /\ NothingSkipped /\ AheadMeansRestart
    /\ \A c \in Clients : GotInv(c) /\ PageInv(c) /\ NextInv(c)

============================================================================
