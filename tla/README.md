# Braingler: specifications

Braingler is one Go process that polls a handful of hosts on a LAN (ping, then a few SSH
commands), shows them on a dashboard and through a JSON API, and wakes them, shuts them
down or mints SSH certificates for them, as a configuration file permits.  SIGHUP replaces
the configuration while everything else goes on.  Nothing but key files is persisted; a
Unix socket stays behind when the process crashes.

This directory holds TLA+ specifications of its concurrent core, the TLC configurations
that check them on small instances, and proofs for TLAPS.  Paths below are relative to the
repository; `PROJECT.json` maps every definition to the lines it models, and has one
mutated definition for every checked property, which makes TLC report that property.

## 1. Inventory

| Part | State it keeps | Operations | Correct when |
|---|---|---|---|
| Poll loop, `internal/monitor` | `workers` map, parent context, `stopped`; one goroutine per host | `Run`, `Reload`, `reconcile`, `runHost`, `checkOnce`, `runSSHChecks` | exactly the configured hosts are polled, each by one worker; the event log tells each host's story; nothing starts after shutdown |
| Status registry, `internal/hosts` | `statuses`, `order`, `subs` | `Register`, `Update` (publishes), `Get`, `Snapshot`, `Subscribe` | no send on a closed channel; a subscriber misses an update only by a full channel |
| Event log, `internal/events` | ring `items`, `nextID`, `subs` | `Append`, `Since`, `Subscribe`, `LatestID` | IDs ascend without gaps; the ring holds the newest |
| Live event stream, `server/api_events.go` | one handler per agent | replay, subscribe, deliver, heartbeat, leave | an agent that resumes reads in order, without repetition, only what it may see |
| Paged events, `server/api_events.go` | none | `since`, `limit`, `next_id` | a poller reads in order, without repetition, and misses only what the ring evicted or a restart hides |
| Dashboard stream, `server/sse.go` | one handler per browser | snapshot loop, updates, heartbeat, leave | no card stays outdated unless its newest update was lost |
| Policy, `internal/config` | the configuration, immutable | `PrincipalCan`, `VisibleHosts`, `HostActionForbidden`, `ReloadCompatible`, `validate` | pins deny whatever the groups grant |
| SIGHUP reload, `main.go` | `hupCh` of capacity one, `cfgPtr` | load, compare, store, `mon.Reload` | the last good edit comes into force; restart-only fields hold |
| Requests, `server/middleware.go`, `handlers.go`, `api_*.go` | a principal per request | authenticate, `canDo`, act, record | what is done was granted; the answer follows from the configuration |
| Login and sessions, `server/auth_handlers.go`, `internal/auth` | HMAC key | verify, issue and check a cookie | the users of the configuration can log in |
| Lifecycle, `main.go`, `server/server.go` | one context, one wait group | start, signal, server failure, exit | everything ends once the context is cancelled; the socket is there for the server that serves |
| SSH connections, `internal/sshx` | certificate cache, under a mutex | dial (resolve the user, look up, mint, store), run, shutdown | a certificate is valid when used, and its host's and user's |
| Check parsers, `monitor/checks.go` | none | four parsers of what a host answers | a check fails just when its answer is unreadable, and says what the answer says |
| SSH CA, `internal/sshca` | key files | load or generate, sign | a key that was worked with is the one in its file |
| Wake-on-LAN, views, templates, command line | none | pure or one-shot | - |

**Interactions.**  Every part reads the configuration through one atomic pointer and loads
it anew at each use.  The poll loop writes the registry and the event log; both publish to
the channels of their subscribers, under their own mutex, by a send that never blocks; the
two streaming handlers own those channels.  API handlers append to the event log.  The
SIGHUP goroutine stores a configuration and then calls `Reload`, which starts and cancels
workers under the monitor's mutex.  One context ends the monitor and the server.

**What is hard.**  Reads and writes of the registry in separate critical sections; a
cancelled worker that still runs beside its successor; a reload between two loads of the
configuration in one handler; replay and subscription as two steps; bounded channels that
drop; unsubscription in two steps; SSH exchanges without a deadline; a shutdown that races
a reload; a crash in the middle of a start, and two processes on the same files; a log whose IDs
start again with the process while its clients keep their cursors; a cache that is tested
and filled outside its lock, by a TTL that may change meanwhile; loops that end early and
fall back.  `PROJECT.json` lists each hazard at its line, with the properties that cover it
or the reason why none does.

## 2. The modules

| Module | Models | Checked by | Proved in |
|---|---|---|---|
| `Polling` | abstract: which hosts are polled, whatever the workers do meanwhile | through `Monitor` | `MonitorProofs` |
| `Monitor` | poll loop, registry writes, event appends, reload and shutdown; implements `Polling` | `MCMonitor` | `MonitorProofs` |
| `EventTail` | abstract: what an agent is promised, whichever way it reads | through `EventStream` and `EventPages` | their proofs |
| `EventStream` | event log and the live stream; implements `EventTail` | `MCEventStream` | `EventStreamProofs` |
| `EventPages` | the paged log, its polling client, the restart of the process; implements `EventTail` | `MCEventPages` | `EventPagesProofs` |
| `Dashboard` | registry as a publisher, the stream of host cards, reloads | `MCDashboard` | `DashboardProofs` |
| `Policy` | what a configuration permits; pure operators | through `Requests` | `RequestsProofs` |
| `Requests` | SIGHUP, authentication, authorization, login, the deed; extends `Policy` | `MCRequests` | `RequestsProofs` |
| `Lifecycle` | processes: start, key files, socket, end of server and monitor, exit, crash | `MCLifecycle` | `LifecycleProofs` |
| `CertCache` | the certificates of braingler's own connections, their cache, a clock, reloads of TTL and user | `MCCertCache` | `CertCacheProofs` |
| `Checks` | the four parsers of SSH check output, and the memory's percentage | `MCChecks` | `ChecksProofs` |

### Monitor, Polling

`pc[h][s]` is where goroutine `s` of host `h` stands: `top` (loads the configuration,
`monitor.go` 124-128), `ping`, `compare` (the second read of the registry, 171), `append`
(the event, 173-182), `dial` and `check` (212-229), `sleep` (the select, 134-139).
`workers[h]` is the goroutine whose cancel function the map holds, `cancelled` says that it
was called; `Done` is `ctx.Done()`.  `Reconcile` is the body of `reconcile` under its lock,
early return included.  `StoreConfig` and `Reload` are the two halves of the SIGHUP
goroutine's work: handlers and workers run between them.  A ping ends up, down or, on an
error, unknown.  A failed or unparsable SSH command writes nothing that is modelled.

`Polling` knows the configured hosts, those that are polled, and whether reloads count
(`phase`).  `Monitor` implements it with the domain of the configuration, the hosts that
have an uncancelled goroutine (`Polled`), and where `Run` is (`Phase`).  A reconciliation
is `Adopt`, a goroutine that finds its host gone or its context done is `GiveUp`, and all
that a goroutine does besides, drained or not, is invisible.

### EventStream, EventTail

`items`, `nextID`, `subs` are the fields of `Log`.  A handler goes through `since` (takes
the replay from the log), `replay` (writes it), `subscribe`, `live`, `write`, `unsub`
(leaves `subs` under the lock) and `close` (closes the channel after it).  A client connects
again and again, with the last event it has read or without a cursor.  `log`, `mark`,
`joined` and `missed` are history: what was ever logged, where the replay and the
subscription fell, and what a full channel dropped.  `EventTail` keeps only `log` and
`got`; `EventStream` implements it with those two variables as they are.

### EventPages

One action for each critical section of `handleAPIEvents`: `TakePage` (`Log.Since`) and
`TakeLatest` (`Log.LatestID`, and the answer with `next_id`), between which events are
logged.  The client sends its cursor (`Request`), may lose the answer (`Lose`), works
through the page (`Read`) and only then moves its cursor to `next_id` (`Advance`).
`Restart` empties the log: `start[n]` is where process `n` begins in `log`, the history of
all processes, and `Since` looks at the IDs of the one that runs, as the code does, though
the cursor may be of another one.  `missed` is history: what a request finds evicted, or
hidden behind a cursor of an earlier process.  The client is external; it does what the API
offers `next_id` for.  `EventTail` is implemented by the places of what was read.

### Dashboard

A handler subscribes and enters the snapshot loop, `next` being its index and `count` the
length that `range` took once; `pick` indexes the current configuration, `canDo` asks
whether the host may be seen, `write` sends the card; then `select` takes updates.  A status
is its version.  `lost` is history: the hosts whose newest update was dropped, or hidden
when it arrived, so that the connection will not show it.  A panic of the handler is an
action of its own: net/http recovers it after the deferred unsubscription.

### Policy, Requests

`Policy` has `PrincipalCan`, `HostActionForbidden`, `ReloadCompatible` and the part of
`validate` that they depend on, as operators on a record.  In `Requests` every load of the
configuration by a handler is a step: `gate` (is auth on?), `bearer`, `cookie`, `find`
(`HostByName`), and for each permission that the route needs `pins`, `enabled` and `grant`,
the three loads of `canDo`.  `Needs` lists the permissions of each route in the code's
order: the card, the wake, the shutdown and the certificate form of a browser, and what the
API has for each of them.  A page that says that something is not there or not enabled is
`notFound` or `disabled`, whichever status it has.  The deed succeeds or fails; the API then appends an event.  `file`, `hup`,
`reloader` and `next` are the operator's file, the signal channel and the SIGHUP goroutine;
`boot` is the configuration of the start, from which the authenticator, the CA and the
sockets are made.  `seen` is history: the configurations in force until the decision.

### Lifecycle

Several processes share the file system: servers, and tools that load the CA (`loadCAs`).
A process goes through `look` (`os.Stat`, or the first read of the cookie key), `create`
and `fill` (the two halves of `os.WriteFile`, between which a crash leaves the file
without a key) and `read`; then a server goes on to `listen`, `remove`, `bind` (the steps
of `listener`), `serve`, `close` (the deferred cleanup) and `left`, while `polling` says
that `Monitor.Run` has not returned.  `file` and `path` are what the file system holds;
they alone survive a crash.  `used`, `replaced` and `shared` are history: the keys ever
loaded, whether a file was generated over, whether two servers met.

### CertCache

`Dial` in its steps: `Resolve` (the user, from the configuration of the moment, for a host
that may come from an earlier one), `Look` (the cache, under the lock; `asked` is the local
`now`), `Decide` (the renewal test, without the lock, on a TTL loaded then), `Mint` (the
TTL loaded again; `SignUserCert`, which may fail, and has a TTL of its own for one that is
not positive),
`Store` (under the lock again, over whatever another call has stored) and `Connected`.
`StoreConfig` falls anywhere.  Times are ticks, so that half of a TTL is a whole number of
them, and the end of a certificate is rounded down to a second, as `ValidBefore` is.

### Checks

One behaviour is one call of a parser.  `at` is the index of its loop over lines, `hole`
that of the inner loop of the sort, `pc` the loop it is in.  `Take` is the switch of
`parseMemInfo`, `SearchFree` its second loop.  A word is a number, its place in the order
of strings; `Number` and `Floats` say what `strconv` makes of the words.  The branch "df:
empty output" (`checks.go` 131-133) cannot be taken, since `strings.Split` returns at least
one element: an empty answer of `df` is one header line, hence no disks and no error, which
is what the model has.

## 3. What TLC checks

Runs that pass:

| Run | Asks | Instance |
|---|---|---|
| `monitor_overlap` | safety of the poll loop with cancelled workers still draining, and that it implements `Polling` | two hosts, one of which comes and goes, two goroutines per host |
| `monitor_churn` | a configured host is polled for ever and a cancelled worker returns, unless it hangs in SSH | one host that comes and goes, two goroutines |
| `stream_tail` | order, completeness and progress of the live stream, and that it implements `EventTail` | ring of 3, channel of 2, replay of 2, 4 events on 2 hosts, an agent that sees one |
| `dashboard_cards` | cards catch up, quiet snapshots are complete, handlers end | two hosts, channel of 1, 2 updates per host, four configurations |
| `requests` | the answer of every request, what reloads may and may not mix, the reload itself | one client, six kinds of call, four configurations and a broken file |
| `lifecycle` | keys and socket through crashes, restarts and a second process; the common end of server and monitor | two servers, one tool, two key files, two keys |
| `certs` | is what a call presents valid, for how long, and its own, whatever was cached under which TTL | two calls, one host, two users, TTLs of 4 (the default), 3 and -4 seconds, the signer's own of 3, seven ticks of half a second |
| `pages` | what a poller reads, in which order, what it cannot get, and that it catches up | ring of 2, pages of 1 or 2, 5 events on 2 hosts, a client that sees one, one restart |
| `checks` | the parsers against what they are to compute | all answers of up to four lines, over the kinds of lines the code tells apart |

`TypeOK` is the type invariant of each module.  It is proved for all, and checked where it
says more than the form of the state: that a ring or a channel stays within its capacity,
or that a file that is refused never comes into force.  The others:

* `NoHostUnmonitored`, `OneLiveWorker`, `ImplementsPolling`: who polls what, through reloads
  and shutdown.  `PolledForeverOrHung`, `CancelledWorkerLeaves`: the same as progress,
  for workers that a reload or the shutdown cancels.
* `AuditTrail`, `DownHasNoSshData`: the registry and the event log agree, unless two
  goroutines of the host once coexisted.  Without that condition both fail: a cancelled
  worker may append its event, or store its uptime, after its successor has moved on.
  The condition is part of the statement because the code does not exclude the overlap.
* `SubscribersAreOpen`: no publisher sends on a closed channel, which would panic in the
  monitor or in another request, and no handler leaves its channel behind.
* `NothingElseLost`: an agent misses only what a full channel dropped, what fell between
  replay and subscription, and what the ring or the limit cut off.  `ImplementsTail`,
  `QueuedIsRead`, `GoneHandlerEnds`: order, delivery and the end of the handler.
* `CardsCatchUp`, `CardSettles`, `QuietSnapshotIsComplete`: see the module.
* `QuietReply`: without a reload a request is answered as its one configuration says, and
  the event log has what the API attempted; what the dashboard attempts is in no log.
  `RightsNeverInvented`: with reloads, each piece of the decision was true in some
  configuration that was in force.  `RestartOnlyFieldsHold`, `ReloadTakesEffect`: the
  reload itself.
* `KeysSurvive`: no key is worked with that the next start would not find, unless a file
  was generated over.  The code does not exclude that: two processes may both find the
  file absent, and a cookie key that exists but cannot be read is written anew.
  `LoneServerIsReachable`, `RealFileKept`: the socket, through crashes, for a server that
  meets no other; two servers on one path take it away from each other, at the start of
  the second and again at the end of the first.  `EndsTogether`: the end of the process.
* `NothingSkipped`, `AheadMeansRestart`, `PollerCatchesUp`: the paged log.  After a restart
  a client is shown nothing until the new IDs have passed its cursor, and what they pass is
  lost to it; `next_id > latest_id` is the sign of that, and of nothing else, which is why
  the two critical sections must be in this order.
* `ValidWhenUsed`: what is presented ends more than half of the TTL that the call went by
  after the call began, but for a second of rounding.  It is the TTL of the moment, not, as
  the comment at `manager.go` 124 has it, the original one: after a reload that lowers the
  TTL an old entry serves to within half of the lower one of its end, and after one that
  raises it entries may be minted anew early.  A negative TTL makes the bound lie in the
  past: an entry that was cached before is presented although it has expired, for as long as
  half of the TTL's amount.  A certificate that is minted gets
  its whole lifetime, the signer's own under a negative TTL, and is good when used.
  `CertIsForUser`: no call presents what was minted for another user.
* `FailsWhenUnreadable`, `MemCorrect`, `DisksCorrect`, `PercentSane`: the parsers.  A mount
  point with a space in it shifts the fields of its line, so that the line is dropped, or
  taken for something else, by the code and by `DiskLines` alike: `df` is trusted here.

Runs that end with a violation, each of what a comment says and the code does not do (the
quotations are in `PROJECT.json`):

| Run | The comment | The code |
|---|---|---|
| `stream_catch_up` | `api_events.go` 84-85: `?since=` is enough to catch up | events between replay and subscription are lost |
| `dashboard_snapshot` | `sse.go` 36-37: a snapshot of every visible host | a reload in the loop skips a host or panics |
| `requests_login` | `pointer.go` 28-29: compatible means without a restart | enabled authentication has no authenticator until the restart |

Five more comments that the models contradict, without a run of their own:

* `monitor.go` 63 says that `Run` waits for its workers to drain; it cancels them and
  returns (`RunReturn`), and the process may exit while one is in an SSH exchange.  What
  holds is `Drained`: in a process that lasts, they are all gone in the end, or hang.
* `hosts.go` 31-32 says that SSH fields are populated only while the host is reachable; a
  ping that fails with an error sets the state to unknown and keeps them (`AfterPing`).
* `server.go` 200-202 says that a pinned host is protected even when auth is off; `canDo`
  loads the configuration once for the pin and once for `auth.enabled`, so that a reload
  from "not entitled" to "pinned, no auth" lets one request through (`Pins`, `Enabled`).
  `RightsNeverInvented` is the part that holds.
* `manager.go` 114-116 says that the signer presents a current certificate, and that expired
  entries are minted anew; under a negative TTL, which `validate` accepts, an expired entry
  is presented (`Fresh`); `ValidWhenUsed` bounds by how much.
* `manager.go` 124-125 says that the renewal goes by the original TTL; it goes by the one of
  the moment.

### Bounds

* `Slots` (Monitor): two goroutines of a host may coexist.  `StoreConfig` waits while a
  third would be needed; with two, a draining worker meets its successor in every pair of
  positions.  `Cycle`: ticks are counted modulo a common multiple of the check periods,
  which is exact (`CycleAssumption`).
* `Cap`, `Buf`, `Limit`, `MaxID` (EventStream): 1024, 64, 1000 in the code.  Four events
  overflow the ring of 3 and the channel of 2; in `stream_tail` the limit of 2 is below
  what the ring may hold, in `stream_catch_up` it equals the ring so that only the gap is
  left as a reason.  Handlers share nothing but the log, so one agent is enough.
* `Buf`, `MaxVersion` (Dashboard): a channel of 1 overflows with the second update.
* `Configs`: the configurations differ in all that a decision reads.  For `requests`: who
  may do what swaps between the user and the token, pins come and go, the only host goes,
  auth is switched off and the CA toggled (which the reload must refuse).  One client:
  requests share only the configuration.
* `Keys` (Lifecycle): a generated key is one that was not seen in its file; two are enough
  for a key that is lost to another one.  With two servers and a tool three processes may be
  anywhere in the load of a file.
* `MaxTime`, `HalfSecond`, `MaxDelay` (CertCache): a certificate of three seconds ends within
  the seven ticks of half a second; entries of either TTL are asked for under the other one
  before, at and after the moment where they cease to serve, and after their end under the
  negative one.  The clock waits for a call that is a tick old, so that it may mint, and meet
  the reload, later than it has read the clock.  More calls than two share the cache only by
  what one of them stores.
* `MaxEvents`, `MaxLives`, `Cap` (EventPages): five events overflow the ring of two and
  page, before and after the one restart, in any division among the two processes.
* `Answers` (Checks): four lines are enough for a key, its repetition, the fall-back and a
  line that stops the loop too early; four disks for every permutation of a sort.
* `monitor_overlap` and `certs` use symmetry of the slots and of the calls; no liveness run does.

### Fairness

* Goroutines that only compute are weakly fair: the scheduler runs them.  So are the
  SIGHUP goroutine, `Run`, and the steps of a worker that are bounded by the ping's budget
  or by the poll interval.
* `Leave` (Monitor) and `Quit` (Dashboard) are strongly fair: `select` chooses uniformly
  among its ready cases, so that a case that is ready again and again is taken.
* `QuitStep` (EventStream) is weakly fair: the context of the request stays done, and at the
  latest a heartbeat, 15 seconds apart, fails to be written.
* Of a server process, the steps of `ListenAndServe`, the end of `Run` and the exit are
  weakly fair, nothing else: no process has to start, to crash, to be signalled or to fail.
* The poller of `EventPages` is weakly fair as a whole, and strongly fair in what gets it an
  answer: a client that goes on polling and does not give up on every answer.  It is an
  assumption on the client; without it there is nothing that the server could promise.
* Not fair: `RemoteStep` (no deadline on the SSH handshake or on a command), `WriteStep` and
  the dashboard's `Write` while the client is there (nothing makes a client read), the
  handlers of `Requests` (no property needs them to go on), and all that the operator, the
  clients and the hosts do.
  The progress properties name these exceptions.

Only `checks` switches deadlock checking off: a call of a parser ends.  Elsewhere signals,
edits or clients are always possible.

## 4. What is proved

The eight `...Proofs` modules prove, for every value of the constants, what follows.

| Theorem | States | Inductive invariant |
|---|---|---|
| `TypeCorrect` (in each) | `TypeOK`; rings and channels keep their capacity | itself; with `HandlerShape` in `Dashboard`, `DecisionInv` in `Requests`, `PagesInv` in `EventPages` |
| `ControlCorrect`, `Monitored`, `OneWorker`, `Stopped` | who polls what; that no goroutine starts after `Run` has returned (`StoppedIsFinal`) | `ControlInv` |
| `MonitorImplementsPolling` | `Monitor` implements `Polling` | `ControlInv` |
| `HistoryCorrect`, `Story`, `DownIsBare` | `AuditTrail`, `DownHasNoSshData` | `HistoryInv`, with `ControlInv` |
| `SubscribersOpen` (twice) | `SubscribersAreOpen` | itself, with `TypeOK` |
| `OrderCorrect`, `StreamImplementsTail` | `EventStream` implements `EventTail` | `OrderInv` |
| `DeliveryCorrect`, `NoneElseLost` | `NothingElseLost` | `DeliveryInv`, with `OrderInv` |
| `SnapshotCorrect`, `QuietSnapshot` | `QuietSnapshotIsComplete` | `SnapshotInv` |
| `CardsCorrect` | `CardsCatchUp` | itself, with `HandlerShape` and `SubscribersAreOpen` |
| `RestartOnly` | `RestartOnlyFieldsHold` | itself |
| `Decisions`, `NoRightInvented` | `RightsNeverInvented` | `DecisionInv` |
| `QuietRequests`, `QuietAnswers` | `QuietReply` | `QuietInv`, with `DecisionInv` |
| `KeysCorrect`, `KeysKept` | `KeysSurvive` | `KeysInv` |
| `SocketCorrect`, `LoneServerReachable`, `FileKept` | `LoneServerIsReachable`, `RealFileKept` | `SocketInv` |
| `CertsCorrect`, `Valid`, `ForUser` | `ValidWhenUsed`, `CertIsForUser` | `CertInv` |
| `NoneSkipped`, `RestartShows`, `PagesImplementTail` | `NothingSkipped`, `AheadMeansRestart`; `EventPages` implements `EventTail` | `PagesInv` |
| `FailureCorrect`, `MemIsCorrect`, `DisksAreCorrect`, `PercentIsSane` | the parsers, on texts of any length | `ChecksInv` |
| `CancelledLeaves`, `Drained`, `PollsOn` | `CancelledWorkerLeaves`, `WorkersDrain`, `WorkerPollsOn` | `ControlInv` for the last |
| `GoneEnds`, `SelectEnds` | `GoneHandlerEnds` of the live stream; `GoneSelectEnds` of the dashboard | `TypeOK` |
| `QueueMoves` | `QueueMovesOn`, each move of `QueuedIsRead` | `OrderInv` |
| `ReloadComes` | `ReloadTakesEffect` | `TypeOK`, with `RestartOnlyFieldsHold` |
| `EndsAsOne` | `EndsTogether` | `EndInv` |

The last five rows are liveness.  Their theorems are about
`FairSpec`, and assume `FairGuards`, which is explained below.

**Assumptions.**  Only those named in the modules: configurations have the form that
`config.Load` accepts (`ConfigsAssumption`, which for the dashboard says that the host
names of a configuration differ; no proof uses that part), capacities are positive
(`SizeAssumption`), the tick cycle is a multiple of the periods (`CycleAssumption`), a
second is a whole number of ticks and the two default TTLs are positive, while a configured
one may be any integer (`TimeAssumption`), calls name a route (`CallsAssumption`), clients
see sets of hosts (`SeesAssumption`), the markers for "none" are no value
(`SlotAssumption`, `NoSinceAssumption`, `InvalidAssumption`, `KeysAssumption` and
`PathAssumption` of `Lifecycle`, `NoUserAssumption`), a tool is no server
(`ProcsAssumption`, which no proof uses), and an answer is one or more lines of words, of
which some are numbers, the keys being two different words (`WordsAssumption`,
`KeysAssumption` and `AnswersAssumption` of `Checks`).  The sets of hosts, goroutines,
clients, viewers, processes, keys, users, words and configurations are arbitrary.

**Along which argument.**

* *Who polls what.*  `NoHostUnmonitored` speaks of the moments between reloads only.
  `ControlInv` says what holds during one as well: an uncancelled goroutine is the one the
  map names, and an entry whose goroutine has returned belongs to a host that has left the
  configuration, so that the reload still to come will delete it, unless all is stopping.
* *The poll loop implements `Polling`.*  A reconciliation adopts all missing hosts and
  cancels all departed ones in one step, because it holds the lock (`ReconcileAdopts`); the
  goroutine of a host that stays never leaves (`WorkerGivesUp`), and one that was cancelled
  is in `Polled` no more, so that whatever it still does stutters.
* *The story of the log.*  A worker compares what it remembers from before its update with
  what it reads after it.  `HistoryInv` ties its locals to the registry at each step of
  `checkOnce`, as long as it is the only goroutine its host ever had at a time.
* *Order of the stream.*  What a client has read, then what its handler holds, then its
  channel, then the log to come: `OrderInv` says that IDs ascend along that line.  A step
  of a handler moves one event along it; `EventTail` sees only the write, and every other
  step stutters.
* *What the stream loses.*  `NothingElseLost` speaks of a handler that streams.
  `DeliveryInv` follows what is due from the moment the replay is taken: a ring that holds
  `Cap` events or all of them has everything in reach, fewer than `Limit` of which come
  before any one of at most `Limit` (`SinceIsComplete`, an injection of events into IDs);
  then each is in the replay, in the channel, in the handler's hand or with the client.
* *Pages.*  A client's cursor may be of another process than the log.  `PagesInv` orders
  events by process, then by ID (`Precedes`), and says that a page has no hole: what lies
  between the cursor and an event of the page, and may be seen, is in the page.  So moving
  the cursor to `next_id` passes nothing that was not read.  Each read maps to a step of
  `EventTail` by the place of the event in the log of all processes.
* *The snapshot.*  `QuietSnapshotIsComplete` speaks of the end of the loop; `LoopInStep`
  says of each turn that the hosts of the turns before have their cards.  A reload ends it,
  because it falsifies `quiet` for every handler in its loop.
* *The cards.*  A card stays correct by one of three carriers, the last entry of the
  channel, the card in hand or the page.  Each step hands the newest version from one to
  the next, or its host enters `lost`.  The proof has one lemma for the publication and one
  for each hand-over, on the way that taking the head shifts a sequence (`Trimmed`).
* *Decisions.*  `RightsNeverInvented` speaks of requests that act.  `DecisionInv` follows a
  request from its authentication: the configuration of the moment is among those seen,
  and after each of the three loads of `canDo` what was loaded held in one of them.
* *Quiet requests.*  While a request has seen one configuration only, what each load told
  it is what that one says (`QuietInv`): the caller it prescribes, the permissions before
  the one in question granted.  A reload ends the quiet, because it adds to `seen`.  The
  cases of 401, 403 and 404 then follow from where the request stopped.
* *Certificates.*  An entry of the cache is honest: it does not expire a second later than
  its certificate ends.  Whatever TTL a call decides by, an entry it keeps expires more than
  half of that TTL after the call began; for a negative one, less than half of its amount
  before.  Honesty survives reloads, because an entry is made from one load of the TTL; it
  survives negative ones, because such an entry has expired before it is stored, while the
  signer gives the certificate a TTL of its own.
* *Parsers.*  One loop invariant for each loop: what the first loop over `/proc/meminfo`
  knows of a key (`Known`), the disks of the lines that were passed (`DisksBefore`), and the
  sort with a hole (`Sifting`).
* *The keys.*  A file that is being written holds no key, so nobody has used one of it; two
  writers would mean that one of them generated over the other's file, which `replaced`
  records.  Everything else reads.
* *The socket.*  A server that meets no other runs alone, so that each of its steps finds
  the path as the step before has left it.  A file at the path stops every server at the
  first step.

**Liveness.**  The prover reads `WF_vars(A)` and `SF_vars(A)`, but knows nothing of the
`ENABLED <<A>>_vars` inside.  Five of the proof modules therefore give each fair action a
state predicate `Can...` that says when the handler or goroutine has such a step to take.
`FairGuards` says that each of them implies that its action is enabled, and the theorems
have the form `FairSpec /\ []FairGuards => ...`, for the same `FairSpec` that the runs
check.  `FairnessRuns` derives from it the fairness that the proofs use, `AllRun` or `ReloaderRuns`: for weak
fairness `[]<>~Can \/ []<><<A>>_vars`, for strong fairness `<>[]~Can \/ []<><<A>>_vars`.
`FairGuards` itself, one implication for each action, cannot be proved here.  TLC finds it
true in every state of the instances of `requests`, `lifecycle`, `stream_tail`,
`monitor_churn` and `dashboard_cards`.  To check it again let the `MC` module extend the
proof module, and run it with the constants of its configuration, `SPECIFICATION Spec` and
`INVARIANT FairGuards`.

The other lemmas are about single steps: from each place on the way of a handler or a
goroutine every step stays there or goes on, its own step goes on, and nobody else moves
it.  The propositional temporal prover combines these with that fairness.

**Only model-checked.**

* `PolledForeverOrHung`: it says that some goroutine of the host compares again and again,
  which may be another one each time.  `PollsOn` proves the two facts behind it, that the
  host gets a worker, and that one that the map holds for good polls or hangs; to join them
  a quantifier over goroutines would have to be exchanged with `<>`.
* `GoneHandlerEnds` of the dashboard while the handler is in its snapshot loop, `CardSettles`,
  `QueuedIsRead` and `PollerCatchesUp`: they need an induction over the length of a loop, a
  queue or a log inside a temporal formula.  `SelectEnds` is the part without the loop, and
  `QueueMoves` has each move of the queue, from any place to the next and to the client:
  what it lacks is to join them, from the last place of a queue of any length to the first.
* `FairGuards`, which is about ENABLED.

Every safety property of the passing runs is proved.  The inductive invariants were
model-checked on the same instances while they were found, but are no part of the runs.
The runs that end with a violation are counterexamples, each of one instance.

## 5. What is not modelled

* Cryptography, rendering, the bytes of a magic packet, most of the command line: data or
  pure functions without shared state.  `Checks` has the percentage of the memory that the
  API shows, and nothing else of its views.
* Session cookies beyond their name: the expiry, and the encoding.  `auth.go` 125-166 joins
  user and expiry by a bar and cuts at the first one, so that a user name with a bar in it,
  which `validate` accepts, makes cookies that are never accepted.
* Time, beyond the order of events, except in `CertCache`: the poll interval and the check
  periods are ticks, the heartbeats are a reason to leave.
* The visibility of an event during one connection of `EventStream` and `EventPages`:
  `api_events.go` takes the principal once and the configuration anew, as `Dashboard` and
  `Requests` have it.  The groups of that principal stay what they were at the start of the
  connection; nothing says whether they should.
* The listings: index, host list, `whoami`, and the hosts that the certificate form offers.
  Their loops (`handlers.go` 16-27, `api.go` 102-109, `ssh_cert_handlers.go` 115-122) load
  the configuration again at each turn, as the snapshot loop does that `Dashboard` has, and
  may skip a host or panic under a reload in the same way; each answers one request and
  keeps no state.  Malformed requests, which change nothing.
* The requests that the exit cuts: `Lifecycle` has no requests, `Requests` no exit.
* The defaults and most checks of `config.Load`, beyond what `Policy`, `CertCache` and
  `Monitor` assume of a configuration.
* The SSH handshake, host keys and connections with a key file (`Monitor` and `CertCache`
  see steps that may fail or hang), a TCP address in place of the socket (no state), the
  host CA's file (loaded as the user CA's), people who edit or delete key files while
  processes run.

## 6. What is next

1. `Serve`: the requests in flight when the process exits, on top of `Lifecycle`.
2. `Session`: issue and check of a cookie with its expiry; a stream that outlives the groups
   it began with, once the code says what it should do.
3. `Listings`: the four loops above, on top of `Policy`.
4. `ConfigLoad`: defaults, inheritance of checks and validation, against a reference
   definition over bounded inputs.
