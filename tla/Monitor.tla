------------------------------ MODULE Monitor ------------------------------
(***************************************************************************)
(* The poll loop of internal/monitor/monitor.go and what it writes to the  *)
(* status registry (internal/hosts/hosts.go) and to the event log.         *)
(*                                                                         *)
(* Concurrent parts: the SIGHUP goroutine of main.go, which stores a new   *)
(* configuration and then calls Reload; Monitor.Run; and one goroutine per *)
(* configured host, including those that were cancelled and have not yet   *)
(* returned.  An action is one critical section, or one step between two   *)
(* of them, of one of these goroutines.                                    *)
(*                                                                         *)
(* Abstracted: poll intervals and time stamps, error texts, the values of  *)
(* the SSH checks (only which fields hold data is kept), and the order of  *)
(* the due checks of one tick, which are independent of each other.        *)
(***************************************************************************)
EXTENDS Naturals

CONSTANTS
    Hosts,      \* the host names that any configuration mentions
    Slots,      \* bound: how many goroutines of one host may coexist
    NoSlot,     \* the host has no entry in m.workers
    Checks,     \* the SSH checks: uptime, load, memory, disk
    Cycle,      \* bound: ticks are counted modulo Cycle
    Configs     \* the configurations that config.Load may return

\* Host.Checks: whether ping is enabled, and the period of each SSH check.
\* A disabled check has period 0; config.applyDefaults makes the others >= 1.
HostSettings == [ping : BOOLEAN, every : [Checks -> Nat]]

ASSUME ConfigsAssumption ==
    \A c \in Configs : /\ DOMAIN c \subseteq Hosts
                       /\ \A h \in DOMAIN c : c[h] \in HostSettings

ASSUME SlotAssumption == NoSlot \notin Slots

\* Counting ticks modulo Cycle is exact when every period divides it.
ASSUME CycleAssumption ==
    /\ Cycle \in Nat \ {0}
    /\ \A c \in Configs : \A h \in DOMAIN c : \A k \in Checks :
           c[h].every[k] = 0 \/ Cycle % c[h].every[k] = 0

VARIABLES
    cfg,        \* what config.Pointer holds
    hup,        \* the SIGHUP goroutine: "idle", or "reloading" between Store and Reload
    ctxDone,    \* the context of Run is cancelled
    run,        \* Run: "new", "starting" (parentCtx set), "waiting", "returned" (stopped)
    workers,    \* m.workers: the goroutine whose cancel function the map holds
    pc,         \* where each goroutine stands; "none": it does not exist
    cancelled,  \* its own cancel function was called
    loc,        \* its local variables
    status,     \* Registry.statuses
    logged,     \* the state that the host's last state_change event announced
    overlap     \* history: two goroutines of the host once existed together

controlVars == <<cfg, hup, ctxDone, run>>
vars == <<controlVars, workers, pc, cancelled, loc, status, logged, overlap>>

Reach == {"unknown", "down", "up"}
Status == [reg : BOOLEAN, reach : Reach, ssh : SUBSET Checks]
PC == {"none", "top", "ping", "compare", "append", "dial", "check", "sleep"}

\* doomed: the context was done before ping started; up: the result of Ping;
\* from, to: the transition that checkOnce saw; todo: the due checks not yet run.
Locals == [tick : 0 .. Cycle, doomed : BOOLEAN, up : BOOLEAN,
           from : Reach, to : Reach, todo : SUBSET Checks]

Fresh(t) == [tick |-> t, doomed |-> FALSE, up |-> FALSE,
             from |-> "unknown", to |-> "unknown", todo |-> {}]

TypeOK ==
    /\ cfg \in Configs
    /\ hup \in {"idle", "reloading"}
    /\ ctxDone \in BOOLEAN
    /\ run \in {"new", "starting", "waiting", "returned"}
    /\ workers \in [Hosts -> Slots \cup {NoSlot}]
    /\ pc \in [Hosts -> [Slots -> PC]]
    /\ cancelled \in [Hosts -> [Slots -> BOOLEAN]]
    /\ loc \in [Hosts -> [Slots -> Locals]]
    /\ status \in [Hosts -> Status]
    /\ logged \in [Hosts -> Reach]
    /\ overlap \in [Hosts -> BOOLEAN]

Init ==
    /\ cfg \in Configs
    /\ hup = "idle"
    /\ ctxDone = FALSE
    /\ run = "new"
    /\ workers = [h \in Hosts |-> NoSlot]
    /\ pc = [h \in Hosts |-> [s \in Slots |-> "none"]]
    /\ cancelled = [h \in Hosts |-> [s \in Slots |-> FALSE]]
    /\ loc = [h \in Hosts |-> [s \in Slots |-> Fresh(0)]]
    /\ status = [h \in Hosts |-> [reg |-> FALSE, reach |-> "unknown", ssh |-> {}]]
    /\ logged = [h \in Hosts |-> "unknown"]
    /\ overlap = [h \in Hosts |-> FALSE]

Exists(h, s) == pc[h][s] # "none"

\* Mutant: the worker watches the parent context instead of its own.
DoneParentOnly(h, s) == ctxDone

\* ctx.Done() of the worker: the context derives from parentCtx.
Done(h, s) == ctxDone \/ cancelled[h][s]

----------------------------------------------------------------------------
(* The registry.                                                           *)

\* Register leaves a known host alone.
Registered(st) == IF st.reg THEN st
                  ELSE [reg |-> TRUE, reach |-> "unknown", ssh |-> {}]

\* Update is a no-op on a host that was never registered.
Updated(st, new) == IF st.reg THEN new ELSE st

\* Mutant: going down keeps the SSH-derived fields.
AfterPingKeepSsh(st, r) == [st EXCEPT !.reach = r]

\* The mutation that checkOnce applies after a ping: "unknown" stands for an
\* error, which leaves the SSH-derived fields as they are.
AfterPing(st, r) == [st EXCEPT !.reach = r, !.ssh = IF r = "down" THEN {} ELSE st.ssh]

\* The mutation that runOneCheck applies after a successful check k.
AfterCheck(st, k) == [st EXCEPT !.ssh = st.ssh \cup {k}]

----------------------------------------------------------------------------
(* reconcile: the body under m.mu.                                         *)

\* Mutant: reconcile forgets that Run has stopped.
ActiveAfterStop == run # "new"

\* Not stopped, and Run has set parentCtx.
Active == run \in {"starting", "waiting"}

Missing == {h \in DOMAIN cfg : workers[h] = NoSlot}
Departed == {h \in Hosts \ DOMAIN cfg : workers[h] # NoSlot}

\* Mutant: the cancelled worker stays in the map.
MapAfterNoDelete(pick) ==
    [h \in Hosts |-> IF h \in Missing THEN pick[h] ELSE workers[h]]

\* m.workers after reconcile, where pick names the goroutines it starts.
MapAfter(pick) ==
    [h \in Hosts |-> IF h \in Missing THEN pick[h]
                     ELSE IF h \in Departed THEN NoSlot ELSE workers[h]]

\* Mutant: departed workers are dropped from the map but not cancelled.
CancelledAfterNoCancel(pick) ==
    [h \in Hosts |-> [s \in Slots |-> ~(h \in Missing /\ s = pick[h]) /\ cancelled[h][s]]]

CancelledAfter(pick) ==
    [h \in Hosts |-> [s \in Slots |->
        /\ ~(h \in Missing /\ s = pick[h])
        /\ cancelled[h][s] \/ (h \in Departed /\ s = workers[h])]]

\* reconcile once it is past its early return.
Apply ==
    \E pick \in [Missing -> Slots] :
        /\ \A h \in Missing : ~Exists(h, pick[h])
        /\ workers' = MapAfter(pick)
        /\ cancelled' = CancelledAfter(pick)
        /\ pc' = [h \in Hosts |-> [s \in Slots |->
                     IF h \in Missing /\ s = pick[h] THEN "top" ELSE pc[h][s]]]
        /\ loc' = [h \in Hosts |-> [s \in Slots |->
                     IF h \in Missing /\ s = pick[h] THEN Fresh(0) ELSE loc[h][s]]]
        /\ status' = [h \in Hosts |->
                         IF h \in Missing THEN Registered(status[h]) ELSE status[h]]
        /\ overlap' = [h \in Hosts |->
                          overlap[h] \/ (h \in Missing /\ \E s \in Slots : Exists(h, s))]
        /\ UNCHANGED logged

Reconcile ==
    \/ Active /\ Apply
    \/ ~Active /\ UNCHANGED <<workers, pc, cancelled, loc, status, logged, overlap>>

----------------------------------------------------------------------------
(* The SIGHUP goroutine and Run.                                           *)

\* cfgPtr.Store(next), for a configuration that loads and is compatible.
\* Bound: every host that Reload will start has a slot for its goroutine.
StoreConfig(next) ==
    /\ hup = "idle"
    /\ \A h \in DOMAIN next :
           workers[h] = NoSlot => \E s \in Slots : ~Exists(h, s)
    /\ cfg' = next
    /\ hup' = "reloading"
    /\ UNCHANGED <<ctxDone, run, workers, pc, cancelled, loc, status, logged, overlap>>

Reload ==
    /\ hup = "reloading"
    /\ Reconcile
    /\ hup' = "idle"
    /\ UNCHANGED <<cfg, ctxDone, run>>

\* Run publishes parentCtx ...
SetParent ==
    /\ run = "new"
    /\ run' = "starting"
    /\ UNCHANGED <<cfg, hup, ctxDone, workers, pc, cancelled, loc, status, logged, overlap>>

\* ... and starts the workers of the current configuration.
RunReconcile ==
    /\ run = "starting"
    /\ Reconcile
    /\ run' = "waiting"
    /\ UNCHANGED <<cfg, hup, ctxDone>>

\* SIGINT, SIGTERM, or the HTTP server failing.
CancelContext ==
    /\ ~ctxDone
    /\ ctxDone' = TRUE
    /\ UNCHANGED <<cfg, hup, run, workers, pc, cancelled, loc, status, logged, overlap>>

\* Run cancels every worker in the map, sets stopped and returns at once.
RunReturn ==
    /\ run = "waiting"
    /\ ctxDone
    /\ cancelled' = [h \in Hosts |-> [s \in Slots |-> cancelled[h][s] \/ s = workers[h]]]
    /\ run' = "returned"
    /\ UNCHANGED <<cfg, hup, ctxDone, workers, pc, loc, status, logged, overlap>>

----------------------------------------------------------------------------
(* One worker: runHost, checkOnce, runSSHChecks.                           *)

unchangedByWorker == <<controlVars, workers, overlap>>

Goto(h, s, l) == pc' = [pc EXCEPT ![h][s] = l]

\* runHost returns.  Its entry in m.workers, if any, stays.
Exit(h, s) ==
    /\ Goto(h, s, "none")
    /\ loc' = [loc EXCEPT ![h][s] = Fresh(0)]
    /\ cancelled' = [cancelled EXCEPT ![h][s] = FALSE]
    /\ UNCHANGED <<unchangedByWorker, status, logged>>

\* checkOnce returns to the select of runHost; its locals go out of scope.
Sleep(h, s) ==
    /\ Goto(h, s, "sleep")
    /\ loc' = [loc EXCEPT ![h][s] = Fresh(loc[h][s].tick)]

\* tick++, modulo Cycle.
NextTick(h, s) == (loc[h][s].tick % Cycle) + 1

\* dueSSHChecks
Due(settings, tick) ==
    {k \in Checks : settings.every[k] > 0 /\ tick % settings.every[k] = 0}

\* HostByName(hostName) == nil in the configuration loaded for this tick.
Gone(h) == h \notin DOMAIN cfg

Bail(h, s) ==
    /\ pc[h][s] = "top"
    /\ Gone(h)
    /\ Exit(h, s)

\* Ping is disabled: checkOnce returns without touching the registry.
SkipPing(h, s) ==
    /\ pc[h][s] = "top"
    /\ ~Gone(h)
    /\ ~cfg[h].ping
    /\ Goto(h, s, "sleep")
    /\ loc' = [loc EXCEPT ![h][s] = Fresh(NextTick(h, s))]
    /\ UNCHANGED <<unchangedByWorker, cancelled, status, logged>>

StartPing(h, s) ==
    /\ pc[h][s] = "top"
    /\ ~Gone(h)
    /\ cfg[h].ping
    /\ Goto(h, s, "ping")
    /\ loc' = [loc EXCEPT ![h][s] =
                  [Fresh(NextTick(h, s)) EXCEPT !.doomed = Done(h, s),
                                                !.todo = Due(cfg[h], NextTick(h, s))]]
    /\ UNCHANGED <<unchangedByWorker, cancelled, status, logged>>

\* Ping returns and the registry is updated.  A ping that starts under a done
\* context never runs; one that is killed by a cancellation is an error too.
FinishPing(h, s) ==
    /\ pc[h][s] = "ping"
    /\ \E r \in IF loc[h][s].doomed THEN {"unknown"} ELSE Reach :
           /\ status' = [status EXCEPT ![h] = Updated(status[h], AfterPing(status[h], r))]
           /\ loc' = [loc EXCEPT ![h][s] = [@ EXCEPT !.doomed = FALSE,
                                                     !.from = status[h].reach,
                                                     !.up = (r = "up")]]
    /\ Goto(h, s, "compare")
    /\ UNCHANGED <<unchangedByWorker, cancelled, logged>>

\* What follows the event: the SSH checks of a reachable host, if any is due.
\* The transition just reported is out of use from here on.
Proceed(h, s) ==
    \/ /\ loc[h][s].up /\ loc[h][s].todo # {}
       /\ Goto(h, s, "dial")
       /\ loc' = [loc EXCEPT ![h][s] =
                     [Fresh(loc[h][s].tick) EXCEPT !.todo = loc[h][s].todo]]
    \/ /\ ~loc[h][s].up \/ loc[h][s].todo = {}
       /\ Sleep(h, s)

\* Mutant: only transitions into or out of "up" count as changes.
ChangedUpOnly(h, s) == (status[h].reach = "up") # (loc[h][s].from = "up")

\* The registry is read again, in a critical section of its own.
Changed(h, s) == status[h].reach # loc[h][s].from

CompareChanged(h, s) ==
    /\ pc[h][s] = "compare"
    /\ Changed(h, s)
    /\ Goto(h, s, "append")
    /\ loc' = [loc EXCEPT ![h][s].to = status[h].reach]
    /\ UNCHANGED <<unchangedByWorker, cancelled, status, logged>>

CompareSame(h, s) ==
    /\ pc[h][s] = "compare"
    /\ ~Changed(h, s)
    /\ Proceed(h, s)
    /\ UNCHANGED <<unchangedByWorker, cancelled, status, logged>>

AppendEvent(h, s) ==
    /\ pc[h][s] = "append"
    /\ logged' = [logged EXCEPT ![h] = loc[h][s].to]
    /\ Proceed(h, s)
    /\ UNCHANGED <<unchangedByWorker, cancelled, status>>

\* The connection is up.  Dialling under a done context fails.
Dial(h, s) ==
    /\ pc[h][s] = "dial"
    /\ ~Done(h, s)
    /\ Goto(h, s, "check")
    /\ UNCHANGED <<unchangedByWorker, cancelled, loc, status, logged>>

\* Only LastErr, which is abstracted, changes in the registry.
DialFails(h, s) ==
    /\ pc[h][s] = "dial"
    /\ Sleep(h, s)
    /\ UNCHANGED <<unchangedByWorker, cancelled, status, logged>>

\* One remote command returns.  A failed or unparsable one writes nothing.
RunCheck(h, s) ==
    /\ pc[h][s] = "check"
    /\ \E k \in loc[h][s].todo :
           /\ \/ status' = [status EXCEPT ![h] = Updated(status[h], AfterCheck(status[h], k))]
              \/ UNCHANGED status
           /\ IF loc[h][s].todo = {k}
                 THEN Sleep(h, s)
                 ELSE /\ loc' = [loc EXCEPT ![h][s].todo = @ \ {k}]
                      /\ UNCHANGED pc
    /\ UNCHANGED <<unchangedByWorker, cancelled, logged>>

\* The select of runHost: the timer may win even when the context is done.
Wake(h, s) ==
    /\ pc[h][s] = "sleep"
    /\ Goto(h, s, "top")
    /\ UNCHANGED <<unchangedByWorker, cancelled, loc, status, logged>>

Leave(h, s) ==
    /\ pc[h][s] = "sleep"
    /\ Done(h, s)
    /\ Exit(h, s)

----------------------------------------------------------------------------
\* The steps the worker takes on its own: bounded by its own work, by the two
\* second budget of Ping and by the poll interval.
LocalStep(h, s) ==
    \/ Bail(h, s) \/ SkipPing(h, s) \/ StartPing(h, s) \/ FinishPing(h, s)
    \/ CompareChanged(h, s) \/ CompareSame(h, s) \/ AppendEvent(h, s)
    \/ Wake(h, s) \/ Leave(h, s)

\* The steps that need an answer from the remote sshd.
RemoteStep(h, s) == Dial(h, s) \/ DialFails(h, s) \/ RunCheck(h, s)

WorkerStep(h, s) == LocalStep(h, s) \/ RemoteStep(h, s)

Next ==
    \/ \E next \in Configs : StoreConfig(next)
    \/ Reload
    \/ SetParent
    \/ RunReconcile
    \/ CancelContext
    \/ RunReturn
    \/ \E h \in Hosts, s \in Slots : WorkerStep(h, s)

Spec == Init /\ [][Next]_vars

\* Strong fairness for Leave: select chooses uniformly among its ready cases.
\* No fairness for RemoteStep: neither the SSH handshake nor a remote command
\* runs under a deadline or under the context.
Fairness ==
    /\ WF_vars(Reload)
    /\ WF_vars(SetParent)
    /\ WF_vars(RunReconcile)
    /\ WF_vars(RunReturn)
    /\ \A h \in Hosts, s \in Slots :
           WF_vars(LocalStep(h, s)) /\ SF_vars(Leave(h, s))

FairSpec == Spec /\ Fairness

----------------------------------------------------------------------------
(* Properties.                                                             *)

Live(h, s) == Exists(h, s) /\ ~cancelled[h][s]

\* Whenever no reload is under way, exactly the configured hosts have a worker
\* that goes on polling: a host is never dropped from monitoring (or kept in it)
\* because a worker found its host missing and returned while its entry stayed
\* in m.workers, or because two reconciles interleaved (monitor.go 80-131).
NoHostUnmonitored ==
    hup = "idle" /\ run = "waiting" /\ ~ctxDone =>
        \A h \in Hosts : h \in DOMAIN cfg <=> \E s \in Slots : Live(h, s)

\* A host that is removed and added again while its old worker is still busy
\* never ends up with two workers that both go on polling (monitor.go 94-113).
OneLiveWorker ==
    \A h \in Hosts : \A s, t \in Slots : Live(h, s) /\ Live(h, t) => s = t

\* As long as no two goroutines of a host ever coexisted, the event log tells
\* the host's story without a gap: between two checks the last state_change
\* event announces the state the registry holds, and the next one starts from
\* it, although the registry is read twice and the event is appended later, each
\* in its own critical section (monitor.go 152-181).
AuditTrail ==
    \A h \in Hosts : ~overlap[h] =>
        /\ (\A s \in Slots : pc[h][s] \notin {"compare", "append"})
               => logged[h] = status[h].reach
        /\ \A s \in Slots : pc[h][s] \in {"compare", "append"}
               => loc[h][s].from = logged[h]

\* As long as no two goroutines of a host ever coexisted, a host that is down
\* shows no SSH-derived data: no check result lands after the clearing update.
DownHasNoSshData ==
    \A h \in Hosts : ~overlap[h] /\ status[h].reach = "down" => status[h].ssh = {}

\* Every result is written to a registered host: no Update is lost because the
\* worker got ahead of Register (monitor.go 107-111, hosts.go 156-159).
NoUpdateLost == \A h \in Hosts : (\E s \in Slots : Exists(h, s)) => status[h].reg

\* Once Run has returned, a reload that races the shutdown starts no goroutine.
StoppedIsFinal ==
    [][\A h \in Hosts, s \in Slots :
           run = "returned" /\ ~Exists(h, s) => ~Exists(h, s)']_vars

\* The phases that Polling tells apart, and the hosts that a worker goes on polling.
Phase == IF run = "new" THEN "new" ELSE IF run = "returned" THEN "off" ELSE "on"
Polled == {h \in Hosts : \E s \in Slots : Live(h, s)}

\* Through cancelled workers that drain, workers that find their host gone, reloads
\* that race the start and the end of Run, the hosts that are polled change as Polling
\* says and in no other way: the poll loop implements it (monitor.go 55-141).
Coverage == INSTANCE Polling WITH wanted <- DOMAIN cfg, polled <- Polled,
                                  phase <- Phase, ending <- ctxDone
ImplementsPolling == Coverage!Spec

\* The goroutine waits for the remote sshd, whose answer no deadline bounds.
AwaitsRemote(h, s) == pc[h][s] \in {"dial", "check"}

\* A host that stays configured with ping enabled is polled again and again,
\* through any number of reloads, unless its worker hangs in an SSH exchange.
PolledForeverOrHung ==
    \A h \in Hosts :
        <>[](h \in DOMAIN cfg /\ cfg[h].ping /\ ~ctxDone /\ run = "waiting")
            => \/ []<>(\E s \in Slots : pc[h][s] = "compare")
               \/ \E s \in Slots : <>[](workers[h] = s /\ AwaitsRemote(h, s))

\* A worker that is cancelled, by itself or with Run, returns, unless it hangs in an SSH
\* exchange.
CancelledWorkerLeaves ==
    \A h \in Hosts, s \in Slots :
        [](ctxDone \/ cancelled[h][s] => \/ <>~Exists(h, s)
                                         \/ <>[]AwaitsRemote(h, s))

----------------------------------------------------------------------------
(* The inductive invariants behind the safety properties.                  *)

\* Before Run has published its context there are no workers.
QuietBeforeRun ==
    run = "new" => \A h \in Hosts : /\ workers[h] = NoSlot
                                    /\ \A s \in Slots : ~Exists(h, s)

\* Outside a reload the map holds configured hosts only, and all of them once
\* Run has reconciled.
MapFollowsConfig ==
    hup = "idle" =>
        /\ Active => \A h \in Hosts : workers[h] # NoSlot => h \in DOMAIN cfg
        /\ run = "waiting" => \A h \in DOMAIN cfg : workers[h] # NoSlot

\* An entry whose goroutine has returned is about to be deleted: its host left
\* the configuration and Reload is still to come; or everything is stopping.
EntryHasWorker ==
    \A h \in Hosts, s \in Slots : workers[h] = s =>
        Exists(h, s) \/ ctxDone \/ (hup = "reloading" /\ h \notin DOMAIN cfg)

\* The cancel functions that were called are those no longer in the map.
CancelledIffUnmapped ==
    \A h \in Hosts, s \in Slots :
        /\ workers[h] = s /\ cancelled[h][s] => run = "returned"
        /\ Live(h, s) => workers[h] = s

\* The control part of the poll loop (monitor.go 55-141): how the map, the
\* goroutines, their contexts and the registry relate at every step.
ControlInv ==
    /\ run = "returned" => ctxDone
    /\ QuietBeforeRun
    /\ MapFollowsConfig
    /\ EntryHasWorker
    /\ CancelledIffUnmapped
    /\ NoUpdateLost

\* What a host with one goroutine at a time has told the registry and the log.
HostStory(h) ==
    /\ \A s, t \in Slots : Exists(h, s) /\ Exists(h, t) => s = t
    /\ (\A s \in Slots : pc[h][s] \notin {"compare", "append"})
           => logged[h] = status[h].reach
    /\ \A s \in Slots :
        /\ pc[h][s] \in {"compare", "append"} =>
               /\ loc[h][s].from = logged[h]
               /\ loc[h][s].up => status[h].reach = "up"
        /\ pc[h][s] = "append" => loc[h][s].to = status[h].reach
        /\ pc[h][s] \in {"dial", "check"} => status[h].reach = "up"
    /\ status[h].reach = "down" => status[h].ssh = {}

\* The data part of the poll loop (monitor.go 143-229): the registry, the event
\* log and a worker's locals agree at every step of checkOnce.
HistoryInv ==
    \A h \in Hosts :
        /\ ~status[h].reg => status[h].reach = "unknown" /\ status[h].ssh = {}
        /\ ~overlap[h] => HostStory(h)

============================================================================
