--------------------------- MODULE MonitorProofs ---------------------------
(***************************************************************************)
(* Proofs about Monitor, for any sets of hosts, goroutines, checks and     *)
(* configurations.                                                         *)
(***************************************************************************)
EXTENDS Monitor, TLAPS

(***************************************************************************)
(* Type correctness.                                                       *)
(***************************************************************************)

\* The helpers that build local states and statuses stay within their types.
LEMMA HelperTypes ==
    /\ \A t \in 0 .. Cycle : Fresh(t) \in Locals
    /\ \A st \in Status : Registered(st) \in Status
    /\ \A st \in Status : \A r \in Reach : Updated(st, AfterPing(st, r)) \in Status
    /\ \A st \in Status : \A k \in Checks : Updated(st, AfterCheck(st, k)) \in Status
    /\ \A settings, t : Due(settings, t) \in SUBSET Checks
<1>1. \A t \in 0 .. Cycle : Fresh(t) \in Locals
  BY DEF Fresh, Locals, Reach
<1>2. \A st \in Status : Registered(st) \in Status
  BY DEF Registered, Status, Reach
<1>3. \A st \in Status : \A r \in Reach : Updated(st, AfterPing(st, r)) \in Status
  BY DEF Updated, AfterPing, Status, Reach
<1>4. \A st \in Status : \A k \in Checks : Updated(st, AfterCheck(st, k)) \in Status
  BY DEF Updated, AfterCheck, Status, Reach
<1>5. \A settings, t : Due(settings, t) \in SUBSET Checks
  BY DEF Due
<1>6. QED
  BY <1>1, <1>2, <1>3, <1>4, <1>5

\* The tick counter stays within its bound.
LEMMA NextTickType ==
    ASSUME TypeOK, NEW h \in Hosts, NEW s \in Slots
    PROVE  NextTick(h, s) \in 0 .. Cycle
<1>1. loc[h][s].tick \in 0 .. Cycle
  BY DEF TypeOK, Locals
<1>2. Cycle \in Nat \ {0}
  BY CycleAssumption
<1>3. loc[h][s].tick % Cycle \in 0 .. (Cycle - 1)
  BY <1>1, <1>2, SMT
<1>4. QED
  BY <1>2, <1>3 DEF NextTick

LEMMA TypeInit == Init => TypeOK
<1> SUFFICES ASSUME Init PROVE TypeOK
  OBVIOUS
<1>1. Fresh(0) \in Locals
  BY HelperTypes, CycleAssumption
<1>2. loc \in [Hosts -> [Slots -> Locals]]
  BY <1>1 DEF Init
<1>3. status \in [Hosts -> Status]
  BY DEF Init, Status, Reach
<1>4. pc \in [Hosts -> [Slots -> PC]]
  BY DEF Init, PC
<1>5. logged \in [Hosts -> Reach]
  BY DEF Init, Reach
<1>6. QED
  BY <1>2, <1>3, <1>4, <1>5 DEF Init, TypeOK

\* What reconcile does keeps the types.
LEMMA TypeReconcile ==
    ASSUME TypeOK, Reconcile
    PROVE  /\ workers' \in [Hosts -> Slots \cup {NoSlot}]
           /\ pc' \in [Hosts -> [Slots -> PC]]
           /\ cancelled' \in [Hosts -> [Slots -> BOOLEAN]]
           /\ loc' \in [Hosts -> [Slots -> Locals]]
           /\ status' \in [Hosts -> Status]
           /\ logged' \in [Hosts -> Reach]
           /\ overlap' \in [Hosts -> BOOLEAN]
<1>1. CASE ~Active
  BY <1>1 DEF Reconcile, TypeOK
<1>2. CASE Active
  <2>1. Apply
    BY <1>2 DEF Reconcile
  <2>2. PICK pick \in [Missing -> Slots] :
            /\ workers' = MapAfter(pick)
            /\ cancelled' = CancelledAfter(pick)
            /\ pc' = [h \in Hosts |-> [s \in Slots |->
                         IF h \in Missing /\ s = pick[h] THEN "top" ELSE pc[h][s]]]
            /\ loc' = [h \in Hosts |-> [s \in Slots |->
                         IF h \in Missing /\ s = pick[h] THEN Fresh(0) ELSE loc[h][s]]]
            /\ status' = [h \in Hosts |->
                             IF h \in Missing THEN Registered(status[h]) ELSE status[h]]
            /\ overlap' = [h \in Hosts |->
                              overlap[h] \/ (h \in Missing /\ \E s \in Slots : Exists(h, s))]
            /\ UNCHANGED logged
    BY <2>1 DEF Apply
  <2>3. workers' \in [Hosts -> Slots \cup {NoSlot}]
    BY <2>2 DEF TypeOK, MapAfter
  <2>4. pc' \in [Hosts -> [Slots -> PC]]
    BY <2>2 DEF TypeOK, PC
  <2>5. cancelled' \in [Hosts -> [Slots -> BOOLEAN]]
    BY <2>2 DEF TypeOK, CancelledAfter
  <2>6. loc' \in [Hosts -> [Slots -> Locals]]
    <3>1. Fresh(0) \in Locals
      BY HelperTypes, CycleAssumption
    <3>2. QED
      BY <2>2, <3>1 DEF TypeOK
  <2>7. status' \in [Hosts -> Status]
    BY <2>2, HelperTypes DEF TypeOK
  <2>8. overlap' \in [Hosts -> BOOLEAN]
    BY <2>2 DEF TypeOK
  <2>9. QED
    BY <2>2, <2>3, <2>4, <2>5, <2>6, <2>7, <2>8 DEF TypeOK
<1>3. QED
  BY <1>1, <1>2

\* Every worker step changes only the entry of its own goroutine.
LEMMA TypeWorker ==
    ASSUME TypeOK, NEW h \in Hosts, NEW s \in Slots, WorkerStep(h, s)
    PROVE  TypeOK'
<1>1. \A t \in 0 .. Cycle : Fresh(t) \in Locals
  BY HelperTypes
<1>2. loc[h][s] \in Locals /\ loc[h][s].tick \in 0 .. Cycle /\ 0 \in 0 .. Cycle
  BY CycleAssumption DEF TypeOK, Locals
<1>3. ASSUME NEW x \in Locals, loc' = [loc EXCEPT ![h][s] = x]
      PROVE  loc' \in [Hosts -> [Slots -> Locals]]
  BY <1>3 DEF TypeOK
<1>4. ASSUME NEW l \in PC, Goto(h, s, l)
      PROVE  pc' \in [Hosts -> [Slots -> PC]]
  BY <1>4 DEF TypeOK, Goto
<1>5. ASSUME Sleep(h, s)
      PROVE  /\ pc' \in [Hosts -> [Slots -> PC]]
             /\ loc' \in [Hosts -> [Slots -> Locals]]
  <2>1. Fresh(loc[h][s].tick) \in Locals
    BY <1>1, <1>2
  <2>2. QED
    BY <1>3, <1>4, <1>5, <2>1 DEF Sleep, PC
<1>6. ASSUME Exit(h, s), UNCHANGED <<unchangedByWorker, status, logged>>
      PROVE  TypeOK'
  <2>1. Fresh(0) \in Locals
    BY <1>1, <1>2
  <2>2. cancelled' \in [Hosts -> [Slots -> BOOLEAN]]
    BY <1>6 DEF Exit, TypeOK
  <2>3. pc' \in [Hosts -> [Slots -> PC]] /\ loc' \in [Hosts -> [Slots -> Locals]]
    BY <1>3, <1>4, <1>6, <2>1 DEF Exit, PC
  <2>4. QED
    BY <1>6, <2>2, <2>3 DEF TypeOK, unchangedByWorker, controlVars
<1>7. ASSUME Proceed(h, s)
      PROVE  /\ pc' \in [Hosts -> [Slots -> PC]]
             /\ loc' \in [Hosts -> [Slots -> Locals]]
  <2>1. [Fresh(loc[h][s].tick) EXCEPT !.todo = loc[h][s].todo] \in Locals
    BY <1>2 DEF Fresh, Locals, Reach
  <2>2. "dial" \in PC
    BY DEF PC
  <2>3. CASE Sleep(h, s)
    BY <1>5, <2>3
  <2>4. CASE Goto(h, s, "dial") /\ loc' = [loc EXCEPT ![h][s] =
                     [Fresh(loc[h][s].tick) EXCEPT !.todo = loc[h][s].todo]]
    BY <1>3, <1>4, <2>1, <2>2, <2>4
  <2>5. QED
    BY <1>7, <2>3, <2>4 DEF Proceed
<1>8. CASE Bail(h, s) \/ Leave(h, s)
  BY <1>6, <1>8 DEF Bail, Leave, Exit
<1>9. CASE SkipPing(h, s)
  <2>1. Fresh(NextTick(h, s)) \in Locals
    BY <1>1, NextTickType
  <2>2. QED
    BY <1>3, <1>4, <1>9, <2>1 DEF SkipPing, TypeOK, PC, unchangedByWorker, controlVars
<1>10. CASE StartPing(h, s)
  <2> DEFINE x == [Fresh(NextTick(h, s)) EXCEPT !.doomed = Done(h, s),
                                                 !.todo = Due(cfg[h], NextTick(h, s))]
  <2>1. NextTick(h, s) \in 0 .. Cycle
    BY NextTickType
  <2>2. Done(h, s) \in BOOLEAN
    BY DEF Done, TypeOK
  <2>3. Due(cfg[h], NextTick(h, s)) \in SUBSET Checks
    BY HelperTypes
  <2>4. x \in Locals
    BY <2>1, <2>2, <2>3 DEF Fresh, Locals, Reach
  <2>5. QED
    BY <1>3, <1>4, <1>10, <2>4 DEF StartPing, TypeOK, PC, unchangedByWorker, controlVars
<1>11. CASE FinishPing(h, s)
  <2>1. PICK r \in Reach :
            /\ status' = [status EXCEPT ![h] = Updated(status[h], AfterPing(status[h], r))]
            /\ loc' = [loc EXCEPT ![h][s] = [loc[h][s] EXCEPT !.doomed = FALSE,
                                                              !.from = status[h].reach,
                                                              !.up = (r = "up")]]
    BY <1>11 DEF FinishPing, Reach, TypeOK
  <2>2. status' \in [Hosts -> Status]
    BY <2>1, HelperTypes DEF TypeOK
  <2>3. status[h].reach \in Reach
    BY DEF TypeOK, Status
  <2>4. [loc[h][s] EXCEPT !.doomed = FALSE, !.from = status[h].reach, !.up = (r = "up")]
            \in Locals
    BY <1>2, <2>3 DEF Locals
  <2>5. loc' \in [Hosts -> [Slots -> Locals]]
    BY <1>3, <2>1, <2>4
  <2>6. QED
    BY <1>4, <1>11, <2>2, <2>5 DEF FinishPing, TypeOK, PC, unchangedByWorker, controlVars
<1>12. CASE CompareChanged(h, s)
  <2>1. [loc[h][s] EXCEPT !.to = status[h].reach] \in Locals
    BY <1>2 DEF TypeOK, Locals, Status
  <2>2. loc' = [loc EXCEPT ![h][s] = [loc[h][s] EXCEPT !.to = status[h].reach]]
    BY <1>12 DEF CompareChanged, TypeOK
  <2>3. QED
    BY <1>3, <1>4, <1>12, <2>1, <2>2
    DEF CompareChanged, TypeOK, PC, unchangedByWorker, controlVars
<1>13. CASE CompareSame(h, s)
  BY <1>7, <1>13 DEF CompareSame, TypeOK, unchangedByWorker, controlVars
<1>14. CASE AppendEvent(h, s)
  <2>1. logged' \in [Hosts -> Reach]
    BY <1>2, <1>14 DEF AppendEvent, TypeOK, Locals
  <2>2. QED
    BY <1>7, <1>14, <2>1 DEF AppendEvent, TypeOK, unchangedByWorker, controlVars
<1>15. CASE Dial(h, s)
  BY <1>4, <1>15 DEF Dial, TypeOK, PC, unchangedByWorker, controlVars
<1>16. CASE DialFails(h, s)
  BY <1>5, <1>16 DEF DialFails, TypeOK, unchangedByWorker, controlVars
<1>17. CASE RunCheck(h, s)
  <2>1. PICK k \in loc[h][s].todo :
            /\ \/ status' = [status EXCEPT ![h] = Updated(status[h], AfterCheck(status[h], k))]
               \/ UNCHANGED status
            /\ \/ Sleep(h, s)
               \/ loc' = [loc EXCEPT ![h][s].todo = @ \ {k}] /\ UNCHANGED pc
    BY <1>17 DEF RunCheck
  <2>2. k \in Checks
    BY <1>2 DEF Locals
  <2>3. status' \in [Hosts -> Status]
    <3>1. Updated(status[h], AfterCheck(status[h], k)) \in Status
      BY <2>2, HelperTypes DEF TypeOK
    <3>2. QED
      BY <2>1, <3>1 DEF TypeOK
  <2>4. [loc[h][s] EXCEPT !.todo = @ \ {k}] \in Locals
    BY <1>2 DEF Locals
  <2>5. /\ pc' \in [Hosts -> [Slots -> PC]]
        /\ loc' \in [Hosts -> [Slots -> Locals]]
    <3>1. CASE Sleep(h, s)
      BY <1>5, <3>1
    <3>2. CASE loc' = [loc EXCEPT ![h][s].todo = @ \ {k}] /\ UNCHANGED pc
      BY <2>4, <3>2 DEF TypeOK
    <3>3. QED
      BY <2>1, <3>1, <3>2
  <2>6. QED
    BY <1>17, <2>3, <2>5 DEF RunCheck, TypeOK, unchangedByWorker, controlVars
<1>18. CASE Wake(h, s)
  BY <1>4, <1>18 DEF Wake, TypeOK, PC, unchangedByWorker, controlVars
<1>19. QED
  BY <1>8, <1>9, <1>10, <1>11, <1>12, <1>13, <1>14, <1>15, <1>16, <1>17, <1>18
  DEF WorkerStep, LocalStep, RemoteStep

\* Every step of the poll loop keeps the types.
LEMMA TypeNext == TypeOK /\ [Next]_vars => TypeOK'
<1> SUFFICES ASSUME TypeOK, [Next]_vars PROVE TypeOK'
  OBVIOUS
<1>1. CASE \E next \in Configs : StoreConfig(next)
  BY <1>1 DEF StoreConfig, TypeOK
<1>2. CASE Reload
  BY <1>2, TypeReconcile DEF Reload, TypeOK
<1>3. CASE SetParent
  BY <1>3 DEF SetParent, TypeOK
<1>4. CASE RunReconcile
  BY <1>4, TypeReconcile DEF RunReconcile, TypeOK
<1>5. CASE CancelContext
  BY <1>5 DEF CancelContext, TypeOK
<1>6. CASE RunReturn
  BY <1>6 DEF RunReturn, TypeOK
<1>7. CASE \E h \in Hosts, s \in Slots : WorkerStep(h, s)
  BY <1>7, TypeWorker
<1>8. CASE UNCHANGED vars
  BY <1>8 DEF vars, controlVars, TypeOK
<1>9. QED
  BY <1>1, <1>2, <1>3, <1>4, <1>5, <1>6, <1>7, <1>8 DEF Next

\* Type correctness: TypeOK holds in every reachable state.
THEOREM TypeCorrect == Spec => []TypeOK
<1>1. QED
  BY TypeInit, TypeNext, PTL DEF Spec

(***************************************************************************)
(* How reconcile and a worker step change the control state.               *)
(***************************************************************************)

\* A worker step concerns one goroutine.  Either it goes on, or it returns
\* because its host is gone or its context is done.
LEMMA WorkerShape ==
    ASSUME TypeOK, NEW h \in Hosts, NEW s \in Slots, WorkerStep(h, s)
    PROVE  /\ UNCHANGED <<cfg, hup, ctxDone, run, workers, overlap>>
           /\ Exists(h, s)
           /\ \A g \in Hosts, t \in Slots : g # h \/ t # s =>
                  pc'[g][t] = pc[g][t] /\ cancelled'[g][t] = cancelled[g][t]
           /\ \/ Exists(h, s)' /\ cancelled'[h][s] = cancelled[h][s]
              \/ ~Exists(h, s)' /\ ~cancelled'[h][s] /\ (Gone(h) \/ Done(h, s))
           /\ \A g \in Hosts : status'[g].reg = status[g].reg
<1> DEFINE Goes == /\ UNCHANGED <<cfg, hup, ctxDone, run, workers, overlap, cancelled>>
                   /\ Exists(h, s)
                   /\ \E l \in PC \ {"none"} : Goto(h, s, l)
                   /\ \A g \in Hosts : status'[g].reg = status[g].reg
<1>1. ASSUME Goes
      PROVE  /\ UNCHANGED <<cfg, hup, ctxDone, run, workers, overlap>>
             /\ Exists(h, s)
             /\ \A g \in Hosts, t \in Slots : g # h \/ t # s =>
                    pc'[g][t] = pc[g][t] /\ cancelled'[g][t] = cancelled[g][t]
             /\ Exists(h, s)' /\ cancelled'[h][s] = cancelled[h][s]
             /\ \A g \in Hosts : status'[g].reg = status[g].reg
  BY <1>1 DEF TypeOK, Goto, Exists
<1>2. ASSUME Exists(h, s), Exit(h, s), Gone(h) \/ Done(h, s)
      PROVE  /\ UNCHANGED <<cfg, hup, ctxDone, run, workers, overlap>>
             /\ Exists(h, s)
             /\ \A g \in Hosts, t \in Slots : g # h \/ t # s =>
                    pc'[g][t] = pc[g][t] /\ cancelled'[g][t] = cancelled[g][t]
             /\ ~Exists(h, s)' /\ ~cancelled'[h][s] /\ (Gone(h) \/ Done(h, s))
             /\ \A g \in Hosts : status'[g].reg = status[g].reg
  BY <1>2 DEF TypeOK, Goto, Exists, Exit, unchangedByWorker, controlVars
<1>3. CASE Bail(h, s)
  BY <1>2, <1>3 DEF Bail, Exists
<1>4. CASE Leave(h, s)
  BY <1>2, <1>4 DEF Leave, Exists
<1>5. CASE SkipPing(h, s)
  <2>1. Goes
    BY <1>5 DEF SkipPing, Exists, PC, unchangedByWorker, controlVars
  <2>2. QED
    BY <1>1, <2>1
<1>6. CASE StartPing(h, s)
  <2>1. Goes
    BY <1>6 DEF StartPing, Exists, PC, unchangedByWorker, controlVars
  <2>2. QED
    BY <1>1, <2>1
<1>7. CASE FinishPing(h, s)
  <2>1. PICK r : status' = [status EXCEPT ![h] = Updated(status[h], AfterPing(status[h], r))]
    BY <1>7 DEF FinishPing
  <2>2. Updated(status[h], AfterPing(status[h], r)).reg = status[h].reg
    BY DEF Updated, AfterPing, TypeOK, Status
  <2>3. \A g \in Hosts : status'[g].reg = status[g].reg
    BY <2>1, <2>2 DEF TypeOK
  <2>4. Goes
    BY <1>7, <2>3 DEF FinishPing, Exists, PC, unchangedByWorker, controlVars
  <2>5. QED
    BY <1>1, <2>4
<1>8. CASE CompareChanged(h, s)
  <2>1. Goes
    BY <1>8 DEF CompareChanged, Exists, PC, unchangedByWorker, controlVars
  <2>2. QED
    BY <1>1, <2>1
<1>9. ASSUME Proceed(h, s)
      PROVE  \E l \in PC \ {"none"} : Goto(h, s, l)
  BY <1>9 DEF Proceed, Sleep, PC
<1>10. CASE CompareSame(h, s)
  <2>1. Goes
    BY <1>9, <1>10 DEF CompareSame, Exists, unchangedByWorker, controlVars
  <2>2. QED
    BY <1>1, <2>1
<1>11. CASE AppendEvent(h, s)
  <2>1. Goes
    BY <1>9, <1>11 DEF AppendEvent, Exists, unchangedByWorker, controlVars
  <2>2. QED
    BY <1>1, <2>1
<1>12. CASE Dial(h, s)
  <2>1. Goes
    BY <1>12 DEF Dial, Exists, PC, unchangedByWorker, controlVars
  <2>2. QED
    BY <1>1, <2>1
<1>13. CASE DialFails(h, s)
  <2>1. Goes
    BY <1>13 DEF DialFails, Sleep, Exists, PC, unchangedByWorker, controlVars
  <2>2. QED
    BY <1>1, <2>1
<1>14. CASE RunCheck(h, s)
  <2>1. PICK k \in loc[h][s].todo :
            /\ \/ status' = [status EXCEPT ![h] = Updated(status[h], AfterCheck(status[h], k))]
               \/ UNCHANGED status
            /\ Sleep(h, s) \/ UNCHANGED pc
    BY <1>14 DEF RunCheck
  <2>2. Updated(status[h], AfterCheck(status[h], k)).reg = status[h].reg
    BY DEF Updated, AfterCheck, TypeOK, Status
  <2>3. \A g \in Hosts : status'[g].reg = status[g].reg
    BY <2>1, <2>2 DEF TypeOK
  <2>4. \E l \in PC \ {"none"} : Goto(h, s, l)
    <3>1. CASE Sleep(h, s)
      BY <3>1 DEF Sleep, PC
    <3>2. CASE UNCHANGED pc
      <4>1. pc' = [pc EXCEPT ![h][s] = "check"]
        BY <1>14, <3>2 DEF RunCheck, TypeOK
      <4>2. QED
        BY <4>1 DEF Goto, PC
    <3>3. QED
      BY <2>1, <3>1, <3>2
  <2>5. Goes
    BY <1>14, <2>3, <2>4 DEF RunCheck, Exists, unchangedByWorker, controlVars
  <2>6. QED
    BY <1>1, <2>5
<1>15. CASE Wake(h, s)
  <2>1. Goes
    BY <1>15 DEF Wake, Exists, PC, unchangedByWorker, controlVars
  <2>2. QED
    BY <1>1, <2>1
<1>16. QED
  BY <1>3, <1>4, <1>5, <1>6, <1>7, <1>8, <1>10, <1>11, <1>12, <1>13, <1>14, <1>15
  DEF WorkerStep, LocalStep, RemoteStep

\* reconcile, host by host: a missing host gets a fresh worker, a departed one
\* loses its entry and its worker is cancelled, any other host is left alone.
LEMMA ReconcileShape ==
    ASSUME TypeOK, Reconcile, Active, NEW h \in Hosts
    PROVE  /\ h \in Missing =>
                  /\ workers'[h] \in Slots
                  /\ ~Exists(h, workers'[h])
                  /\ pc'[h][workers'[h]] = "top"
                  /\ ~cancelled'[h][workers'[h]]
                  /\ \A t \in Slots : t # workers'[h] =>
                         pc'[h][t] = pc[h][t] /\ cancelled'[h][t] = cancelled[h][t]
                  /\ status'[h] = Registered(status[h])
                  /\ ~overlap'[h] => ~overlap[h] /\ \A t \in Slots : ~Exists(h, t)
           /\ h \in Departed =>
                  /\ workers'[h] = NoSlot
                  /\ \A t \in Slots : cancelled'[h][t] <=> cancelled[h][t] \/ t = workers[h]
           /\ h \notin Missing /\ h \notin Departed =>
                  /\ workers'[h] = workers[h]
                  /\ \A t \in Slots : cancelled'[h][t] = cancelled[h][t]
           /\ h \notin Missing =>
                  /\ \A t \in Slots : pc'[h][t] = pc[h][t] /\ loc'[h][t] = loc[h][t]
                  /\ status'[h] = status[h]
                  /\ overlap'[h] = overlap[h]
           /\ logged' = logged
<1>1. PICK pick \in [Missing -> Slots] :
          /\ \A g \in Missing : ~Exists(g, pick[g])
          /\ workers' = MapAfter(pick)
          /\ cancelled' = CancelledAfter(pick)
          /\ pc' = [g \in Hosts |-> [s \in Slots |->
                       IF g \in Missing /\ s = pick[g] THEN "top" ELSE pc[g][s]]]
          /\ loc' = [g \in Hosts |-> [s \in Slots |->
                       IF g \in Missing /\ s = pick[g] THEN Fresh(0) ELSE loc[g][s]]]
          /\ status' = [g \in Hosts |->
                           IF g \in Missing THEN Registered(status[g]) ELSE status[g]]
          /\ overlap' = [g \in Hosts |->
                            overlap[g] \/ (g \in Missing /\ \E s \in Slots : Exists(g, s))]
          /\ UNCHANGED logged
  BY DEF Reconcile, Apply
<1>2. \A t \in Slots : cancelled'[h][t] = (/\ ~(h \in Missing /\ t = pick[h])
                                           /\ cancelled[h][t] \/ (h \in Departed /\ t = workers[h]))
  BY <1>1 DEF CancelledAfter
<1>3. workers'[h] = IF h \in Missing THEN pick[h]
                    ELSE IF h \in Departed THEN NoSlot ELSE workers[h]
  BY <1>1 DEF MapAfter
<1>4. cancelled \in [Hosts -> [Slots -> BOOLEAN]]
  BY DEF TypeOK
<1>5. ~(h \in Missing /\ h \in Departed)
  BY DEF Missing, Departed
<1>6. ASSUME h \in Missing
      PROVE  /\ workers'[h] = pick[h]
             /\ pick[h] \in Slots
             /\ ~Exists(h, pick[h])
             /\ pc'[h][pick[h]] = "top"
             /\ \A t \in Slots : t # pick[h] => pc'[h][t] = pc[h][t]
             /\ status'[h] = Registered(status[h])
             /\ overlap'[h] = (overlap[h] \/ \E s \in Slots : Exists(h, s))
  BY <1>1, <1>3, <1>6
<1>7. ASSUME h \in Missing
      PROVE  /\ ~cancelled'[h][pick[h]]
             /\ \A t \in Slots : t # pick[h] => cancelled'[h][t] = cancelled[h][t]
  <2>1. ~cancelled'[h][pick[h]]
    BY ONLY <1>2, <1>5, <1>6, <1>7
  <2>2. ASSUME NEW t \in Slots, t # pick[h]
        PROVE  cancelled'[h][t] = cancelled[h][t]
    <3>1. cancelled'[h][t] \in BOOLEAN /\ cancelled[h][t] \in BOOLEAN
      BY <1>2, <1>4
    <3>2. cancelled'[h][t] <=> cancelled[h][t]
      BY ONLY <1>2, <1>5, <1>7, <2>2
    <3>3. QED
      BY ONLY <3>1, <3>2
  <2>3. QED
    BY <2>1, <2>2
<1>8. ASSUME h \in Departed
      PROVE  \A t \in Slots : cancelled'[h][t] <=> cancelled[h][t] \/ t = workers[h]
  BY <1>2, <1>5, <1>8
<1>9. ASSUME h \notin Missing, h \notin Departed
      PROVE  \A t \in Slots : cancelled'[h][t] = cancelled[h][t]
  <2> SUFFICES ASSUME NEW t \in Slots
               PROVE  cancelled'[h][t] = cancelled[h][t]
    OBVIOUS
  <2>1. cancelled'[h][t] \in BOOLEAN /\ cancelled[h][t] \in BOOLEAN
    BY <1>2, <1>4
  <2>2. cancelled'[h][t] <=> cancelled[h][t]
    BY ONLY <1>2, <1>9, t \in Slots
  <2>3. QED
    BY ONLY <2>1, <2>2
<1>10. ASSUME h \notin Missing
       PROVE  /\ \A t \in Slots : pc'[h][t] = pc[h][t] /\ loc'[h][t] = loc[h][t]
              /\ status'[h] = status[h]
              /\ overlap'[h] = overlap[h]
  BY <1>1, <1>10 DEF TypeOK
<1>11. QED
  BY <1>1, <1>3, <1>5, <1>6, <1>7, <1>8, <1>9, <1>10

(***************************************************************************)
(* The control invariant.                                                  *)
(***************************************************************************)

\* Host names of a configuration are hosts.
LEMMA ConfigHosts == TypeOK => DOMAIN cfg \subseteq Hosts
<1>1. QED
  BY ConfigsAssumption DEF TypeOK

LEMMA ControlInit == Init => ControlInv
<1>1. QED
  BY SlotAssumption DEF Init, ControlInv, QuietBeforeRun, MapFollowsConfig, EntryHasWorker,
     CancelledIffUnmapped, NoUpdateLost, Exists, Live, Active

\* After an effective reconcile the map holds exactly the configured hosts, each
\* with a worker that runs, and every other worker is cancelled.
LEMMA ControlReconcile ==
    ASSUME TypeOK, ControlInv, Reconcile, Active, UNCHANGED <<cfg, ctxDone>>, run' # "new",
           run' # "returned"
    PROVE  /\ \A h \in Hosts : workers'[h] # NoSlot <=> h \in DOMAIN cfg
           /\ EntryHasWorker'
           /\ CancelledIffUnmapped'
           /\ NoUpdateLost'
<1>1. ASSUME NEW h \in Hosts
      PROVE  workers'[h] # NoSlot <=> h \in DOMAIN cfg
  BY <1>1, ReconcileShape, SlotAssumption DEF Missing, Departed
<1>2. ASSUME NEW h \in Hosts, NEW s \in Slots, workers'[h] = s
      PROVE  Exists(h, s)' \/ ctxDone
  <2>1. h \in DOMAIN cfg
    BY <1>1, <1>2, SlotAssumption
  <2>2. CASE h \in Missing
    BY <1>2, <2>2, ReconcileShape DEF Exists
  <2>3. CASE h \notin Missing
    <3>1. workers[h] = s /\ pc'[h][s] = pc[h][s]
      BY <1>2, <2>1, <2>3, ReconcileShape DEF Departed
    <3>2. QED
      BY <2>1, <3>1 DEF ControlInv, EntryHasWorker, Exists
  <2>4. QED
    BY <2>2, <2>3
<1>3. ASSUME NEW h \in Hosts, NEW s \in Slots
      PROVE  /\ ~(workers'[h] = s /\ cancelled'[h][s])
             /\ Live(h, s)' => workers'[h] = s
  <2>1. run # "returned"
    BY DEF Active
  <2>2. /\ ~(workers[h] = s /\ cancelled[h][s])
        /\ Live(h, s) => workers[h] = s
    BY <2>1 DEF ControlInv, CancelledIffUnmapped
  <2>3. CASE h \in Missing
    <3>1. ~Live(h, s)
      BY <2>2, <2>3, SlotAssumption DEF Missing
    <3>2. QED
      BY <2>3, <3>1, ReconcileShape DEF Live, Exists
  <2>4. CASE h \in Departed
    <3>1. h \notin Missing
      BY <2>4 DEF Missing, Departed
    <3>2. /\ workers'[h] = NoSlot
          /\ cancelled'[h][s] <=> cancelled[h][s] \/ s = workers[h]
          /\ pc'[h][s] = pc[h][s]
      BY <2>4, <3>1, ReconcileShape
    <3>3. QED
      BY <2>2, <3>2, SlotAssumption DEF Live, Exists
  <2>5. CASE h \notin Missing /\ h \notin Departed
    BY <2>2, <2>5, ReconcileShape DEF Live, Exists
  <2>6. QED
    BY <2>3, <2>4, <2>5
<1>4. ASSUME NEW h \in Hosts, NEW s \in Slots, Exists(h, s)'
      PROVE  status'[h].reg
  <2>1. CASE h \in Missing
    BY <2>1, ReconcileShape DEF Registered
  <2>2. CASE h \notin Missing
    BY <1>4, <2>2, ReconcileShape DEF ControlInv, NoUpdateLost, Exists
  <2>3. QED
    BY <2>1, <2>2
<1>5. QED
  BY <1>1, <1>2, <1>3, <1>4 DEF EntryHasWorker, CancelledIffUnmapped, NoUpdateLost

\* A worker step keeps the control invariant: a worker that returns while its
\* entry is in the map found its host gone, which only happens during a reload.
LEMMA ControlWorker ==
    ASSUME TypeOK, ControlInv, NEW h \in Hosts, NEW s \in Slots, WorkerStep(h, s)
    PROVE  ControlInv'
<1>1. /\ UNCHANGED <<cfg, hup, ctxDone, run, workers, overlap>>
      /\ Exists(h, s)
      /\ \A g \in Hosts, t \in Slots : g # h \/ t # s =>
             pc'[g][t] = pc[g][t] /\ cancelled'[g][t] = cancelled[g][t]
      /\ \/ Exists(h, s)' /\ cancelled'[h][s] = cancelled[h][s]
         \/ ~Exists(h, s)' /\ ~cancelled'[h][s] /\ (Gone(h) \/ Done(h, s))
      /\ \A g \in Hosts : status'[g].reg = status[g].reg
  BY WorkerShape
<1>2. run # "new"
  BY <1>1 DEF ControlInv, QuietBeforeRun
<1>3. QuietBeforeRun' /\ MapFollowsConfig' /\ (run' = "returned" => ctxDone')
  BY <1>1, <1>2 DEF ControlInv, QuietBeforeRun, MapFollowsConfig, Active
<1>4. EntryHasWorker'
  <2> SUFFICES ASSUME NEW g \in Hosts, NEW t \in Slots, workers'[g] = t
               PROVE  Exists(g, t)' \/ ctxDone' \/ (hup' = "reloading" /\ g \notin DOMAIN cfg')
    BY DEF EntryHasWorker
  <2>1. CASE g # h \/ t # s
    BY <1>1, <2>1 DEF ControlInv, EntryHasWorker, Exists
  <2>2. CASE g = h /\ t = s /\ ~Exists(h, s)'
    <3>1. workers[h] = s
      BY <1>1, <2>2
    <3>2. CASE Done(h, s)
      BY <1>1, <3>1, <3>2 DEF Done, ControlInv, CancelledIffUnmapped
    <3>3. CASE Gone(h) /\ ~ctxDone
      <4>1. run \in {"starting", "waiting"}
        BY <1>2, <3>3 DEF ControlInv, TypeOK
      <4>2. hup = "reloading"
        BY <3>1, <3>3, <4>1, SlotAssumption DEF ControlInv, MapFollowsConfig, Active, Gone, TypeOK
      <4>3. QED
        BY <1>1, <2>2, <3>3, <4>2 DEF Gone
    <3>4. QED
      BY <1>1, <2>2, <3>2, <3>3
  <2>3. QED
    BY <2>1, <2>2
<1>5. CancelledIffUnmapped'
  <2> SUFFICES ASSUME NEW g \in Hosts, NEW t \in Slots
               PROVE  /\ workers'[g] = t /\ cancelled'[g][t] => run' = "returned"
                      /\ Live(g, t)' => workers'[g] = t
    BY DEF CancelledIffUnmapped
  <2>1. /\ workers[g] = t /\ cancelled[g][t] => run = "returned"
        /\ Live(g, t) => workers[g] = t
    BY DEF ControlInv, CancelledIffUnmapped
  <2>2. CASE g # h \/ t # s
    BY <1>1, <2>1, <2>2 DEF Live, Exists
  <2>3. CASE g = h /\ t = s
    BY <1>1, <2>1, <2>3 DEF Live, Exists
  <2>4. QED
    BY <2>2, <2>3
<1>6. NoUpdateLost'
  BY <1>1 DEF ControlInv, NoUpdateLost, Exists
<1>7. QED
  BY <1>3, <1>4, <1>5, <1>6 DEF ControlInv

\* Every step of the poll loop keeps the control invariant.
LEMMA ControlNext == TypeOK /\ ControlInv /\ [Next]_vars => ControlInv'
<1> SUFFICES ASSUME TypeOK, ControlInv, [Next]_vars PROVE ControlInv'
  OBVIOUS
<1>1. CASE \E next \in Configs : StoreConfig(next)
  <2>1. hup' = "reloading" /\ hup = "idle"
        /\ UNCHANGED <<ctxDone, run, workers, pc, cancelled, loc, status, logged, overlap>>
    BY <1>1 DEF StoreConfig
  <2>2. EntryHasWorker'
    BY <2>1 DEF ControlInv, EntryHasWorker, Exists
  <2>3. QED
    BY <2>1, <2>2 DEF ControlInv, QuietBeforeRun, MapFollowsConfig, CancelledIffUnmapped,
       NoUpdateLost, Exists, Live
<1>2. CASE Reload
  <2>1. CASE Active
    <3>1. /\ \A h \in Hosts : workers'[h] # NoSlot <=> h \in DOMAIN cfg
          /\ EntryHasWorker' /\ CancelledIffUnmapped' /\ NoUpdateLost'
      BY <1>2, <2>1, ControlReconcile DEF Reload, Active
    <3>2. QED
      BY <1>2, <2>1, <3>1, ConfigHosts
      DEF Reload, Active, ControlInv, QuietBeforeRun, MapFollowsConfig
  <2>2. CASE ~Active
    <3>1. /\ UNCHANGED <<workers, pc, cancelled, status, cfg, ctxDone, run>>
          /\ hup' = "idle"
          /\ run \in {"new", "returned"}
      BY <1>2, <2>2 DEF Reload, Reconcile, Active, TypeOK
    <3>2. EntryHasWorker'
      BY <3>1, SlotAssumption DEF ControlInv, EntryHasWorker, QuietBeforeRun, Exists
    <3>3. QED
      BY <2>2, <3>1, <3>2 DEF ControlInv, QuietBeforeRun, MapFollowsConfig,
         CancelledIffUnmapped, NoUpdateLost, Exists, Live, Active
  <2>3. QED
    BY <2>1, <2>2
<1>3. CASE SetParent
  BY <1>3 DEF SetParent, ControlInv, QuietBeforeRun, MapFollowsConfig, EntryHasWorker,
     CancelledIffUnmapped, NoUpdateLost, Exists, Live, Active
<1>4. CASE RunReconcile
  <2>1. Active /\ run' = "waiting" /\ Reconcile /\ UNCHANGED <<cfg, hup, ctxDone>>
    BY <1>4 DEF RunReconcile, Active
  <2>2. /\ \A h \in Hosts : workers'[h] # NoSlot <=> h \in DOMAIN cfg
        /\ EntryHasWorker' /\ CancelledIffUnmapped' /\ NoUpdateLost'
    BY <2>1, ControlReconcile
  <2>3. QED
    BY <2>1, <2>2, ConfigHosts DEF ControlInv, QuietBeforeRun, MapFollowsConfig
<1>5. CASE CancelContext
  BY <1>5 DEF CancelContext, ControlInv, QuietBeforeRun, MapFollowsConfig, EntryHasWorker,
     CancelledIffUnmapped, NoUpdateLost, Exists, Live, Active
<1>6. CASE RunReturn
  <2>1. \A h \in Hosts, s \in Slots : cancelled'[h][s] <=> cancelled[h][s] \/ s = workers[h]
    BY <1>6 DEF RunReturn
  <2>2. \A h \in Hosts, s \in Slots : ~Live(h, s)'
    BY <1>6, <2>1 DEF RunReturn, ControlInv, CancelledIffUnmapped, Live, Exists
  <2>3. QED
    BY <1>6, <2>2 DEF RunReturn, ControlInv, QuietBeforeRun, MapFollowsConfig,
       EntryHasWorker, CancelledIffUnmapped, NoUpdateLost, Exists, Active
<1>7. CASE \E h \in Hosts, s \in Slots : WorkerStep(h, s)
  BY <1>7, ControlWorker
<1>8. CASE UNCHANGED vars
  BY <1>8 DEF vars, controlVars, ControlInv, QuietBeforeRun, MapFollowsConfig,
     EntryHasWorker, CancelledIffUnmapped, NoUpdateLost, Exists, Live, Active
<1>9. QED
  BY <1>1, <1>2, <1>3, <1>4, <1>5, <1>6, <1>7, <1>8 DEF Next

\* The control invariant holds in every reachable state.
THEOREM ControlCorrect == Spec => []ControlInv
<1>1. QED
  BY TypeInit, TypeNext, ControlInit, ControlNext, PTL DEF Spec

\* Between reloads exactly the configured hosts are polled.
THEOREM Monitored == Spec => []NoHostUnmonitored
<1>1. TypeOK /\ ControlInv => NoHostUnmonitored
  <2> SUFFICES ASSUME TypeOK, ControlInv, hup = "idle", run = "waiting", ~ctxDone,
                      NEW h \in Hosts
               PROVE  h \in DOMAIN cfg <=> \E s \in Slots : Live(h, s)
    BY DEF NoHostUnmonitored
  <2>1. workers[h] # NoSlot <=> h \in DOMAIN cfg
    BY DEF ControlInv, MapFollowsConfig, Active
  <2>2. ASSUME NEW s \in Slots, Live(h, s)
        PROVE  h \in DOMAIN cfg
    BY <2>1, <2>2, SlotAssumption DEF ControlInv, CancelledIffUnmapped
  <2>3. ASSUME h \in DOMAIN cfg
        PROVE  \E s \in Slots : Live(h, s)
    <3>1. workers[h] \in Slots
      BY <2>1, <2>3 DEF TypeOK
    <3>2. Exists(h, workers[h])
      BY <3>1 DEF ControlInv, EntryHasWorker
    <3>3. ~cancelled[h][workers[h]]
      BY <3>1 DEF ControlInv, CancelledIffUnmapped
    <3>4. QED
      BY <3>1, <3>2, <3>3 DEF Live
  <2>4. QED
    BY <2>2, <2>3
<1>2. QED
  BY <1>1, TypeCorrect, ControlCorrect, PTL

\* No host ever has two workers that go on polling.
THEOREM OneWorker == Spec => []OneLiveWorker
<1>1. ControlInv => OneLiveWorker
  BY DEF ControlInv, CancelledIffUnmapped, OneLiveWorker
<1>2. QED
  BY <1>1, ControlCorrect, PTL

\* No step of a stopped monitor starts a goroutine.
LEMMA NoneStarts ==
    ASSUME TypeOK, NEW h \in Hosts, NEW s \in Slots, run = "returned", ~Exists(h, s), Next
    PROVE  ~Exists(h, s)'
<1>1. CASE \E g \in Hosts, t \in Slots : WorkerStep(g, t)
  <2>1. PICK g \in Hosts, t \in Slots : WorkerStep(g, t)
    BY <1>1
  <2>2. Exists(g, t) /\ (h # g \/ s # t => pc'[h][s] = pc[h][s])
    BY <2>1, WorkerShape
  <2>3. QED
    BY <2>2 DEF Exists
<1>2. CASE Reload \/ RunReconcile
  BY <1>2 DEF Reload, RunReconcile, Reconcile, Active, Exists
<1>3. CASE (\E next \in Configs : StoreConfig(next)) \/ SetParent \/ CancelContext \/ RunReturn
  BY <1>3 DEF StoreConfig, SetParent, CancelContext, RunReturn, Exists
<1>4. QED
  BY <1>1, <1>2, <1>3 DEF Next

\* After Run has returned no goroutine is started.
THEOREM Stopped == Spec => StoppedIsFinal
<1>1. TypeOK /\ [Next]_vars =>
          [\A h \in Hosts, s \in Slots :
               run = "returned" /\ ~Exists(h, s) => ~Exists(h, s)']_vars
  BY NoneStarts
<1>2. QED
  BY <1>1, TypeCorrect, PTL DEF Spec, StoppedIsFinal

(***************************************************************************)
(* The poll loop implements Polling.                                       *)
(***************************************************************************)

\* A reload makes the hosts that are polled the configured ones.
LEMMA ReconcileAdopts ==
    ASSUME TypeOK, ControlInv, Reconcile, Active, UNCHANGED <<cfg, ctxDone>>,
           run' \notin {"new", "returned"}
    PROVE  Coverage!Adopt
<1>1. /\ \A h \in Hosts : workers'[h] # NoSlot <=> h \in DOMAIN cfg
      /\ EntryHasWorker' /\ CancelledIffUnmapped'
  BY ControlReconcile
<1>2. ASSUME NEW h \in Hosts, NEW s \in Slots, Live(h, s)'
      PROVE  h \in DOMAIN cfg
  BY <1>1, <1>2, SlotAssumption DEF CancelledIffUnmapped
<1>3. ASSUME NEW h \in DOMAIN cfg, ~ctxDone
      PROVE  \E s \in Slots : Live(h, s)'
  <2>1. h \in Hosts
    BY ConfigHosts
  <2>2. workers'[h] \in Slots
    BY <1>1, <2>1, ReconcileShape, SlotAssumption DEF Missing, Departed, TypeOK
  <2>3. Exists(h, workers[h])' /\ ~cancelled'[h][workers'[h]]
    <3>1. PICK s \in Slots : s = workers'[h]
      BY <2>2
    <3>2. Exists(h, s)' /\ ~cancelled'[h][s]
      <4>1. Exists(h, s)'
        <5>1. CASE h \in Missing
          BY <2>1, <3>1, <5>1, ReconcileShape DEF Exists
        <5>2. CASE h \notin Missing
          <6>1. workers[h] = s /\ pc'[h][s] = pc[h][s]
            BY <2>1, <3>1, <5>2, ReconcileShape DEF Departed
          <6>2. QED
            BY <1>3, <2>1, <6>1 DEF ControlInv, EntryHasWorker, Exists
        <5>3. QED
          BY <5>1, <5>2
      <4>2. QED
        BY <1>1, <2>1, <3>1, <4>1 DEF CancelledIffUnmapped
    <3>3. QED
      BY <3>1, <3>2 DEF Exists
  <2>4. QED
    BY <2>2, <2>3 DEF Live, Exists
<1>4. /\ Polled' \in SUBSET DOMAIN cfg
      /\ ~ctxDone => Polled' = DOMAIN cfg
  BY <1>2, <1>3, ConfigHosts DEF Polled
<1>5. Phase = "on" /\ Phase' = "on"
  BY DEF Phase, Active
<1>6. QED
  BY <1>4, <1>5 DEF Coverage!Adopt

\* A worker that returns was cancelled before, or is the one that polled its host.
LEMMA WorkerGivesUp ==
    ASSUME TypeOK, ControlInv, NEW h \in Hosts, NEW s \in Slots, WorkerStep(h, s)
    PROVE  Coverage!GiveUp(h) \/ UNCHANGED Coverage!vars
<1>1. /\ UNCHANGED <<cfg, ctxDone, run>>
      /\ Exists(h, s)
      /\ \A g \in Hosts, t \in Slots : g # h \/ t # s =>
             pc'[g][t] = pc[g][t] /\ cancelled'[g][t] = cancelled[g][t]
      /\ \/ Exists(h, s)' /\ cancelled'[h][s] = cancelled[h][s]
         \/ ~Exists(h, s)' /\ ~cancelled'[h][s] /\ (Gone(h) \/ Done(h, s))
  BY WorkerShape
<1>2. Phase' = Phase
  BY <1>1 DEF Phase
<1>3. ASSUME NEW g \in Hosts, NEW t \in Slots, g # h \/ t # s
      PROVE  Live(g, t)' <=> Live(g, t)
  BY <1>1, <1>3 DEF Live, Exists
<1>4. \A g \in Hosts \ {h} : g \in Polled' <=> g \in Polled
  BY <1>3 DEF Polled
<1>5. CASE Live(h, s)' <=> Live(h, s)
  <2>1. h \in Polled' <=> h \in Polled
    BY <1>3, <1>5 DEF Polled
  <2>2. Polled' = Polled
    BY <1>4, <2>1 DEF Polled
  <2>3. QED
    BY <1>1, <1>2, <2>2 DEF Coverage!vars
<1>6. CASE ~(Live(h, s)' <=> Live(h, s))
  <2>1. Live(h, s) /\ ~Live(h, s)' /\ (Gone(h) \/ Done(h, s))
    BY <1>1, <1>6 DEF Live
  <2>2. h \notin DOMAIN cfg \/ ctxDone
    BY <2>1 DEF Gone, Done, Live
  <2>3. \A t \in Slots : ~Live(h, t)'
    BY <1>3, <2>1 DEF ControlInv, CancelledIffUnmapped
  <2>4. h \in Polled /\ Polled' = Polled \ {h}
    BY <1>4, <2>1, <2>3 DEF Polled
  <2>5. QED
    BY <1>1, <1>2, <2>2, <2>4 DEF Coverage!GiveUp
<1>7. QED
  BY <1>5, <1>6

\* Every step of the poll loop is a step of Polling, or changes nothing that it sees.
LEMMA PollingStep ==
    TypeOK /\ ControlInv /\ [Next]_vars => [Coverage!Next]_(Coverage!vars)
<1> SUFFICES ASSUME TypeOK, ControlInv, [Next]_vars
             PROVE  Coverage!Next \/ UNCHANGED Coverage!vars
  OBVIOUS
<1>1. CASE \E next \in Configs : StoreConfig(next)
  <2>1. cfg' \in Configs /\ UNCHANGED <<ctxDone, run, pc, cancelled>>
    BY <1>1 DEF StoreConfig
  <2>2. DOMAIN cfg' \in SUBSET Hosts
    BY <2>1, ConfigsAssumption
  <2>3. Polled' = Polled /\ Phase' = Phase
    BY <2>1 DEF Polled, Phase, Live, Exists
  <2>4. Coverage!Configure
    BY <2>1, <2>2, <2>3 DEF Coverage!Configure
  <2>5. QED
    BY <2>4 DEF Coverage!Next
<1>2. CASE Reload
  <2>1. CASE Active
    BY <1>2, <2>1, ReconcileAdopts DEF Reload, Active, Coverage!Next
  <2>2. CASE ~Active
    <3>1. UNCHANGED <<cfg, ctxDone, run, pc, cancelled>>
      BY <1>2, <2>2 DEF Reload, Reconcile
    <3>2. QED
      BY <3>1 DEF Coverage!vars, Polled, Phase, Live, Exists
  <2>3. QED
    BY <2>1, <2>2
<1>3. CASE SetParent
  <2>1. /\ UNCHANGED <<cfg, ctxDone, pc, cancelled>>
        /\ Phase = "new" /\ Phase' = "on"
    BY <1>3 DEF SetParent, Phase
  <2>2. Coverage!Begin
    BY <2>1 DEF Coverage!Begin, Polled, Live, Exists
  <2>3. QED
    BY <2>2 DEF Coverage!Next
<1>4. CASE RunReconcile
  BY <1>4, ReconcileAdopts DEF RunReconcile, Active, Coverage!Next
<1>5. CASE CancelContext
  <2>1. ctxDone' = TRUE /\ UNCHANGED <<cfg, run, pc, cancelled>>
    BY <1>5 DEF CancelContext
  <2>2. Coverage!End
    BY <2>1 DEF Coverage!End, Polled, Phase, Live, Exists
  <2>3. QED
    BY <2>2 DEF Coverage!Next
<1>6. CASE RunReturn
  <2>1. /\ \A h \in Hosts, s \in Slots : cancelled'[h][s] <=> cancelled[h][s] \/ s = workers[h]
        /\ UNCHANGED <<cfg, ctxDone, pc>> /\ ctxDone
        /\ Phase = "on" /\ Phase' = "off"
    BY <1>6 DEF RunReturn, Phase
  <2>2. \A h \in Hosts, s \in Slots : ~Live(h, s)'
    BY <2>1 DEF ControlInv, CancelledIffUnmapped, Live, Exists
  <2>3. Coverage!Finish
    BY <2>1, <2>2 DEF Coverage!Finish, Polled
  <2>4. QED
    BY <2>3 DEF Coverage!Next
<1>7. CASE \E h \in Hosts, s \in Slots : WorkerStep(h, s)
  BY <1>7, WorkerGivesUp DEF Coverage!Next
<1>8. CASE UNCHANGED vars
  BY <1>8 DEF vars, controlVars, Coverage!vars, Polled, Phase, Live, Exists
<1>9. QED
  BY <1>1, <1>2, <1>3, <1>4, <1>5, <1>6, <1>7, <1>8 DEF Next

\* The hosts that are polled change as Polling says, for any hosts, configurations and
\* numbers of workers that still drain.
THEOREM MonitorImplementsPolling == Spec => ImplementsPolling
<1>1. Init => Coverage!Init
  BY ConfigsAssumption DEF Init, Coverage!Init, Polled, Phase, Live, Exists
<1>2. QED
  BY <1>1, PollingStep, TypeCorrect, ControlCorrect, PTL
  DEF Spec, ImplementsPolling, Coverage!Spec

(***************************************************************************)
(* The history invariant: the registry and the event log.                  *)
(***************************************************************************)

\* A worker step leaves other hosts' data, and other goroutines, alone.
LEMMA WorkerLocality ==
    ASSUME TypeOK, NEW h \in Hosts, NEW s \in Slots, WorkerStep(h, s)
    PROVE  /\ \A g \in Hosts : g # h =>
                  /\ status'[g] = status[g] /\ logged'[g] = logged[g]
                  /\ \A t \in Slots : pc'[g][t] = pc[g][t] /\ loc'[g][t] = loc[g][t]
           /\ \A t \in Slots : t # s => pc'[h][t] = pc[h][t]
<1>1. \/ UNCHANGED status
      \/ \E st : status' = [status EXCEPT ![h] = st]
  <2>1. CASE FinishPing(h, s)
    BY <2>1 DEF FinishPing
  <2>2. CASE RunCheck(h, s)
    BY <2>2 DEF RunCheck
  <2>3. CASE Bail(h, s) \/ SkipPing(h, s) \/ StartPing(h, s) \/ Wake(h, s) \/ Leave(h, s)
    BY <2>3 DEF Bail, SkipPing, StartPing, Wake, Leave, Exit
  <2>4. CASE CompareChanged(h, s) \/ CompareSame(h, s) \/ AppendEvent(h, s)
    BY <2>4 DEF CompareChanged, CompareSame, AppendEvent
  <2>5. CASE Dial(h, s) \/ DialFails(h, s)
    BY <2>5 DEF Dial, DialFails
  <2>6. QED
    BY <2>1, <2>2, <2>3, <2>4, <2>5 DEF WorkerStep, LocalStep, RemoteStep
<1>2. \/ UNCHANGED logged
      \/ \E r : logged' = [logged EXCEPT ![h] = r]
  BY DEF WorkerStep, LocalStep, RemoteStep, Bail, SkipPing, StartPing, FinishPing,
     CompareChanged, CompareSame, AppendEvent, Dial, DialFails, RunCheck, Wake, Leave, Exit
<1>3. \/ UNCHANGED loc
      \/ \E x : loc' = [loc EXCEPT ![h][s] = x]
  <2>1. CASE RunCheck(h, s)
    <3>1. CASE Sleep(h, s)
      BY <3>1 DEF Sleep
    <3>2. CASE \E k : loc' = [loc EXCEPT ![h][s].todo = @ \ {k}]
      <4>1. PICK k : loc' = [loc EXCEPT ![h][s].todo = @ \ {k}]
        BY <3>2
      <4>2. loc' = [loc EXCEPT ![h][s] = [loc[h][s] EXCEPT !.todo = @ \ {k}]]
        BY <4>1 DEF TypeOK
      <4>3. QED
        BY <4>2
    <3>3. QED
      BY <2>1, <3>1, <3>2 DEF RunCheck
  <2>2. CASE CompareChanged(h, s)
    <3>1. loc' = [loc EXCEPT ![h][s] = [loc[h][s] EXCEPT !.to = status[h].reach]]
      BY <2>2 DEF CompareChanged, TypeOK
    <3>2. QED
      BY <3>1
  <2>3. CASE FinishPing(h, s)
    <3>1. PICK r : loc' = [loc EXCEPT ![h][s] = [loc[h][s] EXCEPT !.doomed = FALSE,
                                                                  !.from = status[h].reach,
                                                                  !.up = (r = "up")]]
      BY <2>3 DEF FinishPing, TypeOK
    <3>2. QED
      BY <3>1
  <2>4. CASE CompareSame(h, s) \/ AppendEvent(h, s) \/ DialFails(h, s)
    BY <2>4 DEF CompareSame, AppendEvent, DialFails, Proceed, Sleep
  <2>5. CASE Bail(h, s) \/ SkipPing(h, s) \/ StartPing(h, s) \/ Wake(h, s) \/ Leave(h, s)
             \/ Dial(h, s)
    BY <2>5 DEF Bail, SkipPing, StartPing, Wake, Leave, Dial, Exit
  <2>6. QED
    BY <2>1, <2>2, <2>3, <2>4, <2>5 DEF WorkerStep, LocalStep, RemoteStep
<1>4. \A g \in Hosts, t \in Slots : g # h \/ t # s => pc'[g][t] = pc[g][t]
  BY WorkerShape
<1>5. \A g \in Hosts : g # h => status'[g] = status[g]
  BY <1>1 DEF TypeOK
<1>6. \A g \in Hosts : g # h => logged'[g] = logged[g]
  BY <1>2 DEF TypeOK
<1>7. \A g \in Hosts, t \in Slots : g # h => loc'[g][t] = loc[g][t]
  BY <1>3 DEF TypeOK
<1>8. QED
  BY <1>4, <1>5, <1>6, <1>7

\* What HostStory says of the one goroutine a host has.
SoloStory(h, s) ==
    /\ pc[h][s] \notin {"compare", "append"} => logged[h] = status[h].reach
    /\ pc[h][s] \in {"compare", "append"} => /\ loc[h][s].from = logged[h]
                                             /\ loc[h][s].up => status[h].reach = "up"
    /\ pc[h][s] = "append" => loc[h][s].to = status[h].reach
    /\ pc[h][s] \in {"dial", "check"} => status[h].reach = "up"
    /\ status[h].reach = "down" => status[h].ssh = {}

\* checkOnce, step by step, keeps the story of a host that has one goroutine.
LEMMA SoloStep ==
    ASSUME TypeOK, NEW h \in Hosts, NEW s \in Slots, WorkerStep(h, s), SoloStory(h, s),
           status[h].reg
    PROVE  SoloStory(h, s)'
<1> USE DEF SoloStory
<1>1. ASSUME NEW l, Goto(h, s, l) PROVE pc'[h][s] = l
  BY <1>1 DEF Goto, TypeOK
<1>2. ASSUME NEW x, loc' = [loc EXCEPT ![h][s] = x] PROVE loc'[h][s] = x
  BY <1>2 DEF TypeOK
<1>3. ASSUME Proceed(h, s)
      PROVE  pc'[h][s] = "sleep" \/ (pc'[h][s] = "dial" /\ loc[h][s].up)
  BY <1>1, <1>3 DEF Proceed, Sleep
<1>4. CASE Bail(h, s) \/ Leave(h, s)
  BY <1>1, <1>4 DEF Bail, Leave, Exit
<1>5. CASE SkipPing(h, s) \/ Wake(h, s)
  BY <1>1, <1>5 DEF SkipPing, Wake
<1>6. CASE StartPing(h, s)
  BY <1>1, <1>6 DEF StartPing
<1>7. CASE FinishPing(h, s)
  <2>1. PICK r :
            /\ status' = [status EXCEPT ![h] = Updated(status[h], AfterPing(status[h], r))]
            /\ loc' = [loc EXCEPT ![h][s] = [loc[h][s] EXCEPT !.doomed = FALSE,
                                                              !.from = status[h].reach,
                                                              !.up = (r = "up")]]
    BY <1>7 DEF FinishPing, TypeOK
  <2>2. /\ status'[h].reach = r
        /\ r = "down" => status'[h].ssh = {}
    BY <2>1 DEF Updated, AfterPing, TypeOK, Status
  <2>3. /\ loc'[h][s].from = status[h].reach
        /\ loc'[h][s].up = (r = "up")
    <3>1. loc'[h][s] = [loc[h][s] EXCEPT !.doomed = FALSE, !.from = status[h].reach,
                                         !.up = (r = "up")]
      BY <1>2, <2>1
    <3>2. /\ loc[h][s] \in Locals
          /\ {"from", "up"} \subseteq DOMAIN loc[h][s]
      BY DEF TypeOK, Locals
    <3>3. QED
      BY <3>1, <3>2, Zenon
  <2>4. pc'[h][s] = "compare" /\ logged' = logged /\ logged[h] = status[h].reach
    BY <1>1, <1>7 DEF FinishPing
  <2>5. QED
    BY <2>2, <2>3, <2>4
<1>8. CASE CompareChanged(h, s)
  <2>1. loc' = [loc EXCEPT ![h][s] = [loc[h][s] EXCEPT !.to = status[h].reach]]
    BY <1>8 DEF CompareChanged, TypeOK
  <2>2. /\ loc'[h][s].from = loc[h][s].from
        /\ loc'[h][s].up = loc[h][s].up
        /\ loc'[h][s].to = status[h].reach
    BY <1>2, <2>1 DEF TypeOK, Locals
  <2>3. QED
    BY <1>1, <1>8, <2>2 DEF CompareChanged
<1>9. CASE CompareSame(h, s)
  BY <1>3, <1>9 DEF CompareSame, Changed
<1>10. CASE AppendEvent(h, s)
  <2>1. logged'[h] = loc[h][s].to
    BY <1>10 DEF AppendEvent, TypeOK
  <2>2. QED
    BY <1>3, <1>10, <2>1 DEF AppendEvent
<1>11. CASE Dial(h, s)
  BY <1>1, <1>11 DEF Dial
<1>12. CASE DialFails(h, s)
  BY <1>1, <1>12 DEF DialFails, Sleep
<1>13. CASE RunCheck(h, s)
  <2>1. PICK k \in loc[h][s].todo :
            /\ \/ status' = [status EXCEPT ![h] = Updated(status[h], AfterCheck(status[h], k))]
               \/ UNCHANGED status
            /\ Sleep(h, s) \/ UNCHANGED pc
    BY <1>13 DEF RunCheck
  <2>2. status'[h].reach = status[h].reach
    BY <2>1 DEF Updated, AfterCheck, TypeOK, Status
  <2>3. pc'[h][s] \in {"check", "sleep"}
    BY <1>1, <1>13, <2>1 DEF RunCheck, Sleep
  <2>4. QED
    BY <1>13, <2>2, <2>3 DEF RunCheck
<1>14. QED
  BY <1>4, <1>5, <1>6, <1>7, <1>8, <1>9, <1>10, <1>11, <1>12, <1>13
  DEF WorkerStep, LocalStep, RemoteStep

\* A worker step keeps the history invariant.
LEMMA HistoryWorker ==
    ASSUME TypeOK, ControlInv, HistoryInv, NEW h \in Hosts, NEW s \in Slots, WorkerStep(h, s)
    PROVE  HistoryInv'
<1>1. /\ \A g \in Hosts : g # h =>
             /\ status'[g] = status[g] /\ logged'[g] = logged[g]
             /\ \A t \in Slots : pc'[g][t] = pc[g][t] /\ loc'[g][t] = loc[g][t]
      /\ \A t \in Slots : t # s => pc'[h][t] = pc[h][t]
  BY WorkerLocality
<1>2. /\ Exists(h, s)
      /\ overlap' = overlap
      /\ \A g \in Hosts : status'[g].reg = status[g].reg
  BY WorkerShape
<1>3. status[h].reg
  BY <1>2 DEF ControlInv, NoUpdateLost
<1>4. ASSUME NEW g \in Hosts, g # h
      PROVE  /\ ~status'[g].reg => status'[g].reach = "unknown" /\ status'[g].ssh = {}
             /\ ~overlap'[g] => HostStory(g)'
  <2>1. ~overlap[g] => HostStory(g)
    BY DEF HistoryInv
  <2>2. ~overlap[g] => HostStory(g)'
    BY <1>1, <1>4, <2>1 DEF HostStory, Exists
  <2>3. QED
    BY <1>1, <1>2, <1>4, <2>2 DEF HistoryInv
<1>5. ASSUME ~overlap[h]
      PROVE  HostStory(h)'
  <2>1. HostStory(h)
    BY <1>5 DEF HistoryInv
  <2>2. \A t \in Slots : t # s => pc[h][t] = "none" /\ pc'[h][t] = "none"
    BY <1>1, <1>2, <2>1 DEF HostStory, Exists
  <2>3. SoloStory(h, s)
    BY <2>1, <2>2 DEF HostStory, SoloStory
  <2>4. SoloStory(h, s)'
    BY <1>3, <2>3, SoloStep
  <2>5. QED
    BY <2>2, <2>4 DEF HostStory, SoloStory, Exists
<1>6. QED
  BY <1>2, <1>3, <1>4, <1>5 DEF HistoryInv

\* reconcile starts a worker for a host that has none, or marks the overlap.
LEMMA HistoryReconcile ==
    ASSUME TypeOK, HistoryInv, Reconcile
    PROVE  HistoryInv'
<1>1. CASE ~Active
  BY <1>1 DEF Reconcile, HistoryInv, HostStory, Exists
<1>2. CASE Active
  <2> SUFFICES ASSUME NEW h \in Hosts
               PROVE  /\ ~status'[h].reg => status'[h].reach = "unknown" /\ status'[h].ssh = {}
                      /\ ~overlap'[h] => HostStory(h)'
    BY DEF HistoryInv
  <2>1. /\ ~status[h].reg => status[h].reach = "unknown" /\ status[h].ssh = {}
        /\ ~overlap[h] => HostStory(h)
    BY DEF HistoryInv
  <2>2. CASE h \notin Missing
    BY <1>2, <2>1, <2>2, ReconcileShape DEF HostStory, Exists
  <2>3. CASE h \in Missing
    <3>1. /\ workers'[h] \in Slots
          /\ pc'[h][workers'[h]] = "top"
          /\ \A t \in Slots : t # workers'[h] => pc'[h][t] = pc[h][t]
          /\ status'[h] = Registered(status[h])
          /\ logged' = logged
          /\ ~overlap'[h] => ~overlap[h] /\ \A t \in Slots : ~Exists(h, t)
      BY <1>2, <2>3, ReconcileShape
    <3>2. /\ status'[h].reg
          /\ status'[h].reach = status[h].reach
          /\ status'[h].ssh = status[h].ssh
      <4>1. CASE status[h].reg
        BY ONLY <3>1, <4>1 DEF Registered
      <4>2. CASE ~status[h].reg
        <5>1. status'[h] = [reg |-> TRUE, reach |-> "unknown", ssh |-> {}]
          BY ONLY <3>1, <4>2 DEF Registered
        <5>2. status[h].reach = "unknown" /\ status[h].ssh = {}
          BY ONLY <2>1, <4>2
        <5>3. QED
          BY ONLY <5>1, <5>2
      <4>3. QED
        BY ONLY <4>1, <4>2
    <3>3. ASSUME ~overlap'[h]
          PROVE  HostStory(h)'
      <4>1. \A t \in Slots : t # workers'[h] => pc'[h][t] = "none"
        BY <3>1, <3>3 DEF Exists
      <4>2. HostStory(h) /\ logged[h] = status[h].reach
        BY <2>1, <3>1, <3>3 DEF HostStory, Exists
      <4>3. QED
        BY <3>1, <3>2, <4>1, <4>2 DEF HostStory, Exists
    <3>4. QED
      BY <3>2, <3>3
  <2>4. QED
    BY <2>2, <2>3
<1>3. QED
  BY <1>1, <1>2

\* Every step of the poll loop keeps the history invariant.
LEMMA HistoryNext == TypeOK /\ ControlInv /\ HistoryInv /\ [Next]_vars => HistoryInv'
<1> SUFFICES ASSUME TypeOK, ControlInv, HistoryInv, [Next]_vars PROVE HistoryInv'
  OBVIOUS
<1>1. ASSUME UNCHANGED <<pc, loc, status, logged, overlap>>
      PROVE  HistoryInv'
  BY <1>1 DEF HistoryInv, HostStory, Exists
<1>2. CASE Reload \/ RunReconcile
  BY <1>2, HistoryReconcile DEF Reload, RunReconcile
<1>3. CASE \E h \in Hosts, s \in Slots : WorkerStep(h, s)
  BY <1>3, HistoryWorker
<1>4. CASE (\E next \in Configs : StoreConfig(next)) \/ SetParent \/ CancelContext \/ RunReturn
  BY <1>1, <1>4 DEF StoreConfig, SetParent, CancelContext, RunReturn
<1>5. CASE UNCHANGED vars
  BY <1>1, <1>5 DEF vars
<1>6. QED
  BY <1>2, <1>3, <1>4, <1>5 DEF Next

\* The history invariant holds in every reachable state.
THEOREM HistoryCorrect == Spec => []HistoryInv
<1>1. ASSUME Init
      PROVE  HistoryInv
  <2>1. ASSUME NEW h \in Hosts
        PROVE  /\ status[h].reach = "unknown" /\ status[h].ssh = {}
               /\ logged[h] = "unknown"
               /\ \A s \in Slots : pc[h][s] = "none"
    BY <1>1 DEF Init
  <2>2. QED
    BY <2>1 DEF HistoryInv, HostStory, Exists
<1>2. QED
  BY <1>1, TypeInit, ControlInit, TypeNext, ControlNext, HistoryNext, PTL DEF Spec

\* The event log tells each host's story without a gap, while its goroutines did not
\* overlap.
THEOREM Story == Spec => []AuditTrail
<1>1. HistoryInv => AuditTrail
  BY DEF HistoryInv, HostStory, AuditTrail
<1>2. QED
  BY <1>1, HistoryCorrect, PTL

\* A host that is down shows no SSH-derived data, while its goroutines did not overlap:
\* the result of a check never lands after the update that cleared them.
THEOREM DownIsBare == Spec => []DownHasNoSshData
<1>1. HistoryInv => DownHasNoSshData
  BY DEF HistoryInv, HostStory, DownHasNoSshData
<1>2. QED
  BY <1>1, HistoryCorrect, PTL

(***************************************************************************)
(* What must eventually happen.  The prover knows nothing of ENABLED, so   *)
(* the fairness of Monitor is stated with its enabling conditions written  *)
(* out.                                                                    *)
(***************************************************************************)

\* A goroutine that does not wait for the remote sshd has a step to take; one that
\* sleeps under a done context may leave.
CanStep(h, s) == Exists(h, s) /\ ~AwaitsRemote(h, s)
CanLeave(h, s) == pc[h][s] = "sleep" /\ Done(h, s)

\* Reload is due, and Run has a step to take.
CanReload == hup = "reloading"
CanSetParent == run = "new"
CanStart == run = "starting"
CanReturn == run = "waiting" /\ ctxDone

\* These conditions are strong enough.
FairGuards ==
    /\ CanReload => ENABLED <<Reload>>_vars
    /\ CanSetParent => ENABLED <<SetParent>>_vars
    /\ CanStart => ENABLED <<RunReconcile>>_vars
    /\ CanReturn => ENABLED <<RunReturn>>_vars
    /\ \A h \in Hosts, s \in Slots :
           /\ CanStep(h, s) => ENABLED <<LocalStep(h, s)>>_vars
           /\ CanLeave(h, s) => ENABLED <<Leave(h, s)>>_vars

\* WF_vars(Reload), that of the steps of Run, WF_vars(LocalStep(h, s)) and
\* SF_vars(Leave(h, s)), with them.
ReloadRuns == []<>~CanReload \/ []<><<Reload>>_vars
RunRuns == /\ []<>~CanSetParent \/ []<><<SetParent>>_vars
           /\ []<>~CanStart \/ []<><<RunReconcile>>_vars
           /\ []<>~CanReturn \/ []<><<RunReturn>>_vars
Runs(h, s) == /\ []<>~CanStep(h, s) \/ []<><<LocalStep(h, s)>>_vars
              /\ <>[]~CanLeave(h, s) \/ []<><<Leave(h, s)>>_vars
AllRun == ReloadRuns /\ RunRuns /\ \A h \in Hosts, s \in Slots : Runs(h, s)

\* The fairness of the code gives that much, as long as these conditions are strong
\* enough.
Fair(h, s) == WF_vars(LocalStep(h, s)) /\ SF_vars(Leave(h, s))

LEMMA FairnessRuns == FairSpec /\ []FairGuards => Spec /\ AllRun
<1>1. Fairness /\ []FairGuards => ReloadRuns /\ RunRuns
  <2>1. FairGuards => /\ CanReload => ENABLED <<Reload>>_vars
                      /\ CanSetParent => ENABLED <<SetParent>>_vars
                      /\ CanStart => ENABLED <<RunReconcile>>_vars
                      /\ CanReturn => ENABLED <<RunReturn>>_vars
    BY DEF FairGuards
  <2>2. QED
    BY <2>1, PTL DEF Fairness, ReloadRuns, RunRuns
<1>2. ASSUME NEW h \in Hosts, NEW s \in Slots
      PROVE  Fair(h, s) /\ []FairGuards => Runs(h, s)
  <2>1. FairGuards =>
            /\ CanStep(h, s) => ENABLED <<LocalStep(h, s)>>_vars
            /\ CanLeave(h, s) => ENABLED <<Leave(h, s)>>_vars
    BY DEF FairGuards
  <2>2. QED
    BY <2>1, PTL DEF Fair, Runs
<1>3. Fairness => \A h \in Hosts, s \in Slots : Fair(h, s)
  BY PTL DEF Fairness, Fair
<1>4. Fairness /\ []FairGuards => AllRun
  BY <1>1, <1>2, <1>3 DEF AllRun
<1>5. QED
  BY <1>4 DEF FairSpec

\* The context of Run stays cancelled, and Run takes its steps in order.
LEMMA RunGoesOn ==
    ASSUME TypeOK, [Next]_vars
    PROVE  /\ ctxDone => ctxDone'
           /\ \/ run' = run /\ ~SetParent /\ ~RunReconcile /\ ~RunReturn
              \/ run = "new" /\ run' = "starting"
              \/ run = "starting" /\ run' = "waiting"
              \/ run = "waiting" /\ run' = "returned"
<1>1. CASE SetParent \/ RunReconcile \/ RunReturn
  BY <1>1 DEF SetParent, RunReconcile, RunReturn
<1>2. CASE run' = run /\ (ctxDone => ctxDone')
  BY <1>2 DEF SetParent, RunReconcile, RunReturn
<1>3. ASSUME Reload \/ CancelContext \/ \E next \in Configs : StoreConfig(next)
      PROVE  run' = run /\ (ctxDone => ctxDone')
  BY <1>3 DEF Reload, CancelContext, StoreConfig
<1>4. ASSUME UNCHANGED vars PROVE run' = run /\ (ctxDone => ctxDone')
  BY <1>4 DEF vars, controlVars
<1>5. ASSUME NEW h \in Hosts, NEW s \in Slots, WorkerStep(h, s)
      PROVE  run' = run /\ (ctxDone => ctxDone')
  BY <1>5, WorkerShape
<1>6. QED
  BY <1>1, <1>2, <1>3, <1>4, <1>5 DEF Next

\* A goroutine moves by itself, and stays cancelled.
LEMMA OnlyOwnSteps ==
    ASSUME TypeOK, NEW h \in Hosts, NEW s \in Slots, Exists(h, s), [Next]_vars
    PROVE  \/ WorkerStep(h, s)
           \/ pc'[h][s] = pc[h][s] /\ (Done(h, s) => Done(h, s)')
<1> SUFFICES \/ WorkerStep(h, s)
             \/ pc'[h][s] = pc[h][s] /\ (cancelled[h][s] => cancelled'[h][s])
  BY RunGoesOn DEF Done
<1>1. ASSUME Reconcile
      PROVE  pc'[h][s] = pc[h][s] /\ (cancelled[h][s] => cancelled'[h][s])
  <2>1. CASE Active
    BY <1>1, <2>1, ReconcileShape
  <2>2. CASE ~Active
    BY <1>1, <2>2 DEF Reconcile
  <2>3. QED
    BY <2>1, <2>2
<1>2. ASSUME NEW g \in Hosts, NEW t \in Slots, WorkerStep(g, t), g # h \/ t # s
      PROVE  pc'[h][s] = pc[h][s] /\ (cancelled[h][s] => cancelled'[h][s])
  BY <1>2, WorkerShape
<1>3. CASE Reload \/ RunReconcile
  BY <1>1, <1>3 DEF Reload, RunReconcile
<1>4. CASE SetParent \/ CancelContext \/ \E next \in Configs : StoreConfig(next)
  BY <1>4 DEF SetParent, CancelContext, StoreConfig
<1>5. CASE RunReturn
  BY <1>5 DEF RunReturn, TypeOK
<1>6. CASE UNCHANGED vars
  BY <1>6 DEF vars
<1>7. QED
  BY <1>2, <1>3, <1>4, <1>5, <1>6 DEF Next

\* Where the steps of a goroutine lead.
LEMMA StepsAhead ==
    ASSUME TypeOK, NEW h \in Hosts, NEW s \in Slots
    PROVE  /\ LocalStep(h, s) =>
                  \/ pc[h][s] = "top" /\ pc'[h][s] = "ping"
                  \/ pc[h][s] = "top" /\ pc'[h][s] \in {"none", "sleep"}
                         /\ ~(h \in DOMAIN cfg /\ cfg[h].ping)
                  \/ pc[h][s] = "ping" /\ pc'[h][s] = "compare"
                  \/ pc[h][s] = "compare" /\ pc'[h][s] \in {"append", "dial", "sleep"}
                  \/ pc[h][s] = "append" /\ pc'[h][s] \in {"dial", "sleep"}
                  \/ pc[h][s] = "sleep" /\ pc'[h][s] = "top"
                  \/ pc[h][s] = "sleep" /\ pc'[h][s] = "none" /\ Done(h, s)
           /\ Leave(h, s) => pc[h][s] = "sleep" /\ pc'[h][s] = "none"
           /\ RemoteStep(h, s) =>
                  pc[h][s] \in {"dial", "check"} /\ pc'[h][s] \in {"check", "sleep"}
<1>1. pc \in [Hosts -> [Slots -> PC]]
  BY DEF TypeOK
<1>2. ASSUME NEW l, Goto(h, s, l) PROVE pc'[h][s] = l
  BY <1>1, <1>2 DEF Goto
<1>3. Proceed(h, s) => pc'[h][s] \in {"dial", "sleep"}
  BY <1>2 DEF Proceed, Sleep
<1>4. Exit(h, s) => pc'[h][s] = "none"
  BY <1>2 DEF Exit
<1>5. ASSUME LocalStep(h, s)
      PROVE  \/ pc[h][s] = "top" /\ pc'[h][s] = "ping"
             \/ pc[h][s] = "top" /\ pc'[h][s] \in {"none", "sleep"}
                    /\ ~(h \in DOMAIN cfg /\ cfg[h].ping)
             \/ pc[h][s] = "ping" /\ pc'[h][s] = "compare"
             \/ pc[h][s] = "compare" /\ pc'[h][s] \in {"append", "dial", "sleep"}
             \/ pc[h][s] = "append" /\ pc'[h][s] \in {"dial", "sleep"}
             \/ pc[h][s] = "sleep" /\ pc'[h][s] = "top"
             \/ pc[h][s] = "sleep" /\ pc'[h][s] = "none" /\ Done(h, s)
  <2>1. CASE Bail(h, s) \/ SkipPing(h, s) \/ StartPing(h, s)
    BY <1>2, <1>4, <2>1 DEF Bail, SkipPing, StartPing, Gone
  <2>2. CASE FinishPing(h, s) \/ CompareChanged(h, s)
    BY <1>2, <2>2 DEF FinishPing, CompareChanged
  <2>3. CASE CompareSame(h, s) \/ AppendEvent(h, s)
    BY <1>3, <2>3 DEF CompareSame, AppendEvent
  <2>4. CASE Wake(h, s) \/ Leave(h, s)
    BY <1>2, <1>4, <2>4 DEF Wake, Leave
  <2>5. QED
    BY <1>5, <2>1, <2>2, <2>3, <2>4 DEF LocalStep
<1>6. ASSUME RemoteStep(h, s)
      PROVE  pc[h][s] \in {"dial", "check"} /\ pc'[h][s] \in {"check", "sleep"}
  BY <1>2, <1>6 DEF RemoteStep, Dial, DialFails, RunCheck, Sleep
<1>7. Leave(h, s) => pc[h][s] = "sleep" /\ pc'[h][s] = "none"
  BY <1>4 DEF Leave
<1>8. QED
  BY <1>5, <1>6, <1>7

\* Where a cancelled goroutine stands, and where it goes next.
Going(h, s, l) == Done(h, s) /\ pc[h][s] = l
Hanging(h, s) == Done(h, s) /\ AwaitsRemote(h, s)
Left(h, s) == ~Exists(h, s)

\* The steps of a cancelled goroutine.
LeaveSteps(h, s) ==
    /\ Going(h, s, "top") =>
           \/ Going(h, s, "ping")' \/ Going(h, s, "sleep")' \/ Left(h, s)'
           \/ Going(h, s, "top")' /\ ~<<LocalStep(h, s)>>_vars
    /\ Going(h, s, "ping") =>
           \/ Going(h, s, "compare")' \/ Left(h, s)'
           \/ Going(h, s, "ping")' /\ ~<<LocalStep(h, s)>>_vars
    /\ Going(h, s, "compare") =>
           \/ Going(h, s, "append")' \/ Going(h, s, "sleep")' \/ Hanging(h, s)' \/ Left(h, s)'
           \/ Going(h, s, "compare")' /\ ~<<LocalStep(h, s)>>_vars
    /\ Going(h, s, "append") =>
           \/ Going(h, s, "sleep")' \/ Hanging(h, s)' \/ Left(h, s)'
           \/ Going(h, s, "append")' /\ ~<<LocalStep(h, s)>>_vars
    /\ Going(h, s, "sleep") =>
           \/ Left(h, s)'
           \/ (Going(h, s, "sleep")' \/ Going(h, s, "top")') /\ ~<<Leave(h, s)>>_vars
    /\ Going(h, s, "sleep") =>
           \/ Going(h, s, "top")' \/ Left(h, s)'
           \/ Going(h, s, "sleep")' /\ ~<<LocalStep(h, s)>>_vars
    /\ Hanging(h, s) => Hanging(h, s)' \/ Going(h, s, "sleep")' \/ Left(h, s)'
    /\ <<Leave(h, s)>>_vars => Left(h, s)'

\* A cancelled goroutine takes these steps, whatever the others do.
LEMMA LeaveGoesOn ==
    ASSUME TypeOK, NEW h \in Hosts, NEW s \in Slots, [Next]_vars
    PROVE  LeaveSteps(h, s)
<1> USE DEF LeaveSteps, Going, Hanging, Left, AwaitsRemote, Exists
<1>1. pc[h][s] \in PC /\ Done(h, s) \in BOOLEAN
  BY DEF TypeOK, Done
<1>2. CASE ~Exists(h, s)
  <2>1. Leave(h, s) => FALSE
    BY <1>2 DEF Leave
  <2>2. QED
    BY <1>2, <2>1
<1>3. CASE Exists(h, s) /\ ~WorkerStep(h, s)
  <2>1. pc'[h][s] = pc[h][s] /\ (Done(h, s) => Done(h, s)')
    BY <1>3, OnlyOwnSteps
  <2>2. ~LocalStep(h, s) /\ ~Leave(h, s)
    BY <1>3 DEF WorkerStep, LocalStep
  <2>3. QED
    BY ONLY <2>1, <2>2 DEF LeaveSteps, Going, Hanging, Left, AwaitsRemote, Exists
<1>4. CASE WorkerStep(h, s)
  <2>1. (Exists(h, s)' /\ (Done(h, s) => Done(h, s)')) \/ ~Exists(h, s)'
    BY <1>4, WorkerShape DEF Done
  <2>2. CASE LocalStep(h, s)
    BY <1>1, <2>1, <2>2, StepsAhead
  <2>3. CASE RemoteStep(h, s) /\ ~LocalStep(h, s)
    BY <1>1, <2>1, <2>3, StepsAhead DEF LocalStep
  <2>4. QED
    BY <1>4, <2>2, <2>3 DEF WorkerStep
<1>5. QED
  BY <1>2, <1>3, <1>4

\* A goroutine whose context is done returns or hangs.
LEMMA LeavesOrHangs ==
    ASSUME NEW h \in Hosts, NEW s \in Slots
    PROVE  Spec /\ Runs(h, s) =>
               [](ctxDone \/ cancelled[h][s] => \/ <>~Exists(h, s)
                                                \/ <>[]AwaitsRemote(h, s))
<1>1. TypeOK /\ [Next]_vars => LeaveSteps(h, s)
  BY LeaveGoesOn
<1>2. TypeOK /\ (ctxDone \/ cancelled[h][s]) =>
          \/ Going(h, s, "top") \/ Going(h, s, "ping") \/ Going(h, s, "compare")
          \/ Going(h, s, "append") \/ Going(h, s, "sleep") \/ Hanging(h, s) \/ Left(h, s)
  BY DEF TypeOK, PC, Going, Hanging, Left, AwaitsRemote, Exists, Done
<1>3. /\ Going(h, s, "top") \/ Going(h, s, "ping") \/ Going(h, s, "compare")
             \/ Going(h, s, "append") \/ Going(h, s, "sleep") => CanStep(h, s)
      /\ Going(h, s, "sleep") => CanLeave(h, s)
      /\ Hanging(h, s) => AwaitsRemote(h, s)
  BY DEF Going, Hanging, CanStep, CanLeave, AwaitsRemote, Exists, Done
<1>4. QED
  BY <1>1, <1>2, <1>3, TypeCorrect, PTL DEF Spec, Runs, LeaveSteps, Left

\* A worker that is cancelled, by itself or with Run, returns, whatever else happens,
\* unless it hangs in an SSH exchange (monitor.go 63-68, 116-141).
THEOREM CancelledLeaves == FairSpec /\ []FairGuards => CancelledWorkerLeaves
<1>1. QED
  BY FairnessRuns, LeavesOrHangs DEF AllRun, CancelledWorkerLeaves

\* Once its context is done Run returns: no reload holds it up.
LEMMA RunReturns == Spec /\ RunRuns => [](ctxDone => <>(run = "returned"))
<1>1. TypeOK => run = "new" \/ run = "starting" \/ run = "waiting" \/ run = "returned"
  BY DEF TypeOK
<1>2. TypeOK /\ [Next]_vars =>
          /\ ctxDone => ctxDone'
          /\ run = "new" => \/ (run = "starting")'
                            \/ (run = "new")' /\ ~<<SetParent>>_vars
          /\ run = "starting" => \/ (run = "waiting")'
                                 \/ (run = "starting")' /\ ~<<RunReconcile>>_vars
          /\ run = "waiting" => \/ (run = "returned")'
                                \/ (run = "waiting")' /\ ~<<RunReturn>>_vars
  BY RunGoesOn
<1>3. QED
  BY <1>1, <1>2, TypeCorrect, PTL DEF Spec, RunRuns, CanSetParent, CanStart, CanReturn

\* What becomes of the workers that Run leaves behind.
WorkersDrain ==
    \A h \in Hosts, s \in Slots :
        [](ctxDone => <>[]~Exists(h, s) \/ <>[]AwaitsRemote(h, s))

\* Run does not wait for its workers, as its comment says, but after a shutdown they are
\* all gone for good, those too that a reload starts before Run has returned, unless they
\* hang in an SSH exchange (monitor.go 54-70).
THEOREM Drained == FairSpec /\ []FairGuards => WorkersDrain
<1>1. ASSUME NEW h \in Hosts, NEW s \in Slots
      PROVE  Spec /\ RunRuns /\ Runs(h, s) =>
                 [](ctxDone => <>[]~Exists(h, s) \/ <>[]AwaitsRemote(h, s))
  <2>1. TypeOK /\ [Next]_vars =>
            /\ ctxDone => ctxDone'
            /\ run = "returned" => (run = "returned")'
            /\ run = "returned" /\ ~Exists(h, s) => ~Exists(h, s)'
    <3>1. ASSUME UNCHANGED vars PROVE Exists(h, s)' = Exists(h, s)
      BY <3>1 DEF vars, Exists
    <3>2. QED
      BY <3>1, RunGoesOn, NoneStarts
  <2>2. QED
    BY <2>1, LeavesOrHangs, RunReturns, TypeCorrect, PTL DEF Spec
<1>2. QED
  BY <1>1, FairnessRuns DEF AllRun, WorkersDrain

\* The host is to be polled, and s is the goroutine that the map holds for it.
ToPoll(h) == h \in DOMAIN cfg /\ cfg[h].ping /\ ~ctxDone /\ run = "waiting"
Polls(h, s) == ToPoll(h) /\ workers[h] = s
At(h, s, l) == Polls(h, s) /\ pc[h][s] = l
Hung(h, s) == Polls(h, s) /\ AwaitsRemote(h, s)

\* The steps of that goroutine.
PollSteps(h, s) ==
    /\ At(h, s, "top") => At(h, s, "ping")' \/ (At(h, s, "top")' /\ ~<<LocalStep(h, s)>>_vars)
    /\ At(h, s, "ping") =>
           At(h, s, "compare")' \/ (At(h, s, "ping")' /\ ~<<LocalStep(h, s)>>_vars)
    /\ At(h, s, "compare") =>
           \/ At(h, s, "append")' \/ At(h, s, "sleep")' \/ Hung(h, s)' \/ At(h, s, "compare")'
    /\ At(h, s, "append") =>
           \/ At(h, s, "sleep")' \/ Hung(h, s)'
           \/ At(h, s, "append")' /\ ~<<LocalStep(h, s)>>_vars
    /\ At(h, s, "sleep") => At(h, s, "top")' \/ (At(h, s, "sleep")' /\ ~<<LocalStep(h, s)>>_vars)
    /\ Hung(h, s) => Hung(h, s)' \/ At(h, s, "sleep")'

\* As long as its host is to be polled a goroutine stays in the map, and takes these steps.
LEMMA PollGoesOn ==
    ASSUME TypeOK, ControlInv, NEW h \in Hosts, NEW s \in Slots, [Next]_vars,
           ToPoll(h), ToPoll(h)'
    PROVE  PollSteps(h, s)
<1> SUFFICES ASSUME Polls(h, s) PROVE PollSteps(h, s)
  BY DEF PollSteps, At, Hung
<1>1. /\ Exists(h, s) /\ ~Done(h, s) /\ h \in DOMAIN cfg /\ cfg[h].ping
      /\ pc[h][s] \in PC
  BY DEF Polls, ToPoll, ControlInv, EntryHasWorker, CancelledIffUnmapped, Done, TypeOK
<1>2. workers'[h] = s
  <2>1. ASSUME Reconcile, cfg' = cfg PROVE workers'[h] = s
    <3>1. h \notin Missing /\ h \notin Departed
      BY <1>1, SlotAssumption DEF Missing, Departed, Polls
    <3>2. QED
      BY <2>1, <3>1, ReconcileShape DEF Reconcile, Polls
  <2>2. CASE Reload \/ RunReconcile
    BY <2>1, <2>2 DEF Reload, RunReconcile
  <2>3. ASSUME UNCHANGED workers PROVE workers'[h] = s
    BY <2>3 DEF Polls
  <2>4. CASE \/ SetParent \/ CancelContext \/ RunReturn \/ UNCHANGED vars
             \/ \E next \in Configs : StoreConfig(next)
    BY <2>3, <2>4 DEF SetParent, CancelContext, RunReturn, StoreConfig, vars
  <2>5. CASE \E g \in Hosts, t \in Slots : WorkerStep(g, t)
    BY <2>3, <2>5, WorkerShape
  <2>6. QED
    BY <2>2, <2>4, <2>5 DEF Next
<1>3. Polls(h, s)'
  BY <1>2 DEF Polls
<1>4. CASE ~WorkerStep(h, s)
  <2>1. pc'[h][s] = pc[h][s] /\ ~LocalStep(h, s)
    BY <1>1, <1>4, OnlyOwnSteps DEF WorkerStep
  <2>2. QED
    BY ONLY <1>3, <2>1 DEF PollSteps, At, Hung, AwaitsRemote
<1>5. CASE LocalStep(h, s)
  <2>1. \/ pc[h][s] = "top" /\ pc'[h][s] = "ping"
        \/ pc[h][s] = "ping" /\ pc'[h][s] = "compare"
        \/ pc[h][s] = "compare" /\ pc'[h][s] \in {"append", "dial", "sleep"}
        \/ pc[h][s] = "append" /\ pc'[h][s] \in {"dial", "sleep"}
        \/ pc[h][s] = "sleep" /\ pc'[h][s] = "top"
    BY <1>1, <1>5, StepsAhead
  <2>2. QED
    BY ONLY <1>3, <2>1 DEF PollSteps, At, Hung, AwaitsRemote
<1>6. CASE RemoteStep(h, s)
  <2>1. pc[h][s] \in {"dial", "check"} /\ pc'[h][s] \in {"check", "sleep"}
    BY <1>6, StepsAhead
  <2>2. QED
    BY ONLY <1>3, <2>1 DEF PollSteps, At, Hung, AwaitsRemote
<1>7. QED
  BY <1>4, <1>5, <1>6 DEF WorkerStep

\* A host that stays configured, with ping enabled, gets a worker, and a worker that
\* the map holds for it polls it again and again, through any number of reloads,
\* unless it hangs in an SSH exchange (monitor.go 80-141).
WorkerPollsOn ==
    \A h \in Hosts :
        /\ []([]ToPoll(h) => <>(workers[h] \in Slots))
        /\ \A s \in Slots :
               [](workers[h] = s /\ []ToPoll(h) =>
                      []<>(pc[h][s] = "compare") \/ <>[]AwaitsRemote(h, s))

\* Once the reload is over the map has a worker for the host.
LEMMA GetsWorker ==
    ASSUME NEW h \in Hosts
    PROVE  Spec /\ ReloadRuns => []([]ToPoll(h) => <>(workers[h] \in Slots))
<1>1. TypeOK /\ ControlInv /\ ToPoll(h) => hup = "reloading" \/ workers[h] \in Slots
  BY DEF TypeOK, ControlInv, MapFollowsConfig, ToPoll
<1>2. <<Reload>>_vars => (hup = "idle")'
  BY DEF Reload
<1>3. ~(hup = "reloading" /\ hup = "idle")
  OBVIOUS
<1>4. QED
  BY <1>1, <1>2, <1>3, TypeCorrect, ControlCorrect, PTL DEF ReloadRuns, CanReload

\* That worker compares again and again, or hangs.
LEMMA WorkerGoesOn ==
    ASSUME NEW h \in Hosts, NEW s \in Slots
    PROVE  Spec /\ Runs(h, s) =>
               [](workers[h] = s /\ []ToPoll(h) =>
                      []<>(pc[h][s] = "compare") \/ <>[]AwaitsRemote(h, s))
<1>1. TypeOK /\ ControlInv /\ [Next]_vars /\ ToPoll(h) /\ ToPoll(h)' => PollSteps(h, s)
  BY PollGoesOn
<1>2. TypeOK /\ ControlInv /\ ToPoll(h) /\ workers[h] = s =>
          \/ At(h, s, "top") \/ At(h, s, "ping") \/ At(h, s, "compare")
          \/ At(h, s, "append") \/ At(h, s, "sleep") \/ Hung(h, s)
  BY DEF TypeOK, PC, ControlInv, EntryHasWorker, ToPoll, Polls, At, Hung, AwaitsRemote, Exists
<1>3. /\ At(h, s, "top") \/ At(h, s, "ping") \/ At(h, s, "append") \/ At(h, s, "sleep")
             => CanStep(h, s)
      /\ At(h, s, "compare") => pc[h][s] = "compare"
      /\ Hung(h, s) => AwaitsRemote(h, s)
  BY DEF At, Hung, CanStep, AwaitsRemote, Exists
<1>4. QED
  BY <1>1, <1>2, <1>3, TypeCorrect, ControlCorrect, PTL DEF Spec, Runs, PollSteps

\* Every host that stays to be polled is polled again and again, or its worker hangs
\* (monitor.go 80-141).
THEOREM PollsOn == FairSpec /\ []FairGuards => WorkerPollsOn
<1> SUFFICES ASSUME NEW h \in Hosts
             PROVE  /\ Spec /\ ReloadRuns => []([]ToPoll(h) => <>(workers[h] \in Slots))
                    /\ \A s \in Slots : Spec /\ Runs(h, s) =>
                           [](workers[h] = s /\ []ToPoll(h) =>
                                  []<>(pc[h][s] = "compare") \/ <>[]AwaitsRemote(h, s))
  BY FairnessRuns DEF AllRun, WorkerPollsOn
<1>1. QED
  BY GetsWorker, WorkerGoesOn

============================================================================
