-------------------------- MODULE LifecycleProofs --------------------------
(***************************************************************************)
(* Proofs about Lifecycle, for any servers, tools and keys.                *)
(***************************************************************************)
EXTENDS Lifecycle, TLAPS

(***************************************************************************)
(* Type correctness.                                                       *)
(***************************************************************************)

LEMMA TypeInit == Init => TypeOK
  BY DEF Init, TypeOK, PC, Files

\* Loading a file keeps the types: the process has no goroutine beside that one.
LEMMA TypeLoad ==
    ASSUME TypeOK, NEW p \in Procs, Start(p) \/ Crash(p) \/ Load(p)
    PROVE  TypeOK'
<1> USE DEF TypeOK, PC, Loading, Running, Goto, keys, Files
<1>1. CASE Start(p)
  BY <1>1 DEF Start
<1>2. ASSUME Vanish(p), replaced' = replaced,
             file' = file \/ file' = [file EXCEPT ![loading[p]] = Partial]
      PROVE  TypeOK'
  BY <1>2 DEF Vanish
<1>3. CASE Crash(p)
  BY <1>2, <1>3 DEF Crash
<1>4. ASSUME NEW k \in Keys, Take(p, k), pc[p] \in Loading, replaced' = replaced,
             file' = file \/ file' = [file EXCEPT ![loading[p]] = k]
      PROVE  TypeOK'
  <2>1. ~polling[p] /\ \A q \in Procs : q # p => pc'[q] = pc[q]
    BY <1>4 DEF Take, Procs
  <2>2. /\ file' \in [Files -> Keys \cup {Absent, Partial}]
        /\ pc' \in [Procs -> PC] /\ loading' \in [Procs -> Files]
        /\ used' \in [Files -> SUBSET Keys]
    BY <1>4 DEF Take
  <2>3. QED
    BY <1>4, <2>1, <2>2 DEF Take
<1>5. CASE FindNone(p)
  BY <1>5 DEF FindNone
<1>6. CASE FindCA(p)
  BY <1>6 DEF FindCA
<1>7. CASE Create(p)
  <2>1. CASE Vanish(p) /\ UNCHANGED <<file, replaced>>
    BY <1>2, <2>1
  <2>2. CASE /\ file' = [file EXCEPT ![loading[p]] = Partial]
             /\ replaced' = [replaced EXCEPT ![loading[p]] = @ \/ file[loading[p]] # Absent]
             /\ Goto(p, "fill")
             /\ UNCHANGED <<loading, used, path, done, polling, shared>>
    <3>1. replaced' \in [Files -> BOOLEAN]
      BY <2>2
    <3>2. /\ file' \in [Files -> Keys \cup {Absent, Partial}]
          /\ pc' \in [Procs -> PC] /\ ~polling[p]
          /\ \A q \in Procs : q # p => pc'[q] = pc[q]
      BY <1>7, <2>2 DEF Create
    <3>3. QED
      BY <2>2, <3>1, <3>2
  <2>3. QED
    BY <1>7, <2>1, <2>2 DEF Create
<1>8. CASE Fill(p)
  <2>1. CASE Vanish(p) /\ file' = [file EXCEPT ![loading[p]] = Partial]
    BY <1>2, <1>8, <2>1 DEF Fill
  <2>2. ASSUME NEW k \in Generated(loading[p]),
               file' = [file EXCEPT ![loading[p]] = k],
               \/ Goto(p, "read") /\ UNCHANGED <<loading, used, path, done, polling, shared>>
               \/ Take(p, k)
        PROVE  TypeOK'
    <3>1. k \in Keys
      BY <2>2 DEF Generated
    <3>2. CASE Take(p, k)
      BY <1>4, <1>8, <2>2, <3>1, <3>2 DEF Fill
    <3>3. CASE Goto(p, "read") /\ UNCHANGED <<loading, used, path, done, polling, shared>>
      BY <1>8, <2>2, <3>1, <3>3 DEF Fill
    <3>4. QED
      BY <2>2, <3>2, <3>3
  <2>3. QED
    BY <1>8, <2>1, <2>2 DEF Fill
<1>9. CASE Read(p)
  BY <1>2, <1>4, <1>9 DEF Read
<1>10. QED
  BY <1>1, <1>3, <1>5, <1>6, <1>7, <1>8, <1>9 DEF Load

\* What runServe does keeps them.
LEMMA TypeRun ==
    ASSUME TypeOK, NEW s \in Servers,
           Launch(s) \/ Signal(s) \/ Serve(s) \/ ServeFails(s) \/ StopPolling(s) \/ Exit(s)
    PROVE  TypeOK'
<1> USE DEF TypeOK, PC, Running, Goto, keys, Procs
<1>1. CASE Launch(s)
  BY <1>1 DEF Launch
<1>2. CASE Signal(s)
  BY <1>2 DEF Signal
<1>3. CASE Stat(s)
  BY <1>3 DEF Stat, LeaveTo
<1>4. CASE Remove(s)
  BY <1>4 DEF Remove, LeaveTo
<1>5. CASE Bind(s)
  BY <1>5 DEF Bind, LeaveTo
<1>6. CASE StopServing(s)
  BY <1>6 DEF StopServing
<1>7. CASE CleanUp(s)
  BY <1>7 DEF CleanUp, LeaveTo
<1>8. CASE StopPolling(s)
  BY <1>8 DEF StopPolling
<1>9. CASE Exit(s)
  BY <1>9 DEF Exit, Vanish, Files
<1>10. QED
  BY <1>1, <1>2, <1>3, <1>4, <1>5, <1>6, <1>7, <1>8, <1>9 DEF Serve, Shutdown, ServeFails

\* Every reachable state is well typed (main.go 85-194).
THEOREM TypeCorrect == Spec => []TypeOK
<1>1. TypeOK /\ [Next]_vars => TypeOK'
  <2> SUFFICES ASSUME TypeOK, [Next]_vars PROVE TypeOK'
    OBVIOUS
  <2>1. CASE UNCHANGED vars
    BY <2>1 DEF vars, keys, TypeOK
  <2>2. CASE Next
    BY <2>2, TypeLoad, TypeRun DEF Next
  <2>3. QED
    BY <2>1, <2>2
<1>2. QED
  BY TypeInit, <1>1, PTL DEF Spec

(***************************************************************************)
(* The keys.                                                               *)
(***************************************************************************)

\* A step that leaves the files alone, and after which its process writes none, keeps
\* the invariant of the keys.
LEMMA KeysBeside ==
    ASSUME TypeOK, KeysInv, NEW p \in Procs, UNCHANGED <<file, used, replaced>>,
           pc'[p] # "fill",
           \A q \in Procs : q # p => pc'[q] = pc[q] /\ loading'[q] = loading[q]
    PROVE  KeysInv'
<1> SUFFICES ASSUME NEW f \in Files, ~replaced[f]
             PROVE  /\ used[f] \subseteq {file[f]}
                    /\ \A q \in Filling(f)' : file[f] = Partial /\ Filling(f)' = {q}
  BY DEF KeysInv
<1>1. Filling(f)' \subseteq Filling(f)
  BY DEF Filling
<1>2. QED
  BY <1>1 DEF KeysInv

\* Loading a key file keeps it.
LEMMA KeysLoad ==
    ASSUME TypeOK, KeysInv, NEW p \in Procs, Start(p) \/ Crash(p) \/ Load(p)
    PROVE  KeysInv'
<1>1. ASSUME Vanish(p) \/ Start(p) \/ FindNone(p) \/ FindCA(p), UNCHANGED <<file, replaced>>
      PROVE  KeysInv'
  <2>1. /\ UNCHANGED used /\ pc'[p] # "fill"
        /\ \A q \in Procs : q # p => pc'[q] = pc[q] /\ loading'[q] = loading[q]
    BY <1>1 DEF Vanish, Start, FindNone, FindCA, Goto, TypeOK, keys
  <2>2. QED
    BY <1>1, <2>1, KeysBeside
<1>2. ASSUME Create(p), Goto(p, "fill")
      PROVE  KeysInv'
  <2>1. /\ file' = [file EXCEPT ![loading[p]] = Partial]
        /\ replaced' = [replaced EXCEPT ![loading[p]] = @ \/ file[loading[p]] # Absent]
        /\ UNCHANGED <<loading, used>>
    BY <1>2 DEF Create, Vanish, Goto, TypeOK
  <2> SUFFICES ASSUME NEW f \in Files, ~replaced'[f]
               PROVE  /\ used'[f] \subseteq {file'[f]}
                      /\ \A q \in Filling(f)' : file'[f] = Partial /\ Filling(f)' = {q}
    BY DEF KeysInv
  <2>2. CASE f = loading[p]
    <3>1. file[f] = Absent /\ ~replaced[f] /\ file'[f] = Partial
      BY <2>1, <2>2 DEF TypeOK
    <3>2. used[f] = {} /\ Filling(f) = {}
      BY <3>1, KeysAssumption DEF KeysInv, TypeOK
    <3>3. Filling(f)' \subseteq {p}
      BY <1>2, <2>1, <3>2 DEF Filling, Goto, TypeOK
    <3>4. QED
      BY <2>1, <3>1, <3>2, <3>3
  <2>3. CASE f # loading[p]
    <3>1. file'[f] = file[f] /\ used'[f] = used[f] /\ ~replaced[f]
      BY <2>1, <2>3 DEF TypeOK
    <3>2. Filling(f)' \subseteq Filling(f)
      BY <1>2, <2>1, <2>3 DEF Filling, Goto, TypeOK
    <3>3. QED
      BY <3>1, <3>2 DEF KeysInv
  <2>4. QED
    BY <2>2, <2>3
<1>3. CASE Fill(p)
  <2>1. /\ pc[p] = "fill" /\ pc'[p] # "fill" /\ UNCHANGED replaced
        /\ \A q \in Procs : q # p => pc'[q] = pc[q] /\ loading'[q] = loading[q]
    BY <1>3 DEF Fill, Take, Vanish, Goto, TypeOK
  <2>2. PICK k \in Keys \cup {Partial} :
          /\ file' = [file EXCEPT ![loading[p]] = k]
          /\ \/ UNCHANGED used
             \/ used' = [used EXCEPT ![loading[p]] = @ \cup {k}]
    BY <1>3 DEF Fill, Take, Vanish, Goto, Generated
  <2> SUFFICES ASSUME NEW f \in Files, ~replaced[f]
               PROVE  /\ used'[f] \subseteq {file'[f]}
                      /\ \A q \in Filling(f)' : file'[f] = Partial /\ Filling(f)' = {q}
    BY <2>1 DEF KeysInv
  <2>3. Filling(f)' \subseteq Filling(f) \ {p}
    BY <2>1 DEF Filling
  <2>4. CASE f = loading[p]
    <3>1. file[f] = Partial /\ Filling(f) = {p}
      BY <2>1, <2>4 DEF KeysInv, Filling
    <3>2. used[f] = {}
      BY <3>1, KeysAssumption DEF KeysInv, TypeOK
    <3>3. file'[f] = k /\ used'[f] \subseteq {k}
      BY <2>2, <2>4, <3>2 DEF TypeOK
    <3>4. QED
      BY <2>3, <3>1, <3>3
  <2>5. CASE f # loading[p]
    <3>1. file'[f] = file[f] /\ used'[f] = used[f]
      BY <2>2, <2>5 DEF TypeOK
    <3>2. QED
      BY <2>3, <3>1 DEF KeysInv
  <2>6. QED
    BY <2>4, <2>5
<1>4. ASSUME Take(p, file[loading[p]]), UNCHANGED <<file, replaced>>
      PROVE  KeysInv'
  <2>1. /\ used' = [used EXCEPT ![loading[p]] = @ \cup {file[loading[p]]}]
        /\ pc'[p] # "fill"
        /\ \A q \in Procs : q # p => pc'[q] = pc[q] /\ loading'[q] = loading[q]
    BY <1>4 DEF Take, Goto, TypeOK
  <2> SUFFICES ASSUME NEW f \in Files, ~replaced[f]
               PROVE  /\ used'[f] \subseteq {file[f]}
                      /\ \A q \in Filling(f)' : file[f] = Partial /\ Filling(f)' = {q}
    BY <1>4 DEF KeysInv
  <2>2. used'[f] \subseteq {file[f]}
    BY <2>1 DEF KeysInv, TypeOK
  <2>3. Filling(f)' \subseteq Filling(f)
    BY <2>1 DEF Filling
  <2>4. QED
    BY <2>2, <2>3 DEF KeysInv
<1>5. QED
  BY <1>1, <1>2, <1>3, <1>4 DEF Crash, Load, Create, Read, Start, FindNone, FindCA, keys

\* What runServe does keeps it.
LEMMA KeysRun ==
    ASSUME TypeOK, KeysInv, NEW s \in Servers,
           Launch(s) \/ Signal(s) \/ Serve(s) \/ ServeFails(s) \/ StopPolling(s) \/ Exit(s)
    PROVE  KeysInv'
<1>1. s \in Procs
  BY DEF Procs
<1>2. /\ UNCHANGED <<file, used, replaced>>
      /\ \A q \in Procs : q # s => pc'[q] = pc[q] /\ loading'[q] = loading[q]
  BY DEF Launch, Signal, Serve, Stat, Remove, Bind, Shutdown, ServeFails, StopServing,
         CleanUp, StopPolling, Exit, Vanish, LeaveTo, Goto, keys, TypeOK
<1>3. CASE pc'[s] # "fill"
  BY <1>1, <1>2, <1>3, KeysBeside
<1>4. CASE pc'[s] = "fill"
  <2>1. UNCHANGED <<pc, keys>>
    BY <1>1, <1>4 DEF Launch, Signal, Serve, Stat, Remove, Bind, Shutdown, ServeFails,
         StopServing, CleanUp, StopPolling, Exit, Vanish, LeaveTo, Goto, keys, TypeOK
  <2>2. QED
    BY <2>1 DEF KeysInv, Filling, keys
<1>5. QED
  BY <1>3, <1>4

\* Every reachable state keeps the inductive invariant of the keys (sshca.go 43-61,
\* auth.go 181-202).
THEOREM KeysCorrect == Spec => []KeysInv
<1>1. Init => KeysInv
  BY DEF Init, KeysInv, Filling
<1>2. TypeOK /\ KeysInv /\ [Next]_vars => KeysInv'
  <2> SUFFICES ASSUME TypeOK, KeysInv, [Next]_vars PROVE KeysInv'
    OBVIOUS
  <2>1. CASE UNCHANGED vars
    BY <2>1 DEF vars, keys, KeysInv, Filling
  <2>2. CASE Next
    BY <2>2, KeysLoad, KeysRun DEF Next
  <2>3. QED
    BY <2>1, <2>2
<1>3. QED
  BY TypeCorrect, <1>1, <1>2, PTL DEF Spec

\* No crash, failed write or restart loses a key that was worked with, whatever
\* processes load the files at once, unless one is generated over (sshca.go 43-61,
\* auth.go 181-202).
THEOREM KeysKept == Spec => []KeysSurvive
<1>1. KeysInv => KeysSurvive
  BY DEF KeysInv, KeysSurvive
<1>2. QED
  BY KeysCorrect, <1>1, PTL

(***************************************************************************)
(* The socket.                                                             *)
(***************************************************************************)

\* Loading a key file, starting and crashing keep the invariant of the socket.
LEMMA SocketLoad ==
    ASSUME TypeOK, SocketInv, NEW p \in Procs, Start(p) \/ Crash(p) \/ Load(p)
    PROVE  SocketInv'
<1>1. ASSUME NEW q \in Procs, q # p
      PROVE  pc'[q] = pc[q]
  BY <1>1 DEF Start, Crash, Load, FindNone, FindCA, Create, Fill, Read, Take, Vanish, Goto, TypeOK
<1>2. UNCHANGED path /\ pc'[p] \in {"down", "look", "create", "fill", "read", "ready"}
  BY DEF Start, Crash, Load, FindNone, FindCA, Create, Fill, Read, Take, Vanish, Goto, TypeOK, keys
<1>3. CASE Start(p)
  <2>1. shared' = [s \in Servers |->
                       IF s = p THEN \E q \in Servers : q # p /\ pc[q] # "down"
                       ELSE shared[s] \/ p \in Servers]
    BY <1>3 DEF Start
  <2>2. ASSUME NEW s \in Servers, NEW q \in Servers, ~shared'[s], pc'[s] # "down", q # s
        PROVE  pc'[q] = "down"
    BY <1>1, <2>1, <2>2 DEF SocketInv, Procs
  <2>3. QED
    BY <1>1, <1>2, <2>1, <2>2 DEF SocketInv, LoneServerIsReachable, Procs
<1>4. CASE UNCHANGED shared /\ (pc[p] # "down" \/ pc'[p] = "down")
  BY <1>1, <1>2, <1>4 DEF SocketInv, LoneServerIsReachable, Procs
<1>5. Crash(p) \/ Load(p) => UNCHANGED shared /\ (pc[p] # "down" \/ pc'[p] = "down")
  BY DEF Crash, Load, FindNone, FindCA, Create, Fill, Read, Take, Vanish, Goto, TypeOK
<1>6. QED
  BY <1>3, <1>4, <1>5

\* What runServe does keeps it.
LEMMA SocketRun ==
    ASSUME TypeOK, SocketInv, NEW s \in Servers,
           Launch(s) \/ Signal(s) \/ Serve(s) \/ ServeFails(s) \/ StopPolling(s) \/ Exit(s)
    PROVE  SocketInv'
<1>1. /\ UNCHANGED shared /\ s \in Procs
      /\ \A q \in Servers : q # s => pc'[q] = pc[q]
  BY DEF Launch, Signal, Serve, Stat, Remove, Bind, Shutdown, ServeFails, StopServing,
         CleanUp, StopPolling, Exit, Vanish, LeaveTo, Goto, TypeOK, Procs
<1>2. pc[s] # "down" \/ pc' = pc
  BY DEF Launch, Signal, Serve, Stat, Remove, Bind, Shutdown, ServeFails, StopServing,
         CleanUp, StopPolling, Exit, Vanish, LeaveTo, Goto, TypeOK
<1>3. \A t, q \in Servers : ~shared'[t] /\ pc'[t] # "down" /\ q # t => pc'[q] = "down"
  BY <1>1, <1>2 DEF SocketInv
<1>4. ASSUME NEW t \in Servers, ~shared[t], pc[t] # "down", t # s
      PROVE  pc[s] = "down" /\ UNCHANGED <<path, pc>>
  <2>1. pc[s] = "down"
    BY <1>4 DEF SocketInv
  <2>2. QED
    BY <2>1, <1>2 DEF Launch, Signal, Serve, Stat, Remove, Bind, Shutdown, ServeFails,
         StopServing, CleanUp, StopPolling, Exit, Vanish, Running
<1>5. /\ path' = "file" => path = "file"
      /\ path' = "file" => pc'[s] \notin {"remove", "bind", "serve", "close"}
      /\ ~shared[s] => /\ pc'[s] = "serve" => path' = s
                       /\ pc'[s] = "bind" => path' = "absent"
                       /\ pc'[s] = "remove" => path' # "absent"
  <2> USE <1>1, PathAssumption DEF SocketInv, LoneServerIsReachable, TypeOK, Goto
  <2>1. CASE Launch(s)
    BY <2>1 DEF Launch
  <2>2. CASE Signal(s)
    BY <2>2 DEF Signal
  <2>3. CASE Stat(s)
    BY <2>3 DEF Stat, LeaveTo
  <2>4. CASE Remove(s)
    BY <2>4 DEF Remove, LeaveTo
  <2>5. CASE Bind(s)
    BY <2>5 DEF Bind, LeaveTo
  <2>6. CASE StopServing(s)
    BY <2>6 DEF StopServing
  <2>7. CASE CleanUp(s)
    BY <2>7 DEF CleanUp, LeaveTo
  <2>8. CASE StopPolling(s)
    BY <2>8 DEF StopPolling
  <2>9. CASE Exit(s)
    BY <2>9 DEF Exit, Vanish
  <2>10. QED
    BY <2>1, <2>2, <2>3, <2>4, <2>5, <2>6, <2>7, <2>8, <2>9 DEF Serve, Shutdown, ServeFails
<1>6. QED
  BY <1>1, <1>3, <1>4, <1>5 DEF SocketInv, LoneServerIsReachable

\* Every reachable state keeps the inductive invariant of the socket (server.go
\* 123-190).
THEOREM SocketCorrect == Spec => []SocketInv
<1>1. Init => SocketInv
  BY DEF Init, SocketInv, LoneServerIsReachable, Procs
<1>2. TypeOK /\ SocketInv /\ [Next]_vars => SocketInv'
  <2> SUFFICES ASSUME TypeOK, SocketInv, [Next]_vars PROVE SocketInv'
    OBVIOUS
  <2>1. CASE UNCHANGED vars
    BY <2>1 DEF vars, keys, SocketInv, LoneServerIsReachable
  <2>2. CASE Next
    BY <2>2, SocketLoad, SocketRun DEF Next
  <2>3. QED
    BY <2>1, <2>2
<1>3. QED
  BY TypeCorrect, <1>1, <1>2, PTL DEF Spec

\* A server that no other server meets has its socket at the path while it serves,
\* after any crashes and restarts (server.go 123-190).
THEOREM LoneServerReachable == Spec => []LoneServerIsReachable
<1>1. SocketInv => LoneServerIsReachable
  BY DEF SocketInv
<1>2. QED
  BY SocketCorrect, <1>1, PTL

\* No process, and no two processes together, remove a file at the path that is not a
\* socket (server.go 160-169).
THEOREM FileKept == Spec => RealFileKept
<1>1. TypeOK /\ SocketInv /\ [Next]_vars => (path = "file" => path' = "file")
  <2> SUFFICES ASSUME TypeOK, SocketInv, [Next]_vars, path = "file"
               PROVE  path' = "file"
    OBVIOUS
  <2>1. CASE UNCHANGED vars
    BY <2>1 DEF vars
  <2>2. ASSUME NEW p \in Procs, Start(p) \/ Crash(p) \/ Load(p)
        PROVE  path' = "file"
    BY <2>2 DEF Start, Crash, Load, FindNone, FindCA, Create, Fill, Read, Take, Vanish
  <2>3. ASSUME NEW s \in Servers,
               \/ Launch(s) \/ Signal(s) \/ Serve(s) \/ ServeFails(s)
               \/ StopPolling(s) \/ Exit(s)
        PROVE  path' = "file"
    BY <2>3 DEF SocketInv, Launch, Signal, Serve, Stat, Remove, Bind, Shutdown, ServeFails,
         StopServing, CleanUp, StopPolling, Exit, Vanish
  <2>4. QED
    BY <2>1, <2>2, <2>3 DEF Next
<1>2. QED
  BY TypeCorrect, SocketCorrect, <1>1, PTL DEF Spec, RealFileKept

(***************************************************************************)
(* What must eventually happen.  The prover knows nothing of ENABLED, so   *)
(* the fairness of Lifecycle is stated with its enabling conditions        *)
(* written out.                                                            *)
(***************************************************************************)

\* The goroutine of the server has a step to take; serving, once the context is done.
CanServe(p) == pc[p] \in {"listen", "remove", "bind", "close"} \/ (pc[p] = "serve" /\ done[p])
CanStop(p) == polling[p] /\ done[p]
CanExit(p) == pc[p] = "left" /\ ~polling[p]

\* These conditions are strong enough.
FairGuards ==
    \A s \in Servers : /\ CanServe(s) => ENABLED <<Serve(s)>>_vars
                       /\ CanStop(s) => ENABLED <<StopPolling(s)>>_vars
                       /\ CanExit(s) => ENABLED <<Exit(s)>>_vars

\* WF_vars(Serve(p)), WF_vars(StopPolling(p)) and WF_vars(Exit(p)), with them.
Runs(p) == /\ []<>~CanServe(p) \/ []<><<Serve(p)>>_vars
           /\ []<>~CanStop(p) \/ []<><<StopPolling(p)>>_vars
           /\ []<>~CanExit(p) \/ []<><<Exit(p)>>_vars
AllRun == \A s \in Servers : Runs(s)

\* The fairness of the code gives that much, as long as these conditions are strong
\* enough.
Fair(s) == /\ WF_vars(Serve(s)) /\ WF_vars(StopPolling(s))
           /\ WF_vars(Exit(s))

LEMMA FairnessRuns == FairSpec /\ []FairGuards => Spec /\ AllRun
<1>1. ASSUME NEW s \in Servers
      PROVE  Fair(s) /\ []FairGuards => Runs(s)
  <2>1. FairGuards =>
            /\ CanServe(s) => ENABLED <<Serve(s)>>_vars
            /\ CanStop(s) => ENABLED <<StopPolling(s)>>_vars
            /\ CanExit(s) => ENABLED <<Exit(s)>>_vars
    BY DEF FairGuards
  <2>2. QED
    BY <2>1, PTL DEF Fair, Runs
<1>2. Fairness => \A s \in Servers : Fair(s)
  BY PTL DEF Fairness, Fair
<1>3. Fairness /\ []FairGuards => AllRun
  BY <1>1, <1>2 DEF AllRun
<1>4. QED
  BY <1>3 DEF FairSpec

\* Only a server that is past its start is told to end, and it is when it has left.
EndInv ==
    \A s \in Servers : /\ done[s] => pc[s] \in Running \ {"ready"}
                       /\ pc[s] = "left" => done[s]

LEMMA EndHolds == Spec => []EndInv
<1>1. Init => EndInv
  BY DEF Init, EndInv, Procs
<1>2. TypeOK /\ EndInv /\ [Next]_vars => EndInv'
  <2> SUFFICES ASSUME TypeOK, EndInv, [Next]_vars, NEW s \in Servers
               PROVE  (done[s] => pc[s] \in Running \ {"ready"})' /\ (pc[s] = "left" => done[s])'
    BY DEF EndInv
  <2>1. /\ s \in Procs
        /\ pc \in [Procs -> PC] /\ done \in [Procs -> BOOLEAN]
        /\ done[s] => pc[s] \in Running \ {"ready"}
        /\ pc[s] = "left" => done[s]
    BY DEF TypeOK, EndInv, Procs
  <2>2. ASSUME NEW p \in Procs, Start(p) \/ Crash(p) \/ Load(p)
        PROVE  (done[s] => pc[s] \in Running \ {"ready"})' /\ (pc[s] = "left" => done[s])'
    BY <2>1, <2>2 DEF Start, Crash, Load, FindNone, FindCA, Create, Fill, Read, Take, Vanish,
       Goto, Running, Loading
  <2>3. ASSUME NEW p \in Servers, Launch(p) \/ Signal(p) \/ StopPolling(p) \/ Exit(p)
        PROVE  (done[s] => pc[s] \in Running \ {"ready"})' /\ (pc[s] = "left" => done[s])'
    BY <2>1, <2>3 DEF Launch, Signal, StopPolling, Exit, Vanish, Goto, Running, Procs
  <2>4. ASSUME NEW p \in Servers, Serve(p) \/ ServeFails(p)
        PROVE  (done[s] => pc[s] \in Running \ {"ready"})' /\ (pc[s] = "left" => done[s])'
    BY <2>1, <2>4 DEF Serve, ServeFails, Stat, Remove, Bind, Shutdown, StopServing, CleanUp,
       LeaveTo, Goto, Running, Procs
  <2>5. CASE UNCHANGED vars
    BY <2>1, <2>5 DEF vars
  <2>6. QED
    BY <2>2, <2>3, <2>4, <2>5 DEF Next
<1>3. QED
  BY <1>1, <1>2, TypeCorrect, PTL DEF Spec

\* Where the steps of a server that is to end may lead.
Ending(s, l) == done[s] /\ pc[s] = l
Closing(s) == pc[s] = "close"
Down(s) == pc[s] = "down"
Left(s, b) == done[s] /\ pc[s] = "left" /\ polling[s] = b

EndSteps(s) ==
    /\ Ending(s, "listen") =>
           \/ Ending(s, "remove")' \/ Ending(s, "bind")' \/ Ending(s, "left")' \/ Down(s)'
           \/ Ending(s, "listen")' /\ ~<<Serve(s)>>_vars
    /\ Ending(s, "remove") =>
           \/ Ending(s, "bind")' \/ Ending(s, "left")' \/ Down(s)'
           \/ Ending(s, "remove")' /\ ~<<Serve(s)>>_vars
    /\ Ending(s, "bind") =>
           \/ Ending(s, "serve")' \/ Ending(s, "left")' \/ Down(s)'
           \/ Ending(s, "bind")' /\ ~<<Serve(s)>>_vars
    /\ Ending(s, "serve") => Closing(s)' \/ Down(s)' \/ (Ending(s, "serve")' /\ ~<<Serve(s)>>_vars)
    /\ Closing(s) => Ending(s, "left")' \/ Down(s)' \/ (Closing(s)' /\ ~<<Serve(s)>>_vars)
    /\ Left(s, TRUE) => Left(s, FALSE)' \/ Down(s)' \/ (Left(s, TRUE)' /\ ~<<StopPolling(s)>>_vars)
    /\ Left(s, FALSE) => Down(s)' \/ (Left(s, FALSE)' /\ ~<<Exit(s)>>_vars)

\* A server that is to end takes these steps, or waits for one of its goroutines.
LEMMA EndGoesOn ==
    ASSUME TypeOK, NEW s \in Servers, [Next]_vars
    PROVE  EndSteps(s)
<1> USE DEF EndSteps, Ending, Left, Closing, Down
<1>1. /\ pc \in [Procs -> PC] /\ done \in [Procs -> BOOLEAN] /\ polling \in [Procs -> BOOLEAN]
      /\ s \in Procs /\ s \notin Tools
  BY ProcsAssumption DEF TypeOK, Procs
<1>2. ASSUME UNCHANGED <<pc[s], done[s], polling[s]>>,
             ~Serve(s) /\ ~StopPolling(s) /\ ~Exit(s)
      PROVE  EndSteps(s)
  BY <1>2
<1>3. /\ Serve(s) => pc'[s] # pc[s]
      /\ StopPolling(s) => polling'[s] # polling[s]
      /\ Exit(s) => pc'[s] # pc[s]
  BY <1>1 DEF Serve, Stat, Remove, Bind, Shutdown, StopServing, CleanUp, LeaveTo, Goto,
     StopPolling, Exit, Vanish
<1>4. ASSUME NEW p \in Procs, p # s, Start(p) \/ Crash(p) \/ Load(p)
      PROVE  UNCHANGED <<pc[s], done[s], polling[s]>>
  BY <1>1, <1>4 DEF Start, Crash, Load, FindNone, FindCA, Create, Fill, Read, Take, Vanish, Goto
<1>5. ASSUME NEW p \in Servers, p # s,
             Launch(p) \/ Signal(p) \/ Serve(p) \/ ServeFails(p) \/ StopPolling(p) \/ Exit(p)
      PROVE  UNCHANGED <<pc[s], done[s], polling[s]>>
  BY <1>1, <1>5 DEF Launch, Signal, Serve, ServeFails, Stat, Remove, Bind, Shutdown,
     StopServing, CleanUp, LeaveTo, Goto, StopPolling, Exit, Vanish, Procs
<1>6. CASE UNCHANGED vars
  <2>1. UNCHANGED <<pc[s], done[s], polling[s]>>
    BY <1>6 DEF vars
  <2>2. QED
    BY ONLY <2>1, <1>2, <1>3
<1>7. CASE Start(s) \/ Load(s) \/ Launch(s)
  BY <1>1, <1>7 DEF Start, Load, FindNone, FindCA, Create, Fill, Read, Launch
<1>8. CASE Crash(s)
  BY <1>1, <1>8 DEF Crash, Vanish, Goto
<1>9. CASE Signal(s) /\ ~Serve(s) /\ ~StopPolling(s) /\ ~Exit(s)
  BY <1>1, <1>9 DEF Signal
<1>10. CASE ServeFails(s)
  BY <1>1, <1>10 DEF ServeFails, StopServing, Goto
<1>11. CASE Serve(s)
  BY <1>1, <1>11 DEF Serve, Stat, Remove, Bind, Shutdown, StopServing, CleanUp, LeaveTo, Goto
<1>12. CASE StopPolling(s)
  BY <1>1, <1>3, <1>12 DEF StopPolling
<1>13. CASE Exit(s)
  BY <1>1, <1>13 DEF Exit, Vanish, Goto
<1>14. QED
  BY <1>2, <1>3, <1>4, <1>5, <1>6, <1>7, <1>8, <1>9, <1>10, <1>11, <1>12, <1>13 DEF Next

\* When the context is cancelled, or the server fails, the whole process ends
\* (main.go 180-194).
THEOREM EndsAsOne == FairSpec /\ []FairGuards => EndsTogether
<1> SUFFICES ASSUME NEW s \in Servers
             PROVE  Spec /\ Runs(s) =>
                        (done[s] \/ pc[s] \in {"close", "left"} ~> pc[s] = "down")
  BY FairnessRuns DEF AllRun, EndsTogether
<1>1. TypeOK /\ [Next]_vars => EndSteps(s)
  BY EndGoesOn
<1>2. TypeOK /\ EndInv =>
          /\ done[s] \/ pc[s] \in {"close", "left"} =>
                 \/ Ending(s, "listen") \/ Ending(s, "remove") \/ Ending(s, "bind")
                 \/ Ending(s, "serve") \/ Closing(s) \/ Ending(s, "left")
          /\ Ending(s, "left") => Left(s, TRUE) \/ Left(s, FALSE)
  BY DEF TypeOK, EndInv, Ending, Closing, Left, Running, Procs
<1>3. /\ Ending(s, "listen") \/ Ending(s, "remove") \/ Ending(s, "bind")
             \/ Ending(s, "serve") \/ Closing(s) => CanServe(s)
      /\ Left(s, TRUE) => CanStop(s)
      /\ Left(s, FALSE) => CanExit(s)
  BY DEF Ending, Closing, Left, CanServe, CanStop, CanExit
<1>4. QED
  BY <1>1, <1>2, <1>3, TypeCorrect, EndHolds, PTL DEF Spec, Runs, EndSteps, Down

============================================================================
