----------------------------- MODULE Lifecycle -----------------------------
(***************************************************************************)
(* The life of a braingler process, from its start to its exit or crash,   *)
(* and what it leaves in the file system: runServe and the commands that   *)
(* load the certificate authority (main.go), the key files                 *)
(* (internal/sshca/sshca.go, internal/auth/auth.go) and the socket         *)
(* (internal/server/server.go).  Several processes may run at once.        *)
(*                                                                         *)
(* Abstracted: ssh_ca and auth are enabled and a socket is configured; the *)
(* key file of the host CA, loaded like that of the user CA; a file is     *)
(* truncated, then written whole; the monitor is whether Run has returned. *)
(* Nobody else touches the files.                                          *)
(***************************************************************************)
EXTENDS Naturals, FiniteSets

CONSTANTS
    Servers,    \* processes that run "braingler serve", again and again
    Tools,      \* processes that run ca-info, sign-host-key or sign-user-key
    Keys,       \* bound: the keys that rand may come up with
    Absent, Partial

Procs == Servers \cup Tools
Files == {"ca", "cookie"}

ASSUME ProcsAssumption == Servers \cap Tools = {}
ASSUME KeysAssumption == {Absent, Partial} \cap Keys = {} /\ Absent # Partial
ASSUME PathAssumption == {"absent", "file"} \cap Servers = {}

VARIABLES
    file,       \* what each key file holds: a key, or it is Absent or Partial
    path,       \* what is at listen.socket: the socket of a server, live or stale, or "file"
    pc,         \* where each process stands; "down": it does not run
    loading,    \* the key file that it loads
    done,       \* its context is cancelled
    polling,    \* Monitor.Run has not returned
    used,       \* history: every key that a process has loaded from each file
    replaced,   \* history: a file was generated that existed by then
    shared      \* history: another server has run during the life of this one

keys == <<file, loading, used, replaced>>
vars == <<keys, path, pc, done, polling, shared>>

Loading == {"look", "create", "fill", "read"}
Running == {"ready", "listen", "remove", "bind", "serve", "close", "left"}
PC == {"down"} \cup Loading \cup Running

TypeOK ==
    /\ file \in [Files -> Keys \cup {Absent, Partial}]
    /\ path \in Servers \cup {"absent", "file"}
    /\ pc \in [Procs -> PC]
    /\ loading \in [Procs -> Files]
    /\ done \in [Procs -> BOOLEAN]
    /\ polling \in [Procs -> BOOLEAN]
    /\ used \in [Files -> SUBSET Keys]
    /\ replaced \in [Files -> BOOLEAN]
    /\ shared \in [Servers -> BOOLEAN]
    \* One goroutine of a server may still run; a tool has none.
    /\ \A p \in Procs : polling[p] => p \in Servers /\ pc[p] \in Running

\* The operator may have placed the key files, and a file where the socket is to be.
Init ==
    /\ file \in [Files -> {Absent} \cup Keys]
    /\ path \in {"absent", "file"}
    /\ pc = [p \in Procs |-> "down"]
    /\ loading = [p \in Procs |-> "ca"]
    /\ done = [p \in Procs |-> FALSE]
    /\ polling = [p \in Procs |-> FALSE]
    /\ used = [f \in Files |-> {}]
    /\ replaced = [f \in Files |-> FALSE]
    /\ shared = [s \in Servers |-> FALSE]

----------------------------------------------------------------------------
Goto(p, l) == pc' = [pc EXCEPT ![p] = l]

Start(p) ==
    /\ pc[p] = "down"
    /\ Goto(p, "look")
    /\ shared' = [s \in Servers |->
                     IF s = p THEN \E q \in Servers : q # p /\ pc[q] # "down"
                     ELSE shared[s] \/ p \in Servers]
    /\ UNCHANGED <<keys, path, done, polling>>

\* The process is gone, and with it all that it does not leave in the file system.
Vanish(p) ==
    /\ Goto(p, "down")
    /\ loading' = [loading EXCEPT ![p] = "ca"]
    /\ done' = [done EXCEPT ![p] = FALSE]
    /\ polling' = [polling EXCEPT ![p] = FALSE]
    /\ UNCHANGED <<used, path, shared>>

\* A crash, or a signal before runServe listens for any.
Crash(p) ==
    /\ pc[p] # "down"
    /\ Vanish(p)
    /\ UNCHANGED <<file, replaced>>

----------------------------------------------------------------------------
(* Loading a key file: sshca.Load, then auth.New for a server.             *)

\* The key is loaded: the next file, or what the process is there for.
Take(p, k) ==
    LET f == loading[p]
    IN  /\ used' = [used EXCEPT ![f] = @ \cup {k}]
        /\ \/ /\ p \in Tools
              /\ Goto(p, "down")
              /\ UNCHANGED loading
           \/ /\ p \in Servers /\ f = "ca"
              /\ Goto(p, "look")
              /\ loading' = [loading EXCEPT ![p] = "cookie"]
           \/ /\ p \in Servers /\ f = "cookie"
              /\ Goto(p, "ready")
              /\ UNCHANGED loading
        /\ UNCHANGED <<path, done, polling, shared>>

\* os.Stat finds no CA, or the cookie key cannot be read, for whatever reason.
FindNone(p) ==
    /\ pc[p] = "look"
    /\ file[loading[p]] = Absent \/ loading[p] = "cookie"
    /\ Goto(p, "create")
    /\ UNCHANGED <<keys, path, done, polling, shared>>

\* os.Stat finds the CA's file, which is read next.
FindCA(p) ==
    /\ pc[p] = "look"
    /\ loading[p] = "ca"
    /\ file["ca"] # Absent
    /\ Goto(p, "read")
    /\ UNCHANGED <<keys, path, done, polling, shared>>

\* Mutant: the error of rand.Read is not looked at, and the key is empty.
GeneratedEmpty(f) == {Partial}

\* A key that was never seen.
Generated(f) == Keys \ (used[f] \cup {file[f]})

\* os.WriteFile, first half: the file is created, or truncated, or cannot be opened.
Create(p) ==
    LET f == loading[p]
    IN  /\ pc[p] = "create"
        /\ \/ /\ file' = [file EXCEPT ![f] = Partial]
              /\ replaced' = [replaced EXCEPT ![f] = @ \/ file[f] # Absent]
              /\ Goto(p, "fill")
              /\ UNCHANGED <<loading, used, path, done, polling, shared>>
           \/ /\ Vanish(p)
              /\ UNCHANGED <<file, replaced>>

\* Mutant: the error of os.WriteFile is not looked at.
FillRegardless(p) ==
    LET f == loading[p]
    IN  /\ pc[p] = "fill"
        /\ \E k \in Generated(f) :
               \/ /\ file' = [file EXCEPT ![f] = k]
                  /\ \/ /\ f = "ca"
                        /\ Goto(p, "read")
                        /\ UNCHANGED <<loading, used, path, done, polling, shared>>
                     \/ /\ f = "cookie"
                        /\ Take(p, k)
               \/ /\ file' = [file EXCEPT ![f] = Partial]
                  /\ Take(p, k)
        /\ UNCHANGED replaced

\* os.WriteFile, second half.  The CA is read back; the cookie key is used as it is.
Fill(p) ==
    LET f == loading[p]
    IN  /\ pc[p] = "fill"
        /\ \/ \E k \in Generated(f) :
                  /\ file' = [file EXCEPT ![f] = k]
                  /\ \/ /\ f = "ca"
                        /\ Goto(p, "read")
                        /\ UNCHANGED <<loading, used, path, done, polling, shared>>
                     \/ /\ f = "cookie"
                        /\ Take(p, k)
           \/ /\ file' = [file EXCEPT ![f] = Partial]
              /\ Vanish(p)
        /\ UNCHANGED replaced

\* A file that holds no key ends the process, and so does a CA that cannot be read.
Read(p) ==
    LET f == loading[p]
    IN  /\ \/ pc[p] = "read"
           \/ pc[p] = "look" /\ f = "cookie" /\ file[f] # Absent
        /\ \/ file[f] \in Keys /\ Take(p, file[f])
           \/ (file[f] \notin Keys \/ f = "ca") /\ Vanish(p)
        /\ UNCHANGED <<file, replaced>>

----------------------------------------------------------------------------
(* runServe: the monitor and the server, each in a goroutine.              *)

Launch(p) ==
    /\ pc[p] = "ready"
    /\ Goto(p, "listen")
    /\ polling' = [polling EXCEPT ![p] = TRUE]
    /\ UNCHANGED <<keys, path, done, shared>>

\* SIGINT or SIGTERM cancels the context.
Signal(p) ==
    /\ pc[p] \in Running \ {"ready"}
    /\ done' = [done EXCEPT ![p] = TRUE]
    /\ UNCHANGED <<keys, path, pc, polling, shared>>

\* Mutant: the failure of the server does not end the monitor.
LeaveQuietly(p, l) ==
    /\ Goto(p, l)
    /\ UNCHANGED done

\* ListenAndServe returns.  With an error it cancels the context; without one the
\* context is cancelled already.
LeaveTo(p, l) ==
    /\ Goto(p, l)
    /\ done' = [done EXCEPT ![p] = TRUE]

\* Mutant: whatever is at the path is removed.
StatAnything(p) ==
    /\ pc[p] = "listen"
    /\ Goto(p, IF path = "absent" THEN "bind" ELSE "remove")
    /\ UNCHANGED <<keys, path, done, polling, shared>>

\* listener: only a socket is removed.
Stat(p) ==
    /\ pc[p] = "listen"
    /\ \/ /\ path = "file"
          /\ LeaveTo(p, "left")
       \/ /\ path # "file"
          /\ Goto(p, IF path = "absent" THEN "bind" ELSE "remove")
          /\ UNCHANGED done
    /\ UNCHANGED <<keys, path, polling, shared>>

\* A socket that is gone by now is an error.
Remove(p) ==
    /\ pc[p] = "remove"
    /\ \/ /\ path # "absent"
          /\ path' = "absent"
          /\ Goto(p, "bind")
          /\ UNCHANGED done
       \/ /\ path = "absent"
          /\ LeaveTo(p, "left")
          /\ UNCHANGED path
    /\ UNCHANGED <<keys, polling, shared>>

\* Mutant: when the mode cannot be set, the listener is closed and served from.
BindRegardless(p) ==
    /\ pc[p] = "bind"
    /\ path = "absent"
    /\ Goto(p, "serve")
    /\ path' \in {p, "absent"}
    /\ UNCHANGED <<keys, done, polling, shared>>

\* net.Listen and os.Chmod, either of which may fail; nothing stays at the path then.
Bind(p) ==
    /\ pc[p] = "bind"
    /\ \/ /\ path = "absent"
          /\ path' = p
          /\ Goto(p, "serve")
          /\ UNCHANGED done
       \/ /\ LeaveTo(p, "left")
          /\ UNCHANGED path
    /\ UNCHANGED <<keys, polling, shared>>

\* Serve returns: Shutdown has closed the listener, which unlinks the path, or accept
\* has failed, and Serve closes the listener itself.
StopServing(p) ==
    /\ pc[p] = "serve"
    /\ Goto(p, "close")
    /\ path' = "absent"
    /\ UNCHANGED <<keys, done, polling, shared>>

Shutdown(p) == done[p] /\ StopServing(p)
ServeFails(p) == ~done[p] /\ StopServing(p)

\* The deferred cleanup removes what is at the path by now.
CleanUp(p) ==
    /\ pc[p] = "close"
    /\ LeaveTo(p, "left")
    /\ path' = "absent"
    /\ UNCHANGED <<keys, polling, shared>>

\* Monitor.Run
StopPolling(p) ==
    /\ polling[p]
    /\ done[p]
    /\ polling' = [polling EXCEPT ![p] = FALSE]
    /\ UNCHANGED <<keys, path, pc, done, shared>>

\* wg.Wait, and runServe returns.
Exit(p) ==
    /\ pc[p] = "left"
    /\ ~polling[p]
    /\ Vanish(p)
    /\ UNCHANGED <<file, replaced>>

----------------------------------------------------------------------------
Load(p) == FindNone(p) \/ FindCA(p) \/ Create(p) \/ Fill(p) \/ Read(p)
Serve(p) == Stat(p) \/ Remove(p) \/ Bind(p) \/ Shutdown(p) \/ CleanUp(p)

Next ==
    \/ \E p \in Procs : Start(p) \/ Crash(p) \/ Load(p)
    \/ \E s \in Servers : \/ Launch(s) \/ Signal(s) \/ Serve(s) \/ ServeFails(s)
                          \/ StopPolling(s) \/ Exit(s)

Spec == Init /\ [][Next]_vars

\* The goroutines run.  Nothing makes a process start, crash or fail.
Fairness ==
    \A s \in Servers : /\ WF_vars(Serve(s)) /\ WF_vars(StopPolling(s))
                       /\ WF_vars(Exit(s))

FairSpec == Spec /\ Fairness

----------------------------------------------------------------------------
(* Properties.                                                             *)

\* A key that was ever worked with is the one in its file, so that the next process
\* adopts it: no crash, failed write or restart lets a certificate or a cookie be
\* signed by a key that is lost, unless a process generates a file that exists by
\* then, because another one did so meanwhile, or because it was a cookie key that
\* could not be read (sshca.go 43-61, auth.go 181-202).
KeysSurvive == \A f \in Files : ~replaced[f] => used[f] \subseteq {file[f]}

\* A server that no other server meets can be reached while it serves: neither a
\* socket left by a crash nor the end of an earlier process is in its way
\* (server.go 123-190).
LoneServerIsReachable ==
    \A s \in Servers : ~shared[s] =>
        /\ pc[s] = "serve" => path = s
        /\ pc[s] = "bind" => path = "absent"
        /\ pc[s] = "remove" => path # "absent"

\* A file at the path of the socket that is not a socket is never removed
\* (server.go 160-169).
RealFileKept == [][path = "file" => path' = "file"]_vars

\* When the context is cancelled, or the server fails, the whole process ends
\* (main.go 180-194).
EndsTogether ==
    \A s \in Servers : done[s] \/ pc[s] \in {"close", "left"} ~> pc[s] = "down"

----------------------------------------------------------------------------
(* The inductive invariants.                                               *)

Filling(f) == {p \in Procs : pc[p] = "fill" /\ loading[p] = f}

\* A file that was never generated over has one writer at most, nobody has used a key
\* of it before that writer is through, and its key is kept afterwards (sshca.go
\* 43-61, auth.go 181-202).
KeysInv ==
    \A f \in Files : ~replaced[f] =>
        /\ used[f] \subseteq {file[f]}
        /\ \A p \in Filling(f) : file[f] = Partial /\ Filling(f) = {p}

\* No server gets past a file at the path; a server that no other one meets runs
\* alone, and finds the path as it has left it (server.go 123-190).
SocketInv ==
    /\ path = "file" => \A s \in Servers : pc[s] \notin {"remove", "bind", "serve", "close"}
    /\ \A s, q \in Servers : ~shared[s] /\ pc[s] # "down" /\ q # s => pc[q] = "down"
    /\ LoneServerIsReachable

============================================================================
