----------------------------- MODULE EventTail -----------------------------
(***************************************************************************)
(* What the live event stream promises to an agent that follows the audit  *)
(* log and resumes after a disconnection: it reads events of hosts it may  *)
(* see, in the order in which they were logged, and none twice.  Events    *)
(* may be missing: the log is bounded and the stream drops rather than     *)
(* waits.                                                                  *)
(***************************************************************************)
EXTENDS Naturals, Sequences

CONSTANTS Hosts, Clients, Sees

VARIABLES
    log,    \* the host of every event ever logged; the index is its ID
    got     \* the IDs that each client has read, in the order of reading

vars == <<log, got>>

Init ==
    /\ log = <<>>
    /\ got = [c \in Clients |-> <<>>]

Record ==
    /\ \E h \in Hosts : log' = Append(log, h)
    /\ UNCHANGED got

Read(c) ==
    /\ \E i \in DOMAIN log :
           /\ log[i] \in Sees[c]
           /\ \A j \in DOMAIN got[c] : got[c][j] < i
           /\ got' = [got EXCEPT ![c] = Append(@, i)]
    /\ UNCHANGED log

Next == Record \/ \E c \in Clients : Read(c)

Spec == Init /\ [][Next]_vars

============================================================================
